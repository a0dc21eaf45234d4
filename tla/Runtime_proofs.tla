---------------------------- MODULE Runtime_proofs ----------------------------
(***************************************************************************)
(* Invariants of the turn engine, for every project and every limit.       *)
(*                                                                         *)
(* Every operation of the engine on the frames is first shown to take a    *)
(* well shaped stack to a well shaped one that the engine may continue     *)
(* with (lemmas on Stays); the actions then only differ in which operation *)
(* they apply, and one inductive invariant carries all the theorems.       *)
(***************************************************************************)
EXTENDS Runtime, SequenceTheorems, SequencesExt, WellFoundedInduction, TLAPS

\* Base frames at the bottom only, callers of pushed flows marked.
Shape(s) ==
  /\ s \in Seq(Frame)
  /\ \A k \in 1..Len(s) : s[k].diagram \in Versions => k = 1
  /\ \A k \in 1..Len(s) : s[k].base <=> s[k].diagram \in Versions
  /\ \A k \in 1..Len(s) : s[k].via = "push" => k > 1 /\ s[k - 1].called

\* What a step of the loops may make of the frames s: still well shaped, at
\* most one more, the same program at the bottom, no caller touched.
Stays(s, t) ==
  /\ Shape(t)
  /\ Len(t) <= Len(s) + 1
  /\ t # << >> => t[1].diagram = s[1].diagram /\ t[1].base = s[1].base
  /\ \A k \in 1..Len(t) : k < Len(s) /\ k < Len(t) => t[k] = s[k]

\* Writing the fields the engine writes keeps a frame a frame.
LEMMA FrameNode ==
  ASSUME NEW g \in Frame, NEW n \in Nodes \cup {NULL, UNDEF}
  PROVE  [g EXCEPT !.node = n] \in Frame
  BY DEF Frame

LEMMA FrameCalled ==
  ASSUME NEW g \in Frame, NEW b \in BOOLEAN
  PROVE  [g EXCEPT !.called = b] \in Frame
  BY DEF Frame

LEMMA FrameMarkedAs ==
  ASSUME NEW g \in Frame, NEW b \in BOOLEAN
  PROVE  /\ [g EXCEPT !.called = b] \in Frame
         /\ [g EXCEPT !.called = b].diagram = g.diagram
         /\ [g EXCEPT !.called = b].base = g.base
         /\ [g EXCEPT !.called = b].called = b
         /\ [g EXCEPT !.called = b].via = g.via
  BY DEF Frame

LEMMA FrameMarked ==
  ASSUME NEW g \in Frame
  PROVE  /\ [g EXCEPT !.called = TRUE] \in Frame
         /\ [g EXCEPT !.called = TRUE].diagram = g.diagram
         /\ [g EXCEPT !.called = TRUE].base = g.base
         /\ [g EXCEPT !.called = TRUE].called
         /\ [g EXCEPT !.called = TRUE].via = g.via
  <1>1. TRUE \in BOOLEAN
    OBVIOUS
  <1>2. QED
    BY <1>1, FrameMarkedAs

LEMMA FrameHydratedAs ==
  ASSUME NEW g \in Frame, NEW b \in BOOLEAN
  PROVE  /\ [g EXCEPT !.hydrated = b] \in Frame
         /\ [g EXCEPT !.hydrated = b].diagram = g.diagram
         /\ [g EXCEPT !.hydrated = b].base = g.base
         /\ [g EXCEPT !.hydrated = b].called = g.called
         /\ [g EXCEPT !.hydrated = b].via = g.via
  BY DEF Frame

LEMMA FrameUnhydrated ==
  ASSUME NEW g \in Frame
  PROVE  /\ [g EXCEPT !.hydrated = FALSE] \in Frame
         /\ [g EXCEPT !.hydrated = FALSE].diagram = g.diagram
         /\ [g EXCEPT !.hydrated = FALSE].base = g.base
         /\ [g EXCEPT !.hydrated = FALSE].called = g.called
         /\ [g EXCEPT !.hydrated = FALSE].via = g.via
  <1>1. FALSE \in BOOLEAN
    OBVIOUS
  <1>2. QED
    BY <1>1, FrameHydratedAs

LEMMA FrameHydrated ==
  ASSUME NEW g \in Frame, NEW n \in Nodes \cup {NULL, UNDEF}, NEW b \in BOOLEAN
  PROVE  [g EXCEPT !.hydrated = b, !.known = b, !.node = n] \in Frame
  BY DEF Frame

LEMMA FramePrepared ==
  ASSUME NEW g \in Frame, NEW n \in Nodes \cup {NULL, UNDEF}, NEW b \in BOOLEAN
  PROVE  /\ [g EXCEPT !.node = n, !.known = b] \in Frame
         /\ [g EXCEPT !.node = n, !.known = b].diagram = g.diagram
         /\ [g EXCEPT !.node = n, !.known = b].base = g.base
         /\ [g EXCEPT !.node = n, !.known = b].via = g.via
         /\ [g EXCEPT !.node = n, !.known = b].node = n
  BY DEF Frame

\* A frame fresh from the constructor is a frame, not the base one and not the
\* child of a push command unless that is how it came.
LEMMA NewFrameType ==
  ASSUME NEW d \in Diagrams, NEW how \in {"root", "flow", "push", "jump"}
  PROVE  /\ NewFrame(d, how) \in Frame
         /\ NewFrame(d, how).diagram \notin Versions
         /\ ~NewFrame(d, how).base
         /\ NewFrame(d, how).via = how
  BY ProgramAssumption DEF NewFrame, Frame

\* setNodeID on the top frame writes that node id and nothing else.
LEMMA SetNodeIDStays ==
  ASSUME NEW s, Shape(s), s # << >>, NEW n \in Nodes \cup {NULL, UNDEF}
  PROVE  /\ Stays(s, SetNodeID(s, n))
         /\ Len(SetNodeID(s, n)) = Len(s)
         /\ \A k \in 1..Len(s) : /\ SetNodeID(s, n)[k].diagram = s[k].diagram
                                 /\ SetNodeID(s, n)[k].base = s[k].base
                                 /\ SetNodeID(s, n)[k].called = s[k].called
<1> DEFINE t == SetNodeID(s, n)
<1>1. Len(s) \in 1..Len(s)
  BY DEF Shape
<1> DEFINE f == [s[Len(s)] EXCEPT !.node = n]
<1>2. t \in Seq(Frame) /\ Len(t) = Len(s)
  <2>1. f \in Frame
    <3>1. s[Len(s)] \in Frame
      BY <1>1 DEF Shape
    <3>2. QED
      BY <3>1, FrameNode
  <2>2. t = [s EXCEPT ![Len(s)] = f]
    BY DEF SetNodeID
  <2>3. s \in Seq(Frame)
    BY DEF Shape
  <2>4. QED
    BY <1>1, <2>1, <2>2, <2>3, ExceptSeq
<1>3. \A k \in 1..Len(s) : /\ t[k].diagram = s[k].diagram
                           /\ t[k].base = s[k].base
                           /\ t[k].called = s[k].called
                           /\ t[k].via = s[k].via
                           /\ k < Len(s) => t[k] = s[k]
  BY <1>1 DEF Shape, SetNodeID, Frame
<1>4. QED
  BY <1>1, <1>2, <1>3 DEF Shape, Stays

\* popTo keeps the bottom of the stack as it is.
LEMMA PopToStays ==
  ASSUME NEW s, Shape(s), s # << >>, NEW n \in 0..Len(s)
  PROVE  /\ Stays(s, PopTo(s, n))
         /\ Len(PopTo(s, n)) = n
         /\ \A k \in 1..n : PopTo(s, n)[k] = s[k]
<1>1. PopTo(s, n) \in Seq(Frame) /\ Len(PopTo(s, n)) = n
  BY DEF Shape, PopTo
<1>2. \A k \in 1..n : PopTo(s, n)[k] = s[k]
  BY DEF Shape, PopTo
<1>3. QED
  BY <1>1, <1>2 DEF Shape, Stays

\* A frame that is not the base one and not pushed by a command can be put on
\* any stack.
LEMMA PushStays ==
  ASSUME NEW s, Shape(s), s # << >>, NEW f \in Frame,
         f.diagram \notin Versions, ~f.base, f.via = "push" => Top(s).called
  PROVE  /\ Stays(s, Push(s, f))
         /\ Len(Push(s, f)) = Len(s) + 1
         /\ Push(s, f)[Len(s) + 1] = f
         /\ \A k \in 1..Len(s) : Push(s, f)[k] = s[k]
<1>1. Push(s, f) \in Seq(Frame) /\ Len(Push(s, f)) = Len(s) + 1
  BY DEF Shape, Push
<1>2. Push(s, f)[Len(s) + 1] = f /\ \A k \in 1..Len(s) : Push(s, f)[k] = s[k]
  BY DEF Shape, Push
<1>3. Len(s) \in Nat \ {0}
  BY DEF Shape
<1>4. QED
  BY <1>1, <1>2, <1>3 DEF Shape, Stays, Top

\* hydrate marks the top frame and settles its node id.
LEMMA HydrateStays ==
  ASSUME NEW s, Shape(s), s # << >>, Top(s).diagram \in Diagrams
  PROVE  Stays(s, Hydrate(s)) /\ Len(Hydrate(s)) = Len(s) /\ Top(Hydrate(s)).diagram = Top(s).diagram
<1>1. CASE Top(s).hydrated
  BY <1>1 DEF Hydrate, Stays, Shape
<1>2. CASE ~Top(s).hydrated
  <2> DEFINE f == [s[Len(s)] EXCEPT !.hydrated = TRUE, !.known = TRUE,
                                    !.node = IF @ = UNDEF THEN StartNode[s[Len(s)].diagram] ELSE @]
             t == [s EXCEPT ![Len(s)] = f]
  <2>1. Len(s) \in 1..Len(s) /\ s \in Seq(Frame)
    BY DEF Shape
  <2>2. f \in Frame
    <3>1. s[Len(s)] \in Frame
      BY <2>1
    <3>2. s[Len(s)].node \in Nodes \cup {NULL, UNDEF}
      BY <3>1 DEF Frame
    <3>3. StartNode[s[Len(s)].diagram] \in Nodes
      BY ProgramAssumption DEF Top
    <3> DEFINE n == IF s[Len(s)].node = UNDEF THEN StartNode[s[Len(s)].diagram] ELSE s[Len(s)].node
    <3>4. n \in Nodes \cup {NULL, UNDEF}
      BY <3>2, <3>3
    <3>5. QED
      BY <3>1, <3>4, FrameHydrated
  <2>3. Hydrate(s) = t
    BY <1>2, <2>1, <2>2 DEF Hydrate, Top, Frame
  <2>4. t \in Seq(Frame) /\ Len(t) = Len(s)
    BY <2>1, <2>2, ExceptSeq
  <2>5. \A k \in 1..Len(s) : /\ t[k].diagram = s[k].diagram
                             /\ t[k].base = s[k].base
                             /\ t[k].called = s[k].called
                             /\ t[k].via = s[k].via
                             /\ k < Len(s) => t[k] = s[k]
    BY <2>1 DEF Frame
  <2>6. QED
    BY <2>1, <2>3, <2>4, <2>5 DEF Shape, Stays, Top
<1>3. QED
  BY <1>1, <1>2

\* frameDidFinish unmarks the frame on top; nothing can have been pushed on it.
LEMMA FrameDidFinishStays ==
  ASSUME NEW s, Shape(s)
  PROVE  /\ Shape(FrameDidFinish(s))
         /\ Len(FrameDidFinish(s)) = Len(s)
         /\ \A k \in 1..Len(s) : /\ FrameDidFinish(s)[k].diagram = s[k].diagram
                                 /\ FrameDidFinish(s)[k].base = s[k].base
                                 /\ k < Len(s) => FrameDidFinish(s)[k] = s[k]
<1>1. CASE s = << >>
  BY <1>1 DEF FrameDidFinish
<1>2. CASE s # << >>
  <2> DEFINE f == [s[Len(s)] EXCEPT !.called = FALSE]
             t == [s EXCEPT ![Len(s)] = f]
  <2>1. Len(s) \in 1..Len(s) /\ s \in Seq(Frame)
    BY <1>2 DEF Shape
  <2>2. f \in Frame
    <3>1. s[Len(s)] \in Frame
      BY <2>1
    <3>2. QED
      BY <3>1, FrameCalled
  <2>3. FrameDidFinish(s) = t
    BY <1>2 DEF FrameDidFinish
  <2>4. t \in Seq(Frame) /\ Len(t) = Len(s)
    BY <2>1, <2>2, ExceptSeq
  <2>5. \A k \in 1..Len(s) : /\ t[k].diagram = s[k].diagram
                             /\ t[k].base = s[k].base
                             /\ t[k].via = s[k].via
                             /\ k < Len(s) => t[k] = s[k]
    BY <2>1 DEF Frame
  <2>6. QED
    BY <2>1, <2>3, <2>4, <2>5 DEF Shape
<1>3. QED
  BY <1>1, <1>2

\* The pop at the end of a frame, with its event.
LEMMA FinishStays ==
  ASSUME NEW s, Shape(s), s # << >>
  PROVE  /\ Stays(s, FrameDidFinish(Pop(s)))
         /\ Len(FrameDidFinish(Pop(s))) = Len(s) - 1
         /\ \A k \in 1..(Len(s) - 1) : FrameDidFinish(Pop(s))[k].diagram = s[k].diagram
<1> DEFINE p == Pop(s)
<1>1. Len(s) - 1 \in 0..Len(s)
  BY DEF Shape
<1>2. Stays(s, p) /\ Len(p) = Len(s) - 1 /\ \A k \in 1..Len(p) : p[k] = s[k]
  BY <1>1, PopToStays DEF Pop
<1>3. Shape(p)
  BY <1>2 DEF Stays
<1>4. QED
  BY <1>1, <1>2, <1>3, FrameDidFinishStays DEF Stays

\* A later operation keeps what an earlier one, of the same length, had kept.
LEMMA StaysTrans ==
  ASSUME NEW s, NEW t, NEW u, Shape(s), s # << >>,
         Stays(s, t), Len(t) = Len(s), Stays(t, u)
  PROVE  Stays(s, u)
  BY DEF Stays, Shape

\* The frame the loop runs on, moved to the node the last handler returned.
LEMMA PositionStays ==
  ASSUME Shape(stack), stack # << >>, nextID \in NodeOrNull
  PROVE  /\ Stays(stack, Position)
         /\ Shape(Position)
         /\ Len(Position) = Len(stack)
         /\ Position # << >>
         /\ \A k \in 1..Len(stack) : /\ Position[k].diagram = stack[k].diagram
                                     /\ Position[k].base = stack[k].base
<1>1. CASE nextID = NULL
  BY <1>1 DEF Position, Stays, Shape
<1>2. CASE nextID # NULL
  <2>1. nextID \in Nodes \cup {NULL, UNDEF}
    BY DEF NodeOrNull
  <2>2. /\ Stays(stack, SetNodeID(stack, nextID))
        /\ Len(SetNodeID(stack, nextID)) = Len(stack)
        /\ \A k \in 1..Len(stack) : /\ SetNodeID(stack, nextID)[k].diagram = stack[k].diagram
                                    /\ SetNodeID(stack, nextID)[k].base = stack[k].base
    BY <2>1, SetNodeIDStays
  <2>3. Len(stack) \in Nat \ {0}
    BY DEF Shape
  <2>4. QED
    BY <1>2, <2>2, <2>3 DEF Position, Stays
<1>3. QED
  BY <1>1, <1>2

\* A stored stack is read back with the same frames, none hydrated.
LEMMA RestoreShape ==
  ASSUME NEW s, Shape(s)
  PROVE  /\ Shape(Restore(s))
         /\ Len(Restore(s)) = Len(s)
         /\ \A k \in 1..Len(s) : /\ Restore(s)[k].diagram = s[k].diagram
                                 /\ Restore(s)[k].base = s[k].base
<1> DEFINE t == Restore(s)
<1>1. s \in Seq(Frame) /\ Len(s) \in Nat /\ DOMAIN s = 1..Len(s)
  BY DEF Shape
<1>2. t = [k \in 1..Len(s) |-> [s[k] EXCEPT !.hydrated = FALSE]]
  BY <1>1 DEF Restore
<1>3. \A k \in 1..Len(s) : t[k] \in Frame
  <2>1. TAKE k \in 1..Len(s)
  <2>2. s[k] \in Frame
    BY <1>1
  <2>3. [s[k] EXCEPT !.hydrated = FALSE] \in Frame
    BY <2>2, FrameUnhydrated
  <2>4. QED
    BY <1>2, <2>3
<1>4. t \in Seq(Frame) /\ Len(t) = Len(s)
  <2>1. t \in [1..Len(s) -> Frame]
    BY <1>2, <1>3
  <2>2. QED
    BY <1>1, <2>1
<1>5. \A k \in 1..Len(s) : /\ t[k].diagram = s[k].diagram
                           /\ t[k].base = s[k].base
                           /\ t[k].called = s[k].called
                           /\ t[k].via = s[k].via
  <2>1. TAKE k \in 1..Len(s)
  <2>2. s[k] \in Frame
    BY <1>1
  <2>3. t[k] = [s[k] EXCEPT !.hydrated = FALSE]
    BY <1>2
  <2>4. QED
    BY <2>2, <2>3, FrameUnhydrated
<1>6. QED
  BY <1>1, <1>4, <1>5 DEF Shape

\* A frame of a prepared stack, as the runtime makes it one of its own.
Prepared(f) == [NewFrame(f.diagram, "root") EXCEPT !.node = f.node, !.known = f.known]

LEMMA PreparedFrame ==
  ASSUME NEW f \in ContextFrame
  PROVE  /\ Prepared(f) \in Frame /\ Prepared(f).diagram = f.diagram
         /\ Prepared(f).diagram \notin Versions /\ ~Prepared(f).base
         /\ Prepared(f).via = "root" /\ Prepared(f).node = f.node
<1>1. /\ f.diagram \in Diagrams /\ f.node \in Nodes \cup {NULL, UNDEF} /\ f.known \in BOOLEAN
      /\ f.diagram \notin Versions
  BY ProgramAssumption DEF ContextFrame, NodeOrNull
<1> DEFINE g == NewFrame(f.diagram, "root")
<1>2. g \in Frame /\ g.diagram \notin Versions /\ ~g.base /\ g.via = "root"
  BY <1>1, NewFrameType
<1>3. g.diagram = f.diagram
  BY DEF NewFrame
<1>4. Prepared(f) = [g EXCEPT !.node = f.node, !.known = f.known]
  BY DEF Prepared
<1> HIDE DEF g
<1>5. /\ [g EXCEPT !.node = f.node, !.known = f.known] \in Frame
      /\ [g EXCEPT !.node = f.node, !.known = f.known].diagram = g.diagram
      /\ [g EXCEPT !.node = f.node, !.known = f.known].base = g.base
      /\ [g EXCEPT !.node = f.node, !.known = f.known].via = g.via
      /\ [g EXCEPT !.node = f.node, !.known = f.known].node = f.node
  BY Zenon, <1>1, <1>2, FramePrepared
<1>6. /\ Prepared(f) \in Frame /\ Prepared(f).diagram = f.diagram
      /\ Prepared(f).base = g.base /\ Prepared(f).via = "root" /\ Prepared(f).node = f.node
  BY Zenon, <1>2, <1>3, <1>4, <1>5
<1> QED BY Zenon, <1>2, <1>3, <1>6

\* A stack made from scratch has no base program and no command on it.
LEMMA GeneratedShape ==
  ASSUME NEW v \in Versions
  PROVE  /\ Shape(Generated(v))
         /\ \A k \in 1..Len(Generated(v)) : ~Generated(v)[k].base
<1> DEFINE g == Generated(v)
<1>1. CASE Context[v] = NULL
  <2> DEFINE f == NewFrame(Root[v], "root")
  <2>1. f \in Frame /\ f.diagram \notin Versions /\ ~f.base /\ f.via = "root"
    BY NewFrameType, ProgramAssumption
  <2>2. g = <<f>>
    BY <1>1 DEF Generated
  <2> HIDE DEF f, g
  <2>3. g \in Seq(Frame) /\ Len(g) = 1 /\ g[1] = f
    BY <2>1, <2>2
  <2> QED BY <2>1, <2>3 DEF Shape, g
<1>2. CASE Context[v] # NULL
  <2> DEFINE c == Context[v]
  <2>1. c \in Seq(ContextFrame)
    BY <1>2, ProgramAssumption
  <2>2. g = [k \in DOMAIN c |-> Prepared(c[k])]
    BY <1>2 DEF Generated, Prepared
  <2> HIDE DEF c
  <2>3. Len(c) \in Nat /\ DOMAIN c = 1..Len(c) /\ \A k \in 1..Len(c) : c[k] \in ContextFrame
    BY <2>1
  <2>4. \A k \in 1..Len(c) : /\ Prepared(c[k]) \in Frame
                              /\ Prepared(c[k]).diagram \notin Versions
                              /\ ~Prepared(c[k]).base /\ Prepared(c[k]).via = "root"
    BY <2>3, PreparedFrame
  <2> HIDE DEF g
  <2>5. g \in [1..Len(c) -> Frame] /\ \A k \in 1..Len(c) : g[k] = Prepared(c[k])
    BY <2>2, <2>3, <2>4
  <2>6. g \in Seq(Frame) /\ Len(g) = Len(c)
    BY <2>3, <2>5
  <2> QED BY <2>4, <2>5, <2>6 DEF Shape, g
<1> QED BY <1>1, <1>2

\* The base program is put under a stack that does not have it.
LEMMA UnshiftShape ==
  ASSUME NEW s, Shape(s), NEW v \in Versions,
         s # << >> => s[1].diagram \notin Versions
  PROVE  /\ Shape(Unshift(s, BaseFrame(v)))
         /\ Len(Unshift(s, BaseFrame(v))) = Len(s) + 1
         /\ Unshift(s, BaseFrame(v))[1] = BaseFrame(v)
         /\ BaseFrame(v).diagram = v
<1> DEFINE b == BaseFrame(v)
           t == Unshift(s, b)
<1>1. b \in Frame /\ b.diagram = v /\ b.base /\ b.via = "base"
  BY DEF BaseFrame, Frame
<1>2. s \in Seq(Frame) /\ Len(s) \in Nat
  BY DEF Shape
<1>3. t \in Seq(Frame) /\ Len(t) = Len(s) + 1
  BY <1>1, <1>2 DEF Unshift
<1>4. t[1] = b /\ \A k \in 2..Len(t) : t[k] = s[k - 1]
  BY <1>1, <1>2, <1>3 DEF Unshift
<1>5. \A k \in 1..Len(s) : s[k].diagram \notin Versions
  BY DEF Shape
<1>6. \A k \in 1..Len(t) : /\ t[k].diagram \in Versions => k = 1
                           /\ t[k].base <=> t[k].diagram \in Versions
  <2>1. TAKE k \in 1..Len(t)
  <2>2. CASE k = 1
    BY <1>1, <1>4, <2>2
  <2>3. CASE k # 1
    <3>1. k \in 2..Len(t) /\ k - 1 \in 1..Len(s)
      BY <1>2, <1>3, <2>3
    <3>2. t[k] = s[k - 1]
      BY <1>4, <3>1
    <3>3. QED
      BY <1>5, <3>1, <3>2 DEF Shape
  <2>4. QED
    BY <2>2, <2>3
<1>7. \A k \in 1..Len(t) : t[k].via = "push" => k > 1 /\ t[k - 1].called
  <2>1. SUFFICES ASSUME NEW k \in 1..Len(t), t[k].via = "push"
                 PROVE  k > 1 /\ t[k - 1].called
    OBVIOUS
  <2>2. k # 1
    BY <1>1, <1>4, <2>1
  <2>3. k \in 2..Len(t) /\ k - 1 \in 1..Len(s) /\ s[k - 1].via = "push"
    BY <1>2, <1>3, <1>4, <2>1, <2>2
  <2>4. k - 1 > 1 /\ s[k - 2].called
    BY <1>2, <2>3 DEF Shape
  <2>5. QED
    BY <1>3, <1>4, <2>3, <2>4
<1>8. QED
  BY <1>1, <1>3, <1>4, <1>6, <1>7 DEF Shape

\* Dropping the top frames and then pushing at most one, whose node id is set.
LEMMA PopPushStays ==
  ASSUME NEW s, Shape(s), s # << >>, NEW k \in 1..Len(s),
         NEW f \in Frame, f.diagram \notin Versions, ~f.base, f.via # "push",
         NEW n \in Nodes \cup {NULL, UNDEF}
  PROVE  /\ Stays(s, SetNodeID(PopTo(s, k), n)) /\ SetNodeID(PopTo(s, k), n) # << >>
         /\ Stays(s, SetNodeID(Push(PopTo(s, k), f), n))
         /\ SetNodeID(Push(PopTo(s, k), f), n) # << >>
<1> DEFINE p == PopTo(s, k)
           u == Push(p, f)
<1>1. Len(s) \in Nat /\ k \in 0..Len(s)
  BY DEF Shape
<1>2. Stays(s, p) /\ Len(p) = k /\ \A m \in 1..k : p[m] = s[m]
  BY <1>1, PopToStays
<1>3. Shape(p) /\ p # << >>
  BY <1>2 DEF Stays
<1>4. Stays(p, SetNodeID(p, n)) /\ Len(SetNodeID(p, n)) = k
  BY <1>2, <1>3, SetNodeIDStays
<1>5. Stays(p, u) /\ Len(u) = k + 1 /\ \A m \in 1..k : u[m] = p[m]
  BY SMTT(20), <1>2, <1>3, PushStays
<1>6. Shape(u) /\ u # << >>
  BY <1>1, <1>5 DEF Stays
<1>7. Stays(u, SetNodeID(u, n)) /\ Len(SetNodeID(u, n)) = k + 1
  BY <1>5, <1>6, SetNodeIDStays
<1> HIDE DEF p, u
<1>8. Stays(s, SetNodeID(p, n)) /\ SetNodeID(p, n) # << >>
  BY <1>1, <1>2, <1>3, <1>4 DEF Stays
<1>9. Stays(s, SetNodeID(u, n)) /\ SetNodeID(u, n) # << >>
  BY <1>1, <1>2, <1>5, <1>6, <1>7 DEF Stays
<1>10. QED
  BY <1>8, <1>9 DEF p, u

\* Whatever a jump command does to the stack.
LEMMA JumpedStays ==
  ASSUME NEW s, Shape(s), s # << >>, NEW k \in 1..Len(s), NEW c \in Command
  PROVE  Stays(s, Jumped(s, k, c)) /\ Jumped(s, k, c) # << >>
<1>1. c.diagram \in Diagrams \cup {NULL} /\ c.next \in Nodes \cup {NULL, UNDEF}
  BY DEF Command, NodeOrNull
<1>2. CASE c.diagram # NULL /\ c.diagram # Top(PopTo(s, k)).diagram
  <2>1. c.diagram \in Diagrams
    BY <1>1, <1>2
  <2> DEFINE f == NewFrame(c.diagram, "jump")
  <2>2. f \in Frame /\ f.diagram \notin Versions /\ ~f.base /\ f.via # "push"
    BY <2>1, NewFrameType
  <2>3. Jumped(s, k, c) = SetNodeID(Push(PopTo(s, k), f), c.next)
    BY <1>2 DEF Jumped
  <2> HIDE DEF f
  <2>4. QED
    BY <1>1, <2>2, <2>3, PopPushStays
<1>3. CASE ~(c.diagram # NULL /\ c.diagram # Top(PopTo(s, k)).diagram)
  <2>1. Jumped(s, k, c) = SetNodeID(PopTo(s, k), c.next)
    BY <1>3 DEF Jumped
  <2>2. PICK d \in Diagrams : TRUE
    BY ProgramAssumption DEF Shape, Frame
  <2> DEFINE f == NewFrame(d, "jump")
  <2>3. f \in Frame /\ f.diagram \notin Versions /\ ~f.base /\ f.via # "push"
    BY NewFrameType
  <2> HIDE DEF f
  <2>4. QED
    BY <1>1, <2>1, <2>3, PopPushStays
<1>4. QED
  BY <1>2, <1>3

\* The interrupted frame is marked before the flow of a push command goes on it.
LEMMA PushedStays ==
  ASSUME NEW s, Shape(s), s # << >>, NEW c \in Command, c.diagram # NULL
  PROVE  Stays(s, Pushed(s, c)) /\ Pushed(s, c) # << >>
<1> DEFINE f == [s[Len(s)] EXCEPT !.called = TRUE]
           t == [s EXCEPT ![Len(s)] = f]
           g == NewFrame(c.diagram, "push")
<1>1. Len(s) \in 1..Len(s) /\ s \in Seq(Frame)
  BY DEF Shape
<1>2. /\ f \in Frame /\ f.diagram = s[Len(s)].diagram /\ f.base = s[Len(s)].base
      /\ f.called /\ f.via = s[Len(s)].via
  <2>1. s[Len(s)] \in Frame
    BY <1>1
  <2>2. QED
    BY <2>1, FrameMarked
<1>3. t \in Seq(Frame) /\ Len(t) = Len(s)
  BY <1>1, <1>2, ExceptSeq
<1>4. t[Len(s)] = f /\ \A k \in 1..Len(s) : k < Len(s) => t[k] = s[k]
  <2> HIDE DEF f
  <2>1. QED
    BY <1>1
<1>5. Stays(s, t)
  <2> HIDE DEF f, t
  <2>1. \A k \in 1..Len(s) : /\ t[k].diagram = s[k].diagram /\ t[k].base = s[k].base
                             /\ t[k].via = s[k].via /\ (s[k].called => t[k].called)
    BY <1>1, <1>2, <1>4
  <2>2. Shape(t)
    BY <1>1, <1>3, <2>1 DEF Shape
  <2>3. QED
    BY <1>1, <1>3, <1>4, <2>1, <2>2 DEF Stays
<1>6. g \in Frame /\ g.diagram \notin Versions /\ ~g.base
  <2>1. c.diagram \in Diagrams
    BY DEF Command
  <2>2. QED
    BY <2>1, NewFrameType
<1>7. Pushed(s, c) = Push(t, g)
  BY DEF Pushed
<1> HIDE DEF f, g, t
<1>8. Shape(t) /\ t # << >> /\ Top(t).called
  BY <1>1, <1>2, <1>3, <1>4, <1>5 DEF Stays, Top
<1>9. Stays(t, Push(t, g)) /\ Len(Push(t, g)) = Len(t) + 1
  BY <1>6, <1>8, PushStays
<1>10. QED
  BY <1>3, <1>5, <1>7, <1>8, <1>9, StaysTrans, <1>1 DEF Stays

-----------------------------------------------------------------------------
(* What every handler does to the engine.                                  *)

\* One iteration of cycleHandler, seen from outside the handler.
HandlerStep ==
  /\ pc = "loop"
  /\ Stays(stack, stack')
  /\ pc' \in {"loop", "leave"}
  /\ action' \in {"RUNNING", "END"}
  /\ nextID' \in NodeOrNull
  /\ changed' \in BOOLEAN
  /\ lastNode' \in Nodes
  /\ outcome' \in {outcome, "stopped", "exited", "threw"}
  /\ turnEnd' \in BOOLEAN
  /\ ends' \in {ends, ends + 1}
  /\ i' = Tick(i, HANDLER_OVERFLOW)
  /\ pc' = "loop" => action' # "END" /\ Len(stack') = Len(stack)
                     /\ Top(stack').diagram = Top(stack).diagram
  /\ action' # "END" => stack' # << >>
  /\ UNCHANGED <<version, request, depth, size>>

\* What the loop relies on when it gives a node to a handler.
LoopReady ==
  /\ Shape(stack) /\ stack # << >>
  /\ nextID \in NodeOrNull
  /\ action \in {"REQUEST", "RUNNING"}
  /\ turnEnd \in BOOLEAN

\* Handlers that return a node and leave the frames alone.
LEMMA ReturnsStep ==
  ASSUME LoopReady, pc = "loop", NEW n \in Nodes, NEW next \in NodeOrNull, Returns(n, next)
  PROVE  HandlerStep
<1>1. /\ Stays(stack, Position) /\ Len(Position) = Len(stack) /\ Position # << >>
      /\ \A k \in 1..Len(stack) : Position[k].diagram = stack[k].diagram
  BY PositionStays DEF LoopReady
<1>2. Len(stack) \in 1..Len(stack)
  BY DEF LoopReady, Shape
<1>3. Top(Position).diagram = Top(stack).diagram
  BY <1>1, <1>2 DEF Top
<1>4. action' \in {"RUNNING", "END"}
  BY DEF Returns, Handled, ActionAfter, LoopReady
<1>5. QED
  BY <1>1, <1>3, <1>4 DEF Returns, Handled, HandlerStep, LoopReady

\* Handlers that replace the frames.
LEMMA RestacksStep ==
  ASSUME LoopReady, pc = "loop", NEW n \in Nodes, NEW t, Restacks(n, t),
         Stays(stack, t), t # << >>
  PROVE  HandlerStep
<1>1. action' \in {"RUNNING", "END"}
  BY DEF Restacks, Handled, ActionAfter, LoopReady
<1>2. NULL \in NodeOrNull
  BY DEF NodeOrNull
<1>3. QED
  BY <1>1, <1>2 DEF Restacks, Handled, HandlerStep, LoopReady

\* A command the request matches.
LEMMA RunCommandStep ==
  ASSUME LoopReady, pc = "loop", NEW n \in Nodes, RunCommand(n)
  PROVE  HandlerStep
<1>1. /\ Stays(stack, Position) /\ Shape(Position)
      /\ Len(Position) = Len(stack) /\ Position # << >>
  BY PositionStays DEF LoopReady
<1> DEFINE cmd(k, j) == Commands[Position[k].diagram][j]
<1>2. PICK k \in DOMAIN Position : \E j \in DOMAIN Commands[Position[k].diagram] :
        \/ cmd(k, j).type = "jump" /\ Restacks(n, Jumped(Position, k, cmd(k, j)))
        \/ cmd(k, j).type = "push" /\ cmd(k, j).diagram # NULL
             /\ Restacks(n, Pushed(Position, cmd(k, j)))
        \/ cmd(k, j).type = "push" /\ cmd(k, j).diagram = NULL /\ Returns(n, NULL)
  BY DEF RunCommand
<1>3. k \in 1..Len(Position) /\ Position[k].diagram \in Diagrams \cup Versions
  <2>1. k \in 1..Len(Position) /\ Position[k] \in Frame
    BY <1>1 DEF Shape
  <2>2. QED
    BY <2>1 DEF Frame
<1>4. PICK j \in DOMAIN Commands[Position[k].diagram] :
        \/ cmd(k, j).type = "jump" /\ Restacks(n, Jumped(Position, k, cmd(k, j)))
        \/ cmd(k, j).type = "push" /\ cmd(k, j).diagram # NULL
             /\ Restacks(n, Pushed(Position, cmd(k, j)))
        \/ cmd(k, j).type = "push" /\ cmd(k, j).diagram = NULL /\ Returns(n, NULL)
  BY <1>2
<1>5. cmd(k, j) \in Command
  <2>1. Commands[Position[k].diagram] \in Seq(Command)
    BY <1>3, ProgramAssumption
  <2>2. QED
    BY <2>1
<1> HIDE DEF cmd
<1> DEFINE c == cmd(k, j)
<1>6. CASE Restacks(n, Jumped(Position, k, c))
  <2>1. Stays(Position, Jumped(Position, k, c)) /\ Jumped(Position, k, c) # << >>
    BY <1>1, <1>3, <1>5, JumpedStays
  <2>2. Stays(stack, Jumped(Position, k, c))
    BY <1>1, <2>1, StaysTrans DEF LoopReady
  <2>3. QED
    BY <1>6, <2>1, <2>2, RestacksStep
<1>7. CASE c.diagram # NULL /\ Restacks(n, Pushed(Position, c))
  <2>1. Stays(Position, Pushed(Position, c)) /\ Pushed(Position, c) # << >>
    BY <1>1, <1>5, <1>7, PushedStays
  <2>2. Stays(stack, Pushed(Position, c))
    BY <1>1, <2>1, StaysTrans DEF LoopReady
  <2>3. QED
    BY <1>7, <2>1, <2>2, RestacksStep
<1>8. CASE Returns(n, NULL)
  BY <1>8, ReturnsStep DEF NodeOrNull
<1>9. QED
  BY <1>4, <1>6, <1>7, <1>8

\* The ways out of a node are nodes or null.
LEMMA WaysOut ==
  ASSUME NEW n \in Nodes
  PROVE  /\ NextId[n] \in NodeOrNull /\ ElseId[n] \in NodeOrNull
         /\ n \in NodeOrNull /\ NULL \in NodeOrNull
         /\ \A e \in Events : Choice[n][e] # NoChoice => Choice[n][e] \in NodeOrNull
         /\ Target[n] \in Diagrams \cup {NULL}
  BY ProgramAssumption DEF NodeOrNull

\* A flow node puts its flow on top of its own frame.
LEMMA FlowStep ==
  ASSUME LoopReady, Flow
  PROVE  HandlerStep
<1>1. PICK n \in Nodes :
        /\ pc = "loop"
        /\ \/ Returns(n, NextId[n])
           \/ Target[n] # NULL
              /\ Restacks(n, Push(SetNodeID(Position, NextId[n]), NewFrame(Target[n], "flow")))
  BY DEF Flow, Runs, At
<1>2. CASE Returns(n, NextId[n])
  BY <1>1, <1>2, WaysOut, ReturnsStep
<1>3. CASE Target[n] # NULL
           /\ Restacks(n, Push(SetNodeID(Position, NextId[n]), NewFrame(Target[n], "flow")))
  <2> DEFINE p == SetNodeID(Position, NextId[n])
             f == NewFrame(Target[n], "flow")
  <2>1. /\ Stays(stack, Position) /\ Shape(Position)
        /\ Len(Position) = Len(stack) /\ Position # << >>
    BY PositionStays DEF LoopReady
  <2>2. NextId[n] \in Nodes \cup {NULL, UNDEF} /\ Target[n] \in Diagrams
    BY <1>3, WaysOut DEF NodeOrNull
  <2>3. Stays(Position, p) /\ Len(p) = Len(Position)
    BY <2>1, <2>2, SetNodeIDStays
  <2>4. f \in Frame /\ f.diagram \notin Versions /\ ~f.base /\ f.via # "push"
    BY <2>2, NewFrameType
  <2> HIDE DEF p, f
  <2>5. Stays(stack, p) /\ Len(p) = Len(stack)
    BY <2>1, <2>3, StaysTrans DEF LoopReady
  <2>6. Shape(p) /\ p # << >>
    BY <2>5 DEF Stays, LoopReady, Shape
  <2>7. Stays(p, Push(p, f)) /\ Len(Push(p, f)) = Len(p) + 1
    BY <2>4, <2>6, PushStays
  <2>8. Stays(stack, Push(p, f)) /\ Push(p, f) # << >>
    BY <2>5, <2>6, <2>7, StaysTrans DEF LoopReady, Shape
  <2>9. Restacks(n, Push(p, f))
    BY <1>3 DEF p, f
  <2>10. QED
    BY <1>1, <2>8, <2>9, RestacksStep
<1>4. QED
  BY <1>1, <1>2, <1>3

\* Some number of a set of them is the least.
LEMMA LeastNat ==
  ASSUME NEW T, T \subseteq Nat, T # {}
  PROVE  \E x \in T : \A y \in T : x <= y
<1>1. PICK x \in T : \A y \in T : ~ (<<y, x>> \in OpToRel(<, Nat))
  BY NatLessThanWellFounded, WFMin
<1>2. \A y \in T : y < x => <<y, x>> \in OpToRel(<, Nat)
  BY DEF OpToRel
<1>3. \A y \in T : ~(y < x) /\ x \in Nat /\ y \in Nat
  BY <1>1, <1>2
<1>4. \A y \in T : x <= y
  BY <1>3
<1>5. QED
  BY <1>4

\* A goto node keeps one frame of the stack at least.
LEMMA CutInside ==
  ASSUME NEW s, Shape(s), s # << >>, NEW d
  PROVE  AtLeastOne(FrameIndex(s, d)) \in 1..Len(s)
<1>1. DOMAIN s = 1..Len(s) /\ Len(s) \in Nat \ {0}
  BY DEF Shape
<1>2. FrameIndex(s, d) \in 0..Len(s)
  <2>1. CASE \E k \in DOMAIN s : s[k].diagram = d
    <3> DEFINE T == {m \in DOMAIN s : s[m].diagram = d}
    <3>1. T \subseteq Nat /\ T # {}
      BY <1>1, <2>1
    <3>2. PICK m \in T : \A y \in T : m <= y
      BY <3>1, LeastNat
    <3>3. \A j \in 1..(m - 1) : s[j].diagram # d
      BY <1>1, <3>2
    <3>4. FrameIndex(s, d) \in DOMAIN s
      BY <2>1, <3>2, <3>3 DEF FrameIndex
    <3> QED BY <1>1, <3>4
  <2>2. CASE ~(\E k \in DOMAIN s : s[k].diagram = d)
    BY <1>1, <2>2 DEF FrameIndex
  <2> QED BY <2>1, <2>2
<1> QED BY <1>1, <1>2 DEF AtLeastOne

\* A goto node cuts the stack before it pushes its diagram.
LEMMA GoToNodeStep ==
  ASSUME LoopReady, GoToNode
  PROVE  HandlerStep
<1> DEFINE to(n) == AtLeastOne(FrameIndex(Position, Target[n]))
           t(n) == SetNodeID(Push(PopTo(Position, to(n)), NewFrame(Target[n], "jump")), NextId[n])
<1>1. PICK n \in Nodes :
        /\ pc = "loop"
        /\ \/ Returns(n, NextId[n])
           \/ Target[n] # NULL /\ Restacks(n, t(n))
  BY DEF GoToNode, Runs, At
<1>2. CASE Returns(n, NextId[n])
  BY <1>1, <1>2, WaysOut, ReturnsStep
<1>3. CASE Target[n] # NULL /\ Restacks(n, t(n))
  <2>1. /\ Stays(stack, Position) /\ Shape(Position)
        /\ Len(Position) = Len(stack) /\ Position # << >>
    BY PositionStays DEF LoopReady
  <2>2. NextId[n] \in Nodes \cup {NULL, UNDEF} /\ Target[n] \in Diagrams
    BY <1>3, WaysOut DEF NodeOrNull
  <2> DEFINE f == NewFrame(Target[n], "jump")
  <2>3. f \in Frame /\ f.diagram \notin Versions /\ ~f.base /\ f.via # "push"
    BY <2>2, NewFrameType
  <2>4. to(n) \in 1..Len(Position)
    BY <2>1, CutInside
  <2> HIDE DEF f, to
  <2>5. Stays(Position, SetNodeID(Push(PopTo(Position, to(n)), f), NextId[n]))
        /\ SetNodeID(Push(PopTo(Position, to(n)), f), NextId[n]) # << >>
    BY <2>1, <2>2, <2>3, <2>4, PopPushStays
  <2>6. Stays(Position, t(n)) /\ t(n) # << >>
    BY <2>5 DEF f
  <2> HIDE DEF t
  <2>7. Stays(stack, t(n))
    BY <2>1, <2>6, StaysTrans DEF LoopReady
  <2>8. QED
    BY <1>1, <1>3, <2>6, <2>7, RestacksStep
<1>4. QED
  BY <1>1, <1>2, <1>3

\* A reset keeps the bottom frame and forgets its node.
LEMMA ResetStackStep ==
  ASSUME LoopReady, ResetStack
  PROVE  HandlerStep
<1> DEFINE t == SetNodeID(PopTo(Position, 1), UNDEF)
<1>1. PICK n \in Nodes : pc = "loop" /\ Restacks(n, t)
  BY DEF ResetStack, Runs, At
<1>2. /\ Stays(stack, Position) /\ Shape(Position)
      /\ Len(Position) = Len(stack) /\ Position # << >>
  BY PositionStays DEF LoopReady
<1>3. 1 \in 1..Len(Position) /\ 1 \in 0..Len(Position)
  BY <1>2 DEF Shape
<1> DEFINE p == PopTo(Position, 1)
<1>4. Stays(Position, p) /\ Len(p) = 1
  BY <1>2, <1>3, PopToStays
<1> HIDE DEF p
<1>5. Shape(p) /\ p # << >>
  BY <1>4 DEF Stays
<1>6. Stays(p, SetNodeID(p, UNDEF)) /\ Len(SetNodeID(p, UNDEF)) = 1
  BY <1>4, <1>5, SetNodeIDStays
<1>7. Stays(Position, t) /\ t # << >>
  <2> HIDE DEF t
  <2>1. t = SetNodeID(p, UNDEF)
    BY DEF t, p
  <2>2. Stays(p, t) /\ Len(t) = 1
    BY <1>6, <2>1
  <2>3. QED
    BY SMTT(20), <1>2, <1>3, <1>4, <2>2 DEF Stays, Shape
<1> HIDE DEF t
<1>8. Stays(stack, t)
  BY <1>2, <1>7, StaysTrans DEF LoopReady
<1>9. QED
  BY <1>1, <1>7, <1>8, RestacksStep

\* An exit drops the frame and every caller that waits on no node.
LEMMA EndStep ==
  ASSUME LoopReady, End
  PROVE  HandlerStep
<1>1. PICK n \in Nodes, k \in 0..Len(stack) :
        /\ pc = "loop" /\ EndsAbove(Position, k)
        /\ Handled(n, PopTo(Position, k), TRUE, NULL, TRUE)
        /\ turnEnd' = TRUE /\ ends' = ends + 1 /\ outcome' = "exited"
  BY DEF End, Runs, At
<1>2. /\ Stays(stack, Position) /\ Shape(Position)
      /\ Len(Position) = Len(stack) /\ Position # << >>
  BY PositionStays DEF LoopReady
<1>3. Stays(Position, PopTo(Position, k))
  BY <1>1, <1>2, PopToStays
<1>4. Stays(stack, PopTo(Position, k))
  BY <1>2, <1>3, StaysTrans DEF LoopReady
<1>5. action' = "END" /\ pc' = "leave"
  BY <1>1 DEF Handled, ActionAfter
<1>6. QED
  BY <1>1, <1>4, <1>5, WaysOut DEF Handled, HandlerStep

\* An exception: handlerDidCatch ends the turn where it is.
LEMMA ThrowStep ==
  ASSUME LoopReady, Throw
  PROVE  HandlerStep
<1>1. PICK n \in Nodes :
        /\ pc = "loop"
        /\ Handled(n, Position, FALSE, NULL, TRUE)
        /\ outcome' = "threw" /\ UNCHANGED <<turnEnd, ends>>
  BY DEF Throw, At
<1>2. Stays(stack, Position)
  BY PositionStays DEF LoopReady
<1>3. action' = "END" /\ pc' = "leave"
  BY <1>1 DEF Handled, ActionAfter
<1>4. QED
  BY <1>1, <1>2, <1>3, WaysOut DEF Handled, HandlerStep, LoopReady

\* Every handler is such a step.
LEMMA HandlersStep ==
  ASSUME LoopReady, request \in Events \cup {NULL, NoReply}, Handlers
  PROVE  HandlerStep
<1>1. CASE OneShot
  <2>1. PICK n \in Nodes : pc = "loop" /\ (RunCommand(n) \/ Returns(n, NextId[n]))
    BY <1>1 DEF OneShot, At
  <2>2. QED
    BY <2>1, WaysOut, RunCommandStep, ReturnsStep
<1>2. CASE Preliminary
  <2>1. PICK n \in Nodes : pc = "loop" /\ (RunCommand(n) \/ Returns(n, n))
    BY <1>2 DEF Preliminary, At
  <2>2. QED
    BY <2>1, WaysOut, RunCommandStep, ReturnsStep
<1>3. CASE Interaction
  <2>1. PICK n \in Nodes :
          /\ pc = "loop"
          /\ \/ RunCommand(n)
             \/ \E next \in NodeOrNull : Returns(n, next)
    <3>1. PICK n \in Nodes :
            /\ pc = "loop"
            /\ \/ RunCommand(n) \/ Returns(n, n) \/ Returns(n, ElseId[n])
               \/ /\ request \in Events /\ Choice[n][request] # NoChoice
                  /\ Returns(n, Choice[n][request])
      BY <1>3 DEF Interaction, At
    <3>2. QED
      BY <3>1, WaysOut
  <2>2. QED
    BY <2>1, RunCommandStep, ReturnsStep
<1>4. CASE GoTo
  <2>1. PICK n \in Nodes :
          pc = "loop" /\ (RunCommand(n) \/ Returns(n, n) \/ Returns(n, ElseId[n]))
    BY <1>4 DEF GoTo, At
  <2>2. QED
    BY <2>1, WaysOut, RunCommandStep, ReturnsStep
<1>5. CASE Step \/ Branch \/ Unhandled
  <2>1. PICK n \in Nodes :
          pc = "loop" /\ (Returns(n, NextId[n]) \/ Returns(n, ElseId[n]) \/ Returns(n, NULL))
    BY <1>5 DEF Step, Branch, Unhandled, Runs, At
  <2>2. QED
    BY <2>1, WaysOut, ReturnsStep
<1>6. CASE Card \/ Function \/ Custom \/ Condition
  <2>1. PICK n \in Nodes :
          /\ pc = "loop"
          /\ \/ RunCommand(n) \/ Returns(n, n) \/ Returns(n, NextId[n])
             \/ Returns(n, ElseId[n]) \/ Returns(n, NULL)
             \/ /\ request \in Events /\ Choice[n][request] # NoChoice
                /\ Returns(n, Choice[n][request])
    BY <1>6 DEF Card, Function, Custom, Condition, Answered, Runs, At
  <2>2. QED
    BY <2>1, WaysOut, RunCommandStep, ReturnsStep
<1>7. QED
  BY <1>1, <1>2, <1>3, <1>4, <1>5, <1>6, ThrowStep, FlowStep, GoToNodeStep, ResetStackStep,
     EndStep DEF Handlers

-----------------------------------------------------------------------------
(* The inductive invariant.                                                *)

\* The variables that are not the stack.
Scalars ==
  /\ version \in Versions
  /\ request \in Events \cup {NULL, NoReply}
  /\ action \in {"IDLE", "REQUEST", "RUNNING", "END"}
  /\ pc \in {"idle", "update", "stack", "loop", "leave", "close", "stuck"}
  /\ depth \in 0..(STACK_OVERFLOW + 1)
  /\ i \in 0..(HANDLER_OVERFLOW + 1)
  /\ nextID \in NodeOrNull
  /\ ends \in Nat
  /\ size \in Nat
  /\ lastNode \in NodeOrNull
  /\ outcome \in {"none", "running", "skipped", "stopped", "exited", "threw",
                  "timeout", "finished", "depth", "failed"}

Flags == changed \in BOOLEAN /\ turnEnd \in BOOLEAN

\* Where the turn is decides what action and depth can be.
Control ==
  /\ pc \in {"idle", "update"} => action = "IDLE"
  /\ pc = "stuck" => action # "END"
  /\ pc \in {"stack", "loop"} => action \in {"REQUEST", "RUNNING"}
  /\ pc = "leave" => action # "IDLE"
  /\ pc = "close" => action = "END"
  /\ pc \in {"loop", "leave"} => depth <= STACK_OVERFLOW

\* Where the turn is decides what the stack can be.
Frames ==
  /\ pc # "idle" /\ stack # << >> /\ stack[1].base => stack[1].diagram = version
  /\ pc = "loop" => stack # << >>
  /\ pc = "leave" /\ action # "END" => stack # << >>
  /\ pc = "loop" => Top(stack).diagram \in Diagrams
  /\ BoundedGrowth

IInv == Scalars /\ Flags /\ Shape(stack) /\ Control /\ Frames

\* The first state.
LEMMA InitIInv == Init => IInv
<1> SUFFICES ASSUME Init PROVE IInv
  OBVIOUS
<1>1. Scalars
  BY LimitAssumption DEF Init, Scalars, NodeOrNull
<1>2. Flags
  BY Zenon DEF Init, Flags
<1>3. Shape(stack)
  BY DEF Init, Shape
<1>4. Control /\ Frames
  BY DEF Init, Control, Frames, BoundedGrowth, Live
<1>5. QED
  BY <1>1, <1>2, <1>3, <1>4 DEF IInv

\* Handlers and the exits of their loop.
LEMMA LoopIInv ==
  ASSUME IInv, pc = "loop", HandlerStep
  PROVE  IInv'
<1>1. Scalars'
  <2>1. i' \in 0..(HANDLER_OVERFLOW + 1)
    BY LimitAssumption DEF IInv, Scalars, HandlerStep, Tick
  <2>2. QED
    BY <2>1 DEF IInv, Scalars, HandlerStep, NodeOrNull
<1>2. Flags'
  BY DEF Flags, HandlerStep
<1>3. Shape(stack)'
  BY DEF HandlerStep, Stays
<1>4. Control'
  BY DEF IInv, Control, HandlerStep
<1>5. Frames'
  <2>1. Len(stack) \in Nat \ {0} /\ Len(stack') \in Nat /\ Len(stack') <= Len(stack) + 1
    BY DEF IInv, Shape, Frames, HandlerStep, Stays
  <2>2. Len(stack) <= size + depth /\ size \in Nat /\ depth \in Nat
    BY DEF IInv, Frames, BoundedGrowth, Live, Scalars
  <2>3. BoundedGrowth'
    BY <2>1, <2>2 DEF BoundedGrowth, Live, HandlerStep
  <2>4. stack' # << >> /\ stack'[1].base => stack'[1].diagram = version'
    BY <2>1 DEF IInv, Frames, HandlerStep, Stays, Shape
  <2>5. pc' = "loop" => stack' # << >> /\ Top(stack').diagram \in Diagrams
    BY DEF IInv, Frames, HandlerStep
  <2>6. QED
    BY <2>3, <2>4, <2>5 DEF Frames, HandlerStep, Top
<1>6. QED
  BY <1>1, <1>2, <1>3, <1>4, <1>5 DEF IInv

\* A turn begins.
LEMMA StartTurnIInv ==
  ASSUME IInv, NEW v \in Versions, NEW req \in Requests, StartTurn(v, req)
  PROVE  IInv'
<1>1. Scalars'
  <2>1. request' \in Events \cup {NULL, NoReply}
    BY DEF StartTurn, Requests
  <2>2. pc' \in {"idle", "update"} /\ outcome' \in {"skipped", "running"} /\ version' \in Versions
    BY DEF StartTurn
  <2>3. QED
    BY <2>1, <2>2 DEF IInv, Scalars, StartTurn, NodeOrNull
<1>2. Flags'
  BY Zenon DEF IInv, Flags, StartTurn
<1>3. /\ Shape(stack')
      /\ stack' # << >> /\ stack'[1].base => stack'[1].diagram = v
  <2>1. stack' = PreparedStack(stack, v, req = "launch")
    BY DEF StartTurn
  <2>2. CASE stack' = Generated(v)
    <3>1. Shape(stack') /\ \A k \in 1..Len(stack') : ~stack'[k].base
      BY <2>2, GeneratedShape
    <3> QED BY <3>1 DEF Shape
  <2>3. CASE stack' = Restore(stack) /\ ~VersionChanged(stack, v) /\ stack # << >>
    <3>1. /\ Shape(stack') /\ Len(stack') = Len(stack)
          /\ \A k \in 1..Len(stack) : /\ stack'[k].diagram = stack[k].diagram
                                      /\ stack'[k].base = stack[k].base
      BY <2>3, RestoreShape DEF IInv
    <3>2. 1 \in 1..Len(stack)
      BY <2>3 DEF IInv, Shape
    <3>3. stack[1].base => stack[1].diagram = v
      BY <2>3 DEF VersionChanged
    <3>4. QED
      BY <3>1, <3>2, <3>3 DEF Shape
  <2>4. QED
    BY <2>1, <2>2, <2>3 DEF PreparedStack
<1>4. Control'
  BY DEF IInv, Control, StartTurn
<1>5. Frames'
  BY <1>3 DEF Frames, BoundedGrowth, Live, StartTurn
<1>6. QED
  BY <1>1, <1>2, <1>3, <1>4, <1>5 DEF IInv

\* update() begins the cycles.
LEMMA UpdateIInv ==
  ASSUME IInv, NEW loaded \in BaseLoads, Update(loaded)
  PROVE  IInv'
<1>1. Shape(stack) /\ (stack # << >> /\ stack[1].base => stack[1].diagram = version)
  BY DEF IInv, Frames, Update
<1>2. /\ Shape(stack')
      /\ stack' # << >> /\ stack'[1].base => stack'[1].diagram = version
  <2>1. stack' = Injected(stack, version, loaded)
    BY DEF Update
  <2>2. CASE stack' = stack
    BY <1>1, <2>2
  <2>3. CASE /\ stack # << >> => stack[1].diagram # version
             /\ stack' = Unshift(stack, BaseFrame(version))
    <3>1. stack # << >> => stack[1].diagram \notin Versions
      BY <1>1, <2>3 DEF Shape
    <3>2. version \in Versions
      BY DEF IInv, Scalars
    <3>3. /\ Shape(stack') /\ Len(stack') = Len(stack) + 1
          /\ stack'[1] = BaseFrame(version) /\ BaseFrame(version).diagram = version
      BY <1>1, <2>3, <3>1, <3>2, UnshiftShape
    <3>4. QED
      BY <1>1, <3>3 DEF Shape
  <2>4. QED
    BY <2>1, <2>2, <2>3 DEF Injected
<1>3. size' = Len(stack') /\ size' \in Nat /\ depth' = 0
  BY <1>2 DEF Shape, Update
<1>4. Scalars'
  BY <1>3, LimitAssumption DEF IInv, Scalars, Update, NodeOrNull
<1>5. Flags'
  BY Zenon DEF IInv, Flags, Update
<1>6. Control'
  BY DEF Control, Update
<1>7. Frames'
  BY <1>2, <1>3 DEF Frames, BoundedGrowth, Live, Update
<1>8. QED
  BY <1>2, <1>4, <1>5, <1>6, <1>7 DEF IInv

\* The turn ends before a frame is entered, or after its handlers.
LEMMA StopIInv ==
  ASSUME IInv, StopCycle \/ ReachBase
  PROVE  IInv'
<1>1. Scalars'
  BY DEF IInv, Scalars, StopCycle, ReachBase
<1>2. Flags'
  BY Zenon DEF IInv, Flags, StopCycle, ReachBase
<1>3. Shape(stack')
  <2>1. CASE stack' = stack
    BY <2>1 DEF IInv
  <2>2. CASE stack' = << >>
    BY <2>2 DEF Shape
  <2>3. QED
    BY <2>1, <2>2 DEF StopCycle, ReachBase
<1>4. Control'
  BY DEF IInv, Control, StopCycle, ReachBase
<1>5. Frames'
  <2>1. CASE StopCycle
    BY <2>1 DEF IInv, Shape, Scalars, Frames, BoundedGrowth, Live, StopCycle
  <2>2. CASE ReachBase
    BY <2>2 DEF IInv, Scalars, Frames, BoundedGrowth, Live, ReachBase
  <2>3. QED
    BY <2>1, <2>2
<1>6. QED
  BY <1>1, <1>2, <1>3, <1>4, <1>5 DEF IInv

\* The runtime is dropped.
LEMMA DropIInv ==
  ASSUME IInv, LoadFails \/ CloseTurn
  PROVE  IInv'
<1>1. Scalars'
  <2>1. ends' \in Nat
    BY DEF IInv, Scalars, LoadFails, CloseTurn
  <2>2. outcome' \in {outcome, "failed"} /\ UNCHANGED <<version, lastNode>> /\ Dropped
    BY DEF LoadFails, CloseTurn
  <2>3. QED
    BY <2>1, <2>2, LimitAssumption DEF IInv, Scalars, Dropped, NodeOrNull
<1>2. Flags'
  BY Zenon DEF IInv, Flags, LoadFails, CloseTurn, Dropped
<1>3. Shape(stack')
  BY DEF IInv, LoadFails, CloseTurn
<1>4. Control' /\ Frames'
  BY DEF Control, Frames, BoundedGrowth, Live, LoadFails, CloseTurn, Dropped
<1>5. QED
  BY <1>1, <1>2, <1>3, <1>4 DEF IInv

\* What cycleStack knows when it gets to the frame on top.
LEMMA EnterFrameFacts ==
  ASSUME IInv, EnterFrame
  PROVE  /\ stack # << >> /\ Top(stack).diagram \in Diagrams
         /\ Stays(stack, stack') /\ Len(stack') = Len(stack)
         /\ Top(stack').diagram = Top(stack).diagram
<1>1. stack # << >> /\ Top(stack).diagram # version /\ Owner(Top(stack).diagram) = version
  BY DEF EnterFrame, BaseOnTop
<1>2. Top(stack).diagram \in Diagrams
  <2>1. Len(stack) \in 1..Len(stack) /\ stack \in Seq(Frame)
    BY <1>1 DEF IInv, Shape
  <2>2. Top(stack) \in Frame
    BY <2>1 DEF Top
  <2>3. QED
    BY <1>1, <2>2 DEF Frame, Owner
<1>3. stack' = Hydrate(stack)
  BY DEF EnterFrame
<1>4. QED
  BY <1>1, <1>2, <1>3, HydrateStays DEF IInv

\* A frame is entered.
LEMMA EnterIInv ==
  ASSUME IInv, EnterFrame
  PROVE  IInv'
<1>1. Scalars'
  BY LimitAssumption DEF IInv, Scalars, EnterFrame, NodeOrNull
<1>2. Flags'
  BY Zenon DEF IInv, Flags, EnterFrame
<1>3. Shape(stack')
  BY EnterFrameFacts DEF Stays
<1>4. Control'
  BY LimitAssumption DEF IInv, Scalars, Control, EnterFrame, DepthExhausted
<1>5. Frames'
  <2>1. Len(stack) \in Nat \ {0} /\ Len(stack') = Len(stack)
    BY EnterFrameFacts DEF IInv, Shape
  <2>2. BoundedGrowth'
    BY <2>1 DEF IInv, Frames, BoundedGrowth, Live, EnterFrame
  <2>3. stack' # << >> /\ (stack'[1].base => stack'[1].diagram = version')
    BY <2>1, EnterFrameFacts DEF IInv, Frames, Stays, Shape, EnterFrame
  <2>4. Top(stack').diagram \in Diagrams
    BY EnterFrameFacts
  <2>5. QED
    BY <2>2, <2>3, <2>4 DEF Frames, EnterFrame, Top
<1>6. QED
  BY <1>1, <1>2, <1>3, <1>4, <1>5 DEF IInv

\* What cycleStack does with a frame whose handlers are through.
LEMMA LeaveFrameFacts ==
  ASSUME IInv, LeaveFrame
  PROVE  /\ Shape(stack')
         /\ stack' = stack \/ (stack # << >> /\ Len(stack') = Len(stack) - 1)
         /\ stack # << >> => Stays(stack, stack')
         /\ action = "END" => stack' = stack
<1>1. CASE stack' = stack
  BY <1>1 DEF IInv, Stays, Shape
<1>2. CASE action # "END" /\ stack' = FrameDidFinish(Pop(stack))
  <2>1. stack # << >>
    BY <1>2 DEF IInv, Frames, LeaveFrame
  <2>2. QED
    BY <1>2, <2>1, FinishStays DEF IInv, Stays
<1>3. QED
  BY <1>1, <1>2 DEF LeaveFrame

\* A frame is left.
LEMMA LeaveIInv ==
  ASSUME IInv, LeaveFrame
  PROVE  IInv'
<1>1. Scalars'
  <2>1. depth' \in 0..(STACK_OVERFLOW + 1) /\ pc' \in {"close", "stack"}
    BY LimitAssumption DEF IInv, Scalars, LeaveFrame, Tick
  <2>2. QED
    BY <2>1 DEF IInv, Scalars, LeaveFrame, history
<1>2. Flags'
  BY Zenon DEF IInv, Flags, LeaveFrame
<1>3. Control'
  BY DEF IInv, Scalars, Control, LeaveFrame
<1>4. Frames'
  <2>1. Len(stack) \in Nat /\ Len(stack') <= Len(stack) /\ Len(stack') \in Nat
    BY LeaveFrameFacts DEF IInv, Shape
  <2>2. /\ depth \in Nat /\ depth <= STACK_OVERFLOW /\ size \in Nat
        /\ Len(stack) <= size + depth + 1 /\ size' = size
    BY DEF IInv, Scalars, Control, Frames, BoundedGrowth, Live, LeaveFrame, history
  <2>3. BoundedGrowth'
    <3>1. CASE action = "END"
      BY <2>1, <2>2, <3>1 DEF BoundedGrowth, Live, LeaveFrame
    <3>2. CASE action # "END"
      <4>1. depth' = depth + 1
        BY <2>2, <3>2, LimitAssumption DEF LeaveFrame, Tick
      <4>2. QED
        BY <2>1, <2>2, <3>2, <4>1 DEF BoundedGrowth, Live, LeaveFrame
    <3>3. QED
      BY <3>1, <3>2
  <2>4. stack' # << >> /\ stack'[1].base => stack'[1].diagram = version'
    <3>1. version' = version /\ pc # "idle"
      BY DEF LeaveFrame
    <3>2. CASE stack' = stack
      BY <3>1, <3>2 DEF IInv, Frames
    <3>3. CASE stack # << >>
      BY <3>1, <3>3, LeaveFrameFacts DEF IInv, Frames, Stays
    <3>4. QED
      BY <3>2, <3>3, LeaveFrameFacts
  <2>5. QED
    BY <2>3, <2>4 DEF Frames, LeaveFrame
<1>5. QED
  BY <1>1, <1>2, <1>3, <1>4, LeaveFrameFacts DEF IInv

\* The loop stops before a handler.
LEMMA LoopExitIInv ==
  ASSUME IInv, GiveUp \/ Timeout \/ NoNode
  PROVE  IInv'
<1>1. Scalars'
  BY DEF IInv, Scalars, GiveUp, Timeout, NoNode, history, NodeOrNull
<1>2. Flags'
  BY Zenon DEF IInv, Flags, GiveUp, Timeout, NoNode
<1>3. stack # << >> /\ pc = "loop" /\ pc' = "leave"
  BY DEF IInv, Frames, GiveUp, Timeout, NoNode
<1>4. /\ Shape(stack') /\ Len(stack') = Len(stack) /\ Stays(stack, stack')
  <2>1. stack' = stack \/ stack' = Position
    BY DEF GiveUp, Timeout, NoNode
  <2>2. Stays(stack, Position) /\ Len(Position) = Len(stack)
    BY <1>3, PositionStays DEF IInv, Scalars
  <2>3. QED
    BY <2>1, <2>2 DEF IInv, Stays, Shape
<1>5. Control'
  BY DEF IInv, Control, GiveUp, Timeout, NoNode
<1>6. Frames'
  <2>1. Len(stack) \in Nat \ {0}
    BY <1>3 DEF IInv, Shape
  <2>2. Len(stack) <= size + depth /\ size \in Nat /\ depth \in Nat
    BY <1>3 DEF IInv, Scalars, Frames, BoundedGrowth, Live
  <2>3. UNCHANGED <<version, depth, size>>
    BY DEF GiveUp, Timeout, NoNode, history
  <2>4. stack' # << >> /\ (stack'[1].base => stack'[1].diagram = version')
    BY <1>3, <1>4, <2>1, <2>3 DEF IInv, Frames, Stays, Shape
  <2>5. BoundedGrowth'
    BY <1>3, <1>4, <2>1, <2>2, <2>3 DEF BoundedGrowth, Live
  <2>6. QED
    BY <1>3, <2>4, <2>5 DEF Frames
<1>7. QED
  BY <1>1, <1>2, <1>4, <1>5, <1>6 DEF IInv

\* What the turn awaits never settles.
LEMMA HangIInv ==
  ASSUME IInv, Hang
  PROVE  IInv'
<1>1. /\ pc \in {"update", "stack", "loop"} /\ pc' = "stuck"
      /\ UNCHANGED <<stack, version, request, action, depth, i, nextID, changed, turnEnd, history>>
  BY DEF Hang, Awaits, At
<1>2. Flags'
  BY Zenon, <1>1 DEF IInv, Flags
<1>3. Scalars' /\ Shape(stack') /\ Control'
  BY <1>1 DEF IInv, Scalars, Control, history
<1>4. Frames'
  BY <1>1 DEF IInv, Frames, BoundedGrowth, Live
<1> QED BY <1>2, <1>3, <1>4 DEF IInv

\* No step leaves the invariant.
LEMMA NextIInv == IInv /\ [Next]_vars => IInv'
<1> SUFFICES ASSUME IInv, [Next]_vars PROVE IInv'
  OBVIOUS
<1>1. ASSUME NEW v \in Versions, NEW req \in Requests, StartTurn(v, req) PROVE IInv'
  BY <1>1, StartTurnIInv
<1>2. ASSUME NEW loaded \in BaseLoads, Update(loaded) PROVE IInv'
  BY <1>2, UpdateIInv
<1>3. CASE Handlers
  <2>1. pc = "loop"
    BY <1>3 DEF Handlers, OneShot, Preliminary, Interaction, GoTo, Card, Function,
                Custom, Condition, Step, Branch, Throw, Unhandled, Flow, GoToNode, ResetStack,
                End, Runs, At
  <2>2. HandlerStep
    BY <1>3, <2>1, HandlersStep DEF IInv, Scalars, Flags, Control, Frames, LoopReady
  <2>3. QED
    BY <2>1, <2>2, LoopIInv
<1>4. CASE UNCHANGED vars
  BY <1>4 DEF IInv, Scalars, Flags, Shape, Control, Frames, BoundedGrowth, Live, vars, engine, history
<1>5. QED
  BY <1>1, <1>2, <1>3, <1>4, StopIInv, DropIInv, EnterIInv, LeaveIInv, LoopExitIInv, HangIInv
     DEF Next, Engine, Forsaken

\* The inductive invariant holds in every reachable state.
THEOREM Inductive == Spec => []IInv
  BY InitIInv, NextIInv, PTL DEF Spec

-----------------------------------------------------------------------------
(* What follows from it.                                                   *)

\* Every variable keeps its type, for every project and both limits.
THEOREM TypeCorrect == Spec => []TypeOK
<1>1. IInv => TypeOK
  BY DEF IInv, Scalars, Flags, Shape, TypeOK
<1>2. QED
  BY <1>1, Inductive, PTL

\* The base program is only ever at the bottom, of the right version, and is
\* never run (injectBaseProgram, StateManager.handle, cycleStack).
THEOREM BaseStaysAtBottom == Spec => []BaseAtBottom
<1>1. IInv => BaseAtBottom
  <2> SUFFICES ASSUME IInv PROVE BaseAtBottom
    OBVIOUS
  <2>1. \A k \in DOMAIN stack : stack[k].diagram \in Versions => k = 1 /\ stack[k].base
    BY DEF IInv, Shape
  <2>2. Live /\ stack # << >> /\ stack[1].base => stack[1].diagram = version
    BY DEF IInv, Frames, Live
  <2>3. pc = "loop" => stack # << >> /\ Top(stack).diagram # version /\ ~Top(stack).base
    <3>1. SUFFICES ASSUME pc = "loop"
                   PROVE  stack # << >> /\ Top(stack).diagram # version /\ ~Top(stack).base
      OBVIOUS
    <3>2. stack # << >> /\ Top(stack).diagram \in Diagrams /\ version \in Versions
      BY <3>1 DEF IInv, Frames, Scalars
    <3>3. Top(stack).diagram \notin Versions
      BY <3>2, ProgramAssumption
    <3>4. ~Top(stack).base
      <4>1. Len(stack) \in 1..Len(stack)
        BY <3>2 DEF IInv, Shape
      <4>2. QED
        BY <3>3, <4>1 DEF IInv, Shape, Top
    <3>5. QED
      BY <3>2, <3>3, <3>4
  <2>4. QED
    BY <2>1, <2>2, <2>3 DEF BaseAtBottom
<1>2. QED
  BY <1>1, Inductive, PTL

\* However flows call each other, a turn adds at most one frame per cycle.
THEOREM GrowthIsBounded == Spec => []BoundedGrowth
<1>1. IInv => BoundedGrowth
  BY DEF IInv, Frames
<1>2. QED
  BY <1>1, Inductive, PTL

\* A flow pushed by a command always has a marked caller under it.
THEOREM CallerStaysMarked == Spec => []CallerMarked
<1>1. IInv => CallerMarked
  BY DEF IInv, Shape, CallerMarked
<1>2. QED
  BY <1>1, Inductive, PTL

\* After END no node is handled and no frame is written.
THEOREM EndIsFinal == Spec => EndedIsFinal
<1>1. IInv /\ [Next]_vars =>
        [action = "END" => stack' = stack /\ lastNode' = lastNode /\ action' \in {"END", "IDLE"}]_vars
  <2> SUFFICES ASSUME IInv, Next, action = "END"
               PROVE  stack' = stack /\ lastNode' = lastNode /\ action' \in {"END", "IDLE"}
    OBVIOUS
  <2>1. pc \in {"leave", "close"}
    BY DEF IInv, Scalars, Control
  <2>2. LeaveFrame \/ CloseTurn
    BY <2>1 DEF Next, Engine, StartTurn, Update, StopCycle, ReachBase, LoadFails, EnterFrame,
                GiveUp, Timeout, NoNode, Hang, Awaits, Forsaken, Handlers, OneShot, Preliminary,
                Interaction, GoTo, Card, Function, Custom, Condition, Step, Branch, Throw,
                Unhandled, Flow, GoToNode, ResetStack, End, Runs, At
  <2>3. QED
    BY <2>2 DEF LeaveFrame, CloseTurn, Dropped, history
<1>2. QED
  BY <1>1, Inductive, PTL DEF Spec, EndedIsFinal

\* No step of a turn writes a frame below the top.
THEOREM CallersStayUntouched == Spec => CallersUntouched
<1>1. IInv /\ [Next]_vars =>
        [Live => \A k \in DOMAIN stack \cap DOMAIN stack' :
                   k < Len(stack) /\ k < Len(stack') => stack'[k] = stack[k]]_vars
  <2> SUFFICES ASSUME IInv, Next, Live
               PROVE  \A k \in DOMAIN stack \cap DOMAIN stack' :
                        k < Len(stack) /\ k < Len(stack') => stack'[k] = stack[k]
    OBVIOUS
  <2>1. CASE stack' = stack
    BY <2>1
  <2>2. CASE stack' = << >>
    BY <2>2
  <2>3. CASE Stays(stack, stack')
    BY <2>3 DEF Stays, Shape
  <2>4. CASE Handlers
    <3>1. pc = "loop"
      BY <2>4 DEF Handlers, OneShot, Preliminary, Interaction, GoTo, Card, Function,
                  Custom, Condition, Step, Branch, Throw, Unhandled, Flow, GoToNode,
                  ResetStack, End, Runs, At
    <3>2. HandlerStep
      BY <2>4, <3>1, HandlersStep DEF IInv, Scalars, Flags, Control, Frames, LoopReady
    <3>3. QED
      BY <2>3, <3>2 DEF HandlerStep
  <2>5. CASE NoNode
    <3>1. Stays(stack, Position)
      BY <2>5, PositionStays DEF NoNode, IInv, Scalars, Frames
    <3>2. QED
      BY <2>3, <2>5, <3>1 DEF NoNode
  <2>6. CASE EnterFrame
    BY <2>3, <2>6, EnterFrameFacts
  <2>7. CASE LeaveFrame
    BY <2>1, <2>3, <2>7, LeaveFrameFacts
  <2>8. CASE ReachBase
    BY <2>2, <2>8 DEF ReachBase
  <2>9. CASE StopCycle \/ LoadFails \/ CloseTurn \/ GiveUp \/ Timeout \/ Hang
    BY <2>1, <2>9 DEF StopCycle, LoadFails, CloseTurn, GiveUp, Timeout, Hang
  <2>10. QED
    BY <2>4, <2>5, <2>6, <2>7, <2>8, <2>9 DEF Next, Engine, Live, StartTurn, Update, Forsaken
<1>2. QED
  BY <1>1, Inductive, PTL DEF Spec, CallersUntouched

-----------------------------------------------------------------------------
(* The engine implements the contract of a turn.                           *)

Open(s) == [k \in DOMAIN s |-> s[k].diagram]

LEMMA OpenType ==
  ASSUME NEW s, Shape(s)
  PROVE  /\ Open(s) \in Seq(Diagrams \cup Versions)
         /\ Len(Open(s)) = Len(s)
         /\ \A k \in 1..Len(s) : Open(s)[k] = s[k].diagram
<1>1. s \in Seq(Frame) /\ Len(s) \in Nat /\ DOMAIN s = 1..Len(s)
  BY DEF Shape
<1>2. \A k \in 1..Len(s) : s[k].diagram \in Diagrams \cup Versions
  <2>1. TAKE k \in 1..Len(s)
  <2>2. s[k] \in Frame
    BY <1>1
  <2>3. QED
    BY <2>2 DEF Frame
<1>3. Open(s) \in [1..Len(s) -> Diagrams \cup Versions]
  BY <1>1, <1>2 DEF Open
<1>4. QED
  BY <1>1, <1>3 DEF Open

\* Frames that keep their diagrams look the same from outside.
LEMMA OpenSame ==
  ASSUME NEW s, NEW t, Shape(s), Shape(t), Len(t) = Len(s),
         \A k \in 1..Len(s) : t[k].diagram = s[k].diagram
  PROVE  Open(t) = Open(s)
  BY OpenType, SeqEqual

\* Dropping the top frames is a prefix from outside.
LEMMA OpenPrefix ==
  ASSUME NEW s, NEW t, Shape(s), Shape(t), Len(t) <= Len(s),
         \A k \in 1..Len(t) : t[k].diagram = s[k].diagram
  PROVE  IsPrefix(Open(t), Open(s))
<1>1. /\ Open(s) \in Seq(Diagrams \cup Versions) /\ Open(t) \in Seq(Diagrams \cup Versions)
      /\ Len(Open(s)) = Len(s) /\ Len(Open(t)) = Len(t)
      /\ Len(s) \in Nat /\ Len(t) \in Nat
      /\ \A k \in 1..Len(t) : Open(t)[k] = Open(s)[k]
  BY OpenType DEF Shape
<1> DEFINE a == Open(s)
           b == Open(t)
           u == SubSeq(a, 1, Len(b))
           w == SubSeq(b, 1, Len(b))
<1> HIDE DEF a, b
<1>2. /\ a \in Seq(Diagrams \cup Versions) /\ b \in Seq(Diagrams \cup Versions)
      /\ Len(b) \in Nat /\ Len(b) <= Len(a) /\ \A k \in 1..Len(b) : b[k] = a[k]
  BY <1>1 DEF a, b
<1>3. /\ u \in Seq(Diagrams \cup Versions) /\ Len(u) = Len(b)
      /\ w \in Seq(Diagrams \cup Versions) /\ Len(w) = Len(b)
      /\ \A k \in 1..Len(b) : u[k] = a[k] /\ w[k] = b[k]
  BY <1>2
<1>4. u = w
  BY <1>2, <1>3, SeqEqual
<1>5. QED
  BY <1>2, <1>4 DEF a, b, IsPrefix

\* The abstract state a step of the engine starts from and leads to.
LEMMA ContractStep ==
  ASSUME IInv, IInv', Next
  PROVE  Contract!Next \/ UNCHANGED <<Phase, Diagramed>>
<1>1. Diagramed = Open(stack) /\ Diagramed' = Open(stack')
  BY DEF Diagramed, Open
<1>2. /\ Len(Diagramed) = Len(stack) /\ Len(Diagramed') = Len(stack')
      /\ Len(stack) \in Nat /\ Len(stack') \in Nat
  <2>1. Shape(stack) /\ Shape(stack')
    BY DEF IInv
  <2>2. QED
    BY <1>1, <2>1, OpenType DEF Shape
<1>a. /\ pc # "stuck" => Phase = action
      /\ pc' # "stuck" => Phase' = action'
  BY DEF Phase
<1>3. CASE \E v \in Versions, req \in Requests : StartTurn(v, req)
  <2>1. PICK v \in Versions, req \in Requests : StartTurn(v, req)
    BY <1>3
  <2>2. pc = "idle" /\ pc' \in {"idle", "update"} /\ action = "IDLE" /\ action' = "IDLE"
    BY <2>1 DEF StartTurn, IInv, Control
  <2> QED BY <1>a, <2>2 DEF Contract!Next, Contract!Prepare
<1>4. CASE \E loaded \in BaseLoads : Update(loaded)
  <2>1. PICK loaded \in BaseLoads : Update(loaded)
    BY <1>4
  <2>2. /\ pc = "update" /\ pc' = "stack"
        /\ action = "IDLE" /\ action' \in {"REQUEST", "RUNNING"}
    BY <2>1 DEF Update, IInv, Control
  <2>3. Len(stack') \in Len(stack)..(Len(stack) + 1)
    <3>1. CASE stack' = stack
      BY <1>2, <3>1
    <3>2. CASE /\ stack' = Unshift(stack, BaseFrame(version))
               /\ stack # << >> => stack[1].diagram # version
      <4>1. Shape(stack) /\ version \in Versions
        BY <2>1 DEF IInv, Scalars
      <4>2. stack # << >> => stack[1].diagram \notin Versions
        BY <2>1, <3>2, <4>1 DEF IInv, Frames, Shape, Update
      <4>3. Len(stack') = Len(stack) + 1
        BY <3>2, <4>1, <4>2, UnshiftShape
      <4>4. QED
        BY <1>2, <4>3
    <3>3. QED
      BY <2>1, <3>1, <3>2 DEF Update, Injected
  <2>4. QED
    BY <1>2, <1>a, <2>2, <2>3 DEF Contract!Next, Contract!Accept
<1>5. CASE StopCycle \/ ReachBase \/ Timeout
  <2>1. /\ pc # "stuck" /\ pc' # "stuck"
        /\ action \in {"REQUEST", "RUNNING"} /\ action' = "END"
    BY <1>5 DEF StopCycle, ReachBase, Timeout, IInv, Control
  <2>2. Len(stack') <= Len(stack) + 1
    BY <1>2, <1>5 DEF StopCycle, ReachBase, Timeout
  <2>3. QED
    BY <1>2, <1>a, <2>1, <2>2 DEF Contract!Next, Contract!Run
<1>6. CASE LoadFails \/ CloseTurn
  <2>1. /\ pc # "stuck" /\ pc' = "idle"
        /\ action \in {"REQUEST", "RUNNING", "END"} /\ action' = "IDLE" /\ stack' = stack
    BY <1>6 DEF LoadFails, CloseTurn, Dropped, IInv, Scalars, Control
  <2>2. QED
    BY <1>1, <1>a, <2>1 DEF Contract!Next, Contract!Reply
<1>7. CASE EnterFrame \/ GiveUp \/ NoNode
  <2>1. pc # "stuck" /\ pc' # "stuck" /\ action' = action
    BY <1>7 DEF EnterFrame, GiveUp, NoNode
  <2>2. Shape(stack') /\ Len(stack') = Len(stack)
        /\ \A k \in 1..Len(stack) : stack'[k].diagram = stack[k].diagram
    <3>1. CASE EnterFrame
      BY <3>1, EnterFrameFacts DEF Stays, Shape, Top
    <3>2. CASE GiveUp
      BY <3>2 DEF GiveUp, IInv
    <3>3. CASE NoNode
      BY <3>3, PositionStays DEF NoNode, IInv, Frames, Scalars
    <3>4. QED
      BY <1>7, <3>1, <3>2, <3>3
  <2>3. Open(stack') = Open(stack)
    BY <2>2, OpenSame DEF IInv
  <2>4. QED
    BY <1>1, <1>a, <2>1, <2>3
<1>8. CASE LeaveFrame
  <2>1. pc # "stuck" /\ pc' # "stuck" /\ action' = action /\ action # "IDLE"
    BY <1>8 DEF LeaveFrame, IInv, Control
  <2>2. CASE stack' = stack
    BY <1>1, <1>a, <2>1, <2>2
  <2>3. CASE action # "END" /\ stack' = FrameDidFinish(Pop(stack))
    <3>1. stack # << >>
      BY <1>8, <2>3 DEF IInv, Frames, LeaveFrame
    <3>2. Shape(stack') /\ Len(stack') = Len(stack) - 1
          /\ \A k \in 1..(Len(stack) - 1) : stack'[k].diagram = stack[k].diagram
      BY <2>3, <3>1, FinishStays DEF IInv, Stays
    <3>3. IsPrefix(Open(stack'), Open(stack)) /\ Len(stack') <= Len(stack) + 1
      BY <1>2, <3>2, OpenPrefix DEF IInv
    <3>4. action \in {"REQUEST", "RUNNING"}
      BY <2>1, <2>3 DEF IInv, Scalars
    <3>5. QED
      BY <1>1, <1>2, <1>a, <2>1, <3>3, <3>4 DEF Contract!Next, Contract!Walk, Contract!Run, Contract!IsPrefix, IsPrefix
  <2>4. QED
    BY <1>8, <2>2, <2>3 DEF LeaveFrame
<1>9. CASE Handlers
  <2>1. pc = "loop"
    BY <1>9 DEF Handlers, OneShot, Preliminary, Interaction, GoTo, Card, Function,
                Custom, Condition, Step, Branch, Throw, Unhandled, Flow, GoToNode, ResetStack,
                End, Runs, At
  <2>2. HandlerStep
    BY <1>9, <2>1, HandlersStep DEF IInv, Scalars, Flags, Control, Frames, LoopReady
  <2>3. /\ action \in {"REQUEST", "RUNNING"} /\ action' \in {"RUNNING", "END"}
        /\ Len(stack') <= Len(stack) + 1 /\ pc' # "stuck"
    BY <2>1, <2>2 DEF HandlerStep, Stays, IInv, Control
  <2>4. QED
    BY <1>2, <1>a, <2>1, <2>3 DEF Contract!Next, Contract!Run
<1>10. CASE Hang
  <2>1. /\ pc \in {"update", "stack", "loop"} /\ pc' = "stuck"
        /\ stack' = stack /\ action \in {"IDLE", "REQUEST", "RUNNING"}
    BY <1>10 DEF Hang, Awaits, At, IInv, Control
  <2>2. Phase = action /\ Phase' = "HUNG"
    BY <2>1 DEF Phase
  <2> QED BY <1>1, <2>1, <2>2 DEF Contract!Next, Contract!Hang
<1>11. CASE Forsaken
  BY <1>11 DEF Forsaken, vars, engine, Phase, Diagramed
<1>12. QED
  BY <1>3, <1>4, <1>5, <1>6, <1>7, <1>8, <1>9, <1>10, <1>11 DEF Next, Engine

\* Every step of the engine is a step of the contract or invisible to it.
THEOREM ImplementsTurnContract == Spec => Contract!Init /\ [][Contract!Next]_(Contract!vars)
<1>1. Init => Contract!Init
  BY DEF Init, Contract!Init, Diagramed, Phase
<1>2. IInv /\ IInv' /\ [Next]_vars => [Contract!Next]_(Contract!vars)
  <2>1. CASE UNCHANGED vars
    BY <2>1 DEF vars, engine, Diagramed, Phase, Contract!vars
  <2>2. QED
    BY <2>1, ContractStep DEF Contract!vars
<1>3. QED
  BY <1>1, <1>2, Inductive, PTL DEF Spec

-----------------------------------------------------------------------------
(* A session can be resumed: a frame only ever holds nodes of its own      *)
(* diagram, and how a turn closes says where the session is.               *)

Homed(s) == \A k \in 1..Len(s) : s[k].node \in Nodes => Home[s[k].node] = s[k].diagram

LEMMA SetNodeIDHomed ==
  ASSUME NEW s, Shape(s), s # << >>, Homed(s), NEW n \in Nodes \cup {NULL, UNDEF},
         n \in Nodes => Home[n] = Top(s).diagram
  PROVE  /\ Homed(SetNodeID(s, n))
         /\ Top(SetNodeID(s, n)).node = n
         /\ Top(SetNodeID(s, n)).diagram = Top(s).diagram
         /\ SetNodeID(s, n) # << >>
<1>1. Len(s) \in 1..Len(s)
  BY DEF Shape
<1>2. Len(SetNodeID(s, n)) = Len(s)
      /\ \A k \in 1..Len(s) : SetNodeID(s, n)[k].diagram = s[k].diagram
  BY SetNodeIDStays
<1>3. \A k \in 1..Len(s) : SetNodeID(s, n)[k].node = IF k = Len(s) THEN n ELSE s[k].node
  BY <1>1 DEF Shape, SetNodeID, Frame
<1>4. QED
  BY <1>1, <1>2, <1>3 DEF Homed, Top

LEMMA PopToHomed ==
  ASSUME NEW s, Shape(s), s # << >>, Homed(s), NEW k \in 0..Len(s)
  PROVE  /\ Homed(PopTo(s, k))
         /\ k > 0 => PopTo(s, k) # << >> /\ Top(PopTo(s, k)) = s[k]
         /\ k = 0 => PopTo(s, k) = << >>
<1>1. /\ Len(PopTo(s, k)) = k /\ Shape(PopTo(s, k))
      /\ \A m \in 1..k : PopTo(s, k)[m] = s[m]
  BY PopToStays DEF Stays
<1>2. QED
  BY <1>1 DEF Homed, Top, Shape

LEMMA PushHomed ==
  ASSUME NEW s, Shape(s), s # << >>, Homed(s),
         NEW d \in Diagrams, NEW how \in {"root", "flow", "push", "jump"},
         how = "push" => Top(s).called
  PROVE  /\ Homed(Push(s, NewFrame(d, how)))
         /\ Push(s, NewFrame(d, how)) # << >>
         /\ Shape(Push(s, NewFrame(d, how)))
         /\ Top(Push(s, NewFrame(d, how))).diagram = d
<1> DEFINE f == NewFrame(d, how)
           t == Push(s, f)
<1>1. f \in Frame /\ f.diagram \notin Versions /\ ~f.base /\ f.via = how
  BY NewFrameType
<1>2. f.node = UNDEF /\ f.diagram = d /\ UNDEF \notin Nodes
  BY ProgramAssumption DEF NewFrame
<1> HIDE DEF f
<1>3. /\ Shape(t) /\ Len(t) = Len(s) + 1 /\ t[Len(s) + 1] = f
      /\ \A k \in 1..Len(s) : t[k] = s[k]
  BY <1>1, PushStays DEF Stays
<1>4. Len(s) \in Nat
  BY DEF Shape
<1> HIDE DEF t
<1>5. Homed(t) /\ t # << >> /\ Top(t).diagram = d
  BY <1>2, <1>3, <1>4 DEF Homed, Top
<1> QED BY <1>3, <1>5 DEF t, f

LEMMA HydrateHomed ==
  ASSUME NEW s, Shape(s), s # << >>, Homed(s), Top(s).diagram \in Diagrams
  PROVE  Homed(Hydrate(s))
<1>1. Len(s) \in 1..Len(s) /\ s \in Seq(Frame)
  BY DEF Shape
<1>2. CASE Top(s).hydrated
  BY <1>2 DEF Hydrate
<1>3. CASE ~Top(s).hydrated
  <2> DEFINE t == Hydrate(s)
  <2>1. /\ Len(t) = Len(s)
        /\ \A k \in 1..Len(s) : k < Len(s) => t[k] = s[k]
        /\ Top(t).diagram = Top(s).diagram
    BY HydrateStays DEF Stays
  <2>2. t[Len(s)].node = IF Top(s).node = UNDEF THEN StartNode[Top(s).diagram] ELSE Top(s).node
    BY <1>1, <1>3 DEF Hydrate, Top, Frame
  <2>3. Home[StartNode[Top(s).diagram]] = Top(s).diagram
    BY LinkAssumption
  <2> HIDE DEF t
  <2>4. Homed(t)
    BY <1>1, <2>1, <2>2, <2>3 DEF Homed, Top
  <2> QED BY <2>4 DEF t
<1> QED BY <1>2, <1>3

LEMMA FrameDidFinishHomed ==
  ASSUME NEW s, Shape(s), Homed(s)
  PROVE  Homed(FrameDidFinish(s))
<1>1. CASE s = << >>
  BY <1>1 DEF FrameDidFinish
<1>2. CASE s # << >>
  <2>1. Len(s) \in 1..Len(s) /\ s \in Seq(Frame)
    BY <1>2 DEF Shape
  <2>2. /\ Len(FrameDidFinish(s)) = Len(s)
        /\ \A k \in 1..Len(s) : FrameDidFinish(s)[k].diagram = s[k].diagram
    BY FrameDidFinishStays
  <2>3. \A k \in 1..Len(s) : FrameDidFinish(s)[k].node = s[k].node
    BY <1>2, <2>1 DEF FrameDidFinish, Frame
  <2> QED BY <2>2, <2>3 DEF Homed
<1> QED BY <1>1, <1>2

LEMMA RestoreHomed ==
  ASSUME NEW s, Shape(s), Homed(s)
  PROVE  Homed(Restore(s))
<1>1. /\ Len(Restore(s)) = Len(s)
      /\ \A k \in 1..Len(s) : Restore(s)[k].diagram = s[k].diagram
  BY RestoreShape
<1>2. s \in Seq(Frame) /\ DOMAIN s = 1..Len(s)
  BY DEF Shape
<1>3. \A k \in 1..Len(s) : Restore(s)[k].node = s[k].node
  <2>1. TAKE k \in 1..Len(s)
  <2>2. s[k] \in Frame /\ Restore(s)[k] = [s[k] EXCEPT !.hydrated = FALSE]
    BY <1>2 DEF Restore
  <2> QED BY <2>2 DEF Frame
<1> QED BY <1>1, <1>3 DEF Homed

LEMMA GeneratedHomed ==
  ASSUME NEW v \in Versions
  PROVE  Homed(Generated(v))
<1>1. CASE Context[v] = NULL
  BY <1>1, ProgramAssumption DEF Generated, Homed, NewFrame
<1>2. CASE Context[v] # NULL
  <2> DEFINE c == Context[v]
             g == Generated(v)
  <2>1. c \in Seq(ContextFrame)
    BY <1>2, ProgramAssumption
  <2>2. g = [k \in DOMAIN c |-> Prepared(c[k])]
    BY <1>2 DEF Generated, Prepared
  <2>3. \A k \in DOMAIN c : c[k].node \in Nodes => Home[c[k].node] = c[k].diagram
    BY <1>2, LinkAssumption
  <2> HIDE DEF c, g
  <2>4. Len(c) \in Nat /\ DOMAIN c = 1..Len(c) /\ \A k \in 1..Len(c) : c[k] \in ContextFrame
    BY <2>1
  <2>5. Len(g) = Len(c) /\ \A k \in 1..Len(c) : g[k] = Prepared(c[k])
    BY <2>2, <2>4
  <2>6. \A k \in 1..Len(c) : Prepared(c[k]).node = c[k].node /\ Prepared(c[k]).diagram = c[k].diagram
    BY <2>4, PreparedFrame
  <2> QED BY <2>3, <2>4, <2>5, <2>6 DEF Homed, g
<1> QED BY <1>1, <1>2

LEMMA UnshiftHomed ==
  ASSUME NEW s, Shape(s), Homed(s), NEW v \in Versions
  PROVE  Homed(Unshift(s, BaseFrame(v)))
<1> DEFINE b == BaseFrame(v)
           t == Unshift(s, b)
<1>1. b \in Frame /\ b.node = NULL /\ NULL \notin Nodes
  BY ProgramAssumption DEF BaseFrame, Frame
<1>2. s \in Seq(Frame) /\ Len(s) \in Nat
  BY DEF Shape
<1> HIDE DEF b
<1>3. Len(t) = Len(s) + 1 /\ t[1] = b /\ \A k \in 2..Len(t) : t[k] = s[k - 1]
  BY <1>1, <1>2 DEF Unshift
<1> HIDE DEF t
<1>4. Homed(t)
  BY <1>1, <1>2, <1>3 DEF Homed
<1> QED BY <1>4 DEF t, b

\* The frames are homed, and so is the node the loop goes to.
Placed == Homed(stack) /\ (nextID \in Nodes => Home[nextID] = Top(stack).diagram)

\* What an iteration of the loop leaves behind: a place to go on from, or the
\* way the turn ends.
Leaves ==
  /\ Homed(stack')
  /\ pc' \in {"loop", "leave"}
  /\ pc' = "loop" /\ nextID' \in Nodes => Home[nextID'] = Top(stack').diagram
  /\ \/ outcome' = outcome /\ UNCHANGED <<turnEnd, ends>>
     \/ /\ outcome' \in {"stopped", "threw"} /\ UNCHANGED <<turnEnd, ends>>
        /\ pc' = "leave" /\ action' = "END"
        /\ stack' # << >> /\ Top(stack').node = lastNode' /\ lastNode' # NULL
     \/ /\ outcome' = "exited" /\ turnEnd' = TRUE /\ ends' = ends + 1
        /\ pc' = "leave" /\ action' = "END"
        /\ stack' # << >> => HasNodeID(Top(stack'))

LEMMA PositionHomed ==
  ASSUME LoopReady, Placed
  PROVE  /\ Homed(Position) /\ Shape(Position) /\ Position # << >>
         /\ Top(Position).diagram = Top(stack).diagram
<1>1. CASE nextID = NULL
  BY <1>1 DEF Position, Placed, LoopReady
<1>2. CASE nextID # NULL
  <2>1. Shape(Position) /\ Position = SetNodeID(stack, nextID)
    BY <1>2, PositionStays DEF Position, LoopReady
  <2>2. nextID \in Nodes
    BY <1>2 DEF LoopReady, NodeOrNull
  <2> QED BY <2>1, <2>2, SetNodeIDHomed DEF Placed, LoopReady
<1> QED BY <1>1, <1>2

\* The node a handler is given is where the frame in the loop is.
LEMMA AtHome ==
  ASSUME LoopReady, Placed, NEW n \in Nodes, At(n)
  PROVE  /\ Home[n] = Top(stack).diagram /\ n = Top(Position).node /\ n # NULL
         /\ NextId[n] \in Nodes /\ (Kind[n] = "gotoNode" => Target[n] = NULL)
               => Home[NextId[n]] = Home[n]
         /\ ElseId[n] \in Nodes => Home[ElseId[n]] = Home[n]
         /\ \A e \in Events : Choice[n][e] \in Nodes => Home[Choice[n][e]] = Home[n]
<1>1. Home[n] = Top(stack).diagram /\ n = Top(Position).node /\ n # NULL
  BY DEF At, Node, GetNode
<1>2. NULL \notin Nodes
  BY ProgramAssumption
<1> QED BY <1>1, <1>2, LinkAssumption

LEMMA ReturnsLeaves ==
  ASSUME LoopReady, Placed, NEW n \in Nodes, At(n), NEW next,
         next \in Nodes => Home[next] = Home[n], Returns(n, next)
  PROVE  Leaves
<1>1. /\ Homed(Position) /\ Position # << >> /\ Top(Position).diagram = Top(stack).diagram
  BY PositionHomed
<1>2. Home[n] = Top(stack).diagram /\ n = Top(Position).node /\ n # NULL
  BY AtHome
<1>3. /\ stack' = Position /\ nextID' = next /\ lastNode' = n
      /\ action' = ActionAfter(n, next, FALSE) /\ UNCHANGED <<turnEnd, ends>>
      /\ outcome' = IF next = n THEN "stopped" ELSE outcome
      /\ pc' \in {"loop", "leave"} /\ (action' = "END" => pc' = "leave")
  BY DEF Returns, Handled
<1>4. CASE next = n
  BY <1>1, <1>2, <1>3, <1>4 DEF Leaves, ActionAfter
<1>5. CASE next # n
  BY <1>1, <1>2, <1>3, <1>5 DEF Leaves
<1> QED BY <1>4, <1>5

LEMMA RestacksLeaves ==
  ASSUME NEW n \in Nodes, NEW t, Homed(t), Restacks(n, t)
  PROVE  Leaves
<1>1. NULL \notin Nodes
  BY ProgramAssumption
<1> QED BY <1>1 DEF Restacks, Handled, Leaves

LEMMA RunCommandLeaves ==
  ASSUME LoopReady, Placed, NEW n \in Nodes, At(n), RunCommand(n)
  PROVE  Leaves
<1>1. Homed(Position) /\ Shape(Position) /\ Position # << >>
  BY PositionHomed
<1> DEFINE cmd(k, j) == Commands[Position[k].diagram][j]
<1>2. PICK k \in DOMAIN Position : \E j \in DOMAIN Commands[Position[k].diagram] :
        \/ Restacks(n, Jumped(Position, k, cmd(k, j)))
        \/ cmd(k, j).diagram # NULL /\ Restacks(n, Pushed(Position, cmd(k, j)))
        \/ Returns(n, NULL)
  BY DEF RunCommand
<1>3. /\ k \in 1..Len(Position) /\ k \in 0..Len(Position) /\ k > 0
      /\ Position[k].diagram \in Diagrams \cup Versions
  <2>1. k \in 1..Len(Position) /\ Position[k] \in Frame /\ Len(Position) \in Nat
    BY <1>1 DEF Shape
  <2> QED BY <2>1 DEF Frame
<1> DEFINE d == Position[k].diagram
<1>4. PICK j \in DOMAIN Commands[d] :
        \/ Restacks(n, Jumped(Position, k, cmd(k, j)))
        \/ cmd(k, j).diagram # NULL /\ Restacks(n, Pushed(Position, cmd(k, j)))
        \/ Returns(n, NULL)
  BY <1>2
<1> DEFINE c == cmd(k, j)
<1>5. c \in Command
  <2>1. Commands[d] \in Seq(Command)
    BY <1>3, ProgramAssumption
  <2> QED BY <2>1
<1>6. /\ c.diagram \in Diagrams \cup {NULL} /\ c.next \in Nodes \cup {NULL, UNDEF}
      /\ c.next \in Nodes => Home[c.next] = IF c.diagram # NULL THEN c.diagram ELSE d
  <2>1. c.next # NULL => Home[c.next] = IF c.diagram # NULL THEN c.diagram ELSE d
    BY <1>3, LinkAssumption
  <2>2. NULL \notin Nodes
    BY ProgramAssumption
  <2>3. c.diagram \in Diagrams \cup {NULL} /\ c.next \in Nodes \cup {NULL}
    BY <1>5 DEF Command, NodeOrNull
  <2> QED BY <2>1, <2>2, <2>3
<1> HIDE DEF c, cmd
<1>7. CASE Restacks(n, Jumped(Position, k, c))
  <2> DEFINE kept == PopTo(Position, k)
             f == NewFrame(c.diagram, "jump")
  <2>1. Homed(kept) /\ kept # << >> /\ Top(kept).diagram = d
    BY <1>1, <1>3, PopToHomed
  <2>2. Shape(kept)
    BY <1>1, <1>3, PopToStays DEF Stays
  <2> HIDE DEF kept, d
  <2>3. Homed(Jumped(Position, k, c))
    <3>1. CASE c.diagram # NULL /\ c.diagram # Top(kept).diagram
      <4>1. /\ Homed(Push(kept, f)) /\ Push(kept, f) # << >> /\ Shape(Push(kept, f))
            /\ Top(Push(kept, f)).diagram = c.diagram
        BY <1>6, <2>1, <2>2, <3>1, PushHomed
      <4>2. Jumped(Position, k, c) = SetNodeID(Push(kept, f), c.next)
        BY <3>1 DEF Jumped, kept
      <4> HIDE DEF f
      <4> QED BY <1>6, <3>1, <4>1, <4>2, SetNodeIDHomed
    <3>2. CASE ~(c.diagram # NULL /\ c.diagram # Top(kept).diagram)
      <4>1. Jumped(Position, k, c) = SetNodeID(kept, c.next)
        BY <3>2 DEF Jumped, kept
      <4> QED BY <1>6, <2>1, <2>2, <3>2, <4>1, SetNodeIDHomed
    <3> QED BY <3>1, <3>2
  <2> QED BY <1>7, <2>3, RestacksLeaves
<1>8. CASE c.diagram # NULL /\ Restacks(n, Pushed(Position, c))
  <2> DEFINE t == [Position EXCEPT ![Len(Position)].called = TRUE]
             g == NewFrame(c.diagram, "push")
  <2>1. Pushed(Position, c) = Push(t, g) /\ Stays(Position, Pushed(Position, c))
    BY <1>1, <1>5, <1>8, PushedStays DEF Pushed
  <2>2. Len(Position) \in 1..Len(Position) /\ Position \in Seq(Frame)
    BY <1>1 DEF Shape
  <2>3. Len(t) = Len(Position) /\ \A m \in 1..Len(t) : /\ t[m].node = Position[m].node
                                                       /\ t[m].diagram = Position[m].diagram
    BY <2>2 DEF Frame
  <2>4. t \in Seq(Frame)
    <3>1. [Position[Len(Position)] EXCEPT !.called = TRUE] \in Frame
      <4>1. Position[Len(Position)] \in Frame
        BY <2>2
      <4> QED BY <4>1, FrameMarked
    <3> QED BY <2>2, <3>1, ExceptSeq
  <2>5. g.node = UNDEF /\ UNDEF \notin Nodes /\ g.diagram = c.diagram
    BY ProgramAssumption DEF NewFrame
  <2> HIDE DEF t, g
  <2>6. /\ Len(Push(t, g)) = Len(t) + 1 /\ Push(t, g)[Len(t) + 1] = g
        /\ \A m \in 1..Len(t) : Push(t, g)[m] = t[m]
    BY <2>4 DEF Push
  <2>7. Homed(Push(t, g))
    BY <1>1, <2>2, <2>3, <2>5, <2>6 DEF Homed
  <2> QED BY <1>8, <2>1, <2>7, RestacksLeaves
<1>9. CASE Returns(n, NULL)
  BY <1>9, ReturnsLeaves, ProgramAssumption
<1> QED BY <1>4, <1>7, <1>8, <1>9 DEF c

LEMMA FlowLeaves ==
  ASSUME LoopReady, Placed, Flow
  PROVE  Leaves
<1>1. PICK n \in Nodes :
        /\ At(n) /\ Kind[n] = "flow"
        /\ \/ Returns(n, NextId[n])
           \/ Target[n] # NULL
              /\ Restacks(n, Push(SetNodeID(Position, NextId[n]), NewFrame(Target[n], "flow")))
  BY DEF Flow, Runs
<1>2. /\ Home[n] = Top(stack).diagram
      /\ NextId[n] \in Nodes => Home[NextId[n]] = Home[n]
  BY <1>1, AtHome
<1>3. CASE Returns(n, NextId[n])
  BY <1>1, <1>2, <1>3, ReturnsLeaves
<1>4. CASE Target[n] # NULL
           /\ Restacks(n, Push(SetNodeID(Position, NextId[n]), NewFrame(Target[n], "flow")))
  <2> DEFINE p == SetNodeID(Position, NextId[n])
  <2>1. NextId[n] \in Nodes \cup {NULL, UNDEF} /\ Target[n] \in Diagrams
    BY <1>4, WaysOut DEF NodeOrNull
  <2>2. /\ Homed(Position) /\ Shape(Position) /\ Position # << >>
        /\ Top(Position).diagram = Top(stack).diagram
    BY PositionHomed
  <2>3. Homed(p) /\ p # << >> /\ Shape(p)
    BY SMTT(20), <1>2, <2>1, <2>2, SetNodeIDHomed, SetNodeIDStays DEF Stays
  <2>4. Homed(Push(p, NewFrame(Target[n], "flow")))
    <3> HIDE DEF p
    <3> QED BY <2>1, <2>3, PushHomed
  <2> QED BY <1>4, <2>4, RestacksLeaves
<1> QED BY <1>1, <1>3, <1>4

LEMMA GoToNodeLeaves ==
  ASSUME LoopReady, Placed, GoToNode
  PROVE  Leaves
<1> DEFINE to(n) == AtLeastOne(FrameIndex(Position, Target[n]))
           u(n) == Push(PopTo(Position, to(n)), NewFrame(Target[n], "jump"))
<1>1. PICK n \in Nodes :
        /\ At(n) /\ Kind[n] = "gotoNode"
        /\ \/ Target[n] \in {NULL, Top(stack).diagram} /\ Returns(n, NextId[n])
           \/ Target[n] # NULL /\ Restacks(n, SetNodeID(u(n), NextId[n]))
  BY DEF GoToNode, Runs
<1>2. /\ Home[n] = Top(stack).diagram
      /\ NextId[n] \in Nodes => Home[NextId[n]] = IF Target[n] # NULL THEN Target[n] ELSE Home[n]
  <2>1. Home[n] = Top(stack).diagram
    BY <1>1, AtHome
  <2>2. NULL \notin Nodes
    BY ProgramAssumption
  <2>3. NextId[n] # NULL =>
          Home[NextId[n]] = IF Kind[n] = "gotoNode" /\ Target[n] # NULL THEN Target[n] ELSE Home[n]
    BY LinkAssumption
  <2>4. Kind[n] = "gotoNode"
    BY <1>1
  <2> QED BY <2>1, <2>2, <2>3, <2>4
<1>3. CASE Target[n] \in {NULL, Top(stack).diagram} /\ Returns(n, NextId[n])
  BY <1>1, <1>2, <1>3, ReturnsLeaves
<1>4. CASE Target[n] # NULL /\ Restacks(n, SetNodeID(u(n), NextId[n]))
  <2>1. NextId[n] \in Nodes \cup {NULL, UNDEF} /\ Target[n] \in Diagrams
    BY <1>4, WaysOut DEF NodeOrNull
  <2>2. Homed(Position) /\ Shape(Position) /\ Position # << >>
    BY PositionHomed
  <2>3. to(n) \in 0..Len(Position) /\ to(n) > 0
    BY <2>2, CutInside
  <2> DEFINE kept == PopTo(Position, to(n))
  <2> HIDE DEF to
  <2>4. Homed(kept) /\ kept # << >> /\ Shape(kept)
    BY <2>2, <2>3, PopToHomed, PopToStays DEF Stays
  <2> HIDE DEF kept
  <2>5. /\ Homed(u(n)) /\ u(n) # << >> /\ Shape(u(n)) /\ Top(u(n)).diagram = Target[n]
    BY <2>1, <2>4, PushHomed DEF kept
  <2> HIDE DEF u
  <2>6. Homed(SetNodeID(u(n), NextId[n]))
    BY <1>2, <1>4, <2>1, <2>5, SetNodeIDHomed
  <2> QED BY <1>4, <2>6, RestacksLeaves
<1> QED BY <1>1, <1>3, <1>4

LEMMA ResetStackLeaves ==
  ASSUME LoopReady, Placed, ResetStack
  PROVE  Leaves
<1> DEFINE p == PopTo(Position, 1)
<1>1. PICK n \in Nodes : Restacks(n, SetNodeID(p, UNDEF))
  BY DEF ResetStack
<1>2. Homed(Position) /\ Shape(Position) /\ Position # << >>
  BY PositionHomed
<1>3. 1 \in 0..Len(Position)
  BY <1>2 DEF Shape
<1>4. Homed(p) /\ p # << >> /\ Shape(p)
  BY <1>2, <1>3, PopToHomed, PopToStays DEF Stays
<1> HIDE DEF p
<1>5. Homed(SetNodeID(p, UNDEF))
  BY <1>4, SetNodeIDHomed, ProgramAssumption
<1> QED BY <1>1, <1>5, RestacksLeaves

LEMMA EndLeaves ==
  ASSUME LoopReady, Placed, End
  PROVE  Leaves
<1>1. PICK n \in Nodes, k \in 0..Len(stack) :
        /\ EndsAbove(Position, k)
        /\ Handled(n, PopTo(Position, k), TRUE, NULL, TRUE)
        /\ turnEnd' = TRUE /\ ends' = ends + 1 /\ outcome' = "exited"
  BY DEF End
<1>2. Homed(Position) /\ Shape(Position) /\ Position # << >> /\ Len(Position) = Len(stack)
  BY PositionHomed, PositionStays DEF LoopReady
<1>3. /\ Homed(PopTo(Position, k))
      /\ PopTo(Position, k) # << >> => Top(PopTo(Position, k)) = Position[k] /\ k > 0
  BY <1>1, <1>2, PopToHomed
<1>4. k > 0 => HasNodeID(Position[k])
  BY <1>1 DEF EndsAbove
<1>5. action' = "END" /\ pc' = "leave" /\ stack' = PopTo(Position, k)
  BY <1>1 DEF Handled, ActionAfter
<1> QED BY <1>1, <1>3, <1>4, <1>5 DEF Leaves

LEMMA ThrowLeaves ==
  ASSUME LoopReady, Placed, Throw
  PROVE  Leaves
<1>1. PICK n \in Nodes :
        /\ At(n)
        /\ Handled(n, Position, FALSE, NULL, TRUE)
        /\ outcome' = "threw" /\ UNCHANGED <<turnEnd, ends>>
  BY DEF Throw
<1>2. Homed(Position) /\ Position # << >> /\ n = Top(Position).node /\ n # NULL
  BY <1>1, PositionHomed, AtHome
<1> QED BY <1>1, <1>2 DEF Handled, ActionAfter, Leaves

LEMMA HandlersLeave ==
  ASSUME LoopReady, Placed, Handlers
  PROVE  Leaves
<1>1. CASE \/ OneShot \/ Preliminary \/ Interaction \/ GoTo \/ Step \/ Branch \/ Unhandled
           \/ Card \/ Function \/ Custom \/ Condition
  <2>1. PICK n \in Nodes :
          /\ At(n)
          /\ \/ RunCommand(n) \/ Returns(n, n) \/ Returns(n, ElseId[n]) \/ Returns(n, NULL)
             \/ Returns(n, NextId[n]) /\ Kind[n] # "gotoNode"
             \/ /\ request \in Events /\ Choice[n][request] # NoChoice
                /\ Returns(n, Choice[n][request])
    BY <1>1 DEF OneShot, TakesOneShot, Preliminary, Interaction, GoTo, Step, Branch, Unhandled,
                Card, Function, Custom, Condition, Answered, Runs
  <2>2. NULL \notin Nodes
    BY ProgramAssumption
  <2> QED BY <2>1, <2>2, AtHome, RunCommandLeaves, ReturnsLeaves
<1> QED
  BY <1>1, ThrowLeaves, FlowLeaves, GoToNodeLeaves, ResetStackLeaves, EndLeaves DEF Handlers

-----------------------------------------------------------------------------
\* Who is where when the turn closes, and how many ENDs were sent.
Ledger ==
  /\ ends <= 1
  /\ pc # "idle" => ends = IF turnEnd THEN 1 ELSE 0
  /\ pc \in {"update", "stack", "loop"} => outcome = "running"
  /\ pc = "leave" /\ action # "END" => outcome = "running"
  /\ outcome = "running" => ~turnEnd
  /\ outcome \in {"stopped", "threw"} =>
       stack # << >> /\ Top(stack).node = lastNode /\ lastNode # NULL
  /\ outcome = "exited" /\ stack # << >> => HasNodeID(Top(stack))
  /\ pc = "idle" /\ stack = << >> /\ outcome \notin {"none", "skipped"} => ends = 1

Resumed == /\ Homed(stack)
           /\ pc = "loop" => Placed
           /\ Ledger

LEMMA LoopResumed ==
  ASSUME IInv, Resumed, IInv', Handlers
  PROVE  Resumed'
<1>1. pc = "loop"
  BY DEF Handlers, OneShot, Preliminary, Interaction, GoTo, Card, Function, Custom, Condition,
         Step, Branch, Throw, Unhandled, Flow, GoToNode, ResetStack, End, Runs, At
<1>2. Leaves
  BY <1>1, HandlersLeave DEF IInv, Scalars, Flags, Control, Frames, LoopReady, Resumed
<1>3. Homed(stack') /\ (pc' = "loop" => Placed')
  BY <1>2 DEF Leaves, Placed, Homed, Top
<1>4. /\ outcome = "running" /\ ~turnEnd /\ ends = 0
  BY <1>1 DEF Resumed, Ledger
<1>5. Ledger'
  BY <1>2, <1>4 DEF Leaves, Ledger, Top, HasNodeID
<1> QED BY <1>3, <1>5 DEF Resumed, Homed

LEMMA StartTurnResumed ==
  ASSUME IInv, Resumed, NEW v \in Versions, NEW req \in Requests, StartTurn(v, req)
  PROVE  Resumed'
<1>1. /\ outcome' \in {"skipped", "running"} /\ (pc' # "idle" => outcome' = "running")
      /\ (pc' = "idle" => outcome' = "skipped") /\ pc' \in {"idle", "update"}
      /\ turnEnd' = FALSE /\ ends' = 0
  BY DEF StartTurn
<1>2. Homed(stack')
  <2>1. CASE stack' = Generated(v)
    BY <2>1, GeneratedHomed
  <2>2. CASE stack' = Restore(stack)
    BY <2>2, RestoreHomed DEF IInv, Resumed
  <2> QED BY <2>1, <2>2 DEF StartTurn, PreparedStack
<1> QED BY <1>1, <1>2 DEF Resumed, Ledger, Homed

LEMMA UpdateResumed ==
  ASSUME IInv, Resumed, NEW loaded \in BaseLoads, Update(loaded)
  PROVE  Resumed'
<1>1. Homed(stack')
  <2>1. Shape(stack) /\ version \in Versions /\ Homed(stack)
    BY DEF IInv, Scalars, Resumed
  <2> QED BY <2>1, UnshiftHomed DEF Update, Injected
<1>2. /\ pc = "update" /\ pc' = "stack" /\ UNCHANGED <<turnEnd, ends, outcome>>
  BY DEF Update
<1>3. Ledger'
  BY <1>2 DEF Resumed, Ledger
<1> QED BY <1>1, <1>2, <1>3 DEF Resumed, Homed

LEMMA StopResumed ==
  ASSUME IInv, Resumed, StopCycle \/ ReachBase
  PROVE  Resumed'
<1>1. /\ pc = "stack" /\ pc' = "close" /\ action' = "END" /\ UNCHANGED <<turnEnd, ends>>
      /\ outcome' \in {"finished", "depth"} /\ stack' \in {stack, << >>}
  BY DEF StopCycle, ReachBase
<1>2. Homed(stack')
  BY <1>1 DEF Resumed, Homed
<1>3. Ledger'
  BY <1>1 DEF Resumed, Ledger
<1> QED BY <1>1, <1>2, <1>3 DEF Resumed, Homed

LEMMA DropResumed ==
  ASSUME IInv, Resumed, LoadFails \/ CloseTurn
  PROVE  Resumed'
<1>1. pc # "idle" /\ pc' = "idle" /\ UNCHANGED <<stack, turnEnd, lastNode>>
  BY DEF LoadFails, CloseTurn, Dropped
<1>2. Ledger'
  <2>1. CASE LoadFails
    BY <1>1, <2>1 DEF Resumed, Ledger, LoadFails
  <2>2. CASE CloseTurn
    <3>1. outcome' = outcome /\ ends' = IF stack = << >> /\ ~turnEnd THEN ends + 1 ELSE ends
      BY <2>2 DEF CloseTurn
    <3>2. ends = IF turnEnd THEN 1 ELSE 0
      BY <1>1 DEF Resumed, Ledger
    <3>3. ends' <= 1 /\ (stack' = << >> => ends' = 1)
      BY <1>1, <3>1, <3>2
    <3>4. /\ outcome' = "running" => ~turnEnd'
          /\ outcome' \in {"stopped", "threw"} =>
               stack' # << >> /\ Top(stack').node = lastNode' /\ lastNode' # NULL
          /\ outcome' = "exited" /\ stack' # << >> => HasNodeID(Top(stack'))
      BY <1>1, <3>1 DEF Resumed, Ledger
    <3> QED BY <1>1, <3>3, <3>4 DEF Ledger, Top, HasNodeID
  <2> QED BY <2>1, <2>2
<1> QED BY <1>1, <1>2 DEF Resumed, Homed

LEMMA EnterResumed ==
  ASSUME IInv, Resumed, EnterFrame
  PROVE  Resumed'
<1>1. /\ stack' = Hydrate(stack) /\ nextID' = NULL /\ pc = "stack" /\ pc' = "loop"
      /\ UNCHANGED <<turnEnd, ends, outcome>>
  BY DEF EnterFrame
<1>2. Homed(stack')
  BY <1>1, EnterFrameFacts, HydrateHomed DEF IInv, Resumed
<1>3. Placed'
  BY <1>1, <1>2, ProgramAssumption DEF Placed, Homed
<1>4. Ledger'
  BY <1>1 DEF Resumed, Ledger
<1> QED BY <1>2, <1>3, <1>4 DEF Resumed, Homed

LEMMA LeaveResumed ==
  ASSUME IInv, Resumed, LeaveFrame
  PROVE  Resumed'
<1>1. /\ pc = "leave" /\ pc' \in {"stack", "close"} /\ (pc' = "stack" <=> action # "END")
      /\ (action = "END" => stack' = stack)
      /\ UNCHANGED <<action, turnEnd, ends, lastNode, outcome>>
  BY DEF LeaveFrame, history
<1>2. Homed(stack')
  <2>1. CASE stack' = stack
    BY <2>1 DEF Resumed
  <2>2. CASE action # "END" /\ stack' = FrameDidFinish(Pop(stack))
    <3>1. stack # << >> /\ Shape(stack) /\ Homed(stack) /\ Len(stack) - 1 \in 0..Len(stack)
      BY <1>1, <2>2 DEF IInv, Frames, Shape, Resumed
    <3>2. Shape(Pop(stack)) /\ Homed(Pop(stack))
      BY <3>1, PopToHomed, PopToStays DEF Pop, Stays
    <3> QED BY <2>2, <3>2, FrameDidFinishHomed
  <2> QED BY <2>1, <2>2 DEF LeaveFrame
<1>3. Ledger'
  <2>1. CASE action = "END"
    BY <1>1, <2>1 DEF Resumed, Ledger, Top, HasNodeID
  <2>2. CASE action # "END"
    BY <1>1, <2>2 DEF Resumed, Ledger
  <2> QED BY <2>1, <2>2
<1> QED BY <1>1, <1>2, <1>3 DEF Resumed, Homed

LEMMA LoopExitResumed ==
  ASSUME IInv, Resumed, GiveUp \/ Timeout \/ NoNode
  PROVE  Resumed'
<1>1. /\ pc = "loop" /\ pc' = "leave" /\ UNCHANGED <<turnEnd, ends>>
      /\ outcome' \in {outcome, "timeout"} /\ stack' \in {stack, Position}
      /\ (outcome' = "timeout" => action' = "END")
      /\ (outcome' = outcome \/ action' = "END")
  <2>1. CASE GiveUp
    <3>1. Resumed /\ outcome' = outcome /\ UNCHANGED <<turnEnd, ends>> /\ stack' = stack
      BY <2>1 DEF GiveUp, history
    <3> QED BY <2>1, <3>1 DEF GiveUp, Resumed, Ledger
  <2>2. CASE Timeout
    BY <2>2 DEF Timeout
  <2>3. CASE NoNode
    <3>1. Resumed /\ outcome' = outcome /\ UNCHANGED <<turnEnd, ends>> /\ stack' = Position
      BY <2>3 DEF NoNode, history
    <3> QED BY <2>3, <3>1 DEF NoNode, Resumed, Ledger
  <2> QED BY <2>1, <2>2, <2>3
<1>2. outcome = "running"
  BY <1>1 DEF Resumed, Ledger
<1>3. Homed(stack')
  BY <1>1, PositionHomed DEF IInv, Scalars, Flags, Control, Frames, LoopReady, Resumed
<1>4. Ledger'
  BY <1>1, <1>2 DEF Resumed, Ledger
<1> QED BY <1>1, <1>3, <1>4 DEF Resumed, Homed

LEMMA HangResumed ==
  ASSUME IInv, Resumed, Hang
  PROVE  Resumed'
<1>1. /\ pc \in {"update", "stack", "loop"} /\ pc' = "stuck"
      /\ UNCHANGED <<stack, nextID, turnEnd, history>>
  BY DEF Hang, Awaits, At
<1>2. Ledger'
  BY <1>1 DEF Resumed, Ledger, history, Top, HasNodeID
<1> QED BY <1>1, <1>2 DEF Resumed, Homed

LEMMA NextResumed == IInv /\ IInv' /\ Resumed /\ [Next]_vars => Resumed'
<1> SUFFICES ASSUME IInv, IInv', Resumed, [Next]_vars PROVE Resumed'
  OBVIOUS
<1>1. CASE UNCHANGED vars
  BY <1>1 DEF vars, engine, history, Resumed, Homed, Placed, Ledger, Top, HasNodeID
<1> QED
  BY <1>1, LoopResumed, StartTurnResumed, UpdateResumed, StopResumed, DropResumed,
     EnterResumed, LeaveResumed, LoopExitResumed, HangResumed DEF Next, Engine, Forsaken

\* A turn that waits or fails leaves the session on the node it was at, one
\* that exits on a node of its top diagram or over; a session that is over has
\* had its one END trace (cycleHandler, end.ts, updateDidExecute).
THEOREM SessionIsResumable == Spec => []Resumable
<1>1. Init => Resumed
  BY DEF Init, Resumed, Homed, Ledger
<1>2. IInv /\ Resumed => Resumable
  <2> SUFFICES ASSUME IInv, Resumed PROVE Resumable
    OBVIOUS
  <2>1. ASSUME outcome = "exited", stack # << >>
        PROVE  GetNode(Top(stack).diagram, Top(stack).node) # NULL
    <3>1. HasNodeID(Top(stack)) /\ Len(stack) \in 1..Len(stack)
      BY <2>1 DEF Resumed, Ledger, IInv, Shape
    <3>2. Home[Top(stack).node] = Top(stack).diagram
      BY <3>1 DEF Resumed, Homed, HasNodeID, Top
    <3> QED BY <3>1, <3>2, ProgramAssumption DEF GetNode, HasNodeID
  <2> QED BY <2>1 DEF Resumed, Ledger, Resumable
<1> QED BY <1>1, <1>2, NextResumed, Inductive, PTL DEF Spec

=============================================================================
