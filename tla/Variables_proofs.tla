-------------------------- MODULE Variables_proofs ---------------------------
(***************************************************************************)
(* The version's variables stay visible in every flow of every project:    *)
(* no way of leaving a flow turns what its steps assign into locals.       *)
(***************************************************************************)
EXTENDS Variables, SequenceTheorems, TLAPS

Own == Names \cap VersionNames[version]

Declares(d, x) == \E v \in Versions : x \in Declared[v][d]

\* Frames whose locals hide none but declared and given variables.
Plain == {f \in Frame : \A x \in Own : Has(f.locals, x) => x \in f.given \/ Declares(f.diagram, x)}

\* Which frame the combined store belongs to, and what it has of it.
Belongs ==
  /\ running \in 0..Len(stack)
  /\ running # 0 => local = stack[running].locals
  /\ pc \in {"loop", "handle"} => stack # <<>> /\ running = Len(stack) /\ ~changed
  /\ pc = "leave" /\ ~changed => stack # <<>> /\ running = Len(stack)
  /\ pc \in {"loop", "handle", "leave"} => combined \in Store
  /\ pc \in {"idle", "cycle"} => running = 0 /\ combined = NULL

\* Once a turn has begun the version's variables are among the globals, and so
\* seen by every flow.
Initialised ==
  /\ pc # "idle" => \A x \in Own : Has(globals, x)
  /\ pc \in {"loop", "handle", "leave"} => \A x \in Own : Has(combined, x)

Scalars ==
  /\ globals \in Store /\ local \in Store
  /\ version \in Versions /\ based \in BOOLEAN
  /\ combined \in Store \cup {NULL}
  /\ action \in {"IDLE", "REQUEST", "RUNNING", "END"}
  /\ pc \in {"idle", "cycle", "loop", "handle", "leave"}
  /\ next \in Nodes \cup {NULL}
  /\ changed \in BOOLEAN

IInv == Scalars /\ stack \in Seq(Plain) /\ Len(stack) <= MaxStack /\ Belongs /\ Initialised
-----------------------------------------------------------------------------
(* Stores.                                                                 *)

LEMMA EmptyType == Empty \in Store /\ NoMap \in [Names -> Names \cup {ABSENT}]
BY DEF Empty, NoMap, Store, Cell

LEMMA OverType == \A a, b \in Store : Over(a, b) \in Store
BY DEF Over, Store, Cell, Has

LEMMA OverHas == \A a, b \in Store : \A x \in Names : Has(a, x) => Has(Over(a, b), x)
BY DEF Over, Store, Has

LEMMA WritesType == Writes \subseteq Store
BY VariablesAssumption DEF Store, Cell

LEMMA MapsType == Maps \cup {NoMap} \subseteq [Names -> Names \cup {ABSENT}]
BY VariablesAssumption, EmptyType

LEMMA MappedType ==
  ASSUME NEW map \in Maps \cup {NoMap}, NEW from \in Store
  PROVE  /\ Mapped(map, from) \in Store
         /\ \A x \in Names : Has(Mapped(map, from), x) => x \in Sources(map)
<1>1. map \in [Names -> Names \cup {ABSENT}]
  BY MapsType
<1>2. ABSENT \notin Names
  BY VariablesAssumption
<1>. QED
  BY <1>1, <1>2 DEF Mapped, Store, Cell, Has, Sources

LEMMA SamePlain == ASSUME UNCHANGED version PROVE Own' = Own /\ Plain' = Plain
BY DEF Own, Plain

\* A frame in which another node is next, other locals or names stand.
LEMMA PlainAt ==
  ASSUME NEW f \in Plain, NEW to \in Nodes \cup Nowhere
  PROVE  /\ [f EXCEPT !.at = to] \in Plain
         /\ [f EXCEPT !.at = to].locals = f.locals
<1>1. f \in Frame
  BY DEF Plain
<1>2. [f EXCEPT !.at = to] \in Frame
  BY <1>1 DEF Frame
<1>3. /\ [f EXCEPT !.at = to].locals = f.locals
      /\ [f EXCEPT !.at = to].diagram = f.diagram
      /\ [f EXCEPT !.at = to].given = f.given
  BY <1>1 DEF Frame
<1>. QED
  BY <1>2, <1>3 DEF Plain

LEMMA PlainLocals ==
  ASSUME NEW f \in Plain, NEW store \in Store,
         \A x \in Own : Has(store, x) => Has(f.locals, x) \/ Declares(f.diagram, x)
  PROVE  [f EXCEPT !.locals = store] \in Plain /\ [f EXCEPT !.locals = store].locals = store
<1>. DEFINE g == [f EXCEPT !.locals = store]
<1>1. f \in Frame
  BY DEF Plain
<1>2. g \in Frame /\ g.locals = store /\ g.diagram = f.diagram /\ g.given = f.given
  BY <1>1 DEF Frame
<1>3. \A x \in Own : Has(store, x) => x \in f.given \/ Declares(f.diagram, x)
  BY DEF Plain
<1>. HIDE DEF g
<1>4. g \in Plain
  BY <1>2, <1>3 DEF Plain
<1>. QED
  BY <1>2, <1>4 DEF g

LEMMA PlainEntered ==
  ASSUME NEW f \in Plain, NEW store \in Store, NEW to \in Nodes \cup Nowhere,
         \A x \in Own : Has(store, x) => Has(f.locals, x) \/ Declares(f.diagram, x)
  PROVE  /\ [f EXCEPT !.at = to, !.locals = store, !.hydrated = TRUE] \in Plain
         /\ [f EXCEPT !.at = to, !.locals = store, !.hydrated = TRUE].locals = store
<1>. DEFINE g == [f EXCEPT !.at = to, !.locals = store, !.hydrated = TRUE]
<1>1. f \in Frame
  BY DEF Plain
<1>2. g \in Frame /\ g.locals = store /\ g.diagram = f.diagram /\ g.given = f.given
  BY <1>1 DEF Frame
<1>3. \A x \in Own : Has(store, x) => x \in f.given \/ Declares(f.diagram, x)
  BY DEF Plain
<1>. HIDE DEF g
<1>4. g \in Plain
  BY <1>2, <1>3 DEF Plain
<1>. QED
  BY <1>2, <1>4 DEF g

LEMMA PlainNew ==
  ASSUME NEW d \in Diagrams, NEW to \in Nodes \cup Nowhere
  PROVE  NewFrame(d, to) \in Plain
<1>1. NewFrame(d, to) \in Frame
  BY EmptyType DEF NewFrame, Frame
<1>2. \A x \in Own : ~Has(NewFrame(d, to).locals, x)
  BY DEF NewFrame, Has, Empty, Own
<1>. QED
  BY <1>1, <1>2 DEF Plain

LEMMA PlainCalled ==
  ASSUME NEW d \in Diagrams, NEW inputs \in Maps, NEW outputs \in Maps, combined \in Store
  PROVE  [NewFrame(d, "unset") EXCEPT !.locals = Mapped(inputs, combined), !.outputs = outputs,
                                     !.given = Sources(inputs)] \in Plain
<1>1. /\ Mapped(inputs, combined) \in Store
      /\ \A x \in Names : Has(Mapped(inputs, combined), x) => x \in Sources(inputs)
  BY MappedType
<1>. DEFINE n == NewFrame(d, "unset")
            store == Mapped(inputs, combined)
            names == Sources(inputs)
            f == [n EXCEPT !.locals = store, !.outputs = outputs, !.given = names]
<1>2. n \in Frame
  BY PlainNew DEF Plain, Nowhere
<1>3. names \subseteq Names
  BY DEF Sources
<1>4. \A x \in Own : Has(store, x) => x \in names
  BY <1>1 DEF Own
<1>5. store \in Store
  BY <1>1
<1>. HIDE DEF n, store, names
<1>6. f \in Frame
  BY <1>2, <1>3, <1>5 DEF Frame
<1>7. f.locals = store /\ f.given = names
  BY <1>2 DEF Frame
<1>. HIDE DEF f
<1>8. f \in Plain
  BY <1>4, <1>6, <1>7 DEF Plain
<1>. QED
  BY <1>8 DEF f, n, store, names

\* A frame that is handed values by the map of one it has called.
LEMMA PlainReturned ==
  ASSUME NEW f \in Plain, NEW map \in Maps \cup {NoMap}, combined \in Store
  PROVE  [f EXCEPT !.locals = Over(@, Mapped(map, combined)), !.given = @ \cup Sources(map)] \in Plain
<1>. DEFINE store == Over(f.locals, Mapped(map, combined))
            g == [f EXCEPT !.locals = store, !.given = f.given \cup Sources(map)]
<1>1. f \in Frame /\ f.locals \in Store /\ f.given \subseteq Names
  BY DEF Plain, Frame
<1>2. /\ Mapped(map, combined) \in Store
      /\ \A x \in Names : Has(Mapped(map, combined), x) => x \in Sources(map)
  BY MappedType
<1>3. store \in Store
  BY <1>1, <1>2, OverType
<1>4. Sources(map) \subseteq Names
  BY DEF Sources
<1>5. \A x \in Names : Has(store, x) => Has(f.locals, x) \/ x \in Sources(map)
  BY <1>2 DEF Over, Has
<1>. HIDE DEF store
<1>6. g \in Frame
  BY <1>1, <1>3, <1>4 DEF Frame
<1>7. g.locals = store /\ g.diagram = f.diagram /\ g.given = f.given \cup Sources(map)
  BY <1>1 DEF Frame
<1>. HIDE DEF g
<1>8. g \in Plain
  BY <1>5, <1>6, <1>7 DEF Plain, Own
<1>. QED
  BY <1>8 DEF g, store
-----------------------------------------------------------------------------
(* Handlers.                                                               *)

\* A handler that leaves the stack alone.
LEMMA OnwardStep ==
  ASSUME IInv, pc = "handle", UNCHANGED stack, NEW to \in Nodes, Returns(to) \/ Stops,
         globals' \in Store, \A x \in Names : Has(globals, x) => Has(globals', x),
         combined' \in Store, \A x \in Names : Has(combined, x) => Has(combined', x)
  PROVE  IInv'
<1>1. /\ action' \in {"IDLE", "REQUEST", "RUNNING", "END"}
      /\ pc' \in {"loop", "leave"}
      /\ next' \in Nodes \cup {NULL}
      /\ UNCHANGED <<version, based, running, local, changed>>
  BY DEF IInv, Scalars, Returns, Stops, Consumed
<1>2. Scalars'
  BY <1>1 DEF IInv, Scalars
<1>3. Belongs'
  BY <1>1 DEF IInv, Belongs
<1>4. Initialised'
  BY <1>1 DEF IInv, Initialised, Own
<1>. QED
  BY <1>1, <1>2, <1>3, <1>4, SamePlain DEF IInv

\* One that leaves k frames of it in s.
LEMMA UnwoundStep ==
  ASSUME IInv, pc = "handle", NEW k \in Nat, NEW s \in Seq(Plain), Unwound(k, s),
         k <= Len(stack), k <= Len(s), Len(s) <= MaxStack,
         \A j \in 1..k : s[j].locals = stack[j].locals,
         combined' \in Store, \A x \in Names : Has(combined, x) => Has(combined', x), based' \in BOOLEAN,
         action' \in {"IDLE", "REQUEST", "RUNNING", "END"}
  PROVE  IInv'
<1>1. /\ stack' = s /\ changed' = TRUE /\ pc' = "leave"
      /\ running' = IF running <= k THEN running ELSE 0
      /\ UNCHANGED <<globals, version, local, next>>
  BY DEF Unwound
<1>2. running = Len(stack) /\ stack # <<>> /\ local = stack[running].locals /\ running \in Nat /\ running # 0
  BY DEF IInv, Belongs
<1>3. Scalars'
  BY <1>1 DEF IInv, Scalars
<1>4. Belongs'
  <2>1. running' \in 0..Len(stack')
    BY <1>1, <1>2
  <2>2. running' # 0 => local' = stack'[running'].locals
    BY <1>1, <1>2
  <2>. QED
    BY <1>1, <2>1, <2>2 DEF Belongs
<1>5. Initialised'
  BY <1>1 DEF IInv, Initialised, Own
<1>. QED
  BY <1>1, <1>3, <1>4, <1>5, SamePlain DEF IInv

\* One that drops every flow.
LEMMA EmptiedStep ==
  ASSUME IInv, pc = "handle", Unwound(0, <<>>), combined' \in Store,
         \A x \in Names : Has(combined, x) => Has(combined', x), based' \in BOOLEAN,
         action' \in {"IDLE", "REQUEST", "RUNNING", "END"}
  PROVE  IInv'
<1>. DEFINE s == <<>>
<1>1. s \in Seq(Plain) /\ Len(s) = 0
  OBVIOUS
<1>2. Unwound(0, s)
  OBVIOUS
<1>. HIDE DEF s
<1>3. 0 \in Nat /\ 0 <= Len(stack) /\ 0 <= Len(s) /\ Len(s) <= MaxStack
  BY <1>1, VariablesAssumption DEF IInv
<1>4. \A j \in 1..0 : s[j].locals = stack[j].locals
  OBVIOUS
<1>. QED
  BY <1>1, <1>2, <1>3, <1>4, UnwoundStep

\* The frame on top of a handled stack.
LEMMA TopFacts ==
  ASSUME IInv, pc = "handle"
  PROVE  /\ combined \in Store /\ globals \in Store
         /\ Len(stack) \in Nat \ {0} /\ Len(stack) <= MaxStack
         /\ stack \in Seq(Plain) /\ \A j \in 1..Len(stack) : stack[j] \in Plain
         /\ Consumed \in {"IDLE", "REQUEST", "RUNNING", "END"}
         /\ based \in BOOLEAN
BY DEF IInv, Scalars, Belongs, Consumed, Requested

LEMMA SetCase == ASSUME IInv, NEW new \in Writes, NEW fails \in BOOLEAN, NEW to \in Nodes, SetStep(new, fails, to) PROVE IInv'
<1>1. combined' \in Store /\ \A x \in Names : Has(combined, x) => Has(combined', x)
  BY TopFacts, WritesType, OverType, OverHas DEF SetStep, At
<1>. QED
  BY <1>1, OnwardStep, TopFacts DEF SetStep, At

LEMMA SetV2Case == ASSUME IInv, NEW new \in Writes, NEW fails \in BOOLEAN, NEW to \in Nodes, SetV2Step(new, fails, to) PROVE IInv'
<1>. DEFINE created == [x \in Names |-> IF Has(new, x) /\ ~Has(combined, x) THEN Default ELSE ABSENT]
<1>1. created \in Store
  BY VariablesAssumption DEF Store, Cell
<1>2. globals' = Over(globals, created) /\ combined' = Over(Over(combined, created), IF fails THEN Empty ELSE new)
  BY DEF SetV2Step
<1>. HIDE DEF created
<1>3. globals' \in Store /\ combined' \in Store
  <2>1. (IF fails THEN Empty ELSE new) \in Store
    BY EmptyType, WritesType
  <2>. QED
    BY <1>1, <1>2, <2>1, TopFacts, OverType DEF SetV2Step, At
<1>4. \A x \in Names : (Has(globals, x) => Has(globals', x)) /\ (Has(combined, x) => Has(combined', x))
  BY <1>2 DEF Over, Has
<1>. QED
  BY <1>3, <1>4, OnwardStep DEF SetV2Step, At

LEMMA CodeCase == ASSUME IInv, NEW new \in Writes, NEW to \in Nodes, CodeStep(new, to) PROVE IInv'
<1>1. combined' \in Store /\ \A x \in Names : Has(combined, x) => Has(combined', x)
  BY TopFacts, WritesType, OverType, OverHas DEF CodeStep, At
<1>. QED
  BY <1>1, OnwardStep, TopFacts DEF CodeStep, At

LEMMA WaitCase == ASSUME IInv, Wait PROVE IInv'
<1>1. "null" \in Nodes
  BY DEF Nodes
<1>. QED
  BY <1>1, OnwardStep, TopFacts DEF Wait, At

LEMMA RunCase == ASSUME IInv, NEW new \in Writes, NEW to \in Nodes, RunFunction(new, to) PROVE IInv'
<1>1. combined' \in Store /\ globals' \in Store
  BY TopFacts, WritesType, OverType DEF RunFunction, At
<1>2. \A x \in Names : (Has(globals, x) => Has(globals', x)) /\ (Has(combined, x) => Has(combined', x))
  BY TopFacts, WritesType, OverHas DEF RunFunction, At
<1>. QED
  BY <1>1, <1>2, OnwardStep DEF RunFunction, At

LEMMA ResumeCase == ASSUME IInv, NEW to \in Nodes, ResumeFunction(to) PROVE IInv'
BY OnwardStep, TopFacts DEF ResumeFunction, At

\* The lowest k frames, and one more.
LEMMA PushedStack ==
  ASSUME NEW t \in Seq(Plain), NEW k \in 0..Len(t), NEW f \in Plain
  PROVE  LET s == Append(SubSeq(t, 1, k), f) IN
         /\ s \in Seq(Plain) /\ Len(s) = k + 1
         /\ \A j \in 1..k : s[j] = t[j]
<1>1. SubSeq(t, 1, k) \in Seq(Plain) /\ Len(SubSeq(t, 1, k)) = k /\ \A j \in 1..k : SubSeq(t, 1, k)[j] = t[j]
  OBVIOUS
<1>. QED
  BY <1>1

LEMMA CallCase ==
  ASSUME IInv, NEW d \in Diagrams, NEW inputs \in Maps, NEW outputs \in Maps, NEW to \in Nodes,
         CallFlow(d, inputs, outputs, to)
  PROVE  IInv'
<1>. DEFINE n == Len(stack)
            t == [stack EXCEPT ![n].at = to]
            f == [NewFrame(d, "unset") EXCEPT !.locals = Mapped(inputs, combined), !.outputs = outputs, !.given = Sources(inputs)]
<1>1. n \in Nat \ {0} /\ stack \in Seq(Plain) /\ combined \in Store /\ n < MaxStack
  BY TopFacts DEF CallFlow, At
<1>2. f \in Plain
  BY <1>1, PlainCalled
<1>3. [stack[n] EXCEPT !.at = to] \in Plain /\ [stack[n] EXCEPT !.at = to].locals = stack[n].locals
  BY <1>1, PlainAt
<1>4. t \in Seq(Plain) /\ Len(t) = n /\ \A j \in 1..n : t[j].locals = stack[j].locals
  BY <1>1, <1>3
<1>5. Unwound(n, Append(t, f)) /\ pc = "handle" /\ action' = Consumed /\ UNCHANGED <<combined, based>>
  BY DEF CallFlow, At
<1>. HIDE DEF t, f
<1>6. Append(t, f) \in Seq(Plain) /\ Len(Append(t, f)) = n + 1 /\ \A j \in 1..n : Append(t, f)[j] = t[j]
  BY <1>1, <1>2, <1>4
<1>. DEFINE s == Append(t, f)
<1>7. /\ s \in Seq(Plain) /\ n \in Nat /\ n <= Len(stack) /\ n <= Len(s) /\ Len(s) <= MaxStack
      /\ \A j \in 1..n : s[j].locals = stack[j].locals
  BY <1>1, <1>4, <1>6, VariablesAssumption
<1>8. Unwound(n, s) /\ combined' \in Store
  BY <1>1, <1>5
<1>9. action' \in {"IDLE", "REQUEST", "RUNNING", "END"} /\ based' \in BOOLEAN
  BY <1>5, TopFacts
<1>. HIDE DEF s, n
<1>. QED
  BY <1>5, <1>7, <1>8, <1>9, UnwoundStep

LEMMA GoToCase == ASSUME IInv, NEW d \in Diagrams, NEW to \in Nodes, GoToNode(d, to) PROVE IInv'
<1>1. PICK k \in 0..Len(stack) : k < MaxStack /\ Unwound(k, Append(SubSeq(stack, 1, k), NewFrame(d, to)))
  BY DEF GoToNode
<1>2. pc = "handle" /\ action' = Consumed /\ UNCHANGED <<combined, based>>
  BY DEF GoToNode, At
<1>3. stack \in Seq(Plain) /\ Len(stack) \in Nat
  BY <1>2, TopFacts
<1>. DEFINE s == Append(SubSeq(stack, 1, k), NewFrame(d, to))
<1>4. s \in Seq(Plain) /\ Len(s) = k + 1 /\ \A j \in 1..k : s[j] = stack[j]
  BY <1>1, <1>3, PushedStack, PlainNew
<1>5. MaxStack \in Nat
  BY VariablesAssumption
<1>. HIDE DEF s
<1>6. Unwound(k, s)
  BY <1>1 DEF s
<1>. QED
  BY <1>1, <1>2, <1>3, <1>4, <1>5, <1>6, UnwoundStep, TopFacts

LEMMA ResetCase == ASSUME IInv, ResetStep PROVE IInv'
<1>1. pc = "handle" /\ action' = Consumed /\ UNCHANGED <<combined, based>>
  BY DEF ResetStep, At
<1>2. stack \in Seq(Plain) /\ Len(stack) \in Nat \ {0} /\ stack[1] \in Plain
  BY <1>1, TopFacts
<1>3. CASE Unwound(0, <<>>)
  BY <1>1, <1>3, EmptiedStep, TopFacts
<1>4. CASE Unwound(1, <<[stack[1] EXCEPT !.at = "unset"]>>)
  <2>. DEFINE f == [stack[1] EXCEPT !.at = "unset"]
  <2>1. f \in Plain /\ f.locals = stack[1].locals
    BY <1>2, PlainAt DEF Nowhere
  <2>. HIDE DEF f
  <2>2. <<f>> \in Seq(Plain) /\ Len(<<f>>) = 1 /\ <<f>>[1] = f
    BY <2>1
  <2>. DEFINE s == <<f>>
  <2>3. /\ s \in Seq(Plain) /\ 1 \in Nat /\ 1 <= Len(stack) /\ 1 <= Len(s) /\ Len(s) <= MaxStack
        /\ \A j \in 1..1 : s[j].locals = stack[j].locals
    BY <1>2, <2>1, <2>2, VariablesAssumption
  <2>4. Unwound(1, s)
    BY <1>4 DEF f
  <2>. HIDE DEF s
  <2>. QED
    BY <1>1, <2>3, <2>4, UnwoundStep, TopFacts
<1>. QED
  BY <1>3, <1>4 DEF ResetStep

LEMMA EndCase == ASSUME IInv, EndStep PROVE IInv'
<1>1. PICK k \in 0..(Len(stack) - 1) : Unwound(k, SubSeq(stack, 1, k)) /\ based' = (based /\ k # 0)
  BY DEF EndStep
<1>2. pc = "handle" /\ action' = "END" /\ UNCHANGED combined
  BY DEF EndStep, At
<1>3. stack \in Seq(Plain) /\ Len(stack) \in Nat /\ Len(stack) <= MaxStack /\ MaxStack \in Nat
  BY <1>2, TopFacts, VariablesAssumption
<1>. DEFINE s == SubSeq(stack, 1, k)
<1>4. s \in Seq(Plain) /\ Len(s) = k /\ \A j \in 1..k : s[j] = stack[j]
  BY <1>1, <1>3
<1>. HIDE DEF s
<1>5. Unwound(k, s)
  BY <1>1 DEF s
<1>. QED
  BY <1>1, <1>2, <1>3, <1>4, <1>5, UnwoundStep, TopFacts

LEMMA CommandCase ==
  ASSUME IInv, NEW new \in Writes, NEW k \in 0..MaxStack, NEW d \in Diagrams, NEW to \in Nodes,
         Command(new, k, d, to)
  PROVE  IInv'
<1>1. /\ pc = "handle" /\ action' = Consumed /\ combined' = Over(combined, new)
      /\ (k \in DOMAIN stack \/ k = 0) /\ UNCHANGED based
  BY DEF Command, At
<1>2. /\ stack \in Seq(Plain) /\ Len(stack) \in Nat \ {0} /\ k \in 0..Len(stack) /\ Len(stack) <= MaxStack
      /\ MaxStack \in Nat /\ (k # 0 => stack[k] \in Plain)
  BY <1>1, TopFacts, VariablesAssumption
<1>3. /\ combined' \in Store /\ action' \in {"IDLE", "REQUEST", "RUNNING", "END"} /\ based' \in BOOLEAN
      /\ \A x \in Names : Has(combined, x) => Has(combined', x)
  BY <1>1, TopFacts, WritesType, OverType, OverHas
<1>4. CASE k = Len(stack) /\ k < MaxStack /\ Unwound(k, Append(stack, NewFrame(d, "unset")))
  <2>. DEFINE s == Append(stack, NewFrame(d, "unset"))
  <2>1. NewFrame(d, "unset") \in Plain
    BY PlainNew DEF Nowhere
  <2>2. /\ s \in Seq(Plain) /\ k <= Len(s) /\ Len(s) <= MaxStack
        /\ \A j \in 1..k : s[j].locals = stack[j].locals
    BY <1>2, <1>4, <2>1
  <2>3. Unwound(k, s) /\ k \in Nat /\ k <= Len(stack)
    BY <1>2, <1>4
  <2>. HIDE DEF s
  <2>. QED
    BY <1>1, <1>3, <2>2, <2>3, UnwoundStep
<1>8. CASE Unwound(0, <<>>)
  BY <1>1, <1>3, <1>8, EmptiedStep
<1>5. CASE k # 0 /\ Unwound(k, [SubSeq(stack, 1, k) EXCEPT ![k].at = to])
  <2>. DEFINE t == SubSeq(stack, 1, k)
              s == [t EXCEPT ![k].at = to]
  <2>1. t \in Seq(Plain) /\ Len(t) = k /\ \A j \in 1..k : t[j] = stack[j]
    BY <1>2
  <2>2. [t[k] EXCEPT !.at = to] \in Plain /\ [t[k] EXCEPT !.at = to].locals = t[k].locals
    BY <1>2, <1>5, <2>1, PlainAt
  <2>. HIDE DEF t
  <2>3. s \in Seq(Plain) /\ Len(s) = k /\ \A j \in 1..k : s[j].locals = t[j].locals
    BY <1>2, <1>5, <2>1, <2>2
  <2>4. k \in Nat /\ k <= Len(stack) /\ k <= Len(s) /\ Len(s) <= MaxStack
    BY <1>2, <2>3
  <2>6. Unwound(k, s)
    BY <1>5 DEF t, s
  <2>. HIDE DEF s
  <2>5. \A j \in 1..k : s[j].locals = stack[j].locals
    BY <2>1, <2>3
  <2>. QED
    BY <1>1, <1>3, <2>3, <2>4, <2>5, <2>6, UnwoundStep
<1>6. CASE k < MaxStack /\ Unwound(k, Append(SubSeq(stack, 1, k), NewFrame(d, to)))
  <2>. DEFINE s == Append(SubSeq(stack, 1, k), NewFrame(d, to))
  <2>1. s \in Seq(Plain) /\ Len(s) = k + 1 /\ \A j \in 1..k : s[j] = stack[j]
    BY <1>2, PushedStack, PlainNew
  <2>. HIDE DEF s
  <2>2. /\ Unwound(k, s) /\ k \in Nat /\ k <= Len(stack) /\ k <= Len(s) /\ Len(s) <= MaxStack
        /\ \A j \in 1..k : s[j].locals = stack[j].locals
    BY <1>2, <1>6, <2>1 DEF s
  <2>. QED
    BY <1>1, <1>3, <2>1, <2>2, UnwoundStep
<1>7. CASE pc' = "leave" /\ UNCHANGED <<globals, version, stack, running, local, next, changed>>
  <2>1. Own' = Own /\ Plain' = Plain
    BY <1>7, SamePlain
  <2>. QED
    BY <1>1, <1>3, <1>7, <2>1 DEF IInv, Scalars, Belongs, Initialised, Own
<1>. QED
  BY <1>4, <1>8, <1>5, <1>6, <1>7 DEF Command
-----------------------------------------------------------------------------
(* The loops and the turn.                                                 *)

LEMMA TimeoutCase == ASSUME IInv, Timeout \/ Overflow PROVE IInv'
<1>1. Own' = Own /\ Plain' = Plain
  BY SamePlain DEF Timeout, Overflow
<1>. QED
  BY <1>1 DEF IInv, Scalars, Belongs, Initialised, Timeout, Overflow

LEMMA ArriveCase == ASSUME IInv, Arrive PROVE IInv'
<1>1. /\ pc = "loop" /\ running = Len(stack) /\ stack # <<>> /\ stack \in Seq(Plain) /\ ~changed
      /\ local = stack[running].locals /\ next \in Nodes \cup {NULL}
      /\ Len(stack) \in Nat \ {0}
  BY DEF IInv, Scalars, Belongs, Arrive
<1>2. /\ stack' \in Seq(Plain) /\ Len(stack') = Len(stack)
      /\ stack'[Len(stack)].locals = stack[Len(stack)].locals
  <2>1. CASE next = NULL
    BY <1>1, <2>1 DEF Arrive
  <2>2. CASE next # NULL
    <3>. DEFINE n == Len(stack)
                f == [stack[n] EXCEPT !.at = next]
    <3>1. f \in Plain /\ f.locals = stack[n].locals
      BY <1>1, <2>2, PlainAt
    <3>2. stack' = [stack EXCEPT ![n] = f]
      BY <1>1, <2>2 DEF Arrive
    <3>. HIDE DEF f
    <3>. QED
      BY <1>1, <3>1, <3>2
  <2>. QED
    BY <2>1, <2>2
<1>3. pc' \in {"leave", "handle"} /\ UNCHANGED <<globals, version, based, combined, running, local, action, changed>> /\ next' = NULL
  BY DEF Arrive
<1>4. Scalars'
  BY <1>3 DEF IInv, Scalars
<1>5. Belongs'
  BY <1>1, <1>2, <1>3 DEF IInv, Belongs
<1>6. Own' = Own /\ Plain' = Plain
  BY <1>3, SamePlain
<1>. QED
  BY <1>1, <1>2, <1>3, <1>4, <1>5, <1>6 DEF IInv, Initialised

LEMMA EndTurnCase == ASSUME IInv, EndTurn PROVE IInv'
<1>1. Own' = Own /\ Plain' = Plain
  BY SamePlain DEF EndTurn
<1>2. based' \in BOOLEAN
  BY DEF IInv, Scalars, EndTurn
<1>. QED
  BY <1>1, <1>2 DEF IInv, Scalars, Belongs, Initialised, EndTurn

LEMMA EnterCase == ASSUME IInv, EnterFrame PROVE IInv'
<1>. DEFINE n == Len(stack)
            hydrated == IF Top.hydrated THEN Top.locals
                        ELSE [x \in Names |-> IF x \in Declared[version][Top.diagram] /\ Top.locals[x] \in {UNDEF, ABSENT}
                                              THEN Default ELSE Top.locals[x]]
            at == IF ~Top.hydrated /\ Top.at = "unset" THEN "step" ELSE Top.at
            f == [Top EXCEPT !.at = at, !.locals = hydrated, !.hydrated = TRUE]
<1>1. stack \in Seq(Plain) /\ n \in Nat \ {0} /\ Top \in Plain /\ pc = "cycle" /\ version \in Versions
  BY DEF IInv, Scalars, EnterFrame, Top
<1>2. Top.locals \in Store /\ at \in Nodes \cup Nowhere
  BY <1>1 DEF Plain, Frame, Nodes
<1>3. /\ hydrated \in Store
      /\ \A x \in Own : Has(hydrated, x) => Has(Top.locals, x) \/ Declares(Top.diagram, x)
  BY <1>1, <1>2, VariablesAssumption DEF Store, Cell, Has, Own, Declares
<1>4. /\ stack' = [stack EXCEPT ![n] = [@ EXCEPT !.at = at, !.locals = hydrated, !.hydrated = TRUE]]
      /\ local' = hydrated /\ combined' = Over(globals, hydrated) /\ running' = n
      /\ pc' = "loop" /\ changed' = FALSE /\ next' = NULL /\ UNCHANGED <<globals, version, based, action>>
  BY DEF EnterFrame
<1>. HIDE DEF hydrated, at
<1>5. f \in Plain /\ f.locals = hydrated
  BY <1>1, <1>2, <1>3, PlainEntered
<1>6. stack' = [stack EXCEPT ![n] = f]
  BY <1>1, <1>4 DEF Top
<1>. HIDE DEF f
<1>7. stack' \in Seq(Plain) /\ Len(stack') = n /\ stack'[n] = f
  BY <1>1, <1>5, <1>6
<1>8. combined' \in Store
  BY <1>3, <1>4, OverType DEF IInv, Scalars
<1>9. Scalars'
  BY <1>3, <1>4, <1>8 DEF IInv, Scalars
<1>10. Belongs'
  BY <1>1, <1>4, <1>5, <1>7, <1>8 DEF Belongs
<1>11. Initialised'
  BY <1>1, <1>3, <1>4, OverHas DEF IInv, Scalars, Initialised, Own
<1>12. Own' = Own /\ Plain' = Plain
  BY <1>4, SamePlain
<1>. QED
  BY <1>1, <1>4, <1>7, <1>9, <1>10, <1>11, <1>12 DEF IInv

\* What is saved as local was local or is nowhere else.
LEMMA SavedFacts ==
  ASSUME IInv, pc = "leave"
  PROVE  /\ SavedLocal \in Store /\ SavedGlobals \in Store
         /\ \A x \in Own : Has(SavedLocal, x) => Has(local, x)
         /\ \A x \in Own : Has(SavedGlobals, x)
<1>1. /\ combined \in Store /\ local \in Store /\ globals \in Store
      /\ \A x \in Own : x \in Names /\ Has(globals, x) /\ Has(combined, x)
  BY DEF IInv, Scalars, Belongs, Initialised, Own
<1>. QED
  BY <1>1 DEF SavedLocal, SavedGlobals, Store, Has

LEMMA Prefix ==
  ASSUME NEW s \in Seq(Plain), NEW k \in 0..Len(s)
  PROVE  SubSeq(s, 1, k) \in Seq(Plain) /\ Len(SubSeq(s, 1, k)) = k /\ DOMAIN SubSeq(s, 1, k) = 1..k
OBVIOUS

LEMMA LeaveCase == ASSUME IInv, LeaveFrame PROVE IInv'
<1>. DEFINE saved == IF running = 0 THEN stack ELSE [stack EXCEPT ![running].locals = SavedLocal]
<1>1. /\ pc = "leave" /\ stack' = IF action = "END" \/ changed THEN saved ELSE Finished(saved)
      /\ globals' = SavedGlobals /\ combined' = NULL /\ running' = 0 /\ local' = Empty
      /\ next' = NULL /\ changed' = FALSE
      /\ pc' \in {"idle", "cycle"} /\ action' \in {"IDLE", action}
      /\ UNCHANGED <<version, based>>
  BY DEF LeaveFrame
<1>2. /\ stack \in Seq(Plain) /\ Len(stack) \in Nat /\ Len(stack) <= MaxStack /\ MaxStack \in Nat
      /\ running \in 0..Len(stack) /\ combined \in Store
      /\ running # 0 => local = stack[running].locals
      /\ ~changed => stack # <<>>
  BY <1>1, VariablesAssumption DEF IInv, Belongs
<1>3. saved \in Seq(Plain) /\ Len(saved) = Len(stack)
  <2>1. CASE running = 0
    BY <1>2, <2>1
  <2>2. CASE running # 0
    <3>. DEFINE f == [stack[running] EXCEPT !.locals = SavedLocal]
    <3>1. stack[running] \in Plain
      BY <1>2, <2>2
    <3>2. SavedLocal \in Store /\ \A x \in Own : Has(SavedLocal, x) => Has(stack[running].locals, x)
      BY <1>1, <1>2, <2>2, SavedFacts
    <3>3. f \in Plain
      BY <3>1, <3>2, PlainLocals
    <3>4. saved = [stack EXCEPT ![running] = f]
      BY <2>2
    <3>5. running \in 1..Len(stack)
      BY <1>2, <2>2
    <3>. HIDE DEF f, saved
    <3>. QED
      BY <1>2, <3>3, <3>4, <3>5
  <2>. QED
    BY <2>1, <2>2
<1>. HIDE DEF saved
<1>4. stack' \in Seq(Plain) /\ Len(stack') <= MaxStack
  <2>1. CASE action = "END" \/ changed
    BY <1>1, <1>2, <1>3, <2>1
  <2>2. CASE ~(action = "END" \/ changed)
    <3>. DEFINE n == Len(saved)
                rest == SubSeq(saved, 1, n - 1)
                map == saved[n].outputs
                g(f) == [f EXCEPT !.locals = Over(@, Mapped(map, combined)), !.given = @ \cup Sources(map)]
    <3>1. n \in Nat \ {0} /\ n <= MaxStack /\ MaxStack \in Nat /\ saved \in Seq(Plain)
      BY <1>2, <1>3, <2>2
    <3>2. map \in Maps \cup {NoMap}
      <4>1. saved[n] \in Plain
        BY <3>1
      <4>. QED
        BY <4>1 DEF Plain, Frame
    <3>3. rest \in Seq(Plain) /\ Len(rest) = n - 1 /\ DOMAIN rest = 1..(n - 1)
      <4>1. n - 1 \in 0..Len(saved)
        BY <3>1
      <4>. DEFINE m == n - 1
      <4>. HIDE DEF m, n
      <4>2. SubSeq(saved, 1, m) \in Seq(Plain) /\ Len(SubSeq(saved, 1, m)) = m /\ DOMAIN SubSeq(saved, 1, m) = 1..m
        BY <3>1, <4>1, Prefix DEF m
      <4>. QED
        BY <4>2 DEF m
    <3>. HIDE DEF map
    <3>4. \A f \in Plain : g(f) \in Plain
      BY <1>2, <3>2, PlainReturned
    <3>. HIDE DEF g, rest, n
    <3>5. stack' = [k \in 1..(n - 1) |-> IF k = n - 1 THEN g(rest[k]) ELSE rest[k]]
      BY <1>1, <2>2, <3>3 DEF Finished, g, rest, n, map
    <3>6. \A k \in 1..(n - 1) : (IF k = n - 1 THEN g(rest[k]) ELSE rest[k]) \in Plain
      BY <3>1, <3>3, <3>4
    <3>7. stack' \in Seq(Plain) /\ Len(stack') = n - 1
      BY <3>1, <3>5, <3>6
    <3>. QED
      BY <3>1, <3>7
  <2>. QED
    BY <2>1, <2>2
<1>5. Scalars'
  BY <1>1, SavedFacts, EmptyType DEF IInv, Scalars
<1>6. Belongs'
  BY <1>1, <1>4 DEF Belongs
<1>8. Own' = Own /\ Plain' = Plain
  BY <1>1, SamePlain
<1>7. Initialised'
  BY <1>1, <1>8, SavedFacts DEF Initialised
<1>. QED
  BY <1>4, <1>5, <1>6, <1>7, <1>8 DEF IInv

LEMMA StoredType ==
  ASSUME NEW store \in Store, NEW lost \in Cell
  PROVE  /\ Stored(store, lost) \in Store
         /\ \A x \in Names : Has(Stored(store, lost), x) => Has(store, x)
BY VariablesAssumption DEF Stored, Store, Cell, Has

\* The session of a version hides only what it has prepared.
LEMMA GeneratedPlain ==
  ASSUME NEW v \in Versions, version' = v
  PROVE  Generated(v) \in Seq(Plain') /\ Len(Generated(v)) <= MaxStack
<1>. DEFINE flows == Prepared[v].flows
            g(f) == [f EXCEPT !.hydrated = FALSE, !.given = {x \in Names : Has(f.locals, x)}]
<1>1. flows \in Seq(Frame) /\ Len(flows) <= MaxStack
  BY VariablesAssumption
<1>2. Generated(v) = [k \in DOMAIN flows |-> g(flows[k])]
  BY DEF Generated
<1>3. ASSUME NEW f \in Frame PROVE g(f) \in Plain'
  <2>1. g(f) \in Frame
    BY DEF Frame
  <2>2. g(f).locals = f.locals /\ g(f).given = {x \in Names : Has(f.locals, x)}
    BY DEF Frame
  <2>. HIDE DEF g
  <2>. QED
    BY <2>1, <2>2 DEF Plain, Own
<1>. HIDE DEF flows, g
<1>4. \A k \in DOMAIN flows : flows[k] \in Frame /\ DOMAIN flows = 1..Len(flows) /\ Len(flows) \in Nat
  BY <1>1
<1>5. \A k \in DOMAIN flows : g(flows[k]) \in Plain'
  BY <1>3, <1>4
<1>6. DOMAIN flows = 1..Len(flows) /\ Len(flows) \in Nat
  BY <1>1
<1>. QED
  BY <1>1, <1>2, <1>5, <1>6

\* A frame that is kept when a turn begins hides what it did, or a name that its
\* version did not declare.
LEMMA RestoredPlain ==
  ASSUME NEW f \in Plain, NEW v \in Versions, version' = v, NEW lost \in Cell
  PROVE  Restored(f, v, lost) \in Plain'
<1>. DEFINE store == Stored(f.locals, lost)
            more == {x \in VersionNames[v] \ VersionNames[version] : Has(f.locals, x)}
            g == [f EXCEPT !.hydrated = FALSE, !.locals = store, !.given = f.given \cup more]
<1>1. f \in Frame /\ f.locals \in Store /\ f.given \subseteq Names
  BY DEF Plain, Frame
<1>2. store \in Store /\ \A x \in Names : Has(store, x) => Has(f.locals, x)
  BY <1>1, StoredType
<1>3. more \subseteq Names
  BY VariablesAssumption
<1>4. \A x \in Own' : Has(f.locals, x) => x \in more \/ x \in f.given \/ Declares(f.diagram, x)
  BY DEF Own, Plain
<1>5. \A x \in Own' : Has(store, x) => x \in more \/ x \in f.given \/ Declares(f.diagram, x)
  BY <1>2, <1>4 DEF Own
<1>. HIDE DEF store, more
<1>6. g \in Frame
  BY <1>1, <1>2, <1>3 DEF Frame
<1>7. g.locals = store /\ g.diagram = f.diagram /\ g.given = f.given \cup more
  BY <1>1 DEF Frame
<1>. HIDE DEF g
<1>8. g \in Plain'
  BY <1>5, <1>6, <1>7 DEF Plain
<1>. QED
  BY <1>8 DEF Restored, g, store, more

LEMMA StartCase ==
  ASSUME IInv, NEW v \in Versions, NEW request \in Requests, NEW lost \in Cell, NEW loaded \in BOOLEAN,
         StartTurn(v, request, lost, loaded)
  PROVE  IInv'
<1>. DEFINE stored == Stored(globals, lost)
<1>1. /\ pc = "idle" /\ pc' = "cycle" /\ action' \in {"RUNNING", "REQUEST"}
      /\ version' = v /\ based' \in BOOLEAN
      /\ globals' \in {Initialized(v, Over(Prepared[v].globals, stored)), Initialized(v, stored)}
      /\ stack' \in {Generated(v), [k \in DOMAIN stack |-> Restored(stack[k], v, lost)]}
      /\ UNCHANGED <<combined, running, local, next, changed>>
      /\ running = 0 /\ combined = NULL
  BY DEF IInv, Belongs, Scalars, StartTurn
<1>2. stored \in Store
  BY StoredType DEF IInv, Scalars
<1>3. \A store \in Store : Initialized(v, store) \in Store /\ \A x \in Names : x \in VersionNames[v] => Has(Initialized(v, store), x)
  BY VariablesAssumption DEF Initialized, Store, Cell, Has
<1>4. globals' \in Store /\ \A x \in Own' : Has(globals', x)
  <2>1. Prepared[v].globals \in Store
    BY VariablesAssumption
  <2>2. Over(Prepared[v].globals, stored) \in Store
    BY <1>2, <2>1, OverType
  <2>. HIDE DEF stored
  <2>. QED
    BY <1>1, <1>2, <1>3, <2>2 DEF Own
<1>5. stack' \in Seq(Plain') /\ Len(stack') <= MaxStack
  <2>1. CASE stack' = Generated(v)
    BY <1>1, <2>1, GeneratedPlain
  <2>2. CASE stack' = [k \in DOMAIN stack |-> Restored(stack[k], v, lost)]
    <3>. DEFINE n == Len(stack)
    <3>1. n \in Nat /\ n <= MaxStack /\ DOMAIN stack = 1..n /\ \A k \in 1..n : stack[k] \in Plain
      BY DEF IInv
    <3>2. \A k \in 1..n : Restored(stack[k], v, lost) \in Plain'
      BY <1>1, <3>1, RestoredPlain
    <3>3. stack' = [k \in 1..n |-> Restored(stack[k], v, lost)]
      BY <2>2, <3>1
    <3>. HIDE DEF n
    <3>4. stack' \in Seq(Plain') /\ Len(stack') = n
      BY <3>1, <3>2, <3>3
    <3>. QED
      BY <3>1, <3>4
  <2>. QED
    BY <1>1, <2>1, <2>2
<1>6. Scalars'
  BY <1>1, <1>4 DEF IInv, Scalars
<1>7. Belongs'
  BY <1>1, <1>5 DEF Belongs
<1>8. Initialised'
  BY <1>1, <1>4 DEF Initialised
<1>. QED
  BY <1>5, <1>6, <1>7, <1>8 DEF IInv
-----------------------------------------------------------------------------
LEMMA Initially == Init => IInv
<1>. SUFFICES ASSUME Init PROVE IInv
  OBVIOUS
<1>1. Scalars
  BY EmptyType DEF Init, Scalars
<1>2. stack \in Seq(Plain) /\ Len(stack) = 0
  BY DEF Init
<1>3. Belongs
  BY <1>2 DEF Init, Belongs
<1>4. Initialised
  BY DEF Init, Initialised
<1>. QED
  BY <1>1, <1>2, <1>3, <1>4, VariablesAssumption DEF IInv

LEMMA StepIInv == IInv /\ [Next]_vars => IInv'
<1>. SUFFICES ASSUME IInv, [Next]_vars PROVE IInv'
  OBVIOUS
<1>1. CASE \E v \in Versions, request \in Requests, lost \in Cell, loaded \in BOOLEAN : StartTurn(v, request, lost, loaded)
  BY <1>1, StartCase
<1>2. CASE EnterFrame \/ EndTurn \/ LeaveFrame
  BY <1>2, EnterCase, EndTurnCase, LeaveCase
<1>3. CASE Timeout \/ Overflow \/ Arrive
  BY <1>3, TimeoutCase, ArriveCase
<1>4. CASE \E new \in Writes, to \in Nodes : CodeStep(new, to) \/ RunFunction(new, to)
  BY <1>4, CodeCase, RunCase
<1>5. CASE \E new \in Writes, to \in Nodes, fails \in BOOLEAN : SetStep(new, fails, to) \/ SetV2Step(new, fails, to)
  BY <1>5, SetCase, SetV2Case
<1>6. CASE \E new \in Writes, to \in Nodes, d \in Diagrams, k \in 0..MaxStack : Command(new, k, d, to)
  BY <1>6, CommandCase
<1>7. CASE \E d \in Diagrams, to \in Nodes : GoToNode(d, to) \/ \E inputs, outputs \in Maps : CallFlow(d, inputs, outputs, to)
  BY <1>7, GoToCase, CallCase
<1>8. CASE ResetStep \/ EndStep \/ Wait \/ \E to \in Nodes : ResumeFunction(to)
  BY <1>8, ResetCase, EndCase, WaitCase, ResumeCase
<1>9. CASE UNCHANGED vars
  <2>1. Own' = Own /\ Plain' = Plain
    BY <1>9, SamePlain DEF vars
  <2>. QED
    BY <1>9, <2>1 DEF IInv, Scalars, Belongs, Initialised, vars, control
<1>. QED
  BY <1>1, <1>2, <1>3, <1>4, <1>5, <1>6, <1>7, <1>8, <1>9 DEF Next

\* The stores, the frame they belong to and what it may hide, for every project.
THEOREM Inductive == Spec => []IInv
<1>. QED
  BY Initially, StepIInv, PTL DEF Spec

\* In every project, whatever flows are called, left, jumped out of or dropped
\* while steps assign variables (src/runtime/lib/Runtime/cycleStack.ts:43), a
\* variable of the version is hidden only where a flow declares or maps it.
THEOREM HidesOnlyWhatIsGiven == Spec => []HidesOnlyGiven
<1>1. IInv => HidesOnlyGiven
  <2>. SUFFICES ASSUME IInv, NEW k \in DOMAIN stack, NEW x \in VersionNames[version], Has(stack[k].locals, x)
                PROVE  x \in stack[k].given \/ Declares(stack[k].diagram, x)
    BY DEF HidesOnlyGiven, Declares
  <2>1. x \in Own
    BY VariablesAssumption DEF IInv, Scalars, Own
  <2>2. stack[k] \in Plain
    BY DEF IInv
  <2>. QED
    BY <2>1, <2>2 DEF Plain
<1>. QED
  BY <1>1, Inductive, PTL

\* Each variable keeps its kind and the frame that is saved to is on the stack,
\* for every project and every bound.
THEOREM TypeCorrect == Spec => []TypeOK
<1>1. IInv => TypeOK
  <2>. SUFFICES ASSUME IInv PROVE TypeOK
    OBVIOUS
  <2>1. Scalars /\ stack \in Seq(Plain) /\ Len(stack) <= MaxStack /\ running \in 0..Len(stack)
    BY DEF IInv, Belongs
  <2>2. Plain \subseteq Frame
    BY DEF Plain
  <2>3. stack \in Seq(Frame)
    BY <2>1, <2>2
  <2>. QED
    BY <2>1, <2>3 DEF TypeOK, Scalars
<1>. QED
  BY <1>1, Inductive, PTL

-----------------------------------------------------------------------------
(* The combined store implements the scopes.                               *)

\* What the globals or the flow have is in the combined store.
Covers ==
  pc \in {"loop", "handle", "leave"} =>
    \A x \in Names : Has(globals, x) \/ Has(local, x) => Has(combined, x)

LEMMA CoversStep ==
  ASSUME IInv, Covers, [Next]_vars
  PROVE  Covers'
<1>1. CASE EnterFrame
  <2>1. globals \in Store /\ local' \in Store
    BY <1>1, StepIInv DEF IInv, Scalars
  <2>2. combined' = Over(globals, local') /\ UNCHANGED globals
    BY <1>1 DEF EnterFrame
  <2> QED BY <2>1, <2>2 DEF Covers, Over, Has, Store
<1>2. CASE UNCHANGED <<globals, local, combined>> /\ pc \in {"loop", "handle", "leave"}
  BY <1>2 DEF Covers
<1>3. CASE pc' \notin {"loop", "handle", "leave"}
  BY <1>3 DEF Covers
<1>4. ASSUME pc = "handle", UNCHANGED local,
             \A x \in Names : Has(globals', x) => Has(globals, x) \/ Has(combined', x),
             \A x \in Names : Has(combined, x) => Has(combined', x)
      PROVE  Covers'
  BY <1>4 DEF Covers
<1>5. ASSUME NEW new \in Writes, pc = "handle", UNCHANGED <<globals, local>>, combined' = Over(combined, new)
      PROVE  Covers'
  BY <1>4, <1>5 DEF Over, Has
<1>6. ASSUME NEW new \in Writes, NEW fails \in BOOLEAN, NEW to \in Nodes,
             SetStep(new, fails, to) \/ CodeStep(new, to)
      PROVE  Covers'
  BY <1>5, <1>6 DEF SetStep, CodeStep, At, Returns, Stops
<1>7. ASSUME NEW new \in Writes, NEW d \in Diagrams, NEW k \in 0..MaxStack, NEW to \in Nodes,
             Command(new, k, d, to)
      PROVE  Covers'
  BY <1>5, <1>7 DEF Command, At, Unwound
<1>8. ASSUME NEW new \in Writes, NEW to \in Nodes, RunFunction(new, to) PROVE Covers'
  <2>1. /\ pc = "handle" /\ UNCHANGED local
        /\ globals' = Over(globals, new) /\ combined' = Over(combined, new)
    BY <1>8 DEF RunFunction, At, Returns, Stops
  <2> QED BY <1>4, <2>1 DEF Over, Has
<1>9. ASSUME NEW new \in Writes, NEW fails \in BOOLEAN, NEW to \in Nodes, SetV2Step(new, fails, to)
      PROVE  Covers'
  <2>. DEFINE created == [x \in Names |-> IF Has(new, x) /\ ~Has(combined, x) THEN Default ELSE ABSENT]
  <2>1. /\ pc = "handle" /\ UNCHANGED local /\ globals' = Over(globals, created)
        /\ combined' = Over(Over(combined, created), IF fails THEN Empty ELSE new)
    BY <1>9 DEF SetV2Step, At, Returns
  <2>. HIDE DEF created
  <2> QED BY <1>4, <2>1 DEF Over, Has
<1>10. ASSUME NEW d \in Diagrams, NEW to \in Nodes,
              \/ GoToNode(d, to)
              \/ \E inputs, outputs \in Maps : CallFlow(d, inputs, outputs, to)
       PROVE  Covers'
  BY <1>2, <1>10 DEF GoToNode, CallFlow, At, Unwound
<1>11. CASE ResetStep \/ EndStep \/ Wait \/ \E to \in Nodes : ResumeFunction(to)
  BY <1>2, <1>11 DEF ResetStep, EndStep, Wait, ResumeFunction, At, Unwound, Returns, Stops
<1>12. CASE Timeout \/ Overflow \/ Arrive
  BY <1>2, <1>12 DEF Timeout, Overflow, Arrive
<1>13. CASE EndTurn \/ LeaveFrame \/ \E v \in Versions, request \in Requests, lost \in Cell, loaded \in BOOLEAN : StartTurn(v, request, lost, loaded)
  BY <1>3, <1>13 DEF EndTurn, LeaveFrame, StartTurn
<1>14. CASE UNCHANGED vars
  BY <1>14 DEF Covers, vars, control
<1> QED
  BY <1>1, <1>6, <1>7, <1>8, <1>9, <1>10, <1>11, <1>12, <1>13, <1>14 DEF Next

\* What the flow that runs sees is the combined store.
LEMMA VisibleIsCombined ==
  ASSUME IInv, Covers, pc \in {"loop", "handle", "leave"}
  PROVE  Over(SavedGlobals, SavedLocal) = combined
<1>1. combined \in Store /\ local \in Store /\ globals \in Store
  BY DEF IInv, Scalars, Belongs
<1>2. \A x \in Names : Over(SavedGlobals, SavedLocal)[x] = combined[x]
  BY <1>1 DEF Covers, Over, SavedGlobals, SavedLocal, Has, Store
<1>3. Over(SavedGlobals, SavedLocal) = [x \in Names |-> Over(SavedGlobals, SavedLocal)[x]]
  BY DEF Over
<1> QED BY <1>1, <1>2, <1>3 DEF Store

Scope == [store : Store, outputs : Maps \cup {NoMap}]

Mirrored ==
  /\ SeenGlobals \in Store /\ SeenScopes \in Seq(Scope) /\ Len(SeenScopes) = Len(stack)
  /\ \A k \in 1..Len(stack) :
       SeenScopes[k] = [store |-> SeenStore(k), outputs |-> stack[k].outputs]

LEMMA Mirror == IInv => Mirrored
<1>. SUFFICES ASSUME IInv PROVE Mirrored
  OBVIOUS
<1>1. globals \in Store /\ local \in Store /\ combined \in Store \cup {NULL}
  BY DEF IInv, Scalars
<1>2. combined # NULL => SavedGlobals \in Store /\ SavedLocal \in Store
  BY <1>1 DEF SavedGlobals, SavedLocal, Store
<1>. DEFINE n == Len(stack)
<1>3. n \in Nat /\ DOMAIN stack = 1..n /\ \A k \in 1..n : stack[k] \in Frame
  BY DEF IInv, Plain
<1>4. \A k \in 1..n : stack[k].locals \in Store /\ stack[k].outputs \in Maps \cup {NoMap}
  BY <1>3 DEF Frame
<1>5. \A k \in 1..n : SeenStore(k) \in Store
  BY <1>2, <1>4 DEF SeenStore
<1>. DEFINE at(k) == [store |-> SeenStore(k), outputs |-> stack[k].outputs]
<1>6. \A k \in 1..n : at(k) \in Scope
  BY <1>4, <1>5 DEF Scope
<1>7. SeenScopes = [k \in 1..n |-> at(k)]
  BY <1>3 DEF SeenScopes
<1>. HIDE DEF at, n
<1>8. SeenScopes \in Seq(Scope) /\ Len(SeenScopes) = n /\ \A k \in 1..n : SeenScopes[k] = at(k)
  BY <1>3, <1>6, <1>7
<1> QED BY <1>1, <1>2, <1>8 DEF Mirrored, SeenGlobals, at, n

LEMMA MirrorNext == IInv' => Mirrored'
BY Mirror, PTL

\* A step that changes nothing the flows can tell.
LEMMA StutterStep ==
  ASSUME UNCHANGED <<SeenGlobals, SeenScopes>>
  PROVE  UNCHANGED Seen!vars
BY DEF Seen!vars

\* While a flow runs the scope on top is what will be saved of its locals.
LEMMA Running ==
  ASSUME IInv, pc \in {"loop", "handle", "leave"}
  PROVE  /\ combined \in Store /\ local \in Store /\ globals \in Store /\ combined # NULL
         /\ SeenGlobals = SavedGlobals
         /\ pc # "leave" \/ ~changed =>
              /\ stack # <<>> /\ running = Len(stack) /\ Len(stack) \in Nat \ {0}
              /\ SeenScopes[Len(SeenScopes)] = [store |-> SavedLocal, outputs |-> Top.outputs]
<1>1. combined \in Store /\ local \in Store /\ globals \in Store /\ combined # NULL
  BY NullAssumption DEF IInv, Scalars, Belongs
<1>2. Mirrored
  BY Mirror
<1>3. stack \in Seq(Plain)
  BY DEF IInv
<1>4. pc # "leave" \/ ~changed => stack # <<>> /\ running = Len(stack) /\ Len(stack) \in Nat \ {0}
  BY <1>3 DEF IInv, Belongs
<1> QED BY <1>1, <1>2, <1>4 DEF Mirrored, SeenStore, SeenGlobals, Top

Assigns(x, was, is) ==
  \/ is = was /\ SeenGlobals'[x] = SeenGlobals[x]
  \/ (was # ABSENT \/ ~Has(SeenGlobals, x)) /\ is # ABSENT /\ SeenGlobals'[x] = SeenGlobals[x]
  \/ was = ABSENT /\ is = ABSENT /\ SeenGlobals'[x] # ABSENT

\* What is merged with the combined store is assigned where the name is found.
LEMMA MergeAssigns ==
  ASSUME IInv, Covers, IInv', pc \in {"loop", "handle", "leave"}, pc' \in {"loop", "handle", "leave"},
         NEW new \in Store, combined' = Over(combined, new), UNCHANGED <<globals, local>>
  PROVE  \A x \in Names : Assigns(x, SavedLocal[x], SavedLocal'[x])
<1>1. combined \in Store /\ local \in Store /\ globals \in Store /\ SeenGlobals = SavedGlobals
  BY Running
<1>2. combined' # NULL
  BY NullAssumption DEF IInv, Scalars, Belongs
<1>3. SeenGlobals' = SavedGlobals'
  BY <1>2 DEF SeenGlobals
<1> QED BY <1>1, <1>3 DEF Assigns, SavedLocal, SavedGlobals, Over, Has, Covers, Store

\* The scopes below the one on top stay, and that one's map.
StaysBelow ==
  /\ SeenScopes # <<>> /\ Len(SeenScopes') = Len(SeenScopes)
  /\ \A k \in DOMAIN SeenScopes : k < Len(SeenScopes) => SeenScopes'[k] = SeenScopes[k]
  /\ SeenScopes[Len(SeenScopes)].outputs = SeenScopes'[Len(SeenScopes')].outputs

LEMMA AssignIs ==
  ASSUME StaysBelow,
         \A x \in Names : Assigns(x, SeenScopes[Len(SeenScopes)].store[x], SeenScopes'[Len(SeenScopes')].store[x])
  PROVE  Seen!Assign
BY DEF StaysBelow, Assigns, Has, Seen!Assign, Seen!InTop, Seen!Assigned, Seen!Top, Seen!Has

LEMMA HandlerStays ==
  ASSUME IInv, IInv', pc = "handle", UNCHANGED <<stack, running, changed>>, pc' \in {"loop", "leave"}
  PROVE  /\ StaysBelow
         /\ SeenScopes[Len(SeenScopes)].store = SavedLocal
         /\ SeenScopes'[Len(SeenScopes')].store = SavedLocal'
<1>1. /\ running = Len(stack) /\ Len(stack) \in Nat \ {0} /\ ~changed
      /\ SeenScopes[Len(SeenScopes)] = [store |-> SavedLocal, outputs |-> Top.outputs]
  BY Running DEF IInv, Belongs
<1>2. Mirrored /\ Mirrored' /\ combined # NULL /\ combined' # NULL
  BY Mirror, MirrorNext, NullAssumption DEF IInv, Scalars, Belongs
<1>3. \A k \in 1..Len(stack) : k # running => SeenStore(k)' = SeenStore(k)
  BY DEF SeenStore
<1>4. \A k \in 1..Len(stack) :
        k = running => SeenStore(k)' = SavedLocal' /\ SeenStore(k) = SavedLocal
  BY <1>2 DEF SeenStore
<1>5. /\ Len(SeenScopes) = Len(stack) /\ Len(SeenScopes') = Len(stack) /\ SeenScopes # <<>>
      /\ DOMAIN SeenScopes = 1..Len(stack)
  BY <1>1, <1>2 DEF Mirrored
<1>6. \A k \in 1..Len(stack) :
        /\ SeenScopes[k] = [store |-> SeenStore(k), outputs |-> stack[k].outputs]
        /\ SeenScopes'[k] = [store |-> SeenStore(k)', outputs |-> stack[k].outputs]
  BY <1>2 DEF Mirrored
<1>. DEFINE n == Len(stack)
<1>7. /\ SeenScopes[n] = [store |-> SavedLocal, outputs |-> stack[n].outputs]
      /\ SeenScopes'[n] = [store |-> SavedLocal', outputs |-> stack[n].outputs]
  BY <1>1, <1>4, <1>6
<1>8. ASSUME NEW k \in 1..n, k < n PROVE SeenScopes'[k] = SeenScopes[k]
  <2>1. k # running
    BY <1>1, <1>8
  <2>2. SeenStore(k)' = SeenStore(k)
    BY <1>3, <2>1
  <2> QED BY <1>6, <2>2
<1>9. n \in 1..n
  BY <1>1
<1>10. /\ SeenScopes[n].store = SavedLocal /\ SeenScopes'[n].store = SavedLocal'
       /\ SeenScopes[n].outputs = SeenScopes'[n].outputs
  BY <1>7
<1> QED BY <1>5, <1>8, <1>9, <1>10 DEF StaysBelow

\* Handlers that leave the stack alone.
LEMMA OnwardFacts ==
  ASSUME IInv, IInv', pc = "handle", UNCHANGED stack, NEW to \in Nodes, Returns(to) \/ Stops
  PROVE  /\ UNCHANGED <<running, local, changed>> /\ pc' \in {"loop", "leave"}
         /\ StaysBelow
         /\ SeenScopes[Len(SeenScopes)].store = SavedLocal
         /\ SeenScopes'[Len(SeenScopes')].store = SavedLocal'
         /\ SeenGlobals = SavedGlobals /\ SeenGlobals' = SavedGlobals'
         /\ combined \in Store /\ local \in Store /\ globals \in Store /\ globals' \in Store
<1>1. UNCHANGED <<running, local, changed>> /\ pc' \in {"loop", "leave"}
  BY DEF Returns, Stops
<1>2. combined' # NULL
  BY <1>1, NullAssumption DEF IInv, Belongs
<1>3. SeenGlobals' = SavedGlobals'
  BY <1>2 DEF SeenGlobals
<1> QED BY <1>1, <1>3, HandlerStays, Running DEF IInv, Scalars

LEMMA SetSeen ==
  ASSUME IInv, IInv', Covers, NEW new \in Writes, NEW fails \in BOOLEAN, NEW to \in Nodes,
         SetStep(new, fails, to) \/ CodeStep(new, to)
  PROVE  Seen!Assign
<1>1. /\ pc = "handle" /\ UNCHANGED <<globals, stack>> /\ (Returns(to) \/ Stops)
      /\ combined' = Over(combined, new) /\ new \in Store
  BY WritesType DEF SetStep, CodeStep, At
<1> QED BY <1>1, OnwardFacts, MergeAssigns, AssignIs

LEMMA SetV2Seen ==
  ASSUME IInv, IInv', Covers, NEW new \in Writes, NEW fails \in BOOLEAN, NEW to \in Nodes,
         SetV2Step(new, fails, to)
  PROVE  Seen!Assign
<1>. DEFINE created == [x \in Names |-> IF Has(new, x) /\ ~Has(combined, x) THEN Default ELSE ABSENT]
            given == IF fails THEN Empty ELSE new
<1>1. /\ pc = "handle" /\ UNCHANGED stack /\ Returns(to)
      /\ globals' = Over(globals, created)
      /\ combined' = Over(Over(combined, created), given)
  BY DEF SetV2Step, At
<1>2. created \in Store /\ given \in Store
  BY VariablesAssumption, EmptyType, WritesType DEF Store, Cell
<1>3. \A x \in Names : /\ Has(created, x) => ~Has(combined, x)
                       /\ Has(given, x) => Has(created, x) \/ Has(combined, x)
  BY VariablesAssumption DEF Has, Empty
<1>. HIDE DEF created, given
<1>4. /\ UNCHANGED local /\ SeenGlobals = SavedGlobals /\ SeenGlobals' = SavedGlobals'
      /\ combined \in Store /\ local \in Store /\ globals \in Store
  BY <1>1, OnwardFacts
<1>5. \A x \in Names : Has(globals, x) \/ Has(local, x) => Has(combined, x)
  BY <1>1 DEF Covers
<1>6. \A x \in Names : Assigns(x, SavedLocal[x], SavedLocal'[x])
  BY <1>1, <1>2, <1>3, <1>4, <1>5 DEF Assigns, SavedLocal, SavedGlobals, Over, Has, Store
<1> QED BY <1>1, <1>6, OnwardFacts, AssignIs

LEMMA RunSeen ==
  ASSUME IInv, IInv', Covers, NEW new \in Writes, NEW to \in Nodes, RunFunction(new, to)
  PROVE  Seen!Publish
<1>1. /\ pc = "handle" /\ UNCHANGED stack /\ (Returns(to) \/ Stops)
      /\ globals' = Over(globals, new) /\ combined' = Over(combined, new) /\ new \in Store
  BY WritesType DEF RunFunction, At
<1>2. \A x \in Names : Has(globals, x) \/ Has(local, x) => Has(combined, x)
  BY <1>1 DEF Covers
<1>3. \A x \in Names :
        \/ SavedLocal'[x] = SavedLocal[x] /\ SavedGlobals'[x] = SavedGlobals[x]
        \/ /\ SavedGlobals'[x] # ABSENT
           /\ \/ SavedLocal'[x] = ABSENT
              \/ SavedLocal[x] # ABSENT /\ SavedLocal'[x] = SavedGlobals'[x]
  BY <1>1, <1>2, OnwardFacts DEF SavedLocal, SavedGlobals, Over, Has, Store
<1>. DEFINE was(x) == SeenScopes[Len(SeenScopes)].store[x]
            is(x) == SeenScopes'[Len(SeenScopes')].store[x]
<1>4. /\ StaysBelow
      /\ \A x \in Names :
           \/ is(x) = was(x) /\ SeenGlobals'[x] = SeenGlobals[x]
           \/ SeenGlobals'[x] # ABSENT /\ (is(x) = ABSENT \/ (was(x) # ABSENT /\ is(x) = SeenGlobals'[x]))
  BY <1>1, <1>3, OnwardFacts
<1> QED BY <1>4 DEF StaysBelow, Seen!Publish, Seen!InTop, Seen!Top

\* Steps that change nothing of stores, or only where a flow goes on.
LEMMA SameSeen ==
  ASSUME UNCHANGED <<globals, combined, running, local>>, DOMAIN stack' = DOMAIN stack,
         \A k \in DOMAIN stack : stack'[k].locals = stack[k].locals /\ stack'[k].outputs = stack[k].outputs
  PROVE  UNCHANGED Seen!vars
<1>1. UNCHANGED <<SavedLocal, SavedGlobals>>
  BY DEF SavedLocal, SavedGlobals
<1>2. UNCHANGED SeenGlobals
  BY <1>1 DEF SeenGlobals
<1>3. \A k \in DOMAIN stack : SeenStore(k)' = SeenStore(k)
  BY <1>1 DEF SeenStore
<1>4. UNCHANGED SeenScopes
  BY <1>3 DEF SeenScopes
<1> QED BY <1>2, <1>4, StutterStep

LEMMA QuietSeen ==
  ASSUME IInv, Timeout \/ Overflow \/ Arrive \/ EndTurn \/ Wait \/ \E to \in Nodes : ResumeFunction(to)
  PROVE  UNCHANGED Seen!vars
<1>1. UNCHANGED <<globals, combined, running, local>>
  BY DEF Timeout, Overflow, Arrive, EndTurn, Wait, ResumeFunction, Returns, Stops
<1>2. CASE UNCHANGED stack
  BY <1>1, <1>2, SameSeen
<1>3. CASE Arrive /\ stack' = [stack EXCEPT ![running].at = next]
  <2>1. \A k \in DOMAIN stack : stack[k] \in Frame
    BY DEF IInv, Plain
  <2>2. \A k \in DOMAIN stack : stack'[k].locals = stack[k].locals /\ stack'[k].outputs = stack[k].outputs
    BY <1>3, <2>1 DEF Frame
  <2>3. DOMAIN stack' = DOMAIN stack
    BY <1>3
  <2> QED BY <1>1, <2>2, <2>3, SameSeen
<1> QED BY <1>2, <1>3 DEF Timeout, Overflow, Arrive, EndTurn, Wait, ResumeFunction

LEMMA OverEmpty == \A a \in Store : Over(a, Empty) = a
BY DEF Over, Empty, Has, Store

\* A handler that drops frames, whether or not it enters another.
LEMMA UnwoundSeen ==
  ASSUME IInv, IInv', Covers, pc = "handle", NEW new \in Store, combined' = Over(combined, new),
         NEW k \in Nat, NEW s, Unwound(k, s), k <= Len(stack), Len(s) \in {k, k + 1},
         \A j \in 1..k : s[j].locals = stack[j].locals /\ s[j].outputs = stack[j].outputs,
         Len(s) > k => s[k + 1].locals = Empty /\ s[k + 1].outputs = NoMap
  PROVE  Seen!Unwind
<1>. DEFINE n == Len(stack)
<1>1. /\ running = n /\ n \in Nat \ {0} /\ stack # <<>> /\ k \in 0..n
      /\ SeenScopes[Len(SeenScopes)] = [store |-> SavedLocal, outputs |-> Top.outputs]
      /\ SeenGlobals = SavedGlobals
  BY Running DEF IInv, Belongs
<1>2. /\ stack' = s /\ UNCHANGED <<globals, local>> /\ pc' = "leave"
      /\ running' = IF running <= k THEN running ELSE 0
  BY DEF Unwound
<1>3. Mirrored /\ Mirrored' /\ combined # NULL /\ combined' # NULL
  BY <1>2, Mirror, MirrorNext, NullAssumption DEF IInv, Belongs
<1>4. \A x \in Names : Assigns(x, SavedLocal[x], SavedLocal'[x])
  BY <1>2, MergeAssigns
<1>5. SavedLocal' \in Store
  <2>1. combined' \in Store /\ local' \in Store /\ globals' \in Store
    BY <1>2 DEF IInv, Scalars, Belongs
  <2> QED BY <2>1 DEF SavedLocal, Store
<1>6. Len(SeenScopes) = n /\ Len(SeenScopes') = Len(s) /\ SeenScopes # <<>>
  BY <1>1, <1>2, <1>3 DEF Mirrored
<1>7. \A j \in 1..k : /\ SeenScopes[j] = [store |-> SeenStore(j), outputs |-> stack[j].outputs]
                      /\ SeenScopes'[j] = [store |-> SeenStore(j)', outputs |-> stack[j].outputs]
  <2>1. \A j \in 1..k : j \in 1..Len(stack) /\ j \in 1..Len(stack')
    BY <1>1, <1>2
  <2> QED BY <1>2, <1>3, <2>1 DEF Mirrored
<1>8. ASSUME NEW j \in 1..k PROVE SeenScopes'[j].outputs = SeenScopes[j].outputs
  <2>1. /\ SeenScopes[j] = [store |-> SeenStore(j), outputs |-> stack[j].outputs]
        /\ SeenScopes'[j] = [store |-> SeenStore(j)', outputs |-> stack[j].outputs]
    BY <1>7
  <2> QED BY <2>1
<1>9. ASSUME NEW j \in 1..k, j < n PROVE SeenScopes'[j] = SeenScopes[j]
  <2>1. j # running /\ j # running'
    BY <1>1, <1>2, <1>9
  <2>2. SeenStore(j) = stack[j].locals /\ SeenStore(j)' = stack'[j].locals
    BY <2>1 DEF SeenStore
  <2>3. SeenStore(j)' = SeenStore(j)
    BY <1>2, <2>2
  <2>4. /\ SeenScopes[j] = [store |-> SeenStore(j), outputs |-> stack[j].outputs]
        /\ SeenScopes'[j] = [store |-> SeenStore(j)', outputs |-> stack[j].outputs]
    BY <1>7
  <2> QED BY <2>3, <2>4
<1>10. k = n => SeenScopes'[k].store = SavedLocal'
  <2>. SUFFICES ASSUME k = n PROVE SeenScopes'[k].store = SavedLocal'
    OBVIOUS
  <2>1. k = running' /\ k \in 1..k
    BY <1>1, <1>2
  <2>2. SeenStore(k)' = SavedLocal'
    BY <1>3, <2>1 DEF SeenStore
  <2>3. SeenScopes'[k] = [store |-> SeenStore(k)', outputs |-> stack[k].outputs]
    BY <1>7, <2>1
  <2>4. SeenScopes'[k] = [store |-> SavedLocal', outputs |-> stack[k].outputs]
    BY <2>2, <2>3
  <2> QED BY <2>4
<1>11. Len(s) > k => SeenScopes'[k + 1] = [store |-> Empty, outputs |-> NoMap]
  <2>. SUFFICES ASSUME Len(s) > k PROVE SeenScopes'[k + 1] = [store |-> Empty, outputs |-> NoMap]
    OBVIOUS
  <2>. DEFINE m == k + 1
  <2>1. m # running' /\ m \in 1..Len(stack')
    BY <1>1, <1>2
  <2>. HIDE DEF m
  <2>2. SeenStore(m)' = stack'[m].locals
    BY <2>1 DEF SeenStore
  <2>3. SeenScopes'[m] = [store |-> SeenStore(m)', outputs |-> stack'[m].outputs]
    BY <1>3, <2>1 DEF Mirrored
  <2> QED BY <1>2, <2>2, <2>3 DEF m
<1>12. \A x \in Names : \E is \in Values \cup {UNDEF, ABSENT} :
         /\ Seen!Assigned(x, is)
         /\ k = Len(SeenScopes) => is = SeenScopes'[k].store[x]
  <2>. TAKE x \in Names
  <2>1. SavedLocal'[x] \in Values \cup {UNDEF, ABSENT}
    BY <1>5 DEF Store, Cell
  <2>. WITNESS SavedLocal'[x] \in Values \cup {UNDEF, ABSENT}
  <2>2. SeenScopes[Len(SeenScopes)].store = SavedLocal
    BY <1>1
  <2>3. Seen!Assigned(x, SavedLocal'[x])
    BY <1>4, <2>2 DEF Seen!Assigned, Seen!Top, Seen!Has, Assigns, Has
  <2> QED BY <1>6, <1>10, <2>3
<1>13. /\ Len(SeenScopes') \in {k, k + 1} /\ k \in 0..Len(SeenScopes)
       /\ \A j \in 1..k : /\ SeenScopes'[j].outputs = SeenScopes[j].outputs
                          /\ j < Len(SeenScopes) => SeenScopes'[j] = SeenScopes[j]
       /\ Len(SeenScopes') > k => SeenScopes'[k + 1] = [store |-> Empty, outputs |-> NoMap]
  BY <1>1, <1>6, <1>8, <1>9, <1>11
<1>. HIDE DEF n
<1>14. \E m \in 0..Len(SeenScopes) :
         /\ Len(SeenScopes') \in {m, m + 1}
         /\ \A j \in 1..m : /\ SeenScopes'[j].outputs = SeenScopes[j].outputs
                            /\ j < Len(SeenScopes) => SeenScopes'[j] = SeenScopes[j]
         /\ Len(SeenScopes') > m => SeenScopes'[m + 1] = [store |-> Empty, outputs |-> NoMap]
         /\ \A x \in Names : \E is \in Values \cup {UNDEF, ABSENT} :
              Seen!Assigned(x, is) /\ (m = Len(SeenScopes) => is = SeenScopes'[m].store[x])
  <2>1. k \in 0..Len(SeenScopes)
    BY <1>13
  <2>. WITNESS k \in 0..Len(SeenScopes)
  <2> QED BY <1>12, <1>13
<1>15. Seen!Empty = Empty /\ Seen!NoMap = NoMap
  BY DEF Seen!Empty, Seen!NoMap, Empty, NoMap
<1> QED BY <1>6, <1>14, <1>15 DEF Seen!Unwind

\* The frame that a handler enters has no locals yet.
LEMMA NewScope ==
  ASSUME NEW d, NEW to
  PROVE  NewFrame(d, to).locals = Empty /\ NewFrame(d, to).outputs = NoMap
BY DEF NewFrame

\* Another node of a frame leaves its scope as it is.
LEMMA SameScope ==
  ASSUME NEW f \in Plain, NEW to
  PROVE  [f EXCEPT !.at = to].locals = f.locals /\ [f EXCEPT !.at = to].outputs = f.outputs
BY DEF Plain, Frame

\* No flow is left: the base frame is on top.
LEMMA EmptiedSeen ==
  ASSUME IInv, IInv', Covers, pc = "handle", NEW new \in Store, combined' = Over(combined, new),
         Unwound(0, <<>>)
  PROVE  Seen!Unwind
<1>. DEFINE s == <<>>
<1>1. Len(s) = 0
  OBVIOUS
<1>2. Unwound(0, s) /\ Len(stack) \in Nat
  BY DEF IInv
<1>. HIDE DEF s
<1>3. 0 \in Nat /\ 0 <= Len(stack) /\ Len(s) \in {0, 0 + 1} /\ ~(Len(s) > 0)
  BY <1>1, <1>2
<1>4. \A j \in 1..0 : s[j].locals = stack[j].locals /\ s[j].outputs = stack[j].outputs
  OBVIOUS
<1> QED BY <1>2, <1>3, <1>4, UnwoundSeen

LEMMA GoToSeen ==
  ASSUME IInv, IInv', Covers, NEW d \in Diagrams, NEW to \in Nodes, GoToNode(d, to)
  PROVE  Seen!Unwind
<1>1. PICK k \in 0..Len(stack) : Unwound(k, Append(SubSeq(stack, 1, k), NewFrame(d, to)))
  BY DEF GoToNode
<1>2. pc = "handle" /\ UNCHANGED combined
  BY DEF GoToNode, At
<1>3. stack \in Seq(Plain) /\ Len(stack) \in Nat /\ combined \in Store
  BY <1>2, TopFacts
<1>. DEFINE s == Append(SubSeq(stack, 1, k), NewFrame(d, to))
<1>4. s \in Seq(Plain) /\ Len(s) = k + 1 /\ \A j \in 1..k : s[j] = stack[j]
  BY <1>1, <1>3, PushedStack, PlainNew
<1>5. s[k + 1].locals = Empty /\ s[k + 1].outputs = NoMap
  <2>1. s[k + 1] = NewFrame(d, to)
    BY <1>1, <1>3
  <2> QED BY <2>1, NewScope
<1>6. combined' = Over(combined, Empty) /\ Empty \in Store
  BY <1>2, <1>3, OverEmpty, EmptyType
<1>7. Unwound(k, s)
  BY <1>1
<1>. HIDE DEF s
<1>8. k \in Nat /\ k <= Len(stack) /\ Len(s) \in {k, k + 1}
  BY <1>1, <1>3, <1>4
<1>9. \A j \in 1..k : s[j].locals = stack[j].locals /\ s[j].outputs = stack[j].outputs
  BY <1>4
<1> QED BY <1>2, <1>5, <1>6, <1>7, <1>8, <1>9, UnwoundSeen

LEMMA ResetSeen ==
  ASSUME IInv, IInv', Covers, ResetStep
  PROVE  Seen!Unwind
<1>1. pc = "handle" /\ UNCHANGED combined
  BY DEF ResetStep, At
<1>2. stack \in Seq(Plain) /\ Len(stack) \in Nat \ {0} /\ stack[1] \in Plain /\ combined \in Store
  BY <1>1, TopFacts
<1>3. combined' = Over(combined, Empty) /\ Empty \in Store
  BY <1>1, <1>2, OverEmpty, EmptyType
<1>4. CASE Unwound(0, <<>>)
  BY <1>1, <1>2, <1>3, <1>4, EmptiedSeen
<1>5. CASE Unwound(1, <<[stack[1] EXCEPT !.at = "unset"]>>)
  <2>. DEFINE f == [stack[1] EXCEPT !.at = "unset"]
              s == <<f>>
  <2>1. f.locals = stack[1].locals /\ f.outputs = stack[1].outputs
    BY <1>2, SameScope
  <2>. HIDE DEF f
  <2>2. Len(s) = 1 /\ s[1] = f
    OBVIOUS
  <2>3. Unwound(1, s)
    BY <1>5 DEF f
  <2>. HIDE DEF s
  <2>4. \A j \in 1..1 : s[j].locals = stack[j].locals /\ s[j].outputs = stack[j].outputs
    BY <2>1, <2>2
  <2>5. 1 \in Nat /\ 1 <= Len(stack) /\ Len(s) \in {1, 1 + 1} /\ ~(Len(s) > 1)
    BY <1>2, <2>2
  <2> QED BY <1>1, <1>3, <2>3, <2>4, <2>5, UnwoundSeen
<1> QED BY <1>4, <1>5 DEF ResetStep

LEMMA EndSeen ==
  ASSUME IInv, IInv', Covers, EndStep
  PROVE  Seen!Unwind
<1>1. PICK k \in 0..(Len(stack) - 1) : Unwound(k, SubSeq(stack, 1, k))
  BY DEF EndStep
<1>2. pc = "handle" /\ UNCHANGED combined
  BY DEF EndStep, At
<1>3. stack \in Seq(Plain) /\ Len(stack) \in Nat /\ combined \in Store
  BY <1>2, TopFacts
<1>. DEFINE s == SubSeq(stack, 1, k)
<1>4. Len(s) = k /\ \A j \in 1..k : s[j] = stack[j]
  BY <1>1, <1>3
<1>5. combined' = Over(combined, Empty) /\ Empty \in Store
  BY <1>2, <1>3, OverEmpty, EmptyType
<1>6. Unwound(k, s)
  BY <1>1
<1>. HIDE DEF s
<1>7. k \in Nat /\ k <= Len(stack) /\ Len(s) \in {k, k + 1} /\ ~(Len(s) > k)
  BY <1>1, <1>3, <1>4
<1>8. \A j \in 1..k : s[j].locals = stack[j].locals /\ s[j].outputs = stack[j].outputs
  BY <1>4
<1> QED BY <1>2, <1>5, <1>6, <1>7, <1>8, UnwoundSeen

LEMMA CommandSeen ==
  ASSUME IInv, IInv', Covers, NEW new \in Writes, NEW k \in 0..MaxStack, NEW d \in Diagrams, NEW to \in Nodes,
         Command(new, k, d, to)
  PROVE  Seen!Unwind \/ Seen!Assign
<1>1. /\ pc = "handle" /\ combined' = Over(combined, new) /\ (k \in DOMAIN stack \/ k = 0) /\ new \in Store
  BY WritesType DEF Command, At
<1>2. /\ stack \in Seq(Plain) /\ Len(stack) \in Nat \ {0} /\ k \in 0..Len(stack) /\ (k # 0 => stack[k] \in Plain)
  BY <1>1, TopFacts
<1>3. CASE k = Len(stack) /\ Unwound(k, Append(stack, NewFrame(d, "unset")))
  <2>. DEFINE s == Append(stack, NewFrame(d, "unset"))
  <2>1. Len(s) = k + 1 /\ s[k + 1] = NewFrame(d, "unset") /\ \A j \in 1..k : s[j] = stack[j]
    BY <1>2, <1>3
  <2>2. Unwound(k, s)
    BY <1>3
  <2>. HIDE DEF s
  <2> QED BY <1>1, <1>2, <2>1, <2>2, NewScope, UnwoundSeen
<1>7. CASE Unwound(0, <<>>)
  BY <1>1, <1>7, EmptiedSeen
<1>4. CASE k # 0 /\ Unwound(k, [SubSeq(stack, 1, k) EXCEPT ![k].at = to])
  <2>. DEFINE t == SubSeq(stack, 1, k)
              s == [t EXCEPT ![k].at = to]
  <2>1. t \in Seq(Plain) /\ Len(t) = k /\ \A j \in 1..k : t[j] = stack[j]
    BY <1>2
  <2>2. Unwound(k, s)
    BY <1>4
  <2>. HIDE DEF t
  <2>3. Len(s) = k /\ \A j \in 1..k : s[j] = IF j = k THEN [t[k] EXCEPT !.at = to] ELSE t[j]
    BY <1>2, <2>1
  <2>. HIDE DEF s
  <2>4. [stack[k] EXCEPT !.at = to].locals = stack[k].locals /\ [stack[k] EXCEPT !.at = to].outputs = stack[k].outputs
    BY <1>2, SameScope
  <2>5. \A j \in 1..k : s[j].locals = stack[j].locals /\ s[j].outputs = stack[j].outputs
    BY <1>2, <2>1, <2>3, <2>4
  <2>6. k \in Nat /\ k <= Len(stack) /\ Len(s) \in {k, k + 1} /\ ~(Len(s) > k)
    BY <1>2, <2>3
  <2> QED BY <1>1, <2>2, <2>5, <2>6, UnwoundSeen
<1>5. CASE Unwound(k, Append(SubSeq(stack, 1, k), NewFrame(d, to)))
  <2>. DEFINE s == Append(SubSeq(stack, 1, k), NewFrame(d, to))
  <2>1. Len(s) = k + 1 /\ s[k + 1] = NewFrame(d, to) /\ \A j \in 1..k : s[j] = stack[j]
    BY <1>2
  <2>2. Unwound(k, s)
    BY <1>5
  <2>. HIDE DEF s
  <2> QED BY <1>1, <1>2, <2>1, <2>2, NewScope, UnwoundSeen
<1>6. CASE pc' = "leave" /\ UNCHANGED <<globals, version, stack, running, local, next, changed>>
  BY <1>1, <1>6, HandlerStays, MergeAssigns, AssignIs
<1> QED BY <1>3, <1>7, <1>4, <1>5, <1>6 DEF Command

\* The operators on stores are those of the scopes.
LEMMA SameOperators ==
  /\ Seen!Empty = Empty /\ Seen!NoMap = NoMap /\ Seen!Store = Store
  /\ \A a, b : Seen!Over(a, b) = Over(a, b) /\ Seen!Mapped(a, b) = Mapped(a, b)
BY DEF Seen!Empty, Seen!NoMap, Seen!Store, Seen!Over, Seen!Mapped, Seen!Has, Empty, NoMap, Store, Cell, Over,
   Mapped, Has

LEMMA VisibleSeen ==
  ASSUME IInv, Covers, pc \in {"loop", "handle", "leave"}, pc # "leave" \/ ~changed
  PROVE  Seen!Visible = combined
<1>1. SeenGlobals = SavedGlobals /\ SeenScopes[Len(SeenScopes)] = [store |-> SavedLocal, outputs |-> Top.outputs]
  BY Running
<1>2. Seen!Top.store = SavedLocal
  BY <1>1 DEF Seen!Top
<1>3. Seen!Visible = Over(SavedGlobals, SavedLocal)
  BY <1>1, <1>2, SameOperators DEF Seen!Visible
<1> QED BY <1>3, VisibleIsCombined

LEMMA CallSeen ==
  ASSUME IInv, IInv', Covers, NEW d \in Diagrams, NEW inputs \in Maps, NEW outputs \in Maps, NEW to \in Nodes,
         CallFlow(d, inputs, outputs, to)
  PROVE  Seen!Call(inputs, outputs)
<1>. DEFINE n == Len(stack)
            t == [stack EXCEPT ![n].at = to]
            f == [NewFrame(d, "unset") EXCEPT !.locals = Mapped(inputs, combined), !.outputs = outputs, !.given = Sources(inputs)]
            e == [store |-> Mapped(inputs, combined), outputs |-> outputs]
<1>1. /\ n \in Nat \ {0} /\ stack \in Seq(Plain) /\ combined \in Store /\ running = n
      /\ pc = "handle" /\ pc' = "leave" /\ running' = n
      /\ UNCHANGED <<combined, globals, local>> /\ stack' = Append(t, f)
  BY TopFacts DEF CallFlow, At, Unwound, IInv, Belongs
<1>2. t \in Seq(Plain) /\ Len(t) = n
      /\ \A k \in 1..n : t[k].locals = stack[k].locals /\ t[k].outputs = stack[k].outputs
  <2>1. stack[n] \in Plain
    BY <1>1
  <2>2. /\ [stack[n] EXCEPT !.at = to] \in Plain
        /\ [stack[n] EXCEPT !.at = to].locals = stack[n].locals
        /\ [stack[n] EXCEPT !.at = to].outputs = stack[n].outputs
    BY <2>1, PlainAt, SameScope
  <2> QED BY <1>1, <2>2
<1>3. f.locals = Mapped(inputs, combined) /\ f.outputs = outputs
  <2>1. NewFrame(d, "unset") \in Frame
    BY PlainNew DEF Plain, Nowhere
  <2> QED BY <2>1 DEF Frame
<1>4. f \in Plain
  BY <1>1, PlainCalled
<1>. HIDE DEF t, f
<1>5. /\ Len(stack') = n + 1 /\ stack'[n + 1] = f
      /\ \A k \in 1..n : stack'[k] = t[k]
  BY <1>1, <1>2, <1>4, AppendProperties
<1>6. Mirrored /\ Mirrored' /\ combined # NULL
  BY <1>1, Mirror, MirrorNext, NullAssumption
<1>7. UNCHANGED <<SavedLocal, SeenGlobals>>
  BY <1>1 DEF SavedLocal, SavedGlobals, SeenGlobals
<1>8. ASSUME NEW k \in 1..n PROVE SeenScopes'[k] = SeenScopes[k]
  <2>1. SeenStore(k)' = SeenStore(k)
    <3>1. stack'[k].locals = stack[k].locals
      BY <1>2, <1>5
    <3> QED BY <1>1, <1>7, <3>1 DEF SeenStore
  <2>2. SeenScopes'[k] = [store |-> SeenStore(k)', outputs |-> stack'[k].outputs]
    BY <1>1, <1>5, <1>6 DEF Mirrored
  <2>3. SeenScopes[k] = [store |-> SeenStore(k), outputs |-> stack[k].outputs]
    BY <1>1, <1>6 DEF Mirrored
  <2>4. stack'[k].outputs = stack[k].outputs
    BY <1>2, <1>5
  <2> QED BY <2>1, <2>2, <2>3, <2>4
<1>9. ASSUME NEW m \in Nat, m = n + 1 PROVE SeenScopes'[m] = e
  <2>1. m \in 1..Len(stack') /\ m # running'
    BY <1>1, <1>5, <1>9
  <2>2. SeenStore(m)' = stack'[m].locals
    BY <2>1 DEF SeenStore
  <2>3. SeenScopes'[m] = [store |-> SeenStore(m)', outputs |-> stack'[m].outputs]
    BY <1>6, <2>1 DEF Mirrored
  <2> QED BY <1>3, <1>5, <1>9, <2>2, <2>3
<1>10. e \in Scope
  BY <1>1, MappedType DEF Scope
<1>. HIDE DEF e
<1>11. SeenScopes \in Seq(Scope) /\ Len(SeenScopes) = n /\ SeenScopes' \in Seq(Scope) /\ Len(SeenScopes') = n + 1
  BY <1>5, <1>6 DEF Mirrored
<1>12. SeenScopes' = Append(SeenScopes, e)
  <2>1. /\ Append(SeenScopes, e) \in Seq(Scope) /\ Len(Append(SeenScopes, e)) = n + 1
        /\ \A k \in 1..n : Append(SeenScopes, e)[k] = SeenScopes[k]
        /\ Append(SeenScopes, e)[n + 1] = e
    BY <1>10, <1>11, AppendProperties
  <2>2. \A k \in 1..(n + 1) : SeenScopes'[k] = Append(SeenScopes, e)[k]
    <3>1. \A k \in 1..(n + 1) : k \in 1..n \/ (k \in Nat /\ k = n + 1)
      BY <1>1
    <3> QED BY <1>8, <1>9, <2>1, <3>1
  <2> QED BY <1>11, <2>1, <2>2, SeqEqual
<1>13. SeenScopes # <<>> /\ Seen!Visible = combined
  BY <1>1, <1>11, VisibleSeen
<1> QED BY <1>7, <1>12, <1>13, SameOperators DEF Seen!Call, e

LEMMA EnterSeen ==
  ASSUME IInv, IInv', EnterFrame
  PROVE  Seen!Declare(Declared[version][Top.diagram]) \/ UNCHANGED Seen!vars
<1>. DEFINE n == Len(stack)
            declared(store) == [x \in Names |-> IF x \in Declared[version][Top.diagram] /\ store[x] \in {UNDEF, ABSENT}
                                                THEN Default ELSE store[x]]
            hydrated == IF Top.hydrated THEN Top.locals ELSE declared(Top.locals)
            at == IF ~Top.hydrated /\ Top.at = "unset" THEN "step" ELSE Top.at
<1>1. /\ pc = "cycle" /\ pc' = "loop" /\ combined = NULL /\ combined' # NULL
      /\ n \in Nat \ {0} /\ \A k \in 1..n : stack[k] \in Frame
      /\ Top \in Frame /\ globals \in Store /\ DOMAIN stack = 1..n
  <2>1. pc = "cycle" /\ pc' = "loop" /\ stack # <<>>
    BY DEF EnterFrame
  <2>2. combined = NULL /\ globals \in Store /\ stack \in Seq(Plain)
    BY <2>1 DEF IInv, Belongs, Scalars
  <2>3. combined' # NULL
    BY <2>1, NullAssumption DEF IInv, Belongs
  <2>4. n \in Nat \ {0} /\ DOMAIN stack = 1..n /\ \A k \in 1..n : stack[k] \in Plain
    BY <2>1, <2>2
  <2>5. Plain \subseteq Frame
    BY DEF Plain
  <2> QED BY <2>1, <2>2, <2>3, <2>4, <2>5 DEF Top
<1>2. /\ stack' = [stack EXCEPT ![n] = [@ EXCEPT !.at = at, !.locals = hydrated, !.hydrated = TRUE]]
      /\ local' = hydrated /\ combined' = Over(globals, hydrated) /\ running' = n
      /\ UNCHANGED globals
  BY DEF EnterFrame
<1>3. Top.locals \in Store /\ local' \in Store /\ hydrated \in Store
  BY <1>1, <1>2 DEF Frame, IInv, Scalars
<1>. HIDE DEF hydrated, at
<1>4. SavedGlobals' = globals /\ SavedLocal' = hydrated
  BY <1>1, <1>2, <1>3 DEF SavedGlobals, SavedLocal, Over, Has, Store
<1>5. UNCHANGED SeenGlobals
  BY <1>1, <1>4 DEF SeenGlobals
<1>6. \A k \in 1..n : SeenStore(k) = stack[k].locals
  BY <1>1 DEF SeenStore
<1>7. /\ DOMAIN stack' = 1..n
      /\ \A k \in 1..n : /\ stack'[k].outputs = stack[k].outputs
                         /\ k # n => stack'[k] = stack[k]
  BY <1>1, <1>2 DEF Frame
<1>12. stack'[n].locals = hydrated
  BY <1>1, <1>2 DEF Frame
<1>8. \A k \in 1..n : SeenStore(k)' = IF k = n THEN hydrated ELSE stack[k].locals
  BY <1>1, <1>2, <1>4, <1>7, <1>12 DEF SeenStore
<1>9. /\ SeenScopes = [k \in 1..n |-> [store |-> stack[k].locals, outputs |-> stack[k].outputs]]
      /\ SeenScopes' = [k \in 1..n |-> [store |-> IF k = n THEN hydrated ELSE stack[k].locals,
                                        outputs |-> stack[k].outputs]]
  BY <1>1, <1>6, <1>7, <1>8 DEF SeenScopes
<1>10. CASE Top.hydrated
  <2>1. hydrated = stack[n].locals
    BY <1>10 DEF hydrated, Top
  <2>2. \A k \in 1..n : (IF k = n THEN hydrated ELSE stack[k].locals) = stack[k].locals
    BY <2>1
  <2>3. UNCHANGED SeenScopes
    BY <1>9, <2>2
  <2> QED BY <1>5, <2>3, StutterStep
<1>11. CASE ~Top.hydrated
  <2>1. hydrated = declared(stack[n].locals)
    BY <1>11 DEF hydrated, Top
  <2>2. Len(SeenScopes) = n /\ SeenScopes # <<>>
    BY <1>1, Mirror DEF Mirrored
  <2>. HIDE DEF n
  <2>3. SeenScopes[n].store = stack[n].locals
    BY <1>1, <1>9
  <2>4. SeenScopes' = [SeenScopes EXCEPT ![n].store = declared(SeenScopes[n].store)]
    BY <1>1, <1>9, <2>1, <2>3
  <2> QED BY <1>5, <2>2, <2>4 DEF Seen!Declare
<1> QED BY <1>10, <1>11

LEMMA LeaveSeen ==
  ASSUME IInv, IInv', Covers, LeaveFrame
  PROVE  Seen!Return \/ UNCHANGED Seen!vars
<1>. DEFINE n == Len(stack)
            saved == IF running = 0 THEN stack ELSE [stack EXCEPT ![running].locals = SavedLocal]
<1>1. /\ pc = "leave" /\ combined # NULL /\ combined' = NULL /\ running' = 0
      /\ globals' = SavedGlobals /\ stack' = IF action = "END" \/ changed THEN saved ELSE Finished(saved)
      /\ n \in Nat /\ DOMAIN stack = 1..n /\ \A k \in 1..n : stack[k] \in Frame
      /\ running \in 0..n
  BY NullAssumption DEF IInv, Plain, Belongs, LeaveFrame
<1>2. UNCHANGED SeenGlobals
  BY <1>1 DEF SeenGlobals
<1>3. \A k \in 1..n : SeenStore(k) = IF k = running THEN SavedLocal ELSE stack[k].locals
  BY <1>1 DEF SeenStore
<1>4. /\ DOMAIN saved = 1..n /\ saved \in Seq(Frame) /\ Len(saved) = n
      /\ \A k \in 1..n : saved[k].locals = SeenStore(k) /\ saved[k].outputs = stack[k].outputs
  <2>1. SavedLocal \in Store /\ stack \in Seq(Frame)
    BY <1>1, SavedFacts DEF IInv
  <2>2. CASE running = 0
    BY <1>1, <1>3, <2>1, <2>2
  <2>3. CASE running # 0
    <3>. DEFINE f == [stack[running] EXCEPT !.locals = SavedLocal]
    <3>1. f \in Frame /\ f.locals = SavedLocal /\ f.outputs = stack[running].outputs
      BY <1>1, <2>1, <2>3 DEF Frame
    <3>2. saved = [stack EXCEPT ![running] = f]
      BY <2>3
    <3>4. running \in 1..n /\ stack \in Seq(Frame) /\ n = Len(stack)
      BY <1>1, <2>1, <2>3
    <3>. HIDE DEF f, saved, n
    <3>3. /\ saved \in Seq(Frame) /\ Len(saved) = n /\ DOMAIN saved = 1..n
          /\ \A k \in 1..n : saved[k] = IF k = running THEN f ELSE stack[k]
      BY <3>1, <3>2, <3>4
    <3> QED BY <1>3, <3>1, <3>3
  <2> QED BY <2>2, <2>3
<1>. HIDE DEF saved
<1>5. SeenScopes' = [k \in DOMAIN stack' |-> [store |-> stack'[k].locals, outputs |-> stack'[k].outputs]]
  <2>1. \A k \in DOMAIN stack' : SeenStore(k)' = stack'[k].locals
    BY <1>1 DEF SeenStore
  <2> QED BY <2>1 DEF SeenScopes
<1>6. CASE action = "END" \/ changed
  <2>1. stack' = saved
    BY <1>1, <1>6
  <2>2. SeenScopes = [k \in 1..n |-> [store |-> SeenStore(k), outputs |-> stack[k].outputs]]
    BY <1>1 DEF SeenScopes
  <2>3. UNCHANGED SeenScopes
    BY <1>4, <1>5, <2>1, <2>2
  <2> QED BY <1>2, <2>3, StutterStep
<1>7. CASE ~(action = "END" \/ changed)
  <2>. DEFINE map == saved[n].outputs
              rest == SubSeq(saved, 1, n - 1)
              below == SubSeq(SeenScopes, 1, n - 1)
              given == Mapped(map, combined)
  <2>1. n \in Nat \ {0} /\ running = n /\ SeenScopes # <<>> /\ Len(SeenScopes) = n /\ SeenScopes \in Seq(Scope)
        /\ SeenScopes[n] = [store |-> SavedLocal, outputs |-> Top.outputs] /\ Seen!Visible = combined
    BY <1>1, <1>7, Running, Mirror, VisibleSeen DEF Mirrored
  <2>2. map = SeenScopes[n].outputs
    BY <1>4, <2>1 DEF Top
  <2>3. /\ Len(rest) = n - 1 /\ DOMAIN rest = 1..(n - 1) /\ \A k \in 1..(n - 1) : rest[k] = saved[k]
    BY <1>4, <2>1
  <2>4. /\ Len(below) = n - 1 /\ DOMAIN below = 1..(n - 1) /\ \A k \in 1..(n - 1) : below[k] = SeenScopes[k]
    BY <2>1
  <2>5. stack' = [k \in 1..(n - 1) |->
                    IF k = n - 1 THEN [rest[k] EXCEPT !.locals = Over(@, given), !.given = @ \cup Sources(map)]
                    ELSE rest[k]]
    BY <1>1, <1>4, <1>7, <2>3 DEF Finished
  <2>. HIDE DEF map, rest, below, given
  <2>6. \A k \in 1..(n - 1) : SeenScopes[k] = [store |-> saved[k].locals, outputs |-> saved[k].outputs]
    <3>1. \A k \in 1..(n - 1) : k \in 1..n
      BY <2>1
    <3> QED BY <1>4, <3>1, Mirror DEF Mirrored
  <2>7. \A k \in 1..(n - 1) : saved[k] \in Frame
    BY <1>4, <2>1
  <2>8. ASSUME NEW k \in 1..(n - 1)
        PROVE  [store |-> stack'[k].locals, outputs |-> stack'[k].outputs] =
                 IF k = n - 1 THEN [below[k] EXCEPT !.store = Over(@, given)] ELSE below[k]
    <3>1. below[k] = [store |-> saved[k].locals, outputs |-> saved[k].outputs] /\ rest[k] = saved[k]
      BY <2>3, <2>4, <2>6
    <3>2. CASE k # n - 1
      BY <2>5, <3>1, <3>2
    <3>3. CASE k = n - 1
      <4>1. stack'[k] = [saved[k] EXCEPT !.locals = Over(@, given), !.given = @ \cup Sources(map)]
        BY <2>5, <3>1, <3>3
      <4>2. stack'[k].locals = Over(saved[k].locals, given) /\ stack'[k].outputs = saved[k].outputs
        BY <2>7, <4>1 DEF Frame
      <4> QED BY <3>1, <3>3, <4>2
    <3> QED BY <3>2, <3>3
  <2>9. SeenScopes' = [k \in DOMAIN below |-> IF k = Len(below) THEN [below[k] EXCEPT !.store = Over(@, given)] ELSE below[k]]
    BY <1>5, <2>4, <2>5, <2>8
  <2>10. given = Seen!Mapped(Seen!Top.outputs, Seen!Visible)
    BY <2>1, <2>2, SameOperators DEF Seen!Top, given
  <2>11. below = SubSeq(SeenScopes, 1, Len(SeenScopes) - 1)
    BY <2>1 DEF below
  <2> QED BY <1>2, <2>1, <2>9, <2>10, <2>11, SameOperators DEF Seen!Return
<1> QED BY <1>6, <1>7

LEMMA StartSeen ==
  ASSUME IInv, IInv', NEW v \in Versions, NEW request \in Requests, NEW lost \in Cell, NEW loaded \in BOOLEAN,
         StartTurn(v, request, lost, loaded)
  PROVE  Seen!Restore
<1>. DEFINE stored == Stored(globals, lost)
<1>1. /\ combined = NULL /\ combined' = NULL /\ globals \in Store /\ globals' \in Store
      /\ globals' \in {Initialized(v, Over(Prepared[v].globals, stored)), Initialized(v, stored)}
      /\ stack' \in {Generated(v), [k \in DOMAIN stack |-> Restored(stack[k], v, lost)]}
  BY DEF IInv, Scalars, Belongs, StartTurn
<1>2. \A x \in Names : globals[x] \notin {UNDEF, ABSENT} => globals'[x] = globals[x]
  <2>1. \A x \in Names : globals[x] \notin {UNDEF, ABSENT} => stored[x] = globals[x] /\ Has(stored, x)
    BY DEF Stored, Has
  <2>. HIDE DEF stored
  <2>2. \A x \in Names : Has(stored, x) =>
          /\ Initialized(v, Over(Prepared[v].globals, stored))[x] = stored[x]
          /\ Initialized(v, stored)[x] = stored[x]
    BY DEF Initialized, Over, Has
  <2> QED BY <1>1, <2>1, <2>2
<1>3. SeenGlobals = globals /\ SeenGlobals' = globals'
  BY <1>1 DEF SeenGlobals
<1>4. stack \in Seq(Plain) /\ stack' \in Seq(Plain') /\ v \in Versions
  BY DEF IInv
<1>5. /\ \A k \in DOMAIN stack : SeenStore(k) = stack[k].locals
      /\ \A k \in DOMAIN stack' : SeenStore(k)' = stack'[k].locals
  BY <1>1 DEF SeenStore
<1>6. Mirrored /\ Mirrored'
  BY Mirror, MirrorNext
<1>7. CASE stack' = Generated(v)
  <2>. DEFINE flows == Prepared[v].flows
  <2>1. flows \in Seq(Frame)
    BY VariablesAssumption
  <2>2. DOMAIN stack' = DOMAIN flows
    BY <1>7 DEF Generated
  <2>3. \A k \in DOMAIN flows : flows[k] \in Frame
    BY <2>1
  <2>4. \A k \in DOMAIN flows : stack'[k] = [flows[k] EXCEPT !.hydrated = FALSE, !.given = {x \in Names : Has(flows[k].locals, x)}]
    BY <1>7 DEF Generated
  <2>. HIDE DEF flows
  <2>5. \A k \in DOMAIN flows : stack'[k].locals = flows[k].locals /\ stack'[k].outputs = flows[k].outputs
    BY <2>3, <2>4 DEF Frame
  <2>6. SeenScopes' = [k \in DOMAIN flows |-> [store |-> flows[k].locals, outputs |-> flows[k].outputs]]
    BY <1>5, <2>2, <2>5 DEF SeenScopes
  <2>7. SeenScopes' = Scoped(flows)
    BY <2>6 DEF Scoped
  <2>8. SeenScopes' \in Starts
    BY <2>7 DEF Starts, flows
  <2> QED BY <1>1, <1>2, <1>3, <2>8, SameOperators DEF Seen!Restore
<1>8. CASE stack' = [k \in DOMAIN stack |-> Restored(stack[k], v, lost)]
  <2>. DEFINE n == Len(stack)
  <2>2. n \in Nat /\ DOMAIN stack = 1..n /\ \A k \in 1..n : stack[k] \in Frame
    BY <1>4 DEF Plain
  <2>3. Len(stack') = n
    <3>1. DOMAIN stack' = 1..n
      BY <1>8, <2>2
    <3>2. Len(stack') \in Nat /\ DOMAIN stack' = 1..Len(stack')
      BY <1>4
    <3> QED BY <2>2, <3>1, <3>2
  <2>4. \A k \in 1..n : stack'[k].locals = Stored(stack[k].locals, lost) /\ stack'[k].outputs = stack[k].outputs
    BY <1>8, <2>2 DEF Frame, Restored
  <2>5. Len(SeenScopes) = n /\ Len(SeenScopes') = n /\ DOMAIN SeenScopes = 1..n
    BY <1>6, <2>2, <2>3 DEF Mirrored
  <2>6. ASSUME NEW k \in 1..n
        PROVE  /\ SeenScopes'[k].outputs = SeenScopes[k].outputs
               /\ Seen!Kept(SeenScopes[k].store, SeenScopes'[k].store)
    <3>1. k \in 1..Len(stack) /\ k \in 1..Len(stack') /\ k \in DOMAIN stack /\ k \in DOMAIN stack'
      BY <1>8, <2>2, <2>3
    <3>2. SeenScopes[k] = [store |-> SeenStore(k), outputs |-> stack[k].outputs]
      BY <1>6, <3>1 DEF Mirrored
    <3>3. SeenScopes'[k] = [store |-> SeenStore(k)', outputs |-> stack'[k].outputs]
      BY <1>6, <3>1 DEF Mirrored
    <3>4. SeenScopes[k].store = stack[k].locals /\ SeenScopes'[k].store = Stored(stack[k].locals, lost)
      BY <1>5, <2>4, <3>1, <3>2, <3>3
    <3>5. Seen!Kept(stack[k].locals, Stored(stack[k].locals, lost))
      BY DEF Seen!Kept, Stored
    <3> QED BY <2>4, <3>2, <3>3, <3>4, <3>5
  <2> QED BY <1>1, <1>2, <1>3, <2>5, <2>6, SameOperators DEF Seen!Restore
<1> QED BY <1>1, <1>7, <1>8

LEMMA StepSeen ==
  ASSUME IInv, IInv', Covers, [Next]_vars
  PROVE  [Seen!Next]_(Seen!vars)
<1>1. ASSUME NEW v \in Versions, NEW request \in Requests, NEW lost \in Cell, NEW loaded \in BOOLEAN,
             StartTurn(v, request, lost, loaded)
      PROVE  Seen!Next
  BY <1>1, StartSeen DEF Seen!Next
<1>2. CASE EnterFrame
  <2>1. Top.diagram \in Diagrams /\ version \in Versions
    <3>1. stack \in Seq(Plain) /\ stack # <<>>
      BY <1>2 DEF IInv, EnterFrame
    <3>2. Top \in Plain
      BY <3>1 DEF Top
    <3> QED BY <3>2 DEF Plain, Frame, IInv, Scalars
  <2>2. Declared[version][Top.diagram] \in Declarations
    BY <2>1 DEF Declarations
  <2> QED BY <1>2, <2>2, EnterSeen DEF Seen!Next
<1>3. CASE LeaveFrame
  BY <1>3, LeaveSeen DEF Seen!Next
<1>4. CASE EndTurn \/ Timeout \/ Overflow \/ Arrive \/ Wait \/ \E to \in Nodes : ResumeFunction(to)
  BY <1>4, QuietSeen
<1>5. ASSUME NEW new \in Writes, NEW to \in Nodes, CodeStep(new, to) \/ RunFunction(new, to)
      PROVE  Seen!Next
  <2>1. TRUE \in BOOLEAN
    OBVIOUS
  <2> QED BY <1>5, <2>1, SetSeen, RunSeen DEF Seen!Next
<1>6. ASSUME NEW new \in Writes, NEW to \in Nodes, NEW fails \in BOOLEAN,
             SetStep(new, fails, to) \/ SetV2Step(new, fails, to)
      PROVE  Seen!Next
  BY <1>6, SetSeen, SetV2Seen DEF Seen!Next
<1>7. ASSUME NEW new \in Writes, NEW to \in Nodes, NEW d \in Diagrams, NEW k \in 0..MaxStack,
             Command(new, k, d, to)
      PROVE  Seen!Next
  BY <1>7, CommandSeen DEF Seen!Next
<1>8. ASSUME NEW d \in Diagrams, NEW to \in Nodes, GoToNode(d, to) PROVE Seen!Next
  BY <1>8, GoToSeen DEF Seen!Next
<1>9. ASSUME NEW d \in Diagrams, NEW to \in Nodes, NEW inputs \in Maps, NEW outputs \in Maps,
             CallFlow(d, inputs, outputs, to)
      PROVE  Seen!Next
  BY <1>9, CallSeen DEF Seen!Next
<1>10. CASE ResetStep \/ EndStep
  BY <1>10, ResetSeen, EndSeen DEF Seen!Next
<1>11. CASE UNCHANGED vars
  BY <1>11, SameSeen DEF vars
<1> QED
  BY <1>1, <1>2, <1>3, <1>4, <1>5, <1>6, <1>7, <1>8, <1>9, <1>10, <1>11 DEF Next

LEMMA InitSeen == Init => Seen!Init
<1>. SUFFICES ASSUME Init PROVE Seen!Init
  OBVIOUS
<1>1. SeenGlobals = Empty
  BY DEF Init, SeenGlobals
<1>2. IInv /\ Len(stack) = 0
  BY Initially DEF Init
<1>3. SeenScopes \in Seq(Scope) /\ Len(SeenScopes) = 0
  BY <1>2, Mirror DEF Mirrored
<1>4. SeenScopes = <<>>
  BY <1>3
<1> QED BY <1>1, <1>4 DEF Seen!Init, Empty

\* The combined store that the steps of a flow share, which is made when a flow
\* is entered and taken apart after the stack may have changed, cannot be told
\* from scopes that are written at once (cycleStack, saveCombinedVariables).
THEOREM ScopesAreImplemented == Spec => ImplementsScopes
<1>1. Init => Covers
  BY DEF Init, Covers
<1> QED
  BY <1>1, Initially, StepIInv, CoversStep, InitSeen, StepSeen, PTL DEF Spec, ImplementsScopes, Seen!Spec
=============================================================================
