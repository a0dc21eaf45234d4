------------------------------- MODULE Scopes -------------------------------
(***************************************************************************)
(* What a designer may expect of variables: each open flow has a scope, a  *)
(* name is looked up in the scope on top and then among the globals, and   *)
(* what a step assigns is in its place at once.  Only a call hands values  *)
(* to a new scope, and only a flow that finishes hands values back.        *)
(***************************************************************************)
EXTENDS Integers, Sequences

CONSTANTS
  Names,    \* of variables
  Values,
  Default,  \* the value a declared variable starts with
  UNDEF,    \* the value of a variable that was assigned undefined
  ABSENT,   \* a store does not have the name
  Declarations,  \* the sets of names that flows declare
  Starts,   \* the scopes a session may start with
  Maps      \* variable maps: from each name to the one it is set from, or ABSENT

Store == [Names -> Values \cup {UNDEF, ABSENT}]

VARIABLES
  globals,  \* a store
  scopes    \* of the open flows, bottom first: a store and the outputs map

vars == <<globals, scopes>>

Empty == [x \in Names |-> ABSENT]

NoMap == [x \in Names |-> ABSENT]

Has(store, x) == store[x] # ABSENT

\* The entries of new are put over those of store.
Over(store, new) == [x \in Names |-> IF Has(new, x) THEN new[x] ELSE store[x]]

\* What a map takes from a store; of a name it does not have, undefined.
Mapped(map, from) ==
  [x \in Names |-> IF map[x] = ABSENT THEN ABSENT
                   ELSE IF Has(from, map[x]) THEN from[map[x]] ELSE UNDEF]

Top == scopes[Len(scopes)]

\* What the steps of the flow on top read.
Visible == Over(globals, Top.store)

\* What a step may change: the globals and the flow on top.
InTop ==
  /\ scopes # <<>> /\ Len(scopes') = Len(scopes)
  /\ \A k \in DOMAIN scopes : k < Len(scopes) => scopes'[k] = scopes[k]
  /\ Top.outputs = scopes'[Len(scopes)].outputs

\* A name is assigned in the flow if it is found there, else among the globals
\* if it is found there; one that is found nowhere is created in either.
\* is: what the flow on top is left with.
Assigned(x, is) ==
  LET was == Top.store[x] IN
  \/ is = was /\ globals'[x] = globals[x]
  \/ (was # ABSENT \/ ~Has(globals, x)) /\ is # ABSENT /\ globals'[x] = globals[x]
  \/ was = ABSENT /\ is = ABSENT /\ globals'[x] # ABSENT

Assign == InTop /\ \A x \in Names : Assigned(x, scopes'[Len(scopes)].store[x])

\* The outputs of a function are assigned and become globals; a name the flow
\* has itself may be given up for the global.
Publish ==
  /\ InTop
  /\ \A x \in Names :
       LET was == Top.store[x]
           is == scopes'[Len(scopes)].store[x]
       IN \/ is = was /\ globals'[x] = globals[x]
          \/ globals'[x] # ABSENT /\ (is = ABSENT \/ (was # ABSENT /\ is = globals'[x]))

\* A flow's declared variables are given their value.
Declare(names) ==
  /\ scopes # <<>>
  /\ scopes' = [scopes EXCEPT ![Len(scopes)].store =
                  [x \in Names |-> IF x \in names /\ @[x] \in {UNDEF, ABSENT} THEN Default ELSE @[x]]]
  /\ UNCHANGED globals

\* A flow is called with values of the caller, or by a command without any.
Call(inputs, outputs) ==
  /\ scopes' = Append(scopes, [store |-> IF scopes = <<>> THEN Empty ELSE Mapped(inputs, Visible), outputs |-> outputs])
  /\ UNCHANGED globals

\* The flow on top finishes; its caller gets what its outputs map says.
Return ==
  /\ scopes # <<>>
  /\ LET rest == SubSeq(scopes, 1, Len(scopes) - 1) IN
     scopes' = [k \in DOMAIN rest |->
                  IF k = Len(rest) THEN [rest[k] EXCEPT !.store = Over(@, Mapped(Top.outputs, Visible))]
                  ELSE rest[k]]
  /\ UNCHANGED globals

\* A request may assign its entities first.  Then flows are dropped, and another
\* may be entered in their place.
Unwind ==
  /\ scopes # <<>>
  /\ \E k \in 0..Len(scopes) :
       /\ Len(scopes') \in {k, k + 1}
       /\ \A j \in 1..k : /\ scopes'[j].outputs = scopes[j].outputs
                         /\ j < Len(scopes) => scopes'[j] = scopes[j]
       /\ Len(scopes') > k => scopes'[k + 1] = [store |-> Empty, outputs |-> NoMap]
       /\ \A x \in Names : \E is \in Values \cup {UNDEF, ABSENT} :
            Assigned(x, is) /\ (k = Len(scopes) => is = scopes'[k].store[x])

\* A store as the next turn finds it: the session's store may have lost its
\* undefined values or made another value of them.
Kept(store, new) == \A x \in Names : store[x] # UNDEF => new[x] = store[x]

\* A turn begins: the session is restored, or its flows are started anew, and
\* the version's variables that have no value get one.
Restore ==
  /\ \A x \in Names : globals[x] \notin {UNDEF, ABSENT} => globals'[x] = globals[x]
  /\ globals' \in Store
  /\ \/ scopes' \in Starts
     \/ /\ Len(scopes') = Len(scopes)
        /\ \A k \in DOMAIN scopes : /\ Kept(scopes[k].store, scopes'[k].store)
                                    /\ scopes'[k].outputs = scopes[k].outputs

Init ==
  /\ globals \in [Names -> {Default, ABSENT}]
  /\ scopes = <<>>

Next ==
  \/ Assign \/ Publish
  \/ \E names \in Declarations : Declare(names)
  \/ \E inputs, outputs \in Maps \cup {NoMap} : Call(inputs, outputs)
  \/ Return \/ Unwind \/ Restore

Spec == Init /\ [][Next]_vars
=============================================================================
