--------------------------- MODULE Sessions_proofs ---------------------------
(***************************************************************************)
(* For any number of requests to one session, in either store: what can    *)
(* make the session lose an answered request, or have a deleted one again. *)
(*                                                                         *)
(* Each request works on what it read.  The argument is therefore about    *)
(* every object a request holds, not only the stored one: it has all that  *)
(* the store had when it was read, and whatever came to the store since is *)
(* of a request that was under way together with its holder.               *)
(***************************************************************************)
EXTENDS Sessions, TLAPS

Phases == UnderWay \cup {"idle", "answered", "unknown", "failed"}

\* The requests a state has something of.
Touched(c) == c.turns \cup c.vars

\* A request is about to use the object it holds.
Holds(q) ==
  pc[q] \in {"ready", "prepared"} \/ (pc[q] = "writing" /\ kind[q] = "patch" /\ local)

Completing(q) == pc[q] \in {"running", "saving"}

\* The requests that must show: no other was under way together with them.
Clean == {r \in saved \ erased :
            kind[r] \in Turns \cup {"patch"} /\ \A q \in Requests : ~Overlapped(q, r)}

\* The request was under way together with a delete.
Undoes(q) == \E d \in Requests :
  pc[d] \in Finished /\ kind[d] = "delete" /\ Overlapped(q, d)

Undone == \E q \in saved : Undoes(q)

Types ==
  /\ local \in BOOLEAN
  /\ stored \in Object \cup {NULL}
  /\ objects \in [Object -> Content]
  /\ kind \in [Requests -> Kinds]
  /\ launch \in [Requests -> BOOLEAN]
  /\ pc \in [Requests -> Phases]
  /\ held \in [Requests -> Object \cup {NULL}]
  /\ saved \subseteq Requests /\ deleted \subseteq saved

\* Where a request is says what it is, and whether its effect is stored.
Phased == \A r \in Requests :
  /\ pc[r] \in {"ready", "prepared"} \/ Completing(r) => kind[r] \in Turns
  /\ pc[r] = "reading" => kind[r] \in Turns \/ (kind[r] = "patch" /\ local)
  /\ pc[r] = "generating" => kind[r] \in {"interact", "reset"}
  /\ Holds(r) => held[r] \in Object
  /\ r \in saved => pc[r] \in Finished
  /\ pc[r] = "answered" /\ kind[r] \in Turns \cup {"patch"} => r \in saved

\* No state has anything of a request yet to come, nor a turn of a patch.
Contents == \A o \in Object : \A r \in Touched(objects[o]) :
  pc[r] # "idle" /\ (r \in objects[o].turns => kind[r] # "patch")

\* Requests that are under way have met.
AllMet == \A q, r \in Requests :
  q # r /\ pc[q] \in UnderWay /\ pc[r] \in UnderWay => {q, r} \in met

\* The final state of a turn is its own until it is stored, and has the turn.
Private == \A q \in Requests :
  /\ stored = <<q, "result">> => pc[q] \in Finished
  /\ \A r \in Requests : held[r] = <<q, "result">> => pc[q] \in Finished
  /\ Completing(q) => q \in objects[<<q, "result">>].turns

\* A request's copy is nobody's, and empty, before it has read the store.
Unread == \A q \in Requests : pc[q] \in {"idle", "reading", "generating"} =>
  /\ objects[<<q, "copy">>] = Fresh /\ stored # <<q, "copy">>
  /\ \A r \in Requests : held[r] # <<q, "copy">>

Base == Types /\ Phased /\ Contents /\ AllMet /\ Private /\ Unread

\* What the mongo store and its requests have is never one object.
Copied == ~local => \A q \in Requests :
  /\ held[q] \in {NULL, <<q, "copy">>, <<q, "fresh">>}
  /\ stored # <<q, "copy">>
  /\ stored = <<q, "fresh">> => held[q] # <<q, "fresh">> \/ pc[q] \in Finished

\* A launch may drop the turn of r from the content c when it is saved.
Kept(q, r, c) == r \in Touched(c) \/ (launch[q] /\ kind[r] # "patch")

\* A request that must show is in the store and in all that is held.
KnownTo(x, q) ==
  /\ pc[q] = "generating" => kind[q] = "reset"
  /\ Holds(q) /\ pc[q] # "prepared" => x \in Touched(objects[held[q]])
  /\ pc[q] = "prepared" => Kept(q, x, objects[held[q]])
  /\ Completing(q) => Kept(q, x, objects[<<q, "result">>])

Known == \A x \in Clean : x \in Effects /\ \A q \in Requests : KnownTo(x, q)

\* What was deleted is held by those that were under way with the delete.
ForgottenBy(q) ==
  /\ Holds(q) => Touched(objects[held[q]]) \cap deleted = {}
  /\ Completing(q) => Touched(objects[<<q, "result">>]) \cap deleted = {}

Forgotten == ~Undone =>
  /\ Effects \cap deleted = {}
  /\ \A q \in Requests : ~Undoes(q) => ForgottenBy(q)

\* In the mongo store nothing is of a request that has not saved, and in what
\* a request holds there is nothing else but its own.
Traceless == ~local =>
  /\ Effects \subseteq saved
  /\ \A q \in Requests : \A x \in {"copy", "fresh", "result"} :
       Touched(objects[<<q, x>>]) \subseteq saved \cup {q}

IInv == Base /\ Copied /\ Known /\ Forgotten /\ Traceless

-----------------------------------------------------------------------------

\* Objects are told apart by their request and by what they are.
LEMMA Names ==
  /\ \A q \in Requests : \A x \in {"copy", "fresh", "result"} : <<q, x>> \in Object /\ <<q, x>> # NULL
  /\ \A q, r \in Requests : /\ <<q, "result">> # <<r, "copy">>
                            /\ <<q, "result">> # <<r, "fresh">>
                            /\ <<q, "fresh">> # <<r, "copy">>
                            /\ <<q, "result">> = <<r, "result">> => q = r
                            /\ <<q, "fresh">> = <<r, "fresh">> => q = r
                            /\ <<q, "copy">> = <<r, "copy">> => q = r
  /\ NULL \notin Object
BY ObjectAssumption DEF Object

\* A request is added to what a state has.
LEMMA Adding ==
  ASSUME NEW c \in Content, NEW r \in Requests
  PROVE  /\ [c EXCEPT !.turns = @ \cup {r}] \in Content
         /\ [c EXCEPT !.turns = @ \cup {r}].turns = c.turns \cup {r}
         /\ [c EXCEPT !.turns = @ \cup {r}].vars = c.vars
         /\ [c EXCEPT !.vars = @ \cup {r}] \in Content
         /\ [c EXCEPT !.vars = @ \cup {r}].turns = c.turns
         /\ [c EXCEPT !.vars = @ \cup {r}].vars = c.vars \cup {r}
BY DEF Content

LEMMA Written ==
  ASSUME Types, NEW o \in Object, NEW c \in Content, objects' = [objects EXCEPT ![o] = c]
  PROVE  /\ objects' \in [Object -> Content]
         /\ objects'[o] = c
         /\ \A p \in Object : p # o => objects'[p] = objects[p]
BY DEF Types

LEMMA Empty == Fresh \in Content /\ Fresh.turns = {} /\ Fresh.vars = {} /\ Touched(Fresh) = {}
BY DEF Fresh, Content, Touched


\* What each handler that writes an object makes of it.
LEMMA FindNothingFacts ==
  ASSUME Base, NEW r \in Requests, FindNothing(r)
  PROVE  pc' = [pc EXCEPT ![r] = CASE kind[r] = "interact" -> "generating"
                                   [] kind[r] = "stream" -> "ready"
                                   [] OTHER -> "writing"]
BY DEF Base, Types, Phased, Turns, Kinds, FindNothing, Move

LEMMA FindFacts ==
  ASSUME Base, NEW r \in Requests, Find(r)
  PROVE  /\ stored \in Object /\ objects[stored] \in Content
         /\ objects' = IF local THEN objects ELSE [objects EXCEPT ![<<r, "copy">>] = objects[stored]]
BY DEF Base, Types, Find, Write

LEMMA PrepareFacts ==
  ASSUME Base, NEW r \in Requests, NEW withVars \in BOOLEAN, Prepare(r, withVars)
  PROVE  /\ held[r] \in Object /\ objects[held[r]] \in Content
         /\ pc[r] = "ready" /\ kind[r] # "patch" /\ r \notin saved
         /\ \E c \in Content :
              /\ objects' = [objects EXCEPT ![held[r]] = c]
              /\ c.turns = IF launch[r] THEN {} ELSE objects[held[r]].turns
              /\ c.vars = objects[held[r]].vars \cup (IF withVars THEN {r} ELSE {})
<1> DEFINE o == objects[held[r]]
           c == [turns |-> IF launch[r] THEN {} ELSE o.turns,
                 vars  |-> o.vars \cup (IF withVars THEN {r} ELSE {})]
<1>1. pc[r] = "ready" /\ objects' = [objects EXCEPT ![held[r]] = c]
  BY DEF Prepare, Write
<1>2. held[r] \in Object /\ o \in Content /\ kind[r] # "patch" /\ r \notin saved
  BY <1>1 DEF Base, Types, Phased, Holds, Turns, Finished
<1>3. c \in Content
  BY <1>2 DEF Content
<1> QED BY <1>1, <1>2, <1>3

LEMMA RunFacts ==
  ASSUME Base, NEW r \in Requests, Run(r)
  PROVE  /\ held[r] \in Object /\ objects[held[r]] \in Content
         /\ pc[r] = "prepared" /\ kind[r] # "patch" /\ r \notin saved
         /\ \E c \in Content :
              /\ objects' = [objects EXCEPT ![<<r, "result">>] = c]
              /\ c.turns = objects[held[r]].turns \cup {r}
              /\ c.vars = objects[held[r]].vars
<1> DEFINE o == objects[held[r]]
           c == [o EXCEPT !.turns = @ \cup {r}]
<1>1. pc[r] = "prepared" /\ objects' = [objects EXCEPT ![<<r, "result">>] = c]
  BY DEF Run, Write
<1>2. held[r] \in Object /\ o \in Content /\ kind[r] # "patch" /\ r \notin saved
  BY <1>1 DEF Base, Types, Phased, Holds, Turns, Finished
<1>3. c \in Content /\ c.turns = o.turns \cup {r} /\ c.vars = o.vars
  BY <1>2, Adding
<1> HIDE DEF c
<1> QED BY <1>1, <1>2, <1>3

LEMMA PatchFacts ==
  ASSUME Base, NEW r \in Requests, NEW outcome \in Finished, Patch(r, outcome)
  PROVE  /\ pc[r] = "writing" /\ kind[r] = "patch" /\ r \notin saved
         /\ local => held[r] \in Object /\ Holds(r)
         /\ \E from, c \in Content :
              /\ from = IF local THEN objects[held[r]] ELSE Shown
              /\ from = Fresh \/ \E o \in Object : from = objects[o]
              /\ objects' = [objects EXCEPT ![<<r, "result">>] = c]
              /\ c.turns = from.turns /\ c.vars = from.vars \cup {r}
<1> DEFINE from == IF local THEN objects[held[r]] ELSE Shown
           c == [from EXCEPT !.vars = @ \cup {r}]
<1>1. /\ pc[r] = "writing" /\ kind[r] = "patch"
      /\ objects' = [objects EXCEPT ![<<r, "result">>] = c]
  BY DEF Patch, Write
<1>2. r \notin saved /\ (local => held[r] \in Object /\ Holds(r))
  BY <1>1 DEF Base, Types, Phased, Holds, Finished
<1>3. from \in Content /\ (from = Fresh \/ \E o \in Object : from = objects[o])
  BY <1>2, Empty DEF Base, Types, Shown
<1>4. from = IF local THEN objects[held[r]] ELSE Shown
  OBVIOUS
<1> HIDE DEF from
<1>5. c \in Content /\ c.turns = from.turns /\ c.vars = from.vars \cup {r}
  BY <1>3, Adding
<1> HIDE DEF c
<1> QED BY <1>1, <1>2, <1>3, <1>4, <1>5

\* The steps: the store stays what it is, and what was seen stays seen.
LEMMA Monotone ==
  ASSUME [Next]_vars
  PROVE  local' = local /\ saved \subseteq saved' /\ met \subseteq met'
<1>1. CASE UNCHANGED vars
  BY <1>1 DEF vars
<1>2. ASSUME NEW r \in Requests,
             \/ \E k \in Kinds, l \in BOOLEAN : Arrive(r, k, l)
             \/ FindNothing(r) \/ Find(r)
             \/ \E withVars \in BOOLEAN : Prepare(r, withVars)
             \/ Run(r) \/ Complete(r) \/ LoseWrite(r) \/ Fail(r)
      PROVE  local' = local /\ saved \subseteq saved' /\ met \subseteq met'
  BY <1>2 DEF Arrive, FindNothing, Find, Prepare, Run, Complete, LoseWrite, Fail
<1>3. ASSUME NEW r \in Requests, NEW outcome, CarryOut(r, outcome)
      PROVE  local' = local /\ saved \subseteq saved' /\ met \subseteq met'
  BY <1>3 DEF CarryOut, Generate, Save, Put, Delete, Patch, Store
<1> QED BY <1>1, <1>2, <1>3 DEF Next

\* How a write may end.
LEMMA OutcomesFinish == Outcomes \subseteq Finished
BY DEF Outcomes, Finished

LEMMA ArriveBase ==
  ASSUME Base, NEW r \in Requests, NEW k \in Kinds, NEW l \in BOOLEAN, Arrive(r, k, l)
  PROVE  Base'
<1>1. Types'
  BY Names, Empty DEF Base, Types, Phases, UnderWay, Kinds, Turns, Store, Shown, Arrive, Move, Write
<1>2. Phased'
  BY Names, Empty DEF Base, Types, Phased, Holds, Completing, Finished, Turns, Kinds, Store, Arrive, Move, Write
<1>3. Contents'
  BY Names, Empty DEF Base, Types, Contents, Touched, Phased, Holds, Turns, Store, Arrive, Move, Write
<1>4. AllMet'
  BY Names, Empty DEF Base, Types, AllMet, UnderWay, Arrive, Move, Write
<1>5. Private'
  BY Names, Empty DEF Base, Types, Phased, Private, Holds, Completing, Finished, Store, Turns, Arrive, Move, Write
<1>6. Unread'
  BY Names, Empty DEF Base, Types, Phased, Private, Unread, Store, Arrive, Move, Write
<1> QED BY <1>1, <1>2, <1>3, <1>4, <1>5, <1>6 DEF Base

LEMMA FindNothingBase ==
  ASSUME Base, NEW r \in Requests, FindNothing(r)
  PROVE  Base'
<1>1. pc' = [pc EXCEPT ![r] = CASE kind[r] = "interact" -> "generating"
                                      [] kind[r] = "stream" -> "ready"
                                      [] OTHER -> "writing"]
  BY FindNothingFacts
<1>2. Types'
  BY <1>1, Names, Empty DEF Base, Types, Phases, UnderWay, Kinds, Turns, Store, Shown, FindNothing, Move, Write
<1>3. Phased'
  BY <1>1, Names, Empty DEF Base, Types, Phased, Holds, Completing, Finished, Turns, Kinds, Store, FindNothing, Move, Write
<1>4. Contents'
  BY <1>1, Names, Empty DEF Base, Types, Contents, Touched, Phased, Holds, Turns, Store, FindNothing, Move, Write
<1>5. AllMet'
  BY <1>1, Names, Empty DEF Base, Types, AllMet, UnderWay, FindNothing, Move, Write
<1>6. Private'
  BY <1>1, Names, Empty DEF Base, Types, Phased, Private, Holds, Completing, Finished, Store, Turns, FindNothing, Move, Write
<1>7. Unread'
  BY <1>1, Names, Empty DEF Base, Types, Phased, Private, Unread, Store, FindNothing, Move, Write
<1> QED BY <1>2, <1>3, <1>4, <1>5, <1>6, <1>7 DEF Base

LEMMA FindBase ==
  ASSUME Base, NEW r \in Requests, Find(r)
  PROVE  Base'
<1>1. /\ stored \in Object /\ objects[stored] \in Content
      /\ objects' = IF local THEN objects ELSE [objects EXCEPT ![<<r, "copy">>] = objects[stored]]
  BY FindFacts
<1>a. /\ UNCHANGED <<local, kind, saved, stored>> /\ pc[r] = "reading"
      /\ pc' = [pc EXCEPT ![r] = IF kind[r] = "patch" THEN "writing" ELSE "ready"]
      /\ held' = [held EXCEPT ![r] = IF local THEN stored ELSE <<r, "copy">>]
  BY DEF Find, Move
<1>2. Types'
  BY <1>1, Names, Empty DEF Base, Types, Phases, UnderWay, Kinds, Turns, Store, Shown, Find, Move, Write
<1>3. Phased'
  BY <1>1, <1>a, Names DEF Base, Types, Phased, Holds, Completing, Finished, Turns, Kinds
<1>4. Contents'
  BY <1>1, Names, Empty DEF Base, Types, Contents, Touched, Phased, Holds, Turns, Store, Find, Move, Write
<1>5. AllMet'
  BY <1>1, Names, Empty DEF Base, Types, AllMet, UnderWay, Find, Move, Write
<1>6. Private'
  BY <1>1, <1>a, Names DEF Base, Types, Phased, Private, Holds, Completing, Finished, Turns
<1>7. Unread'
  BY <1>1, Names, Empty DEF Base, Types, Phased, Private, Unread, Store, Find, Move, Write
<1> QED BY <1>2, <1>3, <1>4, <1>5, <1>6, <1>7 DEF Base

LEMMA GenerateBase ==
  ASSUME Base, NEW r \in Requests, NEW outcome \in Finished, Generate(r, outcome)
  PROVE  Base'
<1>1. /\ objects' \in [Object -> Content] /\ objects'[<<r, "fresh">>] = Fresh
      /\ \A p \in Object : p # <<r, "fresh">> => objects'[p] = objects[p]
  BY Names, Empty, Written DEF Base, Generate, Write
<1>a. /\ UNCHANGED <<local, kind, saved>> /\ pc[r] = "generating" /\ stored' = <<r, "fresh">>
      /\ pc' = [pc EXCEPT ![r] = IF kind[r] = "reset" THEN outcome
                                 ELSE IF outcome = "answered" THEN "ready" ELSE outcome]
      /\ held' = [held EXCEPT ![r] = IF local THEN <<r, "fresh">> ELSE <<r, "copy">>]
  BY DEF Generate, Move
<1>2. Types'
  BY <1>1, Names, Empty DEF Finished, Base, Types, Phases, UnderWay, Kinds, Turns, Store, Shown, Generate, Move
<1>3. Phased'
  BY <1>a, Names DEF Base, Types, Phased, Holds, Completing, Finished, Turns, Kinds
<1>4. Contents'
  <2> SUFFICES ASSUME NEW o \in Object, NEW q \in Touched(objects'[o])
               PROVE  pc'[q] # "idle" /\ (q \in objects'[o].turns => kind'[q] # "patch")
    BY DEF Contents
  <2>1. objects'[o] = objects[o] /\ kind' = kind
    BY <1>1, Empty DEF Generate
  <2>2. pc[q] # "idle" /\ (q \in objects[o].turns => kind[q] # "patch")
    BY <2>1 DEF Base, Contents
  <2>3. q \in Requests
    BY <2>1 DEF Base, Types, Touched, Content
  <2>4. pc'[q] = pc[q] \/ pc'[q] \in {"ready", "answered", "unknown"}
    <3>1. \E to \in {"ready", "answered", "unknown"} : pc' = [pc EXCEPT ![r] = to]
      BY <1>a DEF Finished
    <3> QED BY <2>3, <3>1 DEF Base, Types
  <2> QED BY <2>1, <2>2, <2>4
<1>5. AllMet'
  BY <1>1, Names, Empty DEF Finished, Base, Types, AllMet, UnderWay, Generate, Move
<1>6. Private'
  <2>1. \A q \in Requests : stored' # <<q, "result">> /\ <<q, "result">> # <<r, "fresh">>
    BY <1>a, Names
  <2>2. ASSUME NEW q \in Requests, NEW p \in Requests, held'[p] = <<q, "result">>
        PROVE  pc'[q] \in Finished
    <3>1. p # r /\ held[p] = <<q, "result">>
      BY <1>a, <2>2, Names DEF Base, Types
    <3>2. pc[q] \in Finished /\ q # r
      BY <1>a, <3>1 DEF Base, Private, Finished
    <3> QED BY <1>a, <3>2 DEF Base, Types
  <2>3. \A q \in Requests : Completing(q)' => q \in objects'[<<q, "result">>].turns
    BY <1>1, <1>a, <2>1, Names DEF Finished, Base, Types, Private, Completing
  <2> QED BY <2>1, <2>2, <2>3 DEF Private
<1>7. Unread'
  BY <1>1, <1>a, Names DEF Finished, Base, Types, Unread
<1> QED BY <1>2, <1>3, <1>4, <1>5, <1>6, <1>7 DEF Base

LEMMA PrepareBase ==
  ASSUME Base, NEW r \in Requests, NEW withVars \in BOOLEAN, Prepare(r, withVars)
  PROVE  Base'
<1>1. /\ held[r] \in Object /\ objects[held[r]] \in Content
      /\ pc[r] = "ready" /\ kind[r] # "patch"
  BY PrepareFacts
<1>2. PICK c \in Content :
        /\ objects' = [objects EXCEPT ![held[r]] = c]
        /\ c.turns \subseteq objects[held[r]].turns
        /\ c.vars \subseteq objects[held[r]].vars \cup {r}
  BY PrepareFacts
<1>3. /\ objects' \in [Object -> Content] /\ objects'[held[r]] = c
      /\ \A p \in Object : p # held[r] => objects'[p] = objects[p]
  BY <1>1, <1>2, Written DEF Base
<1>a. UNCHANGED <<stored, held>> /\ pc' = [pc EXCEPT ![r] = "prepared"]
  BY DEF Prepare, Move
<1>4. Types'
  BY <1>1, <1>2, <1>3, Names, Empty DEF Base, Types, Phases, UnderWay, Kinds, Turns, Store, Shown, Prepare, Move
<1>5. Phased'
  BY <1>1, <1>2, <1>3, Names, Empty DEF Base, Types, Phased, Holds, Completing, Finished, Turns, Kinds, Store, Prepare, Move
<1>6. Contents'
  BY <1>1, <1>2, <1>3, Names, Empty DEF Base, Types, Contents, Touched, Phased, Holds, Turns, Store, Prepare, Move
<1>7. AllMet'
  BY <1>1, <1>2, <1>3, Names, Empty DEF Base, Types, AllMet, UnderWay, Prepare, Move
<1>8. Private'
  BY <1>1, <1>3, <1>a, Names DEF Base, Types, Private, Completing, Finished
<1>9. Unread'
  BY <1>1, <1>2, <1>3, Names, Empty DEF Base, Types, Phased, Private, Unread, Store, Prepare, Move
<1> QED BY <1>4, <1>5, <1>6, <1>7, <1>8, <1>9 DEF Base

LEMMA RunBase ==
  ASSUME Base, NEW r \in Requests, Run(r)
  PROVE  Base'
<1>1. /\ held[r] \in Object /\ objects[held[r]] \in Content
      /\ pc[r] = "prepared" /\ kind[r] # "patch"
  BY RunFacts
<1>2. PICK c \in Content :
        /\ objects' = [objects EXCEPT ![<<r, "result">>] = c]
        /\ c.turns = objects[held[r]].turns \cup {r}
        /\ c.vars = objects[held[r]].vars
  BY RunFacts
<1>a. UNCHANGED <<stored, held>> /\ pc' = [pc EXCEPT ![r] = "running"]
  BY DEF Run, Move
<1>b. /\ r \in objects'[<<r, "result">>].turns
      /\ \A q \in Requests : q # r => objects'[<<q, "result">>] = objects[<<q, "result">>]
  BY <1>2, Names DEF Base, Types
<1>3. Types'
  <2>1. objects' \in [Object -> Content]
    BY <1>2, Names DEF Base, Types
  <2>2. /\ UNCHANGED <<local, stored, kind, launch, held, saved, deleted>>
        /\ pc' = [pc EXCEPT ![r] = "running"]
    BY DEF Run, Move
  <2> QED BY <2>1, <2>2 DEF Base, Types, Phases, UnderWay
<1>4. Phased'
  BY <1>1, <1>2, Names, Empty DEF Base, Types, Phased, Holds, Completing, Finished, Turns, Kinds, Store, Run, Move, Write
<1>5. Contents'
  BY <1>1, <1>2, Names, Empty DEF Base, Types, Contents, Touched, Phased, Holds, Turns, Store, Run, Move, Write
<1>6. AllMet'
  BY <1>1, <1>2, Names, Empty DEF Base, Types, AllMet, UnderWay, Run, Move, Write
<1>7. Private'
  BY <1>1, <1>a, <1>b DEF Base, Types, Private, Completing, Finished
<1>8. Unread'
  BY <1>1, <1>2, Names, Empty DEF Base, Types, Phased, Private, Unread, Store, Run, Move, Write
<1> QED BY <1>3, <1>4, <1>5, <1>6, <1>7, <1>8 DEF Base

LEMMA CompleteBase ==
  ASSUME Base, NEW r \in Requests, Complete(r)
  PROVE  Base'
<1>1. Types'
  BY Names, Empty DEF Base, Types, Phases, UnderWay, Kinds, Turns, Store, Shown, Complete, Move, Write
<1>2. Phased'
  BY Names, Empty DEF Base, Types, Phased, Holds, Completing, Finished, Turns, Kinds, Store, Complete, Move, Write
<1>3. Contents'
  BY Names, Empty DEF Base, Types, Contents, Touched, Phased, Holds, Turns, Store, Complete, Move, Write
<1>4. AllMet'
  BY Names, Empty DEF Base, Types, AllMet, UnderWay, Complete, Move, Write
<1>5. Private'
  BY Names, Empty DEF Base, Types, Phased, Private, Holds, Completing, Finished, Store, Turns, Complete, Move, Write
<1>6. Unread'
  BY Names, Empty DEF Base, Types, Phased, Private, Unread, Store, Complete, Move, Write
<1> QED BY <1>1, <1>2, <1>3, <1>4, <1>5, <1>6 DEF Base

LEMMA SaveBase ==
  ASSUME Base, NEW r \in Requests, NEW outcome \in Finished, Save(r, outcome)
  PROVE  Base'
<1>1. Types'
  BY Names, Empty DEF Finished, Base, Types, Phases, UnderWay, Kinds, Turns, Store, Shown, Save, Move, Write
<1>2. Phased'
  BY Names, Empty DEF Base, Types, Phased, Holds, Completing, Finished, Turns, Kinds, Store, Save, Move, Write
<1>3. Contents'
  BY Names, Empty DEF Finished, Base, Types, Contents, Touched, Phased, Holds, Turns, Store, Save, Move, Write
<1>4. AllMet'
  BY Names, Empty DEF Base, Types, AllMet, UnderWay, Save, Move, Write
<1>5. Private'
  BY Names, Empty DEF Base, Types, Phased, Private, Holds, Completing, Finished, Store, Turns, Save, Move, Write
<1>6. Unread'
  BY Names, Empty DEF Finished, Base, Types, Phased, Private, Unread, Store, Save, Move, Write
<1> QED BY <1>1, <1>2, <1>3, <1>4, <1>5, <1>6 DEF Base

LEMMA LoseWriteBase ==
  ASSUME Base, NEW r \in Requests, LoseWrite(r)
  PROVE  Base'
<1>1. Types'
  BY Names, Empty DEF Base, Types, Phases, UnderWay, Kinds, Turns, Store, Shown, LoseWrite, Move, Write
<1>2. Phased'
  BY Names, Empty DEF Base, Types, Phased, Holds, Completing, Finished, Turns, Kinds, Store, LoseWrite, Move, Write
<1>3. Contents'
  BY Names, Empty DEF Base, Types, Contents, Touched, Phased, Holds, Turns, Store, LoseWrite, Move, Write
<1>4. AllMet'
  BY Names, Empty DEF Base, Types, AllMet, UnderWay, LoseWrite, Move, Write
<1>5. Private'
  BY Names, Empty DEF Base, Types, Phased, Private, Holds, Completing, Finished, Store, Turns, LoseWrite, Move, Write
<1>6. Unread'
  BY Names, Empty DEF Base, Types, Phased, Private, Unread, Store, LoseWrite, Move, Write
<1> QED BY <1>1, <1>2, <1>3, <1>4, <1>5, <1>6 DEF Base

LEMMA FailBase ==
  ASSUME Base, NEW r \in Requests, Fail(r)
  PROVE  Base'
<1>1. Types'
  BY Names, Empty DEF Base, Types, Phases, UnderWay, Kinds, Turns, Store, Shown, Fail, Move, Write
<1>2. Phased'
  BY Names, Empty DEF Base, Types, Phased, Holds, Completing, Finished, Turns, Kinds, Store, Fail, Move, Write
<1>3. Contents'
  BY Names, Empty DEF Base, Types, Contents, Touched, Phased, Holds, Turns, Store, Fail, Move, Write
<1>4. AllMet'
  BY Names, Empty DEF Base, Types, AllMet, UnderWay, Fail, Move, Write
<1>5. Private'
  BY Names, Empty DEF Base, Types, Phased, Private, Holds, Completing, Finished, Store, Turns, Fail, Move, Write
<1>6. Unread'
  BY Names, Empty DEF Base, Types, Phased, Private, Unread, Store, Fail, Move, Write
<1> QED BY <1>1, <1>2, <1>3, <1>4, <1>5, <1>6 DEF Base

LEMMA PutBase ==
  ASSUME Base, NEW r \in Requests, NEW outcome \in Finished, Put(r, outcome)
  PROVE  Base'
<1>1. [turns |-> {r}, vars |-> {r}] \in Content
  BY DEF Content
<1>2. Types'
  BY <1>1, Names, Empty DEF Finished, Base, Types, Phases, UnderWay, Kinds, Turns, Store, Shown, Put, Move, Write
<1>3. Phased'
  BY <1>1, Names, Empty DEF Base, Types, Phased, Holds, Completing, Finished, Turns, Kinds, Store, Put, Move, Write
<1>4. Contents'
  BY <1>1, Names, Empty DEF Finished, Base, Types, Contents, Touched, Phased, Holds, Turns, Store, Put, Move, Write
<1>5. AllMet'
  BY <1>1, Names, Empty DEF Base, Types, AllMet, UnderWay, Put, Move, Write
<1>6. Private'
  BY <1>1, Names, Empty DEF Base, Types, Phased, Private, Holds, Completing, Finished, Store, Turns, Put, Move, Write
<1>7. Unread'
  BY <1>1, Names, Empty DEF Finished, Base, Types, Phased, Private, Unread, Store, Put, Move, Write
<1> QED BY <1>2, <1>3, <1>4, <1>5, <1>6, <1>7 DEF Base

LEMMA DeleteBase ==
  ASSUME Base, NEW r \in Requests, NEW outcome \in Finished, Delete(r, outcome)
  PROVE  Base'
<1>1. Types'
  BY Names, Empty DEF Finished, Base, Types, Phases, UnderWay, Kinds, Turns, Store, Shown, Delete, Move, Write
<1>2. Phased'
  BY Names, Empty DEF Base, Types, Phased, Holds, Completing, Finished, Turns, Kinds, Store, Delete, Move, Write
<1>3. Contents'
  BY Names, Empty DEF Finished, Base, Types, Contents, Touched, Phased, Holds, Turns, Store, Delete, Move, Write
<1>4. AllMet'
  BY Names, Empty DEF Base, Types, AllMet, UnderWay, Delete, Move, Write
<1>5. Private'
  BY Names, Empty DEF Base, Types, Phased, Private, Holds, Completing, Finished, Store, Turns, Delete, Move, Write
<1>6. Unread'
  BY Names, Empty DEF Finished, Base, Types, Phased, Private, Unread, Store, Delete, Move, Write
<1> QED BY <1>1, <1>2, <1>3, <1>4, <1>5, <1>6 DEF Base

LEMMA PatchBase ==
  ASSUME Base, NEW r \in Requests, NEW outcome \in Finished, Patch(r, outcome)
  PROVE  Base'
<1>1. pc[r] = "writing" /\ kind[r] = "patch"
  BY PatchFacts
<1>2. PICK from \in Content, c \in Content :
        /\ from = Fresh \/ \E o \in Object : from = objects[o]
        /\ objects' = [objects EXCEPT ![<<r, "result">>] = c]
        /\ c.turns = from.turns /\ c.vars = from.vars \cup {r}
  BY PatchFacts
<1>3. /\ objects' \in [Object -> Content] /\ objects'[<<r, "result">>] = c
      /\ \A p \in Object : p # <<r, "result">> => objects'[p] = objects[p]
  BY <1>2, Names, Written DEF Base
<1>a. /\ UNCHANGED held /\ stored' = <<r, "result">>
      /\ pc' = [pc EXCEPT ![r] = outcome]
  BY DEF Patch, Store, Move
<1>4. Types'
  BY <1>1, <1>2, <1>3, Names, Empty DEF Finished, Base, Types, Phases, UnderWay, Kinds, Turns, Store, Shown, Patch, Move
<1>5. Phased'
  BY <1>1, <1>2, <1>3, Names, Empty DEF Base, Types, Phased, Holds, Completing, Finished, Turns, Kinds, Store, Patch, Move
<1>6. Contents'
  <2> SUFFICES ASSUME NEW o \in Object, NEW q \in Touched(objects'[o])
               PROVE  pc'[q] # "idle" /\ (q \in objects'[o].turns => kind'[q] # "patch")
    BY DEF Contents
  <2>1. kind' = kind /\ pc' = [pc EXCEPT ![r] = outcome]
    BY DEF Patch, Move
  <2>2. q = r \/ \E p \in Object : q \in Touched(objects[p])
    BY <1>2, <1>3, Empty DEF Touched
  <2>3. \E p \in Object : q \in objects'[o].turns => q \in objects[p].turns
    BY <1>2, <1>3, Empty
  <2> QED BY <1>1, <2>1, <2>2, <2>3 DEF Finished, Base, Types, Contents, Touched
<1>7. AllMet'
  BY <1>1, <1>2, <1>3, Names, Empty DEF Base, Types, AllMet, UnderWay, Patch, Move
<1>8. Private'
  BY <1>1, <1>3, <1>a, Names DEF Base, Types, Private, Completing, Finished
<1>9. Unread'
  BY <1>1, <1>2, <1>3, Names, Empty DEF Finished, Base, Types, Phased, Private, Unread, Store, Patch, Move
<1> QED BY <1>4, <1>5, <1>6, <1>7, <1>8, <1>9 DEF Base
-----------------------------------------------------------------------------
(* What an answered request can be sure of.                                *)

\* Requests that must show were answered.
LEMMA CleanIsDone ==
  ASSUME Base, NEW x \in Clean
  PROVE  /\ x \in Requests /\ x \in saved /\ pc[x] \in Finished
         /\ kind[x] \in Turns \cup {"patch"}
BY DEF Base, Types, Phased, Clean

\* Nothing that must show can be lost when there is nothing.
LEMMA NoneClean ==
  ASSUME Clean' = {}
  PROVE  Known'
BY DEF Known

LEMMA ArriveKnown ==
  ASSUME Base, Known, NEW r \in Requests, NEW k \in Kinds, NEW l \in BOOLEAN, Arrive(r, k, l)
  PROVE  Known'
<1>1. /\ pc[r] = "idle" /\ UNCHANGED <<local, stored, objects, held, saved, erased>> /\ met \subseteq met'
      /\ kind' = [kind EXCEPT ![r] = k] /\ launch' = [launch EXCEPT ![r] = l]
      /\ \E to \in {"reading", "generating", "writing"} :
           /\ pc' = [pc EXCEPT ![r] = to]
           /\ to = "generating" => k = "reset"
           /\ to = "writing" => ~(k = "patch" /\ local)
  BY DEF Arrive, Move, Turns, Kinds
<1> SUFFICES ASSUME NEW x \in Clean'
             PROVE  x \in Effects' /\ \A q \in Requests : KnownTo(x, q)'
  BY DEF Known
<1>2. x \in Clean /\ x \in Requests /\ x # r /\ kind'[x] = kind[x]
  BY <1>1 DEF Base, Types, Phased, Finished, Clean, Overlapped
<1>3. x \in Effects' /\ \A q \in Requests : KnownTo(x, q)
  BY <1>1, <1>2 DEF Known, Effects, Shown
<1>4. KnownTo(x, r)'
  BY <1>1 DEF Base, Types, KnownTo, Holds, Completing
<1>5. \A q \in Requests \ {r} : KnownTo(x, q)'
  BY <1>1, <1>2, <1>3 DEF Base, Types, KnownTo, Holds, Completing, Kept
<1> QED BY <1>3, <1>4, <1>5

\* A request that finds nothing meets none that must show.
LEMMA FindNothingKnown ==
  ASSUME Base, Known, NEW r \in Requests, FindNothing(r)
  PROVE  Known'
<1>1. Clean' = Clean
  BY DEF FindNothing, Clean, Overlapped
<1>2. Clean = {}
  BY Empty DEF FindNothing, Known, Effects, Shown
<1> QED BY <1>1, <1>2, NoneClean

LEMMA GenerateKnown ==
  ASSUME Base, Known, NEW r \in Requests, NEW outcome \in Finished, Generate(r, outcome)
  PROVE  Known'
<1>1. CASE kind[r] = "reset"
  BY <1>1, NoneClean DEF Generate, Clean
<1>2. CASE kind[r] # "reset"
  <2>1. Clean' = Clean
    BY <1>2 DEF Generate, Clean, Overlapped
  <2>2. Clean = {}
    BY <1>2 DEF Generate, Known, KnownTo
  <2> QED BY <2>1, <2>2, NoneClean
<1> QED BY <1>1, <1>2

LEMMA ReplaceKnown ==
  ASSUME Base, NEW r \in Requests, NEW outcome \in Finished,
         Put(r, outcome) \/ Delete(r, outcome)
  PROVE  Known'
<1>1. Clean' = {}
  BY DEF Put, Delete, Store, Clean, Turns
<1> QED BY <1>1, NoneClean

\* What is read has all that the store shows.
LEMMA FindKnown ==
  ASSUME Base, Known, Copied, NEW r \in Requests, Find(r)
  PROVE  Known'
<1>1. /\ stored \in Object /\ objects[stored] \in Content
      /\ objects' = IF local THEN objects ELSE [objects EXCEPT ![<<r, "copy">>] = objects[stored]]
  BY FindFacts
<1>2. /\ UNCHANGED <<local, stored, kind, launch, saved, erased, met>>
      /\ \E to \in {"writing", "ready"} : pc' = [pc EXCEPT ![r] = to]
      /\ held' = [held EXCEPT ![r] = IF local THEN stored ELSE <<r, "copy">>]
  BY DEF Find, Move
<1>3. Clean' = Clean
  BY <1>2 DEF Clean, Overlapped
<1> SUFFICES ASSUME NEW x \in Clean
             PROVE  x \in Effects' /\ \A q \in Requests : KnownTo(x, q)'
  BY <1>3 DEF Known
<1>4. x \in Touched(objects[stored]) /\ \A q \in Requests : KnownTo(x, q)
  BY <1>1, Names DEF Known, Effects, Shown, Touched
<1>5. \A o \in Object : x \in Touched(objects[o]) => x \in Touched(objects'[o])
  BY <1>1, <1>4 DEF Base, Types
<1>6. x \in Effects'
  BY <1>1, <1>2, <1>4, <1>5, Names DEF Effects, Shown, Touched
<1>7. KnownTo(x, r)'
  <2>1. objects'[held'[r]] = objects[stored]
    BY <1>1, <1>2, Names DEF Base, Types
  <2> QED BY <1>2, <1>4, <2>1 DEF Base, Types, KnownTo, Holds, Completing
<1>8. \A q \in Requests \ {r} : KnownTo(x, q)'
  BY <1>2, <1>4, <1>5, Names DEF Base, Types, Phased, KnownTo, Holds, Completing, Kept
<1> QED BY <1>6, <1>7, <1>8

\* The preparation of a launch takes turns, which the local store shows at once.
LEMMA PrepareKnown ==
  ASSUME Base, Known, Copied, NEW r \in Requests, NEW withVars \in BOOLEAN, Prepare(r, withVars)
  PROVE  Known'
<1>1. held[r] \in Object /\ pc[r] = "ready" /\ kind[r] # "patch" /\ r \notin saved
  BY PrepareFacts
<1>2. PICK c \in Content :
        /\ objects' = [objects EXCEPT ![held[r]] = c]
        /\ c.turns = IF launch[r] THEN {} ELSE objects[held[r]].turns
        /\ c.vars = objects[held[r]].vars \cup (IF withVars THEN {r} ELSE {})
  BY PrepareFacts
<1>3. /\ objects' \in [Object -> Content] /\ objects'[held[r]] = c
      /\ \A p \in Object : p # held[r] => objects'[p] = objects[p]
  BY <1>1, <1>2, Written DEF Base
<1>4. /\ UNCHANGED <<local, stored, kind, launch, held, saved, met>>
      /\ pc' = [pc EXCEPT ![r] = "prepared"]
      /\ erased' = IF local THEN erased \cup Ended(r) ELSE erased
  BY DEF Prepare, Move
<1> SUFFICES ASSUME NEW x \in Clean'
             PROVE  x \in Effects' /\ \A q \in Requests : KnownTo(x, q)'
  BY DEF Known
<1>5. /\ x \in Clean /\ x \in saved /\ x \in Requests
      /\ local /\ launch[r] => kind[x] = "patch"
  BY <1>4 DEF Base, Types, Clean, Overlapped, Ended
<1>6. x \in Effects /\ \A q \in Requests : KnownTo(x, q)
  BY <1>5 DEF Known
\* Only a launch takes a turn from a state.
<1>7. \A o \in Object : x \in Touched(objects[o]) /\ (~launch[r] \/ kind[x] = "patch")
                         => x \in Touched(objects'[o])
  BY <1>2, <1>3 DEF Base, Contents, Touched
\* In the mongo store the object is the request's own.
<1>8. ~local => stored # held[r] /\ \A q \in Requests \ {r} : held[q] # held[r]
  BY <1>1, Names DEF Finished, Copied
<1>9. x \in Effects'
  <2>1. CASE local
    BY <1>4, <1>5, <1>6, <1>7, <2>1, Empty DEF Base, Types, Effects, Shown, Touched
  <2>2. CASE ~local
    BY <1>3, <1>4, <1>6, <1>8, <2>2 DEF Base, Types, Effects, Shown
  <2> QED BY <2>1, <2>2 DEF Base, Types
<1>10. KnownTo(x, r)'
  <2>1. x \in Touched(objects[held[r]])
    BY <1>1, <1>6 DEF KnownTo, Holds
  <2>2. Kept(r, x, objects[held[r]])'
    BY <1>1, <1>4, <1>7, <2>1 DEF Kept, Base, Types
  <2> QED BY <1>1, <1>4, <2>2 DEF Base, Types, KnownTo, Holds, Completing
<1>11. ASSUME NEW q \in Requests \ {r} PROVE KnownTo(x, q)'
  <2>1. /\ pc'[q] = pc[q] /\ (Holds(q)' <=> Holds(q)) /\ (Completing(q)' <=> Completing(q))
    BY <1>1, <1>4 DEF Base, Types, Holds, Completing
  <2>2. Completing(q) => objects'[<<q, "result">>] = objects[<<q, "result">>]
    <3>1. Completing(q) => <<q, "result">> # held[r]
      BY DEF Base, Private, Completing, Finished
    <3> QED BY <1>3, <3>1, Names
  <2>3. Holds(q) => held[q] \in Object
    BY DEF Base, Phased
  <2>4. Holds(q) => \/ objects'[held[q]] = objects[held[q]]
                    \/ x \in Touched(objects[held[q]]) => x \in Touched(objects'[held[q]])
    BY <1>3, <1>5, <1>7, <1>8, <2>3 DEF Base, Types
  <2> QED BY <1>4, <1>6, <2>1, <2>2, <2>4 DEF KnownTo, Kept, Holds
<1> QED BY <1>9, <1>10, <1>11

LEMMA RunKnown ==
  ASSUME Base, Known, NEW r \in Requests, Run(r)
  PROVE  Known'
<1>1. held[r] \in Object /\ pc[r] = "prepared" /\ kind[r] # "patch" /\ r \notin saved
  BY RunFacts
<1>2. PICK c \in Content :
        /\ objects' = [objects EXCEPT ![<<r, "result">>] = c]
        /\ c.turns = objects[held[r]].turns \cup {r}
        /\ c.vars = objects[held[r]].vars
  BY RunFacts
<1>3. /\ objects' \in [Object -> Content] /\ objects'[<<r, "result">>] = c
      /\ \A p \in Object : p # <<r, "result">> => objects'[p] = objects[p]
  BY <1>2, Names, Written DEF Base
<1>4. /\ UNCHANGED <<local, stored, kind, launch, held, saved, erased, met>>
      /\ pc' = [pc EXCEPT ![r] = "running"]
  BY DEF Run, Move
<1>5. stored # <<r, "result">> /\ \A q \in Requests : held[q] # <<r, "result">>
  BY <1>1 DEF Base, Private, Finished
<1>6. Clean' = Clean
  BY <1>4 DEF Clean, Overlapped
<1> SUFFICES ASSUME NEW x \in Clean
             PROVE  x \in Effects' /\ \A q \in Requests : KnownTo(x, q)'
  BY <1>6 DEF Known
<1>7. x \in Effects /\ \A q \in Requests : KnownTo(x, q)
  BY DEF Known
<1>8. x \in Effects'
  BY <1>3, <1>4, <1>5, <1>7 DEF Base, Types, Effects, Shown
<1>9. KnownTo(x, r)'
  <2>1. Kept(r, x, c)
    BY <1>1, <1>2, <1>7 DEF KnownTo, Kept, Touched
  <2> QED BY <1>1, <1>3, <1>4, <2>1 DEF Base, Types, KnownTo, Kept, Holds, Completing
<1>10. ASSUME NEW q \in Requests \ {r} PROVE KnownTo(x, q)'
  <2>1. /\ pc'[q] = pc[q] /\ (Holds(q)' <=> Holds(q)) /\ (Completing(q)' <=> Completing(q))
    BY <1>4 DEF Base, Types, Holds, Completing
  <2>2. objects'[<<q, "result">>] = objects[<<q, "result">>]
    BY <1>3, Names
  <2>3. Holds(q) => objects'[held[q]] = objects[held[q]]
    BY <1>3, <1>5 DEF Base, Phased
  <2> QED BY <1>4, <1>7, <2>1, <2>2, <2>3 DEF KnownTo, Kept, Holds
<1> QED BY <1>8, <1>9, <1>10

\* Nothing stored, nothing written: a request that goes on or gives up.
LEMMA MoveKnown ==
  ASSUME Base, Known, NEW r \in Requests,
         Complete(r) \/ Fail(r) \/ LoseWrite(r)
  PROVE  Known'
<1>1. /\ UNCHANGED <<local, stored, objects, kind, launch, held, saved, erased, met>>
      /\ \/ pc[r] = "running" /\ pc' = [pc EXCEPT ![r] = "saving"]
         \/ \E to \in {"failed", "unknown"} : pc' = [pc EXCEPT ![r] = to]
  BY DEF Complete, Fail, LoseWrite, Move
<1>2. Clean' = Clean
  BY <1>1 DEF Clean, Overlapped
<1>3. \A x \in Clean : x \in Effects' /\ \A q \in Requests : KnownTo(x, q)'
  <2> TAKE x \in Clean
  <2>1. x \in Effects'
    BY <1>1 DEF Known, Effects, Shown
  <2>2. ASSUME NEW q \in Requests PROVE KnownTo(x, q)'
    BY <1>1 DEF Base, Types, Known, KnownTo, Kept, Holds, Completing
  <2> QED BY <2>1, <2>2
<1> QED BY <1>2, <1>3 DEF Known

\* A request that is stored and must show has met none under way.
LEMMA NewlyClean ==
  ASSUME Base, NEW r \in Requests, pc[r] \in UnderWay, met' = met, kind' = kind, r \in Clean'
  PROVE  \A q \in Requests \ {r} : pc[q] \notin UnderWay
BY DEF Base, AllMet, Clean, Overlapped

\* A final state is stored: it has what must show, but for what it ends.
LEMMA SaveKnown ==
  ASSUME Base, Known, NEW r \in Requests, NEW outcome \in Finished, Save(r, outcome)
  PROVE  Known'
<1>1. /\ UNCHANGED <<local, objects, kind, launch, held, met>>
      /\ pc[r] = "saving" /\ pc' = [pc EXCEPT ![r] = outcome]
      /\ stored' = <<r, "result">> /\ saved' = saved \cup {r} /\ erased' = erased \cup Ended(r)
  BY DEF Save, Store, Move, Finished
<1> SUFFICES ASSUME NEW x \in Clean'
             PROVE  x \in Effects' /\ \A q \in Requests : KnownTo(x, q)'
  BY DEF Known
<1>2. Effects' = Touched(objects[<<r, "result">>])
  BY <1>1, Names DEF Effects, Shown, Touched
<1>3. CASE x = r
  <2>1. x \in Effects'
    BY <1>1, <1>2, <1>3 DEF Base, Private, Completing, Touched
  <2>2. \A q \in Requests \ {r} : pc[q] \notin UnderWay
    BY <1>1, <1>3, NewlyClean DEF UnderWay
  <2>3. ASSUME NEW q \in Requests PROVE KnownTo(x, q)'
    BY <1>1, <2>2 DEF Base, Types, KnownTo, Holds, Completing, UnderWay, Finished
  <2> QED BY <2>1, <2>3
<1>4. CASE x # r
  <2>1. x \in Clean /\ ~(launch[r] /\ kind[x] # "patch")
    BY <1>1, <1>4 DEF Base, Types, Clean, Overlapped, Ended
  <2>2. \A q \in Requests : KnownTo(x, q)
    BY <2>1 DEF Known
  <2>3. x \in Effects'
    BY <1>1, <1>2, <2>1, <2>2 DEF KnownTo, Kept, Completing
  <2>4. ASSUME NEW q \in Requests PROVE KnownTo(x, q)'
    BY <1>1, <2>2 DEF Base, Types, KnownTo, Kept, Holds, Completing, Finished
  <2> QED BY <2>3, <2>4
<1> QED BY <1>3, <1>4

LEMMA PatchKnown ==
  ASSUME Base, Known, NEW r \in Requests, NEW outcome \in Finished, Patch(r, outcome)
  PROVE  Known'
<1>1. /\ pc[r] = "writing" /\ kind[r] = "patch" /\ r \notin saved
      /\ local => held[r] \in Object /\ Holds(r)
  BY PatchFacts
<1>2. PICK from \in Content, c \in Content :
        /\ from = IF local THEN objects[held[r]] ELSE Shown
        /\ objects' = [objects EXCEPT ![<<r, "result">>] = c]
        /\ c.turns = from.turns /\ c.vars = from.vars \cup {r}
  BY PatchFacts
<1>3. /\ objects' \in [Object -> Content] /\ objects'[<<r, "result">>] = c
      /\ \A p \in Object : p # <<r, "result">> => objects'[p] = objects[p]
  BY <1>2, Names, Written DEF Base
<1>4. /\ UNCHANGED <<local, kind, launch, held, erased, met>>
      /\ pc' = [pc EXCEPT ![r] = outcome]
      /\ stored' = <<r, "result">> /\ saved' = saved \cup {r}
  BY DEF Patch, Store, Move
<1>5. \A q \in Requests : held[q] # <<r, "result">>
  BY <1>1 DEF Base, Private, Finished
<1> SUFFICES ASSUME NEW x \in Clean'
             PROVE  x \in Effects' /\ \A q \in Requests : KnownTo(x, q)'
  BY DEF Known
<1>6. Effects' = c.turns \cup c.vars
  BY <1>3, <1>4, Names DEF Effects, Shown
<1>7. CASE x = r
  <2>1. \A q \in Requests \ {r} : pc[q] \notin UnderWay
    BY <1>1, <1>4, <1>7, NewlyClean DEF UnderWay
  <2>2. ASSUME NEW q \in Requests PROVE KnownTo(x, q)'
    BY <1>4, <2>1 DEF Finished, Base, Types, KnownTo, Holds, Completing, UnderWay
  <2> QED BY <1>2, <1>6, <1>7, <2>2
<1>8. CASE x # r
  <2>1. x \in Clean
    BY <1>4, <1>8 DEF Clean, Overlapped
  <2>2. x \in Effects /\ \A q \in Requests : KnownTo(x, q)
    BY <2>1 DEF Known
  <2>3. x \in from.turns \cup from.vars
    BY <1>1, <1>2, <2>2 DEF KnownTo, Touched, Effects
  <2>4. ASSUME NEW q \in Requests PROVE KnownTo(x, q)'
    <3>1. CASE q = r
      BY <1>4, <3>1 DEF Finished, Base, Types, KnownTo, Holds, Completing
    <3>2. CASE q # r
      <4>1. /\ pc'[q] = pc[q] /\ (Holds(q)' <=> Holds(q)) /\ (Completing(q)' <=> Completing(q))
        BY <1>4, <3>2 DEF Base, Types, Holds, Completing
      <4>2. objects'[<<q, "result">>] = objects[<<q, "result">>]
        BY <1>3, <3>2, Names
      <4>3. Holds(q) => objects'[held[q]] = objects[held[q]]
        BY <1>3, <1>5 DEF Base, Phased
      <4> QED BY <1>4, <2>2, <4>1, <4>2, <4>3 DEF KnownTo, Kept, Holds
    <3> QED BY <3>1, <3>2
  <2> QED BY <1>2, <1>6, <2>3, <2>4
<1> QED BY <1>7, <1>8

-----------------------------------------------------------------------------
(* What was deleted stays deleted, but for those that met the delete.      *)

\* Once undone, a delete stays undone; and who met it has met it.
LEMMA UndoesLasts ==
  ASSUME Base, NEW q \in Requests, Undoes(q), met \subseteq met',
         \A d \in Requests : pc[d] \in Finished => pc'[d] \in Finished /\ kind'[d] = kind[d]
  PROVE  Undoes(q)'
BY DEF Undoes, Overlapped

\* The steps: what has finished stays so, and as what it was.
LEMMA FinishedLasts ==
  ASSUME Base, [Next]_vars
  PROVE  /\ saved \subseteq saved' /\ met \subseteq met'
         /\ \A d \in Requests : pc[d] \in Finished => pc'[d] \in Finished /\ kind'[d] = kind[d]
<1>1. saved \subseteq saved' /\ met \subseteq met'
  BY Monotone
<1>2. ASSUME NEW d \in Requests, pc[d] \in Finished
      PROVE  pc'[d] \in Finished /\ kind'[d] = kind[d]
  <2>1. CASE UNCHANGED vars
    BY <1>2, <2>1 DEF vars
  <2>2. ASSUME NEW r \in Requests, pc[r] \notin Finished,
               \E to, k : pc' = [pc EXCEPT ![r] = to] /\ kind' \in {kind, [kind EXCEPT ![r] = k]}
        PROVE  pc'[d] \in Finished /\ kind'[d] = kind[d]
    BY <1>2, <2>2 DEF Base, Types
  <2>3. ASSUME NEW r \in Requests, FindNothing(r)
        PROVE  pc'[d] \in Finished /\ kind'[d] = kind[d]
    <3>1. pc[r] = "reading" /\ kind' = kind
      BY <2>3 DEF FindNothing
    <3>2. \E to : pc' = [pc EXCEPT ![r] = to]
      BY <2>3, FindNothingFacts
    <3> QED BY <2>2, <3>1, <3>2 DEF Finished
  <2>4. ASSUME NEW r \in Requests,
               \/ \E k \in Kinds, l \in BOOLEAN : Arrive(r, k, l)
               \/ Find(r)
               \/ \E withVars \in BOOLEAN : Prepare(r, withVars)
               \/ Run(r) \/ Complete(r) \/ LoseWrite(r) \/ Fail(r)
        PROVE  pc'[d] \in Finished /\ kind'[d] = kind[d]
    BY <2>2, <2>4 DEF Arrive, Find, Prepare, Run, Complete, LoseWrite, Fail, Move, Finished
  <2>5. ASSUME NEW r \in Requests, NEW outcome, CarryOut(r, outcome)
        PROVE  pc'[d] \in Finished /\ kind'[d] = kind[d]
    BY <2>2, <2>5 DEF CarryOut, Generate, Save, Put, Delete, Patch, Move, Finished
  <2> QED BY <2>1, <2>3, <2>4, <2>5 DEF Next
<1> QED BY <1>1, <1>2

\* Unless the delete is undone, these stay as they are.
LEMMA NotUndone ==
  ASSUME Base, Forgotten, [Next]_vars, ~Undone'
  PROVE  /\ ~Undone /\ Effects \cap deleted = {}
         /\ \A q \in Requests : ~Undoes(q)' => ~Undoes(q) /\ ForgottenBy(q)
<1>1. \A q \in Requests : Undoes(q) => Undoes(q)'
  BY FinishedLasts, UndoesLasts
<1>2. saved \subseteq saved' /\ saved \subseteq Requests
  BY FinishedLasts DEF Base, Types
<1> QED BY <1>1, <1>2 DEF Undone, Forgotten

\* A step of r that brings nothing deleted to what the others hold.
LEMMA OthersForget ==
  ASSUME Base, Forgotten, [Next]_vars, NEW r \in Requests, pc[r] \notin Finished,
         deleted' = deleted, local' = local,
         \A q \in Requests \ {r} : UNCHANGED <<pc[q], kind[q], held[q]>>,
         \A o \in Object \ {<<r, "result">>} :
           Touched(objects'[o]) \cap deleted \subseteq Touched(objects[o]),
         ~Undone' => /\ Effects' \cap deleted = {}
                     /\ ~Undoes(r)' => ForgottenBy(r)'
  PROVE  Forgotten'
<1> SUFFICES ASSUME ~Undone'
             PROVE  Effects' \cap deleted' = {}
                    /\ \A q \in Requests : ~Undoes(q)' => ForgottenBy(q)'
  BY DEF Forgotten
<1>1. ASSUME NEW q \in Requests \ {r}, ~Undoes(q)' PROVE ForgottenBy(q)'
  <2>1. ForgottenBy(q)
    BY <1>1, NotUndone
  <2>2. /\ Holds(q) => held[q] \in Object \ {<<r, "result">>}
        /\ <<q, "result">> \in Object \ {<<r, "result">>}
    BY Names DEF Base, Phased, Private
  <2>3. (Holds(q)' <=> Holds(q)) /\ (Completing(q)' <=> Completing(q)) /\ held'[q] = held[q]
    BY DEF Holds, Completing
  <2> QED BY <2>1, <2>2, <2>3 DEF ForgottenBy
<1> QED BY <1>1

\* What the store shows is not made worse by steps that do not store.
LEMMA StoreForgets ==
  ASSUME Base, NEW r \in Requests, pc[r] \notin Finished, Effects \cap deleted = {}, stored' = stored,
         \A o \in Object \ {<<r, "result">>} :
           Touched(objects'[o]) \cap deleted \subseteq Touched(objects[o])
  PROVE  Effects' \cap deleted = {}
<1>1. stored # <<r, "result">>
  BY DEF Base, Private
<1>2. CASE stored = NULL
  BY <1>2 DEF Effects, Shown
<1>3. CASE stored # NULL
  <2>1. stored \in Object \ {<<r, "result">>}
    BY <1>1, <1>3 DEF Base, Types
  <2> QED BY <1>3, <2>1 DEF Effects, Shown, Touched
<1> QED BY <1>2, <1>3

\* A request that is not stored yet was not deleted either.
LEMMA NotDeleted ==
  ASSUME Base, NEW r \in Requests, pc[r] \notin Finished
  PROVE  r \notin saved /\ r \notin deleted
BY DEF Base, Types, Phased

LEMMA MoveForgotten ==
  ASSUME Base, Forgotten, [Next]_vars, NEW r \in Requests,
         \/ \E k \in Kinds, l \in BOOLEAN : Arrive(r, k, l)
         \/ Complete(r) \/ Fail(r) \/ LoseWrite(r)
  PROVE  Forgotten'
<1>1. /\ UNCHANGED <<local, stored, objects, held, deleted>>
      /\ pc[r] \in Phases \ Finished
      /\ \A q \in Requests \ {r} : UNCHANGED <<pc[q], kind[q], held[q]>>
  BY DEF Base, Types, Arrive, Complete, Fail, LoseWrite, Move, Phases, UnderWay, Finished
<1>2. Holds(r)' => FALSE
  BY DEF Base, Types, Arrive, Complete, Fail, LoseWrite, Move, Holds, Turns, Kinds
<1>3. Completing(r)' => Completing(r)
  BY DEF Base, Types, Arrive, Complete, Fail, LoseWrite, Move, Completing, Turns, Kinds
<1>4. ~Undone' => Effects' \cap deleted = {} /\ (~Undoes(r)' => ForgottenBy(r)')
  BY <1>1, <1>2, <1>3, NotUndone DEF ForgottenBy, Effects, Shown
<1> QED BY <1>1, <1>4, OthersForget

LEMMA FindNothingForgotten ==
  ASSUME Base, Forgotten, [Next]_vars, NEW r \in Requests, FindNothing(r)
  PROVE  Forgotten'
<1>1. /\ UNCHANGED <<local, stored, kind, deleted>> /\ stored = NULL
      /\ pc[r] \notin Finished
      /\ held' = [held EXCEPT ![r] = <<r, "fresh">>]
      /\ objects' = [objects EXCEPT ![<<r, "fresh">>] = Fresh]
      /\ \E to \in {"generating", "ready", "writing"} : pc' = [pc EXCEPT ![r] = to]
  BY FindNothingFacts DEF FindNothing, Finished, Write
<1>2. /\ objects'[<<r, "fresh">>] = Fresh
      /\ \A p \in Object : p # <<r, "fresh">> => objects'[p] = objects[p]
  BY <1>1, Names, Empty, Written DEF Base
<1>3. \A o \in Object : Touched(objects'[o]) \subseteq Touched(objects[o])
  BY <1>2, Empty
<1>4. \A q \in Requests \ {r} : UNCHANGED <<pc[q], kind[q], held[q]>>
  BY <1>1 DEF Base, Types
<1>5. Effects' = {}
  BY <1>1, Empty DEF Effects, Shown
<1>6. ForgottenBy(r)'
  <2>1. objects'[held'[r]] = Fresh /\ ~Completing(r)'
    BY <1>1, <1>2 DEF Base, Types, Completing
  <2> QED BY <2>1, Empty DEF ForgottenBy
<1> QED BY <1>1, <1>3, <1>4, <1>5, <1>6, OthersForget

LEMMA FindForgotten ==
  ASSUME Base, Forgotten, [Next]_vars, NEW r \in Requests, Find(r)
  PROVE  Forgotten'
<1>1. /\ stored \in Object /\ objects[stored] \in Content
      /\ objects' = IF local THEN objects ELSE [objects EXCEPT ![<<r, "copy">>] = objects[stored]]
  BY FindFacts
<1>2. /\ UNCHANGED <<local, stored, kind, deleted>> /\ pc[r] \notin Finished
      /\ \E to \in {"writing", "ready"} : pc' = [pc EXCEPT ![r] = to]
      /\ held' = [held EXCEPT ![r] = IF local THEN stored ELSE <<r, "copy">>]
  BY DEF Find, Move, Finished
<1>3. \A q \in Requests \ {r} : UNCHANGED <<pc[q], kind[q], held[q]>>
  BY <1>2 DEF Base, Types
<1>4. CASE ~Undone'
  <2>1. Touched(objects[stored]) \cap deleted = {} /\ Effects \cap deleted = {}
    BY <1>1, <1>4, Names, NotUndone DEF Effects, Shown, Touched
  <2>2. \A o \in Object : Touched(objects'[o]) \cap deleted \subseteq Touched(objects[o])
    BY <1>1, <2>1 DEF Base, Types
  <2>3. Effects' \cap deleted = {}
    BY <1>2, <2>1, <2>2, StoreForgets
  <2>4. ForgottenBy(r)'
    <3>1. objects'[held'[r]] = objects[stored] /\ ~Completing(r)'
      BY <1>1, <1>2, Names DEF Base, Types, Completing
    <3> QED BY <1>2, <2>1, <3>1 DEF ForgottenBy
  <2> QED BY <1>2, <1>3, <2>2, <2>3, <2>4, OthersForget
<1>5. CASE Undone'
  BY <1>5 DEF Forgotten
<1> QED BY <1>4, <1>5

LEMMA GenerateForgotten ==
  ASSUME Base, Base', Forgotten, [Next]_vars, NEW r \in Requests, NEW outcome \in Finished, Generate(r, outcome)
  PROVE  Forgotten'
<1>1. /\ UNCHANGED <<local, kind, deleted>> /\ stored' = <<r, "fresh">>
      /\ pc[r] \notin Finished
      /\ \E to \in Finished \cup {"ready"} : pc' = [pc EXCEPT ![r] = to]
      /\ held' = [held EXCEPT ![r] = IF local THEN <<r, "fresh">> ELSE <<r, "copy">>]
  BY DEF Generate, Move, Finished
<1>2. /\ objects'[<<r, "fresh">>] = Fresh
      /\ \A p \in Object : p # <<r, "fresh">> => objects'[p] = objects[p]
  BY Names, Empty, Written DEF Base, Generate, Write
<1>3. \A o \in Object : Touched(objects'[o]) \subseteq Touched(objects[o])
  BY <1>2, Empty
<1>4. \A q \in Requests \ {r} : UNCHANGED <<pc[q], kind[q], held[q]>>
  BY <1>1 DEF Base, Types
<1>5. Effects' = {}
  BY <1>1, <1>2, Names, Empty DEF Effects, Shown, Touched
<1>6. ForgottenBy(r)'
  <2>1. ~Completing(r)'
    BY <1>1 DEF Finished, Base, Types, Completing
  <2>2. Touched(objects'[held'[r]]) = {}
    <3>1. CASE local
      BY <1>1, <1>2, <3>1, Empty DEF Base, Types
    <3>2. CASE ~local
      <4>1. objects[<<r, "copy">>] = Fresh
        BY DEF Base, Unread, Generate
      <4> QED BY <1>1, <1>2, <3>2, <4>1, Names, Empty DEF Base, Types
    <3> QED BY <3>1, <3>2
  <2> QED BY <2>1, <2>2 DEF ForgottenBy
<1> QED BY <1>1, <1>3, <1>4, <1>5, <1>6, OthersForget

LEMMA PrepareForgotten ==
  ASSUME Base, Forgotten, [Next]_vars, NEW r \in Requests, NEW withVars \in BOOLEAN, Prepare(r, withVars)
  PROVE  Forgotten'
<1>1. held[r] \in Object /\ pc[r] = "ready" /\ r \notin saved
  BY PrepareFacts
<1>2. PICK c \in Content :
        /\ objects' = [objects EXCEPT ![held[r]] = c]
        /\ c.turns = IF launch[r] THEN {} ELSE objects[held[r]].turns
        /\ c.vars = objects[held[r]].vars \cup (IF withVars THEN {r} ELSE {})
  BY PrepareFacts
<1>3. /\ objects'[held[r]] = c
      /\ \A p \in Object : p # held[r] => objects'[p] = objects[p]
  BY <1>1, <1>2, Written DEF Base
<1>4. /\ UNCHANGED <<local, stored, kind, held, deleted>> /\ pc[r] \notin Finished
      /\ pc' = [pc EXCEPT ![r] = "prepared"]
  BY DEF Prepare, Move, Finished
<1>5. \A q \in Requests \ {r} : UNCHANGED <<pc[q], kind[q], held[q]>>
  BY <1>4 DEF Base, Types
<1>6. \A o \in Object : Touched(objects'[o]) \cap deleted \subseteq Touched(objects[o])
  <2>1. r \notin deleted
    BY <1>4, NotDeleted
  <2>2. Touched(c) \subseteq Touched(objects[held[r]]) \cup {r}
    BY <1>2 DEF Touched
  <2> QED BY <1>3, <2>1, <2>2
<1>7. ASSUME ~Undone' PROVE Effects' \cap deleted = {} /\ (~Undoes(r)' => ForgottenBy(r)')
  <2>1. Effects \cap deleted = {} /\ (~Undoes(r)' => ForgottenBy(r))
    BY <1>7, NotUndone
  <2>2. Effects' \cap deleted = {}
    BY <1>4, <1>6, <2>1, StoreForgets
  <2>3. ForgottenBy(r) => ForgottenBy(r)'
    BY <1>1, <1>4, <1>6 DEF Base, Types, ForgottenBy, Holds, Completing
  <2> QED BY <2>1, <2>2, <2>3
<1> QED BY <1>4, <1>5, <1>6, <1>7, OthersForget

LEMMA RunForgotten ==
  ASSUME Base, Forgotten, [Next]_vars, NEW r \in Requests, Run(r)
  PROVE  Forgotten'
<1>1. held[r] \in Object /\ pc[r] = "prepared" /\ r \notin saved
  BY RunFacts
<1>2. PICK c \in Content :
        /\ objects' = [objects EXCEPT ![<<r, "result">>] = c]
        /\ c.turns = objects[held[r]].turns \cup {r}
        /\ c.vars = objects[held[r]].vars
  BY RunFacts
<1>3. /\ objects'[<<r, "result">>] = c
      /\ \A p \in Object : p # <<r, "result">> => objects'[p] = objects[p]
  BY <1>2, Names, Written DEF Base
<1>4. /\ UNCHANGED <<local, stored, kind, held, deleted>> /\ pc[r] \notin Finished
      /\ pc' = [pc EXCEPT ![r] = "running"]
  BY DEF Run, Move, Finished
<1>5. \A q \in Requests \ {r} : UNCHANGED <<pc[q], kind[q], held[q]>>
  BY <1>4 DEF Base, Types
<1>6. \A o \in Object \ {<<r, "result">>} : Touched(objects'[o]) \cap deleted \subseteq Touched(objects[o])
  BY <1>3
<1>7. ASSUME ~Undone' PROVE Effects' \cap deleted = {} /\ (~Undoes(r)' => ForgottenBy(r)')
  <2>1. Effects \cap deleted = {} /\ (~Undoes(r)' => ForgottenBy(r))
    BY <1>7, NotUndone
  <2>2. Effects' \cap deleted = {}
    BY <1>4, <1>6, <2>1, StoreForgets
  <2>3. ForgottenBy(r) => Touched(c) \cap deleted = {}
    <3>1. r \notin deleted
      BY <1>4, NotDeleted
    <3> QED BY <1>1, <1>2, <3>1 DEF ForgottenBy, Holds, Touched
  <2>4. ForgottenBy(r) => ForgottenBy(r)'
    BY <1>3, <1>4, <2>3 DEF Base, Types, ForgottenBy, Holds, Completing
  <2> QED BY <2>1, <2>2, <2>4
<1> QED BY <1>4, <1>5, <1>6, <1>7, OthersForget

LEMMA SaveForgotten ==
  ASSUME Base, Forgotten, [Next]_vars, NEW r \in Requests, NEW outcome \in Finished, Save(r, outcome)
  PROVE  Forgotten'
<1>1. /\ UNCHANGED <<local, objects, kind, held, deleted>>
      /\ pc[r] = "saving" /\ pc' = [pc EXCEPT ![r] = outcome]
      /\ stored' = <<r, "result">> /\ r \in saved'
  BY DEF Save, Store, Move, Finished
<1>2. \A q \in Requests \ {r} : UNCHANGED <<pc[q], kind[q], held[q]>>
  BY <1>1 DEF Base, Types
<1>3. ASSUME ~Undone' PROVE Effects' \cap deleted = {} /\ ForgottenBy(r)'
  <2>1. ForgottenBy(r)
    BY <1>1, <1>3, NotUndone DEF Undone
  <2>2. Effects' = Touched(objects[<<r, "result">>])
    BY <1>1, Names DEF Effects, Shown, Touched
  <2>3. ForgottenBy(r)'
    BY <1>1 DEF Base, Types, ForgottenBy, Holds, Completing, Finished
  <2> QED BY <1>1, <2>1, <2>2, <2>3 DEF ForgottenBy, Completing
<1> QED BY <1>1, <1>2, <1>3, OthersForget DEF Finished

LEMMA PutForgotten ==
  ASSUME Base, Forgotten, [Next]_vars, NEW r \in Requests, NEW outcome \in Finished, Put(r, outcome)
  PROVE  Forgotten'
<1> DEFINE c == [turns |-> {r}, vars |-> {r}]
<1>1. /\ UNCHANGED <<local, kind, held, deleted>> /\ pc[r] \notin Finished
      /\ stored' = <<r, "fresh">> /\ pc' = [pc EXCEPT ![r] = outcome]
  BY DEF Put, Store, Move, Finished
<1>2. c \in Content /\ Touched(c) = {r}
  BY DEF Content, Touched
<1>3. /\ objects'[<<r, "fresh">>] = c
      /\ \A p \in Object : p # <<r, "fresh">> => objects'[p] = objects[p]
  BY <1>2, Names, Written DEF Base, Put, Write
<1> HIDE DEF c
<1>4. \A q \in Requests \ {r} : UNCHANGED <<pc[q], kind[q], held[q]>>
  BY <1>1 DEF Base, Types
<1>5. r \notin deleted
  BY <1>1, NotDeleted
<1>6. \A o \in Object : Touched(objects'[o]) \cap deleted \subseteq Touched(objects[o])
  BY <1>2, <1>3, <1>5
<1>7. Effects' \cap deleted = {} /\ ForgottenBy(r)'
  <2>1. Effects' = {r}
    BY <1>1, <1>2, <1>3, Names DEF Effects, Shown, Touched
  <2>2. ForgottenBy(r)'
    BY <1>1 DEF Finished, Base, Types, ForgottenBy, Holds, Completing
  <2> QED BY <1>5, <2>1, <2>2
<1> QED BY <1>1, <1>4, <1>6, <1>7, OthersForget

LEMMA PatchForgotten ==
  ASSUME Base, Forgotten, [Next]_vars, NEW r \in Requests, NEW outcome \in Finished, Patch(r, outcome)
  PROVE  Forgotten'
<1>1. /\ pc[r] = "writing" /\ kind[r] = "patch" /\ r \notin saved
      /\ local => held[r] \in Object /\ Holds(r)
  BY PatchFacts
<1>2. PICK from \in Content, c \in Content :
        /\ from = IF local THEN objects[held[r]] ELSE Shown
        /\ objects' = [objects EXCEPT ![<<r, "result">>] = c]
        /\ c.turns = from.turns /\ c.vars = from.vars \cup {r}
  BY PatchFacts
<1>3. /\ objects'[<<r, "result">>] = c
      /\ \A p \in Object : p # <<r, "result">> => objects'[p] = objects[p]
  BY <1>2, Names, Written DEF Base
<1>4. /\ UNCHANGED <<local, kind, held, deleted>> /\ pc[r] \notin Finished
      /\ pc' = [pc EXCEPT ![r] = outcome]
      /\ stored' = <<r, "result">> /\ r \in saved'
  BY DEF Patch, Store, Move, Finished
<1>5. \A q \in Requests \ {r} : UNCHANGED <<pc[q], kind[q], held[q]>>
  BY <1>4 DEF Base, Types
<1>6. \A o \in Object \ {<<r, "result">>} : Touched(objects'[o]) \cap deleted \subseteq Touched(objects[o])
  BY <1>3
<1>7. ASSUME ~Undone' PROVE Effects' \cap deleted = {} /\ ForgottenBy(r)'
  <2>1. Effects \cap deleted = {} /\ ForgottenBy(r)
    BY <1>4, <1>7, NotUndone DEF Undone
  <2>2. Touched(from) \cap deleted = {}
    BY <1>1, <1>2, <2>1 DEF ForgottenBy, Effects, Touched
  <2>3. Effects' = Touched(from) \cup {r}
    BY <1>2, <1>3, <1>4, Names DEF Effects, Shown, Touched
  <2>4. r \notin deleted
    BY <1>4, NotDeleted
  <2>5. ForgottenBy(r)'
    BY <1>4 DEF Finished, Base, Types, ForgottenBy, Holds, Completing
  <2> QED BY <2>2, <2>3, <2>4, <2>5
<1> QED BY <1>4, <1>5, <1>6, <1>7, OthersForget

\* All that are under way have met the delete.
LEMMA DeleteForgotten ==
  ASSUME Base, NEW r \in Requests, NEW outcome \in Finished, Delete(r, outcome)
  PROVE  Forgotten'
<1>1. /\ UNCHANGED <<local, kind, met>> /\ stored' = NULL
      /\ pc[r] = "writing" /\ kind[r] = "delete" /\ pc' = [pc EXCEPT ![r] = outcome]
  BY DEF Delete, Move
<1>2. Effects' = {}
  BY <1>1, Empty DEF Effects, Shown
<1>3. ASSUME NEW q \in Requests, ~Undoes(q)' PROVE ForgottenBy(q)'
  <2>1. CASE q = r
    BY <1>1, <2>1 DEF Finished, Base, Types, ForgottenBy, Holds, Completing
  <2>2. CASE q # r /\ pc[q] \in UnderWay
    <3>1. {q, r} \in met'
      BY <1>1, <2>2 DEF Base, AllMet, UnderWay
    <3>2. pc'[r] \in Finished /\ kind'[r] = "delete"
      BY <1>1 DEF Base, Types
    <3> QED BY <1>3, <2>2, <3>1, <3>2 DEF Undoes, Overlapped
  <2>3. CASE q # r /\ pc[q] \notin UnderWay
    BY <1>1, <2>3 DEF Base, Types, ForgottenBy, Holds, Completing, UnderWay
  <2> QED BY <2>1, <2>2, <2>3
<1> QED BY <1>2, <1>3 DEF Forgotten

-----------------------------------------------------------------------------
(* The mongo store copies.                                                 *)

LEMMA CopiedStep ==
  ASSUME Base, Copied, [Next]_vars
  PROVE  Copied'
<1>1. local' = local
  BY Monotone
<1>2. CASE UNCHANGED vars
  BY <1>1, <1>2 DEF vars, Copied
<1>3. ASSUME NEW r \in Requests, UNCHANGED <<stored, held>>, pc[r] \notin Finished,
             \E to \in Phases : pc' = [pc EXCEPT ![r] = to]
      PROVE  Copied'
  BY <1>1, <1>3 DEF Base, Types, Copied
<1>4. ASSUME NEW r \in Requests, FindNothing(r) PROVE Copied'
  <2>1. /\ stored = NULL /\ stored' = NULL
        /\ held' = [held EXCEPT ![r] = <<r, "fresh">>]
    BY <1>4 DEF FindNothing
  <2>2. \A q \in Requests : held'[q] \in {held[q], <<q, "fresh">>}
    BY <2>1 DEF Base, Types
  <2>3. \A q \in Requests : stored' # <<q, "copy">> /\ stored' # <<q, "fresh">>
    BY <2>1, Names
  <2> QED BY <1>1, <2>2, <2>3 DEF Copied
<1>5. ASSUME NEW r \in Requests, Find(r) PROVE Copied'
  BY <1>1, <1>5, Names DEF Base, Types, Copied, Find, Move
<1>6. ASSUME NEW r \in Requests, NEW outcome \in Finished, Generate(r, outcome) PROVE Copied'
  BY <1>1, <1>6, Names DEF Base, Types, Copied, Generate, Move
<1>7. ASSUME NEW r \in Requests, NEW outcome \in Finished, Put(r, outcome) PROVE Copied'
  BY <1>1, <1>7, Names DEF Base, Types, Copied, Put, Store, Move
<1>8. ASSUME NEW r \in Requests, stored' \in {NULL, <<r, "result">>}, held' = held
      PROVE  Copied'
  BY <1>1, <1>8, Names DEF Base, Types, Copied
<1>9. ASSUME NEW r \in Requests,
             \/ \E k \in Kinds, l \in BOOLEAN : Arrive(r, k, l)
             \/ \E withVars \in BOOLEAN : Prepare(r, withVars)
             \/ Run(r) \/ Complete(r) \/ Fail(r) \/ LoseWrite(r)
      PROVE  Copied'
  <2>1. /\ UNCHANGED <<stored, held>> /\ pc[r] \notin Finished
        /\ \E to \in Phases : pc' = [pc EXCEPT ![r] = to]
    BY <1>9 DEF Arrive, Prepare, Run, Complete, Fail, LoseWrite, Move, Phases, UnderWay, Finished
  <2> QED BY <1>3, <2>1
<1>10. ASSUME NEW r \in Requests, NEW outcome \in Finished,
              Save(r, outcome) \/ Delete(r, outcome) \/ Patch(r, outcome)
       PROVE  Copied'
  <2>1. stored' \in {NULL, <<r, "result">>} /\ held' = held
    BY <1>10 DEF Save, Delete, Patch, Store
  <2> QED BY <1>8, <2>1
<1> QED BY <1>2, <1>4, <1>5, <1>6, <1>7, <1>9, <1>10, OutcomesFinish DEF Next, CarryOut

-----------------------------------------------------------------------------
(* Requests that fail leave nothing in the mongo store.                    *)

\* A step of r that writes its own objects only, with what was saved or is its.
LEMMA OwnTrace ==
  ASSUME Base, Traceless, NEW r \in Requests, ~local, saved \subseteq saved',
         \A q \in Requests \ {r} : \A x \in {"copy", "fresh", "result"} :
           objects'[<<q, x>>] = objects[<<q, x>>],
         \A x \in {"copy", "fresh", "result"} : Touched(objects'[<<r, x>>]) \subseteq saved' \cup {r},
         Effects' \subseteq saved'
  PROVE  Traceless'
<1>1. ASSUME NEW q \in Requests, NEW x \in {"copy", "fresh", "result"}
      PROVE  Touched(objects'[<<q, x>>]) \subseteq saved' \cup {q}
  BY DEF Traceless
<1> QED BY <1>1 DEF Traceless

\* The same, for a write of one object, which is the stored one afterwards or
\* is not the stored one before.
LEMMA WriteTrace ==
  ASSUME Base, Traceless, NEW r \in Requests, NEW x \in {"copy", "fresh", "result"},
         NEW c \in Content, ~local, saved \subseteq saved',
         objects' = [objects EXCEPT ![<<r, x>>] = c],
         Touched(c) \subseteq saved' \cup {r},
         \/ stored' = stored /\ stored # <<r, x>>
         \/ stored' = <<r, x>> /\ Touched(c) \subseteq saved'
  PROVE  Traceless'
<1>1. /\ objects'[<<r, x>>] = c
      /\ \A p \in Object : p # <<r, x>> => objects'[p] = objects[p]
  BY Names, Written DEF Base
<1>2. \A q \in Requests \ {r} : \A y \in {"copy", "fresh", "result"} :
        objects'[<<q, y>>] = objects[<<q, y>>]
  BY <1>1, Names
<1>3. ASSUME NEW y \in {"copy", "fresh", "result"}
      PROVE  Touched(objects'[<<r, y>>]) \subseteq saved' \cup {r}
  <2>1. <<r, y>> \in Object /\ (<<r, y>> = <<r, x>> => y = x)
    BY Names
  <2> QED BY <1>1, <2>1 DEF Traceless
<1>4. Effects' \subseteq saved'
  <2>1. CASE stored' = <<r, x>> /\ Touched(c) \subseteq saved'
    BY <1>1, <2>1, Names DEF Effects, Shown, Touched
  <2>2. CASE stored' = stored /\ stored # <<r, x>>
    BY <1>1, <2>2 DEF Base, Types, Traceless, Effects, Shown
  <2> QED BY <2>1, <2>2
<1> QED BY <1>2, <1>3, <1>4, OwnTrace

LEMMA TracelessStep ==
  ASSUME Base, Copied, Traceless, [Next]_vars
  PROVE  Traceless'
<1>1. local' = local /\ saved \subseteq saved'
  BY Monotone
<1> SUFFICES ASSUME ~local PROVE Traceless'
  BY <1>1 DEF Traceless
<1>2. ASSUME objects' = objects, stored' \in {stored, NULL} PROVE Traceless'
  BY <1>1, <1>2, Empty DEF Traceless, Effects, Shown, Touched
<1>3. ASSUME NEW r \in Requests, FindNothing(r) PROVE Traceless'
  <2>1. objects' = [objects EXCEPT ![<<r, "fresh">>] = Fresh] /\ stored' = stored /\ stored = NULL
    BY <1>3 DEF FindNothing, Write
  <2> QED BY <1>1, <2>1, Empty, Names, WriteTrace
<1>4. ASSUME NEW r \in Requests, Find(r) PROVE Traceless'
  <2>1. /\ stored \in Object /\ objects[stored] \in Content /\ stored' = stored
        /\ objects' = [objects EXCEPT ![<<r, "copy">>] = objects[stored]]
    BY <1>4, FindFacts DEF Find
  <2>2. Touched(objects[stored]) \subseteq saved /\ stored # <<r, "copy">>
    BY <2>1, Names DEF Traceless, Effects, Shown, Touched, Copied
  <2> QED BY <1>1, <2>1, <2>2, WriteTrace
<1>5. ASSUME NEW r \in Requests, NEW outcome \in Finished, Generate(r, outcome) PROVE Traceless'
  <2>1. objects' = [objects EXCEPT ![<<r, "fresh">>] = Fresh] /\ stored' = <<r, "fresh">>
    BY <1>5 DEF Generate, Write
  <2> QED BY <1>1, <2>1, Empty, WriteTrace
<1>6. ASSUME NEW r \in Requests, NEW withVars \in BOOLEAN, Prepare(r, withVars) PROVE Traceless'
  <2>1. held[r] \in Object /\ pc[r] = "ready" /\ stored' = stored
    BY <1>6, PrepareFacts DEF Prepare
  <2>2. PICK c \in Content :
          /\ objects' = [objects EXCEPT ![held[r]] = c]
          /\ c.turns = IF launch[r] THEN {} ELSE objects[held[r]].turns
          /\ c.vars = objects[held[r]].vars \cup (IF withVars THEN {r} ELSE {})
    BY <1>6, PrepareFacts
  <2>3. PICK x \in {"copy", "fresh"} : held[r] = <<r, x>>
    BY <2>1, Names DEF Copied
  <2>4. Touched(objects[held[r]]) \subseteq saved \cup {r} /\ stored # held[r]
    BY <2>1, <2>3 DEF Finished, Traceless, Copied
  <2>5. Touched(c) \subseteq saved \cup {r}
    BY <2>2, <2>4 DEF Touched
  <2> QED BY <1>1, <2>1, <2>2, <2>3, <2>4, <2>5, WriteTrace
<1>7. ASSUME NEW r \in Requests, Run(r) PROVE Traceless'
  <2>1. held[r] \in Object /\ pc[r] = "prepared" /\ stored' = stored
    BY <1>7, RunFacts DEF Run
  <2>2. PICK c \in Content :
          /\ objects' = [objects EXCEPT ![<<r, "result">>] = c]
          /\ c.turns = objects[held[r]].turns \cup {r}
          /\ c.vars = objects[held[r]].vars
    BY <1>7, RunFacts
  <2>3. PICK x \in {"copy", "fresh"} : held[r] = <<r, x>>
    BY <2>1, Names DEF Copied
  <2>4. Touched(c) \subseteq saved \cup {r}
    BY <2>2, <2>3 DEF Traceless, Touched
  <2>5. stored # <<r, "result">>
    BY <2>1 DEF Base, Private, Finished
  <2> QED BY <1>1, <2>1, <2>2, <2>4, <2>5, WriteTrace
<1>8. ASSUME NEW r \in Requests, NEW outcome \in Finished, Save(r, outcome) PROVE Traceless'
  <2>1. objects' = objects /\ stored' = <<r, "result">> /\ saved' = saved \cup {r}
    BY <1>8 DEF Save, Store
  <2>2. Touched(objects[<<r, "result">>]) \subseteq saved'
    BY <2>1 DEF Traceless
  <2>3. Effects' \subseteq saved'
    BY <2>1, <2>2, Names DEF Effects, Shown, Touched
  <2>4. \A x \in {"copy", "fresh", "result"} : Touched(objects'[<<r, x>>]) \subseteq saved' \cup {r}
    BY <2>1 DEF Traceless
  <2> QED BY <1>1, <2>1, <2>3, <2>4, OwnTrace
<1>9. ASSUME NEW r \in Requests, NEW outcome \in Finished, Put(r, outcome) PROVE Traceless'
  <2> DEFINE c == [turns |-> {r}, vars |-> {r}]
  <2>1. /\ objects' = [objects EXCEPT ![<<r, "fresh">>] = c]
        /\ stored' = <<r, "fresh">> /\ saved' = saved \cup {r}
    BY <1>9 DEF Put, Write, Store
  <2>2. c \in Content /\ Touched(c) = {r}
    BY DEF Content, Touched
  <2> HIDE DEF c
  <2> QED BY <1>1, <2>1, <2>2, WriteTrace
<1>10. ASSUME NEW r \in Requests, NEW outcome \in Finished, Patch(r, outcome) PROVE Traceless'
  <2>1. PICK from, c \in Content :
          /\ from = IF local THEN objects[held[r]] ELSE Shown
          /\ objects' = [objects EXCEPT ![<<r, "result">>] = c]
          /\ c.turns = from.turns /\ c.vars = from.vars \cup {r}
    BY <1>10, PatchFacts
  <2>2. stored' = <<r, "result">> /\ saved' = saved \cup {r}
    BY <1>10 DEF Patch, Store
  <2>3. Touched(c) \subseteq saved'
    BY <2>1, <2>2 DEF Traceless, Effects, Touched
  <2> QED BY <1>1, <2>1, <2>2, <2>3, WriteTrace
<1>11. ASSUME NEW r \in Requests,
              \/ \E k \in Kinds, l \in BOOLEAN : Arrive(r, k, l)
              \/ Complete(r) \/ Fail(r) \/ LoseWrite(r)
              \/ \E outcome \in Finished : Delete(r, outcome)
       PROVE  Traceless'
  <2>1. objects' = objects /\ stored' \in {stored, NULL}
    BY <1>11 DEF Arrive, Complete, Fail, LoseWrite, Delete
  <2> QED BY <1>2, <2>1
<1>12. CASE UNCHANGED vars
  BY <1>2, <1>12 DEF vars
<1> QED BY <1>3, <1>4, <1>5, <1>6, <1>7, <1>8, <1>9, <1>10, <1>11, <1>12, OutcomesFinish
   DEF Next, CarryOut

-----------------------------------------------------------------------------
LEMMA InitHolds == Init => IInv
<1> SUFFICES ASSUME Init PROVE IInv
  OBVIOUS
<1>1. /\ \A r \in Requests : pc[r] = "idle" /\ kind[r] = "interact" /\ held[r] = NULL
      /\ \A o \in Object : objects[o] = Fresh
      /\ stored = NULL /\ saved = {} /\ deleted = {}
  BY DEF Init
<1>2. Types
  BY Empty DEF Init, Types, Phases, Kinds, Turns
<1>3. Phased /\ AllMet /\ Private /\ Unread /\ Contents
  BY <1>1, Names, Empty DEF Phased, AllMet, Private, Unread, Contents, Holds, Completing, UnderWay,
     Finished
<1>4. Copied
  BY <1>1, Names DEF Copied
<1>5. Known
  BY <1>1 DEF Known, Clean
<1>6. Forgotten
  BY <1>1 DEF Forgotten, ForgottenBy, Holds, Completing
<1>7. Traceless
  BY <1>1, Names, Empty DEF Traceless, Effects, Shown
<1> QED BY <1>2, <1>3, <1>4, <1>5, <1>6, <1>7 DEF IInv, Base

LEMMA BaseStep == Base /\ [Next]_vars => Base'
<1>1. Base /\ UNCHANGED vars => Base'
  BY DEF vars, Base, Types, Phased, Contents, AllMet, Private, Unread, Holds, Completing
<1> QED
  BY <1>1, OutcomesFinish, ArriveBase, FindNothingBase, FindBase, GenerateBase, PrepareBase, RunBase, CompleteBase,
     SaveBase, LoseWriteBase, FailBase, PutBase, DeleteBase, PatchBase DEF Next, CarryOut

LEMMA KnownStep == IInv /\ [Next]_vars => Known'
<1>1. IInv /\ UNCHANGED vars => Known'
  BY DEF vars, IInv, Known, KnownTo, Kept, Clean, Overlapped, Effects, Shown, Holds, Completing
<1> QED
  BY <1>1, OutcomesFinish, ArriveKnown, FindNothingKnown, FindKnown, GenerateKnown, PrepareKnown, RunKnown,
     MoveKnown, SaveKnown, ReplaceKnown, PatchKnown DEF Next, CarryOut, IInv

LEMMA ForgottenStep == IInv /\ [Next]_vars => Forgotten'
<1>1. ASSUME IInv, UNCHANGED vars PROVE Forgotten'
  <2>1. Effects' = Effects /\ deleted' = deleted
    BY <1>1 DEF vars, Effects, Shown
  <2>2. \A q \in Requests : Undoes(q)' <=> Undoes(q)
    BY <1>1 DEF vars, Undoes, Overlapped
  <2>3. Undone' <=> Undone
    BY <1>1, <2>2 DEF vars, Undone, IInv, Base, Types
  <2>4. \A q \in Requests : ForgottenBy(q) => ForgottenBy(q)'
    BY <1>1 DEF vars, ForgottenBy, Holds, Completing, Touched
  <2> QED BY <1>1, <2>1, <2>2, <2>3, <2>4 DEF IInv, Forgotten
<1>3. IInv /\ [Next]_vars => Base'
  BY BaseStep DEF IInv
<1> QED
  BY <1>1, <1>3, OutcomesFinish, FindNothingForgotten, FindForgotten, GenerateForgotten, PrepareForgotten,
     RunForgotten, MoveForgotten, SaveForgotten, PutForgotten, PatchForgotten, DeleteForgotten
     DEF Next, CarryOut, IInv

\* What the proofs rest on holds whatever the requests do, in either store.
THEOREM Inductive == Spec => []IInv
<1>1. IInv /\ [Next]_vars => IInv'
  BY BaseStep, CopiedStep, KnownStep, ForgottenStep, TracelessStep DEF IInv
<1> QED BY <1>1, InitHolds, PTL DEF Spec

\* However many requests there are and whatever they ask, in either store: a
\* session loses an answered turn or patch only to requests that meant to, or
\* that were under way together with it; and has something of a deleted session
\* again only from a request that was under way together with the delete.
THEOREM LostToOverlapOnly == Spec => []OnlyOverlapsInterfere
<1>1. IInv => OnlyOverlapsInterfere
  <2> SUFFICES ASSUME IInv PROVE OnlyOverlapsInterfere
    OBVIOUS
  <2>1. ASSUME NEW r \in Answered, kind[r] \in Turns \cup {"patch"}, r \notin erased
        PROVE  r \in Effects \/ \E q \in Requests : Overlapped(q, r)
    <3>1. r \in saved
      BY <2>1 DEF IInv, Base, Phased, Answered
    <3> QED BY <2>1, <3>1 DEF IInv, Known, Clean
  <2>2. Effects \cap deleted # {} =>
          \E d \in Requests, q \in saved :
            pc[d] \in Finished /\ kind[d] = "delete" /\ Overlapped(q, d)
    BY DEF IInv, Forgotten, Undone, Undoes
  <2> QED BY <2>1, <2>2 DEF OnlyOverlapsInterfere
<1> QED BY <1>1, Inductive, PTL

\* A request that failed before its save has left nothing in the mongo store.
THEOREM FailureLeavesNoTrace == Spec => []FailedLeavesNoTrace
<1>1. IInv => FailedLeavesNoTrace
  BY DEF IInv, Base, Phased, Finished, Traceless, FailedLeavesNoTrace
<1> QED BY <1>1, Inductive, PTL
=============================================================================
