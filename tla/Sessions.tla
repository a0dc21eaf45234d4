------------------------------ MODULE Sessions ------------------------------
(***************************************************************************)
(* One stored session and the requests that work on it: turns of the state *)
(* API and of the streaming API, resets, replacements, deletions and       *)
(* changes of variables.  Nothing orders the requests of one user: each    *)
(* reads the session, works on what it read over many awaits, and writes   *)
(* it back whole.                                                          *)
(*                                                                         *)
(* A session state is reduced to whose turns and whose variables it shows. *)
(* States are objects with an identity: the local store hands out and      *)
(* keeps references, the mongo store copies.                               *)
(***************************************************************************)
EXTENDS Integers

CONSTANTS
  Requests,   \* requests to the session, each made once
  NULL

VARIABLES
  local,      \* the store is session/local.ts, else session/mongo.ts
  stored,     \* object stored for the session, NULL if none
  objects,    \* contents of the state objects requests make
  kind,       \* what a request asks for
  launch,     \* a turn's request is a launch
  pc,         \* where a request is
  held,       \* object a request works on, or NULL
  saved,      \* history: requests whose effect has been stored
  erased,     \* history: those whose effect was replaced on purpose
  deleted,    \* history: those whose effect a delete took away
  met         \* history: pairs of requests under way together

vars == <<local, stored, objects, kind, launch, pc, held, saved, erased, deleted, met>>

Turns == {"interact", "stream"}
Kinds == Turns \cup {"reset", "put", "delete", "patch"}

\* The state objects a request can make: its copy of the stored one, one made
\* without a turn, and the final state of its turn.
Object == Requests \X {"copy", "fresh", "result"}

ASSUME ObjectAssumption == NULL \notin Object

Content == [turns : SUBSET Requests, vars : SUBSET Requests]

Fresh == [turns |-> {}, vars |-> {}]

UnderWay == {"reading", "generating", "ready", "prepared", "running", "saving", "writing"}

\* A request whose write has been made, or may have been: its outcome is
\* unknown when the mongo store rejects the call that writes.
Finished == {"answered", "unknown"}

Outcomes == IF local THEN {"answered"} ELSE Finished

\* What the store shows.
Shown == IF stored = NULL THEN Fresh ELSE objects[stored]

Effects == Shown.turns \cup Shown.vars

Move(r, to) == pc' = [pc EXCEPT ![r] = to]

Write(o, content) == objects' = [objects EXCEPT ![o] = content]

\* The object becomes the stored one, on behalf of r.
Store(r, o) == stored' = o /\ saved' = saved \cup {r}

-----------------------------------------------------------------------------
\* A request comes in.
Arrive(r, k, l) ==
  /\ pc[r] = "idle"
  /\ k \notin Turns => ~l
  /\ kind' = [kind EXCEPT ![r] = k]
  /\ launch' = [launch EXCEPT ![r] = l]
  /\ Move(r, CASE k \in Turns -> "reading"
               [] k = "reset" -> "generating"
               [] k = "patch" /\ local -> "reading"
               [] OTHER -> "writing")
  /\ met' = met \cup {{r, q} : q \in {q \in Requests : pc[q] \in UnderWay}}
  /\ UNCHANGED <<local, stored, objects, held, saved, erased, deleted>>

\* getFromDb finds nothing.  The state API generates and saves a state, the
\* streaming API goes on with a generated one, a local patch with {}.
FindNothing(r) ==
  /\ pc[r] = "reading" /\ stored = NULL
  /\ CASE kind[r] = "interact" -> Move(r, "generating")
       [] kind[r] = "stream" -> Move(r, "ready")
       [] kind[r] = "patch" -> Move(r, "writing")
  /\ held' = [held EXCEPT ![r] = <<r, "fresh">>]
  /\ Write(<<r, "fresh">>, Fresh)
  /\ UNCHANGED <<local, stored, kind, launch, saved, erased, deleted, met>>

\* Faulty variant: the mongo store keeps what it read and hands it out.
FindShared(r) ==
  /\ pc[r] = "reading" /\ stored # NULL
  /\ Move(r, IF kind[r] = "patch" THEN "writing" ELSE "ready")
  /\ held' = [held EXCEPT ![r] = stored]
  /\ UNCHANGED <<local, stored, objects, kind, launch, saved, erased, deleted, met>>

\* getFromDb finds the session: the local store returns the object itself.
Find(r) ==
  /\ pc[r] = "reading" /\ stored # NULL
  /\ Move(r, IF kind[r] = "patch" THEN "writing" ELSE "ready")
  /\ IF local
       THEN held' = [held EXCEPT ![r] = stored] /\ UNCHANGED objects
       ELSE held' = [held EXCEPT ![r] = <<r, "copy">>] /\ Write(<<r, "copy">>, objects[stored])
  /\ UNCHANGED <<local, stored, kind, launch, saved, erased, deleted, met>>

\* StateManagement.reset: a generated state is saved, for a reset or for a
\* turn that found nothing, which goes on with the state it generated.
Generate(r, outcome) ==
  /\ pc[r] = "generating"
  /\ stored' = <<r, "fresh">>
  /\ Write(<<r, "fresh">>, Fresh)
  /\ held' = [held EXCEPT ![r] = IF local THEN <<r, "fresh">> ELSE <<r, "copy">>]
  /\ IF kind[r] = "reset"
       THEN /\ Move(r, outcome)
            /\ erased' = erased \cup saved
       ELSE /\ Move(r, IF outcome = "answered" THEN "ready" ELSE outcome)
            /\ UNCHANGED erased
  /\ UNCHANGED <<local, kind, launch, saved, deleted, met>>

\* The turns a launch puts an end to.
Ended(r) == IF launch[r] THEN {q \in saved : kind[q] # "patch"} ELSE {}

\* The variables of the body are merged into the state, and a launch empties
\* its stack and storage: in place, on the object the store gave out.
Prepare(r, withVars) ==
  /\ pc[r] = "ready"
  /\ Move(r, "prepared")
  /\ LET o == held[r] IN
     Write(o, [turns |-> IF launch[r] THEN {} ELSE objects[o].turns,
               vars  |-> objects[o].vars \cup (IF withVars THEN {r} ELSE {})])
  /\ erased' = IF local THEN erased \cup Ended(r) ELSE erased
  /\ UNCHANGED <<local, stored, kind, launch, held, saved, deleted, met>>

\* The turn takes the state up.
Run(r) ==
  /\ pc[r] = "prepared"
  /\ Move(r, "running")
  /\ LET content == objects[held[r]] IN
     Write(<<r, "result">>, [content EXCEPT !.turns = @ \cup {r}])
  /\ UNCHANGED <<local, stored, kind, launch, held, saved, erased, deleted, met>>

\* Faulty variant: the answer does not wait for the save.
CompleteAnswered(r) ==
  /\ pc[r] = "running"
  /\ Move(r, "answered")
  /\ UNCHANGED <<local, stored, objects, kind, launch, held, saved, erased, deleted, met>>

\* The turn completes.
Complete(r) ==
  /\ pc[r] = "running"
  /\ Move(r, "saving")
  /\ UNCHANGED <<local, stored, objects, kind, launch, held, saved, erased, deleted, met>>

\* The final state is stored and the request answered.
Save(r, outcome) ==
  /\ pc[r] = "saving"
  /\ Move(r, outcome)
  /\ Store(r, <<r, "result">>)
  /\ erased' = erased \cup Ended(r)
  /\ UNCHANGED <<local, objects, kind, launch, held, deleted, met>>

\* A call of the mongo store rejects, and has written nothing.
LoseWrite(r) ==
  /\ pc[r] \in {"generating", "saving", "writing"} /\ ~local
  /\ Move(r, "unknown")
  /\ UNCHANGED <<local, stored, objects, kind, launch, held, saved, erased, deleted, met>>

\* A call before the save rejects: the request is answered with an error.
Fail(r) ==
  /\ pc[r] \in {"reading", "generating", "prepared", "running"}
  /\ Move(r, "failed")
  /\ UNCHANGED <<local, stored, objects, kind, launch, held, saved, erased, deleted, met>>

\* The state is replaced by the one in the body.
Put(r, outcome) ==
  /\ pc[r] = "writing" /\ kind[r] = "put"
  /\ Move(r, outcome)
  /\ Write(<<r, "fresh">>, [turns |-> {r}, vars |-> {r}])
  /\ Store(r, <<r, "fresh">>)
  /\ erased' = erased \cup saved
  /\ UNCHANGED <<local, kind, launch, held, deleted, met>>

\* The session is deleted.
Delete(r, outcome) ==
  /\ pc[r] = "writing" /\ kind[r] = "delete"
  /\ Move(r, outcome)
  /\ stored' = NULL
  /\ erased' = erased \cup saved
  /\ deleted' = saved
  /\ UNCHANGED <<local, objects, kind, launch, held, saved, met>>

\* updateVariables: mongo sets the fields of the stored document, and makes it
\* if there is none; local saves what it read with the variables merged.
Patch(r, outcome) ==
  /\ pc[r] = "writing" /\ kind[r] = "patch"
  /\ Move(r, outcome)
  /\ LET content == IF local THEN objects[held[r]] ELSE Shown IN
     Write(<<r, "result">>, [content EXCEPT !.vars = @ \cup {r}])
  /\ Store(r, <<r, "result">>)
  /\ UNCHANGED <<local, kind, launch, held, erased, deleted, met>>

Init ==
  /\ local \in BOOLEAN
  /\ stored = NULL
  /\ objects = [o \in Object |-> Fresh]
  /\ kind = [r \in Requests |-> "interact"]
  /\ launch = [r \in Requests |-> FALSE]
  /\ pc = [r \in Requests |-> "idle"]
  /\ held = [r \in Requests |-> NULL]
  /\ saved = {} /\ erased = {} /\ deleted = {} /\ met = {}

\* A call that writes, which is carried out.
CarryOut(r, outcome) ==
  \/ Generate(r, outcome)
  \/ Save(r, outcome)
  \/ Put(r, outcome)
  \/ Delete(r, outcome)
  \/ Patch(r, outcome)

Next ==
  \E r \in Requests :
    \/ \E k \in Kinds, l \in BOOLEAN : Arrive(r, k, l)
    \/ FindNothing(r)
    \/ Find(r)
    \/ \E withVars \in BOOLEAN : Prepare(r, withVars)
    \/ Run(r)
    \/ Complete(r)
    \/ \E outcome \in Outcomes : CarryOut(r, outcome)
    \/ LoseWrite(r)
    \/ Fail(r)

Spec == Init /\ [][Next]_vars
-----------------------------------------------------------------------------
Answered == {r \in Requests : pc[r] = "answered"}

Overlapped(q, r) == q # r /\ {q, r} \in met

\* A turn or a change of variables that was answered shows in the session,
\* unless it was replaced on purpose or another request was under way together
\* with it, whose write of the whole state knows nothing of it.  And "delete all
\* state and session data for user" (backend/docs/openapi.yaml:1001) is undone
\* only by a request that was under way together with the delete.
OnlyOverlapsInterfere ==
  /\ \A r \in Answered :
       kind[r] \in Turns \cup {"patch"} /\ r \notin erased =>
         r \in Effects \/ \E q \in Requests : Overlapped(q, r)
  /\ Effects \cap deleted # {} =>
       \E d \in Requests, q \in saved :
         pc[d] \in Finished /\ kind[d] = "delete" /\ Overlapped(q, d)

\* A request that failed before its save left nothing in the session (which
\* the local store, whose objects turns change in place, does not ensure).
FailedLeavesNoTrace == ~local => \A r \in Requests : pc[r] = "failed" => r \notin Effects
=============================================================================
