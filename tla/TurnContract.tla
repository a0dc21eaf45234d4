---------------------------- MODULE TurnContract ----------------------------
(***************************************************************************)
(* What the rest of the service relies on when it hands a session to the   *)
(* runtime: the life of the Action of a runtime, and what may become of    *)
(* the stack, seen as the diagrams that are open, at each point of it.     *)
(*                                                                         *)
(*   - a request is pending until one node has been given it; until then   *)
(*     flows can only finish, none is entered;                             *)
(*   - one step enters at most one flow;                                   *)
(*   - after END the session is what the reply carries;                    *)
(*   - unless the turn hangs before, there is a reply.                     *)
(***************************************************************************)
EXTENDS Integers, Sequences, SequencesExt

VARIABLES
  phase,   \* Action of the runtime; IDLE when there is none, HUNG for ever
  session  \* diagram ids of the stack, bottom first

vars == <<phase, session>>

\* The state manager restores, resets or creates the stack, which may become any.
Prepare == phase = "IDLE" /\ phase' = "IDLE"

\* update(): with or without a request.
Accept ==
  /\ phase = "IDLE"
  /\ phase' \in {"REQUEST", "RUNNING"}
  /\ Len(session') \in Len(session)..(Len(session) + 1)

\* The request is not consumed yet: frames with nothing to run are dropped.
Walk == phase = "REQUEST" /\ phase' = "REQUEST" /\ IsPrefix(session', session)

\* A node is handled, a frame is left, the turn is ended.
Run ==
  /\ phase \in {"REQUEST", "RUNNING"}
  /\ phase' \in {"RUNNING", "END"}
  /\ Len(session') <= Len(session) + 1

\* The session is read out; nothing of it is changed any more.
Reply == phase \notin {"IDLE", "HUNG"} /\ phase' = "IDLE" /\ session' = session

\* What a turn awaits before its end never settles.
Hang == phase \notin {"END", "HUNG"} /\ phase' = "HUNG" /\ session' = session

Init == phase = "IDLE" /\ session = << >>

Next == Prepare \/ Accept \/ Walk \/ Run \/ Reply \/ Hang

Spec == Init /\ [][Next]_vars /\ WF_vars(Reply)

=============================================================================
