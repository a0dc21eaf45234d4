----------------------------- MODULE MCPrompting -----------------------------
(***************************************************************************)
(* A project for TLC: a menu with two prompts and a path, a question that  *)
(* captures an entity and falls back to the global message, a capture, a   *)
(* carousel, and a help flow, entered by a command, that prompts at random *)
(* and leaves by exit.                                                     *)
(*   menu -order-> ask -> note -> cards -> (end of frame)                  *)
(*   help -yes-> bye (exit),  help -no-> (end of the help frame)           *)
(***************************************************************************)
EXTENDS Prompting

CONSTANTS menu, ask, note, cards, hint, help, bye

MCNodes == {menu, ask, note, cards, hint, help, bye}
MCIntents == {"order", "yes", "help", "repeat"}
MCRepeat == "repeat"

NoPaths == [e \in MCIntents |-> UNDEF]

Plain ==
  [kind |-> "speak", next |-> NULL, paths |-> NoPaths, intent |-> NULL,
   entire |-> FALSE, local |-> FALSE, noMatches |-> 0, noMatchTo |-> NULL,
   randomize |-> FALSE, noReplies |-> 0, noReplyTo |-> NULL, timeout |-> FALSE]

MCNode ==
  [n \in MCNodes |->
     CASE n = menu -> [Plain EXCEPT !.kind = "interaction",
            !.paths = [NoPaths EXCEPT !["order"] = ask], !.noMatches = 2,
            !.noMatchTo = hint, !.noReplies = 2, !.noReplyTo = hint, !.timeout = TRUE]
       [] n = ask -> [Plain EXCEPT !.kind = "captureV2", !.intent = "yes",
            !.next = note, !.noMatches = 2, !.noReplies = 1, !.timeout = TRUE]
       [] n = note -> [Plain EXCEPT !.kind = "capture", !.next = cards]
       [] n = cards -> [Plain EXCEPT !.kind = "blockingCard", !.noMatches = 1,
            !.noMatchTo = menu, !.noReplies = 1, !.noReplyTo = cards]
       [] n = hint -> [Plain EXCEPT !.kind = "card", !.next = menu]
       [] n = help -> [Plain EXCEPT !.kind = "interaction", !.local = TRUE,
            !.paths = [NoPaths EXCEPT !["yes"] = bye, !["order"] = NULL],
            !.noMatches = 2, !.randomize = TRUE, !.noReplies = 1]
       [] n = bye -> [Plain EXCEPT !.kind = "exit"]]

MCCommand == [e \in MCIntents |-> IF e = "help" THEN help ELSE NULL]
MCStart == hint

MCSettings ==
  {[noMatch |-> "prompt", noReply |-> FALSE, generative |-> TRUE, repeat |-> TRUE],
   [noMatch |-> "empty", noReply |-> TRUE, generative |-> FALSE, repeat |-> FALSE],
   [noMatch |-> "empty", noReply |-> FALSE, generative |-> TRUE, repeat |-> TRUE]}
=============================================================================
