--------------------------- MODULE MCEntityFilling ---------------------------
(***************************************************************************)
(* A project for TLC: a start node, a menu that takes orders and refunds,  *)
(* a capture that fills an order, one that fills a refund and leads to a   *)
(* custom action that takes another one or ends, and a help command.  An   *)
(* order needs a size and a kind, a refund a kind and a note, which has no *)
(* prompt, help a kind.                                                    *)
(***************************************************************************)
EXTENDS EntityFilling

CONSTANTS start, menu, desk, ask, other, size, kind, note

MCIntents == {"order", "refund", "help"}
MCEntities == {size, kind, note}

MCSlots ==
  [i \in MCIntents |-> CASE i = "order" -> {size, kind}
                         [] i = "refund" -> {kind, note}
                         [] i = "help" -> {kind}]

MCRequired ==
  [i \in MCIntents |-> CASE i = "order" -> {size, kind}
                         [] i = "refund" -> {kind, note}
                         [] i = "help" -> {kind}]

MCNodes == {start, menu, desk, ask, other}

MCCaptures ==
  [n \in MCNodes |-> CASE n = ask -> "order" [] n = other -> "refund" [] OTHER -> NULL]

MCPaths == [n \in MCNodes |-> IF n = menu THEN {"order", "refund"} ELSE {}]
MCCustoms == [n \in MCNodes |-> IF n = desk THEN {"refund"} ELSE {}]
MCNext == [n \in MCNodes |-> IF n = other THEN desk ELSE menu]
MCElse ==
  [n \in MCNodes |-> CASE n = ask -> other [] n = desk -> NULL [] OTHER -> menu]
MCPathNode == [i \in MCIntents |-> IF i = "help" THEN menu ELSE ask]
=============================================================================
