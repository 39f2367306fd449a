----------------------------- MODULE MCBuildOrder -----------------------------
(* Small instances of BuildOrder for TLC.                                  *)
EXTENDS BuildOrder

Ticket(key, blockers) == [key |-> key, blockedBy |-> blockers]

(* Three tickets: `a` waits for `b`, declared after it; `c` joins both,    *)
(* and names a key the plan lacks.                                         *)
Join == <<Ticket("a", {"b"}), Ticket("b", {}), Ticket("c", {"a", "b", "x"})>>

(* Two tickets with one key, the second meant to wait for the first: the   *)
(* key stands for the second, which waits for itself.                      *)
Twins == <<Ticket("b", {}), Ticket("b", {"b"})>>

MCKeys  == {"a", "b", "c", "x"}
MCPlans == {Join, Twins}
===============================================================================
