------------------------- MODULE MCActionExecution -------------------------
(* Small instances of ActionExecution for TLC. *)
EXTENDS ActionExecution

CONSTANTS c1, pay, nudge, w1, w2, r1, e1

OneCase == [a \in Action |-> c1]
PayOnly == [a \in Action |-> "MONEY_INTENT"]
PayAndNudge == [a \in Action |-> IF a = pay THEN "MONEY_INTENT" ELSE "RETRY"]
LimitOne == [k \in CountedClass |-> 1]
=============================================================================
