-------------------------- MODULE RecoveryContract --------------------------
(***************************************************************************)
(* What the recovery engine promises a merchant about every action it      *)
(* authorises, whatever happens to workers, leases, messages and webhooks: *)
(* its provider request takes effect at most once, and its case is         *)
(* credited at most once, with money that was really paid.                 *)
(***************************************************************************)
EXTENDS Naturals

CONSTANTS
    Action,         \* recovery actions
    CaseOf          \* the recovery case of each action

VARIABLES
    effects,        \* effects[a]: requests for a that may have taken effect
    backed,         \* actions whose money has been paid
    credited        \* actions whose money counts as recovered

Init ==
    /\ effects = [a \in Action |-> 0]
    /\ backed = {}
    /\ credited = {}

TakeEffect(a) ==
    /\ effects[a] = 0
    /\ effects' = [effects EXCEPT ![a] = 1]
    /\ UNCHANGED <<backed, credited>>

Pay(a) ==
    /\ backed' = backed \cup {a}
    /\ UNCHANGED <<effects, credited>>

Credit(a) ==
    /\ a \in backed
    /\ \A b \in credited : CaseOf[b] # CaseOf[a]
    /\ credited' = credited \cup {a}
    /\ UNCHANGED <<effects, backed>>

Next == \E a \in Action : TakeEffect(a) \/ Pay(a) \/ Credit(a)

Spec == Init /\ [][Next]_<<effects, backed, credited>>
=============================================================================
