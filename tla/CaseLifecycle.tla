--------------------------- MODULE CaseLifecycle ---------------------------
(***************************************************************************)
(* The recovery case state machine of revenueguard_domain/cases.py: the    *)
(* states, the frozen table of allowed transitions and the check that      *)
(* transition_case makes before every one of them.  The modules that move  *)
(* cases (ActionExecution, ...) EXTEND this one.                           *)
(***************************************************************************)
EXTENDS Naturals, Sequences

\* "ABSENT" stands for a case row that has not been created yet.
CaseState == {"ABSENT", "DETECTED", "DIAGNOSING", "DECISION_PENDING", "POLICY_CHECK",
              "READY", "EXECUTING", "VERIFYING", "UNKNOWN", "DEFERRED", "ESCALATED",
              "RECOVERED", "STOPPED"}

TerminalState == {"RECOVERED", "STOPPED"}

\* create_case inserts a row in DETECTED; the rest is ALLOWED_TRANSITIONS.
AllowedTransitions ==
    [s \in CaseState |->
        CASE s = "ABSENT"           -> {"DETECTED"}
          [] s = "DETECTED"         -> {"DIAGNOSING"}
          [] s = "DIAGNOSING"       -> {"DECISION_PENDING"}
          [] s = "DECISION_PENDING" -> {"POLICY_CHECK"}
          [] s = "POLICY_CHECK"     -> {"READY", "DEFERRED", "DECISION_PENDING",
                                        "ESCALATED", "STOPPED"}
          [] s = "READY"            -> {"EXECUTING"}
          [] s = "EXECUTING"        -> {"VERIFYING", "UNKNOWN"}
          [] s = "VERIFYING"        -> {"RECOVERED", "DECISION_PENDING", "UNKNOWN", "STOPPED"}
          [] s = "UNKNOWN"          -> {"VERIFYING", "ESCALATED"}
          [] s = "DEFERRED"         -> {"DECISION_PENDING"}
          [] s = "ESCALATED"        -> {"DECISION_PENDING", "STOPPED"}
          [] s \in TerminalState    -> {}]

(***************************************************************************)
(* A handler often makes several transitions in one transaction: `path' is *)
(* the list of states it moves a case through.  A step the table does not  *)
(* allow raises CaseTransitionError and rolls the transaction back, so the *)
(* handler has an effect only if every step is allowed.                    *)
(***************************************************************************)
CanTransition(s, t) == t \in AllowedTransitions[s]

CanFollow(s, path) ==
    \A i \in DOMAIN path : CanTransition(IF i = 1 THEN s ELSE path[i - 1], path[i])

StateAfter(s, path) == IF path = <<>> THEN s ELSE path[Len(path)]
=============================================================================
