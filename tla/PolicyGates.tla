---------------------------- MODULE PolicyGates ----------------------------
(***************************************************************************)
(* The deterministic policy engine of revenueguard_domain/policy.py as a   *)
(* pure function: a merchant policy p and an evaluation input e give a     *)
(* decision.  evaluate_policy decides twice for every action: when a case  *)
(* is evaluated, and again just before the provider is called.             *)
(*                                                                         *)
(* Times are positive integers, and quiet hours are hours of a local day.  *)
(***************************************************************************)
EXTENDS Integers, Sequences, FiniteSetsExt

CONSTANT
    Day             \* length of a local day

ASSUME DayAssumption == Day \in Nat \ {0}

NoTime == 0

ActionClasses ==
    [DEFER_RETRY                   |-> "RETRY",
     CREATE_PAYMENT_LINK           |-> "MONEY_INTENT",
     REQUEST_PAYMENT_METHOD_UPDATE |-> "CUSTOMER_CONTACT",
     SEND_REMINDER                 |-> "CUSTOMER_CONTACT",
     SCHEDULE_PROMISE_REMINDER     |-> "CUSTOMER_CONTACT",
     PAUSE_RETRIES                 |-> "INTERNAL",
     RESUME_DEFERRED_CASE          |-> "INTERNAL",
     ESCALATE_HUMAN                |-> "ESCALATION",
     STOP_AUTOMATION               |-> "STOP",
     NO_ACTION                     |-> "NO_ACTION"]

ActionType         == DOMAIN ActionClasses
AlwaysAllowed      == {"ESCALATION", "STOP", "NO_ACTION"}
ExpectedValueExempt == {"INTERNAL", "ESCALATION", "STOP", "NO_ACTION"}
\* The classes that charge, ask for money or contact a customer.
Effectful          == {"RETRY", "MONEY_INTENT", "CUSTOMER_CONTACT"}

Channel     == {"EMAIL", "SMS", "WHATSAPP"}
NoChannel   == "NONE"
SystemicScope == {"PAYMENT_RAIL", "GATEWAY", "ISSUER"}
IncidentScope == SystemicScope \cup {"CONTACT_CHANNEL", "ALL_AUTOMATION"}

ClassOf(c)    == ActionClasses[c.type]
Contacts(c)   == ClassOf(c) = "CUSTOMER_CONTACT"

StateFor ==
    [PROCEED |-> "READY", DEFER |-> "DEFERRED", SKIP |-> "DECISION_PENDING",
     STOP |-> "STOPPED", REQUIRE_HUMAN |-> "ESCALATED"]

(***************************************************************************)
(* An incident suspends the actions of the classes its scope reaches, from *)
(* its start until just before its end.                                    *)
(***************************************************************************)
Reaches(i, c) ==
    \/ i.scope = "ALL_AUTOMATION"
    \/ i.scope \in SystemicScope /\ ClassOf(c) \in {"RETRY", "MONEY_INTENT"}
    \/ i.scope = "CONTACT_CHANNEL" /\ Contacts(c) /\ c.channel = i.channel

Suspends(i, c, t) ==
    /\ i.starts <= t /\ t < i.ends
    /\ ClassOf(c) \notin AlwaysAllowed
    /\ Reaches(i, c)

Suspending(e, c) == {i \in e.incidents : Suspends(i, c, e.at)}

EarliestEnd(incidents) ==
    IF incidents = {} THEN NoTime ELSE Min({i.ends : i \in incidents})

(***************************************************************************)
(* A human approval authorises one fingerprint under one policy, and for a *)
(* limited time.                                                           *)
(***************************************************************************)
Fingerprint(p, e, c) ==
    [case |-> e.case, type |-> c.type, target |-> c.target, amount |-> e.amount,
     policy |-> p.version]

\* Slip: an approval does not run out.
ApprovedForever(p, e, c) ==
    /\ e.approval.status = "APPROVED"
    /\ e.approval.fingerprint = Fingerprint(p, e, c)

Approved(p, e, c) ==
    /\ e.approval.status = "APPROVED"
    /\ e.approval.fingerprint = Fingerprint(p, e, c)
    /\ e.at < e.approval.expires

NeedsReview(p, e, c) ==
    /\ ClassOf(c) \notin ExpectedValueExempt
    /\ e.amount >= p.reviewAmount \/ e.confidence < p.minConfidence

(***************************************************************************)
(* Quiet hours may cross midnight; equal boundaries mean there are none.   *)
(***************************************************************************)
LocalTime(p, t) == (t + p.zone) % Day

InQuietHours(p, t) ==
    LET local == LocalTime(p, t)
    IN  IF p.quietStart <= p.quietEnd
        THEN p.quietStart <= local /\ local < p.quietEnd
        ELSE p.quietStart <= local \/ local < p.quietEnd

QuietHoursEnd(p, t) ==
    LET ahead == p.quietEnd - LocalTime(p, t)
    IN  t + (IF ahead > 0 THEN ahead ELSE ahead + Day)

\* Slip: the delay of the diagnosis counts although it is over.
LowConfidenceWakeStale(p, e) == IF e.deferUntil # NoTime THEN e.deferUntil ELSE e.at + p.defer

LowConfidenceWake(p, e) == IF e.deferUntil > e.at THEN e.deferUntil ELSE e.at + p.defer

-----------------------------------------------------------------------------
(***************************************************************************)
(* _evaluate_candidate: the first gate that holds answers.                 *)
(***************************************************************************)
Gate(when, result, reason, wake) ==
    [when |-> when, result |-> result, reason |-> reason, wake |-> wake]

Gates(p, e, c) ==
    LET class == ClassOf(c)
        later == e.at + p.defer
        acts  == class \in Effectful
    IN  << Gate(c.type \notin p.allowed /\ class \notin AlwaysAllowed,
                "SKIP", "ACTION_NOT_ALLOWED", NoTime),
           Gate(c.type = "ESCALATE_HUMAN",
                "REQUIRE_HUMAN", "AGENT_ESCALATION_REQUESTED", NoTime),
           Gate(class = "RETRY" /\ e.retryCount >= p.retryLimit,
                "SKIP", "RETRY_LIMIT_REACHED", NoTime),
           Gate(Contacts(c) /\ ~e.identified,
                "SKIP", "CUSTOMER_IDENTITY_UNRESOLVED", NoTime),
           Gate(Contacts(c) /\ e.contactInProgress,
                "DEFER", "CUSTOMER_CONTACT_ALREADY_IN_PROGRESS", later),
           Gate(Contacts(c) /\ e.contactCount >= p.contactLimit,
                "SKIP", "CONTACT_LIMIT_REACHED", NoTime),
           Gate(Contacts(c) /\ c.channel \in e.optedOut,
                "SKIP", "CHANNEL_OPTED_OUT", NoTime),
           Gate(Contacts(c) /\ c.channel \notin e.consented,
                "SKIP", "CHANNEL_CONSENT_NOT_GRANTED", NoTime),
           Gate(acts /\ e.unknownEquivalent,
                "DEFER", "EQUIVALENT_ACTION_OUTCOME_UNKNOWN", later),
           Gate(acts /\ e.promiseDue # NoTime /\ c.type # "SCHEDULE_PROMISE_REMINDER",
                "DEFER", "ACTIVE_PROMISE_TO_PAY", e.promiseDue),
           Gate(Suspending(e, c) # {},
                "DEFER", "ACTIVE_INCIDENT", EarliestEnd(Suspending(e, c))),
           Gate(c.type = "DEFER_RETRY" /\ e.confidence < p.minConfidence /\ ~Approved(p, e, c),
                "DEFER", "LOW_CONFIDENCE_RETRY_DEFERRED", LowConfidenceWake(p, e)),
           Gate(e.deferUntil > e.at,
                "DEFER", "DIAGNOSIS_DELAY", e.deferUntil),
           Gate(Contacts(c) /\ InQuietHours(p, e.at),
                "DEFER", "QUIET_HOURS", QuietHoursEnd(p, e.at)),
           Gate(class \notin ExpectedValueExempt /\ c.net < p.minNet,
                "SKIP", "EXPECTED_VALUE_BELOW_MINIMUM", NoTime),
           Gate(NeedsReview(p, e, c) /\ ~Approved(p, e, c),
                "REQUIRE_HUMAN", "HUMAN_REVIEW_REQUIRED", NoTime),
           Gate(TRUE, "PROCEED", "POLICY_AUTHORIZED", NoTime) >>

First(gates) ==
    CHOOSE i \in DOMAIN gates : gates[i].when /\ \A j \in 1..(i - 1) : ~gates[j].when

Verdict(p, e, c) == Gates(p, e, c)[First(Gates(p, e, c))]

(***************************************************************************)
(* evaluate_policy: what stops a case stops it before any candidate is     *)
(* looked at; then the candidates answer in the order of their rank, and   *)
(* NO_ACTION, always the last one, is reached when all the others skip.    *)
(***************************************************************************)
GlobalStops(p, e) ==
    << Gate(p.currency # e.currency, "STOP", "POLICY_CURRENCY_MISMATCH", NoTime),
       Gate(e.terminal,  "STOP", "CASE_ALREADY_TERMINAL", NoTime),
       Gate(e.paid,      "STOP", "ALREADY_PAID", NoTime),
       Gate(e.disputed,  "STOP", "PAYMENT_DISPUTED", NoTime),
       Gate(e.cancelled, "STOP", "SUBJECT_CANCELLED", NoTime) >>

Stops(p, e) == \E i \in DOMAIN GlobalStops(p, e) : GlobalStops(p, e)[i].when

Decision(candidate, verdict) ==
    [type |-> candidate.type, target |-> candidate.target, net |-> candidate.net,
     result |-> verdict.result, reason |-> verdict.reason, wake |-> verdict.wake]

StopCandidate(e) == [type |-> "STOP_AUTOMATION", target |-> e.case, net |-> 0]

Answers(p, e, i) ==
    \/ e.candidates[i].type = "NO_ACTION"
    \/ Verdict(p, e, e.candidates[i]).result # "SKIP"

Selected(p, e) ==
    CHOOSE i \in DOMAIN e.candidates :
        Answers(p, e, i) /\ \A j \in 1..(i - 1) : ~Answers(p, e, j)

Evaluate(p, e) ==
    IF Stops(p, e)
    THEN Decision(StopCandidate(e), GlobalStops(p, e)[First(GlobalStops(p, e))])
    ELSE LET c == e.candidates[Selected(p, e)]
         IN  IF c.type = "NO_ACTION"
             THEN Decision(c, Gate(TRUE, "SKIP", "NO_ELIGIBLE_ACTION", NoTime))
             ELSE Decision(c, Verdict(p, e, c))
=============================================================================
