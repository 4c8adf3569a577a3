----------------------- MODULE RecoveryDecisionProofs -----------------------
(***************************************************************************)
(* Theorems about RecoveryDecision, for every set of events, customers,    *)
(* policies and incidents and every value of the bounds.                   *)
(*                                                                         *)
(* Calls: what is true of every action at the moment its provider is       *)
(* called, whatever happened since it was authorised.                      *)
(*                                                                         *)
(* Contacts: one contact of a customer at a time, over all cases of the    *)
(* customer.  An authorised contact has an ACTIVE intervention, a customer *)
(* has at most one of those, and a contact is authorised only when there   *)
(* is none.                                                                *)
(*                                                                         *)
(* Incidents: whoever sets the active_incident_id of a case also leaves    *)
(* the link by which a resolution of the incident finds the case.          *)
(*                                                                         *)
(* Wake times: a DEFERRED case has one, and whatever defers it names a     *)
(* later moment; the types of all tables.                                  *)
(*                                                                         *)
(* The contact ceiling: the contacts of a customer, summed over all cases. *)
(* A contact is counted by the step that checks the sum before it.         *)
(*                                                                         *)
(* Repeated events: a decision takes evidence only from an event that was  *)
(* not linked before, so no event is acted on for two cases.               *)
(***************************************************************************)
EXTENDS RecoveryDecision, PolicyGatesProofs

-----------------------------------------------------------------------------
(* The inductive invariant. *)

\* The outbox has a row for each key, and a running incident has begun.
Begun ==
    /\ now \in Nat
    /\ action = [a \in ActionKey |-> action[a]]
    /\ incident = [i \in Incident |-> incident[i]]
    /\ \A i \in Incident :
          Running(incident, i) => incident[i].starts \in Nat /\ incident[i].starts <= now

\* No incident runs at first.
LEMMA BegunInit == Init => Begun
BY DEF Init, Begun, Running, NoRow

\* Degrade starts an incident now, or leaves its start alone.
LEMMA DegradeBegun ==
    ASSUME Begun, NEW degraded, incident' = Degrade(degraded), UNCHANGED now
    PROVE  /\ incident' = [i \in Incident |-> incident'[i]]
           /\ \A i \in Incident :
                 Running(incident', i) => incident'[i].starts \in Nat /\ incident'[i].starts <= now
<1>. DEFINE r(i) == IF i \notin degraded THEN incident[i]
                    ELSE [status |-> "ACTIVE", ends |-> now + IncidentTtl,
                          starts |-> IF Running(incident, i) THEN incident[i].starts ELSE now]
<1>1. incident' = [i \in Incident |-> r(i)]
  BY DEF Degrade
<1>2. \A i \in Incident : i \in degraded => r(i).starts \in Nat /\ r(i).starts <= now
  BY DEF Begun
<1>3. \A i \in Incident : i \notin degraded => r(i) = incident[i]
  OBVIOUS
<1>. QED  BY <1>1, <1>2, <1>3 DEF Begun, Running

\* A decision leaves the outbox a function over its keys.
LEMMA EvaluateKeepsKeys ==
    ASSUME Begun, NEW k, NEW rows, NEW e, NEW approval, NEW facts, NEW inc, NEW lks,
           EvaluateCase(k, rows, e, approval, facts, inc, lks)
    PROVE  /\ action' = [a \in ActionKey |-> action'[a]]
           /\ \A a \in ActionKey : action'[a].status # action[a].status
                                   => action'[a].status = "PENDING"
<1>1. PICK a, d : action' = Stored(a, d, approval) \/ action' = action
  BY DEF EvaluateCase, RecordDecision
<1>. QED  BY <1>1 DEF Begun, Stored

\* Every step but the begin of an attempt keeps the keys of the outbox and makes
\* no call.
LEMMA OnlyBeginCalls ==
    ASSUME Begun, [Next]_vars,
           NEW a \in ActionKey, action'[a].status = "CALLING", action[a].status # "CALLING"
    PROVE  BeginAttempt(a)
<1>1. CASE UNCHANGED vars \/ Tick
  BY <1>1 DEF vars, Tick
<1>2. CASE ReevaluateDeferred
  <2>1. PICK k \in Episode : EvaluateCase(k, case, case[k].evidence, NoApproval, truth, incident, links)
    BY <1>2 DEF ReevaluateDeferred
  <2>. QED  BY <2>1, EvaluateKeepsKeys
<1>3. ASSUME NEW e \in Event, ProcessWebhook(e)
      PROVE  FALSE
  <2>1. CASE LinkEvidence(e)
    BY <2>1 DEF LinkEvidence
  <2>2. CASE OpenCase(e)
    <3>1. PICK degraded \in SUBSET Related(e) :
             EvaluateCase(Fact[e].episode,
                 [Marked(degraded) EXCEPT ![Fact[e].episode] = NewCase(e)], e, NoApproval, truth',
                 incident', links \cup LinkedBy(degraded))
      BY <2>2 DEF OpenCase
    <3>. QED  BY <3>1, EvaluateKeepsKeys
  <2>3. CASE ApplyEvidence(e)
    <3>1. PICK degraded \in SUBSET Related(e), k \in CasesFor(e) :
             EvaluateCase(k, Marked(degraded), e, NoApproval, truth', incident',
                          links \cup LinkedBy(degraded))
      BY <2>3 DEF ApplyEvidence
    <3>. QED  BY <3>1, EvaluateKeepsKeys
  <2>. QED  BY <1>3, <2>1, <2>2, <2>3 DEF ProcessWebhook
<1>4. ASSUME NEW k \in Episode, ApproveReview(k) \/ CloseReview(k)
      PROVE  FALSE
  BY <1>4, EvaluateKeepsKeys DEF ApproveReview, CloseReview
<1>5. ASSUME NEW b \in ActionKey, Execute(b)
      PROVE  BeginAttempt(a)
  <2>1. CASE CancelBeforeExecution(b)
    BY <2>1 DEF CancelBeforeExecution, Begun
  <2>2. CASE BeginAttempt(b)
    BY <2>2 DEF BeginAttempt, Begun
  <2>3. ASSUME NEW status \in {"PENDING", "SUCCEEDED", "UNKNOWN", "FAILED"}, NEW state,
               Settles(b, status, state)
        PROVE  FALSE
    BY <2>3 DEF Settles, Begun
  <2>4. CASE RecordExecutionResult(b)
    BY <2>3, <2>4 DEF RecordExecutionResult
  <2>5. CASE RecordLookup(b)
    BY <2>3, <2>5 DEF RecordLookup
  <2>. QED  BY <1>5, <2>1, <2>2, <2>4, <2>5 DEF Execute
<1>6. ASSUME \/ EndResolve
             \/ \E e \in Event : RepeatWebhook(e)
             \/ \E b \in ActionKey : CloseIntervention(b)
             \/ \E i \in Incident : BeginResolve(i)
             \/ \E p \in Policy : PublishPolicy(p)
             \/ \E customer \in Customer : OptOut(customer)
      PROVE  FALSE
  BY <1>6 DEF EndResolve, RepeatWebhook, CloseIntervention, BeginResolve, PublishPolicy, OptOut
<1>. QED  BY <1>1, <1>2, <1>3, <1>4, <1>5, <1>6 DEF Next

\* Steps that leave the incidents alone, and do not turn the clock back.
LEMMA SameIncidents ==
    ASSUME Begun, UNCHANGED incident, now' \in Nat, now' >= now,
           action' = [a \in ActionKey |-> action'[a]]
    PROVE  Begun'
BY DEF Begun, Running

\* Only a degradation starts an incident, and it starts it now.
LEMMA BegunStep == Begun /\ [Next]_vars => Begun'
<1>. SUFFICES ASSUME Begun, [Next]_vars  PROVE Begun'
  OBVIOUS
<1>0. now \in Nat /\ now >= now /\ action = [a \in ActionKey |-> action[a]]
  BY DEF Begun
<1>. DEFINE Rows(A) == A = [a \in ActionKey |-> A[a]]
<1>1. CASE UNCHANGED vars
  BY <1>0, <1>1, SameIncidents DEF vars
<1>2. CASE Tick
  BY <1>0, <1>2, SameIncidents DEF Tick
<1>3. CASE ReevaluateDeferred
  <2>1. PICK k \in Episode : EvaluateCase(k, case, case[k].evidence, NoApproval, truth, incident, links)
    BY <1>3 DEF ReevaluateDeferred
  <2>2. Rows(action')
    BY <2>1, EvaluateKeepsKeys
  <2>. QED  BY <1>0, <1>3, <2>2, SameIncidents DEF ReevaluateDeferred
<1>4. ASSUME NEW e \in Event, ProcessWebhook(e)
      PROVE  Begun'
  <2>1. PICK degraded \in SUBSET Related(e) : Prepared(e, degraded) /\ Rows(action')
    <3>1. CASE LinkEvidence(e)
      BY <1>0, <3>1 DEF LinkEvidence
    <3>2. CASE OpenCase(e)
      BY <3>2, EvaluateKeepsKeys DEF OpenCase
    <3>3. CASE ApplyEvidence(e)
      BY <3>3, EvaluateKeepsKeys DEF ApplyEvidence
    <3>. QED  BY <1>4, <3>1, <3>2, <3>3 DEF ProcessWebhook
  <2>2. incident' = Degrade(degraded) /\ UNCHANGED now
    BY <2>1 DEF Prepared
  <2>. QED  BY <1>0, <2>1, <2>2, DegradeBegun DEF Begun
<1>5. ASSUME NEW k \in Episode, ApproveReview(k) \/ CloseReview(k)
      PROVE  Begun'
  <2>1. Rows(action') /\ UNCHANGED <<now, incident>>
    BY <1>0, <1>5, EvaluateKeepsKeys DEF ApproveReview, CloseReview
  <2>. QED  BY <1>0, <2>1, SameIncidents
<1>6. ASSUME NEW b \in ActionKey, Execute(b) \/ CloseIntervention(b)
      PROVE  Begun'
  <2>1. Rows(action') /\ UNCHANGED <<now, incident>>
    BY <1>0, <1>6 DEF Execute, CloseIntervention, CancelBeforeExecution, BeginAttempt,
                      RecordExecutionResult, RecordLookup, Settles
  <2>. QED  BY <1>0, <2>1, SameIncidents
<1>7. CASE EndResolve
  <2>1. /\ incident' = [incident EXCEPT ![resolving.incident].status = "RESOLVED"]
        /\ UNCHANGED <<now, action>>
    BY <1>7 DEF EndResolve
  <2>2. incident' = [j \in Incident |-> incident'[j]]
    BY <2>1 DEF Begun
  <2>3. \A j \in Incident : Running(incident', j) => incident'[j] = incident[j]
    BY <2>1, <2>2 DEF Begun, Running
  <2>. QED  BY <2>1, <2>2, <2>3 DEF Begun, Running
<1>8. ASSUME \/ \E e \in Event : RepeatWebhook(e)
             \/ \E i \in Incident : BeginResolve(i)
             \/ \E p \in Policy : PublishPolicy(p)
             \/ \E customer \in Customer : OptOut(customer)
      PROVE  Begun'
  BY <1>0, <1>8, SameIncidents DEF RepeatWebhook, BeginResolve, PublishPolicy, OptOut
<1>. QED  BY <1>1, <1>2, <1>3, <1>4, <1>5, <1>6, <1>7, <1>8 DEF Next

\* _active_incident_constraints: a running incident has begun, so the gate that compares
\* the moment of a decision with its start lets no work through.
THEOREM BegunAlways == Spec => []Begun
BY BegunInit, BegunStep, PTL DEF Spec

-----------------------------------------------------------------------------
(* What the execution check has seen when an attempt begins. *)

\* The input of the check has the action as its only candidate, and the facts of
\* the rows of the moment.
LEMMA CheckedFacts ==
    ASSUME NEW a
    PROVE  LET e == RecheckInput(a)
               k == a.case
           IN  /\ e.candidates = <<CandidateOf(a.type, a.target, action[a].net),
                                   CandidateOf("NO_ACTION", a.target, 0)>>
               /\ e.approval = action[a].approval
               /\ e.at = now /\ e.amount = case[k].amount
               /\ e.paid = (truth[case[k].subject].status \in PaidStatuses)
               /\ e.cancelled = (truth[case[k].subject].status \in CancelledStatuses)
               /\ e.disputed = (truth[case[k].subject].status = "DISPUTED")
               /\ e.optedOut = IF case[k].customer \in optedOut THEN {"EMAIL"} ELSE {}
               /\ e.incidents = {Constraint(incident, i) :
                                    i \in Applicable(incident, links, k, case[k].diagnosis)}
BY DEF RecheckInput, CaseFacts

\* The checked candidate is the action itself, on the facts of the moment.
LEMMA BeginChecks ==
    ASSUME NEW a, BeginAttempt(a)
    PROVE  LET p == EffectivePolicy
               e == RecheckInput(a)
               c == CandidateOf(a.type, a.target, action[a].net)
           IN  /\ ~e.paid /\ ~e.disputed /\ ~e.cancelled
               /\ Verdict(p, e, c).result = "PROCEED"
<1>. DEFINE p == EffectivePolicy
            e == RecheckInput(a)
            c == CandidateOf(a.type, a.target, action[a].net)
            none == CandidateOf("NO_ACTION", a.target, 0)
<1>1. Evaluate(p, e).result = "PROCEED"
  BY DEF BeginAttempt, Recheck
<1>2. e.candidates = <<c, none>>
  BY CheckedFacts
<1>3. none.type = "NO_ACTION"
  BY DEF CandidateOf
<1>. HIDE DEF p, e, c, none
<1>. QED  BY <1>1, <1>2, <1>3, ProceedIsAuthorised, OnlyCandidate DEF p, e, c


\* Only the beginning of its attempt sets an action CALLING.
LEMMA StartIsBegin ==
    ASSUME Begun, [Next]_vars, NEW a \in ActionKey, Starts(a)
    PROVE  BeginAttempt(a)
BY OnlyBeginCalls DEF Starts

-----------------------------------------------------------------------------
(* Theorems. *)

\* execution/service.py:_final_policy_decision.  No action starts while the
\* provider row of its subject is paid, cancelled or disputed.
THEOREM PaidIsNeverCharged == Spec => PaidIsNotCharged
<1>. DEFINE Checked ==
         \A a \in ActionKey : Starts(a) =>
              truth[case[a.case].subject].status \notin
                 PaidStatuses \cup CancelledStatuses \cup {"DISPUTED"}
<1>1. ASSUME Begun, [Next]_vars, NEW a \in ActionKey, Starts(a)
      PROVE  truth[case[a.case].subject].status \notin
                PaidStatuses \cup CancelledStatuses \cup {"DISPUTED"}
  <2>1. BeginAttempt(a)
    BY <1>1, StartIsBegin
  <2>. QED  BY <2>1, BeginChecks, CheckedFacts
<1>2. Begun /\ [Next]_vars => [Checked]_vars
  BY <1>1
<1>. QED  BY <1>2, BegunAlways, PTL DEF PaidIsNotCharged, Spec

\* policy.py: the review gate, as the execution check applies it.  An amount over
\* the threshold of the policy in force starts with a live approval of this very
\* action under this very policy.
THEOREM HighValueIsAlwaysApproved == Spec => HighValueIsApproved
<1>. DEFINE Checked ==
         \A a \in ActionKey :
              (/\ Starts(a) /\ ActionClasses[a.type] \in Effectful
               /\ case[a.case].amount >= EffectivePolicy.reviewAmount)
              => LET given == action[a].approval
                 IN  /\ given.status = "APPROVED" /\ now < given.expires
                     /\ given.fingerprint.type = a.type /\ given.fingerprint.target = a.target
                     /\ given.fingerprint.policy = EffectivePolicy.version
<1>1. ASSUME Begun, [Next]_vars, NEW a \in ActionKey, Starts(a),
             ActionClasses[a.type] \in Effectful,
             case[a.case].amount >= EffectivePolicy.reviewAmount
      PROVE  LET given == action[a].approval
             IN  /\ given.status = "APPROVED" /\ now < given.expires
                 /\ given.fingerprint.type = a.type /\ given.fingerprint.target = a.target
                 /\ given.fingerprint.policy = EffectivePolicy.version
  <2>. DEFINE p == EffectivePolicy
              e == RecheckInput(a)
              c == CandidateOf(a.type, a.target, action[a].net)
  <2>1. Verdict(p, e, c).result = "PROCEED"
    BY <1>1, StartIsBegin, BeginChecks
  <2>2. c.type = a.type /\ c.target = a.target
    BY DEF CandidateOf
  <2>3. e.amount = case[a.case].amount /\ e.approval = action[a].approval /\ e.at = now
    BY CheckedFacts
  <2>. HIDE DEF p, e, c
  <2>4. NeedsReview(p, e, c)
    BY <1>1, <2>2, <2>3 DEF NeedsReview, ClassOf, Effectful, ExpectedValueExempt, p
  <2>5. Approved(p, e, c)
    BY <2>1, <2>4, ProceedMeans
  <2>. QED  BY <2>2, <2>3, <2>5 DEF Approved, Fingerprint, p
<1>2. Begun /\ [Next]_vars => [Checked]_vars
  BY <1>1
<1>. QED  BY <1>2, BegunAlways, PTL DEF HighValueIsApproved, Spec

\* policy.py: the opt-out gate, as the execution check applies it.  No contact
\* starts after its customer opted out.
THEOREM OptOutIsAlwaysRespected == Spec => OptOutIsRespected
<1>. DEFINE Checked ==
         \A a \in ActionKey :
              Starts(a) /\ ActionClasses[a.type] = "CUSTOMER_CONTACT"
              => case[a.case].customer \notin optedOut
<1>1. ASSUME Begun, [Next]_vars, NEW a \in ActionKey, Starts(a),
             ActionClasses[a.type] = "CUSTOMER_CONTACT"
      PROVE  case[a.case].customer \notin optedOut
  <2>. DEFINE p == EffectivePolicy
              e == RecheckInput(a)
              c == CandidateOf(a.type, a.target, action[a].net)
  <2>1. Verdict(p, e, c).result = "PROCEED"
    BY <1>1, StartIsBegin, BeginChecks
  <2>2. Contacts(c) /\ c.channel = "EMAIL"
    BY <1>1 DEF CandidateOf, Contacts, ClassOf, ChannelOf
  <2>3. e.optedOut = IF case[a.case].customer \in optedOut THEN {"EMAIL"} ELSE {}
    BY CheckedFacts
  <2>. HIDE DEF p, e, c
  <2>4. c.channel \notin e.optedOut
    BY <2>1, <2>2, ProceedMeans
  <2>. QED  BY <2>2, <2>3, <2>4
<1>2. Begun /\ [Next]_vars => [Checked]_vars
  BY <1>1
<1>. QED  BY <1>2, BegunAlways, PTL DEF OptOutIsRespected, Spec

\* playbooks/service.py and policy.py: the incident gate, as the execution check
\* applies it.  Work that was authorised before an incident was observed does not
\* start while the incident runs.
THEOREM IncidentAlwaysSuspendsWork == Spec => IncidentSuspendsWork
<1>. DEFINE Checked ==
         \A a \in ActionKey :
              Starts(a) /\ ActionClasses[a.type] \in {"RETRY", "MONEY_INTENT"} =>
                 \A i \in Incident :
                    Running(incident, i) /\ now < incident[i].ends
                    => /\ <<i, a.case>> \notin links
                       /\ ~Explains(ScopeOf[i], case[a.case].diagnosis)
<1>1. ASSUME Begun, [Next]_vars, NEW a \in ActionKey, Starts(a),
             ActionClasses[a.type] \in {"RETRY", "MONEY_INTENT"},
             NEW i \in Incident, Running(incident, i), now < incident[i].ends
      PROVE  /\ <<i, a.case>> \notin links
             /\ ~Explains(ScopeOf[i], case[a.case].diagnosis)
  <2>. DEFINE p == EffectivePolicy
              e == RecheckInput(a)
              c == CandidateOf(a.type, a.target, action[a].net)
              applicable == Applicable(incident, links, a.case, case[a.case].diagnosis)
  <2>1. Verdict(p, e, c).result = "PROCEED"
    BY <1>1, StartIsBegin, BeginChecks
  <2>2. ClassOf(c) \in {"RETRY", "MONEY_INTENT"}
    BY <1>1 DEF CandidateOf, ClassOf
  <2>3. e.at = now /\ e.incidents = {Constraint(incident, j) : j \in applicable}
    BY CheckedFacts
  <2>. HIDE DEF p, e, c
  <2>4. Suspends(Constraint(incident, i), c, now)
    <3>1. ScopeOf[i] \in SystemicScope
      BY <1>1, IncidentsAssumption
    <3>. QED  BY <1>1, <2>2, <3>1 DEF Suspends, Reaches, Constraint, AlwaysAllowed, Begun
  <2>5. Constraint(incident, i) \notin e.incidents
    BY <2>1, <2>3, <2>4, ProceedMeans DEF Suspending
  <2>. QED  BY <1>1, <2>3, <2>5 DEF Applicable
<1>2. Begun /\ [Next]_vars => [Checked]_vars
  BY <1>1
<1>. QED  BY <1>2, BegunAlways, PTL DEF IncidentSuspendsWork, Spec

-----------------------------------------------------------------------------
(* Provider truth. *)

\* The provider's rows carry the time of the evidence they hold.
TruthRows == truth = [s \in Subject |-> truth[s]] /\ \A s \in Subject : truth[s].at \in Nat

\* Every status, known or not, has a rank.
LEMMA PrecedenceIsNat == ASSUME NEW status PROVE Precedence(status) \in Nat
BY DEF Precedence

\* The order of evidence: later, or at the same time of a higher rank.
Newer(old, new) ==
    \/ new.at > old.at
    \/ new.at = old.at /\ Precedence(new.status) >= Precedence(old.status)

\* Only a webhook writes provider rows, and it writes an authoritative one.
LEMMA TruthStep ==
    ASSUME TruthRows, [Next]_vars
    PROVE  TruthRows' /\ \A s \in Subject : Newer(truth[s], truth'[s])
<1>1. CASE UNCHANGED truth
  BY <1>1, PrecedenceIsNat DEF TruthRows, Newer
<1>2. ASSUME NEW e \in Event, truth' = Upserted(e)
      PROVE  TruthRows' /\ \A s \in Subject : Newer(truth[s], truth'[s])
  <2>1. Fact[e].subject \in Subject /\ Fact[e].at \in Nat
    BY EventsAssumption DEF Subject, EventFact
  <2>2. CASE truth' = truth
    BY <1>1, <2>2
  <2>3. CASE Authoritative(truth[Fact[e].subject], Reported(e))
             /\ truth' = [truth EXCEPT ![Fact[e].subject] = Reported(e)]
    BY <2>1, <2>3, PrecedenceIsNat DEF TruthRows, Newer, Authoritative, Reported
  <2>. QED  BY <1>2, <2>2, <2>3 DEF Upserted
<1>3. UNCHANGED truth \/ \E e \in Event : truth' = Upserted(e)
  <2>1. ASSUME NEW e \in Event, ProcessWebhook(e) \/ RepeatWebhook(e)
        PROVE  truth' = Upserted(e)
    BY <2>1 DEF ProcessWebhook, LinkEvidence, OpenCase, ApplyEvidence, Prepared, RepeatWebhook
  <2>2. ASSUME \/ UNCHANGED vars \/ Tick \/ ReevaluateDeferred
               \/ \E k \in Episode : ApproveReview(k) \/ CloseReview(k)
        PROVE  UNCHANGED truth
    BY <2>2 DEF vars, Tick, ReevaluateDeferred, ApproveReview, CloseReview
  <2>3. ASSUME \/ EndResolve
               \/ \E a \in ActionKey : Execute(a) \/ CloseIntervention(a)
               \/ \E i \in Incident : BeginResolve(i)
               \/ \E p \in Policy : PublishPolicy(p)
               \/ \E customer \in Customer : OptOut(customer)
        PROVE  UNCHANGED truth
    BY <2>3 DEF Execute, CloseIntervention, BeginResolve, EndResolve, PublishPolicy, OptOut,
                CancelBeforeExecution, BeginAttempt, RecordExecutionResult, RecordLookup, Settles
  <2>. QED  BY <2>1, <2>2, <2>3 DEF Next
<1>. QED  BY <1>1, <1>2, <1>3

\* persistence/status_ordering.py.  Whatever the order of delivery, the provider
\* row of a subject only moves to a newer report, or to a stronger one of equal
\* time.
THEOREM TruthNeverGoesBack == Spec => TruthIsMonotone
<1>. DEFINE Forward == \A s \in Subject :
                          \/ truth'[s].at > truth[s].at
                          \/ /\ truth'[s].at = truth[s].at
                             /\ Precedence(truth'[s].status) >= Precedence(truth[s].status)
<1>1. Init => TruthRows
  BY DEF Init, TruthRows, NoTruth, NoTime
<1>2. TruthRows /\ [Next]_vars => TruthRows'
  BY TruthStep
<1>3. TruthRows /\ [Next]_vars => [Forward]_vars
  BY TruthStep DEF Newer
<1>. QED  BY <1>1, <1>2, <1>3, PTL DEF TruthIsMonotone, Spec

-----------------------------------------------------------------------------
(* Contacts: the inductive invariant. *)

\* The tables are functions over their keys.
Tables ==
    /\ case = [k \in Episode |-> case[k]]
    /\ action = [a \in ActionKey |-> action[a]]
    /\ intervention = [a \in ActionKey |-> intervention[a]]

\* An action belongs to a case; an intervention belongs to an action; the
\* intervention of a contact that is authorised or in flight is ACTIVE.
Owned ==
    \A a \in ActionKey :
        /\ action[a].status # "NONE" => IsCase(a.case)
        /\ intervention[a].status # "NONE" => action[a].status # "NONE"
        /\ action[a].status \in {"PENDING", "CALLING"} /\ ContactsCustomer(case, a)
           => intervention[a].status = "ACTIVE"

\* A customer has at most one ACTIVE intervention.
OneActive ==
    \A a, b \in ActionKey :
        /\ intervention[a].status = "ACTIVE" /\ intervention[b].status = "ACTIVE"
        /\ case[a.case].customer = case[b.case].customer
        => a = b

\* The inductive invariant of the contacts.
Coordination == Tables /\ Owned /\ OneActive

\* There are no rows at first.
LEMMA CoordinationInit == Init => Coordination
BY DEF Init, Coordination, Tables, Owned, OneActive, NoRow

\* An action belongs to an episode.
LEMMA KeyCase == \A a \in ActionKey : a.case \in Episode
BY DEF ActionKey

-----------------------------------------------------------------------------
(* Contacts: decisions. *)

\* Every decision moves the case to a state.
LEMMA StateKnown ==
    ASSUME NEW p, NEW e
    PROVE  StateFor[Evaluate(p, e).result] # "ABSENT"
BY ResultKnown DEF StateFor

\* A decision authorises a contact only when the customer has no ACTIVE
\* intervention.
LEMMA ContactNeedsSilence ==
    ASSUME NEW k, NEW rows, NEW e, NEW approval, NEW facts, NEW inc, NEW applicable, NEW advice,
           NEW order, NEW nets, NEW d,
           d = DecisionOn(k, rows, e, approval, facts, inc, applicable, advice, order, nets),
           d.result = "PROCEED", ActionClasses[d.type] = "CUSTOMER_CONTACT"
    PROVE  Interventions(rows, k) = {}
<1>. DEFINE p == EffectivePolicy
            input == EvaluationInput(rows, k, facts, {Constraint(inc, i) : i \in applicable},
                        Diagnoses[Fact[e].category], advice,
                        Candidates(order, Fact[e].target, nets),
                        DeferUntil(Fact[e].category, Fact[e].at), approval)
            c == input.candidates[Selected(p, input)]
<1>1. d = Evaluate(p, input)
  BY DEF DecisionOn
<1>2. input.contactInProgress = (Interventions(rows, k) # {})
  BY DEF EvaluationInput, CaseFacts
<1>. HIDE DEF p, input
<1>3. Verdict(p, input, c).result = "PROCEED" /\ c.type = d.type
  BY <1>1, ProceedIsAuthorised
<1>4. Contacts(c)
  BY <1>3 DEF Contacts, ClassOf
<1>. QED  BY <1>2, <1>3, <1>4, ProceedMeans

\* Rows that a transaction has written so far: no case is lost or changes hands.
Keeps(rows) ==
    /\ rows = [k \in Episode |-> rows[k]]
    /\ \A k \in Episode : IsCase(k) => rows[k].state # "ABSENT" /\ rows[k].customer = case[k].customer

\* The interventions that the case rows allow change no status.
LEMMA CoordinatedStatus ==
    ASSUME Tables, NEW rows, NEW k, NEW a \in ActionKey
    PROVE  Coordinated(rows, k)[a].status = intervention[a].status
BY DEF Coordinated, Tables

\* A decided row is a case of the same customer.
LEMMA DecidedRowKeeps ==
    ASSUME NEW row, NEW p, NEW e, NEW evidence, NEW advice, NEW applicable
    PROVE  LET new == DecidedRow(row, Evaluate(p, e), evidence, advice, applicable)
           IN  new.state # "ABSENT" /\ new.customer = row.customer
BY StateKnown DEF DecidedRow

\* Every decision keeps the coordination of the contacts.
LEMMA EvaluateCoordinates ==
    ASSUME Coordination, NEW k \in Episode, NEW rows, Keeps(rows), rows[k].state # "ABSENT",
           NEW e, NEW approval, NEW facts, NEW inc, NEW lks,
           EvaluateCase(k, rows, e, approval, facts, inc, lks)
    PROVE  Coordination'
<1>1. PICK advice, order, nets :
         LET applicable == Applicable(inc, lks, k, advice.code)
         IN  RecordDecision(k, rows, e, approval, lks, applicable, advice,
                 DecisionOn(k, rows, e, approval, facts, inc, applicable, advice, order, nets))
  BY DEF EvaluateCase
<1>. DEFINE applicable == Applicable(inc, lks, k, advice.code)
            d == DecisionOn(k, rows, e, approval, facts, inc, applicable, advice, order, nets)
            a == Authorises(k, d)
            proceeds == d.result = "PROCEED"
            contacts == proceeds /\ ContactsCustomer(rows, a)
<1>2. a.case = k /\ a.type = d.type
  BY DEF Authorises
<1>3. /\ case' = [j \in Episode |-> case'[j]]
      /\ \A j \in Episode : rows[j].state # "ABSENT" =>
            case'[j].state # "ABSENT" /\ case'[j].customer = rows[j].customer
  <2>1. LET new == DecidedRow(rows[k], d, e, advice, applicable)
        IN  new.state # "ABSENT" /\ new.customer = rows[k].customer
    BY DecidedRowKeeps DEF DecisionOn
  <2>2. case' = [rows EXCEPT ![k] = DecidedRow(rows[k], d, e, advice, applicable)]
    BY <1>1 DEF RecordDecision
  <2>. HIDE DEF d, applicable
  <2>. QED  BY <2>1, <2>2 DEF Keeps
<1>4. action' = IF proceeds THEN Stored(a, d, approval) ELSE action
  BY <1>1 DEF RecordDecision
<1>5. intervention' = IF contacts THEN StoredIntervention(rows, a) ELSE Coordinated(rows, k)
  BY <1>1 DEF RecordDecision
<1>6. contacts => Interventions(rows, k) = {}
  BY <1>2, ContactNeedsSilence DEF ContactsCustomer
<1>. HIDE DEF d, a
<1>7. /\ action' = [b \in ActionKey |-> action'[b]]
      /\ \A b \in ActionKey :
            \/ action'[b].status = action[b].status
            \/ b = a /\ proceeds /\ action[b].status = "NONE" /\ action'[b].status = "PENDING"
  BY <1>4 DEF Stored, Coordination, Tables
<1>8. /\ intervention' = [b \in ActionKey |-> intervention'[b]]
      /\ \A b \in ActionKey :
            \/ intervention'[b].status = intervention[b].status
            \/ /\ b = a /\ contacts /\ intervention[b].status = "NONE"
               /\ intervention'[b].status = "ACTIVE"
      /\ a \in ActionKey /\ contacts /\ intervention[a].status = "NONE"
         => intervention'[a].status = "ACTIVE"
  <2>1. \A b \in ActionKey : Coordinated(rows, k)[b].status = intervention[b].status
    BY CoordinatedStatus DEF Coordination
  <2>2. Coordinated(rows, k) = [b \in ActionKey |-> Coordinated(rows, k)[b]]
    BY DEF Coordinated
  <2>3. CASE contacts
    <3>1. intervention' = StoredIntervention(rows, a)
      BY <1>5, <2>3
    <3>. QED  BY <1>2, <2>1, <2>2, <2>3, <3>1 DEF StoredIntervention
  <2>4. CASE ~contacts
    BY <1>5, <2>1, <2>2, <2>4
  <2>. QED  BY <2>3, <2>4
<1>. HIDE DEF proceeds, contacts
<1>9. Tables'
  BY <1>3, <1>7, <1>8 DEF Tables
<1>10. \A b \in ActionKey : action[b].status # "NONE" \/ b = a =>
          case'[b.case].state # "ABSENT" /\ rows[b.case].state # "ABSENT"
          /\ case'[b.case].customer = rows[b.case].customer
  BY <1>2, <1>3, KeyCase DEF Coordination, Owned, Keeps
<1>11. Owned'
  <2>. SUFFICES ASSUME NEW b \in ActionKey
                PROVE  /\ action'[b].status # "NONE" => IsCase(b.case)'
                       /\ intervention'[b].status # "NONE" => action'[b].status # "NONE"
                       /\ action'[b].status \in {"PENDING", "CALLING"} /\ ContactsCustomer(case', b)
                          => intervention'[b].status = "ACTIVE"
    BY DEF Owned, ContactsCustomer
  <2>1. CASE b # a
    <3>1. action'[b].status = action[b].status /\ intervention'[b].status = intervention[b].status
      BY <1>7, <1>8, <2>1
    <3>2. action[b].status # "NONE" => case'[b.case].customer = case[b.case].customer
      BY <1>10, KeyCase DEF Coordination, Owned, Keeps
    <3>. QED  BY <1>10, <3>1, <3>2 DEF Coordination, Owned, IsCase, ContactsCustomer
  <2>2. CASE b = a
    <3>1. IsCase(b.case)'
      BY <1>10, <2>2 DEF IsCase
    <3>2. CASE action[b].status = "NONE" /\ proceeds
      <4>1. intervention[b].status = "NONE"
        BY <3>2 DEF Coordination, Owned
      <4>2. action'[b].status = "PENDING"
        BY <1>4, <2>2, <3>2 DEF Stored, Coordination, Tables
      <4>3. ContactsCustomer(case', b) => contacts
        BY <1>10, <2>2, <3>2 DEF ContactsCustomer, contacts
      <4>4. contacts => intervention'[b].status = "ACTIVE"
        BY <1>8, <2>2, <4>1
      <4>. QED  BY <3>1, <4>2, <4>3, <4>4
    <3>3. CASE action[b].status = "NONE" /\ ~proceeds
      <4>1. intervention[b].status = "NONE" /\ ~contacts /\ action'[b].status = "NONE"
        BY <1>7, <3>3 DEF Coordination, Owned, contacts
      <4>2. intervention'[b].status = "NONE"
        BY <1>8, <4>1
      <4>. QED  BY <3>1, <4>1, <4>2
    <3>4. CASE action[b].status # "NONE"
      <4>1. action'[b].status = action[b].status
        BY <1>7, <3>4
      <4>2. case'[b.case].customer = case[b.case].customer
        BY <1>10, <3>4, KeyCase DEF Coordination, Owned, Keeps
      <4>3. intervention[b].status = "ACTIVE" => intervention'[b].status = "ACTIVE"
        BY <1>8
      <4>. QED  BY <3>1, <3>4, <4>1, <4>2, <4>3 DEF Coordination, Owned, ContactsCustomer
    <3>. QED  BY <3>2, <3>3, <3>4
  <2>. QED  BY <2>1, <2>2
<1>12. OneActive'
  <2>1. \A b \in ActionKey : intervention[b].status = "ACTIVE" =>
           case'[b.case].customer = case[b.case].customer
    BY <1>10, KeyCase DEF Coordination, Owned, Keeps
  <2>2. ASSUME contacts, NEW b \in ActionKey, intervention[b].status = "ACTIVE", a \in ActionKey,
               case'[b.case].customer = case'[a.case].customer
        PROVE  FALSE
    <3>1. rows[b.case].customer = rows[k].customer
      BY <1>2, <1>10, <2>2 DEF Coordination, Owned
    <3>2. rows[k].customer # NoCustomer
      BY <1>2, <2>2 DEF contacts, ContactsCustomer
    <3>3. b \in Interventions(rows, k)
      BY <2>2, <3>1, <3>2 DEF Interventions
    <3>. QED  BY <1>6, <2>2, <3>3
  <2>3. ASSUME NEW b \in ActionKey, NEW c \in ActionKey,
               intervention'[b].status = "ACTIVE", intervention'[c].status = "ACTIVE",
               case'[b.case].customer = case'[c.case].customer
        PROVE  b = c
    <3>1. CASE intervention[b].status = "ACTIVE" /\ intervention[c].status = "ACTIVE"
      BY <2>1, <2>3, <3>1 DEF Coordination, OneActive
    <3>2. CASE intervention[b].status = "ACTIVE" /\ intervention[c].status # "ACTIVE"
      <4>1. c = a /\ contacts
        BY <1>8, <2>3, <3>2
      <4>. QED  BY <2>2, <2>3, <3>2, <4>1
    <3>3. CASE intervention[b].status # "ACTIVE" /\ intervention[c].status = "ACTIVE"
      <4>1. b = a /\ contacts
        BY <1>8, <2>3, <3>3
      <4>. QED  BY <2>2, <2>3, <3>3, <4>1
    <3>4. CASE intervention[b].status # "ACTIVE" /\ intervention[c].status # "ACTIVE"
      BY <1>8, <2>3, <3>4
    <3>. QED  BY <3>1, <3>2, <3>3, <3>4
  <2>. QED  BY <2>3 DEF OneActive
<1>. QED  BY <1>9, <1>11, <1>12 DEF Coordination

-----------------------------------------------------------------------------
(* Contacts: steps. *)

\* Rows as an event's transaction finds them after the incident observation, and
\* with the new case of an episode that had none.
LEMMA MarkedKeeps ==
    ASSUME Tables, NEW degraded
    PROVE  Keeps(Marked(degraded))
BY DEF Keeps, Marked, Tables, IsCase

\* Opening a case, and marking the cases of an incident, keeps what Coordination reads.
LEMMA OpenedKeeps ==
    ASSUME Tables, NEW degraded, NEW e \in Event, ~IsCase(Fact[e].episode)
    PROVE  LET rows == [Marked(degraded) EXCEPT ![Fact[e].episode] = NewCase(e)]
           IN  Keeps(rows) /\ rows[Fact[e].episode].state # "ABSENT"
<1>1. Fact[e].episode \in Episode
  BY DEF Episode
<1>2. NewCase(e).state = "DETECTED"
  BY DEF NewCase
<1>. QED  BY <1>1, <1>2, MarkedKeeps DEF Keeps

\* Steps that keep owners, customers and interventions and authorise nothing.
LEMMA QuietStep ==
    ASSUME Coordination, UNCHANGED intervention,
           case' = [k \in Episode |-> case'[k]], action' = [a \in ActionKey |-> action'[a]],
           \A k \in Episode : IsCase(k) =>
               case'[k].state # "ABSENT" /\ case'[k].customer = case[k].customer,
           \A a \in ActionKey : \/ action'[a].status = action[a].status
                                \/ /\ action[a].status # "NONE" /\ action'[a].status # "NONE"
                                   /\ action'[a].status \in {"PENDING", "CALLING"}
                                      => action[a].status \in {"PENDING", "CALLING"}
    PROVE  Coordination'
<1>1. \A a \in ActionKey : action[a].status # "NONE" =>
         case'[a.case].state # "ABSENT" /\ case'[a.case].customer = case[a.case].customer
  BY KeyCase DEF Coordination, Owned
<1>2. Tables'
  BY DEF Coordination, Tables
<1>3. Owned'
  BY <1>1 DEF Coordination, Owned, IsCase, ContactsCustomer
<1>4. OneActive'
  <2>1. \A a \in ActionKey : intervention[a].status = "ACTIVE" => action[a].status # "NONE"
    BY DEF Coordination, Owned
  <2>. QED  BY <1>1, <2>1 DEF Coordination, OneActive
<1>. QED  BY <1>2, <1>3, <1>4 DEF Coordination

\* A signed event keeps the contacts coordinated, whatever it decides.
LEMMA WebhookCoordinates ==
    ASSUME Coordination, NEW e \in Event, ProcessWebhook(e)
    PROVE  Coordination'
<1>0. Tables /\ Fact[e].episode \in Episode
  BY DEF Coordination, Episode
<1>1. CASE LinkEvidence(e)
  <2>1. PICK degraded : case' = Marked(degraded) /\ UNCHANGED <<action, intervention>>
    BY <1>1 DEF LinkEvidence
  <2>2. Keeps(case')
    BY <1>0, <2>1, MarkedKeeps
  <2>. QED  BY <1>0, <2>1, <2>2, QuietStep DEF Keeps, Tables
<1>2. CASE OpenCase(e)
  <2>1. PICK degraded \in SUBSET Related(e) :
           /\ CasesFor(e) = {}
           /\ EvaluateCase(Fact[e].episode,
                  [Marked(degraded) EXCEPT ![Fact[e].episode] = NewCase(e)], e, NoApproval, truth',
                  incident', links \cup LinkedBy(degraded))
    BY <1>2 DEF OpenCase
  <2>2. ~IsCase(Fact[e].episode)
    BY <2>1 DEF CasesFor
  <2>. QED  BY <1>0, <2>1, <2>2, OpenedKeeps, EvaluateCoordinates
<1>3. CASE ApplyEvidence(e)
  <2>1. PICK degraded \in SUBSET Related(e), k \in CasesFor(e) :
           /\ case[k].state \in Decidable
           /\ EvaluateCase(k, Marked(degraded), e, NoApproval, truth', incident',
                           links \cup LinkedBy(degraded))
    BY <1>3 DEF ApplyEvidence
  <2>2. k \in Episode /\ IsCase(k)
    BY <1>0, <2>1 DEF CasesFor, Decidable, IsCase
  <2>3. Keeps(Marked(degraded)) /\ Marked(degraded)[k].state # "ABSENT"
    BY <1>0, <2>2, MarkedKeeps DEF Keeps
  <2>. QED  BY <2>1, <2>2, <2>3, EvaluateCoordinates
<1>. QED  BY <1>1, <1>2, <1>3 DEF ProcessWebhook

\* Unchanged cases keep everything.
LEMMA SameKeeps == ASSUME Tables PROVE Keeps(case)
BY DEF Keeps, Tables, IsCase

\* A row that moves on stays the row of its customer.
LEMMA RowMoves ==
    ASSUME Tables, NEW k, NEW row, case' = [case EXCEPT ![k] = row],
           row.state # "ABSENT", row.customer = case[k].customer
    PROVE  /\ case' = [j \in Episode |-> case'[j]]
           /\ \A j \in Episode : IsCase(j) =>
                 case'[j].state # "ABSENT" /\ case'[j].customer = case[j].customer
BY DEF Tables, IsCase

\* A cancelled contact is not in flight any more.
LEMMA CancelCoordinates ==
    ASSUME Coordination, NEW a \in ActionKey, CancelBeforeExecution(a)
    PROVE  Coordination'
<1>. DEFINE state == StateFor[Recheck(a).result]
<1>1. state # "ABSENT"
  BY StateKnown DEF Recheck
<1>2. /\ action' = [action EXCEPT ![a].status = "FAILED"] /\ action[a].status = "PENDING"
      /\ case' = [case EXCEPT ![a.case].state = state, ![a.case].next = Recheck(a).wake]
      /\ UNCHANGED intervention
  BY DEF CancelBeforeExecution
<1>. HIDE DEF state
<1>3. /\ case' = [k \in Episode |-> case'[k]]
      /\ \A k \in Episode : IsCase(k) =>
            case'[k].state # "ABSENT" /\ case'[k].customer = case[k].customer
  <2>. DEFINE row == [case[a.case] EXCEPT !.state = state, !.next = Recheck(a).wake]
  <2>1. row.state # "ABSENT" /\ row.customer = case[a.case].customer
    BY <1>1
  <2>2. case' = [case EXCEPT ![a.case] = row]
    BY <1>2
  <2>. QED  BY <2>1, <2>2, RowMoves DEF Coordination
<1>4. /\ action' = [b \in ActionKey |-> action'[b]]
      /\ \A b \in ActionKey : action'[b].status = action[b].status \/
            (b = a /\ action'[b].status = "FAILED")
  <2>1. action = [b \in ActionKey |-> action[b]] /\ action' = [action EXCEPT ![a].status = "FAILED"]
    BY <1>2 DEF Coordination, Tables
  <2>2. action' = [b \in ActionKey |-> action'[b]]
    BY <2>1
  <2>3. ASSUME NEW b \in ActionKey
        PROVE  action'[b].status = action[b].status \/ (b = a /\ action'[b].status = "FAILED")
    BY <2>1
  <2>. QED  BY <2>2, <2>3
<1>. QED  BY <1>2, <1>3, <1>4, QuietStep

\* So does every step of an execution.
LEMMA ExecuteCoordinates ==
    ASSUME Coordination, NEW a \in ActionKey, Execute(a)
    PROVE  Coordination'
<1>1. CASE CancelBeforeExecution(a)
  BY <1>1, CancelCoordinates
<1>2. CASE BeginAttempt(a)
  <2>1. /\ action' = [action EXCEPT ![a].status = "CALLING", ![a].attempts = @ + 1]
        /\ action[a].status = "PENDING"
        /\ case' = [case EXCEPT ![a.case] = Counted(@, a)]
        /\ UNCHANGED intervention
    BY <1>2 DEF BeginAttempt
  <2>2. /\ case' = [k \in Episode |-> case'[k]]
        /\ \A k \in Episode : IsCase(k) =>
              case'[k].state # "ABSENT" /\ case'[k].customer = case[k].customer
    <3>1. Counted(case[a.case], a).state # "ABSENT"
          /\ Counted(case[a.case], a).customer = case[a.case].customer
      BY DEF Counted, Moved
    <3>. QED  BY <2>1, <3>1, RowMoves DEF Coordination
  <2>3. /\ action' = [b \in ActionKey |-> action'[b]]
        /\ \A b \in ActionKey : action'[b].status = action[b].status \/
              (b = a /\ action'[b].status = "CALLING")
    BY <2>1 DEF Coordination, Tables
  <2>. QED  BY <2>1, <2>2, <2>3, QuietStep
<1>3. ASSUME NEW status, NEW state, Settles(a, status, state), state # "ABSENT",
             action[a].status # "NONE", status # "NONE",
             status \in {"PENDING", "CALLING"} => action[a].status = "CALLING"
      PROVE  Coordination'
  <2>1. /\ action' = [action EXCEPT ![a].status = status]
        /\ case' = [case EXCEPT ![a.case] = Moved(case[a.case], state)]
        /\ UNCHANGED intervention
    BY <1>3 DEF Settles
  <2>2. /\ case' = [k \in Episode |-> case'[k]]
        /\ \A k \in Episode : IsCase(k) =>
              case'[k].state # "ABSENT" /\ case'[k].customer = case[k].customer
    <3>. DEFINE row == Moved(case[a.case], state)
    <3>1. row.state # "ABSENT" /\ row.customer = case[a.case].customer
      BY <1>3 DEF Moved
    <3>2. case' = [case EXCEPT ![a.case] = row]
      BY <2>1
    <3>. QED  BY <3>1, <3>2, RowMoves DEF Coordination
  <2>3. /\ action' = [b \in ActionKey |-> action'[b]]
        /\ \A b \in ActionKey : action'[b].status = action[b].status \/
              (b = a /\ action'[b].status = status)
    BY <2>1 DEF Coordination, Tables
  <2>. QED  BY <1>3, <2>1, <2>2, <2>3, QuietStep
<1>4. CASE RecordExecutionResult(a)
  BY <1>3, <1>4 DEF RecordExecutionResult
<1>5. CASE RecordLookup(a)
  BY <1>3, <1>5 DEF RecordLookup
<1>. QED  BY <1>1, <1>2, <1>4, <1>5 DEF Execute

\* An event that is processed again writes no case, or a first one of its episode.
LEMMA RepeatedCase ==
    ASSUME NEW e \in Event, RepeatWebhook(e)
    PROVE  \/ UNCHANGED case
           \/ ~IsCase(Fact[e].episode) /\ case' = [case EXCEPT ![Fact[e].episode] = NewCase(e)]
BY DEF RepeatWebhook, CasesFor

\* The resolution of an incident writes nothing of a case but its pointer and its
\* wake time.
LEMMA ResolvedRows ==
    ASSUME EndResolve
    PROVE  /\ case' = [k \in Episode |-> case'[k]]
           /\ \A k \in Episode :
                 /\ case'[k].state = case[k].state /\ case'[k].customer = case[k].customer
                 /\ case'[k].contacts = case[k].contacts
                 /\ case'[k].evidence = case[k].evidence
                 /\ k \notin resolving.released => case'[k] = case[k]
                 /\ k \in resolving.released =>
                       /\ case'[k].incident = NoIncident
                       /\ case'[k] = [case[k] EXCEPT !.incident = NoIncident,
                             !.next = IF k \in resolving.woken THEN resolving.at ELSE case[k].next]
<1>. DEFINE next(k) == IF k \in resolving.woken THEN resolving.at ELSE case[k].next
<1>1. case' = [k \in Episode |->
                 IF k \notin resolving.released THEN case[k]
                 ELSE [case[k] EXCEPT !.incident = NoIncident, !.next = next(k)]]
  BY DEF EndResolve
<1>. HIDE DEF next
<1>2. \A k : LET row == [case[k] EXCEPT !.incident = NoIncident, !.next = next(k)]
             IN  /\ row.state = case[k].state /\ row.customer = case[k].customer
                 /\ row.contacts = case[k].contacts /\ row.evidence = case[k].evidence
                 /\ row.incident = NoIncident
  OBVIOUS
<1>3. \A k \in Episode :
         case'[k] = IF k \notin resolving.released THEN case[k]
                    ELSE [case[k] EXCEPT !.incident = NoIncident, !.next = next(k)]
  BY <1>1
<1>4. ASSUME NEW k \in Episode
      PROVE  /\ case'[k].state = case[k].state /\ case'[k].customer = case[k].customer
             /\ case'[k].contacts = case[k].contacts
             /\ case'[k].evidence = case[k].evidence
             /\ k \in resolving.released => case'[k].incident = NoIncident
  BY <1>2, <1>3, Zenon
<1>. QED  BY <1>1, <1>3, <1>4 DEF next

\* Every step keeps the contacts coordinated.
LEMMA CoordinationStep == Coordination /\ [Next]_vars => Coordination'
<1>. SUFFICES ASSUME Coordination, [Next]_vars  PROVE Coordination'
  OBVIOUS
<1>0. Tables
  BY DEF Coordination
<1>1. CASE UNCHANGED <<case, action, intervention>>
  BY <1>0, <1>1, QuietStep DEF Tables, IsCase
<1>2. CASE ReevaluateDeferred
  <2>1. PICK k \in Episode :
           FirstDue(k) /\ EvaluateCase(k, case, case[k].evidence, NoApproval, truth, incident, links)
    BY <1>2 DEF ReevaluateDeferred
  <2>2. case[k].state # "ABSENT"
    BY <2>1 DEF FirstDue, Due, IsCase
  <2>. QED  BY <1>0, <2>1, <2>2, SameKeeps, EvaluateCoordinates
<1>3. ASSUME NEW k \in Episode, ApproveReview(k)
      PROVE  Coordination'
  <2>1. case[k].state # "ABSENT"
    BY <1>3 DEF ApproveReview, Answerable
  <2>. QED  BY <1>0, <1>3, <2>1, SameKeeps, EvaluateCoordinates DEF ApproveReview
<1>4. ASSUME NEW k \in Episode, CloseReview(k)
      PROVE  Coordination'
  <2>1. /\ case' = [case EXCEPT ![k].state = "STOPPED", ![k].next = NoTime]
        /\ UNCHANGED <<action, intervention>>
    BY <1>4 DEF CloseReview
  <2>2. /\ case' = [j \in Episode |-> case'[j]]
        /\ \A j \in Episode : IsCase(j) =>
              case'[j].state # "ABSENT" /\ case'[j].customer = case[j].customer
    BY <1>0, <2>1 DEF Tables, IsCase
  <2>. QED  BY <1>0, <2>1, <2>2, QuietStep DEF Tables
<1>5. ASSUME NEW a \in ActionKey, CloseIntervention(a)
      PROVE  Coordination'
  <2>1. /\ intervention' = [intervention EXCEPT ![a].status = "CLOSED"]
        /\ action[a].status \in {"SUCCEEDED", "FAILED"} /\ UNCHANGED <<case, action>>
    BY <1>5 DEF CloseIntervention
  <2>2. /\ intervention' = [b \in ActionKey |-> intervention'[b]]
        /\ \A b \in ActionKey : intervention'[b].status = intervention[b].status \/
              (b = a /\ intervention'[b].status = "CLOSED")
    BY <1>0, <2>1 DEF Tables
  <2>3. Tables'
    BY <1>0, <2>1, <2>2 DEF Tables
  <2>4. Owned'
    BY <2>1, <2>2 DEF Coordination, Owned, IsCase, ContactsCustomer
  <2>5. OneActive'
    BY <2>1, <2>2 DEF Coordination, OneActive
  <2>. QED  BY <2>3, <2>4, <2>5 DEF Coordination
<1>6. CASE EndResolve
  <2>1. \A k \in Episode : case'[k].state = case[k].state /\ case'[k].customer = case[k].customer
    BY <1>6, ResolvedRows
  <2>2. case' = [j \in Episode |-> case'[j]] /\ UNCHANGED <<action, intervention>>
    BY <1>6, ResolvedRows DEF EndResolve
  <2>. QED  BY <1>0, <2>1, <2>2, QuietStep DEF Tables, IsCase
<1>8. ASSUME NEW e \in Event, RepeatWebhook(e)
      PROVE  Coordination'
  <2>1. UNCHANGED <<action, intervention>>
    BY <1>8 DEF RepeatWebhook
  <2>2. CASE ~IsCase(Fact[e].episode) /\ case' = [case EXCEPT ![Fact[e].episode] = NewCase(e)]
    BY <1>0, <2>1, <2>2, QuietStep DEF Tables, IsCase
  <2>. QED  BY <1>1, <1>8, <2>1, <2>2, RepeatedCase
<1>7. ASSUME \/ Tick \/ UNCHANGED vars
             \/ \E i \in Incident : BeginResolve(i)
             \/ \E p \in Policy : PublishPolicy(p)
             \/ \E customer \in Customer : OptOut(customer)
      PROVE  Coordination'
  BY <1>1, <1>7 DEF Tick, vars, BeginResolve, PublishPolicy, OptOut
<1>. QED  BY <1>2, <1>3, <1>4, <1>5, <1>6, <1>7, <1>8, WebhookCoordinates, ExecuteCoordinates
          DEF Next

-----------------------------------------------------------------------------
(* Contacts: the theorem. *)

\* recovery/service.py:_evaluate_case and the customer interventions.  Whatever
\* events, reviews, sweeps and execution checks come between, no two contacts of a
\* customer are authorised or in flight together, for any number of cases.
THEOREM OneContactPerCustomer == Spec => []OneContactAtATime
<1>1. Coordination => OneContactAtATime
  BY DEF Coordination, Owned, OneActive, OneContactAtATime
<1>. QED  BY <1>1, CoordinationInit, CoordinationStep, PTL DEF Spec

-----------------------------------------------------------------------------
(* Incidents: the invariant, on the rows of a transaction as well as on the tables. *)

Opened(inc, i) == inc[i].status # "NONE"

\* A pointer names an incident that was opened, and the link is there.
Held(row, k, inc, lks) ==
    row.state # "ABSENT" /\ row.incident # NoIncident =>
        /\ row.incident \in Incident
        /\ Opened(inc, row.incident) /\ <<row.incident, k>> \in lks

\* The same of rows, incidents and links that a transaction has written so far.
RowsHeld(rows, inc, lks) ==
    /\ rows = [k \in Episode |-> rows[k]]
    /\ \A k \in Episode : Held(rows[k], k, inc, lks)

\* The inductive invariant of the incidents.
Pointed ==
    /\ RowsHeld(case, incident, links)
    /\ incident = [i \in Incident |-> incident[i]]

\* No case points at an incident at first.
LEMMA PointedInit == Init => Pointed
BY DEF Init, Pointed, RowsHeld, Held, NoCase

\* More links and more incidents hold no less.
LEMMA HeldGrows ==
    ASSUME NEW row, NEW k, NEW inc, NEW lks, NEW inc2, NEW lks2, Held(row, k, inc, lks),
           \A i \in Incident : Opened(inc, i) => Opened(inc2, i),
           lks \subseteq lks2
    PROVE  Held(row, k, inc2, lks2)
BY DEF Held

\* A decision leaves the incident a case points at, or sets one that runs and links it.
LEMMA DecisionHolds ==
    ASSUME NEW k \in Episode, NEW rows, NEW e, NEW approval, NEW facts, NEW inc, NEW lks,
           RowsHeld(rows, inc, lks), rows[k].state # "ABSENT",
           EvaluateCase(k, rows, e, approval, facts, inc, lks)
    PROVE  RowsHeld(case', inc, links')
<1>1. PICK advice, order, nets :
         LET applicable == Applicable(inc, lks, k, advice.code)
         IN  RecordDecision(k, rows, e, approval, lks, applicable, advice,
                 DecisionOn(k, rows, e, approval, facts, inc, applicable, advice, order, nets))
  BY DEF EvaluateCase
<1>. DEFINE applicable == Applicable(inc, lks, k, advice.code)
            d == DecisionOn(k, rows, e, approval, facts, inc, applicable, advice, order, nets)
            new == DecidedRow(rows[k], d, e, advice, applicable)
<1>2. case' = [rows EXCEPT ![k] = new] /\ links' = lks \cup (applicable \X {k})
  BY <1>1 DEF RecordDecision
<1>3. new.incident = IF applicable = {} THEN rows[k].incident ELSE CHOOSE i \in applicable : TRUE
  BY DEF DecidedRow
<1>4. \A i \in applicable : i \in Incident /\ Opened(inc, i)
  BY DEF Applicable, Running, Opened
<1>. HIDE DEF applicable, new
<1>5. Held(new, k, inc, links')
  <2>1. CASE applicable = {}
    BY <1>2, <1>3, <2>1 DEF RowsHeld, Held
  <2>2. CASE applicable # {}
    <3>1. new.incident \in applicable
      BY <1>3, <2>2
    <3>. QED  BY <1>2, <1>4, <3>1 DEF Held
  <2>. QED  BY <2>1, <2>2
<1>6. \A j \in Episode : Held(rows[j], j, inc, links')
  BY <1>2, HeldGrows DEF RowsHeld
<1>. QED  BY <1>2, <1>5, <1>6 DEF RowsHeld

\* The observation of incidents marks and links the same cases.
LEMMA ObservationHolds ==
    ASSUME Pointed, NEW degraded, degraded \subseteq Incident, incident' = Degrade(degraded)
    PROVE  /\ RowsHeld(Marked(degraded), incident', links \cup LinkedBy(degraded))
           /\ incident' = [i \in Incident |-> incident'[i]]
<1>. DEFINE lks == links \cup LinkedBy(degraded)
<1>1. incident' = [i \in Incident |-> incident'[i]]
  BY DEF Degrade
<1>2. \A i \in Incident : Opened(incident, i) \/ i \in degraded => Opened(incident', i)
  BY DEF Degrade, Opened
<1>3. ASSUME NEW k \in Episode
      PROVE  Held(Marked(degraded)[k], k, incident', lks)
  <2>. DEFINE chosen == CHOOSE i \in degraded : k \in Attached(i)
  <2>1. CASE IsCase(k) /\ case[k].incident = NoIncident /\ \E i \in degraded : k \in Attached(i)
    <3>1. chosen \in degraded /\ k \in Attached(chosen)
      BY <2>1
    <3>2. <<chosen, k>> \in LinkedBy(degraded)
      BY <3>1 DEF LinkedBy
    <3>3. Marked(degraded)[k] = [case[k] EXCEPT !.incident = chosen]
      BY <2>1 DEF Marked
    <3>. HIDE DEF chosen
    <3>4. Marked(degraded)[k].incident = chosen
      BY <3>3
    <3>. QED  BY <1>2, <3>1, <3>2, <3>4 DEF Held
  <2>2. CASE ~(IsCase(k) /\ case[k].incident = NoIncident /\ \E i \in degraded : k \in Attached(i))
    <3>1. Marked(degraded)[k] = case[k]
      BY <2>2 DEF Marked
    <3>2. Held(case[k], k, incident, links)
      BY DEF Pointed, RowsHeld
    <3>. QED  BY <1>2, <3>1, <3>2, HeldGrows
  <2>. QED  BY <2>1, <2>2
<1>4. Marked(degraded) = [k \in Episode |-> Marked(degraded)[k]]
  BY DEF Marked
<1>. QED  BY <1>1, <1>3, <1>4 DEF RowsHeld

-----------------------------------------------------------------------------
(* Incidents: steps. *)

\* Steps that neither resolve an incident nor touch the pointers of the cases.
LEMMA PointersStay ==
    ASSUME Pointed, UNCHANGED incident, links \subseteq links',
           case' = [k \in Episode |-> case'[k]],
           \A k \in Episode : \/ case'[k] = case[k]
                              \/ case[k].state # "ABSENT" /\ case'[k].incident = case[k].incident
    PROVE  Pointed'
<1>1. \A k \in Episode : Held(case[k], k, incident, links)
  BY DEF Pointed, RowsHeld
<1>2. \A k \in Episode : Held(case'[k], k, incident', links')
  BY <1>1 DEF Held
<1>. QED  BY <1>2 DEF Pointed, RowsHeld

\* A signed event may degrade incidents, open a case and decide it.
LEMMA WebhookPoints ==
    ASSUME Pointed, NEW e \in Event, ProcessWebhook(e)
    PROVE  Pointed'
<1>1. PICK degraded \in SUBSET Related(e) :
         /\ incident' = Degrade(degraded)
         /\ \/ /\ case' = Marked(degraded) /\ links' = links \cup LinkedBy(degraded)
            \/ /\ CasesFor(e) = {}
               /\ EvaluateCase(Fact[e].episode,
                      [Marked(degraded) EXCEPT ![Fact[e].episode] = NewCase(e)], e, NoApproval,
                      truth', incident', links \cup LinkedBy(degraded))
            \/ \E k \in CasesFor(e) :
                  /\ case[k].state \in Decidable
                  /\ EvaluateCase(k, Marked(degraded), e, NoApproval, truth', incident',
                         links \cup LinkedBy(degraded))
  <2>1. CASE LinkEvidence(e)
    BY <2>1 DEF LinkEvidence, Prepared
  <2>2. CASE OpenCase(e)
    BY <2>2 DEF OpenCase, Prepared
  <2>3. CASE ApplyEvidence(e)
    <3>1. PICK degraded \in SUBSET Related(e), k \in CasesFor(e) :
             /\ Prepared(e, degraded) /\ case[k].state \in Decidable
             /\ EvaluateCase(k, Marked(degraded), e, NoApproval, truth', incident',
                    links \cup LinkedBy(degraded))
      BY <2>3 DEF ApplyEvidence
    <3>2. incident' = Degrade(degraded)
      BY <3>1 DEF Prepared
    <3>. QED  BY <3>1, <3>2
  <2>. QED  BY <2>1, <2>2, <2>3 DEF ProcessWebhook
<1>. DEFINE marked == Marked(degraded)
            lks == links \cup LinkedBy(degraded)
            own == Fact[e].episode
<1>2. RowsHeld(marked, incident', lks) /\ incident' = [i \in Incident |-> incident'[i]]
  <2>1. degraded \subseteq Incident
    BY DEF Related
  <2>. QED  BY <1>1, <2>1, ObservationHolds
<1>3. own \in Episode
  BY DEF Episode
<1>. HIDE DEF marked, lks, own
<1>4. CASE case' = marked /\ links' = lks
  BY <1>2, <1>4 DEF Pointed
<1>5. CASE EvaluateCase(own, [marked EXCEPT ![own] = NewCase(e)], e, NoApproval, truth', incident', lks)
  <2>. DEFINE rows == [marked EXCEPT ![own] = NewCase(e)]
  <2>1. Held(NewCase(e), own, incident', lks)
    BY DEF Held, NewCase
  <2>2. RowsHeld(rows, incident', lks) /\ rows[own].state # "ABSENT"
    <3>1. NewCase(e).state = "DETECTED"
      BY DEF NewCase
    <3>. QED  BY <1>2, <1>3, <2>1, <3>1 DEF RowsHeld
  <2>. HIDE DEF rows
  <2>3. RowsHeld(case', incident', links')
    BY <1>3, <1>5, <2>2, DecisionHolds DEF rows
  <2>. QED  BY <1>2, <2>3 DEF Pointed
<1>6. ASSUME NEW k \in CasesFor(e), case[k].state \in Decidable,
             EvaluateCase(k, marked, e, NoApproval, truth', incident', lks)
      PROVE  Pointed'
  <2>1. k \in Episode
    BY <1>3 DEF CasesFor, own
  <2>2. marked[k].state # "ABSENT"
    BY <1>6, <2>1 DEF marked, Marked, Decidable
  <2>3. RowsHeld(case', incident', links')
    BY <1>2, <1>6, <2>1, <2>2, DecisionHolds
  <2>. QED  BY <1>2, <2>3 DEF Pointed
<1>. QED  BY <1>1, <1>4, <1>5, <1>6 DEF marked, lks, own

\* The resolution clears pointers, and loses no incident and no link.
LEMMA ResolutionPoints ==
    ASSUME Pointed, EndResolve
    PROVE  Pointed'
<1>1. incident' = [incident EXCEPT ![resolving.incident].status = "RESOLVED"] /\ UNCHANGED links
  BY DEF EndResolve
<1>2. \A i \in Incident : Opened(incident, i) => Opened(incident', i)
  BY <1>1 DEF Pointed, Opened
<1>3. ASSUME NEW k \in Episode
      PROVE  Held(case'[k], k, incident', links')
  <2>1. Held(case[k], k, incident', links')
    BY <1>1, <1>2, HeldGrows DEF Pointed, RowsHeld
  <2>2. case'[k] = case[k] \/ Held(case'[k], k, incident', links')
    BY ResolvedRows DEF Held, EndResolve
  <2>. QED  BY <2>1, <2>2
<1>4. incident' = [j \in Incident |-> incident'[j]] /\ case' = [k \in Episode |-> case'[k]]
  BY <1>1, ResolvedRows DEF Pointed
<1>. QED  BY <1>3, <1>4 DEF Pointed, RowsHeld

\* A case that is written again by its event points at no incident.
LEMMA RepeatPoints ==
    ASSUME Pointed, NEW e \in Event, RepeatWebhook(e)
    PROVE  Pointed'
<1>1. UNCHANGED <<incident, links>>
  BY DEF RepeatWebhook
<1>2. Held(NewCase(e), Fact[e].episode, incident, links)
  BY DEF Held, NewCase
<1>. QED  BY <1>1, <1>2, RepeatedCase DEF Pointed, RowsHeld

\* Only actions of existing cases are executed.
LEMMA ExecutePoints ==
    ASSUME Pointed, Owned, NEW a \in ActionKey, Execute(a)
    PROVE  Pointed'
<1>. DEFINE k == a.case
<1>1. /\ UNCHANGED incident /\ links \subseteq links'
      /\ \E row : case' = [case EXCEPT ![k] = row] /\ row.incident = case[k].incident
  <2>1. CASE CancelBeforeExecution(a)
    <3>. DEFINE row == [case[k] EXCEPT !.state = StateFor[Recheck(a).result],
                                       !.next = Recheck(a).wake]
    <3>1. case' = [case EXCEPT ![k] = row] /\ UNCHANGED incident /\ links' = Relinked(a)
      BY <2>1 DEF CancelBeforeExecution
    <3>2. row.incident = case[k].incident
      OBVIOUS
    <3>. QED  BY <3>1, <3>2 DEF Relinked
  <2>2. CASE BeginAttempt(a)
    <3>1. case' = [case EXCEPT ![k] = Counted(case[k], a)] /\ UNCHANGED incident /\ links' = Relinked(a)
      BY <2>2 DEF BeginAttempt
    <3>2. Counted(case[k], a).incident = case[k].incident
      BY DEF Counted, Moved
    <3>. QED  BY <3>1, <3>2 DEF Relinked
  <2>3. ASSUME NEW status, NEW state, Settles(a, status, state)
        PROVE  /\ UNCHANGED <<incident, links>>
               /\ \E row : case' = [case EXCEPT ![k] = row] /\ row.incident = case[k].incident
    <3>. DEFINE row == Moved(case[k], state)
    <3>1. case' = [case EXCEPT ![k] = row] /\ UNCHANGED <<incident, links>>
      BY <2>3 DEF Settles
    <3>2. row.incident = case[k].incident
      BY DEF Moved
    <3>. QED  BY <3>1, <3>2
  <2>4. CASE RecordExecutionResult(a)
    BY <2>3, <2>4 DEF RecordExecutionResult
  <2>5. CASE RecordLookup(a)
    BY <2>3, <2>5 DEF RecordLookup
  <2>. QED  BY <2>1, <2>2, <2>4, <2>5 DEF Execute
<1>2. case[k].state # "ABSENT"
  <2>1. action[a].status # "NONE"
    BY DEF Execute, CancelBeforeExecution, BeginAttempt, RecordExecutionResult, RecordLookup
  <2>. QED  BY <2>1 DEF Owned, IsCase
<1>. QED  BY <1>1, <1>2, PointersStay DEF Pointed, RowsHeld

\* Every step keeps the pointers of the cases.
LEMMA PointedStep == Pointed /\ Coordination /\ [Next]_vars => Pointed'
<1>. SUFFICES ASSUME Pointed, Coordination, [Next]_vars  PROVE Pointed'
  OBVIOUS
<1>0. RowsHeld(case, incident, links) /\ Owned
  BY DEF Pointed, Coordination
<1>1. CASE UNCHANGED <<case, incident, links>>
  BY <1>1 DEF Pointed, RowsHeld, Held, Opened
<1>2. CASE ReevaluateDeferred
  <2>1. PICK k \in Episode :
           FirstDue(k) /\ EvaluateCase(k, case, case[k].evidence, NoApproval, truth, incident, links)
    BY <1>2 DEF ReevaluateDeferred
  <2>2. case[k].state # "ABSENT" /\ UNCHANGED incident
    BY <1>2, <2>1 DEF FirstDue, Due, IsCase, ReevaluateDeferred
  <2>3. RowsHeld(case', incident, links')
    BY <1>0, <2>1, <2>2, DecisionHolds
  <2>. QED  BY <2>2, <2>3 DEF Pointed
<1>3. ASSUME NEW k \in Episode, ApproveReview(k)
      PROVE  Pointed'
  <2>1. /\ EvaluateCase(k, case, case[k].evidence, Granted(k), truth, incident, links)
        /\ case[k].state # "ABSENT" /\ UNCHANGED incident
    BY <1>3 DEF ApproveReview, Answerable
  <2>2. RowsHeld(case', incident, links')
    BY <1>0, <2>1, DecisionHolds
  <2>. QED  BY <2>1, <2>2 DEF Pointed
<1>4. ASSUME NEW k \in Episode, CloseReview(k)
      PROVE  Pointed'
  <2>. DEFINE row == [case[k] EXCEPT !.state = "STOPPED", !.next = NoTime]
  <2>1. case' = [case EXCEPT ![k] = row] /\ case[k].state # "ABSENT"
        /\ UNCHANGED <<incident, links>>
    BY <1>4 DEF CloseReview, Answerable
  <2>2. row.incident = case[k].incident
    OBVIOUS
  <2>. QED  BY <1>0, <2>1, <2>2, PointersStay DEF RowsHeld
<1>5. ASSUME \/ Tick \/ UNCHANGED vars
             \/ \E a \in ActionKey : CloseIntervention(a)
             \/ \E i \in Incident : BeginResolve(i)
             \/ \E p \in Policy : PublishPolicy(p)
             \/ \E customer \in Customer : OptOut(customer)
      PROVE  Pointed'
  BY <1>1, <1>5 DEF Tick, vars, CloseIntervention, BeginResolve, PublishPolicy, OptOut
<1>. QED  BY <1>0, <1>2, <1>3, <1>4, <1>5, WebhookPoints, RepeatPoints, ExecutePoints,
             ResolutionPoints DEF Next

-----------------------------------------------------------------------------
(* Incidents: the theorem. *)

\* playbooks/service.py: _attach_affected_cases, active_incidents and
\* _resolve_incident.  However observation, decisions, execution checks and the two
\* steps of a resolution interleave, a case that points at an incident is linked to
\* it: the query of the next resolution of that incident finds it.
THEOREM PointersAreLinked == Spec => []PointerIsLinked
<1>1. Pointed => PointerIsLinked
  BY DEF Pointed, RowsHeld, Held, PointerIsLinked, Opened, IsCase
<1>2. Init => Pointed /\ Coordination
  BY PointedInit, CoordinationInit
<1>3. Pointed /\ Coordination /\ [Next]_vars => Pointed' /\ Coordination'
  BY PointedStep, CoordinationStep
<1>. QED  BY <1>1, <1>2, <1>3, PTL DEF Spec

-----------------------------------------------------------------------------
(* Wake times: the invariant. *)

\* The clock is running, a policy is in force, and an incident that runs ends.
Timed ==
    /\ now \in 1..MaxTime
    /\ published \subseteq Policy /\ \E p \in published : p.effective <= 1
    /\ incident = [i \in Incident |-> incident[i]]
    /\ \A i \in Incident : Running(incident, i) => incident[i].ends \in Nat

\* A case rests on evidence that has a diagnosis, and has a wake time while it is
\* deferred.
Sound(row) ==
    /\ row \in CaseRow
    /\ Diagnosed(Fact[row.evidence].category)
    /\ row.state = "DEFERRED" => row.next # NoTime

\* All cases of a merchant are sound.
RowsSound(rows) ==
    /\ rows = [k \in Episode |-> rows[k]]
    /\ \A k \in Episode : rows[k].state # "ABSENT" => Sound(rows[k])

\* The statuses of an action between its authorisation and its result.
ActionStatus == {"NONE", "PENDING", "CALLING", "SUCCEEDED", "FAILED", "UNKNOWN"}
InFlight     == {"PENDING", "CALLING"}

\* A case has at most one action that is authorised or in flight, and it does not
\* leave READY or EXECUTING before that action is settled.
Working ==
    /\ action = [a \in ActionKey |-> action[a]]
    /\ \A a \in ActionKey :
          /\ "status" \in DOMAIN action[a] /\ action[a].status \in ActionStatus
          /\ action[a].status \in InFlight => case[a.case].state \in {"READY", "EXECUTING"}
    /\ \A a, b \in ActionKey :
          action[a].status \in InFlight /\ action[b].status \in InFlight /\ a.case = b.case
          => a = b

\* Dispositions and interventions have the values their columns admit.
Inbox ==
    /\ disposition \in [Event -> {"NONE", "APPLIED", "IGNORED_STALE", "AUDIT_ONLY"}]
    /\ intervention = [a \in ActionKey |-> intervention[a]]
    /\ \A a \in ActionKey : intervention[a].status \in {"NONE", "ACTIVE", "CLOSED"}

\* An open resolution has read a moment, and cases that pointed at its incident.
Reads ==
    ~MerchantIsFree =>
        /\ resolving.at \in Nat /\ resolving.at # NoTime
        /\ \A k \in Episode : k \in resolving.released => case[k].incident # NoIncident

\* The inductive invariant of the wake times, next to Reads.
Wakeful == Timed /\ RowsSound(case) /\ Working /\ Inbox

\* What a step may do to the wake time of a case.
Forward ==
    \A k \in Episode :
       (/\ case'[k].state = "DEFERRED"
        /\ case[k].state = "DEFERRED" =>
              /\ case'[k].next # case[k].next
              /\ case'[k].incident = NoIncident => case[k].incident = NoIncident)
       => case'[k].next > now

\* There are no cases at first.
LEMMA WakefulInit == Init => Wakeful
BY PoliciesAssumption, DecisionBoundsAssumption
DEF Init, Wakeful, Timed, RowsSound, Working, Inbox, NoCase, NoRow, Running, ActionStatus, InFlight

-----------------------------------------------------------------------------
(* Wake times: decisions. *)

\* Of the published versions that are in force, the latest exists.
LEMMA PolicyInForce == ASSUME Timed PROVE EffectivePolicy \in Policy
<1>. DEFINE inForce == {p \in published : p.effective <= now}
            ages == {now - p.effective : p \in inForce}
<1>1. now \in Nat /\ now >= 1
  BY DEF Timed
<1>2. \A p \in inForce : p \in Policy /\ p.effective \in Nat /\ p.effective <= now
  BY PoliciesAssumption DEF Timed
<1>3. inForce # {}
  BY <1>1, PoliciesAssumption DEF Timed
<1>. HIDE DEF inForce
<1>4. ages \in SUBSET Nat /\ ages # {}
  BY <1>1, <1>2, <1>3
<1>5. PICK age \in ages : \A other \in ages : age <= other
  BY <1>4, LeastNat
<1>6. PICK p \in inForce : age = now - p.effective
  OBVIOUS
<1>7. ASSUME NEW q \in inForce PROVE q.effective <= p.effective
  <2>1. age <= now - q.effective
    BY <1>5
  <2>. QED  BY <1>1, <1>2, <1>6, <2>1
<1>8. EffectivePolicy \in inForce
  BY <1>7 DEF EffectivePolicy, inForce
<1>. QED  BY <1>2, <1>8

\* Every diagnosis states its confidence.
LEMMA DiagnosesConfidence ==
    ASSUME NEW cat \in Category, Diagnosed(cat)
    PROVE  Diagnoses[cat].confidence \in Confidence
<1>1. /\ 9000 \in Confidence /\ 9700 \in Confidence /\ 9300 \in Confidence /\ 9400 \in Confidence
      /\ 8800 \in Confidence /\ 3000 \in Confidence /\ 10000 \in Confidence
  BY DEF Confidence
<1>2. \A code, n, types : Entry(code, n, types).confidence = n
  BY DEF Entry
<1>3. /\ Diagnoses["INSUFFICIENT_FUNDS"].confidence = 9000
      /\ Diagnoses["EXPIRED_PAYMENT_METHOD"].confidence = 9700
      /\ Diagnoses["AUTHENTICATION_FAILURE"].confidence = 9300
      /\ Diagnoses["CUSTOMER_ACTION_REQUIRED"].confidence = 9400
  BY <1>2 DEF Diagnoses
<1>4. /\ Diagnoses["ISSUER_UNAVAILABLE"].confidence = 8800
      /\ Diagnoses["GATEWAY_UNAVAILABLE"].confidence = 9000
      /\ Diagnoses["UNKNOWN"].confidence = 3000
      /\ Diagnoses["INVOICE_OVERDUE"].confidence = 10000
      /\ Diagnoses["DISPUTE"].confidence = 10000
  BY DEF Diagnoses, Entry
<1>5. CASE cat \in {"INSUFFICIENT_FUNDS", "EXPIRED_PAYMENT_METHOD", "AUTHENTICATION_FAILURE",
                    "CUSTOMER_ACTION_REQUIRED"}
  BY <1>1, <1>3, <1>5
<1>6. CASE cat \in {"ISSUER_UNAVAILABLE", "GATEWAY_UNAVAILABLE", "UNKNOWN", "INVOICE_OVERDUE",
                    "DISPUTE"}
  BY <1>1, <1>4, <1>6
<1>. QED  BY <1>5, <1>6 DEF Category, Diagnosed

\* Advice about a diagnosis has a code, and a confidence within its bounds.
LEMMA AdviceKnown ==
    ASSUME NEW cat \in Category, Diagnosed(cat), NEW advice \in AdviceFor(Diagnoses[cat])
    PROVE  advice.code \in DiagnosisCode /\ advice.confidence \in Confidence
<1>. DEFINE d == Diagnoses[cat]
<1>1. d.code \in DiagnosisCode
  BY DEF DiagnosisCode
<1>2. d.confidence \in Confidence
  BY DiagnosesConfidence
<1>3. advice = Deterministic(d) \/ advice \in Acceptable(d)
  BY DEF AdviceFor
<1>. HIDE DEF d
<1>4. CASE advice = Deterministic(d)
  BY <1>1, <1>2, <1>4 DEF Deterministic, Advice
<1>5. CASE advice \in Acceptable(d)
  <2>1. \E types : \E code \in {d.code, ForeignCode}, confidence \in {0, d.confidence} :
           advice = Advice(code, confidence, types)
    BY <1>5 DEF Acceptable
  <2>2. ForeignCode \in DiagnosisCode /\ 0 \in Confidence
    BY DEF DiagnosisCode, Confidence
  <2>3. /\ advice.code = d.code \/ advice.code = ForeignCode
        /\ advice.confidence = 0 \/ advice.confidence = d.confidence
    BY <2>1 DEF Advice
  <2>. QED  BY <1>1, <1>2, <2>2, <2>3
<1>. QED  BY <1>3, <1>4, <1>5

\* Running incidents, as a transaction has written them, end.
Ending(inc) == \A i \in Incident : Running(inc, i) => inc[i].ends \in Nat

\* The facts of a decision and of an execution check are well timed.
LEMMA FactsWellTimed ==
    ASSUME Timed, NEW inc, Ending(inc), NEW applicable,
           \A i \in applicable : i \in Incident /\ Running(inc, i), NEW input,
           input.at = now, input.promiseDue = NoTime, input.deferUntil \in Nat,
           input.incidents = {Constraint(inc, i) : i \in applicable}
    PROVE  WellTimed(EffectivePolicy, input)
<1>1. \A i \in input.incidents : i.ends \in Nat
  BY DEF Constraint, Ending
<1>2. EffectivePolicy \in Policy
  BY PolicyInForce
<1>. QED  BY <1>1, <1>2, PoliciesAssumption DEF WellTimed, Timed, NoTime

\* A decision that defers names a later moment; the others name none.
Wakes(d) ==
    /\ d.result \in {"PROCEED", "DEFER", "SKIP", "STOP", "REQUIRE_HUMAN"}
    /\ IF d.result = "DEFER" THEN d.wake \in Nat /\ d.wake > now ELSE d.wake = NoTime

\* A decision on a case names a later moment when it defers, and none otherwise.
LEMMA DecisionWakes ==
    ASSUME Timed, NEW k, NEW rows, NEW e \in Event, NEW approval, NEW facts, NEW inc,
           NEW applicable, NEW advice, NEW order, NEW nets, Ending(inc),
           \A i \in applicable : i \in Incident /\ Running(inc, i)
    PROVE  Wakes(DecisionOn(k, rows, e, approval, facts, inc, applicable, advice, order, nets))
<1>. DEFINE input == EvaluationInput(rows, k, facts, {Constraint(inc, i) : i \in applicable},
                        Diagnoses[Fact[e].category], advice,
                        Candidates(order, Fact[e].target, nets),
                        DeferUntil(Fact[e].category, Fact[e].at), approval)
<1>1. /\ input.at = now /\ input.promiseDue = NoTime
      /\ input.deferUntil = DeferUntil(Fact[e].category, Fact[e].at)
      /\ input.incidents = {Constraint(inc, i) : i \in applicable}
  BY DEF EvaluationInput, CaseFacts
<1>2. DeferUntil(Fact[e].category, Fact[e].at) \in Nat
  BY EventsAssumption, DelayAssumption DEF DeferUntil, EventFact, NoTime
<1>. HIDE DEF input
<1>3. WellTimed(EffectivePolicy, input)
  BY <1>1, <1>2, FactsWellTimed
<1>4. Wakes(Evaluate(EffectivePolicy, input))
  BY <1>1, <1>3, DeferralsAreLater, ResultKnown DEF Wakes, Later
<1>. QED  BY <1>4 DEF DecisionOn, input

\* So does the check before an execution.
LEMMA RecheckWakes ==
    ASSUME Timed, NEW a
    PROVE  Wakes(Recheck(a))
<1>. DEFINE input == RecheckInput(a)
            applicable == Applicable(incident, links, a.case, case[a.case].diagnosis)
<1>1. /\ input.at = now /\ input.promiseDue = NoTime /\ input.deferUntil = NoTime
      /\ input.incidents = {Constraint(incident, i) : i \in applicable}
  BY DEF RecheckInput, CaseFacts
<1>2. \A i \in applicable : i \in Incident /\ Running(incident, i)
  BY DEF Applicable
<1>. HIDE DEF input, applicable
<1>3. WellTimed(EffectivePolicy, input)
  <2>1. Ending(incident) /\ NoTime \in Nat
    BY DEF Timed, Ending, NoTime
  <2>. QED  BY <1>1, <1>2, <2>1, FactsWellTimed
<1>. QED  BY <1>1, <1>3, DeferralsAreLater, ResultKnown DEF Wakes, Later, Recheck, input

\* The states of a decision: DEFERRED exactly when it defers.
LEMMA DecidedState ==
    ASSUME Timed, NEW d, Wakes(d)
    PROVE  /\ StateFor[d.result] \in CaseState \ {"ABSENT"}
           /\ d.wake \in Nat
           /\ StateFor[d.result] = "DEFERRED" <=> d.wake # NoTime
           /\ StateFor[d.result] = "DEFERRED" => d.wake > now
           /\ StateFor[d.result] = "READY" <=> d.result = "PROCEED"
           /\ StateFor[d.result] # "EXECUTING"
BY DEF Wakes, StateFor, CaseState, NoTime, Timed

\* A column of the right type leaves the row one of the table.
LEMMA RowWrites ==
    ASSUME NEW row \in CaseRow
    PROVE  /\ \A state \in CaseState \ {"ABSENT"} : [row EXCEPT !.state = state] \in CaseRow
           /\ \A next \in Nat : [row EXCEPT !.next = next] \in CaseRow
           /\ \A e \in Event : [row EXCEPT !.evidence = e] \in CaseRow
           /\ \A code \in DiagnosisCode : [row EXCEPT !.diagnosis = code] \in CaseRow
           /\ \A degree \in Confidence : [row EXCEPT !.confidence = degree] \in CaseRow
           /\ \A n \in Nat : [row EXCEPT !.retries = n] \in CaseRow
           /\ \A n \in Nat : [row EXCEPT !.contacts = n] \in CaseRow
           /\ \A i \in Incident \cup {NoIncident} : [row EXCEPT !.incident = i] \in CaseRow
<1>1. \A state \in CaseState \ {"ABSENT"} : [row EXCEPT !.state = state] \in CaseRow
  BY DEF CaseRow
<1>2. \A next \in Nat : [row EXCEPT !.next = next] \in CaseRow
  BY DEF CaseRow
<1>3. \A e \in Event : [row EXCEPT !.evidence = e] \in CaseRow
  BY DEF CaseRow
<1>4. \A code \in DiagnosisCode : [row EXCEPT !.diagnosis = code] \in CaseRow
  BY DEF CaseRow
<1>5. \A degree \in Confidence : [row EXCEPT !.confidence = degree] \in CaseRow
  BY DEF CaseRow
<1>6. \A n \in Nat : [row EXCEPT !.retries = n] \in CaseRow
  BY DEF CaseRow
<1>7. \A n \in Nat : [row EXCEPT !.contacts = n] \in CaseRow
  BY DEF CaseRow
<1>8. \A i \in Incident \cup {NoIncident} : [row EXCEPT !.incident = i] \in CaseRow
  BY DEF CaseRow
<1>. QED  BY <1>1, <1>2, <1>3, <1>4, <1>5, <1>6, <1>7, <1>8

\* What a decision writes into the row of its case.
LEMMA DecidedSound ==
    ASSUME Timed, NEW d, Wakes(d), NEW e \in Event, Diagnosed(Fact[e].category), NEW row \in CaseRow,
           NEW advice \in AdviceFor(Diagnoses[Fact[e].category]),
           NEW applicable \in SUBSET Incident
    PROVE  Sound(DecidedRow(row, d, e, advice, applicable))
<1>. DEFINE next == d.wake
            state == StateFor[d.result]
            retries == RetryCount(row, d)
            chosen == IF applicable = {} THEN row.incident ELSE CHOOSE i \in applicable : TRUE
            new == DecidedRow(row, d, e, advice, applicable)
            timed == [[row EXCEPT !.state = state] EXCEPT !.next = next]
            told == [[[timed EXCEPT !.evidence = e] EXCEPT !.diagnosis = advice.code]
                        EXCEPT !.confidence = advice.confidence]
<1>1. /\ state \in CaseState \ {"ABSENT"} /\ next \in Nat
      /\ state = "DEFERRED" <=> next # NoTime
  BY DecidedState
<1>2. advice.code \in DiagnosisCode /\ advice.confidence \in Confidence
  <2>1. Fact[e].category \in Category
    BY EventsAssumption DEF EventFact
  <2>. QED  BY <2>1, AdviceKnown
<1>3. chosen \in Incident \cup {NoIncident} /\ retries \in Nat
  BY DEF CaseRow, RetryCount
<1>4. new = [row EXCEPT !.state = state, !.next = next, !.evidence = e,
                        !.diagnosis = advice.code, !.confidence = advice.confidence,
                        !.retries = retries, !.incident = chosen]
  BY DEF DecidedRow
<1>. HIDE DEF state, next, retries, chosen, new
<1>5. new = [[told EXCEPT !.retries = retries] EXCEPT !.incident = chosen]
  BY <1>4
<1>6. timed \in CaseRow
  BY <1>1, RowWrites
<1>. HIDE DEF timed
<1>7. told \in CaseRow
  <2>1. [timed EXCEPT !.evidence = e] \in CaseRow
    BY <1>6, RowWrites
  <2>2. [[timed EXCEPT !.evidence = e] EXCEPT !.diagnosis = advice.code] \in CaseRow
    BY <1>2, <2>1, RowWrites
  <2>. QED  BY <1>2, <2>2, RowWrites
<1>. HIDE DEF told
<1>8. [told EXCEPT !.retries = retries] \in CaseRow
  BY <1>3, <1>7, RowWrites
<1>9. new \in CaseRow
  BY <1>3, <1>5, <1>8, RowWrites
<1>10. new.state = state /\ new.next = next /\ new.evidence = e
  BY <1>4 DEF CaseRow
<1>. QED  BY <1>1, <1>9, <1>10 DEF Sound, new

-----------------------------------------------------------------------------
(* Wake times: what a decision leaves behind. *)

\* The incidents that a decision finds running.
LEMMA ApplicableRun ==
    ASSUME NEW inc, NEW lks, NEW k, NEW code
    PROVE  \A i \in Applicable(inc, lks, k, code) : i \in Incident /\ Running(inc, i)
BY DEF Applicable

\* The row of the decided case is sound, and wakes later when it is deferred.
LEMMA EvaluatedRow ==
    ASSUME Timed, NEW k \in Episode, NEW rows, RowsSound(rows), rows[k].state # "ABSENT",
           NEW e \in Event, Diagnosed(Fact[e].category), NEW approval, NEW facts,
           NEW inc, NEW lks, Ending(inc),
           EvaluateCase(k, rows, e, approval, facts, inc, lks)
    PROVE  \E row, decision :
              /\ Sound(row) /\ row.evidence = e
              /\ row.customer = rows[k].customer /\ row.contacts = rows[k].contacts
              /\ row.state = "DEFERRED" => row.next > now
              /\ decision.result = "PROCEED" => row.state = "READY"
              /\ case' = [rows EXCEPT ![k] = row]
              /\ action' = IF decision.result = "PROCEED"
                           THEN Stored(Authorises(k, decision), decision, approval) ELSE action
              /\ \/ intervention' = Coordinated(rows, k)
                 \/ intervention' = StoredIntervention(rows, Authorises(k, decision))
<1>1. PICK advice, order, nets :
         /\ advice \in AdviceFor(Diagnoses[Fact[e].category])
         /\ LET applicable == Applicable(inc, lks, k, advice.code)
            IN  RecordDecision(k, rows, e, approval, lks, applicable, advice,
                    DecisionOn(k, rows, e, approval, facts, inc, applicable, advice, order, nets))
  BY DEF EvaluateCase
<1>. DEFINE applicable == Applicable(inc, lks, k, advice.code)
            d == DecisionOn(k, rows, e, approval, facts, inc, applicable, advice, order, nets)
            row == DecidedRow(rows[k], d, e, advice, applicable)
<1>2. applicable \in SUBSET Incident /\ \A i \in applicable : i \in Incident /\ Running(inc, i)
  BY ApplicableRun
<1>3. Wakes(d)
  <2>. HIDE DEF applicable
  <2>. QED  BY <1>2, DecisionWakes
<1>4. /\ case' = [rows EXCEPT ![k] = row]
      /\ action' = IF d.result = "PROCEED" THEN Stored(Authorises(k, d), d, approval) ELSE action
      /\ \/ intervention' = Coordinated(rows, k)
         \/ intervention' = StoredIntervention(rows, Authorises(k, d))
  BY <1>1 DEF RecordDecision
<1>5. /\ row.state = StateFor[d.result] /\ row.next = d.wake /\ row.evidence = e
      /\ row.customer = rows[k].customer /\ row.contacts = rows[k].contacts
  BY DEF DecidedRow, RowsSound, Sound, CaseRow
<1>. HIDE DEF d, applicable
<1>6. rows[k] \in CaseRow
  BY DEF RowsSound, Sound
<1>7. Sound(row)
  BY <1>1, <1>2, <1>3, <1>6, DecidedSound
<1>. HIDE DEF row
<1>8. row.state = "DEFERRED" => row.next > now
  BY <1>3, <1>5, DecidedState
<1>9. d.result = "PROCEED" => row.state = "READY"
  BY <1>3, <1>5, DecidedState
<1>. QED  BY <1>4, <1>5, <1>7, <1>8, <1>9

\* A decision on a case without work keeps the rows, the outbox and the contacts.
LEMMA EvaluateWakes ==
    ASSUME Wakeful, NEW k \in Episode, NEW rows, RowsSound(rows), rows[k].state # "ABSENT",
           case[k].state \notin {"READY", "EXECUTING"},
           \A j \in Episode \ {k} : rows[j].state = case[j].state /\ rows[j].next = case[j].next,
           NEW e \in Event, Diagnosed(Fact[e].category), NEW approval, NEW facts,
           NEW inc, NEW lks, Ending(inc),
           EvaluateCase(k, rows, e, approval, facts, inc, lks)
    PROVE  /\ RowsSound(case') /\ Forward /\ Working'
           /\ intervention' = [a \in ActionKey |-> intervention'[a]]
           /\ \A a \in ActionKey : intervention'[a].status \in {"NONE", "ACTIVE", "CLOSED"}
<1>1. PICK row, decision :
              /\ Sound(row)
              /\ row.state = "DEFERRED" => row.next > now
              /\ decision.result = "PROCEED" => row.state = "READY"
              /\ case' = [rows EXCEPT ![k] = row]
              /\ action' = IF decision.result = "PROCEED"
                           THEN Stored(Authorises(k, decision), decision, approval) ELSE action
              /\ \/ intervention' = Coordinated(rows, k)
                 \/ intervention' = StoredIntervention(rows, Authorises(k, decision))
  BY EvaluatedRow DEF Wakeful
<1>. DEFINE a == Authorises(k, decision)
<1>2. a.case = k
  BY DEF Authorises
<1>. HIDE DEF a
<1>3. /\ case' = [j \in Episode |-> case'[j]] /\ case'[k] = row
      /\ \A j \in Episode \ {k} : case'[j] = rows[j]
  BY <1>1 DEF RowsSound
<1>4. RowsSound(case')
  BY <1>1, <1>3 DEF RowsSound
<1>5. Forward
  BY <1>1, <1>3 DEF Forward
<1>6. /\ action' = [b \in ActionKey |-> action'[b]]
      /\ \A b \in ActionKey :
            \/ action'[b] = action[b]
            \/ /\ b = a /\ row.state = "READY"
               /\ "status" \in DOMAIN action'[b] /\ action'[b].status = "PENDING"
  BY <1>1 DEF Stored, Wakeful, Working, a
<1>7. \A b \in ActionKey : b.case = k => action[b].status \notin InFlight
  BY DEF Wakeful, Working
<1>8. Working'
  <2>1. \A b \in ActionKey :
           /\ "status" \in DOMAIN action'[b] /\ action'[b].status \in ActionStatus
           /\ action'[b].status \in InFlight => case'[b.case].state \in {"READY", "EXECUTING"}
    <3>. SUFFICES ASSUME NEW b \in ActionKey
                  PROVE  /\ "status" \in DOMAIN action'[b] /\ action'[b].status \in ActionStatus
                         /\ action'[b].status \in InFlight =>
                               case'[b.case].state \in {"READY", "EXECUTING"}
      OBVIOUS
    <3>1. CASE action'[b] = action[b]
      <4>1. action[b].status \in InFlight => b.case \in Episode \ {k}
        BY <1>7, KeyCase
      <4>. QED  BY <1>3, <3>1, <4>1 DEF Wakeful, Working
    <3>2. CASE /\ b = a /\ row.state = "READY"
               /\ "status" \in DOMAIN action'[b] /\ action'[b].status = "PENDING"
      BY <1>2, <1>3, <3>2 DEF ActionStatus
    <3>. QED  BY <1>6, <3>1, <3>2
  <2>2. ASSUME NEW b \in ActionKey, NEW c \in ActionKey, action'[b].status \in InFlight,
               action'[c].status \in InFlight, b.case = c.case
        PROVE  b = c
    <3>1. CASE b.case = k
      BY <1>6, <1>7, <2>2, <3>1
    <3>2. CASE b.case # k
      BY <1>2, <1>6, <2>2, <3>2 DEF Wakeful, Working
    <3>. QED  BY <3>1, <3>2
  <2>. QED  BY <1>6, <2>1, <2>2 DEF Working
<1>9. Coordinated(rows, k) = [b \in ActionKey |-> Coordinated(rows, k)[b]]
      /\ \A b \in ActionKey : Coordinated(rows, k)[b].status = intervention[b].status
  BY DEF Coordinated, Wakeful, Inbox
<1>10. /\ intervention' = [b \in ActionKey |-> intervention'[b]]
       /\ \A b \in ActionKey : \/ intervention'[b].status = intervention[b].status
                               \/ intervention'[b].status = "ACTIVE"
  <2>1. CASE intervention' = Coordinated(rows, k)
    BY <1>9, <2>1
  <2>2. CASE intervention' = StoredIntervention(rows, a)
    BY <1>2, <1>9, <2>2 DEF StoredIntervention
  <2>. QED  BY <1>1, <2>1, <2>2 DEF a
<1>. QED  BY <1>4, <1>5, <1>8, <1>10 DEF Wakeful, Inbox

-----------------------------------------------------------------------------
(* Wake times: steps. *)

\* A row that moves on, while no work of its case is in flight that its state
\* does not allow.
LEMMA RowWakes ==
    ASSUME Wakeful, NEW k \in Episode, NEW row, case' = [case EXCEPT ![k] = row], Sound(row),
           row.state = "DEFERRED" => row.next > now,
           action' = [a \in ActionKey |-> action'[a]],
           \A a \in ActionKey :
              /\ "status" \in DOMAIN action'[a] /\ action'[a].status \in ActionStatus
              /\ action'[a].status \in InFlight =>
                    /\ action[a].status \in InFlight
                    /\ a.case = k => row.state \in {"READY", "EXECUTING"},
           UNCHANGED <<now, disposition, incident, intervention, published>>
    PROVE  Wakeful' /\ Forward
<1>1. /\ case' = [j \in Episode |-> case'[j]] /\ case'[k] = row
      /\ \A j \in Episode \ {k} : case'[j] = case[j]
  BY DEF Wakeful, RowsSound
<1>2. RowsSound(case')
  BY <1>1 DEF Wakeful, RowsSound
<1>3. Forward
  BY <1>1 DEF Forward
<1>4. Working'
  <2>1. ASSUME NEW a \in ActionKey, action'[a].status \in InFlight
        PROVE  case'[a.case].state \in {"READY", "EXECUTING"}
    <3>1. CASE a.case = k
      BY <1>1, <2>1, <3>1
    <3>2. CASE a.case # k
      BY <1>1, <2>1, <3>2, KeyCase DEF Wakeful, Working
    <3>. QED  BY <3>1, <3>2
  <2>2. \A a, c \in ActionKey :
           action'[a].status \in InFlight /\ action'[c].status \in InFlight /\ a.case = c.case
           => a = c
    BY DEF Wakeful, Working
  <2>. QED  BY <2>1, <2>2 DEF Working
<1>5. Timed' /\ Inbox'
  BY DEF Wakeful, Timed, Inbox, Running
<1>. QED  BY <1>2, <1>3, <1>4, <1>5 DEF Wakeful, RowsSound

\* The incident observation changes no state and no wake time of a case.
LEMMA MarkedSound ==
    ASSUME RowsSound(case), NEW degraded \in SUBSET Incident
    PROVE  /\ RowsSound(Marked(degraded))
           /\ \A k \in Episode : /\ Marked(degraded)[k].state = case[k].state
                                 /\ Marked(degraded)[k].next = case[k].next
<1>. DEFINE pointed(k) == CHOOSE i \in degraded : k \in Attached(i)
<1>1. ASSUME NEW k \in Episode
      PROVE  \/ Marked(degraded)[k] = case[k]
             \/ IsCase(k) /\ \E i \in Incident : Marked(degraded)[k] = [case[k] EXCEPT !.incident = i]
  <2>1. (\E i \in degraded : k \in Attached(i)) => pointed(k) \in Incident
    OBVIOUS
  <2>. HIDE DEF pointed
  <2>2. Marked(degraded)[k] =
           IF IsCase(k) /\ case[k].incident = NoIncident /\ \E i \in degraded : k \in Attached(i)
           THEN [case[k] EXCEPT !.incident = pointed(k)] ELSE case[k]
    BY DEF Marked, pointed
  <2>. QED  BY <2>1, <2>2
<1>2. ASSUME NEW k \in Episode, IsCase(k), NEW i \in Incident
      PROVE  LET row == [case[k] EXCEPT !.incident = i]
             IN  Sound(row) /\ row.state = case[k].state /\ row.next = case[k].next
  <2>1. Sound(case[k])
    BY <1>2 DEF RowsSound, IsCase
  <2>. DEFINE row == [case[k] EXCEPT !.incident = i]
  <2>2. row \in CaseRow
    BY <2>1, RowWrites DEF Sound
  <2>3. row.state = case[k].state /\ row.next = case[k].next /\ row.evidence = case[k].evidence
    OBVIOUS
  <2>. HIDE DEF row
  <2>. QED  BY <2>1, <2>2, <2>3 DEF Sound, row
<1>3. \A k \in Episode : /\ Marked(degraded)[k].state = case[k].state
                         /\ Marked(degraded)[k].next = case[k].next
                         /\ IsCase(k) => Sound(Marked(degraded)[k])
  <2>. SUFFICES ASSUME NEW k \in Episode
                PROVE  /\ Marked(degraded)[k].state = case[k].state
                       /\ Marked(degraded)[k].next = case[k].next
                       /\ IsCase(k) => Sound(Marked(degraded)[k])
    OBVIOUS
  <2>1. CASE Marked(degraded)[k] = case[k]
    BY <2>1 DEF RowsSound, IsCase
  <2>2. CASE IsCase(k) /\ \E i \in Incident : Marked(degraded)[k] = [case[k] EXCEPT !.incident = i]
    <3>1. PICK i \in Incident : Marked(degraded)[k] = [case[k] EXCEPT !.incident = i]
      BY <2>2
    <3>2. LET row == [case[k] EXCEPT !.incident = i]
          IN  Sound(row) /\ row.state = case[k].state /\ row.next = case[k].next
      BY <1>2, <2>2
    <3>. QED  BY <3>1, <3>2
  <2>. QED  BY <1>1, <2>1, <2>2
<1>4. Marked(degraded) = [k \in Episode |-> Marked(degraded)[k]]
  BY DEF Marked
<1>. QED  BY <1>3, <1>4 DEF RowsSound, IsCase

\* The row of an episode that has no case yet.
LEMMA NewCaseSound ==
    ASSUME NEW e \in Event, Diagnosed(Fact[e].category)
    PROVE  /\ Fact[e].episode \in Episode
           /\ Sound(NewCase(e)) /\ NewCase(e).state = "DETECTED"
<1>1. Fact[e].episode \in Episode
  BY DEF Episode
<1>2. /\ Fact[e].subject \in Subject /\ Fact[e].customer \in Customer \cup {NoCustomer}
      /\ Fact[e].amount \in Nat
  BY EventsAssumption DEF EventFact, Subject
<1>3. "NONE" \in DiagnosisCode /\ 0 \in Confidence /\ NoTime \in Nat
  BY DEF DiagnosisCode, Confidence, NoTime
<1>4. "DETECTED" \in CaseState \ {"ABSENT"}
  BY DEF CaseState
<1>5. NewCase(e) \in CaseRow
  BY <1>2, <1>3, <1>4 DEF NewCase, CaseRow
<1>. QED  BY <1>1, <1>5 DEF Sound, NewCase

\* It is opened among the rows of the incident observation.
LEMMA OpenedSound ==
    ASSUME RowsSound(case), NEW degraded \in SUBSET Incident, NEW e \in Event,
           Diagnosed(Fact[e].category)
    PROVE  LET k == Fact[e].episode
               rows == [Marked(degraded) EXCEPT ![k] = NewCase(e)]
           IN  /\ RowsSound(rows) /\ rows[k].state # "ABSENT"
               /\ \A j \in Episode \ {k} : rows[j].state = case[j].state /\ rows[j].next = case[j].next
BY NewCaseSound, MarkedSound DEF RowsSound

\* Webhooks observe incidents that end.
LEMMA ObservedTimed ==
    ASSUME Wakeful, NEW e \in Event, NEW degraded, Prepared(e, degraded)
    PROVE  /\ Timed' /\ Ending(incident')
           /\ disposition' \in [Event -> {"NONE", "APPLIED", "IGNORED_STALE", "AUDIT_ONLY"}]
           /\ disposition'[e] = "APPLIED" => Diagnosed(Fact[e].category)
<1>1. /\ incident' = Degrade(degraded) /\ UNCHANGED <<now, published>>
      /\ disposition' = [disposition EXCEPT ![e] = DispositionOf(e, truth')]
  BY DEF Prepared
<1>2. now + IncidentTtl \in Nat
  BY DecisionBoundsAssumption DEF Wakeful, Timed
<1>3. /\ incident' = [i \in Incident |-> incident'[i]]
      /\ \A i \in Incident : Running(incident', i) => incident'[i].ends \in Nat
  <2>. DEFINE opened(i) == [status |-> "ACTIVE", ends |-> now + IncidentTtl,
                            starts |-> IF Running(incident, i) THEN incident[i].starts ELSE now]
  <2>1. \A i \in Incident : opened(i).ends \in Nat
    BY <1>2
  <2>2. incident' = [i \in Incident |-> IF i \notin degraded THEN incident[i] ELSE opened(i)]
    BY <1>1 DEF Degrade
  <2>. HIDE DEF opened
  <2>. QED  BY <2>1, <2>2 DEF Wakeful, Timed, Running
<1>4. DispositionOf(e, truth') \in {"APPLIED", "IGNORED_STALE", "AUDIT_ONLY"}
  BY DEF DispositionOf
<1>5. DispositionOf(e, truth') = "APPLIED" => Diagnosed(Fact[e].category)
  BY DEF DispositionOf
<1>. HIDE DEF DispositionOf
<1>. QED  BY <1>1, <1>3, <1>4, <1>5 DEF Wakeful, Timed, Inbox, Ending

\* A signed event may write several cases, and each is sound after it.
LEMMA WebhookWakes ==
    ASSUME Wakeful, NEW e \in Event, ProcessWebhook(e)
    PROVE  Wakeful' /\ Forward
<1>1. CASE LinkEvidence(e)
  <2>1. PICK degraded \in SUBSET Related(e) :
           /\ Prepared(e, degraded) /\ case' = Marked(degraded)
           /\ UNCHANGED <<action, intervention>>
    BY <1>1 DEF LinkEvidence
  <2>2. degraded \in SUBSET Incident
    BY DEF Related
  <2>3. RowsSound(case') /\ \A k \in Episode : /\ case'[k].state = case[k].state
                                               /\ case'[k].next = case[k].next
    BY <2>1, <2>2, MarkedSound DEF Wakeful
  <2>4. Working'
    BY <2>1, <2>3, KeyCase DEF Wakeful, Working
  <2>5. Forward
    BY <2>3 DEF Forward
  <2>6. Timed' /\ Inbox'
    BY <2>1, ObservedTimed DEF Wakeful, Inbox
  <2>. QED  BY <2>3, <2>4, <2>5, <2>6 DEF Wakeful, RowsSound
<1>2. CASE OpenCase(e)
  <2>1. PICK degraded \in SUBSET Related(e) :
           /\ Prepared(e, degraded) /\ disposition'[e] = "APPLIED" /\ CasesFor(e) = {}
           /\ EvaluateCase(Fact[e].episode,
                  [Marked(degraded) EXCEPT ![Fact[e].episode] = NewCase(e)], e, NoApproval, truth',
                  incident', links \cup LinkedBy(degraded))
    BY <1>2 DEF OpenCase
  <2>2. degraded \in SUBSET Incident /\ Fact[e].episode \in Episode
    BY DEF Related, Episode
  <2>3. case[Fact[e].episode].state = "ABSENT"
    BY <2>1 DEF CasesFor, IsCase
  <2>4. Timed' /\ Ending(incident') /\ Diagnosed(Fact[e].category)
        /\ disposition' \in [Event -> {"NONE", "APPLIED", "IGNORED_STALE", "AUDIT_ONLY"}]
    BY <2>1, ObservedTimed
  <2>5. LET rows == [Marked(degraded) EXCEPT ![Fact[e].episode] = NewCase(e)]
        IN  /\ RowsSound(rows) /\ rows[Fact[e].episode].state # "ABSENT"
            /\ \A j \in Episode \ {Fact[e].episode} :
                  rows[j].state = case[j].state /\ rows[j].next = case[j].next
    BY <2>2, <2>4, OpenedSound DEF Wakeful
  <2>. QED  BY <2>1, <2>2, <2>3, <2>4, <2>5, EvaluateWakes DEF Wakeful, Inbox, RowsSound
<1>3. CASE ApplyEvidence(e)
  <2>1. PICK degraded \in SUBSET Related(e), k \in CasesFor(e) :
           /\ Prepared(e, degraded) /\ disposition'[e] = "APPLIED" /\ case[k].state \in Decidable
           /\ EvaluateCase(k, Marked(degraded), e, NoApproval, truth', incident',
                           links \cup LinkedBy(degraded))
    BY <1>3 DEF ApplyEvidence
  <2>2. degraded \in SUBSET Incident /\ k \in Episode /\ case[k].state \notin {"ABSENT", "READY", "EXECUTING"}
    BY <2>1 DEF Related, CasesFor, Episode, Decidable
  <2>3. Timed' /\ Ending(incident') /\ Diagnosed(Fact[e].category)
        /\ disposition' \in [Event -> {"NONE", "APPLIED", "IGNORED_STALE", "AUDIT_ONLY"}]
    BY <2>1, ObservedTimed
  <2>4. /\ RowsSound(Marked(degraded)) /\ Marked(degraded)[k].state # "ABSENT"
        /\ \A j \in Episode \ {k} : /\ Marked(degraded)[j].state = case[j].state
                                    /\ Marked(degraded)[j].next = case[j].next
    BY <2>2, MarkedSound DEF Wakeful
  <2>. QED  BY <2>1, <2>2, <2>3, <2>4, EvaluateWakes DEF Wakeful, Inbox, RowsSound
<1>. QED  BY <1>1, <1>2, <1>3 DEF ProcessWebhook

\* A row that moves to a state that is not deferred.
LEMMA MovedRow ==
    ASSUME NEW row \in CaseRow, NEW state \in CaseState \ {"ABSENT", "DEFERRED"}
    PROVE  /\ Moved(row, state) \in CaseRow
           /\ Moved(row, state).state = state /\ Moved(row, state).evidence = row.evidence
<1>. DEFINE next == IF row.state = state THEN row.next ELSE NoTime
            stated == [row EXCEPT !.state = state]
<1>1. next \in Nat
  BY DEF CaseRow, NoTime
<1>2. stated \in CaseRow
  BY RowWrites
<1>3. Moved(row, state) = [stated EXCEPT !.next = next]
  BY DEF Moved
<1>4. Moved(row, state).state = state /\ Moved(row, state).evidence = row.evidence
  BY DEF Moved, CaseRow
<1>. HIDE DEF stated, next
<1>. QED  BY <1>1, <1>2, <1>3, <1>4, RowWrites

\* An execution check moves the case of its action, and settles its work.
LEMMA ExecuteWakes ==
    ASSUME Wakeful, NEW a \in ActionKey, Execute(a)
    PROVE  Wakeful' /\ Forward
<1>0. action = [b \in ActionKey |-> action[b]] /\ \A b \in ActionKey : "status" \in DOMAIN action[b]
  BY DEF Wakeful, Working
<1>1. /\ action = [b \in ActionKey |-> action[b]] /\ a.case \in Episode
      /\ case[a.case].state # "ABSENT" => Sound(case[a.case]) /\ case[a.case] \in CaseRow
      /\ \A b \in ActionKey : action[b].status \in ActionStatus
  BY KeyCase DEF Wakeful, Working, RowsSound, Sound
<1>2. action[a].status \in InFlight =>
         /\ case[a.case].state \in {"READY", "EXECUTING"}
         /\ \A b \in ActionKey : b # a /\ b.case = a.case => action[b].status \notin InFlight
  BY DEF Wakeful, Working
<1>3. CASE CancelBeforeExecution(a)
  <2>. DEFINE d == Recheck(a)
              row == [[case[a.case] EXCEPT !.state = StateFor[d.result]] EXCEPT !.next = d.wake]
  <2>1. /\ action' = [action EXCEPT ![a].status = "FAILED"] /\ action[a].status = "PENDING"
        /\ case[a.case].state \in {"READY", "EXECUTING"}
        /\ case' = [case EXCEPT ![a.case].state = StateFor[d.result], ![a.case].next = d.wake]
        /\ UNCHANGED <<now, disposition, incident, intervention, published>>
    BY <1>3 DEF CancelBeforeExecution, Executable
  <2>2. /\ StateFor[d.result] \in CaseState \ {"ABSENT"} /\ d.wake \in Nat
        /\ StateFor[d.result] = "DEFERRED" <=> d.wake # NoTime
        /\ StateFor[d.result] = "DEFERRED" => d.wake > now
    BY RecheckWakes, DecidedState DEF Wakeful
  <2>3. case' = [case EXCEPT ![a.case] = row]
    BY <2>1
  <2>. HIDE DEF d
  <2>4. row \in CaseRow
    BY <1>1, <2>1, <2>2, RowWrites
  <2>5. row.state = StateFor[d.result] /\ row.next = d.wake /\ row.evidence = case[a.case].evidence
    BY <1>1, <2>1 DEF CaseRow
  <2>6. /\ action' = [b \in ActionKey |-> action'[b]]
        /\ \A b \in ActionKey \ {a} : action'[b] = action[b]
        /\ "status" \in DOMAIN action'[a] /\ action'[a].status = "FAILED"
    <3>1. action' = [action EXCEPT ![a].status = "FAILED"]
      BY <1>3 DEF CancelBeforeExecution
    <3>. QED  BY <1>0, <3>1
  <2>. HIDE DEF row
  <2>7. Sound(row) /\ (row.state = "DEFERRED" => row.next > now)
    BY <1>1, <2>1, <2>2, <2>4, <2>5 DEF Sound
  <2>8. \A b \in ActionKey :
           /\ "status" \in DOMAIN action'[b] /\ action'[b].status \in ActionStatus
           /\ action'[b].status \in InFlight => action[b].status \in InFlight /\ b.case # a.case
    BY <1>0, <1>1, <1>2, <2>1, <2>6 DEF ActionStatus, InFlight
  <2>9. \A b \in ActionKey :
           /\ "status" \in DOMAIN action'[b] /\ action'[b].status \in ActionStatus
           /\ action'[b].status \in InFlight =>
                 /\ action[b].status \in InFlight
                 /\ b.case = a.case => row.state \in {"READY", "EXECUTING"}
    BY <2>8
  <2>10. a.case \in Episode /\ action' = [b \in ActionKey |-> action'[b]]
         /\ UNCHANGED <<now, disposition, incident, intervention, published>>
    BY <1>1, <2>1, <2>6
  <2>. QED  BY <2>3, <2>7, <2>9, <2>10, RowWakes
<1>4. CASE BeginAttempt(a)
  <2>. DEFINE row == Counted(case[a.case], a)
              moved == Moved(case[a.case], "EXECUTING")
              retries == moved.retries + (IF ActionClasses[a.type] = "RETRY" THEN 1 ELSE 0)
              contacts == moved.contacts
                             + (IF ActionClasses[a.type] = "CUSTOMER_CONTACT" THEN 1 ELSE 0)
  <2>1. /\ action' = [action EXCEPT ![a].status = "CALLING", ![a].attempts = @ + 1]
        /\ action[a].status = "PENDING" /\ case[a.case].state \in {"READY", "EXECUTING"}
        /\ case' = [case EXCEPT ![a.case] = row]
        /\ UNCHANGED <<now, disposition, incident, intervention, published>>
    BY <1>4 DEF BeginAttempt, Executable
  <2>2. row = [[moved EXCEPT !.retries = retries] EXCEPT !.contacts = contacts]
    BY DEF Counted
  <2>3. moved \in CaseRow /\ moved.state = "EXECUTING" /\ moved.evidence = case[a.case].evidence
    <3>1. "EXECUTING" \in CaseState \ {"ABSENT", "DEFERRED"} /\ case[a.case] \in CaseRow
      BY <1>1, <2>1 DEF CaseState
    <3>. QED  BY <3>1, MovedRow
  <2>. HIDE DEF row, moved
  <2>4. retries \in Nat /\ contacts \in Nat
    BY <2>3 DEF CaseRow
  <2>. HIDE DEF retries, contacts
  <2>5. row \in CaseRow /\ row.state = "EXECUTING" /\ row.evidence = case[a.case].evidence
    <3>. DEFINE counted == [moved EXCEPT !.retries = retries]
    <3>1. counted \in CaseRow
      BY <2>3, <2>4, RowWrites
    <3>2. counted.state = "EXECUTING" /\ counted.evidence = case[a.case].evidence
      BY <2>3 DEF CaseRow
    <3>3. row = [counted EXCEPT !.contacts = contacts]
      BY <2>2
    <3>. HIDE DEF counted
    <3>. QED  BY <2>4, <3>1, <3>2, <3>3, RowWrites DEF CaseRow
  <2>6. /\ action' = [b \in ActionKey |-> action'[b]]
        /\ \A b \in ActionKey \ {a} : action'[b] = action[b]
        /\ "status" \in DOMAIN action'[a] /\ action'[a].status = "CALLING"
    <3>1. action' = [action EXCEPT ![a].status = "CALLING", ![a].attempts = @ + 1]
      BY <1>4 DEF BeginAttempt
    <3>. QED  BY <1>0, <3>1
  <2>7. Sound(row)
    BY <1>1, <2>1, <2>5 DEF Sound
  <2>8. \A b \in ActionKey :
           /\ "status" \in DOMAIN action'[b] /\ action'[b].status \in ActionStatus
           /\ action'[b].status \in InFlight => action[b].status \in InFlight
    BY <1>0, <1>1, <1>2, <2>1, <2>6 DEF ActionStatus, InFlight
  <2>. QED  BY <1>1, <2>1, <2>5, <2>6, <2>7, <2>8, RowWakes
<1>5. ASSUME NEW status \in ActionStatus, NEW state \in CaseState \ {"ABSENT", "DEFERRED"},
             Settles(a, status, state), case[a.case].state \notin {"ABSENT", "DEFERRED"},
             \A b \in ActionKey : b # a /\ b.case = a.case => action[b].status \notin InFlight,
             status \in InFlight => action[a].status \in InFlight /\ state = "EXECUTING"
      PROVE  Wakeful' /\ Forward
  <2>. DEFINE row == Moved(case[a.case], state)
  <2>1. /\ action' = [action EXCEPT ![a].status = status]
        /\ case' = [case EXCEPT ![a.case] = row]
        /\ UNCHANGED <<now, disposition, incident, intervention, published>>
    BY <1>5 DEF Settles
  <2>2. row \in CaseRow /\ row.state = state /\ row.evidence = case[a.case].evidence
    BY <1>1, <1>5, MovedRow
  <2>4. /\ action' = [b \in ActionKey |-> action'[b]]
        /\ \A b \in ActionKey \ {a} : action'[b] = action[b]
        /\ "status" \in DOMAIN action'[a] /\ action'[a].status = status
    <3>1. action' = [action EXCEPT ![a].status = status]
      BY <1>5 DEF Settles
    <3>. QED  BY <1>0, <3>1
  <2>. HIDE DEF row
  <2>5. Sound(row) /\ row.state # "DEFERRED"
    BY <1>1, <1>5, <2>2 DEF Sound
  <2>6. \A b \in ActionKey :
           /\ "status" \in DOMAIN action'[b] /\ action'[b].status \in ActionStatus
           /\ action'[b].status \in InFlight =>
                 /\ action[b].status \in InFlight
                 /\ b.case = a.case => row.state \in {"READY", "EXECUTING"}
    BY <1>0, <1>1, <1>5, <2>2, <2>4
  <2>. QED  BY <1>1, <2>1, <2>4, <2>5, <2>6, RowWakes
<1>6. CASE RecordExecutionResult(a)
  <2>1. action[a].status \in InFlight
        /\ \/ Settles(a, "PENDING", "EXECUTING") \/ Settles(a, "SUCCEEDED", "VERIFYING")
           \/ Settles(a, "UNKNOWN", "UNKNOWN") \/ Settles(a, "FAILED", "DECISION_PENDING")
    BY <1>6 DEF RecordExecutionResult, InFlight
  <2>. QED  BY <1>2, <1>5, <2>1 DEF ActionStatus, InFlight, CaseState
<1>7. CASE RecordLookup(a)
  <2>1. case[a.case].state \in {"VERIFYING", "UNKNOWN"}
        /\ \/ Settles(a, "SUCCEEDED", "VERIFYING") \/ Settles(a, "UNKNOWN", "ESCALATED")
           \/ Settles(a, "SUCCEEDED", "RECOVERED") \/ Settles(a, "FAILED", "DECISION_PENDING")
    BY <1>7 DEF RecordLookup
  <2>2. \A b \in ActionKey : b # a /\ b.case = a.case => action[b].status \notin InFlight
    BY <2>1 DEF Wakeful, Working
  <2>. QED  BY <1>5, <2>1, <2>2 DEF ActionStatus, InFlight, CaseState
<1>. QED  BY <1>3, <1>4, <1>6, <1>7 DEF Execute

\* The resolution of an incident wakes only cases that it lets go of.
LEMMA ResolveWakes ==
    ASSUME Wakeful, Reads, EndResolve
    PROVE  Wakeful' /\ Forward
<1>1. /\ incident' = [incident EXCEPT ![resolving.incident].status = "RESOLVED"]
      /\ UNCHANGED <<now, disposition, action, intervention, published>>
      /\ ~MerchantIsFree
  BY DEF EndResolve
<1>2. ASSUME NEW k \in Episode, NEW next, next \in Nat, next # NoTime \/ next = case[k].next,
             case'[k] = [case[k] EXCEPT !.incident = NoIncident, !.next = next]
      PROVE  case'[k].state = case[k].state /\ (case[k].state # "ABSENT" => Sound(case'[k]))
  <2>1. case'[k].state = case[k].state
    BY <1>2
  <2>. SUFFICES ASSUME case[k].state # "ABSENT" PROVE Sound(case'[k])
    BY <2>1
  <2>2. Sound(case[k]) /\ case[k] \in CaseRow
    BY DEF Wakeful, RowsSound, Sound
  <2>. DEFINE released == [case[k] EXCEPT !.incident = NoIncident]
  <2>3. released \in CaseRow
    BY <2>2, RowWrites
  <2>4. case'[k] = [released EXCEPT !.next = next]
    BY <1>2
  <2>. HIDE DEF released
  <2>5. case'[k] \in CaseRow
    BY <1>2, <2>3, <2>4, RowWrites
  <2>6. case'[k].evidence = case[k].evidence /\ case'[k].next = next
    BY <1>2, <2>2 DEF CaseRow
  <2>. QED  BY <1>2, <2>1, <2>2, <2>5, <2>6 DEF Sound
<1>3. ASSUME NEW k \in Episode
      PROVE  /\ case'[k].state = case[k].state
             /\ case[k].state # "ABSENT" => Sound(case'[k])
             /\ case'[k] = case[k] \/ k \in resolving.released
  <2>1. CASE case'[k] = case[k]
    BY <2>1 DEF Wakeful, RowsSound
  <2>2. CASE k \in resolving.released /\ k \in resolving.woken
    <3>1. case'[k] = [case[k] EXCEPT !.incident = NoIncident, !.next = resolving.at]
      BY <2>2, ResolvedRows
    <3>2. resolving.at \in Nat /\ resolving.at # NoTime
      BY <1>1 DEF Reads
    <3>. QED  BY <1>2, <2>2, <3>1, <3>2
  <2>3. CASE k \in resolving.released /\ k \notin resolving.woken
    <3>1. case'[k] = [case[k] EXCEPT !.incident = NoIncident, !.next = case[k].next]
      BY <2>3, ResolvedRows
    <3>2. CASE case[k].state # "ABSENT"
      <4>1. case[k].next \in Nat
        BY <3>2 DEF Wakeful, RowsSound, Sound, CaseRow
      <4>. QED  BY <1>2, <2>3, <3>1, <4>1
    <3>3. CASE case[k].state = "ABSENT"
      BY <2>3, <3>1, <3>3
    <3>. QED  BY <3>2, <3>3
  <2>. QED  BY <2>1, <2>2, <2>3, ResolvedRows
<1>4. RowsSound(case')
  BY <1>3, ResolvedRows DEF RowsSound
<1>5. Forward
  <2>1. \A k \in Episode : k \in resolving.released =>
           case'[k].incident = NoIncident /\ case[k].incident # NoIncident
    <3>1. \A k \in Episode : k \in resolving.released => case[k].incident # NoIncident
      BY <1>1 DEF Reads
    <3>. QED  BY <3>1, ResolvedRows
  <2>. QED  BY <1>3, <2>1 DEF Forward
<1>6. Working'
  BY <1>1, <1>3, KeyCase DEF Wakeful, Working
<1>7. Timed' /\ Inbox'
  <2>1. incident' = [j \in Incident |-> incident'[j]]
    BY <1>1 DEF Wakeful, Timed
  <2>2. \A j \in Incident : Running(incident', j) => incident'[j] = incident[j]
    BY <1>1, <2>1 DEF Wakeful, Timed, Running
  <2>. QED  BY <1>1, <2>1, <2>2 DEF Wakeful, Timed, Inbox, Running
<1>. QED  BY <1>4, <1>5, <1>6, <1>7 DEF Wakeful

\* The cases of the merchant do not change.
LEMMA QuietWakes ==
    ASSUME Wakeful, UNCHANGED <<disposition, case, action, intervention>>, Timed'
    PROVE  Wakeful' /\ Forward
<1>1. Working'
  BY DEF Wakeful, Working
<1>2. Inbox'
  BY DEF Wakeful, Inbox
<1>3. RowsSound(case') /\ Forward
  BY DEF Wakeful, Forward
<1>. QED  BY <1>1, <1>2, <1>3 DEF Wakeful, RowsSound

\* The sweep writes the first due case.
LEMMA SweepWakes ==
    ASSUME Wakeful, ReevaluateDeferred
    PROVE  Wakeful' /\ Forward
<1>1. PICK k \in Episode :
         FirstDue(k) /\ EvaluateCase(k, case, case[k].evidence, NoApproval, truth, incident, links)
  BY DEF ReevaluateDeferred
<1>2. UNCHANGED <<now, disposition, incident, published>>
  BY DEF ReevaluateDeferred
<1>3. case[k].state = "DEFERRED"
  BY <1>1 DEF FirstDue, Due
<1>4. case[k].evidence \in Event /\ Diagnosed(Fact[case[k].evidence].category)
  BY <1>3 DEF Wakeful, RowsSound, Sound, CaseRow
<1>5. Ending(incident) /\ RowsSound(case) /\ Timed'
  BY <1>2 DEF Wakeful, Timed, Ending, Running
<1>. QED  BY <1>1, <1>2, <1>3, <1>4, <1>5, EvaluateWakes DEF Wakeful, Inbox, RowsSound

\* An approved review decides the case again.
LEMMA ReviewWakes ==
    ASSUME Wakeful, NEW k \in Episode, ApproveReview(k) \/ CloseReview(k)
    PROVE  Wakeful' /\ Forward
<1>1. /\ case[k].state = "ESCALATED" /\ UNCHANGED <<now, disposition, incident, published>>
      /\ Sound(case[k]) /\ case[k] \in CaseRow
  BY DEF ApproveReview, CloseReview, Answerable, Wakeful, RowsSound, Sound
<1>2. CASE ApproveReview(k)
  <2>1. EvaluateCase(k, case, case[k].evidence, Granted(k), truth, incident, links)
    BY <1>2 DEF ApproveReview
  <2>2. case[k].evidence \in Event /\ Diagnosed(Fact[case[k].evidence].category)
    BY <1>1 DEF Sound, CaseRow
  <2>3. Ending(incident) /\ RowsSound(case) /\ Timed'
    BY <1>1 DEF Wakeful, Timed, Ending, Running
  <2>. QED  BY <1>1, <2>1, <2>2, <2>3, EvaluateWakes DEF Wakeful, Inbox, RowsSound
<1>3. CASE CloseReview(k)
  <2>. DEFINE row == [[case[k] EXCEPT !.state = "STOPPED"] EXCEPT !.next = NoTime]
  <2>1. case' = [case EXCEPT ![k] = row] /\ UNCHANGED <<action, intervention>>
    BY <1>3 DEF CloseReview
  <2>2. row \in CaseRow
    <3>1. "STOPPED" \in CaseState \ {"ABSENT"} /\ NoTime \in Nat
      BY DEF CaseState, NoTime
    <3>2. [case[k] EXCEPT !.state = "STOPPED"] \in CaseRow
      BY <1>1, <3>1, RowWrites
    <3>. QED  BY <3>1, <3>2, RowWrites
  <2>3. row.state = "STOPPED" /\ row.next = NoTime /\ row.evidence = case[k].evidence
    BY <1>1 DEF CaseRow
  <2>. HIDE DEF row
  <2>4. Sound(row)
    BY <1>1, <2>2, <2>3 DEF Sound
  <2>5. \A a \in ActionKey : action[a].status \in InFlight => a.case # k
    BY <1>1 DEF Wakeful, Working
  <2>6. /\ action' = [a \in ActionKey |-> action'[a]]
        /\ \A a \in ActionKey :
              /\ "status" \in DOMAIN action'[a] /\ action'[a].status \in ActionStatus
              /\ action'[a].status \in InFlight => action[a].status \in InFlight /\ a.case # k
    BY <2>1, <2>5 DEF Wakeful, Working
  <2>. QED  BY <1>1, <2>1, <2>3, <2>4, <2>6, RowWakes
<1>. QED  BY <1>2, <1>3

\* A case that its event opens again is not deferred.
LEMMA RepeatWakes ==
    ASSUME Wakeful, NEW e \in Event, RepeatWebhook(e)
    PROVE  Wakeful' /\ Forward
<1>1. UNCHANGED <<now, disposition, incident, action, intervention, published>>
  BY DEF RepeatWebhook
<1>2. CASE UNCHANGED case
  <2>1. Timed'
    BY <1>1 DEF Wakeful, Timed, Running
  <2>. QED  BY <1>1, <1>2, <2>1, QuietWakes
<1>3. CASE ~UNCHANGED case
  <2>. DEFINE own == Fact[e].episode
              row == NewCase(e)
  <2>1. case[own].state = "ABSENT" /\ case' = [case EXCEPT ![own] = row]
    BY <1>3, RepeatedCase DEF IsCase
  <2>2. Diagnosed(Fact[e].category)
    BY <1>3 DEF RepeatWebhook
  <2>3. own \in Episode /\ Sound(row) /\ row.state = "DETECTED"
    BY <2>2, NewCaseSound
  <2>. HIDE DEF own, row
  <2>4. \A a \in ActionKey : action[a].status \in InFlight => a.case # own
    BY <2>1 DEF Wakeful, Working
  <2>5. /\ action' = [a \in ActionKey |-> action'[a]]
        /\ \A a \in ActionKey :
              /\ "status" \in DOMAIN action'[a] /\ action'[a].status \in ActionStatus
              /\ action'[a].status \in InFlight => action[a].status \in InFlight /\ a.case # own
    BY <1>1, <2>4 DEF Wakeful, Working
  <2>. QED  BY <1>1, <2>1, <2>3, <2>5, RowWakes
<1>. QED  BY <1>2, <1>3

\* A decision keeps the incident a case points at, or points it at another one.
LEMMA DecisionPoints ==
    ASSUME NEW k \in Episode, case = [j \in Episode |-> case[j]], NEW e, NEW approval, NEW facts,
           EvaluateCase(k, case, e, approval, facts, incident, links)
    PROVE  \A j \in Episode : case[j].incident # NoIncident => case'[j].incident # NoIncident
<1>1. PICK advice, d, applicable :
         /\ applicable \subseteq Incident
         /\ case' = [case EXCEPT ![k] = DecidedRow(case[k], d, e, advice, applicable)]
  <2>1. PICK advice, order, nets :
           LET applicable == Applicable(incident, links, k, advice.code)
           IN  RecordDecision(k, case, e, approval, links, applicable, advice,
                   DecisionOn(k, case, e, approval, facts, incident, applicable, advice, order,
                              nets))
    BY DEF EvaluateCase
  <2>. DEFINE applicable == Applicable(incident, links, k, advice.code)
              d == DecisionOn(k, case, e, approval, facts, incident, applicable, advice, order, nets)
  <2>2. case' = [case EXCEPT ![k] = DecidedRow(case[k], d, e, advice, applicable)]
    BY <2>1 DEF RecordDecision
  <2>3. applicable \subseteq Incident
    BY DEF Applicable
  <2>. HIDE DEF applicable, d
  <2>. QED  BY <2>2, <2>3
<1>2. DecidedRow(case[k], d, e, advice, applicable).incident =
         IF applicable = {} THEN case[k].incident ELSE CHOOSE i \in applicable : TRUE
  BY DEF DecidedRow
<1>3. applicable # {} => (CHOOSE i \in applicable : TRUE) \in Incident
  BY <1>1
<1>. QED  BY <1>1, <1>2, <1>3, IncidentsAssumption

\* An execution leaves the incident its case points at.
LEMMA ExecutionPoints ==
    ASSUME case = [j \in Episode |-> case[j]], NEW a \in ActionKey, Execute(a)
    PROVE  \A j \in Episode : case'[j].incident = case[j].incident
<1>1. ASSUME NEW row, row.incident = case[a.case].incident, case' = [case EXCEPT ![a.case] = row]
      PROVE  \A j \in Episode : case'[j].incident = case[j].incident
  BY <1>1, KeyCase
<1>2. CASE CancelBeforeExecution(a)
  <2>. DEFINE row == [case[a.case] EXCEPT !.state = StateFor[Recheck(a).result],
                                          !.next = Recheck(a).wake]
  <2>1. case' = [case EXCEPT ![a.case] = row]
    BY <1>2 DEF CancelBeforeExecution
  <2>2. row.incident = case[a.case].incident
    OBVIOUS
  <2>. QED  BY <1>1, <2>1, <2>2
<1>3. CASE BeginAttempt(a)
  <2>1. case' = [case EXCEPT ![a.case] = Counted(case[a.case], a)]
    BY <1>3 DEF BeginAttempt
  <2>2. Counted(case[a.case], a).incident = case[a.case].incident
    BY DEF Counted, Moved
  <2>. QED  BY <1>1, <2>1, <2>2
<1>4. ASSUME NEW status, NEW state, Settles(a, status, state)
      PROVE  \A j \in Episode : case'[j].incident = case[j].incident
  <2>1. case' = [case EXCEPT ![a.case] = Moved(case[a.case], state)]
    BY <1>4 DEF Settles
  <2>2. Moved(case[a.case], state).incident = case[a.case].incident
    BY DEF Moved
  <2>. QED  BY <1>1, <2>1, <2>2
<1>5. CASE RecordExecutionResult(a)
  BY <1>4, <1>5 DEF RecordExecutionResult
<1>6. CASE RecordLookup(a)
  BY <1>4, <1>6 DEF RecordLookup
<1>. QED  BY <1>2, <1>3, <1>5, <1>6 DEF Execute

\* While a resolution is open, sweeps and executions point its cases at other
\* incidents at most; whoever would clear a pointer waits for the merchant.
LEMMA ReadsStep ==
    ASSUME Wakeful, Reads, [Next]_vars
    PROVE  Reads'
<1>0. case = [j \in Episode |-> case[j]]
  BY DEF Wakeful, RowsSound
<1>1. ASSUME UNCHANGED resolving,
             \A k \in Episode : case[k].incident # NoIncident => case'[k].incident # NoIncident
      PROVE  Reads'
  BY <1>1 DEF Reads, MerchantIsFree
<1>2. ASSUME MerchantIsFree'
      PROVE  Reads'
  BY <1>2 DEF Reads
<1>3. CASE ReevaluateDeferred
  BY <1>0, <1>1, <1>3, DecisionPoints DEF ReevaluateDeferred
<1>4. ASSUME NEW e \in Event, ProcessWebhook(e) \/ RepeatWebhook(e)
      PROVE  Reads'
  BY <1>2, <1>4 DEF ProcessWebhook, LinkEvidence, OpenCase, ApplyEvidence, Prepared, RepeatWebhook,
                    MerchantIsFree
<1>5. ASSUME NEW k \in Episode, ApproveReview(k) \/ CloseReview(k)
      PROVE  Reads'
  BY <1>2, <1>5 DEF ApproveReview, CloseReview, MerchantIsFree
<1>6. ASSUME NEW a \in ActionKey, Execute(a)
      PROVE  Reads'
  <2>1. UNCHANGED resolving
    BY <1>6 DEF Execute, CancelBeforeExecution, BeginAttempt, RecordExecutionResult, RecordLookup,
                Settles
  <2>. QED  BY <1>0, <1>1, <1>6, <2>1, ExecutionPoints
<1>7. CASE EndResolve
  BY <1>2, <1>7 DEF EndResolve, MerchantIsFree
<1>8. ASSUME NEW i \in Incident, BeginResolve(i)
      PROVE  Reads'
  <2>1. /\ resolving'.at = now /\ UNCHANGED case
        /\ \A k \in resolving'.released : case[k].incident = i
    BY <1>8 DEF BeginResolve
  <2>2. now \in Nat /\ now # NoTime
    BY DecisionBoundsAssumption DEF Wakeful, Timed, NoTime
  <2>. QED  BY <2>1, <2>2, IncidentsAssumption DEF Reads
<1>9. ASSUME \/ Tick \/ UNCHANGED vars
             \/ \E a \in ActionKey : CloseIntervention(a)
             \/ \E p \in Policy : PublishPolicy(p)
             \/ \E customer \in Customer : OptOut(customer)
      PROVE  Reads'
  BY <1>1, <1>9 DEF Tick, vars, CloseIntervention, PublishPolicy, OptOut
<1>. QED  BY <1>3, <1>4, <1>5, <1>6, <1>7, <1>8, <1>9 DEF Next

\* Every step keeps the wake times and moves a deferral forward.
LEMMA WakefulStep == Wakeful /\ Reads /\ [Next]_vars => Wakeful' /\ Reads' /\ Forward
<1>. SUFFICES ASSUME Wakeful, Reads, [Next]_vars  PROVE Wakeful' /\ Forward
  BY ReadsStep
<1>1. CASE Tick \/ UNCHANGED vars
  <2>1. now' \in 1..MaxTime /\ UNCHANGED <<disposition, case, incident, action, intervention, published>>
    BY <1>1, DecisionBoundsAssumption DEF Tick, vars, Wakeful, Timed
  <2>2. Timed'
    BY <2>1 DEF Wakeful, Timed, Running
  <2>. QED  BY <2>1, <2>2, QuietWakes
<1>2. ASSUME NEW p \in Policy, PublishPolicy(p)
      PROVE  Wakeful' /\ Forward
  <2>1. Timed'
    BY <1>2 DEF PublishPolicy, Wakeful, Timed, Running
  <2>. QED  BY <1>2, <2>1, QuietWakes DEF PublishPolicy
<1>3. ASSUME NEW customer \in Customer, OptOut(customer)
      PROVE  Wakeful' /\ Forward
  <2>1. Timed'
    BY <1>3 DEF OptOut, Wakeful, Timed, Running
  <2>. QED  BY <1>3, <2>1, QuietWakes DEF OptOut
<1>4. ASSUME NEW a \in ActionKey, CloseIntervention(a)
      PROVE  Wakeful' /\ Forward
  <2>1. /\ intervention' = [intervention EXCEPT ![a].status = "CLOSED"]
        /\ UNCHANGED <<now, disposition, case, incident, action, published>>
    BY <1>4 DEF CloseIntervention
  <2>2. /\ intervention' = [b \in ActionKey |-> intervention'[b]]
        /\ \A b \in ActionKey : intervention'[b].status = intervention[b].status \/
              intervention'[b].status = "CLOSED"
    BY <2>1 DEF Wakeful, Inbox
  <2>3. Inbox'
    BY <2>1, <2>2 DEF Wakeful, Inbox
  <2>4. Working'
    BY <2>1 DEF Wakeful, Working
  <2>5. Timed' /\ RowsSound(case') /\ Forward
    BY <2>1 DEF Wakeful, Timed, Running, Forward
  <2>. QED  BY <2>3, <2>4, <2>5 DEF Wakeful, RowsSound
<1>5. ASSUME NEW i \in Incident, BeginResolve(i)
      PROVE  Wakeful' /\ Forward
  <2>1. Timed'
    BY <1>5 DEF BeginResolve, Wakeful, Timed, Running
  <2>. QED  BY <1>5, <2>1, QuietWakes DEF BeginResolve
<1>. QED  BY <1>1, <1>2, <1>3, <1>4, <1>5, SweepWakes, ReviewWakes, ResolveWakes, WebhookWakes,
             RepeatWakes, ExecuteWakes DEF Next

-----------------------------------------------------------------------------
(* Wake times: the theorems. *)

\* persistence/recovery_models.py: the columns of the case, event, action and
\* intervention rows.  Every row has the values its columns admit, and a DEFERRED
\* case has a next_evaluation_at, also when a resolution writes the row after
\* others have: no handler leaves a case asleep without a time to wake it.
THEOREM TypeCorrect == Spec => []TypeOK
<1>1. Wakeful => TypeOK
  BY DEF Wakeful, Timed, RowsSound, Sound, Working, ActionStatus, Inbox, TypeOK, IsCase
<1>2. Init => Wakeful /\ Reads
  BY WakefulInit DEF Init, Reads, MerchantIsFree
<1>3. Wakeful /\ Reads /\ [Next]_vars => Wakeful' /\ Reads'
  BY WakefulStep
<1>. QED  BY <1>1, <1>2, <1>3, PTL DEF Spec

\* recovery/service.py:reevaluate_deferred.  A decision that defers a case names a
\* moment after now, whatever gate deferred it, so that no sweep finds again what
\* it has just decided; only the resolution of its incident makes a case due now.
THEOREM DeferralsMoveForward == Spec => DeferralMovesForward
<1>1. Wakeful /\ Reads /\ [Next]_vars =>
         [\A k \in Episode :
             (/\ case'[k].state = "DEFERRED"
              /\ case[k].state = "DEFERRED" =>
                    /\ case'[k].next # case[k].next
                    /\ case'[k].incident = NoIncident => case[k].incident = NoIncident)
             => case'[k].next > now]_vars
  BY WakefulStep DEF Forward
<1>2. Init => Wakeful /\ Reads
  BY WakefulInit DEF Init, Reads, MerchantIsFree
<1>3. Wakeful /\ Reads /\ [Next]_vars => Wakeful' /\ Reads'
  BY WakefulStep
<1>. QED  BY <1>1, <1>2, <1>3, PTL DEF Spec, DeferralMovesForward

-----------------------------------------------------------------------------
(* The contact ceiling: sums over finitely many cases. *)

\* The sum that MapThenSumSet computes, as a function on the subsets of S.
Taken(s) == CHOOSE k \in s : TRUE
\* g is a table of sums: nothing sums to 0, and what is taken from a set is added to the rest.
Sums(g, rows, S) ==
    g = [s \in SUBSET S |->
            IF s = {} THEN 0 ELSE rows[Taken(s)].contacts + g[s \ {Taken(s)}]]
\* The sum of the contacts of the cases in S, by such a table.
Total(rows, S) == (CHOOSE g : Sums(g, rows, S))[S]

\* It is the sum that ContactCeiling compares.
LEMMA TotalIsSum ==
    ASSUME NEW rows, NEW S
    PROVE  MapThenSumSet(LAMBDA k : rows[k].contacts, S) = Total(rows, S)
BY DEF MapThenSumSet, MapThenFoldSet, Total, Sums, Taken

\* Of finitely many sets one includes no other.
LEMMA Smallest ==
    ASSUME NEW S, IsFiniteSet(S), NEW D \in SUBSET (SUBSET S), D # {}
    PROVE  \E m \in D : \A t \in D : t \subseteq m => t = m
<1>1. IsWellFoundedOn(StrictSubsetOrdering(S), FiniteSubsetsOf(S))
  BY FS_StrictSubsetOrderingWellFounded
<1>2. D \subseteq FiniteSubsetsOf(S)
  <2>. SUFFICES ASSUME NEW t \in D PROVE t \in FiniteSubsetsOf(S)
    OBVIOUS
  <2>1. t \in SUBSET S
    OBVIOUS
  <2>2. IsFiniteSet(t)
    BY <2>1, FS_Subset
  <2>. QED  BY <2>1, <2>2 DEF FiniteSubsetsOf
<1>3. PICK m \in D : \A t \in D : <<t, m>> \notin StrictSubsetOrdering(S)
  BY <1>1, <1>2, WFMin
<1>. QED  BY <1>3 DEF StrictSubsetOrdering

\* What is taken from a set is in it.
LEMMA TakenIn == ASSUME NEW s, s # {} PROVE Taken(s) \in s
BY DEF Taken

\* Two tables of sums agree: a smallest set on which they differ would not be empty,
\* and they would differ on the smaller rest of it.
LEMMA SumsAgree ==
    ASSUME NEW rows, NEW S, IsFiniteSet(S), NEW g, Sums(g, rows, S),
           NEW T \in SUBSET S, NEW h, Sums(h, rows, T)
    PROVE  \A s \in SUBSET T : g[s] = h[s]
<1>. DEFINE D == {s \in SUBSET T : g[s] # h[s]}
<1>. SUFFICES ASSUME D # {} PROVE FALSE
  OBVIOUS
<1>1. PICK m \in D : \A t \in D : t \subseteq m => t = m
  <2>1. D \in SUBSET (SUBSET S)
    OBVIOUS
  <2>. HIDE DEF D
  <2>. QED  BY <2>1, Smallest
<1>2. m \in SUBSET T /\ m \in SUBSET S /\ g[m] # h[m]
  OBVIOUS
<1>3. g[m] = IF m = {} THEN 0 ELSE rows[Taken(m)].contacts + g[m \ {Taken(m)}]
  BY <1>2 DEF Sums
<1>4. h[m] = IF m = {} THEN 0 ELSE rows[Taken(m)].contacts + h[m \ {Taken(m)}]
  BY <1>2 DEF Sums
<1>5. m # {}
  BY <1>2, <1>3, <1>4
<1>6. m \ {Taken(m)} \notin D
  BY <1>1, <1>5, TakenIn
<1>. QED  BY <1>2, <1>3, <1>4, <1>5, <1>6

\* A table of sums exists: a smallest set without one would have a table on its proper
\* subsets, and that makes one for the set itself.
LEMMA SumsExist ==
    ASSUME NEW rows, NEW S, IsFiniteSet(S)
    PROVE  \A T \in SUBSET S : \E g : Sums(g, rows, T)
<1>. DEFINE D == {T \in SUBSET S : ~ \E g : Sums(g, rows, T)}
<1>. SUFFICES ASSUME D # {} PROVE FALSE
  OBVIOUS
<1>1. PICK m \in D : \A t \in D : t \subseteq m => t = m
  <2>. HIDE DEF D
  <2>1. D \in SUBSET (SUBSET S)
    BY DEF D
  <2>. QED  BY <2>1, Smallest
<1>2. m \in SUBSET S /\ \A g : ~Sums(g, rows, m)
  OBVIOUS
<1>. DEFINE sum(t) == (CHOOSE g : Sums(g, rows, t))[t]
            G == [s \in SUBSET m |->
                     IF s = {} THEN 0 ELSE rows[Taken(s)].contacts + sum(s \ {Taken(s)})]
<1>3. ASSUME NEW t \in SUBSET m, t # m
      PROVE  Sums(CHOOSE g : Sums(g, rows, t), rows, t)
  <2>1. t \in SUBSET S /\ t \notin D
    BY <1>1, <1>2, <1>3
  <2>2. \E g : Sums(g, rows, t)
    BY <2>1
  <2>. QED  BY <2>2
<1>4. ASSUME NEW t \in SUBSET m, t # m
      PROVE  G[t] = sum(t)
  <2>. DEFINE h == CHOOSE g : Sums(g, rows, t)
              u == t \ {Taken(t)}
              i == CHOOSE g : Sums(g, rows, u)
  <2>1. Sums(h, rows, t)
    BY <1>3, <1>4
  <2>2. h[t] = IF t = {} THEN 0 ELSE rows[Taken(t)].contacts + h[u]
    <3>. HIDE DEF h
    <3>. QED  BY <2>1 DEF Sums
  <2>3. G[t] = IF t = {} THEN 0 ELSE rows[Taken(t)].contacts + sum(u)
    BY <1>4
  <2>4. CASE t = {}
    BY <2>2, <2>3, <2>4
  <2>5. CASE t # {}
    <3>1. u \in SUBSET m /\ u # m
      BY <1>4, <2>5, TakenIn
    <3>2. Sums(i, rows, u)
      BY <1>3, <3>1
    <3>3. IsFiniteSet(t) /\ u \in SUBSET t
      BY <1>2, FS_Subset
    <3>. HIDE DEF i, h, u
    <3>4. h[u] = i[u]
      BY <2>1, <3>2, <3>3, SumsAgree
    <3>. QED  BY <2>2, <2>3, <2>5, <3>4 DEF i, h
  <2>. QED  BY <2>4, <2>5
<1>5. Sums(G, rows, m)
  <2>1. ASSUME NEW s \in SUBSET m, s # {} PROVE sum(s \ {Taken(s)}) = G[s \ {Taken(s)}]
    BY <1>4, <2>1, TakenIn
  <2>. HIDE DEF sum
  <2>2. G = [s \in SUBSET m |->
                     IF s = {} THEN 0 ELSE rows[Taken(s)].contacts + G[s \ {Taken(s)}]]
    BY <2>1
  <2>. QED  BY <2>2 DEF Sums
<1>. QED  BY <1>2, <1>5

\* The sum of a set is what is taken from it and the sum of the rest.
LEMMA TotalStep ==
    ASSUME NEW rows, NEW S, IsFiniteSet(S)
    PROVE  Total(rows, S) = IF S = {} THEN 0
                            ELSE rows[Taken(S)].contacts + Total(rows, S \ {Taken(S)})
<1>. DEFINE g == CHOOSE f : Sums(f, rows, S)
            u == S \ {Taken(S)}
            h == CHOOSE f : Sums(f, rows, u)
<1>1. Sums(g, rows, S) /\ Sums(h, rows, u)
  <2>1. (\E f : Sums(f, rows, S)) /\ (\E f : Sums(f, rows, u))
    BY SumsExist
  <2>. QED  BY <2>1
<1>2. Total(rows, S) = g[S] /\ Total(rows, u) = h[u]
  BY DEF Total
<1>3. u \in SUBSET S
  OBVIOUS
<1>. HIDE DEF g, h
<1>4. g[S] = IF S = {} THEN 0 ELSE rows[Taken(S)].contacts + g[u]
  BY <1>1 DEF Sums
<1>. HIDE DEF u
<1>5. g[u] = h[u]
  BY <1>1, <1>3, SumsAgree
<1>. QED  BY <1>2, <1>4, <1>5 DEF u

\* The same for any member, whichever the table takes first.
LEMMA TotalTakes ==
    ASSUME NEW rows, NEW S, IsFiniteSet(S), \A k \in S : rows[k].contacts \in Nat
    PROVE  /\ Total(rows, S) \in Nat
           /\ \A k \in S : Total(rows, S) = rows[k].contacts + Total(rows, S \ {k})
<1>. DEFINE Fine(s) == /\ Total(rows, s) \in Nat
                       /\ \A k \in s : Total(rows, s) = rows[k].contacts + Total(rows, s \ {k})
            D == {s \in SUBSET S : ~Fine(s)}
<1>. SUFFICES ASSUME D # {} PROVE FALSE
  OBVIOUS
<1>1. PICK m \in D : \A t \in D : t \subseteq m => t = m
  <2>. HIDE DEF D
  <2>1. D \in SUBSET (SUBSET S)
    BY DEF D
  <2>. QED  BY <2>1, Smallest
<1>2. m \in SUBSET S /\ ~Fine(m)
  BY <1>1
<1>3. \A t \in SUBSET m : t # m => Fine(t)
  BY <1>1, <1>2
<1>. DEFINE c == Taken(m)
<1>4. Total(rows, m) = IF m = {} THEN 0 ELSE rows[c].contacts + Total(rows, m \ {c})
  <2>1. IsFiniteSet(m)
    BY <1>2, FS_Subset
  <2>. QED  BY <2>1, TotalStep
<1>5. CASE m = {}
  BY <1>2, <1>4, <1>5
<1>6. CASE m # {}
  <2>1. c \in m
    BY <1>6, TakenIn
  <2>. HIDE DEF c
  <2>2. Fine(m \ {c})
    BY <1>3, <2>1
  <2>3. rows[c].contacts \in Nat
    BY <1>2, <2>1
  <2>4. Total(rows, m) = rows[c].contacts + Total(rows, m \ {c}) /\ Total(rows, m) \in Nat
    BY <1>4, <1>6, <2>2, <2>3
  <2>5. ASSUME NEW k \in m, k # c
        PROVE  Total(rows, m) = rows[k].contacts + Total(rows, m \ {k})
    <3>. DEFINE u == (m \ {c}) \ {k}
    <3>1. u = (m \ {k}) \ {c}
      OBVIOUS
    <3>2. Fine(m \ {k}) /\ c \in m \ {k} /\ k \in m \ {c}
      BY <1>3, <2>1, <2>5
    <3>3. Fine(u)
      BY <1>3, <2>1
    <3>4. Total(rows, m \ {c}) = rows[k].contacts + Total(rows, u)
      BY <2>2, <3>2
    <3>5. Total(rows, m \ {k}) = rows[c].contacts + Total(rows, u)
      BY <3>1, <3>2
    <3>6. rows[k].contacts \in Nat /\ Total(rows, u) \in Nat
      BY <1>2, <3>3
    <3>. HIDE DEF u
    <3>. QED  BY <2>3, <2>4, <3>4, <3>5, <3>6
  <2>6. Fine(m)
    BY <2>4, <2>5
  <2>. QED  BY <1>2, <2>6
<1>. QED  BY <1>5, <1>6

\* Sums do not change while the contacts of the cases do not.
LEMMA TotalStays ==
    ASSUME NEW S, IsFiniteSet(S), NEW rows, NEW other, NEW R \in SUBSET S,
           \A k \in R : rows[k].contacts \in Nat /\ other[k].contacts = rows[k].contacts,
           \A k \in S \ R : other[k].contacts = 0
    PROVE  Total(other, S) = Total(rows, R)
<1>. DEFINE D == {s \in SUBSET S : Total(other, s) # Total(rows, s \cap R)}
<1>. SUFFICES ASSUME D # {} PROVE FALSE
  <2>1. S \cap R = R
    OBVIOUS
  <2>. QED  BY <2>1
<1>1. PICK m \in D : \A t \in D : t \subseteq m => t = m
  <2>. HIDE DEF D
  <2>1. D \in SUBSET (SUBSET S)
    BY DEF D
  <2>. QED  BY <2>1, Smallest
<1>2. m \in SUBSET S /\ Total(other, m) # Total(rows, m \cap R)
  BY <1>1
<1>3. \A t \in SUBSET m : t # m => Total(other, t) = Total(rows, t \cap R)
  BY <1>1, <1>2
<1>4. IsFiniteSet(m) /\ IsFiniteSet(m \cap R)
  BY <1>2, FS_Subset
<1>. DEFINE c == Taken(m)
<1>5. Total(other, m) = IF m = {} THEN 0 ELSE other[c].contacts + Total(other, m \ {c})
  BY <1>4, TotalStep
<1>6. CASE m = {}
  <2>1. Total(rows, {}) = 0
    BY TotalStep, FS_EmptySet
  <2>. QED  BY <1>2, <1>5, <1>6, <2>1
<1>7. CASE m # {}
  <2>1. c \in m
    BY <1>7, TakenIn
  <2>. HIDE DEF c
  <2>2. Total(other, m \ {c}) = Total(rows, (m \ {c}) \cap R)
    BY <1>3, <2>1
  <2>3. \A k \in m \cap R : rows[k].contacts \in Nat
    OBVIOUS
  <2>4. CASE c \in R
    <3>1. (m \ {c}) \cap R = (m \cap R) \ {c}
      OBVIOUS
    <3>2. Total(rows, m \cap R) = rows[c].contacts + Total(rows, (m \cap R) \ {c})
      BY <1>4, <2>1, <2>3, <2>4, TotalTakes
    <3>. QED  BY <1>2, <1>5, <1>7, <2>2, <2>4, <3>1, <3>2
  <2>5. CASE c \notin R
    <3>1. (m \ {c}) \cap R = m \cap R /\ other[c].contacts = 0
      BY <1>2, <2>1, <2>5
    <3>2. Total(rows, m \cap R) \in Nat
      BY <1>4, <2>3, TotalTakes
    <3>3. Total(other, m \ {c}) = Total(rows, m \cap R)
      BY <2>2, <3>1
    <3>4. Total(other, m) = 0 + Total(other, m \ {c})
      BY <1>5, <1>7, <3>1
    <3>. QED  BY <1>2, <3>2, <3>3, <3>4
  <2>. QED  BY <2>4, <2>5
<1>. QED  BY <1>6, <1>7

-----------------------------------------------------------------------------
(* The contact ceiling: the largest limit. *)

\* The largest contact limit of the policies ever published.
Ceiling == Max({p.contactLimit : p \in Policy})

\* Of finitely many policies one has the largest limit: with as few larger ones as
\* possible, it has none.
LEMMA LargestLimit ==
    ASSUME NEW p \in Policy
    PROVE  p.contactLimit \in Nat /\ Ceiling \in Nat /\ p.contactLimit <= Ceiling
<1>. DEFINE larger(q) == {r \in Policy : r.contactLimit > q.contactLimit}
            D == {larger(q) : q \in Policy}
<1>1. \A q \in Policy : q.contactLimit \in Nat
  BY PoliciesAssumption
<1>2. PICK m \in D : \A s \in D : s \subseteq m => s = m
  <2>1. \A q \in Policy : larger(q) \in SUBSET Policy
    OBVIOUS
  <2>2. larger(p) \in D
    OBVIOUS
  <2>3. D \in SUBSET (SUBSET Policy)
    <3>. HIDE DEF larger
    <3>. QED  BY <2>1
  <2>. HIDE DEF D
  <2>. QED  BY <2>2, <2>3, PoliciesAssumption, Smallest
<1>3. PICK q \in Policy : m = larger(q)
  OBVIOUS
<1>4. ASSUME NEW r \in larger(q)
      PROVE  FALSE
  <2>1. larger(r) \subseteq larger(q) /\ r \notin larger(r)
    BY <1>1
  <2>. QED  BY <1>2, <1>3, <2>1
<1>5. \A r \in Policy : q.contactLimit >= r.contactLimit
  BY <1>1, <1>4
<1>. DEFINE limits == {r.contactLimit : r \in Policy}
<1>6. \A x \in limits : Max(limits) >= x
  <2>1. \E x \in limits : \A y \in limits : x >= y
    BY <1>5
  <2>. HIDE DEF limits
  <2>. QED  BY <2>1 DEF Max
<1>7. Max(limits) \in limits
  <2>1. \E x \in limits : \A y \in limits : x >= y
    BY <1>5
  <2>. HIDE DEF limits
  <2>. QED  BY <2>1 DEF Max
<1>. QED  BY <1>1, <1>6, <1>7 DEF Ceiling

-----------------------------------------------------------------------------
(* The contact ceiling: steps. *)

\* No case is lost, changes hands or has other contacts than before, and a case
\* that is new has none.
KeepsContacts(rows) ==
    \A k \in Episode :
       /\ IsCase(k) => /\ rows[k].state # "ABSENT" /\ rows[k].customer = case[k].customer
                       /\ rows[k].contacts = case[k].contacts
       /\ ~IsCase(k) /\ rows[k].state # "ABSENT" => rows[k].contacts = 0

\* Unchanged cases count the same contacts.
LEMMA SameContacts == KeepsContacts(case)
BY DEF KeepsContacts, IsCase

\* Marking the cases of an incident counts no contact.
LEMMA MarkedContacts ==
    ASSUME NEW degraded
    PROVE  KeepsContacts(Marked(degraded))
BY DEF KeepsContacts, Marked, IsCase

\* A new case has counted none.
LEMMA OpenedContacts ==
    ASSUME NEW degraded, NEW e \in Event, ~IsCase(Fact[e].episode)
    PROVE  KeepsContacts([Marked(degraded) EXCEPT ![Fact[e].episode] = NewCase(e)])
<1>. DEFINE k == Fact[e].episode
            rows == [Marked(degraded) EXCEPT ![k] = NewCase(e)]
<1>1. NewCase(e).contacts = 0
  BY DEF NewCase
<1>2. k \in Episode /\ Marked(degraded) = [j \in Episode |-> Marked(degraded)[j]]
  BY DEF Episode, Marked
<1>3. rows[k] = NewCase(e) /\ \A j \in Episode \ {k} : rows[j] = Marked(degraded)[j]
  BY <1>2
<1>. HIDE DEF rows, k
<1>4. KeepsContacts(rows)
  BY <1>1, <1>3, MarkedContacts DEF KeepsContacts, k
<1>. QED  BY <1>4 DEF rows, k

\* A decision counts no contact.
LEMMA EvaluateContacts ==
    ASSUME Wakeful, NEW k \in Episode, NEW rows, RowsSound(rows), KeepsContacts(rows),
           rows[k].state # "ABSENT", NEW e \in Event, Diagnosed(Fact[e].category),
           NEW approval, NEW facts, NEW inc, NEW lks, Ending(inc),
           EvaluateCase(k, rows, e, approval, facts, inc, lks)
    PROVE  KeepsContacts(case')
<1>1. PICK row : /\ Sound(row) /\ case' = [rows EXCEPT ![k] = row]
                 /\ row.customer = rows[k].customer /\ row.contacts = rows[k].contacts
  BY EvaluatedRow DEF Wakeful
<1>2. row.state # "ABSENT"
  BY <1>1 DEF Sound, CaseRow
<1>3. case'[k] = row /\ \A j \in Episode \ {k} : case'[j] = rows[j]
  BY <1>1 DEF RowsSound
<1>. QED  BY <1>1, <1>2, <1>3 DEF KeepsContacts

\* A signed event counts no contact.
LEMMA WebhookContacts ==
    ASSUME Wakeful, NEW e \in Event, ProcessWebhook(e)
    PROVE  KeepsContacts(case')
<1>1. CASE LinkEvidence(e)
  BY <1>1, MarkedContacts DEF LinkEvidence
<1>2. CASE OpenCase(e)
  <2>1. PICK degraded \in SUBSET Related(e) :
           /\ Prepared(e, degraded) /\ disposition'[e] = "APPLIED" /\ CasesFor(e) = {}
           /\ EvaluateCase(Fact[e].episode,
                  [Marked(degraded) EXCEPT ![Fact[e].episode] = NewCase(e)], e, NoApproval, truth',
                  incident', links \cup LinkedBy(degraded))
    BY <1>2 DEF OpenCase
  <2>2. degraded \in SUBSET Incident /\ Fact[e].episode \in Episode /\ ~IsCase(Fact[e].episode)
    BY <2>1 DEF Related, Episode, CasesFor
  <2>3. Ending(incident') /\ Diagnosed(Fact[e].category)
    BY <2>1, ObservedTimed
  <2>4. LET rows == [Marked(degraded) EXCEPT ![Fact[e].episode] = NewCase(e)]
        IN  /\ RowsSound(rows) /\ rows[Fact[e].episode].state # "ABSENT" /\ KeepsContacts(rows)
    BY <2>2, <2>3, OpenedSound, OpenedContacts DEF Wakeful
  <2>. QED  BY <2>1, <2>2, <2>3, <2>4, EvaluateContacts
<1>3. CASE ApplyEvidence(e)
  <2>1. PICK degraded \in SUBSET Related(e), k \in CasesFor(e) :
           /\ Prepared(e, degraded) /\ disposition'[e] = "APPLIED" /\ case[k].state \in Decidable
           /\ EvaluateCase(k, Marked(degraded), e, NoApproval, truth', incident',
                           links \cup LinkedBy(degraded))
    BY <1>3 DEF ApplyEvidence
  <2>2. degraded \in SUBSET Incident /\ k \in Episode /\ case[k].state # "ABSENT"
    BY <2>1 DEF Related, CasesFor, Episode, Decidable
  <2>3. Ending(incident') /\ Diagnosed(Fact[e].category)
    BY <2>1, ObservedTimed
  <2>4. RowsSound(Marked(degraded)) /\ Marked(degraded)[k].state # "ABSENT"
        /\ KeepsContacts(Marked(degraded))
    BY <2>2, MarkedSound, MarkedContacts DEF Wakeful
  <2>. QED  BY <2>1, <2>2, <2>3, <2>4, EvaluateContacts
<1>. QED  BY <1>1, <1>2, <1>3 DEF ProcessWebhook

\* A row that moves on with the customer and the contacts it had.
LEMMA RowContacts ==
    ASSUME Wakeful, NEW k \in Episode, NEW row, case' = [case EXCEPT ![k] = row], IsCase(k),
           row.state # "ABSENT", row.customer = case[k].customer, row.contacts = case[k].contacts
    PROVE  KeepsContacts(case')
<1>1. case'[k] = row /\ \A j \in Episode \ {k} : case'[j] = case[j]
  BY DEF Wakeful, RowsSound
<1>. QED  BY <1>1 DEF KeepsContacts, IsCase

\* Only the beginning of an attempt counts a contact.
LEMMA ExecuteContacts ==
    ASSUME Wakeful, NEW a \in ActionKey, Execute(a), ~BeginAttempt(a)
    PROVE  KeepsContacts(case')
<1>1. a.case \in Episode
  BY KeyCase
<1>2. CASE CancelBeforeExecution(a)
  <2>. DEFINE state == StateFor[Recheck(a).result]
              wake == Recheck(a).wake
              row == [[case[a.case] EXCEPT !.state = state] EXCEPT !.next = wake]
  <2>1. state # "ABSENT"
    BY StateKnown DEF Recheck
  <2>2. case' = [case EXCEPT ![a.case] = row] /\ IsCase(a.case)
    BY <1>2 DEF CancelBeforeExecution, Executable
  <2>3. case[a.case] \in CaseRow
    BY <1>1, <2>2 DEF Wakeful, RowsSound, IsCase, Sound
  <2>. HIDE DEF state, wake
  <2>4. /\ row.state = state /\ row.customer = case[a.case].customer
        /\ row.contacts = case[a.case].contacts
    BY <2>3 DEF CaseRow
  <2>. HIDE DEF row
  <2>. QED  BY <1>1, <2>1, <2>2, <2>4, RowContacts
<1>3. ASSUME NEW status, NEW state, Settles(a, status, state), state # "ABSENT", IsCase(a.case)
      PROVE  KeepsContacts(case')
  <2>. DEFINE row == Moved(case[a.case], state)
  <2>1. case' = [case EXCEPT ![a.case] = row]
    BY <1>3 DEF Settles
  <2>2. case[a.case] \in CaseRow
    BY <1>1, <1>3 DEF Wakeful, RowsSound, IsCase, Sound
  <2>3. /\ row.state = state /\ row.customer = case[a.case].customer
        /\ row.contacts = case[a.case].contacts
    BY <2>2 DEF CaseRow, Moved
  <2>. HIDE DEF row
  <2>. QED  BY <1>1, <1>3, <2>1, <2>3, RowContacts
<1>4. CASE RecordExecutionResult(a)
  <2>1. /\ IsCase(a.case)
        /\ \/ Settles(a, "PENDING", "EXECUTING") \/ Settles(a, "SUCCEEDED", "VERIFYING")
           \/ Settles(a, "UNKNOWN", "UNKNOWN") \/ Settles(a, "FAILED", "DECISION_PENDING")
    BY <1>4 DEF RecordExecutionResult, Wakeful, Working, InFlight, IsCase
  <2>. QED  BY <1>3, <2>1
<1>5. CASE RecordLookup(a)
  <2>1. /\ IsCase(a.case)
        /\ \/ Settles(a, "SUCCEEDED", "VERIFYING") \/ Settles(a, "UNKNOWN", "ESCALATED")
           \/ Settles(a, "SUCCEEDED", "RECOVERED") \/ Settles(a, "FAILED", "DECISION_PENDING")
    BY <1>5 DEF RecordLookup, IsCase
  <2>. QED  BY <1>3, <2>1
<1>. QED  BY <1>2, <1>4, <1>5 DEF Execute

\* Only the beginning of an attempt counts a contact.
LEMMA ContactsCounted ==
    ASSUME Wakeful, [Next]_vars
    PROVE  KeepsContacts(case') \/ \E a \in ActionKey : BeginAttempt(a)
<1>1. CASE UNCHANGED case
  BY <1>1, SameContacts DEF KeepsContacts
<1>2. CASE ReevaluateDeferred
  <2>1. PICK k \in Episode :
           FirstDue(k) /\ EvaluateCase(k, case, case[k].evidence, NoApproval, truth, incident, links)
    BY <1>2 DEF ReevaluateDeferred
  <2>2. case[k].state # "ABSENT"
    BY <2>1 DEF FirstDue, Due, IsCase
  <2>3. /\ case[k].evidence \in Event /\ Diagnosed(Fact[case[k].evidence].category)
        /\ Ending(incident) /\ RowsSound(case)
    BY <2>2 DEF Wakeful, RowsSound, Sound, CaseRow, Timed, Ending
  <2>. QED  BY <2>1, <2>2, <2>3, SameContacts, EvaluateContacts
<1>3. ASSUME NEW k \in Episode, ApproveReview(k)
      PROVE  KeepsContacts(case')
  <2>1. case[k].state # "ABSENT"
    BY <1>3 DEF ApproveReview, Answerable
  <2>2. EvaluateCase(k, case, case[k].evidence, Granted(k), truth, incident, links)
    BY <1>3 DEF ApproveReview
  <2>3. /\ case[k].evidence \in Event /\ Diagnosed(Fact[case[k].evidence].category)
        /\ Ending(incident) /\ RowsSound(case)
    BY <2>1 DEF Wakeful, RowsSound, Sound, CaseRow, Timed, Ending
  <2>. QED  BY <2>1, <2>2, <2>3, SameContacts, EvaluateContacts
<1>4. ASSUME NEW k \in Episode, CloseReview(k)
      PROVE  KeepsContacts(case')
  <2>. DEFINE row == [[case[k] EXCEPT !.state = "STOPPED"] EXCEPT !.next = NoTime]
  <2>1. case' = [case EXCEPT ![k] = row] /\ IsCase(k)
    BY <1>4 DEF CloseReview, Answerable, IsCase
  <2>2. case[k] \in CaseRow
    BY <2>1 DEF Wakeful, RowsSound, IsCase, Sound
  <2>3. /\ row.state = "STOPPED" /\ row.customer = case[k].customer
        /\ row.contacts = case[k].contacts
    BY <2>2 DEF CaseRow
  <2>. HIDE DEF row
  <2>. QED  BY <2>1, <2>3, RowContacts
<1>5. CASE EndResolve
  <2>1. \A k \in Episode : /\ case'[k].state = case[k].state /\ case'[k].customer = case[k].customer
                           /\ case'[k].contacts = case[k].contacts
    BY <1>5, ResolvedRows
  <2>. QED  BY <2>1 DEF KeepsContacts, IsCase
<1>7. ASSUME NEW e \in Event, RepeatWebhook(e)
      PROVE  KeepsContacts(case')
  <2>1. CASE ~IsCase(Fact[e].episode) /\ case' = [case EXCEPT ![Fact[e].episode] = NewCase(e)]
    <3>1. NewCase(e).contacts = 0
      BY DEF NewCase
    <3>2. \A k \in Episode : case'[k] = case[k] \/ (k = Fact[e].episode /\ case'[k] = NewCase(e))
      BY <2>1 DEF Wakeful, RowsSound
    <3>. QED  BY <2>1, <3>1, <3>2 DEF KeepsContacts, IsCase
  <2>. QED  BY <1>1, <1>7, <2>1, RepeatedCase, SameContacts DEF KeepsContacts
<1>6. ASSUME \/ Tick \/ UNCHANGED vars
             \/ \E a \in ActionKey : CloseIntervention(a)
             \/ \E i \in Incident : BeginResolve(i)
             \/ \E p \in Policy : PublishPolicy(p)
             \/ \E customer \in Customer : OptOut(customer)
      PROVE  KeepsContacts(case')
  <2>1. UNCHANGED case
    BY <1>6 DEF Tick, vars, CloseIntervention, BeginResolve, PublishPolicy, OptOut
  <2>. QED  BY <2>1, SameContacts DEF KeepsContacts
<1>. QED  BY <1>2, <1>3, <1>4, <1>5, <1>6, <1>7, WebhookContacts, ExecuteContacts DEF Next

-----------------------------------------------------------------------------
(* The contact ceiling: the theorem. *)

\* The invariant: no customer has been contacted more often than the largest limit says.
WithinCeiling ==
    \A customer \in Customer : Total(case, CasesOf(case, customer)) <= Ceiling

\* The cases of a customer are finitely many, and each has counted its contacts.
LEMMA CustomerCases ==
    ASSUME Wakeful, NEW customer
    PROVE  /\ IsFiniteSet(CasesOf(case, customer))
           /\ \A k \in CasesOf(case, customer) : k \in Episode /\ case[k].contacts \in Nat
<1>1. CasesOf(case, customer) \in SUBSET Episode
  BY DEF CasesOf
<1>2. \A k \in CasesOf(case, customer) : case[k].contacts \in Nat
  BY DEF CasesOf, Wakeful, RowsSound, Sound, CaseRow
<1>. QED  BY <1>1, <1>2, CaseIdsAssumption, FS_Subset

\* An attempt to contact begins below the limit of the policy in force.
LEMMA AttemptIsBelow ==
    ASSUME Wakeful, NEW a \in ActionKey, BeginAttempt(a),
           ActionClasses[a.type] = "CUSTOMER_CONTACT",
           case[a.case].customer # NoCustomer
    PROVE  Total(case, CasesOf(case, case[a.case].customer)) < EffectivePolicy.contactLimit
<1>. DEFINE p == EffectivePolicy
            e == RecheckInput(a)
            c == CandidateOf(a.type, a.target, action[a].net)
            total == Total(case, CasesOf(case, case[a.case].customer))
<1>1. Verdict(p, e, c).result = "PROCEED"
  BY BeginChecks
<1>2. Contacts(c)
  BY DEF CandidateOf, Contacts, ClassOf
<1>3. e.contactCount = AggregateContacts(case, a.case)
  BY DEF RecheckInput, CaseFacts
<1>4. AggregateContacts(case, a.case) = total
  BY TotalIsSum DEF AggregateContacts
<1>5. total \in Nat
  BY CustomerCases, TotalTakes
<1>6. p \in Policy /\ p.contactLimit \in Nat
  BY PolicyInForce, PoliciesAssumption DEF Wakeful
<1>. HIDE DEF p, e, c, total
<1>7. ~(e.contactCount >= p.contactLimit)
  BY <1>1, <1>2, ProceedMeans
<1>. QED  BY <1>3, <1>4, <1>5, <1>6, <1>7 DEF p, total

\* Nobody has been contacted at first.
LEMMA CeilingInit == Init => WithinCeiling
<1>. SUFFICES ASSUME Init, NEW customer \in Customer
              PROVE  Total(case, CasesOf(case, customer)) <= Ceiling
  BY DEF WithinCeiling
<1>1. CasesOf(case, customer) = {}
  BY DEF Init, CasesOf, NoCase
<1>2. Total(case, {}) = 0
  BY FS_EmptySet, TotalStep
<1>3. PICK p \in Policy : TRUE
  BY PoliciesAssumption
<1>4. p.contactLimit \in Nat /\ p.contactLimit <= Ceiling /\ Ceiling \in Nat
  BY LargestLimit
<1>. QED  BY <1>1, <1>2, <1>4

\* Every step stays within it: an attempt begins below the limit of its policy.
LEMMA CeilingStep == Wakeful /\ WithinCeiling /\ [Next]_vars => WithinCeiling'
<1>. SUFFICES ASSUME Wakeful, WithinCeiling, [Next]_vars, NEW customer \in Customer
              PROVE  Total(case', CasesOf(case', customer)) <= Ceiling
  BY DEF WithinCeiling
<1>. DEFINE S == CasesOf(case, customer)
            T == CasesOf(case', customer)
<1>1. IsFiniteSet(S) /\ \A k \in S : k \in Episode /\ case[k].contacts \in Nat
  BY CustomerCases
<1>2. Total(case, S) \in Nat /\ Total(case, S) <= Ceiling
  <2>1. Total(case, S) <= Ceiling
    BY DEF WithinCeiling
  <2>. HIDE DEF S
  <2>. QED  BY <1>1, <2>1, TotalTakes
<1>3. CASE KeepsContacts(case')
  <2>1. S \in SUBSET T /\ \A k \in T \ S : case'[k].contacts = 0
    BY <1>3 DEF CasesOf, KeepsContacts, IsCase
  <2>2. IsFiniteSet(T)
    <3>1. T \in SUBSET Episode
      BY DEF CasesOf
    <3>. QED  BY <3>1, CaseIdsAssumption, FS_Subset
  <2>3. \A k \in S : case'[k].contacts = case[k].contacts
    BY <1>3 DEF CasesOf, KeepsContacts, IsCase
  <2>. HIDE DEF S, T
  <2>4. Total(case', T) = Total(case, S)
    BY <1>1, <2>1, <2>2, <2>3, TotalStays
  <2>. QED  BY <1>2, <2>4 DEF T
<1>4. ASSUME NEW a \in ActionKey, BeginAttempt(a)
      PROVE  Total(case', CasesOf(case', customer)) <= Ceiling
  <2>. DEFINE k == a.case
              n == IF ActionClasses[a.type] = "CUSTOMER_CONTACT" THEN 1 ELSE 0
  <2>1. case' = [case EXCEPT ![k] = Counted(case[k], a)] /\ k \in Episode /\ IsCase(k)
    BY <1>4, KeyCase DEF BeginAttempt, Executable
  <2>2. case[k] \in CaseRow
    BY <2>1 DEF Wakeful, RowsSound, IsCase, Sound
  <2>3. /\ Counted(case[k], a).state # "ABSENT"
        /\ Counted(case[k], a).customer = case[k].customer
        /\ Counted(case[k], a).contacts = case[k].contacts + n
    BY <2>2 DEF Counted, Moved, CaseRow
  <2>4. /\ case'[k].state # "ABSENT" /\ case'[k].customer = case[k].customer
        /\ case'[k].contacts = case[k].contacts + n
        /\ \A j \in Episode \ {k} : case'[j] = case[j]
    BY <2>1, <2>3 DEF Wakeful, RowsSound
  <2>5. T = S
    BY <2>1, <2>4 DEF CasesOf, IsCase
  <2>6. CASE k \notin S
    <3>1. \A j \in S : case'[j].contacts = case[j].contacts
      BY <1>1, <2>4, <2>6
    <3>. HIDE DEF S, T
    <3>2. Total(case', S) = Total(case, S)
      BY <1>1, <3>1, TotalStays
    <3>. QED  BY <1>2, <2>5, <3>2 DEF T
  <2>7. CASE k \in S
    <3>1. case[k].customer = customer
      BY <2>7 DEF CasesOf
    <3>. DEFINE rest == S \ {k}
    <3>2. \A j \in rest : case'[j].contacts = case[j].contacts
      BY <1>1, <2>4
    <3>3. \A j \in S : case'[j].contacts \in Nat
      BY <1>1, <2>4, <2>7
    <3>4. n = 1 => Total(case, S) < EffectivePolicy.contactLimit
      <4>1. customer # NoCustomer
        BY EventsAssumption
      <4>. QED  BY <1>4, <3>1, <4>1, AttemptIsBelow
    <3>5. EffectivePolicy.contactLimit \in Nat /\ Ceiling \in Nat
          /\ EffectivePolicy.contactLimit <= Ceiling
      BY PolicyInForce, LargestLimit DEF Wakeful
    <3>6. n \in {0, 1} /\ (n = 1 \/ n = 0)
      OBVIOUS
    <3>. HIDE DEF S, T, n
    <3>7. IsFiniteSet(rest)
      BY <1>1, FS_Subset
    <3>8. Total(case', rest) = Total(case, rest)
      <4>1. \A j \in rest : case[j].contacts \in Nat
        BY <1>1
      <4>. HIDE DEF rest
      <4>. QED  BY <3>2, <3>7, <4>1, TotalStays
    <3>9. Total(case', S) = case'[k].contacts + Total(case', rest)
      BY <1>1, <2>7, <3>3, TotalTakes
    <3>10. Total(case, S) = case[k].contacts + Total(case, rest)
           /\ Total(case, rest) \in Nat
      <4>1. \A j \in rest : case[j].contacts \in Nat
        BY <1>1
      <4>2. Total(case, S) = case[k].contacts + Total(case, rest)
        BY <1>1, <2>7, TotalTakes
      <4>. HIDE DEF rest
      <4>. QED  BY <3>7, <4>1, <4>2, TotalTakes
    <3>11. case[k].contacts \in Nat
      BY <1>1, <2>7
    <3>. HIDE DEF rest
    <3>12. Total(case', S) = Total(case, S) + n
      BY <2>4, <3>6, <3>8, <3>9, <3>10, <3>11
    <3>13. Total(case', S) <= Ceiling
      BY <1>2, <3>4, <3>5, <3>6, <3>12
    <3>. QED  BY <2>5, <3>13 DEF T
  <2>. QED  BY <2>6, <2>7
<1>. QED  BY <1>3, <1>4, ContactsCounted

\* policy.py: the contact limit, and recovery/service.py:customer_contact_snapshot,
\* which counts over all cases of the customer.  However many cases, events and
\* policies there are, and whichever policy is in force when, the contacts of a
\* customer stay within the largest limit.
THEOREM ContactsStayBelowCeiling == Spec => []ContactCeiling
<1>1. WithinCeiling => ContactCeiling
  <2>1. \A customer \in Customer :
           MapThenSumSet(LAMBDA k : case[k].contacts, CasesOf(case, customer))
              = Total(case, CasesOf(case, customer))
    BY TotalIsSum
  <2>. QED  BY <2>1 DEF WithinCeiling, ContactCeiling, Ceiling
<1>2. Init => Wakeful /\ Reads
  BY WakefulInit DEF Init, Reads, MerchantIsFree
<1>3. Wakeful /\ Reads /\ [Next]_vars => Wakeful' /\ Reads'
  BY WakefulStep
<1>. QED  BY <1>1, <1>2, <1>3, CeilingInit, CeilingStep, PTL DEF Spec

-----------------------------------------------------------------------------
(* Repeated events: the invariant. *)

\* No decision has been made on the case.
Idle(k) ==
    /\ case[k].state = "DETECTED"
    /\ \A a \in ActionKey : a.case = k => action[a].status = "NONE"

\* The evidence of a case has been linked, and of two cases with the same evidence
\* one is idle.
ActsOnce ==
    /\ \A k \in Episode : IsCase(k) => disposition[case[k].evidence] # "NONE"
    /\ \A j, k \in Episode :
          IsCase(j) /\ IsCase(k) /\ j # k /\ case[j].evidence = case[k].evidence
          => Idle(j) \/ Idle(k)

\* The step leaves a case its evidence, and idle if it was, and opens none.
Stays(k) ==
    /\ case'[k].state # "ABSENT" => IsCase(k) /\ case'[k].evidence = case[k].evidence
    /\ Idle(k) => Idle(k)'

\* No linked event is forgotten.
StaysLinked == \A e \in Event : disposition[e] # "NONE" => disposition'[e] # "NONE"

\* The step links the evidence of the case, or leaves the case idle on a linked event.
TakesEvidence(k) ==
    /\ case'[k].evidence \in Event /\ disposition'[case'[k].evidence] # "NONE"
    /\ disposition[case'[k].evidence] = "NONE" \/ Idle(k)'

\* A step that takes up evidence for at most one case keeps ActsOnce.
LEMMA TakenOnce ==
    ASSUME ActsOnce, Wakeful, StaysLinked, NEW k0,
           \A k \in Episode : Stays(k) \/ (k = k0 /\ TakesEvidence(k))
    PROVE  ActsOnce'
<1>1. \A k \in Episode : IsCase(k) => case[k].evidence \in Event
  BY DEF Wakeful, RowsSound, Sound, CaseRow, IsCase
<1>2. \A k \in Episode : IsCase(k)' => disposition'[case'[k].evidence] # "NONE"
  BY <1>1 DEF ActsOnce, Stays, StaysLinked, TakesEvidence, IsCase
<1>3. ASSUME NEW j \in Episode, NEW k \in Episode, IsCase(j)', IsCase(k)', j # k,
             case'[j].evidence = case'[k].evidence
      PROVE  Idle(j)' \/ Idle(k)'
  <2>1. CASE Stays(j) /\ Stays(k)
    BY <1>3, <2>1 DEF ActsOnce, Stays, IsCase
  <2>2. ASSUME NEW taken \in {j, k}, NEW other \in {j, k}, taken # other, TakesEvidence(taken),
               Stays(other)
        PROVE  Idle(taken)'
    <3>1. disposition[case'[other].evidence] # "NONE"
      BY <1>3, <2>2 DEF ActsOnce, Stays, IsCase
    <3>. QED  BY <1>3, <2>2, <3>1 DEF TakesEvidence
  <2>. QED  BY <1>3, <2>1, <2>2
<1>. QED  BY <1>2, <1>3 DEF ActsOnce

\* Rows that a transaction has written so far, when it has taken no evidence.
SameEvidence(rows, k) == rows[k].state = case[k].state /\ rows[k].evidence = case[k].evidence

\* Marking the cases of an incident takes none.
LEMMA MarkedEvidence ==
    ASSUME Wakeful, NEW degraded, NEW k \in Episode
    PROVE  SameEvidence(Marked(degraded), k)
BY DEF SameEvidence, Marked

\* A decision takes evidence for one case, and leaves the others as they are.
LEMMA EvaluateTakes ==
    ASSUME Wakeful, NEW k \in Episode, NEW rows, RowsSound(rows), rows[k].state # "ABSENT",
           NEW e \in Event, Diagnosed(Fact[e].category), NEW approval, NEW facts,
           NEW inc, NEW lks, Ending(inc), EvaluateCase(k, rows, e, approval, facts, inc, lks),
           \A j \in Episode \ {k} : SameEvidence(rows, j)
    PROVE  /\ case'[k].evidence = e
           /\ \A j \in Episode \ {k} : Stays(j)
<1>1. PICK row, decision :
         /\ row.evidence = e /\ case' = [rows EXCEPT ![k] = row]
         /\ action' = IF decision.result = "PROCEED"
                      THEN Stored(Authorises(k, decision), decision, approval) ELSE action
  BY EvaluatedRow DEF Wakeful
<1>2. case'[k] = row /\ \A j \in Episode \ {k} : case'[j] = rows[j]
  BY <1>1 DEF RowsSound
<1>3. \A a \in ActionKey : a.case # k => action'[a] = action[a]
  <2>1. Authorises(k, decision).case = k
    BY DEF Authorises
  <2>. QED  BY <1>1, <2>1 DEF Stored, Wakeful, Working
<1>. QED  BY <1>1, <1>2, <1>3 DEF Stays, SameEvidence, Idle, IsCase

-----------------------------------------------------------------------------
(* Repeated events: steps. *)

\* A decision again, on the evidence the case has, leaves an idle case alone.
LEMMA DecisionKeepsEvidence ==
    ASSUME ActsOnce, Wakeful, NEW k \in Episode, case[k].state \notin {"ABSENT", "DETECTED"},
           NEW approval, UNCHANGED disposition,
           EvaluateCase(k, case, case[k].evidence, approval, truth, incident, links)
    PROVE  ActsOnce'
<1>1. /\ case[k].evidence \in Event /\ Diagnosed(Fact[case[k].evidence].category)
      /\ Ending(incident) /\ RowsSound(case)
  BY DEF Wakeful, RowsSound, Sound, CaseRow, Timed, Ending
<1>2. \A j \in Episode : SameEvidence(case, j)
  BY DEF SameEvidence
<1>3. case'[k].evidence = case[k].evidence /\ \A j \in Episode \ {k} : Stays(j)
  BY <1>1, <1>2, EvaluateTakes
<1>4. Stays(k)
  BY <1>3 DEF Stays, Idle, IsCase
<1>. QED  BY <1>3, <1>4, TakenOnce DEF StaysLinked

\* A new event links its evidence.
LEMMA WebhookActsOnce ==
    ASSUME ActsOnce, Wakeful, NEW e \in Event, ProcessWebhook(e)
    PROVE  ActsOnce'
<1>1. ASSUME NEW degraded, Prepared(e, degraded)
      PROVE  disposition[e] = "NONE" /\ disposition'[e] # "NONE" /\ StaysLinked
  <2>1. DispositionOf(e, truth') # "NONE"
    BY DEF DispositionOf
  <2>. HIDE DEF DispositionOf
  <2>. QED  BY <1>1, <2>1 DEF Prepared, StaysLinked, Wakeful, Inbox
<1>2. CASE LinkEvidence(e)
  <2>1. PICK degraded \in SUBSET Related(e) :
           Prepared(e, degraded) /\ case' = Marked(degraded) /\ UNCHANGED action
    BY <1>2 DEF LinkEvidence
  <2>2. \A k \in Episode : Stays(k)
    BY <2>1, MarkedEvidence DEF Stays, SameEvidence, Idle, IsCase
  <2>. QED  BY <1>1, <2>1, <2>2, TakenOnce
<1>3. CASE OpenCase(e)
  <2>1. PICK degraded \in SUBSET Related(e) :
           /\ Prepared(e, degraded) /\ disposition'[e] = "APPLIED"
           /\ EvaluateCase(Fact[e].episode,
                  [Marked(degraded) EXCEPT ![Fact[e].episode] = NewCase(e)], e, NoApproval, truth',
                  incident', links \cup LinkedBy(degraded))
    BY <1>3 DEF OpenCase
  <2>2. degraded \in SUBSET Incident /\ Fact[e].episode \in Episode
    BY <2>1 DEF Related, Episode
  <2>3. Ending(incident') /\ Diagnosed(Fact[e].category)
    BY <2>1, ObservedTimed
  <2>4. LET rows == [Marked(degraded) EXCEPT ![Fact[e].episode] = NewCase(e)]
        IN  /\ RowsSound(rows) /\ rows[Fact[e].episode].state # "ABSENT"
            /\ \A j \in Episode \ {Fact[e].episode} : SameEvidence(rows, j)
    <3>1. \A j \in Episode \ {Fact[e].episode} :
             [Marked(degraded) EXCEPT ![Fact[e].episode] = NewCase(e)][j] = Marked(degraded)[j]
      BY <2>2 DEF Marked
    <3>. QED  BY <2>2, <2>3, <3>1, OpenedSound, MarkedEvidence DEF Wakeful, SameEvidence
  <2>5. case'[Fact[e].episode].evidence = e
        /\ \A j \in Episode \ {Fact[e].episode} : Stays(j)
    BY <2>1, <2>2, <2>3, <2>4, EvaluateTakes
  <2>. QED  BY <1>1, <2>1, <2>5, TakenOnce DEF TakesEvidence
<1>4. CASE ApplyEvidence(e)
  <2>1. PICK degraded \in SUBSET Related(e), k \in CasesFor(e) :
           /\ Prepared(e, degraded) /\ disposition'[e] = "APPLIED" /\ case[k].state \in Decidable
           /\ EvaluateCase(k, Marked(degraded), e, NoApproval, truth', incident',
                           links \cup LinkedBy(degraded))
    BY <1>4 DEF ApplyEvidence
  <2>2. degraded \in SUBSET Incident /\ k \in Episode /\ case[k].state # "ABSENT"
    BY <2>1 DEF Related, CasesFor, Episode, Decidable
  <2>3. Ending(incident') /\ Diagnosed(Fact[e].category)
    BY <2>1, ObservedTimed
  <2>4. RowsSound(Marked(degraded)) /\ Marked(degraded)[k].state # "ABSENT"
    BY <2>2, MarkedSound DEF Wakeful
  <2>5. case'[k].evidence = e /\ \A j \in Episode \ {k} : Stays(j)
    BY <2>1, <2>2, <2>3, <2>4, MarkedEvidence, EvaluateTakes
  <2>. QED  BY <1>1, <2>1, <2>5, TakenOnce DEF TakesEvidence
<1>. QED  BY <1>2, <1>3, <1>4 DEF ProcessWebhook

\* An event that is processed again leaves its new case idle: the episode had no
\* case, and so no action.
LEMMA RepeatActsIdle ==
    ASSUME ActsOnce, Wakeful, Coordination, NEW e \in Event, RepeatWebhook(e)
    PROVE  ActsOnce'
<1>. DEFINE own == Fact[e].episode
<1>1. disposition[e] # "NONE" /\ UNCHANGED <<disposition, action>>
  BY DEF RepeatWebhook
<1>2. CASE UNCHANGED case
  BY <1>1, <1>2, TakenOnce DEF Stays, StaysLinked, Idle, IsCase
<1>3. CASE ~IsCase(own) /\ case' = [case EXCEPT ![own] = NewCase(e)]
  <2>1. own \in Episode /\ NewCase(e).state = "DETECTED" /\ NewCase(e).evidence = e
    BY DEF Episode, NewCase
  <2>2. case'[own] = NewCase(e) /\ \A k \in Episode \ {own} : case'[k] = case[k]
    BY <1>3, <2>1 DEF Wakeful, RowsSound
  <2>3. Idle(own)'
    BY <1>1, <1>3, <2>1, <2>2 DEF Idle, Coordination, Owned
  <2>4. TakesEvidence(own)
    BY <1>1, <2>1, <2>2, <2>3 DEF TakesEvidence
  <2>5. \A k \in Episode \ {own} : Stays(k)
    BY <1>1, <2>2 DEF Stays, Idle, IsCase
  <2>. QED  BY <1>1, <2>4, <2>5, TakenOnce DEF StaysLinked
<1>. QED  BY <1>2, <1>3, RepeatedCase

\* Only cases that were decided are executed.
LEMMA ExecuteActsOnce ==
    ASSUME ActsOnce, Wakeful, Coordination, NEW a \in ActionKey, Execute(a)
    PROVE  ActsOnce'
<1>. DEFINE k == a.case
<1>1. k \in Episode /\ action[a].status # "NONE" /\ UNCHANGED disposition
  BY KeyCase DEF Execute, CancelBeforeExecution, BeginAttempt, RecordExecutionResult, RecordLookup,
                 Settles
<1>2. IsCase(k) /\ ~Idle(k)
  BY <1>1 DEF Coordination, Owned, Idle
<1>3. /\ \E row : case' = [case EXCEPT ![k] = row] /\ row.evidence = case[k].evidence
      /\ \E row : action' = [action EXCEPT ![a] = row]
  <2>1. CASE CancelBeforeExecution(a)
    <3>. DEFINE row == [case[k] EXCEPT !.state = StateFor[Recheck(a).result],
                                       !.next = Recheck(a).wake]
    <3>1. case' = [case EXCEPT ![k] = row] /\ action' = [action EXCEPT ![a].status = "FAILED"]
      BY <2>1 DEF CancelBeforeExecution
    <3>2. row.evidence = case[k].evidence
      OBVIOUS
    <3>. QED  BY <3>1, <3>2
  <2>2. CASE BeginAttempt(a)
    <3>1. /\ case' = [case EXCEPT ![k] = Counted(case[k], a)]
          /\ action' = [action EXCEPT ![a].status = "CALLING", ![a].attempts = @ + 1]
      BY <2>2 DEF BeginAttempt
    <3>2. Counted(case[k], a).evidence = case[k].evidence
      BY DEF Counted, Moved
    <3>3. action' = [action EXCEPT ![a] = [action[a] EXCEPT !.status = "CALLING", !.attempts = @ + 1]]
      BY <3>1
    <3>. QED  BY <3>1, <3>2, <3>3
  <2>3. ASSUME NEW status, NEW state, Settles(a, status, state)
        PROVE  /\ \E row : case' = [case EXCEPT ![k] = row] /\ row.evidence = case[k].evidence
               /\ \E row : action' = [action EXCEPT ![a] = row]
    <3>. DEFINE row == Moved(case[k], state)
    <3>1. case' = [case EXCEPT ![k] = row] /\ action' = [action EXCEPT ![a].status = status]
      BY <2>3 DEF Settles
    <3>2. row.evidence = case[k].evidence
      BY DEF Moved
    <3>. QED  BY <3>1, <3>2
  <2>4. CASE RecordExecutionResult(a)
    BY <2>3, <2>4 DEF RecordExecutionResult
  <2>5. CASE RecordLookup(a)
    BY <2>3, <2>5 DEF RecordLookup
  <2>. QED  BY <2>1, <2>2, <2>4, <2>5 DEF Execute
<1>4. /\ case'[k].evidence = case[k].evidence
      /\ \A j \in Episode \ {k} : case'[j] = case[j]
      /\ \A b \in ActionKey : b.case # k => action'[b] = action[b]
  BY <1>1, <1>3 DEF Wakeful, RowsSound, Working
<1>5. \A j \in Episode : Stays(j)
  BY <1>2, <1>4 DEF Stays, Idle, IsCase
<1>. QED  BY <1>1, <1>5, TakenOnce DEF StaysLinked

\* Every step acts on an event for one case only.
LEMMA ActsOnceStep == ActsOnce /\ Wakeful /\ Coordination /\ [Next]_vars => ActsOnce'
<1>. SUFFICES ASSUME ActsOnce, Wakeful, Coordination, [Next]_vars  PROVE ActsOnce'
  OBVIOUS
<1>1. CASE UNCHANGED <<case, action, disposition>>
  BY <1>1, TakenOnce DEF Stays, StaysLinked, Idle, IsCase
<1>2. CASE ReevaluateDeferred
  <2>1. PICK k \in Episode :
           FirstDue(k) /\ EvaluateCase(k, case, case[k].evidence, NoApproval, truth, incident, links)
    BY <1>2 DEF ReevaluateDeferred
  <2>2. case[k].state = "DEFERRED" /\ UNCHANGED disposition
    BY <1>2, <2>1 DEF FirstDue, Due, ReevaluateDeferred
  <2>. QED  BY <2>1, <2>2, DecisionKeepsEvidence
<1>3. ASSUME NEW k \in Episode, ApproveReview(k)
      PROVE  ActsOnce'
  <2>1. /\ case[k].state = "ESCALATED" /\ UNCHANGED disposition
        /\ EvaluateCase(k, case, case[k].evidence, Granted(k), truth, incident, links)
    BY <1>3 DEF ApproveReview, Answerable
  <2>. QED  BY <2>1, DecisionKeepsEvidence
<1>4. ASSUME NEW k \in Episode, CloseReview(k)
      PROVE  ActsOnce'
  <2>. DEFINE row == [case[k] EXCEPT !.state = "STOPPED", !.next = NoTime]
  <2>1. /\ case' = [case EXCEPT ![k] = row] /\ case[k].state = "ESCALATED"
        /\ UNCHANGED <<action, disposition>>
    BY <1>4 DEF CloseReview, Answerable
  <2>2. row.evidence = case[k].evidence
    OBVIOUS
  <2>. HIDE DEF row
  <2>3. \A j \in Episode : Stays(j)
    BY <2>1, <2>2 DEF Stays, Idle, IsCase, Wakeful, RowsSound
  <2>. QED  BY <2>1, <2>3, TakenOnce DEF StaysLinked
<1>5. CASE EndResolve
  <2>1. UNCHANGED <<action, disposition>>
    BY <1>5 DEF EndResolve
  <2>2. \A k \in Episode : case'[k].state = case[k].state /\ case'[k].evidence = case[k].evidence
    BY <1>5, ResolvedRows
  <2>3. \A j \in Episode : Stays(j)
    BY <2>1, <2>2 DEF Stays, Idle, IsCase
  <2>. QED  BY <2>1, <2>3, TakenOnce DEF StaysLinked
<1>6. ASSUME \/ Tick \/ UNCHANGED vars
             \/ \E a \in ActionKey : CloseIntervention(a)
             \/ \E i \in Incident : BeginResolve(i)
             \/ \E p \in Policy : PublishPolicy(p)
             \/ \E customer \in Customer : OptOut(customer)
      PROVE  ActsOnce'
  BY <1>1, <1>6 DEF Tick, vars, CloseIntervention, BeginResolve, PublishPolicy, OptOut
<1>. QED  BY <1>2, <1>3, <1>4, <1>5, <1>6, WebhookActsOnce, RepeatActsIdle, ExecuteActsOnce DEF Next

-----------------------------------------------------------------------------
(* Repeated events: the theorem. *)

\* recovery/service.py:process_event.  An event that is processed again may leave a
\* second case with its evidence, but however many events, repetitions, sweeps,
\* reviews and executions come before and after, only one of the two is ever
\* decided on that evidence and given actions.
THEOREM RepeatsActOnce == Spec => []RepeatActsOnce
<1>1. ActsOnce => RepeatActsOnce
  BY DEF ActsOnce, RepeatActsOnce, Idle
<1>2. Init => ActsOnce /\ Wakeful /\ Reads /\ Coordination
  <2>1. Init => ActsOnce
    BY DEF Init, ActsOnce, IsCase, NoCase
  <2>. QED  BY <2>1, WakefulInit, CoordinationInit DEF Init, Reads, MerchantIsFree
<1>3. ActsOnce /\ Wakeful /\ Reads /\ Coordination /\ [Next]_vars
      => ActsOnce' /\ Wakeful' /\ Reads' /\ Coordination'
  BY ActsOnceStep, WakefulStep, CoordinationStep
<1>. QED  BY <1>1, <1>2, <1>3, PTL DEF Spec
=============================================================================
