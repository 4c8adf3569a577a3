-------------------------- MODULE RecoveryDecision --------------------------
(***************************************************************************)
(* The recovery decisions of one merchant: provider events become case     *)
(* evidence, evidence becomes a diagnosis, policy turns it into an action, *)
(* a wake time, a human review or a stop, and the action is checked again  *)
(* before it is executed.  Between any two of these steps the clock moves, *)
(* policies are published, customers opt out, subjects are paid, incidents *)
(* open and close, and other cases of the customer are decided.            *)
(*                                                                         *)
(*   provider rows   truth         payments, subscriptions and invoices    *)
(*   event inbox     disposition   what became of every normalized event   *)
(*   cases           case          the recovery case of every episode      *)
(*   incidents       incident, links; resolving (portfolio maintenance)    *)
(*   contacts        intervention  one per contact action; optedOut        *)
(*   outbox          action        one per stable idempotency key          *)
(*   operators       review, published                                     *)
(*                                                                         *)
(* A transaction that decides or executes holds the case row, and those    *)
(* that read more cases than they lock hold the merchant: each is one      *)
(* action.  The resolution of an incident locks the merchant but reads the *)
(* cases without a lock, while the deferred sweep and the executions read  *)
(* the incidents without one and never take the merchant: it is two.  What *)
(* happens to an action after it is prepared is modelled in                *)
(* ActionExecution; here Settles gives its outcomes.                       *)
(***************************************************************************)
EXTENDS CaseLifecycle, CaseDiagnosis

CONSTANTS
    Event,          \* ids of normalized events; ids are ordered
    Fact,           \* Fact[e]: what the event says
    CaseId,         \* CaseId[k]: the id of the episode's case; ids are ordered
    Customer,       \* customers of the merchant
    Policy,         \* policy versions that may be published
    Incident,       \* portfolio incidents that may open
    ScopeOf,        \* ScopeOf[i]: the scope of the incident
    Advised,        \* whether a model is configured for the agent graph
    Nets,           \* expected net recoveries the scoring artifact may compute
    IncidentTtl,    \* incident_ttl
    ReviewTtl,      \* how long a human review may be answered
    MaxAttempts,    \* max_attempts of an action
    MaxTime         \* bound: the clock stops here

NoCustomer == "NO_CUSTOMER"
NoEvent    == 0
NoIncident == "NO_INCIDENT"

EventFact ==
    [episode : STRING, subject : STRING, target : STRING,
     customer : Customer \cup {NoCustomer}, amount : Nat, at : Nat,
     category : Category, eventStatus : STRING, storedStatus : STRING]

ASSUME EventsAssumption ==
    /\ NoCustomer \notin Customer
    /\ Event \subseteq Nat \ {NoEvent}
    /\ Fact \in [Event -> EventFact]
ASSUME DecisionBoundsAssumption ==
    /\ Nets \subseteq Int
    /\ \A bound \in {IncidentTtl, ReviewTtl, MaxAttempts} : bound \in Nat \ {0}
    /\ MaxTime \in Nat \ {0}
ASSUME PoliciesAssumption ==
    /\ IsFiniteSet(Policy)
    /\ \E p \in Policy : p.effective <= 1
    /\ \A p, q \in Policy : p.effective = q.effective => p = q
    /\ \A p \in Policy : /\ p.effective \in Nat /\ p.defer \in Nat \ {0}
                         /\ p.quietEnd \in 0..(Day - 1) /\ p.zone \in Int
                         /\ p.contactLimit \in Nat
ASSUME IncidentsAssumption ==
    /\ NoIncident \notin Incident
    /\ ScopeOf \in [Incident -> SystemicScope]

Episode == {Fact[e].episode : e \in Event}
ASSUME CaseIdsAssumption ==
    /\ IsFiniteSet(Episode)
    /\ CaseId \in [Episode -> Nat]
    /\ \A j, k \in Episode : CaseId[j] = CaseId[k] => j = k

Subject == {Fact[e].subject : e \in Event}
Target  == {Fact[e].target : e \in Event}

VARIABLES
    now,            \* the clock of the services
    truth,          \* truth[s]: provider_updated_at and status of the subject's row
    disposition,    \* disposition[e]: event_case_links.disposition
    case,           \* case[k]: the recovery_cases row of the episode
    incident,       \* incident[i]: status and ends_at of the portfolio_incidents row
    links,          \* incident_case_links
    resolving,      \* what an open resolution of an incident has read
    action,         \* action[a]: recovery_actions by idempotency key
    intervention,   \* intervention[a]: customer_interventions by contact action
    review,         \* review[k]: the latest human_reviews row of the case
    published,      \* merchant_policy_versions
    optedOut        \* customers whose communication_consents row opts out

vars == <<now, truth, disposition, case, incident, links, resolving, action, intervention,
          review, published, optedOut>>

\* The types that policy can answer PROCEED for: it never does for an escalation,
\* and a dispute stops the case before its STOP_AUTOMATION is looked at.
ExecutableType == {"DEFER_RETRY", "CREATE_PAYMENT_LINK", "REQUEST_PAYMENT_METHOD_UPDATE",
                   "SEND_REMINDER", "PAUSE_RETRIES"}

\* The idempotency key of an action names its case, its type and its target.
ActionKey ==
    {a \in [case : Episode, type : ExecutableType, target : Target] :
        \E e \in Event : Fact[e].episode = a.case /\ Fact[e].target = a.target}

NoCase == [state |-> "ABSENT"]
NoRow  == [status |-> "NONE"]
NoTruth == [at |-> NoTime, status |-> "NONE"]
NoResolution == [incident |-> NoIncident, at |-> NoTime, released |-> {}, woken |-> {}]

IsCase(k)   == case[k].state # "ABSENT"
IsActive(k) == IsCase(k) /\ case[k].state \notin TerminalState

Init ==
    /\ now = 1
    /\ truth = [s \in Subject |-> NoTruth]
    /\ disposition = [e \in Event |-> "NONE"]
    /\ case = [k \in Episode |-> NoCase]
    /\ incident = [i \in Incident |-> NoRow]
    /\ links = {}
    /\ resolving = NoResolution
    /\ action = [a \in ActionKey |-> NoRow]
    /\ intervention = [a \in ActionKey |-> NoRow]
    /\ review = [k \in Episode |-> NoRow]
    /\ published = {p \in Policy : p.effective <= 1}
    /\ optedOut = {}

-----------------------------------------------------------------------------
(***************************************************************************)
(* Provider truth.  A row follows the newest update; at equal times, the   *)
(* status of higher precedence.                                            *)
(***************************************************************************)
Precedence(status) ==
    CASE status = "DISPUTED"                                      -> 110
      [] status \in {"CAPTURED", "PAID", "CHARGED", "COMPLETED"} -> 100
      [] status \in {"CANCELLED", "HALTED"}                       -> 90
      [] status = "AUTHORIZED"                                    -> 50
      [] status = "FAILED"                                        -> 20
      [] status = "PENDING"                                       -> 10
      [] status = "CREATED"                                       -> 5
      [] OTHER                                                    -> 0

\* Slip: the last update processed wins.
AlwaysAuthoritative(old, new) == TRUE

Authoritative(old, new) ==
    \/ new.at > old.at
    \/ new.at = old.at /\ Precedence(new.status) >= Precedence(old.status)

Reported(e) == [at |-> Fact[e].at, status |-> Fact[e].storedStatus]

Upserted(e) ==
    LET s == Fact[e].subject
    IN  IF Authoritative(truth[s], Reported(e)) THEN [truth EXCEPT ![s] = Reported(e)] ELSE truth

PaidStatuses      == {"CAPTURED", "CHARGED", "COMPLETED", "PAID"}
CancelledStatuses == {"CANCELLED", "ESCALATED"}

EffectivePolicy ==
    LET inForce == {p \in published : p.effective <= now}
    IN  CHOOSE p \in inForce : \A q \in inForce : q.effective <= p.effective

-----------------------------------------------------------------------------
(***************************************************************************)
(* Portfolio incidents as the cases of the merchant see them.  A degraded  *)
(* assessment opens or refreshes an incident and attaches the active cases *)
(* whose stored diagnosis the incident explains.                           *)
(***************************************************************************)
Running(inc, i) == inc[i].status = "ACTIVE"

Constraint(inc, i) ==
    [scope |-> ScopeOf[i], starts |-> inc[i].starts, ends |-> inc[i].ends,
     channel |-> NoChannel]

Attached(i) ==
    {k \in Episode : IsActive(k) /\ Explains(ScopeOf[i], case[k].diagnosis)}

Degrade(degraded) ==
    [i \in Incident |->
        IF i \notin degraded THEN incident[i]
        ELSE [status |-> "ACTIVE", ends |-> now + IncidentTtl,
              starts |-> IF Running(incident, i) THEN incident[i].starts ELSE now]]

\* Slip: the cases are marked, and the links are written only by decisions.
LinkedLater(degraded) == {}

LinkedBy(degraded) == {l \in degraded \X Episode : l[2] \in Attached(l[1])}

Marked(degraded) ==
    [k \in Episode |->
        IF IsCase(k) /\ case[k].incident = NoIncident /\ \E i \in degraded : k \in Attached(i)
        THEN [case[k] EXCEPT !.incident = CHOOSE i \in degraded : k \in Attached(i)]
        ELSE case[k]]

\* The incidents that a failure event may push over the degradation threshold.
Related(e) ==
    {i \in Incident : /\ Fact[e].category \in DOMAIN Diagnoses
                      /\ Explains(ScopeOf[i], Diagnoses[Fact[e].category].code)
                      /\ incident[i].status # "RESOLVED"}

\* Slip: an incident suspends only the cases attached when it was observed.
ApplicableLinked(inc, lks, k, code) ==
    {i \in Incident : /\ Running(inc, i) /\ now < inc[i].ends
                      /\ <<i, k>> \in lks}

\* active_incidents: linked incidents, and those the diagnosis code matches.
Applicable(inc, lks, k, code) ==
    {i \in Incident : /\ Running(inc, i) /\ now < inc[i].ends
                      /\ <<i, k>> \in lks \/ Explains(ScopeOf[i], code)}

-----------------------------------------------------------------------------
(***************************************************************************)
(* Customer contacts are coordinated over all the cases of a customer:     *)
(* customer_contact_snapshot on the case rows of the transaction.          *)
(***************************************************************************)
CasesOf(rows, customer) ==
    {k \in Episode : rows[k].state # "ABSENT" /\ rows[k].customer = customer}

\* Slip: only the case's own contacts count.
OwnContacts(rows, k) == rows[k].contacts

AggregateContacts(rows, k) ==
    IF rows[k].customer = NoCustomer THEN rows[k].contacts
    ELSE MapThenSumSet(LAMBDA j : rows[j].contacts, CasesOf(rows, rows[k].customer))

ActiveCases(rows, k) ==
    IF rows[k].customer = NoCustomer THEN {k}
    ELSE {j \in CasesOf(rows, rows[k].customer) : rows[j].state \notin TerminalState}

\* The ACTIVE interventions of the customer of the case.
Interventions(rows, k) ==
    {a \in ActionKey : /\ rows[k].customer # NoCustomer
                       /\ intervention[a].status = "ACTIVE"
                       /\ rows[a.case].customer = rows[k].customer}

\* coordinate_case_with_active_intervention
Coordinated(rows, k) ==
    [a \in ActionKey |->
        IF a \in Interventions(rows, k) THEN [intervention[a] EXCEPT !.cases = @ \cup {k}]
        ELSE intervention[a]]

\* store_customer_intervention raises INTERVENTION_IDEMPOTENCY_CONFLICT when the
\* action already has an intervention that coordinates other cases.
Conflicts(rows, a) ==
    /\ intervention[a].status # "NONE"
    /\ intervention[a].cases # ActiveCases(rows, a.case)

-----------------------------------------------------------------------------
(***************************************************************************)
(* _evaluate_case: advice, incidents, contacts, scores, provider truth and *)
(* policy, and what the decision leaves behind.  `rows', `facts', `inc'    *)
(* and `lks' are the rows as the transaction has written them so far.      *)
(***************************************************************************)
AdviceFor(d) == IF Advised THEN Acceptable(d) \cup {Deterministic(d)} ELSE {Deterministic(d)}

NoApproval == NoRow

\* What both policy checks read of the case, as of its confidence and no advice.
CaseFacts(rows, k, facts, running) ==
    LET row == rows[k]
        status == facts[row.subject].status
    IN  [case |-> k, amount |-> row.amount, currency |-> "INR", at |-> now,
         confidence |-> row.confidence, candidates |-> <<>>, deferUntil |-> NoTime,
         retryCount |-> row.retries, contactCount |-> AggregateContacts(rows, k),
         contactInProgress |-> Interventions(rows, k) # {},
         identified |-> row.customer # NoCustomer,
         consented |-> IF row.customer = NoCustomer THEN {} ELSE {"EMAIL"},
         optedOut |-> IF row.customer \in optedOut THEN {"EMAIL"} ELSE {},
         incidents |-> running, terminal |-> FALSE,
         paid |-> status \in PaidStatuses, cancelled |-> status \in CancelledStatuses,
         disputed |-> status = "DISPUTED", promiseDue |-> NoTime,
         approval |-> NoApproval, unknownEquivalent |-> FALSE]

UnknownEquivalent(k, candidates) ==
    \E i \in DOMAIN candidates :
        LET a == [case |-> k, type |-> candidates[i].type, target |-> candidates[i].target]
        IN  a \in ActionKey /\ action[a].status = "UNKNOWN"

EvaluationInput(rows, k, facts, running, d, advice, candidates, deferUntil, approval) ==
    [CaseFacts(rows, k, facts, running) EXCEPT
        !.confidence = advice.confidence, !.candidates = candidates,
        !.deferUntil = deferUntil, !.approval = approval, !.disputed = @ \/ d.terminal,
        !.unknownEquivalent = UnknownEquivalent(k, candidates)]

NewReview(fingerprint) ==
    [status |-> "REQUESTED", fingerprint |-> fingerprint, expires |-> now + ReviewTtl]

FingerprintOf(rows, k, d) ==
    [case |-> k, type |-> d.type, target |-> d.target, amount |-> rows[k].amount,
     policy |-> EffectivePolicy.version]

\* A retry that waits for more confidence counts as a retry.
RetryCount(row, d) ==
    IF d.reason = "LOW_CONFIDENCE_RETRY_DEFERRED" THEN row.retries + 1 ELSE row.retries

\* Slip: the wake time of the decision is not stored.
DecidedRowAsleep(row, d, e, advice, applicable) ==
    [row EXCEPT !.state = StateFor[d.result], !.next = NoTime]

DecidedRow(row, d, e, advice, applicable) ==
    [row EXCEPT !.state = StateFor[d.result], !.next = d.wake, !.evidence = e,
                !.diagnosis = advice.code, !.confidence = advice.confidence,
                !.retries = RetryCount(row, d),
                !.incident = IF applicable = {} THEN @ ELSE CHOOSE i \in applicable : TRUE]

\* Slip: a new authorisation reopens the row of its key.
StoredAgain(a, d, approval) ==
    [action EXCEPT ![a] = [status |-> "PENDING", attempts |-> 0, net |-> d.net,
                           approval |-> approval]]

\* store_action: one row per idempotency key, the first one stays.
Stored(a, d, approval) ==
    IF action[a].status # "NONE" THEN action
    ELSE [action EXCEPT ![a] = [status |-> "PENDING", attempts |-> 0, net |-> d.net,
                                approval |-> approval]]

StoredIntervention(rows, a) ==
    IF intervention[a].status # "NONE" THEN Coordinated(rows, a.case)
    ELSE [Coordinated(rows, a.case) EXCEPT ![a] =
             [status |-> "ACTIVE", cases |-> ActiveCases(rows, a.case),
              until |-> now + EffectivePolicy.defer]]

ContactsCustomer(rows, a) ==
    ActionClasses[a.type] = "CUSTOMER_CONTACT" /\ rows[a.case].customer # NoCustomer

DecisionOn(k, rows, e, approval, facts, inc, applicable, advice, order, nets) ==
    Evaluate(EffectivePolicy,
        EvaluationInput(rows, k, facts, {Constraint(inc, i) : i \in applicable},
                        Diagnoses[Fact[e].category], advice,
                        Candidates(order, Fact[e].target, nets),
                        DeferUntil(Fact[e].category, Fact[e].at), approval))

Authorises(k, decision) == [case |-> k, type |-> decision.type, target |-> decision.target]

\* Whether storing what was decided fails and rolls the transaction back.
Raises(rows, k, decision) ==
    LET a == Authorises(k, decision)
    IN  decision.result = "PROCEED" /\ ContactsCustomer(rows, a) /\ Conflicts(rows, a)

RecordDecision(k, rows, e, approval, lks, applicable, advice, decision) ==
    LET a == Authorises(k, decision)
        proceeds == decision.result = "PROCEED"
        contacts == proceeds /\ ContactsCustomer(rows, a)
    IN  /\ case' = [rows EXCEPT ![k] = DecidedRow(@, decision, e, advice, applicable)]
        /\ links' = lks \cup (applicable \X {k})
        /\ review' = [review EXCEPT ![k] =
                         IF decision.result = "REQUIRE_HUMAN"
                         THEN NewReview(FingerprintOf(rows, k, decision))
                         ELSE IF approval = NoApproval THEN @ ELSE approval]
        /\ ~Raises(rows, k, decision)
        /\ action' = IF proceeds THEN Stored(a, decision, approval) ELSE action
        /\ intervention' = IF contacts THEN StoredIntervention(rows, a)
                           ELSE Coordinated(rows, k)

EvaluateCase(k, rows, e, approval, facts, inc, lks) ==
    \E advice \in AdviceFor(Diagnoses[Fact[e].category]) :
    \E order \in Rankings(EffectivePolicy, advice.types) :
    \E nets \in [DOMAIN order -> Nets] :
        LET applicable == Applicable(inc, lks, k, advice.code)
        IN  RecordDecision(k, rows, e, approval, lks, applicable, advice,
                DecisionOn(k, rows, e, approval, facts, inc, applicable, advice, order, nets))

-----------------------------------------------------------------------------
(***************************************************************************)
(* Processing a webhook event, in one transaction: provider rows, incident *)
(* observation, then process_event.  The signed success of a payment link  *)
(* is handled after it (ActionExecution); no event here carries one.       *)
(***************************************************************************)
\* The active case of the subject, or else the case of the episode.
CasesFor(e) ==
    LET active == {k \in Episode : IsActive(k) /\ case[k].subject = Fact[e].subject}
    IN  IF active # {} THEN active
        ELSE {k \in {Fact[e].episode} : IsCase(k)}

\* order_evidence, against the provider row and the case's last evidence w.
Stale(e, w, row) ==
    LET rank == Precedence(Fact[e].eventStatus)
        last == Precedence(Fact[w].eventStatus)
    IN  \/ Fact[e].at < row.at
        \/ Fact[e].at < Fact[w].at
        \/ Fact[e].at = row.at /\ rank < Precedence(row.status)
        \/ Fact[e].at = Fact[w].at /\ (rank < last \/ (rank = last /\ e <= w))

DispositionOf(e, facts) ==
    IF ~Diagnosed(Fact[e].category) THEN "AUDIT_ONLY"
    ELSE IF CasesFor(e) = {} THEN "APPLIED"
    ELSE LET k == CHOOSE k \in CasesFor(e) : TRUE
         IN  CASE ~IsActive(k) -> "AUDIT_ONLY"
               [] IsActive(k) /\ Stale(e, case[k].evidence, facts[Fact[e].subject])
                    -> "IGNORED_STALE"
               [] OTHER -> "APPLIED"

NewCase(e) ==
    [state |-> "DETECTED", subject |-> Fact[e].subject, customer |-> Fact[e].customer,
     amount |-> Fact[e].amount, evidence |-> e, diagnosis |-> "NONE", confidence |-> 0,
     retries |-> 0, contacts |-> 0, next |-> NoTime, incident |-> NoIncident]

Decidable == {"DETECTED", "DIAGNOSING", "DEFERRED", "DECISION_PENDING"}

\* lock_merchant: no resolution of an incident is open.
MerchantIsFree == resolving = NoResolution

\* Case rows, incidents and links before process_event.
Prepared(e, degraded) ==
    /\ MerchantIsFree
    /\ disposition[e] = "NONE" /\ Fact[e].at <= now
    /\ degraded \subseteq Related(e)
    /\ truth' = Upserted(e)
    /\ incident' = Degrade(degraded)
    /\ disposition' = [disposition EXCEPT ![e] = DispositionOf(e, truth')]
    /\ UNCHANGED <<now, resolving, published, optedOut>>

\* The evidence is only linked, or the state of its case does not allow a
\* new decision (CASE_NOT_ELIGIBLE_FOR_REEVALUATION).
LinkEvidence(e) ==
    \E degraded \in SUBSET Related(e) :
        /\ Prepared(e, degraded)
        /\ \/ disposition'[e] # "APPLIED"
           \/ \E k \in CasesFor(e) : case[k].state \notin Decidable
        /\ case' = Marked(degraded)
        /\ links' = links \cup LinkedBy(degraded)
        /\ UNCHANGED <<action, intervention, review>>

OpenCase(e) ==
    LET k == Fact[e].episode
    IN  \E degraded \in SUBSET Related(e) :
        /\ Prepared(e, degraded)
        /\ disposition'[e] = "APPLIED" /\ CasesFor(e) = {}
        /\ EvaluateCase(k, [Marked(degraded) EXCEPT ![k] = NewCase(e)], e, NoApproval, truth',
                        incident', links \cup LinkedBy(degraded))

ApplyEvidence(e) ==
    \E degraded \in SUBSET Related(e), k \in CasesFor(e) :
        /\ Prepared(e, degraded)
        /\ disposition'[e] = "APPLIED" /\ case[k].state \in Decidable
        /\ EvaluateCase(k, Marked(degraded), e, NoApproval, truth', incident',
                        links \cup LinkedBy(degraded))

ProcessWebhook(e) == LinkEvidence(e) \/ OpenCase(e) \/ ApplyEvidence(e)

\* Slip: the case that a repeated event creates is decided like that of a new one.
RepeatDecided(e) ==
    LET k == Fact[e].episode
    IN  /\ MerchantIsFree
        /\ disposition[e] # "NONE" /\ Diagnosed(Fact[e].category) /\ CasesFor(e) = {}
        /\ truth' = Upserted(e)
        /\ EvaluateCase(k, [case EXCEPT ![k] = NewCase(e)], e, NoApproval, truth', incident,
                        links)
        /\ UNCHANGED <<now, disposition, incident, resolving, published, optedOut>>

\* The event is processed again (EventDispatch).  It is observed and linked
\* already, but process_event creates the case of its episode before it finds
\* that out (EVENT_ALREADY_LINKED), and the case is committed undecided.
RepeatWebhook(e) ==
    /\ MerchantIsFree
    /\ disposition[e] # "NONE"
    /\ truth' = Upserted(e)
    /\ case' = IF Diagnosed(Fact[e].category) /\ CasesFor(e) = {}
               THEN [case EXCEPT ![Fact[e].episode] = NewCase(e)] ELSE case
    /\ UNCHANGED <<now, disposition, incident, links, resolving, action, intervention, review,
                   published, optedOut>>

-----------------------------------------------------------------------------
(***************************************************************************)
(* reevaluate_deferred takes due cases in the order of their wake times    *)
(* and ids, and decides them in one transaction; an error in one rolls all *)
(* back.  The model takes them one by one, the first one first.            *)
(***************************************************************************)
\* Slip: only the cases that wake at this very moment are found.
DueExactly(k) == IsCase(k) /\ case[k].state = "DEFERRED" /\ case[k].next = now

Due(k) == IsCase(k) /\ case[k].state = "DEFERRED" /\ case[k].next <= now

FirstDue(k) ==
    /\ Due(k)
    /\ \A j \in Episode \ {k} : Due(j) =>
          \/ case[k].next < case[j].next
          \/ case[k].next = case[j].next /\ CaseId[k] < CaseId[j]

ReevaluateDeferred ==
    \E k \in Episode :
        /\ FirstDue(k)
        /\ EvaluateCase(k, case, case[k].evidence, NoApproval, truth, incident, links)
        /\ UNCHANGED <<now, truth, disposition, incident, resolving, published, optedOut>>

-----------------------------------------------------------------------------
(***************************************************************************)
(* decide_review: an operator answers the review of an escalated case.     *)
(***************************************************************************)
Answerable(k) == case[k].state = "ESCALATED" /\ review[k].status = "REQUESTED"

Granted(k) == [review[k] EXCEPT !.status = "APPROVED"]

ApproveReview(k) ==
    /\ MerchantIsFree /\ Answerable(k) /\ now < review[k].expires
    /\ EvaluateCase(k, case, case[k].evidence, Granted(k), truth, incident, links)
    /\ UNCHANGED <<now, truth, disposition, incident, resolving, published, optedOut>>

\* A rejection, or an answer that comes too late.
CloseReview(k) ==
    /\ MerchantIsFree /\ Answerable(k)
    /\ review' = [review EXCEPT ![k].status =
                     IF now < review[k].expires THEN "REJECTED" ELSE "EXPIRED"]
    /\ case' = [case EXCEPT ![k].state = "STOPPED", ![k].next = NoTime]
    /\ UNCHANGED <<now, truth, disposition, incident, links, resolving, action, intervention,
                   published, optedOut>>

-----------------------------------------------------------------------------
(***************************************************************************)
(* Execution.  prepare_execution evaluates policy again, for the one       *)
(* candidate of the receipt and on the facts of the moment; what it finds  *)
(* there decides whether the provider is called.                           *)
(***************************************************************************)
Executable(k) == IsCase(k) /\ case[k].state \in {"READY", "EXECUTING"}

RecheckInput(a) ==
    LET k == a.case
        running == {Constraint(incident, i) :
                       i \in Applicable(incident, links, k, case[k].diagnosis)}
    IN  [CaseFacts(case, k, truth, running) EXCEPT
            !.candidates = <<CandidateOf(a.type, a.target, action[a].net),
                             CandidateOf("NO_ACTION", a.target, 0)>>,
            !.approval = action[a].approval,
            !.contactInProgress = Interventions(case, k) \ {a} # {}]

\* Slip: the facts of the authorisation are trusted.
RecheckSkipped(a) ==
    [type |-> a.type, target |-> a.target, result |-> "PROCEED", wake |-> NoTime,
     reason |-> "POLICY_AUTHORIZED", net |-> 0]

Recheck(a) == Evaluate(EffectivePolicy, RecheckInput(a))

Relinked(a) ==
    links \cup (Applicable(incident, links, a.case, case[a.case].diagnosis) \X {a.case})

\* cancel_before_execution and the transitions that follow it.
CancelBeforeExecution(a) ==
    LET k == a.case
        d == Recheck(a)
    IN  /\ Executable(k) /\ action[a].status = "PENDING" /\ d.result # "PROCEED"
        /\ action' = [action EXCEPT ![a].status = "FAILED"]
        /\ case' = [case EXCEPT ![k].state = StateFor[d.result], ![k].next = d.wake]
        /\ review' = IF d.result = "REQUIRE_HUMAN"
                     THEN [review EXCEPT ![k] = NewReview(FingerprintOf(case, k, d))]
                     ELSE review
        /\ links' = Relinked(a)
        /\ UNCHANGED <<now, truth, disposition, incident, resolving, intervention, published,
                       optedOut>>

\* A transition writes next_evaluation_at too, and a decision READY leaves none.
Moved(row, state) ==
    [row EXCEPT !.state = state, !.next = IF row.state = state THEN @ ELSE NoTime]

Counted(row, a) ==
    [Moved(row, "EXECUTING") EXCEPT
                !.retries = @ + (IF ActionClasses[a.type] = "RETRY" THEN 1 ELSE 0),
                !.contacts = @ + (IF ActionClasses[a.type] = "CUSTOMER_CONTACT" THEN 1 ELSE 0)]

BeginAttempt(a) ==
    /\ Executable(a.case) /\ action[a].status = "PENDING"
    /\ action[a].attempts < MaxAttempts
    /\ Recheck(a).result = "PROCEED"
    /\ action' = [action EXCEPT ![a].status = "CALLING", ![a].attempts = @ + 1]
    /\ case' = [case EXCEPT ![a.case] = Counted(@, a)]
    /\ links' = Relinked(a)
    /\ UNCHANGED <<now, truth, disposition, incident, resolving, intervention, review, published,
                   optedOut>>

\* Only the payment provider, not the simulator, refuses or loses a request; a
\* call of any action may be lost with its worker and become UNKNOWN.
Results(a) ==
    {"SUCCEEDED", "UNKNOWN"} \cup
    (IF ActionClasses[a.type] = "MONEY_INTENT" THEN {"FAILED", "RATE_LIMITED"} ELSE {})

Settles(a, status, state) ==
    /\ action' = [action EXCEPT ![a].status = status]
    /\ case' = [case EXCEPT ![a.case] = Moved(@, state)]
    /\ UNCHANGED <<now, truth, disposition, incident, links, resolving, intervention, review,
                   published, optedOut>>

RecordExecutionResult(a) ==
    /\ action[a].status = "CALLING"
    /\ \E result \in Results(a) :
          CASE result = "RATE_LIMITED" /\ action[a].attempts < MaxAttempts
                                      -> Settles(a, "PENDING", "EXECUTING")
            [] result = "SUCCEEDED"   -> Settles(a, "SUCCEEDED", "VERIFYING")
            [] result = "UNKNOWN"     -> Settles(a, "UNKNOWN", "UNKNOWN")
            [] OTHER                  -> Settles(a, "FAILED", "DECISION_PENDING")

\* record_lookup: the request was accepted, the link was paid or cancelled, or
\* no answer came before the deadline.
RecordLookup(a) ==
    /\ action[a].status \in {"SUCCEEDED", "UNKNOWN"}
    /\ case[a.case].state \in {"VERIFYING", "UNKNOWN"}
    /\ \/ action[a].status = "UNKNOWN" /\ Settles(a, "SUCCEEDED", "VERIFYING")
       \/ Settles(a, "UNKNOWN", "ESCALATED")
       \/ /\ ActionClasses[a.type] = "MONEY_INTENT"
          /\ Settles(a, "SUCCEEDED", "RECOVERED") \/ Settles(a, "FAILED", "DECISION_PENDING")

-----------------------------------------------------------------------------
\* close_expired_customer_interventions.
CloseIntervention(a) ==
    /\ intervention[a].status = "ACTIVE" /\ intervention[a].until <= now
    /\ action[a].status \in {"SUCCEEDED", "FAILED"}
    /\ intervention' = [intervention EXCEPT ![a].status = "CLOSED"]
    /\ UNCHANGED <<now, truth, disposition, case, incident, links, resolving, action, review,
                   published, optedOut>>

(***************************************************************************)
(* _resolve_incident, under the lock of the merchant: it reads the linked  *)
(* cases, and what it wrote is committed some time later.  Until then the  *)
(* others find the incident ACTIVE, and may link, decide or execute a case *)
(* of it; the rows that were read are written as they were read.  A new    *)
(* link waits for the row of the incident and is committed after the       *)
(* resolution, as it was decided before it; the model commits it before,   *)
(* which leaves the same rows.                                             *)
(***************************************************************************)
BeginResolve(i) ==
    LET released == {k \in Episode : /\ IsCase(k) /\ <<i, k>> \in links
                                     /\ case[k].incident = i}
    IN  /\ MerchantIsFree /\ Running(incident, i)
        /\ resolving' = [incident |-> i, at |-> now, released |-> released,
                         woken |-> {k \in released : case[k].state = "DEFERRED"}]
        /\ UNCHANGED <<now, truth, disposition, case, incident, links, action, intervention,
                       review, published, optedOut>>

\* The cases that were found are let go, and those found deferred woken.
EndResolve ==
    /\ ~MerchantIsFree
    /\ incident' = [incident EXCEPT ![resolving.incident].status = "RESOLVED"]
    /\ case' = [k \in Episode |->
                  IF k \notin resolving.released THEN case[k]
                  ELSE [case[k] EXCEPT !.incident = NoIncident,
                                       !.next = IF k \in resolving.woken THEN resolving.at
                                                ELSE @]]
    /\ resolving' = NoResolution
    /\ UNCHANGED <<now, truth, disposition, links, action, intervention, review, published,
                   optedOut>>

PublishPolicy(p) ==
    /\ p \notin published
    /\ published' = published \cup {p}
    /\ UNCHANGED <<now, truth, disposition, case, incident, links, resolving, action,
                   intervention, review, optedOut>>

\* communication_consents is maintained outside this repository.
OptOut(customer) ==
    /\ customer \notin optedOut
    /\ optedOut' = optedOut \cup {customer}
    /\ UNCHANGED <<now, truth, disposition, case, incident, links, resolving, action,
                   intervention, review, published>>

Tick ==
    /\ now < MaxTime
    /\ now' = now + 1
    /\ UNCHANGED <<truth, disposition, case, incident, links, resolving, action, intervention,
                   review, published, optedOut>>

Execute(a) ==
    CancelBeforeExecution(a) \/ BeginAttempt(a) \/ RecordExecutionResult(a) \/ RecordLookup(a)

Next ==
    \/ Tick \/ ReevaluateDeferred \/ EndResolve
    \/ \E e \in Event : ProcessWebhook(e) \/ RepeatWebhook(e)
    \/ \E k \in Episode : ApproveReview(k) \/ CloseReview(k)
    \/ \E a \in ActionKey : Execute(a) \/ CloseIntervention(a)
    \/ \E i \in Incident : BeginResolve(i)
    \/ \E p \in Policy : PublishPolicy(p)
    \/ \E customer \in Customer : OptOut(customer)

Spec == Init /\ [][Next]_vars

\* The sweep can decide its first case: some answer of the model and the scores
\* does not raise.  This is ENABLED ReevaluateDeferred, in a form TLC evaluates.
CanReevaluate ==
    \E k \in Episode :
        /\ FirstDue(k)
        /\ LET e == case[k].evidence
           IN  \E advice \in AdviceFor(Diagnoses[Fact[e].category]) :
               \E order \in Rankings(EffectivePolicy, advice.types) :
               \E nets \in [DOMAIN order -> Nets] :
                  ~Raises(case, k,
                      DecisionOn(k, case, e, NoApproval, truth, incident,
                                 Applicable(incident, links, k, advice.code), advice, order,
                                 nets))

\* Time passes, and the beat schedule starts a re-evaluation of the due cases
\* every 30 seconds: WF_vars(ReevaluateDeferred).
FairSpec ==
    /\ Spec
    /\ WF_vars(Tick)
    /\ []<>~CanReevaluate \/ []<><<ReevaluateDeferred>>_vars

-----------------------------------------------------------------------------
(***************************************************************************)
(* Properties.                                                             *)
(***************************************************************************)
\* The codes that a stored diagnosis may have; a new case has none yet.
DiagnosisCode ==
    {"NONE", ForeignCode} \cup {Diagnoses[c].code : c \in {c \in Category : Diagnosed(c)}}

\* Confidence is kept in basis points.
Confidence == 0..10000

CaseRow ==
    [state : CaseState \ {"ABSENT"}, subject : Subject, customer : Customer \cup {NoCustomer},
     amount : Nat, evidence : Event, diagnosis : DiagnosisCode, confidence : Confidence,
     retries : Nat, contacts : Nat, next : Nat, incident : Incident \cup {NoIncident}]

\* The rows are of their types, and a deferred case always has a wake time.
TypeOK ==
    /\ now \in 1..MaxTime
    /\ \A k \in Episode :
          IsCase(k) => /\ case[k] \in CaseRow
                       /\ case[k].state = "DEFERRED" => case[k].next # NoTime
    /\ disposition \in [Event -> {"NONE", "APPLIED", "IGNORED_STALE", "AUDIT_ONLY"}]
    /\ \A a \in ActionKey :
          action[a].status \in {"NONE", "PENDING", "CALLING", "SUCCEEDED", "FAILED", "UNKNOWN"}
    /\ \A a \in ActionKey : intervention[a].status \in {"NONE", "ACTIVE", "CLOSED"}

\* The step calls the provider for action a.
Starts(a) == action[a].status = "PENDING" /\ action'[a].status = "CALLING"

\* No action, a charge least of all, starts while the provider row says that its
\* subject is paid, disputed or cancelled: whatever was authorised
\* before, prepare_execution reads the row again.
PaidIsNotCharged ==
    [][\A a \in ActionKey : Starts(a) =>
          truth[case[a.case].subject].status \notin
             PaidStatuses \cup CancelledStatuses \cup {"DISPUTED"}]_vars

\* An action whose amount is at or over the review threshold of the policy in
\* force starts only with an approval that a human gave for this very action
\* under this very policy, and that has not run out: approvals given under an
\* older policy, or for another action of the case, authorise nothing.
HighValueIsApproved ==
    [][\A a \in ActionKey :
          (/\ Starts(a) /\ ActionClasses[a.type] \in Effectful
           /\ case[a.case].amount >= EffectivePolicy.reviewAmount)
          => LET given == action[a].approval
             IN  /\ given.status = "APPROVED" /\ now < given.expires
                 /\ given.fingerprint.type = a.type /\ given.fingerprint.target = a.target
                 /\ given.fingerprint.policy = EffectivePolicy.version]_vars

\* A contact never starts after its customer has opted out, even when it was
\* authorised before.
OptOutIsRespected ==
    [][\A a \in ActionKey :
          Starts(a) /\ ActionClasses[a.type] = "CUSTOMER_CONTACT"
          => case[a.case].customer \notin optedOut]_vars

\* At most one contact of a customer is authorised or in flight at any time,
\* over all the customer's cases, subscriptions and invoices.
OneContactAtATime ==
    \A a, b \in ActionKey :
        (/\ action[a].status \in {"PENDING", "CALLING"}
         /\ action[b].status \in {"PENDING", "CALLING"}
         /\ ContactsCustomer(case, a) /\ ContactsCustomer(case, b)
         /\ case[a.case].customer = case[b.case].customer) => a = b

\* The contacts of a customer, over all cases, stay within the largest contact
\* limit a policy ever set.
ContactCeiling ==
    \A customer \in Customer :
        MapThenSumSet(LAMBDA k : case[k].contacts, CasesOf(case, customer))
           <= Max({p.contactLimit : p \in Policy})

\* While an incident runs, no retry or payment link of a case that is linked to
\* it, or whose diagnosis it explains, starts: also not one that was authorised
\* before the incident was observed.
IncidentSuspendsWork ==
    [][\A a \in ActionKey :
          Starts(a) /\ ActionClasses[a.type] \in {"RETRY", "MONEY_INTENT"} =>
             \A i \in Incident :
                Running(incident, i) /\ now < incident[i].ends
                => /\ <<i, a.case>> \notin links
                   /\ ~Explains(ScopeOf[i], case[a.case].diagnosis)]_vars

\* A case points only at an incident it is linked to: whichever of the
\* observation, a decision or an execution check set its active_incident_id also
\* left the link by which the resolution finds, releases and wakes the case.
PointerIsLinked ==
    \A k \in Episode : IsCase(k) /\ case[k].incident # NoIncident =>
        /\ <<case[k].incident, k>> \in links
        /\ incident[case[k].incident].status # "NONE"

\* An event that is processed again acts for one case only: where it has left a
\* second case with the same evidence, which process_event creates before
\* link_evidence finds the event linked, one of the two is undecided and has no
\* action, whatever events, sweeps and incidents come after it.
RepeatActsOnce ==
    \A j, k \in Episode :
        IsCase(j) /\ IsCase(k) /\ j # k /\ case[j].evidence = case[k].evidence
        => \E idle \in {j, k} :
              /\ case[idle].state = "DETECTED"
              /\ \A a \in ActionKey : a.case = idle => action[a].status = "NONE"

\* A deferral names a later moment, also when a deferred case is decided again:
\* no decision leaves a case due at once, to be decided again in every sweep.
\* Only the resolution of its incident wakes a case now.
DeferralMovesForward ==
    [][\A k \in Episode :
          (/\ case'[k].state = "DEFERRED"
           /\ case[k].state = "DEFERRED" =>
                 /\ case'[k].next # case[k].next
                 /\ case'[k].incident = NoIncident => case[k].incident = NoIncident)
          => case'[k].next > now]_vars

\* The provider row of a subject never goes back to an older report, nor at
\* equal times to a status of lower precedence, in whatever order webhooks are
\* delivered and processed.
TruthIsMonotone ==
    [][\A s \in Subject :
          \/ truth'[s].at > truth[s].at
          \/ /\ truth'[s].at = truth[s].at
             /\ Precedence(truth'[s].status) >= Precedence(truth[s].status)]_vars

Sleeps(k, t) == IsCase(k) /\ case[k].state = "DEFERRED" /\ case[k].next = t

\* A deferred case is decided again once its wake time comes: nothing leaves it
\* deferred to a moment that has passed.
DeferredCaseWakes ==
    \A k \in Episode : \A t \in 1..MaxTime : Sleeps(k, t) ~> ~Sleeps(k, t)

-----------------------------------------------------------------------------
(***************************************************************************)
(* Statements of the documentation that the code does not keep.            *)
(***************************************************************************)
\* ARCHITECTURE.md:36: "A systemic incident must prevent a
\* locally reasonable but globally harmful retry".
IncidentStopsRetry ==
    [][\A a \in ActionKey :
          Starts(a) /\ ActionClasses[a.type] = "RETRY" =>
             \A i \in Incident :
                Running(incident, i) /\ now < incident[i].ends
                => ~Explains(ScopeOf[i], Diagnoses[Fact[case[a.case].evidence].category].code)]_vars

\* docs/playbooks/PHASE_6.md:70: "Two consecutive clear windows resolve the incident
\* and assign affected deferred cases deterministic 30-second staggered resume
\* times": no case still waits for an incident that was resolved.
ResolutionWakes ==
    \A k \in Episode :
        IsCase(k) /\ case[k].state = "DEFERRED" /\ case[k].incident # NoIncident
        => Running(incident, case[k].incident)

\* docs/diagrams/README.md:37: of a duplicated delivery, "Database uniqueness and
\* stable action identity suppress duplicate business effects": one event is the
\* evidence of one case.
OneCasePerEvent ==
    \A j, k \in Episode : IsCase(j) /\ IsCase(k) /\ case[j].evidence = case[k].evidence => j = k

\* docs/playbooks/PHASE_6.md: "`subscription.charged` is authoritative success
\* evidence": after it no retry of the subscription starts.
ChargedStopsRetry ==
    [][\A a \in ActionKey :
          Starts(a) /\ ActionClasses[a.type] = "RETRY" =>
             \A e \in Event :
                (/\ disposition[e] # "NONE" /\ Fact[e].eventStatus = "CHARGED"
                 /\ Fact[e].subject = case[a.case].subject)
                => Fact[e].at < Fact[case[a.case].evidence].at]_vars
=============================================================================
