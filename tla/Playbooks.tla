----------------------------- MODULE Playbooks -----------------------------
(***************************************************************************)
(* The receivables playbook: overdue invoices open recovery cases and get  *)
(* policy-approved reminders; customers reply with promises, disputes and  *)
(* claims; the maintenance task turns due promises into reminders and      *)
(* broken ones into escalations.  Overdue events, replies, the sweep of    *)
(* deferred cases, the execution of contacts and the maintenance of        *)
(* promises run concurrently on the same invoice, case and promise rows.   *)
(*                                                                         *)
(* Every invoice has its own customer, so an intervention coordinates one  *)
(* case (RecoveryDecision has the customers of several cases), and sending *)
(* a contact and recording its acceptance are one step (ActionExecution    *)
(* has the steps in between).  Amounts and confidences are on the side of  *)
(* their thresholds where no review is needed, and a review that is asked  *)
(* for is not answered here (RecoveryDecision).                            *)
(***************************************************************************)
EXTENDS CaseLifecycle, PolicyGates

CONSTANTS
    Invoice,
    Response,       \* source_response_id of the replies of customers
    Reply,          \* Reply[r]: the invoice it is about, its intent and the promised day
    Policy,         \* the policy in force
    Lead,           \* reminder_lead
    MaxTime         \* bound: the clock stops here

Intent == {"PROMISE_TO_PAY", "DISPUTE", "ALREADY_PAID", "NEEDS_HELP", "UNKNOWN"}

\* The replies that were ever stored are the rows of a table.
ASSUME RepliesAssumption ==
    /\ IsFiniteSet(Response)
    /\ Reply \in [Response -> [invoice : Invoice, intent : Intent, due : Nat]]
ASSUME PlaybookBoundsAssumption == Lead \in Nat /\ MaxTime \in Nat \ {0}
ASSUME PolicyAssumption ==
    /\ Policy.defer \in Nat \ {0} /\ Policy.contactLimit \in Nat
    /\ Policy.zone \in Int /\ Policy.quietEnd \in 0..(Day - 1)

InvoiceStatus == {"NONE", "OPEN", "OVERDUE", "PROMISED", "DISPUTED", "ESCALATED", "PAID"}
PromiseStatus == {"NONE", "ACTIVE", "FULFILLED", "BROKEN", "DISPUTED", "CANCELLED"}

VARIABLES
    now,
    invoice,        \* invoice[i]: status, provider_updated_at, automation_frozen_at
    case,           \* case[i]: the recovery case of the invoice
    response,       \* response[r]: the intent extracted from the stored reply
    promise,        \* promise[r]: the promise made by the reply
    escalation,     \* escalation[r]: the receivable_escalations of the reply
    action,         \* action[a]: the contact actions, by idempotency key
    intervention    \* intervention[i]: the cooldown of the contact of the invoice's case

vars == <<now, invoice, case, response, promise, escalation, action, intervention>>

NoPromise == [status |-> "NONE", due |-> NoTime, remind |-> NoTime, scheduled |-> FALSE]
NoContact == [status |-> "NONE", promise |-> "NONE"]

ContactType == {"SEND_REMINDER", "SCHEDULE_PROMISE_REMINDER"}
ActionKey   == [invoice : Invoice, type : ContactType]
KeyOf(i, type) == [invoice |-> i, type |-> type]

Init ==
    /\ now = 1
    /\ invoice = [i \in Invoice |-> [status |-> "NONE", at |-> NoTime, frozen |-> FALSE]]
    /\ case = [i \in Invoice |-> [state |-> "ABSENT", next |-> NoTime, contacts |-> 0]]
    /\ response = [r \in Response |-> "NONE"]
    /\ promise = [r \in Response |-> NoPromise]
    /\ escalation = [r \in Response |-> {}]
    /\ action = [a \in ActionKey |-> NoContact]
    /\ intervention = [i \in Invoice |-> [status |-> "NONE", until |-> NoTime]]

-----------------------------------------------------------------------------
(***************************************************************************)
(* Policy, on the facts of the invoice.                                    *)
(***************************************************************************)
PromisesOn(i) == {r \in Response : Reply[r].invoice = i /\ promise[r].status = "ACTIVE"}

\* _invoice_facts: the latest of the active promises.
PromiseDue(i) ==
    IF PromisesOn(i) = {} THEN NoTime ELSE Max({promise[r].due : r \in PromisesOn(i)})

Contact(i, type) ==
    [type |-> type, target |-> i, channel |-> "EMAIL", net |-> Policy.minNet]
NoActionOn(i) == [type |-> "NO_ACTION", target |-> i, channel |-> NoChannel, net |-> 0]
Escalate(i)   == [NoActionOn(i) EXCEPT !.type = "ESCALATE_HUMAN"]

\* The input of an evaluation of the invoice's case: the status of the invoice and the
\* customer's other contacts are read by the caller.
Facts(i, candidates, status, contacting) ==
    [case |-> i, amount |-> 0, currency |-> "INR", confidence |-> 10000, retryCount |-> 0,
     contactCount |-> case[i].contacts, at |-> now, candidates |-> candidates,
     identified |-> TRUE, consented |-> {"EMAIL"}, optedOut |-> {}, incidents |-> {},
     approval |-> [status |-> "NONE"], deferUntil |-> NoTime, unknownEquivalent |-> FALSE,
     terminal |-> FALSE, contactInProgress |-> contacting, promiseDue |-> PromiseDue(i),
     paid |-> status = "PAID", disputed |-> status = "DISPUTED",
     cancelled |-> status \in {"CANCELLED", "ESCALATED"}]

\* _evaluate_case on the evidence of an overdue invoice.
CaseDecision(i, status) ==
    Evaluate(Policy, Facts(i, <<Contact(i, "SEND_REMINDER"), Escalate(i), NoActionOn(i)>>,
                           status, intervention[i].status = "ACTIVE"))

\* The reminder of a promise is decided on the promise alone: the invoice's status
\* and the customer's other contacts are left to the check before execution.
ReminderDecision(i) ==
    Evaluate(Policy, Facts(i, <<Contact(i, "SCHEDULE_PROMISE_REMINDER"), NoActionOn(i)>>,
                           "NONE", FALSE))

\* Slip: the facts of the authorisation are trusted.
RecheckSkipped(a) ==
    [type |-> a.type, target |-> a.invoice, net |-> 0, result |-> "PROCEED",
     reason |-> "POLICY_AUTHORIZED", wake |-> NoTime]

\* _final_policy_decision: an intervention of another action is in progress.
RecheckInput(a) ==
    Facts(a.invoice, <<Contact(a.invoice, a.type), NoActionOn(a.invoice)>>,
          invoice[a.invoice].status,
          intervention[a.invoice].status = "ACTIVE" /\ a.type # "SEND_REMINDER")

Recheck(a) == Evaluate(Policy, RecheckInput(a))

\* Slip: the wake time of the decision is not stored.
DecidedAsleep(row, d) == [row EXCEPT !.state = StateFor[d.result], !.next = NoTime]

Decided(row, d) == [row EXCEPT !.state = StateFor[d.result], !.next = d.wake]

\* store_action: the row of an idempotency key is created once.
Stored(a, r) ==
    IF action[a].status # "NONE" THEN action
    ELSE [action EXCEPT ![a] = [status |-> "PENDING", promise |-> r]]

EvaluateCase(i, status) ==
    LET d == CaseDecision(i, status)
    IN  /\ case' = [case EXCEPT ![i] = Decided(@, d)]
        /\ action' = IF d.result = "PROCEED" THEN Stored(KeyOf(i, "SEND_REMINDER"), "NONE")
                     ELSE action
        /\ intervention' =
              IF d.result = "PROCEED" /\ intervention[i].status = "NONE"
              THEN [intervention EXCEPT ![i] =
                       [status |-> "ACTIVE", until |-> now + Policy.defer]]
              ELSE intervention

-----------------------------------------------------------------------------
(***************************************************************************)
(* ingest_overdue_invoice.  The merchant sends an event of the current     *)
(* time, or again one of the time the row holds; of two events of one time *)
(* their ids tell which is newer, and a redelivered one is linked already. *)
(***************************************************************************)
Decidable == {"ABSENT", "DETECTED", "DIAGNOSING", "DEFERRED", "DECISION_PENDING"}
Active(i) == case[i].state \notin TerminalState \cup {"ABSENT"}

\* Slip: an overdue notice overwrites whatever is known of the invoice.
OverdueAlways(i, at) == [status |-> "OVERDUE", at |-> at, frozen |-> invoice[i].frozen]

Overdue(i, at) ==
    IF invoice[i].status \in {"PAID", "DISPUTED", "CANCELLED"} THEN invoice[i]
    ELSE [status |-> "OVERDUE", at |-> at, frozen |-> invoice[i].frozen]

IngestOverdue(i, at) ==
    /\ invoice' = [invoice EXCEPT ![i] = Overdue(i, at)]
    /\ \/ /\ case[i].state \in Decidable
          /\ EvaluateCase(i, Overdue(i, at).status)
       \/ /\ case[i].state \notin Decidable \/ at = invoice[i].at
          /\ UNCHANGED <<case, action, intervention>>
    /\ UNCHANGED <<now, response, promise, escalation>>

NoticeTimes(i) == {now} \cup ({invoice[i].at} \ {NoTime})

-----------------------------------------------------------------------------
(***************************************************************************)
(* record_customer_response.  The extraction of the reply may fall back to *)
(* UNKNOWN; a reply that is sent again changes nothing.                    *)
(***************************************************************************)
Freezes == [DISPUTE |-> "DISPUTED", ALREADY_PAID |-> "ESCALATED"]
Ended   == [DISPUTE |-> "DISPUTED", ALREADY_PAID |-> "CANCELLED"]

Escalated(r, reason) == [escalation EXCEPT ![r] = @ \cup {reason}]

\* Slip: a reply that is sent again is applied again.
FreshAlways(r) == Active(Reply[r].invoice)

Fresh(r) == Active(Reply[r].invoice) /\ response[r] = "NONE"

MakePromise(r) ==
    LET i == Reply[r].invoice
        due == Reply[r].due
        remind == IF due > Lead THEN Max({now, due - Lead}) ELSE now
    IN  /\ Fresh(r) /\ Reply[r].intent = "PROMISE_TO_PAY" /\ due >= now
        /\ response' = [response EXCEPT ![r] = "PROMISE_TO_PAY"]
        /\ promise' = [promise EXCEPT ![r] =
              [status |-> "ACTIVE", due |-> due, remind |-> remind, scheduled |-> FALSE]]
        /\ invoice' = [invoice EXCEPT ![i].status = IF @ = "OVERDUE" THEN "PROMISED" ELSE @]
        /\ UNCHANGED <<now, case, escalation, action, intervention>>

\* freeze_dispute_and_escalate, freeze_already_paid_claim_and_escalate.
Freeze(r) ==
    LET i == Reply[r].invoice
        intent == Reply[r].intent
    IN  /\ Fresh(r) /\ intent \in DOMAIN Freezes
        /\ response' = [response EXCEPT ![r] = intent]
        /\ invoice' =
              IF intent = "DISPUTE" \/ invoice[i].status \in {"OPEN", "OVERDUE", "PROMISED"}
              THEN [invoice EXCEPT ![i].status = Freezes[intent], ![i].frozen = TRUE]
              ELSE invoice
        /\ promise' = [p \in Response |->
              IF p \in PromisesOn(i) THEN [promise[p] EXCEPT !.status = Ended[intent]]
              ELSE promise[p]]
        /\ escalation' = Escalated(r, intent)
        /\ UNCHANGED <<now, case, action, intervention>>

AskForReview(r) ==
    /\ Fresh(r)
    /\ response' = [response EXCEPT ![r] =
                       IF Reply[r].intent = "NEEDS_HELP" THEN "NEEDS_HELP" ELSE "UNKNOWN"]
    /\ escalation' = Escalated(r, "REQUIRES_REVIEW")
    /\ UNCHANGED <<now, invoice, case, promise, action, intervention>>

-----------------------------------------------------------------------------
(***************************************************************************)
(* maintain_promises, every minute: broken promises first, then reminders, *)
(* each group in the order of its due times.  One transaction takes them   *)
(* all; the model takes them one by one.                                   *)
(***************************************************************************)
\* Slip: a promise whose reminder was never scheduled is not looked at again.
BrokenAfterReminder(r) ==
    promise[r].status = "ACTIVE" /\ promise[r].due < now /\ promise[r].scheduled

Broken(r) == promise[r].status = "ACTIVE" /\ promise[r].due < now

ReminderDue(r) ==
    /\ promise[r].status = "ACTIVE" /\ promise[r].remind <= now
    /\ ~promise[r].scheduled
    /\ \A p \in Response : ~Broken(p)

EndPromise(r) ==
    LET i == Reply[r].invoice
    IN  /\ Broken(r)
        /\ IF invoice[i].status = "PAID"
           THEN /\ promise' = [promise EXCEPT ![r].status = "FULFILLED"]
                /\ UNCHANGED <<invoice, escalation>>
           ELSE /\ promise' = [promise EXCEPT ![r].status = "BROKEN"]
                /\ invoice' = IF invoice[i].status = "PROMISED"
                              THEN [invoice EXCEPT ![i].status = "ESCALATED", ![i].frozen = TRUE]
                              ELSE invoice
                /\ escalation' = Escalated(r, "BROKEN_PROMISE_TO_PAY")
        /\ UNCHANGED <<now, case, response, action, intervention>>

RemindOf(r) ==
    LET i == Reply[r].invoice
        d == ReminderDecision(i)
    IN  /\ ReminderDue(r)
        /\ case[i].state \in {"DEFERRED", "VERIFYING", "DECISION_PENDING"}
        /\ case' = [case EXCEPT ![i] = Decided(@, d)]
        /\ IF d.result = "PROCEED"
           THEN /\ action' = Stored(KeyOf(i, "SCHEDULE_PROMISE_REMINDER"), r)
                /\ promise' = [promise EXCEPT ![r].scheduled = TRUE]
           ELSE /\ action' = action
                /\ promise' = IF d.wake = NoTime THEN promise
                              ELSE [promise EXCEPT ![r].remind = d.wake]
        /\ UNCHANGED <<now, invoice, response, escalation, intervention>>

MaintainPromises == \E r \in Response : EndPromise(r) \/ RemindOf(r)

-----------------------------------------------------------------------------
(***************************************************************************)
(* The rest of the engine, as far as it touches the case of the invoice.   *)
(***************************************************************************)
Reevaluate(i) ==
    /\ case[i].state = "DEFERRED" /\ case[i].next <= now
    /\ EvaluateCase(i, invoice[i].status)
    /\ UNCHANGED <<now, invoice, response, promise, escalation>>

Runnable(a) == action[a].status = "PENDING" /\ case[a.invoice].state = "READY"

CancelContact(a) ==
    LET d == Recheck(a)
    IN  /\ Runnable(a) /\ d.result # "PROCEED"
        /\ action' = [action EXCEPT ![a].status = "FAILED"]
        /\ case' = [case EXCEPT ![a.invoice] = Decided(@, d)]
        /\ UNCHANGED <<now, invoice, response, promise, escalation, intervention>>

SendContact(a) ==
    /\ Runnable(a) /\ Recheck(a).result = "PROCEED"
    /\ action' = [action EXCEPT ![a].status = "SUCCEEDED"]
    /\ case' = [case EXCEPT ![a.invoice].state = "VERIFYING", ![a.invoice].contacts = @ + 1]
    /\ UNCHANGED <<now, invoice, response, promise, escalation, intervention>>

\* record_lookup: the simulator confirms no payment before the deadline.
VerificationDeadline(i) ==
    /\ case[i].state = "VERIFYING"
    /\ case' = [case EXCEPT ![i].state = "ESCALATED"]
    /\ UNCHANGED <<now, invoice, response, promise, escalation, action, intervention>>

CloseIntervention(i) ==
    /\ intervention[i].status = "ACTIVE" /\ intervention[i].until <= now
    /\ action[KeyOf(i, "SEND_REMINDER")].status \in {"SUCCEEDED", "FAILED"}
    /\ intervention' = [intervention EXCEPT ![i].status = "CLOSED"]
    /\ UNCHANGED <<now, invoice, case, response, promise, escalation, action>>

\* The merchant's ledger marks the invoice paid; nothing in this repository does.
PayInvoice(i) ==
    /\ invoice[i].status \notin {"NONE", "PAID"}
    /\ invoice' = [invoice EXCEPT ![i].status = "PAID", ![i].at = now]
    /\ UNCHANGED <<now, case, response, promise, escalation, action, intervention>>

Tick ==
    /\ now < MaxTime
    /\ now' = now + 1
    /\ UNCHANGED <<invoice, case, response, promise, escalation, action, intervention>>

Answer(r) == MakePromise(r) \/ Freeze(r) \/ AskForReview(r)

Next ==
    \/ Tick \/ MaintainPromises
    \/ \E r \in Response : Answer(r)
    \/ \E a \in ActionKey : CancelContact(a) \/ SendContact(a)
    \/ \E i \in Invoice :
          \/ \E at \in NoticeTimes(i) : IngestOverdue(i, at)
          \/ Reevaluate(i) \/ VerificationDeadline(i)
          \/ CloseIntervention(i) \/ PayInvoice(i)

Spec == Init /\ [][Next]_vars

\* The beat schedule starts the maintenance of promises every minute.
FairSpec == Spec /\ WF_vars(Tick) /\ \A r \in Response : WF_vars(EndPromise(r))

-----------------------------------------------------------------------------
(***************************************************************************)
(* Properties.                                                             *)
(***************************************************************************)
TypeOK ==
    /\ now \in 1..MaxTime
    /\ invoice \in [Invoice -> [status : InvoiceStatus, at : 0..MaxTime, frozen : BOOLEAN]]
    /\ \A i \in Invoice : /\ case[i].state \in CaseState
                          /\ case[i].contacts \in 0..Policy.contactLimit
                          /\ case[i].state = "DEFERRED" => case[i].next > 0
    /\ \A r \in Response : promise[r].status \in PromiseStatus
    /\ \A a \in ActionKey : action[a].status \in {"NONE", "PENDING", "SUCCEEDED", "FAILED"}

Starts(a) == action[a].status = "PENDING" /\ action'[a].status = "SUCCEEDED"

\* No contact is sent about an invoice that is disputed, escalated or paid at that
\* moment, although reminders are authorised without looking at the invoice and a
\* reply may arrive between the authorisation and the execution.
SettledIsNotContacted ==
    [][\A a \in ActionKey : Starts(a) =>
          invoice[a.invoice].status \notin {"DISPUTED", "ESCALATED", "PAID"}]_vars

\* While a customer has promised to pay, no contact but the reminder of the promise
\* is sent, also not one that was authorised before the promise.
PromiseHoldsOutreach ==
    [][\A a \in ActionKey : Starts(a) /\ a.type = "SEND_REMINDER" => PromisesOn(a.invoice) = {}]_vars

\* A promise ends once: a fulfilled, broken, disputed or cancelled promise is never
\* active again nor ends another way, however often replies and sweeps repeat.
PromiseEndsOnce ==
    [][\A r \in Response :
          promise[r].status \notin {"NONE", "ACTIVE"} => promise'[r].status = promise[r].status]_vars

\* A disputed invoice stays disputed until it is paid, whatever overdue notices,
\* claims, promises and broken promises come after the dispute.
DisputeStays ==
    [][\A i \in Invoice :
          invoice[i].status = "DISPUTED" => invoice'[i].status \in {"DISPUTED", "PAID"}]_vars

\* Every promise comes to an end once its day has passed: no state of its case or of
\* its invoice keeps the maintenance from settling it.
PromiseSettles ==
    \A r \in Response :
        (promise[r].status = "ACTIVE" /\ promise[r].due < MaxTime) ~> promise[r].status # "ACTIVE"

-----------------------------------------------------------------------------
(***************************************************************************)
(* Statements of the documentation that the code does not keep.            *)
(***************************************************************************)
\* docs/playbooks/PHASE_6.md: "Quiet hours move the durable reminder time": also when
\* they begin between the authorisation of a reminder and its execution.
QuietHoursMoveReminder ==
    [][\A r \in Response :
          LET i == Reply[r].invoice
              a == KeyOf(i, "SCHEDULE_PROMISE_REMINDER")
          IN  (/\ promise[r].status = "ACTIVE" /\ action[a].promise = r
               /\ action[a].status = "PENDING" /\ action'[a].status = "FAILED"
               /\ InQuietHours(Policy, now) /\ invoice[i].status = "PROMISED"
               /\ intervention[i].status # "ACTIVE")
              => promise'[r].remind > now /\ ~promise'[r].scheduled]_vars

\* docs/playbooks/PHASE_6.md: "Broken promises move the invoice to `ESCALATED`, freeze
\* later automation": a frozen invoice gets no contact.
FrozenIsNotContacted ==
    [][\A a \in ActionKey : Starts(a) => ~invoice[a.invoice].frozen]_vars
=============================================================================
