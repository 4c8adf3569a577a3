-------------------------- MODULE ActionExecution --------------------------
(***************************************************************************)
(* The action outbox and its executor: how an authorised recovery action   *)
(* is claimed, attempted at the provider, reconciled and credited, while   *)
(* workers are lost, messages are redelivered, leases run out and signed   *)
(* webhooks arrive.                                                        *)
(*                                                                         *)
(*   PostgreSQL rows   caseState, review, spent, action, credited          *)
(*   Redis broker      broker (action_execution queue)                     *)
(*   processes         worker (execute tasks), recon (reconcile tasks)     *)
(*   event inbox       event (signed success events not yet processed)     *)
(*   payment provider  effects, link, charged                              *)
(*   clocks            timeline                                            *)
(*                                                                         *)
(* A transaction is one action: every handler locks the action row and the *)
(* case row before it reads them.  What happens outside a transaction (the *)
(* provider call, the lookup, the broker) is an action of its own.         *)
(***************************************************************************)
EXTENDS CaseLifecycle, FiniteSets, SequencesExt

CONSTANTS
    Case,           \* recovery cases
    Action,         \* recovery actions: one per stable idempotency key
    CaseOf,         \* CaseOf[a]: the case of the action's idempotency key
    Class,          \* Class[a]: ACTION_CLASSES of its action type
    Worker,         \* processes that run revenueguard.actions.execute
    Recon,          \* processes that run revenueguard.actions.reconcile_unknown
    Event,          \* webhook events that may be received
    MaxAttempts,    \* max_attempts of an action row
    Limit,          \* retry_limit and contact_limit of the merchant policy
    MaxClaims       \* bound: lease tokens issued for one action

ActionClass  == {"RETRY", "MONEY_INTENT", "CUSTOMER_CONTACT", "INTERNAL"}
CountedClass == {"RETRY", "CUSTOMER_CONTACT"}

ASSUME ActionsAssumption ==
    /\ CaseOf \in [Action -> Case]
    /\ Class \in [Action -> ActionClass]
ASSUME BoundsAssumption ==
    /\ MaxAttempts \in Nat \ {0}
    /\ MaxClaims \in Nat \ {0}
    /\ Limit \in [CountedClass -> Nat]
ASSUME ObserversAssumption ==
    /\ Worker \intersect Recon = {}
    /\ Worker \intersect Event = {}
    /\ Recon \intersect Event = {}

VARIABLES
    caseState,  \* recovery_cases.state
    review,     \* review[c]: a human review of the case is REQUESTED
    spent,      \* retry_count and contact_count of the case
    action,     \* the recovery_actions row with its open action_attempts row
    credited,   \* actions with an authoritative SUCCEEDED outcome carrying money
    broker,     \* <<action, lease token>> messages waiting in the queue
    worker,     \* what each execution worker is doing
    recon,      \* what each reconciler is doing
    event,      \* signed success events
    effects,    \* requests for the action that may have taken effect
    link,       \* the payment link of the action at the provider
    charged,    \* actions whose target was charged for the expected amount
    timeline    \* timeline[c]: observations newer than updated_at, oldest first

dbVars       == <<caseState, review, spent, action, credited>>
providerVars == <<effects, link, charged>>
vars == <<dbVars, broker, worker, recon, event, providerVars, timeline>>

Token   == 1..MaxClaims
NoToken == 0
Observer == Worker \cup Recon \cup Event

ActionRow ==
    [status : {"NONE", "PENDING", "SUCCEEDED", "FAILED", "UNKNOWN"},
     attempts : Nat,
     claims : 0..MaxClaims,           \* lease tokens issued so far
     lease : Token \cup {NoToken},    \* lease_token
     expired : BOOLEAN,               \* lease_expires_at has passed
     open : Token \cup {NoToken},     \* lease token of the attempt without completed_at
     overdue : BOOLEAN,               \* reconciliation_deadline has passed
     dead : BOOLEAN,                  \* dead_lettered_at is set
     linked : BOOLEAN]                \* provider_object_id is known

NoAction == [status |-> "NONE", attempts |-> 0, claims |-> 0, lease |-> NoToken,
             expired |-> FALSE, open |-> NoToken, overdue |-> FALSE, dead |-> FALSE,
             linked |-> FALSE]

Idle == [phase |-> "idle"]
WorkerState == {Idle}
    \cup [phase : {"calling"}, action : Action, token : Token]
    \cup [phase : {"returned"}, action : Action, token : Token,
          result : {"SUCCEEDED", "UNKNOWN", "FAILED", "RATE_LIMITED"}]
ReconState == {Idle}
    \cup [phase : {"selected"}, action : Action]
    \cup [phase : {"looked"}, action : Action, late : BOOLEAN,
          result : {"SUCCEEDED", "PENDING", "FAILED", "UNKNOWN"}]

NotReceived == [state |-> "absent"]
Processed   == [state |-> "processed"]
SignedEvent == [state : {"queued"}, about : Action, viaLink : BOOLEAN, match : BOOLEAN]

Init ==
    /\ caseState = [c \in Case |-> "ABSENT"]
    /\ review = [c \in Case |-> FALSE]
    /\ spent = [c \in Case |-> [k \in CountedClass |-> 0]]
    /\ action = [a \in Action |-> NoAction]
    /\ credited = {}
    /\ broker = {}
    /\ worker = [w \in Worker |-> Idle]
    /\ recon = [r \in Recon |-> Idle]
    /\ event = [e \in Event |-> NotReceived]
    /\ effects = [a \in Action |-> 0]
    /\ link = [a \in Action |-> "none"]
    /\ charged = {}
    /\ timeline = [c \in Case |-> <<>>]

-----------------------------------------------------------------------------
(***************************************************************************)
(* Time.  A provider answer, a lookup and a webhook carry the time at      *)
(* which they were observed, and that time, not the commit time, is the    *)
(* occurred_at of the transitions they cause.  transition_case refuses a   *)
(* transition that occurred before the case's updated_at, so an            *)
(* observation is usable only while it is in timeline[c].                  *)
(***************************************************************************)
IndexOf(s, o) == CHOOSE i \in 1..Len(s) : s[i] = o

Without(s, o) == IF Contains(s, o) THEN RemoveAt(s, IndexOf(s, o)) ELSE s

NewerThan(s, o) == IF Contains(s, o) THEN SubSeq(s, IndexOf(s, o) + 1, Len(s)) ELSE s

Observed(c, o) == timeline' = [timeline EXCEPT ![c] = Append(@, o)]
Dropped(c, o)  == timeline' = [timeline EXCEPT ![c] = Without(@, o)]

\* The transitions of `path', made at the time observation o was made.
CanMoveAt(c, path, o) ==
    /\ CanFollow(caseState[c], path)
    /\ path # <<>> => Contains(timeline[c], o)

MoveAt(c, path, o) ==
    /\ caseState' = [caseState EXCEPT ![c] = StateAfter(@, path)]
    /\ timeline' = [timeline EXCEPT ![c] =
                        IF path = <<>> THEN Without(@, o) ELSE NewerThan(@, o)]

\* The transitions of `path', made now.
MoveNow(c, path) ==
    /\ CanFollow(caseState[c], path)
    /\ caseState' = [caseState EXCEPT ![c] = StateAfter(@, path)]
    /\ timeline' = [timeline EXCEPT ![c] = <<>>]

-----------------------------------------------------------------------------
(***************************************************************************)
(* Authorisation.  The policy reads merchant policy, consent, incidents,   *)
(* promises and payment facts, all of which change at any time: its answer *)
(* is any verdict those facts can produce, constrained by the counters and *)
(* by the outbox, which are state of this module.                          *)
(***************************************************************************)
Verdict == {"PROCEED", "DEFER", "SKIP", "STOP", "REQUIRE_HUMAN"}

Counted(a) == Class[a] \in CountedClass

\* Slip: the limit itself may still be used.
ExhaustedAbove(a) == Counted(a) /\ spent[CaseOf[a]][Class[a]] > Limit[Class[a]]

Exhausted(a) == Counted(a) /\ spent[CaseOf[a]][Class[a]] >= Limit[Class[a]]

\* One more retry or contact of the case.
SpentOnce(c, k) == [spent EXCEPT ![c][k] = @ + 1]

\* An exhausted retry is skipped, an exhausted contact is skipped or deferred
\* behind another contact; an internal action never asks for a review.
PolicyMayAnswer(a, v) ==
    /\ v \in {"PROCEED", "REQUIRE_HUMAN"} => ~Exhausted(a)
    /\ v = "DEFER" => ~(Exhausted(a) /\ Class[a] = "RETRY")
    /\ v = "REQUIRE_HUMAN" => Class[a] # "INTERNAL"

\* How a policy verdict leaves a case that is in POLICY_CHECK.
StateFor(v) ==
    CASE v = "PROCEED"       -> "READY"
      [] v = "DEFER"         -> "DEFERRED"
      [] v = "SKIP"          -> "DECISION_PENDING"
      [] v = "STOP"          -> "STOPPED"
      [] v = "REQUIRE_HUMAN" -> "ESCALATED"

\* Slip: authorising a failed action again reopens its row.
StoreActionReopening(a) ==
    action' = [action EXCEPT ![a] = IF @.status \in {"NONE", "FAILED"}
                                    THEN [@ EXCEPT !.status = "PENDING"] ELSE @]

\* store_action: the row that already has the idempotency key is returned as
\* it is, whatever its status.
StoreAction(a) ==
    action' = [action EXCEPT ![a] = IF @.status = "NONE" THEN [@ EXCEPT !.status = "PENDING"]
                                    ELSE @]

\* _evaluate_case with verdict v, after the transitions `entry' that lead to
\* DECISION_PENDING.
EvaluateTo(c, entry, v) ==
    /\ MoveNow(c, entry \o <<"POLICY_CHECK", StateFor(v)>>)
    /\ review' = [review EXCEPT ![c] = v = "REQUIRE_HUMAN"]
    /\ \/ /\ v = "PROCEED"
          /\ \E a \in Action :
                /\ CaseOf[a] = c
                /\ PolicyMayAnswer(a, v)
                /\ action[a].status = "UNKNOWN" => Class[a] = "INTERNAL"
                /\ StoreAction(a)
          /\ UNCHANGED spent
       \/ /\ v = "DEFER"    \* LOW_CONFIDENCE_RETRY_DEFERRED counts as a retry
          /\ \E a \in Action : CaseOf[a] = c /\ Class[a] = "RETRY" /\ ~Exhausted(a)
          /\ spent' = SpentOnce(c, "RETRY")
          /\ UNCHANGED action
       \/ /\ v # "PROCEED"
          /\ UNCHANGED <<spent, action>>
    /\ UNCHANGED <<credited, broker, worker, recon, event, providerVars>>

Evaluate(c, entry) == \E v \in Verdict : EvaluateTo(c, entry, v)

\* process_event with a diagnosed event: a new case, a deferred case or a case
\* waiting for a decision is evaluated; in every other state it is not eligible.
ProcessRiskEvent(c) ==
    \/ caseState[c] = "ABSENT" /\ Evaluate(c, <<"DETECTED", "DIAGNOSING", "DECISION_PENDING">>)
    \/ caseState[c] = "DEFERRED" /\ Evaluate(c, <<"DECISION_PENDING">>)
    \/ caseState[c] = "DECISION_PENDING" /\ Evaluate(c, <<>>)

\* reevaluate_deferred: the wake-up of a deferred case is due.
ReevaluateDeferred(c) ==
    caseState[c] = "DEFERRED" /\ Evaluate(c, <<"DECISION_PENDING">>)

\* decide_review with APPROVE before the review expires.
ApproveReview(c) ==
    review[c] /\ caseState[c] = "ESCALATED" /\ Evaluate(c, <<"DECISION_PENDING">>)

\* decide_review with REJECT, or any decision after the review expired.
CloseReview(c) ==
    /\ review[c]
    /\ MoveNow(c, <<"STOPPED">>)
    /\ review' = [review EXCEPT ![c] = FALSE]
    /\ UNCHANGED <<spent, action, credited, broker, worker, recon, event, providerVars>>
-----------------------------------------------------------------------------
(***************************************************************************)
(* The outbox and the execution task.  A message is acknowledged after its *)
(* handler (task_acks_late), so a handler whose last transaction committed *)
(* may still see its message delivered again.                              *)
(***************************************************************************)
Row(a) == action[a]

\* Lease fields set to NULL.
Released(row) == [row EXCEPT !.lease = NoToken, !.expired = FALSE]

\* The row takes a final or an unknown status and gives up its lease.
Settled(row, status) ==
    [Released(row) EXCEPT !.status = status, !.dead = @ \/ status = "FAILED"]

Acknowledged(m) == broker' \in {broker, broker \ {m}}

\* claim_due_actions commits the new lease, then the message is published; when
\* publishing fails the lease simply runs out.
ClaimDueAction(a) ==
    /\ Row(a).status = "PENDING"
    /\ ~Row(a).dead
    /\ Row(a).attempts < MaxAttempts
    /\ Row(a).lease = NoToken \/ Row(a).expired
    /\ Row(a).open = NoToken
    /\ Row(a).claims < MaxClaims
    /\ LET token == Row(a).claims + 1
       IN  /\ action' = [action EXCEPT ![a].claims = token, ![a].lease = token,
                                       ![a].expired = FALSE]
           /\ broker' \in {broker, broker \cup {<<a, token>>}}
    /\ UNCHANGED <<caseState, review, spent, credited, worker, recon, event,
                   providerVars, timeline>>

Executable(c) == caseState[c] \in {"READY", "EXECUTING"}

\* Slip: the message alone entitles the worker to begin.
CanBeginUnleased(a, token) == Row(a).status = "PENDING"

\* The checks of begin_attempt.
CanBegin(a, token) ==
    /\ Row(a).status = "PENDING"
    /\ Row(a).lease = token
    /\ ~Row(a).expired
    /\ Row(a).open = NoToken

\* prepare_execution raises: nothing is committed and the message is consumed.
PrepareRejected(w, m) ==
    /\ m \in broker /\ worker[w] = Idle
    /\ LET a == m[1]
       IN  \/ ~Executable(CaseOf[a])
           \/ Row(a).status # "PENDING"
           \/ ~Exhausted(a) /\ ~CanBegin(a, m[2])
    /\ broker' = broker \ {m}
    /\ UNCHANGED <<dbVars, worker, recon, event, providerVars, timeline>>

\* prepare_execution when the final policy check does not say PROCEED.  The row
\* must be PENDING; neither its lease nor an open attempt is looked at.
CancelBeforeExecution(w, m, v) ==
    LET a == m[1]
        c == CaseOf[a]
        entry == IF caseState[c] = "READY" THEN <<"EXECUTING", "VERIFYING">>
                 ELSE <<"VERIFYING">>
        exit == CASE v \in {"STOP", "SKIP"} -> <<StateFor(v)>>
                  [] OTHER -> <<"DECISION_PENDING", "POLICY_CHECK", StateFor(v)>>
    IN  /\ m \in broker /\ worker[w] = Idle
        /\ Executable(c)
        /\ v # "PROCEED" /\ PolicyMayAnswer(a, v)
        /\ Row(a).status = "PENDING"
        /\ action' = [action EXCEPT ![a] = Settled(@, "FAILED")]
        /\ MoveNow(c, entry \o exit)
        /\ review' = [review EXCEPT ![c] = @ \/ v = "REQUIRE_HUMAN"]
        /\ Acknowledged(m)
        /\ UNCHANGED <<spent, credited, worker, recon, event, providerVars>>

\* prepare_execution with PROCEED: the attempt is recorded before the provider
\* is called.  Only a counted attempt or the READY -> EXECUTING transition
\* moves the case's updated_at.
BeginAttempt(w, m) ==
    LET a == m[1]
        c == CaseOf[a]
    IN  /\ m \in broker /\ worker[w] = Idle
        /\ Executable(c)
        /\ PolicyMayAnswer(a, "PROCEED")
        /\ CanBegin(a, m[2])
        /\ action' = [action EXCEPT ![a].attempts = @ + 1, ![a].open = m[2]]
        /\ spent' = IF Counted(a) THEN SpentOnce(c, Class[a]) ELSE spent
        /\ caseState' = [caseState EXCEPT ![c] = "EXECUTING"]
        /\ timeline' = IF Counted(a) \/ caseState[c] = "READY"
                       THEN [timeline EXCEPT ![c] = <<>>] ELSE timeline
        /\ worker' = [worker EXCEPT ![w] = [phase |-> "calling", action |-> a, token |-> m[2]]]
        /\ broker' = broker \ {m}
        /\ UNCHANGED <<review, credited, recon, event, providerVars>>

Busy(w, phase) == worker[w].phase = phase

Returns(w, result) ==
    LET a == worker[w].action
    IN  /\ worker' = [worker EXCEPT ![w] = [phase |-> "returned", action |-> a,
                                            token |-> worker[w].token, result |-> result]]
        /\ Observed(CaseOf[a], w)

\* The provider call, outside any transaction.  Only CREATE_PAYMENT_LINK goes
\* to the payment provider; the simulator that serves the rest accepts.
ProviderExecute(w) ==
    /\ Busy(w, "calling")
    /\ LET a == worker[w].action
       IN  \/ /\ effects' = [effects EXCEPT ![a] = @ + 1]     \* 2xx with an id
              /\ link' = IF Class[a] = "MONEY_INTENT" THEN [link EXCEPT ![a] = "created"]
                         ELSE link
              /\ Returns(w, "SUCCEEDED")
           \/ /\ Class[a] = "MONEY_INTENT"                    \* timeout or 5xx
              /\ effects' = [effects EXCEPT ![a] = @ + 1]
              /\ link' = [link EXCEPT ![a] = IF @ = "none" THEN "sent" ELSE @]
              /\ Returns(w, "UNKNOWN")
           \/ /\ Class[a] = "MONEY_INTENT"                    \* 4xx or 429
              /\ \E result \in {"FAILED", "RATE_LIMITED"} : Returns(w, result)
              /\ UNCHANGED <<effects, link>>
    /\ UNCHANGED <<dbVars, broker, recon, event, charged>>

\* Slip: a timed-out call is retried like a rate-limited one.
RetriedUnknown(row, result) ==
    result \in {"RATE_LIMITED", "UNKNOWN"} /\ row.attempts < MaxAttempts

Retried(row, result) == result = "RATE_LIMITED" /\ row.attempts < MaxAttempts

\* Slip: the attempt's result is stored as the status of the row.
FinishedRaw(row, result) == [Released(row) EXCEPT !.open = NoToken, !.status = result]

\* finish_attempt on the row of the attempt.
Finished(row, result) ==
    LET closed == [Released(row) EXCEPT !.open = NoToken]
    IN  CASE Retried(row, result)  -> closed
          [] result = "UNKNOWN"    -> [Settled(closed, "UNKNOWN") EXCEPT !.overdue = FALSE]
          [] result = "SUCCEEDED"  -> [Settled(closed, "SUCCEEDED") EXCEPT !.linked = TRUE]
          [] OTHER                 -> Settled(closed, "FAILED")

\* Slip: the row succeeds and its case is not moved.
PathAfterResultSilent(row, result) ==
    CASE Retried(row, result) \/ result = "SUCCEEDED" -> <<>>
      [] result = "UNKNOWN" -> <<"UNKNOWN">>
      [] OTHER              -> <<"VERIFYING", "DECISION_PENDING">>

\* The transitions that follow; a cancelled row is not PENDING after a retry.
PathAfterResult(row, result) ==
    CASE Retried(row, result) /\ row.status = "PENDING" -> <<>>
      [] result = "UNKNOWN"    -> <<"UNKNOWN">>
      [] result = "SUCCEEDED"  -> <<"VERIFYING">>
      [] OTHER                 -> <<"VERIFYING", "DECISION_PENDING">>

CanRecordResult(w) ==
    LET a == worker[w].action
    IN  /\ Row(a).open = worker[w].token
        /\ CanMoveAt(CaseOf[a], PathAfterResult(Row(a), worker[w].result), w)

Held(w) == <<worker[w].action, worker[w].token>>

RecordExecutionResult(w) ==
    LET a == worker[w].action
        result == worker[w].result
    IN  /\ Busy(w, "returned") /\ CanRecordResult(w)
        /\ action' = [action EXCEPT ![a] = Finished(@, result)]
        /\ MoveAt(CaseOf[a], PathAfterResult(Row(a), result), w)
        /\ worker' = [worker EXCEPT ![w] = Idle]
        /\ broker' \in {broker, broker \cup {Held(w)}}
        /\ UNCHANGED <<review, spent, credited, recon, event, providerVars>>

\* record_execution_result raises: the transaction is rolled back, the task
\* fails and its message is acknowledged.
ResultDiscarded(w) ==
    /\ Busy(w, "returned") /\ ~CanRecordResult(w)
    /\ worker' = [worker EXCEPT ![w] = Idle]
    /\ Dropped(CaseOf[worker[w].action], w)
    /\ UNCHANGED <<dbVars, broker, recon, event, providerVars>>

\* The process dies and the broker delivers its message again
\* (task_reject_on_worker_lost).
WorkerLost(w) ==
    /\ worker[w] # Idle
    /\ worker' = [worker EXCEPT ![w] = Idle]
    /\ broker' = broker \cup {Held(w)}
    /\ Dropped(CaseOf[worker[w].action], w)
    /\ UNCHANGED <<dbVars, recon, event, providerVars>>

-----------------------------------------------------------------------------
(***************************************************************************)
(* Reconciliation: stale calls become UNKNOWN, then every selected action  *)
(* is looked up at the provider and the answer recorded.                   *)
(***************************************************************************)
\* Slip: only calls that could be attempted again are looked after.
StaleRetryable(a) ==
    /\ Row(a).status = "PENDING" /\ Row(a).open # NoToken /\ Row(a).expired
    /\ Row(a).attempts < MaxAttempts

Stale(a) == Row(a).status = "PENDING" /\ Row(a).open # NoToken /\ Row(a).expired

MarkStaleCallUnknown(a) ==
    LET c == CaseOf[a]
    IN  /\ Stale(a)
        /\ action' = [action EXCEPT ![a] = [Settled(@, "UNKNOWN") EXCEPT !.open = NoToken,
                                                                         !.overdue = FALSE]]
        /\ IF caseState[c] = "EXECUTING" THEN MoveNow(c, <<"UNKNOWN">>)
           ELSE UNCHANGED <<caseState, timeline>>
        /\ UNCHANGED <<review, spent, credited, broker, worker, recon, event, providerVars>>

Reconcilable(c) == caseState[c] \in {"UNKNOWN", "VERIFYING"}

\* actions_for_reconciliation, in a transaction of its own.
SelectForReconciliation(r, a) ==
    /\ recon[r] = Idle
    /\ Row(a).status \in {"UNKNOWN", "SUCCEEDED"} /\ ~Row(a).dead
    /\ Reconcilable(CaseOf[a])
    /\ recon' = [recon EXCEPT ![r] = [phase |-> "selected", action |-> a]]
    /\ UNCHANGED <<dbVars, broker, worker, event, providerVars, timeline>>

\* What a lookup can answer: the simulator only ever says PENDING, and a query
\* of the payment provider may always fail.
LookupAnswers(a) ==
    IF Class[a] # "MONEY_INTENT" THEN {"PENDING"}
    ELSE {"UNKNOWN"} \cup
         CASE link[a] = "created"   -> {"PENDING"}
           [] link[a] = "paid"      -> {"SUCCEEDED"}
           [] link[a] = "cancelled" -> {"FAILED"}
           [] OTHER                 -> {}

LookupProvider(r) ==
    LET a == recon[r].action
    IN  /\ recon[r].phase = "selected"
        /\ \E result \in LookupAnswers(a) :
              recon' = [recon EXCEPT ![r] = [phase |-> "looked", action |-> a,
                                             late |-> Row(a).overdue, result |-> result]]
        /\ Observed(CaseOf[a], r)
        /\ UNCHANGED <<dbVars, broker, worker, event, providerVars>>

\* Slip: the reconciliation deadline is never enforced.
UnresolvedNever(r) == FALSE

\* A non-final answer obtained after the reconciliation deadline.
Unresolved(r) == recon[r].late /\ recon[r].result \notin {"SUCCEEDED", "FAILED"}

\* record_lookup of an unresolved answer.  A case in VERIFYING expires to
\* UNKNOWN first (mark_verification_expired_unknown) and is escalated in the
\* same transaction.  No review is created.
ExpiryPath(c) == IF caseState[c] = "VERIFYING" THEN <<"UNKNOWN", "ESCALATED">>
                 ELSE <<"ESCALATED">>

\* Slip: only a case in UNKNOWN expires.
CanExpireUnknown(r) ==
    LET c == CaseOf[recon[r].action]
    IN  caseState[c] = "UNKNOWN" /\ Unresolved(r) /\ CanMoveAt(c, ExpiryPath(c), r)

CanExpire(r) ==
    LET a == recon[r].action
        c == CaseOf[a]
    IN  /\ Reconcilable(c) /\ Unresolved(r)
        /\ caseState[c] = "VERIFYING" => Row(a).status = "SUCCEEDED"
        /\ CanMoveAt(c, ExpiryPath(c), r)

ExpireByLookup(r) ==
    LET a == recon[r].action
        c == CaseOf[a]
        expired == IF caseState[c] = "VERIFYING" THEN Settled(Row(a), "UNKNOWN") ELSE Row(a)
    IN  /\ recon[r].phase = "looked" /\ CanExpire(r)
        /\ action' = [action EXCEPT ![a] = [expired EXCEPT !.dead = TRUE]]
        /\ MoveAt(c, ExpiryPath(c), r)
        /\ recon' = [recon EXCEPT ![r] = Idle]
        /\ UNCHANGED <<review, spent, credited, broker, worker, event, providerVars>>

\* Slip: an accepted request already counts as recovered.
ResolutionPathEager(c, result) ==
    (IF caseState[c] = "UNKNOWN" THEN <<"VERIFYING">> ELSE <<>>) \o
    CASE result \in {"SUCCEEDED", "PENDING"} -> <<"RECOVERED">>
      [] OTHER                              -> <<"DECISION_PENDING">>

\* record_lookup of an answer that resolves the action: an accepted request
\* (PENDING) waits in VERIFYING, a paid link recovers the case, a cancelled or
\* expired link sends it back to a decision.
ResolutionPath(c, result) ==
    (IF caseState[c] = "UNKNOWN" THEN <<"VERIFYING">> ELSE <<>>) \o
    CASE result = "SUCCEEDED" -> <<"RECOVERED">>
      [] result = "FAILED"    -> <<"DECISION_PENDING">>
      [] OTHER                -> <<>>

\* Slip: no answer is taken for an answer.
CanResolveByAnything(r) ==
    LET c == CaseOf[recon[r].action]
    IN  /\ Reconcilable(c) /\ ~Unresolved(r)
        /\ CanMoveAt(c, ResolutionPath(c, recon[r].result), r)

CanResolve(r) ==
    LET c == CaseOf[recon[r].action]
    IN  /\ Reconcilable(c) /\ ~Unresolved(r)
        /\ recon[r].result # "UNKNOWN"
        /\ CanMoveAt(c, ResolutionPath(c, recon[r].result), r)

ResolveByLookup(r) ==
    LET a == recon[r].action
        c == CaseOf[a]
        result == recon[r].result
        status == IF result = "FAILED" THEN "FAILED" ELSE "SUCCEEDED"
    IN  /\ recon[r].phase = "looked" /\ CanResolve(r)
        /\ action' = IF caseState[c] = "UNKNOWN" \/ result = "FAILED"
                     THEN [action EXCEPT ![a] = [Settled(@, status) EXCEPT !.linked = TRUE]]
                     ELSE action
        /\ credited' = IF result = "SUCCEEDED" THEN credited \cup {a} ELSE credited
        /\ MoveAt(c, ResolutionPath(c, result), r)
        /\ recon' = [recon EXCEPT ![r] = Idle]
        /\ UNCHANGED <<review, spent, broker, worker, event, providerVars>>

\* The remaining answers change nothing: the case is no longer waiting, the
\* provider could not be asked, or record_lookup raises and is rolled back.
LookupDiscarded(r) ==
    /\ recon[r].phase = "looked" /\ ~CanExpire(r) /\ ~CanResolve(r)
    /\ recon' = [recon EXCEPT ![r] = Idle]
    /\ Dropped(CaseOf[recon[r].action], r)
    /\ UNCHANGED <<dbVars, broker, worker, event, providerVars>>

RecordLookup(r) == ExpireByLookup(r) \/ ResolveByLookup(r) \/ LookupDiscarded(r)

-----------------------------------------------------------------------------
(***************************************************************************)
(* Signed success events.  record_webhook stores received_at; processing   *)
(* happens later, in one transaction, and is retried when it raises.       *)
(***************************************************************************)
ReceiveSigned(e, a, viaLink, match) ==
    /\ event[e] = NotReceived
    /\ Class[a] = "MONEY_INTENT" /\ Row(a).status # "NONE"
    /\ viaLink => link[a] = "paid" /\ match
    /\ event' = [event EXCEPT ![e] = [state |-> "queued", about |-> a,
                                      viaLink |-> viaLink, match |-> match]]
    /\ charged' = IF ~viaLink /\ match THEN charged \cup {a} ELSE charged
    /\ Observed(CaseOf[a], e)
    /\ UNCHANGED <<dbVars, broker, worker, recon, effects, link>>

\* find_action_for_provider_object and find_latest_action_for_target.
Finds(e) ==
    LET a == event[e].about
    IN  /\ Row(a).status \in {"SUCCEEDED", "UNKNOWN"}
        /\ event[e].viaLink => Row(a).linked

\* Slip: any captured amount will do.
MatchesAnyAmount(e) == TRUE

\* The amount and the currency are the expected ones.
Matches(e) == event[e].match

Consume(e) == event' = [event EXCEPT ![e] = Processed]

\* No action is found, or the case has already recovered: the event is consumed.
IgnoreSignedEvent(e) ==
    /\ event[e].state = "queued"
    /\ ~Finds(e) \/ caseState[CaseOf[event[e].about]] = "RECOVERED"
    /\ Consume(e)
    /\ Dropped(CaseOf[event[e].about], e)
    /\ UNCHANGED <<dbVars, broker, worker, recon, providerVars>>

EvidencePath(c, final) ==
    IF caseState[c] = "UNKNOWN" THEN <<"VERIFYING", final>> ELSE <<final>>

\* The amount or the currency is not the expected one.  A transition that is
\* not allowed, or that is too old, raises: the event stays queued.
StopOnMismatch(e) ==
    LET c == CaseOf[event[e].about]
    IN  /\ event[e].state = "queued" /\ Finds(e) /\ ~Matches(e)
        /\ caseState[c] # "RECOVERED"
        /\ CanMoveAt(c, EvidencePath(c, "STOPPED"), e)
        /\ MoveAt(c, EvidencePath(c, "STOPPED"), e)
        /\ Consume(e)
        /\ UNCHANGED <<review, spent, action, credited, broker, worker, recon, providerVars>>

\* The row found for a paid target, or for a paid link whose id it now knows.
Paid(row, byLink) ==
    IF byLink THEN [Settled(row, "SUCCEEDED") EXCEPT !.linked = TRUE]
    ELSE Settled(row, "SUCCEEDED")

\* The expected amount was paid: credit the case if it is waiting for the
\* outcome, otherwise only note that the action succeeded (STALE_EVIDENCE).
VerifySignedEvent(e) ==
    LET a == event[e].about
        c == CaseOf[a]
    IN  /\ event[e].state = "queued" /\ Finds(e) /\ Matches(e)
        /\ caseState[c] # "RECOVERED"
        /\ action' = [action EXCEPT ![a] = Paid(@, event[e].viaLink)]
        /\ Consume(e)
        /\ IF Reconcilable(c)
           THEN /\ CanMoveAt(c, EvidencePath(c, "RECOVERED"), e)
                /\ MoveAt(c, EvidencePath(c, "RECOVERED"), e)
                /\ credited' = credited \cup {a}
           ELSE /\ Dropped(c, e)
                /\ UNCHANGED <<caseState, credited>>
        /\ UNCHANGED <<review, spent, broker, worker, recon, providerVars>>

-----------------------------------------------------------------------------
(***************************************************************************)
(* The payment provider, the customer and the passing of time.             *)
(***************************************************************************)
\* Each step of the provider changes the link of one action.
LinkMoves(a, from, to) ==
    /\ link[a] = from
    /\ link' = [link EXCEPT ![a] = to]
    /\ UNCHANGED <<dbVars, broker, worker, recon, event, effects, charged, timeline>>

LinkAppears(a) == LinkMoves(a, "sent", "created")
PayLink(a)     == LinkMoves(a, "created", "paid")
CloseLink(a)   == LinkMoves(a, "created", "cancelled")

LeaseExpires(a) ==
    /\ Row(a).lease # NoToken /\ ~Row(a).expired
    /\ action' = [action EXCEPT ![a].expired = TRUE]
    /\ UNCHANGED <<caseState, review, spent, credited, broker, worker, recon, event,
                   providerVars, timeline>>

DeadlinePasses(a) ==
    /\ Row(a).status # "NONE" /\ ~Row(a).overdue
    /\ action' = [action EXCEPT ![a].overdue = TRUE]
    /\ UNCHANGED <<caseState, review, spent, credited, broker, worker, recon, event,
                   providerVars, timeline>>

-----------------------------------------------------------------------------
Decide(c) == ProcessRiskEvent(c) \/ ReevaluateDeferred(c) \/ ApproveReview(c) \/ CloseReview(c)

Execute(w) ==
    \/ \E m \in broker :
          \/ PrepareRejected(w, m)
          \/ \E v \in Verdict : CancelBeforeExecution(w, m, v)
          \/ BeginAttempt(w, m)
    \/ ProviderExecute(w)
    \/ RecordExecutionResult(w)
    \/ ResultDiscarded(w)
    \/ WorkerLost(w)

Reconcile(r) ==
    (\E a \in Action : SelectForReconciliation(r, a)) \/ LookupProvider(r) \/ RecordLookup(r)

HandleEvent(e) ==
    \/ \E a \in Action, viaLink, match \in BOOLEAN : ReceiveSigned(e, a, viaLink, match)
    \/ IgnoreSignedEvent(e) \/ StopOnMismatch(e) \/ VerifySignedEvent(e)

Environment(a) ==
    LinkAppears(a) \/ PayLink(a) \/ CloseLink(a) \/ LeaseExpires(a) \/ DeadlinePasses(a)

Next ==
    \/ \E c \in Case : Decide(c)
    \/ \E a \in Action : ClaimDueAction(a) \/ MarkStaleCallUnknown(a) \/ Environment(a)
    \/ \E w \in Worker : Execute(w)
    \/ \E r \in Recon : Reconcile(r)
    \/ \E e \in Event : HandleEvent(e)

Spec == Init /\ [][Next]_vars

(***************************************************************************)
(* The beat schedule starts a reconciliation every 30 seconds, which marks *)
(* stale calls, selects, looks up and records; leases and deadlines are    *)
(* wall-clock times.  Nothing is assumed of the dispatcher, of the         *)
(* execution workers, of the customer or of the payment provider.          *)
(***************************************************************************)
Fairness ==
    /\ \A a \in Action :
          /\ WF_vars(MarkStaleCallUnknown(a))
          /\ WF_vars(LeaseExpires(a))
          /\ WF_vars(DeadlinePasses(a))
    /\ \A r \in Recon :
          /\ WF_vars(\E a \in Action : SelectForReconciliation(r, a))
          /\ WF_vars(LookupProvider(r))
          /\ WF_vars(RecordLookup(r))

FairSpec == Spec /\ Fairness

-----------------------------------------------------------------------------
\* The rows, messages, processes and observations are of their types: statuses,
\* lease tokens and phases are never mixed up by any handler.
TypeOK ==
    /\ caseState \in [Case -> CaseState]
    /\ review \in [Case -> BOOLEAN]
    /\ spent \in [Case -> [CountedClass -> Nat]]
    /\ action \in [Action -> ActionRow]
    /\ credited \subseteq Action
    /\ broker \subseteq Action \X Token
    /\ worker \in [Worker -> WorkerState]
    /\ recon \in [Recon -> ReconState]
    /\ event \in [Event -> {NotReceived, Processed} \cup SignedEvent]
    /\ effects \in [Action -> Nat]
    /\ link \in [Action -> {"none", "sent", "created", "paid", "cancelled"}]
    /\ charged \subseteq Action
    /\ timeline \in [Case -> Seq(Observer)]

Active(w) == worker[w] # Idle

\* Whatever is lost, redelivered, retried or reconciled, at most one request of
\* an action can have taken effect at the provider (idempotent execution).
AtMostOneEffect == \A a \in Action : effects[a] <= 1

\* No two workers ever hold a call of the same action, not even when the first
\* one has outlived its lease and its attempt was given up as UNKNOWN.
OneCallerPerAction ==
    \A v, w \in Worker : Active(v) /\ Active(w) /\ worker[v].action = worker[w].action => v = w

\* Money is credited only for an action whose link was paid, or whose target
\* was charged for the expected amount.
CreditBacked == \A a \in credited : link[a] = "paid" \/ a \in charged

\* A case is RECOVERED exactly when one of its actions is credited, and never
\* for two of them, whether evidence comes from lookups, webhooks or both.
CreditedOnce ==
    \A c \in Case :
        LET paid == {a \in credited : CaseOf[a] = c}
        IN  /\ caseState[c] = "RECOVERED" <=> paid # {}
            /\ \A a, b \in paid : a = b

\* A case that waits for an outcome has an action the reconciler selects.
AwaitingIsReconcilable ==
    \A c \in Case : Reconcilable(c) =>
        \E a \in Action : /\ CaseOf[a] = c /\ ~Row(a).dead
                          /\ Row(a).status \in {"UNKNOWN", "SUCCEEDED"}

\* A case in EXECUTING has an action that was attempted and is still PENDING.
ExecutingIsWorked ==
    \A c \in Case : caseState[c] = "EXECUTING" =>
        \E a \in Action : CaseOf[a] = c /\ Row(a).status = "PENDING" /\ Row(a).attempts > 0

\* The row of an open attempt that is not cancelled keeps the lease under which
\* the attempt began; a row that is not runnable holds no lease.
LeaseMatchesAttempt ==
    \A a \in Action :
        /\ Row(a).status = "PENDING" /\ Row(a).open # NoToken => Row(a).lease = Row(a).open
        /\ Row(a).status # "PENDING" => Row(a).lease = NoToken

\* Neither attempts nor counted attempts exceed their limits.
WithinLimits ==
    /\ \A a \in Action : Row(a).attempts <= MaxAttempts
    /\ \A c \in Case, k \in CountedClass : spent[c][k] <= Limit[k]

\* An ambiguous provider call is never guessed: a payment-link action leaves
\* UNKNOWN only when the provider did accept it or the target was charged, or
\* when the provider closed its link.
UnknownResolvedByFact ==
    [][\A a \in Action : Row(a).status = "UNKNOWN" /\ Class[a] = "MONEY_INTENT" =>
          \/ action'[a].status = "UNKNOWN"
          \/ action'[a].status = "SUCCEEDED" /\ (link[a] \in {"created", "paid", "cancelled"}
                                                 \/ a \in charged)
          \/ action'[a].status = "FAILED" /\ link[a] = "cancelled"]_vars

\* An action that has left PENDING is never attempted or leased again.
NeverReopened ==
    [][\A a \in Action : Row(a).status \in {"SUCCEEDED", "FAILED", "UNKNOWN"} =>
          /\ action'[a].status \notin {"NONE", "PENDING"}
          /\ action'[a].attempts = Row(a).attempts
          /\ action'[a].lease = NoToken]_vars

\* A recorded attempt does not stay open: it is finished, found stale or cancelled.
InFlightResolves ==
    \A a \in Action : (Row(a).status = "PENDING" /\ Row(a).open # NoToken)
                         ~> (Row(a).open = NoToken \/ Row(a).status = "FAILED")

\* The case verifies one action while the outcome of another one, attempted
\* since, is still missing: a late result took over the case of the newer action.
Crossed(c) ==
    /\ caseState[c] = "VERIFYING"
    /\ \E a \in Action : /\ CaseOf[a] = c /\ ~Row(a).dead /\ Row(a).attempts > 0
                         /\ Row(a).status \in {"PENDING", "UNKNOWN"}

\* A case that waits for an outcome does not wait forever, unless a late result
\* of an older action crosses its newer one.
AwaitingSettles == \A c \in Case : Reconcilable(c) ~> (~Reconcilable(c) \/ Crossed(c))

\* The merchant's view, as a refinement: every step of the outbox, its workers,
\* its reconcilers and the inbox is one step of RecoveryContract or none.
Backed == {a \in Action : link[a] = "paid"} \cup charged
Contract == INSTANCE RecoveryContract WITH backed <- Backed
ImplementsContract == Contract!Spec

-----------------------------------------------------------------------------
(***************************************************************************)
(* What the repository's documents say and the code does not do.           *)
(***************************************************************************)
\* "Ambiguous provider results become UNKNOWN; they are never guessed as
\* successful or failed": an action recorded FAILED was not accepted, unless
\* the provider itself closed its link.
NeverGuessedFailed ==
    \A a \in Action : Row(a).status = "FAILED" => effects[a] = 0 \/ link[a] = "cancelled"

\* "Periodically reconciles aged unknown actions and escalates unresolved
\* cases": a case that waits for an outcome does not wait forever.
AgedWaitEnds == \A c \in Case : Reconcilable(c) ~> ~Reconcilable(c)

\* "READY: an action is authorized and ready to enter execution": a READY case
\* has an action that the dispatcher can still claim.
ReadyHasAction ==
    \A c \in Case : caseState[c] = "READY" =>
        \E a \in Action : CaseOf[a] = c /\ Row(a).status = "PENDING"

\* "Verification deadline exhausted: preserve uncertainty and escalate for
\* review": an escalated case has a review somebody can decide.
EscalatedHasReview == \A c \in Case : caseState[c] = "ESCALATED" => review[c]

\* "Later signed/lookup evidence resolves the outcome correctly": while a case
\* waits for the outcome, queued evidence that matches its action is usable.
SignedEvidenceUsable ==
    \A e \in Event :
        event[e].state = "queued" /\ Finds(e) /\ event[e].match
            /\ Reconcilable(CaseOf[event[e].about])
        => Contains(timeline[CaseOf[event[e].about]], e)
=============================================================================
