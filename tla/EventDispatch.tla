--------------------------- MODULE EventDispatch ---------------------------
(***************************************************************************)
(* The event inbox: how an accepted webhook is claimed by a dispatcher,    *)
(* published to the broker, processed by a worker, retried, dead-lettered  *)
(* and replayed, while dispatchers and workers die, messages are delivered *)
(* again and claims run out.                                               *)
(*                                                                         *)
(*   PostgreSQL rows   dispatch, inbox, committed                          *)
(*   Redis broker      broker (event_ingestion queue)                      *)
(*   processes         dispatcher (dispatch_pending), handler (process)    *)
(*                                                                         *)
(* A transaction is one action, except that of a handler: it reads the     *)
(* dispatch row without a lock, then locks the inbox row, and commits      *)
(* last, so it is three.                                                   *)
(***************************************************************************)
EXTENDS Naturals

CONSTANTS
    Event,          \* webhook events (signed, stored once per provider event id)
    Poison,         \* events that normalize_razorpay_event refuses
    Dispatcher,     \* processes that run revenueguard.events.dispatch_pending
    Handler,        \* processes that run revenueguard.events.process
    MaxAttempts,    \* max_attempts of a dispatch row
    MaxReplays      \* bound: operator replays of one event

ASSUME PoisonAssumption == Poison \subseteq Event
ASSUME BoundsAssumption == MaxAttempts \in Nat \ {0} /\ MaxReplays \in Nat

VARIABLES
    dispatch,       \* the event_dispatches row of each event
    inbox,          \* processing_state of the webhook_events row
    committed,      \* events whose processing transaction has committed
    broker,         \* <<event, claim token>> messages waiting in the queue
    dispatcher,     \* what each dispatcher is doing
    handler         \* what each handler is doing

rowVars == <<dispatch, inbox, committed>>
vars    == <<rowVars, broker, dispatcher, handler>>

\* A claim is told apart by the replay and the attempt it belongs to; the lease
\* token is fresh for each.
Token   == (0..MaxReplays) \X (1..MaxAttempts)
NoLease == <<>>

Claimed  == {"PROCESSING", "PUBLISHED"}
Waiting  == {"PENDING", "RETRY_SCHEDULED"}
Finished == {"SUCCEEDED", "DEAD_LETTER"}

DispatchRow == [state : {"ABSENT"} \cup Waiting \cup Claimed \cup Finished,
                attempts : 0..MaxAttempts,
                replays : 0..MaxReplays,
                lease : Token \cup {NoLease},
                expired : BOOLEAN]          \* lease_expires_at has passed

InboxState == {"ABSENT", "PENDING", "RETRY_SCHEDULED", "PROCESSED", "DEAD_LETTER"}

Idle == [phase |-> "idle"]
DispatcherState == {Idle}
    \cup [phase : {"claimed", "sent", "unsent"}, event : Event, token : Token]
HandlerState == {Idle}
    \cup [phase : {"read", "locked", "raised", "rejected"},
          event : Event, token : Token,
          leased : BOOLEAN]                 \* the row had a lease when it was read

Init ==
    /\ dispatch = [e \in Event |-> [state |-> "ABSENT", attempts |-> 0, replays |-> 0,
                                    lease |-> NoLease, expired |-> FALSE]]
    /\ inbox = [e \in Event |-> "ABSENT"]
    /\ committed = {}
    /\ broker = {}
    /\ dispatcher = [d \in Dispatcher |-> Idle]
    /\ handler = [h \in Handler |-> Idle]

-----------------------------------------------------------------------------
\* record_webhook: the inbox row and its dispatch in one transaction.  Another
\* delivery of the same provider event finds the rows and changes nothing.
RecordWebhook(e) ==
    /\ inbox[e] = "ABSENT"
    /\ inbox' = [inbox EXCEPT ![e] = "PENDING"]
    /\ dispatch' = [dispatch EXCEPT ![e].state = "PENDING"]
    /\ UNCHANGED <<committed, broker, dispatcher, handler>>

-----------------------------------------------------------------------------
(***************************************************************************)
(* Dispatchers.                                                            *)
(***************************************************************************)
\* Slip: only a claim that was never published is recovered.
ExpiredUnpublished(row) == row.state = "PROCESSING" /\ row.lease # NoLease /\ row.expired

Expired(row) == row.state \in Claimed /\ row.lease # NoLease /\ row.expired

\* Slip: an expired claim is recovered whatever its attempts.
ClaimableForever(row) ==
    \/ row.state \in Waiting /\ row.attempts < MaxAttempts
    \/ Expired(row)

Claimable(row) ==
    /\ row.state \in Waiting \/ Expired(row)
    /\ row.attempts < MaxAttempts

ClaimedRow(row) ==
    [row EXCEPT !.state = "PROCESSING", !.attempts = @ + 1,
                !.lease = <<row.replays, row.attempts + 1>>, !.expired = FALSE]

ClaimDispatch(d, e) ==
    /\ dispatcher[d] = Idle /\ Claimable(dispatch[e])
    /\ dispatch' = [dispatch EXCEPT ![e] = ClaimedRow(@)]
    /\ dispatcher' = [dispatcher EXCEPT ![d] =
           [phase |-> "claimed", event |-> e,
            token |-> <<dispatch[e].replays, dispatch[e].attempts + 1>>]]
    /\ UNCHANGED <<inbox, committed, broker, handler>>

Message(p) == <<p.event, p.token>>

\* apply_async returns, or raises although the broker may have the message.
Publish(d) ==
    /\ dispatcher[d].phase = "claimed"
    /\ \/ /\ dispatcher' = [dispatcher EXCEPT ![d].phase = "sent"]
          /\ broker' = broker \cup {Message(dispatcher[d])}
       \/ /\ dispatcher' = [dispatcher EXCEPT ![d].phase = "unsent"]
          /\ broker' \in {broker, broker \cup {Message(dispatcher[d])}}
    /\ UNCHANGED <<rowVars, handler>>

\* Slip: publication is recorded whoever owns the claim by then.
StillClaimedByAnyone(row, token) == TRUE

\* The conditions of the UPDATE in mark_dispatch_published.
StillClaimed(row, token) == row.state = "PROCESSING" /\ row.lease = token

MarkPublished(d) ==
    LET e == dispatcher[d].event
    IN  /\ dispatcher[d].phase = "sent"
        /\ dispatch' = IF StillClaimed(dispatch[e], dispatcher[d].token)
                       THEN [dispatch EXCEPT ![e].state = "PUBLISHED"] ELSE dispatch
        /\ dispatcher' = [dispatcher EXCEPT ![d] = Idle]
        /\ UNCHANGED <<inbox, committed, broker, handler>>

\* The dispatcher dies; what it claimed stays claimed until the lease runs out.
DispatcherLost(d) ==
    /\ dispatcher[d] # Idle
    /\ dispatcher' = [dispatcher EXCEPT ![d] = Idle]
    /\ UNCHANGED <<rowVars, broker, handler>>

-----------------------------------------------------------------------------
(***************************************************************************)
(* Failures.  _record_processing_failure locks the dispatch row and then   *)
(* writes the inbox row.  A handler in "locked" holds the inbox row and    *)
(* will write the dispatch row: the two deadlock and PostgreSQL aborts     *)
(* one, unless the failure leaves the inbox row as it is.  No state of the *)
(* dispatch row is checked.                                                *)
(***************************************************************************)
OutOfAttempts(attempts) == attempts >= MaxAttempts

FailedState(attempts) == IF OutOfAttempts(attempts) THEN "DEAD_LETTER" ELSE "RETRY_SCHEDULED"

AttemptsUsed(row, terminal) == IF terminal THEN MaxAttempts ELSE row.attempts

FailedRow(row, terminal) ==
    [row EXCEPT !.state = FailedState(AttemptsUsed(row, terminal)),
                !.attempts = AttemptsUsed(row, terminal),
                !.lease = NoLease, !.expired = FALSE]

Holds(h, e) == handler[h].phase = "locked" /\ handler[h].event = e

\* Slip: the inbox row keeps its state while the operator replays the event.
InboxWrittenLess(e, state) ==
    inbox' = IF state = "PENDING" THEN inbox ELSE [inbox EXCEPT ![e] = state]

InboxWritten(e, state) == inbox' = [inbox EXCEPT ![e] = state]

\* The inbox row takes `state'; a handler that holds it is the victim of the
\* deadlock.  `base' is what the caller itself makes of the handlers.
WriteInbox(e, state, base) ==
    /\ InboxWritten(e, state)
    /\ handler' \in
          {[h \in Handler |-> IF Holds(h, e) THEN [base[h] EXCEPT !.phase = "raised"]
                              ELSE base[h]]}
          \cup (IF inbox[e] = state THEN {base} ELSE {})

RecordFailure(e, terminal, base) ==
    /\ dispatch' = [dispatch EXCEPT ![e] = FailedRow(@, terminal)]
    /\ WriteInbox(e, FailedState(AttemptsUsed(dispatch[e], terminal)), base)
    /\ UNCHANGED committed

PublishFailed(d) ==
    /\ dispatcher[d].phase = "unsent"
    /\ RecordFailure(dispatcher[d].event, FALSE, handler)
    /\ dispatcher' = [dispatcher EXCEPT ![d] = Idle]
    /\ UNCHANGED broker

-----------------------------------------------------------------------------
(***************************************************************************)
(* Handlers.                                                               *)
(***************************************************************************)
Acknowledged(m) == broker' \in {broker, broker \ {m}}

Begin(h, m) ==
    LET e == m[1]
    IN  /\ handler[h] = Idle /\ m \in broker
        /\ IF dispatch[e].state \in Finished
           THEN Acknowledged(m) /\ UNCHANGED handler
           ELSE /\ handler' = [handler EXCEPT ![h] =
                      [phase |-> "read", event |-> e, token |-> m[2],
                       leased |-> dispatch[e].lease # NoLease]]
                /\ broker' = broker \ {m}
        /\ UNCHANGED <<rowVars, dispatcher>>

\* fetch_webhook_for_processing FOR UPDATE, then the normalizer.
LockInbox(h) ==
    LET e == handler[h].event
    IN  /\ handler[h].phase = "read"
        /\ \A other \in Handler : ~Holds(other, e)
        /\ handler' = [handler EXCEPT ![h].phase = IF e \in Poison THEN "rejected"
                                                   ELSE "locked"]
        /\ UNCHANGED <<rowVars, broker, dispatcher>>

\* The transaction commits, as often as the event is processed; what a repeated
\* run does to the cases is RepeatWebhook of RecoveryDecision.  mark_dispatch_succeeded
\* works on the row object of Begin, which a locking read does not refresh: a
\* DEAD_LETTER written since is overwritten, a lease taken since is not cleared.
ProcessEvent(h) ==
    LET e == handler[h].event
    IN  /\ handler[h].phase = "locked"
        /\ committed' = committed \cup {e}
        /\ dispatch' = [dispatch EXCEPT ![e].state = "SUCCEEDED",
                                        ![e].lease = IF handler[h].leased THEN NoLease ELSE @]
        /\ InboxWritten(e, "PROCESSED")
        /\ handler' = [handler EXCEPT ![h] = Idle]
        /\ broker' \in {broker, broker \cup {Message(handler[h])}}
        /\ UNCHANGED dispatcher

\* Any exception but RazorpayEventError; the transaction is rolled back.
Raise(h) ==
    /\ handler[h].phase \in {"read", "locked"}
    /\ handler' = [handler EXCEPT ![h].phase = "raised"]
    /\ UNCHANGED <<rowVars, broker, dispatcher>>

ProcessingFailed(h) ==
    /\ handler[h].phase \in {"raised", "rejected"}
    /\ RecordFailure(handler[h].event, handler[h].phase = "rejected",
                     [handler EXCEPT ![h] = Idle])
    /\ broker' \in {broker, broker \cup {Message(handler[h])}}
    /\ UNCHANGED dispatcher

\* The failure cannot be stored (database outage, deadlock victim): the task
\* fails and its message is acknowledged.
FailureUnrecorded(h) ==
    /\ handler[h].phase \in {"raised", "rejected"}
    /\ handler' = [handler EXCEPT ![h] = Idle]
    /\ UNCHANGED <<rowVars, broker, dispatcher>>

\* The process dies and the broker delivers its message again.
HandlerLost(h) ==
    /\ handler[h] # Idle
    /\ handler' = [handler EXCEPT ![h] = Idle]
    /\ broker' = broker \cup {Message(handler[h])}
    /\ UNCHANGED <<rowVars, dispatcher>>

-----------------------------------------------------------------------------
\* requeue_dead_letter: the operator replays a dead letter.
RequeueDeadLetter(e) ==
    /\ dispatch[e].state = "DEAD_LETTER" /\ dispatch[e].replays < MaxReplays
    /\ dispatch' = [dispatch EXCEPT ![e].state = "PENDING", ![e].attempts = 0,
                                    ![e].replays = @ + 1, ![e].lease = NoLease,
                                    ![e].expired = FALSE]
    /\ WriteInbox(e, "PENDING", handler)
    /\ UNCHANGED <<committed, broker, dispatcher>>

LeaseExpires(e) ==
    /\ dispatch[e].lease # NoLease /\ ~dispatch[e].expired
    /\ dispatch' = [dispatch EXCEPT ![e].expired = TRUE]
    /\ UNCHANGED <<inbox, committed, broker, dispatcher, handler>>

Dispatch(d) ==
    \/ \E e \in Event : ClaimDispatch(d, e)
    \/ Publish(d) \/ MarkPublished(d) \/ PublishFailed(d) \/ DispatcherLost(d)

Handle(h) ==
    \/ \E m \in broker : Begin(h, m)
    \/ LockInbox(h) \/ ProcessEvent(h) \/ Raise(h)
    \/ ProcessingFailed(h) \/ FailureUnrecorded(h) \/ HandlerLost(h)

Next ==
    \/ \E e \in Event : RecordWebhook(e) \/ RequeueDeadLetter(e) \/ LeaseExpires(e)
    \/ \E d \in Dispatcher : Dispatch(d)
    \/ \E h \in Handler : Handle(h)

Spec == Init /\ [][Next]_vars

(***************************************************************************)
(* Beat starts a dispatcher every five seconds, which claims the due rows  *)
(* oldest first, so a row that is claimable again and again is claimed; a  *)
(* dispatcher finishes its run or dies.  Nothing is assumed of handlers,   *)
(* of the broker or of the operator.                                       *)
(***************************************************************************)
Fairness ==
    /\ \A e \in Event : /\ SF_vars(\E d \in Dispatcher : ClaimDispatch(d, e))
                        /\ WF_vars(LeaseExpires(e))
    /\ \A d \in Dispatcher : WF_vars(Publish(d) \/ MarkPublished(d) \/ PublishFailed(d))

FairSpec == Spec /\ Fairness

-----------------------------------------------------------------------------
\* The rows, messages and processes are of their types; in particular no claim
\* takes an event beyond its max_attempts.
TypeOK ==
    /\ dispatch \in [Event -> DispatchRow]
    /\ inbox \in [Event -> InboxState]
    /\ committed \subseteq Event
    /\ broker \subseteq Event \X Token
    /\ dispatcher \in [Dispatcher -> DispatcherState]
    /\ handler \in [Handler -> HandlerState]

\* The two rows of an event always tell the same story, although four writers
\* (handlers, failure recorder, dispatchers, operator) lock them in two orders.
RowsAgree ==
    \A e \in Event :
        /\ inbox[e] = "ABSENT" <=> dispatch[e].state = "ABSENT"
        /\ inbox[e] = "PROCESSED" <=> dispatch[e].state = "SUCCEEDED"
        /\ inbox[e] = "DEAD_LETTER" <=> dispatch[e].state = "DEAD_LETTER"

\* A claimed row has a lease, so its claim runs out: a late publication never
\* turns a row that somebody else failed, finished or claimed into PUBLISHED.
ClaimIsLeased == \A e \in Event : dispatch[e].state \in Claimed => dispatch[e].lease # NoLease

\* A row that waits for a (re)try has an attempt left to be claimed with.
WaitingIsClaimable == \A e \in Event : dispatch[e].state \in Waiting => Claimable(dispatch[e])

\* An accepted event is finished, or claimed until its attempts are used up,
\* even if no handler ever answers.
Dispatched ==
    \A e \in Event : inbox[e] = "PENDING"
        ~> (dispatch[e].state \in Finished \/ dispatch[e].attempts = MaxAttempts)

-----------------------------------------------------------------------------
(***************************************************************************)
(* What the repository's documents say and the code does not do.           *)
(***************************************************************************)
InHands(e) ==
    \/ \E m \in broker : m[1] = e
    \/ \E d \in Dispatcher : dispatcher[d] # Idle /\ dispatcher[d].event = e
    \/ \E h \in Handler : handler[h] # Idle /\ handler[h].event = e

\* "expired claims are safely recoverable" (repositories.py:454): an expired claim
\* that no message and no process holds any more can be claimed again.
ExpiredIsRecoverable ==
    \A e \in Event : Expired(dispatch[e]) /\ ~InHands(e) => Claimable(dispatch[e])

\* "Failed work uses bounded retries and a dead-letter path" (ADR-0002): what is
\* in the dead-letter path is work that failed, not an event that was processed.
DeadLetterFailed == \A e \in Event : inbox[e] = "DEAD_LETTER" => e \notin committed
=============================================================================
