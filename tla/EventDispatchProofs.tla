------------------------ MODULE EventDispatchProofs ------------------------
(***************************************************************************)
(* The safety of the event inbox, for any number of events, dispatchers    *)
(* and handlers and any limit of attempts.                                 *)
(*                                                                         *)
(* None of the invariants is inductive alone: that the two rows of an      *)
(* event agree rests on the lease of a claim, a claim on the attempts left *)
(* to the row, and those on the type of the row.  RowSafe says all of it   *)
(* of the rows of one event; every transaction changes the rows of one     *)
(* event, so each gets a lemma about RowSafe, and the invariant follows.   *)
(***************************************************************************)
EXTENDS EventDispatch, TLAPS

RowSafe(row, box) ==
    /\ row \in DispatchRow /\ box \in InboxState
    /\ box = "ABSENT" <=> row.state = "ABSENT"
    /\ box = "PROCESSED" <=> row.state = "SUCCEEDED"
    /\ box = "DEAD_LETTER" <=> row.state = "DEAD_LETTER"
    /\ row.state \in Claimed => row.lease # NoLease
    /\ row.state \in Waiting \cup {"ABSENT"} => row.attempts < MaxAttempts

RowsSafe ==
    /\ dispatch = [e \in Event |-> dispatch[e]]
    /\ inbox = [e \in Event |-> inbox[e]]
    /\ committed \subseteq Event
    /\ \A e \in Event : RowSafe(dispatch[e], inbox[e])

ProcessesTyped ==
    /\ broker \subseteq Event \X Token
    /\ dispatcher \in [Dispatcher -> DispatcherState]
    /\ handler \in [Handler -> HandlerState]

IInv == RowsSafe /\ ProcessesTyped

-----------------------------------------------------------------------------
(* What each transaction does to the rows of its event.                    *)

\* A claim is identified by a pair, and no pair is the missing lease.
LEMMA TokenIsNoLease == \A token \in Token : token # NoLease
  BY DEF Token, NoLease

\* claim_dispatches leaves a safe row: the claim is leased and within the attempts.
LEMMA ClaimedRowSafe ==
    ASSUME NEW row, NEW box, RowSafe(row, box), Claimable(row)
    PROVE  /\ RowSafe(ClaimedRow(row), box)
           /\ <<row.replays, row.attempts + 1>> \in Token
<1>. DEFINE token == <<row.replays, row.attempts + 1>>
           next == row.attempts + 1
<1>1. row \in DispatchRow /\ row.attempts < MaxAttempts
  BY DEF RowSafe, Claimable
<1>2. row.attempts \in 0..MaxAttempts /\ row.replays \in 0..MaxReplays
  BY <1>1 DEF DispatchRow
<1>3. next \in 0..MaxAttempts /\ next \in 1..MaxAttempts
  BY <1>1, <1>2, BoundsAssumption
<1>4. token \in Token /\ token # NoLease
  BY <1>2, <1>3, TokenIsNoLease DEF Token
<1>5. ClaimedRow(row) = [row EXCEPT !.state = "PROCESSING", !.attempts = next,
                                    !.lease = token, !.expired = FALSE]
  BY DEF ClaimedRow
<1>6. row.state \in Waiting \cup Claimed
  BY DEF Claimable, Expired
<1>7. <<row.replays, row.attempts + 1>> \in Token
  BY <1>4
<1>8. box \notin {"ABSENT", "PROCESSED", "DEAD_LETTER"}
  BY <1>6 DEF RowSafe, Waiting, Claimed
<1>. HIDE DEF token, next
<1>9. ClaimedRow(row) \in DispatchRow
  BY <1>1, <1>3, <1>4, <1>5 DEF DispatchRow, Claimed
<1>10. ClaimedRow(row).state = "PROCESSING" /\ ClaimedRow(row).lease = token
  BY <1>1, <1>5 DEF DispatchRow
<1>. QED
  BY <1>4, <1>7, <1>8, <1>9, <1>10 DEF RowSafe, Waiting

\* record_dispatch_failure leaves safe rows, whether it schedules a retry or not.
LEMMA FailedRowSafe ==
    ASSUME NEW row, NEW box, RowSafe(row, box), NEW terminal \in BOOLEAN
    PROVE  RowSafe(FailedRow(row, terminal), FailedState(AttemptsUsed(row, terminal)))
<1>. DEFINE used == AttemptsUsed(row, terminal)
           state == FailedState(used)
<1>1. used \in 0..MaxAttempts
  BY BoundsAssumption DEF AttemptsUsed, RowSafe, DispatchRow
<1>2. \/ state = "DEAD_LETTER"
      \/ state = "RETRY_SCHEDULED" /\ used < MaxAttempts
  BY <1>1, BoundsAssumption DEF FailedState, OutOfAttempts
<1>3. FailedRow(row, terminal) = [row EXCEPT !.state = state, !.attempts = used,
                                             !.lease = NoLease, !.expired = FALSE]
  BY DEF FailedRow
<1>0. FailedState(AttemptsUsed(row, terminal)) = state
  OBVIOUS
<1>. HIDE DEF used, state
<1>4. FailedRow(row, terminal) \in DispatchRow
  BY <1>1, <1>2, <1>3 DEF RowSafe, DispatchRow, Waiting, Finished
<1>5. FailedRow(row, terminal).state = state /\ FailedRow(row, terminal).attempts = used
  BY <1>3 DEF RowSafe, DispatchRow
<1>. QED
  BY <1>0, <1>1, <1>2, <1>4, <1>5 DEF RowSafe, InboxState, Claimed, Waiting

\* Publication, success and expiry leave safe rows.
LEMMA OtherRowsSafe ==
    ASSUME NEW row, NEW box, RowSafe(row, box)
    PROVE  /\ box = "ABSENT" => RowSafe([row EXCEPT !.state = "PENDING"], "PENDING")
           /\ row.state = "PROCESSING" /\ row.lease # NoLease
                => RowSafe([row EXCEPT !.state = "PUBLISHED"], box)
           /\ \A lease \in {row.lease, NoLease} :
                RowSafe([row EXCEPT !.state = "SUCCEEDED", !.lease = lease], "PROCESSED")
           /\ RowSafe([row EXCEPT !.expired = TRUE], box)
<1>. USE DEF Waiting, Claimed, Finished
<1>1. row \in DispatchRow
  BY DEF RowSafe
<1>2. CASE box = "ABSENT"
  BY <1>1, <1>2 DEF RowSafe, DispatchRow, InboxState
<1>3. CASE row.state = "PROCESSING" /\ row.lease # NoLease
  BY <1>1, <1>3 DEF RowSafe, DispatchRow, InboxState
<1>4. ASSUME NEW lease \in {row.lease, NoLease}
      PROVE  RowSafe([row EXCEPT !.state = "SUCCEEDED", !.lease = lease], "PROCESSED")
  BY <1>1 DEF RowSafe, DispatchRow, InboxState
<1>5. RowSafe([row EXCEPT !.expired = TRUE], box)
  BY <1>1 DEF RowSafe, DispatchRow
<1>6. box = "ABSENT" => RowSafe([row EXCEPT !.state = "PENDING"], "PENDING")
  BY <1>2
<1>7. row.state = "PROCESSING" /\ row.lease # NoLease
        => RowSafe([row EXCEPT !.state = "PUBLISHED"], box)
  BY <1>3
<1>. QED  BY <1>4, <1>5, <1>6, <1>7

\* requeue_dead_letter leaves safe rows: the attempts start again.
LEMMA RequeuedRowSafe ==
    ASSUME NEW row, NEW box, RowSafe(row, box), row.replays < MaxReplays
    PROVE  RowSafe([row EXCEPT !.state = "PENDING", !.attempts = 0, !.replays = @ + 1,
                               !.lease = NoLease, !.expired = FALSE], "PENDING")
<1>. DEFINE replays == row.replays + 1
           next == [row EXCEPT !.state = "PENDING", !.attempts = 0, !.replays = replays,
                               !.lease = NoLease, !.expired = FALSE]
<1>1. row \in DispatchRow /\ row.replays \in 0..MaxReplays
  BY DEF RowSafe, DispatchRow
<1>2. replays \in 0..MaxReplays
  BY <1>1, BoundsAssumption
<1>3. 0 \in 0..MaxAttempts /\ 0 < MaxAttempts
  BY BoundsAssumption
<1>. HIDE DEF replays
<1>4. next \in DispatchRow /\ next.state = "PENDING" /\ next.attempts = 0
  BY <1>1, <1>2, <1>3 DEF DispatchRow, Waiting
<1>5. RowSafe(next, "PENDING")
  BY <1>3, <1>4 DEF RowSafe, InboxState, Waiting, Claimed
<1>. QED  BY <1>5 DEF replays

\* A transaction writes the rows of one event.
LEMMA OneEventWritten ==
    ASSUME RowsSafe, NEW e \in Event, NEW row, NEW box, RowSafe(row, box),
           dispatch' = [dispatch EXCEPT ![e] = row],
           inbox' = [inbox EXCEPT ![e] = box],
           committed' \subseteq Event
    PROVE  RowsSafe'
  BY DEF RowsSafe

\* A step that writes no row of an event keeps every event safe.
LEMMA RowsUnwritten ==
    ASSUME RowsSafe, UNCHANGED rowVars
    PROVE  RowsSafe'
  BY DEF RowsSafe, rowVars

-----------------------------------------------------------------------------
(* What each transaction does to the processes.                            *)

\* The fields of a handler that is working on an event.
LEMMA HandlerPhases ==
    ASSUME handler \in [Handler -> HandlerState], NEW h \in Handler, handler[h] # Idle
    PROVE  /\ handler[h].event \in Event /\ handler[h].token \in Token
           /\ handler[h].phase \in {"read", "locked", "raised", "rejected"}
           /\ \A phase \in {"read", "locked", "raised", "rejected"} :
                 [handler[h] EXCEPT !.phase = phase] \in HandlerState
  BY DEF HandlerState

\* The fields of a dispatcher that is working on an event.
LEMMA DispatcherPhases ==
    ASSUME dispatcher \in [Dispatcher -> DispatcherState], NEW d \in Dispatcher,
           dispatcher[d] # Idle
    PROVE  /\ dispatcher[d].event \in Event /\ dispatcher[d].token \in Token
           /\ \A phase \in {"claimed", "sent", "unsent"} :
                 [dispatcher[d] EXCEPT !.phase = phase] \in DispatcherState
  BY DEF DispatcherState

\* Writing the inbox row makes at most the handler that holds it a victim.
LEMMA VictimsTyped ==
    ASSUME handler \in [Handler -> HandlerState], NEW e, NEW state,
           NEW base \in [Handler -> HandlerState],
           \A h \in Handler : Holds(h, e) => base[h] = handler[h],
           WriteInbox(e, state, base)
    PROVE  handler' \in [Handler -> HandlerState]
<1>1. ASSUME NEW h \in Handler, Holds(h, e)
      PROVE  [base[h] EXCEPT !.phase = "raised"] \in HandlerState
  <2>1. handler[h] # Idle
    BY <1>1 DEF Holds, Idle
  <2>. QED  BY <1>1, <2>1, HandlerPhases
<1>. QED  BY <1>1 DEF WriteInbox

-----------------------------------------------------------------------------
(* The invariant is inductive.                                             *)

\* The empty inbox satisfies the invariant.
LEMMA InitSafe == Init => IInv
<1>. SUFFICES ASSUME Init PROVE IInv
  OBVIOUS
<1>1. RowsSafe
  BY BoundsAssumption
  DEF Init, RowsSafe, RowSafe, DispatchRow, InboxState, Waiting, Claimed, Finished
<1>2. ProcessesTyped
  BY DEF Init, ProcessesTyped, DispatcherState, HandlerState
<1>. QED  BY <1>1, <1>2 DEF IInv

\* Receiving, replaying and expiring keep the invariant.
LEMMA EventStep ==
    ASSUME IInv, NEW e \in Event, RecordWebhook(e) \/ RequeueDeadLetter(e) \/ LeaseExpires(e)
    PROVE  IInv'
<1>1. RowSafe(dispatch[e], inbox[e])
  BY DEF IInv, RowsSafe
<1>2. committed' \subseteq Event
  BY DEF IInv, RowsSafe, RecordWebhook, RequeueDeadLetter, LeaseExpires
<1>3. CASE RecordWebhook(e)
  <2>1. RowSafe([dispatch[e] EXCEPT !.state = "PENDING"], "PENDING")
    BY <1>1, <1>3, OtherRowsSafe DEF RecordWebhook
  <2>2. RowsSafe'
    BY <1>2, <1>3, <2>1, OneEventWritten DEF IInv, RecordWebhook
  <2>. QED  BY <1>3, <2>2 DEF IInv, ProcessesTyped, RecordWebhook
<1>4. CASE RequeueDeadLetter(e)
  <2>. DEFINE row == [dispatch[e] EXCEPT !.state = "PENDING", !.attempts = 0,
                                         !.replays = @ + 1, !.lease = NoLease,
                                         !.expired = FALSE]
  <2>1. RowSafe(row, "PENDING")
    BY <1>1, <1>4, RequeuedRowSafe DEF RequeueDeadLetter
  <2>2. dispatch' = [dispatch EXCEPT ![e] = row] /\ inbox' = [inbox EXCEPT ![e] = "PENDING"]
    BY <1>4 DEF RequeueDeadLetter, WriteInbox, InboxWritten
  <2>. HIDE DEF row
  <2>3. RowsSafe'
    BY <1>2, <2>1, <2>2, OneEventWritten DEF IInv
  <2>4. handler' \in [Handler -> HandlerState]
    BY <1>4, VictimsTyped DEF IInv, ProcessesTyped, RequeueDeadLetter
  <2>. QED  BY <1>4, <2>3, <2>4 DEF IInv, ProcessesTyped, RequeueDeadLetter
<1>5. CASE LeaseExpires(e)
  <2>. DEFINE row == [dispatch[e] EXCEPT !.expired = TRUE]
  <2>1. RowSafe(row, inbox[e])
    BY <1>1, OtherRowsSafe
  <2>2. dispatch' = [dispatch EXCEPT ![e] = row] /\ inbox' = [inbox EXCEPT ![e] = inbox[e]]
    BY <1>5 DEF IInv, RowsSafe, LeaseExpires
  <2>. HIDE DEF row
  <2>3. RowsSafe'
    BY <1>2, <2>1, <2>2, OneEventWritten DEF IInv
  <2>. QED  BY <1>5, <2>3 DEF IInv, ProcessesTyped, LeaseExpires
<1>. QED  BY <1>3, <1>4, <1>5

\* A recorded failure, whether the event was terminally refused or not.
LEMMA FailureStep ==
    ASSUME RowsSafe, NEW e \in Event, NEW terminal \in BOOLEAN, NEW base,
           RecordFailure(e, terminal, base)
    PROVE  RowsSafe'
<1>1. RowSafe(FailedRow(dispatch[e], terminal),
              FailedState(AttemptsUsed(dispatch[e], terminal)))
  BY FailedRowSafe DEF RowsSafe
<1>2. committed' \subseteq Event
  BY DEF RowsSafe, RecordFailure
<1>. QED  BY <1>1, <1>2, OneEventWritten DEF RecordFailure, WriteInbox, InboxWritten

\* Every step of a dispatcher keeps the invariant.
LEMMA DispatcherStep ==
    ASSUME IInv, NEW d \in Dispatcher, Dispatch(d)
    PROVE  IInv'
<1>. USE DEF IInv
<1>1. ASSUME NEW e \in Event, ClaimDispatch(d, e) PROVE IInv'
  <2>1. /\ RowSafe(ClaimedRow(dispatch[e]), inbox[e])
        /\ <<dispatch[e].replays, dispatch[e].attempts + 1>> \in Token
    BY <1>1, ClaimedRowSafe DEF ClaimDispatch, RowsSafe
  <2>2. /\ dispatch' = [dispatch EXCEPT ![e] = ClaimedRow(dispatch[e])]
        /\ inbox' = [inbox EXCEPT ![e] = inbox[e]]
        /\ committed' \subseteq Event
    BY <1>1 DEF RowsSafe, ClaimDispatch
  <2>3. RowsSafe'
    BY <2>1, <2>2, OneEventWritten
  <2>4. dispatcher' \in [Dispatcher -> DispatcherState]
    BY <1>1, <2>1 DEF ClaimDispatch, ProcessesTyped, DispatcherState
  <2>. QED  BY <1>1, <2>3, <2>4 DEF ClaimDispatch, ProcessesTyped
<1>2. CASE Publish(d)
  <2>1. dispatcher[d] # Idle
    BY <1>2 DEF Publish, Idle
  <2>2. /\ Message(dispatcher[d]) \in Event \X Token
        /\ [dispatcher[d] EXCEPT !.phase = "sent"] \in DispatcherState
        /\ [dispatcher[d] EXCEPT !.phase = "unsent"] \in DispatcherState
    BY <2>1, DispatcherPhases DEF ProcessesTyped, Message
  <2>3. dispatcher' \in [Dispatcher -> DispatcherState] /\ broker' \subseteq Event \X Token
    BY <1>2, <2>2 DEF Publish, ProcessesTyped
  <2>4. ProcessesTyped' /\ UNCHANGED rowVars
    BY <1>2, <2>3 DEF Publish, ProcessesTyped
  <2>. QED  BY <2>4, RowsUnwritten
<1>3. CASE MarkPublished(d)
  <2>. DEFINE e == dispatcher[d].event
              token == dispatcher[d].token
              row == [dispatch[e] EXCEPT !.state = "PUBLISHED"]
  <2>0. dispatcher[d] # Idle
    BY <1>3 DEF MarkPublished, Idle
  <2>1. e \in Event /\ token \in Token
    BY <2>0, DispatcherPhases DEF ProcessesTyped
  <2>2. ASSUME StillClaimed(dispatch[e], token) PROVE RowsSafe'
    <3>1. RowSafe(row, inbox[e])
      BY <2>1, <2>2, OtherRowsSafe, TokenIsNoLease DEF StillClaimed, RowsSafe
    <3>2. /\ dispatch' = [dispatch EXCEPT ![e] = row]
          /\ inbox' = [inbox EXCEPT ![e] = inbox[e]]
          /\ committed' \subseteq Event
      BY <1>3, <2>2 DEF RowsSafe, MarkPublished
    <3>. HIDE DEF row, e
    <3>. QED  BY <2>1, <3>1, <3>2, OneEventWritten
  <2>3. ASSUME ~StillClaimed(dispatch[e], token) PROVE RowsSafe'
    BY <1>3, <2>3, RowsUnwritten DEF MarkPublished, rowVars
  <2>4. RowsSafe'
    BY <2>2, <2>3
  <2>. QED  BY <1>3, <2>4 DEF MarkPublished, ProcessesTyped, DispatcherState
<1>4. CASE PublishFailed(d)
  <2>0. dispatcher[d] # Idle
    BY <1>4 DEF PublishFailed, Idle
  <2>1. dispatcher[d].event \in Event
    BY <2>0, DispatcherPhases DEF ProcessesTyped
  <2>2. RowsSafe'
    BY <1>4, <2>1, FailureStep DEF PublishFailed
  <2>3. handler' \in [Handler -> HandlerState]
    BY <1>4, VictimsTyped DEF PublishFailed, RecordFailure, ProcessesTyped
  <2>. QED  BY <1>4, <2>2, <2>3 DEF PublishFailed, ProcessesTyped, DispatcherState
<1>5. CASE DispatcherLost(d)
  BY <1>5, RowsUnwritten DEF DispatcherLost, ProcessesTyped, DispatcherState
<1>. QED  BY <1>1, <1>2, <1>3, <1>4, <1>5 DEF Dispatch

\* Every step of a handler keeps the invariant.
LEMMA HandlerStep ==
    ASSUME IInv, NEW h \in Handler, Handle(h)
    PROVE  IInv'
<1>. USE DEF IInv
<1>. DEFINE e == handler[h].event
<1>1. ASSUME NEW m \in broker, Begin(h, m) PROVE IInv'
  <2>1. m[1] \in Event /\ m[2] \in Token
    BY DEF ProcessesTyped
  <2>2. [phase |-> "read", event |-> m[1], token |-> m[2],
         leased |-> dispatch[m[1]].lease # NoLease] \in HandlerState
    BY <2>1 DEF HandlerState
  <2>3. ProcessesTyped' /\ UNCHANGED rowVars
    BY <1>1, <2>2 DEF Begin, ProcessesTyped, Acknowledged
  <2>. QED  BY <2>3, RowsUnwritten
<1>2. ASSUME handler[h] # Idle
      PROVE  /\ e \in Event /\ Message(handler[h]) \in Event \X Token
             /\ \A phase \in {"locked", "raised", "rejected"} :
                   [handler[h] EXCEPT !.phase = phase] \in HandlerState
  BY <1>2, HandlerPhases DEF ProcessesTyped, Message
<1>3. Idle \in HandlerState
  BY DEF HandlerState
<1>4. CASE LockInbox(h) \/ Raise(h)
  <2>1. handler[h] # Idle
    BY <1>4 DEF LockInbox, Raise, Idle
  <2>2. handler' \in [Handler -> HandlerState]
    BY <1>2, <1>4, <2>1 DEF LockInbox, Raise, ProcessesTyped
  <2>3. ProcessesTyped' /\ UNCHANGED rowVars
    BY <1>4, <2>2 DEF LockInbox, Raise, ProcessesTyped
  <2>. QED  BY <2>3, RowsUnwritten
<1>5. CASE ProcessEvent(h)
  <2>. DEFINE lease == IF handler[h].leased THEN NoLease ELSE dispatch[e].lease
              row == [dispatch[e] EXCEPT !.state = "SUCCEEDED", !.lease = lease]
  <2>1. handler[h] # Idle
    BY <1>5 DEF ProcessEvent, Idle
  <2>2. e \in Event /\ RowSafe(dispatch[e], inbox[e])
    BY <1>2, <2>1 DEF RowsSafe
  <2>3. RowSafe(row, "PROCESSED")
    BY <2>2, OtherRowsSafe
  <2>5. /\ dispatch' = [dispatch EXCEPT ![e] = row]
        /\ inbox' = [inbox EXCEPT ![e] = "PROCESSED"]
        /\ committed' \subseteq Event
    BY <1>5, <2>2 DEF RowsSafe, ProcessEvent, InboxWritten
  <2>6. ProcessesTyped'
    BY <1>2, <1>3, <1>5, <2>1 DEF ProcessEvent, ProcessesTyped
  <2>7. RowsSafe'
    <3>. HIDE DEF row, e
    <3>. QED  BY <2>2, <2>3, <2>5, OneEventWritten
  <2>. QED  BY <2>6, <2>7
<1>6. CASE ProcessingFailed(h)
  <2>. DEFINE base == [handler EXCEPT ![h] = Idle]
              terminal == handler[h].phase = "rejected"
  <2>1. handler[h] # Idle /\ ~Holds(h, e)
    BY <1>6 DEF ProcessingFailed, Idle, Holds
  <2>2. RecordFailure(e, terminal, base)
    BY <1>6 DEF ProcessingFailed
  <2>3. terminal \in BOOLEAN
    OBVIOUS
  <2>4. base \in [Handler -> HandlerState]
    BY <1>3 DEF ProcessesTyped
  <2>5. \A other \in Handler : Holds(other, e) => base[other] = handler[other]
    BY <2>1 DEF ProcessesTyped
  <2>6. broker' \subseteq Event \X Token /\ UNCHANGED dispatcher
    BY <1>2, <1>6, <2>1 DEF ProcessingFailed, ProcessesTyped
  <2>7. e \in Event
    BY <1>2, <2>1
  <2>. HIDE DEF base, terminal, e
  <2>8. RowsSafe'
    BY <2>2, <2>3, <2>7, FailureStep
  <2>9. handler' \in [Handler -> HandlerState]
    BY <2>2, <2>4, <2>5, VictimsTyped DEF RecordFailure, ProcessesTyped
  <2>. QED  BY <2>6, <2>8, <2>9 DEF ProcessesTyped
<1>7. CASE FailureUnrecorded(h) \/ HandlerLost(h)
  <2>1. handler[h] # Idle
    BY <1>7 DEF FailureUnrecorded, HandlerLost, Idle
  <2>2. ProcessesTyped' /\ UNCHANGED rowVars
    BY <1>2, <1>3, <1>7, <2>1 DEF FailureUnrecorded, HandlerLost, ProcessesTyped
  <2>. QED  BY <2>2, RowsUnwritten
<1>. QED  BY <1>1, <1>4, <1>5, <1>6, <1>7 DEF Handle

\* Every step of the system keeps the invariant.
LEMMA InvariantStep == IInv /\ [Next]_vars => IInv'
<1>. SUFFICES ASSUME IInv, [Next]_vars PROVE IInv'
  OBVIOUS
<1>1. ASSUME NEW e \in Event, RecordWebhook(e) \/ RequeueDeadLetter(e) \/ LeaseExpires(e)
      PROVE  IInv'
  BY <1>1, EventStep
<1>2. ASSUME NEW d \in Dispatcher, Dispatch(d) PROVE IInv'
  BY <1>2, DispatcherStep
<1>3. ASSUME NEW h \in Handler, Handle(h) PROVE IInv'
  BY <1>3, HandlerStep
<1>4. CASE UNCHANGED vars
  BY <1>4, RowsUnwritten DEF IInv, ProcessesTyped, vars
<1>. QED  BY <1>1, <1>2, <1>3, <1>4 DEF Next

\* The invariant holds in every reachable state.
LEMMA InvariantHolds == Spec => []IInv
  BY InitSafe, InvariantStep, PTL DEF Spec

-----------------------------------------------------------------------------
\* Type correctness of the inbox, its queue and its processes.
THEOREM TypeCorrect == Spec => []TypeOK
<1>1. IInv => TypeOK
  BY DEF IInv, RowsSafe, RowSafe, ProcessesTyped, TypeOK
<1>. QED  BY <1>1, InvariantHolds, PTL

\* Whoever writes last, and whichever transaction a deadlock aborts, the inbox
\* row and the dispatch row of an event agree.
THEOREM InboxAgreesWithDispatch == Spec => []RowsAgree
<1>1. IInv => RowsAgree
  BY DEF IInv, RowsSafe, RowSafe, RowsAgree
<1>. QED  BY <1>1, InvariantHolds, PTL

\* No row is ever claimed without a lease, so every claim can run out.
THEOREM EveryClaimIsLeased == Spec => []ClaimIsLeased
<1>1. IInv => ClaimIsLeased
  BY DEF IInv, RowsSafe, RowSafe, ClaimIsLeased
<1>. QED  BY <1>1, InvariantHolds, PTL

\* No row waits for a retry that can never be claimed.
THEOREM NoRetryIsUnclaimable == Spec => []WaitingIsClaimable
<1>1. IInv => WaitingIsClaimable
  BY DEF IInv, RowsSafe, RowSafe, WaitingIsClaimable, Claimable
<1>. QED  BY <1>1, InvariantHolds, PTL
=============================================================================
