------------------------- MODULE LedgerTransactions -------------------------
(***************************************************************************)
(* The database transactions that lock rows or append audit entries, as    *)
(* the locks they take and the entries they append.  A material write      *)
(* appends an entry to its merchant's hash chain in its own transaction    *)
(* (persistence/audit_ledger.py, AuditLedger.append), under the lock of    *)
(* the merchant's head row; locks are kept until commit or rollback.  The  *)
(* orders below are those in which the services take them:                 *)
(*   merchant   pg_advisory_xact_lock of lock_merchant                      *)
(*   webhook, dispatch, case, action, review, promise, invoice, incident    *)
(*              rows read FOR UPDATE or updated                            *)
(*   customer   pg_advisory_xact_lock of customer_contact_snapshot          *)
(*   head       the audit_ledger_heads row                                  *)
(* PostgreSQL rolls back one member of a cycle of waiting transactions, a   *)
(* lost worker rolls back its own; the message or the schedule runs the     *)
(* job again.  Left out are the rows no cycle goes through - provider facts *)
(* (upserted first, in one order), interventions (locked last), simulations *)
(* - and the shared locks of foreign keys, which only add to the waiting.  A *)
(* policy publication locks nothing.                                       *)
(***************************************************************************)
EXTENDS Integers, Sequences, FiniteSets

CONSTANTS
    Jobs,          \* tasks and requests, each one transaction
    Cases,         \* recovery cases
    MerchantOf,    \* the merchant of a case
    CustomerOf,    \* the customer of a case
    Affected,      \* the other cases that an incident of a case's merchant is attached to
    Works,         \* [kind, cases]: what a job may be
    MaxTries       \* bound: rollbacks of one job before it is given up

Nobody == "nobody"
Kinds == {"event", "payment", "overdue", "review", "response", "prepare", "result",
          "lookup", "webhook", "failure", "portfolio", "sweep", "stale", "promises",
          "broken", "claim", "dispatch"}
\* The kinds whose transactions begin their work on cases with the merchant lock.
MerchantKinds == {"event", "payment", "overdue", "review", "portfolio"}

ASSUME JobsAssumption ==
    /\ Nobody \notin Jobs
    /\ Works \subseteq [kind : Kinds, cases : Seq(Cases)]
    /\ Affected \in [Cases -> Seq(Cases)]
    /\ MaxTries \in Nat

VARIABLES
    work,     \* what the job does
    phase,    \* idle, open (inside its transaction), done, lost
    todo,     \* the steps left in its transaction, for each of its cases in turn
    draft,    \* audit entries appended and not yet committed
    tries,    \* rollbacks so far
    holder,   \* who holds a lock
    chain,    \* committed audit_entries rows of a merchant
    head,     \* committed audit_ledger_heads row of a merchant
    version   \* committed version of an audited aggregate

vars == <<work, phase, todo, draft, tries, holder, chain, head, version>>

Merchants == {MerchantOf[c] : c \in Cases}
Customers == {CustomerOf[c] : c \in Cases}

MerchantLock(c) == <<"merchant", MerchantOf[c]>>
HeadRow(c) == <<"head", MerchantOf[c]>>
CustomerLock(c) == <<"customer", CustomerOf[c]>>
CaseRow(c) == <<"case", c>>
ActionRow(c) == <<"action", c>>
ReviewRow(c) == <<"review", c>>
PromiseRow(c) == <<"promise", c>>
InvoiceRow(c) == <<"invoice", c>>
IncidentRow(c) == <<"incident", MerchantOf[c]>>
\* The rows of an event about the case.
WebhookRow(c) == <<"webhook", c>>
DispatchRow(c) == <<"dispatch", c>>

Rows == {"case", "action", "review", "promise", "invoice", "webhook", "dispatch"} \X Cases
Resources == Rows \cup ({"merchant", "head", "incident"} \X Merchants)
                  \cup ({"customer"} \X Customers)

Locks(r) == [op |-> "lock", on |-> r]
\* A write of row r and its audit entry, which waits for the head row.
Writes(r, c) == [op |-> "write", row |-> r, on |-> HeadRow(c), case |-> c]

-----------------------------------------------------------------------------
(* The lock order of each transaction. *)

\* _evaluate_case: the first transition appends before the customer is locked.
Evaluation(c) == <<Writes(CaseRow(c), c), Locks(CustomerLock(c)), Writes(CaseRow(c), c)>>

\* _process_webhook_event locks its webhook row; persist_normalized_event updates the
\* dispatch, which record_dispatch_failure and requeue_dead_letter lock first.
IntakeOrder(c) == <<Locks(WebhookRow(c)), Locks(DispatchRow(c))>>
FailureOrder(c) == <<Locks(DispatchRow(c)), Locks(WebhookRow(c))>>

\* observe_and_evaluate, apply_degradation_assessment: the incident is attached to, or
\* taken off, cases that nobody has locked for it (_attach_affected_cases).
Observation(c) == <<Locks(MerchantLock(c)), Locks(IncidentRow(c))>>
                  \o [i \in 1..Len(Affected[c]) |-> Locks(CaseRow(Affected[c][i]))]

\* _process_webhook_event of a failure: an observation, then process_event.
\* Slip: the case is looked up before the merchant is locked.
CaseBeforeMerchant(c) == IntakeOrder(c) \o <<Locks(CaseRow(c))>> \o Observation(c) \o Evaluation(c)
EventOrder(c) == IntakeOrder(c) \o Observation(c) \o <<Locks(CaseRow(c))>> \o Evaluation(c)

\* _process_webhook_event of a payment: audit-only evidence, then verify_signed_event.
PaymentOrder(c) == IntakeOrder(c) \o Observation(c)
                   \o <<Locks(CaseRow(c)), Locks(ActionRow(c)),
                        Writes(ActionRow(c), c), Writes(CaseRow(c), c)>>

\* maintain_portfolios, for one of its merchants.
PortfolioOrder(c) == Observation(c) \o <<Locks(CaseRow(c))>>

\* ingest_overdue_invoice upserts the invoice and then runs process_event.
OverdueOrder(c) == <<Locks(InvoiceRow(c)), Locks(MerchantLock(c)), Locks(CaseRow(c))>>
                   \o Evaluation(c)

\* record_customer_response, with the promises that a dispute or a claim ends.
ResponseOrder(c) == <<Locks(InvoiceRow(c)), Locks(CaseRow(c)), Locks(PromiseRow(c))>>

ReviewOrder(c) == <<Locks(MerchantLock(c)), Locks(ReviewRow(c)), Locks(CaseRow(c)),
                    Writes(ReviewRow(c), c), Writes(CaseRow(c), c)>> \o Evaluation(c)

\* prepare_execution: the final policy check locks the customer before any append.
PrepareOrder(c) == <<Locks(ActionRow(c)), Locks(CaseRow(c)), Locks(CustomerLock(c)),
                     Writes(ActionRow(c), c), Writes(CaseRow(c), c)>>

\* record_execution_result: finish_attempt appends before the case is locked.
ResultOrder(c) == <<Locks(ActionRow(c)), Writes(ActionRow(c), c),
                    Locks(CaseRow(c)), Writes(CaseRow(c), c)>>

LookupOrder(c) == <<Locks(ActionRow(c)), Locks(CaseRow(c)),
                    Writes(CaseRow(c), c), Writes(ActionRow(c), c)>>

\* One row of a batch whose rows were selected FOR UPDATE SKIP LOCKED.
StaleCallOrder(c) == <<Locks(CaseRow(c)), Writes(CaseRow(c), c), Writes(ActionRow(c), c)>>
PromiseOrder(c) == <<Locks(CaseRow(c)), Writes(CaseRow(c), c), Writes(ActionRow(c), c)>>
BrokenOrder(c) == <<Locks(InvoiceRow(c))>>

\* record_webhook, record_invalid_webhook: an entry and nothing else.
\* Slip: the delivery is processed under the merchant lock at once.
ProcessedAtOnce(c) == <<Writes(WebhookRow(c), c), Locks(MerchantLock(c))>>
WebhookOrder(c) == <<Writes(WebhookRow(c), c)>>

BatchRow(kind, c) == CASE kind = "sweep" -> CaseRow(c)
                       [] kind \in {"stale", "claim"} -> ActionRow(c)
                       [] kind \in {"promises", "broken"} -> PromiseRow(c)
                       [] OTHER -> DispatchRow(c)
IsBatch(kind) == kind \in {"sweep", "stale", "claim", "promises", "broken", "dispatch"}

\* A claim of due actions or dispatches locks the rows of its batch and no more.
OrderOf(kind, c) == CASE kind = "event" -> EventOrder(c)
                      [] kind = "payment" -> PaymentOrder(c)
                      [] kind = "failure" -> FailureOrder(c)
                      [] kind = "overdue" -> OverdueOrder(c)
                      [] kind = "response" -> ResponseOrder(c)
                      [] kind = "portfolio" -> PortfolioOrder(c)
                      [] kind = "review" -> ReviewOrder(c)
                      [] kind = "prepare" -> PrepareOrder(c)
                      [] kind = "result" -> ResultOrder(c)
                      [] kind = "lookup" -> LookupOrder(c)
                      [] kind = "webhook" -> WebhookOrder(c)
                      [] kind = "sweep" -> <<Writes(CaseRow(c), c)>> \o Evaluation(c)
                      [] kind = "stale" -> StaleCallOrder(c)
                      [] kind = "promises" -> PromiseOrder(c)
                      [] kind = "broken" -> BrokenOrder(c)
                      [] kind \in {"claim", "dispatch"} -> <<>>

-----------------------------------------------------------------------------
(* The audit entries. *)

\* The hash chained to is represented by the name of the entry it digests.
ZeroHash == <<0>>
NameOf(e) == <<e.sequence, e.row, e.version>>
EntryAfter(seen, m, r, v) == [merchant |-> m, sequence |-> seen.sequence + 1,
                              previous |-> seen.hash, row |-> r, version |-> v]
Following(e) == [sequence |-> e.sequence, hash |-> NameOf(e)]
-----------------------------------------------------------------------------
(* What a transaction sees: its own uncommitted rows, then the committed ones. *)

OwnEntries(j, m) == {e \in draft[j] : e.merchant = m}
OwnWrites(j, r) == {e \in draft[j] : e.row = r}
LastOf(S) == CHOOSE e \in S : \A d \in S : d.sequence <= e.sequence

HeadSeen(j, m) == IF OwnEntries(j, m) = {} THEN head[m]
                  ELSE Following(LastOf(OwnEntries(j, m)))

\* Slip: the committed row is read again although this transaction changed it.
VersionReread(j, r) == version[r]
VersionSeen(j, r) == IF OwnWrites(j, r) = {} THEN version[r]
                     ELSE LastOf(OwnWrites(j, r)).version

\* AuditLedger.append: a merchant's first entry follows a genesis entry written with it.
Appended(j, r, c) ==
    LET m == MerchantOf[c]
        v == VersionSeen(j, r) + 1
        genesis == EntryAfter(HeadSeen(j, m), m, <<"genesis", m>>, 1)
    IN  IF HeadSeen(j, m).sequence = 0
        THEN {genesis, EntryAfter(Following(genesis), m, r, v)}
        ELSE {EntryAfter(HeadSeen(j, m), m, r, v)}

-----------------------------------------------------------------------------
(* Locks. *)

\* Slip: FOR UPDATE forgotten on the head row.
GrantableUnlessHead(j, r) == r[1] = "head" \/ holder[r] \in {Nobody, j}
Grantable(j, r) == holder[r] \in {Nobody, j}

\* Commit and rollback release everything, the advisory locks included.
Released(j) == [r \in Resources |-> IF holder[r] = j THEN Nobody ELSE holder[r]]

\* The orders of a job are followed one after the other; those of the rows that a
\* batch skipped are empty.
Turn(j, i) == /\ i \in DOMAIN todo[j] /\ todo[j][i] # <<>>
              /\ \A k \in 1..(i - 1) : todo[j][k] = <<>>
Performed(j, i) == [todo EXCEPT ![j][i] = Tail(@)]

\* The locks that job j waits for: one, or none.
AwaitedBy(j) == {Head(todo[j][i]).on : i \in {i \in DOMAIN todo[j] : Turn(j, i)}}
Waits(j, r) == phase[j] = "open" /\ r \in AwaitedBy(j) /\ ~ Grantable(j, r)

WaitsFor(j, k) == \E r \in AwaitedBy(j) : Waits(j, r) /\ holder[r] = k

\* Each transaction of S waits for one of S and keeps one of S waiting.
IsCycle(S) ==
    /\ S # {}
    /\ \A j \in S : (\E k \in S : WaitsFor(j, k)) /\ (\E k \in S : WaitsFor(k, j))
Deadlocked(j) == \E S \in SUBSET Jobs : j \in S /\ IsCycle(S)

-----------------------------------------------------------------------------
Init == /\ work \in [Jobs -> Works]
        /\ phase = [j \in Jobs |-> "idle"]
        /\ todo = [j \in Jobs |-> <<>>]
        /\ draft = [j \in Jobs |-> {}]
        /\ tries = [j \in Jobs |-> 0]
        /\ holder = [r \in Resources |-> Nobody]
        /\ chain = [m \in Merchants |-> {}]
        /\ head = [m \in Merchants |-> [sequence |-> 0, hash |-> ZeroHash]]
        /\ version = [r \in Rows |-> 0]

\* The transaction opens; a batch locks the rows nobody else has locked.
Begin(j) ==
    LET kind == work[j].kind
        cases == work[j].cases
        Takes(i) == IsBatch(kind) => holder[BatchRow(kind, cases[i])] = Nobody
    IN  /\ phase[j] = "idle"
        /\ phase' = [phase EXCEPT ![j] = "open"]
        /\ todo' = [todo EXCEPT ![j] =
                      [i \in 1..Len(cases) |->
                         IF Takes(i) THEN OrderOf(kind, cases[i]) ELSE <<>>]]
        /\ holder' = [r \in Resources |->
                        IF /\ IsBatch(kind) /\ holder[r] = Nobody
                           /\ \E i \in 1..Len(cases) : r = BatchRow(kind, cases[i])
                        THEN j ELSE holder[r]]
        /\ UNCHANGED <<work, draft, tries, chain, head, version>>

\* A lock is granted.
Acquire(j) ==
    /\ phase[j] = "open"
    /\ \E i \in DOMAIN todo[j] :
          /\ Turn(j, i) /\ Head(todo[j][i]).op = "lock"
          /\ Grantable(j, Head(todo[j][i]).on)
          /\ holder' = [holder EXCEPT ![Head(todo[j][i]).on] = j]
          /\ todo' = Performed(j, i)
    /\ UNCHANGED <<work, phase, draft, tries, chain, head, version>>

\* A row is written and its entry appended under the lock of the head row.
Write(j) ==
    /\ phase[j] = "open"
    /\ \E i \in DOMAIN todo[j] :
          LET s == Head(todo[j][i])
          IN  /\ Turn(j, i) /\ s.op = "write"
              /\ Grantable(j, s.on)
              /\ holder' = [holder EXCEPT ![s.on] = j]
              /\ draft' = [draft EXCEPT ![j] = @ \cup Appended(j, s.row, s.case)]
              /\ todo' = Performed(j, i)
    /\ UNCHANGED <<work, phase, tries, chain, head, version>>

Commit(j) ==
    /\ phase[j] = "open" /\ \A i \in DOMAIN todo[j] : todo[j][i] = <<>>
    /\ phase' = [phase EXCEPT ![j] = "done"]
    /\ chain' = [m \in Merchants |-> chain[m] \cup OwnEntries(j, m)]
    /\ head' = [m \in Merchants |-> HeadSeen(j, m)]
    /\ version' = [r \in Rows |-> VersionSeen(j, r)]
    /\ holder' = Released(j)
    /\ draft' = [draft EXCEPT ![j] = {}]
    /\ todo' = [todo EXCEPT ![j] = <<>>]
    /\ UNCHANGED <<work, tries>>

RollBack(j) ==
    /\ phase' = [phase EXCEPT ![j] = IF tries[j] < MaxTries THEN "idle" ELSE "lost"]
    /\ tries' = [tries EXCEPT ![j] = IF tries[j] < MaxTries THEN @ + 1 ELSE @]
    /\ todo' = [todo EXCEPT ![j] = <<>>]
    /\ draft' = [draft EXCEPT ![j] = {}]
    /\ holder' = Released(j)
    /\ UNCHANGED <<work, chain, head, version>>

\* PostgreSQL picks a victim of a cycle.
AbortVictim(j) == Deadlocked(j) /\ RollBack(j)

\* The worker or the connection is lost inside the transaction.
LoseWorker(j) == phase[j] = "open" /\ tries[j] < MaxTries /\ RollBack(j)

Finished == /\ \A j \in Jobs : phase[j] \in {"done", "lost"}
            /\ UNCHANGED vars

Next == \/ \E j \in Jobs : \/ Begin(j) \/ Acquire(j) \/ Write(j) \/ Commit(j)
                           \/ AbortVictim(j) \/ LoseWorker(j)
        \/ Finished

Spec == Init /\ [][Next]_vars

-----------------------------------------------------------------------------
(* Properties. *)

\* The committed entries of a merchant are one chain 1..n, each naming its
\* predecessor, and the head is its last entry - however transactions interleave
\* (audit_ledger.py:66, test "Concurrent appends are contiguous and single-chain").
ChainIsLinear ==
    \A m \in Merchants :
       /\ {e.sequence : e \in chain[m]} = 1..Cardinality(chain[m])
       /\ head[m].sequence = Cardinality(chain[m])
       /\ \A e \in chain[m] :
             /\ e.sequence = 1 <=> e.row = <<"genesis", m>>
             /\ e.sequence > 1 =>
                  \E p \in chain[m] : p.sequence = e.sequence - 1 /\ NameOf(p) = e.previous
             /\ e.sequence = head[m].sequence => NameOf(e) = head[m].hash

\* The ledger tells the story of each row in order and without a gap: the entries
\* about it are its versions 1, 2, ... in chain order, so an entry is committed
\* with its write or not at all (recovery_repositories.py:521, apply_transition).
AuditFollowsRow ==
    \A c \in Cases, kind \in {"case", "action", "review"} :
       LET about == {e \in chain[MerchantOf[c]] : e.row = <<kind, c>>}
       IN  /\ {e.version : e \in about} = 1..version[<<kind, c>>]
           /\ Cardinality(about) = version[<<kind, c>>]
           /\ \A d, e \in about : d.sequence < e.sequence => d.version < e.version

\* Transactions that lock their merchant before its cases - events, overdue
\* invoices, reviews and portfolio maintenance - never wait for each other in a
\* cycle, although each then takes incident, cases, customer and head, and
\* maintenance goes through several merchants (recovery_repositories.py:377,
\* lock_merchant; playbook_repositories.py:630, merchants in sorted order).
MerchantWorkSerializes ==
    \A S \in SUBSET Jobs : IsCycle(S) => \E j \in S : work[j].kind \notin MerchantKinds

\* The acknowledgement of a webhook may wait for the head, but whatever the
\* workers do it is never the victim of a deadlock, so a signed delivery is not
\* refused for one (persistence/repositories.py:285-317, record_webhook).
WebhookIsNoVictim == \A j \in Jobs : work[j].kind = "webhook" => ~ Deadlocked(j)

\* docs/superpowers/specs/2026-09-05-audit-ledger-design.md:101: "Contention
\* serializes per merchant".  It does not: orders that take the head before the
\* case, or the action before the case, wait for each other in a cycle.
ContentionSerializes == \A j \in Jobs : ~ Deadlocked(j)

\* The same line: "unrelated merchants continue independently".  They do not: a
\* batch over several merchants is one transaction, so it keeps the head of one
\* while it waits for the other's.
UnrelatedMerchantsContinue ==
    \A i, j, k \in Jobs :
       WaitsFor(i, j) /\ WaitsFor(j, k) =>
          \E a \in DOMAIN work[i].cases, b \in DOMAIN work[k].cases :
             MerchantOf[work[i].cases[a]] = MerchantOf[work[k].cases[b]]
=============================================================================
