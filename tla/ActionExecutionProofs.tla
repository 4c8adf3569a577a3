----------------------- MODULE ActionExecutionProofs -----------------------
(***************************************************************************)
(* Theorems about ActionExecution, for every set of cases, actions,        *)
(* workers, reconcilers and events and every value of the bounds: the      *)
(* types, and what bounds the provider's view - one caller of an action    *)
(* at a time, at most one effect, leases that match attempts, and rows     *)
(* that are never reopened.                                                *)
(*                                                                         *)
(* A row that is still PENDING remembers the call that is under way: its   *)
(* open attempt carries the token of the worker that made it.  So a second *)
(* attempt can begin only when the first one has ended without effect, and *)
(* a row that has left PENDING never comes back.                           *)
(***************************************************************************)
EXTENDS ActionExecution, SequenceTheorems, TLAPS

-----------------------------------------------------------------------------
(* Lemmas about the operators. *)

\* Taking an observation out of the timeline of a case, or keeping only the
\* newer ones, leaves a sequence of observations.
LEMMA TimelineType ==
    ASSUME NEW s \in Seq(Observer), NEW o
    PROVE  Without(s, o) \in Seq(Observer) /\ NewerThan(s, o) \in Seq(Observer)
<1>. DEFINE i == IndexOf(s, o)
<1>1. CASE Contains(s, o)
  <2>1. i \in 1..Len(s)
    BY <1>1 DEF Contains, IndexOf
  <2>2. \A j \in 1..Len(s) : s[j] \in Observer
    BY ElementOfSeq
  <2>3. Len(s) \in Nat
    BY LenProperties
  <2>4. SubSeq(s, 1, i - 1) \in Seq(Observer)
    <3>1. \A j \in 1..(i - 1) : s[j] \in Observer
      BY <2>1, <2>2, <2>3
    <3>. QED  BY <2>1, <2>3, <3>1, SubSeqProperties
  <2>5. SubSeq(s, i + 1, Len(s)) \in Seq(Observer)
    <3>1. \A j \in (i + 1)..Len(s) : s[j] \in Observer
      BY <2>1, <2>2, <2>3
    <3>. QED  BY <2>1, <2>3, <3>1, SubSeqProperties
  <2>6. RemoveAt(s, i) \in Seq(Observer)
    BY <2>4, <2>5, ConcatProperties DEF RemoveAt
  <2>. QED  BY <1>1, <2>5, <2>6 DEF Without, NewerThan
<1>2. CASE ~Contains(s, o)
  BY <1>2 DEF Without, NewerThan
<1>. QED  BY <1>1, <1>2

\* A path through a set of states ends in that set.
LEMMA PathEnds ==
    ASSUME NEW S, NEW path \in Seq(S), NEW s, path # <<>> \/ s \in S
    PROVE  StateAfter(s, path) \in S
BY DEF StateAfter

\* Moving a case along a path keeps the types of its state and its timeline.
LEMMA MoveType ==
    ASSUME NEW c \in Case, NEW path \in Seq(CaseState), NEW o,
           caseState \in [Case -> CaseState], timeline \in [Case -> Seq(Observer)],
           MoveNow(c, path) \/ MoveAt(c, path, o)
    PROVE  caseState' \in [Case -> CaseState] /\ timeline' \in [Case -> Seq(Observer)]
<1>1. StateAfter(caseState[c], path) \in CaseState
  BY PathEnds
<1>2. /\ <<>> \in Seq(Observer)
      /\ Without(timeline[c], o) \in Seq(Observer)
      /\ NewerThan(timeline[c], o) \in Seq(Observer)
  BY TimelineType
<1>. QED  BY <1>1, <1>2 DEF MoveNow, MoveAt

\* Recording or dropping an observation keeps the type of the timeline.
LEMMA ObserveType ==
    ASSUME NEW c \in Case, NEW o \in Observer, timeline \in [Case -> Seq(Observer)],
           Observed(c, o) \/ Dropped(c, o)
    PROVE  timeline' \in [Case -> Seq(Observer)]
<1>1. /\ Append(timeline[c], o) \in Seq(Observer)
      /\ Without(timeline[c], o) \in Seq(Observer)
  BY TimelineType, AppendProperties
<1>. QED  BY <1>1 DEF Observed, Dropped

Status == {"NONE", "PENDING", "SUCCEEDED", "FAILED", "UNKNOWN"}
Result == {"SUCCEEDED", "UNKNOWN", "FAILED", "RATE_LIMITED"}

\* Releasing, settling or finishing a row yields a row.
LEMMA ReleasedType ==
    ASSUME NEW row \in ActionRow
    PROVE  Released(row) \in ActionRow
BY DEF Released, ActionRow, NoToken

\* begin_attempt counts an attempt and opens it: the row keeps its type.
LEMMA BegunType ==
    ASSUME NEW row \in ActionRow, NEW token \in Token
    PROVE  [row EXCEPT !.attempts = @ + 1, !.open = token] \in ActionRow
<1>. DEFINE n == row.attempts + 1
<1>1. n \in Nat
  BY DEF ActionRow
<1>. HIDE DEF n
<1>2. [row EXCEPT !.attempts = n, !.open = token] \in ActionRow
  BY <1>1 DEF ActionRow
<1>. QED  BY <1>2 DEF n

\* Giving a row a status and taking its lease away keeps its type.
LEMMA SettledType ==
    ASSUME NEW row \in ActionRow, NEW status \in Status
    PROVE  Settled(row, status) \in ActionRow
<1>. DEFINE free == Released(row)
           dead == free.dead \/ status = "FAILED"
<1>1. free \in ActionRow
  BY ReleasedType
<1>2. dead \in BOOLEAN
  OBVIOUS
<1>3. Settled(row, status) = [free EXCEPT !.status = status, !.dead = dead]
  BY <1>1 DEF Settled, ActionRow
<1>. HIDE DEF free, dead
<1>. QED  BY <1>1, <1>2, <1>3 DEF ActionRow, Status

\* A row resolved by signed evidence keeps its type.
LEMMA PaidType ==
    ASSUME NEW row \in ActionRow, NEW byLink \in BOOLEAN
    PROVE  Paid(row, byLink) \in ActionRow
<1>. DEFINE settled == Settled(row, "SUCCEEDED")
<1>1. settled \in ActionRow
  BY SettledType DEF Status
<1>2. Paid(row, byLink) = IF byLink THEN [settled EXCEPT !.linked = TRUE] ELSE settled
  BY DEF Paid
<1>. HIDE DEF settled
<1>. QED  BY <1>1, <1>2 DEF ActionRow

\* finish_attempt keeps the type of the row, whatever the provider's answer.
LEMMA FinishedType ==
    ASSUME NEW row \in ActionRow, NEW result \in Result
    PROVE  Finished(row, result) \in ActionRow
<1>. DEFINE closed == [Released(row) EXCEPT !.open = NoToken]
<1>1. closed \in ActionRow
  BY ReleasedType DEF ActionRow, NoToken
<1>2. \A status \in Status : Settled(closed, status) \in ActionRow
  BY <1>1, SettledType
<1>3. /\ [Settled(closed, "UNKNOWN") EXCEPT !.overdue = FALSE] \in ActionRow
      /\ [Settled(closed, "SUCCEEDED") EXCEPT !.linked = TRUE] \in ActionRow
      /\ Settled(closed, "FAILED") \in ActionRow
  <2>1. /\ Settled(closed, "UNKNOWN") \in ActionRow
        /\ Settled(closed, "SUCCEEDED") \in ActionRow
        /\ Settled(closed, "FAILED") \in ActionRow
    BY <1>2 DEF Status
  <2>. HIDE DEF closed
  <2>. QED  BY <2>1 DEF ActionRow
<1>4. Finished(row, result) = closed
      \/ Finished(row, result) = [Settled(closed, "UNKNOWN") EXCEPT !.overdue = FALSE]
      \/ Finished(row, result) = [Settled(closed, "SUCCEEDED") EXCEPT !.linked = TRUE]
      \/ Finished(row, result) = Settled(closed, "FAILED")
  <2>. DEFINE retried == Retried(row, result)
  <2>1. CASE retried
    BY <2>1 DEF Finished
  <2>2. CASE ~retried /\ result = "UNKNOWN"
    BY <2>2 DEF Finished
  <2>3. CASE ~retried /\ result = "SUCCEEDED"
    BY <2>3 DEF Finished
  <2>4. CASE ~retried /\ result \notin {"UNKNOWN", "SUCCEEDED"}
    BY <2>4 DEF Finished
  <2>. QED  BY <2>1, <2>2, <2>3, <2>4
<1>. QED  BY <1>1, <1>3, <1>4

\* Counting a retry or a contact keeps the type of the counters.
LEMMA SpentType ==
    ASSUME NEW c \in Case, NEW k \in CountedClass, spent \in [Case -> [CountedClass -> Nat]]
    PROVE  SpentOnce(c, k) \in [Case -> [CountedClass -> Nat]]
<1>1. [spent[c] EXCEPT ![k] = @ + 1] \in [CountedClass -> Nat]
  <2>1. spent[c] \in [CountedClass -> Nat]
    OBVIOUS
  <2>. QED  BY <2>1
<1>2. SpentOnce(c, k) = [spent EXCEPT ![c] = [spent[c] EXCEPT ![k] = @ + 1]]
  BY DEF SpentOnce
<1>. QED  BY <1>1, <1>2

\* What a worker or a reconciler that is not idle is holding.
LEMMA WorkerCases ==
    ASSUME NEW w \in Worker, worker \in [Worker -> WorkerState]
    PROVE  /\ worker[w].phase = "calling" =>
                worker[w] \in [phase : {"calling"}, action : Action, token : Token]
           /\ worker[w].phase = "returned" =>
                worker[w] \in [phase : {"returned"}, action : Action, token : Token,
                               result : Result]
           /\ worker[w] # Idle => worker[w].phase \in {"calling", "returned"}
BY DEF WorkerState, Idle, Result

\* A reconciler that has selected or looked up an action refers to an action.
LEMMA ReconCases ==
    ASSUME NEW r \in Recon, recon \in [Recon -> ReconState]
    PROVE  /\ recon[r].phase = "selected" => recon[r].action \in Action
           /\ recon[r].phase = "looked" =>
                /\ recon[r].action \in Action
                /\ recon[r].late \in BOOLEAN
                /\ recon[r].result \in {"SUCCEEDED", "PENDING", "FAILED", "UNKNOWN"}
           /\ recon[r] # Idle => recon[r].phase \in {"selected", "looked"}
BY DEF ReconState, Idle

\* A queued signed event is about an action.
LEMMA EventCases ==
    ASSUME NEW e \in Event, event \in [Event -> {NotReceived, Processed} \cup SignedEvent],
           event[e].state = "queued"
    PROVE  /\ event[e].about \in Action
           /\ event[e].viaLink \in BOOLEAN
           /\ event[e].match \in BOOLEAN
BY DEF SignedEvent, NotReceived, Processed

-----------------------------------------------------------------------------
(* Type correctness. *)

\* Authorising an action keeps the type of its row.
LEMMA StoredType ==
    ASSUME NEW row \in ActionRow
    PROVE  [row EXCEPT !.status = "PENDING"] \in ActionRow
BY DEF ActionRow

\* What an evaluation of a case leaves behind.
LEMMA EvaluateType ==
    ASSUME TypeOK, NEW c \in Case, NEW entry \in Seq(CaseState), Evaluate(c, entry)
    PROVE  TypeOK'
<1>. USE DEF TypeOK
<1>1. PICK v \in Verdict : EvaluateTo(c, entry, v)
  BY DEF Evaluate
<1>2. entry \o <<"POLICY_CHECK", StateFor(v)>> \in Seq(CaseState)
  <2>1. StateFor(v) \in CaseState
    BY DEF Verdict, StateFor, CaseState
  <2>2. <<"POLICY_CHECK", StateFor(v)>> \in Seq(CaseState)
    BY <2>1 DEF CaseState
  <2>. QED  BY <2>2, ConcatProperties
<1>3. caseState' \in [Case -> CaseState] /\ timeline' \in [Case -> Seq(Observer)]
  BY <1>1, <1>2, MoveType DEF EvaluateTo
<1>4. review' \in [Case -> BOOLEAN]
  BY <1>1 DEF EvaluateTo
<1>5. action' \in [Action -> ActionRow]
  <2>1. ASSUME NEW a \in Action, StoreAction(a)
        PROVE  action' \in [Action -> ActionRow]
    <3>1. action[a] \in ActionRow
      OBVIOUS
    <3>. QED  BY <2>1, <3>1, StoredType DEF StoreAction
  <2>. QED  BY <1>1, <2>1 DEF EvaluateTo
<1>6. spent' \in [Case -> [CountedClass -> Nat]]
  BY <1>1, SpentType DEF EvaluateTo, CountedClass
<1>7. UNCHANGED <<credited, broker, worker, recon, event, effects, link, charged>>
  BY <1>1 DEF EvaluateTo, providerVars
<1>. QED  BY <1>3, <1>4, <1>5, <1>6, <1>7

\* The empty database and idle processes are of their types.
THEOREM InitType == Init => TypeOK
<1>. SUFFICES ASSUME Init PROVE TypeOK
  OBVIOUS
<1>1. NoAction \in ActionRow
  BY BoundsAssumption DEF NoAction, ActionRow, NoToken
<1>2. <<>> \in Seq(Observer)
  OBVIOUS
<1>. QED  BY <1>1, <1>2 DEF Init, TypeOK, CaseState, CountedClass, WorkerState, ReconState

\* process_event, reevaluate_deferred and decide_review keep the types.
LEMMA DecideType ==
    ASSUME TypeOK, NEW c \in Case, Decide(c)
    PROVE  TypeOK'
<1>1. /\ <<>> \in Seq(CaseState)
      /\ <<"DECISION_PENDING">> \in Seq(CaseState)
      /\ <<"STOPPED">> \in Seq(CaseState)
      /\ <<"DETECTED", "DIAGNOSING", "DECISION_PENDING">> \in Seq(CaseState)
  BY DEF CaseState
<1>2. CASE CloseReview(c)
  <2>1. caseState' \in [Case -> CaseState] /\ timeline' \in [Case -> Seq(Observer)]
    BY <1>1, <1>2, MoveType DEF CloseReview, TypeOK
  <2>. QED  BY <1>2, <2>1 DEF CloseReview, TypeOK, providerVars
<1>3. CASE ProcessRiskEvent(c) \/ ReevaluateDeferred(c) \/ ApproveReview(c)
  BY <1>1, <1>3, EvaluateType DEF ProcessRiskEvent, ReevaluateDeferred, ApproveReview
<1>. QED  BY <1>2, <1>3 DEF Decide

\* claim_due_actions issues a token of the bounded set.
LEMMA ClaimType ==
    ASSUME TypeOK, NEW a \in Action, ClaimDueAction(a)
    PROVE  TypeOK'
<1>. USE DEF TypeOK
<1>. DEFINE token == action[a].claims + 1
<1>1. action[a] \in ActionRow /\ action[a].claims < MaxClaims
  BY DEF ClaimDueAction, Row
<1>2. token \in Token /\ token \in 0..MaxClaims
  BY <1>1, BoundsAssumption DEF ActionRow, Token
<1>3. [action[a] EXCEPT !.claims = token, !.lease = token, !.expired = FALSE] \in ActionRow
  BY <1>1, <1>2 DEF ActionRow
<1>4. action' \in [Action -> ActionRow]
  BY <1>3 DEF ClaimDueAction, Row
<1>5. broker' \subseteq Action \X Token
  BY <1>2 DEF ClaimDueAction, Row
<1>. QED  BY <1>4, <1>5 DEF ClaimDueAction, providerVars

\* A final policy check that refuses keeps the types.
LEMMA CancelType ==
    ASSUME TypeOK, NEW w \in Worker, NEW m \in broker, NEW v \in Verdict,
           CancelBeforeExecution(w, m, v)
    PROVE  TypeOK'
<1>. USE DEF TypeOK
<1>. DEFINE a == m[1]
           c == CaseOf[a]
           entry == IF caseState[c] = "READY" THEN <<"EXECUTING", "VERIFYING">>
                    ELSE <<"VERIFYING">>
           exit == CASE v \in {"STOP", "SKIP"} -> <<StateFor(v)>>
                     [] OTHER -> <<"DECISION_PENDING", "POLICY_CHECK", StateFor(v)>>
<1>1. a \in Action /\ c \in Case
  BY ActionsAssumption
<1>2. entry \o exit \in Seq(CaseState)
  <2>1. entry \in Seq(CaseState)
    <3>1. <<"EXECUTING", "VERIFYING">> \in Seq(CaseState)
      BY DEF CaseState
    <3>2. <<"VERIFYING">> \in Seq(CaseState)
      BY DEF CaseState
    <3>. QED  BY <3>1, <3>2
  <2>2. exit \in Seq(CaseState)
    <3>1. StateFor(v) \in CaseState
      BY DEF Verdict, StateFor, CaseState
    <3>2. <<StateFor(v)>> \in Seq(CaseState)
      BY <3>1
    <3>3. <<"DECISION_PENDING", "POLICY_CHECK", StateFor(v)>> \in Seq(CaseState)
      BY <3>1 DEF CaseState
    <3>. QED  BY <3>2, <3>3
  <2>. HIDE DEF entry, exit
  <2>. QED  BY <2>1, <2>2, ConcatProperties
<1>3. /\ action' = [action EXCEPT ![a] = Settled(@, "FAILED")]
      /\ MoveNow(c, entry \o exit)
      /\ review' = [review EXCEPT ![c] = @ \/ v = "REQUIRE_HUMAN"]
      /\ Acknowledged(m)
      /\ UNCHANGED <<spent, credited, worker, recon, event, effects, link, charged>>
  BY DEF CancelBeforeExecution, providerVars
<1>. HIDE DEF c, entry, exit
<1>4. caseState' \in [Case -> CaseState] /\ timeline' \in [Case -> Seq(Observer)]
  BY <1>1, <1>2, <1>3, MoveType
<1>5. action' \in [Action -> ActionRow]
  <2>1. Settled(action[a], "FAILED") \in ActionRow
    BY <1>1, SettledType DEF Status
  <2>. QED  BY <1>3, <2>1
<1>6. review' \in [Case -> BOOLEAN]
  BY <1>1, <1>3
<1>7. broker' \subseteq Action \X Token
  BY <1>3 DEF Acknowledged
<1>. QED  BY <1>3, <1>4, <1>5, <1>6, <1>7

\* prepare_execution that proceeds keeps the types.
LEMMA BeginType ==
    ASSUME TypeOK, NEW w \in Worker, NEW m \in broker, BeginAttempt(w, m)
    PROVE  TypeOK'
<1>. USE DEF TypeOK
<1>. DEFINE a == m[1]
           c == CaseOf[a]
<1>1. a \in Action /\ c \in Case /\ m[2] \in Token
  BY ActionsAssumption
<1>2. [action[a] EXCEPT !.attempts = @ + 1, !.open = m[2]] \in ActionRow
  BY <1>1, BegunType
<1>3. action' \in [Action -> ActionRow]
  BY <1>1, <1>2 DEF BeginAttempt
<1>4. spent' \in [Case -> [CountedClass -> Nat]]
  BY <1>1, SpentType DEF BeginAttempt, Counted
<1>5. caseState' \in [Case -> CaseState] /\ timeline' \in [Case -> Seq(Observer)]
  <2>1. <<>> \in Seq(Observer)
    OBVIOUS
  <2>. QED  BY <1>1, <2>1 DEF BeginAttempt, CaseState
<1>6. worker' \in [Worker -> WorkerState]
  BY <1>1 DEF BeginAttempt, WorkerState
<1>. QED  BY <1>3, <1>4, <1>5, <1>6 DEF BeginAttempt, providerVars

\* The calls a worker is busy with.
LEMMA ReturnsType ==
    ASSUME TypeOK, NEW w \in Worker, worker[w].phase = "calling", NEW result \in Result,
           Returns(w, result)
    PROVE  worker' \in [Worker -> WorkerState] /\ timeline' \in [Case -> Seq(Observer)]
<1>1. worker[w] \in [phase : {"calling"}, action : Action, token : Token]
  BY WorkerCases DEF TypeOK
<1>2. [phase |-> "returned", action |-> worker[w].action, token |-> worker[w].token,
       result |-> result] \in WorkerState
  BY <1>1 DEF WorkerState, Result
<1>3. CaseOf[worker[w].action] \in Case /\ w \in Observer
  BY <1>1, ActionsAssumption DEF Observer
<1>4. Observed(CaseOf[worker[w].action], w)
  BY DEF Returns
<1>. QED  BY <1>2, <1>3, <1>4, ObserveType DEF Returns, TypeOK

\* A provider call keeps the types.
LEMMA ProviderType ==
    ASSUME TypeOK, NEW w \in Worker, ProviderExecute(w)
    PROVE  TypeOK'
<1>. DEFINE a == worker[w].action
<1>1. worker[w].phase = "calling"
  BY DEF ProviderExecute, Busy
<1>2. a \in Action
  BY <1>1, WorkerCases DEF TypeOK
<1>3. PICK result \in Result : Returns(w, result)
  BY DEF ProviderExecute, Result
<1>4. worker' \in [Worker -> WorkerState] /\ timeline' \in [Case -> Seq(Observer)]
  BY <1>1, <1>3, ReturnsType
<1>5. effects' = [effects EXCEPT ![a] = @ + 1] \/ effects' = effects
  BY DEF ProviderExecute
<1>6. effects' \in [Action -> Nat]
  <2>1. effects \in [Action -> Nat]
    BY DEF TypeOK
  <2>2. effects[a] + 1 \in Nat
    BY <1>2, <2>1
  <2>. HIDE DEF a
  <2>. QED  BY <1>5, <2>1, <2>2
<1>7. link' \in [Action -> {"none", "sent", "created", "paid", "cancelled"}]
  <2>1. \/ link' = [link EXCEPT ![a] = "created"]
        \/ link' = [link EXCEPT ![a] = IF @ = "none" THEN "sent" ELSE @]
        \/ link' = link
    BY DEF ProviderExecute
  <2>. QED  BY <1>2, <2>1 DEF TypeOK
<1>. QED  BY <1>4, <1>6, <1>7 DEF ProviderExecute, TypeOK, dbVars

\* record_execution_result keeps the types.
LEMMA ResultType ==
    ASSUME TypeOK, NEW w \in Worker, RecordExecutionResult(w)
    PROVE  TypeOK'
<1>. DEFINE a == worker[w].action
           result == worker[w].result
           path == PathAfterResult(Row(a), result)
<1>1. worker[w] \in [phase : {"returned"}, action : Action, token : Token, result : Result]
  BY WorkerCases DEF RecordExecutionResult, Busy, TypeOK
<1>2. a \in Action /\ CaseOf[a] \in Case /\ result \in Result
  BY <1>1, ActionsAssumption
<1>3. path \in Seq(CaseState)
  <2>1. /\ <<>> \in Seq(CaseState) /\ <<"UNKNOWN">> \in Seq(CaseState)
        /\ <<"VERIFYING">> \in Seq(CaseState)
        /\ <<"VERIFYING", "DECISION_PENDING">> \in Seq(CaseState)
    BY DEF CaseState
  <2>. QED  BY <2>1 DEF PathAfterResult
<1>4. caseState' \in [Case -> CaseState] /\ timeline' \in [Case -> Seq(Observer)]
  BY <1>2, <1>3, MoveType DEF RecordExecutionResult, TypeOK
<1>5. action' \in [Action -> ActionRow]
  <2>1. Finished(action[a], result) \in ActionRow
    BY <1>2, FinishedType DEF TypeOK
  <2>. QED  BY <1>2, <2>1 DEF RecordExecutionResult, TypeOK
<1>6. worker' \in [Worker -> WorkerState]
  BY DEF RecordExecutionResult, TypeOK, WorkerState
<1>7. broker' \subseteq Action \X Token
  BY <1>1 DEF RecordExecutionResult, Held, TypeOK
<1>. QED  BY <1>4, <1>5, <1>6, <1>7 DEF RecordExecutionResult, TypeOK, providerVars

\* A worker that gives up its call, by an exception or by dying, keeps the types.
LEMMA ReleaseType ==
    ASSUME TypeOK, NEW w \in Worker, ResultDiscarded(w) \/ WorkerLost(w)
    PROVE  TypeOK'
<1>1. worker[w].phase \in {"calling", "returned"}
  BY WorkerCases DEF ResultDiscarded, WorkerLost, Busy, TypeOK
<1>2. worker[w].action \in Action /\ worker[w].token \in Token
  BY <1>1, WorkerCases DEF TypeOK
<1>3. CaseOf[worker[w].action] \in Case /\ w \in Observer
  BY <1>2, ActionsAssumption DEF Observer
<1>4. timeline' \in [Case -> Seq(Observer)]
  BY <1>3, ObserveType DEF ResultDiscarded, WorkerLost, TypeOK
<1>5. worker' \in [Worker -> WorkerState]
  BY DEF ResultDiscarded, WorkerLost, TypeOK, WorkerState
<1>6. broker' \subseteq Action \X Token
  BY <1>2 DEF ResultDiscarded, WorkerLost, Held, TypeOK
<1>. QED  BY <1>4, <1>5, <1>6 DEF ResultDiscarded, WorkerLost, TypeOK, dbVars, providerVars

\* mark_stale_calls_unknown keeps the types.
LEMMA StaleType ==
    ASSUME TypeOK, NEW a \in Action, MarkStaleCallUnknown(a)
    PROVE  TypeOK'
<1>. DEFINE c == CaseOf[a]
           row == Settled(action[a], "UNKNOWN")
<1>1. c \in Case /\ action[a] \in ActionRow
  BY ActionsAssumption DEF TypeOK
<1>2. row \in ActionRow
  BY <1>1, SettledType DEF Status
<1>3. [row EXCEPT !.open = NoToken, !.overdue = FALSE] \in ActionRow
  <2>. HIDE DEF row
  <2>. QED  BY <1>2 DEF ActionRow
<1>4. action' = [action EXCEPT ![a] = [row EXCEPT !.open = NoToken, !.overdue = FALSE]]
  BY DEF MarkStaleCallUnknown, TypeOK
<1>5. action' \in [Action -> ActionRow]
  <2>. HIDE DEF row
  <2>. QED  BY <1>3, <1>4 DEF TypeOK
<1>6. caseState' \in [Case -> CaseState] /\ timeline' \in [Case -> Seq(Observer)]
  <2>1. <<"UNKNOWN">> \in Seq(CaseState)
    BY DEF CaseState
  <2>. QED  BY <1>1, <2>1, MoveType DEF MarkStaleCallUnknown, TypeOK
<1>. QED  BY <1>5, <1>6 DEF MarkStaleCallUnknown, TypeOK, providerVars

\* actions_for_reconciliation keeps the types.
LEMMA SelectType ==
    ASSUME TypeOK, NEW r \in Recon, NEW a \in Action, SelectForReconciliation(r, a)
    PROVE  TypeOK'
<1>1. [phase |-> "selected", action |-> a] \in ReconState
  BY DEF ReconState
<1>2. recon' \in [Recon -> ReconState]
  BY <1>1 DEF SelectForReconciliation, TypeOK
<1>. QED  BY <1>2 DEF SelectForReconciliation, TypeOK, dbVars, providerVars

\* What a reconciler holds after it asked, and that it is an observer.
LEMMA LookupProviderType ==
    ASSUME TypeOK, NEW r \in Recon, LookupProvider(r)
    PROVE  TypeOK'
<1>. DEFINE a == recon[r].action
<1>1. a \in Action
  BY ReconCases DEF LookupProvider, TypeOK
<1>2. CaseOf[a] \in Case /\ r \in Observer
  BY <1>1, ActionsAssumption DEF Observer
<1>3. timeline' \in [Case -> Seq(Observer)]
  BY <1>2, ObserveType DEF LookupProvider, TypeOK
<1>4. PICK result \in LookupAnswers(a) :
          recon' = [recon EXCEPT ![r] = [phase |-> "looked", action |-> a,
                                         late |-> Row(a).overdue, result |-> result]]
  BY DEF LookupProvider
<1>5. result \in {"SUCCEEDED", "PENDING", "FAILED", "UNKNOWN"}
  <2>1. CASE Class[a] # "MONEY_INTENT"
    BY <2>1 DEF LookupAnswers
  <2>2. CASE Class[a] = "MONEY_INTENT"
    <3>1. result = "UNKNOWN" \/ result \in (CASE link[a] = "created"   -> {"PENDING"}
                                              [] link[a] = "paid"      -> {"SUCCEEDED"}
                                              [] link[a] = "cancelled" -> {"FAILED"}
                                              [] OTHER                 -> {})
      BY <2>2 DEF LookupAnswers
    <3>. QED  BY <3>1
  <2>. QED  BY <2>1, <2>2
<1>6. Row(a).overdue \in BOOLEAN
  BY <1>1 DEF Row, TypeOK, ActionRow
<1>7. recon' \in [Recon -> ReconState]
  BY <1>1, <1>4, <1>5, <1>6 DEF TypeOK, ReconState
<1>. QED  BY <1>3, <1>7 DEF LookupProvider, TypeOK, dbVars, providerVars

\* A reconciler that has finished is idle.
LEMMA IdleReconType ==
    ASSUME NEW r \in Recon, recon \in [Recon -> ReconState],
           recon' = [recon EXCEPT ![r] = Idle]
    PROVE  recon' \in [Recon -> ReconState]
BY DEF ReconState

\* record_lookup at the deadline keeps the types.
LEMMA ExpireType ==
    ASSUME TypeOK, NEW r \in Recon, ExpireByLookup(r)
    PROVE  TypeOK'
<1>. DEFINE a == recon[r].action
           c == CaseOf[a]
           expired == IF caseState[c] = "VERIFYING" THEN Settled(Row(a), "UNKNOWN") ELSE Row(a)
<1>1. a \in Action /\ c \in Case
  BY ReconCases, ActionsAssumption DEF ExpireByLookup, TypeOK
<1>2. expired \in ActionRow
  BY <1>1, SettledType DEF Row, Status, TypeOK
<1>3. [expired EXCEPT !.dead = TRUE] \in ActionRow
  <2>. HIDE DEF expired
  <2>. QED  BY <1>2 DEF ActionRow
<1>4. action' = [action EXCEPT ![a] = [expired EXCEPT !.dead = TRUE]]
  BY DEF ExpireByLookup
<1>5. action' \in [Action -> ActionRow]
  <2>. HIDE DEF expired, a
  <2>. QED  BY <1>3, <1>4 DEF TypeOK
<1>6. caseState' \in [Case -> CaseState] /\ timeline' \in [Case -> Seq(Observer)]
  <2>1. ExpiryPath(c) \in Seq(CaseState)
    <3>1. <<"UNKNOWN", "ESCALATED">> \in Seq(CaseState) /\ <<"ESCALATED">> \in Seq(CaseState)
      BY DEF CaseState
    <3>. QED  BY <3>1 DEF ExpiryPath
  <2>. QED  BY <1>1, <2>1, MoveType DEF ExpireByLookup, TypeOK
<1>7. recon' \in [Recon -> ReconState]
  BY IdleReconType DEF ExpireByLookup, TypeOK
<1>. QED  BY <1>5, <1>6, <1>7 DEF ExpireByLookup, TypeOK, providerVars

\* The paths of a resolution are paths of case states.
LEMMA ResolutionPathType ==
    ASSUME NEW c, NEW result
    PROVE  ResolutionPath(c, result) \in Seq(CaseState)
<1>. DEFINE head == IF caseState[c] = "UNKNOWN" THEN <<"VERIFYING">> ELSE <<>>
           tail == CASE result = "SUCCEEDED" -> <<"RECOVERED">>
                     [] result = "FAILED"    -> <<"DECISION_PENDING">>
                     [] OTHER                -> <<>>
<1>1. /\ <<>> \in Seq(CaseState) /\ <<"VERIFYING">> \in Seq(CaseState)
      /\ <<"RECOVERED">> \in Seq(CaseState) /\ <<"DECISION_PENDING">> \in Seq(CaseState)
  BY DEF CaseState
<1>2. head \in Seq(CaseState) /\ tail \in Seq(CaseState)
  BY <1>1
<1>3. ResolutionPath(c, result) = head \o tail
  BY DEF ResolutionPath
<1>. HIDE DEF head, tail
<1>. QED  BY <1>2, <1>3, ConcatProperties

\* record_lookup of an answer keeps the types.
LEMMA ResolveType ==
    ASSUME TypeOK, NEW r \in Recon, ResolveByLookup(r)
    PROVE  TypeOK'
<1>. DEFINE a == recon[r].action
           c == CaseOf[a]
           result == recon[r].result
           row == Settled(action[a], IF result = "FAILED" THEN "FAILED" ELSE "SUCCEEDED")
<1>1. a \in Action /\ c \in Case
  BY ReconCases, ActionsAssumption DEF ResolveByLookup, TypeOK
<1>2. [row EXCEPT !.linked = TRUE] \in ActionRow
  <2>1. row \in ActionRow
    BY <1>1, SettledType DEF Status, TypeOK
  <2>. HIDE DEF row
  <2>. QED  BY <2>1 DEF ActionRow
<1>3. action' = [action EXCEPT ![a] = [row EXCEPT !.linked = TRUE]] \/ action' = action
  BY <1>1 DEF ResolveByLookup, TypeOK
<1>4. action' \in [Action -> ActionRow]
  <2>. HIDE DEF row, a
  <2>. QED  BY <1>2, <1>3 DEF TypeOK
<1>5. caseState' \in [Case -> CaseState] /\ timeline' \in [Case -> Seq(Observer)]
  BY <1>1, ResolutionPathType, MoveType DEF ResolveByLookup, TypeOK
<1>6. credited' \subseteq Action
  BY <1>1 DEF ResolveByLookup, TypeOK
<1>7. recon' \in [Recon -> ReconState]
  BY IdleReconType DEF ResolveByLookup, TypeOK
<1>. QED  BY <1>4, <1>5, <1>6, <1>7 DEF ResolveByLookup, TypeOK, providerVars

\* A lookup without effect keeps the types.
LEMMA LookupDiscardedType ==
    ASSUME TypeOK, NEW r \in Recon, LookupDiscarded(r)
    PROVE  TypeOK'
<1>1. CaseOf[recon[r].action] \in Case /\ r \in Observer
  BY ReconCases, ActionsAssumption DEF LookupDiscarded, TypeOK, Observer
<1>2. timeline' \in [Case -> Seq(Observer)]
  BY <1>1, ObserveType DEF LookupDiscarded, TypeOK
<1>3. recon' \in [Recon -> ReconState]
  BY IdleReconType DEF LookupDiscarded, TypeOK
<1>. QED  BY <1>2, <1>3 DEF LookupDiscarded, TypeOK, dbVars, providerVars

\* Storing a signed event keeps the types.
LEMMA ReceiveType ==
    ASSUME TypeOK, NEW e \in Event, NEW a \in Action, NEW viaLink \in BOOLEAN,
           NEW match \in BOOLEAN, ReceiveSigned(e, a, viaLink, match)
    PROVE  TypeOK'
<1>1. [state |-> "queued", about |-> a, viaLink |-> viaLink, match |-> match] \in SignedEvent
  BY DEF SignedEvent
<1>2. event' \in [Event -> {NotReceived, Processed} \cup SignedEvent]
  BY <1>1 DEF ReceiveSigned, TypeOK
<1>3. CaseOf[a] \in Case /\ e \in Observer
  BY ActionsAssumption DEF Observer
<1>4. timeline' \in [Case -> Seq(Observer)]
  BY <1>3, ObserveType DEF ReceiveSigned, TypeOK
<1>5. charged' \subseteq Action
  BY DEF ReceiveSigned, TypeOK
<1>. QED  BY <1>2, <1>4, <1>5 DEF ReceiveSigned, TypeOK, dbVars

\* Evidence moves a case along paths of case states.
LEMMA EvidencePathType ==
    ASSUME NEW c, NEW final \in CaseState
    PROVE  EvidencePath(c, final) \in Seq(CaseState)
<1>1. <<"VERIFYING", final>> \in Seq(CaseState) /\ <<final>> \in Seq(CaseState)
  BY DEF CaseState
<1>. QED  BY <1>1 DEF EvidencePath

\* verify_signed_event keeps the types, whichever way it ends.
LEMMA ConsumeType ==
    ASSUME TypeOK, NEW e \in Event,
           IgnoreSignedEvent(e) \/ StopOnMismatch(e) \/ VerifySignedEvent(e)
    PROVE  TypeOK'
<1>. DEFINE a == event[e].about
           c == CaseOf[a]
<1>1. a \in Action /\ event[e].viaLink \in BOOLEAN
  BY EventCases DEF IgnoreSignedEvent, StopOnMismatch, VerifySignedEvent, TypeOK
<1>2. c \in Case /\ e \in Observer
  BY <1>1, ActionsAssumption DEF Observer
<1>3. event' \in [Event -> {NotReceived, Processed} \cup SignedEvent]
  BY DEF IgnoreSignedEvent, StopOnMismatch, VerifySignedEvent, Consume, TypeOK
<1>4. "STOPPED" \in CaseState /\ "RECOVERED" \in CaseState
  BY DEF CaseState
<1>5. CASE IgnoreSignedEvent(e)
  <2>1. timeline' \in [Case -> Seq(Observer)]
    BY <1>2, <1>5, ObserveType DEF IgnoreSignedEvent, TypeOK
  <2>. QED  BY <1>3, <1>5, <2>1 DEF IgnoreSignedEvent, TypeOK, dbVars, providerVars
<1>6. CASE StopOnMismatch(e)
  <2>1. caseState' \in [Case -> CaseState] /\ timeline' \in [Case -> Seq(Observer)]
    BY <1>2, <1>4, <1>6, EvidencePathType, MoveType DEF StopOnMismatch, TypeOK
  <2>. QED  BY <1>3, <1>6, <2>1 DEF StopOnMismatch, TypeOK, providerVars
<1>7. CASE VerifySignedEvent(e)
  <2>1. caseState' \in [Case -> CaseState] /\ timeline' \in [Case -> Seq(Observer)]
    <3>1. CASE Reconcilable(c)
      BY <1>2, <1>4, <1>7, <3>1, EvidencePathType, MoveType DEF VerifySignedEvent, TypeOK
    <3>2. CASE ~Reconcilable(c)
      BY <1>2, <1>7, <3>2, ObserveType DEF VerifySignedEvent, TypeOK
    <3>. QED  BY <3>1, <3>2
  <2>2. action' \in [Action -> ActionRow]
    BY <1>1, <1>7, PaidType DEF VerifySignedEvent, TypeOK
  <2>3. credited' \subseteq Action
    BY <1>1, <1>7 DEF VerifySignedEvent, TypeOK
  <2>. QED  BY <1>3, <1>7, <2>1, <2>2, <2>3 DEF VerifySignedEvent, TypeOK, providerVars
<1>. QED  BY <1>5, <1>6, <1>7

\* The provider's and the clock's steps keep the types.
LEMMA EnvironmentType ==
    ASSUME TypeOK, NEW a \in Action, Environment(a)
    PROVE  TypeOK'
<1>1. CASE LinkAppears(a) \/ PayLink(a) \/ CloseLink(a)
  BY <1>1 DEF LinkAppears, PayLink, CloseLink, LinkMoves, TypeOK, dbVars
<1>2. CASE LeaseExpires(a) \/ DeadlinePasses(a)
  <2>1. action[a] \in ActionRow
    BY DEF TypeOK
  <2>2. /\ [action[a] EXCEPT !.expired = TRUE] \in ActionRow
        /\ [action[a] EXCEPT !.overdue = TRUE] \in ActionRow
    BY <2>1 DEF ActionRow
  <2>3. action' \in [Action -> ActionRow]
    BY <1>2, <2>2 DEF LeaseExpires, DeadlinePasses, TypeOK
  <2>. QED  BY <1>2, <2>3 DEF LeaseExpires, DeadlinePasses, TypeOK, providerVars
<1>. QED  BY <1>1, <1>2 DEF Environment

\* Type correctness is inductive: every handler, loss and clock step keeps it.
LEMMA TypeStep == TypeOK /\ [Next]_vars => TypeOK'
<1>. SUFFICES ASSUME TypeOK, [Next]_vars PROVE TypeOK'
  OBVIOUS
<1>1. ASSUME NEW c \in Case, Decide(c) PROVE TypeOK'
  BY <1>1, DecideType
<1>2. ASSUME NEW a \in Action, ClaimDueAction(a) \/ MarkStaleCallUnknown(a) \/ Environment(a)
      PROVE  TypeOK'
  BY <1>2, ClaimType, StaleType, EnvironmentType
<1>3. ASSUME NEW w \in Worker, Execute(w) PROVE TypeOK'
  <2>1. ASSUME NEW m \in broker, PrepareRejected(w, m) PROVE TypeOK'
    BY <2>1 DEF PrepareRejected, TypeOK, dbVars, providerVars
  <2>2. ASSUME NEW m \in broker, NEW v \in Verdict, CancelBeforeExecution(w, m, v)
        PROVE  TypeOK'
    BY <2>2, CancelType
  <2>3. ASSUME NEW m \in broker, BeginAttempt(w, m) PROVE TypeOK'
    BY <2>3, BeginType
  <2>. QED  BY <1>3, <2>1, <2>2, <2>3, ProviderType, ResultType, ReleaseType DEF Execute
<1>4. ASSUME NEW r \in Recon, Reconcile(r) PROVE TypeOK'
  BY <1>4, SelectType, LookupProviderType, ExpireType, ResolveType, LookupDiscardedType
     DEF Reconcile, RecordLookup
<1>5. ASSUME NEW e \in Event, HandleEvent(e) PROVE TypeOK'
  BY <1>5, ReceiveType, ConsumeType DEF HandleEvent
<1>6. CASE UNCHANGED vars
  BY <1>6 DEF vars, TypeOK, dbVars, providerVars
<1>. QED  BY <1>1, <1>2, <1>3, <1>4, <1>5, <1>6 DEF Next

\* Every reachable state has the declared types, whatever the instance.
THEOREM TypeCorrect == Spec => []TypeOK
<1>. QED  BY InitType, TypeStep, PTL DEF Spec

-----------------------------------------------------------------------------
(* What the provider sees: the inductive invariant.                        *)

Unsettled == {"NONE", "PENDING"}

\* A row and its lease agree, and a lease that is not used yet was given for an
\* attempt that is left.
Fit(row) ==
    /\ row.status = "PENDING" /\ row.open # NoToken => row.lease = row.open
    /\ row.status # "PENDING" => row.lease = NoToken
    /\ row.status = "NONE" => row.open = NoToken
    /\ row.attempts <= MaxAttempts
    /\ row.lease # NoToken /\ row.open = NoToken => row.attempts < MaxAttempts

\* Every active worker holds a call of its own; while the row is PENDING its
\* open attempt is that call, and a call that has not been accepted has had no
\* effect.
CallsSafe ==
    \A w \in Worker : Active(w) =>
        LET a == worker[w].action
        IN  /\ Row(a).status # "NONE"
            /\ Row(a).status = "PENDING" => Row(a).open = worker[w].token
            /\ worker[w].phase = "calling" => effects[a] = 0
            /\ worker[w].phase = "returned" /\ worker[w].result \in {"FAILED", "RATE_LIMITED"}
                 => effects[a] = 0

\* An attempt can begin only on a row whose action has had no effect.
EffectsSafe ==
    \A a \in Action :
        /\ effects[a] \in {0, 1}
        /\ Row(a).status \in Unsettled /\ Row(a).open = NoToken => effects[a] = 0

Safe ==
    /\ \A a \in Action : Fit(Row(a))
    /\ OneCallerPerAction
    /\ CallsSafe
    /\ EffectsSafe

-----------------------------------------------------------------------------
(* What the transactions do to a row.                                      *)

\* The change of a row by a step that neither begins nor ends a call.
Kept(old, new) ==
    /\ new.status \in Unsettled => /\ old.status \in {"NONE", new.status}
                                   /\ new.open = old.open
    /\ old.status \notin Unsettled => new.attempts = old.attempts
    /\ Fit(old) => Fit(new)

\* A row that does not change, or that a decision stores, is kept.
LEMMA StoredKept ==
    ASSUME NEW row \in ActionRow
    PROVE  /\ Kept(row, row)
           /\ row.status = "NONE" => Kept(row, [row EXCEPT !.status = "PENDING"])
BY DEF Kept, Fit, Unsettled, ActionRow

\* A row that takes a final or an unknown status gives up its lease and is kept.
LEMMA SettledKept ==
    ASSUME NEW row \in ActionRow, NEW status \in {"SUCCEEDED", "FAILED", "UNKNOWN"}
    PROVE  /\ Kept(row, Settled(row, status))
           /\ Kept(row, [Settled(row, status) EXCEPT !.linked = TRUE])
           /\ Kept(row, [Settled(row, status) EXCEPT !.dead = TRUE])
           /\ Kept(row, [Settled(row, status) EXCEPT !.open = NoToken, !.overdue = FALSE])
BY DEF Kept, Fit, Unsettled, ActionRow, Settled, Released

\* Flags of a row, and a lease on a row without an open attempt, keep it.
LEMMA MarkedKept ==
    ASSUME NEW row \in ActionRow
    PROVE  /\ Kept(row, [row EXCEPT !.expired = TRUE])
           /\ Kept(row, [row EXCEPT !.overdue = TRUE])
           /\ Kept(row, [row EXCEPT !.dead = TRUE])
           /\ \A token \in Token :
                row.status = "PENDING" /\ row.open = NoToken /\ row.attempts < MaxAttempts =>
                    Kept(row, [row EXCEPT !.claims = token, !.lease = token, !.expired = FALSE])
BY DEF Kept, Fit, Unsettled, ActionRow

\* When the row of one action is kept and the others do not change, all are kept.
LEMMA OneRowKept ==
    ASSUME TypeOK, NEW a \in Action, NEW row, action' = [action EXCEPT ![a] = row],
           Kept(action[a], row)
    PROVE  \A b \in Action : Kept(action[b], action'[b])
<1>. SUFFICES ASSUME NEW b \in Action PROVE Kept(action[b], action'[b])
  OBVIOUS
<1>1. action \in [Action -> ActionRow]
  BY DEF TypeOK
<1>2. CASE b = a
  BY <1>1, <1>2
<1>3. CASE b # a
  BY <1>1, <1>3, StoredKept
<1>. QED  BY <1>2, <1>3

\* When no row changes, all are kept.
LEMMA NoRowChanged ==
    ASSUME TypeOK, action' = action
    PROVE  \A b \in Action : Kept(action[b], action'[b])
BY StoredKept DEF TypeOK

-----------------------------------------------------------------------------
(* Steps that neither begin nor end a call.                                *)

\* What such a step does: rows are kept, no effect happens, and a worker goes
\* on with its call or gives it up.
Quiet ==
    /\ \A a \in Action : Kept(action[a], action'[a])
    /\ effects' = effects
    /\ \A w \in Worker : worker'[w] \in {worker[w], Idle}

\* A quiet step keeps the invariant.
LEMMA QuietSafe ==
    ASSUME TypeOK, Safe, Quiet
    PROVE  Safe'
<1>. USE DEF Row, Active
<1>1. \A a \in Action : Fit(action'[a])
  BY DEF Safe, Quiet, Kept
<1>2. \A w \in Worker : worker'[w] # Idle => worker'[w] = worker[w] /\ worker[w] # Idle
  BY DEF Quiet
<1>3. \A w \in Worker : worker[w] # Idle => worker[w].action \in Action
  BY WorkerCases DEF TypeOK
<1>4. OneCallerPerAction'
  BY <1>2 DEF Safe, OneCallerPerAction
<1>5. CallsSafe'
  <2>. SUFFICES ASSUME NEW w \in Worker, worker'[w] # Idle
                PROVE  /\ action'[worker'[w].action].status # "NONE"
                       /\ action'[worker'[w].action].status = "PENDING"
                            => action'[worker'[w].action].open = worker'[w].token
                       /\ worker'[w].phase = "calling" => effects'[worker'[w].action] = 0
                       /\ worker'[w].phase = "returned"
                            /\ worker'[w].result \in {"FAILED", "RATE_LIMITED"}
                            => effects'[worker'[w].action] = 0
    BY DEF CallsSafe
  <2>1. worker'[w] = worker[w] /\ worker[w] # Idle /\ worker[w].action \in Action
    BY <1>2, <1>3
  <2>2. Kept(action[worker[w].action], action'[worker[w].action])
    BY <2>1 DEF Quiet
  <2>. QED  BY <2>1, <2>2 DEF Safe, CallsSafe, Quiet, Kept, Unsettled
<1>6. EffectsSafe'
  BY DEF Safe, EffectsSafe, Quiet, Kept, Unsettled
<1>. QED  BY <1>1, <1>4, <1>5, <1>6 DEF Safe

\* process_event, reevaluate_deferred and decide_review are quiet.
LEMMA DecideQuiet ==
    ASSUME TypeOK, NEW c \in Case, Decide(c)
    PROVE  Quiet
<1>1. ASSUME NEW entry, Evaluate(c, entry)
      PROVE  Quiet
  <2>1. PICK v \in Verdict : EvaluateTo(c, entry, v)
    BY <1>1 DEF Evaluate
  <2>2. ASSUME NEW a \in Action, StoreAction(a)
        PROVE  \A b \in Action : Kept(action[b], action'[b])
    <3>1. action[a] \in ActionRow
      BY DEF TypeOK
    <3>2. CASE action[a].status = "NONE"
      <4>1. action' = [action EXCEPT ![a] = [action[a] EXCEPT !.status = "PENDING"]]
        BY <2>2, <3>2 DEF StoreAction
      <4>. QED  BY <3>1, <3>2, <4>1, StoredKept, OneRowKept
    <3>3. CASE action[a].status # "NONE"
      <4>1. action' = [action EXCEPT ![a] = action[a]]
        BY <2>2, <3>3 DEF StoreAction
      <4>. QED  BY <3>1, <4>1, StoredKept, OneRowKept
    <3>. QED  BY <3>2, <3>3
  <2>3. \A b \in Action : Kept(action[b], action'[b])
    BY <2>1, <2>2, NoRowChanged DEF EvaluateTo
  <2>. QED  BY <2>1, <2>3 DEF EvaluateTo, Quiet, providerVars
<1>2. CASE CloseReview(c)
  BY <1>2, NoRowChanged DEF CloseReview, Quiet, providerVars
<1>. QED
  BY <1>1, <1>2 DEF Decide, ProcessRiskEvent, ReevaluateDeferred, ApproveReview

\* claim_due_actions, mark_stale_calls_unknown, the provider's own steps and the
\* clocks are quiet.
LEMMA RowStepQuiet ==
    ASSUME TypeOK, NEW a \in Action,
           ClaimDueAction(a) \/ MarkStaleCallUnknown(a) \/ Environment(a)
    PROVE  Quiet
<1>1. action[a] \in ActionRow
  BY DEF TypeOK
<1>2. CASE ClaimDueAction(a)
  <2>. DEFINE token == Row(a).claims + 1
  <2>1. token \in Token
    BY <1>1, <1>2, BoundsAssumption DEF ClaimDueAction, Row, ActionRow, Token
  <2>2. action' = [action EXCEPT ![a] = [action[a] EXCEPT !.claims = token, !.lease = token,
                                                          !.expired = FALSE]]
    BY <1>2 DEF ClaimDueAction, Row, TypeOK
  <2>3. /\ action[a].status = "PENDING" /\ action[a].open = NoToken
        /\ action[a].attempts < MaxAttempts
    BY <1>2 DEF ClaimDueAction, Row
  <2>. HIDE DEF token
  <2>4. \A b \in Action : Kept(action[b], action'[b])
    BY <1>1, <2>1, <2>2, <2>3, MarkedKept, OneRowKept
  <2>. QED  BY <1>2, <2>4 DEF ClaimDueAction, Quiet, providerVars
<1>3. CASE MarkStaleCallUnknown(a)
  <2>1. \A b \in Action : Kept(action[b], action'[b])
    BY <1>1, <1>3, SettledKept, OneRowKept DEF MarkStaleCallUnknown
  <2>. QED  BY <1>3, <2>1 DEF MarkStaleCallUnknown, Quiet, providerVars
<1>4. CASE LinkAppears(a) \/ PayLink(a) \/ CloseLink(a)
  BY <1>4, NoRowChanged DEF LinkAppears, PayLink, CloseLink, LinkMoves, Quiet, dbVars
<1>5. CASE LeaseExpires(a)
  <2>1. action' = [action EXCEPT ![a] = [action[a] EXCEPT !.expired = TRUE]]
    BY <1>5 DEF LeaseExpires, TypeOK
  <2>. QED  BY <1>1, <1>5, <2>1, MarkedKept, OneRowKept DEF LeaseExpires, Quiet, providerVars
<1>6. CASE DeadlinePasses(a)
  <2>1. action' = [action EXCEPT ![a] = [action[a] EXCEPT !.overdue = TRUE]]
    BY <1>6 DEF DeadlinePasses, TypeOK
  <2>. QED  BY <1>1, <1>6, <2>1, MarkedKept, OneRowKept DEF DeadlinePasses, Quiet, providerVars
<1>. QED  BY <1>2, <1>3, <1>4, <1>5, <1>6 DEF Environment

\* A message whose action may not be attempted, and a call that is given up,
\* are quiet.
LEMMA RefusalQuiet ==
    ASSUME TypeOK, NEW w \in Worker,
           \/ \E m \in broker : PrepareRejected(w, m)
           \/ \E m \in broker : \E v \in Verdict : CancelBeforeExecution(w, m, v)
           \/ ResultDiscarded(w)
           \/ WorkerLost(w)
    PROVE  Quiet
<1>1. CASE \E m \in broker : PrepareRejected(w, m)
  BY <1>1, NoRowChanged DEF PrepareRejected, Quiet, dbVars, providerVars
<1>2. ASSUME NEW m \in broker, NEW v \in Verdict, CancelBeforeExecution(w, m, v)
      PROVE  Quiet
  <2>1. m[1] \in Action /\ action[m[1]] \in ActionRow
    BY DEF TypeOK
  <2>2. action' = [action EXCEPT ![m[1]] = Settled(action[m[1]], "FAILED")]
    BY <1>2 DEF CancelBeforeExecution
  <2>3. \A b \in Action : Kept(action[b], action'[b])
    BY <2>1, <2>2, SettledKept, OneRowKept
  <2>. QED  BY <1>2, <2>3 DEF CancelBeforeExecution, Quiet, providerVars
<1>3. CASE ResultDiscarded(w)
  BY <1>3, NoRowChanged DEF ResultDiscarded, Quiet, dbVars, providerVars, TypeOK
<1>4. CASE WorkerLost(w)
  BY <1>4, NoRowChanged DEF WorkerLost, Quiet, dbVars, providerVars, TypeOK
<1>. QED  BY <1>1, <1>2, <1>3, <1>4

\* Reconciliation is quiet: a lookup never makes a row runnable again.
LEMMA ReconcileQuiet ==
    ASSUME TypeOK, NEW r \in Recon, Reconcile(r)
    PROVE  Quiet
<1>1. CASE \E a \in Action : SelectForReconciliation(r, a)
  BY <1>1, NoRowChanged DEF SelectForReconciliation, Quiet, dbVars, providerVars
<1>2. CASE LookupProvider(r)
  BY <1>2, NoRowChanged DEF LookupProvider, Quiet, dbVars, providerVars
<1>3. CASE LookupDiscarded(r)
  BY <1>3, NoRowChanged DEF LookupDiscarded, Quiet, dbVars, providerVars
<1>4. ASSUME recon[r].phase = "looked"
      PROVE  recon[r].action \in Action /\ action[recon[r].action] \in ActionRow
  BY <1>4, ReconCases DEF TypeOK
<1>5. CASE ExpireByLookup(r)
  <2>. DEFINE a == recon[r].action
  <2>1. a \in Action /\ action[a] \in ActionRow
    BY <1>4, <1>5 DEF ExpireByLookup
  <2>2. \/ action' = [action EXCEPT ![a] = [Settled(action[a], "UNKNOWN") EXCEPT !.dead = TRUE]]
        \/ action' = [action EXCEPT ![a] = [action[a] EXCEPT !.dead = TRUE]]
    BY <1>5 DEF ExpireByLookup, Row
  <2>. HIDE DEF a
  <2>3. \A b \in Action : Kept(action[b], action'[b])
    BY <2>1, <2>2, SettledKept, MarkedKept, OneRowKept
  <2>. QED  BY <1>5, <2>3 DEF ExpireByLookup, Quiet, providerVars
<1>6. CASE ResolveByLookup(r)
  <2>. DEFINE a == recon[r].action
              status == IF recon[r].result = "FAILED" THEN "FAILED" ELSE "SUCCEEDED"
  <2>1. a \in Action /\ action[a] \in ActionRow
    BY <1>4, <1>6 DEF ResolveByLookup
  <2>2. \/ action' = [action EXCEPT ![a] = [Settled(action[a], status) EXCEPT !.linked = TRUE]]
        \/ action' = action
    BY <1>6 DEF ResolveByLookup
  <2>3. status \in {"SUCCEEDED", "FAILED", "UNKNOWN"}
    OBVIOUS
  <2>. HIDE DEF a, status
  <2>4. \A b \in Action : Kept(action[b], action'[b])
    BY <2>1, <2>2, <2>3, SettledKept, OneRowKept, NoRowChanged
  <2>. QED  BY <1>6, <2>4 DEF ResolveByLookup, Quiet, providerVars
<1>. QED  BY <1>1, <1>2, <1>3, <1>5, <1>6 DEF Reconcile, RecordLookup

\* Signed events are quiet: evidence settles a row, whatever its status was.
LEMMA HandleEventQuiet ==
    ASSUME TypeOK, NEW e \in Event, HandleEvent(e)
    PROVE  Quiet
<1>1. CASE \E a \in Action, viaLink, match \in BOOLEAN : ReceiveSigned(e, a, viaLink, match)
  BY <1>1, NoRowChanged DEF ReceiveSigned, Quiet, dbVars, providerVars
<1>2. CASE IgnoreSignedEvent(e) \/ StopOnMismatch(e)
  BY <1>2, NoRowChanged DEF IgnoreSignedEvent, StopOnMismatch, Quiet, dbVars, providerVars
<1>3. CASE VerifySignedEvent(e)
  <2>. DEFINE a == event[e].about
  <2>1. a \in Action /\ action[a] \in ActionRow
    BY <1>3, EventCases DEF VerifySignedEvent, TypeOK
  <2>2. \/ action' = [action EXCEPT ![a] = [Settled(action[a], "SUCCEEDED") EXCEPT !.linked = TRUE]]
        \/ action' = [action EXCEPT ![a] = Settled(action[a], "SUCCEEDED")]
    BY <1>3 DEF VerifySignedEvent, Paid
  <2>. HIDE DEF a
  <2>3. \A b \in Action : Kept(action[b], action'[b])
    BY <2>1, <2>2, SettledKept, OneRowKept
  <2>. QED  BY <1>3, <2>3 DEF VerifySignedEvent, Quiet, providerVars
<1>. QED  BY <1>1, <1>2, <1>3 DEF HandleEvent

-----------------------------------------------------------------------------
(* The steps of a call.                                                    *)

\* The token of a call is a lease token, and its action is an action.
LEMMA CallType ==
    ASSUME TypeOK, NEW w \in Worker, Active(w)
    PROVE  /\ worker[w].action \in Action /\ worker[w].token \in Token
           /\ worker[w].token # NoToken
<1>1. worker[w].phase \in {"calling", "returned"}
  BY WorkerCases DEF TypeOK, Active
<1>2. worker[w].action \in Action /\ worker[w].token \in Token
  BY <1>1, WorkerCases DEF TypeOK
<1>. QED  BY <1>2 DEF Token, NoToken

\* While a PENDING row has no open attempt nobody holds a call of its action.
LEMMA NobodyCalls ==
    ASSUME TypeOK, Safe, NEW a \in Action, Row(a).status = "PENDING", Row(a).open = NoToken,
           NEW w \in Worker, Active(w)
    PROVE  worker[w].action # a
BY CallType DEF Safe, CallsSafe

\* begin_attempt: the attempt is the only one, and its action has had no effect.
LEMMA BeginSafe ==
    ASSUME TypeOK, Safe, NEW w \in Worker, NEW m \in broker, BeginAttempt(w, m)
    PROVE  Safe'
<1>. DEFINE a == m[1]
           call == [phase |-> "calling", action |-> a, token |-> m[2]]
           row == [action[a] EXCEPT !.attempts = @ + 1, !.open = m[2]]
<1>1. /\ a \in Action /\ m[2] \in Token /\ m[2] # NoToken /\ action[a] \in ActionRow
      /\ action \in [Action -> ActionRow] /\ worker \in [Worker -> WorkerState]
  BY DEF TypeOK, Token, NoToken
<1>2. action[a].status = "PENDING" /\ action[a].open = NoToken /\ action[a].lease = m[2]
  BY DEF BeginAttempt, CanBegin, Row
<1>3. /\ action' = [action EXCEPT ![a] = row] /\ worker' = [worker EXCEPT ![w] = call]
      /\ effects' = effects
  BY <1>1 DEF BeginAttempt, providerVars
<1>4. /\ row.status = "PENDING" /\ row.open = m[2] /\ row.lease = m[2]
      /\ row.attempts <= MaxAttempts
  <2>1. action[a].attempts < MaxAttempts
    BY <1>1, <1>2 DEF Safe, Fit, Row
  <2>2. action[a].attempts \in Nat /\ row.attempts = action[a].attempts + 1
    BY <1>1 DEF ActionRow
  <2>. QED  BY <1>1, <1>2, <2>1, <2>2, BoundsAssumption DEF ActionRow
<1>5. call # Idle /\ call.phase = "calling" /\ call.action = a /\ call.token = m[2]
  BY DEF Idle
<1>6. effects[a] = 0
  BY <1>1, <1>2 DEF Safe, EffectsSafe, Row, Unsettled
<1>7. \A v \in Worker : worker[v] # Idle => worker[v].action # a
  BY <1>1, <1>2, NobodyCalls DEF Active, Row
<1>. HIDE DEF a, call, row
<1>8. /\ action'[a] = row /\ \A b \in Action : b # a => action'[b] = action[b]
      /\ worker'[w] = call /\ \A v \in Worker : v # w => worker'[v] = worker[v]
  BY <1>1, <1>3
<1>9. \A b \in Action : Fit(action'[b])
  BY <1>1, <1>4, <1>8 DEF Safe, Fit, Row
<1>10. OneCallerPerAction'
  BY <1>5, <1>7, <1>8 DEF Safe, OneCallerPerAction, Active
<1>11. CallsSafe'
  <2>. SUFFICES ASSUME NEW v \in Worker, Active(v)'
                PROVE  (LET b == worker[v].action
                        IN  /\ Row(b).status # "NONE"
                            /\ Row(b).status = "PENDING" => Row(b).open = worker[v].token
                            /\ worker[v].phase = "calling" => effects[b] = 0
                            /\ worker[v].phase = "returned"
                                 /\ worker[v].result \in {"FAILED", "RATE_LIMITED"}
                                 => effects[b] = 0)'
    BY DEF CallsSafe
  <2>1. CASE v = w
    BY <1>3, <1>4, <1>5, <1>6, <1>8, <2>1 DEF Row
  <2>2. CASE v # w
    <3>1. worker'[v] = worker[v] /\ Active(v)
      BY <1>8, <2>2 DEF Active
    <3>2. worker[v].action \in Action /\ worker[v].action # a
      BY <1>7, <3>1, CallType DEF Active
    <3>. QED  BY <1>3, <1>8, <3>1, <3>2 DEF Safe, CallsSafe, Row
  <2>. QED  BY <2>1, <2>2
<1>12. EffectsSafe'
  BY <1>1, <1>3, <1>4, <1>8 DEF Safe, EffectsSafe, Row
<1>. QED  BY <1>9, <1>10, <1>11, <1>12 DEF Safe, Row

\* execute: the one call of the action has its one effect, or none.
LEMMA ProviderSafe ==
    ASSUME TypeOK, Safe, NEW w \in Worker, ProviderExecute(w)
    PROVE  Safe'
<1>. DEFINE a == worker[w].action
<1>1. worker[w].phase = "calling" /\ Active(w)
  BY DEF ProviderExecute, Busy, Active, Idle
<1>2. a \in Action /\ effects[a] = 0 /\ action' = action
  BY <1>1, CallType DEF Safe, CallsSafe, ProviderExecute, dbVars
<1>3. PICK result \in {"SUCCEEDED", "UNKNOWN", "FAILED", "RATE_LIMITED"} :
        /\ worker' = [worker EXCEPT ![w] = [phase |-> "returned", action |-> a,
                                            token |-> worker[w].token, result |-> result]]
        /\ \/ effects' = [effects EXCEPT ![a] = @ + 1] /\ result \in {"SUCCEEDED", "UNKNOWN"}
           \/ effects' = effects
  BY DEF ProviderExecute, Returns
<1>. DEFINE done == [phase |-> "returned", action |-> a, token |-> worker[w].token,
                     result |-> result]
<1>4. /\ done # Idle /\ done.phase = "returned" /\ done.action = a
      /\ done.token = worker[w].token /\ done.result = result
  BY DEF Idle
<1>5. /\ worker'[w] = done /\ \A v \in Worker : v # w => worker'[v] = worker[v]
      /\ \A b \in Action : b # a => effects'[b] = effects[b]
      /\ effects'[a] \in {0, 1}
      /\ result \in {"FAILED", "RATE_LIMITED"} => effects'[a] = 0
  BY <1>2, <1>3 DEF TypeOK
<1>6. \A v \in Worker : v # w /\ worker[v] # Idle => worker[v].action # a
  BY <1>1 DEF Safe, OneCallerPerAction, Active
<1>7. Row(a).status # "NONE" /\ (Row(a).status = "PENDING" => Row(a).open = worker[w].token)
  BY <1>1 DEF Safe, CallsSafe
<1>8. worker[w].token # NoToken
  BY <1>1, CallType
<1>. HIDE DEF a, done
<1>9. OneCallerPerAction'
  BY <1>1, <1>4, <1>5, <1>6 DEF Safe, OneCallerPerAction, Active
<1>10. CallsSafe'
  <2>. SUFFICES ASSUME NEW v \in Worker, Active(v)'
                PROVE  (LET b == worker[v].action
                        IN  /\ Row(b).status # "NONE"
                            /\ Row(b).status = "PENDING" => Row(b).open = worker[v].token
                            /\ worker[v].phase = "calling" => effects[b] = 0
                            /\ worker[v].phase = "returned"
                                 /\ worker[v].result \in {"FAILED", "RATE_LIMITED"}
                                 => effects[b] = 0)'
    BY DEF CallsSafe
  <2>1. CASE v = w
    BY <1>2, <1>4, <1>5, <1>7, <2>1 DEF Row
  <2>2. CASE v # w
    <3>1. worker'[v] = worker[v] /\ Active(v)
      BY <1>5, <2>2 DEF Active
    <3>2. worker[v].action \in Action /\ worker[v].action # a
      BY <1>6, <2>2, <3>1, CallType DEF Active
    <3>. QED  BY <1>2, <1>5, <3>1, <3>2 DEF Safe, CallsSafe, Row
  <2>. QED  BY <2>1, <2>2
<1>11. EffectsSafe'
  <2>. SUFFICES ASSUME NEW b \in Action
                PROVE  /\ effects'[b] \in {0, 1}
                       /\ action[b].status \in Unsettled /\ action[b].open = NoToken
                            => effects'[b] = 0
    BY <1>2 DEF EffectsSafe, Row
  <2>1. CASE b = a
    BY <1>5, <1>7, <1>8, <2>1 DEF Row, Unsettled
  <2>2. CASE b # a
    BY <1>5, <2>2 DEF Safe, EffectsSafe, Row
  <2>. QED  BY <2>1, <2>2
<1>. QED  BY <1>2, <1>9, <1>10, <1>11 DEF Safe, Row

\* What finish_attempt leaves of a row: only a retried row stays PENDING, and
\* then without an open attempt.
LEMMA FinishedRow ==
    ASSUME NEW row \in ActionRow, Fit(row), row.status # "NONE",
           NEW result \in {"SUCCEEDED", "UNKNOWN", "FAILED", "RATE_LIMITED"}
    PROVE  /\ Fit(Finished(row, result))
           /\ Finished(row, result).status # "NONE"
           /\ Finished(row, result).attempts = row.attempts
           /\ row.status \notin Unsettled => Finished(row, result).status \notin Unsettled
           /\ Finished(row, result).status \in Unsettled => result = "RATE_LIMITED"
                                                            \/ row.status \notin Unsettled
<1>. USE DEF Fit, Unsettled, ActionRow, Settled, Released
<1>1. CASE Retried(row, result)
  BY <1>1 DEF Finished, Retried
<1>2. CASE ~Retried(row, result) /\ result = "UNKNOWN"
  BY <1>2 DEF Finished
<1>3. CASE ~Retried(row, result) /\ result = "SUCCEEDED"
  BY <1>3 DEF Finished
<1>4. CASE ~Retried(row, result) /\ result \notin {"UNKNOWN", "SUCCEEDED"}
  BY <1>4 DEF Finished
<1>. QED  BY <1>1, <1>2, <1>3, <1>4

\* record_execution_result closes the only call of the action; if the row may
\* be attempted again the call had no effect.
LEMMA RecordSafe ==
    ASSUME TypeOK, Safe, NEW w \in Worker, RecordExecutionResult(w)
    PROVE  Safe'
<1>. DEFINE a == worker[w].action
           result == worker[w].result
           row == Finished(action[a], result)
<1>1. worker[w].phase = "returned" /\ Active(w)
  BY DEF RecordExecutionResult, Busy, Active, Idle
<1>2. /\ a \in Action /\ action[a] \in ActionRow
      /\ result \in {"SUCCEEDED", "UNKNOWN", "FAILED", "RATE_LIMITED"}
  BY <1>1, WorkerCases DEF TypeOK, Result
<1>3. /\ action' = [action EXCEPT ![a] = row] /\ worker' = [worker EXCEPT ![w] = Idle]
      /\ effects' = effects
  BY DEF RecordExecutionResult, providerVars
<1>4. /\ action'[a] = row /\ \A b \in Action : b # a => action'[b] = action[b]
      /\ worker'[w] = Idle /\ \A v \in Worker : v # w => worker'[v] = worker[v]
  BY <1>2, <1>3 DEF TypeOK
<1>5. action[a].status # "NONE" /\ Fit(action[a])
  BY <1>1, <1>2 DEF Safe, CallsSafe, Row
<1>6. /\ Fit(row) /\ row.status # "NONE"
      /\ action[a].status \notin Unsettled => row.status \notin Unsettled
      /\ row.status \in Unsettled => result = "RATE_LIMITED" \/ action[a].status \notin Unsettled
  BY <1>2, <1>5, FinishedRow
<1>7. result = "RATE_LIMITED" => effects[a] = 0
  BY <1>1 DEF Safe, CallsSafe
<1>8. \A v \in Worker : v # w /\ worker[v] # Idle => worker[v].action # a
  BY <1>1 DEF Safe, OneCallerPerAction, Active
<1>. HIDE DEF a, row, result
<1>9. \A b \in Action : Fit(action'[b])
  BY <1>4, <1>6 DEF Safe, Row
<1>10. OneCallerPerAction'
  BY <1>4 DEF Safe, OneCallerPerAction, Active
<1>11. CallsSafe'
  <2>. SUFFICES ASSUME NEW v \in Worker, Active(v)'
                PROVE  (LET b == worker[v].action
                        IN  /\ Row(b).status # "NONE"
                            /\ Row(b).status = "PENDING" => Row(b).open = worker[v].token
                            /\ worker[v].phase = "calling" => effects[b] = 0
                            /\ worker[v].phase = "returned"
                                 /\ worker[v].result \in {"FAILED", "RATE_LIMITED"}
                                 => effects[b] = 0)'
    BY DEF CallsSafe
  <2>1. v # w /\ worker'[v] = worker[v] /\ Active(v)
    BY <1>4 DEF Active
  <2>2. worker[v].action \in Action /\ worker[v].action # a
    BY <1>8, <2>1, CallType DEF Active
  <2>. QED  BY <1>3, <1>4, <2>1, <2>2 DEF Safe, CallsSafe, Row
<1>12. EffectsSafe'
  <2>. SUFFICES ASSUME NEW b \in Action
                PROVE  /\ effects[b] \in {0, 1}
                       /\ action'[b].status \in Unsettled /\ action'[b].open = NoToken
                            => effects[b] = 0
    BY <1>3 DEF EffectsSafe, Row
  <2>1. CASE b = a
    BY <1>2, <1>4, <1>6, <1>7, <2>1 DEF Safe, EffectsSafe
  <2>2. CASE b # a
    BY <1>4, <2>2 DEF Safe, EffectsSafe, Row
  <2>. QED  BY <2>1, <2>2
<1>. QED  BY <1>9, <1>10, <1>11, <1>12 DEF Safe, Row

-----------------------------------------------------------------------------
(* The theorems.                                                           *)

\* Every step is quiet or a step of a call.
LEMMA QuietOrCall ==
    ASSUME TypeOK, [Next]_vars
    PROVE  \/ Quiet
           \/ \E w \in Worker : \/ \E m \in broker : BeginAttempt(w, m)
                                \/ ProviderExecute(w)
                                \/ RecordExecutionResult(w)
<1>1. CASE UNCHANGED vars
  BY <1>1, NoRowChanged DEF vars, dbVars, providerVars, Quiet
<1>2. CASE \E c \in Case : Decide(c)
  BY <1>2, DecideQuiet
<1>3. CASE \E a \in Action : ClaimDueAction(a) \/ MarkStaleCallUnknown(a) \/ Environment(a)
  BY <1>3, RowStepQuiet
<1>4. CASE \E w \in Worker : Execute(w)
  BY <1>4, RefusalQuiet DEF Execute
<1>5. CASE \E r \in Recon : Reconcile(r)
  BY <1>5, ReconcileQuiet
<1>6. CASE \E e \in Event : HandleEvent(e)
  BY <1>6, HandleEventQuiet
<1>. QED  BY <1>1, <1>2, <1>3, <1>4, <1>5, <1>6 DEF Next

\* The empty database is safe.
LEMMA InitSafe == Init => Safe
BY BoundsAssumption DEF Init, Safe, Fit, NoAction, NoToken, Row, OneCallerPerAction, Active, CallsSafe,
       EffectsSafe, Unsettled

\* Every step of the system keeps the invariant.
LEMMA SafeStep == TypeOK /\ Safe /\ [Next]_vars => Safe'
BY QuietOrCall, QuietSafe, BeginSafe, ProviderSafe, RecordSafe

\* The invariant holds in every reachable state.
LEMMA SafeHolds == Spec => []Safe
BY InitSafe, SafeStep, TypeCorrect, PTL DEF Spec

\* No two workers hold a call of the same action, whatever is redelivered,
\* leased again or given up (begin_attempt).
THEOREM OneCaller == Spec => []OneCallerPerAction
<1>1. Safe => OneCallerPerAction
  BY DEF Safe
<1>. QED  BY <1>1, SafeHolds, PTL

\* The provider executes the request of an action at most once, whatever is
\* lost, retried or reconciled (prepare, execute and record_execution_result).
THEOREM OneEffect == Spec => []AtMostOneEffect
<1>1. Safe => AtMostOneEffect
  BY DEF Safe, EffectsSafe, AtMostOneEffect
<1>. QED  BY <1>1, SafeHolds, PTL

\* A runnable row with an open attempt holds the lease of that attempt and a
\* row that is not runnable holds none (claim, begin and finish of an attempt).
THEOREM LeasesMatch == Spec => []LeaseMatchesAttempt
<1>1. Safe => LeaseMatchesAttempt
  BY DEF Safe, Fit, LeaseMatchesAttempt
<1>. QED  BY <1>1, SafeHolds, PTL

-----------------------------------------------------------------------------
(* Limits: an authorisation and an attempt are counted under the limit.    *)

SpentSafe == \A c \in Case, k \in CountedClass : spent[c][k] <= Limit[k]

\* Counting once for an action that is not exhausted keeps the limits.
LEMMA SpentOnceSafe ==
    ASSUME TypeOK, SpentSafe, NEW a \in Action, Counted(a), ~Exhausted(a),
           spent' = SpentOnce(CaseOf[a], Class[a])
    PROVE  SpentSafe'
<1>. SUFFICES ASSUME NEW c \in Case, NEW k \in CountedClass
              PROVE  spent'[c][k] <= Limit[k]
  BY DEF SpentSafe
<1>1. CaseOf[a] \in Case /\ Class[a] \in CountedClass
  BY ActionsAssumption DEF Counted
<1>2. spent[CaseOf[a]][Class[a]] \in Nat /\ Limit[Class[a]] \in Nat
  BY <1>1, BoundsAssumption DEF TypeOK
<1>3. spent[CaseOf[a]][Class[a]] < Limit[Class[a]]
  BY <1>2 DEF Exhausted
<1>4. CASE c = CaseOf[a] /\ k = Class[a]
  <2>1. spent'[c][k] = spent[c][k] + 1
    BY <1>4 DEF SpentOnce, TypeOK
  <2>. QED  BY <1>2, <1>3, <1>4, <2>1
<1>5. CASE c # CaseOf[a] \/ k # Class[a]
  <2>1. spent'[c][k] = spent[c][k]
    BY <1>5 DEF SpentOnce, TypeOK
  <2>. QED  BY <2>1 DEF SpentSafe
<1>. QED  BY <1>4, <1>5

\* Only a deferral for low confidence and begin_attempt count.
LEMMA SpentStep == TypeOK /\ SpentSafe /\ [Next]_vars => SpentSafe'
<1>. SUFFICES ASSUME TypeOK, SpentSafe, [Next]_vars
              PROVE  SpentSafe'
  OBVIOUS
<1>1. CASE UNCHANGED spent
  BY <1>1 DEF SpentSafe
<1>2. ASSUME NEW c \in Case, NEW entry, Evaluate(c, entry)
      PROVE  SpentSafe'
  <2>1. PICK v \in Verdict : EvaluateTo(c, entry, v)
    BY <1>2 DEF Evaluate
  <2>2. CASE UNCHANGED spent
    BY <1>1, <2>2
  <2>3. CASE spent' = SpentOnce(c, "RETRY")
             /\ \E a \in Action : CaseOf[a] = c /\ Class[a] = "RETRY" /\ ~Exhausted(a)
    BY <2>3, SpentOnceSafe DEF Counted, CountedClass
  <2>. QED  BY <2>1, <2>2, <2>3 DEF EvaluateTo
<1>3. ASSUME NEW w \in Worker, NEW m \in broker, BeginAttempt(w, m)
      PROVE  SpentSafe'
  <2>1. m[1] \in Action
    BY DEF TypeOK
  <2>2. ~Exhausted(m[1])
    BY <1>3 DEF BeginAttempt, PolicyMayAnswer
  <2>3. CASE Counted(m[1])
    BY <1>3, <2>1, <2>2, <2>3, SpentOnceSafe DEF BeginAttempt
  <2>4. CASE ~Counted(m[1])
    BY <1>1, <1>3, <2>4 DEF BeginAttempt
  <2>. QED  BY <2>3, <2>4
<1>4. CASE \E c \in Case : Decide(c)
  BY <1>1, <1>2, <1>4
     DEF Decide, ProcessRiskEvent, ReevaluateDeferred, ApproveReview, CloseReview
<1>5. CASE \E a \in Action : ClaimDueAction(a) \/ MarkStaleCallUnknown(a) \/ Environment(a)
  BY <1>1, <1>5 DEF ClaimDueAction, MarkStaleCallUnknown, Environment, LinkAppears, PayLink,
                    CloseLink, LinkMoves, LeaseExpires, DeadlinePasses, dbVars
<1>6. ASSUME NEW w \in Worker, Execute(w)
      PROVE  SpentSafe'
  <2>1. CASE \E m \in broker : BeginAttempt(w, m)
    BY <1>3, <2>1
  <2>2. CASE \E m \in broker : PrepareRejected(w, m) \/ \E v \in Verdict : CancelBeforeExecution(w, m, v)
    BY <1>1, <2>2 DEF PrepareRejected, CancelBeforeExecution, dbVars
  <2>3. CASE ProviderExecute(w) \/ RecordExecutionResult(w) \/ ResultDiscarded(w) \/ WorkerLost(w)
    BY <1>1, <2>3 DEF ProviderExecute, RecordExecutionResult, ResultDiscarded, WorkerLost, dbVars
  <2>. QED  BY <1>6, <2>1, <2>2, <2>3 DEF Execute
<1>7. CASE \E r \in Recon : Reconcile(r)
  BY <1>1, <1>7 DEF Reconcile, SelectForReconciliation, LookupProvider, RecordLookup,
                    ExpireByLookup, ResolveByLookup, LookupDiscarded, dbVars
<1>8. CASE \E e \in Event : HandleEvent(e)
  BY <1>1, <1>8 DEF HandleEvent, ReceiveSigned, IgnoreSignedEvent, StopOnMismatch,
                    VerifySignedEvent, dbVars
<1>. QED  BY <1>1, <1>4, <1>5, <1>6, <1>7, <1>8 DEF Next, vars, dbVars

\* No action is attempted more than max_attempts times and no case counts more
\* retries or contacts than its limit, although a lease is taken, an attempt is
\* begun and a deferral is counted in different transactions.
THEOREM LimitsAreKept == Spec => []WithinLimits
<1>1. Init => SpentSafe
  BY BoundsAssumption DEF Init, SpentSafe
<1>2. Safe /\ SpentSafe => WithinLimits
  BY DEF Safe, Fit, SpentSafe, WithinLimits
<1>. QED  BY <1>1, <1>2, SpentStep, SafeHolds, TypeCorrect, PTL DEF Spec

\* An action that succeeded, failed or is unknown is never made runnable,
\* attempted or leased again (store_action, claim_due_actions, set_action_resolution).
THEOREM RowsStaySettled == Spec => NeverReopened
<1>. DEFINE Settles ==
         \A a \in Action : Row(a).status \in {"SUCCEEDED", "FAILED", "UNKNOWN"} =>
             /\ action'[a].status \notin {"NONE", "PENDING"}
             /\ action'[a].attempts = Row(a).attempts
             /\ action'[a].lease = NoToken
<1>1. TypeOK /\ Safe /\ Safe' /\ [Next]_vars => [Settles]_vars
  <2>. SUFFICES ASSUME TypeOK, Safe, Safe', [Next]_vars,
                       NEW a \in Action, Row(a).status \in {"SUCCEEDED", "FAILED", "UNKNOWN"}
                PROVE  /\ action'[a].status \notin {"NONE", "PENDING"}
                       /\ action'[a].attempts = Row(a).attempts
                       /\ action'[a].lease = NoToken
    OBVIOUS
  <2>1. Row(a).status \notin Unsettled
    BY DEF Unsettled
  <2>2. action'[a].status \notin Unsettled /\ action'[a].attempts = Row(a).attempts
    <3>1. CASE Quiet
      BY <2>1, <3>1 DEF Quiet, Kept, Row, Unsettled
    <3>2. ASSUME NEW w \in Worker, NEW m \in broker, BeginAttempt(w, m)
          PROVE  action'[a] = action[a]
      <4>1. m[1] # a
        BY <2>1, <3>2 DEF BeginAttempt, CanBegin, Unsettled
      <4>. QED  BY <3>2, <4>1 DEF BeginAttempt, TypeOK
    <3>3. CASE \E w \in Worker : ProviderExecute(w)
      BY <2>1, <3>3 DEF ProviderExecute, dbVars, Row
    <3>4. ASSUME NEW w \in Worker, RecordExecutionResult(w)
          PROVE  /\ action'[a].status \notin Unsettled
                 /\ action'[a].attempts = action[a].attempts
      <4>1. CASE worker[w].action = a
        <5>1. worker[w].result \in {"SUCCEEDED", "UNKNOWN", "FAILED", "RATE_LIMITED"}
          BY <3>4, WorkerCases DEF RecordExecutionResult, Busy, TypeOK, Result
        <5>2. action[a] \in ActionRow /\ Fit(action[a]) /\ action[a].status # "NONE"
          BY <2>1 DEF TypeOK, Safe, Row, Unsettled
        <5>3. action'[a] = Finished(action[a], worker[w].result)
          BY <3>4, <4>1 DEF RecordExecutionResult, TypeOK
        <5>. QED  BY <2>1, <5>1, <5>2, <5>3, FinishedRow DEF Row
      <4>2. CASE worker[w].action # a
        BY <2>1, <3>4, <4>2 DEF RecordExecutionResult, TypeOK, Row
      <4>. QED  BY <4>1, <4>2
    <3>. QED  BY <2>1, <3>1, <3>2, <3>3, <3>4, QuietOrCall DEF Row
  <2>3. Fit(action'[a])
    BY DEF Safe, Row
  <2>. QED  BY <2>2, <2>3 DEF Fit, Unsettled
<1>. QED  BY <1>1, SafeHolds, TypeCorrect, PTL DEF Spec, NeverReopened
=============================================================================
