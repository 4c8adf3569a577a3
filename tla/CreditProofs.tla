---------------------------- MODULE CreditProofs ----------------------------
(***************************************************************************)
(* The theorems about money: what is credited was paid, a case is credited *)
(* once, and ActionExecution implements RecoveryContract.                  *)
(*                                                                         *)
(* Evidence is collected in one transaction and used in another, so the    *)
(* invariant says of every lookup answer and of every queued event that    *)
(* the money it reports was paid; that stays true because a paid link      *)
(* never leaves that state, which in turn holds because the provider never *)
(* executes the request of an action twice.                                *)
(*                                                                         *)
(* The last section is about where cases are left: none stays in EXECUTING *)
(* without a row that is in work.                                          *)
(***************************************************************************)
EXTENDS ActionExecutionProofs

\* Evidence that is on its way reports money that was paid.
EvidenceSafe ==
    /\ \A a \in Action : link[a] # "none" => effects[a] = 1
    /\ \A r \in Recon : recon[r].phase = "looked" /\ recon[r].result = "SUCCEEDED" =>
          recon[r].action \in Backed
    /\ \A e \in Event : event[e].state = "queued" /\ event[e].match =>
          event[e].about \in Backed
    /\ CreditBacked

CreditSafe == EvidenceSafe /\ CreditedOnce

-----------------------------------------------------------------------------
(* How transactions move cases.                                            *)

\* The last state of a path made of two.
LEMMA LastOfConcat ==
    ASSUME NEW S, NEW head \in Seq(S), NEW tail \in Seq(S), tail # <<>>
    PROVE  /\ head \o tail \in Seq(S) /\ head \o tail # <<>>
           /\ (head \o tail)[Len(head \o tail)] = tail[Len(tail)]
<1>1. Len(tail) \in Nat \ {0} /\ Len(head) \in Nat
  BY EmptySeq, LenProperties
<1>2. /\ head \o tail \in Seq(S) /\ Len(head \o tail) = Len(head) + Len(tail)
      /\ \A i \in 1 .. Len(head) + Len(tail) :
            (head \o tail)[i] = IF i <= Len(head) THEN head[i] ELSE tail[i - Len(head)]
  BY ConcatProperties
<1>. DEFINE n == Len(head) + Len(tail)
<1>3. n \in 1..n /\ ~(n <= Len(head)) /\ n - Len(head) = Len(tail)
  BY <1>1
<1>4. (head \o tail)[n] = tail[Len(tail)]
  BY <1>2, <1>3
<1>5. Len(head \o tail) # 0
  BY <1>1, <1>2
<1>. QED  BY <1>2, <1>4, <1>5, EmptySeq

\* No transition leaves RECOVERED.
LEMMA RecoveredIsFinal ==
    ASSUME NEW path \in Seq(CaseState), path # <<>>, NEW s, CanFollow(s, path)
    PROVE  s # "RECOVERED"
<1>1. 1 \in DOMAIN path
  BY EmptySeq, LenProperties
<1>2. CanTransition(s, path[1])
  BY <1>1 DEF CanFollow
<1>3. AllowedTransitions["RECOVERED"] = {}
  BY DEF AllowedTransitions, CaseState, TerminalState
<1>. QED  BY <1>2, <1>3 DEF CanTransition

\* The cases that are RECOVERED stay the same.
SameRecovered == \A c \in Case : caseState'[c] = "RECOVERED" <=> caseState[c] = "RECOVERED"

\* A path that does not end in RECOVERED recovers no case.
LEMMA MoveRecoversNone ==
    ASSUME TypeOK, NEW c \in Case, NEW path \in Seq(CaseState), NEW o,
           path # <<>> => path[Len(path)] # "RECOVERED",
           MoveNow(c, path) \/ (CanMoveAt(c, path, o) /\ MoveAt(c, path, o))
    PROVE  SameRecovered
<1>1. /\ CanFollow(caseState[c], path)
      /\ caseState' = [caseState EXCEPT ![c] = StateAfter(@, path)]
  BY DEF MoveNow, MoveAt, CanMoveAt
<1>2. CASE path = <<>>
  BY <1>1, <1>2 DEF StateAfter, SameRecovered, TypeOK
<1>3. CASE path # <<>>
  <2>1. caseState[c] # "RECOVERED" /\ StateAfter(caseState[c], path) # "RECOVERED"
    BY <1>1, <1>3, RecoveredIsFinal DEF StateAfter
  <2>. QED  BY <1>1, <2>1 DEF SameRecovered, TypeOK
<1>. QED  BY <1>2, <1>3

\* A path that ends in RECOVERED recovers its case and no other.
LEMMA MoveRecoversOne ==
    ASSUME TypeOK, NEW c \in Case, NEW path \in Seq(CaseState), NEW o,
           path # <<>>, path[Len(path)] = "RECOVERED",
           CanMoveAt(c, path, o), MoveAt(c, path, o)
    PROVE  /\ caseState[c] # "RECOVERED"
           /\ \A d \in Case : caseState'[d] = "RECOVERED" <=> caseState[d] = "RECOVERED" \/ d = c
<1>1. /\ CanFollow(caseState[c], path)
      /\ caseState' = [caseState EXCEPT ![c] = StateAfter(@, path)]
  BY DEF MoveAt, CanMoveAt
<1>2. caseState[c] # "RECOVERED" /\ StateAfter(caseState[c], path) = "RECOVERED"
  BY <1>1, RecoveredIsFinal DEF StateAfter
<1>. QED  BY <1>1, <1>2 DEF TypeOK

-----------------------------------------------------------------------------
(* Three kinds of steps.                                                   *)

\* A step of the database and the processes that credits nothing and neither
\* collects evidence nor calls the provider.
Plain ==
    /\ UNCHANGED <<credited, effects, link, charged>>
    /\ SameRecovered
    /\ \A r \in Recon : \/ recon'[r].phase \in {"idle", "selected"}
                        \/ recon'[r] = recon[r]
                        \/ recon'[r].result # "SUCCEEDED"
                        \/ link[recon'[r].action] = "paid" /\ recon'[r].action \in Action
    /\ \A e \in Event : event'[e].state = "processed" \/ event'[e] = event[e]

\* A step that credits action a, for which there is evidence.
Credits(a) ==
    /\ UNCHANGED <<effects, link, charged>>
    /\ a \in Backed
    /\ credited' = credited \cup {a}
    /\ caseState[CaseOf[a]] # "RECOVERED"
    /\ \A c \in Case : caseState'[c] = "RECOVERED"
                         <=> caseState[c] = "RECOVERED" \/ c = CaseOf[a]
    /\ \A r \in Recon : recon'[r].phase = "idle" \/ recon'[r] = recon[r]
    /\ \A e \in Event : event'[e].state = "processed" \/ event'[e] = event[e]

\* A step of the provider or the customer.
Outside ==
    /\ UNCHANGED <<credited, caseState, recon>>
    /\ Backed \subseteq Backed'
    /\ \A a \in Action : link'[a] # "none" => effects'[a] = 1
    /\ \A e \in Event : \/ event'[e] = event[e]
                        \/ event'[e].match => event'[e].about \in Backed'

\* A plain step keeps the invariant.
LEMMA PlainSafe ==
    ASSUME CreditSafe, Plain
    PROVE  CreditSafe'
<1>1. Backed' = Backed
  BY DEF Plain, Backed
<1>2. \A a \in Action : link[a] = "paid" => a \in Backed
  BY DEF Backed
<1>3. EvidenceSafe'
  BY <1>1, <1>2 DEF CreditSafe, EvidenceSafe, Plain, CreditBacked
<1>4. CreditedOnce'
  BY DEF CreditSafe, Plain, CreditedOnce, SameRecovered
<1>. QED  BY <1>3, <1>4 DEF CreditSafe

\* A step that credits an action keeps the invariant: nothing was credited to
\* the case before, because it was not RECOVERED.
LEMMA CreditsSafe ==
    ASSUME TypeOK, CreditSafe, NEW a \in Action, Credits(a)
    PROVE  /\ CreditSafe'
           /\ \A b \in credited : CaseOf[b] # CaseOf[a]
<1>1. Backed' = Backed
  BY DEF Credits, Backed
<1>2. CaseOf[a] \in Case /\ credited \subseteq Action
  BY ActionsAssumption DEF TypeOK
<1>3. \A b \in credited : CaseOf[b] # CaseOf[a]
  BY <1>2 DEF CreditSafe, CreditedOnce, Credits
<1>4. EvidenceSafe'
  BY <1>1 DEF CreditSafe, EvidenceSafe, Credits, CreditBacked, Backed
<1>5. CreditedOnce'
  <2>. SUFFICES ASSUME NEW c \in Case
                PROVE  /\ caseState'[c] = "RECOVERED" <=> {b \in credited' : CaseOf[b] = c} # {}
                       /\ \A x, y \in {b \in credited' : CaseOf[b] = c} : x = y
    BY DEF CreditedOnce
  <2>1. CASE c = CaseOf[a]
    <3>1. {b \in credited' : CaseOf[b] = c} = {a}
      BY <1>3, <2>1 DEF Credits
    <3>. QED  BY <2>1, <3>1 DEF Credits
  <2>2. CASE c # CaseOf[a]
    <3>1. {b \in credited' : CaseOf[b] = c} = {b \in credited : CaseOf[b] = c}
      BY <2>2 DEF Credits
    <3>. QED  BY <2>2, <3>1 DEF CreditSafe, CreditedOnce, Credits
  <2>. QED  BY <2>1, <2>2
<1>. QED  BY <1>3, <1>4, <1>5 DEF CreditSafe

\* A step of the outside world keeps the invariant: what was paid stays paid.
LEMMA OutsideSafe ==
    ASSUME TypeOK, CreditSafe, Outside
    PROVE  CreditSafe'
<1>1. credited \subseteq Backed
  BY DEF CreditSafe, EvidenceSafe, CreditBacked, Backed, TypeOK
<1>2. CreditBacked'
  BY <1>1 DEF Outside, CreditBacked, Backed
<1>3. EvidenceSafe'
  BY <1>2 DEF CreditSafe, EvidenceSafe, Outside
<1>4. CreditedOnce'
  BY DEF CreditSafe, Outside, CreditedOnce
<1>. QED  BY <1>3, <1>4 DEF CreditSafe

-----------------------------------------------------------------------------
(* Every transaction is a step of one of the three kinds.                  *)

\* A step that leaves the reconcilers, the events and the provider alone is
\* plain if it credits nothing and recovers no case.
LEMMA PlainByFrame ==
    ASSUME UNCHANGED <<credited, recon, event, effects, link, charged>>, SameRecovered
    PROVE  Plain
BY DEF Plain

\* Decisions and reviews are plain: a verdict never recovers a case.
LEMMA DecidePlain ==
    ASSUME TypeOK, NEW c \in Case, Decide(c)
    PROVE  Plain
<1>1. ASSUME NEW entry \in Seq(CaseState), Evaluate(c, entry)
      PROVE  Plain
  <2>1. PICK v \in Verdict : EvaluateTo(c, entry, v)
    BY <1>1 DEF Evaluate
  <2>. DEFINE tail == <<"POLICY_CHECK", StateFor(v)>>
  <2>2. StateFor(v) \in CaseState /\ StateFor(v) # "RECOVERED" /\ "POLICY_CHECK" \in CaseState
    BY DEF Verdict, StateFor, CaseState
  <2>3. tail \in Seq(CaseState) /\ tail # <<>> /\ tail[Len(tail)] # "RECOVERED"
    BY <2>2
  <2>4. MoveNow(c, entry \o tail) /\ UNCHANGED <<credited, recon, event, effects, link, charged>>
    BY <2>1 DEF EvaluateTo, providerVars
  <2>. HIDE DEF tail
  <2>5. /\ entry \o tail \in Seq(CaseState) /\ entry \o tail # <<>>
        /\ (entry \o tail)[Len(entry \o tail)] # "RECOVERED"
    BY <2>3, LastOfConcat
  <2>6. SameRecovered
    BY <2>4, <2>5, MoveRecoversNone
  <2>. QED  BY <2>4, <2>6, PlainByFrame
<1>2. /\ <<"DETECTED", "DIAGNOSING", "DECISION_PENDING">> \in Seq(CaseState)
      /\ <<"DECISION_PENDING">> \in Seq(CaseState) /\ <<>> \in Seq(CaseState)
  BY DEF CaseState
<1>3. CASE CloseReview(c)
  <2>1. <<"STOPPED">> \in Seq(CaseState) /\ <<"STOPPED">>[Len(<<"STOPPED">>)] # "RECOVERED"
    BY DEF CaseState
  <2>2. MoveNow(c, <<"STOPPED">>)
    BY <1>3 DEF CloseReview
  <2>3. SameRecovered
    BY <2>1, <2>2, MoveRecoversNone
  <2>. QED  BY <1>3, <2>3, PlainByFrame DEF CloseReview, providerVars
<1>. QED
  BY <1>1, <1>2, <1>3 DEF Decide, ProcessRiskEvent, ReevaluateDeferred, ApproveReview

\* Claims, stale calls and clocks are plain.
LEMMA RowStepPlain ==
    ASSUME TypeOK, NEW a \in Action,
           \/ ClaimDueAction(a) \/ MarkStaleCallUnknown(a)
           \/ LeaseExpires(a) \/ DeadlinePasses(a)
    PROVE  Plain
<1>1. CASE ClaimDueAction(a) \/ LeaseExpires(a) \/ DeadlinePasses(a)
  BY <1>1, PlainByFrame
     DEF ClaimDueAction, LeaseExpires, DeadlinePasses, SameRecovered, providerVars
<1>2. CASE MarkStaleCallUnknown(a)
  <2>1. CaseOf[a] \in Case
    BY ActionsAssumption
  <2>2. <<"UNKNOWN">> \in Seq(CaseState) /\ <<"UNKNOWN">>[Len(<<"UNKNOWN">>)] # "RECOVERED"
    BY DEF CaseState
  <2>3. SameRecovered
    <3>1. CASE MoveNow(CaseOf[a], <<"UNKNOWN">>)
      BY <2>1, <2>2, <3>1, MoveRecoversNone
    <3>2. CASE caseState' = caseState
      BY <3>2 DEF SameRecovered
    <3>. QED  BY <1>2, <3>1, <3>2 DEF MarkStaleCallUnknown
  <2>. QED  BY <1>2, <2>3, PlainByFrame DEF MarkStaleCallUnknown, providerVars
<1>. QED  BY <1>1, <1>2

\* What follows a provider answer never recovers the case: an accepted request
\* is not a payment.
LEMMA PathAfterResultEnds ==
    ASSUME NEW row, NEW result
    PROVE  /\ PathAfterResult(row, result) \in Seq(CaseState)
           /\ PathAfterResult(row, result) # <<>> =>
                PathAfterResult(row, result)[Len(PathAfterResult(row, result))] # "RECOVERED"
<1>. DEFINE path == PathAfterResult(row, result)
<1>1. \/ path = <<>> \/ path = <<"UNKNOWN">> \/ path = <<"VERIFYING">>
      \/ path = <<"VERIFYING", "DECISION_PENDING">>
  BY DEF PathAfterResult
<1>. HIDE DEF path
<1>2. ASSUME path = <<>>
      PROVE  path \in Seq(CaseState) /\ (path # <<>> => path[Len(path)] # "RECOVERED")
  BY <1>2
<1>3. ASSUME path = <<"UNKNOWN">>
      PROVE  path \in Seq(CaseState) /\ (path # <<>> => path[Len(path)] # "RECOVERED")
  BY <1>3 DEF CaseState
<1>4. ASSUME path = <<"VERIFYING">>
      PROVE  path \in Seq(CaseState) /\ (path # <<>> => path[Len(path)] # "RECOVERED")
  BY <1>4 DEF CaseState
<1>5. ASSUME path = <<"VERIFYING", "DECISION_PENDING">>
      PROVE  path \in Seq(CaseState) /\ (path # <<>> => path[Len(path)] # "RECOVERED")
  BY <1>5 DEF CaseState
<1>6. path \in Seq(CaseState) /\ (path # <<>> => path[Len(path)] # "RECOVERED")
  BY <1>1, <1>2, <1>3, <1>4, <1>5
<1>. QED  BY <1>6 DEF path

\* The transactions of an execution task are plain.
LEMMA ExecutePlain ==
    ASSUME TypeOK, NEW w \in Worker,
           \/ \E m \in broker : \/ PrepareRejected(w, m)
                                \/ \E v \in Verdict : CancelBeforeExecution(w, m, v)
                                \/ BeginAttempt(w, m)
           \/ RecordExecutionResult(w) \/ ResultDiscarded(w) \/ WorkerLost(w)
    PROVE  Plain
<1>1. CASE \/ \E m \in broker : PrepareRejected(w, m)
           \/ ResultDiscarded(w) \/ WorkerLost(w)
  BY <1>1, PlainByFrame
     DEF PrepareRejected, ResultDiscarded, WorkerLost, SameRecovered, dbVars, providerVars
<1>2. ASSUME NEW m \in broker, BeginAttempt(w, m) PROVE Plain
  <2>1. m[1] \in Action /\ CaseOf[m[1]] \in Case
    BY ActionsAssumption DEF TypeOK
  <2>2. caseState[CaseOf[m[1]]] # "RECOVERED"
    BY <1>2 DEF BeginAttempt, Executable
  <2>3. SameRecovered
    BY <1>2, <2>1, <2>2 DEF BeginAttempt, SameRecovered, TypeOK
  <2>. QED  BY <1>2, <2>3, PlainByFrame DEF BeginAttempt, providerVars
<1>3. ASSUME NEW m \in broker, NEW v \in Verdict, CancelBeforeExecution(w, m, v) PROVE Plain
  <2>. DEFINE c == CaseOf[m[1]]
              entry == IF caseState[c] = "READY" THEN <<"EXECUTING", "VERIFYING">>
                       ELSE <<"VERIFYING">>
              exit == CASE v \in {"STOP", "SKIP"} -> <<StateFor(v)>>
                        [] OTHER -> <<"DECISION_PENDING", "POLICY_CHECK", StateFor(v)>>
  <2>1. c \in Case
    BY ActionsAssumption DEF TypeOK
  <2>2. StateFor(v) \in CaseState /\ StateFor(v) # "RECOVERED"
    BY DEF Verdict, StateFor, CaseState
  <2>3. entry \in Seq(CaseState)
    <3>1. <<"EXECUTING", "VERIFYING">> \in Seq(CaseState) /\ <<"VERIFYING">> \in Seq(CaseState)
      BY DEF CaseState
    <3>. QED  BY <3>1
  <2>4. exit \in Seq(CaseState) /\ exit # <<>> /\ exit[Len(exit)] # "RECOVERED"
    <3>1. /\ <<StateFor(v)>> \in Seq(CaseState)
          /\ <<"DECISION_PENDING", "POLICY_CHECK", StateFor(v)>> \in Seq(CaseState)
      BY <2>2 DEF CaseState
    <3>2. CASE v \in {"STOP", "SKIP"}
      BY <2>2, <3>1, <3>2
    <3>3. CASE v \notin {"STOP", "SKIP"}
      BY <2>2, <3>1, <3>3
    <3>. QED  BY <3>2, <3>3
  <2>5. MoveNow(c, entry \o exit) /\ UNCHANGED <<credited, recon, event, effects, link, charged>>
    BY <1>3 DEF CancelBeforeExecution, providerVars
  <2>. HIDE DEF c, entry, exit
  <2>6. /\ entry \o exit \in Seq(CaseState)
        /\ (entry \o exit)[Len(entry \o exit)] # "RECOVERED"
    BY <2>3, <2>4, LastOfConcat
  <2>7. SameRecovered
    BY <2>1, <2>5, <2>6, MoveRecoversNone
  <2>. QED  BY <2>5, <2>7, PlainByFrame
<1>4. CASE RecordExecutionResult(w)
  <2>. DEFINE a == worker[w].action
              path == PathAfterResult(Row(a), worker[w].result)
  <2>1. a \in Action /\ CaseOf[a] \in Case
    BY <1>4, WorkerCases, ActionsAssumption DEF RecordExecutionResult, Busy, TypeOK
  <2>2. path \in Seq(CaseState) /\ (path # <<>> => path[Len(path)] # "RECOVERED")
    BY PathAfterResultEnds
  <2>3. CanMoveAt(CaseOf[a], path, w) /\ MoveAt(CaseOf[a], path, w)
    BY <1>4 DEF RecordExecutionResult, CanRecordResult
  <2>. HIDE DEF path
  <2>4. SameRecovered
    BY <2>1, <2>2, <2>3, MoveRecoversNone
  <2>. QED  BY <1>4, <2>4, PlainByFrame DEF RecordExecutionResult, providerVars
<1>. QED  BY <1>1, <1>2, <1>3, <1>4

\* A lookup says SUCCEEDED only of a link that is paid.
LEMMA AnswersArePaid ==
    ASSUME NEW a, "SUCCEEDED" \in LookupAnswers(a)
    PROVE  link[a] = "paid"
BY DEF LookupAnswers

\* Where the resolution of a lookup leaves the case.
LEMMA ResolutionEnds ==
    ASSUME NEW c, NEW result
    PROVE  LET path == ResolutionPath(c, result)
           IN  /\ result = "SUCCEEDED" => path # <<>> /\ path[Len(path)] = "RECOVERED"
               /\ result # "SUCCEEDED" /\ path # <<>> => path[Len(path)] \notin {"RECOVERED", "EXECUTING"}
<1>. DEFINE head == IF caseState[c] = "UNKNOWN" THEN <<"VERIFYING">> ELSE <<>>
           tail == CASE result = "SUCCEEDED" -> <<"RECOVERED">>
                     [] result = "FAILED"    -> <<"DECISION_PENDING">>
                     [] OTHER                -> <<>>
<1>1. head \in Seq(CaseState)
  <2>1. <<"VERIFYING">> \in Seq(CaseState) /\ <<>> \in Seq(CaseState)
    BY DEF CaseState
  <2>. QED  BY <2>1
<1>2. ResolutionPath(c, result) = head \o tail
  BY DEF ResolutionPath
<1>3. CASE result = "SUCCEEDED"
  <2>1. tail = <<"RECOVERED">>
    BY <1>3
  <2>. HIDE DEF head, tail
  <2>2. tail \in Seq(CaseState) /\ tail # <<>> /\ tail[Len(tail)] = "RECOVERED"
    BY <2>1 DEF CaseState
  <2>3. head \o tail # <<>> /\ (head \o tail)[Len(head \o tail)] = "RECOVERED"
    BY <1>1, <2>2, LastOfConcat
  <2>. QED  BY <1>2, <1>3, <2>3
<1>4. CASE result = "FAILED"
  <2>1. tail = <<"DECISION_PENDING">>
    BY <1>4
  <2>. HIDE DEF head, tail
  <2>2. tail \in Seq(CaseState) /\ tail # <<>> /\ tail[Len(tail)] \notin {"RECOVERED", "EXECUTING"}
    BY <2>1 DEF CaseState
  <2>3. (head \o tail)[Len(head \o tail)] \notin {"RECOVERED", "EXECUTING"}
    BY <1>1, <2>2, LastOfConcat
  <2>. QED  BY <1>2, <1>4, <2>3
<1>5. CASE result \notin {"SUCCEEDED", "FAILED"}
  <2>1. tail = <<>>
    BY <1>5
  <2>2. ResolutionPath(c, result) = head
    <3>1. ResolutionPath(c, result) = head \o <<>>
      BY <1>2, <2>1
    <3>. HIDE DEF head, tail
    <3>. QED  BY <1>1, <3>1
  <2>3. head # <<>> => head[Len(head)] \notin {"RECOVERED", "EXECUTING"}
    <3>1. CASE caseState[c] = "UNKNOWN"
      BY <3>1
    <3>2. CASE caseState[c] # "UNKNOWN"
      BY <3>2
    <3>. QED  BY <3>1, <3>2
  <2>. QED  BY <1>5, <2>2, <2>3
<1>. QED  BY <1>3, <1>4, <1>5

\* Reconciliation is plain, or credits an action whose link is paid.
LEMMA ReconcilePlain ==
    ASSUME TypeOK, CreditSafe, NEW r \in Recon, Reconcile(r)
    PROVE  Plain \/ \E a \in Action : Credits(a)
<1>. USE DEF providerVars
<1>0. recon \in [Recon -> ReconState]
  BY DEF TypeOK
<1>1. ASSUME NEW a \in Action, SelectForReconciliation(r, a) PROVE Plain
  BY <1>0, <1>1 DEF SelectForReconciliation, Plain, SameRecovered, dbVars
<1>2. CASE LookupProvider(r)
  <2>. DEFINE a == recon[r].action
  <2>1. a \in Action
    BY <1>2, ReconCases DEF LookupProvider, TypeOK
  <2>2. PICK result \in LookupAnswers(a) :
          recon' = [recon EXCEPT ![r] = [phase |-> "looked", action |-> a,
                                         late |-> Row(a).overdue, result |-> result]]
    BY <1>2 DEF LookupProvider
  <2>3. result = "SUCCEEDED" => link[a] = "paid"
    BY AnswersArePaid
  <2>4. \A q \in Recon : \/ recon'[q] = recon[q]
                         \/ recon'[q].action = a /\ recon'[q].result = result
    BY <1>0, <2>2
  <2>. HIDE DEF a
  <2>5. \A q \in Recon : \/ recon'[q] = recon[q] \/ recon'[q].result # "SUCCEEDED"
                         \/ link[recon'[q].action] = "paid" /\ recon'[q].action \in Action
    BY <2>1, <2>3, <2>4
  <2>. QED  BY <1>2, <2>5 DEF LookupProvider, Plain, SameRecovered, dbVars
<1>3. CASE LookupDiscarded(r)
  BY <1>0, <1>3 DEF LookupDiscarded, Plain, SameRecovered, dbVars, Idle
<1>4. ASSUME recon[r].phase = "looked"
      PROVE  recon[r].action \in Action /\ CaseOf[recon[r].action] \in Case
  BY <1>4, ReconCases, ActionsAssumption DEF TypeOK
<1>5. CASE ExpireByLookup(r)
  <2>. DEFINE c == CaseOf[recon[r].action]
  <2>1. c \in Case
    BY <1>4, <1>5 DEF ExpireByLookup
  <2>2. /\ ExpiryPath(c) \in Seq(CaseState)
        /\ ExpiryPath(c)[Len(ExpiryPath(c))] # "RECOVERED"
    <3>1. /\ <<"UNKNOWN", "ESCALATED">> \in Seq(CaseState)
          /\ <<"ESCALATED">> \in Seq(CaseState)
      BY DEF CaseState
    <3>2. CASE caseState[c] = "VERIFYING"
      BY <3>1, <3>2 DEF ExpiryPath
    <3>3. CASE caseState[c] # "VERIFYING"
      BY <3>1, <3>3 DEF ExpiryPath
    <3>. QED  BY <3>2, <3>3
  <2>3. SameRecovered
    BY <1>5, <2>1, <2>2, MoveRecoversNone DEF ExpireByLookup, CanExpire
  <2>. QED  BY <1>0, <1>5, <2>3 DEF ExpireByLookup, Plain, Idle
<1>6. CASE ResolveByLookup(r)
  <2>. DEFINE a == recon[r].action
              c == CaseOf[a]
              path == ResolutionPath(c, recon[r].result)
  <2>1. a \in Action /\ c \in Case
    BY <1>4, <1>6 DEF ResolveByLookup
  <2>2. path \in Seq(CaseState)
    BY ResolutionPathType
  <2>3. /\ recon[r].result = "SUCCEEDED" => path # <<>> /\ path[Len(path)] = "RECOVERED"
        /\ recon[r].result # "SUCCEEDED" /\ path # <<>> => path[Len(path)] # "RECOVERED"
    BY ResolutionEnds
  <2>4. /\ CanMoveAt(c, path, r) /\ MoveAt(c, path, r) /\ recon[r].phase = "looked"
        /\ credited' = IF recon[r].result = "SUCCEEDED" THEN credited \cup {a} ELSE credited
        /\ recon' = [recon EXCEPT ![r] = Idle] /\ UNCHANGED <<event, effects, link, charged>>
    BY <1>6 DEF ResolveByLookup, CanResolve
  <2>5. \A q \in Recon : recon'[q].phase = "idle" \/ recon'[q] = recon[q]
    BY <1>0, <2>4 DEF Idle
  <2>. HIDE DEF c, path
  <2>6. CASE recon[r].result = "SUCCEEDED"
    <3>1. a \in Backed
      BY <2>4, <2>6 DEF CreditSafe, EvidenceSafe
    <3>2. /\ caseState[c] # "RECOVERED"
          /\ \A d \in Case : caseState'[d] = "RECOVERED" <=> caseState[d] = "RECOVERED" \/ d = c
      BY <2>1, <2>2, <2>3, <2>4, <2>6, MoveRecoversOne
    <3>3. Credits(a)
      BY <2>4, <2>5, <2>6, <3>1, <3>2 DEF Credits, c
    <3>. QED  BY <2>1, <3>3
  <2>7. CASE recon[r].result # "SUCCEEDED"
    <3>1. SameRecovered
      BY <2>1, <2>2, <2>3, <2>4, <2>7, MoveRecoversNone
    <3>. QED  BY <2>4, <2>5, <2>7, <3>1 DEF Plain
  <2>. QED  BY <2>6, <2>7
<1>. QED  BY <1>1, <1>2, <1>3, <1>5, <1>6 DEF Reconcile, RecordLookup

\* Processing an event is plain, or credits an action that the event shows paid.
LEMMA ProcessedPlain ==
    ASSUME TypeOK, CreditSafe, NEW e \in Event,
           IgnoreSignedEvent(e) \/ StopOnMismatch(e) \/ VerifySignedEvent(e)
    PROVE  Plain \/ \E a \in Action : Credits(a)
<1>. USE DEF providerVars
<1>. DEFINE a == event[e].about
           c == CaseOf[a]
<1>1. event[e].state = "queued"
  BY DEF IgnoreSignedEvent, StopOnMismatch, VerifySignedEvent
<1>2. a \in Action /\ c \in Case
  BY <1>1, EventCases, ActionsAssumption DEF TypeOK
<1>3. \A d \in Event : event'[d].state = "processed" \/ event'[d] = event[d]
  BY DEF IgnoreSignedEvent, StopOnMismatch, VerifySignedEvent, Consume, TypeOK, Processed
<1>4. \A final \in {"STOPPED", "RECOVERED"} :
        /\ EvidencePath(c, final) \in Seq(CaseState) /\ EvidencePath(c, final) # <<>>
        /\ EvidencePath(c, final)[Len(EvidencePath(c, final))] = final
  <2>. SUFFICES ASSUME NEW final \in {"STOPPED", "RECOVERED"}
                PROVE  /\ EvidencePath(c, final) \in Seq(CaseState)
                       /\ EvidencePath(c, final) # <<>>
                       /\ EvidencePath(c, final)[Len(EvidencePath(c, final))] = final
    OBVIOUS
  <2>1. EvidencePath(c, final) \in Seq(CaseState)
    BY EvidencePathType DEF CaseState
  <2>2. CASE caseState[c] = "UNKNOWN"
    BY <2>1, <2>2 DEF EvidencePath
  <2>3. CASE caseState[c] # "UNKNOWN"
    BY <2>1, <2>3 DEF EvidencePath
  <2>. QED  BY <2>2, <2>3
<1>5. CASE IgnoreSignedEvent(e)
  BY <1>3, <1>5 DEF IgnoreSignedEvent, Plain, SameRecovered, dbVars
<1>6. CASE StopOnMismatch(e)
  <2>1. SameRecovered
    BY <1>2, <1>4, <1>6, MoveRecoversNone DEF StopOnMismatch
  <2>. QED  BY <1>3, <1>6, <2>1 DEF StopOnMismatch, Plain
<1>7. CASE VerifySignedEvent(e)
  <2>1. CASE Reconcilable(c)
    <3>1. /\ CanMoveAt(c, EvidencePath(c, "RECOVERED"), e)
          /\ MoveAt(c, EvidencePath(c, "RECOVERED"), e)
          /\ credited' = credited \cup {a} /\ event[e].match
          /\ UNCHANGED <<recon, effects, link, charged>>
      BY <1>7, <2>1 DEF VerifySignedEvent, Matches
    <3>2. a \in Backed
      BY <1>1, <3>1 DEF CreditSafe, EvidenceSafe
    <3>. HIDE DEF c
    <3>3. /\ caseState[c] # "RECOVERED"
          /\ \A d \in Case : caseState'[d] = "RECOVERED" <=> caseState[d] = "RECOVERED" \/ d = c
      BY <1>2, <1>4, <3>1, MoveRecoversOne
    <3>4. Credits(a)
      BY <1>3, <3>1, <3>2, <3>3 DEF Credits, c
    <3>. QED  BY <1>2, <3>4
  <2>2. CASE ~Reconcilable(c)
    BY <1>3, <1>7, <2>2 DEF VerifySignedEvent, Plain, SameRecovered
  <2>. QED  BY <2>1, <2>2
<1>. QED  BY <1>5, <1>6, <1>7

-----------------------------------------------------------------------------
(* The provider, the customer and the contract.                            *)

contractVars == <<effects, Backed, credited>>

\* The provider's answer to the one call of an action is one effect or none.
LEMMA ProviderOutside ==
    ASSUME TypeOK, Safe, CreditSafe, NEW w \in Worker, ProviderExecute(w)
    PROVE  Outside /\ [Contract!Next]_contractVars
<1>. DEFINE a == worker[w].action
<1>1. a \in Action /\ effects[a] = 0
  <2>1. worker[w].phase = "calling" /\ Active(w)
    BY DEF ProviderExecute, Busy, Active, Idle
  <2>. QED  BY <2>1, CallType DEF Safe, CallsSafe
<1>2. link[a] = "none"
  BY <1>1 DEF CreditSafe, EvidenceSafe
<1>3. /\ UNCHANGED <<credited, caseState, recon, event, charged>>
      /\ \/ /\ effects' = [effects EXCEPT ![a] = @ + 1]
            /\ \/ link' = link
               \/ link' = [link EXCEPT ![a] = "created"]
               \/ link' = [link EXCEPT ![a] = "sent"]
         \/ UNCHANGED <<effects, link>>
  BY <1>2 DEF ProviderExecute, dbVars
<1>4. link' = [link EXCEPT ![a] = link'[a]] /\ link'[a] \in {"none", "created", "sent"}
  BY <1>1, <1>2, <1>3 DEF TypeOK
<1>5. \A b \in Action : link'[b] = "paid" <=> link[b] = "paid"
  BY <1>1, <1>2, <1>4 DEF TypeOK
<1>6. Backed' = Backed
  BY <1>3, <1>5 DEF Backed
<1>. HIDE DEF a
<1>7. \A b \in Action : link'[b] # "none" => effects'[b] = 1
  <2>. SUFFICES ASSUME NEW b \in Action, link'[b] # "none"
                PROVE  effects'[b] = 1
    OBVIOUS
  <2>1. /\ effects \in [Action -> Nat]
        /\ link \in [Action -> {"none", "sent", "created", "paid", "cancelled"}]
    BY DEF TypeOK
  <2>2. CASE b = a
    <3>1. effects' # effects \/ link' # link
      BY <1>2, <2>2
    <3>2. effects' = [effects EXCEPT ![a] = @ + 1]
      BY <1>3, <3>1
    <3>. QED  BY <1>1, <2>1, <2>2, <3>2
  <2>3. CASE b # a
    <3>1. link'[b] = link[b]
      BY <1>4, <2>1, <2>3
    <3>2. effects'[b] = effects[b]
      BY <1>3, <2>1, <2>3
    <3>. QED  BY <3>1, <3>2 DEF CreditSafe, EvidenceSafe
  <2>. QED  BY <2>2, <2>3
<1>8. Outside
  BY <1>3, <1>6, <1>7 DEF Outside
<1>9. UNCHANGED contractVars \/ Contract!TakeEffect(a)
  <2>1. CASE effects' = [effects EXCEPT ![a] = @ + 1]
    <3>1. effects' = [effects EXCEPT ![a] = 1]
      BY <1>1, <2>1 DEF TypeOK
    <3>. QED  BY <1>1, <1>3, <1>6, <3>1 DEF Contract!TakeEffect
  <2>2. CASE effects' = effects
    BY <1>3, <1>6, <2>2 DEF contractVars
  <2>. QED  BY <1>3, <2>1, <2>2
<1>. QED  BY <1>1, <1>8, <1>9 DEF Contract!Next

\* The life of a payment link: it is paid at most once and stays paid.
LEMMA LinkOutside ==
    ASSUME TypeOK, CreditSafe, NEW a \in Action,
           LinkAppears(a) \/ PayLink(a) \/ CloseLink(a)
    PROVE  Outside /\ [Contract!Next]_contractVars
<1>1. PICK from, to \in {"sent", "created", "paid", "cancelled"} :
        from # "paid" /\ LinkMoves(a, from, to)
  BY DEF LinkAppears, PayLink, CloseLink
<1>2. /\ UNCHANGED <<credited, caseState, recon, event, effects, charged>>
      /\ link' = [link EXCEPT ![a] = to] /\ link[a] = from
  BY <1>1 DEF LinkMoves, dbVars
<1>3. \A b \in Action : link'[b] = IF b = a THEN to ELSE link[b]
  BY <1>2 DEF TypeOK
<1>4. Backed' = IF to = "paid" THEN Backed \cup {a} ELSE Backed
  <2>1. \A b \in Action : link'[b] = "paid" <=> link[b] = "paid" \/ (b = a /\ to = "paid")
    BY <1>1, <1>2, <1>3
  <2>2. CASE to = "paid"
    BY <1>2, <2>1, <2>2 DEF Backed
  <2>3. CASE to # "paid"
    BY <1>2, <2>1, <2>3 DEF Backed
  <2>. QED  BY <2>2, <2>3
<1>5. \A b \in Action : link'[b] # "none" => effects'[b] = 1
  BY <1>1, <1>2, <1>3 DEF CreditSafe, EvidenceSafe
<1>6. Outside
  BY <1>2, <1>4, <1>5 DEF Outside
<1>7. UNCHANGED contractVars \/ Contract!Pay(a)
  BY <1>2, <1>4 DEF contractVars, Contract!Pay
<1>. QED  BY <1>6, <1>7 DEF Contract!Next

\* A signed event that is received reports a payment that has been made.
LEMMA ReceiveOutside ==
    ASSUME TypeOK, CreditSafe, NEW e \in Event, NEW a \in Action,
           NEW viaLink \in BOOLEAN, NEW match \in BOOLEAN, ReceiveSigned(e, a, viaLink, match)
    PROVE  Outside /\ [Contract!Next]_contractVars
<1>1. /\ UNCHANGED <<credited, caseState, recon, effects, link>>
      /\ viaLink => link[a] = "paid" /\ match
      /\ event' = [event EXCEPT ![e] = [state |-> "queued", about |-> a,
                                        viaLink |-> viaLink, match |-> match]]
      /\ charged' = IF ~viaLink /\ match THEN charged \cup {a} ELSE charged
  BY DEF ReceiveSigned, dbVars
<1>2. Backed' = Backed \/ Backed' = Backed \cup {a}
  BY <1>1 DEF Backed
<1>3. match => a \in Backed'
  BY <1>1 DEF Backed
<1>4. \A d \in Event : event'[d] = event[d] \/ (event'[d].match => event'[d].about \in Backed')
  BY <1>1, <1>3 DEF TypeOK
<1>5. Outside
  BY <1>1, <1>2, <1>4 DEF Outside, CreditSafe, EvidenceSafe
<1>6. UNCHANGED contractVars \/ Contract!Pay(a)
  BY <1>1, <1>2 DEF contractVars, Contract!Pay
<1>. QED  BY <1>5, <1>6 DEF Contract!Next

-----------------------------------------------------------------------------
(* The theorems.                                                           *)

\* Every step is plain, credits one action, or happens outside.
LEMMA StepKinds ==
    ASSUME TypeOK, Safe, CreditSafe, [Next]_vars
    PROVE  \/ Plain
           \/ \E a \in Action : Credits(a)
           \/ Outside /\ [Contract!Next]_contractVars
<1>1. CASE UNCHANGED vars
  BY <1>1, PlainByFrame DEF vars, dbVars, providerVars, SameRecovered
<1>2. CASE \E c \in Case : Decide(c)
  BY <1>2, DecidePlain
<1>3. CASE \E a \in Action : ClaimDueAction(a) \/ MarkStaleCallUnknown(a) \/ Environment(a)
  BY <1>3, RowStepPlain, LinkOutside DEF Environment
<1>4. CASE \E w \in Worker : Execute(w)
  BY <1>4, ExecutePlain, ProviderOutside DEF Execute
<1>5. CASE \E r \in Recon : Reconcile(r)
  BY <1>5, ReconcilePlain
<1>6. ASSUME NEW e \in Event, HandleEvent(e)
      PROVE  \/ Plain
             \/ \E a \in Action : Credits(a)
             \/ Outside /\ [Contract!Next]_contractVars
  <2>1. CASE \E a \in Action, viaLink, match \in BOOLEAN : ReceiveSigned(e, a, viaLink, match)
    BY <2>1, ReceiveOutside
  <2>2. CASE IgnoreSignedEvent(e) \/ StopOnMismatch(e) \/ VerifySignedEvent(e)
    BY <2>2, ProcessedPlain
  <2>. QED  BY <1>6, <2>1, <2>2 DEF HandleEvent
<1>. QED  BY <1>1, <1>2, <1>3, <1>4, <1>5, <1>6 DEF Next

\* Nothing is credited, collected or paid in the empty database.
LEMMA InitCredit == Init => CreditSafe
<1>. SUFFICES ASSUME Init PROVE CreditSafe
  OBVIOUS
<1>1. EvidenceSafe
  BY DEF Init, EvidenceSafe, CreditBacked, Idle, NotReceived
<1>2. CreditedOnce
  BY DEF Init, CreditedOnce
<1>. QED  BY <1>1, <1>2 DEF CreditSafe

\* Every step of the system keeps the invariant.
LEMMA CreditStep == TypeOK /\ Safe /\ CreditSafe /\ [Next]_vars => CreditSafe'
BY StepKinds, PlainSafe, CreditsSafe, OutsideSafe

\* The invariant holds in every reachable state.
LEMMA CreditHolds == Spec => []CreditSafe
BY InitCredit, CreditStep, SafeHolds, TypeCorrect, PTL DEF Spec

\* Whatever lookups and webhooks race, money is credited only for an action
\* that was really paid (record_lookup, verify_signed_event).
THEOREM CreditsAreBacked == Spec => []CreditBacked
<1>1. CreditSafe => CreditBacked
  BY DEF CreditSafe, EvidenceSafe
<1>. QED  BY <1>1, CreditHolds, PTL

\* A case is RECOVERED exactly when one action of it is credited, and never for
\* two (the VERIFYING -> RECOVERED transition and its outcome).
THEOREM CaseCreditedOnce == Spec => []CreditedOnce
<1>1. CreditSafe => CreditedOnce
  BY DEF CreditSafe
<1>. QED  BY <1>1, CreditHolds, PTL

\* The engine keeps the merchant's contract: each of its steps is one step of
\* RecoveryContract or none.
THEOREM EngineImplementsContract == Spec => ImplementsContract
<1>1. Init => Contract!Init
  BY DEF Init, Contract!Init, Backed
<1>2. TypeOK /\ Safe /\ CreditSafe /\ [Next]_vars => [Contract!Next]_contractVars
  <2>. SUFFICES ASSUME TypeOK, Safe, CreditSafe, [Next]_vars
                PROVE  [Contract!Next]_contractVars
    OBVIOUS
  <2>1. CASE Plain
    BY <2>1 DEF Plain, contractVars, Backed
  <2>2. ASSUME NEW a \in Action, Credits(a)
        PROVE  [Contract!Next]_contractVars
    <3>1. \A b \in credited : CaseOf[b] # CaseOf[a]
      BY <2>2, CreditsSafe
    <3>2. Backed' = Backed
      BY <2>2 DEF Credits, Backed
    <3>3. Contract!Credit(a)
      BY <2>2, <3>1, <3>2 DEF Credits, Contract!Credit
    <3>. QED  BY <3>3 DEF Contract!Next
  <2>. QED  BY <2>1, <2>2, StepKinds
<1>. QED
  BY <1>1, <1>2, CreditHolds, SafeHolds, TypeCorrect, PTL
     DEF Spec, ImplementsContract, Contract!Spec, contractVars
-----------------------------------------------------------------------------
(* A case in EXECUTING has a row that is being worked on.                  *)

\* The row stands for an attempt that was begun and has no final status.
Worked(row) == row.status = "PENDING" /\ row.attempts > 0

\* A step that moves only case c, out of EXECUTING or between other states, and
\* touches no row of another case.
Leaves(c) ==
    /\ caseState'[c] # "EXECUTING"
    /\ \A d \in Case \ {c} : caseState'[d] = caseState[d]
    /\ \A a \in Action : CaseOf[a] # c => action'[a] = action[a]

\* A step that moves no case into EXECUTING and finishes no row in work.
Works ==
    /\ \A c \in Case : caseState'[c] = "EXECUTING" => caseState[c] = "EXECUTING"
    /\ \A a \in Action : Worked(action[a]) => Worked(action'[a])

\* Both kinds of steps keep the rows of executing cases in work.
LEMMA WorkedKept ==
    ASSUME TypeOK, ExecutingIsWorked, Works \/ \E c \in Case : Leaves(c)
    PROVE  ExecutingIsWorked'
<1>1. \A c \in Case : caseState[c] = "EXECUTING" =>
          \E a \in Action : CaseOf[a] = c /\ Worked(action[a])
  BY DEF ExecutingIsWorked, Worked, Row
<1>2. \A c \in Case : caseState'[c] = "EXECUTING" =>
          \E a \in Action : CaseOf[a] = c /\ Worked(action'[a])
  <2>1. CASE Works
    BY <1>1, <2>1 DEF Works
  <2>2. ASSUME NEW d \in Case, Leaves(d)
        PROVE  \A c \in Case : caseState'[c] = "EXECUTING" =>
                   \E a \in Action : CaseOf[a] = c /\ Worked(action'[a])
    BY <1>1, <2>2 DEF Leaves
  <2>. QED  BY <2>1, <2>2
<1>. QED  BY <1>2 DEF ExecutingIsWorked, Worked, Row

\* Moving a case along a path that does not end in EXECUTING, and changing at
\* most a row of it, leaves the executing cases alone.
LEMMA MoveLeaves ==
    ASSUME TypeOK, NEW c \in Case, NEW path, NEW o, MoveNow(c, path) \/ MoveAt(c, path, o),
           path = <<>> => caseState[c] # "EXECUTING",
           path # <<>> => path[Len(path)] # "EXECUTING",
           NEW a \in Action, CaseOf[a] = c, \A b \in Action \ {a} : action'[b] = action[b]
    PROVE  Leaves(c)
BY DEF MoveNow, MoveAt, StateAfter, Leaves, TypeOK

\* A decision moves only its own case, and never to EXECUTING.
LEMMA DecideWorked ==
    ASSUME TypeOK, NEW c \in Case, Decide(c)
    PROVE  Leaves(c)
<1>1. ASSUME NEW entry \in Seq(CaseState), Evaluate(c, entry)
      PROVE  Leaves(c)
  <2>1. PICK v \in Verdict : EvaluateTo(c, entry, v)
    BY <1>1 DEF Evaluate
  <2>. DEFINE tail == <<"POLICY_CHECK", StateFor(v)>>
              path == entry \o tail
  <2>2. StateFor(v) \in CaseState /\ StateFor(v) # "EXECUTING" /\ "POLICY_CHECK" \in CaseState
    BY DEF Verdict, StateFor, CaseState
  <2>3. tail \in Seq(CaseState) /\ tail # <<>> /\ tail[Len(tail)] # "EXECUTING"
    BY <2>2
  <2>4. MoveNow(c, path)
    BY <2>1 DEF EvaluateTo
  <2>5. path # <<>> /\ path[Len(path)] # "EXECUTING"
    <3>. HIDE DEF tail
    <3>. QED  BY <2>3, LastOfConcat
  <2>6. \A a \in Action : CaseOf[a] # c => action'[a] = action[a]
    BY <2>1 DEF EvaluateTo, StoreAction, TypeOK
  <2>. HIDE DEF path
  <2>. QED  BY <2>4, <2>5, <2>6 DEF MoveNow, StateAfter, Leaves, TypeOK
<1>2. /\ <<"DETECTED", "DIAGNOSING", "DECISION_PENDING">> \in Seq(CaseState)
      /\ <<"DECISION_PENDING">> \in Seq(CaseState) /\ <<>> \in Seq(CaseState)
  BY DEF CaseState
<1>3. CASE CloseReview(c)
  <2>1. MoveNow(c, <<"STOPPED">>) /\ action' = action
    BY <1>3 DEF CloseReview
  <2>2. StateAfter(caseState[c], <<"STOPPED">>) = "STOPPED"
    BY DEF StateAfter
  <2>. QED  BY <2>1, <2>2 DEF MoveNow, Leaves, TypeOK
<1>. QED
  BY <1>1, <1>2, <1>3 DEF Decide, ProcessRiskEvent, ReevaluateDeferred, ApproveReview

\* Claiming a row, the clocks and the provider finish nothing; a stale call
\* leaves EXECUTING together with its row.
LEMMA RowStepWorked ==
    ASSUME TypeOK, NEW a \in Action,
           ClaimDueAction(a) \/ MarkStaleCallUnknown(a) \/ Environment(a)
    PROVE  Works \/ \E c \in Case : Leaves(c)
<1>1. CaseOf[a] \in Case /\ action[a] \in ActionRow
  BY ActionsAssumption DEF TypeOK
<1>2. CASE LinkAppears(a) \/ PayLink(a) \/ CloseLink(a)
  BY <1>2 DEF LinkAppears, PayLink, CloseLink, LinkMoves, dbVars, Works
<1>3. CASE ClaimDueAction(a) \/ LeaseExpires(a) \/ DeadlinePasses(a)
  <2>1. /\ caseState' = caseState
        /\ \A b \in Action \ {a} : action'[b] = action[b]
        /\ action'[a].status = action[a].status /\ action'[a].attempts = action[a].attempts
    BY <1>1, <1>3 DEF ClaimDueAction, LeaseExpires, DeadlinePasses, TypeOK, ActionRow
  <2>. QED  BY <2>1 DEF Works, Worked
<1>4. CASE MarkStaleCallUnknown(a)
  <2>. DEFINE c == CaseOf[a]
  <2>1. \A b \in Action \ {a} : action'[b] = action[b]
    BY <1>4 DEF MarkStaleCallUnknown, TypeOK
  <2>2. CASE caseState[c] = "EXECUTING"
    <3>1. MoveNow(c, <<"UNKNOWN">>)
      BY <1>4, <2>2 DEF MarkStaleCallUnknown
    <3>2. Leaves(c)
      BY <1>1, <2>1, <3>1, MoveLeaves
    <3>. QED  BY <1>1, <3>2
  <2>3. CASE caseState[c] # "EXECUTING"
    <3>1. caseState' = caseState
      BY <1>4, <2>3 DEF MarkStaleCallUnknown
    <3>2. Leaves(c)
      BY <2>1, <2>3, <3>1 DEF Leaves
    <3>. QED  BY <1>1, <3>2
  <2>. QED  BY <2>2, <2>3
<1>. QED  BY <1>2, <1>3, <1>4 DEF Environment

\* An attempt that is begun puts its case into EXECUTING and its row in work.
LEMMA BeginWorked ==
    ASSUME TypeOK, ExecutingIsWorked, NEW w \in Worker, NEW m \in broker, BeginAttempt(w, m)
    PROVE  ExecutingIsWorked'
<1>. DEFINE a == m[1]
<1>1. a \in Action /\ CaseOf[a] \in Case /\ action[a] \in ActionRow
  BY ActionsAssumption DEF TypeOK
<1>2. /\ caseState' = [caseState EXCEPT ![CaseOf[a]] = "EXECUTING"]
      /\ action' = [action EXCEPT ![a].attempts = @ + 1, ![a].open = m[2]]
      /\ action[a].status = "PENDING"
  BY DEF BeginAttempt, CanBegin, Row
<1>3. /\ action'[a].status = "PENDING"
      /\ action'[a].attempts > 0
      /\ \A b \in Action \ {a} : action'[b] = action[b]
  <2>1. action[a].attempts \in Nat
    BY <1>1 DEF ActionRow
  <2>. QED  BY <1>1, <1>2, <2>1 DEF TypeOK, ActionRow
<1>. HIDE DEF a
<1>4. \A c \in Case \ {CaseOf[a]} : caseState'[c] = caseState[c]
  BY <1>2 DEF TypeOK
<1>. QED  BY <1>1, <1>3, <1>4 DEF ExecutingIsWorked, Row

\* A row whose attempt will be retried is only released.
LEMMA RetriedStays ==
    ASSUME NEW row, NEW result, Retried(row, result)
    PROVE  Finished(row, result) = [Released(row) EXCEPT !.open = NoToken]
BY DEF Finished, Retried

\* The other steps of an execution task: a cancelled or finished attempt moves
\* its case on, unless it will be retried and its row stays in work.
LEMMA ExecuteWorked ==
    ASSUME TypeOK, NEW w \in Worker,
           \/ \E m \in broker : \/ PrepareRejected(w, m)
                                \/ \E v \in Verdict : CancelBeforeExecution(w, m, v)
           \/ ProviderExecute(w) \/ RecordExecutionResult(w)
           \/ ResultDiscarded(w) \/ WorkerLost(w)
    PROVE  Works \/ \E c \in Case : Leaves(c)
<1>1. CASE \/ \E m \in broker : PrepareRejected(w, m)
           \/ ProviderExecute(w) \/ ResultDiscarded(w) \/ WorkerLost(w)
  BY <1>1 DEF PrepareRejected, ProviderExecute, ResultDiscarded, WorkerLost, dbVars, Works
<1>2. ASSUME NEW m \in broker, NEW v \in Verdict, CancelBeforeExecution(w, m, v)
      PROVE  \E c \in Case : Leaves(c)
  <2>. DEFINE a == m[1]
              c == CaseOf[a]
              entry == IF caseState[c] = "READY" THEN <<"EXECUTING", "VERIFYING">>
                       ELSE <<"VERIFYING">>
              exit == CASE v \in {"STOP", "SKIP"} -> <<StateFor(v)>>
                        [] OTHER -> <<"DECISION_PENDING", "POLICY_CHECK", StateFor(v)>>
              path == entry \o exit
  <2>1. a \in Action /\ c \in Case
    BY ActionsAssumption DEF TypeOK
  <2>2. StateFor(v) \in CaseState /\ StateFor(v) # "EXECUTING"
    BY DEF Verdict, StateFor, CaseState
  <2>3. entry \in Seq(CaseState)
    <3>1. <<"EXECUTING", "VERIFYING">> \in Seq(CaseState) /\ <<"VERIFYING">> \in Seq(CaseState)
      BY DEF CaseState
    <3>. QED  BY <3>1
  <2>4. exit \in Seq(CaseState) /\ exit # <<>> /\ exit[Len(exit)] # "EXECUTING"
    <3>1. /\ <<StateFor(v)>> \in Seq(CaseState)
          /\ <<"DECISION_PENDING", "POLICY_CHECK", StateFor(v)>> \in Seq(CaseState)
      BY <2>2 DEF CaseState
    <3>2. CASE v \in {"STOP", "SKIP"}
      BY <2>2, <3>1, <3>2
    <3>3. CASE v \notin {"STOP", "SKIP"}
      BY <2>2, <3>1, <3>3
    <3>. QED  BY <3>2, <3>3
  <2>5. MoveNow(c, path) /\ \A b \in Action \ {a} : action'[b] = action[b]
    BY <1>2 DEF CancelBeforeExecution, TypeOK
  <2>6. path # <<>> /\ path[Len(path)] # "EXECUTING"
    <3>. HIDE DEF entry, exit
    <3>. QED  BY <2>3, <2>4, LastOfConcat
  <2>. HIDE DEF path
  <2>7. Leaves(c)
    BY <2>1, <2>5, <2>6, MoveLeaves
  <2>. QED  BY <2>1, <2>7
<1>3. CASE RecordExecutionResult(w)
  <2>. DEFINE a == worker[w].action
              result == worker[w].result
              path == PathAfterResult(Row(a), result)
  <2>1. a \in Action /\ CaseOf[a] \in Case /\ action[a] \in ActionRow
    BY <1>3, WorkerCases, ActionsAssumption DEF RecordExecutionResult, Busy, TypeOK
  <2>2. /\ MoveAt(CaseOf[a], path, w)
        /\ action' = [action EXCEPT ![a] = Finished(@, result)]
    BY <1>3 DEF RecordExecutionResult
  <2>3. CASE path = <<>>
    <3>1. Retried(Row(a), result) /\ action[a].status = "PENDING"
      <4>1. <<"UNKNOWN">> # <<>> /\ <<"VERIFYING">> # <<>>
            /\ <<"VERIFYING", "DECISION_PENDING">> # <<>>
        OBVIOUS
      <4>. QED  BY <2>3, <4>1 DEF PathAfterResult, Row
    <3>2. Finished(action[a], result) = [Released(action[a]) EXCEPT !.open = NoToken]
      BY <3>1, RetriedStays DEF Row
    <3>3. /\ action'[a].status = action[a].status
          /\ action'[a].attempts = action[a].attempts
          /\ \A b \in Action \ {a} : action'[b] = action[b]
      BY <2>1, <2>2, <3>2 DEF Released, ActionRow, TypeOK
    <3>4. caseState' = caseState
      BY <2>1, <2>2, <2>3 DEF MoveAt, StateAfter, TypeOK
    <3>. QED  BY <3>3, <3>4 DEF Works, Worked
  <2>4. CASE path # <<>>
    <3>1. path[Len(path)] # "EXECUTING"
      <4>1. \/ path = <<"UNKNOWN">> \/ path = <<"VERIFYING">>
            \/ path = <<"VERIFYING", "DECISION_PENDING">>
        BY <2>4 DEF PathAfterResult
      <4>. HIDE DEF path
      <4>. QED  BY <4>1
    <3>2. \A b \in Action \ {a} : action'[b] = action[b]
      BY <2>2 DEF TypeOK
    <3>. HIDE DEF path
    <3>3. Leaves(CaseOf[a])
      BY <2>1, <2>2, <2>4, <3>1, <3>2, MoveLeaves
    <3>. QED  BY <2>1, <3>3
  <2>. QED  BY <2>3, <2>4
<1>. QED  BY <1>1, <1>2, <1>3

\* A lookup is recorded only for a case that waits for the outcome, which is
\* not EXECUTING before or after.
LEMMA ReconcileWorked ==
    ASSUME TypeOK, NEW r \in Recon, Reconcile(r)
    PROVE  Works \/ \E c \in Case : Leaves(c)
<1>. DEFINE a == recon[r].action
            c == CaseOf[a]
<1>1. CASE (\E b \in Action : SelectForReconciliation(r, b)) \/ LookupProvider(r)
           \/ LookupDiscarded(r)
  BY <1>1 DEF SelectForReconciliation, LookupProvider, LookupDiscarded, dbVars, Works
<1>2. CASE ExpireByLookup(r)
  <2>1. a \in Action /\ c \in Case
    BY <1>2, ReconCases, ActionsAssumption DEF ExpireByLookup, TypeOK
  <2>2. MoveAt(c, ExpiryPath(c), r) /\ \A b \in Action \ {a} : action'[b] = action[b]
    BY <1>2 DEF ExpireByLookup, TypeOK
  <2>3. ExpiryPath(c) # <<>> /\ ExpiryPath(c)[Len(ExpiryPath(c))] # "EXECUTING"
    <3>. DEFINE path == ExpiryPath(c)
    <3>1. path = <<"UNKNOWN", "ESCALATED">> \/ path = <<"ESCALATED">>
      BY DEF ExpiryPath
    <3>. HIDE DEF path
    <3>2. path # <<>> /\ path[Len(path)] # "EXECUTING"
      BY <3>1
    <3>. QED  BY <3>2 DEF path
  <2>4. Leaves(c)
    BY <2>1, <2>2, <2>3, MoveLeaves
  <2>. QED  BY <2>1, <2>4
<1>3. CASE ResolveByLookup(r)
  <2>1. a \in Action /\ c \in Case
    BY <1>3, ReconCases, ActionsAssumption DEF ResolveByLookup, TypeOK
  <2>2. /\ caseState[c] # "EXECUTING"
        /\ MoveAt(c, ResolutionPath(c, recon[r].result), r)
        /\ \A b \in Action \ {a} : action'[b] = action[b]
    BY <1>3 DEF ResolveByLookup, CanResolve, Reconcilable, TypeOK
  <2>3. Leaves(c)
    <3>. DEFINE path == ResolutionPath(c, recon[r].result)
    <3>1. path # <<>> => path[Len(path)] # "EXECUTING"
      BY ResolutionEnds
    <3>. HIDE DEF path
    <3>. QED  BY <2>1, <2>2, <3>1, MoveLeaves DEF path
  <2>. QED  BY <2>1, <2>3
<1>. QED  BY <1>1, <1>2, <1>3 DEF Reconcile, RecordLookup

\* Signed evidence settles only rows that are no longer PENDING.
LEMMA EventWorked ==
    ASSUME TypeOK, NEW e \in Event, HandleEvent(e)
    PROVE  Works \/ \E c \in Case : Leaves(c)
<1>. DEFINE a == event[e].about
            c == CaseOf[a]
<1>1. ASSUME NEW final, final # "EXECUTING"
      PROVE  /\ EvidencePath(c, final) # <<>>
             /\ EvidencePath(c, final)[Len(EvidencePath(c, final))] # "EXECUTING"
  <2>. DEFINE path == EvidencePath(c, final)
  <2>1. path = <<"VERIFYING", final>> \/ path = <<final>>
    BY DEF EvidencePath
  <2>. HIDE DEF path
  <2>2. path # <<>> /\ path[Len(path)] = final
    BY <2>1
  <2>. QED  BY <1>1, <2>2 DEF path
<1>2. CASE IgnoreSignedEvent(e) \/ \E b \in Action, viaLink, match \in BOOLEAN :
                                        ReceiveSigned(e, b, viaLink, match)
  BY <1>2 DEF IgnoreSignedEvent, ReceiveSigned, dbVars, Works
<1>3. CASE StopOnMismatch(e)
  <2>1. a \in Action /\ c \in Case
    BY <1>3, EventCases, ActionsAssumption DEF StopOnMismatch, TypeOK
  <2>2. MoveAt(c, EvidencePath(c, "STOPPED"), e) /\ action' = action
    BY <1>3 DEF StopOnMismatch
  <2>3. Leaves(c)
    BY <1>1, <2>1, <2>2, MoveLeaves
  <2>. QED  BY <2>1, <2>3
<1>4. CASE VerifySignedEvent(e)
  <2>1. a \in Action /\ c \in Case
    BY <1>4, EventCases, ActionsAssumption DEF VerifySignedEvent, TypeOK
  <2>2. \A b \in Action \ {a} : action'[b] = action[b]
    BY <1>4 DEF VerifySignedEvent, TypeOK
  <2>3. CASE Reconcilable(c)
    <3>1. MoveAt(c, EvidencePath(c, "RECOVERED"), e)
      BY <1>4, <2>3 DEF VerifySignedEvent
    <3>2. Leaves(c)
      BY <1>1, <2>1, <2>2, <3>1, MoveLeaves
    <3>. QED  BY <2>1, <3>2
  <2>4. CASE ~Reconcilable(c)
    <3>1. caseState' = caseState
      BY <1>4, <2>4 DEF VerifySignedEvent
    <3>2. ~Worked(action[a])
      BY <1>4 DEF VerifySignedEvent, Finds, Row, Worked
    <3>. QED  BY <2>2, <3>1, <3>2 DEF Works
  <2>. QED  BY <2>3, <2>4
<1>. QED  BY <1>2, <1>3, <1>4 DEF HandleEvent

\* Every step keeps a row in work for every executing case.
LEMMA WorkedStep == TypeOK /\ ExecutingIsWorked /\ [Next]_vars => ExecutingIsWorked'
<1>. SUFFICES ASSUME TypeOK, ExecutingIsWorked, [Next]_vars
              PROVE  ExecutingIsWorked'
  OBVIOUS
<1>1. ASSUME NEW c \in Case, Decide(c) PROVE ExecutingIsWorked'
  BY <1>1, DecideWorked, WorkedKept
<1>2. ASSUME NEW a \in Action, ClaimDueAction(a) \/ MarkStaleCallUnknown(a) \/ Environment(a)
      PROVE  ExecutingIsWorked'
  BY <1>2, RowStepWorked, WorkedKept
<1>3. ASSUME NEW w \in Worker, Execute(w) PROVE ExecutingIsWorked'
  BY <1>3, BeginWorked, ExecuteWorked, WorkedKept DEF Execute
<1>4. ASSUME NEW r \in Recon, Reconcile(r) PROVE ExecutingIsWorked'
  BY <1>4, ReconcileWorked, WorkedKept
<1>5. ASSUME NEW e \in Event, HandleEvent(e) PROVE ExecutingIsWorked'
  BY <1>5, EventWorked, WorkedKept
<1>6. CASE UNCHANGED vars
  BY <1>6 DEF vars, dbVars, ExecutingIsWorked, Row
<1>. QED  BY <1>1, <1>2, <1>3, <1>4, <1>5, <1>6 DEF Next

\* A case is never left in EXECUTING without an attempt that a worker, a retry
\* or the stale-call sweep still finishes (prepare_execution,
\* record_execution_result, mark_stale_calls_unknown).
THEOREM ExecutingStaysWorked == Spec => []ExecutingIsWorked
<1>1. Init => ExecutingIsWorked
  BY DEF Init, ExecutingIsWorked
<1>. QED  BY <1>1, WorkedStep, TypeCorrect, PTL DEF Spec
-----------------------------------------------------------------------------
(* What became of an ambiguous call.                                       *)

\* The provider has accepted the request of a payment link.
Accepted(a) == link[a] \in {"created", "paid", "cancelled"}

\* A row that succeeded or is UNKNOWN has no open attempt, so no late result can
\* be recorded for it; a reconciler works on such a row, and what it was told of
\* a payment link is still so.
AnswersSafe ==
    /\ \A a \in Action : Row(a).status \in {"SUCCEEDED", "UNKNOWN"} => Row(a).open = NoToken
    /\ \A r \in Recon : recon[r].phase \in {"selected", "looked"} =>
          LET a == recon[r].action
          IN  Row(a).status \notin Unsettled /\ Row(a).open = NoToken
    /\ \A r \in Recon : recon[r].phase = "looked" /\ Class[recon[r].action] = "MONEY_INTENT" =>
          /\ recon[r].result = "PENDING" => Accepted(recon[r].action)
          /\ recon[r].result = "FAILED" => link[recon[r].action] = "cancelled"

\* The status that a lookup or a signed event gives to a row is a fact.
Known(a, status) ==
    /\ status \notin Unsettled
    /\ Class[a] = "MONEY_INTENT" =>
          \/ status = "UNKNOWN"
          \/ status = "SUCCEEDED" /\ (Accepted(a) \/ a \in charged)
          \/ status = "FAILED" /\ link[a] = "cancelled"

\* The four things a step may do to a row: leave it, work on it before it is
\* settled, record the result of its open attempt, or settle it by evidence.
Left(a)     == action'[a].status = action[a].status /\ action'[a].open = action[a].open
Prepared(a) == /\ action[a].status \in Unsettled
               /\ action'[a].status \in {"NONE", "PENDING", "FAILED"} \/ action'[a].open = NoToken
Recorded(a) == action[a].open # NoToken /\ action'[a].open = NoToken
Evident(a)  == /\ action[a].open = NoToken /\ action'[a].open = NoToken
               /\ Known(a, action'[a].status)
RowMoves == \A a \in Action : Left(a) \/ Prepared(a) \/ Recorded(a) \/ Evident(a)

\* When the row of one action moves and the others do not change, all move.
LEMMA OneRowMoves ==
    ASSUME TypeOK, NEW a \in Action, NEW row, action' = [action EXCEPT ![a] = row],
           Left(a) \/ Prepared(a) \/ Recorded(a) \/ Evident(a)
    PROVE  RowMoves
<1>1. \A b \in Action \ {a} : action'[b] = action[b]
  BY DEF TypeOK
<1>. QED  BY <1>1 DEF RowMoves, Left

\* When no row changes, all are left.
LEMMA NoRowMoves == ASSUME action' = action PROVE RowMoves
BY DEF RowMoves, Left

\* Decisions only store a new row.
LEMMA DecideMoves ==
    ASSUME TypeOK, NEW c \in Case, Decide(c)
    PROVE  RowMoves
<1>1. ASSUME NEW a \in Action, StoreAction(a) PROVE RowMoves
  <2>1. CASE action[a].status = "NONE"
    <3>1. action' = [action EXCEPT ![a] = [action[a] EXCEPT !.status = "PENDING"]]
      BY <1>1, <2>1 DEF StoreAction
    <3>2. Prepared(a)
      BY <2>1, <3>1 DEF Prepared, Unsettled, TypeOK, ActionRow
    <3>. QED  BY <3>1, <3>2, OneRowMoves
  <2>2. CASE action[a].status # "NONE"
    <3>1. action' = [action EXCEPT ![a] = action[a]]
      BY <1>1, <2>2 DEF StoreAction
    <3>2. action' = action
      BY <3>1 DEF TypeOK
    <3>. QED  BY <3>2, NoRowMoves
  <2>. QED  BY <2>1, <2>2
<1>2. ASSUME NEW entry, Evaluate(c, entry) PROVE RowMoves
  BY <1>1, <1>2, NoRowMoves DEF Evaluate, EvaluateTo
<1>3. CASE CloseReview(c)
  BY <1>3, NoRowMoves DEF CloseReview
<1>. QED
  BY <1>2, <1>3 DEF Decide, ProcessRiskEvent, ReevaluateDeferred, ApproveReview

\* Claims and stale calls are about rows that are not settled; clocks change no
\* status and no attempt.
LEMMA RowStepMoves ==
    ASSUME TypeOK, NEW a \in Action,
           ClaimDueAction(a) \/ MarkStaleCallUnknown(a) \/ Environment(a)
    PROVE  RowMoves
<1>1. action \in [Action -> ActionRow] /\ action[a] \in ActionRow
  BY DEF TypeOK
<1>2. CASE ClaimDueAction(a)
  <2>1. /\ action' = [action EXCEPT ![a] = action'[a]]
        /\ action'[a].status = action[a].status /\ action'[a].open = action[a].open
    BY <1>1, <1>2 DEF ClaimDueAction, Row, ActionRow
  <2>. QED  BY <2>1, OneRowMoves DEF Left
<1>3. CASE MarkStaleCallUnknown(a)
  <2>1. /\ action' = [action EXCEPT ![a] = action'[a]]
        /\ action[a].status = "PENDING" /\ action'[a].open = NoToken
    BY <1>1, <1>3 DEF MarkStaleCallUnknown, Stale, Row, Settled, Released, ActionRow
  <2>. QED  BY <2>1, OneRowMoves DEF Prepared, Unsettled
<1>4. CASE LinkAppears(a) \/ PayLink(a) \/ CloseLink(a)
  BY <1>4, NoRowMoves DEF LinkAppears, PayLink, CloseLink, LinkMoves, dbVars
<1>5. CASE LeaseExpires(a) \/ DeadlinePasses(a)
  <2>1. /\ action' = [action EXCEPT ![a] = action'[a]]
        /\ action'[a].status = action[a].status /\ action'[a].open = action[a].open
    BY <1>1, <1>5 DEF LeaseExpires, DeadlinePasses, ActionRow
  <2>. QED  BY <2>1, OneRowMoves DEF Left
<1>. QED  BY <1>2, <1>3, <1>4, <1>5 DEF Environment

\* An execution task works on a row that is PENDING, or records the result of
\* its open attempt.
LEMMA ExecuteMoves ==
    ASSUME TypeOK, NEW w \in Worker, Execute(w)
    PROVE  RowMoves
<1>1. action \in [Action -> ActionRow]
  BY DEF TypeOK
<1>2. CASE \/ \E m \in broker : PrepareRejected(w, m)
           \/ ProviderExecute(w) \/ ResultDiscarded(w) \/ WorkerLost(w)
  BY <1>2, NoRowMoves DEF PrepareRejected, ProviderExecute, ResultDiscarded, WorkerLost, dbVars
<1>3. ASSUME NEW m \in broker, NEW v \in Verdict, CancelBeforeExecution(w, m, v)
      PROVE  RowMoves
  <2>1. m[1] \in Action /\ action[m[1]].status = "PENDING"
    BY <1>3 DEF TypeOK, CancelBeforeExecution, Row
  <2>2. action' = [action EXCEPT ![m[1]] = Settled(action[m[1]], "FAILED")]
    BY <1>3 DEF CancelBeforeExecution
  <2>3. Settled(action[m[1]], "FAILED").status = "FAILED"
    BY <1>1, <2>1 DEF Settled, Released, ActionRow
  <2>4. action'[m[1]].status = "FAILED"
    BY <1>1, <2>1, <2>2, <2>3
  <2>. QED  BY <2>1, <2>2, <2>4, OneRowMoves DEF Prepared, Unsettled
<1>4. ASSUME NEW m \in broker, BeginAttempt(w, m)
      PROVE  RowMoves
  <2>1. m[1] \in Action /\ action[m[1]].status = "PENDING"
    BY <1>4 DEF TypeOK, BeginAttempt, CanBegin, Row
  <2>2. /\ action' = [action EXCEPT ![m[1]] = action'[m[1]]]
        /\ action'[m[1]].status = "PENDING"
    BY <1>1, <1>4, <2>1 DEF BeginAttempt, ActionRow
  <2>. QED  BY <2>1, <2>2, OneRowMoves DEF Prepared, Unsettled
<1>5. CASE RecordExecutionResult(w)
  <2>. DEFINE a == worker[w].action
  <2>1. a \in Action /\ action[a].open \in Token
    BY <1>5, WorkerCases DEF RecordExecutionResult, CanRecordResult, Busy, TypeOK, Row
  <2>2. action' = [action EXCEPT ![a] = Finished(action[a], worker[w].result)]
    BY <1>5 DEF RecordExecutionResult
  <2>. HIDE DEF a
  <2>3. Finished(action[a], worker[w].result).open = NoToken
    BY <1>1, <2>1 DEF Finished, Retried, Settled, Released, ActionRow
  <2>4. Recorded(a)
    BY <1>1, <2>1, <2>2, <2>3 DEF Recorded, Token, NoToken
  <2>. QED  BY <2>1, <2>2, <2>4, OneRowMoves
<1>. QED  BY <1>2, <1>3, <1>4, <1>5 DEF Execute

\* A lookup that is recorded settles its row by what the provider said.
LEMMA ReconcileMoves ==
    ASSUME TypeOK, CreditSafe, AnswersSafe, NEW r \in Recon, Reconcile(r)
    PROVE  RowMoves
<1>. DEFINE a == recon[r].action
<1>1. CASE (\E b \in Action : SelectForReconciliation(r, b)) \/ LookupProvider(r)
           \/ LookupDiscarded(r)
  BY <1>1, NoRowMoves DEF SelectForReconciliation, LookupProvider, LookupDiscarded, dbVars
<1>2. ASSUME recon[r].phase = "looked"
      PROVE  /\ a \in Action /\ action[a] \in ActionRow
             /\ recon[r].result \in {"SUCCEEDED", "PENDING", "FAILED", "UNKNOWN"}
             /\ action[a].open = NoToken
             /\ recon[r].result = "SUCCEEDED" => link[a] = "paid" \/ a \in charged
             /\ Class[a] = "MONEY_INTENT" =>
                  /\ recon[r].result = "PENDING" => Accepted(a)
                  /\ recon[r].result = "FAILED" => link[a] = "cancelled"
  BY <1>2, ReconCases DEF TypeOK, AnswersSafe, CreditSafe, EvidenceSafe, Backed, Row
<1>3. ASSUME a \in Action, action[a] \in ActionRow, action[a].open = NoToken,
             NEW status \in {"SUCCEEDED", "FAILED", "UNKNOWN"}, Known(a, status),
             NEW row, action' = [action EXCEPT ![a] = row],
             row.status = status, row.open = NoToken
      PROVE  RowMoves
  <2>1. action'[a] = row
    BY <1>3 DEF TypeOK
  <2>. HIDE DEF a
  <2>2. Evident(a)
    BY <1>3, <2>1 DEF Evident
  <2>. QED  BY <1>3, <2>2, OneRowMoves
<1>4. CASE ExpireByLookup(r)
  <2>0. recon[r].phase = "looked"
    BY <1>4 DEF ExpireByLookup
  <2>1. CASE action' = [action EXCEPT ![a] = [Settled(action[a], "UNKNOWN") EXCEPT !.dead = TRUE]]
    <3>1. /\ [Settled(action[a], "UNKNOWN") EXCEPT !.dead = TRUE].status = "UNKNOWN"
          /\ [Settled(action[a], "UNKNOWN") EXCEPT !.dead = TRUE].open = NoToken
      BY <1>2, <2>0 DEF Settled, Released, ActionRow
    <3>. QED  BY <1>2, <1>3, <2>0, <2>1, <3>1 DEF Known, Unsettled
  <2>2. CASE action' = [action EXCEPT ![a] = [action[a] EXCEPT !.dead = TRUE]]
    <3>1. a \in Action /\ action[a] \in ActionRow
      BY <1>2, <2>0
    <3>. HIDE DEF a
    <3>2. Left(a)
      BY <2>2, <3>1 DEF TypeOK, ActionRow, Left
    <3>. QED  BY <2>2, <3>1, <3>2, OneRowMoves
  <2>. QED  BY <1>4, <2>1, <2>2 DEF ExpireByLookup, Row
<1>5. CASE ResolveByLookup(r)
  <2>. DEFINE status == IF recon[r].result = "FAILED" THEN "FAILED" ELSE "SUCCEEDED"
              row == [Settled(action[a], status) EXCEPT !.linked = TRUE]
  <2>0. recon[r].phase = "looked" /\ recon[r].result # "UNKNOWN"
    BY <1>5 DEF ResolveByLookup, CanResolve
  <2>1. action' = [action EXCEPT ![a] = row] \/ action' = action
    BY <1>5 DEF ResolveByLookup
  <2>2. status \in {"SUCCEEDED", "FAILED", "UNKNOWN"} /\ Known(a, status)
    BY <1>2, <2>0 DEF Known, Unsettled, Accepted
  <2>3. row.status = status /\ row.open = NoToken
    BY <1>2, <2>0 DEF Settled, Released, ActionRow
  <2>. HIDE DEF row, status
  <2>. QED  BY <1>2, <1>3, <2>0, <2>1, <2>2, <2>3, NoRowMoves
<1>. QED  BY <1>1, <1>4, <1>5 DEF Reconcile, RecordLookup

\* A signed event that is verified settles its row because the money was paid.
LEMMA EventMoves ==
    ASSUME TypeOK, CreditSafe, AnswersSafe, NEW e \in Event, HandleEvent(e)
    PROVE  RowMoves
<1>1. CASE \/ \E a \in Action, viaLink, match \in BOOLEAN : ReceiveSigned(e, a, viaLink, match)
           \/ IgnoreSignedEvent(e) \/ StopOnMismatch(e)
  BY <1>1, NoRowMoves DEF ReceiveSigned, IgnoreSignedEvent, StopOnMismatch, dbVars
<1>2. CASE VerifySignedEvent(e)
  <2>. DEFINE a == event[e].about
              row == Paid(action[a], event[e].viaLink)
  <2>1. a \in Action /\ action[a] \in ActionRow
    BY <1>2, EventCases DEF VerifySignedEvent, TypeOK
  <2>2. action[a].open = NoToken
    BY <1>2, <2>1 DEF VerifySignedEvent, Finds, AnswersSafe, Row
  <2>3. link[a] = "paid" \/ a \in charged
    BY <1>2 DEF VerifySignedEvent, Matches, CreditSafe, EvidenceSafe, Backed
  <2>4. action' = [action EXCEPT ![a] = row]
    BY <1>2 DEF VerifySignedEvent
  <2>5. row.status = "SUCCEEDED" /\ row.open = NoToken
    BY <2>1, <2>2 DEF Paid, Settled, Released, ActionRow
  <2>. HIDE DEF a, row
  <2>6. action'[a] = row
    BY <2>1, <2>4 DEF TypeOK
  <2>7. Evident(a)
    BY <2>2, <2>3, <2>5, <2>6 DEF Evident, Known, Unsettled, Accepted
  <2>. QED  BY <2>1, <2>4, <2>7, OneRowMoves
<1>. QED  BY <1>1, <1>2 DEF HandleEvent

\* Whatever the step, every row moves in one of the four ways.
LEMMA StepMoves ==
    ASSUME TypeOK, CreditSafe, AnswersSafe, [Next]_vars
    PROVE  RowMoves
<1>1. CASE UNCHANGED vars
  BY <1>1, NoRowMoves DEF vars, dbVars
<1>. QED
  BY <1>1, DecideMoves, RowStepMoves, ExecuteMoves, ReconcileMoves, EventMoves DEF Next

\* A link that was accepted stays accepted, and one that was closed stays closed:
\* the provider executes the request of an action once.
LEMMA LinkStays ==
    ASSUME TypeOK, Safe, CreditSafe, [Next]_vars, NEW a \in Action
    PROVE  /\ Accepted(a) => Accepted(a)'
           /\ link[a] = "cancelled" => link'[a] = "cancelled"
<1>1. CASE link' = link
  BY <1>1 DEF Accepted
<1>2. ASSUME NEW b \in Action, LinkAppears(b) \/ PayLink(b) \/ CloseLink(b)
      PROVE  /\ Accepted(a) => Accepted(a)'
             /\ link[a] = "cancelled" => link'[a] = "cancelled"
  BY <1>2 DEF LinkAppears, PayLink, CloseLink, LinkMoves, Accepted, TypeOK
<1>3. ASSUME NEW w \in Worker, ProviderExecute(w)
      PROVE  /\ Accepted(a) => Accepted(a)'
             /\ link[a] = "cancelled" => link'[a] = "cancelled"
  <2>. DEFINE b == worker[w].action
  <2>1. b \in Action /\ effects[b] = 0
    <3>1. worker[w].phase = "calling" /\ Active(w)
      BY <1>3 DEF ProviderExecute, Busy, Active, Idle
    <3>. QED  BY <3>1, CallType DEF Safe, CallsSafe
  <2>2. link[b] = "none"
    BY <2>1 DEF CreditSafe, EvidenceSafe
  <2>3. \A c \in Action \ {b} : link'[c] = link[c]
    BY <1>3 DEF ProviderExecute, TypeOK
  <2>. QED  BY <2>1, <2>2, <2>3 DEF Accepted
<1>4. ASSUME NEW c \in Case, Decide(c)  PROVE link' = link
  BY <1>4
  DEF providerVars, Decide, ProcessRiskEvent, ReevaluateDeferred, ApproveReview, CloseReview,
      Evaluate, EvaluateTo
<1>5. ASSUME NEW b \in Action,
             \/ ClaimDueAction(b) \/ MarkStaleCallUnknown(b)
             \/ LeaseExpires(b) \/ DeadlinePasses(b)
      PROVE  link' = link
  BY <1>5 DEF providerVars, ClaimDueAction, MarkStaleCallUnknown, LeaseExpires, DeadlinePasses
<1>6. ASSUME NEW w \in Worker, Execute(w), ~ProviderExecute(w)  PROVE link' = link
  BY <1>6
  DEF providerVars, Execute, PrepareRejected, CancelBeforeExecution, BeginAttempt,
      RecordExecutionResult, ResultDiscarded, WorkerLost
<1>7. ASSUME NEW r \in Recon, Reconcile(r)  PROVE link' = link
  BY <1>7
  DEF providerVars, Reconcile, SelectForReconciliation, LookupProvider, RecordLookup,
      ExpireByLookup, ResolveByLookup, LookupDiscarded
<1>8. ASSUME NEW e \in Event, HandleEvent(e)  PROVE link' = link
  BY <1>8
  DEF providerVars, HandleEvent, ReceiveSigned, IgnoreSignedEvent, StopOnMismatch,
      VerifySignedEvent
<1>9. CASE UNCHANGED vars
  BY <1>1, <1>9 DEF vars, providerVars
<1>. QED
  BY <1>1, <1>2, <1>3, <1>4, <1>5, <1>6, <1>7, <1>8, <1>9 DEF Next, Environment

\* Only its own steps move a reconciler: it selects, it looks up, or it is done.
LEMMA ReconMoves ==
    ASSUME TypeOK, [Next]_vars, NEW r \in Recon
    PROVE  \/ recon'[r] = recon[r]
           \/ recon'[r] = Idle
           \/ \E a \in Action : SelectForReconciliation(r, a)
           \/ LookupProvider(r)
<1>1. ASSUME NEW q \in Recon, Reconcile(q)
      PROVE  \/ recon'[r] = recon[r]
             \/ recon'[r] = Idle
             \/ \E a \in Action : SelectForReconciliation(r, a)
             \/ LookupProvider(r)
  <2>1. CASE q = r
    BY <1>1, <2>1
    DEF Reconcile, RecordLookup, ExpireByLookup, ResolveByLookup, LookupDiscarded, TypeOK
  <2>2. CASE q # r
    BY <1>1, <2>2
    DEF Reconcile, RecordLookup, ExpireByLookup, ResolveByLookup, LookupDiscarded,
        SelectForReconciliation, LookupProvider, TypeOK
  <2>. QED  BY <2>1, <2>2
<1>2. recon' = recon \/ \E q \in Recon : Reconcile(q)
  <2>1. ASSUME NEW c \in Case, Decide(c)  PROVE recon' = recon
    BY <2>1
    DEF Decide, ProcessRiskEvent, ReevaluateDeferred, ApproveReview, CloseReview, Evaluate,
        EvaluateTo
  <2>2. ASSUME NEW a \in Action,
               ClaimDueAction(a) \/ MarkStaleCallUnknown(a) \/ Environment(a)
        PROVE  recon' = recon
    BY <2>2
    DEF ClaimDueAction, MarkStaleCallUnknown, Environment, LinkAppears, PayLink, CloseLink,
        LinkMoves, LeaseExpires, DeadlinePasses
  <2>3. ASSUME NEW w \in Worker, Execute(w)  PROVE recon' = recon
    BY <2>3
    DEF Execute, PrepareRejected, CancelBeforeExecution, BeginAttempt, ProviderExecute,
        RecordExecutionResult, ResultDiscarded, WorkerLost
  <2>4. ASSUME NEW e \in Event, HandleEvent(e)  PROVE recon' = recon
    BY <2>4
    DEF HandleEvent, ReceiveSigned, IgnoreSignedEvent, StopOnMismatch, VerifySignedEvent
  <2>5. CASE UNCHANGED vars
    BY <2>5 DEF vars
  <2>. QED  BY <2>1, <2>2, <2>3, <2>4, <2>5 DEF Next
<1>. QED  BY <1>1, <1>2

\* At the start there is no row and no reconciler at work.
LEMMA AnswersInit == Init => AnswersSafe
BY DEF Init, AnswersSafe, NoAction, Idle, Row

LEMMA AnswersStep ==
    TypeOK /\ Safe /\ CreditSafe /\ AnswersSafe /\ [Next]_vars => AnswersSafe'
<1>. SUFFICES ASSUME TypeOK, Safe, CreditSafe, AnswersSafe, [Next]_vars
              PROVE  AnswersSafe'
  OBVIOUS
<1>1. RowMoves
  BY StepMoves
<1>2. ASSUME NEW a \in Action, Row(a).status \notin Unsettled, Row(a).open = NoToken
      PROVE  action'[a].status \notin Unsettled /\ action'[a].open = NoToken
  BY <1>1, <1>2 DEF RowMoves, Left, Prepared, Recorded, Evident, Known, Row
<1>3. ASSUME NEW a \in Action, action'[a].status \in {"SUCCEEDED", "UNKNOWN"}
      PROVE  action'[a].open = NoToken
  BY <1>1, <1>3 DEF RowMoves, Left, Prepared, Recorded, Evident, AnswersSafe, Row
<1>4. ASSUME NEW r \in Recon, recon'[r].phase \in {"selected", "looked"}
      PROVE  /\ action'[recon'[r].action].status \notin Unsettled
             /\ action'[recon'[r].action].open = NoToken
  <2>1. CASE recon'[r] = recon[r]
    <3>1. recon[r].action \in Action
      BY <1>4, <2>1, ReconCases DEF TypeOK
    <3>. QED  BY <1>2, <1>4, <2>1, <3>1 DEF AnswersSafe
  <2>2. ASSUME NEW a \in Action, SelectForReconciliation(r, a)
        PROVE  /\ action'[recon'[r].action].status \notin Unsettled
               /\ action'[recon'[r].action].open = NoToken
    <3>1. recon'[r].action = a /\ action' = action
      BY <2>2 DEF SelectForReconciliation, dbVars, TypeOK
    <3>. QED  BY <2>2, <3>1 DEF SelectForReconciliation, AnswersSafe, Row, Unsettled
  <2>3. CASE LookupProvider(r)
    <3>1. recon'[r].action = recon[r].action /\ action' = action
      BY <2>3 DEF LookupProvider, dbVars, TypeOK
    <3>. QED  BY <2>3, <3>1 DEF LookupProvider, AnswersSafe, Row
  <2>. QED  BY <1>4, <2>1, <2>2, <2>3, ReconMoves DEF Idle
<1>5. ASSUME NEW r \in Recon, recon'[r].phase = "looked",
             Class[recon'[r].action] = "MONEY_INTENT"
      PROVE  /\ recon'[r].result = "PENDING" => link'[recon'[r].action] \in {"created", "paid", "cancelled"}
             /\ recon'[r].result = "FAILED" => link'[recon'[r].action] = "cancelled"
  <2>1. CASE recon'[r] = recon[r]
    <3>1. recon[r].action \in Action
      BY <1>5, <2>1, ReconCases DEF TypeOK
    <3>2. PICK a \in Action : a = recon[r].action
      BY <3>1
    <3>3. /\ recon[r].result = "PENDING" => Accepted(a)
          /\ recon[r].result = "FAILED" => link[a] = "cancelled"
      BY <1>5, <2>1, <3>2 DEF AnswersSafe
    <3>4. /\ Accepted(a) => link'[a] \in {"created", "paid", "cancelled"}
          /\ link[a] = "cancelled" => link'[a] = "cancelled"
      BY LinkStays DEF Accepted
    <3>. QED  BY <2>1, <3>2, <3>3, <3>4
  <2>2. CASE \E a \in Action : SelectForReconciliation(r, a)
    BY <1>5, <2>2 DEF SelectForReconciliation, TypeOK
  <2>3. CASE LookupProvider(r)
    <3>1. /\ recon'[r].action = recon[r].action
          /\ recon'[r].result \in LookupAnswers(recon[r].action)
          /\ link' = link
      BY <2>3 DEF LookupProvider, providerVars, TypeOK
    <3>. QED  BY <1>5, <3>1 DEF LookupAnswers
  <2>. QED  BY <1>5, <2>1, <2>2, <2>3, ReconMoves DEF Idle
<1>. QED  BY <1>3, <1>4, <1>5 DEF AnswersSafe, Accepted, Row

LEMMA AnswersHold == Spec => []AnswersSafe
<1>. QED  BY AnswersInit, AnswersStep, TypeCorrect, SafeHolds, CreditHolds, PTL DEF Spec

\* A call whose result is unknown is settled only by what the provider says or
\* by a signed payment, never by a guess: a payment-link action leaves UNKNOWN
\* for SUCCEEDED only when its link was accepted or its target charged, and for
\* FAILED only when the provider closed the link (record_lookup, process_signed
\* success events), however lookups, webhooks and late results interleave.
THEOREM UnknownIsResolvedByFact == Spec => UnknownResolvedByFact
<1>1. TypeOK /\ TypeOK' /\ CreditSafe /\ AnswersSafe /\ [Next]_vars
        => [\A a \in Action : Row(a).status = "UNKNOWN" /\ Class[a] = "MONEY_INTENT" =>
              \/ action'[a].status = "UNKNOWN"
              \/ action'[a].status = "SUCCEEDED" /\ (link[a] \in {"created", "paid", "cancelled"}
                                                     \/ a \in charged)
              \/ action'[a].status = "FAILED" /\ link[a] = "cancelled"]_vars
  BY StepMoves
  DEF RowMoves, Left, Prepared, Recorded, Evident, Known, Accepted, AnswersSafe, Row, Unsettled
<1>. QED
  BY <1>1, TypeCorrect, CreditHolds, AnswersHold, PTL DEF Spec, UnknownResolvedByFact
=============================================================================
