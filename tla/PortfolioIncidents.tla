------------------------- MODULE PortfolioIncidents -------------------------
(***************************************************************************)
(* The detection of payment incidents: outcomes of payments become         *)
(* observations, the degradation rule compares the current window with the *)
(* baseline before it, and its assessments open, refresh, clear and        *)
(* resolve the incident of a dimension.  An assessment is made when an     *)
(* outcome is processed, as of the moment the webhook was received, which  *)
(* may be long before; and by the maintenance task, as of now.             *)
(*                                                                         *)
(* Every time is an age, the time since then, so the clock has no bound.   *)
(* What an incident does to the cases it reaches is in RecoveryDecision.   *)
(***************************************************************************)
EXTENDS Integers, FiniteSets

CONSTANTS
    Merchant,
    Rail,           \* (payment method, issuer family) pairs
    Family,         \* error families of failed payments
    Slot,           \* outcomes that are in the inbox or in a window at one time
    BaselineWindow, CurrentWindow, MinBaseline, MinCurrent,     \* DegradationPolicy
    ClearWindows,
    MaxLag,         \* bound: how long an outcome waits in the inbox
    MerchantOrder,  \* MerchantOrder[m]: the place of the merchant's id
    MerchantLimit   \* portfolio_maintenance_merchant_batch_size

MinRate     == 2500
MinIncrease == 1500
MinRatio    == 20000

ASSUME WindowsAssumption ==
    /\ {BaselineWindow, CurrentWindow, MinBaseline, MinCurrent, ClearWindows} \subseteq Nat \ {0}
    /\ CurrentWindow < BaselineWindow /\ MaxLag \in Nat /\ MerchantLimit \in Nat \ {0}
ASSUME MerchantsAssumption ==
    /\ MerchantOrder \in [Merchant -> Nat]
    /\ \A m, n \in Merchant : MerchantOrder[m] = MerchantOrder[n] => m = n

Success   == "NONE"
Dimension == [merchant : Merchant, rail : Rail, family : Family]

\* An age that no comparison of the code tells from a greater one.
Horizon == BaselineWindow + ClearWindows * CurrentWindow + MaxLag

VARIABLES
    outcome,        \* outcome[s]: an outcome in the inbox, or its observation
    incident,       \* incident[d]: the ACTIVE portfolio_incidents row of the dimension
    degradedAt      \* history: as of when the dimension was last assessed as degraded

vars == <<outcome, incident, degradedAt>>

NoOutcome  == [stage |-> "FREE"]
NoIncident == [status |-> "NONE"]

Outcome ==
    [stage : {"RECEIVED", "OBSERVED"}, merchant : Merchant, rail : Rail,
     family : Family \cup {Success}, age : 0..Horizon]
ActiveIncident == [status : {"ACTIVE"}, clear : 0..ClearWindows - 1, updated : 0..Horizon]

Init ==
    /\ outcome = [s \in Slot |-> NoOutcome]
    /\ incident = [d \in Dimension |-> NoIncident]
    /\ degradedAt = [d \in Dimension |-> Horizon]

-----------------------------------------------------------------------------
(***************************************************************************)
(* assess_payment_degradation, of the observations obs as of `back' ago.   *)
(***************************************************************************)
Observed(obs) == {s \in Slot : obs[s].stage = "OBSERVED"}

InWindow(obs, m, back) ==
    {s \in Observed(obs) : obs[s].merchant = m /\ obs[s].age - back \in 0..BaselineWindow}

\* The dimensions that have a failure in the window.
Assessed(obs, m, back) ==
    {d \in Dimension : /\ d.merchant = m
                       /\ \E s \in InWindow(obs, m, back) :
                             obs[s].rail = d.rail /\ obs[s].family = d.family}

\* A success of a rail counts for each of its error families.
Relevant(obs, d, back) ==
    {s \in InWindow(obs, d.merchant, back) :
        obs[s].rail = d.rail /\ obs[s].family \in {d.family, Success}}

IsCurrent(obs, s, back) == obs[s].age - back <= CurrentWindow
Current(obs, d, back)   == {s \in Relevant(obs, d, back) : IsCurrent(obs, s, back)}
Baseline(obs, d, back)  == Relevant(obs, d, back) \ Current(obs, d, back)

Failures(obs, ss) == {s \in ss : obs[s].family # Success}

\* _rate_basis_points.
Rate(obs, ss) ==
    IF ss = {} THEN 0
    ELSE (Cardinality(Failures(obs, ss)) * 10000) \div Cardinality(ss)

Ratio(current, baseline) ==
    IF baseline > 0 THEN (current * 10000) \div baseline
    ELSE IF current > 0 THEN 100000 ELSE 10000

Degraded(obs, d, back) ==
    LET current  == Rate(obs, Current(obs, d, back))
        baseline == Rate(obs, Baseline(obs, d, back))
    IN  /\ Cardinality(Baseline(obs, d, back)) >= MinBaseline
        /\ Cardinality(Current(obs, d, back)) >= MinCurrent
        /\ current >= MinRate
        /\ current - baseline >= MinIncrease
        /\ Ratio(current, baseline) >= MinRatio

-----------------------------------------------------------------------------
(***************************************************************************)
(* apply_degradation_assessment.                                           *)
(***************************************************************************)
Active(d) == incident[d].status = "ACTIVE"

Opened(back) == [status |-> "ACTIVE", clear |-> 0, updated |-> back]

Refreshed(d, back) == Opened(back)

\* Slip: a clear window counts as soon as it is assessed.
ElapsedAlways(d, back) == Active(d)

\* The assessment is not older than one window after the last one that counted.
Elapsed(d, back) == incident[d].updated - back >= CurrentWindow

Cleared(d, back) ==
    IF ~Elapsed(d, back) THEN incident[d]
    ELSE IF incident[d].clear + 1 >= ClearWindows THEN NoIncident
    ELSE [incident[d] EXCEPT !.clear = @ + 1, !.updated = back]

Applied(obs, d, back) ==
    IF Degraded(obs, d, back) THEN Refreshed(d, back)
    ELSE IF Active(d) THEN Cleared(d, back)
    ELSE incident[d]

\* Every assessment of the set is applied, as of `back' ago.
Apply(obs, assessments, back) ==
    /\ incident' = [d \in Dimension |->
          IF d \in assessments THEN Applied(obs, d, back) ELSE incident[d]]
    /\ degradedAt' = [d \in Dimension |->
          IF d \in assessments /\ Degraded(obs, d, back) THEN back ELSE degradedAt[d]]

-----------------------------------------------------------------------------
(***************************************************************************)
(* The gateway stores the webhook of an outcome; the event worker stores   *)
(* the observation and assesses the merchant as of received_at.  Outcomes  *)
(* wait in the inbox for as long as the worker's retries take, and are     *)
(* processed in any order.                                                 *)
(***************************************************************************)
Receive(s, m, rail, family) ==
    /\ outcome[s] = NoOutcome
    /\ outcome' = [outcome EXCEPT ![s] =
          [stage |-> "RECEIVED", merchant |-> m, rail |-> rail, family |-> family, age |-> 0]]
    /\ UNCHANGED <<incident, degradedAt>>

Observation(s) == [outcome EXCEPT ![s].stage = "OBSERVED"]

ObserveAndEvaluate(s) ==
    LET back == outcome[s].age
        m == outcome[s].merchant
    IN  /\ outcome[s].stage = "RECEIVED"
        /\ outcome' = Observation(s)
        /\ Apply(Observation(s), Assessed(Observation(s), m, back), back)

(***************************************************************************)
(* maintain_portfolios, every minute and in one transaction: the first     *)
(* merchants, by id, that have an observation in the window or an incident.*)
(* An incident without a failure in the window is assessed as clear.       *)
(***************************************************************************)
Portfolio ==
    {m \in Merchant : \/ InWindow(outcome, m, 0) # {}
                      \/ \E d \in Dimension : d.merchant = m /\ Active(d)}

Maintained ==
    {m \in Portfolio :
        Cardinality({n \in Portfolio : MerchantOrder[n] < MerchantOrder[m]}) < MerchantLimit}

\* Slip: only the dimensions that still have failures are assessed.
FailingOnly(m) == Assessed(outcome, m, 0)

ToAssess(m) ==
    Assessed(outcome, m, 0) \cup {d \in Dimension : d.merchant = m /\ Active(d)}

MaintainPortfolios ==
    /\ Apply(outcome, UNION {ToAssess(m) : m \in Maintained}, 0)
    /\ UNCHANGED outcome

\* An observation outside every window is as good as gone.
Older(s) ==
    IF outcome[s].stage = "FREE" \/ outcome[s].age + 1 > BaselineWindow + MaxLag
    THEN NoOutcome
    ELSE [outcome[s] EXCEPT !.age = @ + 1]

Aged(age) == IF age < Horizon THEN age + 1 ELSE age

Tick ==
    /\ \A s \in Slot : outcome[s].stage = "RECEIVED" => outcome[s].age < MaxLag
    /\ outcome' = [s \in Slot |-> Older(s)]
    /\ incident' = [d \in Dimension |->
          IF Active(d) THEN [incident[d] EXCEPT !.updated = Aged(@)] ELSE incident[d]]
    /\ degradedAt' = [d \in Dimension |-> Aged(degradedAt[d])]

Next ==
    \/ Tick
    \/ MaintainPortfolios
    \/ \E s \in Slot : ObserveAndEvaluate(s)
    \/ \E s \in Slot, m \in Merchant, rail \in Rail, family \in Family \cup {Success} :
          Receive(s, m, rail, family)

Spec == Init /\ [][Next]_vars

\* Time passes, the event worker works its queue, and the beat starts the
\* maintenance every minute.
FairSpec ==
    /\ Spec /\ WF_vars(Tick) /\ WF_vars(MaintainPortfolios)
    /\ \A s \in Slot : WF_vars(ObserveAndEvaluate(s))

-----------------------------------------------------------------------------
(***************************************************************************)
(* Properties.                                                             *)
(***************************************************************************)
TypeOK ==
    /\ \A s \in Slot : outcome[s] \in Outcome \cup {NoOutcome}
    /\ \A d \in Dimension : incident[d] \in ActiveIncident \cup {NoIncident}
    /\ degradedAt \in [Dimension -> 0..Horizon]

\* The age of the moment as of which the step assesses.
AsOf ==
    IF \E s \in Slot : outcome'[s] = Observation(s)[s] /\ outcome[s] # outcome'[s]
    THEN outcome[CHOOSE s \in Slot : outcome[s] # outcome'[s]].age
    ELSE 0

Resolves(d) == Active(d) /\ incident'[d] = NoIncident

\* An incident is resolved only when as many whole windows as the policy asks for
\* lie between the last assessment that found degradation and the one that resolves
\* it, in whatever order late outcomes are processed and however often the dimension
\* is assessed in between.
ResolvedAfterClearWindows ==
    [][\A d \in Dimension :
          Resolves(d) => degradedAt[d] - AsOf >= ClearWindows * CurrentWindow]_vars

\* A dimension that has had no failure within a window of late outcomes is rid of
\* its incident at some time, also when no further outcome of the merchant arrives.
IncidentClears ==
    \A d \in Dimension :
        []<>(~Active(d) \/ \E s \in Relevant(outcome, d, 0) :
                /\ outcome[s].family = d.family
                /\ outcome[s].age <= CurrentWindow + MaxLag)
=============================================================================
