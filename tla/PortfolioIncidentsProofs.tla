---------------------- MODULE PortfolioIncidentsProofs ----------------------
(***************************************************************************)
(* Theorems about PortfolioIncidents, for every set of merchants, rails and*)
(* error families and every policy: the types, and that an incident is     *)
(* resolved only after the clear windows the policy asks for.              *)
(*                                                                         *)
(* The windows are counted by `clear' and dated by `updated', while the    *)
(* property speaks of the last degraded assessment.  The invariant ties the*)
(* three together: `clear' whole windows lie between that assessment and   *)
(* the one that set `updated'.                                             *)
(***************************************************************************)
EXTENDS PortfolioIncidents, TLAPS

\* The rows are functions of their keys.
Tables ==
    /\ outcome \in [Slot -> Outcome \cup {NoOutcome}]
    /\ incident \in [Dimension -> ActiveIncident \cup {NoIncident}]
    /\ degradedAt \in [Dimension -> 0..Horizon]

\* An outcome that waits was received no longer ago than the inbox can keep it.
Punctual == \A s \in Slot : outcome[s].stage = "RECEIVED" => outcome[s].age <= MaxLag

\* Every clear window that was counted lies after the last degraded assessment,
\* unless that assessment is so old that no comparison can tell.
Paced ==
    \A d \in Dimension :
        Active(d) => \/ degradedAt[d] = Horizon
                     \/ degradedAt[d] - incident[d].updated >= incident[d].clear * CurrentWindow

Safe == Tables /\ Punctual /\ Paced

-----------------------------------------------------------------------------
(* Lemmas about the operators.                                             *)

LEMMA WindowsAreNat ==
    /\ BaselineWindow \in Nat \ {0} /\ CurrentWindow \in Nat \ {0}
    /\ ClearWindows \in Nat \ {0} /\ MaxLag \in Nat
BY WindowsAssumption

\* A number of windows takes no negative time.
LEMMA WindowsLast ==
    ASSUME NEW n \in Nat
    PROVE  /\ n * CurrentWindow \in Nat
           /\ (n + 1) * CurrentWindow = n * CurrentWindow + CurrentWindow
BY WindowsAreNat

LEMMA HorizonIsFar ==
    /\ Horizon \in Nat
    /\ BaselineWindow + MaxLag <= Horizon
    /\ Horizon - MaxLag >= ClearWindows * CurrentWindow
<1>1. ClearWindows * CurrentWindow \in Nat
  BY WindowsAreNat, WindowsLast
<1>. QED  BY <1>1, WindowsAreNat DEF Horizon

\* The row of an incident after one more clear window was counted, `back' ago.
CountedAt(row, d, back) ==
    /\ row \in ActiveIncident
    /\ row.clear = incident[d].clear + 1 /\ row.updated = back

\* What one assessment makes of one incident, as of a moment that is not older
\* than an outcome can wait: it opens it, leaves it, counts a window, or resolves
\* it when enough windows have been counted.
LEMMA OneAssessment ==
    ASSUME Tables, NEW d \in Dimension, NEW obs, NEW back \in 0..MaxLag
    PROVE  /\ Degraded(obs, d, back) => Applied(obs, d, back) = Opened(back)
           /\ ~Degraded(obs, d, back) =>
                \/ Applied(obs, d, back) = incident[d]
                \/ /\ Active(d) /\ incident[d].updated - back >= CurrentWindow
                   /\ incident[d].clear + 1 < ClearWindows
                   /\ CountedAt(Applied(obs, d, back), d, back)
                \/ /\ Active(d) /\ incident[d].updated - back >= CurrentWindow
                   /\ incident[d].clear + 1 = ClearWindows
                   /\ Applied(obs, d, back) = NoIncident
<1>1. Degraded(obs, d, back) => Applied(obs, d, back) = Opened(back)
  BY DEF Applied, Refreshed
<1>2. ASSUME ~Degraded(obs, d, back), ~Active(d) PROVE Applied(obs, d, back) = incident[d]
  BY <1>2 DEF Applied
<1>3. ASSUME ~Degraded(obs, d, back), Active(d)
      PROVE  \/ Applied(obs, d, back) = incident[d]
             \/ /\ incident[d].updated - back >= CurrentWindow
                /\ incident[d].clear + 1 < ClearWindows
                /\ CountedAt(Applied(obs, d, back), d, back)
             \/ /\ incident[d].updated - back >= CurrentWindow
                /\ incident[d].clear + 1 = ClearWindows
                /\ Applied(obs, d, back) = NoIncident
  <2>1. incident[d] \in ActiveIncident
    BY <1>3 DEF Tables, Active, NoIncident
  <2>2. Applied(obs, d, back) = Cleared(d, back)
    BY <1>3 DEF Applied
  <2>3. CASE ~Elapsed(d, back)
    BY <2>2, <2>3 DEF Cleared
  <2>4. CASE Elapsed(d, back) /\ incident[d].clear + 1 >= ClearWindows
    BY <2>1, <2>2, <2>4, WindowsAreNat DEF Cleared, Elapsed, ActiveIncident
  <2>5. CASE Elapsed(d, back) /\ ~(incident[d].clear + 1 >= ClearWindows)
    <3>1. Applied(obs, d, back) = [incident[d] EXCEPT !.clear = @ + 1, !.updated = back]
      BY <2>2, <2>5 DEF Cleared
    <3>2. CountedAt(Applied(obs, d, back), d, back)
      <4>. DEFINE row == [incident[d] EXCEPT !.clear = @ + 1, !.updated = back]
      <4>1. incident[d].clear + 1 \in 0..(ClearWindows - 1) /\ back \in 0..Horizon
        BY <2>1, <2>5, HorizonIsFar, WindowsAreNat DEF ActiveIncident
      <4>2. row \in ActiveIncident
        BY <2>1, <4>1 DEF ActiveIncident
      <4>3. row.clear = incident[d].clear + 1
        BY <2>1 DEF ActiveIncident
      <4>4. row.updated = back
        BY <2>1 DEF ActiveIncident
      <4>. QED  BY <3>1, <4>2, <4>3, <4>4 DEF CountedAt
    <3>3. incident[d].clear + 1 < ClearWindows
      BY <2>1, <2>5, WindowsAreNat DEF ActiveIncident
    <3>. QED  BY <2>5, <3>2, <3>3 DEF Elapsed
  <2>. QED  BY <2>3, <2>4, <2>5
<1>. QED  BY <1>1, <1>2, <1>3

-----------------------------------------------------------------------------
(* Every step keeps the invariant.                                         *)

\* A set of assessments of one moment keeps the incidents typed and paced, and
\* resolves only those that have been clear for long enough.
LEMMA ApplySafe ==
    ASSUME Tables, Paced, NEW obs, NEW assessments, NEW back \in 0..MaxLag,
           Apply(obs, assessments, back)
    PROVE  /\ incident' \in [Dimension -> ActiveIncident \cup {NoIncident}]
           /\ degradedAt' \in [Dimension -> 0..Horizon]
           /\ Paced'
           /\ \A d \in Dimension :
                 Resolves(d) => degradedAt[d] - back >= ClearWindows * CurrentWindow
<1>0. back \in 0..Horizon /\ Opened(back) \in ActiveIncident
  BY HorizonIsFar, WindowsAreNat DEF Opened, ActiveIncident
<1>1. ASSUME NEW d \in Dimension
      PROVE  /\ incident'[d] \in ActiveIncident \cup {NoIncident}
             /\ degradedAt'[d] \in 0..Horizon
             /\ incident'[d].status = "ACTIVE" =>
                   \/ degradedAt'[d] = Horizon
                   \/ degradedAt'[d] - incident'[d].updated >= incident'[d].clear * CurrentWindow
             /\ Resolves(d) => degradedAt[d] - back >= ClearWindows * CurrentWindow
  <2>0. /\ incident[d] \in ActiveIncident \cup {NoIncident} /\ degradedAt[d] \in 0..Horizon
        /\ Active(d) => incident[d] \in ActiveIncident
        /\ Active(d) => \/ degradedAt[d] = Horizon
                        \/ degradedAt[d] - incident[d].updated >= incident[d].clear * CurrentWindow
    BY DEF Tables, Paced, Active, NoIncident
  <2>1. CASE d \in assessments /\ Degraded(obs, d, back)
    <3>1. incident'[d] = Opened(back) /\ degradedAt'[d] = back
      BY <2>1, OneAssessment DEF Apply
    <3>2. 0 * CurrentWindow = 0 /\ back - back = 0
      BY WindowsAreNat
    <3>. QED  BY <1>0, <3>1, <3>2 DEF Opened, Resolves, NoIncident
  <2>2. CASE incident'[d] = incident[d] /\ degradedAt'[d] = degradedAt[d]
    BY <2>0, <2>2 DEF Resolves, Active, NoIncident
  <2>3. CASE /\ Active(d) /\ incident[d].updated - back >= CurrentWindow
             /\ incident[d].clear + 1 < ClearWindows /\ degradedAt'[d] = degradedAt[d]
             /\ CountedAt(incident'[d], d, back)
    <3>1. incident[d].clear \in Nat /\ incident[d].updated \in Nat
      BY <2>0, <2>3, HorizonIsFar DEF ActiveIncident
    <3>2. incident'[d] \in ActiveIncident
      BY <2>3 DEF CountedAt
    <3>3. (incident[d].clear + 1) * CurrentWindow = incident[d].clear * CurrentWindow + CurrentWindow
          /\ incident[d].clear * CurrentWindow \in Nat
      BY <3>1, WindowsLast
    <3>4. \/ degradedAt[d] = Horizon
          \/ degradedAt[d] - back >= (incident[d].clear + 1) * CurrentWindow
      BY <2>0, <2>3, <3>1, <3>3, HorizonIsFar, WindowsAreNat
    <3>. QED  BY <2>0, <2>3, <3>2, <3>4 DEF Resolves, NoIncident, CountedAt, ActiveIncident
  <2>4. CASE /\ Active(d) /\ incident[d].updated - back >= CurrentWindow
             /\ incident[d].clear + 1 = ClearWindows /\ degradedAt'[d] = degradedAt[d]
             /\ incident'[d] = NoIncident
    <3>1. incident[d].clear \in Nat /\ incident[d].updated \in Nat
      BY <2>0, <2>4, HorizonIsFar DEF ActiveIncident
    <3>2. ClearWindows * CurrentWindow = incident[d].clear * CurrentWindow + CurrentWindow
          /\ incident[d].clear * CurrentWindow \in Nat
      BY <2>4, <3>1, WindowsLast
    <3>3. degradedAt[d] - back >= ClearWindows * CurrentWindow
      <4>1. CASE degradedAt[d] = Horizon
        <5>1. ClearWindows * CurrentWindow \in Nat
          BY <3>2, WindowsAreNat
        <5>. QED  BY <4>1, <5>1, HorizonIsFar, WindowsAreNat
      <4>2. CASE degradedAt[d] - incident[d].updated >= incident[d].clear * CurrentWindow
        BY <2>0, <2>4, <3>1, <3>2, <4>2, HorizonIsFar, WindowsAreNat
      <4>. QED  BY <2>0, <2>4, <4>1, <4>2
    <3>. QED  BY <2>0, <2>4, <3>3 DEF NoIncident
  <2>. QED  BY <2>1, <2>2, <2>3, <2>4, OneAssessment DEF Apply
<1>2. incident' = [d \in Dimension |-> incident'[d]] /\ degradedAt' = [d \in Dimension |-> degradedAt'[d]]
  BY DEF Apply
<1>. QED  BY <1>1, <1>2 DEF Paced, Active

\* An observation changes the row of its outcome only.
LEMMA ObservationType ==
    ASSUME Tables, Punctual, NEW s \in Slot, outcome[s].stage = "RECEIVED",
           outcome' = Observation(s)
    PROVE  /\ outcome' \in [Slot -> Outcome \cup {NoOutcome}]
           /\ Punctual'
           /\ outcome[s].age \in 0..MaxLag
           /\ AsOf = outcome[s].age
<1>1. outcome[s] \in Outcome
  BY DEF Tables, NoOutcome
<1>2. /\ outcome'[s] = [outcome[s] EXCEPT !.stage = "OBSERVED"]
      /\ \A t \in Slot \ {s} : outcome'[t] = outcome[t]
      /\ outcome' = [t \in Slot |-> outcome'[t]]
  BY DEF Observation, Tables
<1>3. outcome'[s] \in Outcome /\ outcome'[s].stage = "OBSERVED"
  BY <1>1, <1>2 DEF Outcome
<1>4. \A t \in Slot : outcome[t] # outcome'[t] <=> t = s
  BY <1>2, <1>3
<1>5. (CHOOSE t \in Slot : outcome[t] # outcome'[t]) = s
  BY <1>4
<1>6. outcome[s].age \in 0..MaxLag
  BY <1>1, HorizonIsFar, WindowsAreNat DEF Punctual, Outcome
<1>7. AsOf = outcome[s].age
  <2>1. \E t \in Slot : outcome'[t] = Observation(t)[t] /\ outcome[t] # outcome'[t]
    BY <1>4
  <2>. QED  BY <1>5, <2>1 DEF AsOf
<1>8. \A t \in Slot : outcome'[t] \in Outcome \cup {NoOutcome}
  BY <1>2, <1>3 DEF Tables
<1>9. Punctual'
  BY <1>2, <1>3 DEF Punctual
<1>. QED  BY <1>2, <1>6, <1>7, <1>8, <1>9

\* Time passes for the outcomes.
LEMMA OlderType ==
    ASSUME Tables, NEW s \in Slot, outcome[s].stage = "RECEIVED" => outcome[s].age < MaxLag
    PROVE  /\ Older(s) \in Outcome \cup {NoOutcome}
           /\ Older(s).stage = "RECEIVED" => Older(s).age <= MaxLag
<1>1. CASE Older(s) = NoOutcome
  BY <1>1 DEF NoOutcome
<1>2. CASE /\ outcome[s].stage # "FREE" /\ ~(outcome[s].age + 1 > BaselineWindow + MaxLag)
           /\ Older(s) = [outcome[s] EXCEPT !.age = @ + 1]
  <2>1. outcome[s] \in Outcome
    BY <1>2 DEF Tables, NoOutcome
  <2>2. outcome[s].age + 1 \in 0..Horizon
    BY <1>2, <2>1, HorizonIsFar, WindowsAreNat DEF Outcome
  <2>. QED  BY <1>2, <2>1, <2>2, HorizonIsFar, WindowsAreNat DEF Outcome
<1>. QED  BY <1>1, <1>2 DEF Older

\* Time passes for the incidents.
LEMMA TickSafe ==
    ASSUME Safe, Tick
    PROVE  Safe' /\ \A d \in Dimension : ~Resolves(d)
<1>1. outcome' \in [Slot -> Outcome \cup {NoOutcome}] /\ Punctual'
  BY OlderType DEF Safe, Tick, Punctual
<1>2. \A n \in 0..Horizon : Aged(n) \in 0..Horizon
  BY HorizonIsFar DEF Aged
<1>3. degradedAt' \in [Dimension -> 0..Horizon]
  BY <1>2 DEF Safe, Tables, Tick
<1>4. ASSUME NEW d \in Dimension
      PROVE  /\ incident'[d] \in ActiveIncident \cup {NoIncident}
             /\ ~Resolves(d)
             /\ incident'[d].status = "ACTIVE" =>
                   \/ degradedAt'[d] = Horizon
                   \/ degradedAt'[d] - incident'[d].updated >= incident'[d].clear * CurrentWindow
  <2>1. CASE ~Active(d)
    BY <2>1 DEF Safe, Tables, Tick, Active, Resolves
  <2>2. CASE Active(d)
    <3>1. incident[d] \in ActiveIncident /\ degradedAt[d] \in 0..Horizon
      BY <2>2 DEF Safe, Tables, Active, NoIncident
    <3>2. incident'[d] = [status |-> "ACTIVE", clear |-> incident[d].clear,
                          updated |-> Aged(incident[d].updated)]
      BY <2>2, <3>1 DEF Tick, ActiveIncident
    <3>3. incident'[d] \in ActiveIncident
      BY <1>2, <3>1, <3>2 DEF ActiveIncident
    <3>4. incident[d].clear * CurrentWindow \in Nat /\ incident[d].updated \in 0..Horizon
      BY <3>1, WindowsLast, WindowsAreNat DEF ActiveIncident
    <3>5. degradedAt'[d] = Aged(degradedAt[d])
      BY DEF Tick
    <3>6. \/ degradedAt[d] = Horizon
          \/ degradedAt[d] - incident[d].updated >= incident[d].clear * CurrentWindow
      BY <2>2 DEF Safe, Paced
    <3>7. \/ degradedAt'[d] = Horizon
          \/ degradedAt'[d] - Aged(incident[d].updated) >= incident[d].clear * CurrentWindow
      BY <3>1, <3>4, <3>5, <3>6, HorizonIsFar DEF Aged
    <3>. QED  BY <3>2, <3>3, <3>7 DEF Resolves, NoIncident
  <2>. QED  BY <2>1, <2>2
<1>5. incident' = [d \in Dimension |-> incident'[d]]
  BY DEF Tick
<1>. QED  BY <1>1, <1>3, <1>4, <1>5 DEF Safe, Tables, Paced, Active

\* Every step keeps the invariant, and every resolution is late enough.
LEMMA SafeStep ==
    ASSUME Safe, [Next]_vars
    PROVE  /\ Safe'
           /\ \A d \in Dimension :
                 Resolves(d) => degradedAt[d] - AsOf >= ClearWindows * CurrentWindow
<1>1. CASE Tick
  BY <1>1, TickSafe
<1>2. CASE MaintainPortfolios
  <2>1. 0 \in 0..MaxLag
    BY WindowsAreNat
  <2>2. AsOf = 0
    BY <1>2 DEF MaintainPortfolios, AsOf
  <2>. QED  BY <1>2, <2>1, <2>2, ApplySafe DEF MaintainPortfolios, Safe, Tables, Punctual
<1>3. ASSUME NEW s \in Slot, ObserveAndEvaluate(s)
      PROVE  /\ Safe'
             /\ \A d \in Dimension :
                   Resolves(d) => degradedAt[d] - AsOf >= ClearWindows * CurrentWindow
  <2>1. /\ outcome[s].stage = "RECEIVED" /\ outcome' = Observation(s)
        /\ \E assessments : Apply(Observation(s), assessments, outcome[s].age)
    BY <1>3 DEF ObserveAndEvaluate
  <2>2. /\ outcome' \in [Slot -> Outcome \cup {NoOutcome}] /\ Punctual'
        /\ outcome[s].age \in 0..MaxLag /\ AsOf = outcome[s].age
    BY <2>1, ObservationType DEF Safe
  <2>. QED  BY <2>1, <2>2, ApplySafe DEF Safe, Tables
<1>4. ASSUME NEW s \in Slot, NEW m \in Merchant, NEW rail \in Rail,
             NEW family \in Family \cup {Success}, Receive(s, m, rail, family)
      PROVE  Safe' /\ \A d \in Dimension : ~Resolves(d)
  <2>. DEFINE row == [stage |-> "RECEIVED", merchant |-> m, rail |-> rail, family |-> family,
                      age |-> 0]
  <2>1. row \in Outcome /\ row.age <= MaxLag
    BY HorizonIsFar, WindowsAreNat DEF Outcome
  <2>2. outcome' = [outcome EXCEPT ![s] = row] /\ UNCHANGED <<incident, degradedAt>>
    BY <1>4 DEF Receive
  <2>. HIDE DEF row
  <2>3. outcome' \in [Slot -> Outcome \cup {NoOutcome}] /\ Punctual'
    BY <2>1, <2>2 DEF Safe, Tables, Punctual
  <2>4. \A d \in Dimension : ~Resolves(d)
    BY <2>2 DEF Resolves, Active, NoIncident
  <2>. QED  BY <2>2, <2>3, <2>4 DEF Safe, Tables, Paced, Active
<1>5. CASE UNCHANGED vars
  <2>1. \A d \in Dimension : ~Resolves(d)
    BY <1>5 DEF vars, Resolves, Active, NoIncident
  <2>. QED  BY <1>5, <2>1 DEF vars, Safe, Tables, Punctual, Paced, Active
<1>. QED  BY <1>1, <1>2, <1>3, <1>4, <1>5 DEF Next

LEMMA SafeInit == Init => Safe
BY HorizonIsFar
   DEF Init, Safe, Tables, Punctual, Paced, Active, NoOutcome, NoIncident

-----------------------------------------------------------------------------
(* Theorems.                                                               *)

\* Outcomes, incidents and the dates of assessments have their types, whatever
\* the windows of the policy.
THEOREM TypeCorrect == Spec => []TypeOK
<1>1. Safe => TypeOK
  BY DEF Safe, Tables, TypeOK
<1>2. Safe /\ [Next]_vars => Safe'
  BY SafeStep
<1>. QED  BY <1>1, <1>2, SafeInit, PTL DEF Spec

\* apply_degradation_assessment.  However late outcomes are processed and in
\* whatever order, and however often a dimension is assessed, its incident is
\* resolved only when ClearWindows whole windows lie between the last assessment
\* that found degradation and the one that resolves it.
THEOREM ResolutionWaits == Spec => ResolvedAfterClearWindows
<1>. DEFINE Late == \A d \in Dimension :
                       Resolves(d) => degradedAt[d] - AsOf >= ClearWindows * CurrentWindow
<1>1. Safe /\ [Next]_vars => Safe' /\ [Late]_vars
  BY SafeStep
<1>. QED  BY <1>1, SafeInit, PTL DEF Spec, ResolvedAfterClearWindows
=============================================================================
