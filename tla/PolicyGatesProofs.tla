-------------------------- MODULE PolicyGatesProofs --------------------------
(***************************************************************************)
(* What a PROCEED of the policy engine guarantees, and when a deferral     *)
(* ends, for every policy and every evaluation input.                      *)
(***************************************************************************)
EXTENDS PolicyGates, FiniteSetTheorems, WellFoundedInduction, TLAPS

\* Of the seventeen gates of a candidate, the first that holds exists, since the
\* last one always does.
LEMMA FirstGate ==
    ASSUME NEW p, NEW e, NEW c
    PROVE  /\ First(Gates(p, e, c)) \in 1..17
           /\ Gates(p, e, c)[First(Gates(p, e, c))].when
           /\ \A j \in 1..(First(Gates(p, e, c)) - 1) : ~Gates(p, e, c)[j].when
<1>. DEFINE g == Gates(p, e, c)
            W(i) == g[i].when
            Least(i) == W(i) /\ \A j \in 1..(i - 1) : ~W(j)
<1>1. DOMAIN g = 1..17
  BY DEF Gates
<1>2. W(17)
  BY DEF Gates, Gate
<1>. HIDE DEF g
<1>3. \E i \in 1..17 : Least(i)
  <2>. SUFFICES ASSUME \A i \in 1..17 : W(i) => \E j \in 1..(i - 1) : W(j)
                PROVE  FALSE
    OBVIOUS
  <2>. HIDE DEF W
  <2>1. ~W(1) /\ ~W(2) /\ ~W(3) /\ ~W(4)
    OBVIOUS
  <2>2. ~W(5) /\ ~W(6) /\ ~W(7)
    BY <2>1
  <2>3. ~W(8) /\ ~W(9) /\ ~W(10)
    BY <2>1, <2>2
  <2>4. ~W(11) /\ ~W(12) /\ ~W(13)
    BY <2>1, <2>2, <2>3
  <2>5. ~W(14) /\ ~W(15) /\ ~W(16)
    BY <2>1, <2>2, <2>3, <2>4
  <2>6. ~W(17)
    BY <2>1, <2>2, <2>3, <2>4, <2>5
  <2>. QED  BY <1>2, <2>6
<1>4. First(g) = CHOOSE i \in 1..17 : Least(i)
  BY <1>1 DEF First
<1>. QED  BY <1>3, <1>4 DEF g

\* A candidate proceeds only past every gate: no gate before the last one holds.
LEMMA ProceedPassesEveryGate ==
    ASSUME NEW p, NEW e, NEW c, Verdict(p, e, c).result = "PROCEED"
    PROVE  \A j \in 1..16 : ~Gates(p, e, c)[j].when
<1>. DEFINE g == Gates(p, e, c)
            n == First(g)
<1>1. n \in 1..17 /\ \A j \in 1..(n - 1) : ~g[j].when
  BY FirstGate
<1>2. g[n].result = "PROCEED"
  BY DEF Verdict
<1>3. \A i \in 1..16 : g[i].result # "PROCEED"
  BY DEF Gates, Gate
<1>. HIDE DEF g, n
<1>4. n = 17
  BY <1>1, <1>2, <1>3
<1>. QED  BY <1>1, <1>4 DEF g

\* What the gates between a candidate and PROCEED say, in the words of the policy.
LEMMA ProceedMeans ==
    ASSUME NEW p, NEW e, NEW c, Verdict(p, e, c).result = "PROCEED"
    PROVE  /\ ClassOf(c) = "RETRY" => ~(e.retryCount >= p.retryLimit)
           /\ Contacts(c) => /\ ~e.contactInProgress
                             /\ ~(e.contactCount >= p.contactLimit)
                             /\ c.channel \notin e.optedOut
                             /\ c.channel \in e.consented
           /\ ClassOf(c) \in Effectful => ~e.unknownEquivalent
           /\ Suspending(e, c) = {}
           /\ NeedsReview(p, e, c) => Approved(p, e, c)
<1>. DEFINE g == Gates(p, e, c)
<1>1. \A j \in 1..16 : ~g[j].when
  BY ProceedPassesEveryGate
<1>2. /\ g[3].when  = (ClassOf(c) = "RETRY" /\ e.retryCount >= p.retryLimit)
      /\ g[5].when  = (Contacts(c) /\ e.contactInProgress)
      /\ g[6].when  = (Contacts(c) /\ e.contactCount >= p.contactLimit)
      /\ g[7].when  = (Contacts(c) /\ c.channel \in e.optedOut)
      /\ g[8].when  = (Contacts(c) /\ c.channel \notin e.consented)
      /\ g[9].when  = (ClassOf(c) \in Effectful /\ e.unknownEquivalent)
      /\ g[11].when = (Suspending(e, c) # {})
      /\ g[16].when = (NeedsReview(p, e, c) /\ ~Approved(p, e, c))
  BY DEF Gates, Gate
<1>. HIDE DEF g
<1>3. ~g[3].when /\ ~g[5].when /\ ~g[6].when /\ ~g[7].when /\ ~g[8].when
      /\ ~g[9].when /\ ~g[11].when /\ ~g[16].when
  BY <1>1
<1>. QED  BY <1>2, <1>3

-----------------------------------------------------------------------------
\* When a stop holds, the first one that holds exists.
LEMMA FirstStop ==
    ASSUME NEW p, NEW e, Stops(p, e)
    PROVE  First(GlobalStops(p, e)) \in 1..5
<1>. DEFINE g == GlobalStops(p, e)
            Least(i) == g[i].when /\ \A j \in 1..(i - 1) : ~g[j].when
<1>1. DOMAIN g = 1..5
  BY DEF GlobalStops
<1>2. \E i \in 1..5 : g[i].when
  BY <1>1 DEF Stops
<1>. HIDE DEF g
<1>3. \E i \in 1..5 : Least(i)
  <2>1. CASE g[1].when
    BY <2>1
  <2>2. CASE ~g[1].when /\ g[2].when
    BY <2>2
  <2>3. CASE ~g[1].when /\ ~g[2].when /\ g[3].when
    BY <2>3
  <2>4. CASE ~g[1].when /\ ~g[2].when /\ ~g[3].when /\ g[4].when
    BY <2>4
  <2>5. CASE ~g[1].when /\ ~g[2].when /\ ~g[3].when /\ ~g[4].when
    BY <1>2, <2>5
  <2>. QED  BY <2>1, <2>2, <2>3, <2>4, <2>5
<1>4. First(g) = CHOOSE i \in 1..5 : Least(i)
  BY <1>1 DEF First
<1>. QED  BY <1>3, <1>4 DEF g

\* A stop that holds is always answered with STOP.
LEMMA StopsStop ==
    ASSUME NEW p, NEW e, Stops(p, e)
    PROVE  Evaluate(p, e).result = "STOP"
<1>1. \A i \in 1..5 : GlobalStops(p, e)[i].result = "STOP"
  BY DEF GlobalStops, Gate
<1>. QED  BY <1>1, FirstStop DEF Evaluate, Decision

\* The result of a decision is one of those that have a state.
LEMMA ResultKnown ==
    ASSUME NEW p, NEW e
    PROVE  Evaluate(p, e).result \in {"PROCEED", "DEFER", "SKIP", "STOP", "REQUIRE_HUMAN"}
<1>1. ASSUME NEW c
      PROVE  Verdict(p, e, c).result \in {"PROCEED", "DEFER", "SKIP", "STOP", "REQUIRE_HUMAN"}
  <2>. DEFINE g == Gates(p, e, c)
  <2>1. \A i \in 1..17 : g[i].result \in {"PROCEED", "DEFER", "SKIP", "STOP", "REQUIRE_HUMAN"}
    BY DEF Gates, Gate
  <2>2. First(g) \in 1..17
    BY FirstGate
  <2>. QED  BY <2>1, <2>2 DEF Verdict
<1>2. CASE Stops(p, e)
  BY <1>2, StopsStop
<1>3. CASE ~Stops(p, e)
  BY <1>1, <1>3 DEF Evaluate, Decision, Gate
<1>. QED  BY <1>2, <1>3

\* policy.py:evaluate_policy.  PROCEED is said only of a case that is neither
\* terminal, paid, disputed nor cancelled, and only for a candidate that passed
\* every gate; the decision names that candidate.
THEOREM ProceedIsAuthorised ==
    ASSUME NEW p, NEW e, Evaluate(p, e).result = "PROCEED"
    PROVE  /\ ~e.terminal /\ ~e.paid /\ ~e.disputed /\ ~e.cancelled
           /\ p.currency = e.currency
           /\ LET c == e.candidates[Selected(p, e)]
              IN  /\ Verdict(p, e, c).result = "PROCEED"
                  /\ c.type # "NO_ACTION"
                  /\ Evaluate(p, e).type = c.type /\ Evaluate(p, e).target = c.target
<1>. DEFINE c == e.candidates[Selected(p, e)]
<1>1. ~Stops(p, e)
  BY StopsStop
<1>2. ~e.terminal /\ ~e.paid /\ ~e.disputed /\ ~e.cancelled /\ p.currency = e.currency
  <2>1. DOMAIN GlobalStops(p, e) = 1..5
    BY DEF GlobalStops
  <2>2. \A i \in 1..5 : ~GlobalStops(p, e)[i].when
    BY <1>1, <2>1 DEF Stops
  <2>3. LET g == GlobalStops(p, e)
        IN  /\ ~g[1].when /\ ~g[2].when /\ ~g[3].when /\ ~g[4].when /\ ~g[5].when
    BY <2>2
  <2>. QED  BY <2>3, Zenon DEF GlobalStops, Gate
<1>3. c.type # "NO_ACTION"
  BY <1>1 DEF Evaluate, Decision, Gate
<1>4. Evaluate(p, e) = Decision(c, Verdict(p, e, c))
  BY <1>1, <1>3 DEF Evaluate
<1>. QED  BY <1>2, <1>3, <1>4 DEF Decision

\* The execution check has one candidate besides NO_ACTION: it is the one that a
\* PROCEED selects.
LEMMA OnlyCandidate ==
    ASSUME NEW p, NEW e, NEW c, NEW none, e.candidates = <<c, none>>,
           none.type = "NO_ACTION", Evaluate(p, e).result = "PROCEED"
    PROVE  e.candidates[Selected(p, e)] = c
<1>. DEFINE n == Selected(p, e)
<1>1. \E i \in 1..2 : Answers(p, e, i) /\ \A j \in 1..(i - 1) : ~Answers(p, e, j)
  <2>1. Answers(p, e, 2)
    BY DEF Answers
  <2>2. CASE Answers(p, e, 1)
    BY <2>2
  <2>3. CASE ~Answers(p, e, 1)
    BY <2>1, <2>3
  <2>. QED  BY <2>2, <2>3
<1>2. n \in 1..2
  BY <1>1 DEF Selected
<1>3. e.candidates[n].type # "NO_ACTION"
  BY ProceedIsAuthorised
<1>. QED  BY <1>2, <1>3

-----------------------------------------------------------------------------
(* When a deferred case wakes. *)

\* A set of natural numbers has a least member: of the intervals that begin at 0
\* and end in it, which are finite, one does not include another.
LEMMA LeastNat ==
    ASSUME NEW S \in SUBSET Nat, S # {}
    PROVE  \E x \in S : \A y \in S : x <= y
<1>. DEFINE below == {0..x : x \in S}
<1>1. \A x \in S : 0..x \in FiniteSubsetsOf(Nat)
  BY FS_Interval DEF FiniteSubsetsOf
<1>2. below \subseteq FiniteSubsetsOf(Nat) /\ below # {}
  BY <1>1
<1>. HIDE DEF below
<1>3. PICK I \in below : \A J \in below : <<J, I>> \notin StrictSubsetOrdering(Nat)
  <2>1. IsWellFoundedOn(StrictSubsetOrdering(Nat), FiniteSubsetsOf(Nat))
    BY FS_StrictSubsetOrderingWellFounded
  <2>. QED  BY <1>2, <2>1, WFMin
<1>4. PICK x \in S : I = 0..x
  BY DEF below
<1>5. ASSUME NEW y \in S, y < x
      PROVE  FALSE
  <2>1. 0..y \in below /\ 0..y \in SUBSET Nat /\ 0..x \in SUBSET Nat
    BY DEF below
  <2>2. 0..y \subseteq 0..x /\ x \in 0..x /\ x \notin 0..y
    BY <1>5
  <2>. QED  BY <1>3, <1>4, <2>1, <2>2 DEF StrictSubsetOrdering
<1>. QED  BY <1>5

\* The end of quiet hours, when they are on, is less than a day away.
LEMMA QuietHoursEndLater ==
    ASSUME NEW p, NEW t \in Nat, p.zone \in Int, p.quietEnd \in 0..(Day - 1)
    PROVE  QuietHoursEnd(p, t) \in Nat /\ QuietHoursEnd(p, t) > t
<1>1. Day \in Nat \ {0}
  BY DayAssumption
<1>2. LocalTime(p, t) \in 0..(Day - 1)
  BY <1>1 DEF LocalTime
<1>. QED  BY <1>1, <1>2 DEF QuietHoursEnd

\* The facts of an evaluation as the services gather them: delays and promises are
\* times, and incidents end.
WellTimed(p, e) ==
    /\ e.at \in Nat \ {0} /\ e.deferUntil \in Nat /\ e.promiseDue \in Nat
    /\ \A i \in e.incidents : i.ends \in Nat
    /\ p.defer \in Nat \ {0} /\ p.zone \in Int /\ p.quietEnd \in 0..(Day - 1)

\* The first incident to end ends later.
LEMMA EarliestEndLater ==
    ASSUME NEW p, NEW e, NEW c, WellTimed(p, e), Suspending(e, c) # {}
    PROVE  EarliestEnd(Suspending(e, c)) \in Nat /\ EarliestEnd(Suspending(e, c)) > e.at
<1>. DEFINE ends == {i.ends : i \in Suspending(e, c)}
<1>1. ends \in SUBSET Nat /\ ends # {} /\ \A x \in ends : x > e.at
  BY DEF Suspending, Suspends, WellTimed
<1>2. EarliestEnd(Suspending(e, c)) = Min(ends)
  BY DEF EarliestEnd
<1>. HIDE DEF ends
<1>3. Min(ends) \in ends
  BY <1>1, LeastNat DEF Min
<1>. QED  BY <1>1, <1>2, <1>3

\* A deferral ends later, but for a promise it ends on the day of the promise: that
\* day may be over, since a broken promise is active until the maintenance ends it.
Later(e, wake) ==
    wake \in Nat /\ (wake > e.at \/ (wake = e.promiseDue /\ wake # NoTime))

\* Every gate that defers names such a moment, and no other names one.
LEMMA GatesWake ==
    ASSUME NEW p, NEW e, NEW c, WellTimed(p, e), NEW i \in 1..17, Gates(p, e, c)[i].when
    PROVE  LET g == Gates(p, e, c)[i]
           IN  IF g.result = "DEFER" THEN Later(e, g.wake) ELSE g.wake = NoTime
<1>. DEFINE g == Gates(p, e, c)
            Wakes(j) == g[j].result = "DEFER" /\ Later(e, g[j].wake)
<1>1. \A j \in {1, 2, 3, 4, 6, 7, 8, 15, 16, 17} : g[j].result # "DEFER" /\ g[j].wake = NoTime
  BY DEF Gates, Gate
<1>2. \A j \in {5, 9} : Wakes(j)
  BY DEF Gates, Gate, WellTimed, Later
<1>3. g[10].when => Wakes(10)
  BY DEF Gates, Gate, WellTimed, Later
<1>4. g[11].when => Wakes(11)
  BY EarliestEndLater DEF Gates, Gate, Later
<1>5. Wakes(12)
  BY DEF Gates, Gate, LowConfidenceWake, WellTimed, Later
<1>6. g[13].when => Wakes(13)
  BY DEF Gates, Gate, WellTimed, Later
<1>7. Wakes(14)
  BY QuietHoursEndLater DEF Gates, Gate, WellTimed, Later
<1>8. g[i].when
  OBVIOUS
<1>. HIDE DEF g
<1>9. IF g[i].result = "DEFER" THEN Later(e, g[i].wake) ELSE g[i].wake = NoTime
  BY <1>1, <1>2, <1>3, <1>4, <1>5, <1>6, <1>7, <1>8
<1>. QED  BY <1>9 DEF g

\* policy.py:evaluate_policy.  A decision that defers names a later moment or the day
\* of an active promise, and every other decision names none: delays, incidents, quiet
\* hours that cross midnight and low confidence included.
THEOREM DeferralsAreLater ==
    ASSUME NEW p, NEW e, WellTimed(p, e)
    PROVE  LET d == Evaluate(p, e)
           IN  IF d.result = "DEFER" THEN Later(e, d.wake) ELSE d.wake = NoTime
<1>1. CASE Stops(p, e)
  <2>. DEFINE g == GlobalStops(p, e)
  <2>1. First(g) \in 1..5
    BY <1>1, FirstStop
  <2>2. \A i \in 1..5 : g[i].result = "STOP" /\ g[i].wake = NoTime
    BY DEF GlobalStops, Gate
  <2>. QED  BY <1>1, <2>1, <2>2 DEF Evaluate, Decision
<1>2. CASE ~Stops(p, e)
  <2>. DEFINE c == e.candidates[Selected(p, e)]
  <2>1. Evaluate(p, e) = IF c.type = "NO_ACTION"
                         THEN Decision(c, Gate(TRUE, "SKIP", "NO_ELIGIBLE_ACTION", NoTime))
                         ELSE Decision(c, Verdict(p, e, c))
    BY <1>2 DEF Evaluate
  <2>. HIDE DEF c
  <2>2. IF Verdict(p, e, c).result = "DEFER"
        THEN Later(e, Verdict(p, e, c).wake)
        ELSE Verdict(p, e, c).wake = NoTime
    BY FirstGate, GatesWake DEF Verdict
  <2>. QED  BY <2>1, <2>2 DEF Decision, Gate
<1>. QED  BY <1>1, <1>2
=============================================================================
