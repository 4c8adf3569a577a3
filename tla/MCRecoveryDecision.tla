------------------------- MODULE MCRecoveryDecision -------------------------
(* Small instances of RecoveryDecision for TLC. *)
EXTENDS RecoveryDecision

CONSTANTS cu, inc

About(subject, customer, amount, at, category, status) ==
    [episode |-> subject, subject |-> subject, target |-> subject, customer |-> customer,
     amount |-> amount, at |-> at, category |-> category, eventStatus |-> status,
     storedStatus |-> status]

\* Two subscriptions of one customer fail, one is paid later.
TwoSubscriptions ==
    <<About("sub1", cu, 5, 1, "INSUFFICIENT_FUNDS", "FAILED"),
      About("sub2", cu, 1, 1, "CUSTOMER_ACTION_REQUIRED", "FAILED"),
      About("sub1", cu, 5, 2, "NONE", "PAID")>>

\* Two payments of one subscription fail at the issuer: two episodes of one
\* subject, whose amount needs a review.
TwoPayments ==
    <<[About("sub1", cu, 6, 1, "ISSUER_UNAVAILABLE", "FAILED") EXCEPT !.episode = "pay1"],
      [About("sub1", cu, 6, 2, "ISSUER_UNAVAILABLE", "FAILED") EXCEPT !.episode = "pay2"]>>

\* Two overdue invoices of one customer.
TwoInvoices ==
    <<About("inv1", cu, 1, 1, "INVOICE_OVERDUE", "OVERDUE"),
      About("inv2", cu, 1, 1, "INVOICE_OVERDUE", "OVERDUE")>>

\* A subscription fails, then its charge succeeds.
FailedThenCharged ==
    <<About("sub1", cu, 1, 1, "INSUFFICIENT_FUNDS", "FAILED"),
      [About("sub1", cu, 1, 2, "NONE", "CHARGED") EXCEPT !.storedStatus = "ACTIVE"]>>

Ids == [k \in Episode |-> CHOOSE e \in Event : Fact[e].episode = k]

OneUnit == [c \in Category |->
    IF c \in {"INSUFFICIENT_FUNDS", "ISSUER_UNAVAILABLE", "GATEWAY_UNAVAILABLE", "UNKNOWN"}
    THEN 1 ELSE 0]

Standard ==
    [version |-> "v1", effective |-> 1, allowed |-> ActionType, retryLimit |-> 1,
     contactLimit |-> 1, defer |-> 1, quietStart |-> 0, quietEnd |-> 0, zone |-> 0,
     currency |-> "INR", reviewAmount |-> 6, minConfidence |-> 5000, minNet |-> 1]

Stricter == [Standard EXCEPT !.version = "v2", !.effective = 2, !.reviewAmount = 5]

\* The last unit of every day is quiet.
Nightly == [Standard EXCEPT !.quietStart = 2, !.quietEnd = 0]

StandardOnly == {Standard}
BothPolicies == {Standard, Stricter}
NightlyOnly  == {Nightly}

IssuerScope == [i \in Incident |-> "ISSUER"]
=============================================================================
