---------------------------- MODULE MCPlaybooks ----------------------------
(* One invoice, and three replies of its customer. *)
EXTENDS Playbooks, TLC

CONSTANTS inv, r1, r2, r3

Says(intent, due) == [invoice |-> inv, intent |-> intent, due |-> due]

PromisesAndDispute ==
    (r1 :> Says("PROMISE_TO_PAY", 2)) @@ (r2 :> Says("PROMISE_TO_PAY", 3))
        @@ (r3 :> Says("DISPUTE", 0))

Terms ==
    [version |-> "v1", allowed |-> ActionType, retryLimit |-> 1, contactLimit |-> 2,
     defer |-> 1, quietStart |-> 2, quietEnd |-> 0, zone |-> 0, currency |-> "INR",
     reviewAmount |-> 6, minConfidence |-> 5000, minNet |-> 1]
=============================================================================
