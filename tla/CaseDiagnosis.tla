--------------------------- MODULE CaseDiagnosis ---------------------------
(***************************************************************************)
(* What a recovery case is told about its evidence before policy decides:  *)
(* the deterministic diagnosis (revenueguard_domain/diagnosis.py), the     *)
(* recommendations the bounded agent graph may make of it                  *)
(* (revenueguard_agents/graph.py) and the orders in which the scoring      *)
(* artifact may rank the candidates (revenueguard_domain/portfolio.py).    *)
(***************************************************************************)
EXTENDS PolicyGates, SequencesExt

\* NormalizedFailureCategory, and the invoice.overdue event beside it.
Category ==
    {"INSUFFICIENT_FUNDS", "EXPIRED_PAYMENT_METHOD", "AUTHENTICATION_FAILURE",
     "CUSTOMER_ACTION_REQUIRED", "ISSUER_UNAVAILABLE", "GATEWAY_UNAVAILABLE", "UNKNOWN",
     "DISPUTE", "INVOICE_OVERDUE", "NONE"}

CONSTANT
    Delay           \* Delay[category]: how long after the failure a retry makes sense

ASSUME DelayAssumption == Delay \in [Category -> Nat]

\* Every contact the diagnoses propose goes by e-mail.
ChannelOf(type) == IF ActionClasses[type] = "CUSTOMER_CONTACT" THEN "EMAIL" ELSE NoChannel

Entry(code, confidence, types) ==
    [code |-> code, confidence |-> confidence, types |-> types, terminal |-> FALSE]

\* _DIAGNOSES, the overdue invoice and the dispute of diagnose_event.
Diagnoses ==
    [INSUFFICIENT_FUNDS |->
         Entry("TEMPORARY_INSUFFICIENT_FUNDS", 9000,
               <<"DEFER_RETRY", "REQUEST_PAYMENT_METHOD_UPDATE">>),
     EXPIRED_PAYMENT_METHOD |->
         Entry("EXPIRED_PAYMENT_METHOD", 9700,
               <<"REQUEST_PAYMENT_METHOD_UPDATE", "CREATE_PAYMENT_LINK">>),
     AUTHENTICATION_FAILURE |->
         Entry("PAYMENT_AUTHENTICATION_REQUIRED", 9300,
               <<"REQUEST_PAYMENT_METHOD_UPDATE", "CREATE_PAYMENT_LINK">>),
     CUSTOMER_ACTION_REQUIRED |->
         Entry("CUSTOMER_ACTION_REQUIRED", 9400,
               <<"REQUEST_PAYMENT_METHOD_UPDATE", "SEND_REMINDER">>),
     ISSUER_UNAVAILABLE |->
         Entry("ISSUER_TEMPORARILY_UNAVAILABLE", 8800, <<"DEFER_RETRY", "PAUSE_RETRIES">>),
     GATEWAY_UNAVAILABLE |->
         Entry("GATEWAY_TEMPORARILY_UNAVAILABLE", 9000, <<"PAUSE_RETRIES", "DEFER_RETRY">>),
     UNKNOWN |->
         Entry("UNKNOWN_PAYMENT_FAILURE", 3000, <<"DEFER_RETRY", "ESCALATE_HUMAN">>),
     INVOICE_OVERDUE |->
         Entry("INVOICE_OVERDUE", 10000, <<"SEND_REMINDER", "ESCALATE_HUMAN">>),
     DISPUTE |->
         [Entry("PAYMENT_DISPUTED", 10000, <<"STOP_AUTOMATION">>) EXCEPT !.terminal = TRUE]]

Diagnosed(category) == category # "NONE"

DeferUntil(category, occurredAt) ==
    IF Delay[category] = 0 THEN NoTime ELSE occurredAt + Delay[category]

\* The scope of an incident names the diagnoses it explains.
Explains(scope, code) ==
    code \in CASE scope = "ISSUER"       -> {"ISSUER_TEMPORARILY_UNAVAILABLE"}
               [] scope = "GATEWAY"      -> {"GATEWAY_TEMPORARILY_UNAVAILABLE"}
               [] scope = "PAYMENT_RAIL" -> {"ISSUER_TEMPORARILY_UNAVAILABLE",
                                             "GATEWAY_TEMPORARILY_UNAVAILABLE",
                                             "UNKNOWN_PAYMENT_FAILURE"}
               [] OTHER                  -> {}

-----------------------------------------------------------------------------
(***************************************************************************)
(* Advice about a diagnosis: a code, a confidence and an order of action   *)
(* types.  The validators of the graph keep the code of a terminal         *)
(* diagnosis, bound the confidence by the deterministic one and accept     *)
(* only action types of the diagnosis, each at most once.  Of the codes    *)
(* and confidences they accept, one foreign code and a zero confidence     *)
(* are told apart from the deterministic ones.                             *)
(***************************************************************************)
ForeignCode == "ANOTHER_DIAGNOSIS"

Advice(code, confidence, types) == [code |-> code, confidence |-> confidence, types |-> types]

Deterministic(d) == Advice(d.code, d.confidence, d.types)

Orders(types) == UNION {SetToSeqs(chosen) : chosen \in (SUBSET ToSet(types)) \ {{}}}

Acceptable(d) ==
    {Advice(code, confidence, types) :
        code \in IF d.terminal THEN {d.code} ELSE {d.code, ForeignCode},
        confidence \in {0, d.confidence},
        types \in Orders(d.types)}

(***************************************************************************)
(* rank_candidates_by_expected_net_recovery: disallowed types are dropped, *)
(* exempt ones keep their places and the scored ones are permuted.         *)
(***************************************************************************)
Exempt(type) == ActionClasses[type] \in ExpectedValueExempt

Eligible(p, types) ==
    SelectSeq(types, LAMBDA type : type \in p.allowed \/ ActionClasses[type] \in AlwaysAllowed)

Rankings(p, types) ==
    LET eligible == Eligible(p, types)
    IN  {order \in SetToSeqs(ToSet(eligible)) :
            \A i \in DOMAIN eligible : Exempt(eligible[i]) => order[i] = eligible[i]}

CandidateOf(type, target, net) ==
    [type |-> type, target |-> target, channel |-> ChannelOf(type), net |-> net]

\* The ranked candidates, with the expected net recovery the artifact computes.
Candidates(order, target, nets) ==
    Append([i \in DOMAIN order |->
               CandidateOf(order[i], target, IF Exempt(order[i]) THEN 0 ELSE nets[i])],
           CandidateOf("NO_ACTION", target, 0))
=============================================================================
