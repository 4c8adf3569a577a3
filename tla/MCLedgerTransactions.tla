------------------------ MODULE MCLedgerTransactions ------------------------
EXTENDS LedgerTransactions

\* Two cases of one customer, which an incident affects together, and one case of
\* another merchant.
MCCases == {"c1", "c2", "c3"}
MCMerchantOf == [c \in MCCases |-> IF c = "c3" THEN "m2" ELSE "m1"]
MCCustomerOf == [c \in MCCases |-> IF c = "c3" THEN "u2" ELSE "u1"]
MCAffected == [c \in MCCases |-> IF c = "c1" THEN <<"c2">> ELSE IF c = "c2" THEN <<"c1">> ELSE <<>>]

\* Single-row work, and batches that meet their rows in either order; maintenance
\* takes its merchants in sorted order.
MCWorks == [kind : {"event", "payment", "overdue", "review", "response",
                    "prepare", "result", "lookup"}, cases : {<<"c1">>, <<"c2">>}]
           \cup [kind : {"sweep", "stale", "promises"},
                 cases : {<<"c1", "c2">>, <<"c1", "c3">>, <<"c3", "c2">>}]
           \cup [kind : {"portfolio", "broken", "claim", "dispatch"}, cases : {<<"c1", "c3">>}]
           \cup [kind : {"webhook", "failure"}, cases : {<<"c1">>}]
=============================================================================
