----------------------- MODULE MCPortfolioIncidents -----------------------
(* Merchants in the order of their ids, each with one rail that fails in one way. *)
EXTENDS PortfolioIncidents

CONSTANTS m1, m2, s1, s2, s3

IdsInOrder == [m \in Merchant |-> IF m = m1 THEN 1 ELSE 2]
=============================================================================
