----------------------------- MODULE MCTenantPlans -----------------------------
(* TenantPlans with two plans, one of a single outlet as the starter's, and      *)
(* interchangeable outlets, codes, names and requests.                           *)
EXTENDS TenantPlans, TLC

MCPlans == {"starter", "pro"}
MCLimit == [starter |-> 1, pro |-> 2]

Symmetry == Permutations(Ids \ {Main}) \cup Permutations(Codes)
              \cup Permutations(Handlers) \cup Permutations(Names)
===============================================================================
