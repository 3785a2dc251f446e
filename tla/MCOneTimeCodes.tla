---------------------------- MODULE MCOneTimeCodes ----------------------------
(* OneTimeCodes with a few codes and requests; both are interchangeable.       *)
EXTENDS OneTimeCodes, TLC

Symmetry == Permutations(Codes) \cup Permutations(Handlers)
===============================================================================
