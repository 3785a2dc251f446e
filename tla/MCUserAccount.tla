---------------------------- MODULE MCUserAccount ----------------------------
(* UserAccount with a few requests and names, both interchangeable.          *)
EXTENDS UserAccount, TLC

Symmetry == Permutations(Handlers) \cup Permutations(Names)
===============================================================================
