------------------------------- MODULE MCSignUp -------------------------------
(* SignUp with a few users and emails, both interchangeable.                   *)
EXTENDS SignUp, TLC

Symmetry == Permutations(Users) \cup Permutations(Emails)
===============================================================================
