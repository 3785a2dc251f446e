----------------------------- MODULE MCMembership -----------------------------
(* Membership with an owner and a few more users; the other users, the          *)
(* invitations and the requests are interchangeable.                            *)
EXTENDS Membership, TLC

Symmetry == Permutations(Users \ {Owner}) \cup Permutations(Invitations) \cup Permutations(Roles)
              \cup Permutations(Handlers)
===============================================================================
