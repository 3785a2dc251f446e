---------------------------- MODULE MCRefreshTokens ----------------------------
(* RefreshTokens on a few users, requests and tokens. Users, requests and      *)
(* tokens are interchangeable in every action and property.                    *)
EXTENDS RefreshTokens, TLC

Symmetry ==
  Permutations(Users) \cup Permutations(Handlers) \cup Permutations(Tokens)
===============================================================================
