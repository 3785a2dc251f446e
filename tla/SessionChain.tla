----------------------------- MODULE SessionChain -----------------------------
(***************************************************************************)
(* What refresh-token rotation promises, without the database: a login     *)
(* opens a chain, a chain holds at most one token that still works, and    *)
(* redeeming that token spends it for good before its successor appears.   *)
(* RefreshTokens implements this specification when requests are handled   *)
(* one at a time; its refinement mapping is at the end of that module.     *)
(***************************************************************************)
EXTENDS Naturals, FiniteSets

CONSTANT Tokens           \* every refresh token that can ever be generated

VARIABLES
  live,                   \* live[f]: the tokens of chain f that still work
  spent,                  \* tokens that never work again
  pending                 \* chains whose token was redeemed, successor not issued yet

chainVars == <<live, spent, pending>>

\* A chain is named by the token its login issued.
ChainTypeOK ==
  /\ live \in [Tokens -> SUBSET Tokens]
  /\ spent \subseteq Tokens
  /\ pending \subseteq Tokens

Unused(t) == t \notin spent /\ \A f \in Tokens : t \notin live[f]

ChainInit ==
  /\ live = [f \in Tokens |-> {}]
  /\ spent = {}
  /\ pending = {}

\* A login starts a chain with its first token.
Open(t) ==
  /\ Unused(t)
  /\ live[t] = {}
  /\ live' = [live EXCEPT ![t] = {t}]
  /\ UNCHANGED <<spent, pending>>

\* A redeemed token is spent; its successor is still owed.
Claim(f) ==
  /\ live[f] # {}
  /\ spent' = spent \cup live[f]
  /\ live' = [live EXCEPT ![f] = {}]
  /\ pending' = pending \cup {f}

\* The successor of the redeemed token joins the chain.
Renew(f, t) ==
  /\ f \in pending
  /\ Unused(t)
  /\ live' = [live EXCEPT ![f] = {t}]
  /\ pending' = pending \ {f}
  /\ UNCHANGED spent

\* The redeeming request failed after the token was spent: the chain is over.
Abandon(f) ==
  /\ f \in pending
  /\ pending' = pending \ {f}
  /\ UNCHANGED <<live, spent>>

\* Logout, reuse detection and password reset end whole sets of chains.
Close(F) ==
  /\ spent' = spent \cup UNION {live[f] : f \in F}
  /\ live' = [f \in Tokens |-> IF f \in F THEN {} ELSE live[f]]
  /\ UNCHANGED pending

ChainNext ==
  \/ \E f \in Tokens : Open(f) \/ Claim(f) \/ Abandon(f)
  \/ \E f, t \in Tokens : Renew(f, t)
  \/ \E F \in SUBSET Tokens : Close(F)

ChainSpec == ChainInit /\ [][ChainNext]_chainVars

\* One working token per chain, and none while a successor is owed.
SingleUse ==
  \A f \in Tokens :
    /\ \A t, u \in live[f] : t = u
    /\ f \in pending => live[f] = {}
===============================================================================
