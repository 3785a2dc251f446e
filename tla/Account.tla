-------------------------------- MODULE Account --------------------------------
(***************************************************************************)
(* What the operations on an account promise: each changes its own part    *)
(* of the account, at once, and nothing else. UserAccount keeps this while *)
(* no UpdateProfile holds a copy of the row that is out of date.           *)
(***************************************************************************)
EXTENDS Naturals

CONSTANTS Names

VARIABLE user

Rename == \E n \in Names : user' = [user EXCEPT !.name = n]

\* A password is numbered when it is given, so a new one has a higher number.
NewPassword ==
  /\ user' = [user EXCEPT !.password = user'.password]
  /\ user'.password > user.password

VerifyEmail == user' = [user EXCEPT !.verified = TRUE]

LoggedIn == user' = [user EXCEPT !.seen = TRUE]

\* An operator's decision.
Standing == \E b \in BOOLEAN : user' = [user EXCEPT !.active = b]

Change == Rename \/ NewPassword \/ VerifyEmail \/ LoggedIn \/ Standing

\* A new account: unverified, in good standing, never logged in.
New == /\ user.name \in Names /\ user.password = 0
       /\ user.active /\ ~user.verified /\ ~user.seen
===============================================================================
