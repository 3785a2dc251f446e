------------------------------ MODULE UserAccount ------------------------------
(***************************************************************************)
(* The row of one user in the table users: UpdateProfile reads it and      *)
(* saves all its columns, while ChangePassword, ResetPassword, VerifyEmail *)
(* and the goroutine of Login update single columns. A statement is one    *)
(* action. An operator may suspend the account (is_active = false).        *)
(*                                                                         *)
(* A password is a number: the n-th password the account was given. The    *)
(* specification and its type invariant carry the account's name, so that   *)
(* they can stand beside those of the sign-up that stores the row.          *)
(***************************************************************************)
EXTENDS Naturals

CONSTANTS
  Handlers,         \* requests that can be in flight at the same time
  Names,            \* values of the profile fields
  MaxPasswords,     \* bound on password changes
  Empty             \* a field that is left out of the request

ASSUME NameAssumption == Empty \notin Names
ASSUME BoundAssumption == MaxPasswords \in Nat

VARIABLES
  user,             \* the row
  req,              \* pc, the copy of the row, and the input of each request
  newest            \* history: the number of passwords given so far

accountVars == <<user, req, newest>>

-------------------------------------------------------------------------------

At(h, pc) == req[h].pc = pc

\* The handler answers, with success or by handleError, and the request is over.
Finish(h) == req' = [req EXCEPT ![h].pc = "idle"]

\* FindByID and FindByEmail hand the request a copy of the row.
Read(h, pc, n) == req' = [req EXCEPT ![h] = [pc |-> pc, copy |-> user, name |-> n]]

\* The account was just registered.
AccountInit ==
  /\ \E n \in Names :
       user = [password |-> 0, name |-> n, verified |-> FALSE, active |-> TRUE, seen |-> FALSE]
  /\ req = [h \in Handlers |-> [pc |-> "idle", copy |-> user, name |-> Empty]]
  /\ newest = 0

-------------------------------------------------------------------------------
(* The table users: Update saves all columns of a copy, UpdatePassword one  *)
(* column with a password that was not in use before.                       *)

Update(copy) == user' = copy

UpdatePassword ==
  /\ newest < MaxPasswords
  /\ newest' = newest + 1
  /\ user' = [user EXCEPT !.password = newest']

-------------------------------------------------------------------------------
(* The handler of PATCH /auth/me calls UpdateProfile: FindByID, set the     *)
(* fields that are given, Update.                                           *)

ProfileRead(h, n) ==
  /\ At(h, "idle")
  /\ Read(h, "save", n)
  /\ UNCHANGED <<user, newest>>

\* Mutant: a field that is left out is cleared.
ProfileSaveEmpty(h) ==
  /\ At(h, "save")
  /\ Update([req[h].copy EXCEPT !.name = req[h].name])
  /\ Finish(h)
  /\ UNCHANGED newest

ProfileSave(h) ==
  /\ At(h, "save")
  /\ Update([req[h].copy EXCEPT !.name = IF req[h].name = Empty THEN @ ELSE req[h].name])
  /\ Finish(h)
  /\ UNCHANGED newest

(* The handler of POST /auth/change-password calls ChangePassword: the      *)
(* old password is compared with the copy that is read, UpdatePassword      *)
(* follows.                                                                 *)

ChangeRead(h, old) ==
  /\ At(h, "idle")
  /\ old = user.password
  /\ Read(h, "change", Empty)
  /\ UNCHANGED <<user, newest>>

\* Mutant: the copy is saved whole.
ChangeSaveRow(h) ==
  /\ At(h, "change")
  /\ newest < MaxPasswords
  /\ newest' = newest + 1
  /\ user' = [req[h].copy EXCEPT !.password = newest']
  /\ Finish(h)

ChangeSet(h) ==
  /\ At(h, "change")
  /\ UpdatePassword
  /\ Finish(h)

\* ResetPassword has marked its code used and calls UpdatePassword.
ResetSet(h) ==
  /\ At(h, "idle")
  /\ UpdatePassword
  /\ UNCHANGED req

\* VerifyEmail has marked its code used and calls MarkEmailVerified.
Verify(h) ==
  /\ At(h, "idle")
  /\ user' = [user EXCEPT !.verified = TRUE]
  /\ UNCHANGED <<req, newest>>

(* Login: the copy is checked, UpdateLastLogin follows in a goroutine.     *)

LoginRead(h, p) ==
  /\ At(h, "idle")
  /\ user.active /\ user.password = p
  /\ Read(h, "seen", Empty)
  /\ UNCHANGED <<user, newest>>

LastLogin(h) ==
  /\ At(h, "seen")
  /\ user' = [user EXCEPT !.seen = TRUE]
  /\ Finish(h)
  /\ UNCHANGED newest

-------------------------------------------------------------------------------

\* A statement fails, the request is cancelled, the pod dies.
Fail(h) ==
  /\ ~At(h, "idle")
  /\ Finish(h)
  /\ UNCHANGED <<user, newest>>

\* An operator suspends or reinstates the account.
SetActive(b) ==
  /\ user' = [user EXCEPT !.active = b]
  /\ UNCHANGED <<req, newest>>

AccountNext ==
  \/ \E h \in Handlers :
       \/ ProfileSave(h) \/ ChangeSet(h) \/ ResetSet(h) \/ Verify(h) \/ LastLogin(h) \/ Fail(h)
       \/ \E n \in Names \cup {Empty} : ProfileRead(h, n)
       \/ \E p \in 0..MaxPasswords : ChangeRead(h, p) \/ LoginRead(h, p)
  \/ \E b \in BOOLEAN : SetActive(b)

AccountSpec == AccountInit /\ [][AccountNext]_accountVars

-------------------------------------------------------------------------------
(* Correctness.                                                            *)

Row == [password : Nat, name : Names, verified : BOOLEAN, active : BOOLEAN, seen : BOOLEAN]

\* The shape of the row and of the copies; no copy is newer than the newest
\* password.
AccountTypeOK ==
  /\ user \in Row /\ newest \in Nat
  /\ req \in [Handlers -> [pc : {"idle", "save", "change", "seen"}, copy : Row,
                           name : Names \cup {Empty}]]
  /\ user.password <= newest
  /\ \A h \in Handlers : req[h].copy.password <= newest

\* Every UpdateProfile in flight has read what the row still says, the name
\* aside.
Fresh == \A h \in Handlers : At(h, "save") => [req[h].copy EXCEPT !.name = user.name] = user

\* While no UpdateProfile holds a stale copy, whatever overlaps or fails, each
\* step does to the account one thing that Account says, whole, and nothing
\* else: a password, a verification or a suspension is undone by a stale save
\* and by nothing else.
Promise == INSTANCE Account
KeepsPromiseUnlessStale == Promise!New /\ [][Fresh => Promise!Change]_user
===============================================================================
