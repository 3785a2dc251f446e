----------------------------- MODULE Registration -----------------------------
(***************************************************************************)
(* Register of auth_usecase.go: a user row, a tenant created by another    *)
(* service, and a token pair, without a transaction around them. Several   *)
(* registrations run at the same time, one per new user id. SignUp puts    *)
(* the tenant service beside it and states what the two promise together.  *)
(*                                                                         *)
(* The verification code that Register issues between the tenant and the   *)
(* tokens, and whose failure is only logged, is in OneTimeCodes.           *)
(***************************************************************************)
EXTENDS Naturals, FiniteSets

CONSTANTS
  Users,            \* the user ids of the registrations, fresh by uuid.New
  Emails,           \* as the callers spell them
  None

VARIABLES
  row,              \* users: no row, deleted_at IS NULL, deleted_at set
  email,            \* users.email; None while there is no row
  pc,               \* how far each registration is
  answer,           \* what its caller was told
  broken,           \* history: registrations cut off, answered wrongly or not rolled back
  collides          \* whether the google_id that no registration sets, stored as '',
                    \* counts for its UNIQUE constraint, or is NULL; never changes

vars == <<row, email, pc, answer, broken, collides>>

-------------------------------------------------------------------------------

Stored == {u \in Users : row[u] # "none"}

\* users_email_key is neither partial nor case-insensitive.
EmailTaken(e) == \E u \in Stored : email[u] = e

Init ==
  /\ row = [u \in Users |-> "none"]
  /\ email = [u \in Users |-> None]
  /\ broken = {} /\ collides \in BOOLEAN
  /\ pc = [u \in Users |-> "start"]
  /\ answer = [u \in Users |-> "none"]

Goto(u, l) == pc' = [pc EXCEPT ![u] = l]

\* The handler answers, with the token pair or by handleError, and the
\* registration is over.
Answer(u, a) == Goto(u, "done") /\ answer' = [answer EXCEPT ![u] = a]

-------------------------------------------------------------------------------
(* The handler of POST /auth/register calls Register: hash the password,    *)
(* then userRepository.Create. A body that is refused changes nothing.      *)

\* INSERT INTO users.
Create(u, e) ==
  /\ row' = [row EXCEPT ![u] = "live"]
  /\ email' = [email EXCEPT ![u] = e]

\* UPDATE users SET deleted_at.
SoftDelete(u) == row' = [row EXCEPT ![u] = "deleted"]

\* Mutant: the email is not unique.
CreateAnyEmail(u, e) ==
  /\ pc[u] = "start"
  /\ collides => Stored = {}
  /\ Create(u, e)
  /\ Goto(u, "tenant")
  /\ UNCHANGED <<answer, broken, collides>>

CreateUser(u, e) ==
  /\ pc[u] = "start"
  /\ ~EmailTaken(e)
  /\ collides => Stored = {}
  /\ Create(u, e)
  /\ Goto(u, "tenant")
  /\ UNCHANGED <<answer, broken, collides>>

\* ErrEmailAlreadyExists.
RefuseEmail(u, e) ==
  /\ pc[u] = "start"
  /\ EmailTaken(e)
  /\ Answer(u, "taken")
  /\ UNCHANGED <<row, email, broken, collides>>

\* users_google_id_key: no other user has an empty google_id. The violation is
\* neither of the two that Create recognises.
RefuseGoogleID(u, e) ==
  /\ pc[u] = "start"
  /\ collides /\ Stored # {} /\ ~EmailTaken(e)
  /\ Answer(u, "error")
  /\ UNCHANGED <<row, email, broken, collides>>

-------------------------------------------------------------------------------
(* tenantSvc.CreateTenant and the rollback.                                *)

CreateTenant(u) ==
  /\ pc[u] = "tenant"
  /\ Goto(u, "tokens")
  /\ UNCHANGED <<row, email, answer, broken, collides>>

\* Mutant: the error of CreateTenant is not looked at.
CreateTenantUnchecked(u) ==
  /\ pc[u] = "tenant"
  /\ Goto(u, "tokens")
  /\ UNCHANGED <<row, email, answer, broken, collides>>

\* The tenant service answers with an error.
CreateTenantFails(u) ==
  /\ pc[u] = "tenant"
  /\ Goto(u, "rollback")
  /\ UNCHANGED <<row, email, answer, broken, collides>>

\* No answer comes: the call may be under way or have been carried out.
CreateTenantTimesOut(u) ==
  /\ pc[u] = "tenant"
  /\ Goto(u, "rollback")
  /\ broken' = broken \cup {u}
  /\ UNCHANGED <<row, email, answer, collides>>

\* Mutant: the rollback is forgotten.
NoRollback(u) ==
  /\ pc[u] = "rollback"
  /\ Answer(u, "error")
  /\ UNCHANGED <<row, email, broken, collides>>

\* Mutant: Register goes on after the rollback.
RollbackGoesOn(u) ==
  /\ pc[u] = "rollback"
  /\ SoftDelete(u)
  /\ Goto(u, "tokens")
  /\ UNCHANGED <<email, answer, broken, collides>>

\* SoftDelete; its error (the context may be cancelled by now) is dropped.
Rollback(u) ==
  /\ pc[u] = "rollback"
  /\ \/ SoftDelete(u) /\ UNCHANGED broken
     \/ broken' = broken \cup {u} /\ UNCHANGED row
  /\ Answer(u, "error")
  /\ UNCHANGED <<email, collides>>

\* generateTokenPair; a failure is answered with an error and undoes nothing.
Tokens(u) ==
  /\ pc[u] = "tokens"
  /\ \E a \in {"pair", "error"} : Answer(u, a)
  /\ UNCHANGED <<row, email, broken, collides>>

\* The pod dies, or the insert of the user fails.
Crash(u) ==
  /\ pc[u] # "done"
  /\ Answer(u, "lost")
  /\ broken' = broken \cup ({u} \cap Stored)
  /\ UNCHANGED <<row, email, collides>>

\* The steps that do not hear from the tenant service; the email is the caller's.
Register(u) ==
  \/ \E e \in Emails : CreateUser(u, e) \/ RefuseEmail(u, e) \/ RefuseGoogleID(u, e)
  \/ Rollback(u) \/ Tokens(u) \/ Crash(u)

-------------------------------------------------------------------------------
(* Correctness.                                                            *)

\* The shape of the table and of the registrations: a row is stored when the
\* registration got past Create, and only a failed one is rolled back.
TypeOK ==
  /\ row \in [Users -> {"none", "live", "deleted"}]
  /\ email \in [Users -> Emails \cup {None}]
  /\ broken \subseteq Users /\ collides \in BOOLEAN
  /\ pc \in [Users -> {"start", "tenant", "rollback", "tokens", "done"}]
  /\ answer \in [Users -> {"none", "taken", "error", "lost", "pair"}]
  /\ \A u \in Users :
       /\ row[u] = "none" <=> email[u] = None
       /\ pc[u] = "start" => row[u] = "none"
       /\ pc[u] \in {"tenant", "rollback", "tokens"} => row[u] = "live"
       /\ pc[u] = "done" <=> answer[u] # "none"
       /\ row[u] = "deleted" => answer[u] = "error"

===============================================================================
