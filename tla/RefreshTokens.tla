----------------------------- MODULE RefreshTokens -----------------------------
(***************************************************************************)
(* Refresh tokens of auth-service: Login, RefreshToken, Logout,            *)
(* RevokeSession and ResetPassword (from its UpdatePassword on), as        *)
(* auth_usecase.go runs them over token_repository.go.                     *)
(*                                                                         *)
(* A request is a sequence of SQL statements without a transaction; each   *)
(* statement is atomic and is one action. Several requests run at once     *)
(* (goroutines of one pod, several pods over one database), and any of     *)
(* them may stop between two statements: the client went away, the         *)
(* database answered an error, the pod was killed.                         *)
(***************************************************************************)
EXTENDS Naturals, FiniteSets

CONSTANTS
  Users,
  Handlers,         \* requests that can be in flight at the same time
  Tokens,           \* refresh tokens generateSecureToken can still return
  NoUser, NoToken,
  MaxResets         \* bound: password resets applied per user

ASSUME NoneAssumption == NoUser \notin Users /\ NoToken \notin Tokens
ASSUME BoundAssumption == MaxResets \in Nat
ASSUME FiniteAssumption == IsFiniteSet(Handlers) /\ IsFiniteSet(Tokens)

VARIABLES
  owner,            \* refresh_tokens.user_id; NoUser while there is no row
  family,           \* refresh_tokens.token_family, named by the family's first token
  revoked,          \* rows with is_revoked = true
  expired,          \* rows whose expires_at has passed
  active,           \* users with is_active = true
  resets,           \* password resets applied to a user's row so far
  req,              \* what each in-flight request holds in its local variables
  parent,           \* history: the token redeemed to obtain this one
  grade,            \* history: resets[user] when the family's password was checked
  burned            \* history: families revoked by reuse detection

rowVars  == <<owner, family, parent, grade>>
userVars == <<active, resets>>
vars == <<owner, family, revoked, expired, active, resets, req, parent, grade, burned>>

-------------------------------------------------------------------------------
(* The table refresh_tokens.                                               *)

Issued == {t \in Tokens : owner[t] # NoUser}
Live   == Issued \ revoked
FamilyOf(f) == {t \in Issued : family[t] = f}

\* FindByHash finds the row of a presented token; a token that has no row is
\* rejected before anything changes and is not modelled as an action.
FindByHash(t) == t \in Issued

\* Mutant: the UPDATE matches only rows that are revoked already.
RevokeByIDLost(t) == revoked' = revoked \cup ({t} \cap revoked)

\* UPDATE ... SET is_revoked = true WHERE id: unconditional, whatever it was.
RevokeByID(t) == revoked' = revoked \cup {t}

\* UPDATE ... WHERE token_family
RevokeByFamily(f) == revoked' = revoked \cup FamilyOf(f)

\* UPDATE ... WHERE user_id AND is_revoked = false
RevokeAllForUser(u) == revoked' = revoked \cup {t \in Issued : owner[t] = u}

\* generateSecureToken: 64 random characters, so never a token already issued.
Fresh(t) == t \notin Issued

\* INSERT of a fresh token.
Create(t, u, f, p, g) ==
  /\ Fresh(t)
  /\ owner'  = [owner  EXCEPT ![t] = u]
  /\ family' = [family EXCEPT ![t] = f]
  /\ parent' = [parent EXCEPT ![t] = p]
  /\ grade'  = [grade  EXCEPT ![t] = g]

-------------------------------------------------------------------------------
(* Requests. A handler binds and validates the body and calls the usecase;  *)
(* a request it refuses, or that the first check of the usecase refuses,    *)
(* changes nothing and is not modelled.                                     *)

Idle == [pc |-> "idle", user |-> NoUser, tok |-> NoToken, grade |-> 0]

Pcs == {"idle", "login_create", "refresh_reuse", "refresh_rotate", "refresh_revoke",
        "refresh_user", "refresh_create", "logout_revoke", "reset_revoke"}

At(h, pc)   == req[h].pc = pc
Goto(h, pc) == req' = [req EXCEPT ![h].pc = pc]
Hold(h, pc, u, t, g) ==
  req' = [req EXCEPT ![h] = [pc |-> pc, user |-> u, tok |-> t, grade |-> g]]

\* The handler answers, with the result or by handleError, and the request is over.
Finish(h)   == req' = [req EXCEPT ![h] = Idle]

Init ==
  /\ owner  = [t \in Tokens |-> NoUser]
  /\ family = [t \in Tokens |-> NoToken]
  /\ parent = [t \in Tokens |-> NoToken]
  /\ grade  = [t \in Tokens |-> 0]
  /\ revoked = {} /\ expired = {} /\ burned = {}
  /\ active = Users
  /\ resets = [u \in Users |-> 0]
  /\ req = [h \in Handlers |-> Idle]

\* Login of the usecase: FindByEmail, the IsActive check and the password check
\* use one copy of the user row. UpdateLastLogin, started in a goroutine, does
\* not touch this table.
MayLogIn(u) == u \in active

\* The handler of POST /auth/login calls Login, which lets the user in.
Login(h, u) ==
  /\ At(h, "idle")
  /\ MayLogIn(u)
  /\ Hold(h, "login_create", u, NoToken, resets[u])
  /\ UNCHANGED <<rowVars, burned, revoked, expired, userVars>>

\* generateTokenPair: the first token of a new family.
LoginCreate(h) ==
  /\ At(h, "login_create")
  /\ \E t \in Tokens : Create(t, req[h].user, t, NoToken, req[h].grade)
  /\ Finish(h)
  /\ UNCHANGED <<burned, revoked, expired, userVars>>

\* Mutant: RefreshToken no longer looks at IsRevoked.
RefreshReadUnchecked(h, t) ==
  /\ At(h, "idle") /\ FindByHash(t)
  /\ Hold(h, "refresh_rotate", owner[t], t, grade[t])
  /\ UNCHANGED <<rowVars, burned, revoked, expired, userVars>>

\* RefreshToken of the usecase, first statement. The copy of IsRevoked decides
\* the branch; the row may change before the next statement runs.
Verdict(t) == IF t \in revoked THEN "refresh_reuse" ELSE "refresh_rotate"

\* The handler of POST /auth/refresh calls RefreshToken.
RefreshRead(h, t) ==
  /\ At(h, "idle") /\ FindByHash(t)
  /\ Hold(h, Verdict(t), owner[t], t, grade[t])
  /\ UNCHANGED <<rowVars, burned, revoked, expired, userVars>>

\* Reuse detection: the family is revoked and the request fails. An error of
\* the UPDATE is ignored: then this request ends by Fail.
RefreshReuse(h) ==
  /\ At(h, "refresh_reuse")
  /\ RevokeByFamily(family[req[h].tok])
  /\ burned' = burned \cup {family[req[h].tok]}
  /\ Finish(h)
  /\ UNCHANGED <<rowVars, expired, userVars>>

\* The expiry check of the copy fails.
RefreshExpired(h) ==
  /\ At(h, "refresh_rotate")
  /\ req[h].tok \in expired
  /\ Finish(h)
  /\ UNCHANGED <<rowVars, burned, revoked, expired, userVars>>

\* Mutant: the expiry check is dropped.
RefreshCheckNothing(h) ==
  /\ At(h, "refresh_rotate")
  /\ Goto(h, "refresh_revoke")
  /\ UNCHANGED <<rowVars, burned, revoked, expired, userVars>>

\* The expiry check of the copy passes. The token may expire from here on: nothing
\* looks at expires_at again.
RefreshCheck(h) ==
  /\ At(h, "refresh_rotate")
  /\ req[h].tok \notin expired
  /\ Goto(h, "refresh_revoke")
  /\ UNCHANGED <<rowVars, burned, revoked, expired, userVars>>

\* The presented token is revoked.
RefreshRevoke(h) ==
  /\ At(h, "refresh_revoke")
  /\ RevokeByID(req[h].tok)
  /\ Goto(h, "refresh_user")
  /\ UNCHANGED <<rowVars, burned, expired, userVars>>

\* Mutant: the IsActive check after FindByID is dropped.
RefreshUserUnchecked(h) ==
  /\ At(h, "refresh_user")
  /\ Goto(h, "refresh_create")
  /\ UNCHANGED <<rowVars, burned, revoked, expired, userVars>>

\* FindByID and the IsActive check: the presented token is revoked already
\* when a suspended user is refused.
RefreshUser(h) ==
  /\ At(h, "refresh_user")
  /\ IF req[h].user \in active THEN Goto(h, "refresh_create") ELSE Finish(h)
  /\ UNCHANGED <<rowVars, burned, revoked, expired, userVars>>

\* Mutant: the successor is created by generateTokenPair, in a family of its own.
RefreshCreateNewFamily(h) ==
  /\ At(h, "refresh_create")
  /\ \E t \in Tokens : Create(t, req[h].user, t, req[h].tok, req[h].grade)
  /\ Finish(h)
  /\ UNCHANGED <<burned, revoked, expired, userVars>>

\* generateTokenPairWithFamily: the successor joins the presented token's family.
RefreshCreate(h) ==
  /\ At(h, "refresh_create")
  /\ \E t \in Tokens :
       Create(t, req[h].user, family[req[h].tok], req[h].tok, req[h].grade)
  /\ Finish(h)
  /\ UNCHANGED <<burned, revoked, expired, userVars>>

\* Mutant: Logout goes on without the row FindByHash did not find.
LogoutReadNoRow(h, t) ==
  /\ At(h, "idle")
  /\ Hold(h, "logout_revoke", NoUser, family[t], 0)
  /\ UNCHANGED <<rowVars, burned, revoked, expired, userVars>>

\* The handler of POST /auth/logout calls Logout, which looks the token up; an
\* unknown token is a success.
LogoutRead(h, t) ==
  /\ At(h, "idle") /\ FindByHash(t)
  /\ Hold(h, "logout_revoke", NoUser, t, 0)
  /\ UNCHANGED <<rowVars, burned, revoked, expired, userVars>>

\* Logout revokes the presented token alone.
LogoutRevoke(h) ==
  /\ At(h, "logout_revoke")
  /\ RevokeByID(req[h].tok)
  /\ Finish(h)
  /\ UNCHANGED <<rowVars, burned, expired, userVars>>

\* The handler of DELETE /auth/sessions/:session_id calls RevokeSession: one
\* UPDATE by id; the requesting user is a parameter that is not used.
RevokeSession(h, t) ==
  /\ At(h, "idle")
  /\ t \in Issued
  /\ RevokeByID(t)
  /\ UNCHANGED <<rowVars, burned, expired, userVars, req>>

\* ResetPassword after its one-time code was accepted: UpdatePassword ...
ResetPassword(h, u) ==
  /\ At(h, "idle")
  /\ resets[u] < MaxResets
  /\ resets' = [resets EXCEPT ![u] = @ + 1]
  /\ Hold(h, "reset_revoke", u, NoToken, 0)
  /\ UNCHANGED <<rowVars, burned, revoked, expired, active>>

\* ... then RevokeAllForUser, whose error is ignored (the request ends by Fail).
ResetRevoke(h) ==
  /\ At(h, "reset_revoke")
  /\ RevokeAllForUser(req[h].user)
  /\ Finish(h)
  /\ UNCHANGED <<rowVars, burned, expired, userVars>>

\* A statement fails, the request's context is cancelled, or the pod dies: what
\* the request has written stays written.
Fail(h) ==
  /\ ~At(h, "idle")
  /\ Finish(h)
  /\ UNCHANGED <<rowVars, burned, revoked, expired, userVars>>

\* The clock passes expires_at of a row.
Expire(t) ==
  /\ t \in Issued \ expired
  /\ expired' = expired \cup {t}
  /\ UNCHANGED <<rowVars, burned, revoked, userVars, req>>

\* An operator sets or clears is_active; no code of the repository does, but
\* Login and RefreshToken test it.
Suspend(u) ==
  /\ u \in active
  /\ active' = active \ {u}
  /\ UNCHANGED <<rowVars, burned, revoked, expired, resets, req>>

Reinstate(u) ==
  /\ u \in Users \ active
  /\ active' = active \cup {u}
  /\ UNCHANGED <<rowVars, burned, revoked, expired, resets, req>>

Step(h) ==
  \/ LoginCreate(h)
  \/ RefreshReuse(h) \/ RefreshExpired(h) \/ RefreshCheck(h) \/ RefreshRevoke(h)
  \/ RefreshUser(h) \/ RefreshCreate(h)
  \/ LogoutRevoke(h)
  \/ ResetRevoke(h)
  \/ Fail(h)

\* The routes that reach the table, the statements that follow a first one, and
\* what happens without a request.
Next ==
  \/ \E h \in Handlers : Step(h)
  \/ \E h \in Handlers, u \in Users : Login(h, u) \/ ResetPassword(h, u)
  \/ \E h \in Handlers, t \in Tokens :
        RefreshRead(h, t) \/ LogoutRead(h, t) \/ RevokeSession(h, t)
  \/ \E t \in Tokens : Expire(t)
  \/ \E u \in Users : Suspend(u) \/ Reinstate(u)

Spec == Init /\ [][Next]_vars

-------------------------------------------------------------------------------
(* Correctness.                                                            *)

Request == [pc : Pcs, user : Users \cup {NoUser}, tok : Tokens \cup {NoToken}, grade : Nat]

\* Every variable has its type.
TypeOK ==
  /\ owner  \in [Tokens -> Users \cup {NoUser}]
  /\ family \in [Tokens -> Tokens \cup {NoToken}]
  /\ parent \in [Tokens -> Tokens \cup {NoToken}]
  /\ grade  \in [Tokens -> Nat]
  /\ revoked \subseteq Tokens /\ expired \subseteq Tokens /\ burned \subseteq Tokens
  /\ active \subseteq Users
  /\ resets \in [Users -> Nat]
  /\ req \in [Handlers -> Request]

Children(t) == {c \in Issued : parent[c] = t}

\* Request h has read t as usable and can still obtain a successor for it.
Redeeming(h, t) ==
  /\ req[h].tok = t
  /\ \/ At(h, "refresh_rotate") /\ t \notin expired
     \/ At(h, "refresh_revoke") \/ At(h, "refresh_user") \/ At(h, "refresh_create")

\* A successor exists only for a token that is revoked: whichever requests
\* interleave and wherever one stops, a redeemed token never works beside the
\* token it was exchanged for (RevokeByID comes before Create in RefreshToken).
RotationConsumesParent ==
  \A c \in Issued : parent[c] # NoToken => parent[c] \in revoked

\* Rotation never leaves the family or the user: RevokeByFamily, which finds
\* rows by token_family alone, reaches every descendant of a reused token.
FamilyLineage ==
  \A c \in Issued : parent[c] # NoToken =>
    /\ parent[c] \in Issued
    /\ family[c] = family[parent[c]]
    /\ owner[c] = owner[parent[c]]

\* However requests interleave, one token is exchanged at most once per request
\* that was in flight when it was first redeemed; with one request at a time a
\* token has one successor.
BranchingBound ==
  \A t \in Issued :
    Cardinality(Children(t)) + Cardinality({h \in Handlers : Redeeming(h, t)})
      <= Cardinality(Handlers)

\* No token of f works and no request can add one.
Dead(f) ==
  /\ FamilyOf(f) # {}
  /\ \A t \in FamilyOf(f) :
       t \in revoked \cup expired /\ \A h \in Handlers : ~Redeeming(h, t)

\* A family without a usable token and without a request that is redeeming one
\* is over: logout, reuse detection, password reset and expiry are final once
\* the requests that overtook them have ended (one whose token expired after the
\* check is still redeeming it).
DeadFamilyStaysDead == [][\A f \in Tokens : Dead(f) => Dead(f)']_vars

\* u is suspended and no request has passed its IsActive check.
LockedOut(u) ==
  /\ u \notin active
  /\ \A h \in Handlers :
       req[h].user = u => ~At(h, "login_create") /\ ~At(h, "refresh_create")

\* Until it is reinstated a suspended user obtains no token, except from
\* requests that had passed the IsActive check before the suspension.
SuspendedObtainsNothing ==
  [][\A u \in Users : LockedOut(u) /\ u \notin active' =>
       /\ LockedOut(u)'
       /\ {t \in Issued : owner[t] = u}' = {t \in Issued : owner[t] = u}]_vars

\* Nothing that works, or is about to, stems from a password u has reset since.
Purged(u) ==
  /\ \A t \in Live : owner[t] = u => grade[t] = resets[u]
  /\ \A h \in Handlers :
       req[h].user = u /\ req[h].pc \in {"login_create", "refresh_rotate", "refresh_revoke",
                                        "refresh_user", "refresh_create"}
         => req[h].grade = resets[u]

\* Once the sessions of an old password are gone, with the requests that were
\* in flight for them, none comes back.
OldPasswordStaysOut ==
  [][\A u \in Users : Purged(u) /\ resets'[u] = resets[u] => Purged(u)']_vars

-------------------------------------------------------------------------------
(* The inductive invariant behind the theorems of RefreshTokens_proofs.    *)

\* A row and its family name are complete or absent.
RowShape ==
  /\ \A t \in Tokens \ Issued : parent[t] = NoToken /\ t \notin revoked \cup expired
  /\ \A t \in Issued : family[t] \in Issued

\* What a request remembers is what the row it read still says, and a request
\* that is about to create a successor has revoked the presented token.
ShapeOf(r) ==
  /\ r.pc \in {"login_create", "reset_revoke"} => r.user \in Users
  /\ r.pc \in {"refresh_reuse", "refresh_rotate", "refresh_revoke", "refresh_user",
               "refresh_create", "logout_revoke"} => r.tok \in Issued
  /\ r.pc \in {"refresh_reuse", "refresh_rotate", "refresh_revoke", "refresh_user",
               "refresh_create"} => r.user = owner[r.tok]
  /\ r.pc \in {"refresh_user", "refresh_create"} => r.tok \in revoked

RequestShape == \A h \in Handlers : ShapeOf(req[h])

IInv ==
  /\ TypeOK
  /\ RowShape
  /\ RequestShape
  /\ RotationConsumesParent
  /\ FamilyLineage

-------------------------------------------------------------------------------
(* A claim of the repository that concurrent requests refute.              *)

\* domain/interfaces.go, RevokeByFamily: "marks all tokens in a family as
\* revoked (reuse attack response)". After that response the family has no
\* working token.
ReuseEndsFamily == \A f \in burned : FamilyOf(f) \subseteq revoked

-------------------------------------------------------------------------------
(* With one request at a time a family is a single-use chain.              *)

Chain == INSTANCE SessionChain WITH
  live    <- [f \in Tokens |-> FamilyOf(f) \ revoked],
  spent   <- revoked,
  pending <- {family[req[h].tok] : h \in {g \in Handlers :
                At(g, "refresh_user") \/ At(g, "refresh_create")}}

\* Requests handled one after another, with failures between any two
\* statements, implement SessionChain: one working token per family, and a
\* spent token is never honoured again.
ImplementsChain == Chain!ChainSpec
===============================================================================
