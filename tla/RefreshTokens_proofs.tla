------------------------- MODULE RefreshTokens_proofs -------------------------
(***************************************************************************)
(* Proofs about RefreshTokens, for every set of users, requests and        *)
(* tokens: its type invariant, the consumption of rotated tokens, the      *)
(* lineage of families, the finality of a dead family, of a suspension and *)
(* of a new password, and how far a token can branch. The argument goes    *)
(* through IInv, which adds to those invariants what a row and a request   *)
(* look like between two statements. Last, what holds of one request at a  *)
(* time: it implements SessionChain.                                       *)
(***************************************************************************)
EXTENDS RefreshTokens, FiniteSetTheorems, TLAPS

\* Steps that insert no row and revoke or expire only existing rows keep every
\* part of the invariant that is about rows alone.
LEMMA RowsKept ==
  ASSUME IInv, UNCHANGED rowVars,
         revoked \subseteq revoked', revoked' \subseteq revoked \cup Issued,
         expired' \subseteq expired \cup Issued
  PROVE  /\ RowShape' /\ RotationConsumesParent' /\ FamilyLineage'
         /\ revoked' \subseteq Tokens
         /\ Issued' = Issued
BY DEF IInv, TypeOK, RowShape, RotationConsumesParent, FamilyLineage, Issued, rowVars

\* Inserting a root row, or a successor of a revoked row in that row's family
\* and for that row's user, keeps them too.
LEMMA RowAdded ==
  ASSUME IInv, NEW t \in Tokens, NEW u \in Users, NEW f \in Tokens,
         NEW p \in Tokens \cup {NoToken}, NEW g \in Nat,
         Create(t, u, f, p, g), UNCHANGED <<revoked, expired>>,
         \/ f = t /\ p = NoToken
         \/ p \in Issued \cap revoked /\ f = family[p] /\ u = owner[p]
  PROVE  /\ RowShape' /\ RotationConsumesParent' /\ FamilyLineage'
         /\ owner' \in [Tokens -> Users \cup {NoUser}]
         /\ family' \in [Tokens -> Tokens \cup {NoToken}]
         /\ parent' \in [Tokens -> Tokens \cup {NoToken}]
         /\ grade' \in [Tokens -> Nat]
         /\ Issued \subseteq Issued'
         /\ \A s \in Issued : owner'[s] = owner[s]
<1> USE NoneAssumption DEF IInv, TypeOK, Create, Fresh, Issued
<1>1. Issued' = Issued \cup {t}
  OBVIOUS
<1>2. \A s \in Issued : /\ owner'[s] = owner[s] /\ family'[s] = family[s]
                        /\ parent'[s] = parent[s] /\ s # t
  OBVIOUS
<1>3. owner'[t] = u /\ family'[t] = f /\ parent'[t] = p
  OBVIOUS
<1>4. RowShape'
  BY <1>1, <1>2, <1>3 DEF RowShape
<1>5. RotationConsumesParent'
  BY <1>1, <1>2, <1>3 DEF RotationConsumesParent, RowShape
<1>6. FamilyLineage'
  BY <1>1, <1>2, <1>3 DEF FamilyLineage, RowShape
<1>7. QED
  BY <1>1, <1>2, <1>4, <1>5, <1>6

\* A step that keeps the owners of rows and un-revokes nothing keeps the shape
\* of every request it does not move.
LEMMA RequestMoved ==
  ASSUME IInv, NEW h \in Handlers, NEW r \in Request,
         req' = [req EXCEPT ![h] = r],
         Issued \subseteq Issued', revoked \subseteq revoked',
         \A s \in Issued : owner'[s] = owner[s],
         ShapeOf(r)'
  PROVE  RequestShape' /\ req' \in [Handlers -> Request]
<1>1. req' \in [Handlers -> Request]
  BY DEF IInv, TypeOK
<1>2. ASSUME NEW g \in Handlers PROVE ShapeOf(req[g])'
  <2>1. CASE g = h
    BY <2>1 DEF IInv, TypeOK
  <2>2. CASE g # h
    BY <2>2 DEF IInv, TypeOK, RequestShape, ShapeOf
  <2>3. QED BY <2>1, <2>2
<1>3. QED BY <1>1, <1>2 DEF RequestShape

\* The same for a step that moves no request.
LEMMA RequestsKept ==
  ASSUME IInv, UNCHANGED req, Issued \subseteq Issued', revoked \subseteq revoked',
         \A s \in Issued : owner'[s] = owner[s]
  PROVE  RequestShape' /\ req' \in [Handlers -> Request]
BY DEF IInv, TypeOK, RequestShape, ShapeOf

LEMMA IdleOK == Idle \in Request /\ ShapeOf(Idle)
BY DEF Idle, Request, Pcs, ShapeOf

-------------------------------------------------------------------------------

LEMMA InitIInv == Init => IInv
<1> SUFFICES ASSUME Init PROVE IInv
  OBVIOUS
<1>1. Issued = {}
  BY DEF Init, Issued
<1>2. TypeOK
  BY IdleOK DEF Init, TypeOK
<1>3. RequestShape
  BY DEF Init, RequestShape, ShapeOf, Idle
<1>4. QED
  BY <1>1, <1>2, <1>3 DEF Init, IInv, RowShape, RotationConsumesParent, FamilyLineage

\* The two statements that insert a row.
LEMMA CreateIInv ==
  ASSUME IInv, NEW h \in Handlers, LoginCreate(h) \/ RefreshCreate(h)
  PROVE  IInv'
<1>1. PICK t \in Tokens, f \in Tokens, p \in Tokens \cup {NoToken} :
        /\ Create(t, req[h].user, f, p, req[h].grade)
        /\ \/ f = t /\ p = NoToken
           \/ p \in Issued \cap revoked /\ f = family[p] /\ req[h].user = owner[p]
  <2>1. CASE LoginCreate(h)
    BY <2>1 DEF LoginCreate
  <2>2. CASE RefreshCreate(h)
    <3>1. ShapeOf(req[h]) /\ req[h].pc = "refresh_create"
      BY <2>2 DEF RefreshCreate, At, IInv, RequestShape
    <3>2. /\ req[h].tok \in Issued \cap revoked /\ req[h].tok \in Tokens
          /\ req[h].user = owner[req[h].tok] /\ family[req[h].tok] \in Tokens
      BY <3>1 DEF ShapeOf, IInv, RowShape, Issued
    <3>3. QED BY <2>2, <3>2 DEF RefreshCreate
  <2>3. QED BY <2>1, <2>2
<1>2. req[h].user \in Users /\ req[h].grade \in Nat
  BY DEF LoginCreate, RefreshCreate, At, IInv, TypeOK, Request, RequestShape, ShapeOf, Issued
<1>3. UNCHANGED <<burned, revoked, expired, active, resets>> /\ req' = [req EXCEPT ![h] = Idle]
  BY DEF LoginCreate, RefreshCreate, Finish, userVars
<1>4. /\ RowShape' /\ RotationConsumesParent' /\ FamilyLineage'
      /\ owner' \in [Tokens -> Users \cup {NoUser}]
      /\ family' \in [Tokens -> Tokens \cup {NoToken}]
      /\ parent' \in [Tokens -> Tokens \cup {NoToken}]
      /\ grade' \in [Tokens -> Nat]
      /\ Issued \subseteq Issued'
      /\ \A s \in Issued : owner'[s] = owner[s]
  BY <1>1, <1>2, <1>3, RowAdded
<1>5. ShapeOf(Idle)'
  BY DEF Idle, ShapeOf
<1>6. RequestShape' /\ req' \in [Handlers -> Request]
  BY <1>3, <1>4, <1>5, IdleOK, RequestMoved
<1>7. QED
  BY <1>3, <1>4, <1>6 DEF IInv, TypeOK

\* Every other statement: no row is inserted, and only issued rows are revoked
\* or expire.
LEMMA UpdateIInv ==
  ASSUME IInv, UNCHANGED rowVars,
         revoked \subseteq revoked', revoked' \subseteq revoked \cup Issued,
         expired' \subseteq expired \cup Issued, burned' \subseteq Tokens,
         active' \subseteq Users, resets' \in [Users -> Nat],
         \/ UNCHANGED req
         \/ \E h \in Handlers, r \in Request :
              req' = [req EXCEPT ![h] = r] /\ ShapeOf(r)'
  PROVE  IInv'
<1>1. /\ RowShape' /\ RotationConsumesParent' /\ FamilyLineage'
      /\ revoked' \subseteq Tokens /\ Issued' = Issued
  BY RowsKept
<1>2. \A s \in Issued : owner'[s] = owner[s]
  BY DEF rowVars
<1>3. RequestShape' /\ req' \in [Handlers -> Request]
  <2>1. CASE UNCHANGED req
    BY <1>1, <1>2, <2>1, RequestsKept
  <2>2. CASE \E h \in Handlers, r \in Request :
               req' = [req EXCEPT ![h] = r] /\ ShapeOf(r)'
    BY <1>1, <1>2, <2>2, RequestMoved
  <2>3. QED BY <2>1, <2>2
<1>4. expired' \subseteq Tokens
  BY DEF IInv, TypeOK, Issued
<1>5. QED
  BY <1>1, <1>3, <1>4 DEF IInv, TypeOK, rowVars

\* One step per action: what the action knows about its request comes from
\* RequestShape, the rest from CreateIInv and UpdateIInv.
LEMMA NextIInv == IInv /\ [Next]_vars => IInv'
<1> SUFFICES ASSUME IInv, [Next]_vars PROVE IInv'
  OBVIOUS
<1> USE DEF At, Goto, Finish, Hold, userVars
<1>T. /\ revoked \subseteq Tokens /\ expired \subseteq Tokens /\ burned \subseteq Tokens
      /\ active \subseteq Users /\ resets \in [Users -> Nat]
      /\ req \in [Handlers -> Request]
  BY DEF IInv, TypeOK
<1>I. Idle \in Request /\ ShapeOf(Idle)'
  BY IdleOK DEF Idle, ShapeOf
<1>S. \A h \in Handlers : ShapeOf(req[h]) /\ req[h] \in Request
  BY DEF IInv, TypeOK, RequestShape
<1>F. \A t \in Issued : family[t] \in Tokens /\ owner[t] \in Users /\ grade[t] \in Nat
  BY DEF IInv, TypeOK, RowShape, Issued
<1>1. ASSUME NEW h \in Handlers, LoginCreate(h) \/ RefreshCreate(h) PROVE IInv'
  BY <1>1, CreateIInv
<1>2. ASSUME NEW h \in Handlers, RefreshReuse(h) PROVE IInv'
  <2>1. req[h].tok \in Issued
    BY <1>2, <1>S DEF RefreshReuse, ShapeOf
  <2>2. QED BY <1>2, <1>T, <1>I, <1>F, <2>1, UpdateIInv DEF RefreshReuse, RevokeByFamily, FamilyOf
<1>3. ASSUME NEW h \in Handlers, RefreshExpired(h) \/ Fail(h) PROVE IInv'
  BY <1>3, <1>T, <1>I, UpdateIInv DEF RefreshExpired, Fail
<1>16. ASSUME NEW h \in Handlers, RefreshCheck(h) PROVE IInv'
  <2>1. PICK r \in Request : r = [req[h] EXCEPT !.pc = "refresh_revoke"]
    BY <1>16, <1>T DEF Request, Pcs
  <2>2. /\ req' = [req EXCEPT ![h] = r] /\ r.pc = "refresh_revoke"
        /\ r.tok = req[h].tok /\ r.user = req[h].user
    BY <1>16, <1>T, <2>1 DEF RefreshCheck, Request
  <2>3. ShapeOf(r)'
    BY <1>16, <1>S, <2>2 DEF RefreshCheck, ShapeOf, rowVars, Issued
  <2>4. QED BY <1>16, <1>T, <2>2, <2>3, UpdateIInv DEF RefreshCheck
<1>4. ASSUME NEW h \in Handlers, RefreshRevoke(h) PROVE IInv'
  <2>1. PICK r \in Request : r = [req[h] EXCEPT !.pc = "refresh_user"]
    BY <1>4, <1>T DEF Request, Pcs
  <2>r. /\ req' = [req EXCEPT ![h] = r] /\ r.pc = "refresh_user"
        /\ r.tok = req[h].tok /\ r.user = req[h].user
    BY <1>4, <1>T, <2>1 DEF RefreshRevoke, Request
  <2>2. req[h].tok \in Issued /\ req[h].user = owner[req[h].tok]
    BY <1>4, <1>S DEF RefreshRevoke, ShapeOf
  <2>3. ShapeOf(r)'
    BY <1>4, <1>F, <2>2, <2>r DEF RefreshRevoke, ShapeOf, RevokeByID, rowVars, Issued
  <2>4. QED BY <1>4, <1>T, <2>r, <2>2, <2>3, UpdateIInv DEF RefreshRevoke, RevokeByID
<1>5. ASSUME NEW h \in Handlers, RefreshUser(h) PROVE IInv'
  <2>1. CASE req[h].user \in active
    <3>1. PICK r \in Request : r = [req[h] EXCEPT !.pc = "refresh_create"]
      BY <1>T DEF Request, Pcs
    <3>2. /\ req' = [req EXCEPT ![h] = r] /\ r.pc = "refresh_create"
          /\ r.tok = req[h].tok /\ r.user = req[h].user
      BY <1>5, <1>T, <2>1, <3>1 DEF RefreshUser, Request
    <3>3. ShapeOf(r)'
      BY <1>5, <1>S, <3>2 DEF RefreshUser, ShapeOf, rowVars, Issued
    <3>4. QED BY <1>5, <1>T, <3>2, <3>3, UpdateIInv DEF RefreshUser
  <2>2. CASE req[h].user \notin active
    BY <1>5, <1>T, <1>I, <2>2, UpdateIInv DEF RefreshUser
  <2>3. QED BY <2>1, <2>2
<1>6. ASSUME NEW h \in Handlers, LogoutRevoke(h) PROVE IInv'
  <2>1. req[h].tok \in Issued
    BY <1>6, <1>S DEF LogoutRevoke, ShapeOf
  <2>2. QED BY <1>6, <1>T, <1>I, <2>1, UpdateIInv DEF LogoutRevoke, RevokeByID
<1>7. ASSUME NEW h \in Handlers, ResetRevoke(h) PROVE IInv'
  BY <1>7, <1>T, <1>I, UpdateIInv DEF ResetRevoke, RevokeAllForUser
<1>8. ASSUME NEW h \in Handlers, NEW u \in Users, Login(h, u) PROVE IInv'
  <2>1. PICK r \in Request :
          r = [pc |-> "login_create", user |-> u, tok |-> NoToken, grade |-> resets[u]]
    BY <1>T DEF Request, Pcs
  <2>2. req' = [req EXCEPT ![h] = r] /\ ShapeOf(r)'
    BY <1>8, <2>1 DEF Login, ShapeOf
  <2>3. QED BY <1>8, <1>T, <2>2, UpdateIInv DEF Login
<1>9. ASSUME NEW h \in Handlers, NEW u \in Users, ResetPassword(h, u) PROVE IInv'
  <2> DEFINE r == [pc |-> "reset_revoke", user |-> u, tok |-> NoToken, grade |-> 0]
  <2>1. r \in Request /\ ShapeOf(r)'
    BY DEF Request, Pcs, ShapeOf
  <2>2. resets' \in [Users -> Nat]
    BY <1>9, <1>T DEF ResetPassword
  <2>3. QED BY <1>9, <1>T, <2>1, <2>2, UpdateIInv DEF ResetPassword
<1>10. ASSUME NEW h \in Handlers, NEW t \in Tokens, RefreshRead(h, t) PROVE IInv'
  <2>1. PICK pc \in {"refresh_reuse", "refresh_rotate"} : Hold(h, pc, owner[t], t, grade[t])
    BY <1>10 DEF RefreshRead, Verdict
  <2>2. t \in Issued /\ UNCHANGED rowVars
    BY <1>10 DEF RefreshRead, FindByHash
  <2>3. PICK r \in Request :
          r = [pc |-> pc, user |-> owner[t], tok |-> t, grade |-> grade[t]]
    BY <1>F, <2>2 DEF Request, Pcs
  <2>4. req' = [req EXCEPT ![h] = r] /\ ShapeOf(r)'
    BY <2>1, <2>2, <2>3 DEF ShapeOf, rowVars, Issued
  <2>5. QED BY <1>10, <1>T, <2>4, UpdateIInv DEF RefreshRead
<1>11. ASSUME NEW h \in Handlers, NEW t \in Tokens, LogoutRead(h, t) PROVE IInv'
  <2> DEFINE r == [pc |-> "logout_revoke", user |-> NoUser, tok |-> t, grade |-> 0]
  <2>1. r \in Request /\ ShapeOf(r)'
    BY <1>11 DEF LogoutRead, FindByHash, Request, Pcs, ShapeOf, rowVars, Issued
  <2>2. QED BY <1>11, <1>T, <2>1, UpdateIInv DEF LogoutRead
<1>12. ASSUME NEW h \in Handlers, NEW t \in Tokens, RevokeSession(h, t) PROVE IInv'
  BY <1>12, <1>T, UpdateIInv DEF RevokeSession, RevokeByID
<1>13. ASSUME NEW t \in Tokens, Expire(t) PROVE IInv'
  BY <1>13, <1>T, UpdateIInv DEF Expire
<1>14. ASSUME NEW u \in Users, Suspend(u) \/ Reinstate(u) PROVE IInv'
  BY <1>14, <1>T, UpdateIInv DEF Suspend, Reinstate
<1>15. CASE UNCHANGED vars
  <2>1. UNCHANGED <<rowVars, revoked, expired, burned, active, resets, req>>
    BY <1>15 DEF vars, rowVars
  <2>2. QED BY <1>T, <2>1, UpdateIInv
<1>17. QED
  BY <1>1, <1>2, <1>3, <1>4, <1>5, <1>6, <1>7, <1>8, <1>9, <1>10, <1>11, <1>12,
     <1>13, <1>14, <1>15, <1>16 DEF Next, Step

\* Every reachable state satisfies the inductive invariant.
THEOREM Invariance == Spec => []IInv
BY InitIInv, NextIInv, PTL DEF Spec

\* The type invariant of RefreshTokens holds for every number of users,
\* requests, tokens and resets.
THEOREM TypeCorrect == Spec => []TypeOK
<1>1. IInv => TypeOK
  BY DEF IInv
<1>2. QED BY <1>1, Invariance, PTL

\* RefreshToken revokes the presented token before it stores the successor, so
\* no successor exists beside a token that still works, however many requests
\* interleave and wherever they fail.
THEOREM RotationIsConsuming == Spec => []RotationConsumesParent
<1>1. IInv => RotationConsumesParent
  BY DEF IInv
<1>2. QED BY <1>1, Invariance, PTL

\* A successor shares its parent's family and user: RevokeByFamily finds every
\* descendant of a reused token.
THEOREM LineageIsKept == Spec => []FamilyLineage
<1>1. IInv => FamilyLineage
  BY DEF IInv
<1>2. QED BY <1>1, Invariance, PTL

-------------------------------------------------------------------------------
(* A family that is dead stays dead.                                       *)

\* No statement clears is_revoked, and expires_at is never moved.
LEMMA RevocationIsFinal ==
  ASSUME IInv, [Next]_vars
  PROVE  revoked \subseteq revoked' /\ expired \subseteq expired'
BY DEF Next, Step, vars, rowVars, userVars, Login, LoginCreate, RefreshRead,
       RefreshReuse, RefreshExpired, RefreshCheck, RefreshRevoke, RefreshUser,
       RefreshCreate, LogoutRead, LogoutRevoke, RevokeSession, ResetPassword, ResetRevoke, Fail,
       Expire, Suspend, Reinstate, RevokeByID, RevokeByFamily, RevokeAllForUser

\* A request starts to redeem a token only when it finds it neither revoked nor
\* expired.
LEMMA RedeemingStarts ==
  ASSUME IInv, [Next]_vars, NEW h \in Handlers, NEW t \in Tokens,
         Redeeming(h, t)', ~Redeeming(h, t)
  PROVE  t \notin revoked \cup expired
<1> USE DEF Redeeming, At, Hold, Goto, Finish, Idle
<1>R. req \in [Handlers -> Request] /\ expired \subseteq expired' /\ NoToken \notin Tokens
  BY RevocationIsFinal, NoneAssumption DEF IInv, TypeOK
<1>1. ASSUME NEW g \in Handlers, NEW u \in Users, Login(g, u) \/ ResetPassword(g, u)
      PROVE  FALSE
  BY <1>1, <1>R DEF Login, ResetPassword
<1>2. ASSUME NEW g \in Handlers, NEW s \in Tokens, LogoutRead(g, s) \/ RevokeSession(g, s)
      PROVE  FALSE
  BY <1>2, <1>R DEF LogoutRead, RevokeSession
<1>3. ASSUME NEW g \in Handlers, NEW s \in Tokens, RefreshRead(g, s)
      PROVE  t \notin revoked \cup expired
  <2>1. g = h /\ s = t /\ t \notin revoked /\ t \notin expired'
    BY <1>3, <1>R DEF RefreshRead, Verdict
  <2>2. QED BY <2>1, <1>R
<1>4. ASSUME NEW g \in Handlers, RefreshCheck(g) \/ RefreshRevoke(g) \/ RefreshUser(g)
      PROVE  FALSE
  BY <1>4, <1>R DEF RefreshCheck, RefreshRevoke, RefreshUser, Request
<1>5. ASSUME NEW g \in Handlers,
             \/ LoginCreate(g) \/ RefreshReuse(g) \/ RefreshExpired(g)
             \/ RefreshCreate(g) \/ LogoutRevoke(g) \/ ResetRevoke(g) \/ Fail(g)
      PROVE  FALSE
  <2>1. req' = [req EXCEPT ![g] = Idle] /\ expired' = expired
    BY <1>5 DEF LoginCreate, RefreshReuse, RefreshExpired, RefreshCreate,
                LogoutRevoke, ResetRevoke, Fail
  <2>2. QED BY <2>1, <1>R
<1>6. ASSUME \/ UNCHANGED vars
             \/ \E s \in Tokens : Expire(s)
             \/ \E u \in Users : Suspend(u) \/ Reinstate(u)
      PROVE  FALSE
  <2>1. req' = req /\ expired \subseteq expired'
    BY <1>6, <1>R DEF vars, Expire, Suspend, Reinstate
  <2>2. QED BY <2>1
<1>7. QED
  BY <1>1, <1>2, <1>3, <1>4, <1>5, <1>6 DEF Next, Step

\* A row joins an existing family only through a request that redeems one of
\* its tokens.
LEMMA FamilyGrows ==
  ASSUME IInv, [Next]_vars, NEW f \in Tokens, FamilyOf(f) # {},
         \A t \in FamilyOf(f), h \in Handlers : ~Redeeming(h, t)
  PROVE  FamilyOf(f)' = FamilyOf(f)
<1>1. f \in Issued
  BY DEF FamilyOf, IInv, RowShape
<1>2. ASSUME NEW h \in Handlers, LoginCreate(h)
      PROVE  FamilyOf(f)' = FamilyOf(f)
  <2>1. PICK t \in Tokens : Create(t, req[h].user, t, NoToken, req[h].grade)
    BY <1>2 DEF LoginCreate
  <2>2. QED BY <1>1, <2>1 DEF Create, Fresh, FamilyOf, Issued, IInv, TypeOK
<1>3. ASSUME NEW h \in Handlers, RefreshCreate(h)
      PROVE  FamilyOf(f)' = FamilyOf(f)
  <2>1. PICK t \in Tokens :
          Create(t, req[h].user, family[req[h].tok], req[h].tok, req[h].grade)
    BY <1>3 DEF RefreshCreate
  <2>2. req[h].tok \in Issued /\ Redeeming(h, req[h].tok)
    BY <1>3 DEF RefreshCreate, Redeeming, At, IInv, RequestShape, ShapeOf
  <2>3. family[req[h].tok] # f
    BY <2>2 DEF FamilyOf
  <2>4. QED BY <2>1, <2>3 DEF Create, Fresh, FamilyOf, Issued, IInv, TypeOK
<1>4. ASSUME UNCHANGED rowVars
      PROVE  FamilyOf(f)' = FamilyOf(f)
  BY <1>4 DEF rowVars, FamilyOf, Issued
<1>5. \/ \E h \in Handlers : LoginCreate(h) \/ RefreshCreate(h)
      \/ UNCHANGED rowVars
  BY DEF Next, Step, vars, rowVars, Login, RefreshRead, RefreshReuse, RefreshExpired,
         RefreshCheck, RefreshRevoke, RefreshUser, LogoutRead, LogoutRevoke,
         RevokeSession, ResetPassword, ResetRevoke, Fail, Expire, Suspend, Reinstate
<1>6. QED BY <1>2, <1>3, <1>4, <1>5

\* Once every token of a family is revoked or expired and no request that read
\* one of them earlier is still redeeming it, the family never works again:
\* reuse detection, logout and expiry are final for any number of concurrent
\* requests.
THEOREM DeadIsFinal == Spec => DeadFamilyStaysDead
<1>1. ASSUME IInv, [Next]_vars, NEW f \in Tokens, Dead(f) PROVE Dead(f)'
  <2>1. FamilyOf(f)' = FamilyOf(f)
    BY <1>1, FamilyGrows DEF Dead
  <2>2. revoked \subseteq revoked' /\ expired \subseteq expired'
    BY <1>1, RevocationIsFinal
  <2>3. ASSUME NEW t \in FamilyOf(f), NEW h \in Handlers PROVE ~Redeeming(h, t)'
    BY <1>1, <2>3, RedeemingStarts DEF Dead, FamilyOf, Issued
  <2>4. QED BY <1>1, <2>1, <2>2, <2>3 DEF Dead
<1>2. IInv /\ [Next]_vars => [\A f \in Tokens : Dead(f) => Dead(f)']_vars
  BY <1>1
<1>3. QED BY <1>2, Invariance, PTL DEF Spec, DeadFamilyStaysDead

-------------------------------------------------------------------------------
(* Suspension and the old password.                                        *)

\* Which statements insert, and which leave the rows alone.
LEMMA RowsChange ==
  ASSUME [Next]_vars
  PROVE  \/ \E h \in Handlers : LoginCreate(h) \/ RefreshCreate(h)
         \/ UNCHANGED rowVars
BY DEF Next, Step, vars, rowVars, Login, RefreshRead, RefreshReuse, RefreshExpired,
       RefreshCheck, RefreshRevoke, RefreshUser, LogoutRead, LogoutRevoke,
       RevokeSession, ResetPassword, ResetRevoke, Fail, Expire, Suspend, Reinstate

\* An insert is for the user, and with the grade, that its request holds.
LEMMA InsertedFor ==
  ASSUME IInv, NEW h \in Handlers, LoginCreate(h) \/ RefreshCreate(h)
  PROVE  /\ req' = [req EXCEPT ![h] = Idle] /\ UNCHANGED <<revoked, active, resets>>
         /\ \E t \in Tokens :
              /\ Issued' \subseteq Issued \cup {t}
              /\ owner'[t] = req[h].user /\ grade'[t] = req[h].grade
              /\ \A s \in Tokens : s # t => owner'[s] = owner[s] /\ grade'[s] = grade[s]
              /\ t \notin Issued
<1>1. PICK t \in Tokens : \E f, p : Create(t, req[h].user, f, p, req[h].grade)
  BY DEF LoginCreate, RefreshCreate
<1>2. owner \in [Tokens -> Users \cup {NoUser}] /\ grade \in [Tokens -> Nat]
  BY DEF IInv, TypeOK
<1>3. req' = [req EXCEPT ![h] = Idle] /\ UNCHANGED <<revoked, active, resets>>
  BY DEF LoginCreate, RefreshCreate, Finish, userVars
<1>4. /\ t \notin Issued /\ owner'[t] = req[h].user /\ grade'[t] = req[h].grade
      /\ \A s \in Tokens : s # t => owner'[s] = owner[s] /\ grade'[s] = grade[s]
  BY <1>1, <1>2 DEF Create, Fresh
<1>5. Issued' \subseteq Issued \cup {t}
  BY <1>4 DEF Issued
<1>6. QED BY <1>3, <1>4, <1>5

\* RefreshToken and Login look at is_active before they go on to the insert.
LEMMA LockedOutStays ==
  ASSUME IInv, [Next]_vars, NEW u \in Users, LockedOut(u), u \notin active'
  PROVE  LockedOut(u)'
<1> USE DEF At, Goto, Finish, Hold, LockedOut
<1>R. req \in [Handlers -> Request]
  BY DEF IInv, TypeOK
<1>1. ASSUME NEW h \in Handlers, RefreshUser(h) PROVE LockedOut(u)'
  <2>1. CASE req[h].user \in active
    <3>1. req[h].user # u
      BY <2>1
    <3>2. req'[h].user = req[h].user /\ \A g \in Handlers : g # h => req'[g] = req[g]
      BY <1>1, <1>R, <2>1 DEF RefreshUser, Request
    <3>3. QED BY <3>1, <3>2
  <2>2. CASE req[h].user \notin active
    BY <1>1, <1>R, <2>2 DEF RefreshUser, Idle
  <2>3. QED BY <2>1, <2>2
<1>2. ASSUME NEW h \in Handlers, RefreshCheck(h) \/ RefreshRevoke(h) PROVE LockedOut(u)'
  <2>1. /\ req'[h].pc \in {"refresh_revoke", "refresh_user"}
        /\ \A g \in Handlers : g # h => req'[g] = req[g]
    BY <1>2, <1>R DEF RefreshCheck, RefreshRevoke, Request
  <2>2. QED BY <2>1
<1>3. ASSUME NEW h \in Handlers,
             \/ LoginCreate(h) \/ RefreshReuse(h) \/ RefreshExpired(h) \/ RefreshCreate(h)
             \/ LogoutRevoke(h) \/ ResetRevoke(h) \/ Fail(h)
      PROVE  LockedOut(u)'
  <2>1. req' = [req EXCEPT ![h] = Idle]
    BY <1>3 DEF LoginCreate, RefreshReuse, RefreshExpired, RefreshCreate, LogoutRevoke,
                ResetRevoke, Fail
  <2>2. QED BY <1>R, <2>1 DEF Idle
<1>4. ASSUME NEW h \in Handlers, NEW v \in Users, Login(h, v) PROVE LockedOut(u)'
  <2>1. v # u
    BY <1>4 DEF Login, MayLogIn
  <2>2. QED BY <1>4, <1>R, <2>1 DEF Login
<1>5. ASSUME NEW h \in Handlers, NEW v \in Users, ResetPassword(h, v) PROVE LockedOut(u)'
  BY <1>5, <1>R DEF ResetPassword
<1>6. ASSUME NEW h \in Handlers, NEW t \in Tokens,
             RefreshRead(h, t) \/ LogoutRead(h, t) \/ RevokeSession(h, t)
      PROVE  LockedOut(u)'
  BY <1>6, <1>R DEF RefreshRead, Verdict, LogoutRead, RevokeSession
<1>7. ASSUME \/ UNCHANGED vars
             \/ \E t \in Tokens : Expire(t)
             \/ \E v \in Users : Suspend(v) \/ Reinstate(v)
      PROVE  LockedOut(u)'
  BY <1>7 DEF vars, Expire, Suspend, Reinstate
<1>8. QED
  BY <1>1, <1>2, <1>3, <1>4, <1>5, <1>6, <1>7 DEF Next, Step

\* A suspended user obtains no token but through requests that had passed the
\* check of is_active before, for any number of them.
THEOREM SuspensionHolds == Spec => SuspendedObtainsNothing
<1>1. ASSUME IInv, [Next]_vars, NEW u \in Users, LockedOut(u), u \notin active'
      PROVE  /\ LockedOut(u)'
             /\ {t \in Issued : owner[t] = u}' = {t \in Issued : owner[t] = u}
  <2>1. LockedOut(u)'
    BY <1>1, LockedOutStays
  <2>2. CASE UNCHANGED rowVars
    BY <2>1, <2>2 DEF rowVars, Issued
  <2>3. CASE \E h \in Handlers : LoginCreate(h) \/ RefreshCreate(h)
    <3>1. PICK h \in Handlers : LoginCreate(h) \/ RefreshCreate(h)
      BY <2>3
    <3>2. req[h].user # u
      BY <1>1, <3>1 DEF LockedOut, LoginCreate, RefreshCreate
    <3>3. PICK t \in Tokens :
            /\ owner'[t] = req[h].user /\ t \notin Issued
            /\ \A s \in Tokens : s # t => owner'[s] = owner[s]
      BY <1>1, <3>1, InsertedFor
    <3>4. QED BY <2>1, <3>2, <3>3, NoneAssumption DEF Issued
  <2>4. QED BY <1>1, <2>2, <2>3, RowsChange
<1>2. IInv /\ [Next]_vars =>
        [\A u \in Users : LockedOut(u) /\ u \notin active' =>
           /\ LockedOut(u)'
           /\ {t \in Issued : owner[t] = u}' = {t \in Issued : owner[t] = u}]_vars
  BY <1>1
<1>3. QED BY <1>2, Invariance, PTL DEF Spec, SuspendedObtainsNothing

\* The places from which a request goes on to insert a token.
Bearing == {"login_create", "refresh_rotate", "refresh_revoke", "refresh_user", "refresh_create"}

\* What a request that may still insert holds is what it held before, or was read
\* from the user's row or from a token that was not revoked.
LEMMA BearersRead ==
  ASSUME IInv, [Next]_vars, NEW h \in Handlers, req'[h].pc \in Bearing
  PROVE  \/ /\ req[h].pc \in Bearing
            /\ req'[h].user = req[h].user /\ req'[h].grade = req[h].grade
         \/ \E u \in Users : req'[h].user = u /\ req'[h].grade = resets[u]
         \/ \E t \in Live : req'[h].user = owner[t] /\ req'[h].grade = grade[t]
<1> USE DEF At, Goto, Finish, Hold, Bearing
<1>R. req \in [Handlers -> Request]
  BY DEF IInv, TypeOK
<1> DEFINE Same == /\ req[h].pc \in Bearing
                   /\ req'[h].user = req[h].user /\ req'[h].grade = req[h].grade
<1>1. ASSUME NEW g \in Handlers, RefreshCheck(g) \/ RefreshRevoke(g) PROVE Same
  BY <1>1, <1>R DEF RefreshCheck, RefreshRevoke, Request
<1>2. ASSUME NEW g \in Handlers, RefreshUser(g) PROVE Same
  <2>1. CASE req[g].user \in active
    BY <1>2, <1>R, <2>1 DEF RefreshUser, Request
  <2>2. CASE req[g].user \notin active
    BY <1>2, <1>R, <2>2 DEF RefreshUser, Idle
  <2>3. QED BY <2>1, <2>2
<1>3. ASSUME NEW g \in Handlers,
             \/ LoginCreate(g) \/ RefreshReuse(g) \/ RefreshExpired(g) \/ RefreshCreate(g)
             \/ LogoutRevoke(g) \/ ResetRevoke(g) \/ Fail(g)
      PROVE  Same
  <2>1. req' = [req EXCEPT ![g] = Idle]
    BY <1>3 DEF LoginCreate, RefreshReuse, RefreshExpired, RefreshCreate, LogoutRevoke,
                ResetRevoke, Fail
  <2>2. QED BY <1>R, <2>1 DEF Idle
<1>4. ASSUME NEW g \in Handlers, NEW v \in Users, Login(g, v)
      PROVE  Same \/ \E u \in Users : req'[h].user = u /\ req'[h].grade = resets[u]
  BY <1>4, <1>R DEF Login
<1>5. ASSUME NEW g \in Handlers, NEW v \in Users, ResetPassword(g, v) PROVE Same
  BY <1>5, <1>R DEF ResetPassword
<1>6. ASSUME NEW g \in Handlers, NEW t \in Tokens, RefreshRead(g, t)
      PROVE  Same \/ \E s \in Live : req'[h].user = owner[s] /\ req'[h].grade = grade[s]
  BY <1>6, <1>R DEF RefreshRead, Verdict, FindByHash, Live
<1>7. ASSUME NEW g \in Handlers, NEW t \in Tokens, LogoutRead(g, t) \/ RevokeSession(g, t)
      PROVE  Same
  BY <1>7, <1>R DEF LogoutRead, RevokeSession
<1>8. ASSUME \/ UNCHANGED vars
             \/ \E t \in Tokens : Expire(t)
             \/ \E v \in Users : Suspend(v) \/ Reinstate(v)
      PROVE  Same
  BY <1>8 DEF vars, Expire, Suspend, Reinstate
<1>9. QED
  BY <1>1, <1>2, <1>3, <1>4, <1>5, <1>6, <1>7, <1>8 DEF Next, Step

\* Once the sessions of an old password are gone, with the requests that were in
\* flight for them, none comes back until the password is reset again.
THEOREM OldPasswordIsFinal == Spec => OldPasswordStaysOut
<1>1. ASSUME IInv, [Next]_vars, NEW u \in Users, Purged(u), resets'[u] = resets[u]
      PROVE  Purged(u)'
  <2>1. ASSUME NEW t \in Live', owner'[t] = u PROVE grade'[t] = resets'[u]
    <3>1. t \in Tokens /\ t \notin revoked'
      BY <2>1 DEF Live, Issued
    <3>2. revoked \subseteq revoked'
      BY <1>1, RevocationIsFinal
    <3>3. CASE UNCHANGED rowVars
      BY <1>1, <2>1, <3>1, <3>2, <3>3 DEF Purged, Live, Issued, rowVars
    <3>4. CASE \E h \in Handlers : LoginCreate(h) \/ RefreshCreate(h)
      <4>1. PICK h \in Handlers : LoginCreate(h) \/ RefreshCreate(h)
        BY <3>4
      <4>2. PICK s \in Tokens :
              /\ Issued' \subseteq Issued \cup {s}
              /\ owner'[s] = req[h].user /\ grade'[s] = req[h].grade
              /\ \A r \in Tokens : r # s => owner'[r] = owner[r] /\ grade'[r] = grade[r]
        BY <1>1, <4>1, InsertedFor
      <4>3. CASE t = s
        BY <1>1, <2>1, <4>1, <4>2, <4>3 DEF Purged, LoginCreate, RefreshCreate, At
      <4>4. CASE t # s
        BY <1>1, <2>1, <3>1, <3>2, <4>2, <4>4 DEF Purged, Live
      <4>5. QED BY <4>3, <4>4
    <3>5. QED BY <1>1, <3>3, <3>4, RowsChange
  <2>2. ASSUME NEW h \in Handlers, req'[h].user = u, req'[h].pc \in Bearing
        PROVE  req'[h].grade = resets'[u]
    BY <1>1, <2>2, BearersRead DEF Purged, Bearing
  <2>3. QED BY <2>1, <2>2 DEF Purged, Bearing
<1>2. IInv /\ [Next]_vars =>
        [\A u \in Users : Purged(u) /\ resets'[u] = resets[u] => Purged(u)']_vars
  BY <1>1
<1>3. QED BY <1>2, Invariance, PTL DEF Spec, OldPasswordStaysOut

-------------------------------------------------------------------------------
(* How often one token is exchanged.                                       *)

Redeemers(t) == {h \in Handlers : Redeeming(h, t)}

LEMMA Counting ==
  /\ \A S \in SUBSET Tokens : Cardinality(S) \in Nat
  /\ \A S, R \in SUBSET Tokens : S \subseteq R => Cardinality(S) <= Cardinality(R)
  /\ \A S \in SUBSET Tokens, t \in Tokens : Cardinality(S \cup {t}) <= Cardinality(S) + 1
  /\ \A S \in SUBSET Handlers : Cardinality(S) \in Nat /\ Cardinality(S) <= Cardinality(Handlers)
  /\ \A S, R \in SUBSET Handlers : S \subseteq R => Cardinality(S) <= Cardinality(R)
  /\ \A S \in SUBSET Handlers : \A h \in S : Cardinality(S \ {h}) = Cardinality(S) - 1
<1>1. \A S \in SUBSET Tokens : IsFiniteSet(S) /\ Cardinality(S) \in Nat
  BY FiniteAssumption, FS_Subset, FS_CardinalityType
<1>2. \A S \in SUBSET Handlers : IsFiniteSet(S) /\ Cardinality(S) \in Nat
  BY FiniteAssumption, FS_Subset, FS_CardinalityType
<1>3. \A S, R \in SUBSET Tokens : S \subseteq R => Cardinality(S) <= Cardinality(R)
  BY <1>1, FS_Subset
<1>4. \A S, R \in SUBSET Handlers : S \subseteq R => Cardinality(S) <= Cardinality(R)
  BY <1>2, FS_Subset
<1>5. ASSUME NEW S \in SUBSET Tokens, NEW t \in Tokens
      PROVE  Cardinality(S \cup {t}) <= Cardinality(S) + 1
  BY <1>1, FS_AddElement
<1>6. \A S \in SUBSET Handlers : \A h \in S : Cardinality(S \ {h}) = Cardinality(S) - 1
  BY <1>2, FS_RemoveElement
<1>7. \A S \in SUBSET Handlers : Cardinality(S) <= Cardinality(Handlers)
  BY <1>4
<1>8. QED BY <1>1, <1>2, <1>3, <1>4, <1>5, <1>6, <1>7

\* Inserting a successor takes its request from those that are redeeming the token.
LEMMA SuccessorStep ==
  ASSUME IInv, NEW h \in Handlers, RefreshCreate(h)
  PROVE  \E c, p \in Tokens :
           /\ h \in Redeemers(p) /\ Redeemers(p)' = Redeemers(p) \ {h}
           /\ Children(p)' \subseteq Children(p) \cup {c}
           /\ \A t \in Tokens : t # p => /\ Children(t)' \subseteq Children(t)
                                         /\ Redeemers(t)' \subseteq Redeemers(t)
<1>1. /\ req[h].tok \in Issued /\ req[h].pc = "refresh_create"
      /\ req \in [Handlers -> Request] /\ parent \in [Tokens -> Tokens \cup {NoToken}]
      /\ owner \in [Tokens -> Users \cup {NoUser}]
  BY DEF RefreshCreate, At, IInv, TypeOK, RequestShape, ShapeOf
<1>2. PICK p \in Tokens : p = req[h].tok
  BY <1>1 DEF Issued
<1>3. PICK c \in Tokens : Create(c, req[h].user, family[req[h].tok], p, req[h].grade)
  BY <1>2 DEF RefreshCreate
<1>4. req' = [req EXCEPT ![h] = Idle] /\ expired' = expired
  BY DEF RefreshCreate, Finish
<1>5. /\ req'[h].pc = "idle" /\ \A g \in Handlers : g # h => req'[g] = req[g]
  BY <1>1, <1>4 DEF Idle
<1>6. /\ parent'[c] = p
      /\ \A t \in Tokens : t # c => parent'[t] = parent[t] /\ owner'[t] = owner[t]
  BY <1>1, <1>3 DEF Create
<1>7. /\ Children(p)' \subseteq Children(p) \cup {c}
      /\ \A t \in Tokens : t # p => Children(t)' \subseteq Children(t)
  BY <1>6 DEF Children, Issued
<1>8. /\ h \in Redeemers(p) /\ Redeemers(p)' = Redeemers(p) \ {h}
      /\ \A t \in Tokens : Redeemers(t)' \subseteq Redeemers(t)
  <2>1. \A g \in Handlers, t \in Tokens : Redeeming(g, t)' <=> Redeeming(g, t) /\ g # h
    BY <1>1, <1>4, <1>5 DEF Redeeming, At
  <2>2. Redeeming(h, p)
    BY <1>1, <1>2 DEF Redeeming, At
  <2>3. QED BY <2>1, <2>2 DEF Redeemers
<1>9. QED BY <1>7, <1>8

\* A new session has no parent.
LEMMA SessionStep ==
  ASSUME IInv, NEW h \in Handlers, LoginCreate(h), NEW t \in Tokens
  PROVE  Children(t)' \subseteq Children(t) /\ Redeemers(t)' \subseteq Redeemers(t)
<1>1. /\ req \in [Handlers -> Request] /\ parent \in [Tokens -> Tokens \cup {NoToken}]
      /\ owner \in [Tokens -> Users \cup {NoUser}]
  BY DEF IInv, TypeOK
<1>2. PICK c \in Tokens : Create(c, req[h].user, c, NoToken, req[h].grade)
  BY DEF LoginCreate
<1>3. req' = [req EXCEPT ![h] = Idle] /\ expired' = expired
  BY DEF LoginCreate, Finish
<1>4. /\ parent'[c] = NoToken
      /\ \A s \in Tokens : s # c => parent'[s] = parent[s] /\ owner'[s] = owner[s]
  BY <1>1, <1>2 DEF Create
<1>5. Children(t)' \subseteq Children(t)
  BY <1>4, NoneAssumption DEF Children, Issued
<1>6. Redeemers(t)' \subseteq Redeemers(t)
  BY <1>1, <1>3 DEF Redeemers, Redeeming, At, Idle
<1>7. QED BY <1>5, <1>6

\* One token is exchanged at most once for each request that can be in flight,
\* for any number of them: a request starts to redeem a token only while it is
\* not revoked, and then nobody has a successor of it yet.
THEOREM BranchingIsBounded == Spec => []BranchingBound
<1> USE Counting
<1> DEFINE C(t) == Cardinality(Children(t))
           N(t) == Cardinality(Redeemers(t))
           Bound(t) == C(t) + N(t) <= Cardinality(Handlers)
           All == \A t \in Tokens : Bound(t)
<1>S. \A t \in Tokens : /\ Children(t) \in SUBSET Tokens /\ Redeemers(t) \in SUBSET Handlers
                        /\ Children(t)' \in SUBSET Tokens /\ Redeemers(t)' \in SUBSET Handlers
  BY DEF Children, Issued, Redeemers
<1>N. /\ Cardinality(Handlers) \in Nat
      /\ \A t \in Tokens : /\ C(t) \in Nat /\ N(t) \in Nat /\ N(t) <= Cardinality(Handlers)
                           /\ C(t)' \in Nat /\ N(t)' \in Nat /\ N(t)' <= Cardinality(Handlers)
  BY <1>S
<1>1. Init => All
  <2> SUFFICES ASSUME Init, NEW t \in Tokens PROVE Bound(t)
    OBVIOUS
  <2>1. Children(t) = {}
    BY DEF Init, Children, Issued
  <2>2. C(t) = 0
    BY <2>1, FS_EmptySet
  <2>3. QED BY <2>2, <1>N
<1>2. ASSUME IInv, All, [Next]_vars, NEW t \in Tokens PROVE Bound(t)'
  <2>1. ASSUME Children(t)' \subseteq Children(t), Redeemers(t)' \subseteq Redeemers(t)
        PROVE  Bound(t)'
    <3>1. C(t)' <= C(t) /\ N(t)' <= N(t)
      BY <2>1, <1>S
    <3>2. QED BY <3>1, <1>2, <1>N
  <2>2. CASE \E h \in Handlers : RefreshCreate(h)
    <3>1. PICK h \in Handlers, c \in Tokens, p \in Tokens :
            /\ h \in Redeemers(p) /\ Redeemers(p)' = Redeemers(p) \ {h}
            /\ Children(p)' \subseteq Children(p) \cup {c}
            /\ t # p => /\ Children(t)' \subseteq Children(t)
                        /\ Redeemers(t)' \subseteq Redeemers(t)
      BY <1>2, <2>2, SuccessorStep
    <3>2. CASE t = p
      <4>1. N(t)' = N(t) - 1
        BY <3>1, <3>2, <1>S
      <4>2. Children(t) \cup {c} \in SUBSET Tokens
        BY <1>S
      <4>3. /\ C(t)' <= Cardinality(Children(t) \cup {c})
            /\ Cardinality(Children(t) \cup {c}) <= C(t) + 1
            /\ Cardinality(Children(t) \cup {c}) \in Nat
        BY <3>1, <3>2, <4>2, <1>S
      <4>4. QED BY <4>1, <4>3, <1>2, <1>N
    <3>3. CASE t # p
      BY <3>1, <3>3, <2>1
    <3>4. QED BY <3>2, <3>3
  <2>3. CASE \E h \in Handlers : LoginCreate(h)
    BY <1>2, <2>1, <2>3, SessionStep
  <2>4. CASE UNCHANGED rowVars
    <3>1. Children(t)' = Children(t)
      BY <2>4 DEF rowVars, Children, Issued
    <3>2. CASE Redeemers(t)' \subseteq Redeemers(t)
      BY <2>1, <3>1, <3>2
    <3>3. CASE ~(Redeemers(t)' \subseteq Redeemers(t))
      <4>1. PICK h \in Handlers : Redeeming(h, t)' /\ ~Redeeming(h, t)
        BY <3>3 DEF Redeemers
      <4>2. t \notin revoked
        BY <1>2, <4>1, RedeemingStarts
      <4>3. Children(t) = {}
        BY <1>2, <4>2, NoneAssumption DEF IInv, RotationConsumesParent, Children
      <4>4. C(t)' = 0
        BY <3>1, <4>3, FS_EmptySet
      <4>5. QED BY <4>4, <1>N
    <3>4. QED BY <3>2, <3>3
  <2>5. QED BY <1>2, <2>2, <2>3, <2>4, RowsChange
<1>3. IInv /\ All /\ [Next]_vars => All'
  BY <1>2
<1>4. All => BranchingBound
  BY DEF BranchingBound, Redeemers, Issued
<1>5. QED BY <1>1, <1>3, <1>4, Invariance, PTL DEF Spec

-------------------------------------------------------------------------------
(* With one request at a time a family is a chain of SessionChain.          *)

Serial == \A g, h \in Handlers : g = h

\* What the refinement mapping of Chain makes of the table and the requests.
LiveMap == [f \in Tokens |-> FamilyOf(f) \ revoked]
Owing(r) == r.pc \in {"refresh_user", "refresh_create"}
Spending(r) == r.pc \in {"refresh_rotate", "refresh_revoke"}
Owed == {family[req[h].tok] : h \in {g \in Handlers :
           At(g, "refresh_user") \/ At(g, "refresh_create")}}

\* A family is of one user and has one token that works, and none while the request
\* that spent it may still store the next. A request about to spend a token found it
\* unrevoked, and no other was there to change that.
ChainInv ==
  /\ \A t \in Issued : owner[family[t]] = owner[t]
  /\ \A t, s \in Live : family[t] = family[s] => t = s
  /\ \A h \in Handlers : Spending(req[h]) => req[h].tok \notin revoked
  /\ \A h \in Handlers : Owing(req[h]) => LiveMap[family[req[h].tok]] = {}

\* What is owed is owed by the one request.
LEMMA OwedBy ==
  ASSUME Serial, NEW h \in Handlers
  PROVE  Owed = IF Owing(req[h]) THEN {family[req[h].tok]} ELSE {}
BY DEF Serial, Owed, Owing, At

LEMMA LiveMapIs ==
  \A f \in Tokens : LiveMap[f] = {t \in Live : family[t] = f}
BY DEF LiveMap, FamilyOf, Live

\* Steps that neither touch the table nor the places where a successor is owed.
LEMMA ChainRests ==
  ASSUME Serial, IInv, ChainInv, UNCHANGED <<rowVars, revoked>>, NEW h \in Handlers,
         Owing(req'[h]) <=> Owing(req[h]), Owing(req[h]) => req'[h].tok = req[h].tok,
         Spending(req'[h]) => req'[h].tok \notin revoked
  PROVE  ChainInv' /\ UNCHANGED Chain!chainVars
<1>1. LiveMap' = LiveMap /\ Issued' = Issued /\ Live' = Live /\ family' = family /\ owner' = owner
  BY DEF LiveMap, FamilyOf, Live, Issued, rowVars
<1>2. Owed = IF Owing(req[h]) THEN {family[req[h].tok]} ELSE {}
  BY OwedBy
<1>3. Owed' = IF Owing(req'[h]) THEN {family[req'[h].tok]} ELSE {}
  BY <1>1 DEF Serial, Owed, Owing, At
<1>4. Owed' = Owed
  BY <1>2, <1>3
<1>5. UNCHANGED Chain!chainVars
  BY <1>1, <1>4 DEF Chain!chainVars, LiveMap, Owed
<1>6. ChainInv'
  BY <1>1 DEF ChainInv, Serial
<1>7. QED BY <1>5, <1>6

\* An UPDATE that revokes whole families, as far as they are not revoked.
LEMMA ChainCloses ==
  ASSUME Serial, IInv, ChainInv, UNCHANGED rowVars, NEW F \in SUBSET Tokens,
         revoked' = revoked \cup {t \in Issued : family[t] \in F},
         NEW h \in Handlers, ~Owing(req[h]), ~Owing(req'[h]), ~Spending(req'[h])
  PROVE  ChainInv' /\ Chain!ChainNext
<1>1. Issued' = Issued /\ family' = family /\ owner' = owner /\ Live' \subseteq Live
  BY DEF Live, Issued, rowVars
<1>2. LiveMap' = [f \in Tokens |-> IF f \in F THEN {} ELSE LiveMap[f]]
  BY <1>1 DEF LiveMap, FamilyOf
<1>3. revoked' = revoked \cup UNION {LiveMap[f] : f \in F}
  <2>1. \A f \in F : LiveMap[f] = {t \in Issued : family[t] = f} \ revoked
    BY DEF LiveMap, FamilyOf
  <2>2. UNION {LiveMap[f] : f \in F} = {t \in Issued : family[t] \in F} \ revoked
    BY <2>1
  <2>3. QED BY <2>2
<1>4. Owed = {} /\ Owed' = {}
  <2>1. Owed = {}
    BY OwedBy
  <2>2. Owed' = {}
    BY DEF Serial, Owed, Owing, At
  <2>3. QED BY <2>1, <2>2
<1>5. Chain!Close(F)
  BY <1>2, <1>3, <1>4 DEF Chain!Close, LiveMap, Owed
<1>6. Chain!ChainNext
  BY <1>5 DEF Chain!ChainNext
<1>7. ChainInv'
  BY <1>1 DEF ChainInv, Serial
<1>8. QED BY <1>6, <1>7

\* An INSERT.
LEMMA ChainExtends ==
  ASSUME IInv, NEW t \in Tokens, NEW f \in Tokens, NEW u \in Users, NEW p, NEW g,
         Create(t, u, f, p, g), revoked' = revoked, f = t \/ f \in Issued
  PROVE  /\ t \notin revoked /\ \A e \in Tokens : t \notin LiveMap[e]
         /\ f = t => LiveMap[t] = {}
         /\ LiveMap' = [LiveMap EXCEPT ![f] = LiveMap[f] \cup {t}]
         /\ Live' = Live \cup {t} /\ Issued' = Issued \cup {t} /\ t \notin Issued
         /\ owner'[t] = u /\ family'[t] = f
         /\ \A s \in Issued : /\ owner'[s] = owner[s] /\ family'[s] = family[s]
                              /\ family[s] \in Issued
<1> USE NoneAssumption
<1>1. /\ owner \in [Tokens -> Users \cup {NoUser}] /\ family \in [Tokens -> Tokens \cup {NoToken}]
      /\ \A s \in Issued : family[s] \in Issued
      /\ t \notin revoked /\ t \notin Issued
  BY DEF IInv, TypeOK, RowShape, Create, Fresh
<1>2. /\ owner' = [owner EXCEPT ![t] = u] /\ family' = [family EXCEPT ![t] = f]
  BY DEF Create
<1>3. /\ owner'[t] = u /\ family'[t] = f
      /\ \A s \in Tokens : s # t => owner'[s] = owner[s] /\ family'[s] = family[s]
  BY <1>1, <1>2
<1>4. Issued' = Issued \cup {t} /\ Live' = Live \cup {t}
  <2>1. Issued' = Issued \cup {t}
    BY <1>1, <1>3 DEF Issued
  <2>2. QED BY <1>1, <2>1 DEF Live
<1>5. \A e \in Tokens : FamilyOf(e)' = IF e = f THEN FamilyOf(e) \cup {t} ELSE FamilyOf(e)
  <2>1. \A s \in Issued : s \in Tokens /\ s # t
    BY <1>1 DEF Issued
  <2>2. QED BY <1>3, <1>4, <2>1 DEF FamilyOf
<1>6. LiveMap' = [LiveMap EXCEPT ![f] = LiveMap[f] \cup {t}]
  <2>1. \A e \in Tokens : FamilyOf(e)' \ revoked' =
          IF e = f THEN (FamilyOf(e) \ revoked) \cup {t} ELSE FamilyOf(e) \ revoked
    BY <1>1, <1>5
  <2>2. \A e \in Tokens : LiveMap[e] = FamilyOf(e) \ revoked /\ LiveMap'[e] = FamilyOf(e)' \ revoked'
    BY DEF LiveMap
  <2>3. \A e \in Tokens : LiveMap'[e] = [LiveMap EXCEPT ![f] = LiveMap[f] \cup {t}][e]
    BY <2>1, <2>2 DEF LiveMap
  <2>4. QED BY <2>3 DEF LiveMap
<1>7. f = t => LiveMap[t] = {}
  BY <1>1 DEF LiveMap, FamilyOf
<1>8. \A e \in Tokens : t \notin LiveMap[e]
  BY <1>1 DEF LiveMap, FamilyOf
<1>9. \A s \in Issued : s \in Tokens
  BY DEF Issued
<1>10. QED BY <1>1, <1>3, <1>4, <1>6, <1>7, <1>8, <1>9

\* Each statement is a step of SessionChain, or changes nothing of the chains.
LEMMA ChainStep ==
  ASSUME Serial, IInv, ChainInv, [Next]_vars
  PROVE  ChainInv' /\ [Chain!ChainNext]_(Chain!chainVars)
<1> USE DEF At, Goto, Finish, Hold
<1>T. /\ req \in [Handlers -> Request] /\ revoked \subseteq Tokens
      /\ owner \in [Tokens -> Users \cup {NoUser}] /\ family \in [Tokens -> Tokens \cup {NoToken}]
      /\ \A t \in Issued : t \in Tokens /\ family[t] \in Issued /\ owner[t] \in Users
      /\ \A h \in Handlers : ShapeOf(req[h])
  BY DEF IInv, TypeOK, RowShape, RequestShape, Issued
<1>C. /\ \A t \in Issued : owner[family[t]] = owner[t]
      /\ \A t, s \in Live : family[t] = family[s] => t = s
      /\ \A h \in Handlers : Spending(req[h]) => req[h].tok \notin revoked
      /\ \A h \in Handlers : Owing(req[h]) => LiveMap[family[req[h].tok]] = {}
  BY DEF ChainInv
<1>I. Idle.pc = "idle" /\ ~Owing(Idle) /\ ~Spending(Idle)
  BY DEF Idle, Owing, Spending
<1>1. ASSUME NEW h \in Handlers, LoginCreate(h)
      PROVE  ChainInv' /\ Chain!ChainNext
  <2>1. PICK t \in Tokens : Create(t, req[h].user, t, NoToken, req[h].grade)
    BY <1>1 DEF LoginCreate
  <2>2. req[h].pc = "login_create" /\ req[h].user \in Users /\ revoked' = revoked /\ req' = [req EXCEPT ![h] = Idle]
    BY <1>1, <1>T DEF LoginCreate, ShapeOf
  <2>3. req'[h] = Idle
    BY <1>T, <2>2
  <2>4. /\ t \notin revoked /\ \A e \in Tokens : t \notin LiveMap[e]
        /\ LiveMap[t] = {} /\ LiveMap' = [LiveMap EXCEPT ![t] = {t}]
        /\ Live' = Live \cup {t} /\ Issued' = Issued \cup {t} /\ t \notin Issued
        /\ family'[t] = t
        /\ \A s \in Issued : owner'[s] = owner[s] /\ family'[s] = family[s] /\ family[s] \in Issued
    BY <2>1, <2>2, ChainExtends
  <2>5. Owed = {} /\ Owed' = {}
    <3>1. Owed = {}
      BY <2>2, OwedBy DEF Owing
    <3>2. Owed' = {}
      BY <1>I, <2>3 DEF Serial, Owed, Owing
    <3>3. QED BY <3>1, <3>2
  <2>6. Chain!Open(t)
    BY <2>2, <2>4, <2>5 DEF Chain!Open, Chain!Unused, LiveMap, Owed
  <2>7. ChainInv'
    <3>1. \A s \in Issued' : owner'[family'[s]] = owner'[s]
      BY <1>C, <2>4
    <3>2. \A s \in Live' : s # t => s \in Issued /\ s \in Live /\ family'[s] # t
      BY <2>4 DEF Live
    <3>3. \A s, r \in Live' : family'[s] = family'[r] => s = r
      BY <1>C, <2>4, <3>2
    <3>4. \A g \in Handlers : req'[g] = Idle
      BY <2>3 DEF Serial
    <3>5. QED BY <1>I, <3>1, <3>3, <3>4 DEF ChainInv
  <2>8. QED BY <2>6, <2>7 DEF Chain!ChainNext
<1>2. ASSUME NEW h \in Handlers, RefreshCreate(h)
      PROVE  ChainInv' /\ Chain!ChainNext
  <2>1. PICK p \in Tokens : p = req[h].tok /\ p \in Issued /\ req[h].user = owner[p] /\ req[h].pc = "refresh_create"
    BY <1>2, <1>T DEF RefreshCreate, ShapeOf
  <2>2. PICK f \in Tokens : f = family[p] /\ f \in Issued
    BY <1>T, <2>1
  <2>3. PICK t \in Tokens : Create(t, req[h].user, f, p, req[h].grade)
    BY <1>2, <2>1, <2>2 DEF RefreshCreate
  <2>4. req[h].user \in Users /\ revoked' = revoked /\ req' = [req EXCEPT ![h] = Idle]
    BY <1>2, <1>T, <2>1 DEF RefreshCreate
  <2>5. req'[h] = Idle
    BY <1>T, <2>4
  <2>6. LiveMap[f] = {}
    BY <1>C, <2>1, <2>2 DEF Owing
  <2>7. /\ t \notin revoked /\ \A e \in Tokens : t \notin LiveMap[e]
        /\ LiveMap' = [LiveMap EXCEPT ![f] = LiveMap[f] \cup {t}]
        /\ Live' = Live \cup {t} /\ Issued' = Issued \cup {t} /\ t \notin Issued
        /\ owner'[t] = req[h].user /\ family'[t] = f
        /\ \A s \in Issued : owner'[s] = owner[s] /\ family'[s] = family[s] /\ family[s] \in Issued
    BY <2>2, <2>3, <2>4, ChainExtends
  <2>8. LiveMap' = [LiveMap EXCEPT ![f] = {t}]
    BY <2>6, <2>7
  <2>9. Owed = {f} /\ Owed' = {}
    <3>1. Owed = {f}
      BY <2>1, <2>2, OwedBy DEF Owing
    <3>2. Owed' = {}
      BY <1>I, <2>5 DEF Serial, Owed, Owing
    <3>3. QED BY <3>1, <3>2
  <2>10. Chain!Renew(f, t)
    <3>1. f \in Owed /\ Owed' = Owed \ {f}
      BY <2>9
    <3>2. QED BY <2>4, <2>7, <2>8, <3>1 DEF Chain!Renew, Chain!Unused, LiveMap, Owed
  <2>11. ChainInv'
    <3>1. \A s \in Issued' : owner'[family'[s]] = owner'[s]
      <4>1. owner[f] = owner[p]
        BY <1>C, <2>1, <2>2
      <4>2. QED BY <1>C, <2>1, <2>2, <2>7, <4>1
    <3>2. \A s \in Live' : s # t => s \in Live /\ s \in Issued /\ family'[s] # f
      BY <2>2, <2>6, <2>7, LiveMapIs DEF Live
    <3>3. \A s, r \in Live' : family'[s] = family'[r] => s = r
      BY <1>C, <2>7, <3>2
    <3>4. \A g \in Handlers : req'[g] = Idle
      BY <2>5 DEF Serial
    <3>5. QED BY <1>I, <3>1, <3>3, <3>4 DEF ChainInv
  <2>12. QED BY <2>10, <2>11 DEF Chain!ChainNext
<1>3. ASSUME NEW h \in Handlers, RefreshRevoke(h)
      PROVE  ChainInv' /\ Chain!ChainNext
  <2>1. PICK p \in Tokens : p = req[h].tok /\ p \in Issued /\ p \notin revoked /\ req[h].pc = "refresh_revoke"
    BY <1>3, <1>T, <1>C DEF RefreshRevoke, ShapeOf, Spending
  <2>2. PICK f \in Tokens : f = family[p]
    BY <1>T, <2>1
  <2>3. /\ req'[h].pc = "refresh_user" /\ req'[h].tok = p /\ revoked' = revoked \cup {p}
        /\ UNCHANGED rowVars
    BY <1>3, <1>T, <2>1 DEF RefreshRevoke, RevokeByID, Request
  <2>4. LiveMap[f] = {p}
    BY <1>C, <2>1, <2>2, LiveMapIs DEF Live
  <2>5. Issued' = Issued /\ family' = family /\ owner' = owner /\ Live' = Live \ {p}
    BY <2>3 DEF rowVars, Issued, Live
  <2>6. LiveMap' = [LiveMap EXCEPT ![f] = {}]
    <3>1. \A e \in Tokens : LiveMap'[e] = LiveMap[e] \ {p}
      BY <2>3, <2>5 DEF LiveMap, FamilyOf
    <3>2. \A e \in Tokens : e # f => p \notin LiveMap[e]
      BY <2>2, LiveMapIs
    <3>3. \A e \in Tokens : LiveMap'[e] = [LiveMap EXCEPT ![f] = {}][e]
      BY <2>4, <3>1, <3>2 DEF LiveMap
    <3>4. QED BY <3>3 DEF LiveMap
  <2>7. Owed = {} /\ Owed' = {f}
    <3>1. Owed = {}
      BY <2>1, OwedBy DEF Owing
    <3>2. Owed' = {f}
      BY <2>2, <2>3, <2>5 DEF Serial, Owed, Owing
    <3>3. QED BY <3>1, <3>2
  <2>8. Chain!Claim(f)
    <3>1. LiveMap[f] # {} /\ revoked' = revoked \cup LiveMap[f] /\ Owed' = Owed \cup {f}
      BY <2>3, <2>4, <2>7
    <3>2. QED BY <2>6, <3>1 DEF Chain!Claim, LiveMap, Owed
  <2>9. ChainInv'
    <3>1. LiveMap'[f] = {}
      BY <2>6 DEF LiveMap
    <3>2. \A g \in Handlers : req'[g].pc = "refresh_user" /\ req'[g].tok = p
      BY <2>3 DEF Serial
    <3>3. QED BY <1>C, <2>2, <2>5, <3>1, <3>2 DEF ChainInv, Spending
  <2>10. QED BY <2>8, <2>9 DEF Chain!ChainNext
\* A request that gives up with a successor owed leaves its chain without one.
<1>4. ASSUME NEW h \in Handlers, req' = [req EXCEPT ![h] = Idle], UNCHANGED <<rowVars, revoked>>
      PROVE  ChainInv' /\ [Chain!ChainNext]_(Chain!chainVars)
  <2>1. req'[h] = Idle
    BY <1>4, <1>T
  <2>2. CASE ~Owing(req[h])
    BY <1>4, <1>I, <2>1, <2>2, ChainRests
  <2>3. CASE Owing(req[h])
    <3>1. /\ LiveMap' = LiveMap /\ revoked' = revoked /\ Issued' = Issued /\ Live' = Live
          /\ family' = family /\ owner' = owner
      BY <1>4 DEF rowVars, LiveMap, FamilyOf, Live, Issued
    <3>2. PICK f \in Tokens : f = family[req[h].tok]
      BY <1>T, <2>3 DEF Owing, ShapeOf
    <3>3. Owed = {f} /\ Owed' = {}
      <4>1. Owed = {f}
        BY <2>3, <3>2, OwedBy
      <4>2. Owed' = {}
        BY <1>I, <2>1 DEF Serial, Owed, Owing
      <4>3. QED BY <4>1, <4>2
    <3>4. Chain!Abandon(f)
      <4>1. f \in Owed /\ Owed' = Owed \ {f}
        BY <3>3
      <4>2. QED BY <3>1, <4>1 DEF Chain!Abandon, LiveMap, Owed
    <3>5. ChainInv'
      <4>1. \A g \in Handlers : req'[g] = Idle
        BY <2>1 DEF Serial
      <4>2. QED BY <1>I, <1>C, <3>1, <4>1 DEF ChainInv
    <3>6. QED BY <3>4, <3>5 DEF Chain!ChainNext
  <2>4. QED BY <2>2, <2>3
<1>5. ASSUME NEW h \in Handlers, RefreshExpired(h) \/ Fail(h)
      PROVE  ChainInv' /\ [Chain!ChainNext]_(Chain!chainVars)
  BY <1>5, <1>4 DEF RefreshExpired, Fail
<1>6. ASSUME NEW h \in Handlers, RefreshUser(h)
      PROVE  ChainInv' /\ [Chain!ChainNext]_(Chain!chainVars)
  <2>1. CASE req[h].user \in active
    <3>1. /\ req[h].pc = "refresh_user" /\ req'[h].pc = "refresh_create" /\ req'[h].tok = req[h].tok
          /\ UNCHANGED <<rowVars, revoked>>
      BY <1>6, <1>T, <2>1 DEF RefreshUser, Request
    <3>2. QED BY <3>1, ChainRests DEF Owing, Spending
  <2>2. CASE req[h].user \notin active
    BY <1>6, <1>4, <2>2 DEF RefreshUser
  <2>3. QED BY <2>1, <2>2
<1>7. ASSUME NEW h \in Handlers, RefreshReuse(h)
      PROVE  ChainInv' /\ Chain!ChainNext
  <2>1. PICK f \in Tokens : f = family[req[h].tok]
    BY <1>7, <1>T DEF RefreshReuse, ShapeOf
  <2>2. /\ req[h].pc = "refresh_reuse" /\ req'[h] = Idle /\ UNCHANGED rowVars
        /\ revoked' = revoked \cup {t \in Issued : family[t] \in {f}}
    BY <1>7, <1>T, <2>1 DEF RefreshReuse, RevokeByFamily, FamilyOf
  <2>3. {f} \in SUBSET Tokens
    OBVIOUS
  <2>4. QED BY <1>I, <2>2, <2>3, ChainCloses DEF Owing
<1>8. ASSUME NEW h \in Handlers, NEW t \in Issued, RevokeByID(t), UNCHANGED rowVars,
             ~Owing(req[h]), ~Owing(req'[h]), ~Spending(req'[h])
      PROVE  ChainInv' /\ [Chain!ChainNext]_(Chain!chainVars)
  <2>1. CASE t \in revoked
    <3>1. revoked' = revoked
      BY <1>8, <2>1 DEF RevokeByID
    <3>2. QED BY <1>8, <3>1, ChainRests
  <2>2. CASE t \notin revoked
    <3>1. PICK F \in SUBSET Tokens : F = {family[t]}
      BY <1>T
    <3>2. revoked' = revoked \cup {s \in Issued : family[s] \in F}
      BY <1>8, <1>C, <2>2, <3>1 DEF RevokeByID, Live
    <3>3. QED BY <1>8, <3>2, ChainCloses
  <2>3. QED BY <2>1, <2>2
<1>9. ASSUME NEW h \in Handlers, LogoutRevoke(h)
      PROVE  ChainInv' /\ [Chain!ChainNext]_(Chain!chainVars)
  <2>1. /\ req[h].tok \in Issued /\ RevokeByID(req[h].tok) /\ UNCHANGED rowVars
        /\ ~Owing(req[h]) /\ req'[h] = Idle
    BY <1>9, <1>T DEF LogoutRevoke, ShapeOf, Owing
  <2>2. QED BY <1>8, <1>I, <2>1
<1>10. ASSUME NEW h \in Handlers, NEW t \in Tokens, RevokeSession(h, t)
       PROVE  ChainInv' /\ [Chain!ChainNext]_(Chain!chainVars)
  <2>1. /\ t \in Issued /\ RevokeByID(t) /\ UNCHANGED rowVars
        /\ ~Owing(req[h]) /\ req' = req /\ req[h].pc = "idle"
    BY <1>10 DEF RevokeSession, Owing
  <2>2. QED BY <1>8, <2>1 DEF Spending
<1>11. ASSUME NEW h \in Handlers, ResetRevoke(h)
       PROVE  ChainInv' /\ Chain!ChainNext
  <2>1. PICK F \in SUBSET Tokens : F = {family[t] : t \in {s \in Issued : owner[s] = req[h].user}}
    BY <1>T
  <2>2. \A t \in Issued : owner[t] = req[h].user <=> family[t] \in F
    BY <1>C, <2>1
  <2>3. revoked' = revoked \cup {t \in Issued : family[t] \in F}
    BY <1>11, <2>2 DEF ResetRevoke, RevokeAllForUser
  <2>4. ~Owing(req[h]) /\ req'[h] = Idle /\ UNCHANGED rowVars
    BY <1>11, <1>T DEF ResetRevoke, Owing
  <2>5. QED BY <1>I, <2>3, <2>4, ChainCloses
<1>12. ASSUME NEW h \in Handlers, NEW u \in Users, Login(h, u) \/ ResetPassword(h, u)
       PROVE  ChainInv' /\ UNCHANGED Chain!chainVars
  <2>1. /\ req[h].pc = "idle" /\ req'[h].pc \in {"login_create", "reset_revoke"}
        /\ UNCHANGED <<rowVars, revoked>>
    BY <1>12, <1>T DEF Login, ResetPassword
  <2>2. QED BY <2>1, ChainRests DEF Owing, Spending
<1>16. ASSUME NEW h \in Handlers, RefreshCheck(h)
       PROVE  ChainInv' /\ UNCHANGED Chain!chainVars
  <2>1. /\ req[h].pc = "refresh_rotate" /\ req'[h].pc = "refresh_revoke" /\ req'[h].tok = req[h].tok
        /\ UNCHANGED <<rowVars, revoked>>
    BY <1>16, <1>T DEF RefreshCheck, Request
  <2>2. req[h].tok \notin revoked
    BY <1>C, <2>1 DEF Spending
  <2>3. QED BY <2>1, <2>2, ChainRests DEF Owing
<1>13. ASSUME NEW h \in Handlers, NEW t \in Tokens, RefreshRead(h, t) \/ LogoutRead(h, t)
       PROVE  ChainInv' /\ UNCHANGED Chain!chainVars
  <2>1. /\ req[h].pc = "idle" /\ req'[h].pc \in {"refresh_reuse", "refresh_rotate", "logout_revoke"}
        /\ req'[h].pc = "refresh_rotate" => req'[h].tok \notin revoked
        /\ UNCHANGED <<rowVars, revoked>>
    BY <1>13, <1>T DEF RefreshRead, LogoutRead, Verdict
  <2>2. QED BY <2>1, ChainRests DEF Owing, Spending
<1>14. ASSUME \/ UNCHANGED vars
              \/ \E t \in Tokens : Expire(t)
              \/ \E u \in Users : Suspend(u) \/ Reinstate(u)
       PROVE  ChainInv' /\ UNCHANGED Chain!chainVars
  <2>1. UNCHANGED <<rowVars, revoked, req>>
    BY <1>14 DEF vars, rowVars, Expire, Suspend, Reinstate
  <2>2. /\ LiveMap' = LiveMap /\ Issued' = Issued /\ Live' = Live /\ family' = family
        /\ owner' = owner /\ Owed' = Owed
    BY <2>1 DEF rowVars, LiveMap, FamilyOf, Live, Issued, Owed
  <2>3. UNCHANGED Chain!chainVars
    BY <2>1, <2>2 DEF Chain!chainVars, LiveMap, Owed
  <2>4. ChainInv'
    BY <1>C, <2>1, <2>2 DEF ChainInv
  <2>5. QED BY <2>3, <2>4
<1>15. QED
  BY <1>1, <1>2, <1>3, <1>5, <1>6, <1>7, <1>9, <1>10, <1>11, <1>12, <1>13, <1>14, <1>16
  DEF Next, Step

LEMMA ChainBegins == Init => ChainInv /\ Chain!ChainInit
<1> SUFFICES ASSUME Init PROVE ChainInv /\ Chain!ChainInit
  OBVIOUS
<1>1. Issued = {} /\ Live = {} /\ revoked = {} /\ \A h \in Handlers : req[h] = Idle
  BY DEF Init, Issued, Live
<1>2. LiveMap = [f \in Tokens |-> {}] /\ Owed = {}
  BY <1>1 DEF LiveMap, FamilyOf, Owed, At, Idle
<1>3. Chain!ChainInit
  BY <1>1, <1>2 DEF Chain!ChainInit, LiveMap, Owed
<1>4. ChainInv
  BY <1>1 DEF ChainInv, Idle, Owing, Spending
<1>5. QED BY <1>3, <1>4

\* Requests handled one after another, whichever statement of one fails, implement
\* SessionChain: rotation spends the presented token for good before its successor
\* appears, for any number of users and tokens.
THEOREM SerialImplementsChain ==
  ASSUME Serial PROVE Spec => ImplementsChain
<1>1. IInv /\ ChainInv /\ [Next]_vars => ChainInv' /\ [Chain!ChainNext]_(Chain!chainVars)
  BY ChainStep
<1>2. QED BY <1>1, ChainBegins, Invariance, PTL DEF Spec, ImplementsChain, Chain!ChainSpec

\* So a family has one token that works, and none while a request that spent it may
\* still store the next: SessionChain's promise, said of the table.
THEOREM SerialSingleUse ==
  ASSUME Serial PROVE Spec => []Chain!SingleUse
<1>1. IInv /\ ChainInv => Chain!SingleUse
  <2> SUFFICES ASSUME IInv, ChainInv PROVE Chain!SingleUse
    OBVIOUS
  <2>1. \A f \in Tokens : \A t, s \in LiveMap[f] : t = s
    BY LiveMapIs DEF ChainInv
  <2>2. \A f \in Tokens : f \in Owed => LiveMap[f] = {}
    BY DEF ChainInv, Owed, Owing, At
  <2>3. QED BY <2>1, <2>2 DEF Chain!SingleUse, LiveMap, Owed
<1>2. IInv /\ ChainInv /\ [Next]_vars => ChainInv'
  BY ChainStep
<1>3. QED BY <1>1, <1>2, ChainBegins, Invariance, PTL DEF Spec
===============================================================================
