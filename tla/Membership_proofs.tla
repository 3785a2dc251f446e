---------------------------- MODULE Membership_proofs ----------------------------
(***************************************************************************)
(* Proofs about Membership, for every number of users, invitations and      *)
(* requests: its type invariant, that an accepted invitation brought        *)
(* somebody in, and that closed invitations and removed members stay what   *)
(* they are. The argument needs what a request holds between statements.    *)
(***************************************************************************)
EXTENDS Membership, TLAPS

\* A user without a row came by no invitation, the owner included, so an insert
\* overwrites nobody's via.
RowsAreFirst == \A u \in Users : member[u] = "none" => via[u] = None

\* What request r holds is complete: a stored invitation, a role to give, and a
\* member whose row exists.
Holds(r) ==
  /\ r.pc = "invite" => r.role \in Roles
  /\ r.pc \in {"publish", "join", "accept"} => r.inv \in Created
  /\ r.pc \in {"join", "save"} => r.user \in Users /\ r.role \in Roles
  /\ r.pc = "save" => member[r.user] # "none"
  /\ r.pc = "accept" => \E u \in Users : via[u] = r.inv

RequestsHold == \A h \in Handlers : Holds(req[h])

IInv == TypeOK /\ RowsAreFirst /\ RequestsHold /\ AcceptedBroughtSomeone

LEMMA InitIInv == Init => IInv
<1> SUFFICES ASSUME Init PROVE IInv
  OBVIOUS
<1> USE OwnerAssumption, NoneAssumption DEF Init
<1>1. PICK s \in {"active", "none"} : member = [u \in Users |-> IF u = Owner THEN s ELSE "none"]
  OBVIOUS
<1>2. PICK r \in Roles : role = [u \in Users |-> IF member[u] = "active" THEN r ELSE None]
  OBVIOUS
<1>3. TypeOK
  BY <1>1, <1>2 DEF TypeOK, Created, Request, Idle, Standings
<1>4. QED
  BY <1>1, <1>3 DEF IInv, RowsAreFirst, RequestsHold, Holds, AcceptedBroughtSomeone, Idle

\* What the requests hold stays true while rows and invitations are only added.
LEMMA RequestsKept ==
  ASSUME IInv, NEW h \in Handlers, NEW r \in Request, req' = [req EXCEPT ![h] = r], Holds(r)',
         Created \subseteq Created',
         \A u \in Users : member[u] # "none" => member'[u] # "none" /\ via'[u] = via[u]
  PROVE  RequestsHold' /\ req' \in [Handlers -> Request]
<1>1. \A u \in Users : via[u] # None => via'[u] = via[u]
  BY DEF IInv, RowsAreFirst
<1>2. \A g \in Handlers : req[g].pc = "accept" => \E u \in Users : via'[u] = req[g].inv
  BY <1>1, NoneAssumption DEF IInv, RequestsHold, Holds, Created
<1>3. ASSUME NEW g \in Handlers PROVE Holds(req[g])'
  <2>1. CASE g = h
    BY <2>1 DEF IInv, TypeOK, Holds, Created
  <2>2. CASE g # h
    BY <1>2, <2>2 DEF IInv, TypeOK, RequestsHold, Holds
  <2>3. QED BY <2>1, <2>2
<1>4. QED BY <1>3 DEF IInv, TypeOK, RequestsHold

LEMMA NextIInv == IInv /\ [Next]_vars => IInv'
<1> SUFFICES ASSUME IInv, [Next]_vars PROVE IInv'
  OBVIOUS
<1> USE OwnerAssumption, NoneAssumption DEF At, Finish, Hold
<1>T. /\ member \in [Users -> Standings] /\ role \in [Users -> Roles \cup {None}]
      /\ offered \in [Invitations -> Roles \cup {None}]
      /\ via \in [Users -> Invitations \cup {None}] /\ req \in [Handlers -> Request]
      /\ accepted \subseteq Created /\ expired \subseteq Created /\ sent \subseteq Created
      /\ Created \subseteq Invitations
  BY DEF IInv, TypeOK, Created
<1>H. \A h \in Handlers : Holds(req[h]) /\ req[h] \in Request
  BY <1>T DEF IInv, RequestsHold
<1>I. Idle \in Request /\ Holds(Idle)'
  BY DEF Idle, Request, Holds
<1>R. \A h \in Handlers : [req[h] EXCEPT !.pc = "accept"] \in Request
  BY <1>T DEF Request
\* Steps that leave the members and the invitations' rows alone.
<1>K. ASSUME UNCHANGED <<member, role, offered, via>>, NEW h \in Handlers, NEW r \in Request,
             req' = [req EXCEPT ![h] = r], Holds(r),
             accepted' \subseteq Created, expired' \subseteq Created, sent' \subseteq Created,
             AcceptedBroughtSomeone'
      PROVE  IInv'
  <2>1. Created' = Created /\ Holds(r)'
    BY <1>K DEF Created, Holds
  <2>2. RequestsHold' /\ req' \in [Handlers -> Request]
    BY <1>K, <2>1, RequestsKept
  <2>3. QED BY <1>K, <2>1, <2>2 DEF IInv, TypeOK, RowsAreFirst
<1>A. AcceptedBroughtSomeone
  BY DEF IInv
<1>J. Holds(Idle)
  BY DEF Holds, Idle
<1>1. ASSUME NEW h \in Handlers, InviteCreate(h) PROVE IInv'
  <2>1. PICK i \in Invitations \ Created :
          /\ offered' = [offered EXCEPT ![i] = req[h].role]
          /\ Hold(h, "publish", None, None, i)
    BY <1>1 DEF InviteCreate
  <2>2. req[h].role \in Roles
    BY <1>1, <1>H DEF InviteCreate, Holds
  <2>3. Created' = Created \cup {i}
    BY <1>T, <2>1, <2>2 DEF Created
  <2> DEFINE r == [pc |-> "publish", user |-> None, role |-> None, inv |-> i]
  <2>4. r \in Request /\ Holds(r)'
    BY <2>3 DEF Request, Holds
  <2>5. RequestsHold' /\ req' \in [Handlers -> Request]
    BY <1>1, <2>1, <2>3, <2>4, RequestsKept DEF InviteCreate
  <2>6. offered' \in [Invitations -> Roles \cup {None}]
    BY <1>T, <2>1, <2>2
  <2>7. QED BY <1>1, <1>T, <2>3, <2>5, <2>6
            DEF InviteCreate, IInv, TypeOK, RowsAreFirst, AcceptedBroughtSomeone
<1>2. ASSUME NEW h \in Handlers, InvitePublish(h) PROVE IInv'
  <2>1. req[h].inv \in Created
    BY <1>2, <1>H DEF InvitePublish, Holds
  <2>2. QED BY <1>2, <1>T, <1>I, <1>J, <1>A, <1>K, <2>1 DEF InvitePublish, AcceptedBroughtSomeone
<1>3. ASSUME NEW h \in Handlers, AcceptCreate(h) PROVE IInv'
  <2> DEFINE u == req[h].user
             i == req[h].inv
  <2>0. PICK r \in Request : r = [req[h] EXCEPT !.pc = "accept"]
    BY <1>R
  <2>1. /\ u \in Users /\ req[h].role \in Roles /\ i \in Created /\ i # None
        /\ member[u] = "none" /\ via[u] = None
    BY <1>3, <1>H, <1>T DEF AcceptCreate, Holds, IInv, RowsAreFirst
  <2>2. /\ member' = [member EXCEPT ![u] = "active"] /\ role' = [role EXCEPT ![u] = req[h].role]
        /\ via' = [via EXCEPT ![u] = i] /\ req' = [req EXCEPT ![h] = r]
        /\ UNCHANGED <<offered, accepted, expired, sent>> /\ Created' = Created
    BY <1>3, <2>0 DEF AcceptCreate, Created
  <2>3. /\ member'[u] = "active" /\ via'[u] = i /\ role'[u] = req[h].role
        /\ \A v \in Users \ {u} : member'[v] = member[v] /\ via'[v] = via[v] /\ role'[v] = role[v]
        /\ member' \in [Users -> Standings] /\ role' \in [Users -> Roles \cup {None}]
        /\ via' \in [Users -> Invitations \cup {None}]
    BY <1>T, <2>1, <2>2 DEF Standings
  <2>4. r.pc = "accept" /\ r.inv = i
    BY <1>H, <2>0 DEF Request
  <2>5. Holds(r)'
    BY <2>1, <2>2, <2>3, <2>4 DEF Holds
  <2>6. RequestsHold' /\ req' \in [Handlers -> Request]
    BY <2>1, <2>2, <2>3, <2>4, <2>5, RequestsKept
  <2>7. TypeOK'
    BY <1>T, <2>1, <2>2, <2>3, <2>6 DEF IInv, TypeOK
  <2>8. AcceptedBroughtSomeone'
    BY <1>A, <1>T, <2>1, <2>2, <2>3 DEF AcceptedBroughtSomeone
  <2>9. QED BY <2>3, <2>6, <2>7, <2>8 DEF IInv, RowsAreFirst
<1>4. ASSUME NEW h \in Handlers, AcceptConflict(h) \/ Fail(h) PROVE IInv'
  BY <1>4, <1>T, <1>I, <1>J, <1>A, <1>K DEF AcceptConflict, Fail, AcceptedBroughtSomeone
<1>5. ASSUME NEW h \in Handlers, AcceptMark(h) PROVE IInv'
  <2>1. req[h].inv \in Created /\ \E u \in Users : via[u] = req[h].inv
    BY <1>5, <1>H DEF AcceptMark, Holds
  <2>2. AcceptedBroughtSomeone'
    BY <1>5, <1>A, <2>1 DEF AcceptMark, AcceptedBroughtSomeone
  <2>3. QED BY <1>5, <1>T, <1>I, <1>J, <1>K, <2>1, <2>2 DEF AcceptMark
<1>6. ASSUME NEW h \in Handlers, UpdateSave(h) PROVE IInv'
  <2> DEFINE u == req[h].user
  <2>1. u \in Users /\ req[h].role \in Roles /\ member[u] # "none"
    BY <1>6, <1>H DEF UpdateSave, Holds
  <2>2. /\ member' = [member EXCEPT ![u] = "active"] /\ role' = [role EXCEPT ![u] = req[h].role]
        /\ req' = [req EXCEPT ![h] = Idle]
        /\ UNCHANGED <<offered, accepted, expired, sent, via>> /\ Created' = Created
    BY <1>6 DEF UpdateSave, Update, Created
  <2>3. /\ member'[u] = "active" /\ role'[u] = req[h].role
        /\ \A v \in Users \ {u} : member'[v] = member[v] /\ role'[v] = role[v]
        /\ member' \in [Users -> Standings] /\ role' \in [Users -> Roles \cup {None}]
    BY <1>T, <2>1, <2>2 DEF Standings
  <2>4. RequestsHold' /\ req' \in [Handlers -> Request]
    BY <1>I, <2>1, <2>2, <2>3, RequestsKept
  <2>5. TypeOK'
    BY <1>T, <2>1, <2>2, <2>3, <2>4 DEF IInv, TypeOK
  <2>6. QED BY <1>A, <2>2, <2>3, <2>4, <2>5 DEF IInv, RowsAreFirst, AcceptedBroughtSomeone
<1>7. ASSUME NEW h \in Handlers, NEW ro \in Roles, Invite(h, ro) PROVE IInv'
  <2> DEFINE r == [pc |-> "invite", user |-> None, role |-> ro, inv |-> None]
  <2>1. r \in Request /\ Holds(r)
    BY DEF Request, Holds
  <2>2. QED BY <1>7, <1>T, <1>A, <1>K, <2>1 DEF Invite, AcceptedBroughtSomeone
<1>8. ASSUME NEW h \in Handlers, NEW u \in Users, NEW i \in Invitations, Accept(h, u, i)
      PROVE  IInv'
  <2> DEFINE r == [pc |-> "join", user |-> u, role |-> offered[i], inv |-> i]
  <2>1. i \in Created /\ offered[i] \in Roles
    BY <1>8, <1>T DEF Accept, Open, Created
  <2>2. r \in Request /\ Holds(r)
    BY <2>1 DEF Request, Holds
  <2>3. QED BY <1>8, <1>T, <1>A, <1>K, <2>2 DEF Accept, AcceptedBroughtSomeone
<1>9. ASSUME NEW h \in Handlers, NEW u \in Users, RemoveMember(h, u) PROVE IInv'
  <2>1. /\ member' = [member EXCEPT ![u] = IF @ = "none" THEN "none" ELSE "removed"]
        /\ UNCHANGED <<role, offered, accepted, expired, sent, req, via>>
    BY <1>9 DEF RemoveMember, Remove
  <2>2. /\ \A v \in Users : member'[v] = "none" <=> member[v] = "none"
        /\ member' \in [Users -> Standings] /\ Created' = Created
    BY <1>T, <2>1 DEF Standings, Created
  <2>3. ASSUME NEW g \in Handlers PROVE Holds(req[g])'
    BY <1>H, <2>1, <2>2 DEF Holds
  <2>4. QED BY <2>1, <2>2, <2>3
            DEF IInv, TypeOK, RowsAreFirst, RequestsHold, AcceptedBroughtSomeone
<1>10. ASSUME NEW h \in Handlers, NEW u \in Users, NEW ro \in Roles, UpdateRead(h, u, ro)
       PROVE  IInv'
  <2> DEFINE r == [pc |-> "save", user |-> u, role |-> ro, inv |-> None]
  <2>1. r \in Request /\ Holds(r)
    BY <1>10 DEF UpdateRead, FindByTenantAndUser, Active, Request, Holds
  <2>2. QED BY <1>10, <1>T, <1>A, <1>K, <2>1 DEF UpdateRead, AcceptedBroughtSomeone
<1>11. ASSUME NEW i \in Invitations, Expire(i) PROVE IInv'
  BY <1>11 DEF Expire, IInv, TypeOK, RowsAreFirst, RequestsHold, Holds,
               AcceptedBroughtSomeone, Created
<1>12. CASE UNCHANGED vars
  BY <1>12 DEF vars, IInv, TypeOK, RowsAreFirst, RequestsHold, Holds,
               AcceptedBroughtSomeone, Created
<1>13. QED
  BY <1>1, <1>2, <1>3, <1>4, <1>5, <1>6, <1>7, <1>8, <1>9, <1>10, <1>11, <1>12 DEF Next

LEMMA Invariance == Spec => []IInv
BY InitIInv, NextIInv, PTL DEF Spec

\* Both tables and the requests have their shape, for any number of each.
THEOREM TypeCorrect == Spec => []TypeOK
<1>1. IInv => TypeOK
  BY DEF IInv
<1>2. QED BY <1>1, Invariance, PTL

\* AcceptInvitation marks an invitation only after it has inserted a member, so
\* wherever it stops, no invitation is used up for nothing.
THEOREM AcceptanceIsEarned == Spec => []AcceptedBroughtSomeone
<1>1. IInv => AcceptedBroughtSomeone
  BY DEF IInv
<1>2. QED BY <1>1, Invariance, PTL

-------------------------------------------------------------------------------
(* Action properties.                                                      *)

\* RemoveMember is final but for the updates of a role that read the row before.
THEOREM RemovalIsFinal == Spec => RemovedStaysOut
<1>1. ASSUME IInv, [Next]_vars, NEW u \in Users, Out(u) PROVE Out(u)'
  <2> USE DEF At, Finish, Hold, Updating, Out
  <2>T. req \in [Handlers -> Request] /\ member \in [Users -> Standings]
    BY <1>1 DEF IInv, TypeOK
  <2>1. ASSUME NEW h \in Handlers,
               \/ InviteCreate(h) \/ InvitePublish(h) \/ AcceptConflict(h)
               \/ AcceptMark(h) \/ Fail(h)
               \/ \E r \in Roles : Invite(h, r)
               \/ \E v \in Users, i \in Invitations : Accept(h, v, i)
        PROVE  Out(u)'
    BY <1>1, <2>1, <2>T DEF InviteCreate, InvitePublish, AcceptConflict, AcceptMark, Fail,
                            Invite, Accept, Idle
  <2>2. ASSUME NEW h \in Handlers, AcceptCreate(h) PROVE Out(u)'
    <3>1. u # req[h].user
      BY <1>1, <2>2 DEF AcceptCreate
    <3>2. member'[u] = member[u] /\ req' = [req EXCEPT ![h].pc = "accept"]
      BY <2>2, <2>T, <3>1 DEF AcceptCreate
    <3>3. QED BY <1>1, <2>2, <2>T, <3>2 DEF Request
  <2>3. ASSUME NEW h \in Handlers, UpdateSave(h) PROVE Out(u)'
    <3>1. u # req[h].user
      BY <1>1, <2>3 DEF UpdateSave
    <3>2. QED BY <1>1, <2>3, <2>T, <3>1 DEF UpdateSave, Update, Idle
  <2>4. ASSUME NEW h \in Handlers, NEW v \in Users, RemoveMember(h, v) PROVE Out(u)'
    BY <1>1, <2>4, <2>T DEF RemoveMember, Remove
  <2>5. ASSUME NEW h \in Handlers, NEW v \in Users, NEW r \in Roles, UpdateRead(h, v, r)
        PROVE  Out(u)'
    BY <1>1, <2>5, <2>T DEF UpdateRead, FindByTenantAndUser, Active
  <2>6. ASSUME UNCHANGED vars \/ \E i \in Invitations : Expire(i) PROVE Out(u)'
    BY <1>1, <2>6 DEF vars, Expire
  <2>7. QED BY <1>1, <2>1, <2>2, <2>3, <2>4, <2>5, <2>6 DEF Next
<1>2. IInv /\ [Next]_vars => [\A u \in Users : Out(u) => Out(u)']_vars
  BY <1>1
<1>3. QED BY <1>2, Invariance, PTL DEF Spec, RemovedStaysOut

\* An invitation that was accepted or has expired admits nobody, but for the
\* requests that found it open before.
THEOREM ClosingIsFinal == Spec => ClosedStaysClosed
<1>1. ASSUME IInv, [Next]_vars, NEW i \in Invitations, Closed(i)
      PROVE  Closed(i)' /\ \A u \in Users : via'[u] = i => via[u] = i
  <2> USE DEF At, Finish, Hold, Accepting, Closed
  <2>T. req \in [Handlers -> Request] /\ via \in [Users -> Invitations \cup {None}]
    BY <1>1 DEF IInv, TypeOK
  <2>1. ASSUME NEW h \in Handlers,
               \/ InviteCreate(h) \/ InvitePublish(h) \/ AcceptConflict(h)
               \/ AcceptMark(h) \/ UpdateSave(h) \/ Fail(h)
               \/ \E r \in Roles : Invite(h, r)
               \/ \E u \in Users, r \in Roles : UpdateRead(h, u, r)
               \/ \E u \in Users : RemoveMember(h, u)
        PROVE  Closed(i)' /\ UNCHANGED via
    BY <1>1, <2>1, <2>T DEF InviteCreate, InvitePublish, AcceptConflict, AcceptMark, UpdateSave,
                            Fail, Invite, UpdateRead, RemoveMember, Idle
  <2>2. ASSUME NEW h \in Handlers, AcceptCreate(h)
        PROVE  Closed(i)' /\ \A u \in Users : via'[u] = i => via[u] = i
    <3>1. req[h].inv # i
      BY <1>1, <2>2 DEF AcceptCreate
    <3>2. via' = [via EXCEPT ![req[h].user] = req[h].inv]
      BY <2>2 DEF AcceptCreate
    <3>3. Closed(i)'
      BY <1>1, <2>2, <2>T DEF AcceptCreate, Request
    <3>4. QED BY <2>T, <3>1, <3>2, <3>3
  <2>3. ASSUME NEW h \in Handlers, NEW u \in Users, NEW j \in Invitations, Accept(h, u, j)
        PROVE  Closed(i)' /\ UNCHANGED via
    BY <1>1, <2>3, <2>T DEF Accept, Open
  <2>4. ASSUME UNCHANGED vars \/ \E j \in Invitations : Expire(j)
        PROVE  Closed(i)' /\ UNCHANGED via
    BY <1>1, <2>4 DEF vars, Expire
  <2>5. QED BY <1>1, <2>1, <2>2, <2>3, <2>4 DEF Next
<1>2. IInv /\ [Next]_vars =>
        [\A i \in Invitations : Closed(i) =>
           Closed(i)' /\ \A u \in Users : via'[u] = i => via[u] = i]_vars
  BY <1>1
<1>3. QED BY <1>2, Invariance, PTL DEF Spec, ClosedStaysClosed
===============================================================================
