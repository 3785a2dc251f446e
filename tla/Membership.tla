------------------------------ MODULE Membership ------------------------------
(***************************************************************************)
(* Members and invitations of one tenant: InviteUser, AcceptInvitation,    *)
(* RemoveMember and UpdateMemberRole of tenant_usecase.go over the tables  *)
(* tenant_users and invitations. Every query names one tenant_id, so       *)
(* tenants do not interact here.                                           *)
(*                                                                         *)
(* A repository call is one SQL statement and one action; the local        *)
(* variables of a request in flight are in req[h]. The permission checks   *)
(* of the routes are not modelled: any request may arrive.                 *)
(***************************************************************************)
EXTENDS Naturals, FiniteSets

CONSTANTS
  Users, Owner,     \* Owner = tenants.owner_id
  Roles,
  Invitations,      \* rows of invitations; a row is identified with its token
  Handlers,         \* requests that can be in flight at the same time
  MaxUsers,         \* PlanLimits[plan].MaxUsers
  None

ASSUME OwnerAssumption == Owner \in Users
ASSUME NoneAssumption == None \notin Users \cup Roles \cup Invitations
ASSUME LimitAssumption == MaxUsers \in Nat

VARIABLES
  member,           \* tenant_users: no row, or is_active = true / false
  role,             \* tenant_users.role_id
  offered,          \* invitations.role_id; None while there is no row
  accepted,         \* invitations with is_accepted = true
  expired,          \* invitations whose expires_at has passed
  sent,             \* invitations whose token was published
  req,
  via               \* history: the invitation that created a user's row

vars == <<member, role, offered, accepted, expired, sent, req, via>>

-------------------------------------------------------------------------------

\* A row of tenant_users: there is none, or is_active is true or false.
Standings == {"none", "active", "removed"}

Active  == {u \in Users : member[u] = "active"}      \* CountByTenantID
FindByTenantAndUser(u) == u \in Active

\* tenantUserRepo.Remove: UPDATE ... SET is_active = false, whatever it was.
Remove(u) == member' = [member EXCEPT ![u] = IF @ = "none" THEN "none" ELSE "removed"]

\* tenantUserRepo.Update: the copy that is saved says is_active = true.
Update(u, r) ==
  /\ member' = [member EXCEPT ![u] = "active"]
  /\ role' = [role EXCEPT ![u] = r]

\* The table invitations.
Created == {i \in Invitations : offered[i] # None}

\* FindByToken: not accepted, not expired.
Open(i) == i \in Created \ (accepted \cup expired)

Idle == [pc |-> "idle", user |-> None, role |-> None, inv |-> None]

At(h, pc) == req[h].pc = pc
\* The handler answers, with success or by handleError, and the request is over.
Finish(h) == req' = [req EXCEPT ![h] = Idle]
Hold(h, pc, u, r, i) ==
  req' = [req EXCEPT ![h] = [pc |-> pc, user |-> u, role |-> r, inv |-> i]]

\* CreateTenant has run: the owner's row was inserted, or its failure was only
\* logged.
Init ==
  /\ member \in {[u \in Users |-> IF u = Owner THEN s ELSE "none"] : s \in {"active", "none"}}
  /\ \E r \in Roles : role = [u \in Users |-> IF member[u] = "active" THEN r ELSE None]
  /\ offered = [i \in Invitations |-> None]
  /\ accepted = {} /\ expired = {} /\ sent = {}
  /\ req = [h \in Handlers |-> Idle]
  /\ via = [u \in Users |-> None]

-------------------------------------------------------------------------------
(* A handler parses the ids, binds and validates the body and calls the     *)
(* usecase; a request it refuses, or that the first check of the usecase    *)
(* refuses, changes nothing. What follows is a request that passed.         *)

\* InviteUser of the usecase compares the active members with the limit of the
\* plan; an error of the count counts as 0.
UnderLimit == \E n \in {Cardinality(Active), 0} : n < MaxUsers

\* The handler of POST /invitations calls InviteUser.
Invite(h, r) ==
  /\ At(h, "idle")
  /\ UnderLimit
  /\ Hold(h, "invite", None, r, None)
  /\ UNCHANGED <<member, role, offered, accepted, expired, sent, via>>

\* InviteUser stores the invitation under a fresh token ...
InviteCreate(h) ==
  /\ At(h, "invite")
  /\ \E i \in Invitations \ Created :
       /\ offered' = [offered EXCEPT ![i] = req[h].role]
       /\ Hold(h, "publish", None, None, i)
  /\ UNCHANGED <<member, role, accepted, expired, sent, via>>

\* ... and PublishUserInvited sends the token.
InvitePublish(h) ==
  /\ At(h, "publish")
  /\ sent' = sent \cup {req[h].inv}
  /\ Finish(h)
  /\ UNCHANGED <<member, role, offered, accepted, expired, via>>

-------------------------------------------------------------------------------
(* AcceptInvitation.                                                       *)

\* Mutant: FindByToken forgets is_accepted and expires_at.
AcceptAnyToken(h, u, i) ==
  /\ At(h, "idle")
  /\ i \in sent
  /\ Hold(h, "join", u, offered[i], i)
  /\ UNCHANGED <<member, role, offered, accepted, expired, sent, via>>

\* The handler of POST /invitations/accept calls AcceptInvitation, which looks
\* the token up: any user who has it may present it.
Accept(h, u, i) ==
  /\ At(h, "idle")
  /\ i \in sent /\ Open(i)
  /\ Hold(h, "join", u, offered[i], i)
  /\ UNCHANGED <<member, role, offered, accepted, expired, sent, via>>

\* Mutant: the unique constraint is (tenant_id, user_id) WHERE is_active.
AcceptCreateAnew(h) ==
  LET u == req[h].user IN
  /\ At(h, "join")
  /\ member[u] # "active"
  /\ member' = [member EXCEPT ![u] = "active"]
  /\ role' = [role EXCEPT ![u] = req[h].role]
  /\ via' = [via EXCEPT ![u] = req[h].inv]
  /\ req' = [req EXCEPT ![h].pc = "accept"]
  /\ UNCHANGED <<offered, accepted, expired, sent>>

\* AcceptInvitation inserts the member; tenant_users_unique (tenant_id, user_id) covers removed members too.
AcceptCreate(h) ==
  LET u == req[h].user IN
  /\ At(h, "join")
  /\ member[u] = "none"
  /\ member' = [member EXCEPT ![u] = "active"]
  /\ role' = [role EXCEPT ![u] = req[h].role]
  /\ via' = [via EXCEPT ![u] = req[h].inv]
  /\ req' = [req EXCEPT ![h].pc = "accept"]
  /\ UNCHANGED <<offered, accepted, expired, sent>>

\* Mutant: the violated constraint is taken for success.
AcceptConflictIgnored(h) ==
  /\ At(h, "join")
  /\ member[req[h].user] # "none"
  /\ req' = [req EXCEPT ![h].pc = "accept"]
  /\ UNCHANGED <<member, role, offered, accepted, expired, sent, via>>

\* The constraint is violated: ErrAlreadyMember, the invitation stays open.
AcceptConflict(h) ==
  /\ At(h, "join")
  /\ member[req[h].user] # "none"
  /\ Finish(h)
  /\ UNCHANGED <<member, role, offered, accepted, expired, sent, via>>

AcceptMark(h) ==
  /\ At(h, "accept")
  /\ accepted' = accepted \cup {req[h].inv}
  /\ Finish(h)
  /\ UNCHANGED <<member, role, offered, expired, sent, via>>

-------------------------------------------------------------------------------
(* RemoveMember and UpdateMemberRole.                                       *)

\* Mutant: the removal is an upsert.
RemoveUpserts(h, u) ==
  /\ At(h, "idle")
  /\ u # Owner
  /\ member' = [member EXCEPT ![u] = "removed"]
  /\ UNCHANGED <<role, offered, accepted, expired, sent, req, via>>

\* RemoveMember of the usecase refuses the owner, which never changes.
MayRemove(u) == u # Owner

\* The handler of DELETE /members/:user_id calls RemoveMember: one statement.
RemoveMember(h, u) ==
  /\ At(h, "idle")
  /\ MayRemove(u)
  /\ Remove(u)
  /\ UNCHANGED <<role, offered, accepted, expired, sent, req, via>>

\* The handler of PATCH /members/:user_id/role calls UpdateMemberRole, which
\* reads the active row ...
UpdateRead(h, u, r) ==
  /\ At(h, "idle")
  /\ FindByTenantAndUser(u)
  /\ Hold(h, "save", u, r, None)
  /\ UNCHANGED <<member, role, offered, accepted, expired, sent, via>>

\* ... and saves all columns of its copy.
UpdateSave(h) ==
  /\ At(h, "save")
  /\ Update(req[h].user, req[h].role)
  /\ Finish(h)
  /\ UNCHANGED <<offered, accepted, expired, sent, via>>

-------------------------------------------------------------------------------

\* A statement or a publish fails, the request is cancelled, the pod dies.
Fail(h) ==
  /\ ~At(h, "idle")
  /\ Finish(h)
  /\ UNCHANGED <<member, role, offered, accepted, expired, sent, via>>

\* 72 hours pass.
Expire(i) ==
  /\ i \in Created \ expired
  /\ expired' = expired \cup {i}
  /\ UNCHANGED <<member, role, offered, accepted, sent, req, via>>

\* The statements that follow a first one, the routes that reach the two tables,
\* and time.
Next ==
  \/ \E h \in Handlers :
       InviteCreate(h) \/ InvitePublish(h) \/ AcceptCreate(h) \/ AcceptConflict(h)
         \/ AcceptMark(h) \/ UpdateSave(h) \/ Fail(h)
  \/ \E h \in Handlers, r \in Roles : Invite(h, r)
  \/ \E h \in Handlers, u \in Users, i \in Invitations : Accept(h, u, i)
  \/ \E h \in Handlers, u \in Users : RemoveMember(h, u)
  \/ \E h \in Handlers, u \in Users, r \in Roles : UpdateRead(h, u, r)
  \/ \E i \in Invitations : Expire(i)

Spec == Init /\ [][Next]_vars

-------------------------------------------------------------------------------
(* Correctness.                                                            *)

\* What a request holds: the input, and what it read.
Request == [pc : {"idle", "invite", "publish", "join", "accept", "save"},
            user : Users \cup {None}, role : Roles \cup {None}, inv : Invitations \cup {None}]

\* The shape of both tables and of the requests' local variables: a row has a
\* role, and a member that was not added by CreateTenant came by an invitation.
TypeOK ==
  /\ member \in [Users -> Standings]
  /\ role \in [Users -> Roles \cup {None}]
  /\ offered \in [Invitations -> Roles \cup {None}]
  /\ accepted \subseteq Created /\ expired \subseteq Created /\ sent \subseteq Created
  /\ req \in [Handlers -> Request]
  /\ via \in [Users -> Invitations \cup {None}]
  /\ \A u \in Users : role[u] = None <=> member[u] = "none"
  /\ \A u \in Users \ {Owner} : via[u] = None <=> member[u] = "none"

Updating(h, u)  == At(h, "save") /\ req[h].user = u
Accepting(h, i) == At(h, "join") /\ req[h].inv = i

\* A removed member stays out, whatever invitations are left, as long as no
\* UpdateMemberRole that read the row before the removal is in flight.
Out(u) == member[u] = "removed" /\ \A h \in Handlers : ~Updating(h, u)
RemovedStaysOut == [][\A u \in Users : Out(u) => Out(u)']_vars

\* An invitation is marked accepted only after it brought somebody in, so that
\* a failure in between never loses an invited user's chance to join.
AcceptedBroughtSomeone == \A i \in accepted : \E u \in Users : via[u] = i

\* An accepted or expired invitation brings nobody in, but for the requests that
\* found it open before.
Closed(i) == i \in accepted \cup expired /\ \A h \in Handlers : ~Accepting(h, i)
ClosedStaysClosed ==
  [][\A i \in Invitations : Closed(i) =>
       Closed(i)' /\ \A u \in Users : via'[u] = i => via[u] = i]_vars

===============================================================================
