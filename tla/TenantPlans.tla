------------------------------ MODULE TenantPlans ------------------------------
(***************************************************************************)
(* The row of one tenant and its outlets: CreateOutlet reads the tenant for *)
(* its plan before it counts, UpdateTenant reads the row and saves all of   *)
(* it, the plan included, and billing changes the plan. UpdateOutlet and    *)
(* DeleteOutlet do not look at the tenant and are those of Outlets, whose   *)
(* MaxOutlets is the limit of the largest plan.                             *)
(*                                                                         *)
(* After its creation nothing deletes a tenant, so FindByID finds it.       *)
(***************************************************************************)
EXTENDS Outlets

CONSTANTS
  Plans, Limit,     \* the plans of PlanLimits, and MaxOutlets of each
  Starter,          \* the plan CreateTenant gives
  Names             \* the profile: one column stands for the seven of the input

ASSUME PlanAssumption ==
  /\ Starter \in Plans
  /\ Limit \in [Plans -> 1..MaxOutlets]
  /\ Names # {} /\ None \notin Names

VARIABLES
  tenant,           \* the row of tenants
  work              \* a request between its look-up of the tenant and what follows

planVars == <<status, code, req, tenant, work>>

Row == [plan : Plans, name : Names]

\* What a request holds that is about to count ("count") or to save its copy of the
\* row ("save"), and the code or the name it was sent, None for an empty field.
Work == [pc : {"none", "count", "save"}, row : Row \cup {None},
         sent : Codes \cup Names \cup {None}]

NoWork == [pc |-> "none", row |-> None, sent |-> None]
Doing(h, pc) == work[h].pc = pc
Put(h, w)    == work' = [work EXCEPT ![h] = w]

FindTenant == tenant

PlanInit ==
  /\ Init
  /\ tenant \in [plan : {Starter}, name : Names]
  /\ work = [h \in Handlers |-> NoWork]

-------------------------------------------------------------------------------

\* POST /outlets: CreateOutlet reads the tenant.
CreateRead(h, c) ==
  /\ At(h, "idle") /\ Doing(h, "none")
  /\ Put(h, [pc |-> "count", row |-> FindTenant, sent |-> c])
  /\ UNCHANGED <<status, code, req, tenant>>

\* Mutant: the count is compared with > instead of >=.
CheckPlanOffByOne(h) ==
  /\ Doing(h, "count")
  /\ Cardinality(Live) <= Limit[work[h].row.plan]
  /\ Hold(h, "insert", None, work[h].sent)
  /\ Put(h, NoWork)
  /\ UNCHANGED <<status, code, tenant>>

\* It counts, and compares with the limit of the plan it has read. What follows
\* is Insert.
CheckPlan(h) ==
  /\ Doing(h, "count")
  /\ Cardinality(Live) < Limit[work[h].row.plan]
  /\ Hold(h, "insert", None, work[h].sent)
  /\ Put(h, NoWork)
  /\ UNCHANGED <<status, code, tenant>>

\* Mutant: the row is made from the input, and takes the column's default plan.
PatchedAnew(n) == [plan |-> Starter, name |-> IF n = None THEN FindTenant.name ELSE n]

\* The copy UpdateTenant read, with the fields of the input that are not empty.
Patched(n) == IF n = None THEN FindTenant ELSE [FindTenant EXCEPT !.name = n]

\* PATCH /tenants/:tenant_id: UpdateTenant reads the tenant and patches its copy.
UpdateTenantRead(h, n) ==
  /\ At(h, "idle") /\ Doing(h, "none")
  /\ Put(h, [pc |-> "save", row |-> Patched(n), sent |-> n])
  /\ UNCHANGED <<status, code, req, tenant>>

\* tenantRepo.Update saves every column of the copy.
UpdateTenantSave(h) ==
  /\ Doing(h, "save")
  /\ tenant' = work[h].row
  /\ Put(h, NoWork)
  /\ UNCHANGED <<status, code, req>>

\* The count reached the limit, a statement fails, or the request is cut off.
GiveUp(h) ==
  /\ ~Doing(h, "none")
  /\ Put(h, NoWork)
  /\ UNCHANGED <<status, code, req, tenant>>

\* Billing, which sets one column.
ChangePlan ==
  /\ \E p \in Plans \ {tenant.plan} : tenant' = [tenant EXCEPT !.plan = p]
  /\ UNCHANGED <<status, code, req, work>>

\* The statements of Outlets that do not look at the tenant.
OutletStep(h) ==
  /\ Doing(h, "none")
  /\ \/ Insert(h) \/ Save(h) \/ SoftDelete(h) \/ Fail(h)
     \/ \E o \in Ids : DeleteRead(h, o)
     \/ \E o \in Ids, c \in Codes : UpdateRead(h, o, c)
  /\ UNCHANGED <<tenant, work>>

PlanStep(h) ==
  \/ OutletStep(h)
  \/ CheckPlan(h) \/ UpdateTenantSave(h) \/ GiveUp(h)
  \/ \E c \in Codes : CreateRead(h, c)
  \/ \E n \in Names \cup {None} : UpdateTenantRead(h, n)

PlanNext == ChangePlan \/ \E h \in Handlers : PlanStep(h)

PlanSpec == PlanInit /\ [][PlanNext]_planVars

-------------------------------------------------------------------------------
(* Correctness.                                                            *)

\* The shape of the row and of the requests; a request works on the tenant or on
\* the outlets at a time, and has a copy of the row when it needs one.
PlanTypeOK ==
  /\ TypeOK
  /\ tenant \in Row
  /\ work \in [Handlers -> Work]
  /\ \A h \in Handlers :
       /\ ~Doing(h, "none") => At(h, "idle") /\ work[h].row \in Row
       /\ Doing(h, "count") => work[h].sent \in Codes

\* The plan's limit is reached, and nobody is about to insert or revive an outlet,
\* or to count against the higher limit of a plan of before.
Full ==
  /\ Cardinality(Live) >= Limit[tenant.plan]
  /\ Inserting = {} /\ Revivable = {}
  /\ \A h \in Handlers : Doing(h, "count") => Limit[work[h].row.plan] <= Cardinality(Live)

\* A tenant that has reached its limit, by a change to a smaller plan perhaps,
\* gets no outlet more until one is deleted or the plan changes.
FullStaysFull ==
  [][Full /\ tenant'.plan = tenant.plan =>
       Live' \subseteq Live /\ (Live' = Live => Full')]_planVars

\* Every copy about to be saved agrees with the row in a column.
Agreed(c) == \A h \in Handlers : Doing(h, "save") => work[h].row[c] = tenant[c]

\* A column of the tenant is changed only by who was asked to change it, and by
\* updates that read it before: once their copies agree with the row, the plan
\* stays what billing sets it to and an update of nothing changes nothing.
UntouchedIsKept ==
  [][/\ Agreed("plan") /\ ~ChangePlan =>
          tenant'.plan = tenant.plan /\ Agreed("plan")'
     /\ Agreed("name") /\ ~(\E h \in Handlers, n \in Names : UpdateTenantRead(h, n)) =>
          tenant'.name = tenant.name /\ Agreed("name")']_planVars
===============================================================================
