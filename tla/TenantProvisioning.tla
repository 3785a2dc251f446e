-------------------------- MODULE TenantProvisioning --------------------------
(***************************************************************************)
(* CreateTenant of tenant_usecase.go: choose a slug, insert the tenant,    *)
(* provision its schema statement by statement, add the owner and the main *)
(* outlet, without a transaction around them. Several businesses of the    *)
(* same name are created at the same time, one per new tenant id.          *)
(*                                                                         *)
(* Slug i stands for the base (i = 0) or the base with the suffix -i.      *)
(***************************************************************************)
EXTENDS Naturals, FiniteSets

CONSTANTS
  Tenants,          \* the tenant ids, fresh by uuid.New
  Tries,            \* slugs that ensureUniqueSlug looks up (10)
  Statements,       \* statements of provisionTenantSchema (5)
  None

VARIABLES
  row,              \* tenants: no row, deleted_at IS NULL, deleted_at set
  slug,             \* tenants.slug; None while there is no row
  built,            \* how many statements built the tenant's schema
  owned,            \* tenants whose owner has a row in tenant_users
  outlet,           \* tenants with a main outlet
  pc, try,          \* how far each request is, and the slug it looks at
  answer,           \* what its caller was told
  broken            \* history: requests cut off or not rolled back

vars == <<row, slug, built, owned, outlet, pc, try, answer, broken>>

-------------------------------------------------------------------------------

Stored == {t \in Tenants : row[t] # "none"}

FindBySlug(i) == {t \in Stored : row[t] = "live" /\ slug[t] = i}

\* tenants_slug_key covers deleted rows too.
SlugTaken(i) == \E t \in Stored : slug[t] = i

Init ==
  /\ row = [t \in Tenants |-> "none"]
  /\ slug = [t \in Tenants |-> None]
  /\ built = [t \in Tenants |-> 0]
  /\ owned = {} /\ outlet = {} /\ broken = {}
  /\ pc = [t \in Tenants |-> "slug"]
  /\ try = [t \in Tenants |-> 0]
  /\ answer = [t \in Tenants |-> "none"]

Goto(t, l) == pc' = [pc EXCEPT ![t] = l]

\* The handler answers, with the tenant or by handleError, and the request is over.
Answer(t, a) == Goto(t, "done") /\ answer' = [answer EXCEPT ![t] = a]

-------------------------------------------------------------------------------
(* The handler of POST /internal/tenants calls CreateTenant: generateSlug   *)
(* makes the base of the name, ensureUniqueSlug looks for a free one.       *)

NextSlug(t) ==
  /\ pc[t] = "slug" /\ FindBySlug(try[t]) # {}
  /\ \/ /\ try[t] + 1 < Tries
        /\ try' = [try EXCEPT ![t] = @ + 1]
        /\ UNCHANGED <<pc, answer>>
     \/ /\ try[t] + 1 = Tries
        /\ Answer(t, "conflict")
        /\ UNCHANGED try
  /\ UNCHANGED <<row, slug, built, owned, outlet, broken>>

\* No tenant has it, or FindBySlug failed: any error means that the slug is free.
FreeSlug(t) ==
  /\ pc[t] = "slug"
  /\ Goto(t, "insert")
  /\ UNCHANGED <<row, slug, built, owned, outlet, try, answer, broken>>

-------------------------------------------------------------------------------
(* tenantRepo.Create.                                                      *)

\* INSERT INTO tenants.
Create(t, i) ==
  /\ row' = [row EXCEPT ![t] = "live"]
  /\ slug' = [slug EXCEPT ![t] = i]

\* UPDATE tenants SET deleted_at.
SoftDelete(t) == row' = [row EXCEPT ![t] = "deleted"]

Insert(t) ==
  /\ pc[t] = "insert" /\ ~SlugTaken(try[t])
  /\ Create(t, try[t])
  /\ Goto(t, "provision")
  /\ UNCHANGED <<built, owned, outlet, try, answer, broken>>

\* ErrSlugAlreadyExists.
InsertRefused(t) ==
  /\ pc[t] = "insert" /\ SlugTaken(try[t])
  /\ Answer(t, "taken")
  /\ UNCHANGED <<row, slug, built, owned, outlet, try, broken>>

-------------------------------------------------------------------------------
(* provisionTenantSchema and the rollback, which drops nothing it built.   *)

Provision(t) ==
  /\ pc[t] = "provision"
  /\ built' = [built EXCEPT ![t] = @ + 1]
  /\ Goto(t, IF built'[t] = Statements THEN "owner" ELSE "provision")
  /\ UNCHANGED <<row, slug, owned, outlet, try, answer, broken>>

\* Mutant: a failed statement is skipped.
ProvisionGoesOn(t) ==
  /\ pc[t] = "provision"
  /\ Goto(t, "owner")
  /\ UNCHANGED <<row, slug, built, owned, outlet, try, answer, broken>>

ProvisionFails(t) ==
  /\ pc[t] = "provision"
  /\ Goto(t, "rollback")
  /\ UNCHANGED <<row, slug, built, owned, outlet, try, answer, broken>>

\* Mutant: the rollback is forgotten.
NoRollback(t) ==
  /\ pc[t] = "rollback"
  /\ Answer(t, "error")
  /\ UNCHANGED <<row, slug, built, owned, outlet, try, broken>>

\* SoftDelete; its error (the context may be cancelled by now) is dropped.
Rollback(t) ==
  /\ pc[t] = "rollback"
  /\ \/ SoftDelete(t) /\ UNCHANGED broken
     \/ broken' = broken \cup {t} /\ UNCHANGED row
  /\ Answer(t, "error")
  /\ UNCHANGED <<slug, built, owned, outlet, try>>

-------------------------------------------------------------------------------
(* The owner and the main outlet: failures are only logged.                *)

AddOwner(t) ==
  /\ pc[t] = "owner"
  /\ owned' = owned \cup {t} \/ UNCHANGED owned
  /\ Goto(t, "outlet")
  /\ UNCHANGED <<row, slug, built, outlet, try, answer, broken>>

AddOutlet(t) ==
  /\ pc[t] = "outlet"
  /\ outlet' = outlet \cup {t} \/ UNCHANGED outlet
  /\ Answer(t, "created")
  /\ UNCHANGED <<row, slug, built, owned, try, broken>>

\* The pod dies, the insert of the tenant fails, or the call never arrives.
Crash(t) ==
  /\ pc[t] # "done"
  /\ Answer(t, "lost")
  /\ broken' = broken \cup ({t} \cap Stored)
  /\ UNCHANGED <<row, slug, built, owned, outlet, try>>

Work(t) ==
  \/ NextSlug(t) \/ FreeSlug(t) \/ Insert(t) \/ InsertRefused(t)
  \/ Provision(t) \/ ProvisionFails(t) \/ Rollback(t)
  \/ AddOwner(t) \/ AddOutlet(t) \/ Crash(t)

-------------------------------------------------------------------------------
(* Correctness.                                                            *)

\* The shape of the tables and of the requests: what a request has built when
\* it is at a statement, and that only a failed one is rolled back.
TypeOK ==
  /\ row \in [Tenants -> {"none", "live", "deleted"}]
  /\ slug \in [Tenants -> (0..Tries - 1) \cup {None}]
  /\ built \in [Tenants -> 0..Statements]
  /\ owned \cup outlet \cup broken \subseteq Tenants
  /\ try \in [Tenants -> 0..Tries - 1]
  /\ pc \in [Tenants -> {"slug", "insert", "provision", "rollback", "owner", "outlet", "done"}]
  /\ answer \in [Tenants -> {"none", "conflict", "taken", "error", "lost", "created"}]
  /\ \A t \in Tenants :
       /\ row[t] = "none" <=> slug[t] = None
       /\ pc[t] \in {"slug", "insert"} => row[t] = "none"
       /\ pc[t] \in {"provision", "rollback", "owner", "outlet"} => row[t] = "live"
       /\ pc[t] \in {"owner", "outlet"} => built[t] = Statements
       /\ row[t] = "deleted" => answer[t] = "error"

===============================================================================
