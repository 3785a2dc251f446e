-------------------------------- MODULE SignUp --------------------------------
(***************************************************************************)
(* A sign-up across two services: Register of auth-service (Registration)  *)
(* calls CreateTenant of tenant-service (TenantProvisioning). Each keeps   *)
(* its own database and commits statement by statement; what goes between  *)
(* them is one call and its answer, which may be late or never come.       *)
(*                                                                         *)
(* auth-service's main.go wires a stub for the call; the composition       *)
(* follows the interface the stub implements.                              *)
(* Every business has the same name, so all of them want the same slug.    *)
(***************************************************************************)
EXTENDS Naturals, FiniteSets

CONSTANTS
  Users,            \* registrations; u also names the tenant that u's call creates
  Emails, Tries, Statements, None

ASSUME BoundsAssumption == Tries \in Nat \ {0} /\ Statements \in Nat \ {0}
ASSUME NoneAssumption == None \notin Emails \cup Nat

VARIABLES
  account, email, rpc, ranswer, rbroken, collides,                    \* auth-service
  business, slug, built, owned, outlet, tpc, try, tanswer, tbroken    \* tenant-service

authVars   == <<account, email, rpc, ranswer, rbroken, collides>>
tenantVars == <<business, slug, built, owned, outlet, tpc, try, tanswer, tbroken>>
vars == <<authVars, tenantVars>>

Auth == INSTANCE Registration WITH
  row <- account, pc <- rpc, answer <- ranswer, broken <- rbroken

Tenant == INSTANCE TenantProvisioning WITH
  Tenants <- Users, row <- business, pc <- tpc, answer <- tanswer, broken <- tbroken

Init == Auth!Init /\ Tenant!Init

-------------------------------------------------------------------------------

\* A step of the registration alone, behind POST /auth/register.
Register(u) == Auth!Register(u) /\ UNCHANGED tenantVars

\* Register makes its call once the user's row is stored, and the handler of
\* POST /internal/tenants takes it. The tenant service goes on with it whatever
\* has become of the caller.
Provision(u) ==
  /\ u \in Auth!Stored
  /\ Tenant!Work(u)
  /\ UNCHANGED authVars

\* The answers that come back as an error.
Refusals == {"conflict", "taken", "error", "lost"}

\* Mutant: every answer is taken for a created tenant.
HearAnything(u) ==
  /\ Auth!CreateTenant(u)
  /\ UNCHANGED tenantVars

Hear(u) ==
  /\ \/ tanswer[u] = "created" /\ Auth!CreateTenant(u)
     \/ tanswer[u] \in Refusals /\ Auth!CreateTenantFails(u)
     \/ tanswer[u] \notin Refusals /\ Auth!CreateTenantTimesOut(u)
  /\ UNCHANGED tenantVars

Next == \E u \in Users : Register(u) \/ Provision(u) \/ Hear(u)

\* Every user id signs up once, then nothing happens.
Spec == Init /\ [][Next]_vars

-------------------------------------------------------------------------------
(* Correctness.                                                            *)

\* Both services' tables and requests have their shape, and the caller goes on
\* to the tokens only when the tenant service answered that it is done.
TypeOK ==
  /\ Auth!TypeOK
  /\ Tenant!TypeOK
  /\ \A u \in Users : rpc[u] = "tokens" => tanswer[u] = "created"

\* The tenant of u is there, with every table of its schema.
Served(u) == business[u] = "live" /\ built[u] = Statements

\* Whoever holds a token pair from Register has an account and a tenant whose
\* schema is complete: no failure, crash or late answer in either service
\* lets a half-provisioned business through.
HoldersAreServed ==
  \A u \in Users : ranswer[u] = "pair" => account[u] = "live" /\ Served(u)

\* A sign-up that is over left an account with a complete tenant, or neither,
\* unless a service died after its first insert, a rollback failed, or no
\* answer came: those are all the ways to be left with one half.
WholeOrNothingUnlessBroken ==
  \A u \in Users \ (rbroken \cup tbroken) :
    rpc[u] = "done" =>
      \/ account[u] = "live" /\ Served(u)
      \/ account[u] # "live" /\ business[u] # "live"

-------------------------------------------------------------------------------
(* A claim of the repository that the code refutes.                        *)

\* UserRepository.Create "persists a new user. Returns ErrEmailAlreadyExists if
\* email is taken": a registration with a new email is not turned away because
\* of the other users.
NewEmailIsStored == \A u \in Users : ranswer[u] = "error" => account[u] # "none"
===============================================================================
