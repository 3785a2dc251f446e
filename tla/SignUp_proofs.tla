----------------------------- MODULE SignUp_proofs -----------------------------
(***************************************************************************)
(* Proofs about SignUp, for any number of registrations, emails, slugs and  *)
(* schema statements: the type invariant of the two services together, that *)
(* whoever gets a token pair has an account and a complete tenant, and that *)
(* a sign-up which is over left both or neither unless something broke.     *)
(*                                                                         *)
(* The last section is about the row that a sign-up stored, from then on:   *)
(* UserAccount keeps the promises of Account.                               *)
(***************************************************************************)
EXTENDS SignUp, UserAccount, TLAPS

\* What tenant-service knows of u's business at each place of its request, and what
\* its answer says: "created" means complete, a refusal that nothing live is left.
TenantKept(u) ==
  /\ tpc[u] \in {"slug", "insert"} => built[u] = 0
  /\ tpc[u] = "provision" => built[u] < Statements
  /\ tpc[u] = "done" <=> tanswer[u] # "none"
  /\ tanswer[u] = "created" => Served(u)
  /\ tanswer[u] \in Refusals /\ u \notin tbroken => business[u] # "live"

\* What auth-service may rely on: no request is at tenant-service before the user's
\* row is stored, the tokens wait for "created", and the rollback for a refusal
\* unless the call timed out.
CallerKept(u) ==
  /\ account[u] = "none" => business[u] = "none"
  /\ rpc[u] = "tokens" => tanswer[u] = "created"
  /\ rpc[u] = "rollback" /\ u \notin rbroken => tanswer[u] \in Refusals
  /\ rpc[u] = "done" /\ u \notin rbroken =>
       \/ account[u] = "none"
       \/ account[u] = "live" /\ tanswer[u] = "created"
       \/ account[u] = "deleted" /\ tanswer[u] \in Refusals
  /\ ranswer[u] = "pair" => account[u] = "live" /\ tanswer[u] = "created"

Kept(u) == TenantKept(u) /\ CallerKept(u)

IInv == TypeOK /\ \A u \in Users : Kept(u)

AccountStates  == {"none", "live", "deleted"}
RegisterPlaces == {"start", "tenant", "rollback", "tokens", "done"}
RegisterAnswers == {"none", "taken", "error", "lost", "pair"}
TenantPlaces   == {"slug", "insert", "provision", "rollback", "owner", "outlet", "done"}
TenantAnswers  == {"none", "conflict", "taken", "error", "lost", "created"}

\* The two type invariants, one user at a time.
AuthShape(u) ==
  /\ account[u] \in AccountStates /\ email[u] \in Emails \cup {None}
  /\ rpc[u] \in RegisterPlaces /\ ranswer[u] \in RegisterAnswers
  /\ account[u] = "none" <=> email[u] = None
  /\ rpc[u] = "start" => account[u] = "none"
  /\ rpc[u] \in {"tenant", "rollback", "tokens"} => account[u] = "live"
  /\ rpc[u] = "done" <=> ranswer[u] # "none"
  /\ account[u] = "deleted" => ranswer[u] = "error"

TenantShape(u) ==
  /\ business[u] \in AccountStates /\ slug[u] \in (0..Tries - 1) \cup {None}
  /\ built[u] \in 0..Statements /\ try[u] \in 0..Tries - 1
  /\ tpc[u] \in TenantPlaces /\ tanswer[u] \in TenantAnswers
  /\ business[u] = "none" <=> slug[u] = None
  /\ tpc[u] \in {"slug", "insert"} => business[u] = "none"
  /\ tpc[u] \in {"provision", "rollback", "owner", "outlet"} => business[u] = "live"
  /\ tpc[u] \in {"owner", "outlet"} => built[u] = Statements
  /\ business[u] = "deleted" => tanswer[u] = "error"

\* Every variable is a function on the users; the others are sets of users.
Functions ==
  /\ DOMAIN account = Users /\ account = [u \in Users |-> account[u]]
  /\ DOMAIN email = Users /\ email = [u \in Users |-> email[u]]
  /\ DOMAIN rpc = Users /\ rpc = [u \in Users |-> rpc[u]]
  /\ DOMAIN ranswer = Users /\ ranswer = [u \in Users |-> ranswer[u]]
  /\ DOMAIN business = Users /\ business = [u \in Users |-> business[u]]
  /\ DOMAIN slug = Users /\ slug = [u \in Users |-> slug[u]]
  /\ DOMAIN built = Users /\ built = [u \in Users |-> built[u]]
  /\ DOMAIN try = Users /\ try = [u \in Users |-> try[u]]
  /\ DOMAIN tpc = Users /\ tpc = [u \in Users |-> tpc[u]]
  /\ DOMAIN tanswer = Users /\ tanswer = [u \in Users |-> tanswer[u]]

Sets ==
  /\ rbroken \subseteq Users /\ collides \in BOOLEAN
  /\ owned \cup outlet \cup tbroken \subseteq Users

Shaped ==
  /\ Functions /\ Sets
  /\ \A u \in Users : /\ AuthShape(u) /\ TenantShape(u)
                      /\ rpc[u] = "tokens" => tanswer[u] = "created"

\* The type invariant says that every variable has its shape at every user.
LEMMA Shapes == TypeOK <=> Shaped
<1>1. Auth!TypeOK => /\ DOMAIN account = Users /\ account = [u \in Users |-> account[u]]
                     /\ DOMAIN email = Users /\ email = [u \in Users |-> email[u]]
                     /\ DOMAIN rpc = Users /\ rpc = [u \in Users |-> rpc[u]]
                     /\ DOMAIN ranswer = Users /\ ranswer = [u \in Users |-> ranswer[u]]
                     /\ rbroken \subseteq Users /\ collides \in BOOLEAN
                     /\ \A u \in Users : AuthShape(u)
  BY DEF Auth!TypeOK, AuthShape, AccountStates, RegisterPlaces, RegisterAnswers
<1>2. Tenant!TypeOK => /\ DOMAIN business = Users /\ business = [u \in Users |-> business[u]]
                       /\ DOMAIN slug = Users /\ slug = [u \in Users |-> slug[u]]
                       /\ DOMAIN built = Users /\ built = [u \in Users |-> built[u]]
                       /\ DOMAIN try = Users /\ try = [u \in Users |-> try[u]]
                       /\ DOMAIN tpc = Users /\ tpc = [u \in Users |-> tpc[u]]
                       /\ DOMAIN tanswer = Users /\ tanswer = [u \in Users |-> tanswer[u]]
                       /\ owned \cup outlet \cup tbroken \subseteq Users
                       /\ \A u \in Users : TenantShape(u)
  BY DEF Tenant!TypeOK, TenantShape, AccountStates, TenantPlaces, TenantAnswers
<1>3. ASSUME Functions, Sets, \A u \in Users : AuthShape(u) PROVE Auth!TypeOK
  <2>1. /\ account \in [Users -> AccountStates] /\ email \in [Users -> Emails \cup {None}]
        /\ rpc \in [Users -> RegisterPlaces] /\ ranswer \in [Users -> RegisterAnswers]
    BY <1>3 DEF Functions, AuthShape
  <2>2. QED BY <1>3, <2>1
            DEF Sets, Auth!TypeOK, AuthShape, AccountStates, RegisterPlaces, RegisterAnswers
<1>4. ASSUME Functions, Sets, \A u \in Users : TenantShape(u) PROVE Tenant!TypeOK
  <2>1. /\ business \in [Users -> AccountStates] /\ slug \in [Users -> (0..Tries - 1) \cup {None}]
        /\ built \in [Users -> 0..Statements] /\ try \in [Users -> 0..Tries - 1]
        /\ tpc \in [Users -> TenantPlaces] /\ tanswer \in [Users -> TenantAnswers]
    BY <1>4 DEF Functions, TenantShape
  <2>2. QED BY <1>4, <2>1
            DEF Sets, Tenant!TypeOK, TenantShape, AccountStates, TenantPlaces, TenantAnswers
<1>5. QED BY <1>1, <1>2, <1>3, <1>4 DEF TypeOK, Shaped, Functions, Sets

LEMMA InitIInv == Init => IInv
<1> SUFFICES ASSUME Init PROVE IInv
  OBVIOUS
<1> USE BoundsAssumption, NoneAssumption DEF Init, Auth!Init, Tenant!Init
<1>1. Functions /\ Sets
  BY DEF Functions, Sets
<1>2. ASSUME NEW u \in Users PROVE AuthShape(u) /\ TenantShape(u) /\ Kept(u)
  BY DEF AuthShape, TenantShape, Kept, TenantKept, CallerKept, Refusals,
         AccountStates, RegisterPlaces, RegisterAnswers, TenantPlaces, TenantAnswers
<1>3. \A u \in Users : rpc[u] # "tokens"
  OBVIOUS
<1>4. QED BY <1>1, <1>2, <1>3, Shapes DEF IInv, Shaped

-------------------------------------------------------------------------------

\* Everything the invariant says of u is about u's own entries: a step that leaves
\* them, and u's membership in broken, alone leaves it alone.
Same(u) ==
  /\ account'[u] = account[u] /\ email'[u] = email[u] /\ rpc'[u] = rpc[u]
  /\ ranswer'[u] = ranswer[u] /\ (u \in rbroken' <=> u \in rbroken)
  /\ business'[u] = business[u] /\ slug'[u] = slug[u] /\ built'[u] = built[u]
  /\ try'[u] = try[u] /\ tpc'[u] = tpc[u] /\ tanswer'[u] = tanswer[u]
  /\ (u \in tbroken' <=> u \in tbroken)

\* All that the invariant says of u.
Holds(u) == AuthShape(u) /\ TenantShape(u) /\ Kept(u)

LEMMA OthersKeep ==
  ASSUME NEW u \in Users, Holds(u), Same(u)
  PROVE  Holds(u)'
BY DEF Holds, Same, AuthShape, TenantShape, Kept, TenantKept, CallerKept, Served

\* A step that touches no entry but u's.
Own(u) ==
  /\ account' = [account EXCEPT ![u] = account'[u]] /\ email' = [email EXCEPT ![u] = email'[u]]
  /\ rpc' = [rpc EXCEPT ![u] = rpc'[u]] /\ ranswer' = [ranswer EXCEPT ![u] = ranswer'[u]]
  /\ business' = [business EXCEPT ![u] = business'[u]] /\ slug' = [slug EXCEPT ![u] = slug'[u]]
  /\ built' = [built EXCEPT ![u] = built'[u]] /\ try' = [try EXCEPT ![u] = try'[u]]
  /\ tpc' = [tpc EXCEPT ![u] = tpc'[u]] /\ tanswer' = [tanswer EXCEPT ![u] = tanswer'[u]]
  /\ (rbroken' = rbroken \/ rbroken' = rbroken \cup {u}) /\ collides' = collides
  /\ (tbroken' = tbroken \/ tbroken' = tbroken \cup {u})
  /\ (owned' = owned \/ owned' = owned \cup {u})
  /\ (outlet' = outlet \/ outlet' = outlet \cup {u})

\* The invariant after such a step, from what the step does to u.
LEMMA StepKeeps ==
  ASSUME IInv, NEW u \in Users, Own(u), Holds(u)'
  PROVE  IInv'
<1>0. Functions /\ Sets
  BY Shapes DEF IInv, Shaped
<1>a. Functions'
  BY <1>0 DEF Functions, Own
<1>b. Sets'
  BY <1>0 DEF Sets, Own
<1>c. \A v \in Users \ {u} : Same(v)
  BY <1>0 DEF Functions, Own, Same
<1>1. \A v \in Users : Holds(v)
  BY Shapes DEF IInv, Holds, Shaped
<1>2. \A v \in Users : Holds(v)'
  BY <1>1, <1>c, OthersKeep
<1>3. Shaped'
  BY <1>2, <1>a, <1>b DEF Shaped, Holds, Kept, CallerKept
<1>4. (TypeOK <=> Shaped)'
  BY Shapes, PTL
<1>5. QED BY <1>2, <1>3, <1>4 DEF IInv, Holds

-------------------------------------------------------------------------------

\* A step of the registration alone.
LEMMA RegisterKeeps ==
  ASSUME IInv, NEW u \in Users, Register(u) PROVE IInv'
<1> USE NoneAssumption
<1>H. Functions /\ Sets /\ Holds(u)
  BY Shapes DEF IInv, Shaped, Holds
<1>U. UNCHANGED tenantVars
  BY DEF Register
<1>1. ASSUME NEW e \in Emails, Auth!CreateUser(u, e) PROVE IInv'
  <2>1. Own(u)
    BY <1>H, <1>U, <1>1 DEF Functions, Own, tenantVars, Auth!CreateUser, Auth!Create, Auth!Goto
  <2>2. Holds(u)'
    BY <1>H, <1>U, <1>1 DEF Functions, Holds, AuthShape, TenantShape, Kept, TenantKept, CallerKept, Served,
       tenantVars, Auth!CreateUser, Auth!Create, Auth!Goto, AccountStates, RegisterPlaces, RegisterAnswers, Refusals
  <2>3. QED BY <2>1, <2>2, StepKeeps
<1>2. ASSUME NEW e \in Emails, Auth!RefuseEmail(u, e) PROVE IInv'
  <2>1. Own(u)
    BY <1>H, <1>U, <1>2 DEF Functions, Own, tenantVars, Auth!RefuseEmail, Auth!Answer, Auth!Goto
  <2>2. Holds(u)'
    BY <1>H, <1>U, <1>2 DEF Functions, Holds, AuthShape, TenantShape, Kept, TenantKept, CallerKept, Served,
       tenantVars, Auth!RefuseEmail, Auth!Answer, Auth!Goto, AccountStates, RegisterPlaces, RegisterAnswers, Refusals
  <2>3. QED BY <2>1, <2>2, StepKeeps
<1>3. ASSUME NEW e \in Emails, Auth!RefuseGoogleID(u, e) PROVE IInv'
  <2>1. Own(u)
    BY <1>H, <1>U, <1>3 DEF Functions, Own, tenantVars, Auth!RefuseGoogleID, Auth!Answer, Auth!Goto
  <2>2. Holds(u)'
    BY <1>H, <1>U, <1>3 DEF Functions, Holds, AuthShape, TenantShape, Kept, TenantKept, CallerKept, Served,
       tenantVars, Auth!RefuseGoogleID, Auth!Answer, Auth!Goto, AccountStates, RegisterPlaces, RegisterAnswers, Refusals
  <2>3. QED BY <2>1, <2>2, StepKeeps
<1>4. ASSUME Auth!Rollback(u) PROVE IInv'
  <2>1. Own(u)
    BY <1>H, <1>U, <1>4 DEF Functions, Own, tenantVars, Auth!Rollback, Auth!SoftDelete, Auth!Answer, Auth!Goto
  <2>2. Holds(u)'
    BY <1>H, <1>U, <1>4 DEF Functions, Holds, AuthShape, TenantShape, Kept, TenantKept, CallerKept, Served,
       tenantVars, Auth!Rollback, Auth!SoftDelete, Auth!Answer, Auth!Goto, AccountStates, RegisterPlaces, RegisterAnswers, Refusals
  <2>3. QED BY <2>1, <2>2, StepKeeps
<1>5. ASSUME Auth!Tokens(u) PROVE IInv'
  <2>1. Own(u)
    BY <1>H, <1>U, <1>5 DEF Functions, Own, tenantVars, Auth!Tokens, Auth!Answer, Auth!Goto
  <2>2. Holds(u)'
    BY <1>H, <1>U, <1>5 DEF Functions, Holds, AuthShape, TenantShape, Kept, TenantKept, CallerKept, Served,
       tenantVars, Auth!Tokens, Auth!Answer, Auth!Goto, AccountStates, RegisterPlaces, RegisterAnswers, Refusals
  <2>3. QED BY <2>1, <2>2, StepKeeps
<1>6. ASSUME Auth!Crash(u) PROVE IInv'
  <2>1. Own(u)
    BY <1>H, <1>U, <1>6 DEF Functions, Own, tenantVars, Auth!Crash, Auth!Stored, Auth!Answer, Auth!Goto
  <2>2. Holds(u)'
    BY <1>H, <1>U, <1>6 DEF Functions, Holds, AuthShape, TenantShape, Kept, TenantKept, CallerKept, Served,
       tenantVars, Auth!Crash, Auth!Stored, Auth!Answer, Auth!Goto, AccountStates, RegisterPlaces, RegisterAnswers, Refusals
  <2>3. QED BY <2>1, <2>2, StepKeeps
<1>7. QED BY <1>1, <1>2, <1>3, <1>4, <1>5, <1>6 DEF Register, Auth!Register

\* A step of tenant-service with the call of u.
LEMMA ProvisionKeeps ==
  ASSUME IInv, NEW u \in Users, Provision(u) PROVE IInv'
<1> USE NoneAssumption, BoundsAssumption
<1>H. Functions /\ Sets /\ Holds(u)
  BY Shapes DEF IInv, Shaped, Holds
<1>U. UNCHANGED authVars /\ account[u] # "none"
  BY DEF Provision, Auth!Stored
<1>1. ASSUME Tenant!NextSlug(u) PROVE IInv'
  <2>1. Own(u)
    <3>1. CASE try[u] + 1 < Tries
      <4>1. /\ try' = [try EXCEPT ![u] = try[u] + 1]
            /\ UNCHANGED <<tpc, tanswer, business, slug, built, owned, outlet, tbroken>>
        BY <1>H, <1>1, <3>1 DEF Tenant!NextSlug, TenantShape
      <4> QED BY <1>H, <1>U, <4>1 DEF Functions, Own, authVars
    <3>2. CASE ~(try[u] + 1 < Tries)
      <4>1. /\ tpc' = [tpc EXCEPT ![u] = "done"] /\ tanswer' = [tanswer EXCEPT ![u] = "conflict"]
            /\ UNCHANGED <<try, business, slug, built, owned, outlet, tbroken>>
        BY <1>H, <1>1, <3>2 DEF Tenant!NextSlug, Tenant!Answer, Tenant!Goto, TenantShape
      <4> QED BY <1>H, <1>U, <4>1 DEF Functions, Own, authVars
    <3> QED BY <3>1, <3>2
  <2>2. Holds(u)'
    BY <1>H, <1>U, <1>1 DEF Functions, Holds, AuthShape, TenantShape, Kept, TenantKept, CallerKept, Served,
       authVars, Tenant!NextSlug, Tenant!Answer, Tenant!Goto, AccountStates, TenantPlaces, TenantAnswers, Refusals
  <2>3. QED BY <2>1, <2>2, StepKeeps
<1>2. ASSUME Tenant!FreeSlug(u) PROVE IInv'
  <2>1. Own(u)
    BY <1>H, <1>U, <1>2 DEF Functions, Own, authVars, Tenant!FreeSlug, Tenant!Goto
  <2>2. Holds(u)'
    BY <1>H, <1>U, <1>2 DEF Functions, Holds, AuthShape, TenantShape, Kept, TenantKept, CallerKept, Served,
       authVars, Tenant!FreeSlug, Tenant!Goto, AccountStates, TenantPlaces, TenantAnswers, Refusals
  <2>3. QED BY <2>1, <2>2, StepKeeps
<1>3. ASSUME Tenant!Insert(u) PROVE IInv'
  <2>1. Own(u)
    BY <1>H, <1>U, <1>3 DEF Functions, Own, authVars, Tenant!Insert, Tenant!Create, Tenant!Goto
  <2>2. Holds(u)'
    BY <1>H, <1>U, <1>3 DEF Functions, Holds, AuthShape, TenantShape, Kept, TenantKept, CallerKept, Served,
       authVars, Tenant!Insert, Tenant!Create, Tenant!Goto, AccountStates, TenantPlaces, TenantAnswers, Refusals
  <2>3. QED BY <2>1, <2>2, StepKeeps
<1>4. ASSUME Tenant!InsertRefused(u) PROVE IInv'
  <2>1. Own(u)
    BY <1>H, <1>U, <1>4 DEF Functions, Own, authVars, Tenant!InsertRefused, Tenant!Answer, Tenant!Goto
  <2>2. Holds(u)'
    BY <1>H, <1>U, <1>4 DEF Functions, Holds, AuthShape, TenantShape, Kept, TenantKept, CallerKept, Served,
       authVars, Tenant!InsertRefused, Tenant!Answer, Tenant!Goto, AccountStates, TenantPlaces, TenantAnswers, Refusals
  <2>3. QED BY <2>1, <2>2, StepKeeps
<1>5. ASSUME Tenant!Provision(u) PROVE IInv'
  <2>1. Own(u)
    BY <1>H, <1>U, <1>5 DEF Functions, Own, authVars, Tenant!Provision, Tenant!Goto
  <2>2. Holds(u)'
    BY <1>H, <1>U, <1>5 DEF Functions, Holds, AuthShape, TenantShape, Kept, TenantKept, CallerKept, Served,
       authVars, Tenant!Provision, Tenant!Goto, AccountStates, TenantPlaces, TenantAnswers, Refusals
  <2>3. QED BY <2>1, <2>2, StepKeeps
<1>6. ASSUME Tenant!ProvisionFails(u) PROVE IInv'
  <2>1. Own(u)
    BY <1>H, <1>U, <1>6 DEF Functions, Own, authVars, Tenant!ProvisionFails, Tenant!Goto
  <2>2. Holds(u)'
    BY <1>H, <1>U, <1>6 DEF Functions, Holds, AuthShape, TenantShape, Kept, TenantKept, CallerKept, Served,
       authVars, Tenant!ProvisionFails, Tenant!Goto, AccountStates, TenantPlaces, TenantAnswers, Refusals
  <2>3. QED BY <2>1, <2>2, StepKeeps
<1>7. ASSUME Tenant!Rollback(u) PROVE IInv'
  <2>1. Own(u)
    BY <1>H, <1>U, <1>7 DEF Functions, Own, authVars, Tenant!Rollback, Tenant!SoftDelete, Tenant!Answer, Tenant!Goto
  <2>2. Holds(u)'
    BY <1>H, <1>U, <1>7 DEF Functions, Holds, AuthShape, TenantShape, Kept, TenantKept, CallerKept, Served,
       authVars, Tenant!Rollback, Tenant!SoftDelete, Tenant!Answer, Tenant!Goto, AccountStates, TenantPlaces, TenantAnswers, Refusals
  <2>3. QED BY <2>1, <2>2, StepKeeps
<1>8. ASSUME Tenant!AddOwner(u) PROVE IInv'
  <2>1. Own(u)
    BY <1>H, <1>U, <1>8 DEF Functions, Own, authVars, Tenant!AddOwner, Tenant!Goto
  <2>2. Holds(u)'
    BY <1>H, <1>U, <1>8 DEF Functions, Holds, AuthShape, TenantShape, Kept, TenantKept, CallerKept, Served,
       authVars, Tenant!AddOwner, Tenant!Goto, AccountStates, TenantPlaces, TenantAnswers, Refusals
  <2>3. QED BY <2>1, <2>2, StepKeeps
<1>9. ASSUME Tenant!AddOutlet(u) PROVE IInv'
  <2>1. Own(u)
    BY <1>H, <1>U, <1>9 DEF Functions, Own, authVars, Tenant!AddOutlet, Tenant!Answer, Tenant!Goto
  <2>2. Holds(u)'
    BY <1>H, <1>U, <1>9 DEF Functions, Holds, AuthShape, TenantShape, Kept, TenantKept, CallerKept, Served,
       authVars, Tenant!AddOutlet, Tenant!Answer, Tenant!Goto, AccountStates, TenantPlaces, TenantAnswers, Refusals
  <2>3. QED BY <2>1, <2>2, StepKeeps
<1>10. ASSUME Tenant!Crash(u) PROVE IInv'
  <2>1. Own(u)
    BY <1>H, <1>U, <1>10 DEF Functions, Own, authVars, Tenant!Crash, Tenant!Stored, Tenant!Answer, Tenant!Goto
  <2>2. Holds(u)'
    BY <1>H, <1>U, <1>10 DEF Functions, Holds, AuthShape, TenantShape, Kept, TenantKept, CallerKept, Served,
       authVars, Tenant!Crash, Tenant!Stored, Tenant!Answer, Tenant!Goto, AccountStates, TenantPlaces, TenantAnswers, Refusals
  <2>3. QED BY <2>1, <2>2, StepKeeps
<1>11. QED BY <1>1, <1>2, <1>3, <1>4, <1>5, <1>6, <1>7, <1>8, <1>9, <1>10
          DEF Provision, Tenant!Work

\* The answer of tenant-service, or its absence, reaches the caller.
LEMMA HearKeeps ==
  ASSUME IInv, NEW u \in Users, Hear(u) PROVE IInv'
<1>H. Functions /\ Sets /\ Holds(u)
  BY Shapes DEF IInv, Shaped, Holds
<1>U. UNCHANGED tenantVars
  BY DEF Hear
<1>1. ASSUME tanswer[u] = "created", Auth!CreateTenant(u) PROVE IInv'
  <2>1. Own(u)
    BY <1>H, <1>U, <1>1 DEF Functions, Own, tenantVars, Auth!CreateTenant, Auth!Goto
  <2>2. Holds(u)'
    BY <1>H, <1>U, <1>1 DEF Functions, Holds, AuthShape, TenantShape, Kept, TenantKept, CallerKept, Served,
       tenantVars, Auth!CreateTenant, Auth!Goto, AccountStates, RegisterPlaces, RegisterAnswers, Refusals
  <2>3. QED BY <2>1, <2>2, StepKeeps
<1>2. ASSUME tanswer[u] \in Refusals, Auth!CreateTenantFails(u) PROVE IInv'
  <2>1. Own(u)
    BY <1>H, <1>U, <1>2 DEF Functions, Own, tenantVars, Auth!CreateTenantFails, Auth!Goto
  <2>2. Holds(u)'
    BY <1>H, <1>U, <1>2 DEF Functions, Holds, AuthShape, TenantShape, Kept, TenantKept, CallerKept, Served,
       tenantVars, Auth!CreateTenantFails, Auth!Goto, AccountStates, RegisterPlaces, RegisterAnswers, Refusals
  <2>3. QED BY <2>1, <2>2, StepKeeps
<1>3. ASSUME Auth!CreateTenantTimesOut(u) PROVE IInv'
  <2>1. Own(u)
    BY <1>H, <1>U, <1>3 DEF Functions, Own, tenantVars, Auth!CreateTenantTimesOut, Auth!Goto
  <2>2. Holds(u)'
    BY <1>H, <1>U, <1>3 DEF Functions, Holds, AuthShape, TenantShape, Kept, TenantKept, CallerKept, Served,
       tenantVars, Auth!CreateTenantTimesOut, Auth!Goto, AccountStates, RegisterPlaces, RegisterAnswers, Refusals
  <2>3. QED BY <2>1, <2>2, StepKeeps
<1>4. QED BY <1>1, <1>2, <1>3 DEF Hear

LEMMA NextIInv == IInv /\ [Next]_vars => IInv'
<1> SUFFICES ASSUME IInv, [Next]_vars PROVE IInv'
  OBVIOUS
<1>1. CASE UNCHANGED vars
  <2>1. Shaped'
    BY <1>1, Shapes
       DEF IInv, vars, authVars, tenantVars, Shaped, Functions, Sets, AuthShape, TenantShape
  <2>2. (TypeOK <=> Shaped)'
    BY Shapes, PTL
  <2>3. \A u \in Users : Kept(u)'
    BY <1>1 DEF IInv, vars, authVars, tenantVars, Kept, TenantKept, CallerKept, Served
  <2>4. QED BY <2>1, <2>2, <2>3 DEF IInv
<1>2. CASE Next
  BY <1>2, RegisterKeeps, ProvisionKeeps, HearKeeps DEF Next
<1>3. QED BY <1>1, <1>2

-------------------------------------------------------------------------------

\* The inductive invariant holds in every reachable state.
THEOREM Invariance == Spec => []IInv
<1>1. Init => IInv
  BY InitIInv
<1>2. IInv /\ [Next]_vars => IInv'
  BY NextIInv
<1>3. QED BY <1>1, <1>2, PTL DEF Spec

\* Both services' tables and requests are well typed in every reachable state, and
\* the caller goes on to the tokens only behind a created tenant.
THEOREM TypeCorrect == Spec => []TypeOK
<1>1. IInv => TypeOK
  BY DEF IInv
<1>2. QED BY <1>1, Invariance, PTL

\* Whoever holds a token pair from Register has an account and a complete tenant,
\* however the two services fail, crash or answer late.
THEOREM PairsAreServed == Spec => []HoldersAreServed
<1>1. IInv => HoldersAreServed
  BY DEF IInv, Kept, TenantKept, CallerKept, HoldersAreServed
<1>2. QED BY <1>1, Invariance, PTL

\* A sign-up that is over left an account with a complete tenant, or neither, unless
\* a service died after its first insert, a rollback failed or no answer came.
THEOREM HalvesAreExplained == Spec => []WholeOrNothingUnlessBroken
<1>1. IInv => WholeOrNothingUnlessBroken
  BY Shapes DEF IInv, Shaped, AuthShape, AccountStates, Kept, TenantKept, CallerKept,
                WholeOrNothingUnlessBroken
<1>2. QED BY <1>1, Invariance, PTL
-------------------------------------------------------------------------------
(* The account that a sign-up stored: UserAccount.                         *)

Place == {"idle", "save", "change", "seen"}
Request == [pc : Place, copy : Row, name : Names \cup {Empty}]

\* A new request, and one that is over, hold what the type invariant wants of them.
LEMMA RequestsFit ==
  ASSUME AccountTypeOK, NEW h \in Handlers, NEW r \in Request, r.copy.password <= newest,
         newest' \in Nat, newest <= newest', user' \in Row, user'.password <= newest',
         req' = [req EXCEPT ![h] = r] \/ req' = req
  PROVE  AccountTypeOK'
<1>1. req \in [Handlers -> Request] /\ newest \in Nat
  BY DEF AccountTypeOK, Request, Place
<1>2. req' \in [Handlers -> Request]
  BY <1>1
<1>3. ASSUME NEW g \in Handlers PROVE req'[g].copy.password <= newest'
  <2>1. req'[g] \in {r, req[g]}
    BY <1>1
  <2>2. req'[g].copy.password <= newest
    BY <2>1 DEF AccountTypeOK
  <2>3. req'[g].copy.password \in Nat
    BY <1>2 DEF Request, Row
  <2> QED BY <2>2, <2>3, <1>1
<1> QED BY <1>2, <1>3 DEF AccountTypeOK, Request, Place

LEMMA AccountBegins == AccountInit => AccountTypeOK /\ Promise!New
<1> SUFFICES ASSUME AccountInit PROVE AccountTypeOK /\ Promise!New
  OBVIOUS
<1>1. PICK n \in Names : user = [password |-> 0, name |-> n, verified |-> FALSE,
                                 active |-> TRUE, seen |-> FALSE]
  BY DEF AccountInit
<1>2. user \in Row /\ user.password = 0
  BY <1>1 DEF Row
<1>3. req = [h \in Handlers |-> [pc |-> "idle", copy |-> user, name |-> Empty]] /\ newest = 0
  BY DEF AccountInit
<1>4. AccountTypeOK
  BY <1>2, <1>3 DEF AccountTypeOK
<1>5. Promise!New
  BY <1>1 DEF Promise!New
<1> QED BY <1>4, <1>5

\* What ProfileSave writes: the copy, with the name of the request if it has one.
Saved(h) == IF req[h].name = Empty THEN req[h].copy.name ELSE req[h].name

LEMMA SaveWrites ==
  ASSUME AccountTypeOK, NEW h \in Handlers, ProfileSave(h)
  PROVE  /\ user' = [req[h].copy EXCEPT !.name = Saved(h)]
         /\ Saved(h) \in Names /\ req[h].copy \in Row
<1>1. req[h].copy \in Row /\ req[h].name \in Names \cup {Empty}
  BY DEF AccountTypeOK
<1>2. Saved(h) \in Names
  BY <1>1 DEF Saved, Row
<1>3. user' = [req[h].copy EXCEPT !.name = Saved(h)]
  BY DEF ProfileSave, Update, Saved
<1> QED BY <1>1, <1>2, <1>3

LEMMA AccountStep == AccountTypeOK /\ [AccountNext]_accountVars => AccountTypeOK'
<1> SUFFICES ASSUME AccountTypeOK, [AccountNext]_accountVars PROVE AccountTypeOK'
  OBVIOUS
<1>1. /\ user \in Row /\ newest \in Nat /\ user.password \in Nat
      /\ user.password <= newest /\ req \in [Handlers -> Request]
  BY DEF AccountTypeOK, Row, Request, Place
<1>2. ASSUME NEW h \in Handlers
      PROVE  req[h] \in Request /\ req[h].copy \in Row /\ req[h].copy.password <= newest
  BY <1>1 DEF AccountTypeOK, Request
<1>3. ASSUME NEW h \in Handlers
      PROVE  /\ [req[h] EXCEPT !.pc = "idle"] \in Request
             /\ [req[h] EXCEPT !.pc = "idle"].copy = req[h].copy
  BY <1>2 DEF Request, Place
<1>4. ASSUME NEW h \in Handlers, Finish(h), user' \in Row, newest' \in Nat,
             newest <= newest', user'.password <= newest'
      PROVE  AccountTypeOK'
  <2> DEFINE r == [req[h] EXCEPT !.pc = "idle"]
  <2>1. r \in Request /\ r.copy.password <= newest
    BY <1>2, <1>3
  <2>2. req' = [req EXCEPT ![h] = r]
    BY <1>4 DEF Finish
  <2> QED BY <2>1, <2>2, <1>4, RequestsFit
<1>5. ASSUME NEW h \in Handlers, NEW pc \in Place, NEW n \in Names \cup {Empty},
             Read(h, pc, n), UNCHANGED <<user, newest>>
      PROVE  AccountTypeOK'
  <2> DEFINE r == [pc |-> pc, copy |-> user, name |-> n]
  <2>1. r \in Request /\ r.copy.password <= newest
    BY <1>1 DEF Request
  <2>2. req' = [req EXCEPT ![h] = r]
    BY <1>5 DEF Read
  <2>3. user' = user /\ newest' = newest /\ newest <= newest
    BY <1>1, <1>5
  <2> HIDE DEF r
  <2> QED BY <2>1, <2>2, <2>3, <1>1, RequestsFit
<1>6. ASSUME req' = req, user' \in Row, newest' \in Nat, newest <= newest', user'.password <= newest'
      PROVE  AccountTypeOK'
  BY <1>1, <1>2, <1>6 DEF AccountTypeOK, Request, Place, Row
<1>7. ASSUME UpdatePassword
      PROVE  user' \in Row /\ newest' \in Nat /\ newest <= newest' /\ user'.password <= newest'
  BY <1>1, <1>7 DEF UpdatePassword, Row
<1>8. ASSUME NEW h \in Handlers, ProfileSave(h) PROVE AccountTypeOK'
  <2>1. user' = [req[h].copy EXCEPT !.name = Saved(h)] /\ Saved(h) \in Names /\ req[h].copy \in Row
    BY <1>8, SaveWrites
  <2>2. user' \in Row /\ user'.password = req[h].copy.password
    BY <2>1 DEF Row
  <2>3. Finish(h) /\ newest' = newest
    BY <1>8 DEF ProfileSave
  <2>4. user'.password <= newest'
    BY <2>2, <2>3, <1>2
  <2> QED BY <2>2, <2>3, <2>4, <1>1, <1>4
<1>9. ASSUME NEW h \in Handlers, ChangeSet(h) \/ ResetSet(h) PROVE AccountTypeOK'
  <2>1. UpdatePassword
    BY <1>9 DEF ChangeSet, ResetSet
  <2>2. Finish(h) \/ req' = req
    BY <1>9 DEF ChangeSet, ResetSet
  <2> QED BY <2>1, <2>2, <1>4, <1>6, <1>7
<1>10. ASSUME NEW h \in Handlers, Verify(h) \/ LastLogin(h) \/ Fail(h) PROVE AccountTypeOK'
  <2>1. user' \in Row /\ user'.password = user.password
    BY <1>1, <1>10 DEF Verify, LastLogin, Fail, Row
  <2>2. newest' = newest /\ (Finish(h) \/ req' = req)
    BY <1>10 DEF Verify, LastLogin, Fail
  <2> QED BY <2>1, <2>2, <1>1, <1>4, <1>6
<1>11. ASSUME NEW h \in Handlers, NEW n \in Names \cup {Empty}, ProfileRead(h, n) PROVE AccountTypeOK'
  BY <1>5, <1>11 DEF ProfileRead, Place
<1>12. ASSUME NEW h \in Handlers, NEW p, ChangeRead(h, p) \/ LoginRead(h, p) PROVE AccountTypeOK'
  BY <1>5, <1>12 DEF ChangeRead, LoginRead, Place
<1>13. ASSUME NEW b \in BOOLEAN, SetActive(b) PROVE AccountTypeOK'
  <2>1. user' \in Row /\ user'.password = user.password
    BY <1>1, <1>13 DEF SetActive, Row
  <2> QED BY <2>1, <1>1, <1>6, <1>13 DEF SetActive
<1>14. CASE UNCHANGED accountVars
  BY <1>1, <1>6, <1>14 DEF accountVars
<1> QED BY <1>8, <1>9, <1>10, <1>11, <1>12, <1>13, <1>14 DEF AccountNext

\* The row, the copies that requests hold of it and the count of passwords keep
\* their shape, and no request holds a password that was not given yet.
THEOREM AccountTypeCorrect == AccountSpec => []AccountTypeOK
BY AccountBegins, AccountStep, PTL DEF AccountSpec

\* A request that has read the row and not gone stale writes one column, and the others
\* write one column of the row itself.
LEMMA OneThing ==
  AccountTypeOK /\ Fresh /\ AccountNext => Promise!Change \/ UNCHANGED user
<1> SUFFICES ASSUME AccountTypeOK, Fresh, AccountNext PROVE Promise!Change \/ UNCHANGED user
  OBVIOUS
<1>1. user \in Row /\ newest \in Nat /\ user.password \in Nat /\ user.password <= newest
  BY DEF AccountTypeOK, Row
<1>2. ASSUME NEW h \in Handlers, ProfileSave(h) PROVE Promise!Change
  <2>1. user' = [req[h].copy EXCEPT !.name = Saved(h)] /\ Saved(h) \in Names /\ req[h].copy \in Row
    BY <1>2, SaveWrites
  <2>2. [req[h].copy EXCEPT !.name = user.name] = user
    BY <1>2 DEF ProfileSave, Fresh
  <2>3. user' = [user EXCEPT !.name = Saved(h)]
    BY <2>1, <2>2, <1>1 DEF Row
  <2> QED BY <2>1, <2>3 DEF Promise!Change, Promise!Rename
<1>3. ASSUME NEW h \in Handlers, ChangeSet(h) \/ ResetSet(h) PROVE Promise!Change
  <2>1. newest' = newest + 1 /\ user' = [user EXCEPT !.password = newest']
    BY <1>3 DEF ChangeSet, ResetSet, UpdatePassword
  <2>2. user'.password = newest'
    BY <2>1, <1>1 DEF Row
  <2>3. user'.password > user.password
    BY <2>1, <2>2, <1>1
  <2> QED BY <2>1, <2>2, <2>3 DEF Promise!Change, Promise!NewPassword
<1>4. ASSUME NEW h \in Handlers, Verify(h) \/ LastLogin(h) PROVE Promise!Change
  BY <1>4 DEF Verify, LastLogin, Promise!Change, Promise!VerifyEmail, Promise!LoggedIn
<1>5. ASSUME NEW b \in BOOLEAN, SetActive(b) PROVE Promise!Change
  BY <1>5 DEF SetActive, Promise!Change, Promise!Standing
<1>6. ASSUME NEW h \in Handlers, NEW n, NEW p,
             Fail(h) \/ ProfileRead(h, n) \/ ChangeRead(h, p) \/ LoginRead(h, p)
      PROVE  UNCHANGED user
  BY <1>6 DEF Fail, ProfileRead, ChangeRead, LoginRead
<1> QED BY <1>2, <1>3, <1>4, <1>5, <1>6 DEF AccountNext

\* A password, a verification or a suspension is undone by a stale UpdateProfile
\* and by nothing else, however the requests overlap and whichever fail.
THEOREM AccountIsKept == AccountSpec => KeepsPromiseUnlessStale
<1>1. AccountTypeOK /\ [AccountNext]_accountVars => [Fresh => Promise!Change]_user
  BY OneThing DEF accountVars
<1>2. QED BY <1>1, AccountBegins, AccountTypeCorrect, PTL DEF AccountSpec, KeepsPromiseUnlessStale

===============================================================================
