# A formal model of xynpos-backend

This directory holds TLA+ modules that model the backend's two services and the
parts of `backend/shared` they are built on, TLC configurations that check small
instances, and TLAPS proofs for all instances. Paths below are relative to the
repository; `auth` stands for `backend/services/auth-service/internal` and
`tenant` for `backend/services/tenant-service/internal`.

    tlc -workers 2 -config MCRefreshTokens.cfg MCRefreshTokens     # one run
    tlapm RefreshTokens_proofs.tla                                 # one proof module

`PROJECT.json` lists the components, the runs with what each shows, for every
definition the source lines it stands for, for every property a mutant of the
code that breaks it, the findings, and the hazards of the code at their lines.

## 1. The system

The repository announces twelve services; two exist, over PostgreSQL, Redis and
NATS JetStream. Every usecase method is a plain sequence of repository calls.
Each call is one SQL statement (`otpRepository.Create` is two), and **no usecase
method opens a transaction**. Requests run in goroutines of two to ten replicas
(`infra/kubernetes/services/auth-service/manifests.yaml`) over one database. So
the atomic step of every model is one statement, requests interleave between
statements, and a request can stop after any of them: an error, a cancelled
context, a killed pod. There is nothing that resumes or cleans up.

| part | state it keeps | operations | where it is hard |
|---|---|---|---|
| auth: sessions | `refresh_tokens` | Login, RefreshToken, Logout, RevokeSession, ResetPassword | rotation is read, check, revoke, insert; reuse revokes a family while another request adds to it; ignored errors |
| auth: one-time codes | `otps` | Register, ForgotPassword, ResendOTP; VerifyEmail, ResetPassword | count then insert; invalidate then insert; find then mark |
| auth: registration | `users`, and the tenant service | Register | two services without a transaction; compensation that may fail |
| auth: account | one row of `users` | UpdateProfile, ChangePassword, ResetPassword, VerifyEmail, UpdateLastLogin (a goroutine) | a row is read and saved whole while others set single columns |
| tenant: provisioning | `tenants`, the tenant's schema, `tenant_users`, `outlets` | CreateTenant | seven steps with one rollback; slug look-up then insert |
| tenant: outlets | `outlets` | CreateOutlet, UpdateOutlet, DeleteOutlet | count then insert; whole-row save after a soft delete |
| tenant: members | `tenant_users`, `invitations` | InviteUser, AcceptInvitation, RemoveMember, UpdateMemberRole | an invitation is read, used and marked in three statements |
| tenant: business data, roles | `tenants`, `roles` | UpdateTenant; reads | whole-row save of the row that holds the plan |
| shared: events | JetStream stream and consumer | Publish, Subscribe | at-least-once delivery, lost and late acknowledgements |
| shared: rate limiter, idempotency | Redis keys with a TTL | middleware around a request | INCR then EXPIRE; get, run, set |
| shared: middleware/auth, jwt | none: claims of a signed token | RequireAuth, RequirePermission, RequirePlan, RequireRole | the tenant claim, which keys what others store, changes with every token |
| service process: cmd/main.go, health, config, tracer | what is open, two listeners, goroutines | start, serve, probes, SIGTERM, drain, close | a drain without a limit before one with a limit, inside a grace period; a failed listen that nobody sees |
| shared: worker, pagination, validator, ... | thin layers over libraries | | |

How they interact. The HTTP handlers (`auth/delivery`, `tenant/delivery`) decode,
validate, call one usecase method and encode; the gRPC server validates tokens.
Register calls the tenant service through `tenantSvc` (`cmd/main.go` wires a stub
in its place; `SignUp` has the call that the interface promises). The
usecases publish events to JetStream for a notification service that does not
exist yet. `Login` and `RefreshToken` put a placeholder tenant context into the
token (`getTenantContext`, marked TODO).

What makes each part correct: a refresh token is exchanged once and a family
that ended stays ended; a code works once, for what it was issued, and only so
many are issued per hour; a registration leaves an account and a tenant or
neither; an operation changes its own columns and no others; a created tenant
has its schema; a plan's limits hold; deleted and removed things stay away; an
invitation admits one person; an event is handled or visibly given up; a client
that was refused for asking too often is let through later; a request sent
again does not take effect again; a replica that is stopped finishes what it
began, and one that fails comes back.

## 2. The modules

Each component module has its tables (or keys) and the local variables of the
requests in flight as VARIABLES, one action per statement, and its properties at
the end. A repository method is an operator of its name that says what the
statement does to the table (`Create`, `RevokeByID`, `SoftDelete`, ...), and the
actions use it. The first action of an operation also stands for the handler of
its route, which decodes, validates and makes the call; a request that is refused
before its first write changes nothing and is no action. `Finish` or `Answer`
ends a request, as the handler does when it writes the result or hands the
error to `handleError`. Values that only the properties need are marked "history". An operator
named in a "Mutant" comment is not part of the model: it is a wrong version of
the definition that follows it, and shows which property notices.

| module | models | abstract specification |
|---|---|---|
| `RefreshTokens` | sessions of auth-service | `SessionChain` |
| `OneTimeCodes` | the codes of one user | |
| `Registration` | Register | |
| `UserAccount` | the row of one user | `Account` |
| `TenantProvisioning` | CreateTenant | |
| `SignUp` | the two together: Register calling CreateTenant | |
| `Outlets` | the outlets of one tenant | |
| `TenantPlans` | the same, with the tenant's row, UpdateTenant and the plan | `Outlets` |
| `Membership` | the members and invitations of one tenant | |
| `EventDelivery` | shared/pkg/events over one consumer | |
| `RateLimiter` | the rate limiter for one key | |
| `Idempotency` | the idempotency middleware for one key of the client | |
| `RequestChain` | both behind RequireAuth, with the tokens they depend on | |
| `ServiceProcess` | one replica: `main`, its probes, its pod | |
| `RefreshTokens_proofs`, `OneTimeCodes_proofs`, `Membership_proofs`, `TenantPlans_proofs` (with `Outlets`), `SignUp_proofs` (with `UserAccount`), `RequestChain_proofs`, `EventDelivery_proofs`, `ServiceProcess_proofs` | theorems | |

`Registration` and `TenantProvisioning` are components of `SignUp`, `RateLimiter`
and `Idempotency` of `RequestChain`; the composition has the specification, its
components state the properties it takes up. `MC<module>` gives the symmetry sets; its `.cfg`
files give the constants.

**RefreshTokens.** A row is named by its token, a family by its first token
(`uuid.New()` per login is as fresh as the token). `owner`, `family`, `revoked`,
`expired` are the columns; `req[h]` is what request `h` holds between two
statements: its place, the user and the token it read, and (history) the
generation of the password that was checked. `RefreshRead` is `FindByHash` with
the `IsRevoked` branch on the copy, `RefreshCheck` the expiry check of the copy,
`RefreshRevoke` the `RevokeByID` after it (a token may expire between the two, and is
exchanged all the same), `RefreshUser` the `FindByID` and `IsActive` check, `RefreshCreate`
the insert. `Fail` is every way a request can end early; an error that the code
drops (`RevokeByFamily`, `RevokeAllForUser`) is the request ending there, since
nothing follows. `Suspend` stands for an operator: no code clears `is_active`.

**SessionChain** is the promise: a session is a chain of tokens of which at most
one works, and it is open or over. One request at a time implements it.

**OneTimeCodes.** `invalidate`, `insert`, `publish` are the steps of issuing,
`mark` and `apply` those of redeeming. Codes are model values: that two codes of
a user can be equal by chance is not modelled. That a code is presented only after it
was sent (`c \in sent` in `Redeem`) is an assumption about users, who do not guess: the
query would accept a guess. Only ResendOTP counts codes, so the hourly limit concerns
verification codes; ForgotPassword issues as many reset codes as it is asked for. `Expire` and `Age` are the two
times (10 and 60 minutes) that the queries compare with.

**Registration, TenantProvisioning, SignUp.** One registration per user id and one
`CreateTenant` per registration, as in the code: nothing retries. `SignUp` puts the
two side by side. `Provision` is a step of the tenant service, which works on
its request whatever has become of the caller; `Hear` is the caller's side:
the answer "created", an error, or no answer, in which case the work may be
done, under way, or still to come. `broken` in each half remembers a process
that died after its first insert, a failed rollback, or a call without an answer.
Slug number i is the base with suffix `-i`. `Provision` of `TenantProvisioning` is
one statement of `provisionTenantSchema`; `built` counts them. `AddOwner` and
`AddOutlet` go on when their insert fails, as the code does. Emails are told apart
as spelled, as the unique index does. `collides` says whether the `google_id`
that no registration sets collides with itself in its UNIQUE column: it does in
the code as written, where it is stored as the empty string, and then nobody but
the first user can register; the other choice shows the rest of the behaviour.

**UserAccount.** `ProfileRead`/`ProfileSave` are `FindByID` and GORM's `Save`.
`Account` is the promise: each operation is one step on its own columns. It is kept
while no `UpdateProfile` in flight holds a stale copy of the row (`Fresh`). Its
specification is `AccountSpec` and its type invariant `AccountTypeOK`, so that the proofs
about it can stand beside those about the sign-up that stores the row.

**Outlets, Membership.** One tenant, since every query carries the tenant or is
checked against it. A deleted outlet keeps its row and its code; a removed
member keeps its row. Saves write the copy that was read.

**TenantPlans** refines the guard of `Outlets!CreateOutlet`: the tenant is read
for its plan in one statement, the outlets are counted in the next and compared
with the limit of the plan that was read. `UpdateTenant` reads the row, patches
its copy and saves all of it, the plan included. `ChangePlan` is external (billing,
of which the repository has only the column), the statements of the outlets
come from `Outlets` as they are, and every behaviour is one of `Outlets` with the
largest plan's limit, which is proved.

**EventDelivery.** JetStream is external and modelled from the consumer's
configuration: explicit acks, `MaxDeliver`, `AckWait`. The callback's decisions
are the code's. Subjects are paths, so that what `Subscribe` does to its filter
is visible; `filterSubject` is chosen once, in the form the code wants or in the form
its comment shows. With the second, `Subscribe` puts the stream name in front once more and
the subscriber is never given anything; what is claimed of settling events is about
the first. Deliveries and answers that are lost are remembered (`lost`), since only they
need `AckWait`: the rest is up to the callback.

**RequestChain.** A client that repeats one request through RequireAuth, RateLimiter
and Idempotency, in the order the middleware's comments give. `gate` is the place
of a request before Idempotency, `pc` its place in it, `locals` the tenant claim that
RequireAuth takes from the token; what is stored is stored under that claim, and
`getTenantContext` draws a new one for every token, so the n-th token has tenant n.
The limiter's key is the client's address and stays the same. Time is in ticks
of the window; the 24 hours a response is kept are not over within a run. When INCR has an
error (`IncrFails`) the request goes on unchecked, and is remembered in `unchecked`; Redis may
have counted it all the same, and then a counter that it created has no TTL. A process can be
lost at any place, the one between INCR and EXPIRE included.

A stored response is told apart by what `Client.Get` makes of it, which decodes it into a
`[]byte`: "opaque" is an error (objects, and the empty body that a handler leaves behind when
it returns an error to Fiber's error handler), "string" is some bytes, which are replayed, and
"blank" is no bytes and no error (`null`, `""`, `[]`), with which the middleware runs the handler and stores its
response once more (`Blank`). A handler may take effect and fail afterwards
(`FailLate`: Register when the tokens cannot be generated, InviteUser when the event is not
published); nothing is stored then and a retry takes effect again. The one
assumption about handlers is that a 2xx response is written after the effect.

**ServiceProcess.** `stage` is where `main` is, `open` what its deferred calls will
close, `http` and `rpc` the two servers, `call` the requests and the goroutines
they leave behind. Opening a dependency that is away ends the process; losing
one later does not. The orchestrator's part (probes, SIGTERM after the preStop
hook, SIGKILL at the end of the grace period) is from the manifest. Time is
counted in ticks since the container was told to stop, and steps of `main` that
need not wait take none. Both services have the same `main`; the manifest is
auth-service's.

## 3. What is checked

Ten runs check what holds of every interleaving of the code as it is. Two check
what a comment of the repository says and the code does not do; each is a
finding in `PROJECT.json` with the quoted line.

| run | instance | shows |
|---|---|---|
| `sessions` | 1 user, 2 requests, 3 tokens, 1 reset | a redeemed token never works beside its successor; rotation keeps family and user; a token has at most as many successors as there are requests; ended families, suspended users and old passwords stay out |
| `sessions_one_at_a_time` | 2 users, 1 request, 3 tokens | one request at a time, failures included, implements `SessionChain` |
| `reuse_ends_family` (violation) | as `sessions` | reuse detection revokes the family while another request of it is between revoke and insert: the family works again |
| `codes` | 3 codes, 2 requests, 2 per hour, 1 failed invalidation | effects per code, verification codes per hour and codes valid at once exceed their limits by overlapping requests and dropped errors only; an effect is earned by a code of its type; a spent code stays spent |
| `account` | 2 requests, 2 names, 2 passwords | every step is one operation of `Account` unless a stale profile update is in flight |
| `signup` | 3 users, 3 emails, 2 slugs, 2 statements | whoever holds tokens has an account and a complete tenant; both or neither unless something broke |
| `new_email_is_stored` (violation) | as `signup` | a second registration is refused for its empty `google_id` |
| `tenants` | 4 outlets, 2 requests, 2 names, plans of 1 and 2 outlets | how far the plan is exceeded; a full tenant gets no outlet more; deleted outlets stay deleted; the plan and the name are changed by who was asked to, and by updates in flight |
| `members` | 3 users, 2 invitations, 2 requests, plan of 2 | accepted invitations brought somebody in; closed invitations and removed members stay what they are |
| `events` | 2 events (1 malformed), 2 replicas, 3 deliveries | lost only after `MaxDeliver` and handled at most once per delivery; every event is settled by the callback's answers, and by `AckWait` where these are lost, if the subscriber passes its type |
| `middleware` | 2 requests in flight, 3 attempts, 2 tokens, 2 per 2 ticks, 1 INCR with an error per window | less than twice the limit in any window, beside the requests whose INCR had an error; a refused client is let through again unless its counter was left without a TTL; what is replayed had an effect; effects are at most one per request in flight and token, but for look-ups that failed open or found a blank body and effects not remembered |
| `process` | 3 calls, grace 6, preStop 1, drain 6 ticks, 3 faults | nobody is served by a closed database before the drain's timeout; only a process that is held up is killed; a replica gets back into service |

Several comments of the repository claim more than the code does when requests
overlap. The properties state what is left of the claim, with the bound the code
does keep:

| claim | what holds |
|---|---|
| a refresh token is exchanged once ("rotation + reuse detection") | `BranchingBound`: once for each request in flight |
| creating a code invalidates the earlier ones of its type | `ValidOverrun` |
| at most `MaxOTPPerHour` codes an hour | `HourlyOverrun`, for verification codes: those for passwords are not limited |
| a code is one-time | `RedeemBound`, `SpentStaysSpent` |
| resetting a password ends all sessions | `OldPasswordStaysOut`: once the requests that checked the old one are over |
| UpdateProfile updates the profile fields | `KeepsPromiseUnlessStale` |
| Register creates a tenant and an owner | `WholeOrNothingUnlessBroken` |
| a plan's outlet limit | `LimitOverrun`: exceeded by overlapping requests only; `FullStaysFull`: not once they are over |
| UpdateTenant updates the fields it is given | `UntouchedIsKept`: once the copies in flight agree with the row |
| a deleted outlet, a removed member is gone | `GoneStaysGone`, `RemovedStaysOut`: unless an update that read it before is in flight |
| an accepted invitation is used up | `ClosedStaysClosed`: but for requests that found it open |
| the rate limiter's window slides | `TwoWindows`: twice the limit, and every request whose INCR has an error |
| a duplicate request is answered from the cache | `EffectBound`: for each token anew, and not when it overlaps, when the look-up fails or finds a blank body, or when the handler failed after its effect |
| the service stops gracefully | `ServedByOpenDatabase`: until the drain's timeout; `KilledOnlyIfHeldUp`: unless gRPC calls of before the signal take the time |
| a malformed message is rejected | it is retried until given up: `LostOnlyAfterRetries`, `Settled` |

In each of them the excess can be reached: with one request more or less in the
bound TLC finds a counterexample.

**Bounds.** Every race in this code is between two requests and one row, and most
appear with two requests and two rows; a third request or token
repeats them with a bystander. Bounds with a name: `MaxResets` (resets per user),
`MaxSlips` (invalidations that fail), `MaxPasswords`, `Tries` and `Statements` (2 instead
of 10 and 5: the loops are uniform), `MaxDeliver` (3 instead of 5), `MaxAttempts` (calls
with one key), `MaxTokens` (tokens a client is given), `MaxErrors` (INCRs with an error in one window; the code
lets any number through), `MaxRequests` and `Window` of the limiter, `MaxFaults` (crashes, ports taken, dependencies lost), `Limit` (1 and 2 outlets
for the two plans), and the finite sets of rows and `Calls`. A row is never recycled, so
a run covers every history up to that many inserts. `Grace`, `PreStop` and
`DrainTimeout` are the manifest's 30, 5 and the code's 30 seconds in ticks of 5.

**Symmetry** is used for sets of interchangeable model values, in runs that check
no liveness.

**Deadlock** is checked wherever requests can always be made again, and in `RequestChain`,
where time goes on. `SignUp` stops when everybody has registered, the events of
`EventDelivery` run out, and a deleted pod of `ServiceProcess` stays away: those
configurations turn it off.

**Fairness** is assumed in three places. `RequestChain!FairSpec`: time passes, and a
request that was not cut off sends its EXPIRE. `EventDelivery!FairSpec`: a
replica that is not lost goes on, JetStream hands out what is ready, and `AckWait` passes for
a message of which a delivery or its answer was lost, and for no other: a callback that
leaves a message unanswered is not excused by the timer.
`ServiceProcess!FairSpec`: goroutines that can run do, the orchestrator probes,
kills and restarts as declared, time passes, and the database and NATS come back;
Redis, the collector and the clients need not. Nothing in the code retries a request or
resumes one after a crash, so no other progress is claimed: "every registration
ends well" would be false.

## 4. What is proved

TLAPS proves these for any number of users, requests, tokens, codes, invitations,
outlets, plans, sign-ups, events, replicas and attempts, and any times, limits and number
of faults, from the constants' named assumptions (the values that mean "none" differ
from the others; the bounds are numbers; the sets of `RefreshTokens`, `OneTimeCodes`,
`Outlets`, `RequestChain` and the replicas of `EventDelivery` are finite where they are
counted, and some request can be made; each plan has a limit up to `MaxOutlets`; the preStop
hook ends within the grace period). Each module proves an inductive invariant (mostly
`IInv`) with a case for each action, and the theorems follow from it.

`RefreshTokens_proofs`: `TypeCorrect`, `RotationIsConsuming`, `LineageIsKept`,
`DeadIsFinal`, `SuspensionHolds`, `OldPasswordIsFinal` and `BranchingIsBounded` for
`TypeOK`, `RotationConsumesParent`, `FamilyLineage`, `DeadFamilyStaysDead`,
`SuspendedObtainsNothing`, `OldPasswordStaysOut` and `BranchingBound`. The properties
are not inductive alone: that a token's parent is revoked needs that a request about
to insert has revoked the token it presented, and that family and user agree needs
that what a request remembers of the row is still what the row says. `RequestShape`
states both. They are preserved because no statement ever changes a row's user or
family, nor makes a revoked row usable. `DeadIsFinal` follows from `IInv`: a dead
family has no request that could insert into it, a request can only start to
redeem a token that is usable, and one past the expiry check keeps the family alive
whether its token expires or not. `SuspensionHolds` and `OldPasswordIsFinal` argue in the
same way about the requests past the check of `is_active` or of the password.
`BranchingIsBounded` counts successors and redeemers together: an insert
turns one of these into one of those, and a request joins the redeemers only while
the token has no successor.

`SerialImplementsChain` and `SerialSingleUse`, in the same module, assume `Serial`, that there
is one request at a time (`\A g, h \in Handlers : g = h`), and nothing about failures: they
are the refinement of `SessionChain` by `RefreshTokens` and the promise of `SessionChain` that
follows. The mapping takes the unrevoked rows for the tokens that work, and a family as owed
a token while a request has revoked one and not yet inserted the next. `ChainInv`, beside
`IInv`, says that a family is of one user and has one token that works, and none while it is
owed one; this is where the proof needs `Serial`, since a second request could rotate a token
that the first has read. Lemmas for the three ways a step can treat a chain
(`ChainRests`, `ChainCloses`, `ChainExtends`) take the place of one proof for each action.

`OneTimeCodes_proofs`: `TypeCorrect`, `EffectsEarned`, `SpendingIsFinal`,
`HourIsBounded`, `ValidIsBounded` and `RedeemingIsBounded`. `IInv` ties what a request
remembers of a code to the row: it was sent, has the type it is redeemed for, and
is used before it takes effect. The three bounds count, each beside the codes
or effects that exist, the requests that are about to add one; in that form each is
inductive, and the errors that the code drops appear as `slips`.

`Membership_proofs`: `TypeCorrect`, `AcceptanceIsEarned`, `RemovalIsFinal` and
`ClosingIsFinal`. An invitation is marked after the member's insert because the
request holds a row that exists (`RequestsHold`); a removed or closed row changes only by
requests that hold an older copy, which the properties name.

`SignUp_proofs`: `TypeCorrect`, `PairsAreServed` and `HalvesAreExplained`, over both
services. `TenantKept` says what tenant-service's answer tells of its tables ("created":
complete; a refusal, and nothing broke: nothing live), `CallerKept` what auth-service made
of that answer. A step changes the entries of one user only (`Own`), so the case
of each action concerns that user alone.

The same module has `AccountTypeCorrect` and `AccountIsKept`, the refinement of `Account` by
`UserAccount`. A password in a copy is never newer than the newest one, so that a new password
has a higher number than the one it replaces; a profile that is saved whole writes one
column if the rest of its copy is what the row says (`OneThing`).

`EventDelivery_proofs`: `TypeCorrect` and `LossIsBounded`. `LostOnlyAfterRetries` needs
`DeliveriesAccounted`: a delivery in a replica's hands whose handler has not run is not
yet an effect, and a replica acknowledges only what it handled.

`TenantPlans_proofs` begins with `Outlets` alone: `TypeCorrect`, `OverrunIsBounded`,
`GoneIsFinal`, `MainIsSafe`.
`LimitOverrun` counts the requests that are about to insert and the deleted
rows that a pending save may revive beside the live outlets; in this form it is
inductive, by cardinalities of those sets at each action.

Then `ImplementsOutlets` shows that every step of `TenantPlans` is one of
`Outlets` or a stutter, so `PlanOverrunIsBounded` and `PlanGoneIsFinal` are the
theorems of `Outlets` again. `PlanTypeCorrect` is inductive with the type invariant of `Outlets`.
`FullIsFull` counts: in a full tenant nobody can insert or revive, a request that is
about to count finds its limit reached, and a request that starts reads the plan's.
`UntouchedStays` holds step by step: a save writes a column in which its copy agrees.

`ServiceProcess_proofs`: `TypeCorrect` ties what is open to `main`'s stage.
`NobodyLosesTheDatabase` needs `CallsHaveTheirStage`: past the drain somebody is served only
if the timeout has passed. `GraceIsShorter`: under a grace period that ends before that timeout, as
the manifest's does (30 < 5 + 30), nobody is ever served by a closed database.
`KillIsJustified` needs `DelayHasItsReason`: requests that began after the signal exist only
if gRPC calls of before it delayed the shutdown. That needs `NobodyNewIsReached` in turn:
a server whose listener was closed, or that only begins to listen then, is reached by nobody.

`RequestChain_proofs`: `TypeCorrect`, `TwoWindowsHold`, `ReplaysAreEarned` and `EffectsAreBounded`,
for the limiter and the idempotency middleware behind RequireAuth. Both bounds are about sums over
a function (`SumFunction` of the community modules, a recursive function on the subsets
of its domain). What it computes is proved first (`SumIsSize`): the number of points under
the function satisfies the equation it is defined by, and nothing else does, because the
subsets of a finite set are well-founded (`UnfoldsUnique`; a minimal subset on which two
solutions differ is a contradiction, so that no induction rule is needed). The sums
then become cardinalities, as in the other modules.

* `TwoWindows` is not inductive: a counter says nothing of what passed before it was created.
  `WindowInv` bounds what passed in the window, beside the requests whose INCR had an error
  (counted apart, and perhaps by the counter as well), by what the counter has let through and
  one less than the limit from before, and what passed since the counter was given its TTL by
  one less than what it has let through, since the request that created it passed
  earlier. When the counter is deleted a whole window has gone by since its EXPIRE, so
  the second part becomes the first part for the next counter. A counter without a TTL
  never goes away and needs no second part.
* `EffectBound` is paid for by `ChargedIn`: a request of a tenant is charged while it runs on an
  empty look-up and until its response is stored, and from then on every request of the
  tenant is charged, since none will run again on an empty look-up. What no charge pays for
  (a look-up that failed open or found a blank body, an effect after which nothing is
  stored that a retry would find) is in `misfires`. There are as many
  charges as requests and tokens, and tokens not issued yet have none.
* `ReplayIsEarned` needs that a request about to store something has had its effect.

**Only model-checked**: liveness (`Recovers`, `Settled`, `BackInService`), which is out of
TLAPS's reach, and the two claims that the code refutes. Every safety invariant
and every action property that a run checks is proved. No module uses a RECURSIVE
operator. `MainIsSafe`, that the main outlet stays, is only proved: no run checks it.

## 5. What is not modelled

* The content of requests and answers: which bodies validate, and which HTTP
  status an error becomes. UpdateTenant's handler validates nothing, which no
  property depends on. Signing of tokens, tracing, metrics and the values of
  settings: stateless or pure I/O.
* RequirePermission, RequirePlan, RequireRole, and `ValidateToken` of the gRPC
  server: comparisons of claims that keep no state and that nothing installs or
  calls. Two of their answers cannot occur: seeded permissions such as `product:*` are compared
  literally and grant nothing, and `TOKEN_EXPIRED` is never answered,
  since the JWT manager wraps the library's error and not the one that is asked for.
* `GetActiveSessions` returns an empty list and `getTenantContext` a random
  tenant: placeholders. `DeleteExpired`, `WithTenantSchema`, the worker and the
  pagination helpers are never called.
* Plans by name: a plan that is not in `PlanLimits` is not limited at all; the models
  have only those that are.
* The members' limit: it is compared when somebody is invited, so invitations that were
  sent while there was room are all accepted, and no bound but their number holds.
* Slugs as text (cut to 60 bytes after trimming, possibly empty) and emails as
  text: rows are told apart by equality.
* The SQL as such. Four places would fail before any of the behaviour here is
  reached, and the models take the statement's intent: `refresh_tokens.ip_address`
  is INET and the usecase stores an empty string; the outlet repository names a
  table that only exists in the tenants' schemas; an empty phone collides in
  `users.phone` as an empty `google_id` does; `tenants` has no column for `PlanID`.
* Ports: the manifest exposes gRPC on 9001 and sets only `APP_PORT`, so that gRPC
  listens on 8002 and metrics on 9001. A call of the model reaches the server
  it is made to.
* That random ids, tokens and codes never collide is assumed, and that Redis
  keeps a key until its TTL.
* The limiter and the idempotency middleware are not installed by either service
  yet; they are modelled as their comments say they are to be used.

## 6. Plan

Done, in this order: sessions (with `SessionChain`), codes,
membership, outlets, the account (with `Account`), registration and
provisioning, composed as `SignUp`, events, rate limiter, idempotency; the service
process, the tenant's row with `Outlets`, and the middleware composed as
`RequestChain`. Each has its proofs.

Next, by importance:

1. Sessions and the account row together: `RefreshTokens` with `UserAccount`,
   since a stale `UpdateProfile` can undo a reset's password or a suspension.
2. Access tokens once they carry the real tenant: claims that outlive suspension,
   removal and a change of plan.
3. Codes together with their delivery: `OneTimeCodes` with `EventDelivery`.
4. Tenant schemas on pooled connections (`database.go`), when a service uses them.
5. What each answer promises about effects: refusals that have changed state (a
   refresh refused for a suspended user has revoked its token), errors after
   everything took effect.
6. An abstract soft-deletable row that `TenantPlans`, `Membership` and `UserAccount`
   implement while no request holds a stale copy.

Theorems to come: that `SignUp` keeps, for each service alone, what `Registration` and
`TenantProvisioning` allow it, and for `Membership` a bound on the members in terms of the
invitations sent while there was room.
