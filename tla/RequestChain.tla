----------------------------- MODULE RequestChain -----------------------------
(***************************************************************************)
(* A request on its way through the shared middleware, in the order their  *)
(* comments ask for: RequireAuth, RateLimiter, Idempotency, the handler.   *)
(* One client repeats one request, with one X-Idempotency-Key; several of   *)
(* its requests are in flight at the same time, on several replicas.       *)
(*                                                                         *)
(* The client renews its access token and uses the newest. Login and        *)
(* RefreshToken put a new random tenant into every token (getTenantContext), *)
(* so that claim tells tokens apart. No service installs the limiter or the *)
(* idempotency middleware yet.                                             *)
(***************************************************************************)
EXTENDS Naturals, FiniteSets

CONSTANTS
  Requests, MaxAttempts,            \* as in Idempotency
  MaxTokens,                        \* bound of the model: access tokens the client is given
  MaxRequests, Window, MaxErrors    \* as in RateLimiter, whose key is the client's address

ASSUME LimitAssumption == MaxRequests \in Nat \ {0} /\ Window \in Nat \ {0}
ASSUME BoundAssumption == MaxAttempts \in Nat /\ MaxTokens \in Nat /\ MaxErrors \in Nat
ASSUME FiniteAssumption == IsFiniteSet(Requests) /\ Requests # {}

Tenants == 1..MaxTokens     \* the claim of the n-th token
Nobody  == 0                \* no claim

VARIABLES
  issued, valid,                                    \* the client's newest token; exp is not over
  gate,                                             \* how far each request is before Idempotency
  count, ttl, passed, unchecked,                    \* RateLimiter
  locals, stored, pc, attempts, done, misfires      \* Idempotency

token       == <<issued, valid>>
limiter     == <<count, ttl, passed, unchecked>>
idempotency == <<stored, pc, attempts, done, misfires>>
vars        == <<token, gate, limiter, locals, idempotency>>

Expiring == \E r \in Requests : gate[r] = "expire"

Limit == INSTANCE RateLimiter WITH expiring <- Expiring
Once  == INSTANCE Idempotency

At(r, g) == gate[r] = g

\* A request goes on, or is answered and its context released.
Move(r, g) ==
  /\ gate' = [gate EXCEPT ![r] = g]
  /\ locals' = IF g = "out" THEN [locals EXCEPT ![r] = Nobody] ELSE locals

Init ==
  /\ issued = 0 /\ valid = FALSE
  /\ gate = [r \in Requests |-> "out"]
  /\ locals = [r \in Requests |-> Nobody]
  /\ Limit!Init /\ Once!Init

-------------------------------------------------------------------------------
(* Tokens.                                                                 *)

\* Login or RefreshToken of auth-service.
GenerateAccessToken ==
  /\ issued < MaxTokens
  /\ issued' = issued + 1 /\ valid' = TRUE
  /\ UNCHANGED <<gate, limiter, locals, idempotency>>

TokenExpires ==
  /\ valid
  /\ valid' = FALSE
  /\ UNCHANGED <<issued, gate, limiter, locals, idempotency>>

-------------------------------------------------------------------------------
(* The chain. RequireAuth keeps no state: a request that it refuses changes *)
(* nothing, and so does one that the limiter refuses but for the count.     *)

\* RequireAuth puts the claims into Locals, and the limiter decides where to. The
\* bound on attempts keeps further requests out once they are all made.
RequireAuth(r, g) ==
  /\ At(r, "out") /\ valid /\ attempts < MaxAttempts
  /\ gate' = [gate EXCEPT ![r] = g]
  /\ locals' = IF g = "out" THEN locals ELSE [locals EXCEPT ![r] = issued]

\* RateLimiter counts the request, which is refused, is to send EXPIRE, or goes on.
Count(r) ==
  /\ RequireAuth(r, IF count = 0 THEN "expire" ELSE IF Limit!Within(count + 1) THEN "in" ELSE "out")
  /\ Limit!Incr
  /\ UNCHANGED <<token, idempotency>>

\* INCR has an error, and the request goes on unchecked.
CountFails(r) ==
  /\ RequireAuth(r, "in")
  /\ Limit!IncrFails
  /\ UNCHANGED <<token, idempotency>>

\* EXPIRE, whose failure is dropped, ends the limiter's part.
Expire(r) ==
  /\ At(r, "expire")
  /\ Move(r, "in")
  /\ Limit!Expire \/ Limit!ExpireLost
  /\ UNCHANGED <<token, idempotency>>

\* Idempotency and the handler, until the request is answered.
Serve(r) ==
  /\ At(r, "in")
  /\ Once!Work(r)
  /\ Move(r, IF pc'[r] = "idle" THEN "out" ELSE "in")
  /\ UNCHANGED <<token, limiter>>

\* The process is lost before the request reaches Idempotency.
CutOff(r) ==
  /\ ~At(r, "out") /\ pc[r] = "idle"
  /\ Move(r, "out")
  /\ IF At(r, "expire") THEN Limit!ExpireLost ELSE UNCHANGED limiter
  /\ UNCHANGED <<token, idempotency>>

Tick == UNCHANGED <<token, gate, locals, idempotency>> /\ Limit!Tick

Step(r) ==
  \/ Count(r) \/ CountFails(r) \/ Expire(r) \/ Serve(r) \/ CutOff(r)

Next ==
  \/ Tick \/ GenerateAccessToken \/ TokenExpires
  \/ \E r \in Requests : Step(r)

Spec == Init /\ [][Next]_vars

\* Time passes, and a request that is not cut off sends its EXPIRE.
FairSpec == Spec /\ WF_vars(Tick) /\ \A r \in Requests : WF_vars(Expire(r))

-------------------------------------------------------------------------------
(* Correctness.                                                            *)

\* Both parts have their shape, and a request is in Idempotency or in the handler
\* only after it has passed the limiter.
TypeOK ==
  /\ Limit!TypeOK /\ Once!TypeOK
  /\ issued \in 0..MaxTokens /\ valid \in BOOLEAN
  /\ gate \in [Requests -> {"out", "expire", "in"}]
  /\ locals \in [Requests -> 0..issued]
  /\ \A r \in Requests :
       /\ pc[r] # "idle" => At(r, "in")
       /\ At(r, "out") <=> locals[r] = Nobody

\* Whatever EXPIREs are delayed or lost, no stretch of Window lets through twice
\* MaxRequests beyond the requests that an error of Redis leaves unchecked, of which
\* there is no limit (MaxErrors is the model's): a counter lives for at least Window,
\* so the stretch meets two of them at most, and not the request that started the
\* first. A command that ran and whose reply was lost starts no third.
TwoWindows == Limit!PassedInWindow < 2 * MaxRequests + Limit!UncheckedInWindow

\* A client that is refused is let through again some time (FairSpec), unless the
\* key's EXPIRE is lost, or the reply of the INCR that it was to follow: the TTL is
\* set once, so refused requests do not prolong it.
Recovers == Limit!Blocked ~> (~Limit!Blocked \/ Limit!Orphaned)

\* What is stored can be decoded only if the handler took effect for the tenant:
\* faults, retries and handlers that raise never make a failure final.
ReplayIsEarned == \A t \in Tenants : stored[t] \in Once!Decodable => done[t] > 0

\* However often the client retries, and however Redis fails, the handler takes
\* effect at most once per request that can be in flight and per token (requests
\* with a new token find nothing that was stored under the old one's tenant), and
\* once for every look-up that failed open or found a body that decodes to nothing,
\* and every effect that is not remembered: its response was not stored, or said
\* that the request had failed.
EffectBound ==
  Once!Effects + Once!InHandler <= Cardinality(Requests) * issued + misfires
===============================================================================
