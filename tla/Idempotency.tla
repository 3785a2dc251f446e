------------------------------ MODULE Idempotency ------------------------------
(***************************************************************************)
(* middleware.Idempotency for the requests with one X-Idempotency-Key: look *)
(* for a response stored under "idempotency:<tenant>:<key>", run the handler *)
(* if there is none, store a response with a 2xx status. The look-up, the   *)
(* handler and the store are separate steps, and requests interleave        *)
(* between them. The tenant is the claim that RequireAuth put into Locals.  *)
(* Assumed of a handler: a 2xx response says that it took effect. What it    *)
(* answers otherwise says nothing, since it may fail after its effect.       *)
(* The model covers the 24 hours for which a response is kept. RequestChain *)
(* puts the other middleware in front and has the specification.            *)
(***************************************************************************)
EXTENDS Naturals, FiniteSets, Functions

CONSTANTS
  Requests,         \* POSTs and PUTs with this key that can be in flight together
  Tenants,          \* tenant claims of the access tokens they come with
  MaxAttempts       \* bound of the model: how many are made in all

VARIABLES
  locals,           \* the tenant claim of each request, set and cleared by RequestChain
  stored,           \* what the cache holds for each tenant
  pc,               \* where each request is
  attempts,         \* requests made so far
  done,             \* history: how often the handler took effect
  misfires          \* history: look-ups that failed open or found a blank body,
                    \* effects not remembered

vars == <<stored, pc, attempts, done, misfires>>

\* The bodies of responses, by what Client.Get makes of them, which decodes what is
\* stored as JSON into a []byte: bytes of a base64 string, no bytes and no error of
\* null, "" and [], and an error of anything else, an object or an empty body.
Decodable == {"string", "blank"}
Bodies    == Decodable \cup {"opaque"}
Cached(r) == stored[locals[r]]
Readable(r) == Cached(r) = "string"

Pcs == {"idle", "run", "run_uncached", "store", "store_empty"}
At(r, p)   == pc[r] = p
Goto(r, p) == pc' = [pc EXCEPT ![r] = p]
Running(r) == pc[r] \in {"run", "run_uncached"}

Init ==
  /\ stored = [t \in Tenants |-> "none"]
  /\ pc = [r \in Requests |-> "idle"]
  /\ attempts = 0 /\ done = [t \in Tenants |-> 0] /\ misfires = 0

Arrive(r) ==
  /\ At(r, "idle") /\ attempts < MaxAttempts
  /\ attempts' = attempts + 1

\* Mutant: a stored response is not looked for.
MissAnyway(r) ==
  /\ Arrive(r)
  /\ Goto(r, "run")
  /\ UNCHANGED <<stored, done, misfires>>

\* No stored response (redis.Nil).
Miss(r) ==
  /\ Arrive(r)
  /\ Cached(r) = "none"
  /\ Goto(r, "run")
  /\ UNCHANGED <<stored, done, misfires>>

\* A stored response that can be read is sent, with status 200.
Replay(r) ==
  /\ Arrive(r)
  /\ Readable(r)
  /\ UNCHANGED <<stored, pc, done, misfires>>

\* A stored response that decodes to no bytes is taken for none: the handler runs
\* again, and its response is stored again.
Blank(r) ==
  /\ Arrive(r)
  /\ Cached(r) = "blank"
  /\ misfires' = misfires + 1
  /\ Goto(r, "run")
  /\ UNCHANGED <<stored, done>>

\* Any other error of the look-up fails open, whether Redis is away or what is
\* stored cannot be read: the handler runs, and its response is not stored.
FailOpen(r) ==
  /\ Arrive(r)
  /\ misfires' = misfires + 1
  /\ Goto(r, "run_uncached")
  /\ UNCHANGED <<stored, done>>

\* Mutant: a response is stored whatever its status.
RefuseStores(r) ==
  /\ Running(r)
  /\ Goto(r, IF At(r, "run") THEN "store" ELSE "idle")
  /\ UNCHANGED <<stored, attempts, done, misfires>>

\* The handler writes a response with another status than 2xx.
Refuse(r) ==
  /\ Running(r)
  /\ Goto(r, "idle")
  /\ UNCHANGED <<stored, attempts, done, misfires>>

TakeEffect(r) == done' = [done EXCEPT ![locals[r]] = @ + 1]

\* A request that the look-up let run ends at p, and nothing is stored that the
\* retries of its tenant would find.
Forgets(r, p) == At(r, p) /\ Cached(r) = "none"

\* The same from a handler that fails after its effect, as Register does when the
\* tokens cannot be generated. Nothing is stored, and a retry takes effect again.
FailLate(r) ==
  /\ Running(r)
  /\ TakeEffect(r)
  /\ misfires' = IF Forgets(r, "run") THEN misfires + 1 ELSE misfires
  /\ Goto(r, "idle")
  /\ UNCHANGED <<stored, attempts>>

\* The handler returns an error: Fiber's ErrorHandler writes the response after
\* this middleware, which still sees the initial status 200 and no body.
Raise(r) ==
  /\ Running(r)
  /\ Goto(r, IF At(r, "run") THEN "store_empty" ELSE "idle")
  /\ UNCHANGED <<stored, attempts, done, misfires>>

\* The handler takes effect and writes a 2xx response, or returns an error then.
Succeed(r) ==
  /\ Running(r)
  /\ TakeEffect(r)
  /\ Goto(r, IF At(r, "run") THEN "store" ELSE "idle")
  /\ UNCHANGED <<stored, attempts, misfires>>

Stores(r) ==
  \E body \in Bodies :
    /\ \/ At(r, "store")
       \/ At(r, "store_empty") /\ body = "opaque"
    /\ stored' = [stored EXCEPT ![locals[r]] = body]

\* Mutant: the chain is run once more after the store.
StoreRunsOn(r) ==
  /\ Stores(r)
  /\ Goto(r, "run_uncached")
  /\ UNCHANGED <<attempts, done, misfires>>

\* SET replaces what is stored.
Store(r) ==
  /\ Stores(r)
  /\ Goto(r, "idle")
  /\ UNCHANGED <<attempts, done, misfires>>

\* The process is lost at any point, or SET fails, whose error is dropped.
Cut(r) ==
  /\ ~At(r, "idle")
  /\ misfires' = IF Forgets(r, "store") THEN misfires + 1 ELSE misfires
  /\ Goto(r, "idle")
  /\ UNCHANGED <<stored, attempts, done>>

Work(r) ==
  \/ Miss(r) \/ Replay(r) \/ Blank(r) \/ FailOpen(r)
  \/ Refuse(r) \/ FailLate(r) \/ Raise(r) \/ Succeed(r) \/ Store(r) \/ Cut(r)

-------------------------------------------------------------------------------
(* Correctness.                                                            *)

InHandler == Cardinality({r \in Requests : Running(r)})
Effects   == SumFunction(done)

\* The shape of the state; an attempt takes effect at most once.
TypeOK ==
  /\ stored \in [Tenants -> Bodies \cup {"none"}]
  /\ pc \in [Requests -> Pcs]
  /\ attempts \in 0..MaxAttempts
  /\ done \in [Tenants -> Nat] /\ Effects + InHandler <= attempts
  /\ misfires \in Nat
===============================================================================
