----------------------------- MODULE ServiceProcess -----------------------------
(***************************************************************************)
(* One replica of a service under the orchestrator: main() of cmd/main.go   *)
(* (the same statements in both services), the probes of health.go and the  *)
(* pod's life as the deployment's manifest declares it.                     *)
(*                                                                         *)
(* main opens its dependencies one after the other and dies if one is away; *)
(* it starts the gRPC and the HTTP server in goroutines and waits for a     *)
(* signal; then it drains gRPC without a limit, HTTP within a limit that    *)
(* has been running since the signal, and closes what it opened.            *)
(*                                                                         *)
(* Time is counted in ticks from the moment the container is told to stop.  *)
(* A step of main takes none, unless main is starting up or has to wait.    *)
(***************************************************************************)
EXTENDS Naturals, FiniteSets

CONSTANTS
  Calls,            \* requests that can be in flight at the same time
  Grace,            \* terminationGracePeriodSeconds
  PreStop,          \* the preStop hook's sleep, which is part of it
  DrainTimeout,     \* the timeout of shutdownCtx
  MaxFaults         \* bound of the model: dependencies lost, crashes, ports taken

ASSUME TimeAssumption ==
  Grace \in Nat /\ PreStop \in Nat /\ DrainTimeout \in Nat /\ PreStop < Grace
ASSUME FaultAssumption == MaxFaults \in Nat

Deps == {"database", "redis", "nats"}
Remote == Deps \cup {"collector"}        \* the tracer's, which main does not wait for

VARIABLES
  configured,       \* the environment holds the keys that are required
  stage,            \* where main is
  open,             \* the dependencies it has opened and not yet closed
  http, rpc,        \* the two servers
  call,             \* what each request is; "late": began some time after the signal
  held,             \* history: a gRPC call was in flight when the signal came
  routed,           \* clients can reach the process
  stopping,         \* why the container is being stopped, if it is
  clock,            \* ticks since
  up,               \* the remote parts that can be reached
  faults

servers == <<http, rpc>>
env     == <<configured, up, faults>>
vars    == <<configured, stage, open, http, rpc, call, held, routed, stopping, clock, up, faults>>

StartUp == {"config", "database", "redis", "nats", "servers"}
Drain   == {"rpc_drain", "http_drain"}
Closing == {"closing", "flush"}

InFlight(kinds) == {c \in Calls : call[c] \in kinds}
Served == InFlight({"http", "late", "rpc"})

Expired == clock >= PreStop + DrainTimeout           \* shutdownCtx.Done()

Fault == faults < MaxFaults /\ faults' = faults + 1

Init ==
  /\ configured \in BOOLEAN
  /\ stage = "config" /\ open = {}
  /\ http = "off" /\ rpc = "off"
  /\ call = [c \in Calls |-> "none"]
  /\ held = FALSE /\ routed = FALSE
  /\ stopping = "no" /\ clock = 0
  /\ up = Remote /\ faults = 0

-------------------------------------------------------------------------------
(* Starting up.                                                            *)

\* log.Fatal, a panic, a signal nobody waits for, the end of main: the process
\* is gone with everything in it, and no deferred call runs any more.
Gone ==
  /\ stage' = "dead" /\ open' = {}
  /\ http' = "off" /\ rpc' = "off"
  /\ call' = [c \in Calls |-> "none"]
  /\ held' = FALSE /\ routed' = FALSE

\* config.MustLoad panics without DATABASE_URL and the two secrets; everything
\* else has a default. The tracer dials nobody yet.
LoadConfig ==
  /\ stage = "config"
  /\ IF configured
     THEN stage' = "database" /\ UNCHANGED <<open, servers, call, held, routed>>
     ELSE Gone
  /\ UNCHANGED <<env, stopping, clock>>

\* Mutant: the event client is not waited for.
FollowingSkips == [database |-> "redis", redis |-> "servers", nats |-> "servers"]

Following == [database |-> "redis", redis |-> "nats", nats |-> "servers"]

\* database.New, redis.New, events.Connect: each talks to its server.
Open(d) ==
  /\ stage = d
  /\ IF d \in up
     THEN /\ open' = open \cup {d} /\ stage' = Following[d]
          /\ UNCHANGED <<servers, call, held, routed>>
     ELSE Gone
  /\ UNCHANGED <<env, stopping, clock>>

\* The servers' goroutines, and signal.Notify between them.
StartServers ==
  /\ stage = "servers"
  /\ stage' = "wait" /\ http' = "starting" /\ rpc' = "starting"
  /\ UNCHANGED <<env, open, call, held, routed, stopping, clock>>

\* Serve of a server that GracefulStop has stopped returns at once.
RpcListens ==
  /\ rpc = "starting"
  /\ rpc' = IF stage = "wait" THEN "on" ELSE "closed"
  /\ UNCHANGED <<env, stage, open, http, call, held, routed, stopping, clock>>

\* The gRPC port is taken: log.Fatal.
RpcListenFails ==
  /\ rpc = "starting" /\ Fault
  /\ Gone
  /\ UNCHANGED <<configured, up, stopping, clock>>

\* app.Listen. Shutting down an app that does not listen yet does not keep it
\* from listening afterwards.
HttpListens ==
  /\ http = "starting"
  /\ http' = "on"
  /\ UNCHANGED <<env, stage, open, rpc, call, held, routed, stopping, clock>>

\* The HTTP port is taken: the error is logged, and main goes on waiting.
HttpListenFails ==
  /\ http = "starting" /\ Fault
  /\ http' = "failed"
  /\ UNCHANGED <<configured, up, stage, open, rpc, call, held, routed, stopping, clock>>

-------------------------------------------------------------------------------
(* Serving.                                                                *)

\* A kept-alive connection outlives the pod's place among the endpoints.
Arrive(c) ==
  /\ call[c] = "none" /\ routed
  /\ \/ /\ http = "on"
        /\ call' = [call EXCEPT ![c] = IF clock > PreStop THEN "late" ELSE "http"]
     \/ /\ rpc = "on"
        /\ call' = [call EXCEPT ![c] = "rpc"]
  /\ UNCHANGED <<env, stage, open, servers, held, routed, stopping, clock>>

\* A call is answered; the goroutine in which Login writes last_login_at may still
\* be there afterwards.
Answer(c) ==
  /\ \/ call[c] # "none" /\ call' = [call EXCEPT ![c] = "none"]
     \/ call[c] \in {"http", "late"} /\ call' = [call EXCEPT ![c] = "write"]
  /\ UNCHANGED <<env, stage, open, servers, held, routed, stopping, clock>>

\* Mutant: a degraded service counts as unhealthy.
HealthyWithRedis == {"database", "redis"} \subseteq up

\* Readiness: Redis that is away only degrades the service.
Healthy == "database" \in up

\* The readiness probe, over HTTP, puts the pod among the endpoints or removes
\* it, until the pod is deleted.
ReadinessProbe ==
  /\ stopping # "delete" /\ stage # "dead"
  /\ routed' = (http = "on" /\ Healthy)
  /\ UNCHANGED <<env, stage, open, servers, call, held, stopping, clock>>

\* The liveness probe, answered as long as there is an HTTP server.
LivenessProbe ==
  /\ stopping = "no" /\ http = "failed"
  /\ stopping' = "restart" /\ clock' = 0
  /\ UNCHANGED <<env, stage, open, servers, call, held, routed>>

-------------------------------------------------------------------------------
(* Shutting down.                                                          *)

\* A deployment, a scale-down or a drained node.
Delete ==
  /\ stopping = "no"
  /\ stopping' = "delete" /\ clock' = 0
  /\ UNCHANGED <<env, stage, open, servers, call, held, routed>>

\* SIGTERM follows the preStop hook. Before signal.Notify it ends the process;
\* after it, main enters GracefulStop, which refuses new calls.
Sigterm ==
  /\ stopping # "no" /\ clock = PreStop
  /\ \/ stage \in StartUp /\ Gone
     \/ /\ stage = "wait" /\ stage' = "rpc_drain"
        /\ rpc' = IF rpc = "on" THEN "closed" ELSE rpc
        /\ held' = (InFlight({"rpc"}) # {})
        /\ UNCHANGED <<open, http, call, routed>>
  /\ UNCHANGED <<env, stopping, clock>>

\* GracefulStop returns when its calls are answered; ShutdownWithContext closes
\* the listener, if there is one.
RpcDrained ==
  /\ stage = "rpc_drain" /\ InFlight({"rpc"}) = {}
  /\ stage' = "http_drain"
  /\ http' = IF http = "on" THEN "closed" ELSE http
  /\ UNCHANGED <<env, open, rpc, call, held, routed, stopping, clock>>

\* Mutant: the servers' shutdown is not waited for.
HttpIdleAtOnce == TRUE

\* Mutant: the shutdown also waits for the goroutines.
HttpIdleWithWrites == InFlight({"http", "late", "write"}) = {} \/ Expired

HttpIdle == InFlight({"http", "late"}) = {} \/ Expired

\* ShutdownWithContext returns, whose error is dropped, and so does main.
HttpDrained ==
  /\ stage = "http_drain" /\ HttpIdle
  /\ stage' = "closing"
  /\ UNCHANGED <<env, open, servers, call, held, routed, stopping, clock>>

\* The deferred calls run last in, first out.
Last == IF "nats" \in open THEN "nats" ELSE IF "redis" \in open THEN "redis" ELSE "database"

CloseLast ==
  /\ stage = "closing" /\ open # {}
  /\ open' = open \ {Last}
  /\ stage' = IF open' = {} THEN "flush" ELSE "closing"
  /\ UNCHANGED <<env, servers, call, held, routed, stopping, clock>>

\* tracerShutdown sends what spans there are; then the process exits.
Exit ==
  /\ stage = "flush"
  /\ Gone
  /\ UNCHANGED <<env, stopping, clock>>

\* Main has to wait for somebody.
Waiting ==
  \/ stage = "rpc_drain" /\ InFlight({"rpc"}) # {}
  \/ stage = "http_drain" /\ ~HttpIdle
  \/ stage = "flush" /\ "collector" \notin up

\* SIGKILL, at the end of the grace period.
Kill ==
  /\ stopping # "no" /\ clock = Grace /\ Waiting
  /\ Gone
  /\ UNCHANGED <<env, stopping, clock>>

Tick ==
  /\ stopping # "no" /\ clock < Grace
  /\ \/ stage \in StartUp \cup {"wait"} /\ clock # PreStop
     \/ Waiting
  /\ clock' = clock + 1
  /\ UNCHANGED <<env, stage, open, servers, call, held, routed, stopping>>

\* A stopped container that is not deleted is started again.
Restart ==
  /\ stage = "dead" /\ stopping # "delete"
  /\ stage' = "config" /\ stopping' = "no" /\ clock' = 0
  /\ UNCHANGED <<env, open, servers, call, held, routed>>

-------------------------------------------------------------------------------
(* Faults.                                                                 *)

\* A panic outside the HTTP handlers (those are recovered), or the OOM killer.
Crash ==
  /\ stage # "dead" /\ Fault
  /\ Gone
  /\ UNCHANGED <<configured, up, stopping, clock>>

Lose(d) ==
  /\ d \in up /\ Fault
  /\ up' = up \ {d}
  /\ UNCHANGED <<configured, stage, open, servers, call, held, routed, stopping, clock>>

Return(d) ==
  /\ d \notin up
  /\ up' = up \cup {d}
  /\ UNCHANGED <<configured, faults, stage, open, servers, call, held, routed, stopping, clock>>

Main ==
  \/ LoadConfig \/ StartServers \/ (\E d \in Deps : Open(d))
  \/ Sigterm \/ RpcDrained \/ HttpDrained \/ CloseLast \/ Exit

Next ==
  \/ Main \/ RpcListens \/ RpcListenFails \/ HttpListens \/ HttpListenFails
  \/ (\E c \in Calls : Arrive(c) \/ Answer(c))
  \/ ReadinessProbe \/ LivenessProbe \/ Delete \/ Kill \/ Tick \/ Restart
  \/ Crash \/ (\E d \in Remote : Lose(d) \/ Return(d))

Spec == Init /\ [][Next]_vars

\* Goroutines that can run do, the orchestrator does what it promises and time
\* passes; the database and NATS come back, Redis and the clients need not.
FairSpec ==
  /\ Spec
  /\ WF_vars(Main) /\ WF_vars(RpcListens) /\ WF_vars(HttpListens)
  /\ WF_vars(ReadinessProbe) /\ WF_vars(LivenessProbe)
  /\ WF_vars(Kill) /\ WF_vars(Tick) /\ WF_vars(Restart)
  /\ WF_vars(Return("database")) /\ WF_vars(Return("nats"))

-------------------------------------------------------------------------------
(* Correctness.                                                            *)

\* The shape of the state: what is open at each stage, and who may serve when.
TypeOK ==
  /\ configured \in BOOLEAN /\ held \in BOOLEAN /\ routed \in BOOLEAN
  /\ stage \in StartUp \cup Drain \cup Closing \cup {"wait", "dead"}
  /\ open \subseteq Deps /\ up \subseteq Remote
  /\ http \in {"off", "starting", "on", "failed", "closed"}
  /\ rpc \in {"off", "starting", "on", "closed"}
  /\ call \in [Calls -> {"none", "http", "late", "rpc", "write"}]
  /\ stopping \in {"no", "restart", "delete"}
  /\ clock \in 0..Grace /\ faults \in 0..MaxFaults
  /\ stage \in {"wait", "servers"} \cup Drain => open = Deps
  /\ stage \in Drain \cup Closing => stopping # "no" /\ clock >= PreStop
  /\ stage \in StartUp \cup {"dead"} => http = "off" /\ rpc = "off" /\ Served = {}

\* A request that is being served has the database it needs, for main drains both
\* servers before it closes anything, unless the drain's timeout has passed. Only
\* the goroutines that Login leaves behind may find it closed.
ServedByOpenDatabase == Served # {} => "database" \in open \/ Expired

\* The process is killed only while somebody makes it wait, and cuts off nobody
\* whose request began after the signal, unless gRPC calls delayed the shutdown of
\* the HTTP server, which goes on accepting requests meanwhile. The spans that
\* cannot be sent are the other thing main may be waiting for.
KilledOnlyIfHeldUp ==
  [][Kill => \/ Served # {} /\ (InFlight({"late"}) = {} \/ held)
             \/ stage = "flush"]_vars

\* Once faults cease (FairSpec), a replica serves again and again until it is
\* deleted, also without Redis, and also if it could not listen. A process that
\* has to start while Redis is away does not get that far.
InService == stage = "wait" /\ http = "on" /\ routed
NeedsRedis == {"redis"} \cap (up \cup open) = {}
BackInService ==
  [](configured => <>(InService \/ stopping = "delete" \/ NeedsRedis))
===============================================================================
