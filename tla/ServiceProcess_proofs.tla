------------------------- MODULE ServiceProcess_proofs -------------------------
(***************************************************************************)
(* Proofs about ServiceProcess, for every number of requests and faults and *)
(* all times: its type invariant, that the shutdown closes the database     *)
(* under nobody unless its timeout passes, that the manifest's times leave  *)
(* no room for that, and that only a process that is held up is killed.     *)
(***************************************************************************)
EXTENDS ServiceProcess, TLAPS

\* Who may be in flight: gRPC calls until GracefulStop returns, HTTP requests
\* until the listener's drain is over or given up.
CallsHaveTheirStage ==
  /\ \A c \in Calls : call[c] = "rpc" => stage \in {"wait", "rpc_drain"}
  /\ \A c \in Calls : call[c] \in {"http", "late"} =>
       stage \in Drain \cup {"wait"} \/ (stage \in Closing /\ Expired)

\* Who may be reached: no gRPC server after the signal, and no HTTP server after
\* its listener was closed, not even one that begins to listen later, for it has
\* never been among the endpoints.
NobodyNewIsReached ==
  /\ rpc = "on" => stage = "wait"
  /\ routed => http \in {"on", "closed"}
  /\ stage \in Closing \cup {"http_drain"} /\ http = "on" => ~routed
  /\ stopping = "restart" => http = "failed" \/ stage = "dead"

\* What can have delayed the shutdown: gRPC calls of before the signal.
DelayHasItsReason ==
  /\ stopping = "no" => clock = 0
  /\ stage \in StartUp \cup {"wait"} => clock <= PreStop
  /\ stage = "rpc_drain" => \A c \in Calls : call[c] = "rpc" => held
  /\ stage = "rpc_drain" /\ clock > PreStop => held
  /\ \A c \in Calls : call[c] = "late" => held /\ clock > PreStop

\* What has been opened when the next dependency's turn comes.
OpenedInOrder ==
  /\ stage = "redis" => "database" \in open
  /\ stage = "nats" => {"database", "redis"} \subseteq open

IInv == TypeOK /\ OpenedInOrder /\ CallsHaveTheirStage /\ NobodyNewIsReached /\ DelayHasItsReason

\* A process that is gone satisfies the invariant, whatever ended it.
LEMMA GoneKeeps ==
  ASSUME IInv, Gone, configured' = configured, up' = up, faults' \in 0..MaxFaults,
         stopping' = stopping, clock' = clock
  PROVE  IInv'
BY TimeAssumption
   DEF IInv, TypeOK, OpenedInOrder, CallsHaveTheirStage, NobodyNewIsReached, DelayHasItsReason, Gone,
       Served, InFlight, Expired, StartUp, Drain, Closing, Deps, Remote

\* The initial states satisfy the invariant.
LEMMA InvInit == Init => IInv
<1> SUFFICES ASSUME Init PROVE IInv
  OBVIOUS
<1> USE TimeAssumption, FaultAssumption
<1> USE DEF Init, StartUp, Drain, Closing, Deps, Remote, Served, InFlight, Expired
<1>1. clock \in 0..Grace /\ faults \in 0..MaxFaults
  OBVIOUS
<1>2. TypeOK
  BY <1>1 DEF TypeOK
<1>3. CallsHaveTheirStage
  BY DEF CallsHaveTheirStage
<1>4. OpenedInOrder /\ NobodyNewIsReached /\ DelayHasItsReason
  BY DEF OpenedInOrder, NobodyNewIsReached, DelayHasItsReason
<1>5. QED
  BY <1>2, <1>3, <1>4 DEF IInv

\* Every step preserves it.
LEMMA InvNext == IInv /\ [Next]_vars => IInv'
<1> SUFFICES ASSUME IInv, [Next]_vars PROVE IInv'
  OBVIOUS
<1> USE TimeAssumption, FaultAssumption
<1> USE DEF StartUp, Drain, Closing, Deps, Remote, Served, InFlight, Expired, env, servers,
            IInv, TypeOK, OpenedInOrder, CallsHaveTheirStage, NobodyNewIsReached, DelayHasItsReason
<1>1. CASE LoadConfig
  <2>1. CASE configured
    BY <1>1, <2>1 DEF LoadConfig
  <2>2. CASE ~configured
    BY <1>1, <2>2, GoneKeeps DEF LoadConfig
  <2>3. QED
    BY <2>1, <2>2
<1>2. ASSUME NEW d \in Deps, Open(d) PROVE IInv'
  <2>1. CASE d \in up
    <3>1. /\ open' = open \cup {d} /\ UNCHANGED <<servers, call, held, routed>>
          /\ UNCHANGED <<env, stopping, clock>>
          /\ \/ stage = "database" /\ d = "database" /\ stage' = "redis"
             \/ stage = "redis" /\ d = "redis" /\ stage' = "nats"
             \/ stage = "nats" /\ d = "nats" /\ stage' = "servers"
      BY <1>2, <2>1 DEF Open, Following
    <3>2. QED
      BY <3>1
  <2>2. CASE d \notin up
    BY <1>2, <2>2, GoneKeeps DEF Open
  <2>3. QED
    BY <2>1, <2>2
<1>3. CASE StartServers
  BY <1>3 DEF StartServers
<1>4. CASE RpcListens
  BY <1>4 DEF RpcListens
<1>5. CASE RpcListenFails
  BY <1>5, GoneKeeps DEF RpcListenFails, Fault
<1>6. CASE HttpListens
  BY <1>6 DEF HttpListens
<1>7. CASE HttpListenFails
  BY <1>7 DEF HttpListenFails, Fault
<1>8. ASSUME NEW c \in Calls, Arrive(c) PROVE IInv'
  BY <1>8 DEF Arrive
<1>9. ASSUME NEW c \in Calls, Answer(c) PROVE IInv'
  BY <1>9 DEF Answer
<1>10. CASE ReadinessProbe
  BY <1>10 DEF ReadinessProbe
<1>11. CASE LivenessProbe
  BY <1>11 DEF LivenessProbe
<1>12. CASE Delete
  BY <1>12 DEF Delete
<1>13. CASE Sigterm
  <2>1. CASE stage \in StartUp
    BY <1>13, <2>1, GoneKeeps DEF Sigterm
  <2>2. CASE stage = "wait"
    <3>1. /\ stage' = "rpc_drain" /\ rpc' \in {"off", "starting", "closed"}
          /\ stopping # "no" /\ clock = PreStop
          /\ UNCHANGED <<open, http, call, routed, env, stopping, clock>>
      BY <1>13, <2>2 DEF Sigterm
    <3>2. held' \in BOOLEAN /\ \A c \in Calls : call[c] = "rpc" => held'
      BY <1>13, <2>2 DEF Sigterm
    <3>3. \A c \in Calls : call[c] # "late"
      BY <2>2
    <3>4. QED
      BY <2>2, <3>1, <3>2, <3>3
  <2>3. QED
    BY <1>13, <2>1, <2>2 DEF Sigterm
<1>14. CASE RpcDrained
  BY <1>14 DEF RpcDrained
<1>15. CASE HttpDrained
  BY <1>15 DEF HttpDrained, HttpIdle
<1>16. CASE CloseLast
  BY <1>16 DEF CloseLast
<1>17. CASE Exit
  BY <1>17, GoneKeeps DEF Exit
<1>18. CASE Kill
  BY <1>18, GoneKeeps DEF Kill
<1>19. CASE Tick
  BY <1>19 DEF Tick, Waiting, HttpIdle
<1>20. CASE Restart
  BY <1>20 DEF Restart
<1>21. CASE Crash
  BY <1>21, GoneKeeps DEF Crash, Fault
<1>22. ASSUME NEW d \in Remote, Lose(d) PROVE IInv'
  BY <1>22 DEF Lose, Fault
<1>23. ASSUME NEW d \in Remote, Return(d) PROVE IInv'
  BY <1>23 DEF Return
<1>24. CASE UNCHANGED vars
  BY <1>24 DEF vars
<1>25. QED
  BY <1>1, <1>2, <1>3, <1>4, <1>5, <1>6, <1>7, <1>8, <1>9, <1>10, <1>11, <1>12, <1>13,
     <1>14, <1>15, <1>16, <1>17, <1>18, <1>19, <1>20, <1>21, <1>22, <1>23, <1>24
     DEF Next, Main

\* Every reachable state is well typed: a stage of main has what it needs open,
\* and the servers are there only while main is past its start-up.
THEOREM TypeCorrect == Spec => []TypeOK
<1>1. IInv => TypeOK
  BY DEF IInv
<1>2. QED
  BY <1>1, InvInit, InvNext, PTL DEF Spec

\* main closes the database under nobody, unless the drain's timeout has passed.
THEOREM NobodyLosesTheDatabase == Spec => []ServedByOpenDatabase
<1>1. IInv => ServedByOpenDatabase
  BY DEF IInv, TypeOK, CallsHaveTheirStage, ServedByOpenDatabase, Served, InFlight,
         Drain, Closing, Deps
<1>2. QED
  BY <1>1, InvInit, InvNext, PTL DEF Spec

\* Under a grace period that ends before that timeout, as the manifest's does,
\* nobody is ever served by a closed database.
THEOREM GraceIsShorter ==
  ASSUME Grace < PreStop + DrainTimeout
  PROVE  Spec => [](Served # {} => "database" \in open)
<1>1. IInv => (Served # {} => "database" \in open)
  <2>1. TypeOK => ~Expired
    BY TimeAssumption DEF TypeOK, Expired
  <2>2. QED
    BY <2>1 DEF IInv, TypeOK, CallsHaveTheirStage, Served, InFlight, Drain, Closing, Deps
<1>2. QED
  BY <1>1, InvInit, InvNext, PTL DEF Spec

\* Only a process that is held up is killed, and it cuts off nobody who came after
\* the signal unless gRPC calls of before the signal held it up.
THEOREM KillIsJustified == Spec => KilledOnlyIfHeldUp
<1>1. IInv /\ [Next]_vars =>
        [Kill => \/ Served # {} /\ (InFlight({"late"}) = {} \/ held)
                 \/ stage = "flush"]_vars
  <2> SUFFICES ASSUME IInv, Kill
               PROVE  \/ Served # {} /\ (InFlight({"late"}) = {} \/ held)
                      \/ stage = "flush"
    OBVIOUS
  <2>1. InFlight({"late"}) = {} \/ held
    BY DEF IInv, DelayHasItsReason, InFlight
  <2>2. Served # {} \/ stage = "flush"
    BY DEF Kill, Waiting, HttpIdle, Served, InFlight
  <2>3. QED
    BY <2>1, <2>2
<1>2. QED
  BY <1>1, InvInit, InvNext, PTL DEF Spec, KilledOnlyIfHeldUp
===============================================================================
