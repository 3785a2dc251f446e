--------------------------- MODULE TenantPlans_proofs ---------------------------
(***************************************************************************)
(* Proofs about a tenant's outlets and its row. First Outlets, for every   *)
(* finite set of outlets and requests and every limit: the type invariant, *)
(* how far the limit can be exceeded, what stays deleted and what stays    *)
(* live. Then TenantPlans, for every set of plans: it implements Outlets   *)
(* with the largest of their limits, and so keeps all this; and its own    *)
(* type invariant and action properties.                                   *)
(***************************************************************************)
EXTENDS TenantPlans, FiniteSetTheorems, TLAPS

USE DEF Statuses

\* A step that moves one request and shapes what it holds keeps the rows' part
\* of the invariant for the other requests.
LEMMA TypeCorrectStep ==
  ASSUME TypeOK, NEW h \in Handlers, Step(h)
  PROVE  TypeOK'
<1> USE NoneAssumption, MainAssumption DEF TypeOK, At, Finish, Hold, Idle, Request
<1>1. CASE Insert(h)
  <2>1. PICK o \in Ids \ {Main} :
          /\ status[o] = "none"
          /\ status' = [status EXCEPT ![o] = "live"]
          /\ code' = [code EXCEPT ![o] = req[h].code]
    BY <1>1 DEF Insert, Create
  <2>2. req[h].code \in Codes /\ req' = [req EXCEPT ![h] = Idle]
    BY <1>1 DEF Insert, Create
  <2>3. \A g \in Handlers : g # h => req'[g] = req[g]
    BY <2>2
  <2>4. /\ status' \in [Ids -> {"none", "live", "deleted"}]
        /\ code' \in [Ids -> Codes \cup {None}]
        /\ req' \in [Handlers -> Request]
        /\ \A p \in Ids : code'[p] = None <=> status'[p] = "none"
    BY <2>1, <2>2
  <2>5. \A g \in Handlers :
          /\ At(g, "save")' \/ At(g, "delete")' => req'[g].id \in Ids /\ status'[req'[g].id] # "none"
          /\ At(g, "delete")' => req'[g].id # Main
          /\ At(g, "save")' \/ At(g, "insert")' => req'[g].code \in Codes
    BY <2>1, <2>2, <2>3
  <2>6. QED BY <2>4, <2>5
<1>2. CASE Save(h)
  <2>1. req[h].id \in Ids /\ req[h].code \in Codes /\ status[req[h].id] # "none"
    BY <1>2 DEF Save, Update
  <2>2. QED BY <1>2, <2>1 DEF Save, Update
<1>3. CASE SoftDelete(h)
  BY <1>3 DEF SoftDelete, MarkDeleted
<1>4. CASE Fail(h)
  BY <1>4 DEF Fail
<1>5. CASE \E c \in Codes : CheckLimit(h, c)
  BY <1>5 DEF CheckLimit, UnderLimit
<1>6. CASE \E o \in Ids : DeleteRead(h, o)
  BY <1>6 DEF DeleteRead, FindByID, Live
<1>7. CASE \E o \in Ids, c \in Codes : UpdateRead(h, o, c)
  BY <1>7 DEF UpdateRead, FindByID, Live
<1>8. QED BY <1>1, <1>2, <1>3, <1>4, <1>5, <1>6, <1>7 DEF Step

LEMMA TypeCorrectInit == Init => TypeOK
<1> SUFFICES ASSUME Init PROVE TypeOK
  OBVIOUS
<1>1. PICK s \in {"live", "none"} : status = [o \in Ids |-> IF o = Main THEN s ELSE "none"]
  BY DEF Init
<1>2. PICK c \in Codes : code = [o \in Ids |-> IF status[o] = "live" THEN c ELSE None]
  BY DEF Init
<1>3. QED
  BY <1>1, <1>2, NoneAssumption DEF Init, TypeOK, Idle, Request, At

LEMMA TypeCorrectNext == TypeOK /\ [Next]_vars => TypeOK'
<1>1. ASSUME TypeOK, UNCHANGED vars PROVE TypeOK'
  BY <1>1 DEF TypeOK, vars, At
<1>2. QED BY <1>1, TypeCorrectStep DEF Next

\* The type invariant of the outlets table and of the requests that work on it.
THEOREM TypeCorrect == Spec => []TypeOK
BY TypeCorrectInit, TypeCorrectNext, PTL DEF Spec

-------------------------------------------------------------------------------
(* The plan's limit.                                                       *)

Savers == {h \in Handlers : At(h, "save")}

LEMMA Finite ==
  /\ \A S \in SUBSET Ids : IsFiniteSet(S) /\ Cardinality(S) \in Nat
  /\ \A S \in SUBSET Handlers : IsFiniteSet(S) /\ Cardinality(S) \in Nat
BY FiniteAssumption, FS_Subset, FS_CardinalityType

\* Smaller sets are smaller, and losing or gaining one element is minus or plus
\* one: the counting facts of the steps below.
LEMMA Counting ==
  /\ \A S, R \in SUBSET Ids : S \subseteq R => Cardinality(S) <= Cardinality(R)
  /\ \A S, R \in SUBSET Handlers : S \subseteq R => Cardinality(S) <= Cardinality(R)
  /\ \A S \in SUBSET Ids : \A o \in Ids :
       /\ o \notin S => Cardinality(S \cup {o}) = Cardinality(S) + 1
       /\ o \in S => Cardinality(S \ {o}) = Cardinality(S) - 1
  /\ \A S \in SUBSET Handlers : \A h \in Handlers :
       /\ h \notin S => Cardinality(S \cup {h}) = Cardinality(S) + 1
       /\ h \in S => Cardinality(S \ {h}) = Cardinality(S) - 1
<1>1. \A S, R \in SUBSET Ids : S \subseteq R => Cardinality(S) <= Cardinality(R)
  BY Finite, FS_Subset
<1>2. \A S, R \in SUBSET Handlers : S \subseteq R => Cardinality(S) <= Cardinality(R)
  BY Finite, FS_Subset
<1>3. \A S \in SUBSET Ids : \A o \in Ids :
        /\ o \notin S => Cardinality(S \cup {o}) = Cardinality(S) + 1
        /\ o \in S => Cardinality(S \ {o}) = Cardinality(S) - 1
  BY Finite, FS_AddElement, FS_RemoveElement
<1>4. \A S \in SUBSET Handlers : \A h \in Handlers :
        /\ h \notin S => Cardinality(S \cup {h}) = Cardinality(S) + 1
        /\ h \in S => Cardinality(S \ {h}) = Cardinality(S) - 1
  BY Finite, FS_AddElement, FS_RemoveElement
<1>5. QED BY <1>1, <1>2, <1>3, <1>4

\* Rows that can be revived are held by different requests.
LEMMA RevivableBound == Cardinality(Revivable) <= Cardinality(Savers)
<1> DEFINE Held == {h \in Savers : req[h].id \in Revivable}
           f == [h \in Held |-> req[h].id]
<1>1. f \in Surjection(Held, Revivable)
  BY DEF Surjection, Revivable, Updating, Savers
<1>2. Held \in SUBSET Handlers /\ Savers \in SUBSET Handlers /\ Held \subseteq Savers
  BY DEF Savers
<1>3. IsFiniteSet(Held) /\ Cardinality(Held) <= Cardinality(Savers)
  BY <1>2, Finite, Counting
<1>4. Cardinality(Revivable) <= Cardinality(Held)
  BY <1>1, <1>3, FS_Surjection
<1>5. Revivable \in SUBSET Ids
  BY DEF Revivable
<1>6. /\ Cardinality(Held) \in Nat /\ Cardinality(Savers) \in Nat
      /\ Cardinality(Revivable) \in Nat
  BY <1>2, <1>5, Finite
<1>7. QED BY <1>3, <1>4, <1>6

\* While one request is idle, the others can add at most one outlet each.
LEMMA IdleLeavesRoom ==
  ASSUME NEW h \in Handlers, At(h, "idle")
  PROVE  Cardinality(Inserting) + Cardinality(Revivable) <= Cardinality(Handlers) - 1
<1>1. /\ Inserting \in SUBSET Handlers /\ Savers \in SUBSET Handlers
      /\ Inserting \cap Savers = {} /\ Inserting \cup Savers \subseteq Handlers \ {h}
      /\ Handlers \ {h} \in SUBSET Handlers /\ Inserting \cup Savers \in SUBSET Handlers
      /\ Revivable \in SUBSET Ids
  BY DEF Inserting, Savers, At, Revivable
<1>2. IsFiniteSet(Inserting) /\ IsFiniteSet(Savers)
  BY <1>1, Finite
<1>3. Cardinality(Inserting \cup Savers)
        = Cardinality(Inserting) + Cardinality(Savers) - Cardinality({})
  BY <1>1, <1>2, FS_Union
<1>4. Cardinality(Inserting \cup Savers) <= Cardinality(Handlers \ {h})
  BY <1>1, Counting
<1>5. Handlers \in SUBSET Handlers
  OBVIOUS
<1>6. Cardinality(Handlers \ {h}) = Cardinality(Handlers) - 1
  BY <1>5, Counting
<1>7. /\ Cardinality(Inserting) \in Nat /\ Cardinality(Savers) \in Nat
      /\ Cardinality(Handlers) \in Nat /\ Cardinality(Revivable) \in Nat
  BY <1>1, <1>5, Finite
<1>8. Cardinality({}) = 0
  BY FS_EmptySet
<1>9. QED BY <1>3, <1>4, <1>6, <1>7, <1>8, RevivableBound

LEMMA LimitStep ==
  ASSUME TypeOK, TypeOK', LimitOverrun, NEW h \in Handlers, Step(h)
  PROVE  LimitOverrun'
<1> DEFINE L == Cardinality(Live)   I == Cardinality(Inserting)   R == Cardinality(Revivable)
           Bound == MaxOutlets - 1 + Cardinality(Handlers)
<1> SUFFICES Cardinality(Live') + Cardinality(Inserting') + Cardinality(Revivable') <= Bound
  BY DEF LimitOverrun
<1>1. /\ Live \in SUBSET Ids /\ Live' \in SUBSET Ids
      /\ Revivable \in SUBSET Ids /\ Revivable' \in SUBSET Ids
      /\ Inserting \in SUBSET Handlers /\ Inserting' \in SUBSET Handlers
  BY DEF Live, Revivable, Inserting
<1>2. /\ L \in Nat /\ I \in Nat /\ R \in Nat
      /\ Cardinality(Live') \in Nat /\ Cardinality(Inserting') \in Nat
      /\ Cardinality(Revivable') \in Nat
      /\ Cardinality(Handlers) \in Nat /\ MaxOutlets \in Nat /\ Bound \in Int
  BY <1>1, Finite, LimitAssumption
<1>3. L + I + R <= Bound
  BY DEF LimitOverrun
<1>4. CASE Insert(h)
  <2>1. PICK o \in Ids : /\ status[o] = "none"
                         /\ status' = [status EXCEPT ![o] = "live"]
                         /\ req' = [req EXCEPT ![h] = Idle] /\ At(h, "insert")
    BY <1>4 DEF Insert, Create, Finish
  <2>2. Live' = Live \cup {o} /\ o \notin Live
    BY <2>1 DEF Live, TypeOK
  <2>3. Inserting' = Inserting \ {h} /\ h \in Inserting
    BY <2>1 DEF Inserting, At, Idle, TypeOK
  <2>4. Revivable' \subseteq Revivable
    BY <2>1 DEF Revivable, Updating, At, Idle, TypeOK
  <2>5. /\ Cardinality(Live') = L + 1 /\ Cardinality(Inserting') = I - 1
        /\ Cardinality(Revivable') <= R
    BY <1>1, <2>1, <2>2, <2>3, <2>4, Counting
  <2>6. QED BY <1>2, <1>3, <2>5
<1>5. CASE Save(h)
  <2> DEFINE o == req[h].id
  <2>1. /\ o \in Ids /\ status[o] \in {"live", "deleted"}
        /\ status' = [status EXCEPT ![o] = "live"]
        /\ req' = [req EXCEPT ![h] = Idle] /\ At(h, "save")
    BY <1>5 DEF Save, Update, Finish, TypeOK
  <2>2. Live' = Live \cup {o}
    BY <2>1 DEF Live, TypeOK
  <2>3. Inserting' = Inserting
    BY <2>1 DEF Inserting, At, Idle, TypeOK
  <2>4. Revivable' \subseteq Revivable \ {o}
    BY <2>1 DEF Revivable, Updating, At, Idle, TypeOK
  <2>5. CASE status[o] = "live"
    <3>1. Live' = Live /\ Revivable' \subseteq Revivable
      BY <2>1, <2>2, <2>4, <2>5 DEF Live
    <3>2. Cardinality(Revivable') <= R
      BY <1>1, <3>1, Counting
    <3>3. QED BY <1>2, <1>3, <2>3, <3>1, <3>2
  <2>6. CASE status[o] = "deleted"
    <3>1. o \notin Live /\ o \in Revivable
      BY <2>1, <2>6 DEF Live, Revivable, Updating
    <3>2. Cardinality(Live') = L + 1
      BY <1>1, <2>1, <2>2, <3>1, Counting
    <3>3. Revivable \ {o} \in SUBSET Ids /\ Cardinality(Revivable \ {o}) = R - 1
      BY <1>1, <2>1, <3>1, Counting
    <3>4. Cardinality(Revivable') <= R - 1
      BY <1>1, <2>4, <3>3, Counting
    <3>5. QED BY <1>2, <1>3, <2>3, <3>2, <3>4
  <2>7. QED BY <2>1, <2>5, <2>6
<1>6. CASE SoftDelete(h)
  <2> DEFINE o == req[h].id
  <2>1. /\ o \in Ids /\ status[o] \in {"live", "deleted"}
        /\ status' = [status EXCEPT ![o] = "deleted"]
        /\ req' = [req EXCEPT ![h] = Idle] /\ At(h, "delete")
    BY <1>6 DEF SoftDelete, MarkDeleted, Finish, TypeOK
  <2>2. Live' = Live \ {o}
    BY <2>1 DEF Live, TypeOK
  <2>3. Inserting' = Inserting
    BY <2>1 DEF Inserting, At, Idle, TypeOK
  <2>4. Revivable' \subseteq Revivable \cup {o}
    BY <2>1 DEF Revivable, Updating, At, Idle, TypeOK
  <2>5. CASE status[o] = "live"
    <3>1. o \in Live /\ o \notin Revivable
      BY <2>1, <2>5 DEF Live, Revivable
    <3>2. Cardinality(Live') = L - 1
      BY <1>1, <2>1, <2>2, <3>1, Counting
    <3>3. Revivable \cup {o} \in SUBSET Ids /\ Cardinality(Revivable \cup {o}) = R + 1
      BY <1>1, <2>1, <3>1, Counting
    <3>4. Cardinality(Revivable') <= R + 1
      BY <1>1, <2>4, <3>3, Counting
    <3>5. QED BY <1>2, <1>3, <2>3, <3>2, <3>4
  <2>6. CASE status[o] = "deleted"
    <3>1. status' = status
      BY <2>1, <2>6 DEF TypeOK
    <3>2. Live' = Live
      BY <3>1 DEF Live
    <3>3. Revivable' \subseteq Revivable
      BY <2>1, <3>1 DEF Revivable, Updating, At, Idle, TypeOK
    <3>4. Cardinality(Revivable') <= R
      BY <1>1, <3>3, Counting
    <3>5. QED BY <1>2, <1>3, <2>3, <3>2, <3>4
  <2>7. QED BY <2>1, <2>5, <2>6
<1>7. CASE Fail(h)
  <2>1. Live' = Live
    BY <1>7 DEF Fail, Live
  <2>2. Inserting' \subseteq Inserting /\ Revivable' \subseteq Revivable
    BY <1>7 DEF Fail, Inserting, Revivable, Updating, At, Finish, Idle, TypeOK
  <2>3. Cardinality(Inserting') <= I /\ Cardinality(Revivable') <= R
    BY <1>1, <2>2, Counting
  <2>4. QED BY <1>2, <1>3, <2>1, <2>3
<1>8. CASE \E c \in Codes : CheckLimit(h, c)
  <2>1. PICK c \in Codes : CheckLimit(h, c)
    BY <1>8
  <2>2. L < MaxOutlets /\ At(h, "idle")
    BY <2>1 DEF CheckLimit, UnderLimit
  <2>3. Live' = Live
    BY <2>1 DEF CheckLimit, UnderLimit, Live
  <2>4. Inserting' = Inserting \cup {h} /\ h \notin Inserting
    BY <2>1 DEF CheckLimit, UnderLimit, Inserting, At, Hold, TypeOK
  <2>5. Revivable' \subseteq Revivable
    BY <2>1 DEF CheckLimit, UnderLimit, Revivable, Updating, At, Hold, TypeOK
  <2>6. Cardinality(Inserting') = I + 1 /\ Cardinality(Revivable') <= R
    BY <1>1, <2>4, <2>5, Counting
  <2>7. I + R <= Cardinality(Handlers) - 1
    BY <2>2, IdleLeavesRoom
  <2>8. QED BY <1>2, <2>2, <2>3, <2>6, <2>7
<1>9. CASE \E o \in Ids : DeleteRead(h, o)
  <2>1. PICK o \in Ids : DeleteRead(h, o)
    BY <1>9
  <2>2. Live' = Live
    BY <2>1 DEF DeleteRead, FindByID, Live
  <2>3. Inserting' \subseteq Inserting /\ Revivable' \subseteq Revivable
    BY <2>1 DEF DeleteRead, FindByID, Live, Inserting, Revivable, Updating, At, Hold, TypeOK
  <2>4. Cardinality(Inserting') <= I /\ Cardinality(Revivable') <= R
    BY <1>1, <2>3, Counting
  <2>5. QED BY <1>2, <1>3, <2>2, <2>4
<1>10. CASE \E o \in Ids, c \in Codes : UpdateRead(h, o, c)
  <2>1. PICK o \in Ids, c \in Codes : UpdateRead(h, o, c)
    BY <1>10
  <2>2. Live' = Live
    BY <2>1 DEF UpdateRead, FindByID, Live
  <2>3. Inserting' \subseteq Inserting /\ Revivable' \subseteq Revivable
    BY <2>1 DEF UpdateRead, FindByID, Live, Inserting, Revivable, Updating, At, Hold, TypeOK
  <2>4. Cardinality(Inserting') <= I /\ Cardinality(Revivable') <= R
    BY <1>1, <2>3, Counting
  <2>5. QED BY <1>2, <1>3, <2>2, <2>4
<1>11. QED BY <1>4, <1>5, <1>6, <1>7, <1>8, <1>9, <1>10 DEF Step

\* The outlets of a tenant exceed its plan's limit by less than the number of
\* requests that run at the same time.
THEOREM OverrunIsBounded == Spec => []LimitOverrun
<1>1. Init => LimitOverrun
  <2> SUFFICES ASSUME Init PROVE LimitOverrun
    OBVIOUS
  <2>1. Live \subseteq {Main} /\ Inserting = {} /\ Revivable = {}
    BY DEF Init, Live, Inserting, Revivable, Updating, At, Idle
  <2>2. Cardinality(Live) <= 1 /\ Cardinality(Live) \in Nat
    <3>1. Live \in SUBSET Ids /\ {Main} \in SUBSET Ids
      BY MainAssumption DEF Live
    <3>2. Cardinality({Main}) = 1
      BY FS_Singleton
    <3>3. QED BY <2>1, <3>1, <3>2, Finite, Counting
  <2>3. Cardinality(Inserting) = 0 /\ Cardinality(Revivable) = 0
    BY <2>1, FS_EmptySet
  <2>4. Cardinality(Handlers) \in Nat /\ Cardinality(Handlers) # 0
    BY FiniteAssumption, FS_CardinalityType, FS_EmptySet
  <2>5. QED BY <2>2, <2>3, <2>4, LimitAssumption DEF LimitOverrun
<1>2. TypeOK /\ TypeOK' /\ LimitOverrun /\ [Next]_vars => LimitOverrun'
  <2>1. ASSUME LimitOverrun, UNCHANGED vars PROVE LimitOverrun'
    <3>1. Live' = Live /\ Inserting' = Inserting /\ Revivable' = Revivable
      BY <2>1 DEF vars, Live, Inserting, Revivable, Updating, At
    <3>2. QED BY <2>1, <3>1 DEF LimitOverrun
  <2>2. QED BY <2>1, LimitStep DEF Next
<1>3. QED BY <1>1, <1>2, TypeCorrect, PTL DEF Spec

-------------------------------------------------------------------------------
(* What stays deleted and what stays live.                                 *)

\* A deleted outlet is revived only by an update that read it before.
THEOREM GoneIsFinal == Spec => GoneStaysGone
<1>1. TypeOK /\ [Next]_vars => [\A o \in Ids : Gone(o) => Gone(o)']_vars
  <2>1. ASSUME TypeOK, NEW h \in Handlers, Step(h), NEW o \in Ids, Gone(o)
        PROVE  Gone(o)'
    <3> USE <2>1 DEF TypeOK, Gone, Updating, At, Finish, Hold, Idle
    <3>1. CASE Insert(h)
      BY <3>1 DEF Insert, Create
    <3>2. CASE Save(h)
      BY <3>2 DEF Save, Update
    <3>3. CASE SoftDelete(h)
      BY <3>3 DEF SoftDelete, MarkDeleted
    <3>4. CASE Fail(h)
      BY <3>4 DEF Fail
    <3>5. CASE \E c \in Codes : CheckLimit(h, c)
      BY <3>5 DEF CheckLimit, UnderLimit
    <3>6. CASE \E p \in Ids : DeleteRead(h, p)
      BY <3>6 DEF DeleteRead, FindByID, Live
    <3>7. CASE \E p \in Ids, c \in Codes : UpdateRead(h, p, c)
      BY <3>7 DEF UpdateRead, FindByID, Live
    <3>8. QED BY <3>1, <3>2, <3>3, <3>4, <3>5, <3>6, <3>7 DEF Step
  <2>2. QED BY <2>1 DEF Next
<1>2. QED BY <1>1, TypeCorrect, PTL DEF Spec, GoneStaysGone

\* No interleaving deletes the main outlet.
THEOREM MainIsSafe == Spec => MainStays
<1>1. TypeOK /\ [Next]_vars => [status[Main] = "live" => status'[Main] = "live"]_vars
  <2>1. ASSUME TypeOK, NEW h \in Handlers, Step(h), status[Main] = "live"
        PROVE  status'[Main] = "live"
    BY <2>1, MainAssumption
    DEF TypeOK, Step, Insert, Create, Save, Update, SoftDelete, MarkDeleted, Fail,
        CheckLimit, DeleteRead, UpdateRead, At
  <2>2. QED BY <2>1 DEF Next
<1>2. QED BY <1>1, TypeCorrect, PTL DEF Spec, MainStays

-------------------------------------------------------------------------------
(* The row of the tenant, and its plan.                                    *)


\* A step of TenantPlans is one of Outlets, or leaves the outlets alone: a limit that
\* was read some time ago is still that of some plan.
LEMMA StepImplements ==
  ASSUME PlanTypeOK, [PlanNext]_planVars
  PROVE  [Next]_vars
<1> USE DEF vars
<1>1. CASE UNCHANGED planVars
  BY <1>1 DEF planVars
<1>2. CASE ChangePlan
  BY <1>2 DEF ChangePlan
<1>3. ASSUME NEW h \in Handlers, OutletStep(h) PROVE Next
  BY <1>3 DEF OutletStep, Next, Step
<1>4. ASSUME NEW h \in Handlers, CheckPlan(h) PROVE Next
  <2>1. work[h].row.plan \in Plans /\ work[h].sent \in Codes /\ At(h, "idle")
    BY <1>4 DEF CheckPlan, PlanTypeOK, Doing, Row
  <2>2. Limit[work[h].row.plan] \in 1..MaxOutlets
    BY <2>1, PlanAssumption
  <2>3. Cardinality(Live) \in Nat
    BY Finite DEF Live
  <2>4. Cardinality(Live) < MaxOutlets
    BY <1>4, <2>2, <2>3, LimitAssumption DEF CheckPlan
  <2>5. CheckLimit(h, work[h].sent)
    BY <1>4, <2>1, <2>4 DEF CheckPlan, CheckLimit, UnderLimit
  <2>6. QED BY <2>1, <2>5 DEF Next, Step
<1>5. ASSUME NEW h \in Handlers, UpdateTenantSave(h) \/ GiveUp(h) PROVE UNCHANGED vars
  BY <1>5 DEF UpdateTenantSave, GiveUp
<1>6. ASSUME NEW h \in Handlers, NEW c \in Codes, CreateRead(h, c) PROVE UNCHANGED vars
  BY <1>6 DEF CreateRead
<1>7. ASSUME NEW h \in Handlers, NEW n \in Names \cup {None}, UpdateTenantRead(h, n)
      PROVE  UNCHANGED vars
  BY <1>7 DEF UpdateTenantRead
<1>8. QED
  BY <1>1, <1>2, <1>3, <1>4, <1>5, <1>6, <1>7 DEF PlanNext, PlanStep

\* Every request keeps to its own part of the type invariant.
LEMMA PlanTypeStep ==
  ASSUME PlanTypeOK, TypeOK', [PlanNext]_planVars
  PROVE  PlanTypeOK'
<1> USE PlanAssumption, NoneAssumption DEF PlanTypeOK, Row, Work, Doing, Put, NoWork, At
<1>1. CASE UNCHANGED planVars
  BY <1>1 DEF planVars
<1>2. CASE ChangePlan
  BY <1>2 DEF ChangePlan
<1>3. ASSUME NEW h \in Handlers, OutletStep(h) PROVE PlanTypeOK'
  <2>1. \A g \in Handlers : g # h => req'[g] = req[g]
    BY <1>3 DEF OutletStep, Insert, Save, SoftDelete, Fail, DeleteRead, UpdateRead,
                Finish, Hold, TypeOK
  <2>2. tenant' = tenant /\ work' = work /\ work[h].pc = "none"
    BY <1>3 DEF OutletStep
  <2>3. QED BY <2>1, <2>2
<1>4. ASSUME NEW h \in Handlers, CheckPlan(h) PROVE PlanTypeOK'
  BY <1>4 DEF CheckPlan, Hold, TypeOK
<1>5. ASSUME NEW h \in Handlers, UpdateTenantSave(h) \/ GiveUp(h) PROVE PlanTypeOK'
  BY <1>5 DEF UpdateTenantSave, GiveUp
<1>6. ASSUME NEW h \in Handlers, NEW c \in Codes, CreateRead(h, c) PROVE PlanTypeOK'
  BY <1>6 DEF CreateRead, FindTenant
<1>7. ASSUME NEW h \in Handlers, NEW n \in Names \cup {None}, UpdateTenantRead(h, n)
      PROVE  PlanTypeOK'
  <2>1. Patched(n) \in Row
    BY DEF Patched, FindTenant
  <2>2. QED BY <1>7, <2>1 DEF UpdateTenantRead
<1>8. QED
  BY <1>1, <1>2, <1>3, <1>4, <1>5, <1>6, <1>7 DEF PlanNext, PlanStep

LEMMA PlanInitTypeOK == PlanInit => PlanTypeOK
<1> SUFFICES ASSUME PlanInit PROVE PlanTypeOK
  OBVIOUS
<1>1. TypeOK
  BY TypeCorrectInit DEF PlanInit
<1>2. QED
  BY <1>1, PlanAssumption DEF PlanInit, PlanTypeOK, Row, Work, Doing, NoWork

\* The type invariant of the tenant, its outlets and the requests.
THEOREM PlanTypeCorrect == PlanSpec => []PlanTypeOK
<1>1. PlanTypeOK /\ [PlanNext]_planVars => PlanTypeOK'
  BY TypeCorrectNext, StepImplements, PlanTypeStep DEF PlanTypeOK
<1>2. QED BY PlanInitTypeOK, <1>1, PTL DEF PlanSpec

\* However plans change, the tenant's outlets are those of Outlets with the limit
\* of the largest plan.
THEOREM ImplementsOutlets == PlanSpec => Spec
<1>1. PlanInit => Init
  BY DEF PlanInit
<1>2. QED BY <1>1, StepImplements, PlanTypeCorrect, PTL DEF PlanSpec, Spec

\* So no interleaving of requests and changes of plan exceeds the largest plan by
\* the number of requests.
THEOREM PlanOverrunIsBounded == PlanSpec => []LimitOverrun
BY ImplementsOutlets, OverrunIsBounded, PTL

\* And a deleted outlet is revived only by an update that read it before.
THEOREM PlanGoneIsFinal == PlanSpec => GoneStaysGone
BY ImplementsOutlets, GoneIsFinal, PTL

-------------------------------------------------------------------------------
(* What a step keeps of the tenant.                                        *)

\* Steps that leave the rows of the outlets alone and insert or save none.
LEMMA FullRest ==
  ASSUME PlanTypeOK, Full, UNCHANGED <<status, tenant>>,
         Inserting' \subseteq Inserting, \A o \in Ids : Updating(o)' => Updating(o) \/ o \in Live,
         \A g \in Handlers : Doing(g, "count")' =>
            (Doing(g, "count") /\ work'[g] = work[g]) \/ work'[g].row = tenant
  PROVE  Live' = Live /\ Full'
<1>1. Live' = Live
  BY DEF Live
<1>2. Inserting' = {} /\ Revivable' = {}
  BY DEF Full, Revivable, Live
<1>3. QED BY <1>1, <1>2 DEF Full, Doing

LEMMA FullStep ==
  ASSUME PlanTypeOK, NEW h \in Handlers, PlanStep(h), Full, tenant'.plan = tenant.plan
  PROVE  Live' \subseteq Live /\ (Live' = Live => Full')
<1> USE DEF PlanTypeOK, TypeOK, At, Doing
<1>1. ~At(h, "insert") /\ \A o \in Ids : Updating(o) => status[o] = "live"
  <2>1. Inserting = {} /\ Revivable = {}
    BY DEF Full
  <2>2. ASSUME NEW o \in Ids, Updating(o) PROVE status[o] = "live"
    BY <2>1, <2>2 DEF Revivable, Updating, Statuses
  <2>3. QED BY <2>1, <2>2 DEF Inserting
<1>2. CASE OutletStep(h)
  <2>1. tenant' = tenant /\ work' = work
    BY <1>2 DEF OutletStep
  <2>2. CASE Insert(h)
    BY <1>1, <2>2 DEF Insert
  <2>3. CASE Save(h)
    <3>1. req[h].id \in Ids /\ status[req[h].id] = "live"
      BY <1>1, <2>3 DEF Save, Updating
    <3>2. status' = status
      BY <2>3, <3>1 DEF Save, Update
    <3>3. Inserting' \subseteq Inserting /\ \A o \in Ids : Updating(o)' => Updating(o)
      BY <2>3 DEF Save, Finish, Idle, Inserting, Updating
    <3>4. QED BY <2>1, <3>2, <3>3, FullRest
  <2>4. CASE SoftDelete(h)
    <3>1. Live' \subseteq Live
      BY <2>4 DEF SoftDelete, MarkDeleted, Live
    <3>2. ASSUME Live' = Live PROVE Full'
      <4>1. status' = status
        BY <2>4, <3>2 DEF SoftDelete, MarkDeleted, Live, Statuses
      <4>2. Inserting' \subseteq Inserting /\ \A o \in Ids : Updating(o)' => Updating(o)
        BY <2>4 DEF SoftDelete, Finish, Idle, Inserting, Updating
      <4>3. QED BY <2>1, <4>1, <4>2, FullRest
    <3>3. QED BY <3>1, <3>2
  <2>5. CASE Fail(h)
    <3>1. Inserting' \subseteq Inserting /\ \A o \in Ids : Updating(o)' => Updating(o)
      BY <2>5 DEF Fail, Finish, Idle, Inserting, Updating
    <3>2. QED BY <2>1, <2>5, <3>1, FullRest DEF Fail
  <2>6. CASE \E o \in Ids : DeleteRead(h, o)
    <3>1. Inserting' \subseteq Inserting /\ \A o \in Ids : Updating(o)' => Updating(o)
      BY <2>6 DEF DeleteRead, Hold, Inserting, Updating
    <3>2. QED BY <2>1, <2>6, <3>1, FullRest DEF DeleteRead
  <2>7. CASE \E o \in Ids, c \in Codes : UpdateRead(h, o, c)
    <3>1. /\ Inserting' \subseteq Inserting
          /\ \A o \in Ids : Updating(o)' => Updating(o) \/ o \in Live
      BY <2>7 DEF UpdateRead, FindByID, Hold, Inserting, Updating
    <3>2. QED BY <2>1, <2>7, <3>1, FullRest DEF UpdateRead
  <2>8. QED BY <1>2, <2>2, <2>3, <2>4, <2>5, <2>6, <2>7 DEF OutletStep
<1>3. CASE CheckPlan(h)
  <2>1. Limit[work[h].row.plan] <= Cardinality(Live) /\ Cardinality(Live) < Limit[work[h].row.plan]
    BY <1>3 DEF CheckPlan, Full
  <2>2. Cardinality(Live) \in Nat /\ Limit[work[h].row.plan] \in Nat
    <3>1. work[h].row.plan \in Plans
      BY <1>3 DEF CheckPlan, Row
    <3>2. QED BY <3>1, Finite, PlanAssumption DEF Live
  <2>3. QED BY <2>1, <2>2
<1>4. CASE UpdateTenantSave(h)
  <2>1. /\ UNCHANGED <<status, req>> /\ tenant'.plan = tenant.plan
        /\ \A g \in Handlers : work'[g] = IF g = h THEN NoWork ELSE work[g]
    BY <1>4 DEF UpdateTenantSave, Put
  <2>2. Live' = Live /\ Inserting' = Inserting /\ Revivable' = Revivable
    BY <2>1 DEF Live, Inserting, Revivable, Updating
  <2>3. \A g \in Handlers : Doing(g, "count")' => Doing(g, "count") /\ work'[g] = work[g]
    BY <2>1 DEF NoWork
  <2>4. QED BY <2>1, <2>2, <2>3 DEF Full
<1>5. CASE GiveUp(h)
  <2>1. \A g \in Handlers : Doing(g, "count")' => Doing(g, "count") /\ work'[g] = work[g]
    BY <1>5 DEF GiveUp, Put, NoWork
  <2>2. QED BY <1>5, <2>1, FullRest DEF GiveUp, Inserting, Updating
<1>6. CASE \E c \in Codes : CreateRead(h, c)
  <2>1. \A g \in Handlers : work'[g] = work[g] \/ work'[g].row = tenant
    BY <1>6 DEF CreateRead, Put, FindTenant
  <2>2. QED BY <1>6, <2>1, FullRest DEF CreateRead, Inserting, Updating
<1>7. CASE \E n \in Names \cup {None} : UpdateTenantRead(h, n)
  <2>1. \A g \in Handlers : Doing(g, "count")' => Doing(g, "count") /\ work'[g] = work[g]
    BY <1>7 DEF UpdateTenantRead, Put
  <2>2. QED BY <1>7, <2>1, FullRest DEF UpdateTenantRead, Inserting, Updating
<1>8. QED BY <1>2, <1>3, <1>4, <1>5, <1>6, <1>7 DEF PlanStep

\* A tenant at its limit gets no outlet more, for all plans and limits.
THEOREM FullIsFull == PlanSpec => FullStaysFull
<1>1. PlanTypeOK /\ [PlanNext]_planVars =>
        [Full /\ tenant'.plan = tenant.plan =>
           Live' \subseteq Live /\ (Live' = Live => Full')]_planVars
  <2>1. CASE ChangePlan
    BY <2>1, PlanAssumption DEF ChangePlan, PlanTypeOK, Row
  <2>2. CASE UNCHANGED planVars
    BY <2>2
  <2>3. ASSUME PlanTypeOK, NEW h \in Handlers, PlanStep(h)
        PROVE  [Full /\ tenant'.plan = tenant.plan =>
                  Live' \subseteq Live /\ (Live' = Live => Full')]_planVars
    BY <2>3, FullStep
  <2>4. QED BY <2>1, <2>2, <2>3 DEF PlanNext
<1>2. QED BY <1>1, PlanTypeCorrect, PTL DEF PlanSpec, FullStaysFull

\* A column is changed only by who was asked to, or by an update that read it before:
\* every copy taken from now on holds it as it is.
THEOREM UntouchedStays == PlanSpec => UntouchedIsKept
<1> DEFINE
  Plan == Agreed("plan") /\ ~ChangePlan =>
            tenant'.plan = tenant.plan /\ Agreed("plan")'
  Name == Agreed("name") /\ ~(\E h \in Handlers, n \in Names : UpdateTenantRead(h, n)) =>
            tenant'.name = tenant.name /\ Agreed("name")'
<1> USE DEF Agreed, Doing
<1>1. PlanTypeOK /\ [PlanNext]_planVars => [Plan /\ Name]_planVars
  <2>1. CASE UNCHANGED planVars
    BY <2>1
  <2>2. CASE ChangePlan
    <3>1. tenant'.name = tenant.name /\ work' = work
      BY <2>2 DEF ChangePlan
    <3>2. QED BY <2>2, <3>1
  <2>3. ASSUME PlanTypeOK, NEW h \in Handlers, PlanStep(h) PROVE Plan /\ Name
    <3> USE <2>3 DEF PlanTypeOK
    <3>1. CASE OutletStep(h)
      BY <3>1 DEF OutletStep
    <3>2. CASE CheckPlan(h) \/ GiveUp(h) \/ \E c \in Codes : CreateRead(h, c)
      <4>1. /\ tenant' = tenant
            /\ \A g \in Handlers : Doing(g, "save")' => work'[g] = work[g]
        BY <3>2 DEF CheckPlan, GiveUp, CreateRead, Put, NoWork
      <4>2. QED BY <4>1
    <3>3. CASE UpdateTenantSave(h)
      <4>1. tenant' = work[h].row /\ Doing(h, "save")
        BY <3>3 DEF UpdateTenantSave
      <4>2. \A g \in Handlers : Doing(g, "save")' => work'[g] = work[g]
        BY <3>3 DEF UpdateTenantSave, Put, NoWork
      <4>3. QED BY <4>1, <4>2
    <3>4. ASSUME NEW n \in Names \cup {None}, UpdateTenantRead(h, n) PROVE Plan /\ Name
      <4>1. /\ tenant' = tenant
            /\ \A g \in Handlers : work'[g] = work[g] \/ work'[g].row = Patched(n)
        BY <3>4 DEF UpdateTenantRead, Put
      <4>2. Patched(n).plan = tenant.plan
        BY DEF Patched, FindTenant, Row
      <4>3. n = None => Patched(n).name = tenant.name
        BY DEF Patched, FindTenant
      <4>4. Plan
        BY <4>1, <4>2
      <4>5. CASE n = None
        BY <4>1, <4>3, <4>4, <4>5
      <4>6. CASE n # None
        BY <3>4, <4>4, <4>6
      <4>7. QED BY <4>5, <4>6
    <3>5. QED BY <2>3, <3>1, <3>2, <3>3, <3>4 DEF PlanStep
  <2>4. QED BY <2>1, <2>2, <2>3 DEF PlanNext
<1>2. QED BY <1>1, PlanTypeCorrect, PTL DEF PlanSpec, UntouchedIsKept
===============================================================================
