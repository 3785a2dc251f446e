-------------------------------- MODULE Outlets --------------------------------
(***************************************************************************)
(* The outlets of one tenant: CreateOutlet, UpdateOutlet and DeleteOutlet  *)
(* of tenant_usecase.go over the table outlets of the tenant's schema.     *)
(*                                                                         *)
(* CreateOutlet compares a count with the plan's limit and inserts in a    *)
(* second statement; UpdateOutlet reads a row and saves all its columns,   *)
(* deleted_at included; DeleteOutlet reads and marks. A statement is one   *)
(* action.                                                                 *)
(***************************************************************************)
EXTENDS Naturals, FiniteSets

CONSTANTS
  Ids, Main,        \* rows of outlets; Main is the one CreateTenant inserts
  Codes,            \* outlets.code
  Handlers,         \* requests that can be in flight at the same time
  MaxOutlets,       \* PlanLimits[plan].MaxOutlets
  None

ASSUME MainAssumption == Main \in Ids
ASSUME NoneAssumption == None \notin Ids \cup Codes
ASSUME LimitAssumption == MaxOutlets \in Nat \ {0}
ASSUME FiniteAssumption == IsFiniteSet(Ids) /\ IsFiniteSet(Handlers) /\ Handlers # {}

VARIABLES
  status,           \* no row, deleted_at IS NULL, deleted_at set
  code,             \* outlets.code; None while there is no row
  req

vars == <<status, code, req>>

-------------------------------------------------------------------------------

\* A row: there is none, deleted_at IS NULL, or deleted_at is set.
Statuses == {"none", "live", "deleted"}

Live == {o \in Ids : status[o] = "live"}             \* CountByTenantID
FindByID(o) == o \in Live

\* The constraint <schema>_outlets_code_unique covers deleted rows too.
CodeFree(c, o) == \A p \in Ids \ {o} : code[p] # c

\* outletRepo.Create, which the unique code may refuse.
Create(o, c) ==
  /\ status[o] = "none" /\ CodeFree(c, o)
  /\ status' = [status EXCEPT ![o] = "live"]
  /\ code' = [code EXCEPT ![o] = c]

\* outletRepo.Update: Save writes every column of the copy, whose deleted_at is
\* NULL, and may be refused like Create.
Update(o, c) ==
  /\ CodeFree(c, o)
  /\ status' = [status EXCEPT ![o] = "live"]
  /\ code' = [code EXCEPT ![o] = c]

\* outletRepo.SoftDelete, by id.
MarkDeleted(o) == status' = [status EXCEPT ![o] = "deleted"]

Idle == [pc |-> "idle", id |-> None, code |-> None]

At(h, pc) == req[h].pc = pc
Finish(h) == req' = [req EXCEPT ![h] = Idle]
Hold(h, pc, o, c) == req' = [req EXCEPT ![h] = [pc |-> pc, id |-> o, code |-> c]]

\* CreateTenant has inserted the main outlet, or only logged its failure.
Init ==
  /\ status \in {[o \in Ids |-> IF o = Main THEN s ELSE "none"] : s \in {"live", "none"}}
  /\ \E c \in Codes : code = [o \in Ids |-> IF status[o] = "live" THEN c ELSE None]
  /\ req = [h \in Handlers |-> Idle]

-------------------------------------------------------------------------------
(* A handler parses the ids, binds and validates the body and calls the     *)
(* usecase; a request it refuses, or that the first check of the usecase    *)
(* refuses, is answered with an error and changes nothing. What follows is  *)
(* a request that passed.                                                   *)

\* CreateOutlet of the usecase compares a count with the limit of the plan.
UnderLimit == Cardinality(Live) < MaxOutlets

\* Mutant: the count is compared with > instead of >=.
CheckLimitOffByOne(h, c) ==
  /\ At(h, "idle")
  /\ Cardinality(Live) <= MaxOutlets
  /\ Hold(h, "insert", None, c)
  /\ UNCHANGED <<status, code>>

\* The handler of POST /outlets calls CreateOutlet.
CheckLimit(h, c) ==
  /\ At(h, "idle")
  /\ UnderLimit
  /\ Hold(h, "insert", None, c)
  /\ UNCHANGED <<status, code>>

\* CreateOutlet goes on to insert what it was asked for.
Insert(h) ==
  /\ At(h, "insert")
  /\ \E o \in Ids \ {Main} : Create(o, req[h].code)
  /\ Finish(h)

\* Mutant: FindByID does not ask for deleted_at IS NULL.
UpdateReadDeleted(h, o, c) ==
  /\ At(h, "idle")
  /\ status[o] # "none"
  /\ Hold(h, "save", o, c)
  /\ UNCHANGED <<status, code>>

\* The handler of PATCH /outlets/:outlet_id calls UpdateOutlet, which reads.
UpdateRead(h, o, c) ==
  /\ At(h, "idle")
  /\ FindByID(o)
  /\ Hold(h, "save", o, c)
  /\ UNCHANGED <<status, code>>

\* UpdateOutlet saves its copy with the fields of the request.
Save(h) ==
  /\ At(h, "save")
  /\ Update(req[h].id, req[h].code)
  /\ Finish(h)

\* Mutant: the main outlet is not refused.
DeleteReadAny(h, o) ==
  /\ At(h, "idle")
  /\ FindByID(o)
  /\ Hold(h, "delete", o, None)
  /\ UNCHANGED <<status, code>>

\* The handler of DELETE /outlets/:outlet_id calls DeleteOutlet, which reads
\* and refuses the main outlet.
DeleteRead(h, o) ==
  /\ At(h, "idle")
  /\ FindByID(o) /\ o # Main
  /\ Hold(h, "delete", o, None)
  /\ UNCHANGED <<status, code>>

\* DeleteOutlet marks the row it read.
SoftDelete(h) ==
  /\ At(h, "delete")
  /\ MarkDeleted(req[h].id)
  /\ Finish(h)
  /\ UNCHANGED code

-------------------------------------------------------------------------------

\* A statement fails (the code is taken, the database is away) or the request
\* is cut off between its statements.
Fail(h) ==
  /\ ~At(h, "idle")
  /\ Finish(h)
  /\ UNCHANGED <<status, code>>

Step(h) ==
  \/ Insert(h) \/ Save(h) \/ SoftDelete(h) \/ Fail(h)
  \/ \E c \in Codes : CheckLimit(h, c)
  \/ \E o \in Ids : DeleteRead(h, o)
  \/ \E o \in Ids, c \in Codes : UpdateRead(h, o, c)

Next == \E h \in Handlers : Step(h)

Spec == Init /\ [][Next]_vars

-------------------------------------------------------------------------------
(* Correctness.                                                            *)

\* What a request holds: the outlet and the code of the input.
Request == [pc : {"idle", "insert", "save", "delete"},
            id : Ids \cup {None}, code : Codes \cup {None}]

\* The shape of the table and of the requests' local variables. A request that
\* updates or deletes holds a row that exists, and none deletes the main outlet.
TypeOK ==
  /\ status \in [Ids -> Statuses]
  /\ code \in [Ids -> Codes \cup {None}]
  /\ req \in [Handlers -> Request]
  /\ \A o \in Ids : code[o] = None <=> status[o] = "none"
  /\ \A h \in Handlers :
       /\ At(h, "save") \/ At(h, "delete") => req[h].id \in Ids /\ status[req[h].id] # "none"
       /\ At(h, "delete") => req[h].id # Main
       /\ At(h, "save") \/ At(h, "insert") => req[h].code \in Codes

Inserting == {h \in Handlers : At(h, "insert")}
Updating(o) == \E h \in Handlers : At(h, "save") /\ req[h].id = o
Revivable == {o \in Ids : status[o] = "deleted" /\ Updating(o)}

\* How far the plan's limit can be exceeded: requests in flight that counted
\* before one another's insert, and saves about to revive a deleted row, are all
\* the outlets there can be beyond it.
LimitOverrun ==
  Cardinality(Live) + Cardinality(Inserting) + Cardinality(Revivable)
    <= MaxOutlets - 1 + Cardinality(Handlers)

\* A deleted outlet stays deleted, unless an update that read it before is in
\* flight.
Gone(o) == status[o] = "deleted" /\ ~Updating(o)
GoneStaysGone == [][\A o \in Ids : Gone(o) => Gone(o)']_vars

\* The main outlet, once it exists, can be deleted by no interleaving.
MainStays == [][status[Main] = "live" => status'[Main] = "live"]_vars
===============================================================================
