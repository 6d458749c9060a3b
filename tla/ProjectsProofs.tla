--------------------------- MODULE ProjectsProofs ---------------------------
(* What holds of the project registry and its caches for every number of    *)
(* projects, processes and requests, and every TTL, load time and cache     *)
(* size.                                                                    *)
EXTENDS MCProjects, FiniteSetTheorems, TLAPS

\* What a request has learnt at each of its steps.
Shape(q) ==
  /\ q \in Handler
  /\ q.pc # "idle" => q.i \in Instances /\ q.p \in ProjectIDs
  /\ q.pc \in {"get", "insert", "put"} => q.patch \in Patch /\ validPatch(q.patch)
  /\ q.pc = "get" => q.op \in {"UpdateProject", "Boot"}
  /\ q.pc = "insert" \/ (q.op = "Boot" /\ q.pc = "get") =>
       q.patch.region \in Regions \cup {None} /\ q.patch.budget \in Budgets \cup {0, -1}
  /\ q.pc = "put" => q.row \in Project /\ ValidateMaxCheckReads(q.row.budget)

\* A load that has read its row has something to return.
FlightOK(f) ==
  /\ f \in Flight
  /\ f.pc \in {"stamp", "store"} => f.res \in Resolved
  /\ f.pc # "store" => f.age = 0
  /\ f.lag + f.age <= MaxLoad

RowsOK ==
  /\ projects \in [ProjectIDs -> Project \cup {None}]
  /\ \A p \in ProjectIDs : projects[p] # None => ValidateMaxCheckReads(projects[p].budget)
CacheOK == cache \in [Instances -> [ProjectIDs -> Entry \cup {None}]]
FlightsOK ==
  /\ flight \in [Instances -> [ProjectIDs -> Flight \cup {None}]]
  /\ \A i \in Instances, p \in ProjectIDs : flight[i][p] # None => FlightOK(flight[i][p])
HandlersOK == req \in [Requests -> Handler] /\ \A r \in Requests : Shape(req[r])
HistoryOK ==
  /\ recent \in [ProjectIDs -> [Resolved -> 0..(Bound + 1)]]
  /\ enabled \in [Instances -> [ProjectIDs -> 0..(Bound + 1)]]
  /\ DOMAIN answered = Requests

TypeInv == RowsOK /\ CacheOK /\ FlightsOK /\ HandlersOK /\ HistoryOK
-----------------------------------------------------------------------------
(* Conversions and constants *)

LEMMA Bounds == TTL \in Nat /\ MaxLoad \in Nat /\ Bound \in Nat /\ Bound = TTL + MaxLoad
BY ConstantsAssumption DEF Bound

LEMMA ResolutionType ==
  ASSUME NEW row \in Project \cup {None}
  PROVE  resolution(row) \in Resolved
<1>1. CASE row = None
  BY <1>1, Zenon DEF resolution, Resolved
<1>2. CASE row # None
  <2>1. row \in Project
    BY <1>2
  <2>2. row.model \in Models \cup {None} /\ row.region \in Regions \cup {None}
        /\ row.budget \in Budgets \cup {0, -1}
    BY <2>1 DEF Project
  <2>3. PICK t \in BOOLEAN : t = (row.status = "suspended")
    BY Zenon
  <2>4. resolution(row) = [model |-> row.model, suspended |-> t,
                           region |-> row.region, budget |-> row.budget]
    BY <1>2, <2>3, Zenon DEF resolution
  <2>5. [model |-> row.model, suspended |-> t, region |-> row.region, budget |-> row.budget]
          \in Resolved
    BY <2>2, <2>3 DEF Resolved
  <2> QED BY <2>4, <2>5, Zenon
<1> QED BY <1>1, <1>2

\* The guards of the data plane accept the resolution of a row exactly if the
\* process is meant to serve a project with that row.
LEMMA GuardsAreMeant ==
  ASSUME NEW i \in Instances, NEW row \in Project \cup {None}
  PROVE  ensureProjectActive(i, resolution(row)) <=> meant(i, row)
<1>1. CASE row = None
  <2>1. resolution(row).region = None /\ ~resolution(row).suspended
    BY <1>1, Zenon DEF resolution
  <2> QED BY <1>1, <2>1 DEF ensureProjectActive, regionServable, meant
<1>2. CASE row # None
  <2>1. row.status \in {"active", "suspended"}
    BY <1>2 DEF Project
  <2>2. resolution(row).region = row.region
    BY <1>2, Zenon DEF resolution
  <2>3. resolution(row).suspended <=> row.status = "suspended"
    BY <1>2, Zenon DEF resolution
  <2> QED BY <1>2, <2>1, <2>2, <2>3 DEF ensureProjectActive, regionServable, meant
<1> QED BY <1>1, <1>2

LEMMA IdleShape == Shape(Idle)
BY DEF Shape, Idle, Handler

\* A patch of a valid row with a valid patch is a valid row.
LEMMA PatchedType ==
  ASSUME NEW row \in Project, NEW x \in Patch, validPatch(x), ValidateMaxCheckReads(row.budget)
  PROVE  patched(row, x) \in Project /\ ValidateMaxCheckReads(patched(row, x).budget)
<1>1. /\ x.status \in {"active", "suspended", None} /\ x.model \in Models \cup {None}
      /\ x.region \in Regions \cup {None, "clear"} /\ x.budget \in Budgets \cup {0, -1}
  BY DEF Patch
<1>2. /\ row.status \in {"active", "suspended"} /\ row.model \in Models \cup {None}
      /\ row.region \in Regions \cup {None} /\ row.budget \in Budgets \cup {0, -1}
  BY DEF Project
<1>3. patched(row, x).budget \in Budgets \cup {0, -1}
  BY <1>1, <1>2, ConstantsAssumption DEF patched
<1>4. patched(row, x) \in Project
  BY <1>1, <1>2, <1>3 DEF patched, Project
<1>5. ValidateMaxCheckReads(patched(row, x).budget)
  BY <1>1, <1>2, ConstantsAssumption DEF patched, validPatch, ValidateMaxCheckReads
<1> QED BY <1>4, <1>5
-----------------------------------------------------------------------------
(* What the pieces of an action do to the tables *)

LEMMA OneMoves ==
  ASSUME HandlersOK, NEW r \in Requests, NEW n, Shape(n), req' = [req EXCEPT ![r] = n]
  PROVE  HandlersOK'
<1>1. n \in Handler
  BY DEF Shape
<1>2. \A s \in Requests : req'[s] = IF s = r THEN n ELSE req[s]
  BY DEF HandlersOK
<1> QED BY <1>1, <1>2 DEF HandlersOK

LEMMA GotoMoves ==
  ASSUME HandlersOK, NEW r \in Requests, NEW pc \in {"join", "wait", "invalidate"},
         req[r].pc # "idle", Goto(r, pc)
  PROVE  HandlersOK'
<1> DEFINE n == [req[r] EXCEPT !.pc = pc]
<1>1. req[r] \in Handler /\ Shape(req[r])
  BY DEF HandlersOK
<1>2. n \in Handler /\ n.pc = pc /\ n.i = req[r].i /\ n.p = req[r].p
  BY <1>1 DEF Handler
<1>3. Shape(n)
  BY <1>1, <1>2 DEF Shape
<1>4. req' = [req EXCEPT ![r] = n]
  BY DEF Goto
<1> QED BY <1>3, <1>4, OneMoves, Zenon

LEMMA ReturnMoves ==
  ASSUME HandlersOK, NEW r \in Requests, Return(r)
  PROVE  HandlersOK'
BY IdleShape, OneMoves, Zenon DEF Return

LEMMA SomeEnd ==
  ASSUME HandlersOK, NEW R, req' = [r \in Requests |-> IF r \in R THEN Idle ELSE req[r]]
  PROVE  HandlersOK'
<1>1. \A r \in Requests : Shape(req'[r]) /\ req'[r] \in Handler
  BY IdleShape DEF HandlersOK, Shape
<1> QED BY <1>1 DEF HandlersOK

LEMMA DeliverType ==
  ASSUME HandlersOK, HistoryOK, NEW R, NEW x, deliver(R, x), UNCHANGED <<recent, enabled>>
  PROVE  HandlersOK' /\ HistoryOK'
<1>1. HandlersOK'
  BY SomeEnd DEF deliver
<1>2. DOMAIN answered' = Requests
  BY Zenon DEF deliver
<1> QED BY <1>1, <1>2 DEF HistoryOK

LEMMA WriteType ==
  ASSUME RowsOK, HistoryOK, NEW p \in ProjectIDs, NEW row \in Project,
         ValidateMaxCheckReads(row.budget), write(p, row), answered' = answered
  PROVE  RowsOK' /\ HistoryOK'
<1>1. RowsOK'
  BY DEF RowsOK, write
<1>2. recent' \in [ProjectIDs -> [Resolved -> 0..(Bound + 1)]]
  <2>1. PICK x \in Resolved : x = resolution(row)
    BY ResolutionType
  <2>2. recent' = [recent EXCEPT ![p][x] = 0]
    BY <2>1 DEF write
  <2>3. 0 \in 0..(Bound + 1)
    BY Bounds
  <2> QED BY <2>2, <2>3 DEF HistoryOK
<1>3. enabled' \in [Instances -> [ProjectIDs -> 0..(Bound + 1)]]
  BY Bounds DEF HistoryOK, write
<1> QED BY <1>1, <1>2, <1>3 DEF HistoryOK

LEMMA OneFlies ==
  ASSUME FlightsOK, NEW i \in Instances, NEW p \in ProjectIDs, NEW f, f # None => FlightOK(f),
         flight' = [flight EXCEPT ![i][p] = f]
  PROVE  FlightsOK'
<1>1. f \in Flight \cup {None}
  BY DEF FlightOK
<1>2. flight' \in [Instances -> [ProjectIDs -> Flight \cup {None}]]
  BY <1>1 DEF FlightsOK
<1>3. \A j \in Instances, q \in ProjectIDs :
        flight'[j][q] = IF j = i /\ q = p THEN f ELSE flight[j][q]
  BY DEF FlightsOK
<1> QED BY <1>2, <1>3 DEF FlightsOK

LEMMA SweptType ==
  ASSUME CacheOK, NEW i \in Instances, NEW p \in ProjectIDs,
         cache' = [cache EXCEPT ![i][p] = swept(cache[i][p])]
  PROVE  CacheOK'
BY DEF CacheOK, swept
-----------------------------------------------------------------------------
LEMMA TypeInit == Init => TypeInv
<1> SUFFICES ASSUME Init PROVE TypeInv
  OBVIOUS
<1>1. RowsOK /\ CacheOK /\ FlightsOK
  BY DEF Init, RowsOK, CacheOK, FlightsOK
<1>2. HandlersOK
  BY IdleShape DEF Init, HandlersOK, Shape
<1>3. HistoryOK
  <2>1. PICK d : d = resolution(None)
    OBVIOUS
  <2>2. recent = [p \in ProjectIDs |-> [x \in Resolved |-> IF x = d THEN 0 ELSE Bound + 1]]
    BY <2>1 DEF Init
  <2> QED BY <2>2, Bounds DEF Init, HistoryOK
<1> QED BY <1>1, <1>2, <1>3 DEF TypeInv

LEMMA ArriveType ==
  ASSUME TypeInv, Arrive
  PROVE  TypeInv'
<1>1. ASSUME NEW r \in Requests, NEW q, Shape(q), Begin(r, q) PROVE TypeInv'
  <2>1. HandlersOK'
    BY <1>1, OneMoves, Zenon DEF Begin, TypeInv
  <2> QED BY <1>1, <2>1 DEF Begin, TypeInv, RowsOK, CacheOK, FlightsOK, HistoryOK
<1>2. ASSUME NEW r \in Requests, NEW i \in Instances, Boot(r, i) PROVE TypeInv'
  <2> DEFINE x == [status |-> None, model |-> None, region |-> None, budget |-> 0]
             q == [Idle EXCEPT !.op = "Boot", !.pc = "get", !.i = i, !.p = DefaultProject, !.patch = x]
  <2>1. x \in Patch /\ validPatch(x)
    BY DEF Patch, validPatch, ValidateMaxCheckReads
  <2>2. Shape(q)
    BY <2>1, ConstantsAssumption, Zenon DEF Shape, Idle, Handler
  <2> QED BY <1>1, <1>2, <2>2 DEF Boot
<1>3. ASSUME NEW r \in Requests, NEW i \in Instances, NEW p \in ProjectIDs, ResolveRPC(r, i, p)
      PROVE  TypeInv'
  <2>1. Shape([Idle EXCEPT !.op = "Resolve", !.pc = "lookup", !.i = i, !.p = p])
    BY Zenon DEF Shape, Idle, Handler
  <2> QED BY <1>1, <1>3, <2>1 DEF ResolveRPC
<1>4. ASSUME NEW r \in Requests, NEW i \in Instances, NEW p \in ProjectIDs, NEW x \in Patch,
             CreateProjectRPC(r, i, p, x)
      PROVE  TypeInv'
  <2>1. x.region \in Regions \cup {None} /\ x.budget \in Budgets \cup {0, -1} /\ validPatch(x)
    BY <1>4 DEF CreateProjectRPC, Patch
  <2>2. Shape([Idle EXCEPT !.op = "CreateProject", !.pc = "insert", !.i = i, !.p = p, !.patch = x])
    BY <2>1, Zenon DEF Shape, Idle, Handler
  <2> QED BY <1>1, <1>4, <2>2 DEF CreateProjectRPC
<1>5. ASSUME NEW r \in Requests, NEW i \in Instances, NEW p \in ProjectIDs, NEW x \in Patch,
             UpdateProjectRPC(r, i, p, x)
      PROVE  TypeInv'
  <2>1. Shape([Idle EXCEPT !.op = "UpdateProject", !.pc = "get", !.i = i, !.p = p, !.patch = x])
    BY <1>5, Zenon DEF UpdateProjectRPC, Shape, Idle, Handler
  <2> QED BY <1>1, <1>5, <2>1 DEF UpdateProjectRPC
<1> QED BY <1>2, <1>3, <1>4, <1>5 DEF Arrive
LEMMA StepType ==
  ASSUME TypeInv, NEW r \in Requests, Step(r)
  PROVE  TypeInv'
<1> DEFINE q == req[r]
<1> USE DEF TypeInv
<1>1. q \in Handler /\ Shape(q)
  BY DEF HandlersOK
<1>2. CASE GetProject(r)
  <2> DEFINE row == projects[q.p]
  <2>1. PICK n : /\ req' = [req EXCEPT ![r] = n]
                 /\ \/ n = [q EXCEPT !.row = row, !.pc = "put"] /\ q.op = "UpdateProject" /\ row # None
                    \/ n = [q EXCEPT !.pc = "insert"] /\ q.op = "Boot"
                    \/ n = Idle
    BY <1>2, Zenon DEF GetProject
  <2>2. q.pc = "get" /\ UNCHANGED <<projects, cache, flight, history>>
    BY <1>2 DEF GetProject
  <2>3. Shape(n)
    <3>1. CASE n = [q EXCEPT !.row = row, !.pc = "put"] /\ row # None
      <4>1. q.p \in ProjectIDs
        BY <1>1, <2>2 DEF Shape
      <4>2. row \in Project /\ ValidateMaxCheckReads(row.budget)
        BY <3>1, <4>1 DEF RowsOK
      <4> HIDE DEF row
      <4>3. /\ n \in Handler /\ n.pc = "put" /\ n.row = row
            /\ n.i = q.i /\ n.p = q.p /\ n.patch = q.patch
        BY <1>1, <3>1, <4>2, Zenon DEF Handler
      <4> QED BY <1>1, <2>2, <4>2, <4>3 DEF Shape
    <3>2. CASE n = [q EXCEPT !.pc = "insert"] /\ q.op = "Boot"
      <4>1. n \in Handler /\ n.pc = "insert" /\ n.i = q.i /\ n.p = q.p /\ n.patch = q.patch
        BY <1>1, <3>2 DEF Handler
      <4> QED BY <1>1, <2>2, <3>2, <4>1 DEF Shape
    <3> QED BY <2>1, <3>1, <3>2, IdleShape
  <2>4. HandlersOK'
    BY <2>1, <2>3, OneMoves, Zenon
  <2> QED BY <2>2, <2>4 DEF RowsOK, CacheOK, FlightsOK, HistoryOK, history
<1>3. CASE CreateProject(r)
  <2> DEFINE row == [status |-> "active", model |-> q.patch.model,
                     region |-> q.patch.region, budget |-> q.patch.budget]
  <2>1. q.p \in ProjectIDs /\ row \in Project /\ ValidateMaxCheckReads(row.budget)
    BY <1>1, <1>3 DEF CreateProject, Shape, Patch, Project, validPatch
  <2>2. CASE write(q.p, row) /\ Goto(r, "invalidate") /\ answered' = answered
    <3>1. RowsOK' /\ HistoryOK'
      BY <2>1, <2>2, WriteType
    <3>2. HandlersOK'
      BY <1>3, <2>2, GotoMoves DEF CreateProject
    <3> QED BY <1>3, <3>1, <3>2 DEF CreateProject, CacheOK, FlightsOK
  <2>3. CASE Return(r) /\ UNCHANGED <<projects, recent, enabled>>
    BY <1>3, <2>3, ReturnMoves DEF CreateProject, RowsOK, CacheOK, FlightsOK, HistoryOK
  <2> QED BY <1>3, <2>2, <2>3 DEF CreateProject
<1>4. CASE UpdateProject(r)
  <2>1. /\ q.p \in ProjectIDs /\ patched(q.row, q.patch) \in Project
        /\ ValidateMaxCheckReads(patched(q.row, q.patch).budget)
    BY <1>1, <1>4, PatchedType DEF UpdateProject, Shape
  <2>2. RowsOK' /\ HistoryOK'
    BY <1>4, <2>1, WriteType DEF UpdateProject
  <2>3. HandlersOK'
    BY <1>4, GotoMoves DEF UpdateProject
  <2> QED BY <1>4, <2>2, <2>3 DEF UpdateProject, CacheOK, FlightsOK
<1>5. CASE invalidate(r)
  <2>1. CacheOK'
    BY <1>5, Zenon DEF invalidate, CacheOK
  <2> QED BY <1>5, <2>1, ReturnMoves DEF invalidate, RowsOK, FlightsOK, HistoryOK, history
<1>6. CASE lookup(r)
  <2>1. q.i \in Instances /\ q.p \in ProjectIDs /\ q.pc = "lookup"
    BY <1>1, <1>6 DEF lookup, Shape
  <2>2. CacheOK'
    BY <1>6, <2>1, SweptType, Zenon DEF lookup
  <2>3. HandlersOK' /\ HistoryOK'
    <3>1. CASE Goto(r, "join") /\ UNCHANGED answered
      BY <1>6, <2>1, <3>1, GotoMoves, Zenon DEF lookup, HistoryOK
    <3>2. CASE deliver({r}, cache[q.i][q.p].res)
      BY <1>6, <3>2, DeliverType DEF lookup
    <3> QED BY <1>6, <3>1, <3>2 DEF lookup
  <2> QED BY <1>6, <2>2, <2>3 DEF lookup, RowsOK, FlightsOK
<1>7. CASE Do(r)
  <2>1. q.i \in Instances /\ q.p \in ProjectIDs /\ q.pc = "join"
    BY <1>1, <1>7 DEF Do, Shape
  <2>2. FlightsOK'
    <3> DEFINE f == [pc |-> "recheck", res |-> None, lag |-> 0, age |-> 0]
    <3>1. FlightOK(f)
      BY Bounds DEF FlightOK, Flight
    <3>2. flight' = flight \/ flight' = [flight EXCEPT ![q.i][q.p] = f]
      BY <1>7 DEF Do
    <3> QED BY <2>1, <3>1, <3>2, OneFlies, Zenon DEF FlightsOK
  <2>3. HandlersOK'
    BY <1>7, <2>1, GotoMoves DEF Do
  <2> QED BY <1>7, <2>2, <2>3 DEF Do, RowsOK, CacheOK, HistoryOK, history
<1> QED BY <1>2, <1>3, <1>4, <1>5, <1>6, <1>7 DEF Step

LEMMA FlightType ==
  ASSUME TypeInv, NEW i \in Instances, NEW p \in ProjectIDs, FlightStep(i, p) \/ LoadFails(i, p)
  PROVE  TypeInv'
<1> DEFINE f == flight[i][p]
<1> USE DEF TypeInv
<1>1. f # None => f \in Flight /\ FlightOK(f)
  BY DEF FlightsOK
<1>2. ASSUME NEW pc \in {"load", "store"}, f # None,
             f.pc = IF pc = "load" THEN "recheck" ELSE "stamp",
             flight' = [flight EXCEPT ![i][p].pc = pc]
      PROVE  FlightsOK'
  <2>1. PICK g : g = [f EXCEPT !.pc = pc]
    BY Zenon
  <2>2. g \in Flight /\ g.pc = pc /\ g.res = f.res /\ g.lag = f.lag /\ g.age = f.age
    BY <1>1, <1>2, <2>1 DEF Flight
  <2>3. FlightOK(g)
    BY <1>1, <1>2, <2>2 DEF FlightOK
  <2>4. flight' = [flight EXCEPT ![i][p] = g]
    BY <1>2, <2>1
  <2> QED BY <2>3, <2>4, OneFlies, Zenon
<1>3. ASSUME flight' = [flight EXCEPT ![i][p] = None] PROVE FlightsOK'
  BY <1>3, OneFlies, Zenon
<1>4. CASE Recheck(i, p)
  <2>1. CacheOK'
    BY <1>4, SweptType, Zenon DEF Recheck
  <2>2. CASE deliver(waiting(i, p), cache[i][p].res) /\ flight' = [flight EXCEPT ![i][p] = None]
    BY <1>3, <1>4, <2>1, <2>2, DeliverType DEF Recheck, RowsOK
  <2>3. CASE flight' = [flight EXCEPT ![i][p].pc = "load"] /\ UNCHANGED <<req, answered>>
    BY <1>2, <1>4, <2>1, <2>3 DEF Recheck, RowsOK, HandlersOK, HistoryOK
  <2> QED BY <1>4, <2>2, <2>3 DEF Recheck
<1>5. CASE load(i, p)
  <2>1. PICK x \in Resolved : x = resolution(projects[p])
    BY ResolutionType DEF RowsOK
  <2>2. PICK g : g = [f EXCEPT !.pc = "stamp", !.res = x]
    OBVIOUS
  <2>3. f # None /\ f.pc = "load" /\ f.age = 0
    BY <1>1, <1>5 DEF load, FlightOK
  <2>4. g \in Flight /\ g.pc = "stamp" /\ g.res = x /\ g.lag = f.lag /\ g.age = f.age
    BY <1>1, <2>2, <2>3, Zenon DEF Flight
  <2>5. FlightOK(g)
    BY <1>1, <2>3, <2>4 DEF FlightOK
  <2>6. flight' = [flight EXCEPT ![i][p] = g]
    BY <1>5, <2>1, <2>2, Zenon DEF load
  <2>7. FlightsOK'
    BY <2>5, <2>6, OneFlies, Zenon
  <2> QED BY <1>5, <2>7 DEF load, RowsOK, CacheOK, HandlersOK, HistoryOK, history
<1>6. CASE Stamp(i, p)
  BY <1>2, <1>6 DEF Stamp, RowsOK, CacheOK, HandlersOK, HistoryOK, history
<1>7. CASE store(i, p)
  <2>1. PICK S : cache' = [cache EXCEPT ![i] = [k \in ProjectIDs |->
                              IF k = p THEN [res |-> f.res, age |-> f.age]
                              ELSE IF k \in S THEN cache[i][k] ELSE None]]
    BY <1>7, Zenon DEF store
  <2>2. [res |-> f.res, age |-> f.age] \in Entry
    BY <1>1, <1>7, Bounds DEF store, FlightOK, Flight, Entry
  <2>3. CacheOK'
    BY <2>1, <2>2 DEF CacheOK
  <2> QED BY <1>3, <1>7, <2>3, DeliverType DEF store, RowsOK
<1>8. CASE LoadFails(i, p)
  BY <1>3, <1>8, SomeEnd, Zenon DEF LoadFails, RowsOK, CacheOK, HistoryOK, history
<1> QED BY <1>4, <1>5, <1>6, <1>7, <1>8 DEF FlightStep
LEMMA TickType ==
  ASSUME TypeInv, Tick
  PROVE  TypeInv'
<1> USE DEF TypeInv
<1>1. CacheOK'
  <2>1. ASSUME NEW e \in Entry PROVE [e EXCEPT !.age = older(@, TTL + 1)] \in Entry
    BY Bounds DEF Entry, older
  <2> QED BY <2>1 DEF CacheOK, Tick
<1>2. ASSUME NEW i \in Instances, NEW p \in ProjectIDs, flight'[i][p] # None
      PROVE  FlightOK(flight'[i][p])
  <2> DEFINE f == flight[i][p]
             g == flight'[i][p]
  <2>1. CASE f # None /\ f.pc = "stamp"
    <3>1. f \in Flight /\ FlightOK(f) /\ f.lag + f.age < MaxLoad /\ g = [f EXCEPT !.lag = @ + 1]
      BY <2>1 DEF FlightsOK, Tick
    <3>2. /\ f.lag \in 0..MaxLoad /\ f.age = 0 /\ f.age \in 0..MaxLoad /\ f.res \in Resolved
          /\ f.lag + 1 \in 0..MaxLoad
      BY <2>1, <3>1, Bounds DEF FlightOK, Flight
    <3>3. g \in Flight /\ g.pc = "stamp" /\ g.res = f.res /\ g.lag = f.lag + 1 /\ g.age = f.age
      BY <2>1, <3>1, <3>2 DEF Flight
    <3> QED BY <3>1, <3>2, <3>3, Bounds DEF FlightOK
  <2>2. CASE f # None /\ f.pc = "store"
    <3>1. f \in Flight /\ FlightOK(f) /\ f.lag + f.age < MaxLoad /\ g = [f EXCEPT !.age = @ + 1]
      BY <2>2 DEF FlightsOK, Tick
    <3>2. /\ f.lag \in 0..MaxLoad /\ f.age \in 0..MaxLoad /\ f.res \in Resolved
          /\ f.age + 1 \in 0..MaxLoad
      BY <2>2, <3>1, Bounds DEF FlightOK, Flight
    <3>3. g \in Flight /\ g.pc = "store" /\ g.res = f.res /\ g.lag = f.lag /\ g.age = f.age + 1
      BY <2>2, <3>1, <3>2 DEF Flight
    <3> QED BY <3>1, <3>2, <3>3, Bounds DEF FlightOK
  <2>3. CASE ~(f # None /\ f.pc \in {"stamp", "store"})
    <3>1. g = f
      BY <2>3 DEF Tick
    <3> QED BY <1>2, <3>1 DEF FlightsOK
  <2> QED BY <2>1, <2>2, <2>3
<1>3. FlightsOK'
  <2>1. \A i \in Instances, p \in ProjectIDs : flight'[i][p] \in Flight \cup {None}
    BY <1>2 DEF FlightOK
  <2>2. flight' \in [Instances -> [ProjectIDs -> Flight \cup {None}]]
    BY <2>1 DEF Tick
  <2> QED BY <1>2, <2>2 DEF FlightsOK
<1>4. HistoryOK'
  <2>1. ASSUME NEW n \in 0..(Bound + 1) PROVE older(n, Bound + 1) \in 0..(Bound + 1)
    BY Bounds DEF older
  <2>2. 0 \in 0..(Bound + 1)
    BY Bounds
  <2>3. recent' \in [ProjectIDs -> [Resolved -> 0..(Bound + 1)]]
    BY <2>1, <2>2 DEF Tick, HistoryOK
  <2>4. enabled' \in [Instances -> [ProjectIDs -> 0..(Bound + 1)]]
    BY <2>1, <2>2 DEF Tick, HistoryOK
  <2> QED BY <2>3, <2>4 DEF Tick, HistoryOK
<1> QED BY <1>1, <1>3, <1>4 DEF Tick, RowsOK, HandlersOK

LEMMA FaultType ==
  ASSUME TypeInv, Fault
  PROVE  TypeInv'
<1> USE DEF TypeInv
<1>1. ASSUME NEW r \in Requests, Abort(r) PROVE TypeInv'
  BY <1>1, ReturnMoves DEF Abort, RowsOK, CacheOK, FlightsOK, HistoryOK, history
<1>2. ASSUME NEW i \in Instances, Restart(i) PROVE TypeInv'
  <2>1. CacheOK' /\ FlightsOK'
    BY <1>2 DEF Restart, CacheOK, FlightsOK
  <2>2. HandlersOK'
    <3>1. req' = [r \in Requests |-> IF r \in {s \in Requests : req[s].i = i} THEN Idle ELSE req[r]]
      BY <1>2 DEF Restart
    <3> QED BY <3>1, SomeEnd, Zenon
  <2> QED BY <1>2, <2>1, <2>2 DEF Restart, RowsOK, HistoryOK, history
<1> QED BY <1>1, <1>2, FlightType DEF Fault

LEMMA TypeNext == TypeInv /\ [Next]_vars => TypeInv'
<1>1. CASE UNCHANGED vars
  BY <1>1 DEF vars, TypeInv, RowsOK, CacheOK, FlightsOK, HandlersOK, HistoryOK
<1> QED BY <1>1, ArriveType, StepType, FlightType, TickType, FaultType DEF Next, Work

LEMMA TypeInvariant == Spec => []TypeInv
BY TypeInit, TypeNext, PTL DEF Spec

\* Every row, entry, load and request stays well formed, and no stored budget is
\* ever positive and below the floor of ValidateMaxCheckReads: a patch is checked
\* once, when it arrives, and applied to a row read later.
THEOREM TypeCorrect == Spec => []TypeOK
<1>1. TypeInv => TypeOK
  BY DEF TypeInv, TypeOK, RowsOK, CacheOK, FlightsOK, HandlersOK
<1> QED BY <1>1, TypeInvariant, PTL
-----------------------------------------------------------------------------
(* The size of a cache *)

CacheInv == \A i \in Instances : /\ IsFiniteSet(cached(cache[i]))
                                 /\ Cardinality(cached(cache[i])) <= MaxEntries

\* evictLocked leaves room for one more.
LEMMA EvictedHasRoom ==
  ASSUME NEW c, IsFiniteSet(cached(c)), Cardinality(cached(c)) <= MaxEntries, NEW S \in evicted(c)
  PROVE  IsFiniteSet(S) /\ Cardinality(S) < MaxEntries
<1> DEFINE live == {p \in ProjectIDs : fresh(c[p])}
<1>1. live \subseteq cached(c)
  BY DEF cached, fresh
<1>2. IsFiniteSet(live)
  BY <1>1, FS_Subset
<1>3. CASE S = cached(c) /\ Cardinality(cached(c)) < MaxEntries
  BY <1>3
<1>4. CASE S = live /\ Cardinality(live) < MaxEntries
  BY <1>2, <1>4
<1>5. CASE S \in SUBSET live /\ Cardinality(S) = MaxEntries - 1
  BY <1>2, <1>5, FS_Subset, ConstantsAssumption
<1> QED BY <1>3, <1>4, <1>5 DEF evicted

LEMMA NoneAdded ==
  ASSUME CacheInv,
         \A i \in Instances : \A p \in ProjectIDs : cache'[i][p] # None => cache[i][p] # None
  PROVE  CacheInv'
<1> SUFFICES ASSUME NEW i \in Instances
             PROVE  /\ IsFiniteSet(cached(cache'[i]))
                    /\ Cardinality(cached(cache'[i])) <= MaxEntries
  BY DEF CacheInv, cached
<1>1. cached(cache'[i]) \subseteq cached(cache[i])
  BY DEF cached
<1>2. IsFiniteSet(cached(cache[i])) /\ Cardinality(cached(cache[i])) <= MaxEntries
  BY DEF CacheInv
<1>3. /\ IsFiniteSet(cached(cache'[i]))
      /\ Cardinality(cached(cache'[i])) <= Cardinality(cached(cache[i]))
  BY <1>1, <1>2, FS_Subset
<1>4. Cardinality(cached(cache'[i])) \in Nat /\ Cardinality(cached(cache[i])) \in Nat
  BY <1>2, <1>3, FS_CardinalityType
<1> QED BY <1>2, <1>3, <1>4, ConstantsAssumption
LEMMA StoreFits ==
  ASSUME TypeInv, CacheInv, NEW i \in Instances, NEW p \in ProjectIDs, store(i, p)
  PROVE  CacheInv'
<1> DEFINE f == flight[i][p]
<1>1. PICK S \in evicted(cache[i]) :
        cache' = [cache EXCEPT ![i] = [k \in ProjectIDs |->
                    IF k = p THEN [res |-> f.res, age |-> f.age]
                    ELSE IF k \in S THEN cache[i][k] ELSE None]]
  BY DEF store
<1>2. IsFiniteSet(S) /\ Cardinality(S) < MaxEntries
  BY EvictedHasRoom DEF CacheInv
<1>3. IsFiniteSet(S \cup {p}) /\ Cardinality(S \cup {p}) <= MaxEntries
  <2>1. Cardinality(S) \in Nat /\ IsFiniteSet(S \cup {p})
        /\ Cardinality(S \cup {p}) \in {Cardinality(S), Cardinality(S) + 1}
    BY <1>2, FS_AddElement, FS_CardinalityType
  <2> QED BY <1>2, <2>1, ConstantsAssumption
<1>4. cached(cache'[i]) \subseteq S \cup {p}
  BY <1>1 DEF cached, TypeInv, CacheOK
<1>5. IsFiniteSet(cached(cache'[i])) /\ Cardinality(cached(cache'[i])) <= MaxEntries
  <2>1. /\ IsFiniteSet(cached(cache'[i]))
        /\ Cardinality(cached(cache'[i])) <= Cardinality(S \cup {p})
    BY <1>3, <1>4, FS_Subset
  <2>2. Cardinality(cached(cache'[i])) \in Nat /\ Cardinality(S \cup {p}) \in Nat
    BY <1>3, <2>1, FS_CardinalityType
  <2> QED BY <1>3, <2>1, <2>2, ConstantsAssumption
<1>6. \A j \in Instances : j # i => cache'[j] = cache[j]
  BY <1>1 DEF TypeInv, CacheOK
<1>7. ASSUME NEW j \in Instances
      PROVE  IsFiniteSet(cached(cache'[j])) /\ Cardinality(cached(cache'[j])) <= MaxEntries
  <2>1. CASE j = i
    BY <1>5, <2>1
  <2>2. CASE j # i
    <3>1. cached(cache'[j]) = cached(cache[j])
      BY <1>6, <2>2
    <3> QED BY <3>1 DEF CacheInv
  <2> QED BY <2>1, <2>2
<1> QED BY <1>7 DEF CacheInv, cached

LEMMA CacheNext == TypeInv /\ CacheInv /\ [Next]_vars => CacheInv'
<1> SUFFICES ASSUME TypeInv, CacheInv, [Next]_vars PROVE CacheInv'
  OBVIOUS
<1>1. CASE cache' = cache
  BY <1>1, NoneAdded
<1>2. ASSUME NEW r \in Requests, invalidate(r) \/ lookup(r) PROVE CacheInv'
  <2>1. PICK x : /\ cache' = [cache EXCEPT ![req[r].i][req[r].p] = x]
                 /\ x = None \/ x = cache[req[r].i][req[r].p]
    BY <1>2, Zenon DEF invalidate, lookup, swept
  <2>2. \A i \in Instances : \A p \in ProjectIDs : cache'[i][p] # None => cache[i][p] # None
    BY <2>1 DEF TypeInv, CacheOK
  <2> QED BY <2>2, NoneAdded, Zenon
<1>3. ASSUME NEW i \in Instances, NEW p \in ProjectIDs, Recheck(i, p) PROVE CacheInv'
  BY <1>3, NoneAdded DEF Recheck, swept, fresh, TypeInv, CacheOK
<1>4. ASSUME NEW i \in Instances, NEW p \in ProjectIDs, store(i, p) PROVE CacheInv'
  BY <1>4, StoreFits
<1>5. CASE Tick
  BY <1>5, NoneAdded DEF Tick
<1>6. ASSUME NEW i \in Instances, Restart(i) PROVE CacheInv'
  BY <1>6, NoneAdded DEF Restart, TypeInv, CacheOK
<1>7. CASE Arrive
  BY <1>1, <1>7, ZenonT(30) DEF Arrive, Begin, Boot, ResolveRPC, CreateProjectRPC, UpdateProjectRPC
<1> QED BY <1>1, <1>2, <1>3, <1>4, <1>5, <1>6, <1>7, Zenon
        DEF Next, Work, Step, FlightStep, Fault, GetProject, CreateProject, UpdateProject, Do, load,
            Stamp, LoadFails, Abort, vars

\* evictLocked keeps the cache of a process within resolverMaxEntries, for any
\* number of projects a caller may name, of concurrent loads and of processes.
THEOREM CacheFits == Spec => []CacheBounded
<1>1. Init => CacheInv
  <2> SUFFICES ASSUME Init, NEW i \in Instances
               PROVE  IsFiniteSet(cached(cache[i])) /\ Cardinality(cached(cache[i])) <= MaxEntries
    BY DEF CacheInv
  <2>1. cached(cache[i]) = {}
    BY DEF Init, cached
  <2> QED BY <2>1, FS_EmptySet, ConstantsAssumption
<1>2. CacheInv => CacheBounded
  BY DEF CacheInv, CacheBounded
<1> QED BY <1>1, <1>2, CacheNext, TypeInvariant, PTL DEF Spec
-----------------------------------------------------------------------------
(* How old an answer may be *)

\* Project p resolved to x within the last n ticks, and if process i lets a
\* request with that resolution through it was meant to within the last n ticks.
Recent(i, p, x, n) ==
  recent[p][x] <= n /\ (ensureProjectActive(i, x) => enabled[i][p] <= n)

\* What a project resolves to has just been seen.
Current ==
  \A p \in ProjectIDs :
    /\ recent[p][resolution(projects[p])] = 0
    /\ \A i \in Instances : Recent(i, p, resolution(projects[p]), 0)

\* An entry lags behind its age by no more than its load took; a load lags behind
\* by the ticks since it read the row.
HeldOK(i, p) ==
  /\ cache[i][p] # None => Recent(i, p, cache[i][p].res, cache[i][p].age + MaxLoad)
  /\ flight[i][p] # None /\ flight[i][p].pc \in {"stamp", "store"} =>
       Recent(i, p, flight[i][p].res, flight[i][p].lag + flight[i][p].age)

StaleInv == Current /\ \A i \in Instances, p \in ProjectIDs : HeldOK(i, p)

LEMMA RecentType ==
  ASSUME TypeInv, NEW i \in Instances, NEW p \in ProjectIDs, NEW x \in Resolved
  PROVE  recent[p][x] \in 0..(Bound + 1) /\ enabled[i][p] \in 0..(Bound + 1)
BY DEF TypeInv, HistoryOK

LEMMA WeakerRecent ==
  ASSUME TypeInv, NEW i \in Instances, NEW p \in ProjectIDs, NEW x \in Resolved,
         NEW m \in Nat, NEW n \in Nat, m <= n, Recent(i, p, x, m)
  PROVE  Recent(i, p, x, n)
BY RecentType, Bounds DEF Recent

\* The history forgets nothing when a row is written ...
LEMMA WriteKeepsRecent ==
  ASSUME TypeInv, NEW q \in ProjectIDs, NEW row \in Project, write(q, row),
         NEW i \in Instances, NEW p \in ProjectIDs, NEW x \in Resolved, NEW n \in Nat,
         Recent(i, p, x, n)
  PROVE  Recent(i, p, x, n)'
<1>1. PICK y \in Resolved : y = resolution(row)
  BY ResolutionType
<1>2. recent' = [recent EXCEPT ![q][y] = 0]
  BY <1>1 DEF write
<1>3. recent'[p][x] \in {recent[p][x], 0}
  BY <1>2 DEF TypeInv, HistoryOK
<1>4. enabled'[i][p] \in {enabled[i][p], 0}
  BY DEF write, TypeInv, HistoryOK
<1> QED BY <1>3, <1>4 DEF Recent

\* ... and is one tick older after a tick.
LEMMA TickAgesRecent ==
  ASSUME TypeInv, Tick, NEW i \in Instances, NEW p \in ProjectIDs, NEW x \in Resolved,
         NEW n \in Nat, Recent(i, p, x, n) \/ n >= Bound
  PROVE  Recent(i, p, x, n + 1)'
<1>1. recent[p][x] \in 0..(Bound + 1) /\ enabled[i][p] \in 0..(Bound + 1)
  BY RecentType
<1>2. recent'[p][x] \in {0, older(recent[p][x], Bound + 1)}
  BY DEF Tick
<1>3. enabled'[i][p] \in {0, older(enabled[i][p], Bound + 1)}
  BY DEF Tick
<1> QED BY <1>1, <1>2, <1>3, Bounds DEF Recent, older

LEMMA WriteCurrent ==
  ASSUME TypeInv, Current, NEW q \in ProjectIDs, NEW row \in Project, write(q, row)
  PROVE  Current'
<1> SUFFICES ASSUME NEW p \in ProjectIDs
             PROVE  /\ recent'[p][resolution(projects'[p])] = 0
                    /\ \A i \in Instances : Recent(i, p, resolution(projects[p]), 0)'
  BY DEF Current
<1>1. PICK x \in Resolved : x = resolution(projects[p])
  BY ResolutionType DEF TypeInv, RowsOK
<1>2. PICK y \in Resolved : y = resolution(row)
  BY ResolutionType
<1>3. recent' = [recent EXCEPT ![q][y] = 0]
  BY <1>2 DEF write
<1>4. CASE p = q
  <2>1. projects'[p] = row
    BY <1>4 DEF write, TypeInv, RowsOK
  <2>2. recent'[p][y] = 0
    BY <1>3, <1>4 DEF TypeInv, HistoryOK
  <2>3. ASSUME NEW i \in Instances, meant(i, row) PROVE enabled'[i][p] = 0
    BY <1>4, <2>3 DEF write, TypeInv, HistoryOK
  <2> QED BY <1>2, <2>1, <2>2, <2>3, GuardsAreMeant DEF Recent
<1>5. CASE p # q
  <2>1. projects'[p] = projects[p]
    BY <1>5 DEF write, TypeInv, RowsOK
  <2>2. recent'[p] = recent[p] /\ \A i \in Instances : enabled'[i][p] = enabled[i][p]
    BY <1>3, <1>5 DEF write, TypeInv, HistoryOK
  <2> QED BY <2>1, <2>2 DEF Current, Recent
<1> QED BY <1>4, <1>5

LEMMA TickCurrent ==
  ASSUME TypeInv, Tick
  PROVE  Current'
<1> SUFFICES ASSUME NEW p \in ProjectIDs
             PROVE  /\ recent'[p][resolution(projects'[p])] = 0
                    /\ \A i \in Instances : Recent(i, p, resolution(projects[p]), 0)'
  BY DEF Current
<1>1. PICK x \in Resolved : x = resolution(projects[p])
  BY ResolutionType DEF TypeInv, RowsOK
<1>2. resolution(projects'[p]) = x /\ projects[p] \in Project \cup {None}
  BY <1>1 DEF Tick, TypeInv, RowsOK
<1>3. recent'[p][x] = 0
  BY <1>1 DEF Tick
<1>4. ASSUME NEW i \in Instances, meant(i, projects[p]) PROVE enabled'[i][p] = 0
  BY <1>4 DEF Tick
<1> QED BY <1>1, <1>2, <1>3, <1>4, GuardsAreMeant DEF Recent
-----------------------------------------------------------------------------
(* What the cache and the loads hold stays true for as long as they hold it. *)

\* The types of what is held.
LEMMA HeldType ==
  ASSUME TypeInv, NEW i \in Instances, NEW p \in ProjectIDs
  PROVE  /\ cache[i][p] # None => cache[i][p].res \in Resolved /\ cache[i][p].age \in Nat
         /\ flight[i][p] # None => /\ flight[i][p].lag \in Nat /\ flight[i][p].age \in Nat
                                   /\ flight[i][p].lag + flight[i][p].age <= MaxLoad
         /\ flight[i][p] # None /\ flight[i][p].pc \in {"stamp", "store"} =>
              flight[i][p].res \in Resolved
<1>1. cache[i][p] # None => cache[i][p] \in Entry
  BY DEF TypeInv, CacheOK
<1>2. flight[i][p] # None => flight[i][p] \in Flight /\ FlightOK(flight[i][p])
  BY Zenon DEF TypeInv, FlightsOK
<1> QED BY <1>1, <1>2, Bounds DEF Entry, Flight, FlightOK

\* Process i and project p keep what they hold, or hold less.
Keeps(i, p) ==
  /\ cache'[i][p] \in {cache[i][p], None}
  /\ \/ flight'[i][p] = None
     \/ flight'[i][p].pc \notin {"stamp", "store"}
     \/ /\ flight[i][p] # None /\ flight[i][p].pc \in {"stamp", "store"}
        /\ flight'[i][p].res = flight[i][p].res /\ flight'[i][p].lag = flight[i][p].lag
        /\ flight'[i][p].age = flight[i][p].age

LEMMA KeepsHeld ==
  ASSUME TypeInv, NEW i \in Instances, NEW p \in ProjectIDs, HeldOK(i, p), Keeps(i, p),
         \A x \in Resolved : \A n \in Nat : Recent(i, p, x, n) => Recent(i, p, x, n)'
  PROVE  HeldOK(i, p)'
<1>1. ASSUME cache'[i][p] # None
      PROVE  Recent(i, p, cache[i][p].res, cache[i][p].age + MaxLoad)'
  <2>1. PICK x \in Resolved, n \in Nat : x = cache[i][p].res /\ n = cache[i][p].age + MaxLoad
    BY <1>1, HeldType, Bounds, SMTT(20) DEF Keeps
  <2>2. x = cache'[i][p].res /\ n = cache'[i][p].age + MaxLoad
    BY <1>1, <2>1, Zenon DEF Keeps
  <2>3. Recent(i, p, x, n)'
    BY <1>1, <2>1 DEF HeldOK, Keeps
  <2> QED BY <2>2, <2>3, Zenon
<1>2. ASSUME flight'[i][p] # None, flight'[i][p].pc \in {"stamp", "store"}
      PROVE  Recent(i, p, flight[i][p].res, flight[i][p].lag + flight[i][p].age)'
  <2>1. PICK x \in Resolved, n \in Nat :
          x = flight[i][p].res /\ n = flight[i][p].lag + flight[i][p].age
    BY <1>2, HeldType DEF Keeps
  <2>2. x = flight'[i][p].res /\ n = flight'[i][p].lag + flight'[i][p].age
    BY <1>2, <2>1, Zenon DEF Keeps
  <2>3. Recent(i, p, x, n)'
    BY <1>2, <2>1, Zenon DEF HeldOK, Keeps
  <2> QED BY <2>2, <2>3, Zenon
<1> QED BY <1>1, <1>2 DEF HeldOK

\* A step that writes no row.
LEMMA QuietHistory ==
  ASSUME UNCHANGED <<projects, recent, enabled>>
  PROVE  /\ Current => Current'
         /\ \A i, p, x, n : Recent(i, p, x, n) => Recent(i, p, x, n)'
BY DEF Current, Recent

LEMMA QuietStep ==
  ASSUME TypeInv, StaleInv, UNCHANGED <<projects, recent, enabled>>,
         \A i \in Instances, p \in ProjectIDs : Keeps(i, p)
  PROVE  StaleInv'
<1>1. \A i \in Instances, p \in ProjectIDs : HeldOK(i, p)'
  BY KeepsHeld, QuietHistory DEF StaleInv
<1> QED BY <1>1, QuietHistory DEF StaleInv

LEMMA WriteStep ==
  ASSUME TypeInv, StaleInv, NEW q \in ProjectIDs, NEW row \in Project, write(q, row),
         UNCHANGED <<cache, flight>>
  PROVE  StaleInv'
<1>1. ASSUME NEW i \in Instances, NEW p \in ProjectIDs PROVE HeldOK(i, p)'
  <2>1. Keeps(i, p)
    BY DEF Keeps
  <2>2. HeldOK(i, p)
    BY DEF StaleInv
  <2> QED BY <2>1, <2>2, KeepsHeld, WriteKeepsRecent
<1> QED BY <1>1, WriteCurrent DEF StaleInv

LEMMA LoadStep ==
  ASSUME TypeInv, TypeInv', StaleInv, NEW i \in Instances, NEW p \in ProjectIDs, load(i, p)
  PROVE  StaleInv'
<1>1. PICK x \in Resolved : x = resolution(projects[p])
  BY ResolutionType DEF TypeInv, RowsOK
<1>2. UNCHANGED <<projects, cache, recent, enabled>>
  BY DEF load, history
<1>3. ASSUME NEW j \in Instances, NEW k \in ProjectIDs PROVE HeldOK(j, k)'
  <2>1. CASE j # i \/ k # p
    <3>1. flight'[j][k] = flight[j][k]
      BY <2>1 DEF load, TypeInv, FlightsOK
    <3>2. Keeps(j, k)
      BY <1>2, <3>1, Zenon DEF Keeps
    <3> QED BY <1>2, <3>2, KeepsHeld, QuietHistory, Zenon DEF StaleInv
  <2>2. CASE j = i /\ k = p
    <3>1. flight[i][p] # None /\ flight[i][p] \in Flight /\ flight[i][p].age = 0
      BY DEF load, TypeInv, FlightsOK, FlightOK
    <3>2. /\ flight'[i][p].res = x /\ flight'[i][p].lag = flight[i][p].lag
          /\ flight'[i][p].age = flight[i][p].age
      BY <1>1, <3>1, Zenon DEF load, TypeInv, FlightsOK, Flight
    <3>3. PICK n \in Nat : n = flight'[i][p].lag + flight'[i][p].age
      BY <3>2, <3>1, HeldType
    <3>4. Recent(i, p, x, n)'
      <4>1. Recent(i, p, x, 0)
        BY <1>1 DEF StaleInv, Current
      <4>2. Recent(i, p, x, n)
        BY <4>1, WeakerRecent
      <4> QED BY <1>2, <4>2, QuietHistory, Zenon
    <3>5. HeldOK(i, p)
      BY DEF StaleInv
    <3> QED BY <1>2, <2>2, <3>2, <3>3, <3>4, <3>5, Zenon DEF HeldOK, Recent
  <2> QED BY <2>1, <2>2
<1> QED BY <1>2, <1>3, QuietHistory DEF StaleInv
LEMMA StoreStep ==
  ASSUME TypeInv, StaleInv, NEW i \in Instances, NEW p \in ProjectIDs, store(i, p)
  PROVE  StaleInv'
<1> DEFINE f == flight[i][p]
<1>1. PICK S : cache' = [cache EXCEPT ![i] = [k \in ProjectIDs |->
                            IF k = p THEN [res |-> f.res, age |-> f.age]
                            ELSE IF k \in S THEN cache[i][k] ELSE None]]
  BY Zenon DEF store
<1>2. UNCHANGED <<projects, recent, enabled>> /\ flight' = [flight EXCEPT ![i][p] = None]
  BY DEF store
<1>3. ASSUME NEW j \in Instances, NEW k \in ProjectIDs PROVE HeldOK(j, k)'
  <2>1. CASE j # i \/ k # p
    <3>1. flight'[j][k] = flight[j][k] /\ cache'[j][k] \in {cache[j][k], None}
      BY <1>1, <1>2, <2>1, Zenon DEF TypeInv, FlightsOK, CacheOK
    <3>2. Keeps(j, k)
      BY <3>1, Zenon DEF Keeps
    <3> QED BY <1>2, <3>2, KeepsHeld, QuietHistory, Zenon DEF StaleInv
  <2>2. CASE j = i /\ k = p
    <3>1. /\ f # None /\ f.pc = "store" /\ f.res \in Resolved
          /\ f.lag \in Nat /\ f.age \in Nat /\ f.lag + f.age <= MaxLoad
      BY HeldType, Zenon DEF store
    <3>2. PICK x \in Resolved, m \in Nat, n \in Nat :
            x = f.res /\ m = f.lag + f.age /\ n = f.age + MaxLoad /\ m <= n
      <4>1. /\ f.lag + f.age \in Nat /\ f.age + MaxLoad \in Nat
            /\ f.lag + f.age <= f.age + MaxLoad
        BY <3>1, Bounds, SMTT(20)
      <4> QED BY <3>1, <4>1
    <3>3. Recent(i, p, x, m)
      BY <3>1, <3>2, SMTT(20) DEF StaleInv, HeldOK
    <3>4. Recent(i, p, x, n)'
      BY <1>2, <3>2, <3>3, WeakerRecent, QuietHistory, Zenon
    <3>5. cache'[i][p].res = x /\ cache'[i][p].age + MaxLoad = n /\ flight'[i][p] = None
      BY <1>1, <1>2, <3>2, Zenon DEF TypeInv, CacheOK, FlightsOK
    <3> QED BY <2>2, <3>4, <3>5, Zenon DEF HeldOK, Recent
  <2> QED BY <2>1, <2>2
<1> QED BY <1>2, <1>3, QuietHistory DEF StaleInv

LEMMA TickStep ==
  ASSUME TypeInv, StaleInv, Tick
  PROVE  StaleInv'
<1>1. ASSUME NEW i \in Instances, NEW p \in ProjectIDs, cache'[i][p] # None
      PROVE  Recent(i, p, cache[i][p].res, cache[i][p].age + MaxLoad)'
  <2> DEFINE e == cache[i][p]
  <2>1. e # None /\ e \in Entry /\ cache'[i][p] = [e EXCEPT !.age = older(@, TTL + 1)]
    BY <1>1 DEF Tick, TypeInv, CacheOK
  <2>2. cache'[i][p].res = e.res /\ cache'[i][p].age = older(e.age, TTL + 1) /\ e.age \in Nat
    BY <2>1, Bounds DEF Entry
  <2>3. PICK x \in Resolved, n \in Nat : x = e.res /\ n = e.age + MaxLoad
    <3>1. e.res \in Resolved /\ e.age + MaxLoad \in Nat
      BY <2>1, HeldType, Bounds
    <3> QED BY <3>1
  <2>4. CASE e.age < TTL + 1
    <3>1. cache'[i][p].age + MaxLoad = n + 1
      BY <2>2, <2>3, <2>4, Bounds DEF older
    <3>2. Recent(i, p, x, n)
      BY <2>1, <2>3 DEF StaleInv, HeldOK
    <3>3. Recent(i, p, x, n + 1)'
      BY <3>2, TickAgesRecent
    <3> QED BY <2>2, <2>3, <3>1, <3>3
  <2>5. CASE ~(e.age < TTL + 1)
    <3>1. PICK m \in Nat : n = m + 1 /\ m >= Bound
      <4>1. n >= Bound + 1
        BY <2>2, <2>3, <2>5, Bounds
      <4>2. n - 1 \in Nat /\ n = (n - 1) + 1 /\ n - 1 >= Bound
        BY <4>1, Bounds
      <4> QED BY <4>2
    <3>2. cache'[i][p].age + MaxLoad = m + 1
      BY <2>2, <2>3, <2>5, <3>1 DEF older
    <3>3. Recent(i, p, x, m + 1)'
      BY <3>1, TickAgesRecent
    <3> QED BY <2>2, <2>3, <3>2, <3>3
  <2> QED BY <2>4, <2>5
<1>2. ASSUME NEW i \in Instances, NEW p \in ProjectIDs, flight'[i][p] # None,
             flight'[i][p].pc \in {"stamp", "store"}
      PROVE  Recent(i, p, flight[i][p].res, flight[i][p].lag + flight[i][p].age)'
  <2> DEFINE f == flight[i][p]
  <2>1. /\ f # None /\ f.pc \in {"stamp", "store"} /\ f \in Flight
        /\ flight'[i][p] = IF f.pc = "stamp" THEN [f EXCEPT !.lag = @ + 1] ELSE [f EXCEPT !.age = @ + 1]
    BY <1>2 DEF Tick, TypeInv, FlightsOK
  <2>2. /\ flight'[i][p].res = f.res
        /\ flight'[i][p].lag + flight'[i][p].age = f.lag + f.age + 1
    BY <2>1, HeldType DEF Flight
  <2>3. PICK x \in Resolved, n \in Nat : x = f.res /\ n = f.lag + f.age
    <3>1. f.res \in Resolved /\ f.lag + f.age \in Nat
      BY <2>1, HeldType
    <3> QED BY <3>1
  <2>4. Recent(i, p, x, n)
    BY <2>1, <2>3 DEF StaleInv, HeldOK
  <2>5. Recent(i, p, x, n + 1)'
    BY <2>4, TickAgesRecent
  <2> QED BY <2>2, <2>3, <2>5
<1> QED BY <1>1, <1>2, TickCurrent, SMTT(20) DEF StaleInv, HeldOK

LEMMA StaleInit == Init => StaleInv
<1> SUFFICES ASSUME Init PROVE StaleInv
  OBVIOUS
<1>1. PICK x \in Resolved : x = resolution(None)
  BY ResolutionType
<1>2. \A p \in ProjectIDs : projects[p] = None /\ recent[p][x] = 0
  BY <1>1 DEF Init
<1> QED BY <1>1, <1>2 DEF Init, StaleInv, Current, HeldOK, Recent

LEMMA StaleNext ==
  ASSUME TypeInv, TypeInv', StaleInv, [Next]_vars
  PROVE  StaleInv'
<1>1. ASSUME UNCHANGED <<projects, recent, enabled, cache, flight>> PROVE StaleInv'
  BY <1>1, QuietStep, Zenon DEF Keeps
<1>2. ASSUME NEW r \in Requests, UpdateProject(r) PROVE StaleInv'
  <2>1. Shape(req[r])
    BY Zenon DEF TypeInv, HandlersOK
  <2>2. req[r].p \in ProjectIDs /\ patched(req[r].row, req[r].patch) \in Project
    BY <1>2, <2>1, PatchedType, Zenon DEF UpdateProject, Shape
  <2> QED BY <1>2, <2>2, WriteStep DEF UpdateProject
<1>3. ASSUME NEW r \in Requests, CreateProject(r) PROVE StaleInv'
  <2>1. Shape(req[r])
    BY DEF TypeInv, HandlersOK
  <2>2. /\ req[r].p \in ProjectIDs
        /\ [status |-> "active", model |-> req[r].patch.model, region |-> req[r].patch.region,
            budget |-> req[r].patch.budget] \in Project
    BY <1>3, <2>1, Zenon DEF CreateProject, Shape, Patch, Project
  <2> QED BY <1>1, <1>3, <2>2, WriteStep, Zenon DEF CreateProject
<1>4. ASSUME NEW r \in Requests, invalidate(r) \/ lookup(r) \/ Do(r) PROVE StaleInv'
  <2>1. ASSUME NEW i \in Instances, NEW p \in ProjectIDs PROVE Keeps(i, p)
    <3> DEFINE opened == [pc |-> "recheck", res |-> None, lag |-> 0, age |-> 0]
    <3>1. CASE invalidate(r)
      <4>1. cache'[i][p] \in {cache[i][p], None}
        <5>1. cache' = [cache EXCEPT ![req[r].i][req[r].p] = None]
          BY <3>1 DEF invalidate
        <5> QED BY <5>1 DEF TypeInv, CacheOK
      <4>2. flight' = flight
        BY <3>1 DEF invalidate
      <4> QED BY <4>1, <4>2 DEF Keeps
    <3>2. CASE lookup(r)
      <4>1. cache'[i][p] \in {cache[i][p], None}
        <5>1. PICK e : e = swept(cache[req[r].i][req[r].p])
          OBVIOUS
        <5>2. cache' = [cache EXCEPT ![req[r].i][req[r].p] = e]
          BY <3>2, <5>1, Zenon DEF lookup
        <5>3. e \in {cache[req[r].i][req[r].p], None}
          BY <5>1 DEF swept
        <5> QED BY <5>2, <5>3 DEF TypeInv, CacheOK
      <4>2. flight' = flight
        BY <3>2 DEF lookup
      <4> QED BY <4>1, <4>2 DEF Keeps
    <3>3. CASE Do(r)
      <4>1. cache' = cache
        BY <3>3 DEF Do
      <4>2. flight' = flight \/ flight' = [flight EXCEPT ![req[r].i][req[r].p] = opened]
        BY <3>3, Zenon DEF Do
      <4>3. flight'[i][p] \in {flight[i][p], opened}
        BY <4>2 DEF TypeInv, FlightsOK
      <4>4. opened.pc = "recheck"
        OBVIOUS
      <4> HIDE DEF opened
      <4> QED BY <4>1, <4>3, <4>4 DEF Keeps
    <3> QED BY <1>4, <3>1, <3>2, <3>3
  <2> QED BY <1>4, <2>1, QuietStep, SMTT(20) DEF invalidate, lookup, Do, history
<1>5. ASSUME NEW i \in Instances, NEW p \in ProjectIDs, Recheck(i, p) \/ LoadFails(i, p)
      PROVE  StaleInv'
  <2>1. flight[i][p] \in Flight
    BY <1>5 DEF Recheck, LoadFails, TypeInv, FlightsOK
  <2>2. ASSUME NEW j \in Instances, NEW k \in ProjectIDs PROVE Keeps(j, k)
    <3>1. cache'[j][k] \in {cache[j][k], None}
      BY <1>5 DEF Recheck, LoadFails, swept, TypeInv, CacheOK
    <3>2. flight'[j][k] \in {flight[j][k], None} \/ flight'[j][k] = [flight[i][p] EXCEPT !.pc = "load"]
      <4>1. \/ flight' = [flight EXCEPT ![i][p] = None]
            \/ flight' = [flight EXCEPT ![i][p].pc = "load"]
        BY <1>5 DEF Recheck, LoadFails
      <4>2. j \in DOMAIN flight /\ k \in DOMAIN flight[j] /\ i \in DOMAIN flight /\ p \in DOMAIN flight[i]
        BY Zenon DEF TypeInv, FlightsOK
      <4>3. CASE flight' = [flight EXCEPT ![i][p] = None]
        BY <4>2, <4>3
      <4>4. CASE flight' = [flight EXCEPT ![i][p].pc = "load"]
        BY <4>2, <4>4
      <4> QED BY <4>1, <4>3, <4>4, Zenon
    <3> QED BY <2>1, <3>1, <3>2 DEF Keeps, Flight
  <2> QED BY <1>5, <2>2, QuietStep DEF Recheck, LoadFails, history
<1>6. ASSUME NEW i \in Instances, NEW p \in ProjectIDs, Stamp(i, p) PROVE StaleInv'
  <2>1. flight[i][p] \in Flight
    BY <1>6 DEF Stamp, TypeInv, FlightsOK
  <2>2. \A j \in Instances, k \in ProjectIDs : Keeps(j, k)
    BY <1>6, <2>1 DEF Stamp, Keeps, TypeInv, FlightsOK, Flight
  <2> QED BY <1>6, <2>2, QuietStep DEF Stamp, history
<1>7. ASSUME NEW i \in Instances, Restart(i) PROVE StaleInv'
  <2>1. \A j \in Instances, k \in ProjectIDs : Keeps(j, k)
    BY <1>7 DEF Restart, Keeps, TypeInv, CacheOK, FlightsOK
  <2> QED BY <1>7, <2>1, QuietStep DEF Restart, history
<1>8. CASE Arrive
  BY <1>1, <1>8, ZenonT(30) DEF Arrive, Begin, Boot, ResolveRPC, CreateProjectRPC, UpdateProjectRPC
<1> QED BY <1>1, <1>2, <1>3, <1>4, <1>5, <1>6, <1>7, <1>8, LoadStep, StoreStep, TickStep, ZenonT(30)
        DEF Next, Work, Step, FlightStep, Fault, GetProject, Abort, vars, history
LEMMA StaleInvariant == Spec => []StaleInv
<1>1. TypeInv /\ TypeInv' /\ StaleInv /\ [Next]_vars => StaleInv'
  BY StaleNext
<1> QED BY <1>1, StaleInit, TypeInvariant, PTL DEF Spec
-----------------------------------------------------------------------------
(* What requests are answered with *)

\* A step answers requests of one project at one process, with a resolution of
\* the last TTL + MaxLoad ticks ...
Delivers ==
  \E i \in Instances, p \in ProjectIDs, x \in Resolved : \E R \in SUBSET Requests :
    /\ deliver(R, x) /\ Recent(i, p, x, Bound) /\ \A r \in R : req[r].i = i /\ req[r].p = p
    /\ UNCHANGED <<projects, recent, enabled>>

\* ... or forgets old answers at most.
Forgets == /\ DOMAIN answered' = Requests
           /\ \A r \in Requests : answered'[r] \in {answered[r], None}

LEMMA FreshIsRecent ==
  ASSUME TypeInv, StaleInv, NEW i \in Instances, NEW p \in ProjectIDs, fresh(cache[i][p])
  PROVE  cache[i][p].res \in Resolved /\ Recent(i, p, cache[i][p].res, Bound)
<1>1. cache[i][p] # None /\ cache[i][p].age <= TTL
  BY DEF fresh
<1>2. PICK x \in Resolved, n \in Nat : x = cache[i][p].res /\ n = cache[i][p].age + MaxLoad
  <2>1. cache[i][p].res \in Resolved /\ cache[i][p].age + MaxLoad \in Nat
    BY <1>1, HeldType, Bounds, SMTT(20)
  <2> QED BY <2>1
<1>3. n <= Bound
  BY <1>1, <1>2, HeldType, Bounds, SMTT(20)
<1>4. Recent(i, p, x, n)
  BY <1>1, <1>2, SMTT(20) DEF StaleInv, HeldOK
<1> QED BY <1>2, <1>3, <1>4, Bounds, WeakerRecent

LEMMA LoadedIsRecent ==
  ASSUME TypeInv, StaleInv, NEW i \in Instances, NEW p \in ProjectIDs, flight[i][p] # None,
         flight[i][p].pc = "store"
  PROVE  flight[i][p].res \in Resolved /\ Recent(i, p, flight[i][p].res, Bound)
<1>1. PICK x \in Resolved, n \in Nat : x = flight[i][p].res /\ n = flight[i][p].lag + flight[i][p].age
  <2>1. flight[i][p].res \in Resolved /\ flight[i][p].lag + flight[i][p].age \in Nat
    BY HeldType, SMTT(20)
  <2> QED BY <2>1, SMTT(20)
<1>2. n <= Bound
  BY <1>1, HeldType, Bounds, SMTT(20)
<1>3. Recent(i, p, x, n)
  BY <1>1 DEF StaleInv, HeldOK
<1> QED BY <1>1, <1>2, <1>3, Bounds, WeakerRecent, SMTT(20)

LEMMA AnswersAreRecent ==
  ASSUME TypeInv, StaleInv, [Next]_vars
  PROVE  Delivers \/ Forgets
<1>1. CASE answered' = answered
  BY <1>1 DEF Forgets, TypeInv, HistoryOK
<1>2. ASSUME NEW r \in Requests, NEW q, Begin(r, q) PROVE Forgets
  BY <1>2, SMTT(20) DEF Begin, Forgets, TypeInv, HistoryOK
<1>3. ASSUME NEW r \in Requests, lookup(r), answered' # answered PROVE Delivers
  <2> DEFINE i == req[r].i
             p == req[r].p
  <2>1. i \in Instances /\ p \in ProjectIDs
    BY <1>3, Zenon DEF lookup, TypeInv, HandlersOK, Shape
  <2>2. /\ fresh(cache[i][p]) /\ deliver({r}, cache[i][p].res)
        /\ UNCHANGED <<projects, recent, enabled>>
    BY <1>3, Zenon DEF lookup
  <2>3. cache[i][p].res \in Resolved /\ Recent(i, p, cache[i][p].res, Bound)
    BY <2>1, <2>2, FreshIsRecent
  <2>4. {r} \in SUBSET Requests /\ \A s \in {r} : req[s].i = i /\ req[s].p = p
    OBVIOUS
  <2> QED BY <2>1, <2>2, <2>3, <2>4, ZenonT(30) DEF Delivers
<1>4. \A i \in Instances, p \in ProjectIDs :
        /\ waiting(i, p) \in SUBSET Requests
        /\ \A s \in waiting(i, p) : req[s].i = i /\ req[s].p = p
  BY Zenon DEF waiting
<1>5. ASSUME NEW i \in Instances, NEW p \in ProjectIDs, Recheck(i, p), answered' # answered
      PROVE  Delivers
  <2>1. /\ fresh(cache[i][p]) /\ deliver(waiting(i, p), cache[i][p].res)
        /\ UNCHANGED <<projects, recent, enabled>>
    BY <1>5 DEF Recheck
  <2>2. cache[i][p].res \in Resolved /\ Recent(i, p, cache[i][p].res, Bound)
    BY <2>1, FreshIsRecent, Zenon
  <2> QED BY <1>4, <2>1, <2>2 DEF Delivers
<1>6. ASSUME NEW i \in Instances, NEW p \in ProjectIDs, store(i, p) PROVE Delivers
  <2>1. flight[i][p].res \in Resolved /\ Recent(i, p, flight[i][p].res, Bound)
    BY <1>6, LoadedIsRecent DEF store
  <2>2. deliver(waiting(i, p), flight[i][p].res) /\ UNCHANGED <<projects, recent, enabled>>
    BY <1>6 DEF store
  <2> QED BY <1>4, <2>1, <2>2 DEF Delivers
<1> QED BY <1>1, <1>2, <1>3, <1>5, <1>6, ZenonT(30)
        DEF Next, Work, Arrive, Boot, ResolveRPC, CreateProjectRPC, UpdateProjectRPC, Step, FlightStep,
            Fault, Tick, GetProject, CreateProject, UpdateProject, invalidate, Do, load, Stamp,
            LoadFails, Abort, Restart, vars, history

\* A suspension, or a pin to another data region, reaches every process within
\* TTL + MaxLoad ticks, whatever the TTL, the time a load takes, the size of the
\* cache and the number of processes, projects and requests.
THEOREM RefusalReaches == Spec => RefusalHolds
<1>1. TypeInv /\ StaleInv /\ [Next]_vars =>
        [\A r \in Requests :
           answered'[r] # answered[r] /\ answered'[r] # None /\ answered'[r].ok =>
             enabled[answered'[r].i][answered'[r].p] <= Bound]_vars
  <2> SUFFICES ASSUME TypeInv, StaleInv, [Next]_vars, NEW r \in Requests,
                      answered'[r] # answered[r], answered'[r] # None, answered'[r].ok
               PROVE  enabled[answered'[r].i][answered'[r].p] <= Bound
    OBVIOUS
  <2>1. Delivers
    BY AnswersAreRecent DEF Forgets
  <2>2. PICK i \in Instances, p \in ProjectIDs, x \in Resolved : \E R \in SUBSET Requests :
          /\ deliver(R, x) /\ Recent(i, p, x, Bound) /\ \A s \in R : req[s].i = i /\ req[s].p = p
          /\ UNCHANGED <<projects, recent, enabled>>
    BY <2>1, Zenon DEF Delivers
  <2>3. PICK R \in SUBSET Requests :
          deliver(R, x) /\ Recent(i, p, x, Bound) /\ \A s \in R : req[s].i = i /\ req[s].p = p
    BY <2>2, ZenonT(30)
  <2>4. r \in R
    BY <2>3 DEF deliver
  <2>5. /\ answered'[r].i = i /\ answered'[r].p = p
        /\ answered'[r].ok <=> ensureProjectActive(i, x)
    BY <2>3, <2>4, Zenon DEF deliver
  <2> QED BY <2>3, <2>5 DEF Recent
<1> QED BY <1>1, TypeInvariant, StaleInvariant, PTL DEF Spec, RefusalHolds
-----------------------------------------------------------------------------
(* Projects implements Registry *)

current == [p \in ProjectIDs |-> resolution(projects[p])]
told == [r \in Requests |->
           IF answered[r] = None THEN None ELSE [p |-> answered[r].p, res |-> answered[r].res]]

LEMMA PromisedInit == Init => Promised!Init
<1> SUFFICES ASSUME Init PROVE Promised!Init
  OBVIOUS
<1>1. current = [p \in ProjectIDs |-> resolution(None)]
  BY DEF Init, current
<1>2. told = [r \in Requests |-> None]
  BY DEF Init, told
<1> QED BY <1>1, <1>2 DEF Init, Promised!Init, current, told

LEMMA WritePromised ==
  ASSUME TypeInv, NEW q \in ProjectIDs, NEW row \in Project, write(q, row), answered' = answered
  PROVE  Promised!Next
<1>1. PICK x \in Resolved : x = resolution(row)
  BY ResolutionType
<1>2. current' = [current EXCEPT ![q] = x]
  BY <1>1, Zenon DEF current, write, TypeInv, RowsOK
<1>3. recent' = [recent EXCEPT ![q][x] = 0]
  BY <1>1, SMTT(20) DEF write
<1>4. told' = told
  BY DEF told
<1>5. Promised!Change(q, x)
  BY <1>2, <1>3, <1>4, Zenon DEF Promised!Change, current, told
<1> QED BY <1>5 DEF Promised!Next

LEMMA TickPromised ==
  ASSUME TypeInv, StaleInv, Tick
  PROVE  Promised!Next
<1>1. current' = current /\ told' = told
  BY Zenon DEF Tick, current, told
<1>2. ASSUME NEW p \in ProjectIDs, NEW x \in Resolved
      PROVE  recent'[p][x] = IF x = current[p] \/ recent[p][x] > Bound THEN recent[p][x]
                             ELSE recent[p][x] + 1
  <2>1. PICK y : y = resolution(projects[p])
    OBVIOUS
  <2>2. recent'[p][x] = IF x = y THEN 0 ELSE older(recent[p][x], Bound + 1)
    BY <2>1, Zenon DEF Tick
  <2>3. current[p] = y /\ recent[p][y] = 0
    BY <2>1, Zenon DEF current, StaleInv, Current
  <2>4. recent[p][x] \in 0..(Bound + 1)
    BY DEF TypeInv, HistoryOK
  <2>5. CASE x = y
    BY <2>2, <2>3, <2>5
  <2>6. CASE x # y /\ recent[p][x] > Bound
    <3>1. recent[p][x] = Bound + 1
      BY <2>4, <2>6, Bounds
    <3>2. older(recent[p][x], Bound + 1) = recent[p][x]
      BY <3>1, Bounds DEF older
    <3> QED BY <2>2, <2>6, <3>2
  <2>7. CASE x # y /\ ~(recent[p][x] > Bound)
    <3>1. older(recent[p][x], Bound + 1) = recent[p][x] + 1
      BY <2>4, <2>7, Bounds DEF older
    <3> QED BY <2>2, <2>3, <2>7, <3>1
  <2> QED BY <2>5, <2>6, <2>7, Zenon
<1>3. recent' = [p \in ProjectIDs |-> [x \in Resolved |->
                   IF x = current[p] \/ recent[p][x] > Bound THEN recent[p][x]
                   ELSE recent[p][x] + 1]]
  BY <1>2 DEF Tick
<1> QED BY <1>1, <1>3, Zenon DEF Promised!Next, Promised!Tick, current, told

LEMMA AnswerPromised ==
  ASSUME TypeInv, Delivers \/ Forgets, UNCHANGED <<projects, recent>>
  PROVE  Promised!Next
<1>1. current' = current
  BY DEF current
<1>2. ASSUME NEW r \in Requests
      PROVE  \/ told'[r] \in {told[r], None}
             \/ \E p \in ProjectIDs, x \in Resolved :
                  recent[p][x] <= Bound /\ told'[r] = [p |-> p, res |-> x]
  <2>1. CASE answered'[r] \in {answered[r], None}
    BY <2>1, SMTT(20) DEF told
  <2>2. ASSUME answered'[r] # answered[r], answered'[r] # None, Delivers
        PROVE  \E p \in ProjectIDs, x \in Resolved :
                 recent[p][x] <= Bound /\ told'[r] = [p |-> p, res |-> x]
    <3>1. PICK i \in Instances, p \in ProjectIDs, x \in Resolved, R \in SUBSET Requests :
            deliver(R, x) /\ Recent(i, p, x, Bound) /\ \A s \in R : req[s].i = i /\ req[s].p = p
      BY <2>2, ZenonT(30) DEF Delivers
    <3>2. r \in R
      BY <2>2, <3>1 DEF deliver
    <3>3. answered'[r].p = p /\ answered'[r].res = x
      BY <3>1, <3>2, Zenon DEF deliver
    <3>4. told'[r] = [p |-> p, res |-> x]
      BY <2>2, <3>3 DEF told
    <3> QED BY <3>1, <3>4 DEF Recent
  <2> QED BY <2>1, <2>2, SMTT(20) DEF Forgets
<1>3. DOMAIN told' = Requests
  BY Zenon DEF told
<1>4. Promised!Answer
  BY <1>1, <1>2, <1>3 DEF Promised!Answer, current, told
<1> QED BY <1>4 DEF Promised!Next

\* The registry with its caches implements the registry without them, up to
\* answers that are TTL + MaxLoad ticks old, for every TTL, load time, cache size
\* and number of processes, projects and requests.
THEOREM StalenessBounded == Spec => BoundedStaleness
<1>1. TypeInv /\ StaleInv /\ [Next]_vars => [Promised!Next]_<<current, recent, told>>
  <2> SUFFICES ASSUME TypeInv, StaleInv, [Next]_vars PROVE Promised!Next
    OBVIOUS
  <2>1. Delivers \/ Forgets
    BY AnswersAreRecent
  <2>2. CASE UNCHANGED <<projects, recent>>
    BY <2>1, <2>2, AnswerPromised
  <2>3. ASSUME NEW r \in Requests, UpdateProject(r) PROVE Promised!Next
    <3>1. Shape(req[r])
      BY Zenon DEF TypeInv, HandlersOK
    <3>2. req[r].p \in ProjectIDs /\ patched(req[r].row, req[r].patch) \in Project
      BY <2>3, <3>1, PatchedType DEF UpdateProject, Shape
    <3> QED BY <2>3, <3>2, WritePromised DEF UpdateProject
  <2>4. ASSUME NEW r \in Requests, CreateProject(r) PROVE Promised!Next
    <3>1. Shape(req[r])
      BY DEF TypeInv, HandlersOK
    <3>2. /\ req[r].p \in ProjectIDs
          /\ [status |-> "active", model |-> req[r].patch.model, region |-> req[r].patch.region,
              budget |-> req[r].patch.budget] \in Project
      BY <2>4, <3>1, Zenon DEF CreateProject, Shape, Patch, Project
    <3> QED BY <2>2, <2>4, <3>2, WritePromised, ZenonT(30) DEF CreateProject
  <2> QED BY <2>2, <2>3, <2>4, TickPromised, ZenonT(30)
          DEF Next, Work, Arrive, Boot, ResolveRPC, CreateProjectRPC, UpdateProjectRPC, Begin, Step,
              FlightStep, Fault, GetProject, invalidate, lookup, Do, Recheck, load, Stamp, store,
              LoadFails, Abort, Restart, vars, history
<1> QED BY <1>1, PromisedInit, TypeInvariant, StaleInvariant, PTL
        DEF Spec, BoundedStaleness, Promised!Spec, current, told
-----------------------------------------------------------------------------
(* Updates of one project that do not overlap *)

\* The behaviours of MCProjects are behaviours of Projects.
LEMMA PlannedProjects ==
  ASSUME plan \in Scenarios
  PROVE  Plan[plan].projects \subseteq ProjectIDs
<1>1. plan \in {"serve", "region", "evict", "patch", "lost", "late"}
  BY PlanAssumption DEF Plan
<1>2. Plan[plan].projects \in {One, ProjectIDs}
  BY <1>1, SMTT(20) DEF Plan
<1> QED BY <1>2, PlanAssumption, Zenon

LEMMA PlannedArrives ==
  ASSUME plan \in Scenarios, NEW r \in Requests, Admit(r)
  PROVE  Arrive
<1>1. desks \subseteq Instances /\ Home \in Instances
  BY PlanAssumption, Zenon DEF desks
<1>2. PatchOf(Plan[plan].patches) \subseteq Patch
  BY DEF PatchOf
<1> QED BY <1>1, <1>2, PlannedProjects DEF Admit, Arrive

LEMMA PlannedSteps == plan \in Scenarios /\ [MCNext]_mcVars => [Next]_vars
<1> SUFFICES ASSUME plan \in Scenarios, [MCNext]_mcVars PROVE [Next]_vars
  OBVIOUS
<1> QED BY PlannedArrives DEF MCNext, MCTick, mcVars, Next, Work

Updates(q, p) == q.op = "UpdateProject" /\ q.p = p

\* One update of a project at a time; the row it has read is the row that is
\* stored.
ApartInv ==
  /\ \A r, s \in Requests : \A p \in ProjectIDs :
       Updates(req[r], p) /\ Updates(req[s], p) => r = s
  /\ \A r \in Requests : req[r].pc = "put" =>
       req[r].op = "UpdateProject" /\ req[r].row = projects[req[r].p]

LEMMA IdleUpdatesNothing == Idle.pc # "put" /\ \A p \in ProjectIDs : ~Updates(Idle, p)
BY ConstantsAssumption, Zenon DEF Updates, Idle

\* A step other than an arrival.
Proceeds ==
  \/ Tick \/ Fault
  \/ \E r \in Requests : Step(r)
  \/ \E i \in Instances, p \in ProjectIDs : FlightStep(i, p)

\* How a request in flight goes on.
LEMMA RequestMoves ==
  ASSUME TypeInv, Proceeds, NEW s \in Requests
  PROVE  \/ req'[s] = Idle
         \/ /\ req'[s].op = req[s].op /\ req'[s].p = req[s].p
            /\ req'[s].pc = "put" =>
                 \/ req[s].pc = "put" /\ req'[s].row = req[s].row
                 \/ /\ req[s].op = "UpdateProject" /\ req'[s].row = projects[req[s].p]
                    /\ projects' = projects
<1>1. req \in [Requests -> Handler]
  BY Zenon DEF TypeInv, HandlersOK
<1>2. CASE req'[s] = req[s]
  BY <1>2
<1>3. ASSUME NEW r \in Requests, NEW pc \in {"join", "wait", "invalidate"}, Goto(r, pc), s = r
      PROVE  req'[s].op = req[s].op /\ req'[s].p = req[s].p /\ req'[s].pc # "put"
  BY <1>1, <1>3, Zenon DEF Goto, Handler
<1>4. ASSUME NEW r \in Requests, Goto(r, "join") \/ Goto(r, "wait") \/ Goto(r, "invalidate") \/ Return(r)
      PROVE  \/ req'[s] \in {req[s], Idle}
             \/ req'[s].op = req[s].op /\ req'[s].p = req[s].p /\ req'[s].pc # "put"
  <2>1. CASE s # r
    BY <1>1, <1>4, <2>1 DEF Goto, Return
  <2>2. CASE s = r
    BY <1>1, <1>3, <1>4, <2>2 DEF Return
  <2> QED BY <2>1, <2>2
<1>5. ASSUME NEW R, req' = [r \in Requests |-> IF r \in R THEN Idle ELSE req[r]]
      PROVE  req'[s] \in {req[s], Idle}
  BY <1>5
<1>6. ASSUME NEW r \in Requests, GetProject(r)
      PROVE  \/ req'[s] \in {req[s], Idle}
             \/ /\ req'[s].op = req[s].op /\ req'[s].p = req[s].p
                /\ req'[s].pc = "put" =>
                     /\ req[s].op = "UpdateProject" /\ req'[s].row = projects[req[s].p]
                     /\ projects' = projects
  <2> DEFINE q == req[r]
             row == projects[q.p]
  <2>1. PICK n : /\ req' = [req EXCEPT ![r] = n]
                 /\ \/ n = [q EXCEPT !.row = row, !.pc = "put"] /\ q.op = "UpdateProject"
                    \/ n = [q EXCEPT !.pc = "insert"]
                    \/ n = Idle
    BY <1>6, Zenon DEF GetProject
  <2>2. projects' = projects /\ q \in Handler
    BY <1>1, <1>6 DEF GetProject
  <2>3. req'[s] = IF s = r THEN n ELSE req[s]
    BY <1>1, <2>1
  <2>4. \/ n.op = q.op /\ n.p = q.p /\ n.row = row /\ q.op = "UpdateProject"
        \/ n.op = q.op /\ n.p = q.p /\ n.pc = "insert"
        \/ n = Idle
    BY <2>1, <2>2, Zenon DEF Handler
  <2> QED BY <2>2, <2>3, <2>4
<1>7. ASSUME NEW r \in Requests, Step(r)
      PROVE  \/ req'[s] \in {req[s], Idle}
             \/ /\ req'[s].op = req[s].op /\ req'[s].p = req[s].p
                /\ req'[s].pc = "put" =>
                     /\ req[s].op = "UpdateProject" /\ req'[s].row = projects[req[s].p]
                     /\ projects' = projects
  BY <1>4, <1>5, <1>6, <1>7, ZenonT(30) DEF Step, CreateProject, UpdateProject, invalidate, lookup, Do, deliver
<1>8. ASSUME NEW i \in Instances, NEW p \in ProjectIDs, FlightStep(i, p) \/ LoadFails(i, p)
      PROVE  req'[s] \in {req[s], Idle}
  BY <1>5, <1>8 DEF FlightStep, Recheck, load, Stamp, store, LoadFails, deliver
<1>9. CASE Tick
  BY <1>2, <1>9 DEF Tick
<1>10. ASSUME NEW r \in Requests, Abort(r) PROVE req'[s] \in {req[s], Idle}
  BY <1>1, <1>10 DEF Abort, Return
<1>11. ASSUME NEW i \in Instances, Restart(i) PROVE req'[s] \in {req[s], Idle}
  BY <1>11 DEF Restart
<1> QED BY <1>2, <1>7, <1>8, <1>9, <1>10, <1>11, Zenon DEF Proceeds, Fault

\* Who changes the row of a project.
LEMMA RowsMove ==
  ASSUME TypeInv, Proceeds, NEW p \in ProjectIDs, projects'[p] # projects[p]
  PROVE  \/ projects[p] = None
         \/ \E r \in Requests : /\ UpdateProject(r) /\ req[r].p = p /\ req[r].pc = "put"
                                /\ req'[r].pc = "invalidate"
<1>1. ASSUME NEW r \in Requests, UpdateProject(r)
      PROVE  req[r].p = p /\ req[r].pc = "put" /\ req'[r].pc = "invalidate"
  BY <1>1 DEF UpdateProject, write, Goto, TypeInv, RowsOK, HandlersOK, Handler
<1>2. ASSUME NEW r \in Requests, CreateProject(r) PROVE projects[p] = None
  BY <1>2 DEF CreateProject, write, TypeInv, RowsOK
<1> QED BY <1>1, <1>2, ZenonT(30)
        DEF Proceeds, Step, FlightStep, Fault, Tick, GetProject, invalidate, lookup, Do, Recheck, load,
            Stamp, store, LoadFails, Abort, Restart
LEMMA ApartStep ==
  ASSUME TypeInv, ApartInv, Proceeds
  PROVE  ApartInv'
<1>1. ASSUME NEW s \in Requests, NEW p \in ProjectIDs, Updates(req'[s], p) PROVE Updates(req[s], p)
  BY <1>1, RequestMoves, IdleUpdatesNothing, SMTT(20) DEF Updates
<1>2. ASSUME NEW s \in Requests, req'[s].pc = "put"
      PROVE  req'[s].op = "UpdateProject" /\ req'[s].row = projects'[req'[s].p]
  <2>1. /\ req'[s].op = req[s].op /\ req'[s].p = req[s].p
        /\ \/ req[s].pc = "put" /\ req'[s].row = req[s].row
           \/ /\ req[s].op = "UpdateProject" /\ req'[s].row = projects[req[s].p]
              /\ projects' = projects
    BY <1>2, RequestMoves, IdleUpdatesNothing
  <2>2. CASE req[s].pc = "put" /\ req'[s].row = req[s].row
    <3> DEFINE p == req[s].p
    <3>1. p \in ProjectIDs /\ req[s].row \in Project
      BY <2>2 DEF TypeInv, HandlersOK, Shape
    <3>2. req[s].op = "UpdateProject" /\ req[s].row = projects[p] /\ projects[p] # None
      BY <2>2, <3>1, ConstantsAssumption, Zenon DEF ApartInv
    <3>3. ASSUME projects'[p] # projects[p] PROVE FALSE
      <4>1. PICK r \in Requests : req[r].p = p /\ req[r].pc = "put" /\ req'[r].pc = "invalidate"
        BY <3>1, <3>2, <3>3, RowsMove, Zenon
      <4>2. Updates(req[r], p) /\ Updates(req[s], p)
        BY <3>2, <4>1, Zenon DEF Updates, ApartInv
      <4> QED BY <1>2, <3>1, <4>1, <4>2, Zenon DEF ApartInv
    <3> QED BY <2>1, <2>2, <3>2, <3>3, Zenon
  <2>3. CASE req[s].op = "UpdateProject" /\ req'[s].row = projects[req[s].p] /\ projects' = projects
    BY <2>1, <2>3
  <2> QED BY <2>1, <2>2, <2>3, Zenon
<1>3. \A r, s \in Requests : \A p \in ProjectIDs :
        Updates(req'[r], p) /\ Updates(req'[s], p) => r = s
  BY <1>1, Zenon DEF ApartInv
<1> QED BY <1>2, <1>3 DEF ApartInv, Updates

\* An arrival that the plan admits.
LEMMA ApartAdmit ==
  ASSUME TypeInv, ApartInv, ~Plan[plan].overlap, NEW r \in Requests, Admit(r)
  PROVE  ApartInv'
<1>1. req \in [Requests -> Handler]
  BY DEF TypeInv, HandlersOK
<1>2. ASSUME NEW q, Begin(r, q), q.pc # "put",
             \A p \in ProjectIDs : Updates(q, p) => \A s \in Requests : ~Updates(req[s], p)
      PROVE  ApartInv'
  <2>1. projects' = projects /\ \A s \in Requests : req'[s] = IF s = r THEN q ELSE req[s]
    BY <1>1, <1>2, Zenon DEF Begin
  <2>2. \A s, t \in Requests : \A p \in ProjectIDs :
          Updates(req'[s], p) /\ Updates(req'[t], p) => s = t
    BY <1>2, <2>1, Zenon DEF ApartInv
  <2>3. \A s \in Requests : req'[s].pc = "put" =>
          req'[s].op = "UpdateProject" /\ req'[s].row = projects'[req'[s].p]
    BY <1>2, <2>1, Zenon DEF ApartInv
  <2> QED BY <2>2, <2>3 DEF ApartInv, Updates
<1>3. ASSUME NEW q, Begin(r, q), q.pc # "put", q.op \in {"Boot", "Resolve", "CreateProject"}
      PROVE  ApartInv'
  BY <1>2, <1>3 DEF Updates
<1>4. ASSUME NEW i, Boot(r, i) PROVE ApartInv'
  <2> DEFINE x == [status |-> None, model |-> None, region |-> None, budget |-> 0]
             q == [Idle EXCEPT !.op = "Boot", !.pc = "get", !.i = i, !.p = DefaultProject, !.patch = x]
  <2>1. Begin(r, q) /\ q.pc = "get" /\ q.op = "Boot"
    BY <1>4 DEF Boot, Idle
  <2> HIDE DEF q
  <2> QED BY <1>3, <2>1
<1>5. ASSUME NEW i, NEW p, NEW x, ResolveRPC(r, i, p) \/ CreateProjectRPC(r, i, p, x)
      PROVE  ApartInv'
  <2> DEFINE q == [Idle EXCEPT !.op = "Resolve", !.pc = "lookup", !.i = i, !.p = p]
             c == [Idle EXCEPT !.op = "CreateProject", !.pc = "insert", !.i = i, !.p = p, !.patch = x]
  <2>1. Begin(r, q) \/ Begin(r, c)
    BY <1>5 DEF ResolveRPC, CreateProjectRPC
  <2>2. q.pc = "lookup" /\ q.op = "Resolve" /\ c.pc = "insert" /\ c.op = "CreateProject"
    BY DEF Idle
  <2> HIDE DEF q, c
  <2> QED BY <1>3, <2>1, <2>2
<1>6. ASSUME NEW i, NEW p, NEW x, UpdateProjectRPC(r, i, p, x), ~updating(p) PROVE ApartInv'
  <2> DEFINE q == [Idle EXCEPT !.op = "UpdateProject", !.pc = "get", !.i = i, !.p = p, !.patch = x]
  <2>1. Begin(r, q) /\ q.pc # "put" /\ q.p = p
    BY <1>6 DEF UpdateProjectRPC, Idle
  <2>2. \A s \in Requests : ~Updates(req[s], p)
    BY <1>6 DEF updating, Updates
  <2> HIDE DEF q
  <2> QED BY <1>2, <2>1, <2>2 DEF Updates
<1> QED BY <1>4, <1>5, <1>6 DEF Admit

LEMMA ApartInvariant == MCSpec => [](plan \in Scenarios /\ TypeInv /\ (~Plan[plan].overlap => ApartInv))
<1> DEFINE Inv == plan \in Scenarios /\ TypeInv /\ (~Plan[plan].overlap => ApartInv)
<1>1. MCInit => Inv
  <2> SUFFICES ASSUME MCInit PROVE ApartInv
    BY TypeInit DEF MCInit
  <2>1. \A r \in Requests : req[r] = Idle
    BY DEF MCInit, Init
  <2> QED BY <2>1, IdleUpdatesNothing DEF ApartInv
<1>2. Inv /\ [MCNext]_mcVars => Inv'
  <2> SUFFICES ASSUME Inv, [MCNext]_mcVars PROVE Inv'
    OBVIOUS
  <2>1. plan' = plan
    BY DEF MCNext, mcVars
  <2>2. [Next]_vars
    BY PlannedSteps
  <2>3. TypeInv'
    BY <2>2, TypeNext
  <2>4. ASSUME ~Plan[plan].overlap, ApartInv PROVE ApartInv'
    <3>1. CASE UNCHANGED vars
      BY <2>4, <3>1 DEF vars, ApartInv, Updates
    <3>2. ASSUME NEW r \in Requests, Admit(r) PROVE ApartInv'
      BY <2>4, <3>2, ApartAdmit
    <3>3. CASE Proceeds
      BY <2>4, <3>3, ApartStep, Zenon
    <3> QED BY <3>1, <3>2, <3>3, Zenon DEF MCNext, MCTick, mcVars, Proceeds
  <2> QED BY <2>1, <2>3, <2>4
<1> QED BY <1>1, <1>2, PTL DEF MCSpec

\* Between the read and the invalidate of an update there is only its write.
LEMMA OnlyUpdate ==
  ASSUME TypeInv, Proceeds, NEW r \in Requests, req[r].pc = "put", req'[r].pc = "invalidate"
  PROVE  UpdateProject(r)
<1>1. req \in [Requests -> Handler] /\ Idle.pc = "idle"
  BY DEF TypeInv, HandlersOK, Idle
<1>2. ASSUME req'[r] \in {req[r], Idle} PROVE FALSE
  BY <1>1, <1>2
<1>3. ASSUME NEW s \in Requests, Step(s), s # r PROVE FALSE
  BY <1>1, <1>2, <1>3, Zenon
     DEF Step, GetProject, CreateProject, UpdateProject, invalidate, lookup, Do, deliver, Goto, Return
<1>4. ASSUME Step(r) PROVE UpdateProject(r)
  BY <1>4, Zenon DEF Step, GetProject, CreateProject, invalidate, lookup, Do
<1>5. ASSUME NEW i \in Instances, NEW p \in ProjectIDs, FlightStep(i, p) \/ LoadFails(i, p) PROVE FALSE
  BY <1>2, <1>5 DEF FlightStep, Recheck, load, Stamp, store, LoadFails, deliver
<1>6. ASSUME NEW s \in Requests, Abort(s) PROVE FALSE
  BY <1>1, <1>2, <1>6 DEF Abort, Return
<1>7. ASSUME NEW i \in Instances, Restart(i) PROVE FALSE
  BY <1>2, <1>7 DEF Restart
<1>8. CASE Tick
  BY <1>2, <1>8 DEF Tick
<1> QED BY <1>3, <1>4, <1>5, <1>6, <1>7, <1>8, Zenon DEF Proceeds, Fault

\* UpdateProject overwrites only the fields the caller provides, whatever
\* creations, boots, failures and restarts interleave, if no two updates of one
\* project overlap: for every number of processes, projects and requests.
THEOREM PatchesKeepRest == MCSpec => PatchKeepsRestApart
<1> DEFINE Inv == plan \in Scenarios /\ TypeInv /\ (~Plan[plan].overlap => ApartInv)
<1>1. Inv /\ [MCNext]_mcVars => [~Plan[plan].overlap => \A r \in Requests : keepsRest(r)]_mcVars
  <2> SUFFICES ASSUME Inv, MCNext, ~Plan[plan].overlap, NEW r \in Requests,
                      req[r].pc = "put", req'[r].pc = "invalidate"
               PROVE  projects'[req[r].p] = patched(projects[req[r].p], req[r].patch)
    BY DEF keepsRest
  <2>1. req \in [Requests -> Handler] /\ Shape(req[r]) /\ Idle.pc = "idle"
    BY Zenon DEF TypeInv, HandlersOK, Idle
  <2>2. ASSUME NEW s \in Requests, Admit(s) PROVE FALSE
    BY <2>1, <2>2, ZenonT(30) DEF Admit, Boot, ResolveRPC, CreateProjectRPC, UpdateProjectRPC, Begin
  <2>3. UpdateProject(r)
    <3>1. Proceeds
      BY <2>2, Zenon DEF MCNext, MCTick, Proceeds
    <3> QED BY <3>1, OnlyUpdate
  <2>4. req[r].p \in ProjectIDs /\ req[r].row = projects[req[r].p]
    BY <2>1 DEF Shape, ApartInv
  <2> QED BY <2>3, <2>4, Zenon DEF UpdateProject, write, TypeInv, RowsOK
<1> QED BY <1>1, ApartInvariant, PTL DEF MCSpec, PatchKeepsRestApart
=============================================================================
