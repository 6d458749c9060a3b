------------------------------ MODULE Projects ------------------------------
(***************************************************************************)
(* The project registry and the per-process resolver cache in front of it  *)
(* (internal/service/projects.go), on several processes over one store.    *)
(*                                                                         *)
(* A data-plane request resolves its project: a cache lookup, then a load  *)
(* shared by every concurrent miss of the process (single-flight), then    *)
(* the residency and suspension guards.  An admin request reads, patches   *)
(* and writes the row and then invalidates the cache of its own process.   *)
(* Time passes in ticks; only the age of an entry matters, so ages are     *)
(* kept, saturating, in place of time stamps.  Names and the contents of   *)
(* models are left out: a model is a value.                                *)
(***************************************************************************)
EXTENDS Integers, FiniteSets

CONSTANTS
  ProjectIDs, DefaultProject,  \* DefaultProject: GATEWAY_DEFAULT_PROJECT_ID
  Instances, RegionOf,         \* the processes, and GATEWAY_DATA_REGION of each
  Requests,                    \* requests that may be in flight at the same time
  Models, Regions, Budgets,    \* what an admin may send
  MinMaxCheckReads,            \* config.MinMaxCheckReads
  TTL,                         \* resolverTTL, in ticks
  MaxEntries,                  \* resolverMaxEntries
  MaxLoad,                     \* bound: ticks between a load's read and its return
  None                         \* nil, the empty string, "no such row"

Project == [status : {"active", "suspended"}, model : Models \cup {None},
            region : Regions \cup {None}, budget : Budgets \cup {0, -1}]

\* What the data plane needs of a row.
Resolved == [model : Models \cup {None}, suspended : BOOLEAN,
             region : Regions \cup {None}, budget : Budgets \cup {0, -1}]

\* load's conversion of a row; a project that does not exist is unpinned,
\* active and has the default model.
resolution(row) ==
  IF row = None
  THEN [model |-> None, suspended |-> FALSE, region |-> None, budget |-> 0]
  ELSE [model |-> row.model, suspended |-> row.status = "suspended",
        region |-> row.region, budget |-> row.budget]

\* A patch: None (0 for the budget) leaves a field alone, "clear" (-1 for the
\* budget) reverts it.  Of a new project -1 is the budget: any negative number is
\* stored as it is, and means no budget.
Patch == [status : {"active", "suspended", None}, model : Models \cup {None},
          region : Regions \cup {None, "clear"}, budget : Budgets \cup {0, -1}]

ASSUME ConstantsAssumption ==
  /\ DefaultProject \in ProjectIDs
  /\ RegionOf \in [Instances -> Regions \cup {None}]
  /\ TTL \in Nat /\ MaxLoad \in Nat /\ MaxEntries \in Nat \ {0}
  /\ Budgets \subseteq Nat \ {0} /\ MinMaxCheckReads \in Nat
  /\ None \notin Models \cup Regions \cup Project \cup ProjectIDs \cup Instances
  /\ "clear" \notin Regions

VARIABLES
  projects,  \* projects table
  cache,     \* modelResolver.cache of each process
  flight,    \* modelResolver.sf of each process: the load in progress
  req,       \* the requests in flight
  recent,    \* ticks since a project last resolved to each value,
  enabled,   \* ticks since a process was last meant to serve a project, and
  answered   \* the last answer of each request (history only, all three)

vars == <<projects, cache, flight, req, recent, enabled, answered>>
history == <<recent, enabled, answered>>
Bound == TTL + MaxLoad

\* An entry's age counts up to TTL + 1; one stored late may be older at once.
Entry == [res : Resolved, age : 0..(Bound + 1)]
Flight == [pc : {"recheck", "load", "stamp", "store"}, res : Resolved \cup {None},
           lag : 0..MaxLoad, age : 0..MaxLoad]
Handler == [op : {"Resolve", "UpdateProject", "CreateProject", "Boot", None},
            pc : {"idle", "lookup", "join", "wait", "get", "insert", "put", "invalidate"},
            i : Instances \cup {None}, p : ProjectIDs \cup {None},
            patch : Patch \cup {None}, row : Project \cup {None}]
Idle == [op |-> None, pc |-> "idle", i |-> None, p |-> None, patch |-> None, row |-> None]

ValidateMaxCheckReads(n) == n > 0 => n >= MinMaxCheckReads

\* Every row, cache entry, load and request is well formed, and no stored budget
\* is positive and below the floor ValidateMaxCheckReads enforces.
TypeOK ==
  /\ projects \in [ProjectIDs -> Project \cup {None}]
  /\ \A p \in ProjectIDs : projects[p] # None => ValidateMaxCheckReads(projects[p].budget)
  /\ cache \in [Instances -> [ProjectIDs -> Entry \cup {None}]]
  /\ flight \in [Instances -> [ProjectIDs -> Flight \cup {None}]]
  /\ req \in [Requests -> Handler]

Init ==
  /\ projects = [p \in ProjectIDs |-> None]
  /\ cache = [i \in Instances |-> [p \in ProjectIDs |-> None]]
  /\ flight = [i \in Instances |-> [p \in ProjectIDs |-> None]]
  /\ req = [r \in Requests |-> Idle]
  /\ recent = [p \in ProjectIDs |-> [x \in Resolved |->
                 IF x = resolution(None) THEN 0 ELSE Bound + 1]]
  /\ enabled = [i \in Instances |-> [p \in ProjectIDs |-> 0]]
  /\ answered = [r \in Requests |-> None]
-----------------------------------------------------------------------------
(* The life of a request *)

Return(r) == req' = [req EXCEPT ![r] = Idle]
Goto(r, pc) == req' = [req EXCEPT ![r].pc = pc]
Begin(r, q) ==
  /\ req[r] = Idle
  /\ req' = [req EXCEPT ![r] = q]
  /\ answered' = [answered EXCEPT ![r] = None]
  /\ UNCHANGED <<projects, cache, flight, recent, enabled>>

\* A data-plane request for project p reaches process i.
ResolveRPC(r, i, p) ==
  Begin(r, [Idle EXCEPT !.op = "Resolve", !.pc = "lookup", !.i = i, !.p = p])

\* What CreateProject and UpdateProject accept: the budget clears the floor.
\* "clear" together with a value is refused by the shape of a patch.
validPatch(x) == ValidateMaxCheckReads(x.budget)

CreateProjectRPC(r, i, p, x) ==
  /\ validPatch(x) /\ x.status = None /\ x.region # "clear"
  /\ Begin(r, [Idle EXCEPT !.op = "CreateProject", !.pc = "insert", !.i = i, !.p = p,
                           !.patch = x])

UpdateProjectRPC(r, i, p, x) ==
  /\ validPatch(x)
  /\ Begin(r, [Idle EXCEPT !.op = "UpdateProject", !.pc = "get", !.i = i, !.p = p, !.patch = x])

\* EnsureDefaultProject, at boot.
Boot(r, i) ==
  Begin(r, [Idle EXCEPT !.op = "Boot", !.pc = "get", !.i = i, !.p = DefaultProject,
                        !.patch = [status |-> None, model |-> None, region |-> None, budget |-> 0]])

\* A request ends between two steps with no further effect (an error, a
\* cancelled context).  A request that waits for a load does not watch its
\* context, and nothing can fail between a write and its invalidate.
Abort(r) ==
  /\ req[r].pc \notin {"idle", "wait", "invalidate"}
  /\ Return(r)
  /\ UNCHANGED <<projects, cache, flight, history>>

\* Process i dies with its cache and its requests, and starts again.
Restart(i) ==
  /\ cache' = [cache EXCEPT ![i] = [p \in ProjectIDs |-> None]]
  /\ flight' = [flight EXCEPT ![i] = [p \in ProjectIDs |-> None]]
  /\ req' = [r \in Requests |-> IF req[r].i = i THEN Idle ELSE req[r]]
  /\ UNCHANGED <<projects, history>>
-----------------------------------------------------------------------------
(* The admin surface *)

\* Process i is meant to serve a project with this row.
meant(i, row) ==
  row # None => row.status = "active" /\ (RegionOf[i] = None \/ row.region \in {None, RegionOf[i]})

\* The row changes; the history records that it has just had both values.
write(p, row) ==
  /\ projects' = [projects EXCEPT ![p] = row]
  /\ recent' = [recent EXCEPT ![p][resolution(row)] = 0]
  /\ enabled' = [i \in Instances |-> [enabled[i] EXCEPT ![p] = IF meant(i, row) THEN 0 ELSE @]]

patched(row, x) ==
  [status |-> IF x.status = None THEN row.status ELSE x.status,
   model  |-> IF x.model = None THEN row.model ELSE x.model,
   region |-> IF x.region = "clear" THEN None ELSE IF x.region = None THEN row.region ELSE x.region,
   budget |-> IF x.budget < 0 THEN 0 ELSE IF x.budget = 0 THEN row.budget ELSE x.budget]

\* UpdateProject and EnsureDefaultProject read the row.  An update of a project
\* that does not exist fails; a boot creates it, and otherwise is over, whether
\* it accepts the region of the row or refuses to start.
GetProject(r) ==
  LET q   == req[r]
      row == projects[q.p]
  IN
  /\ q.pc = "get"
  /\ req' = [req EXCEPT ![r] =
               CASE q.op = "UpdateProject" /\ row # None -> [q EXCEPT !.row = row, !.pc = "put"]
                 [] q.op = "Boot" /\ row = None -> [q EXCEPT !.pc = "insert"]
                 [] OTHER -> Idle]
  /\ UNCHANGED <<projects, cache, flight, history>>

\* The store refuses a second row; the loser of two boots takes that for success.
CreateProject(r) ==
  LET q == req[r] IN
  /\ q.pc = "insert"
  /\ \/ /\ projects[q.p] = None
        /\ write(q.p, [status |-> "active", model |-> q.patch.model,
                       region |-> q.patch.region, budget |-> q.patch.budget])
        /\ Goto(r, "invalidate")
     \/ /\ projects[q.p] # None
        /\ Return(r)
        /\ UNCHANGED <<projects, recent, enabled>>
  /\ UNCHANGED <<cache, flight, answered>>

\* Mutant: a patch without a model resets it to the default.
UpdateProjectWipes(r) ==
  LET q == req[r] IN
  /\ q.pc = "put"
  /\ write(q.p, [patched(q.row, q.patch) EXCEPT !.model = q.patch.model])
  /\ Goto(r, "invalidate")
  /\ UNCHANGED <<cache, flight, answered>>

\* The whole row goes back, with every field the patch leaves alone as it was
\* read.
UpdateProject(r) ==
  LET q == req[r] IN
  /\ q.pc = "put"
  /\ write(q.p, patched(q.row, q.patch))
  /\ Goto(r, "invalidate")
  /\ UNCHANGED <<cache, flight, answered>>

invalidate(r) ==
  LET q == req[r] IN
  /\ q.pc = "invalidate"
  /\ cache' = [cache EXCEPT ![q.i][q.p] = None]
  /\ Return(r)
  /\ UNCHANGED <<projects, flight, history>>
-----------------------------------------------------------------------------
(* The guards of a data-plane request *)

\* regionServable: an instance or a project without a region goes with any.
regionServable(i, x) == RegionOf[i] = None \/ x.region = None \/ x.region = RegionOf[i]

\* Mutant: the suspension of a project is not looked at.
ensureProjectActiveRegionOnly(i, x) == regionServable(i, x)
\* ensureProjectActive, and the same tests at the head of Check, CheckSet,
\* Expand and ListObjects.
ensureProjectActive(i, x) == regionServable(i, x) /\ ~x.suspended
-----------------------------------------------------------------------------
(* modelResolver *)

\* Mutant: an entry never expires.
freshForever(e) == e # None
\* lookup finds an entry until its age exceeds the TTL ...
fresh(e) == e # None /\ e.age <= TTL
\* ... and deletes the entry it finds expired.
swept(e) == IF fresh(e) THEN e ELSE None

\* Requests R get the resolution x and act on it at once.
deliver(R, x) ==
  /\ req' = [r \in Requests |-> IF r \in R THEN Idle ELSE req[r]]
  /\ answered' = [r \in Requests |->
                    IF r \notin R THEN answered[r]
                    ELSE [i |-> req[r].i, p |-> req[r].p, res |-> x,
                          ok |-> ensureProjectActive(req[r].i, x)]]

lookup(r) ==
  LET q == req[r]
      e == cache[q.i][q.p]
  IN
  /\ q.pc = "lookup"
  /\ \/ fresh(e) /\ deliver({r}, e.res)
     \/ ~fresh(e) /\ Goto(r, "join") /\ UNCHANGED answered
  /\ cache' = [cache EXCEPT ![q.i][q.p] = swept(e)]
  /\ UNCHANGED <<projects, flight, recent, enabled>>

\* singleflight.Do: join the load in progress, or start one.
Do(r) ==
  LET q == req[r] IN
  /\ q.pc = "join"
  /\ Goto(r, "wait")
  /\ flight' = IF flight[q.i][q.p] # None THEN flight
               ELSE [flight EXCEPT ![q.i][q.p] =
                       [pc |-> "recheck", res |-> None, lag |-> 0, age |-> 0]]
  /\ UNCHANGED <<projects, cache, history>>

waiting(i, p) == {r \in Requests : req[r].pc = "wait" /\ req[r].i = i /\ req[r].p = p}

\* The second lookup, inside the flight.
Recheck(i, p) ==
  LET f == flight[i][p]
      e == cache[i][p]
  IN
  /\ f # None /\ f.pc = "recheck"
  /\ \/ /\ fresh(e)
        /\ deliver(waiting(i, p), e.res)
        /\ flight' = [flight EXCEPT ![i][p] = None]
     \/ /\ ~fresh(e)
        /\ flight' = [flight EXCEPT ![i][p].pc = "load"]
        /\ UNCHANGED <<req, answered>>
  /\ cache' = [cache EXCEPT ![i][p] = swept(e)]
  /\ UNCHANGED <<projects, recent, enabled>>

\* GetProject: the row is read now, and returns after at most MaxLoad ticks ...
load(i, p) ==
  /\ flight[i][p] # None /\ flight[i][p].pc = "load"
  /\ flight' = [flight EXCEPT ![i][p].pc = "stamp", ![i][p].res = resolution(projects[p])]
  /\ UNCHANGED <<projects, cache, req, history>>

\* ... and only then is it stamped with the time.
Stamp(i, p) ==
  /\ flight[i][p] # None /\ flight[i][p].pc = "stamp"
  /\ flight' = [flight EXCEPT ![i][p].pc = "store"]
  /\ UNCHANGED <<projects, cache, req, history>>

\* The leader's context ends or the store fails: every waiter gets the error.
LoadFails(i, p) ==
  /\ flight[i][p] # None /\ flight[i][p].pc = "load"
  /\ flight' = [flight EXCEPT ![i][p] = None]
  /\ req' = [r \in Requests |-> IF r \in waiting(i, p) THEN Idle ELSE req[r]]
  /\ UNCHANGED <<projects, cache, history>>

cached(c) == {p \in ProjectIDs : c[p] # None}

\* Mutant: nothing is evicted while the cache is just full.
evictedLate(c) ==
  IF Cardinality(cached(c)) <= MaxEntries THEN {cached(c)}
  ELSE {S \in SUBSET cached(c) : Cardinality(S) = MaxEntries - 1}
\* evictLocked, when the cache is full: the entries that may be left.  Expired
\* ones go first, then any until there is room for one more.
evicted(c) ==
  LET live == {p \in ProjectIDs : fresh(c[p])} IN
  IF Cardinality(cached(c)) < MaxEntries THEN {cached(c)}
  ELSE IF Cardinality(live) < MaxEntries THEN {live}
  ELSE {S \in SUBSET live : Cardinality(S) = MaxEntries - 1}

store(i, p) ==
  LET f == flight[i][p] IN
  /\ f # None /\ f.pc = "store"
  /\ \E S \in evicted(cache[i]) :
       cache' = [cache EXCEPT ![i] = [k \in ProjectIDs |->
                   IF k = p THEN [res |-> f.res, age |-> f.age]
                   ELSE IF k \in S THEN cache[i][k] ELSE None]]
  /\ flight' = [flight EXCEPT ![i][p] = None]
  /\ deliver(waiting(i, p), f.res)
  /\ UNCHANGED <<projects, recent, enabled>>

older(n, max) == IF n < max THEN n + 1 ELSE n

\* One tick.  A load that has read its row returns within MaxLoad ticks.
Tick ==
  /\ \A i \in Instances, p \in ProjectIDs :
       flight[i][p] # None => flight[i][p].lag + flight[i][p].age < MaxLoad
  /\ cache' = [i \in Instances |-> [p \in ProjectIDs |->
                 IF cache[i][p] = None THEN None
                 ELSE [cache[i][p] EXCEPT !.age = older(@, TTL + 1)]]]
  /\ flight' = [i \in Instances |-> [p \in ProjectIDs |->
                  LET f == flight[i][p] IN
                  CASE f # None /\ f.pc = "stamp" -> [f EXCEPT !.lag = @ + 1]
                    [] f # None /\ f.pc = "store" -> [f EXCEPT !.age = @ + 1]
                    [] OTHER -> f]]
  /\ recent' = [p \in ProjectIDs |-> [x \in Resolved |->
                  IF x = resolution(projects[p]) THEN 0 ELSE older(recent[p][x], Bound + 1)]]
  /\ enabled' = [i \in Instances |-> [p \in ProjectIDs |->
                   IF meant(i, projects[p]) THEN 0 ELSE older(enabled[i][p], Bound + 1)]]
  /\ UNCHANGED <<projects, req, answered>>
-----------------------------------------------------------------------------
Arrive ==
  \E r \in Requests, i \in Instances :
    \/ Boot(r, i)
    \/ \E p \in ProjectIDs :
         \/ ResolveRPC(r, i, p)
         \/ \E x \in Patch : CreateProjectRPC(r, i, p, x) \/ UpdateProjectRPC(r, i, p, x)

Step(r) ==
  \/ GetProject(r) \/ CreateProject(r) \/ UpdateProject(r) \/ invalidate(r)
  \/ lookup(r) \/ Do(r)

FlightStep(i, p) == Recheck(i, p) \/ load(i, p) \/ Stamp(i, p) \/ store(i, p)

Work ==
  \/ Arrive \/ Tick
  \/ \E r \in Requests : Step(r)
  \/ \E i \in Instances, p \in ProjectIDs : FlightStep(i, p)

Fault ==
  \/ \E r \in Requests : Abort(r)
  \/ \E i \in Instances : Restart(i)
  \/ \E i \in Instances, p \in ProjectIDs : LoadFails(i, p)

Next == Work \/ Fault

Spec == Init /\ [][Next]_vars

-----------------------------------------------------------------------------
(* Properties *)

\* store evicts before it inserts: the cache of a process never holds more than
\* resolverMaxEntries projects, however many a caller names.
CacheBounded == \A i \in Instances : Cardinality(cached(cache[i])) <= MaxEntries

\* The abstract registry: answers no older than TTL + MaxLoad ticks.
Promised == INSTANCE Registry WITH
  Resolutions <- Resolved, Unknown <- resolution(None),
  current  <- [p \in ProjectIDs |-> resolution(projects[p])],
  answered <- [r \in Requests |->
                 IF answered[r] = None THEN None
                 ELSE [p |-> answered[r].p, res |-> answered[r].res]]

\* What ensureProjectActive and the engine act on was true of the project within
\* the last TTL + MaxLoad ticks, whichever process answers and whatever loads,
\* invalidations, evictions and restarts came between.
BoundedStaleness == Promised!Spec

\* A suspension, or a pin to another data region, reaches every process: no
\* request is let through by a process that has not been meant to serve the
\* project for longer than TTL + MaxLoad ticks.
RefusalHolds ==
  [][\A r \in Requests :
       answered'[r] # answered[r] /\ answered'[r] # None /\ answered'[r].ok =>
         enabled[answered'[r].i][answered'[r].p] <= Bound]_vars

\* Request r writes the row it finds, with its patch applied.
keepsRest(r) ==
  req[r].pc = "put" /\ req'[r].pc = "invalidate" =>
    projects'[req[r].p] = patched(projects[req[r].p], req[r].patch)

\* UpdateProject overwrites only the fields the caller provides (projects.go:
\* 250-252): the row it leaves is the row it finds, with the patch applied.
PatchKeepsRest == [][\A r \in Requests : keepsRest(r)]_vars

\* No entry a process would serve from is out of date while no update is between
\* its write and its invalidate.  With one process this is what projects.go:60-61
\* says of the writing process.
NoStaleEntry ==
  \A i \in Instances, p \in ProjectIDs :
    fresh(cache[i][p]) /\ (\A r \in Requests : req[r].pc = "invalidate" => req[r].p # p) =>
      cache[i][p].res = resolution(projects[p])

\* A project that does not go on changing for ever is in the end answered from
\* its present row by every process, for good: the cache heals within the TTL.
Converges ==
  \A p \in ProjectIDs :
    \/ []<><<projects'[p] # projects[p]>>_vars
    \/ <>[](\A i \in Instances : fresh(cache[i][p]) => cache[i][p].res = resolution(projects[p]))
=============================================================================
