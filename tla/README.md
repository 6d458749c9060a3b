# Verification of the workspace service

TLA+ models of the workspace service, the TLC runs that check them on small
instances, and TLAPS proofs of results that should hold for every instance.
`PROJECT.json` maps each definition to the lines it models and lists the
components, hazards, runs, findings and theorems.

## The system

The service keeps, per *(project, tenant)* shard, workspaces and their members,
invitations, groups, paid seats and relation tuples. Access is decided by a
Zanzibar-style engine that reads tuples only, under the authorization model of the
project. Several processes run over one Postgres database, or one process over a
memory driver.

| part | code | module |
|---|---|---|
| workspaces, members, ownership, invitations | `internal/service/{workspaces,members,ownership,invitations,service}.go`, `internal/connect/workspace.go` | `Workspaces` |
| groups and enrollments | `internal/service/groups.go`, `internal/connect/group.go` | `Groups` |
| seats | `internal/service/seats.go`, seat calls of both drivers | `Seats`, `SeatsPostgres` |
| project registry, model resolver cache | `internal/service/projects.go`, `internal/connect/admin.go` | `Projects`, `Registry` |
| memory driver | `internal/repo/memory` | `Store`, keys in `Keys` |
| Postgres driver | `internal/repo/postgres/store.go` | `StorePostgres`, columns in `Wire` |
| schema migration | `internal/repo/postgres/store.go`, `cmd/workspace/main.go` | `Migration` |
| engine | `pkg/authz/{engine,checkset,expand,model,backstop}.go` | `Engine` |
| data plane, consistency tokens | `internal/service/{authz,batchcheck}.go`, `internal/consistencytoken` | `DataPlane` |
| conditions; model documents | `pkg/authz/{conditions,model_json}.go` | `Conditions`, `Models` |
| messages | `internal/connect/{authz,admin}.go` | `Wire` |
| authentication, middleware, scope | `internal/middleware`, `internal/connect/handler.go` | `Gateway` |
| rate limiter | `internal/connect/ratelimit.go` | `RateLimiter` |
| decision and audit log | `internal/{decisionlog,auditlog}` | `AsyncLog` |
| configuration; life of the process | `internal/config`, `cmd/workspace`, `workspaceserver` | `Config`, `Process` |

A handler of the service is a sequence of repository calls. Each call is atomic
in the memory driver (one hold of the mutex) and a transaction in the Postgres
driver; nothing is held between two calls. Most hard questions come from that: a
row and a tuple are two records of one fact, and a handler acts on a row it read
some calls ago.

## Modules

### Handlers over the store

**`Workspaces`** models one shard. `ws`, `rows`, `tuples`, `invs` are the tables;
`issued` the ids handed out (`newID` never repeats); `lapsed` the invitations past
`ExpiresAt`; `req` the handlers in flight, each with its arguments, the rows it has
read and its next call (`pc`). There is one action per repository call, named after
the call or the handler. `requireWorkspace` is `GetWorkspace` followed by `Check`;
the check of `admin` is two reads, because the default model defines it as `this` or
`owner`. `Abort` ends a handler between two calls: crash, cancelled context, store
error, inactive project or residency refusal. `OverlappingTransfers` says whether two
transfers of one workspace may be in flight. Left out: names, slugs, e-mail addresses
and time stamps; the generic `WriteRelationTuples`, which may write tuples of the
`workspace` namespace; and `DeprovisionUser`, which deletes a user's tuples and keeps
the membership rows. What is shown about rows and tuples is shown for the product
surface alone.

**`Groups`** has the group rows, the enrollment rows and the membership tuples of a
shard, with the same shape of handlers. An id is any string, so a user and a nested
group may carry the same one; `MemberKey` is what keeps them apart. A role check of
the owning workspace answers either way. `OverlappingChanges` says whether two
requests on one member of one group may be in flight. The generic write of the data
plane, `WriteRelationTuples`, may write tuples of the `group` namespace too, with no
regard for groups or enrollment rows; `bypassed` keeps which tuples it wrote or deleted
until a handler of this module changes them again. `DeprovisionUser` deletes a user's
tuples and keeps the rows (`erased`).

**`Projects`** is the registry on several processes: `cache` with TTL and eviction,
`flight` the single-flight load of each process, admin requests that read, patch,
write and invalidate, boots that register the default project. Time passes in ticks
and ages are kept in place of time stamps. A budget may be negative: CreateProject
stores one as it comes. **`Registry`** is the promise: an answer is what the
project resolves to, or resolved to at most `Bound` ticks ago.

**`DataPlane`** has WriteTuples (the check that the project is active, the write, the
token), Check, BatchCheck, ListObjects, DeprovisionUser and the export, each a sequence of
single store calls. A batch may be empty, and is then answered with no results. A check is
the engine's depth-first walk over direct tuples and nested groups, one read per step, with
its memo, its depth limit (`MaxDepth`) and its budget (`MaxReads`), so that others write
between two reads of one check. `Witness` keeps as history the tuples there were since a
question was begun (`ever`) and those that were there throughout (`always`). `Leads` says
who is under a node: there is a `Way` of tuples from the node to the user that visits no
node twice (`Simple`) and is no longer than the depth limit lets a walk go.

### Stores

**`Store`** is the memory driver, every call one step, and the abstract specification of
a driver. **`StorePostgres`** runs the same calls as transactions of statements under
READ COMMITTED: a statement sees the committed rows and its own writes, takes the rows
it has found one by one (`Lock`), waits for those that open transactions have written,
and after waiting looks again at what it waited for: a row that a committed DELETE
removed is no longer among the rows found. `DeadlockVictim` is Postgres breaking a cycle
of waits. **`Seats`** and **`SeatsPostgres`** do this for one sku, with the advisory
lock and the seat count. What describes Postgres and not this repository is marked
external in the map.

**`Migration`** has the state of each table's key and of the indexes, the advisory lock
with its deadline, and the statements of expand and contract, which share no transaction
but for the swap of an index or a key; `Fail` ends a migration or kills its process
between any two, and an index build that does not finish is left behind invalid.

### Engine

**`Engine`** has Check, CheckSet, Expand and ListObjects as recursive operators that
thread the evaluation state: nodes in progress, memo, cycles and depth limits met, reads
made. Marks and memo are kept under `visitKey`, which joins namespace, object and
relation with `:` and `#`; a name that contains a separator can give two nodes one key,
and `Model`s over such names are part of the run. `Granted` is the reference: the least
fixpoint of the rules, alternating through exclusions. Tuples come and go between
evaluations, in both orders a driver may return them.

### Boundary

**`Keys`** (strings as sequences of characters, because the question is whether two
identities can meet in one key; seat locks are compared before `hashtextextended`, whose
collisions are left out), **`Wire`** (messages, domain values, columns, JSON; the two
drivers in lock step), **`Conditions`** (typed fields, an error denies), **`Models`**
(documents as trees of optional fields, the form they are stored in, and the create and
update requests that carry them), **`Config`** (numbers and regions from the
environment, beside the validations of the same fields in a project), **`Gateway`** (the
way of a request through recovery, CORS, service authentication, limiters, scope and
region guard to the service and back, with the admin API behind its own limiter) and
**`RateLimiter`** (tokens and ticks; a call reads the clock before it takes the mutex).

### Process

**`AsyncLog`** is the bounded channel with its goroutine, drops and Close. **`Process`**
extends it with the life of the process: environment, repository, server (which may
refuse its region before there are logs, or fail after), requests that commit and then
log, SIGTERM, the shutdown deadline, and main's deferred calls last to first. Behind the
audit log stand zap's sampler, which keeps the first `Initial` equal lines of a second
and then every `Thereafter`-th, and the export, a queue of `QueueSize` lines that loses
what does not fit or what the collector refuses.

`MC*` modules choose what TLC enumerates. Where a module is looked at from several
sides, the variable `plan` (or `part`) names the scenario of a behaviour and the table
`Plan` says what arrives in it; it never changes what an action does.
`*Proofs` modules hold the proofs.

## Runs

| run | scenarios | shows |
|---|---|---|
| `workspaces` | `sequential`: 3 users, any number of requests, one at a time; `ownership`: 2 in flight, 3 arrivals, from any state of a team workspace; `personal`: 2 in flight, 3 arrivals, 2 workspaces, from empty | rows and role tuples agree and the recorded owner is an owner, wherever requests stopped (`AgreementAlone`, `RecordedOwnerAlone`); a personal workspace has one member and a user one of them (`PersonalIsPrivate`, `OnePersonalPerUser`); a workspace keeps an owner if its transfers do not overlap (`NeverOwnerless`); a settled invitation stays as it is, one request at a time (`SettledOnceAlone`) |
| `seats` | `race`: assign and deprovision; `waits`: assign and revoke; `alone`: one call at a time | no committed seat is beyond the cap its assignment read (`WithinCap`), with caps changing under it; calls end (`CallsEnd`); the statements implement `Seats` (`AloneAsMemory`) |
| `groups` | 2 requests in flight, ids that collide, erasure, generic tuple writes | enrollment rows and tuples agree, but for tuples the data plane wrote or an erasure took since (`RosterMatchesAccess`); nothing is left of a deleted group but tuples the data plane put there (`NothingOutlivesGroup`) |
| `projects` | `serve`, `region`, `evict`, `patch` on 2 processes | answers are at most TTL and load time old (`BoundedStaleness`: `Projects` implements `Registry`); a refusal reaches every process (`RefusalHolds`); caches are bounded and converge (`CacheBounded`, `Converges`); a patch keeps the rest where updates do not overlap (`PatchKeepsRestApart`) |
| `postgres` | `tuples`, `teams`, `invites`, `groups`: calls on different objects overlap; `personal`, `crossed`, `shared`: calls on the same ones too | every COMMIT is one call of `Store` (`ImplementsStore`, outside `crossed` and `shared`); changes and sequence commit together (`SeqAdvancesOnWrites`); both drivers' queries return the same (`CommittedReadsAgree`); two calls wait for each other only over two rows that both write, never over the sequence, and never two calls on workspaces and members (`LocksInOrder`) |
| `engine` | models `nest`, `block`, `deep`, `both`, `builtin`, `diamond`, `spelled`, every subset of their tuples | Check never allows what the rules deny, cycles and depth limit included (`NeverOverGrants`), and is exact without them (`ExactAnswers`); CheckSet is intersection (`SetsIntersect`); ListObjects returns what Check allows (`ListsEveryObject`); budgets are errors and no answers, shared groups are read once (`ReadsAreBounded`). Where two nodes share a visit key (`spelled`) only `NeverOverGrants` is claimed, and only of models that unite: under an intersection or an exclusion a mark left by the other node can change the answer either way |
| `dataplane` | `walk`, `deep`, `list`, `tokens`, `export` | an allow follows a way within the depth limit through tuples that were stored while the question was served, though perhaps never all at once; a deny, or an object missing from a list, contradicts no such way that was stored throughout (`AnswersHold`); a token is accepted by its shard and honoured (`TokensHold`); the export has what was held throughout (`ExportComplete`) |
| `migration` | `fleet`: 2 replicas and an operator, failures anywhere; `heal`: a replica and an operator who keep trying | whoever migrated can write (`MigratedCanWrite`); uniqueness is enforced at every moment (`AlwaysUnique`); the schema heals (`Heals`) |
| `process` | 3 requests at a time, a channel of 2, 6 writes, a sampler and an export queue of 1 | if the deadline was met, every committed write is a line on stderr, a counted drop, or was sampled out in a second with more lines than the sampler keeps; every line on stderr was exported or lost to a full queue or a failing collector (`Audited`); a stopped process exits (`Exits`) |
| `boundary` | one part at a time | `KeysApart`, `StoredAsSent`, `EveryGrantIsEarned`, `LoadsAsWritten`, `StartsUsable` (an instance runs only with regions a project can be pinned to, and with no budget that refuses ordinary checks), `ChargedWhereServed`, `RateBounded` (up to what refills while a call waits with its clock reading), each explained in `MCBoundary` |

Two runs are expected to fail. Each checks one sentence of the repository against the
code, and its counterexample is the finding.

| run | sentence | what happens |
|---|---|---|
| `workspaces_overlap` | "there is never a window with no owner" (`ownership.go:18-19`) | overlapping transfers demote each other's new owner |
| `seats_diverge` | "the seat count and the granted access can never diverge" (`seats.go:13`) | a revocation overlaps an assignment of the same user |

### Other departures

Further departures of the code from what its comments say. TLC finds the named property
violated with the configuration (`tlc -config X.cfg M`, where `M` is the `MC` module the
name starts with); where a change is given, with that configuration so changed and the
property in place of its own.

| configuration | property | what the repository says | what happens |
|---|---|---|---|
| `MCWorkspacesOrphan` | `NotOrphaned` | "a crash can never orphan a workspace's owner" (`workspaces.go:89-91`) | a crash between the row and its owner |
| `MCWorkspacesSuspend` | `SuspendedIsDenied` | "deletes the backing role tuple (so every Check denies immediately" (`members.go:120-122`) | a role change in between leaves the new role's tuple |
| `MCWorkspacesRevoked` | `RevokedStaysRevoked` | "Accepting a revoked invite fails." (`tests/coverage_e2e_test.go:154`) | an acceptance that read the row earlier overwrites the revocation |
| `MCGroups`, `OverlappingChanges = TRUE` | `RosterMatchesAccess` | "so the row and the tuple cannot diverge" (`groups.go:112-113`) | an enrollment row appears between the read and the bare tuple |
| `MCProjects`, `Scenarios = {"lost"}` | `PatchKeepsRest` | "suspending a project (status only) never wipes its custom model or name" (`projects.go:251-252`) | of two overlapping patches the later write puts back the other's old values |
| `MCProjects`, `Scenarios = {"late"}` | `NoStaleEntry` | "invalidated immediately on the writing process" (`projects.go:60`) | a load in flight stores the old row after the invalidation |
| `MCStorePostgres`, `Scenarios = {"tuples"}` | `AlwaysAdvances` | "Advance the shard's consistency sequence for ANY tuple mutation" (`memory.go:169-171`) | project-wide erasure advances none, in both drivers |
| `MCStorePostgresCascade` | `CascadeCommitted` | "removes the group, its member tuples, AND its enrollment rows" (`repository.go:95`) | an enrollment committed between two DELETEs stays |
| `MCEngineMembers` | `MembersSatisfy` | "the set of concrete users that satisfy it" (`checkset.go:91-92`) | an exclude side that holds everyone is ignored |
| `MCEngineConditions` | `SetsMeetConditions` | "a conditional grant behaves identically whether queried by a user or a userset" (`checkset.go:31-32`) | a set with everyone in it ignores the target's conditions |
| `MCDataPlaneLost` | `TokensAreHonoured` | "at least as fresh as the token" (`authz.go:71-72`) | the memory driver's sequence restarts and catches up |
| `MCDataPlane`, `Scenarios = {"export"}` | `ExportedIsConferred` | "the group id whose membership confers the grant" (`authz.go:272-273`) | a group id two tenants use joins one's membership to the other's grant |
| `MCMigration`, `Scenarios = {"fleet"}` | `ServingCanWrite` | "an expanded-but-not-contracted schema serves fine" (`main.go:194-196`) | a replica that timed out on the lock serves before anyone has expanded |

### Bounds

Every race found is between two handlers, so two are in flight where they interleave;
three requests log beside one goroutine in `process`, three calls share a bucket.

- *Workspaces.* Handlers of different workspaces share nothing but the uniqueness of
  personal workspaces, so one workspace is enough except in `personal`. Two users let a
  transfer go to and fro; three let an administrator act on someone else beside the
  owner. No handler tells `member` from `guest`. Arrivals are bounded where two
  requests are in flight, and behaviours end when they are used up: this run, the
  violation runs of it and `process`, which exits, are not checked for deadlock.
- *Seats.* Caps 0, 1, 2 with three users cover an empty cap, the last seat, and a cap
  lowered below the seats in use.
- *Groups.* The one group has the id of one of the users, the worst case for
  `MemberKey`.
- *Projects.* A TTL and a load time of one tick and a cache of one entry with two
  projects: expiry, eviction and overtaking all happen. Requests that resolve reach one
  process only, because no process reads another's cache.
- *StorePostgres.* One user, two ids, two tenants. Each plan's `seq`, at most `MaxSeq`,
  bounds how many changes there are, by refusing calls that would go beyond: `crossed`
  needs four for a group with rows and tuples that two calls then meet on.
- *Engine.* Eight to twelve tuples per model, chosen to close cycles through groups,
  parents and block lists; every subset of them is a state. The depth limit is 8, more
  than these nodes need, and 1 in `deep`. `spelled` has two nodes with one key. Orders
  are one and its reverse.
- *DataPlane.* Plans that start from any set of tuples need writes only beside a read,
  and two of them. `MaxReads` is small enough for the budget to run out, `MaxDepth` for a
  chain of three groups to be cut off.
- *Process.* The sampler keeps one line and then every second one, the export queue holds
  one: with six writes both overflow, and both empty again.
- *Migration.* Two tables, so that a migration can end between their widenings;
  one poll before the deadline distinguishes waiting from giving up.
- *Boundary.* Ids are all strings up to two characters over a letter and the separator;
  fields imitate the key's own syntax; numbers are the ones around each limit. A
  condition reads one field of the context, so two fields (`MaxFields`) let one matter
  and one not. `MaxSpent` bounds the buckets in use at a time, `MaxEdited` the
  variables set at a time, `MaxKeys` the keys in use at once, `MaxRules` the rules of a
  document, `MaxTime` and `MaxWait` the clock and the delay of a call.

Symmetry is used in `workspaces` and `dataplane`, which have no liveness.

### Fairness

- `CallsEnd`: a statement that can run does, and Postgres serves the
  waiters of a row or lock in order, so strong fairness of each statement. The deadlock
  detector runs. None of arrivals or of failures. That all calls of the Postgres driver
  return is not claimed: DeleteGroup takes tuples before enrollment rows and
  SetEnrollmentAndTuples the other way round, so they can wait for each other, and what
  Postgres then aborts is an error to the caller. `LocksInOrder` says which calls can.
- `Converges`: the clock advances and a load, which is one query, runs to its end.
  It is stated for projects that stop changing.
- `Heals`: processes take their next step; replicas are restarted by their supervisor;
  the operator tries both phases again and again, strongly fair because the lock may be
  taken whenever they look; failures stop at some point (`Settle`).
- `Exits`: main, the goroutine of the log and handlers are scheduled; a repository call
  ends.

Handlers have no liveness claims: each is a finite sequence of calls that wait for no
other request.

## Refinements

| detailed | abstract | where |
|---|---|---|
| `Projects` | `Registry` | proved: `StalenessBounded`; `BoundedStaleness` is `Registry`'s specification under `Promised` |
| `StorePostgres` | `Store` | `ImplementsStore`, for calls that do not overlap on one object, and for personal workspaces also when they do (not in `crossed` and `shared`, where they overlap) |
| `SeatsPostgres` | `Seats` | `AloneAsMemory`, one call at a time |
| `Process` | `AsyncLog` | proved: `ProcessLogs` |

The restriction on the two drivers is real: `seats_diverge` and
`MCStorePostgresCascade` show what overlapping calls commit.

## Proofs

Theorems hold for every value of the constants: any number of users, ids, processes
and requests in flight, any capacity, bound and time limit.

| theorem | states | module |
|---|---|---|
| `TypeCorrectness` | `Spec => []TypeOK` of `Workspaces` | `WorkspacesProofs` |
| `OwnerAlways` | `~OverlappingTransfers` implies `Spec => NeverOwnerless` | the same |
| `PersonalAlways`, `OnePersonalAlways` | `Spec => []PersonalIsPrivate`, `Spec => []OnePersonalPerUser` | the same |
| `RosterHolds`, `CascadeHolds` | `~OverlappingChanges` implies `Spec => []RosterMatchesAccess`, `Spec => []NothingOutlivesGroup`, tuples the data plane wrote past the handlers set aside | `GroupsProofs` |
| `CapHolds` | `Spec => WithinCap` of `SeatsPostgres` | `SeatsProofs` |
| `TypeCorrect`, `CacheFits` | `Spec => []TypeOK`, `Spec => []CacheBounded` of `Projects` | `ProjectsProofs` |
| `StalenessBounded`, `RefusalReaches` | `Spec => BoundedStaleness` (`Projects` implements `Registry`), `Spec => RefusalHolds` | the same |
| `PatchesKeepRest` | `MCSpec => PatchKeepsRestApart`, of the plans in which updates of one project do not overlap | the same |
| `AnswersAlways`, `ExportAlways` | `AnswersHold`, `ExportComplete` are invariants of `DataPlane` from any contents of the store | `DataPlaneProofs`, over `DataPlaneLemmas` |
| `TokensAlways` | `Durable` implies the same for `TokensHold` | the same |
| `MigratedWrites`, `UniqueAlways` | `Spec => []MigratedCanWrite`, `Spec => AlwaysUnique` of `Migration` | `MigrationProofs` |
| `OrderKept`, `CloseDrains` | `Spec => []InOrder`, `Spec => []Drained` of `AsyncLog` | `ProcessProofs` |
| `ProcessLogs` | `ProcSpec => Spec`: the process is a use of the log | the same |
| `AuditedAlways` | `ProcSpec => []Audited` of `Process` | the same |

*TypeCorrectness.* `TypeOK` is not inductive: an action reads fields that are `None`
until an earlier call has filled them in. `TypeInv` adds `Shape`, which says for each
`pc` which operations can be there and which fields are set. There is a lemma for what
each kind of step does to a handler, one for each repository call, then one case per
action.

*OwnerAlways.* `OwnerInv` adds that existing workspaces and those of transfers
under way have issued ids (so a deleted workspace never comes back), that one
transfer per workspace is in flight, and that once the new owner is promoted they
hold the `owner` tuple or the workspace is gone. Only the demotion deletes an
`owner` tuple, because handlers refuse to touch owner rows and grant other roles
only; when it runs, the new owner's is there and is another user's. The assumption
cannot be dropped: `workspaces_overlap`.

*PersonalAlways, OnePersonalAlways.* Every handler that refuses a personal workspace
does so on a row it read some calls ago. `PersonalInv` says why that is enough
(`Knows`): no handler changes or deletes a personal workspace, so its row is still the
one that was read, and a row read as a team's belongs to a team or is gone, since ids
are not issued twice. The same holds of the workspace an invitation names. Nothing is
assumed about overlaps.

*RosterHolds, CascadeHolds.* Both set aside what the data plane wrote past the handlers
(`bypassed`), and `RosterHolds` the tuples an erasure took. `GroupInv` adds what a
handler has learnt (`Learnt`): the group it read still exists, and whether the member is
tracked is still so, because only a request on the same member, or the deletion of the
group, could change it and none is in flight. The storage key of a member is shown to
name the member, also where a user and a group share an id. The assumption cannot be
dropped: see *Other departures*.

*CapHolds.* `CapInv` adds that one assignment is past the advisory lock, and that
one which has been admitted still fits: the seats held together with its own are
within the cap it read. Others can only remove seats meanwhile.

*CacheFits.* `evictLocked` is shown to leave room for one more entry, from the
cardinality of what it removes.

*StalenessBounded, RefusalReaches.* `StaleInv` says how far what a process holds can lag
behind: what a project resolves to now is current; a cache entry resolved to its value
at most its age and `MaxLoad` ticks ago; a load in progress as many ticks ago as have
passed since it read the row. An entry is used only below the TTL, which gives the bound
`TTL + MaxLoad`. The refinement maps a step that answers to an answer of `Registry`, a
tick to a tick and a write to a change.

*PatchesKeepRest.* `ApartInv`: one update of a project is in flight, and the row it has
read is the row that is stored. That creations, boots and failures of others do not
disturb this is the content of the proof.

*AnswersAlways.* A check reads one node at a time while others write. Let *E* be the
tuples there were at some moment since the question was begun, and *A* those that were
there all along. `Sound` says that the stack is a simple way in *E* from the queried node,
no longer than the limit allows; so the user, when met, ends such a way. For a deny, the
invariant `Explored` follows every simple way of *A* within the limit: it parts from the
stack at a node that is still to be looked at (`Pending`). A walk that ends has an empty
stack, hence there is none. What makes this hard is the memo, because a node is passed
over without a look when it is remembered, is on the stack, or is too deep. Remembered
nodes are on no way of *A* to the user at all, of whatever length (`Apart`). That is so
because a node is remembered only if nothing was passed over as a cycle or for its depth
since it was entered: the count kept in its frame is still the current one (`Counted`), and
then everything *A* has under it has been remembered before it (`Clean`). A node passed
over for its depth starts no way that is short enough; one that is on the stack, no simple
one. `Listed` carries the verdicts of a list to its end, and that the candidates contain
every object of *A*. The budget may end a walk at any read. `GoodStays` is the step of
everyone else: *E* grows and *A* shrinks, and what holds of a request goes on to hold.

*ExportAlways.* After the first read of an export its grants contain the direct grants of
*A*, hence every group through which the user held something throughout.

*TokensAlways.* `TokenInv`: sequences only grow, the write of a token is among those its
shard reflects, and a reader past `EnsureConsistency` has a token of its own shard or
none. A store that loses its data in a restart breaks it (`MCDataPlaneLost`).

*MigratedWrites, UniqueAlways.* `MigInv`: only the holder of the advisory lock is between
the first and the last statement of an expand or contract; every job of an expand is
done for good or still to do, and the swap of an index only runs when the temporary one
is valid and is of the right index. What an expand has established no one undoes: a
contract drops an index only where the key is composite.

*OrderKept, CloseDrains.* `Numbered` says that what was emitted and what is in the
channel are the accepted records, numbered in order. `LogInv` adds that the goroutine
ends only after quit and once it has emitted what is owed: what was accepted before
Close.

*AuditedAlways.* From `ProcessLogs` the log of a process satisfies `LogInv`. `Shape`
says what is open at each stage of main, and that a process which met its deadline has
no request in flight after it; `Counted` that committed writes are those in the channel
or emitted, those dropped and counted, and those of requests about to log; `Lines` that
an emitted record is on stderr or was sampled out, the latter only after a second with more
lines than are kept, and that a line on stderr is queued, exported or lost. At the exit of
such a process no request is about to log, and channel and queue are empty.

The assumptions on constants are named in the module that declares them. Each
`ConstantsAssumption` says that `None` is none of the values it stands beside and that
bounds are naturals; beyond that `DataPlane` assumes finitely many nodes, none of them a
user, and that batches, which may be empty, are sequences of questions, `Projects` a
positive cache size and the region of each process, `Migration` that the list of
widenings names tables and that indexes are not named like tables, `SeatConstants`
finitely many users and an `Unlimited` that is no cap, `AsyncLog` finitely many callers
and a positive capacity, `Process` a sampler with a positive `Thereafter` and a positive
queue (`SamplingAssumption`). `PlanAssumption` of `MCProjects` says that the plans are
among those of the table.

Everything else is checked by TLC only:

- `CallsEnd`, `Converges`, `Heals`, `Exits`: liveness is out of the prover's reach.
- The properties of `engine` and of `boundary` are about recursive operators and sequences
  of characters; what those compute would need induction over data.
- `AgreementAlone`, `RecordedOwnerAlone` and `SettledOnceAlone` hold one request at a time.
- `ImplementsStore`, `SeqAdvancesOnWrites`, `CommittedReadsAgree`, `LocksInOrder` and
  `AloneAsMemory` go through what a statement of Postgres sees; no inductive invariant for
  the transactions is given here.

## Not modelled

- The statements of the Postgres driver that read and write project rows are single
  statements on one row; `Projects` has them as steps, `Wire` their columns. The
  connection pool is left to `Process`, as far as closing it goes.
- Names, slugs, e-mail addresses, time stamps other than expiry, paging, histograms and
  the wording of errors: no property depends on them. Log lines are modelled as far as
  `Audited` counts those of the audit log; what they say, and all others, are left out.
- `ReadRelationTuples` and the other queries of a single store call, beyond what the two
  drivers return for them (`CommittedReadsAgree`).
- Conditions and rewrite rules while others write: `DataPlane` walks direct tuples and
  nested groups, `Engine` evaluates the rules on one state of the store.
- Two comments were read against the source only: the audit logger says it counts every drop
  (`zaplogger.go:72`), and a drop in the quit case is not counted (`zaplogger.go:77`); the
  decision-error metric says it covers validation errors (`metrics.go:42`), and two
  early returns do not record one (`connect/batchcheck.go:40`, `connect/authz.go:189`).
- The text of a consistency token and JSON syntax are libraries' work; the shard and
  sequence a token carries, and the tree of a document, are kept.
- A DELETE of `SeatsPostgres` that waits for a row which is deleted and inserted again
  meanwhile, and another sku of the same shard, which would only contend for the
  sequence row.
- The driver conformance suite and the code generators are tests and build-time tools.
- Generated protobuf and connect code.
