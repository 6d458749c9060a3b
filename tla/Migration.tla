----------------------------- MODULE Migration ------------------------------
(* Schema migration of the Postgres store: the expand phase every replica    *)
(* runs when it boots, and the contract phase an operator runs once the      *)
(* whole fleet has the new binary.  One session advisory lock serialises     *)
(* them; statements share no transaction, so a migration that fails or       *)
(* whose process dies leaves the schema between two statements, and an index *)
(* whose concurrent build did not finish is left behind invalid.             *)
EXTENDS Naturals, Sequences

CONSTANTS
  pkWidenings, \* the tables whose key is widened, in order
  Procs,       \* replicas and operators' commands
  Fleet,       \* those of Procs that are replicas of the service
  MaxPolls,    \* bound: tries for the lock before the deadline
  None

VARIABLES
  pk,        \* per table: None before it is created, "narrow" or "composite"
  index,     \* per index: None, "stale" (before tenant_id), "invalid", "valid"
  lock,      \* who holds the advisory lock
  proc,      \* the processes
  calm       \* nothing fails any more

vars == <<pk, index, lock, proc, calm>>

Tables == {pkWidenings[n] : n \in DOMAIN pkWidenings}
Personal == "workspaces_personal_uniq"
Temp == "workspaces_personal_uniq_new"
Subject == "relation_tuples_subject_user_idx"
Indexes == Tables \cup {Personal, Temp, Subject}

\* What an expand ensures, in order.
secondaryIndexes == <<Personal, Subject>>
Jobs == pkWidenings \o secondaryIndexes

ASSUME ConstantsAssumption ==
  /\ pkWidenings \in Seq(Tables)
  /\ {Personal, Temp, Subject} \cap Tables = {}
  /\ None \notin Procs \cup {"stale", "invalid", "valid", "narrow", "composite"}
  /\ Fleet \subseteq Procs /\ MaxPolls \in Nat

Down == [pc |-> "down"]

\* A fresh database, or one of the release before tenants.
Init ==
  /\ \/ /\ pk = [t \in Tables |-> None]
        /\ index = [i \in Indexes |-> None]
     \/ /\ pk = [t \in Tables |-> "narrow"]
        /\ index = [i \in Indexes |-> IF i = Personal THEN "stale" ELSE None]
  /\ lock = None
  /\ proc = [p \in Procs |-> Down]
  /\ calm = FALSE

to(p, pc) == proc' = [proc EXCEPT ![p].pc = pc]

\* Closing the connection gives the lock back.
unlock(p) == lock' = IF lock = p THEN None ELSE lock
-----------------------------------------------------------------------------
(* Starting and the lock *)

\* buildRepo of a replica with auto-migrate; runMigrate of a command.
start(p, kind) ==
  /\ proc[p].pc \in {"down", "exited"}
  /\ proc' = [proc EXCEPT ![p] = [pc |-> "lock", kind |-> kind, polls |-> 0, todo |-> << >>]]
  /\ UNCHANGED <<pk, index, lock, calm>>

buildRepo(p) == p \in Fleet /\ start(p, "boot")

runMigrate(p, kind) == p \notin Fleet /\ start(p, kind)

\* Mutant: no deadline.
acquireMigrationLockForever(p) ==
  /\ proc[p].pc = "lock"
  /\ IF lock = None
     THEN /\ lock' = p
          /\ proc' = [proc EXCEPT ![p].pc = IF proc[p].kind = "contract" THEN "contract" ELSE "schema",
                                  ![p].todo = Jobs]
     ELSE UNCHANGED <<lock, proc>>
  /\ UNCHANGED <<pk, index, calm>>
\* Polls until the deadline; ErrMigrationLockHeld stops a command, and lets a
\* replica serve without having migrated.
acquireMigrationLock(p) ==
  /\ proc[p].pc = "lock"
  /\ CASE lock = None ->
            /\ lock' = p
            /\ proc' = [proc EXCEPT ![p].pc = IF proc[p].kind = "contract" THEN "contract" ELSE "schema",
                                    ![p].todo = Jobs]
       [] lock # None /\ proc[p].polls < MaxPolls ->
            proc' = [proc EXCEPT ![p].polls = @ + 1] /\ UNCHANGED lock
       [] OTHER -> to(p, IF proc[p].kind = "boot" THEN "contended" ELSE "exited") /\ UNCHANGED lock
  /\ UNCHANGED <<pk, index, calm>>
-----------------------------------------------------------------------------
(* Expand *)

schemaSQL(p) ==
  /\ proc[p].pc = "schema"
  /\ pk' = [t \in Tables |-> IF pk[t] = None THEN "composite" ELSE pk[t]]
  /\ to(p, "ensure")
  /\ UNCHANGED <<index, lock, calm>>

next(p) == proc' = [proc EXCEPT ![p].pc = "ensure", ![p].todo = Tail(@)]

\* indexState, DROP of what an earlier build left invalid, CREATE ... IF NOT
\* EXISTS: one statement a step.
ensure(p, name, after) ==
  CASE index[name] = "invalid" -> index' = [index EXCEPT ![name] = None] /\ UNCHANGED proc
    [] index[name] = None ->
         /\ index' = [index EXCEPT ![name] = "invalid"]
         /\ proc' = [proc EXCEPT ![p].pc = "building"]
    [] OTHER -> to(p, after) /\ UNCHANGED index

\* The index the current job builds.
target(p) == LET job == Head(proc[p].todo) IN
  IF job = Personal /\ index[Personal] = "stale" THEN Temp ELSE job

\* The build of a concurrent index ends well.
buildDone(p) ==
  /\ proc[p].pc = "building"
  /\ index' = [index EXCEPT ![target(p)] = "valid"]
  /\ to(p, IF target(p) = Temp THEN "swap" ELSE "next")
  /\ UNCHANGED <<pk, lock, calm>>

\* Mutant: an index an earlier build left invalid is taken to be good.
expandWideningExisting(p) ==
  /\ proc[p].pc = "ensure" /\ proc[p].todo # << >> /\ Head(proc[p].todo) \in Tables
  /\ IF pk[Head(proc[p].todo)] = "composite" \/ index[Head(proc[p].todo)] # None
     THEN to(p, "next") /\ UNCHANGED index
     ELSE ensure(p, Head(proc[p].todo), "next")
  /\ UNCHANGED <<pk, lock, calm>>
\* A table that already has the wide key needs no index.
expandWidening(p) ==
  /\ proc[p].pc = "ensure" /\ proc[p].todo # << >> /\ Head(proc[p].todo) \in Tables
  /\ IF pk[Head(proc[p].todo)] = "composite" THEN to(p, "next") /\ UNCHANGED index
     ELSE ensure(p, Head(proc[p].todo), "next")
  /\ UNCHANGED <<pk, lock, calm>>

\* Mutant: the stale index goes first, then the new one is built.
expandSecondaryIndexDropFirst(p) ==
  /\ proc[p].pc = "ensure" /\ proc[p].todo # << >> /\ Head(proc[p].todo) \notin Tables
  /\ IF index[Head(proc[p].todo)] = "stale"
     THEN index' = [index EXCEPT ![Head(proc[p].todo)] = None] /\ UNCHANGED proc
     ELSE ensure(p, Head(proc[p].todo), "next")
  /\ UNCHANGED <<pk, lock, calm>>
\* A stale index stays while its replacement is built under another name.
expandSecondaryIndex(p) ==
  /\ proc[p].pc = "ensure" /\ proc[p].todo # << >> /\ Head(proc[p].todo) \notin Tables
  /\ ensure(p, target(p), IF target(p) = Temp THEN "swap" ELSE "next")
  /\ UNCHANGED <<pk, lock, calm>>

\* One transaction: drop the stale index, rename the new one.
swapStalePersonalIndex(p) ==
  /\ proc[p].pc = "swap"
  /\ index' = [index EXCEPT ![Personal] = index[Temp], ![Temp] = None]
  /\ to(p, "next")
  /\ UNCHANGED <<pk, lock, calm>>

\* The next job, or the end of the migration.
advance(p) ==
  /\ proc[p].pc = "next"
  /\ next(p)
  /\ UNCHANGED <<pk, index, lock, calm>>

Migrate(p) ==
  /\ proc[p].pc = "ensure" /\ proc[p].todo = << >>
  /\ to(p, IF proc[p].kind = "boot" THEN "migrated" ELSE "exited")
  /\ unlock(p)
  /\ UNCHANGED <<pk, index, calm>>
-----------------------------------------------------------------------------
(* Contract *)

\* One transaction: the old key goes, the index becomes the key.  A missing or
\* invalid index, or a table that is not there, is an error.
contractWidening(p, t) ==
  CASE pk[t] = "composite" -> proc' = [proc EXCEPT ![p].todo = Tail(@)] /\ UNCHANGED <<pk, index, lock>>
    [] pk[t] # "composite" /\ index[t] = "valid" ->
         /\ pk' = [pk EXCEPT ![t] = "composite"]
         /\ index' = [index EXCEPT ![t] = None]
         /\ proc' = [proc EXCEPT ![p].todo = Tail(@)] /\ UNCHANGED lock
    [] OTHER -> to(p, "exited") /\ unlock(p) /\ UNCHANGED <<pk, index>>

Contract(p) ==
  /\ proc[p].pc = "contract"
  /\ IF Head(proc[p].todo) \in Tables THEN contractWidening(p, Head(proc[p].todo))
     ELSE to(p, "exited") /\ unlock(p) /\ UNCHANGED <<pk, index>>
  /\ UNCHANGED calm
-----------------------------------------------------------------------------
(* Failures *)

Serving == {"migrated", "contended"}

\* A statement fails (its lock_timeout, the boot deadline), or the process dies:
\* the connection closes, an unfinished build stays behind invalid.
Fail(p) ==
  /\ ~calm /\ proc[p].pc \notin {"down", "exited"}
  /\ to(p, "exited")
  /\ unlock(p)
  /\ UNCHANGED <<pk, index, calm>>

\* From here on nothing fails.
Settle ==
  /\ ~calm /\ calm' = TRUE
  /\ UNCHANGED <<pk, index, lock, proc>>

Step(p) == \/ acquireMigrationLock(p) \/ schemaSQL(p) \/ expandWidening(p) \/ expandSecondaryIndex(p)
           \/ buildDone(p) \/ swapStalePersonalIndex(p) \/ advance(p) \/ Migrate(p) \/ Contract(p)

Next == Settle \/ \E p \in Procs : \/ buildRepo(p) \/ runMigrate(p, "expand") \/ runMigrate(p, "contract")
                                  \/ Step(p) \/ Fail(p)

Spec == Init /\ [][Next]_vars
-----------------------------------------------------------------------------
(* Properties *)

\* Some index enforces one personal workspace per owner.
unique == index[Personal] \in {"stale", "valid"} \/ index[Temp] = "valid"

\* Once personal workspaces are unique they stay so, through every replacement
\* of the index and every failure in the middle of one
\* (expandSecondaryIndex, swapStalePersonalIndex).
AlwaysUnique == [][unique => unique']_vars

\* ON CONFLICT needs a key on the composite columns.
upsertable == \A t \in Tables : pk[t] = "composite" \/ index[t] = "valid"

\* A replica that serves after its own migration can write, whatever state an
\* earlier attempt left behind and while others expand or contract
\* (Migrate, expandWidening).
MigratedCanWrite ==
  (\E p \in Fleet : proc[p].pc = "migrated") => upsertable /\ index[Personal] = "valid"

\* A replica that serves can write, also if it did not get the lock
\* (logBootMigrate).
ServingCanWrite == (\E p \in Fleet : proc[p].pc \in Serving) => upsertable

\* Expanded and contracted.
settled == upsertable /\ index[Personal] = "valid" /\ \A t \in Tables : pk[t] = "composite"
=============================================================================
