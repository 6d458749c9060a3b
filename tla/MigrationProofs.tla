-------------------------- MODULE MigrationProofs ---------------------------
(* What holds of migrations for any number of tables, replicas and commands, *)
(* and any number of attempts that fail part way.                            *)
EXTENDS Migration, SequenceTheorems, TLAPS

Names == Tables \cup {Personal, Subject}
Expanding == {"schema", "ensure", "building", "swap", "next"}
Holding == Expanding \cup {"contract"}
Process == [pc : Holding \cup {"lock", "contended", "migrated", "exited"},
            kind : {"boot", "expand", "contract"}, polls : Nat, todo : Seq(Names)]

SchemaOK ==
  /\ pk \in [Tables -> {None, "narrow", "composite"}]
  /\ index \in [Indexes -> {None, "stale", "invalid", "valid"}]
  /\ \A i \in Indexes : index[i] = "stale" => i = Personal
ProcsOK == proc \in [Procs -> Process \cup {Down}]
TypeInv == SchemaOK /\ ProcsOK

\* What a job of an expand leaves behind, for good.
established(job) ==
  /\ job \in Tables => pk[job] = "composite" \/ index[job] = "valid"
  /\ job = Personal => index[job] = "valid"

In(job, s) == \E n \in DOMAIN s : s[n] = job

\* What a process knows at each step of its migration.
Knows(q) ==
  /\ q.pc \in Expanding => \A job \in Names : established(job) \/ In(job, q.todo)
  /\ q.pc \in {"building", "swap", "next"} => q.todo # << >>
  /\ q.pc = "swap" => Head(q.todo) = Personal /\ index[Temp] = "valid"
  /\ q.pc = "next" => established(Head(q.todo))
  /\ q.pc = "contract" => In(Personal, q.todo)
  /\ q.pc = "migrated" => \A job \in Names : established(job)

MigInv ==
  /\ \A p \in Procs : proc[p].pc \in Holding => lock = p
  /\ \A p \in Procs : Knows(proc[p])
-----------------------------------------------------------------------------
(* The jobs of a migration *)

LEMMA JobsType == Jobs \in Seq(Names) /\ \A job \in Names : In(job, Jobs)
<1>1. pkWidenings \in Seq(Tables)
  BY ConstantsAssumption
<1> DEFINE s == <<Personal, Subject>>
           J == pkWidenings \o s
<1>2. pkWidenings \in Seq(Names) /\ s \in Seq(Names) /\ Len(s) = 2 /\ s[1] = Personal /\ s[2] = Subject
  BY <1>1 DEF Names
<1>3. /\ J \in Seq(Names) /\ Len(J) = Len(pkWidenings) + 2
      /\ \A n \in 1..Len(pkWidenings) : J[n] = pkWidenings[n]
      /\ J[Len(pkWidenings) + 1] = Personal /\ J[Len(pkWidenings) + 2] = Subject
  BY <1>2
<1>4. Jobs = J /\ Len(pkWidenings) \in Nat
  BY <1>1 DEF Jobs, secondaryIndexes
<1>5. ASSUME NEW job \in Names PROVE In(job, J)
  <2>1. DOMAIN J = 1..(Len(pkWidenings) + 2)
    BY <1>3
  <2>2. CASE job \in Tables
    <3>1. PICK n \in DOMAIN pkWidenings : job = pkWidenings[n]
      BY <2>2 DEF Tables
    <3>2. n \in 1..Len(pkWidenings)
      BY <1>1, <3>1
    <3> QED BY <1>3, <1>4, <2>1, <3>1, <3>2 DEF In
  <2>3. CASE job \in {Personal, Subject}
    <3> DEFINE m == Len(pkWidenings)
    <3>1. m + 1 \in DOMAIN J /\ m + 2 \in DOMAIN J
      BY <1>4, <2>1
    <3>2. J[m + 1] = Personal /\ J[m + 2] = Subject
      BY <1>3
    <3> HIDE DEF J, m
    <3> QED BY <2>3, <3>1, <3>2 DEF In
  <2> QED BY <2>2, <2>3 DEF Names
<1> QED BY <1>3, <1>4, <1>5, Zenon

LEMMA HeadAndTail ==
  ASSUME NEW s \in Seq(Names), s # << >>
  PROVE  /\ Head(s) \in Names /\ Tail(s) \in Seq(Names)
         /\ \A job : In(job, s) => job = Head(s) \/ In(job, Tail(s))
<1>1. Head(s) \in Names /\ Tail(s) \in Seq(Names) /\ Len(Tail(s)) = Len(s) - 1 /\ Head(s) = s[1]
  BY HeadTailProperties
<1>2. ASSUME NEW n \in DOMAIN s, n # 1 PROVE n - 1 \in DOMAIN Tail(s) /\ Tail(s)[n - 1] = s[n]
  BY <1>1, <1>2
<1> QED BY <1>1, <1>2 DEF In
-----------------------------------------------------------------------------
(* A step of one process *)

LEMMA DownIsDown == Down.pc = "down" /\ Down.pc \notin Holding
BY DEF Down, Holding, Expanding

\* A process that is not down has a kind and a list of jobs.
LEMMA Running ==
  ASSUME ProcsOK, NEW p \in Procs, proc[p].pc # "down"
  PROVE  proc[p] \in Process
BY DownIsDown DEF ProcsOK

LEMMA MovedTo ==
  ASSUME ProcsOK, NEW p \in Procs, proc[p] \in Process,
         NEW pc \in Holding \cup {"lock", "contended", "migrated", "exited"}, to(p, pc)
  PROVE  \E n \in Process : /\ proc' = [proc EXCEPT ![p] = n] /\ n.pc = pc
                            /\ n.kind = proc[p].kind /\ n.todo = proc[p].todo
<1> DEFINE n == [proc[p] EXCEPT !.pc = pc]
<1>1. n \in Process /\ n.pc = pc /\ n.kind = proc[p].kind /\ n.todo = proc[p].todo
  BY DEF Process
<1>2. proc' = [proc EXCEPT ![p] = n]
  BY DEF to
<1> HIDE DEF n
<1> QED BY <1>1, <1>2, Zenon

\* The invariant after a step of process p, from what the step does: only the
\* holder of the lock changes the schema, and it undoes nothing established.
LEMMA OneSteps ==
  ASSUME TypeInv, MigInv, NEW p \in Procs, NEW n \in Process, proc' = [proc EXCEPT ![p] = n],
         SchemaOK', UNCHANGED <<pk, index>> \/ proc[p].pc \in Holding,
         \A job \in Names : established(job) => established(job)',
         Knows(n)',
         \/ lock' = lock
         \/ lock = None /\ lock' = p
         \/ lock = p /\ lock' = None,
         n.pc \in Holding => lock' = p
  PROVE  TypeInv' /\ MigInv'
<1>1. \A q \in Procs : proc'[q] = IF q = p THEN n ELSE proc[q]
  BY DEF TypeInv, ProcsOK
<1>2. ProcsOK'
  BY <1>1 DEF TypeInv, ProcsOK
<1>3. ASSUME NEW q \in Procs, proc'[q].pc \in Holding PROVE lock' = q
  BY <1>1, <1>3, ConstantsAssumption DEF MigInv
<1>4. ASSUME NEW q \in Procs PROVE Knows(proc[q])'
  <2>1. CASE q = p
    BY <1>1, <2>1
  <2>2. CASE q # p /\ UNCHANGED <<pk, index>>
    BY <1>1, <2>2 DEF MigInv, Knows, established
  <2>3. CASE q # p /\ proc[p].pc \in Holding
    <3>1. proc[q].pc \notin Holding /\ proc'[q] = proc[q]
      BY <1>1, <2>3 DEF MigInv
    <3>2. Knows(proc[q])
      BY DEF MigInv
    <3> QED BY <3>1, <3>2 DEF Knows, Holding, Expanding
  <2> QED BY <2>1, <2>2, <2>3
<1> QED BY <1>2, <1>3, <1>4 DEF TypeInv, MigInv

\* The same, where the schema stays as it is.
LEMMA QuietStep ==
  ASSUME TypeInv, MigInv, NEW p \in Procs, NEW n \in Process, proc' = [proc EXCEPT ![p] = n],
         UNCHANGED <<pk, index>>, Knows(n),
         \/ lock' = lock
         \/ lock = None /\ lock' = p
         \/ lock = p /\ lock' = None,
         n.pc \in Holding => lock' = p
  PROVE  TypeInv' /\ MigInv'
<1>1. SchemaOK' /\ Knows(n)' /\ \A job \in Names : established(job) => established(job)'
  BY DEF TypeInv, SchemaOK, Knows, established
<1> QED BY <1>1, OneSteps, Zenon
-----------------------------------------------------------------------------
(* One lemma per action *)

LEMMA StartKeeps ==
  ASSUME TypeInv, MigInv, NEW p \in Procs, NEW kind \in {"boot", "expand", "contract"}, start(p, kind)
  PROVE  TypeInv' /\ MigInv'
<1> DEFINE n == [pc |-> "lock", kind |-> kind, polls |-> 0, todo |-> << >>]
<1>1. n \in Process /\ n.pc = "lock"
  BY DEF Process
<1>2. proc' = [proc EXCEPT ![p] = n] /\ UNCHANGED <<pk, index, lock>>
  BY DEF start
<1> HIDE DEF n
<1>3. Knows(n) /\ n.pc \notin Holding
  BY <1>1 DEF Knows, Holding, Expanding
<1> QED BY <1>1, <1>2, <1>3, QuietStep, Zenon

LEMMA LockKeeps ==
  ASSUME TypeInv, MigInv, NEW p \in Procs, acquireMigrationLock(p)
  PROVE  TypeInv' /\ MigInv'
<1>1. ProcsOK /\ proc[p] \in Process /\ UNCHANGED <<pk, index>>
  BY Running DEF TypeInv, acquireMigrationLock
<1>2. CASE lock = None
  <2> DEFINE n == [proc[p] EXCEPT !.pc = IF proc[p].kind = "contract" THEN "contract" ELSE "schema",
                                  !.todo = Jobs]
  <2>1. n \in Process /\ n.pc \in {"contract", "schema"} /\ n.todo = Jobs
    BY <1>1, JobsType, Zenon DEF Process, Holding, Expanding
  <2>2. proc' = [proc EXCEPT ![p] = n] /\ lock' = p
    BY <1>1, <1>2, Zenon DEF acquireMigrationLock, ProcsOK
  <2> HIDE DEF n
  <2>3. Knows(n)
    BY <2>1, JobsType DEF Knows, Names
  <2> QED BY <1>1, <1>2, <2>1, <2>2, <2>3, QuietStep, Zenon
<1>3. CASE lock # None /\ proc[p].polls < MaxPolls
  <2> DEFINE n == [proc[p] EXCEPT !.polls = @ + 1]
  <2>1. n \in Process /\ n.pc = "lock"
    BY <1>1 DEF Process, acquireMigrationLock
  <2>2. proc' = [proc EXCEPT ![p] = n] /\ lock' = lock
    BY <1>1, <1>3 DEF acquireMigrationLock, ProcsOK
  <2> HIDE DEF n
  <2>3. Knows(n) /\ n.pc \notin Holding
    BY <2>1 DEF Knows, Holding, Expanding
  <2> QED BY <1>1, <2>1, <2>2, <2>3, QuietStep, Zenon
<1>4. CASE lock # None /\ ~(proc[p].polls < MaxPolls)
  <2>1. PICK pc \in {"contended", "exited"} : to(p, pc)
    BY <1>4 DEF acquireMigrationLock
  <2>2. PICK n \in Process : proc' = [proc EXCEPT ![p] = n] /\ n.pc = pc
    BY <1>1, <2>1, MovedTo
  <2>3. Knows(n) /\ n.pc \notin Holding
    BY <2>2 DEF Knows, Holding, Expanding
  <2>4. lock' = lock
    BY <1>4 DEF acquireMigrationLock
  <2> QED BY <1>1, <2>2, <2>3, <2>4, QuietStep, Zenon
<1> QED BY <1>2, <1>3, <1>4

LEMMA SchemaKeeps ==
  ASSUME TypeInv, MigInv, NEW p \in Procs, schemaSQL(p)
  PROVE  TypeInv' /\ MigInv'
<1>1. ProcsOK /\ proc[p] \in Process /\ UNCHANGED <<index, lock>> /\ proc[p].pc = "schema"
  BY Running DEF TypeInv, schemaSQL
<1>2. PICK n \in Process : proc' = [proc EXCEPT ![p] = n] /\ n.pc = "ensure" /\ n.todo = proc[p].todo
  BY <1>1, MovedTo DEF schemaSQL, Holding, Expanding
<1>3. SchemaOK'
  BY <1>1 DEF schemaSQL, TypeInv, SchemaOK
<1>4. ASSUME NEW job \in Names, established(job) PROVE established(job)'
  BY <1>1, <1>4, ConstantsAssumption DEF schemaSQL, established
<1>5. Knows(proc[p]) /\ lock = p /\ proc[p].pc \in Holding
  BY <1>1 DEF MigInv, Holding, Expanding
<1>6. Knows(n)'
  BY <1>1, <1>2, <1>4, <1>5 DEF Knows, Expanding
<1> QED BY <1>1, <1>2, <1>3, <1>4, <1>5, <1>6, OneSteps, Zenon
\* A statement on one index.
LEMMA IndexSet ==
  ASSUME SchemaOK, NEW name \in Indexes, NEW state \in {None, "invalid", "valid"},
         index' = [index EXCEPT ![name] = state], UNCHANGED pk,
         state = "valid" \/ index[name] # "valid"
  PROVE  SchemaOK' /\ \A job \in Names : established(job) => established(job)'
<1>1. \A i \in Indexes : index'[i] = IF i = name THEN state ELSE index[i]
  BY DEF SchemaOK
<1>2. SchemaOK'
  BY <1>1, ConstantsAssumption DEF SchemaOK
<1>3. ASSUME NEW job \in Names, established(job) PROVE established(job)'
  BY <1>1, <1>3 DEF established, Names, Indexes
<1> QED BY <1>2, <1>3

LEMMA EnsureKeeps ==
  ASSUME TypeInv, MigInv, NEW p \in Procs, proc[p].pc = "ensure", proc[p].todo # << >>,
         NEW name \in Indexes, NEW after, index[name] # "stale",
         \/ after = "next" /\ name = Head(proc[p].todo)
         \/ after = "swap" /\ name = Temp /\ Head(proc[p].todo) = Personal,
         ensure(p, name, after), UNCHANGED <<pk, lock>>
  PROVE  TypeInv' /\ MigInv'
<1>1. ProcsOK /\ SchemaOK /\ proc[p] \in Process /\ Knows(proc[p]) /\ lock = p /\ proc[p].pc \in Holding
  BY Running DEF TypeInv, MigInv, Holding, Expanding
<1>2. CASE index[name] = "invalid"
  <2>1. index' = [index EXCEPT ![name] = None] /\ proc' = proc
    BY <1>2, ConstantsAssumption DEF ensure
  <2>2. SchemaOK' /\ \A job \in Names : established(job) => established(job)'
    BY <1>1, <1>2, <2>1, IndexSet, Zenon
  <2>3. PICK n \in Process : n = proc[p]
    BY <1>1
  <2>4. proc' = [proc EXCEPT ![p] = n]
    BY <1>1, <2>1, <2>3 DEF ProcsOK
  <2>5. Knows(n)'
    BY <1>1, <2>2, <2>3 DEF Knows, Expanding
  <2> QED BY <1>1, <2>2, <2>3, <2>4, <2>5, OneSteps, Zenon
<1>3. CASE index[name] = None
  <2>1. index' = [index EXCEPT ![name] = "invalid"] /\ to(p, "building")
    BY <1>3, ConstantsAssumption DEF ensure, to
  <2>2. SchemaOK' /\ \A job \in Names : established(job) => established(job)'
    BY <1>1, <1>3, <2>1, IndexSet, ConstantsAssumption, Zenon
  <2>3. PICK n \in Process : proc' = [proc EXCEPT ![p] = n] /\ n.pc = "building" /\ n.todo = proc[p].todo
    BY <1>1, <2>1, MovedTo DEF Holding, Expanding
  <2>4. Knows(n)'
    BY <1>1, <2>2, <2>3 DEF Knows, Expanding
  <2> QED BY <1>1, <2>2, <2>3, <2>4, OneSteps, Zenon
<1>4. CASE index[name] \notin {"invalid", None}
  <2>1. to(p, after) /\ UNCHANGED index
    BY <1>4 DEF ensure
  <2>2. index[name] = "valid"
    BY <1>1, <1>4 DEF SchemaOK
  <2>3. PICK n \in Process : proc' = [proc EXCEPT ![p] = n] /\ n.pc = after /\ n.todo = proc[p].todo
    BY <1>1, <2>1, MovedTo DEF Holding, Expanding
  <2>4. after = "next" => established(Head(proc[p].todo))
    BY <2>2 DEF established
  <2>5. Knows(n)
    BY <1>1, <2>2, <2>3, <2>4 DEF Knows, Expanding
  <2> QED BY <1>1, <2>1, <2>3, <2>5, QuietStep, Zenon
<1> QED BY <1>2, <1>3, <1>4

LEMMA WideningKeeps ==
  ASSUME TypeInv, MigInv, NEW p \in Procs, expandWidening(p)
  PROVE  TypeInv' /\ MigInv'
<1>1. ProcsOK /\ SchemaOK /\ proc[p] \in Process /\ Knows(proc[p]) /\ lock = p /\ proc[p].pc \in Holding
  BY Running DEF TypeInv, MigInv, Holding, Expanding, expandWidening
<1>2. PICK t \in Tables : t = Head(proc[p].todo)
  BY DEF expandWidening
<1>3. CASE pk[t] = "composite"
  <2>1. to(p, "next") /\ UNCHANGED <<pk, index, lock>>
    BY <1>2, <1>3 DEF expandWidening
  <2>2. PICK n \in Process : proc' = [proc EXCEPT ![p] = n] /\ n.pc = "next" /\ n.todo = proc[p].todo
    BY <1>1, <2>1, MovedTo DEF Holding, Expanding
  <2>3. established(t)
    BY <1>3, ConstantsAssumption DEF established
  <2>4. Knows(n)
    BY <1>1, <1>2, <2>2, <2>3 DEF Knows, Expanding, expandWidening
  <2> QED BY <1>1, <2>1, <2>2, <2>4, QuietStep, Zenon
<1>4. CASE pk[t] # "composite"
  <2>1. ensure(p, t, "next")
    BY <1>2, <1>4 DEF expandWidening
  <2>2. t \in Indexes /\ index[t] # "stale"
    BY <1>1, ConstantsAssumption DEF Indexes, SchemaOK
  <2> QED BY <1>2, <2>1, <2>2, EnsureKeeps DEF expandWidening
<1> QED BY <1>3, <1>4

LEMMA TargetType ==
  ASSUME SchemaOK, NEW p \in Procs, proc[p] \in Process, proc[p].todo # << >>
  PROVE  /\ target(p) \in Indexes /\ index[target(p)] # "stale"
         /\ \/ target(p) = Head(proc[p].todo) /\ target(p) # Temp
            \/ target(p) = Temp /\ Head(proc[p].todo) = Personal
<1>1. Head(proc[p].todo) \in Names
  BY HeadAndTail DEF Process
<1> QED BY <1>1, ConstantsAssumption DEF target, Names, Indexes, SchemaOK, Personal, Temp, Subject

LEMMA SecondaryKeeps ==
  ASSUME TypeInv, MigInv, NEW p \in Procs, expandSecondaryIndex(p)
  PROVE  TypeInv' /\ MigInv'
<1>1. SchemaOK /\ proc[p] \in Process /\ proc[p].todo # << >> /\ proc[p].pc = "ensure" /\ UNCHANGED <<pk, lock>>
  BY Running DEF TypeInv, expandSecondaryIndex
<1>2. target(p) \in Indexes
  BY <1>1, TargetType
<1>3. PICK name \in Indexes : name = target(p)
  BY <1>2
<1>4. /\ index[name] # "stale"
      /\ \/ name = Head(proc[p].todo) /\ name # Temp
         \/ name = Temp /\ Head(proc[p].todo) = Personal
  BY <1>1, <1>3, TargetType
<1>5. ensure(p, name, IF name = Temp THEN "swap" ELSE "next")
  BY <1>3 DEF expandSecondaryIndex
<1> QED BY <1>1, <1>4, <1>5, EnsureKeeps

LEMMA BuildKeeps ==
  ASSUME TypeInv, MigInv, NEW p \in Procs, buildDone(p)
  PROVE  TypeInv' /\ MigInv'
<1>1. /\ ProcsOK /\ SchemaOK /\ proc[p] \in Process /\ Knows(proc[p]) /\ lock = p
      /\ proc[p].pc = "building" /\ proc[p].pc \in Holding /\ UNCHANGED <<pk, lock>>
  BY Running DEF TypeInv, MigInv, Holding, Expanding, buildDone
<1>2. proc[p].todo # << >>
  BY <1>1 DEF Knows
<1>3. target(p) \in Indexes
  BY <1>1, <1>2, TargetType
<1>4. PICK name \in Indexes : name = target(p)
  BY <1>3
<1>5. \/ name = Head(proc[p].todo) /\ name # Temp
      \/ name = Temp /\ Head(proc[p].todo) = Personal
  BY <1>1, <1>2, <1>4, TargetType
<1>6. index' = [index EXCEPT ![name] = "valid"] /\ to(p, IF name = Temp THEN "swap" ELSE "next")
  BY <1>4 DEF buildDone
<1>7. SchemaOK' /\ \A job \in Names : established(job) => established(job)'
  BY <1>1, <1>6, IndexSet, Zenon
<1>8. index'[name] = "valid"
  BY <1>1, <1>6 DEF SchemaOK
<1>9. PICK n \in Process : /\ proc' = [proc EXCEPT ![p] = n] /\ n.todo = proc[p].todo
                           /\ n.pc = IF name = Temp THEN "swap" ELSE "next"
  BY <1>1, <1>6, MovedTo DEF Holding, Expanding
<1>10. name # Temp => established(Head(n.todo))'
  BY <1>5, <1>8, <1>9 DEF established
<1>11. Knows(n)'
  BY <1>1, <1>2, <1>5, <1>7, <1>8, <1>9, <1>10 DEF Knows, Expanding
<1> QED BY <1>1, <1>7, <1>9, <1>11, OneSteps, Zenon
LEMMA SwapKeeps ==
  ASSUME TypeInv, MigInv, NEW p \in Procs, swapStalePersonalIndex(p)
  PROVE  TypeInv' /\ MigInv'
<1>1. /\ ProcsOK /\ SchemaOK /\ proc[p] \in Process /\ Knows(proc[p]) /\ lock = p
      /\ proc[p].pc = "swap" /\ proc[p].pc \in Holding /\ UNCHANGED <<pk, lock>> /\ to(p, "next")
  BY Running DEF TypeInv, MigInv, Holding, Expanding, swapStalePersonalIndex
<1>2. index[Temp] = "valid" /\ Head(proc[p].todo) = Personal /\ proc[p].todo # << >>
  BY <1>1 DEF Knows
<1>3. \A i \in Indexes : index'[i] = IF i = Temp THEN None ELSE IF i = Personal THEN "valid" ELSE index[i]
  BY <1>1, <1>2 DEF swapStalePersonalIndex, SchemaOK, Indexes
<1>4. index' \in [Indexes -> {None, "stale", "invalid", "valid"}]
  BY <1>1, <1>2, Zenon DEF swapStalePersonalIndex, SchemaOK
<1>5. SchemaOK'
  BY <1>1, <1>3, <1>4, ConstantsAssumption DEF SchemaOK
<1>6. ASSUME NEW job \in Names, established(job) PROVE established(job)'
  BY <1>1, <1>3, <1>6, ConstantsAssumption DEF established, Names, Indexes, Personal, Temp, Subject
<1>7. PICK n \in Process : proc' = [proc EXCEPT ![p] = n] /\ n.pc = "next" /\ n.todo = proc[p].todo
  BY <1>1, MovedTo DEF Holding, Expanding
<1>8. established(Personal)'
  BY <1>3, ConstantsAssumption DEF established, Indexes, Personal, Temp
<1>9. Knows(n)'
  BY <1>1, <1>2, <1>6, <1>7, <1>8 DEF Knows, Expanding
<1> QED BY <1>1, <1>5, <1>6, <1>7, <1>9, OneSteps, Zenon

LEMMA AdvanceKeeps ==
  ASSUME TypeInv, MigInv, NEW p \in Procs, advance(p)
  PROVE  TypeInv' /\ MigInv'
<1>1. /\ ProcsOK /\ proc[p] \in Process /\ Knows(proc[p]) /\ lock = p /\ proc[p].pc = "next"
      /\ UNCHANGED <<pk, index, lock>>
  BY Running DEF TypeInv, MigInv, Holding, Expanding, advance
<1>2. proc[p].todo \in Seq(Names) /\ proc[p].todo # << >> /\ established(Head(proc[p].todo))
  BY <1>1 DEF Knows, Process
<1>3. /\ Tail(proc[p].todo) \in Seq(Names)
      /\ \A job : In(job, proc[p].todo) => job = Head(proc[p].todo) \/ In(job, Tail(proc[p].todo))
  BY <1>2, HeadAndTail
<1> DEFINE n == [proc[p] EXCEPT !.pc = "ensure", !.todo = Tail(@)]
<1>4. n \in Process /\ n.pc = "ensure" /\ n.todo = Tail(proc[p].todo)
  BY <1>1, <1>3, Zenon DEF Process, Holding, Expanding
<1>5. proc' = [proc EXCEPT ![p] = n]
  BY <1>1, Zenon DEF advance, next, ProcsOK
<1> HIDE DEF n
<1>6. \A job \in Names : established(job) \/ In(job, Tail(proc[p].todo))
  BY <1>1, <1>2, <1>3 DEF Knows, Expanding
<1>7. Knows(n)
  BY <1>4, <1>6 DEF Knows
<1> QED BY <1>1, <1>4, <1>5, <1>7, QuietStep, Zenon

\* Every way out closes the connection, and with it the lock.
LEMMA LeaveKeeps ==
  ASSUME TypeInv, MigInv, NEW p \in Procs, proc[p] \in Process, NEW pc \in {"exited", "migrated"},
         to(p, pc), unlock(p), UNCHANGED <<pk, index>>,
         pc = "migrated" => \A job \in Names : established(job)
  PROVE  TypeInv' /\ MigInv'
<1>1. PICK n \in Process : proc' = [proc EXCEPT ![p] = n] /\ n.pc = pc
  BY MovedTo DEF TypeInv
<1>2. Knows(n) /\ n.pc \notin Holding
  BY <1>1 DEF Knows, Holding, Expanding
<1> QED BY <1>1, <1>2, QuietStep, Zenon DEF unlock

LEMMA MigrateKeeps ==
  ASSUME TypeInv, MigInv, NEW p \in Procs, Migrate(p)
  PROVE  TypeInv' /\ MigInv'
<1>1. proc[p] \in Process /\ Knows(proc[p]) /\ proc[p].pc = "ensure" /\ proc[p].todo = << >>
  BY Running DEF TypeInv, MigInv, Migrate
<1>2. \A job \in Names : established(job)
  BY <1>1 DEF Knows, Expanding, In
<1> QED BY <1>1, <1>2, LeaveKeeps DEF Migrate

LEMMA ContractKeeps ==
  ASSUME TypeInv, MigInv, NEW p \in Procs, Contract(p)
  PROVE  TypeInv' /\ MigInv'
<1>1. /\ ProcsOK /\ SchemaOK /\ proc[p] \in Process /\ Knows(proc[p]) /\ lock = p
      /\ proc[p].pc = "contract" /\ proc[p].pc \in Holding
  BY Running DEF TypeInv, MigInv, Holding, Expanding, Contract
<1>2. proc[p].todo \in Seq(Names) /\ In(Personal, proc[p].todo)
  BY <1>1 DEF Knows, Process
<1>3. CASE to(p, "exited") /\ unlock(p) /\ UNCHANGED <<pk, index>>
  BY <1>1, <1>3, LeaveKeeps
<1>4. CASE Head(proc[p].todo) \in Tables /\ ~(to(p, "exited") /\ unlock(p) /\ UNCHANGED <<pk, index>>)
  <2>1. PICK t \in Tables : t = Head(proc[p].todo)
    BY <1>4
  <2>2. contractWidening(p, t)
    BY <1>4, <2>1 DEF Contract
  <2>3. /\ proc' = [proc EXCEPT ![p].todo = Tail(@)] /\ lock' = lock
        /\ \/ UNCHANGED <<pk, index>>
           \/ pk' = [pk EXCEPT ![t] = "composite"] /\ index' = [index EXCEPT ![t] = None]
    BY <1>4, <2>2 DEF contractWidening
  <2>4. SchemaOK'
    BY <1>1, <2>3, ConstantsAssumption DEF SchemaOK, Indexes
  <2>5. ASSUME NEW job \in Names, established(job) PROVE established(job)'
    BY <1>1, <2>3, <2>5, ConstantsAssumption DEF SchemaOK, established, Indexes, Names
  <2>6. proc[p].todo # << >> /\ t # Personal
    BY <1>2, ConstantsAssumption DEF In
  <2>7. Tail(proc[p].todo) \in Seq(Names) /\ In(Personal, Tail(proc[p].todo))
    BY <1>2, <2>1, <2>6, HeadAndTail
  <2> DEFINE n == [proc[p] EXCEPT !.todo = Tail(@)]
  <2>8. n \in Process /\ n.pc = "contract" /\ n.todo = Tail(proc[p].todo)
    BY <1>1, <2>7, SMTT(20) DEF Process
  <2>9. proc' = [proc EXCEPT ![p] = n]
    BY <1>1, <2>3 DEF ProcsOK
  <2>10. PICK m \in Process : m = n
    BY <2>8
  <2> HIDE DEF n
  <2>11. Knows(m)'
    BY <2>7, <2>8, <2>10 DEF Knows, Expanding
  <2> QED BY <1>1, <2>3, <2>4, <2>5, <2>9, <2>10, <2>11, OneSteps, Zenon
<1> QED BY <1>3, <1>4 DEF Contract

LEMMA MigInit == Init => TypeInv /\ MigInv
<1> SUFFICES ASSUME Init PROVE TypeInv /\ MigInv
  OBVIOUS
<1>1. SchemaOK /\ ProcsOK
  BY ConstantsAssumption DEF Init, SchemaOK, ProcsOK
<1>2. ASSUME NEW p \in Procs PROVE proc[p].pc = "down"
  BY <1>2 DEF Init, Down
<1> QED BY <1>1, <1>2 DEF TypeInv, MigInv, Knows, Holding, Expanding

LEMMA MigStep == TypeInv /\ MigInv /\ [Next]_vars => TypeInv' /\ MigInv'
<1> SUFFICES ASSUME TypeInv, MigInv, [Next]_vars PROVE TypeInv' /\ MigInv'
  OBVIOUS
<1>1. CASE UNCHANGED <<pk, index, lock, proc>>
  BY <1>1 DEF TypeInv, SchemaOK, ProcsOK, MigInv, Knows, established
<1>2. ASSUME NEW p \in Procs, buildRepo(p) \/ runMigrate(p, "expand") \/ runMigrate(p, "contract")
      PROVE  TypeInv' /\ MigInv'
  BY <1>2, StartKeeps DEF buildRepo, runMigrate
<1>3. ASSUME NEW p \in Procs, Step(p) PROVE TypeInv' /\ MigInv'
  BY <1>3, LockKeeps, SchemaKeeps, WideningKeeps, SecondaryKeeps, BuildKeeps, SwapKeeps, AdvanceKeeps,
     MigrateKeeps, ContractKeeps DEF Step
<1>4. ASSUME NEW p \in Procs, Fail(p) PROVE TypeInv' /\ MigInv'
  BY <1>4, Running, LeaveKeeps DEF Fail, TypeInv
<1> QED BY <1>1, <1>2, <1>3, <1>4 DEF Next, Settle, vars

LEMMA MigAlways == Spec => [](TypeInv /\ MigInv)
BY MigInit, MigStep, PTL DEF Spec

\* For any tables, replicas and commands: a replica that serves after its own
\* migration has a composite key, or a valid index on its columns, on every
\* table, and the index on personal workspaces, whatever failed before and
\* whoever expands or contracts meanwhile (Migrate, expandWidening,
\* contractWidening).
THEOREM MigratedWrites == Spec => []MigratedCanWrite
<1>1. TypeInv /\ MigInv => MigratedCanWrite
  <2> SUFFICES ASSUME MigInv, NEW p \in Fleet, proc[p].pc = "migrated"
               PROVE  upsertable /\ index[Personal] = "valid"
    BY DEF MigratedCanWrite
  <2>1. \A job \in Names : established(job)
    BY ConstantsAssumption DEF MigInv, Knows
  <2> QED BY <2>1 DEF established, upsertable, Names
<1> QED BY <1>1, MigAlways, PTL
-----------------------------------------------------------------------------
(* Personal workspaces stay unique *)

LEMMA EnsureKeepsUnique ==
  ASSUME SchemaOK, NEW p, NEW name, NEW after, ensure(p, name, after), unique
  PROVE  unique'
<1>1. \/ UNCHANGED index
      \/ index[name] \in {"invalid", None} /\ \E state : index' = [index EXCEPT ![name] = state]
  BY DEF ensure
<1> QED BY <1>1, ConstantsAssumption DEF unique, SchemaOK, Indexes

LEMMA StepKeepsUnique ==
  ASSUME TypeInv, MigInv, NEW p \in Procs, Step(p), unique
  PROVE  unique'
<1>1. SchemaOK
  BY DEF TypeInv
<1>2. CASE UNCHANGED index
  BY <1>2 DEF unique
<1>3. CASE expandWidening(p)
  BY <1>1, <1>2, <1>3, EnsureKeepsUnique DEF expandWidening
<1>4. CASE expandSecondaryIndex(p)
  BY <1>1, <1>4, EnsureKeepsUnique DEF expandSecondaryIndex
<1>5. CASE buildDone(p)
  BY <1>1, <1>5 DEF buildDone, unique, SchemaOK, Indexes
<1>6. CASE swapStalePersonalIndex(p)
  <2>1. index[Temp] = "valid"
    BY <1>6 DEF MigInv, Knows, swapStalePersonalIndex
  <2> QED BY <1>1, <1>6, <2>1 DEF swapStalePersonalIndex, unique, SchemaOK, Indexes, Personal, Temp
<1>7. CASE Contract(p)
  <2>1. \/ UNCHANGED index
        \/ \E t \in Tables : index' = [index EXCEPT ![t] = None]
    BY <1>7 DEF Contract, contractWidening
  <2> QED BY <1>1, <2>1, ConstantsAssumption DEF unique, SchemaOK, Indexes
<1>8. CASE acquireMigrationLock(p) \/ schemaSQL(p) \/ advance(p) \/ Migrate(p)
  BY <1>2, <1>8 DEF acquireMigrationLock, schemaSQL, advance, Migrate
<1> QED BY <1>3, <1>4, <1>5, <1>6, <1>7, <1>8 DEF Step

\* For any tables, replicas and commands: once an index enforces one personal
\* workspace per owner no step leaves the database without one, so the swap of
\* the stale index only happens with its replacement built
\* (expandSecondaryIndex, swapStalePersonalIndex).
THEOREM UniqueAlways == Spec => AlwaysUnique
<1>1. TypeInv /\ MigInv /\ [Next]_vars => [unique => unique']_vars
  <2> SUFFICES ASSUME TypeInv, MigInv, Next, unique PROVE unique'
    BY DEF vars
  <2>1. CASE UNCHANGED index
    BY <2>1 DEF unique
  <2>2. CASE \E p \in Procs : Step(p)
    BY <2>2, StepKeepsUnique
  <2> QED BY <2>1, <2>2 DEF Next, Settle, buildRepo, runMigrate, start, Fail
<1> QED BY <1>1, MigAlways, PTL DEF Spec, AlwaysUnique
=============================================================================
