---------------------------- MODULE StorePostgres ----------------------------
(***************************************************************************)
(* The Postgres driver (internal/repo/postgres/store.go): the calls of     *)
(* Store as transactions of SQL statements under READ COMMITTED, from      *)
(* several clients at once.                                                *)
(*                                                                         *)
(* A statement sees the rows committed when it starts and the writes of    *)
(* its own transaction.  A row written or locked by an open transaction    *)
(* makes a statement that wants it wait.  A DELETE locks the rows it found *)
(* one by one, in an order of the server's choosing; having waited, it     *)
(* looks at the rows it had found again, never at rows that came since.    *)
(* The writes of a transaction become visible together at COMMIT.          *)
(***************************************************************************)
EXTENDS Naturals, FiniteSets, Sequences

CONSTANTS
  Tenants, Users, IDs, Tuples, MaxSeq, None,  \* as in Store
  Clients,  \* connections: each runs one call at a time
  Calls     \* the calls that arrive

ASSUME ConstantsAssumption ==
  /\ MaxSeq \in Nat
  /\ None \notin Users \cup IDs \cup Clients \cup {"active", "suspended", "dropped"}

VARIABLES
  rows,  \* the committed rows: key -> row, None if there is none
  tx     \* the transaction each client has open

vars == <<rows, tx>>

\* The primary keys.  id is the tuple itself in relation_tuples.
Key(table, t, id, u) == [table |-> table, t |-> t, id |-> id, u |-> u]
Keys ==
  [table : {"workspaces", "invitations", "groups"}, t : Tenants, id : IDs, u : {None}]
  \cup [table : {"memberships", "enrollments"}, t : Tenants, id : IDs, u : Users]
  \cup [table : {"seat_assignments"}, t : Tenants, id : {None}, u : Users]
  \cup [table : {"relation_tuples"}, t : Tenants, id : Tuples, u : {None}]
  \cup [table : {"consistency_seq"}, t : Tenants, id : {None}, u : {None}]

seqKey(t) == Key("consistency_seq", t, None, None)

\* The memory driver on the same calls.
Mem == INSTANCE Store WITH
  workspaces  <- [t \in Tenants |-> [i \in IDs |-> rows[Key("workspaces", t, i, None)]]],
  memberships <- [t \in Tenants |-> [i \in IDs |-> [u \in Users |-> rows[Key("memberships", t, i, u)]]]],
  invitations <- [t \in Tenants |-> [i \in IDs |-> rows[Key("invitations", t, i, None)]]],
  groups      <- [t \in Tenants |-> [i \in IDs |-> rows[Key("groups", t, i, None)]]],
  enrollments <- [t \in Tenants |-> [i \in IDs |-> [u \in Users |-> rows[Key("enrollments", t, i, u)]]]],
  seatAssigns <- [t \in Tenants |-> {u \in Users : rows[Key("seat_assignments", t, None, u)] # None}],
  tuples      <- [t \in Tenants |-> [x \in Tuples |-> rows[Key("relation_tuples", t, x, None)]]],
  seqs        <- [t \in Tenants |-> rows[seqKey(t)]]

Init ==
  /\ rows = [k \in Keys |-> IF k.table = "consistency_seq" THEN 0 ELSE None]
  /\ tx = [c \in Clients |-> None]
-----------------------------------------------------------------------------
(* Statements *)

\* DELETE of the rows among keys that exist (and, when w is given, belong to
\* workspace w); with must, no row at all is ErrNotFound.
Delete(keys, w, must) == [do |-> "delete", keys |-> keys, w |-> w, val |-> None, must |-> must]
\* INSERT ... ON CONFLICT DO UPDATE.
Upsert(k, val) == [do |-> "upsert", keys |-> {k}, w |-> None, val |-> val, must |-> FALSE]
\* INSERT, which a row with the same key, or a second personal workspace, refuses.
Insert(k, val) == [do |-> "insert", keys |-> {k}, w |-> None, val |-> val, must |-> TRUE]
\* UPDATE of one row; no row is ErrNotFound.
Update(k, val) == [do |-> "update", keys |-> {k}, w |-> None, val |-> val, must |-> TRUE]
\* bumpSeqExec.
bumpSeqExec(t) == [do |-> "bump", keys |-> {seqKey(t)}, w |-> None, val |-> None, must |-> FALSE]

\* Mutant: the sequence comes first.
writeTuplesExecCountsFirst(c) ==
  <<bumpSeqExec(c.t)>>
  \o (IF c.del = None THEN << >> ELSE <<Delete({Key("relation_tuples", c.t, c.del, None)}, None, FALSE)>>)
  \o (IF c.ins = None THEN << >>
      ELSE <<Upsert(Key("relation_tuples", c.t, c.ins, None), c.expiry)>>)
\* Mutant: the sequence stays as it is.
writeTuplesExecUncounted(c) ==
  (IF c.del = None THEN << >> ELSE <<Delete({Key("relation_tuples", c.t, c.del, None)}, None, FALSE)>>)
  \o (IF c.ins = None THEN << >>
      ELSE <<Upsert(Key("relation_tuples", c.t, c.ins, None), c.expiry)>>)
\* writeTuplesExec: one statement per delete, one per insert, then the sequence.
\* A call deletes or inserts at most one tuple here.
writeTuplesExec(c) ==
  (IF c.del = None THEN << >> ELSE <<Delete({Key("relation_tuples", c.t, c.del, None)}, None, FALSE)>>)
  \o (IF c.ins = None THEN << >>
      ELSE <<Upsert(Key("relation_tuples", c.t, c.ins, None), c.expiry)>>)
  \o <<bumpSeqExec(c.t)>>

rowsOf(table, c) == {k \in Keys : k.table = table /\ k.t = c.t /\ k.id = c.id}
tuplesOn(ns, c) ==
  {k \in Keys : k.table = "relation_tuples" /\ k.t = c.t /\ k.id.ns = ns /\ k.id.obj = c.id}

DeleteWorkspace(c) ==
  <<Delete(rowsOf("workspaces", c), None, TRUE), Delete(rowsOf("memberships", c), None, FALSE),
    Delete({k \in Keys : k.table = "invitations" /\ k.t = c.t}, c.id, FALSE),
    Delete(tuplesOn("workspace", c), None, FALSE), bumpSeqExec(c.t)>>

DeleteGroup(c) ==
  <<Delete(rowsOf("groups", c), None, TRUE), Delete(tuplesOn("group", c), None, FALSE),
    Delete(rowsOf("enrollments", c), None, FALSE), bumpSeqExec(c.t)>>

DeleteAllSubjectTuplesInProject(c) ==
  <<Delete({k \in Keys : k.table = "relation_tuples" /\ k.id.subject = [kind |-> "user", id |-> c.u]},
           None, FALSE),
    Delete({k \in Keys : k.table = "seat_assignments" /\ k.u = c.u}, None, FALSE)>>

PutMembershipAndTuples(c) ==
  <<Upsert(Key("memberships", c.t, c.id, c.u), c.row)>> \o writeTuplesExec(c)
DeleteMembershipAndTuples(c) ==
  <<Delete({Key("memberships", c.t, c.id, c.u)}, None, TRUE)>> \o writeTuplesExec(c)
SetEnrollmentAndTuples(c) ==
  <<Upsert(Key("enrollments", c.t, c.id, c.u), c.row)>> \o writeTuplesExec(c)

\* The calls of one statement outside a transaction.
CreateWorkspace(c) == <<Insert(Key("workspaces", c.t, c.id, None), c.row)>>
UpdateWorkspace(c) == <<Update(Key("workspaces", c.t, c.id, None), c.row)>>
PutMembership(c) == <<Upsert(Key("memberships", c.t, c.id, c.u), c.row)>>
DeleteMembership(c) == <<Delete({Key("memberships", c.t, c.id, c.u)}, None, TRUE)>>
CreateInvitation(c) == <<Insert(Key("invitations", c.t, c.id, None), c.row)>>
UpdateInvitation(c) == <<Update(Key("invitations", c.t, c.id, None), c.row)>>
CreateGroup(c) == <<Insert(Key("groups", c.t, c.id, None), c.row)>>

statements(c) ==
  CASE c.op = "WriteTuples" -> writeTuplesExec(c)
    [] c.op = "DeleteAllSubjectTuplesInProject" -> DeleteAllSubjectTuplesInProject(c)
    [] c.op = "CreateWorkspace" -> CreateWorkspace(c)
    [] c.op = "UpdateWorkspace" -> UpdateWorkspace(c)
    [] c.op = "DeleteWorkspace" -> DeleteWorkspace(c)
    [] c.op = "PutMembership" -> PutMembership(c)
    [] c.op = "DeleteMembership" -> DeleteMembership(c)
    [] c.op = "PutMembershipAndTuples" -> PutMembershipAndTuples(c)
    [] c.op = "DeleteMembershipAndTuples" -> DeleteMembershipAndTuples(c)
    [] c.op = "CreateInvitation" -> CreateInvitation(c)
    [] c.op = "UpdateInvitation" -> UpdateInvitation(c)
    [] c.op = "CreateGroup" -> CreateGroup(c)
    [] c.op = "DeleteGroup" -> DeleteGroup(c)
    [] c.op = "SetEnrollmentAndTuples" -> SetEnrollmentAndTuples(c)
-----------------------------------------------------------------------------
(* Transactions *)

Open == {c \in Clients : tx[c] # None}
\* What client c sees: the committed rows under its own writes.
view(c) == [k \in Keys |-> IF k \in DOMAIN tx[c].writes THEN tx[c].writes[k] ELSE rows[k]]

\* Mutant: there is no such index.
personalUnindexed(k, val) == {}
\* The entries of workspaces_personal_idx an INSERT of row val would meet.
personal(k, val) ==
  IF k.table # "workspaces" \/ val.type # "personal" THEN {}
  ELSE {j \in Keys : j.table = "workspaces" /\ j.t = k.t
                       /\ val \in {rows[j]} \cup {tx[d].writes[j] : d \in {e \in Open : j \in DOMAIN tx[e].writes}}}

\* The rows a statement meets: those a DELETE or UPDATE finds, those a unique
\* index compares an INSERT with.
found(s, v) ==
  CASE s.do = "insert" -> UNION {{k} \cup personal(k, s.val) : k \in s.keys}
    [] s.do \in {"upsert", "bump"} -> s.keys
    [] OTHER -> {k \in s.keys : v[k] # None /\ (s.w # None => v[k].w = s.w)}

\* It needs those rows; a DELETE or UPDATE that waits, the ones it found before.
needs(c, s) ==
  IF tx[c].found # None /\ s.do \in {"delete", "update"} THEN tx[c].found ELSE found(s, view(c))
holds(c) == DOMAIN tx[c].writes \cup tx[c].locked
holders(c, s) == {d \in Open \ {c} : needs(c, s) \cap holds(d) # {}}

Range(f) == {f[i] : i \in DOMAIN f}
Merge(f, g) == [k \in DOMAIN f \cup DOMAIN g |-> IF k \in DOMAIN g THEN g[k] ELSE f[k]]

\* With this call, the sequence of its tenant stays within max.
fits(call, max) ==
  bumpSeqExec(call.t) \in Range(statements(call)) =>
    rows[seqKey(call.t)] + Cardinality(Open) < max

\* A call arrives.
Begin(c, call) ==
  /\ tx[c] = None
  /\ fits(call, MaxSeq)
  /\ tx' = [tx EXCEPT ![c] = [call |-> call, todo |-> statements(call), writes |-> << >>,
                              found |-> None, locked |-> {}]]
  /\ UNCHANGED rows

\* A statement that finds a locked row waits, holding on to what it found.
Wait(c) ==
  /\ tx[c] # None /\ tx[c].todo # << >> /\ tx[c].found = None
  /\ holders(c, Head(tx[c].todo)) # {}
  /\ tx' = [tx EXCEPT ![c].found = found(Head(tx[c].todo), view(c))]
  /\ UNCHANGED rows

\* A DELETE locks one of several rows it found, before it goes on to the others.
Lock(c) ==
  /\ tx[c] # None /\ tx[c].todo # << >> /\ Head(tx[c].todo).do = "delete"
  /\ LET want == needs(c, Head(tx[c].todo)) IN
     /\ Cardinality(want \ tx[c].locked) > 1
     /\ \E k \in want \ tx[c].locked :
          /\ \A d \in Open \ {c} : k \notin holds(d)
          /\ tx' = [tx EXCEPT ![c].found = want, ![c].locked = @ \cup {k}]
  /\ UNCHANGED rows

\* The statement runs, on the rows not locked yet all at once.  ErrNotFound and a unique violation roll back.
Exec(c) ==
  LET s    == Head(tx[c].todo)
      v    == view(c)
      hits == IF s.do \in {"delete", "update"} /\ tx[c].found # None
              THEN tx[c].found \cap found(s, v) ELSE found(s, v)
      new  == CASE s.do = "bump" -> [k \in s.keys |-> v[k] + 1]
                [] s.do = "insert" -> [k \in s.keys |-> s.val]
                [] OTHER -> [k \in hits |-> s.val]
  IN
  /\ tx[c] # None /\ tx[c].todo # << >>
  /\ holders(c, s) = {}
  /\ tx' = [tx EXCEPT ![c] =
              IF s.do = "insert" /\ \E k \in hits : v[k] # None THEN None
              ELSE IF s.must /\ hits = {} THEN None
              ELSE [@ EXCEPT !.todo = Tail(@), !.writes = Merge(@, new), !.found = None, !.locked = {}]]
  /\ UNCHANGED rows

\* A row deleted here is gone for the statements that wait for it, even if
\* another one is inserted under its key before they run.
Commit(c) ==
  /\ tx[c] # None /\ tx[c].todo = << >>
  /\ rows' = [k \in Keys |-> view(c)[k]]
  /\ tx' = [d \in Clients |->
              IF d = c THEN None
              ELSE IF d \in Open /\ tx[d].found # None
              THEN [tx[d] EXCEPT !.found = {k \in @ : k \in DOMAIN tx[c].writes => tx[c].writes[k] # None}]
              ELSE tx[d]]

\* The client dies or gives up, or the connection is lost.
Rollback(c) ==
  /\ tx[c] # None
  /\ tx' = [tx EXCEPT ![c] = None]
  /\ UNCHANGED rows

waitsFor == [c \in Clients |->
               IF c \in Open /\ tx[c].found # None THEN holders(c, Head(tx[c].todo)) ELSE {}]

\* Postgres ends one of the transactions that wait for each other.
DeadlockVictim(c) ==
  /\ \E d \in waitsFor[c] : c \in waitsFor[d]
  /\ Rollback(c)

\* The expiry of a stored tuple passes.
Lapse(k) ==
  /\ k.table = "relation_tuples" /\ rows[k] = "later"
  /\ rows' = [rows EXCEPT ![k] = "past"]
  /\ UNCHANGED tx

Step(c) == Wait(c) \/ Lock(c) \/ Exec(c) \/ Commit(c) \/ DeadlockVictim(c)

Next ==
  \/ \E c \in Clients : (\E call \in Calls : Begin(c, call)) \/ Step(c) \/ Rollback(c)
  \/ \E k \in Keys : Lapse(k)

Spec == Init /\ [][Next]_vars

-----------------------------------------------------------------------------
(* Queries: one statement each, on the committed rows *)

\* expires_at IS NULL OR expires_at > now()
unexpired == {k \in Keys : k.table = "relation_tuples" /\ rows[k] \in {"never", "later"}}

ListSubjects(t, ns, obj) ==
  {k.id.subject : k \in {j \in unexpired : j.t = t /\ j.id.ns = ns /\ j.id.obj = obj}}
ListObjectIDs(t, ns) == {k.id.obj : k \in {j \in unexpired : j.t = t /\ j.id.ns = ns}}
\* subject_user_id is empty unless the subject is a user.
ReadTuples(t, ns, obj, u) ==
  {k.id : k \in {j \in unexpired :
     /\ j.t = t
     /\ ns = None \/ j.id.ns = ns
     /\ obj = None \/ j.id.obj = obj
     /\ u = None \/ (IF j.id.subject.kind = "user" THEN j.id.subject.id ELSE None) = u}}
ListSubjectTuplesInProject(u) ==
  {<<k.t, k.id>> : k \in {j \in unexpired : j.id.subject.kind = "user" /\ j.id.subject.id = u}}
ListTuplesForSubjectSetsInProject(sets) ==
  {<<k.t, k.id>> : k \in {j \in unexpired : j.id.subject.kind = "set" /\ j.id.subject.id \in sets}}

selected(table, t) == {k \in Keys : k.table = table /\ k.t = t /\ rows[k] # None}
PersonalWorkspace(t, u) ==
  {k.id : k \in {j \in selected("workspaces", t) : rows[j].owner = u /\ rows[j].type = "personal"}}
\* Mutant: suspended members are listed too.
WorkspacesForUserSuspended(t, u) ==
  {w.id : w \in {j \in selected("workspaces", t) :
     \E m \in selected("memberships", t) : m.id = j.id /\ m.u = u}}
\* workspaces JOIN memberships.
WorkspacesForUser(t, u) ==
  {w.id : w \in {j \in selected("workspaces", t) :
     \E m \in selected("memberships", t) : m.id = j.id /\ m.u = u /\ rows[m] = "active"}}
ListMembers(t, w) == {<<k.u, rows[k]>> : k \in {j \in selected("memberships", t) : j.id = w}}
ListInvitations(t, w) == {k.id : k \in {j \in selected("invitations", t) : rows[j].w = w}}
ListGroups(t, w) == {k.id : k \in {j \in selected("groups", t) : w = None \/ rows[j].w = w}}
ListEnrollments(t, g) == {<<k.u, rows[k]>> : k \in {j \in selected("enrollments", t) : j.id = g}}
-----------------------------------------------------------------------------
(* Properties *)

\* DeleteWorkspace and DeleteGroup leave nothing of what they delete at the
\* moment they commit (repository.go:95: "DeleteGroup removes the group, its
\* member tuples, AND its enrollment rows").
CascadeCommitted == Mem!CascadeComplete

\* Every query of the driver returns what the memory driver returns for the same
\* rows, expired tuples, other tenants and other kinds of subject included.
ReadsAgree ==
  /\ \A t \in Tenants, ns \in {"workspace", "group"} :
       /\ ListObjectIDs(t, ns) = Mem!ListObjectIDs(t, ns)
       /\ \A i \in IDs : ListSubjects(t, ns, i) = Mem!ListSubjects(t, ns, i)
  /\ \A t \in Tenants, ns \in {"workspace", "group", None}, i \in IDs \cup {None},
        u \in Users \cup {None} : ReadTuples(t, ns, i, u) = Mem!ReadTuples(t, ns, i, u)
  /\ \A u \in Users : ListSubjectTuplesInProject(u) = Mem!ListSubjectTuplesInProject(u)
  /\ \A S \in SUBSET IDs :
       ListTuplesForSubjectSetsInProject(S) = Mem!ListTuplesForSubjectSetsInProject(S)
  /\ \A t \in Tenants, u \in Users :
       /\ PersonalWorkspace(t, u) = Mem!PersonalWorkspace(t, u)
       /\ WorkspacesForUser(t, u) = Mem!WorkspacesForUser(t, u)
  /\ \A t \in Tenants, i \in IDs \cup {None} : ListGroups(t, i) = Mem!ListGroups(t, i)
  /\ \A t \in Tenants, i \in IDs :
       /\ ListMembers(t, i) = Mem!ListMembers(t, i)
       /\ ListInvitations(t, i) = Mem!ListInvitations(t, i)
       /\ ListEnrollments(t, i) = Mem!ListEnrollments(t, i)

=============================================================================
