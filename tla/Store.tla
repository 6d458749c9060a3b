-------------------------------- MODULE Store --------------------------------
(***************************************************************************)
(* The repository: what the store of one project holds, and what each call *)
(* of service.Repository does to it.  This is the memory driver            *)
(* (internal/repo/memory), the reference the other driver is held to: one  *)
(* mutex makes every call one step.  The registry of projects is in        *)
(* Projects, the seat limits and the seat count are in Seats.              *)
(*                                                                         *)
(* Every table is partitioned by tenant.  Names, slugs, e-mail addresses   *)
(* and time stamps are left out; a tuple that has an expiry may lapse at   *)
(* any moment.  Relations are left out of tuples: no call tells one from   *)
(* another.                                                                *)
(***************************************************************************)
EXTENDS Naturals, FiniteSets

CONSTANTS
  Tenants, Users,
  IDs,     \* ids of workspaces, groups and invitations
  Tuples,  \* the tuples that callers write
  MaxSeq,  \* bound: consistency sequence numbers reached
  None     \* "no such row"

\* A subject is a user, the members of a group, or every user.
Subject == [kind : {"user"}, id : Users] \cup [kind : {"set"}, id : IDs]
             \cup [kind : {"wildcard"}, id : {None}]
Tuple == [ns : {"workspace", "group"}, obj : IDs, subject : Subject]
Workspace == [type : {"personal", "team"}, owner : Users]
Membership == {"active", "suspended"}
Invitation == [w : IDs, status : {"pending", "accepted"}]
Group == [w : IDs \cup {None}]
Enrollment == {"active", "dropped"}
\* Whether a stored tuple carries an expiry, and whether that has passed.
Expiry == {"never", "later", "past"}

VARIABLES
  workspaces,   \* tenant -> id -> row
  memberships,  \* tenant -> workspace -> user -> row
  invitations,  \* tenant -> id -> row
  groups,       \* tenant -> id -> row
  enrollments,  \* tenant -> group -> user -> row
  seatAssigns,  \* tenant -> users that hold a seat
  tuples,       \* tenant -> tuple -> its expiry, None if it is not stored
  seqs          \* tenant -> monotonic write sequence

tables == <<workspaces, memberships, invitations, groups, enrollments, seatAssigns>>
vars == <<tables, tuples, seqs>>

\* Every row is well formed.
TypeOK ==
  /\ workspaces \in [Tenants -> [IDs -> Workspace \cup {None}]]
  /\ memberships \in [Tenants -> [IDs -> [Users -> Membership \cup {None}]]]
  /\ invitations \in [Tenants -> [IDs -> Invitation \cup {None}]]
  /\ groups \in [Tenants -> [IDs -> Group \cup {None}]]
  /\ enrollments \in [Tenants -> [IDs -> [Users -> Enrollment \cup {None}]]]
  /\ seatAssigns \in [Tenants -> SUBSET Users]
  /\ tuples \in [Tenants -> [Tuples -> Expiry \cup {None}]]
  /\ seqs \in [Tenants -> 0..MaxSeq]

\* New: an empty store.
Init ==
  /\ workspaces = [t \in Tenants |-> [i \in IDs |-> None]]
  /\ memberships = [t \in Tenants |-> [i \in IDs |-> [u \in Users |-> None]]]
  /\ invitations = [t \in Tenants |-> [i \in IDs |-> None]]
  /\ groups = [t \in Tenants |-> [i \in IDs |-> None]]
  /\ enrollments = [t \in Tenants |-> [i \in IDs |-> [u \in Users |-> None]]]
  /\ seatAssigns = [t \in Tenants |-> {}]
  /\ tuples = [t \in Tenants |-> [x \in Tuples |-> None]]
  /\ seqs = [t \in Tenants |-> 0]
-----------------------------------------------------------------------------
(* Relation tuples *)

\* Deletes, then inserts; an insert replaces the expiry of a stored tuple.
\* inserts is a function from tuples to expiries, deletes a set of tuples.
written(rows, inserts, deletes) ==
  [x \in Tuples |-> IF x \in DOMAIN inserts THEN inserts[x]
                   ELSE IF x \in deletes THEN None ELSE rows[x]]

\* Every write of tuples advances the sequence of its tenant.
bump(t) == seqs[t] < MaxSeq /\ seqs' = [seqs EXCEPT ![t] = @ + 1]

\* writeTuplesLocked.
writeTuples(t, inserts, deletes) ==
  /\ tuples' = [tuples EXCEPT ![t] = written(@, inserts, deletes)]
  /\ bump(t)

WriteTuples(t, inserts, deletes) ==
  writeTuples(t, inserts, deletes) /\ UNCHANGED tables

\* One sweep over every tenant.  The sequences stay as they are.
DeleteAllSubjectTuplesInProject(u) ==
  /\ tuples' = [t \in Tenants |-> [x \in Tuples |->
                  IF x.subject = [kind |-> "user", id |-> u] THEN None ELSE tuples[t][x]]]
  /\ seatAssigns' = [t \in Tenants |-> seatAssigns[t] \ {u}]
  /\ UNCHANGED <<workspaces, memberships, invitations, groups, enrollments, seqs>>

\* The expiry of a tuple passes; the row stays.
Lapse(t, x) ==
  /\ tuples[t][x] = "later"
  /\ tuples' = [tuples EXCEPT ![t][x] = "past"]
  /\ UNCHANGED <<tables, seqs>>
-----------------------------------------------------------------------------
(* Workspaces, memberships, invitations *)

CreateWorkspace(t, w, row) ==
  /\ workspaces[t][w] = None
  /\ row.type = "personal" => row \notin {workspaces[t][x] : x \in IDs}
  /\ workspaces' = [workspaces EXCEPT ![t][w] = row]
  /\ UNCHANGED <<memberships, invitations, groups, enrollments, seatAssigns, tuples, seqs>>

\* The service keeps the type of a workspace, and moves only team workspaces to
\* another owner.
UpdateWorkspace(t, w, row) ==
  /\ workspaces[t][w] # None
  /\ row.type = workspaces[t][w].type /\ (row.type = "personal" => row = workspaces[t][w])
  /\ workspaces' = [workspaces EXCEPT ![t][w] = row]
  /\ UNCHANGED <<memberships, invitations, groups, enrollments, seatAssigns, tuples, seqs>>

about(ns, id) == {x \in Tuples : x.ns = ns /\ x.obj = id}

\* Memberships, tuples and invitations go with the workspace; groups stay.
DeleteWorkspace(t, w) ==
  /\ workspaces[t][w] # None
  /\ workspaces' = [workspaces EXCEPT ![t][w] = None]
  /\ memberships' = [memberships EXCEPT ![t][w] = [u \in Users |-> None]]
  /\ writeTuples(t, << >>, about("workspace", w))
  /\ invitations' = [invitations EXCEPT ![t] = [i \in IDs |->
                       IF @[i] # None /\ @[i].w = w THEN None ELSE @[i]]]
  /\ UNCHANGED <<groups, enrollments, seatAssigns>>

\* PutMembership and DeleteMembership, which write no tuples.
PutMembership(t, w, u, status) ==
  /\ memberships' = [memberships EXCEPT ![t][w][u] = status]
  /\ UNCHANGED <<workspaces, invitations, groups, enrollments, seatAssigns, tuples, seqs>>
DeleteMembership(t, w, u) ==
  /\ memberships[t][w][u] # None
  /\ PutMembership(t, w, u, None)

PutMembershipAndTuples(t, w, u, status, inserts, deletes) ==
  /\ memberships' = [memberships EXCEPT ![t][w][u] = status]
  /\ writeTuples(t, inserts, deletes)
  /\ UNCHANGED <<workspaces, invitations, groups, enrollments, seatAssigns>>
DeleteMembershipAndTuples(t, w, u, deletes) ==
  /\ memberships[t][w][u] # None
  /\ PutMembershipAndTuples(t, w, u, None, << >>, deletes)

CreateInvitation(t, i, row) ==
  /\ invitations[t][i] = None
  /\ invitations' = [invitations EXCEPT ![t][i] = row]
  /\ UNCHANGED <<workspaces, memberships, groups, enrollments, seatAssigns, tuples, seqs>>
UpdateInvitation(t, i, row) ==
  /\ invitations[t][i] # None
  /\ invitations' = [invitations EXCEPT ![t][i] = row]
  /\ UNCHANGED <<workspaces, memberships, groups, enrollments, seatAssigns, tuples, seqs>>
-----------------------------------------------------------------------------
(* Groups and enrollments *)

CreateGroup(t, g, row) ==
  /\ groups[t][g] = None
  /\ groups' = [groups EXCEPT ![t][g] = row]
  /\ UNCHANGED <<workspaces, memberships, invitations, enrollments, seatAssigns, tuples, seqs>>

\* The member tuples and the enrollment rows go with the group.
DeleteGroup(t, g) ==
  /\ groups[t][g] # None
  /\ groups' = [groups EXCEPT ![t][g] = None]
  /\ enrollments' = [enrollments EXCEPT ![t][g] = [u \in Users |-> None]]
  /\ writeTuples(t, << >>, about("group", g))
  /\ UNCHANGED <<workspaces, memberships, invitations, seatAssigns>>

SetEnrollmentAndTuples(t, g, u, state, inserts, deletes) ==
  /\ enrollments' = [enrollments EXCEPT ![t][g][u] = state]
  /\ writeTuples(t, inserts, deletes)
  /\ UNCHANGED <<workspaces, memberships, invitations, groups, seatAssigns>>

\* AssignSeatAndTuple and RevokeSeatAndTuple below the cap (Seats has the cap).
AssignSeatAndTuple(t, u, x) ==
  /\ seatAssigns' = [seatAssigns EXCEPT ![t] = @ \cup {u}]
  /\ writeTuples(t, [y \in {x} |-> "never"], {})
  /\ UNCHANGED <<workspaces, memberships, invitations, groups, enrollments>>
RevokeSeatAndTuple(t, u, x) ==
  /\ seatAssigns' = [seatAssigns EXCEPT ![t] = @ \ {u}]
  /\ writeTuples(t, << >>, {x})
  /\ UNCHANGED <<workspaces, memberships, invitations, groups, enrollments>>
-----------------------------------------------------------------------------
(* Reads *)

\* Tuple.ActiveAt: no expiry, or one that has not passed.
ActiveAt(expiry) == expiry \in {"never", "later"}
active(t) == {x \in Tuples : ActiveAt(tuples[t][x])}

ConsistencyToken(t) == seqs[t]
ListSubjects(t, ns, obj) == {x.subject : x \in {y \in active(t) : y.ns = ns /\ y.obj = obj}}
ListObjectIDs(t, ns) == {x.obj : x \in {y \in active(t) : y.ns = ns}}

\* A filter field that is None matches anything; a user matches only tuples
\* whose subject is that user.
ReadTuples(t, ns, obj, u) ==
  {x \in active(t) : /\ ns \in {None, x.ns}
                     /\ obj \in {None, x.obj}
                     /\ u = None \/ x.subject = [kind |-> "user", id |-> u]}

\* Over all tenants: the tuples of a user, and those of some groups' members.
ListSubjectTuplesInProject(u) ==
  {p \in Tenants \X Tuples : p[2] \in active(p[1]) /\ p[2].subject = [kind |-> "user", id |-> u]}
ListTuplesForSubjectSetsInProject(sets) ==
  {p \in Tenants \X Tuples :
     p[2] \in active(p[1]) /\ p[2].subject.kind = "set" /\ p[2].subject.id \in sets}

PersonalWorkspace(t, u) ==
  {w \in IDs : workspaces[t][w] = [type |-> "personal", owner |-> u]}
WorkspacesForUser(t, u) ==
  {w \in IDs : memberships[t][w][u] = "active" /\ workspaces[t][w] # None}
ListMembers(t, w) == {<<u, memberships[t][w][u]>> : u \in {v \in Users : memberships[t][w][v] # None}}
ListInvitations(t, w) == {i \in IDs : invitations[t][i] # None /\ invitations[t][i].w = w}
ListGroups(t, w) == {g \in IDs : groups[t][g] # None /\ w \in {None, groups[t][g].w}}
ListEnrollments(t, g) ==
  {<<u, enrollments[t][g][u]>> : u \in {v \in Users : enrollments[t][g][v] # None}}
-----------------------------------------------------------------------------
\* What one call inserts: nothing, or one tuple with or without an expiry.
Inserts == {<< >>} \cup UNION {[{x} -> {"never", "later"}] : x \in Tuples}
Deletes == {{}} \cup {{x} : x \in Tuples}

TupleCall(t) ==
  \/ \E i \in Inserts, d \in Deletes : WriteTuples(t, i, d)
  \/ \E x \in Tuples : Lapse(t, x)
  \/ \E u \in Users, x \in Tuples : AssignSeatAndTuple(t, u, x) \/ RevokeSeatAndTuple(t, u, x)

WorkspaceCall(t) ==
  \E w \in IDs :
    \/ \E row \in Workspace : CreateWorkspace(t, w, row) \/ UpdateWorkspace(t, w, row)
    \/ DeleteWorkspace(t, w)
    \/ \E u \in Users :
         \/ DeleteMembership(t, w, u)
         \/ \E d \in Deletes : DeleteMembershipAndTuples(t, w, u, d)
         \/ \E status \in Membership :
              \/ PutMembership(t, w, u, status)
              \/ \E i \in Inserts, d \in Deletes : PutMembershipAndTuples(t, w, u, status, i, d)
    \/ \E row \in Invitation : CreateInvitation(t, w, row) \/ UpdateInvitation(t, w, row)

GroupCall(t) ==
  \E g \in IDs :
    \/ \E row \in Group : CreateGroup(t, g, row)
    \/ DeleteGroup(t, g)
    \/ \E u \in Users, state \in Enrollment, i \in Inserts, d \in Deletes :
         SetEnrollmentAndTuples(t, g, u, state, i, d)

Next ==
  \/ \E t \in Tenants : TupleCall(t) \/ WorkspaceCall(t) \/ GroupCall(t)
  \/ \E u \in Users : DeleteAllSubjectTuplesInProject(u)

Spec == Init /\ [][Next]_vars
-----------------------------------------------------------------------------
(* Properties *)

\* A step that changes tuples of a tenant advances its sequence.
seqAdvances ==
  \A t \in Tenants :
    /\ seqs'[t] >= seqs[t]
    /\ (\E x \in Tuples : tuples[t][x] # tuples'[t][x] /\ tuples'[t][x] # "past") =>
         seqs'[t] > seqs[t]

\* Every change of a tenant's tuples advances its sequence in the same step
\* (memory.go:169-171, store.go:848-850), and no sequence ever falls
\* (repository.go:28-31).  Without it a read that carries a token may be
\* answered from before the change the token was issued for.
SeqAdvances == [][seqAdvances]_vars

\* DeleteWorkspace and DeleteGroup leave nothing of what they delete: no
\* membership, invitation, enrollment or tuple on it (repository.go:95).
CascadeComplete ==
  [][\A t \in Tenants, i \in IDs :
       /\ workspaces[t][i] # None /\ workspaces'[t][i] = None =>
            /\ \A u \in Users : memberships'[t][i][u] = None
            /\ \A j \in IDs : invitations'[t][j] # None => invitations'[t][j].w # i
            /\ \A x \in about("workspace", i) : tuples'[t][x] = None
       /\ groups[t][i] # None /\ groups'[t][i] = None =>
            /\ \A u \in Users : enrollments'[t][i][u] = None
            /\ \A x \in about("group", i) : tuples'[t][x] = None]_vars

=============================================================================
