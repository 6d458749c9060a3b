------------------------------- MODULE Groups -------------------------------
(***************************************************************************)
(* Groups and enrollments of one (project, tenant) shard: the handlers of  *)
(* internal/service/groups.go over the group, enrollment and tuple calls   *)
(* of the repository.  A handler is a sequence of atomic repository calls, *)
(* and handlers interleave at every call.                                  *)
(*                                                                         *)
(* An id is any string, so a user and a nested group may carry the same    *)
(* one: Users and GroupIDs may overlap.  Names, slugs and time stamps are  *)
(* left out.  Whether a user has a role in the workspace that owns a group *)
(* is decided by the tuples of Workspaces, which any request may change at *)
(* any moment: a role check of this module answers either way.             *)
(***************************************************************************)
CONSTANTS
  Users,               \* end users
  GroupIDs,            \* ids newID() may issue to groups
  Requests,            \* handlers that may be in flight at the same time
  OverlappingChanges,  \* may two changes of one group's member overlap?
  None                 \* the empty string and "no such row"

EnrollmentStates == {"waitlisted", "enrolled", "active", "completed", "dropped"}
GrantsAccess(state) == state \in {"enrolled", "active"}

\* Exactly one of the two ids is set: groupMemberTuple refuses anything else.
GroupMember == [UserID : Users, GroupID : {None}] \cup [UserID : {None}, GroupID : GroupIDs]

\* A group's creator, and whether a workspace owns it.
Group == [by : Users, owned : BOOLEAN]

\* Mutant: the storage key of a member does not say of which kind the member is.
MemberKeyKindless(m) ==
  IF m.GroupID # None THEN <<"user", m.GroupID>> ELSE <<"user", m.UserID>>
\* The storage key of an enrollment row.
MemberKey(m) ==
  IF m.GroupID # None THEN <<"group", m.GroupID>> ELSE <<"user", m.UserID>>

MemberFromKey(k) ==
  IF k[1] = "group" THEN [UserID |-> None, GroupID |-> k[2]]
  ELSE [UserID |-> k[2], GroupID |-> None]

MemberKeys == ({"user"} \X Users) \cup ({"group"} \X GroupIDs)

Ops == {"CreateGroup", "DeleteGroup", "AddGroupMember", "RemoveGroupMember",
        "SetEnrollmentState"}

ASSUME ConstantsAssumption ==
  /\ OverlappingChanges \in BOOLEAN
  /\ None \notin Users \cup GroupIDs \cup EnrollmentStates \cup Ops \cup Group

VARIABLES
  groups,       \* groups table: id -> row
  enrollments,  \* enrollments table: group -> member key -> state
  tuples,       \* relation tuples group:g#member@subject, as <<g, member>>
  issued,       \* group ids handed out so far: newID never repeats
  erased,       \* users DeprovisionUser has swept (history only)
  bypassed,     \* tuples a WriteRelationTuples named since the handlers below last
                \* wrote them (history only)
  req           \* the handlers in flight

vars == <<groups, enrollments, tuples, issued, erased, bypassed, req>>
repo == <<groups, enrollments, tuples, issued, erased, bypassed>>

PCs == {"idle", "workspace", "create", "get", "manager", "enrollment", "write", "delete"}

Handler == [op : Ops \cup {None}, pc : PCs, user : Users \cup {None}, g : GroupIDs \cup {None},
            member : GroupMember \cup {None}, state : EnrollmentStates \cup {None},
            owned : BOOLEAN, tracked : BOOLEAN]

Idle == [op |-> None, pc |-> "idle", user |-> None, g |-> None, member |-> None,
         state |-> None, owned |-> FALSE, tracked |-> FALSE]

\* Every row and every handler is well formed.
TypeOK ==
  /\ groups \in [GroupIDs -> Group \cup {None}]
  /\ enrollments \in [GroupIDs -> [MemberKeys -> EnrollmentStates \cup {None}]]
  /\ tuples \subseteq GroupIDs \X GroupMember
  /\ issued \subseteq GroupIDs
  /\ erased \subseteq Users
  /\ bypassed \subseteq GroupIDs \X GroupMember
  /\ req \in [Requests -> Handler]

Init ==
  /\ groups = [g \in GroupIDs |-> None]
  /\ enrollments = [g \in GroupIDs |-> [k \in MemberKeys |-> None]]
  /\ tuples = {}
  /\ issued = {}
  /\ erased = {}
  /\ bypassed = {}
  /\ req = [r \in Requests |-> Idle]
-----------------------------------------------------------------------------
(* Repository calls *)

groupMemberTuple(g, m) == <<g, m>>

\* WriteTuples: deletes first, then inserts.
WriteTuples(inserts, deletes) ==
  /\ tuples' = (tuples \ deletes) \cup inserts
  /\ bypassed' = bypassed \ (inserts \cup deletes)
  /\ UNCHANGED <<groups, enrollments, issued, erased>>

\* The row and the tuples in one transaction.
SetEnrollmentAndTuples(g, m, state, inserts, deletes) ==
  /\ enrollments' = [enrollments EXCEPT ![g][MemberKey(m)] = state]
  /\ tuples' = (tuples \ deletes) \cup inserts
  /\ bypassed' = bypassed \ (inserts \cup deletes)
  /\ UNCHANGED <<groups, issued, erased>>

GetEnrollment(g, m) == enrollments[g][MemberKey(m)]

\* Mutant: the cascade forgets the enrollment rows.
DeleteGroupRowOnly(g) ==
  IF groups[g] = None
  THEN UNCHANGED repo
  ELSE /\ groups' = [groups EXCEPT ![g] = None]
       /\ tuples' = {t \in tuples : t[1] # g}
       /\ bypassed' = {t \in bypassed : t[1] # g}
       /\ UNCHANGED <<enrollments, issued, erased>>

\* The cascade: the tuples on the group and its enrollment rows go with it.
\* Tuples that name the group as a subject stay.
DeleteGroupRow(g) ==
  IF groups[g] = None
  THEN UNCHANGED repo
  ELSE /\ groups' = [groups EXCEPT ![g] = None]
       /\ tuples' = {t \in tuples : t[1] # g}
       /\ bypassed' = {t \in bypassed : t[1] # g}
       /\ enrollments' = [enrollments EXCEPT ![g] = [k \in MemberKeys |-> None]]
       /\ UNCHANGED <<issued, erased>>

\* What ListEnrollments and ListGroupMembers return.
ListEnrollments(g) ==
  {[member |-> MemberFromKey(k), state |-> enrollments[g][k]] :
     k \in {j \in MemberKeys : enrollments[g][j] # None}}
ListGroupMembers(g) == {m \in GroupMember : groupMemberTuple(g, m) \in tuples}
-----------------------------------------------------------------------------
(* The life of a handler *)

Return(r) == req' = [req EXCEPT ![r] = Idle]
\* Either go on with the handler q, or return early.
Proceed(r, ok, q) == req' = [req EXCEPT ![r] = IF ok THEN q ELSE Idle]

entry(op, owned) ==
  IF op # "CreateGroup" THEN "get" ELSE IF owned THEN "workspace" ELSE "create"

\* Two requests are about one member of one group, or one deletes the group.
collide(p, q) ==
  /\ p.g # None /\ p.g = q.g
  /\ p.member = q.member \/ "DeleteGroup" \in {p.op, q.op}

\* A request arrives.
Begin(r, q) ==
  /\ req[r] = Idle
  /\ ~OverlappingChanges => \A s \in Requests : ~collide(q, req[s])
  /\ req' = [req EXCEPT ![r] = q]
  /\ UNCHANGED repo

CreateGroupRPC(r, u, owned) ==
  Begin(r, [Idle EXCEPT !.op = "CreateGroup", !.pc = entry("CreateGroup", owned),
                        !.user = u, !.owned = owned])
DeleteGroupRPC(r, u, g) ==
  Begin(r, [Idle EXCEPT !.op = "DeleteGroup", !.pc = "get", !.user = u, !.g = g])
AddGroupMemberRPC(r, u, g, m) ==
  Begin(r, [Idle EXCEPT !.op = "AddGroupMember", !.pc = "get", !.user = u, !.g = g,
                        !.member = m])
RemoveGroupMemberRPC(r, u, g, m) ==
  Begin(r, [Idle EXCEPT !.op = "RemoveGroupMember", !.pc = "get", !.user = u, !.g = g,
                        !.member = m])
SetEnrollmentStateRPC(r, u, g, m, state) ==
  Begin(r, [Idle EXCEPT !.op = "SetEnrollmentState", !.pc = "get", !.user = u, !.g = g,
                        !.member = m, !.state = state])

\* The handler stops between two calls with no further effect: the process
\* dies, the context is cancelled, the store fails, or ensureProjectActive or
\* the residency guard refuses.
Abort(r) ==
  /\ req[r] # Idle
  /\ Return(r)
  /\ UNCHANGED repo
-----------------------------------------------------------------------------
(* groups.go *)

\* requireWorkspace(member) for a group that is to belong to a workspace.
RequireMember(r) ==
  /\ req[r].pc = "workspace"
  /\ \E ok \in BOOLEAN : Proceed(r, ok, [req[r] EXCEPT !.pc = "create"])
  /\ UNCHANGED repo

CreateGroup(r, g) ==
  /\ req[r].pc = "create"
  /\ g \in GroupIDs \ issued
  /\ groups' = [groups EXCEPT ![g] = [by |-> req[r].user, owned |-> req[r].owned]]
  /\ issued' = issued \cup {g}
  /\ Return(r)
  /\ UNCHANGED <<enrollments, tuples, erased, bypassed>>

afterManager(op) == IF op = "DeleteGroup" THEN "delete" ELSE "enrollment"

\* The creator manages the group; anyone else is asked for a role in the
\* workspace that owns it, and a standalone group has no other manager.
GetGroup(r) ==
  LET q == req[r]
      g == groups[q.g]
  IN
  /\ q.pc = "get"
  /\ Proceed(r, g # None /\ (g.by = q.user \/ g.owned),
             [q EXCEPT !.pc = IF g.by = q.user THEN afterManager(q.op) ELSE "manager"])
  /\ UNCHANGED repo

requireGroupManager(r) ==
  /\ req[r].pc = "manager"
  /\ \E ok \in BOOLEAN : Proceed(r, ok, [req[r] EXCEPT !.pc = afterManager(req[r].op)])
  /\ UNCHANGED repo

DeleteGroup(r) ==
  /\ req[r].pc = "delete"
  /\ DeleteGroupRow(req[r].g)
  /\ Return(r)

ReadEnrollment(r) ==
  LET q == req[r] IN
  /\ q.pc = "enrollment"
  /\ Proceed(r, TRUE, [q EXCEPT !.tracked = GetEnrollment(q.g, q.member) # None, !.pc = "write"])
  /\ UNCHANGED repo

\* A tracked member is moved to an access-bearing state with the tuple, an
\* untracked one gets the bare tuple.
AddGroupMember(r) ==
  LET q == req[r]
      t == {groupMemberTuple(q.g, q.member)}
  IN
  /\ q.pc = "write" /\ q.op = "AddGroupMember"
  /\ \/ q.tracked /\ SetEnrollmentAndTuples(q.g, q.member, "enrolled", t, {})
     \/ ~q.tracked /\ WriteTuples(t, {})
  /\ Return(r)

RemoveGroupMember(r) ==
  LET q == req[r]
      t == {groupMemberTuple(q.g, q.member)}
  IN
  /\ q.pc = "write" /\ q.op = "RemoveGroupMember"
  /\ \/ q.tracked /\ SetEnrollmentAndTuples(q.g, q.member, "dropped", {}, t)
     \/ ~q.tracked /\ WriteTuples({}, t)
  /\ Return(r)

SetEnrollmentState(r) ==
  LET q == req[r]
      t == {groupMemberTuple(q.g, q.member)}
  IN
  /\ q.pc = "write" /\ q.op = "SetEnrollmentState"
  /\ \/ GrantsAccess(q.state) /\ SetEnrollmentAndTuples(q.g, q.member, q.state, t, {})
     \/ ~GrantsAccess(q.state) /\ SetEnrollmentAndTuples(q.g, q.member, q.state, {}, t)
  /\ Return(r)

\* DeprovisionUser: one call that drops every tuple of the user, in every group,
\* and leaves the enrollment rows.
DeprovisionUser(u) ==
  /\ tuples' = {t \in tuples : t[2].UserID # u}
  /\ erased' = erased \cup {u}
  /\ UNCHANGED <<groups, enrollments, issued, bypassed, req>>

\* A call of the data plane inserts or deletes a membership tuple of any object
\* id, group or not: only the seat namespace is reserved.
WriteRelationTuples(g, m) ==
  /\ tuples' \in {tuples \cup {groupMemberTuple(g, m)}, tuples \ {groupMemberTuple(g, m)}}
  /\ bypassed' = bypassed \cup {groupMemberTuple(g, m)}
  /\ UNCHANGED <<groups, enrollments, issued, erased, req>>

Arrive ==
  \E r \in Requests, u \in Users :
    \/ \E owned \in BOOLEAN : CreateGroupRPC(r, u, owned)
    \/ \E g \in GroupIDs :
         \/ DeleteGroupRPC(r, u, g)
         \/ \E m \in GroupMember :
              \/ AddGroupMemberRPC(r, u, g, m)
              \/ RemoveGroupMemberRPC(r, u, g, m)
              \/ \E state \in EnrollmentStates : SetEnrollmentStateRPC(r, u, g, m, state)

Step(r) ==
  \/ Abort(r) \/ RequireMember(r) \/ GetGroup(r) \/ requireGroupManager(r)
  \/ DeleteGroup(r) \/ ReadEnrollment(r) \/ AddGroupMember(r)
  \/ RemoveGroupMember(r) \/ SetEnrollmentState(r)
  \/ \E g \in GroupIDs : CreateGroup(r, g)

Next ==
  \/ Arrive
  \/ \E r \in Requests : Step(r)
  \/ \E u \in Users : DeprovisionUser(u)
  \/ \E g \in GroupIDs, m \in GroupMember : WriteRelationTuples(g, m)

Spec == Init /\ [][Next]_vars
-----------------------------------------------------------------------------
(* Properties *)

\* SetEnrollmentState moves the tuple with the row, AddGroupMember and
\* RemoveGroupMember route a tracked member through the row (groups.go:112-115,
\* 138-141): a tracked member is in the group's member set exactly when its
\* state grants access.  Deprovisioning takes the tuple alone, and the data plane
\* may write it alone; the next change of the member through these handlers makes
\* row and tuple agree again.
RosterMatchesAccess ==
  \A g \in GroupIDs : \A e \in ListEnrollments(g) :
    groupMemberTuple(g, e.member) \notin bypassed =>
      /\ e.member \in ListGroupMembers(g) => GrantsAccess(e.state)
      /\ GrantsAccess(e.state) => e.member \in ListGroupMembers(g) \/ e.member.UserID \in erased

\* DeleteGroup takes the group's tuples and enrollment rows with it, those the
\* data plane wrote included, and no handler of a group leaves anything that
\* outlives it or comes before it: only a later WriteRelationTuples can.
NothingOutlivesGroup ==
  \A g \in GroupIDs :
    groups[g] = None =>
      /\ ListEnrollments(g) = {}
      /\ \A m \in ListGroupMembers(g) : groupMemberTuple(g, m) \in bypassed
=============================================================================
