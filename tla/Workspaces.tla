----------------------------- MODULE Workspaces -----------------------------
(***************************************************************************)
(* The workspace product surface of one (project, tenant) shard: the       *)
(* handlers of internal/service/{workspaces,members,ownership,invitations} *)
(* running over the repository.  A handler is a sequence of repository     *)
(* calls; every call is atomic (one mutex hold in the memory driver, one   *)
(* transaction in Postgres) and nothing is held between two calls, so the  *)
(* handlers of different requests interleave at every call.                *)
(*                                                                         *)
(* The relation tuples are those of the `workspace` namespace with a       *)
(* concrete user as subject.  Display names, slugs, e-mail addresses and   *)
(* time stamps are left out; a lapse of time is the action Lapse.          *)
(***************************************************************************)
CONSTANTS
  Users,                \* end users (acting_user_id, user_id)
  WorkspaceIDs,         \* ids newID() may issue to workspaces
  InvitationIDs,        \* ids newID() may issue to invitations (and their tokens)
  Requests,             \* handlers that may be in flight at the same time
  OverlappingTransfers, \* may two transfers of one workspace be in flight?
  None                  \* "no such row"

Roles == {"owner", "admin", "member", "guest"}
GrantableRoles == Roles \ {"owner"}
Workspace == [type : {"personal", "team"}, owner : Users]
Membership == [role : Roles, status : {"active", "suspended"}]
Invitation == [w : WorkspaceIDs, role : GrantableRoles,
               status : {"pending", "accepted", "revoked", "expired"}]

Ops == {"EnsurePersonalWorkspace", "CreateWorkspace", "UpdateWorkspace",
        "DeleteWorkspace", "AddMember", "UpdateMemberRole", "RemoveMember",
        "SuspendMember", "ReinstateMember", "TransferOwnership",
        "CreateInvitation", "AcceptInvitation", "RevokeInvitation"}

ASSUME ConstantsAssumption ==
  /\ OverlappingTransfers \in BOOLEAN
  /\ None \notin Workspace \cup Membership \cup Invitation
  /\ None \notin Users \cup WorkspaceIDs \cup InvitationIDs \cup Roles \cup Ops

VARIABLES
  ws,      \* workspaces table: id -> row
  rows,    \* memberships table: id -> user -> row
  tuples,  \* relation tuples workspace:w#role@user:u, as <<w, role, u>>
  invs,    \* invitations table: id -> row
  issued,  \* ids handed out so far: newID never repeats
  lapsed,  \* invitations whose ExpiresAt has passed
  req      \* the handlers in flight: their arguments, what they read, their pc

vars == <<ws, rows, tuples, invs, issued, lapsed, req>>
repo == <<ws, rows, tuples, invs, issued>>

PCs == {"idle", "get", "admin", "owner", "lookup", "create", "own", "rename",
        "delete", "member", "put", "record", "former", "demote", "invite",
        "token", "expire", "consume", "getinv", "revoke"}

\* A handler in flight: its operation and arguments (user is the acting user),
\* the step it is at, and the rows it has read so far.
Handler == [op : Ops \cup {None}, pc : PCs, user : Users \cup {None},
            w : WorkspaceIDs \cup {None}, target : Users \cup {None},
            role : Roles \cup {None}, inv : InvitationIDs \cup {None},
            wrow : Workspace \cup {None}, row : Membership \cup {None},
            irow : Invitation \cup {None}]

Idle == [op |-> None, pc |-> "idle", user |-> None, w |-> None, target |-> None,
         role |-> None, inv |-> None, wrow |-> None, row |-> None, irow |-> None]

\* Every row and every handler is well formed.
TypeOK ==
  /\ ws \in [WorkspaceIDs -> Workspace \cup {None}]
  /\ rows \in [WorkspaceIDs -> [Users -> Membership \cup {None}]]
  /\ tuples \subseteq WorkspaceIDs \X Roles \X Users
  /\ invs \in [InvitationIDs -> Invitation \cup {None}]
  /\ issued \subseteq WorkspaceIDs \cup InvitationIDs
  /\ lapsed \subseteq InvitationIDs
  /\ req \in [Requests -> Handler]

Init ==
  /\ ws = [w \in WorkspaceIDs |-> None]
  /\ rows = [w \in WorkspaceIDs |-> [u \in Users |-> None]]
  /\ tuples = {}
  /\ invs = [i \in InvitationIDs |-> None]
  /\ issued = {}
  /\ lapsed = {}
  /\ req = [r \in Requests |-> Idle]
-----------------------------------------------------------------------------
(* Repository calls *)

userTuple(w, role, u) == <<w, role, u>>

\* writeTuplesLocked: deletes first, then inserts.
writeTuples(inserts, deletes) == tuples' = (tuples \ deletes) \cup inserts

PutMembershipAndTuples(w, u, row, inserts, deletes) ==
  /\ rows' = [rows EXCEPT ![w][u] = row]
  /\ writeTuples(inserts, deletes)
  /\ UNCHANGED <<ws, invs, issued>>

\* ErrNotFound leaves the row and the tuples untouched.
DeleteMembershipAndTuples(w, u, deletes) ==
  IF rows[w][u] = None
  THEN UNCHANGED repo
  ELSE PutMembershipAndTuples(w, u, None, {}, deletes)

personalOf(u) == {w \in WorkspaceIDs : ws[w] = [type |-> "personal", owner |-> u]}

\* UpdateWorkspace overwrites the whole row; ErrNotFound changes nothing.
UpdateWorkspaceRow(w, row) ==
  /\ ws' = IF ws[w] = None THEN ws ELSE [ws EXCEPT ![w] = row]
  /\ UNCHANGED <<rows, tuples, invs, issued>>

\* The cascade: memberships, `workspace` tuples and invitations go with the row.
DeleteWorkspaceRow(w) ==
  IF ws[w] = None
  THEN UNCHANGED repo
  ELSE /\ ws' = [ws EXCEPT ![w] = None]
       /\ rows' = [rows EXCEPT ![w] = [u \in Users |-> None]]
       /\ tuples' = {t \in tuples : t[1] # w}
       /\ invs' = [i \in InvitationIDs |->
                     IF invs[i] # None /\ invs[i].w = w THEN None ELSE invs[i]]
       /\ UNCHANGED issued

\* UpdateInvitation overwrites the whole row; ErrNotFound changes nothing.
UpdateInvitation(i, row) ==
  /\ invs' = IF invs[i] = None THEN invs ELSE [invs EXCEPT ![i] = row]
  /\ UNCHANGED <<ws, rows, tuples, issued>>
-----------------------------------------------------------------------------
(* The life of a handler *)

Return(r) == req' = [req EXCEPT ![r] = Idle]
Goto(r, pc) == req' = [req EXCEPT ![r].pc = pc]
\* Either go on with the handler q, or return early.
Proceed(r, ok, q) == req' = [req EXCEPT ![r] = IF ok THEN q ELSE Idle]

entry(op) ==
  CASE op = "EnsurePersonalWorkspace" -> "lookup"
    [] op = "CreateWorkspace" -> "create"
    [] op = "AcceptInvitation" -> "token"
    [] op = "RevokeInvitation" -> "getinv"
    [] OTHER -> "get"

\* The arguments an operation takes.  AddMember, UpdateMemberRole and
\* CreateInvitation validate their role first: it may not be `owner`.
workspaceArgs(op) == IF entry(op) = "get" THEN WorkspaceIDs ELSE {None}
targetArgs(op) ==
  IF op \in {"AddMember", "UpdateMemberRole", "RemoveMember", "SuspendMember",
             "ReinstateMember", "TransferOwnership"} THEN Users ELSE {None}
roleArgs(op) ==
  IF op \in {"AddMember", "UpdateMemberRole", "CreateInvitation"}
  THEN GrantableRoles ELSE {None}
invitationArgs(op) ==
  IF op \in {"AcceptInvitation", "RevokeInvitation"} THEN InvitationIDs ELSE {None}

\* A request arrives.
Begin(r, op, u, w, t, role, i) ==
  /\ req[r] = Idle
  /\ op = "TransferOwnership" /\ ~OverlappingTransfers =>
       \A s \in Requests : ~(req[s].op = op /\ req[s].w = w)
  /\ req' = [req EXCEPT ![r] = [Idle EXCEPT !.op = op, !.pc = entry(op), !.user = u,
                                   !.w = w, !.target = t, !.role = role, !.inv = i]]
  /\ UNCHANGED <<repo, lapsed>>

\* The handler stops between two calls with no further effect: the process
\* dies, the context is cancelled, the store fails, or ensureProjectActive or
\* the residency guard refuses.
Abort(r) ==
  /\ req[r] # Idle
  /\ Return(r)
  /\ UNCHANGED <<repo, lapsed>>

\* The clock passes an invitation's ExpiresAt.
Lapse(i) ==
  /\ i \in issued \ lapsed
  /\ lapsed' = lapsed \cup {i}
  /\ UNCHANGED <<repo, req>>
-----------------------------------------------------------------------------
(* requireWorkspace: load the row, then let the engine check the relation.  *)
(* admin is this \/ owner and owner is this, and each operand of the union  *)
(* is a read of its own, so a check of admin is two steps.                  *)

requiredRole(op) ==
  IF op \in {"DeleteWorkspace", "TransferOwnership"} THEN "owner" ELSE "admin"

GetWorkspace(r) ==
  LET q == req[r] IN
  /\ q.pc = "get"
  /\ Proceed(r, ws[q.w] # None,
             [q EXCEPT !.wrow = ws[q.w], !.pc = requiredRole(q.op)])
  /\ UNCHANGED <<repo, lapsed>>

\* Mutant: a transfer to the current owner is not a no-op.
acceptsSelfTransfer(q) ==
  /\ q.op \in {"AddMember", "CreateInvitation", "TransferOwnership", "DeleteWorkspace"} =>
       q.wrow.type = "team"
  /\ q.op = "RevokeInvitation" => q.irow.status = "pending"
\* Mutant: CreateInvitation does not refuse personal workspaces.
acceptsPersonalInvite(q) ==
  /\ q.op \in {"AddMember", "TransferOwnership", "DeleteWorkspace"} => q.wrow.type = "team"
  /\ q.op = "TransferOwnership" => q.target # q.wrow.owner
  /\ q.op = "RevokeInvitation" => q.irow.status = "pending"

\* What the handler does with the workspace before its next call: personal
\* workspaces are refused, a transfer to the owner and a revocation of a
\* settled invitation are no-ops.
accepts(q) ==
  /\ q.op \in {"AddMember", "CreateInvitation", "TransferOwnership", "DeleteWorkspace"} =>
       q.wrow.type = "team"
  /\ q.op = "TransferOwnership" => q.target # q.wrow.owner
  /\ q.op = "RevokeInvitation" => q.irow.status = "pending"

afterCheck(op) ==
  CASE op = "UpdateWorkspace" -> "rename"
    [] op = "DeleteWorkspace" -> "delete"
    [] op = "CreateInvitation" -> "invite"
    [] op = "RevokeInvitation" -> "revoke"
    [] OTHER -> "member"

Check(r) ==
  LET q == req[r] IN
  /\ q.pc \in {"admin", "owner"}
  /\ \/ /\ userTuple(q.w, q.pc, q.user) \in tuples
        /\ Proceed(r, accepts(q), [q EXCEPT !.pc = afterCheck(q.op)])
     \/ /\ userTuple(q.w, q.pc, q.user) \notin tuples
        /\ Proceed(r, q.pc = "admin", [q EXCEPT !.pc = "owner"])
  /\ UNCHANGED <<repo, lapsed>>
-----------------------------------------------------------------------------
(* workspaces.go *)

PersonalWorkspace(r) ==
  LET q == req[r] IN
  /\ q.pc = "lookup"
  /\ Proceed(r, personalOf(q.user) = {}, [q EXCEPT !.pc = "create"])
  /\ UNCHANGED <<repo, lapsed>>

\* Mutant: the store has no one-personal-per-owner constraint.
CreateWorkspaceUnchecked(r, w) ==
  LET q   == req[r]
      row == [type  |-> IF q.op = "CreateWorkspace" THEN "team" ELSE "personal",
              owner |-> q.user]
  IN
  /\ q.pc = "create"
  /\ w \in WorkspaceIDs \ issued
  /\ Proceed(r, TRUE, [q EXCEPT !.w = w, !.wrow = row, !.pc = "own"])
  /\ ws' = [ws EXCEPT ![w] = row]
  /\ issued' = issued \cup {w}
  /\ UNCHANGED <<rows, tuples, invs, lapsed>>

\* The store keeps one personal workspace per owner; the loser of a race
\* returns the winner's.
CreateWorkspace(r, w) ==
  LET q   == req[r]
      row == [type  |-> IF q.op = "CreateWorkspace" THEN "team" ELSE "personal",
              owner |-> q.user]
      ok  == row.type = "personal" => personalOf(q.user) = {}
  IN
  /\ q.pc = "create"
  /\ w \in WorkspaceIDs \ issued
  /\ Proceed(r, ok, [q EXCEPT !.w = w, !.wrow = row, !.pc = "own"])
  /\ ws' = IF ok THEN [ws EXCEPT ![w] = row] ELSE ws
  /\ issued' = issued \cup {w}
  /\ UNCHANGED <<rows, tuples, invs, lapsed>>

\* The second call of createWorkspaceWithOwner.
CreateOwner(r) ==
  LET q == req[r] IN
  /\ q.pc = "own"
  /\ PutMembershipAndTuples(q.w, q.wrow.owner, [role |-> "owner", status |-> "active"],
                            {userTuple(q.w, "owner", q.wrow.owner)}, {})
  /\ Return(r)
  /\ UNCHANGED lapsed

\* A new display name, written with the rest of the row as it was read.
UpdateWorkspace(r) ==
  /\ req[r].pc = "rename"
  /\ UpdateWorkspaceRow(req[r].w, req[r].wrow)
  /\ Return(r)
  /\ UNCHANGED lapsed

DeleteWorkspace(r) ==
  /\ req[r].pc = "delete"
  /\ DeleteWorkspaceRow(req[r].w)
  /\ Return(r)
  /\ UNCHANGED lapsed
-----------------------------------------------------------------------------
(* members.go *)

\* Mutant: UpdateMemberRole does not refuse suspended members.
admitsSuspended(op, role, m) ==
  CASE op = "AddMember" -> m = None
    [] op = "UpdateMemberRole" -> m # None /\ m.role \notin {"owner", role}
    [] op = "RemoveMember" -> m # None /\ m.role # "owner"
    [] op = "SuspendMember" -> m # None /\ m.role # "owner" /\ m.status = "active"
    [] op = "ReinstateMember" -> m # None /\ m.status = "suspended"
    [] OTHER -> TRUE

\* Whether the handler goes on after reading the row m of its target.
admits(op, role, m) ==
  CASE op = "AddMember" -> m = None
    [] op = "UpdateMemberRole" -> m # None /\ m.role \notin {"owner", role} /\ m.status = "active"
    [] op = "RemoveMember" -> m # None /\ m.role # "owner"
    [] op = "SuspendMember" -> m # None /\ m.role # "owner" /\ m.status = "active"
    [] op = "ReinstateMember" -> m # None /\ m.status = "suspended"
    [] OTHER -> TRUE

GetMembership(r) ==
  LET q == req[r]
      m == rows[q.w][q.target]
  IN
  /\ q.pc = "member"
  /\ Proceed(r, admits(q.op, q.role, m),
             [q EXCEPT !.row = m,
                       !.pc = IF q.op = "AcceptInvitation" /\ m # None
                              THEN "consume" ELSE "put"])
  /\ UNCHANGED <<repo, lapsed>>

\* AddMember and AcceptInvitation end in putMember; the latter goes on.
putMember(r) ==
  LET q == req[r] IN
  /\ q.pc = "put" /\ q.op \in {"AddMember", "AcceptInvitation"}
  /\ PutMembershipAndTuples(q.w, q.target, [role |-> q.role, status |-> "active"],
                            {userTuple(q.w, q.role, q.target)}, {})
  /\ IF q.op = "AcceptInvitation" THEN Goto(r, "consume") ELSE Return(r)
  /\ UNCHANGED lapsed

UpdateMemberRole(r) ==
  LET q == req[r] IN
  /\ q.pc = "put" /\ q.op = "UpdateMemberRole"
  /\ PutMembershipAndTuples(q.w, q.target, [q.row EXCEPT !.role = q.role],
                            {userTuple(q.w, q.role, q.target)},
                            {userTuple(q.w, q.row.role, q.target)})
  /\ Return(r)
  /\ UNCHANGED lapsed

RemoveMember(r) ==
  LET q == req[r] IN
  /\ q.pc = "put" /\ q.op = "RemoveMember"
  /\ DeleteMembershipAndTuples(q.w, q.target, {userTuple(q.w, q.row.role, q.target)})
  /\ Return(r)
  /\ UNCHANGED lapsed

SuspendMember(r) ==
  LET q == req[r] IN
  /\ q.pc = "put" /\ q.op = "SuspendMember"
  /\ PutMembershipAndTuples(q.w, q.target, [q.row EXCEPT !.status = "suspended"],
                            {}, {userTuple(q.w, q.row.role, q.target)})
  /\ Return(r)
  /\ UNCHANGED lapsed

ReinstateMember(r) ==
  LET q == req[r] IN
  /\ q.pc = "put" /\ q.op = "ReinstateMember"
  /\ PutMembershipAndTuples(q.w, q.target, [q.row EXCEPT !.status = "active"],
                            {userTuple(q.w, q.row.role, q.target)}, {})
  /\ Return(r)
  /\ UNCHANGED lapsed
-----------------------------------------------------------------------------
(* ownership.go: promote the new owner, record it, demote the former owner  *)

\* Mutant: the new owner is never recorded on the workspace.
PromoteOwnerUnrecorded(r) ==
  LET q == req[r] IN
  /\ q.pc = "put" /\ q.op = "TransferOwnership"
  /\ PutMembershipAndTuples(q.w, q.target, [role |-> "owner", status |-> "active"],
       {userTuple(q.w, "owner", q.target)},
       IF q.row # None /\ q.row.role # "owner"
       THEN {userTuple(q.w, q.row.role, q.target)} ELSE {})
  /\ Goto(r, "former")
  /\ UNCHANGED lapsed

PromoteOwner(r) ==
  LET q == req[r] IN
  /\ q.pc = "put" /\ q.op = "TransferOwnership"
  /\ PutMembershipAndTuples(q.w, q.target, [role |-> "owner", status |-> "active"],
       {userTuple(q.w, "owner", q.target)},
       IF q.row # None /\ q.row.role # "owner"
       THEN {userTuple(q.w, q.row.role, q.target)} ELSE {})
  /\ Goto(r, "record")
  /\ UNCHANGED lapsed

\* The row as first read, with the new owner.  ErrNotFound ends the transfer.
RecordOwner(r) ==
  LET q == req[r] IN
  /\ q.pc = "record"
  /\ UpdateWorkspaceRow(q.w, [q.wrow EXCEPT !.owner = q.target])
  /\ Proceed(r, ws[q.w] # None, [q EXCEPT !.pc = "former"])
  /\ UNCHANGED lapsed

GetFormerOwner(r) ==
  LET q == req[r] IN
  /\ q.pc = "former"
  /\ req' = [req EXCEPT ![r].row = rows[q.w][q.wrow.owner], ![r].pc = "demote"]
  /\ UNCHANGED <<repo, lapsed>>

\* Without a membership row only the tuples are swapped.
DemoteFormerOwner(r) ==
  LET q   == req[r]
      old == q.wrow.owner
      ins == {userTuple(q.w, "admin", old)}
      del == {userTuple(q.w, "owner", old)}
  IN
  /\ q.pc = "demote"
  /\ \/ /\ q.row # None
        /\ PutMembershipAndTuples(q.w, old, [q.row EXCEPT !.role = "admin"], ins, del)
     \/ /\ q.row = None
        /\ writeTuples(ins, del)
        /\ UNCHANGED <<ws, rows, invs, issued>>
  /\ Return(r)
  /\ UNCHANGED lapsed
-----------------------------------------------------------------------------
(* invitations.go *)

CreateInvitation(r, i) ==
  LET q == req[r] IN
  /\ q.pc = "invite"
  /\ i \in InvitationIDs \ issued
  /\ invs' = [invs EXCEPT ![i] = [w |-> q.w, role |-> q.role, status |-> "pending"]]
  /\ issued' = issued \cup {i}
  /\ Return(r)
  /\ UNCHANGED <<ws, rows, tuples, lapsed>>

\* Mutant: AcceptInvitation does not look at the invitation's status.
GetInvitationAnyStatus(r) ==
  LET q == req[r]
      v == invs[q.inv]
  IN
  /\ q.pc = "token"
  /\ Proceed(r, v # None,
             [q EXCEPT !.irow = v, !.w = v.w, !.role = v.role, !.target = q.user,
                       !.pc = IF q.inv \in lapsed THEN "expire" ELSE "member"])
  /\ UNCHANGED <<repo, lapsed>>

\* The token names a pending invitation; one past ExpiresAt is marked expired.
GetInvitationByTokenHash(r) ==
  LET q == req[r]
      v == invs[q.inv]
  IN
  /\ q.pc = "token"
  /\ Proceed(r, v # None /\ v.status = "pending",
             [q EXCEPT !.irow = v, !.w = v.w, !.role = v.role, !.target = q.user,
                       !.pc = IF q.inv \in lapsed THEN "expire" ELSE "member"])
  /\ UNCHANGED <<repo, lapsed>>

GetInvitation(r) ==
  LET q == req[r]
      v == invs[q.inv]
  IN
  /\ q.pc = "getinv"
  /\ Proceed(r, v # None, [q EXCEPT !.irow = v, !.w = v.w, !.pc = "get"])
  /\ UNCHANGED <<repo, lapsed>>

settledStatus(pc) ==
  CASE pc = "expire" -> "expired" [] pc = "consume" -> "accepted" [] OTHER -> "revoked"

\* The last call of AcceptInvitation and RevokeInvitation: the row as it was
\* read, with its new status.
SettleInvitation(r) ==
  LET q == req[r] IN
  /\ q.pc \in {"expire", "consume", "revoke"}
  /\ UpdateInvitation(q.inv, [q.irow EXCEPT !.status = settledStatus(q.pc)])
  /\ Return(r)
  /\ UNCHANGED lapsed
-----------------------------------------------------------------------------
Step(r) ==
  \/ GetWorkspace(r)
  \/ Check(r)
  \/ PersonalWorkspace(r)
  \/ \E w \in WorkspaceIDs : CreateWorkspace(r, w)
  \/ CreateOwner(r)
  \/ UpdateWorkspace(r)
  \/ DeleteWorkspace(r)
  \/ GetMembership(r)
  \/ putMember(r)
  \/ UpdateMemberRole(r)
  \/ RemoveMember(r)
  \/ SuspendMember(r)
  \/ ReinstateMember(r)
  \/ PromoteOwner(r)
  \/ RecordOwner(r)
  \/ GetFormerOwner(r)
  \/ DemoteFormerOwner(r)
  \/ \E i \in InvitationIDs : CreateInvitation(r, i)
  \/ GetInvitationByTokenHash(r)
  \/ GetInvitation(r)
  \/ SettleInvitation(r)
  \/ Abort(r)

Arrive(r) ==
  \E op \in Ops, u \in Users :
    \E w \in workspaceArgs(op), t \in targetArgs(op), role \in roleArgs(op),
       i \in invitationArgs(op) : Begin(r, op, u, w, t, role, i)

Next ==
  \/ \E r \in Requests : Arrive(r) \/ Step(r)
  \/ \E i \in InvitationIDs : Lapse(i)

Spec == Init /\ [][Next]_vars
-----------------------------------------------------------------------------
(* Correctness *)

holders(w, role) == {u \in Users : userTuple(w, role, u) \in tuples}

\* A personal workspace "admits exactly one member - the owner": no
\* interleaving of AddMember, AcceptInvitation, UpdateMemberRole,
\* TransferOwnership and the rest ever leaves a row or a role tuple of anyone
\* but the user it was created for, or a row that is not owner/active.
PersonalIsPrivate ==
  \A w \in WorkspaceIDs : ws[w] # None /\ ws[w].type = "personal" =>
    /\ \A u \in Users : rows[w][u] # None =>
         u = ws[w].owner /\ rows[w][u] = [role |-> "owner", status |-> "active"]
    /\ \A t \in tuples : t[1] = w => t = userTuple(w, "owner", ws[w].owner)

\* EnsurePersonalWorkspace: "concurrent first calls converge on a single
\* personal workspace", and no later write of a stale row (UpdateWorkspace)
\* makes a second one.
OnePersonalPerUser ==
  \A u \in Users : \A v, w \in personalOf(u) : v = w

\* The row of a member and their role tuples tell the same story: an active
\* row has exactly the tuple of its role, a suspended or absent row has none.
Agreement ==
  \A w \in WorkspaceIDs, u \in Users :
    {role \in Roles : userTuple(w, role, u) \in tuples} =
      IF rows[w][u] # None /\ rows[w][u].status = "active"
      THEN {rows[w][u].role} ELSE {}

\* The owner recorded on a workspace that has any owner holds the owner role,
\* at every step of a transfer and after one that was cut short.
RecordedOwnerHolds ==
  \A w \in WorkspaceIDs : ws[w] # None /\ holders(w, "owner") # {} =>
    ws[w].owner \in holders(w, "owner")

\* TransferOwnership: "there is never a window with no owner".  A workspace
\* that has an owner keeps one for as long as it exists.
NeverOwnerless ==
  [][\A w \in WorkspaceIDs :
       holders(w, "owner") # {} /\ ws'[w] # None => holders(w, "owner")' # {}]_vars

\* A step that changes no invitation which is accepted, revoked or expired.
keepsSettled ==
  \A i \in InvitationIDs :
    invs[i] # None /\ invs[i].status # "pending" /\ invs'[i] # None => invs'[i] = invs[i]

\* createWorkspaceWithOwner: "a crash can never orphan a workspace's owner".
\* A workspace nobody is still creating has an owner.
NotOrphaned ==
  \A w \in WorkspaceIDs :
    \/ ws[w] = None
    \/ holders(w, "owner") # {}
    \/ \E r \in Requests : req[r].pc = "own" /\ req[r].w = w

\* SuspendMember "deletes the backing role tuple (so every Check denies
\* immediately ...) and marks the membership suspended": a suspended row never
\* has a role tuple beside it.
SuspendedIsDenied ==
  \A w \in WorkspaceIDs, u \in Users :
    rows[w][u] # None /\ rows[w][u].status = "suspended" =>
      \A role \in Roles : userTuple(w, role, u) \notin tuples

\* RevokeInvitation cancels a pending invitation, and accepting a revoked one
\* fails: a revoked invitation is never accepted.
RevokedStaysRevoked ==
  [][\A i \in InvitationIDs :
       invs[i] # None /\ invs[i].status = "revoked" /\ invs'[i] # None =>
         invs'[i].status = "revoked"]_vars
=============================================================================
