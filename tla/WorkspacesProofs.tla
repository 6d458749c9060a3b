-------------------------- MODULE WorkspacesProofs --------------------------
(* What holds of Workspaces for every set of users, ids and requests: its    *)
(* types; a workspace keeps an owner for as long as it exists, provided no    *)
(* two transfers of one workspace overlap; a personal workspace stays its     *)
(* owner's alone, and every user has at most one, whatever requests           *)
(* interleave and wherever they stop.                                        *)
EXTENDS Workspaces, TLAPS

MemberOps == {"UpdateMemberRole", "RemoveMember", "SuspendMember", "ReinstateMember"}
TargetOps == MemberOps \cup {"AddMember", "TransferOwnership"}
InviteOps == {"AcceptInvitation", "RevokeInvitation"}

\* The steps a handler of an operation passes through.
Stage(op, pc) ==
  \/ op \in {"EnsurePersonalWorkspace", "CreateWorkspace"} /\ pc \in {"lookup", "create", "own"}
  \/ op = "UpdateWorkspace" /\ pc \in {"get", "admin", "owner", "rename"}
  \/ op = "DeleteWorkspace" /\ pc \in {"get", "owner", "delete"}
  \/ op = "CreateInvitation" /\ pc \in {"get", "admin", "owner", "invite"}
  \/ op = "RevokeInvitation" /\ pc \in {"getinv", "get", "admin", "owner", "revoke"}
  \/ op = "AcceptInvitation" /\ pc \in {"token", "expire", "member", "put", "consume"}
  \/ op = "TransferOwnership"
       /\ pc \in {"get", "owner", "member", "put", "record", "former", "demote"}
  \/ op \in MemberOps \cup {"AddMember"} /\ pc \in {"get", "admin", "owner", "member", "put"}

\* What a handler has learnt at each of its steps.
Shape(q) ==
  /\ q \in Handler
  /\ q.pc = "idle" => q = Idle
  /\ q.pc # "idle" => q.op \in Ops /\ q.user \in Users /\ Stage(q.op, q.pc)
  /\ q.pc \notin {"idle", "lookup", "create", "token", "getinv"} => q.w \in WorkspaceIDs
  /\ q.pc \notin {"idle", "lookup", "create", "token", "getinv", "get"} /\ q.op # "AcceptInvitation" =>
       q.wrow \in Workspace
  /\ q.op \in TargetOps => q.target \in Users
  /\ q.op \in {"AddMember", "UpdateMemberRole", "CreateInvitation"} => q.role \in GrantableRoles
  /\ q.op \in InviteOps => q.inv \in InvitationIDs
  /\ q.op \in InviteOps /\ q.pc \notin {"token", "getinv"} => q.irow \in Invitation /\ q.w = q.irow.w
  /\ q.op = "AcceptInvitation" /\ q.pc # "token" =>
       q.target \in Users /\ q.role \in GrantableRoles /\ q.irow.status = "pending"
  /\ q.pc = "revoke" => q.irow.status = "pending"
  /\ q.pc = "put" /\ q.op \in MemberOps => q.row \in Membership /\ admits(q.op, q.role, q.row)
  /\ q.pc \in {"delete", "invite", "record", "former", "demote"} => q.wrow.type = "team"
  /\ q.pc \in {"member", "put"} /\ q.op \in {"AddMember", "TransferOwnership"} => q.wrow.type = "team"
  /\ q.op = "TransferOwnership" /\ q.pc \in {"member", "put", "record", "former", "demote"} =>
       q.target # q.wrow.owner

HandlersOK == req \in [Requests -> Handler] /\ \A s \in Requests : Shape(req[s])
TypeInv == TypeOK /\ \A r \in Requests : Shape(req[r])
-----------------------------------------------------------------------------
(* A step of one handler leaves the others as they are. *)

LEMMA IdleShape == Shape(Idle)
BY ConstantsAssumption
   DEF Shape, Idle, Handler, PCs, TargetOps, MemberOps, InviteOps, Ops

LEMMA OneMoves ==
  ASSUME NEW r \in Requests, NEW q, Shape(q), HandlersOK, req' = [req EXCEPT ![r] = q]
  PROVE  HandlersOK'
<1>1. q \in Handler
  BY DEF Shape
<1>2. req' \in [Requests -> Handler]
  BY <1>1 DEF HandlersOK
<1>3. ASSUME NEW s \in Requests PROVE Shape(req'[s])
  <2>1. req'[s] = IF s = r THEN q ELSE req[s]
    BY DEF HandlersOK
  <2> QED BY <2>1 DEF HandlersOK
<1> QED BY <1>2, <1>3 DEF HandlersOK

LEMMA ReturnMoves ==
  ASSUME NEW r \in Requests, HandlersOK, Return(r)
  PROVE  HandlersOK'
BY IdleShape, OneMoves, Zenon DEF Return

LEMMA ProceedMoves ==
  ASSUME NEW r \in Requests, NEW ok \in BOOLEAN, NEW q, ok => Shape(q),
         HandlersOK, Proceed(r, ok, q)
  PROVE  HandlersOK'
<1>1. Shape(IF ok THEN q ELSE Idle)
  BY IdleShape
<1> QED BY <1>1, OneMoves, Zenon DEF Proceed

-----------------------------------------------------------------------------
(* The repository calls keep the tables well typed. *)

Tuples == WorkspaceIDs \X Roles \X Users
RepoOK ==
  /\ ws \in [WorkspaceIDs -> Workspace \cup {None}]
  /\ rows \in [WorkspaceIDs -> [Users -> Membership \cup {None}]]
  /\ tuples \subseteq Tuples
  /\ invs \in [InvitationIDs -> Invitation \cup {None}]
  /\ issued \subseteq WorkspaceIDs \cup InvitationIDs

LEMMA TypeInvParts == TypeInv <=> RepoOK /\ lapsed \subseteq InvitationIDs /\ HandlersOK
BY DEF TypeInv, TypeOK, RepoOK, HandlersOK, Tuples

LEMMA TypeInvParts2 ==
  ASSUME RepoOK', (lapsed \subseteq InvitationIDs)', HandlersOK'
  PROVE  TypeInv'
BY DEF TypeInv, TypeOK, RepoOK, HandlersOK, Tuples

LEMMA SameRepo == RepoOK /\ UNCHANGED repo => RepoOK'
BY DEF RepoOK, repo

LEMMA PutType ==
  ASSUME RepoOK, NEW w \in WorkspaceIDs, NEW u \in Users, NEW row \in Membership \cup {None},
         NEW ins \in SUBSET Tuples, NEW del, PutMembershipAndTuples(w, u, row, ins, del)
  PROVE  RepoOK'
<1>1. rows' \in [WorkspaceIDs -> [Users -> Membership \cup {None}]]
  BY DEF RepoOK, PutMembershipAndTuples
<1> QED BY <1>1 DEF RepoOK, PutMembershipAndTuples, writeTuples

LEMMA DeleteMembershipType ==
  ASSUME RepoOK, NEW w \in WorkspaceIDs, NEW u \in Users, NEW del,
         DeleteMembershipAndTuples(w, u, del)
  PROVE  RepoOK'
BY PutType, SameRepo DEF DeleteMembershipAndTuples

LEMMA UpdateWorkspaceType ==
  ASSUME RepoOK, NEW w \in WorkspaceIDs, NEW row \in Workspace, UpdateWorkspaceRow(w, row)
  PROVE  RepoOK'
BY DEF RepoOK, UpdateWorkspaceRow

LEMMA DeleteWorkspaceType ==
  ASSUME RepoOK, NEW w \in WorkspaceIDs, DeleteWorkspaceRow(w)
  PROVE  RepoOK'
<1>1. CASE ws[w] = None
  BY <1>1, SameRepo DEF DeleteWorkspaceRow
<1>2. CASE ws[w] # None
  <2>1. rows' \in [WorkspaceIDs -> [Users -> Membership \cup {None}]]
    BY <1>2 DEF RepoOK, DeleteWorkspaceRow
  <2>2. invs' \in [InvitationIDs -> Invitation \cup {None}]
    BY <1>2 DEF RepoOK, DeleteWorkspaceRow
  <2> QED BY <1>2, <2>1, <2>2 DEF RepoOK, DeleteWorkspaceRow
<1> QED BY <1>1, <1>2

LEMMA UpdateInvitationType ==
  ASSUME RepoOK, NEW i \in InvitationIDs, NEW row \in Invitation, UpdateInvitation(i, row)
  PROVE  RepoOK'
BY DEF RepoOK, UpdateInvitation
-----------------------------------------------------------------------------
(* Each step takes a handler to a shape its next step expects. *)

\* A handler that only moves to another step.
LEMMA MovePc ==
  ASSUME NEW q \in Handler, NEW pc \in PCs, NEW n, n = [q EXCEPT !.pc = pc]
  PROVE  /\ n \in Handler
         /\ n.pc = pc /\ n.op = q.op /\ n.user = q.user /\ n.w = q.w /\ n.target = q.target
         /\ n.role = q.role /\ n.inv = q.inv /\ n.wrow = q.wrow /\ n.row = q.row
         /\ n.irow = q.irow
<1>1. [q EXCEPT !.pc = pc] \in Handler
  BY DEF Handler
<1>2. /\ n.pc = pc /\ n.op = q.op /\ n.user = q.user /\ n.w = q.w /\ n.target = q.target
      /\ n.role = q.role /\ n.inv = q.inv /\ n.wrow = q.wrow /\ n.row = q.row
      /\ n.irow = q.irow
  BY DEF Handler
<1> QED BY <1>1, <1>2

LEMMA MoveRow ==
  ASSUME NEW q \in Handler, NEW pc \in PCs, NEW m \in Membership \cup {None}
  PROVE  [q EXCEPT !.row = m, !.pc = pc] \in Handler
BY Zenon DEF Handler

LEMMA GotoMoves ==
  ASSUME NEW r \in Requests, NEW pc \in PCs, HandlersOK, Goto(r, pc),
         Shape([req[r] EXCEPT !.pc = pc])
  PROVE  HandlersOK'
<1>1. req' = [req EXCEPT ![r] = [req[r] EXCEPT !.pc = pc]]
  BY DEF Goto
<1> QED BY <1>1, OneMoves, Zenon

LEMMA BeginShape ==
  ASSUME NEW op \in Ops, NEW u \in Users, NEW w \in workspaceArgs(op), NEW t \in targetArgs(op),
         NEW role \in roleArgs(op), NEW i \in invitationArgs(op), NEW n,
         n = [Idle EXCEPT !.op = op, !.pc = entry(op), !.user = u,
                          !.w = w, !.target = t, !.role = role, !.inv = i]
  PROVE  Shape(n)
<1>1. /\ n.op = op /\ n.pc = entry(op) /\ n.user = u /\ n.w = w /\ n.target = t
      /\ n.role = role /\ n.inv = i /\ n.wrow = None /\ n.row = None /\ n.irow = None
  BY DEF Idle
<1>2. /\ w \in WorkspaceIDs \cup {None} /\ t \in Users \cup {None}
      /\ role \in Roles \cup {None} /\ i \in InvitationIDs \cup {None}
  BY DEF workspaceArgs, targetArgs, roleArgs, invitationArgs, GrantableRoles
<1>3. entry(op) \in {"lookup", "create", "token", "getinv", "get"}
  BY DEF entry
<1>4. n \in Handler
  BY <1>2, <1>3, Zenon DEF Idle, Handler, PCs
<1>5. Stage(op, entry(op))
  BY DEF Stage, entry, Ops, MemberOps
<1>6. entry(op) = "get" => w \in WorkspaceIDs
  BY DEF workspaceArgs
<1>7. op \in TargetOps => t \in Users
  BY DEF targetArgs, TargetOps, MemberOps
<1>8. op \in {"AddMember", "UpdateMemberRole", "CreateInvitation"} => role \in GrantableRoles
  BY DEF roleArgs
<1>9. op \in InviteOps => i \in InvitationIDs /\ entry(op) \in {"token", "getinv"}
  BY DEF invitationArgs, InviteOps, entry
<1>10. op = "AcceptInvitation" => entry(op) = "token"
  BY DEF entry
<1> QED BY <1>1, <1>3, <1>4, <1>5, <1>6, <1>7, <1>8, <1>9, <1>10 DEF Shape

LEMMA GetWorkspaceShape ==
  ASSUME NEW q, Shape(q), q.pc = "get", NEW row \in Workspace, NEW n,
         n = [q EXCEPT !.wrow = row, !.pc = requiredRole(q.op)]
  PROVE  Shape(n)
<1>1. q \in Handler
  BY DEF Shape
<1>2. requiredRole(q.op) \in PCs /\ requiredRole(q.op) \in {"admin", "owner"}
  BY DEF requiredRole, PCs
<1>3. n \in Handler
  BY <1>1, <1>2, Zenon DEF Handler
<1>4. /\ n.wrow = row /\ n.pc = requiredRole(q.op)
      /\ n.op = q.op /\ n.user = q.user /\ n.w = q.w /\ n.target = q.target
      /\ n.role = q.role /\ n.inv = q.inv /\ n.irow = q.irow
  BY <1>1 DEF Handler
<1>5. Stage(n.op, n.pc) /\ n.op # "AcceptInvitation"
  BY <1>4 DEF Shape, Stage, requiredRole, MemberOps
<1> QED BY <1>2, <1>3, <1>4, <1>5 DEF Shape, InviteOps

LEMMA CheckShape ==
  ASSUME NEW q, Shape(q), q.pc \in {"admin", "owner"}, accepts(q), NEW n,
         n = [q EXCEPT !.pc = afterCheck(q.op)]
  PROVE  Shape(n)
<1>1. q \in Handler
  BY DEF Shape
<1>2. afterCheck(q.op) \in PCs /\ afterCheck(q.op) \in {"rename", "delete", "invite", "revoke", "member"}
  BY DEF afterCheck, PCs
<1>3. /\ n \in Handler
      /\ n.pc = afterCheck(q.op) /\ n.op = q.op /\ n.user = q.user /\ n.w = q.w
      /\ n.target = q.target /\ n.role = q.role /\ n.inv = q.inv /\ n.wrow = q.wrow
      /\ n.irow = q.irow
  BY <1>1, <1>2, MovePc
<1>4. Stage(n.op, n.pc) /\ n.op # "AcceptInvitation"
  BY <1>3 DEF Shape, Stage, afterCheck, MemberOps
<1>5. /\ n.pc = "delete" => n.op = "DeleteWorkspace"
      /\ n.pc = "invite" => n.op = "CreateInvitation"
      /\ n.pc = "revoke" => n.op = "RevokeInvitation"
  BY <1>3 DEF afterCheck
<1> QED BY <1>2, <1>3, <1>4, <1>5 DEF Shape, InviteOps, accepts

LEMMA FallToOwnerShape ==
  ASSUME NEW q, Shape(q), q.pc = "admin", NEW n, n = [q EXCEPT !.pc = "owner"]
  PROVE  Shape(n)
<1>1. q \in Handler
  BY DEF Shape
<1>2. /\ n \in Handler
      /\ n.pc = "owner" /\ n.op = q.op /\ n.user = q.user /\ n.w = q.w
      /\ n.target = q.target /\ n.role = q.role /\ n.inv = q.inv /\ n.wrow = q.wrow
      /\ n.irow = q.irow
  BY <1>1, MovePc DEF PCs
<1>3. Stage(n.op, n.pc) /\ n.op # "AcceptInvitation"
  BY <1>2 DEF Shape, Stage, MemberOps
<1> QED BY <1>2, <1>3 DEF Shape, InviteOps

LEMMA LookupShape ==
  ASSUME NEW q, Shape(q), q.pc = "lookup", NEW n, n = [q EXCEPT !.pc = "create"]
  PROVE  Shape(n)
<1>1. q \in Handler
  BY DEF Shape
<1>2. /\ n \in Handler
      /\ n.pc = "create" /\ n.op = q.op /\ n.user = q.user
  BY <1>1, MovePc DEF PCs
<1>3. q.op \in {"EnsurePersonalWorkspace", "CreateWorkspace"}
  BY DEF Shape, Stage, MemberOps
<1> QED BY <1>2, <1>3 DEF Shape, Stage, InviteOps, TargetOps, MemberOps

LEMMA CreateShape ==
  ASSUME NEW q, Shape(q), q.pc = "create", NEW w \in WorkspaceIDs, NEW row \in Workspace, NEW n,
         n = [q EXCEPT !.w = w, !.wrow = row, !.pc = "own"]
  PROVE  Shape(n)
<1>1. q \in Handler
  BY DEF Shape
<1>2. n \in Handler
  BY <1>1, Zenon DEF Handler, PCs
<1>3. /\ n.pc = "own" /\ n.op = q.op /\ n.user = q.user /\ n.w = w /\ n.wrow = row
  BY <1>1 DEF Handler
<1>4. q.op \in {"EnsurePersonalWorkspace", "CreateWorkspace"}
  BY DEF Shape, Stage, MemberOps
<1> QED BY <1>2, <1>3, <1>4 DEF Shape, Stage, InviteOps, TargetOps, MemberOps

LEMMA GetMembershipShape ==
  ASSUME NEW q, Shape(q), q.pc = "member", NEW m \in Membership \cup {None},
         admits(q.op, q.role, m), NEW pc,
         pc = IF q.op = "AcceptInvitation" /\ m # None THEN "consume" ELSE "put",
         NEW n, n = [q EXCEPT !.row = m, !.pc = pc]
  PROVE  Shape(n)
<1>1. q \in Handler /\ pc \in PCs
  BY DEF Shape, PCs
<1>2. n \in Handler
  BY <1>1, MoveRow, Zenon
<1>3. /\ n.pc = pc /\ n.op = q.op /\ n.user = q.user /\ n.w = q.w /\ n.row = m
      /\ n.target = q.target /\ n.role = q.role /\ n.inv = q.inv /\ n.wrow = q.wrow
      /\ n.irow = q.irow
  BY <1>1 DEF Handler
<1>4. Stage(n.op, n.pc)
  BY <1>3 DEF Shape, Stage, MemberOps
<1>5. q.op \in MemberOps => m \in Membership
  BY DEF admits, MemberOps
<1>6. pc \in {"put", "consume"}
  OBVIOUS
<1> QED BY <1>2, <1>3, <1>4, <1>5, <1>6 DEF Shape, InviteOps, MemberOps

LEMMA ConsumeShape ==
  ASSUME NEW q, Shape(q), q.pc = "put", q.op = "AcceptInvitation", NEW n,
         n = [q EXCEPT !.pc = "consume"]
  PROVE  Shape(n)
<1>1. q \in Handler
  BY DEF Shape
<1>2. /\ n \in Handler
      /\ n.pc = "consume" /\ n.op = q.op /\ n.user = q.user /\ n.w = q.w
      /\ n.target = q.target /\ n.role = q.role /\ n.inv = q.inv /\ n.irow = q.irow
  BY <1>1, MovePc DEF PCs
<1> QED BY <1>2 DEF Shape, Stage, InviteOps, TargetOps, MemberOps

\* The later steps of a transfer; GetFormerOwner also replaces the row it read.
LEMMA TransferShape ==
  ASSUME NEW q, Shape(q), q.op = "TransferOwnership", q.pc \in {"put", "record", "former"},
         NEW pc \in {"record", "former", "demote"}, NEW m \in Membership \cup {None},
         NEW n, n = [q EXCEPT !.pc = pc] \/ n = [q EXCEPT !.row = m, !.pc = pc]
  PROVE  Shape(n)
<1>1. q \in Handler
  BY DEF Shape
<1>2. /\ n \in Handler
      /\ n.pc = pc /\ n.op = q.op /\ n.user = q.user /\ n.w = q.w
      /\ n.target = q.target /\ n.wrow = q.wrow
  <2>1. CASE n = [q EXCEPT !.pc = pc]
    BY <1>1, <2>1, MovePc DEF PCs
  <2>2. CASE n = [q EXCEPT !.row = m, !.pc = pc]
    <3>1. [q EXCEPT !.row = m, !.pc = pc] \in Handler
      BY <1>1, MoveRow, Zenon DEF PCs
    <3>2. /\ n.pc = pc /\ n.op = q.op /\ n.user = q.user /\ n.w = q.w
          /\ n.target = q.target /\ n.wrow = q.wrow
      BY <1>1, <2>2 DEF Handler
    <3> QED BY <2>2, <3>1, <3>2
  <2> QED BY <2>1, <2>2
<1> QED BY <1>2 DEF Shape, Stage, InviteOps, TargetOps, MemberOps

LEMMA TokenShape ==
  ASSUME NEW q, Shape(q), q.pc = "token", NEW v \in Invitation, v.status = "pending",
         NEW pc \in {"expire", "member"}, NEW n,
         n = [q EXCEPT !.irow = v, !.w = v.w, !.role = v.role, !.target = q.user, !.pc = pc]
  PROVE  Shape(n)
<1>1. /\ q \in Handler /\ q.op = "AcceptInvitation" /\ q.user \in Users
      /\ q.inv \in InvitationIDs
  BY DEF Shape, Stage, InviteOps, MemberOps
<1>2. v.w \in WorkspaceIDs /\ v.role \in GrantableRoles /\ v.role \in Roles
  BY DEF Invitation, GrantableRoles
<1>3. n \in Handler
  BY <1>1, <1>2, Zenon DEF Handler, PCs
<1>4. /\ n.pc = pc /\ n.op = q.op /\ n.user = q.user /\ n.w = v.w /\ n.role = v.role
      /\ n.target = q.user /\ n.inv = q.inv /\ n.irow = v
  BY <1>1 DEF Handler
<1> QED BY <1>1, <1>2, <1>3, <1>4 DEF Shape, Stage, InviteOps, TargetOps, MemberOps

LEMMA GetInvitationShape ==
  ASSUME NEW q, Shape(q), q.pc = "getinv", NEW v \in Invitation, NEW n,
         n = [q EXCEPT !.irow = v, !.w = v.w, !.pc = "get"]
  PROVE  Shape(n)
<1>1. /\ q \in Handler /\ q.op = "RevokeInvitation" /\ q.user \in Users
      /\ q.inv \in InvitationIDs
  BY DEF Shape, Stage, InviteOps, MemberOps
<1>2. v.w \in WorkspaceIDs
  BY DEF Invitation
<1>3. n \in Handler
  BY <1>1, <1>2, Zenon DEF Handler, PCs
<1>4. /\ n.pc = "get" /\ n.op = q.op /\ n.user = q.user /\ n.w = v.w
      /\ n.inv = q.inv /\ n.irow = v
  BY <1>1 DEF Handler
<1> QED BY <1>1, <1>2, <1>3, <1>4 DEF Shape, Stage, InviteOps, TargetOps, MemberOps
-----------------------------------------------------------------------------
(* Type correctness *)

LEMMA TypeInit == Init => TypeInv
<1> SUFFICES ASSUME Init PROVE TypeInv
  OBVIOUS
<1>1. RepoOK /\ lapsed \subseteq InvitationIDs
  BY DEF Init, RepoOK
<1>2. HandlersOK
  BY IdleShape DEF Init, HandlersOK, Shape
<1> QED BY <1>1, <1>2, TypeInvParts

\* The handlers that only read.
LEMMA ReadStepType ==
  ASSUME TypeInv, NEW r \in Requests,
         \/ GetWorkspace(r) \/ Check(r) \/ PersonalWorkspace(r) \/ GetMembership(r)
         \/ GetFormerOwner(r) \/ GetInvitationByTokenHash(r) \/ GetInvitation(r) \/ Abort(r)
  PROVE  TypeInv'
<1> DEFINE q == req[r]
<1>1. RepoOK /\ HandlersOK /\ lapsed \subseteq InvitationIDs /\ Shape(q) /\ q \in Handler
  BY TypeInvParts, Zenon DEF HandlersOK
<1>2. UNCHANGED <<repo, lapsed>>
  BY DEF GetWorkspace, Check, PersonalWorkspace, GetMembership, GetFormerOwner,
         GetInvitationByTokenHash, GetInvitation, Abort
<1>3. RepoOK' /\ (lapsed \subseteq InvitationIDs)'
  BY <1>1, <1>2, SameRepo
<1>4. HandlersOK'
  <2>1. CASE GetWorkspace(r)
    <3>1. ws[q.w] # None => ws[q.w] \in Workspace
      BY <1>1, <2>1 DEF GetWorkspace, Shape, RepoOK
    <3> QED BY <1>1, <2>1, <3>1, GetWorkspaceShape, ProceedMoves, Zenon DEF GetWorkspace
  <2>2. CASE Check(r)
    <3>1. CASE Proceed(r, accepts(q), [q EXCEPT !.pc = afterCheck(q.op)])
      <4>1. accepts(q) \in BOOLEAN
        BY DEF accepts
      <4> QED BY <1>1, <2>2, <3>1, <4>1, CheckShape, ProceedMoves DEF Check
    <3>2. CASE Proceed(r, q.pc = "admin", [q EXCEPT !.pc = "owner"])
      BY <1>1, <3>2, FallToOwnerShape, ProceedMoves, Zenon
    <3> QED BY <2>2, <3>1, <3>2 DEF Check
  <2>3. CASE PersonalWorkspace(r)
    BY <1>1, <2>3, LookupShape, ProceedMoves, Zenon DEF PersonalWorkspace
  <2>4. CASE GetMembership(r)
    <3> DEFINE m == rows[q.w][q.target]
               pc == IF q.op = "AcceptInvitation" /\ m # None THEN "consume" ELSE "put"
    <3>1. q.pc = "member" /\ q.w \in WorkspaceIDs /\ q.target \in Users
      BY <1>1, <2>4 DEF GetMembership, Shape, Stage, TargetOps, MemberOps
    <3>2. m \in Membership \cup {None}
      BY <1>1, <3>1 DEF RepoOK
    <3>3. admits(q.op, q.role, m) \in BOOLEAN
      BY Zenon DEF admits
    <3>4. admits(q.op, q.role, m) => Shape([q EXCEPT !.row = m, !.pc = pc])
      BY <1>1, <3>1, <3>2, GetMembershipShape, Zenon
    <3>5. Proceed(r, admits(q.op, q.role, m), [q EXCEPT !.row = m, !.pc = pc])
      BY <2>4 DEF GetMembership
    <3> HIDE DEF m, pc
    <3> QED BY <1>1, <3>3, <3>4, <3>5, ProceedMoves, Zenon
  <2>5. CASE GetFormerOwner(r)
    <3> DEFINE m == rows[q.w][q.wrow.owner]
    <3>1. /\ q.pc = "former" /\ q.w \in WorkspaceIDs /\ q.wrow \in Workspace
          /\ q.op = "TransferOwnership"
      BY <1>1, <2>5 DEF GetFormerOwner, Shape, Stage, MemberOps
    <3>2. m \in Membership \cup {None}
      BY <1>1, <3>1 DEF RepoOK, Workspace
    <3>3. Shape([q EXCEPT !.row = m, !.pc = "demote"])
      BY <1>1, <3>1, <3>2, TransferShape, Zenon
    <3>4. req' = [req EXCEPT ![r] = [q EXCEPT !.row = m, !.pc = "demote"]]
      BY <2>5, Zenon DEF GetFormerOwner
    <3> QED BY <1>1, <3>3, <3>4, OneMoves, Zenon
  <2>6. CASE GetInvitationByTokenHash(r)
    <3> DEFINE v == invs[q.inv]
               pc == IF q.inv \in lapsed THEN "expire" ELSE "member"
               n == [q EXCEPT !.irow = v, !.w = v.w, !.role = v.role, !.target = q.user, !.pc = pc]
               ok == v # None /\ v.status = "pending"
    <3>1. q.pc = "token" /\ q.inv \in InvitationIDs
      BY <1>1, <2>6 DEF GetInvitationByTokenHash, Shape, Stage, InviteOps, MemberOps
    <3>2. v # None => v \in Invitation
      BY <1>1, <3>1 DEF RepoOK
    <3>3. pc \in {"expire", "member"}
      OBVIOUS
    <3>4. Proceed(r, ok, n) /\ ok \in BOOLEAN
      BY <2>6 DEF GetInvitationByTokenHash
    <3> HIDE DEF v, pc
    <3>5. ok => Shape(n)
      BY <1>1, <3>1, <3>2, <3>3, TokenShape, Zenon
    <3> HIDE DEF ok, n
    <3> QED BY <1>1, <3>4, <3>5, ProceedMoves
  <2>7. CASE GetInvitation(r)
    <3> DEFINE v == invs[q.inv]
    <3>1. q.pc = "getinv" /\ q.inv \in InvitationIDs
      BY <1>1, <2>7 DEF GetInvitation, Shape, Stage, InviteOps, MemberOps
    <3>2. v # None => v \in Invitation
      BY <1>1, <3>1 DEF RepoOK
    <3>3. Proceed(r, v # None, [q EXCEPT !.irow = v, !.w = v.w, !.pc = "get"])
      BY <2>7 DEF GetInvitation
    <3>4. v # None => Shape([q EXCEPT !.irow = v, !.w = v.w, !.pc = "get"])
      BY <1>1, <3>1, <3>2, GetInvitationShape, Zenon
    <3> QED BY <1>1, <3>3, <3>4, ProceedMoves, Zenon
  <2>8. CASE Abort(r)
    BY <1>1, <2>8, ReturnMoves DEF Abort
  <2> QED BY <2>1, <2>2, <2>3, <2>4, <2>5, <2>6, <2>7, <2>8
<1> QED BY <1>3, <1>4, TypeInvParts2

\* The calls that write memberships and tuples.
LEMMA MemberStepType ==
  ASSUME TypeInv, NEW r \in Requests,
         \/ CreateOwner(r) \/ putMember(r) \/ UpdateMemberRole(r) \/ RemoveMember(r)
         \/ SuspendMember(r) \/ ReinstateMember(r) \/ PromoteOwner(r) \/ DemoteFormerOwner(r)
  PROVE  TypeInv'
<1> DEFINE q == req[r]
<1>1. RepoOK /\ HandlersOK /\ lapsed \subseteq InvitationIDs /\ Shape(q) /\ q \in Handler
  BY TypeInvParts DEF HandlersOK
<1>2. lapsed' = lapsed
  BY DEF CreateOwner, putMember, UpdateMemberRole, RemoveMember, SuspendMember,
         ReinstateMember, PromoteOwner, DemoteFormerOwner
<1>3. ASSUME NEW w \in WorkspaceIDs, NEW role \in Roles, NEW u \in Users
      PROVE  {userTuple(w, role, u)} \in SUBSET Tuples
  BY DEF userTuple, Tuples
<1>4. ASSUME NEW role \in Roles PROVE [role |-> role, status |-> "active"] \in Membership
  BY DEF Membership
<1>5. ASSUME NEW m \in Membership, NEW role \in Roles
      PROVE  /\ [m EXCEPT !.role = role] \in Membership
             /\ [m EXCEPT !.status = "active"] \in Membership
             /\ [m EXCEPT !.status = "suspended"] \in Membership
             /\ m.role \in Roles
  BY DEF Membership
<1>6. {} \in SUBSET Tuples /\ GrantableRoles \subseteq Roles /\ "owner" \in Roles /\ "admin" \in Roles
  BY DEF GrantableRoles, Roles
<1>7. RepoOK' /\ HandlersOK'
  <2>1. CASE CreateOwner(r)
    <3>1. q.w \in WorkspaceIDs /\ q.wrow.owner \in Users
      BY <1>1, <2>1 DEF CreateOwner, Shape, Stage, MemberOps, Workspace
    <3> QED BY <1>1, <1>3, <1>4, <1>6, <2>1, <3>1, PutType, ReturnMoves, Zenon DEF CreateOwner
  <2>2. CASE putMember(r)
    <3>1. q.w \in WorkspaceIDs /\ q.target \in Users /\ q.role \in Roles
      BY <1>1, <1>6, <2>2, Zenon DEF putMember, Shape, TargetOps
    <3>2. RepoOK'
      BY <1>1, <1>3, <1>4, <2>2, <3>1, PutType DEF putMember
    <3>3. CASE q.op = "AcceptInvitation"
      <4>1. Shape([q EXCEPT !.pc = "consume"])
        BY <1>1, <2>2, <3>3, ConsumeShape DEF putMember
      <4> QED BY <1>1, <2>2, <3>2, <3>3, <4>1, GotoMoves, Zenon DEF putMember, PCs
    <3>4. CASE q.op # "AcceptInvitation"
      BY <1>1, <2>2, <3>2, <3>4, ReturnMoves DEF putMember
    <3> QED BY <3>3, <3>4, Zenon
  <2>3. CASE UpdateMemberRole(r)
    <3>1. q.w \in WorkspaceIDs /\ q.target \in Users /\ q.role \in Roles /\ q.row \in Membership
      BY <1>1, <1>6, <2>3, Zenon DEF UpdateMemberRole, Shape, TargetOps, MemberOps
    <3> QED BY <1>1, <1>3, <1>5, <2>3, <3>1, PutType, ReturnMoves, Zenon DEF UpdateMemberRole
  <2>4. CASE RemoveMember(r)
    <3>1. q.w \in WorkspaceIDs /\ q.target \in Users
      BY <1>1, <2>4 DEF RemoveMember, Shape, TargetOps, MemberOps
    <3> QED BY <1>1, <2>4, <3>1, DeleteMembershipType, ReturnMoves, Zenon DEF RemoveMember
  <2>5. CASE SuspendMember(r)
    <3>1. q.w \in WorkspaceIDs /\ q.target \in Users /\ q.row \in Membership
      BY <1>1, <2>5 DEF SuspendMember, Shape, TargetOps, MemberOps
    <3> QED BY <1>1, <1>5, <1>6, <2>5, <3>1, PutType, ReturnMoves, Zenon DEF SuspendMember
  <2>6. CASE ReinstateMember(r)
    <3>1. q.w \in WorkspaceIDs /\ q.target \in Users /\ q.row \in Membership
      BY <1>1, <2>6 DEF ReinstateMember, Shape, TargetOps, MemberOps
    <3> QED BY <1>1, <1>3, <1>5, <1>6, <2>6, <3>1, PutType, ReturnMoves, Zenon DEF ReinstateMember
  <2>7. CASE PromoteOwner(r)
    <3>1. q.w \in WorkspaceIDs /\ q.target \in Users
      BY <1>1, <2>7, Zenon DEF PromoteOwner, Shape, TargetOps
    <3>2. RepoOK'
      BY <1>1, <1>3, <1>4, <1>6, <2>7, <3>1, PutType DEF PromoteOwner
    <3>3. Shape([q EXCEPT !.pc = "record"])
      BY <1>1, <2>7, TransferShape, Zenon DEF PromoteOwner
    <3> QED BY <1>1, <2>7, <3>2, <3>3, GotoMoves, Zenon DEF PromoteOwner, PCs
  <2>8. CASE DemoteFormerOwner(r)
    <3>1. q.w \in WorkspaceIDs /\ q.wrow.owner \in Users /\ q.row \in Membership \cup {None}
      BY <1>1, <2>8 DEF DemoteFormerOwner, Shape, Stage, MemberOps, Workspace, Handler
    <3>2. CASE q.row # None
      BY <1>1, <1>3, <1>5, <1>6, <2>8, <3>1, <3>2, PutType, ReturnMoves, Zenon DEF DemoteFormerOwner
    <3>3. CASE q.row = None
      <4>1. RepoOK'
        BY <1>1, <1>3, <1>6, <2>8, <3>1, <3>3 DEF DemoteFormerOwner, writeTuples, RepoOK
      <4> QED BY <1>1, <2>8, <4>1, ReturnMoves DEF DemoteFormerOwner
    <3> QED BY <3>2, <3>3
  <2> QED BY <2>1, <2>2, <2>3, <2>4, <2>5, <2>6, <2>7, <2>8
<1> QED BY <1>1, <1>2, <1>7, TypeInvParts2

\* The calls that write the workspaces and invitations tables.
LEMMA TableStepType ==
  ASSUME TypeInv, NEW r \in Requests,
         \/ \E w \in WorkspaceIDs : CreateWorkspace(r, w)
         \/ UpdateWorkspace(r) \/ DeleteWorkspace(r) \/ RecordOwner(r)
         \/ \E i \in InvitationIDs : CreateInvitation(r, i)
         \/ SettleInvitation(r)
  PROVE  TypeInv'
<1> DEFINE q == req[r]
<1>1. RepoOK /\ HandlersOK /\ lapsed \subseteq InvitationIDs /\ Shape(q) /\ q \in Handler
  BY TypeInvParts DEF HandlersOK
<1>2. lapsed' = lapsed
  BY Zenon DEF CreateWorkspace, UpdateWorkspace, DeleteWorkspace, RecordOwner, CreateInvitation,
         SettleInvitation
<1>7. RepoOK' /\ HandlersOK'
  <2>1. ASSUME NEW w \in WorkspaceIDs, CreateWorkspace(r, w) PROVE RepoOK' /\ HandlersOK'
    <3> DEFINE row == [type  |-> IF q.op = "CreateWorkspace" THEN "team" ELSE "personal",
                       owner |-> q.user]
               ok  == row.type = "personal" => personalOf(q.user) = {}
    <3>1. q.pc = "create" /\ q.user \in Users
      BY <1>1, <2>1, Zenon DEF CreateWorkspace, Shape
    <3>2. row \in Workspace
      BY <3>1 DEF Workspace
    <3>3. /\ Proceed(r, ok, [q EXCEPT !.w = w, !.wrow = row, !.pc = "own"]) /\ ok \in BOOLEAN
          /\ ws' = IF ok THEN [ws EXCEPT ![w] = row] ELSE ws
          /\ issued' = issued \cup {w}
          /\ UNCHANGED <<rows, tuples, invs>>
      BY <2>1, Zenon DEF CreateWorkspace
    <3> HIDE DEF row, ok
    <3>4. Shape([q EXCEPT !.w = w, !.wrow = row, !.pc = "own"])
      BY <1>1, <3>1, <3>2, CreateShape, Zenon
    <3>5. HandlersOK'
      BY <1>1, <3>3, <3>4, ProceedMoves
    <3> QED BY <1>1, <3>2, <3>3, <3>5 DEF RepoOK
  <2>2. CASE UpdateWorkspace(r)
    <3>1. q.w \in WorkspaceIDs /\ q.wrow \in Workspace
      BY <1>1, <2>2 DEF UpdateWorkspace, Shape, Stage, MemberOps
    <3> QED BY <1>1, <2>2, <3>1, UpdateWorkspaceType, ReturnMoves, Zenon DEF UpdateWorkspace
  <2>3. CASE DeleteWorkspace(r)
    <3>1. q.w \in WorkspaceIDs
      BY <1>1, <2>3 DEF DeleteWorkspace, Shape
    <3> QED BY <1>1, <2>3, <3>1, DeleteWorkspaceType, ReturnMoves, Zenon DEF DeleteWorkspace
  <2>4. CASE RecordOwner(r)
    <3>1. /\ q.w \in WorkspaceIDs /\ q.wrow \in Workspace /\ q.target \in Users
          /\ q.op = "TransferOwnership" /\ q.pc = "record"
      BY <1>1, <2>4 DEF RecordOwner, Shape, Stage, TargetOps, MemberOps
    <3>2. [q.wrow EXCEPT !.owner = q.target] \in Workspace
      BY <3>1 DEF Workspace
    <3>3. RepoOK'
      BY <1>1, <2>4, <3>1, <3>2, UpdateWorkspaceType DEF RecordOwner
    <3>4. Shape([q EXCEPT !.pc = "former"])
      BY <1>1, <3>1, TransferShape, Zenon
    <3> QED BY <1>1, <2>4, <3>3, <3>4, ProceedMoves, Zenon DEF RecordOwner
  <2>5. ASSUME NEW i \in InvitationIDs, CreateInvitation(r, i) PROVE RepoOK' /\ HandlersOK'
    <3>1. q.w \in WorkspaceIDs /\ q.role \in GrantableRoles
      BY <1>1, <2>5 DEF CreateInvitation, Shape, Stage, MemberOps
    <3>2. [w |-> q.w, role |-> q.role, status |-> "pending"] \in Invitation
      BY <3>1 DEF Invitation
    <3>3. RepoOK'
      BY <1>1, <2>5, <3>2 DEF CreateInvitation, RepoOK
    <3> QED BY <1>1, <2>5, <3>3, ReturnMoves, Zenon DEF CreateInvitation
  <2>6. CASE SettleInvitation(r)
    <3>1. q.inv \in InvitationIDs /\ q.irow \in Invitation
      BY <1>1, <2>6 DEF SettleInvitation, Shape, Stage, InviteOps, MemberOps
    <3>2. settledStatus(q.pc) \in {"pending", "accepted", "revoked", "expired"}
      BY DEF settledStatus
    <3>3. [q.irow EXCEPT !.status = settledStatus(q.pc)] \in Invitation
      BY <3>1, <3>2 DEF Invitation
    <3> QED BY <1>1, <2>6, <3>1, <3>3, UpdateInvitationType, ReturnMoves DEF SettleInvitation
  <2> QED BY <2>1, <2>2, <2>3, <2>4, <2>5, <2>6
<1> QED BY <1>1, <1>2, <1>7, TypeInvParts2

LEMMA ArriveType ==
  ASSUME TypeInv, NEW r \in Requests, Arrive(r)
  PROVE  TypeInv'
<1>1. PICK op \in Ops, u \in Users :
        \E w \in workspaceArgs(op), t \in targetArgs(op), role \in roleArgs(op),
           i \in invitationArgs(op) : Begin(r, op, u, w, t, role, i)
  BY DEF Arrive
<1>2. PICK w \in workspaceArgs(op), t \in targetArgs(op), role \in roleArgs(op),
           i \in invitationArgs(op) : Begin(r, op, u, w, t, role, i)
  BY <1>1
<1>3. HandlersOK /\ RepoOK /\ lapsed \subseteq InvitationIDs
  BY TypeInvParts
<1>4. HandlersOK'
  <2> DEFINE n == [Idle EXCEPT !.op = op, !.pc = entry(op), !.user = u,
                               !.w = w, !.target = t, !.role = role, !.inv = i]
  <2>1. Shape(n)
    BY BeginShape, Zenon
  <2>2. req' = [req EXCEPT ![r] = n]
    BY <1>2 DEF Begin
  <2> HIDE DEF n
  <2> QED BY <1>3, <2>1, <2>2, OneMoves, Zenon
<1> QED BY <1>2, <1>3, <1>4, SameRepo, TypeInvParts2 DEF Begin

LEMMA TypeNext == TypeInv /\ [Next]_vars => TypeInv'
<1> SUFFICES ASSUME TypeInv, [Next]_vars PROVE TypeInv'
  OBVIOUS
<1>1. ASSUME NEW r \in Requests, Arrive(r) PROVE TypeInv'
  BY <1>1, ArriveType
<1>2. ASSUME NEW r \in Requests, Step(r) PROVE TypeInv'
  BY <1>2, ReadStepType, MemberStepType, TableStepType DEF Step
<1>3. ASSUME NEW i \in InvitationIDs, Lapse(i) PROVE TypeInv'
  BY <1>3, SameRepo, TypeInvParts, TypeInvParts2 DEF Lapse, HandlersOK
<1>4. CASE UNCHANGED vars
  BY <1>4, SameRepo, TypeInvParts, TypeInvParts2 DEF vars, repo, HandlersOK
<1> QED BY <1>1, <1>2, <1>3, <1>4 DEF Next

LEMMA TypeInvariant == Spec => []TypeInv
BY TypeInit, TypeNext, PTL DEF Spec

\* Every table row and every handler in flight keeps its type, and each
\* handler has read what its next repository call needs, whatever requests
\* interleave and wherever they stop.
THEOREM TypeCorrectness == Spec => []TypeOK
<1>1. TypeInv => TypeOK
  BY DEF TypeInv
<1> QED BY <1>1, TypeInvariant, PTL
-----------------------------------------------------------------------------
(* Owners *)

Transfers(r) == req[r].op = "TransferOwnership"
\* Past PromoteOwner: the new owner has the tuple, the former one may lose it.
Promoted(r) == Transfers(r) /\ req[r].pc \in {"record", "former", "demote"}

OwnerInv ==
  /\ \A w \in WorkspaceIDs : ws[w] # None => w \in issued
  /\ \A r \in Requests : Transfers(r) /\ req[r].pc # "get" => req[r].w \in issued
  /\ \A r, s \in Requests : Transfers(r) /\ Transfers(s) /\ req[r].w = req[s].w => r = s
  /\ \A r \in Requests : Promoted(r) =>
       ws[req[r].w] = None \/ userTuple(req[r].w, "owner", req[r].target) \in tuples

-----------------------------------------------------------------------------
(* What a step of handler r does to r and to the others. *)

LEMMA OthersStay ==
  ASSUME TypeInv, NEW r \in Requests, Step(r) \/ Arrive(r), NEW s \in Requests, s # r
  PROVE  req'[s] = req[s]
BY ZenonT(30) DEF TypeInv, TypeOK, Step, Arrive, Begin, Return, Goto, Proceed, GetWorkspace, Check,
       PersonalWorkspace, CreateWorkspace, CreateOwner, UpdateWorkspace, DeleteWorkspace,
       GetMembership, putMember, UpdateMemberRole, RemoveMember, SuspendMember,
       ReinstateMember, PromoteOwner, RecordOwner, GetFormerOwner, DemoteFormerOwner,
       CreateInvitation, GetInvitationByTokenHash, GetInvitation, SettleInvitation, Abort

LEMMA IdleIsNoTransfer == Idle.op # "TransferOwnership"
BY ConstantsAssumption DEF Idle, Ops

\* What the handler was asked to do, what it has read of its workspace, and what
\* it has read besides.
SameRequest(q, n) == n.op = q.op /\ n.user = q.user /\ n.inv = q.inv
SameWorkspace(q, n) == SameRequest(q, n) /\ n.w = q.w /\ n.wrow = q.wrow /\ n.irow = q.irow
SameTarget(q, n) == n.target = q.target /\ n.role = q.role

\* How a handler r that does not return in this step goes on.
Moves(r, q, n) ==
  \/ /\ GetWorkspace(r) /\ SameRequest(q, n) /\ SameTarget(q, n) /\ n.irow = q.irow
     /\ n.w = q.w /\ n.wrow = ws[q.w] /\ ws[q.w] # None /\ n.pc = requiredRole(q.op)
  \/ /\ Check(r) /\ SameWorkspace(q, n) /\ SameTarget(q, n)
     /\ \/ n.pc = "owner"
        \/ accepts(q) /\ n.pc = afterCheck(q.op) /\ userTuple(q.w, q.pc, q.user) \in tuples
  \/ /\ PersonalWorkspace(r) /\ SameWorkspace(q, n) /\ SameTarget(q, n)
     /\ n.pc = "create"
  \/ \E w \in WorkspaceIDs :
       /\ CreateWorkspace(r, w) /\ SameRequest(q, n) /\ SameTarget(q, n) /\ n.w = w
       /\ n.wrow = ws'[w] /\ ws'[w] # None /\ n.pc = "own"
  \/ /\ GetMembership(r) /\ SameWorkspace(q, n) /\ SameTarget(q, n)
     /\ n.row = rows[q.w][q.target] /\ admits(q.op, q.role, n.row)
     /\ n.pc = IF q.op = "AcceptInvitation" /\ n.row # None THEN "consume" ELSE "put"
  \/ /\ putMember(r) /\ SameWorkspace(q, n) /\ SameTarget(q, n)
     /\ q.op = "AcceptInvitation" /\ n.pc = "consume"
  \/ /\ PromoteOwner(r) /\ SameWorkspace(q, n) /\ SameTarget(q, n)
     /\ n.pc = "record"
  \/ /\ RecordOwner(r) /\ SameWorkspace(q, n) /\ SameTarget(q, n)
     /\ ws[q.w] # None /\ n.pc = "former"
  \/ /\ GetFormerOwner(r) /\ SameWorkspace(q, n) /\ SameTarget(q, n)
     /\ n.row = rows[q.w][q.wrow.owner] /\ n.pc = "demote"
  \/ /\ GetInvitationByTokenHash(r) /\ SameRequest(q, n) /\ n.wrow = q.wrow
     /\ n.irow = invs[q.inv] /\ n.w = n.irow.w /\ n.role = n.irow.role /\ n.target = q.user
     /\ invs[q.inv] # None /\ invs[q.inv].status = "pending"
     /\ n.pc = IF q.inv \in lapsed THEN "expire" ELSE "member"
  \/ /\ GetInvitation(r) /\ SameRequest(q, n) /\ n.wrow = q.wrow /\ SameTarget(q, n)
     /\ n.irow = invs[q.inv] /\ n.w = n.irow.w /\ invs[q.inv] # None /\ n.pc = "get"

LEMMA HandlerMoves ==
  ASSUME TypeInv, NEW r \in Requests, Step(r), req'[r] # Idle,
         NEW q, q = req[r], NEW n, n = req'[r]
  PROVE  Moves(r, q, n)
<1>1. q \in Handler /\ req \in [Requests -> Handler]
  BY DEF TypeInv, TypeOK
<1>2. ASSUME Return(r) PROVE FALSE
  BY <1>1, <1>2 DEF Return
<1>3. CASE GetWorkspace(r)
  <2>1. n = [q EXCEPT !.wrow = ws[q.w], !.pc = requiredRole(q.op)] /\ ws[q.w] # None
    BY <1>1, <1>3 DEF GetWorkspace, Proceed
  <2> QED BY <1>1, <1>3, <2>1 DEF Moves, Handler, SameRequest, SameTarget
<1>4. CASE Check(r)
  <2>1. PICK pc : /\ n = [q EXCEPT !.pc = pc]
                  /\ \/ pc = "owner"
                     \/ accepts(q) /\ pc = afterCheck(q.op) /\ userTuple(q.w, q.pc, q.user) \in tuples
    BY <1>1, <1>4 DEF Check, Proceed
  <2>2. SameWorkspace(q, n) /\ SameTarget(q, n) /\ n.pc = pc
    BY <1>1, <2>1 DEF Handler, SameWorkspace, SameRequest, SameTarget
  <2> QED BY <1>4, <2>1, <2>2 DEF Moves
<1>5. CASE PersonalWorkspace(r)
  <2>1. n = [q EXCEPT !.pc = "create"]
    BY <1>1, <1>5, Zenon DEF PersonalWorkspace, Proceed
  <2> QED BY <1>1, <1>5, <2>1 DEF Moves, Handler, SameWorkspace, SameRequest, SameTarget
<1>6. ASSUME NEW w \in WorkspaceIDs, CreateWorkspace(r, w) PROVE Moves(r, q, n)
  <2> DEFINE row == [type  |-> IF q.op = "CreateWorkspace" THEN "team" ELSE "personal",
                     owner |-> q.user]
  <2>1. n = [q EXCEPT !.w = w, !.wrow = row, !.pc = "own"] /\ ws' = [ws EXCEPT ![w] = row]
    BY <1>1, <1>6 DEF CreateWorkspace, Proceed
  <2>2. q.user \in Users
    BY <1>6 DEF CreateWorkspace, TypeInv, Shape
  <2>3. row \in Workspace
    BY <2>2 DEF Workspace
  <2> HIDE DEF row
  <2>4. row # None
    BY <2>3, ConstantsAssumption
  <2>5. ws'[w] = row
    BY <2>1 DEF TypeInv, TypeOK
  <2>6. /\ SameRequest(q, n) /\ SameTarget(q, n) /\ n.w = w
        /\ n.wrow = ws'[w] /\ ws'[w] # None /\ n.pc = "own"
    BY <1>1, <2>1, <2>4, <2>5, Zenon DEF Handler, SameRequest, SameTarget
  <2> QED BY <1>6, <2>6 DEF Moves
<1>7. CASE GetMembership(r)
  <2> DEFINE m == rows[q.w][q.target]
             pc == IF q.op = "AcceptInvitation" /\ m # None THEN "consume" ELSE "put"
  <2>1. n = [q EXCEPT !.row = m, !.pc = pc] /\ admits(q.op, q.role, m)
    BY <1>1, <1>7, Zenon DEF GetMembership, Proceed
  <2>2. SameWorkspace(q, n) /\ SameTarget(q, n) /\ n.row = m /\ n.pc = pc
    BY <1>1, <2>1, Zenon DEF Handler, SameWorkspace, SameRequest, SameTarget
  <2>3. /\ n.row = rows[q.w][q.target] /\ admits(q.op, q.role, n.row)
        /\ n.pc = IF q.op = "AcceptInvitation" /\ n.row # None THEN "consume" ELSE "put"
    BY <2>1, <2>2, Zenon
  <2> HIDE DEF m, pc
  <2> QED BY <1>7, <2>2, <2>3, Zenon DEF Moves
<1>8. CASE putMember(r)
  <2>1. q.op = "AcceptInvitation" /\ n = [q EXCEPT !.pc = "consume"]
    BY <1>1, <1>2, <1>8 DEF putMember, Goto
  <2> QED BY <1>1, <1>8, <2>1 DEF Moves, Handler, SameWorkspace, SameRequest, SameTarget
<1>9. CASE PromoteOwner(r)
  <2>1. n = [q EXCEPT !.pc = "record"]
    BY <1>1, <1>9 DEF PromoteOwner, Goto
  <2> QED BY <1>1, <1>9, <2>1 DEF Moves, Handler, SameWorkspace, SameRequest, SameTarget
<1>10. CASE RecordOwner(r)
  <2>1. n = [q EXCEPT !.pc = "former"] /\ ws[q.w] # None
    BY <1>1, <1>10, Zenon DEF RecordOwner, Proceed
  <2> QED BY <1>1, <1>10, <2>1 DEF Moves, Handler, SameWorkspace, SameRequest, SameTarget
<1>11. CASE GetFormerOwner(r)
  <2>1. n = [q EXCEPT !.row = rows[q.w][q.wrow.owner], !.pc = "demote"]
    BY <1>1, <1>11, Zenon DEF GetFormerOwner
  <2> QED BY <1>1, <1>11, <2>1 DEF Moves, Handler, SameWorkspace, SameRequest, SameTarget
<1>12. CASE GetInvitationByTokenHash(r)
  <2> DEFINE v == invs[q.inv]
             pc == IF q.inv \in lapsed THEN "expire" ELSE "member"
  <2>1. /\ n = [q EXCEPT !.irow = v, !.w = v.w, !.role = v.role, !.target = q.user, !.pc = pc]
        /\ v # None /\ v.status = "pending"
    BY <1>1, <1>12 DEF GetInvitationByTokenHash, Proceed
  <2>2. /\ SameRequest(q, n) /\ n.wrow = q.wrow /\ n.irow = v /\ n.w = v.w /\ n.role = v.role
        /\ n.target = q.user /\ n.pc = pc
    BY <1>1, <2>1 DEF Handler, SameRequest
  <2> QED BY <1>12, <2>1, <2>2 DEF Moves
<1>13. CASE GetInvitation(r)
  <2> DEFINE v == invs[q.inv]
  <2>1. n = [q EXCEPT !.irow = v, !.w = v.w, !.pc = "get"] /\ v # None
    BY <1>1, <1>13 DEF GetInvitation, Proceed
  <2> QED BY <1>1, <1>13, <2>1 DEF Moves, Handler, SameRequest, SameTarget
<1> QED BY <1>2, <1>3, <1>4, <1>5, <1>6, <1>7, <1>8, <1>9, <1>10, <1>11, <1>12, <1>13
        DEF Step, CreateOwner, UpdateWorkspace, DeleteWorkspace, UpdateMemberRole, RemoveMember,
            SuspendMember, ReinstateMember, DemoteFormerOwner, CreateInvitation,
            SettleInvitation, Abort

LEMMA TransferMoves ==
  ASSUME TypeInv, NEW r \in Requests, Step(r), Transfers(r)'
  PROVE  /\ Transfers(r)
         /\ req'[r].w = req[r].w /\ req'[r].target = req[r].target
         /\ Promoted(r)' => Promoted(r) \/ PromoteOwner(r)
         /\ req[r].pc = "get" => ws[req[r].w] # None
<1> DEFINE q == req[r]
           n == req'[r]
<1>1. Moves(r, q, n)
  BY HandlerMoves, IdleIsNoTransfer, Zenon DEF Transfers
<1>2. n.op = q.op /\ q.op = "TransferOwnership"
  BY <1>1, Zenon DEF Moves, SameWorkspace, SameRequest, Transfers
<1>3. q.pc \notin {"lookup", "create", "token", "getinv"}
  BY <1>2, SMTT(20) DEF TypeInv, Shape, Stage, MemberOps
<1>4. /\ ~PersonalWorkspace(r) /\ ~GetInvitationByTokenHash(r) /\ ~GetInvitation(r)
      /\ \A w \in WorkspaceIDs : ~CreateWorkspace(r, w)
  BY <1>3, Zenon DEF PersonalWorkspace, CreateWorkspace, GetInvitationByTokenHash, GetInvitation
<1>5. afterCheck(q.op) = "member" /\ requiredRole(q.op) = "owner"
  BY <1>2, Zenon DEF afterCheck, requiredRole
<1>6. n.w = q.w /\ n.target = q.target
  BY <1>1, <1>4, Zenon DEF Moves, SameWorkspace, SameTarget
<1>7. n.pc \in {"record", "former", "demote"} =>
        PromoteOwner(r) \/ q.pc \in {"record", "former", "demote"}
  <2>1. RecordOwner(r) \/ GetFormerOwner(r) => q.pc \in {"record", "former"}
    BY Zenon DEF RecordOwner, GetFormerOwner
  <2> QED BY <1>1, <1>2, <1>4, <1>5, <2>1, Zenon DEF Moves
<1>8. q.pc = "get" => GetWorkspace(r)
  <2>1. q.pc = "get" => /\ ~Check(r) /\ ~GetMembership(r) /\ ~putMember(r) /\ ~PromoteOwner(r)
                        /\ ~RecordOwner(r) /\ ~GetFormerOwner(r)
    BY DEF Check, GetMembership, putMember, PromoteOwner, RecordOwner, GetFormerOwner
  <2> QED BY <1>1, <1>4, <2>1, Zenon DEF Moves
<1>9. q.pc = "get" => ws[q.w] # None
  BY <1>2, <1>8, IdleIsNoTransfer, SMTT(20) DEF GetWorkspace, Proceed, TypeInv, TypeOK
<1> QED BY <1>2, <1>6, <1>7, <1>9 DEF Transfers, Promoted
-----------------------------------------------------------------------------
(* What a step does to the tables. *)

\* Ids are issued once, and only a fresh id becomes a workspace.
LEMMA WorkspaceLife ==
  ASSUME TypeInv, NEW r \in Requests, Step(r) \/ Arrive(r), NEW w \in WorkspaceIDs
  PROVE  /\ issued \subseteq issued'
         /\ ws'[w] # None => ws[w] # None \/ (w \notin issued /\ w \in issued')
<1>1. ws \in [WorkspaceIDs -> Workspace \cup {None}]
  BY DEF TypeInv, TypeOK
<1>2. ASSUME NEW v \in WorkspaceIDs, CreateWorkspace(r, v)
      PROVE  /\ issued \subseteq issued'
             /\ ws'[w] # None => ws[w] # None \/ (w \notin issued /\ w \in issued')
  BY <1>1, <1>2 DEF CreateWorkspace
<1>3. CASE UpdateWorkspace(r) \/ RecordOwner(r)
  BY <1>1, <1>3 DEF UpdateWorkspace, RecordOwner, UpdateWorkspaceRow
<1>4. CASE DeleteWorkspace(r)
  BY <1>1, <1>4 DEF DeleteWorkspace, DeleteWorkspaceRow, repo
<1>5. ASSUME NEW i \in InvitationIDs, CreateInvitation(r, i)
      PROVE  ws' = ws /\ issued \subseteq issued'
  BY <1>5 DEF CreateInvitation
<1>6. CASE UNCHANGED <<ws, issued>>
  BY <1>6, SMTT(20)
<1>7. CASE Arrive(r)
  BY <1>6, <1>7, ZenonT(30) DEF Arrive, Begin, repo
<1> QED BY <1>2, <1>3, <1>4, <1>5, <1>6, <1>7, Zenon
        DEF Step, GetWorkspace, Check, PersonalWorkspace, CreateOwner, GetMembership, putMember,
            UpdateMemberRole, RemoveMember, SuspendMember, ReinstateMember, PromoteOwner,
            GetFormerOwner, DemoteFormerOwner, GetInvitationByTokenHash, GetInvitation,
            SettleInvitation, Abort, PutMembershipAndTuples, DeleteMembershipAndTuples,
            UpdateInvitation, repo

\* An owner tuple goes with its workspace or in the last step of a transfer.
LEMMA OwnerKept ==
  ASSUME TypeInv, NEW r \in Requests, Step(r), NEW w \in WorkspaceIDs, NEW u \in Users,
         userTuple(w, "owner", u) \in tuples
  PROVE  \/ userTuple(w, "owner", u) \in tuples'
         \/ ws'[w] = None
         \/ DemoteFormerOwner(r) /\ w = req[r].w /\ u = req[r].wrow.owner
<1> DEFINE q == req[r]
<1>1. Shape(q)
  BY DEF TypeInv
<1>2. CASE DeleteWorkspace(r)
  BY <1>2 DEF DeleteWorkspace, DeleteWorkspaceRow, userTuple, repo, TypeInv, TypeOK
<1>3. CASE UpdateMemberRole(r) \/ SuspendMember(r)
  <2>1. q.row.role # "owner"
    BY <1>1, <1>3 DEF UpdateMemberRole, SuspendMember, Shape, MemberOps, admits
  <2> QED BY <1>3, <2>1
          DEF UpdateMemberRole, SuspendMember, PutMembershipAndTuples, writeTuples, userTuple
<1>4. CASE RemoveMember(r)
  <2>1. q.row.role # "owner"
    BY <1>1, <1>4 DEF RemoveMember, Shape, MemberOps, admits
  <2> QED BY <1>4, <2>1
          DEF RemoveMember, DeleteMembershipAndTuples, PutMembershipAndTuples, writeTuples,
              userTuple, repo
<1>5. CASE PromoteOwner(r)
  BY <1>5 DEF PromoteOwner, PutMembershipAndTuples, writeTuples, userTuple
<1>6. CASE CreateOwner(r) \/ putMember(r) \/ ReinstateMember(r)
  BY <1>6 DEF CreateOwner, putMember, ReinstateMember, PutMembershipAndTuples, writeTuples
<1>7. CASE DemoteFormerOwner(r)
  BY <1>7 DEF DemoteFormerOwner, PutMembershipAndTuples, writeTuples, userTuple
<1>8. CASE tuples' = tuples
  BY <1>8
<1> QED BY <1>2, <1>3, <1>4, <1>5, <1>6, <1>7, <1>8, Zenon
        DEF Step, GetWorkspace, Check, PersonalWorkspace, CreateWorkspace, UpdateWorkspace,
            RecordOwner, GetMembership, GetFormerOwner, CreateInvitation,
            GetInvitationByTokenHash, GetInvitation, SettleInvitation, Abort,
            UpdateWorkspaceRow, UpdateInvitation, repo
-----------------------------------------------------------------------------
LEMMA OwnerInit == Init => OwnerInv
<1> SUFFICES ASSUME Init PROVE OwnerInv
  OBVIOUS
<1>1. \A r \in Requests : ~Transfers(r)
  BY IdleIsNoTransfer, Zenon DEF Init, Transfers
<1> QED BY <1>1 DEF Init, OwnerInv, Promoted

LEMMA OwnerStep ==
  ASSUME TypeInv, TypeInv', OwnerInv, NEW r \in Requests, Step(r)
  PROVE  OwnerInv'
<1>1. ASSUME NEW s \in Requests, Transfers(s)'
      PROVE  /\ Transfers(s) /\ req'[s].w = req[s].w /\ req'[s].target = req[s].target
             /\ Promoted(s)' => Promoted(s) \/ (s = r /\ PromoteOwner(r))
             /\ req'[s].pc # "get" => req[s].w \in issued
  <2>1. CASE s = r
    <3>1. Transfers(s)
      BY <1>1, <2>1, TransferMoves, Zenon
    <3>2. req[s].w \in WorkspaceIDs
      BY <3>1, IdleIsNoTransfer, Zenon DEF TypeInv, Shape, Stage, Transfers, MemberOps
    <3> QED BY <1>1, <2>1, <3>2, TransferMoves DEF OwnerInv
  <2>2. CASE s # r
    <3>1. req'[s] = req[s]
      BY <2>2, OthersStay
    <3> QED BY <1>1, <3>1 DEF Transfers, Promoted, OwnerInv
  <2> QED BY <2>1, <2>2, Zenon
<1>2. \A w \in WorkspaceIDs : ws'[w] # None => w \in issued'
  BY WorkspaceLife DEF OwnerInv
<1>3. \A s \in Requests : Transfers(s)' /\ req'[s].pc # "get" => req'[s].w \in issued'
  <2>1. ASSUME NEW s \in Requests, Transfers(s)', req'[s].pc # "get"
        PROVE  req'[s].w \in issued'
    <3>1. req'[s].w = req[s].w /\ req[s].w \in issued
      BY <1>1, <2>1, Zenon
    <3>2. req[s].w \in WorkspaceIDs
      BY <2>1, <3>1, IdleIsNoTransfer, Zenon DEF TypeInv, Shape, Stage, Transfers, MemberOps
    <3> QED BY <3>1, <3>2, WorkspaceLife
  <2> QED BY <2>1
<1>4. \A s, t \in Requests : Transfers(s)' /\ Transfers(t)' /\ req'[s].w = req'[t].w => s = t
  BY <1>1 DEF OwnerInv
<1>5. ASSUME NEW s \in Requests, Promoted(s)'
      PROVE  ws'[req'[s].w] = None \/ userTuple(req'[s].w, "owner", req'[s].target) \in tuples'
  <2> DEFINE w == req[s].w
             u == req[s].target
  <2>1. Transfers(s)' /\ Transfers(s) /\ req'[s].w = w /\ req'[s].target = u
    BY <1>1, <1>5, Zenon DEF Promoted
  <2>2. w \in WorkspaceIDs /\ u \in Users
    BY <1>5, <2>1, Zenon DEF TypeInv, Shape, Promoted, Transfers, TargetOps
  <2>3. CASE s = r /\ PromoteOwner(r)
    BY <2>1, <2>3 DEF PromoteOwner, PutMembershipAndTuples, writeTuples
  <2>4. CASE Promoted(s)
    <3>1. CASE ws[w] = None
      <4>1. w \in issued
        BY <2>1, <2>4 DEF OwnerInv, Promoted
      <4> QED BY <2>1, <2>2, <3>1, <4>1, WorkspaceLife
    <3>2. CASE userTuple(w, "owner", u) \in tuples
      <4>1. CASE DemoteFormerOwner(r) /\ w = req[r].w
        <5>1. Transfers(r)
          BY <4>1 DEF TypeInv, DemoteFormerOwner, Shape, Stage, Transfers, MemberOps
        <5>2. s = r
          BY <2>1, <4>1, <5>1 DEF OwnerInv
        <5>3. req'[s] = Idle
          BY <4>1, <5>2 DEF DemoteFormerOwner, Return, TypeInv, TypeOK
        <5> QED BY <2>1, <5>3, IdleIsNoTransfer DEF Transfers
      <4>2. CASE ~(DemoteFormerOwner(r) /\ w = req[r].w)
        BY <2>1, <2>2, <3>2, <4>2, OwnerKept, Zenon
      <4> QED BY <4>1, <4>2
    <3> QED BY <2>4, <3>1, <3>2 DEF OwnerInv
  <2> QED BY <1>1, <1>5, <2>1, <2>3, <2>4
<1> QED BY <1>2, <1>3, <1>4, <1>5 DEF OwnerInv, Transfers, Promoted

LEMMA OwnerArrive ==
  ASSUME ~OverlappingTransfers, TypeInv, OwnerInv, NEW r \in Requests, Arrive(r)
  PROVE  OwnerInv'
<1>1. PICK op \in Ops, u \in Users :
        \E w \in workspaceArgs(op), t \in targetArgs(op), role \in roleArgs(op),
           i \in invitationArgs(op) : Begin(r, op, u, w, t, role, i)
  BY DEF Arrive
<1>2. PICK w \in workspaceArgs(op), t \in targetArgs(op), role \in roleArgs(op),
           i \in invitationArgs(op) : Begin(r, op, u, w, t, role, i)
  BY <1>1
<1>3. req'[r].op = op /\ req'[r].w = w /\ req'[r].pc = entry(op)
  BY <1>2 DEF Begin, Idle, TypeInv, TypeOK
<1>4. UNCHANGED repo
  BY <1>2 DEF Begin
<1>5. op = "TransferOwnership" => entry(op) = "get"
  BY DEF entry
<1>6. \A s \in Requests : s # r => req'[s] = req[s]
  BY OthersStay
<1>7. \A s, v \in Requests : Transfers(s)' /\ Transfers(v)' /\ req'[s].w = req'[v].w => s = v
  BY <1>2, <1>3, <1>6 DEF Transfers, OwnerInv, Begin
<1> QED BY <1>3, <1>4, <1>5, <1>6, <1>7 DEF OwnerInv, Transfers, Promoted, repo

\* TransferOwnership's "there is never a window with no owner", for any number
\* of users, workspaces and concurrent requests, wherever they stop: if no two
\* transfers of one workspace overlap, a workspace that has an owner keeps one
\* until it is deleted.
THEOREM OwnerAlways ==
  ASSUME ~OverlappingTransfers
  PROVE  Spec => NeverOwnerless
<1>1. TypeInv /\ TypeInv' /\ OwnerInv /\ [Next]_vars => OwnerInv'
  <2> SUFFICES ASSUME TypeInv, TypeInv', OwnerInv, [Next]_vars PROVE OwnerInv'
    OBVIOUS
  <2>1. ASSUME NEW r \in Requests, Step(r) PROVE OwnerInv'
    BY <2>1, OwnerStep
  <2>2. ASSUME NEW r \in Requests, Arrive(r) PROVE OwnerInv'
    BY <2>2, OwnerArrive
  <2>3. CASE UNCHANGED <<repo, req>>
    BY <2>3, SMTT(20) DEF OwnerInv, Transfers, Promoted, repo
  <2> QED BY <2>1, <2>2, <2>3 DEF Next, Lapse, vars, repo
<1>2. TypeInv /\ OwnerInv /\ [Next]_vars =>
        [\A w \in WorkspaceIDs :
           holders(w, "owner") # {} /\ ws'[w] # None => holders(w, "owner")' # {}]_vars
  <2> SUFFICES ASSUME TypeInv, OwnerInv, Next, NEW w \in WorkspaceIDs,
                      holders(w, "owner") # {}, ws'[w] # None
               PROVE  \E v \in Users : userTuple(w, "owner", v) \in tuples'
    BY DEF holders
  <2>1. PICK u \in Users : userTuple(w, "owner", u) \in tuples
    BY DEF holders
  <2>2. ASSUME NEW r \in Requests, Step(r)
        PROVE  \E v \in Users : userTuple(w, "owner", v) \in tuples'
    <3>1. CASE DemoteFormerOwner(r) /\ w = req[r].w /\ u = req[r].wrow.owner
      <4> DEFINE v == req[r].target
      <4>1. v \in Users /\ v # req[r].wrow.owner /\ Promoted(r)
        BY <3>1 DEF TypeInv, DemoteFormerOwner, Shape, Stage, Transfers, Promoted, MemberOps, TargetOps
      <4>2. ws' = ws
        BY <3>1 DEF DemoteFormerOwner, PutMembershipAndTuples
      <4>3. userTuple(w, "owner", v) \in tuples
        BY <3>1, <4>1, <4>2 DEF OwnerInv
      <4>4. userTuple(w, "owner", v) \in tuples'
        BY <2>2, <4>1, <4>2, <4>3, OwnerKept
      <4> QED BY <4>1, <4>4
    <3> QED BY <2>1, <2>2, <3>1, OwnerKept
  <2>3. CASE tuples' = tuples
    BY <2>1, <2>3
  <2> QED BY <2>2, <2>3, Zenon DEF Next, Arrive, Begin, Lapse, repo
<1> QED BY <1>1, <1>2, OwnerInit, TypeInvariant, PTL DEF Spec, NeverOwnerless
-----------------------------------------------------------------------------
(* Personal workspaces, whatever transfers overlap. *)

\* A workspace that is not personal, or is no more.
TeamOrGone(w) == w \in issued /\ (ws[w] = None \/ ws[w].type = "team")

\* What a handler knows of its workspace.  A personal workspace is never changed
\* or deleted, so the row the handler has read is the row that is stored; a team
\* workspace may have been renamed, transferred or deleted since.
Knows(q) ==
  /\ q.wrow # None =>
       /\ q.w \in issued
       /\ q.wrow.type = "personal" => ws[q.w] = q.wrow
       /\ q.wrow.type = "team" => TeamOrGone(q.w)
  /\ q.pc \in {"lookup", "create", "token", "getinv"} => q.wrow = None
  /\ q.op \in MemberOps /\ q.pc = "put" => q.wrow.type = "team"
  /\ q.op \in InviteOps /\ q.pc \notin {"token", "getinv"} => TeamOrGone(q.w)

PersonalInv ==
  /\ \A w \in WorkspaceIDs : w \notin issued =>
       /\ ws[w] = None
       /\ \A u \in Users : rows[w][u] = None
       /\ \A t \in tuples : t[1] # w
  /\ \A r \in Requests : Knows(req[r])
  /\ \A i \in InvitationIDs : invs[i] # None => TeamOrGone(invs[i].w)
  /\ PersonalIsPrivate
  /\ OnePersonalPerUser
-----------------------------------------------------------------------------
LEMMA PersonalInit == Init => PersonalInv
<1> SUFFICES ASSUME Init PROVE PersonalInv
  OBVIOUS
<1>1. \A r \in Requests : Knows(req[r])
  BY ConstantsAssumption DEF Init, Knows, Idle, MemberOps, InviteOps, Ops
<1>2. PersonalIsPrivate
  BY DEF Init, PersonalIsPrivate
<1>3. \A u \in Users : personalOf(u) = {}
  BY ConstantsAssumption DEF Init, personalOf, Workspace
<1> QED BY <1>1, <1>2, <1>3 DEF Init, PersonalInv, OnePersonalPerUser
-----------------------------------------------------------------------------
(* What a handler that writes knows of the workspace it writes to. *)

\* Past the checks of a handler that refuses personal workspaces, and past the
\* read of a member who is not the sole owner.
LEMMA TeamWriter ==
  ASSUME TypeInv, PersonalInv, NEW r \in Requests,
         \/ req[r].pc \in {"put", "record", "former", "demote", "delete", "invite", "consume", "expire"}
         \/ req[r].pc = "revoke"
  PROVE  req[r].w \in WorkspaceIDs /\ TeamOrGone(req[r].w)
<1> DEFINE q == req[r]
<1>1. Shape(q) /\ Knows(q)
  BY Zenon DEF TypeInv, PersonalInv
<1>2. q.w \in WorkspaceIDs
  BY <1>1 DEF Shape
<1>3. CASE q.op \in InviteOps
  BY <1>1, <1>2, <1>3 DEF Knows
<1>4. CASE q.op \notin InviteOps
  <2>1. q.wrow \in Workspace
    BY <1>1, <1>4, Zenon DEF Shape, InviteOps
  <2>2. q.wrow.type = "team"
    BY <1>1, <1>4 DEF Shape, Stage, Knows, MemberOps, InviteOps
  <2> QED BY <1>1, <1>2, <2>1, <2>2, ConstantsAssumption, Zenon DEF Knows
<1> QED BY <1>3, <1>4

\* A workspace whose row a handler has read or made.
LEMMA KnownWorkspace ==
  ASSUME TypeInv, PersonalInv, NEW r \in Requests, req[r].pc \in {"own", "rename"}
  PROVE  /\ req[r].w \in WorkspaceIDs /\ req[r].w \in issued /\ req[r].wrow \in Workspace
         /\ req[r].wrow.type = "personal" => ws[req[r].w] = req[r].wrow
         /\ req[r].wrow.type = "team" => TeamOrGone(req[r].w)
<1>1. Shape(req[r]) /\ Knows(req[r])
  BY Zenon DEF TypeInv, PersonalInv
<1>2. req[r].w \in WorkspaceIDs /\ req[r].wrow \in Workspace
  BY <1>1, SMTT(20) DEF Shape, Stage, MemberOps
<1> QED BY <1>1, <1>2, ConstantsAssumption DEF Knows
-----------------------------------------------------------------------------
(* What a step does to a workspace. *)

\* Its row stays, or it is made, or it is a team workspace and remains one.
LEMMA RowMoves ==
  ASSUME TypeInv, PersonalInv, NEW r \in Requests, Step(r), NEW w \in WorkspaceIDs
  PROVE  \/ ws'[w] = ws[w] /\ (w \in issued => w \in issued')
         \/ w \notin issued /\ CreateWorkspace(r, w) /\ ws'[w] # ws[w]
         \/ TeamOrGone(w) /\ TeamOrGone(w)'
<1> DEFINE q == req[r]
<1>1. ws \in [WorkspaceIDs -> Workspace \cup {None}]
  BY DEF TypeInv, TypeOK
<1>2. issued \subseteq issued'
  BY WorkspaceLife
<1>3. ASSUME NEW v \in WorkspaceIDs, CreateWorkspace(r, v), ws'[w] # ws[w]
      PROVE  w \notin issued /\ CreateWorkspace(r, w)
  <2>1. w = v
    BY <1>1, <1>3 DEF CreateWorkspace
  <2> QED BY <1>3, <2>1 DEF CreateWorkspace
<1>4. CASE UpdateWorkspace(r)
  <2>1. /\ q.w \in WorkspaceIDs /\ q.w \in issued /\ q.wrow \in Workspace
        /\ q.wrow.type = "personal" => ws[q.w] = q.wrow
        /\ q.wrow.type = "team" => TeamOrGone(q.w)
    BY <1>4, KnownWorkspace DEF UpdateWorkspace
  <2>2. ws'[w] = ws[w] \/ (w = q.w /\ ws'[w] = q.wrow)
    BY <1>1, <1>4, <2>1 DEF UpdateWorkspace, UpdateWorkspaceRow
  <2>3. q.wrow.type \in {"personal", "team"}
    BY <2>1 DEF Workspace
  <2> QED BY <1>2, <2>1, <2>2, <2>3, Zenon DEF TeamOrGone
<1>5. CASE RecordOwner(r)
  <2>1. q.w \in WorkspaceIDs /\ TeamOrGone(q.w)
    BY <1>5, TeamWriter DEF RecordOwner
  <2>2. q.wrow \in Workspace /\ q.wrow.type = "team"
    BY <1>5 DEF RecordOwner, TypeInv, Shape, Stage, MemberOps
  <2>3. [q.wrow EXCEPT !.owner = q.target].type = "team"
    BY <2>2 DEF Workspace
  <2>4. ws'[w] = ws[w] \/ (w = q.w /\ ws'[w].type = "team")
    BY <1>1, <1>5, <2>1, <2>3 DEF RecordOwner, UpdateWorkspaceRow
  <2> QED BY <1>2, <2>1, <2>4 DEF TeamOrGone
<1>6. CASE DeleteWorkspace(r)
  <2>1. q.w \in WorkspaceIDs /\ TeamOrGone(q.w)
    BY <1>6, TeamWriter DEF DeleteWorkspace
  <2>2. ws'[w] = ws[w] \/ (w = q.w /\ ws'[w] = None)
    BY <1>1, <1>6, <2>1 DEF DeleteWorkspace, DeleteWorkspaceRow, repo
  <2> QED BY <1>2, <2>1, <2>2 DEF TeamOrGone
<1>7. CASE ws' = ws
  BY <1>2, <1>7, SMTT(20)
<1> QED BY <1>2, <1>3, <1>4, <1>5, <1>6, <1>7, Zenon
        DEF Step, GetWorkspace, Check, PersonalWorkspace, CreateOwner, GetMembership, putMember,
            UpdateMemberRole, RemoveMember, SuspendMember, ReinstateMember, PromoteOwner,
            GetFormerOwner, DemoteFormerOwner, GetInvitationByTokenHash, GetInvitation,
            CreateInvitation, SettleInvitation, Abort, PutMembershipAndTuples,
            DeleteMembershipAndTuples, UpdateInvitation, repo

\* A row or a tuple of a member changes in a team workspace, or as the last call
\* of createWorkspaceWithOwner.
LEMMA MembersMove ==
  ASSUME TypeInv, PersonalInv, NEW r \in Requests, Step(r), NEW w \in WorkspaceIDs
  PROVE  \/ /\ \A u \in Users : rows'[w][u] = rows[w][u]
            /\ \A t \in tuples' : t[1] = w => t \in tuples
         \/ TeamOrGone(w)
         \/ CreateOwner(r) /\ w = req[r].w
<1> DEFINE q == req[r]
<1>1. rows \in [WorkspaceIDs -> [Users -> Membership \cup {None}]]
  BY DEF TypeInv, TypeOK
<1>2. ASSUME NEW v \in WorkspaceIDs, NEW u \in Users, NEW row, NEW I, NEW D,
             PutMembershipAndTuples(v, u, row, I, D), \A t \in I : t[1] = v, v # w
      PROVE  /\ \A x \in Users : rows'[w][x] = rows[w][x]
             /\ \A t \in tuples' : t[1] = w => t \in tuples
  BY <1>1, <1>2 DEF PutMembershipAndTuples, writeTuples
<1>3. CASE CreateOwner(r) /\ w # q.w
  <2>1. q.w \in WorkspaceIDs /\ q.wrow.owner \in Users
    BY <1>3, KnownWorkspace DEF CreateOwner, Workspace
  <2> QED BY <1>2, <1>3, <2>1 DEF CreateOwner, userTuple
<1>4. CASE w # q.w /\ (putMember(r) \/ UpdateMemberRole(r) \/ SuspendMember(r) \/ ReinstateMember(r))
  <2>1. q.w \in WorkspaceIDs /\ q.target \in Users
    BY <1>4, Zenon DEF putMember, UpdateMemberRole, SuspendMember, ReinstateMember, TypeInv, Shape,
                TargetOps, MemberOps
  <2> QED BY <1>2, <1>4, <2>1
          DEF putMember, UpdateMemberRole, SuspendMember, ReinstateMember, userTuple
<1>5. CASE w # q.w /\ (RemoveMember(r) \/ PromoteOwner(r))
  <2>1. q.w \in WorkspaceIDs /\ q.target \in Users
    BY <1>5, Zenon DEF RemoveMember, PromoteOwner, TypeInv, Shape, TargetOps, MemberOps
  <2> QED BY <1>2, <1>5, <2>1, SMTT(20)
          DEF RemoveMember, PromoteOwner, DeleteMembershipAndTuples, userTuple, repo
<1>6. CASE w # q.w /\ DemoteFormerOwner(r)
  <2>1. q.w \in WorkspaceIDs /\ q.wrow.owner \in Users
    BY <1>6 DEF DemoteFormerOwner, TypeInv, Shape, Stage, MemberOps, Workspace
  <2> QED BY <1>2, <1>6, <2>1 DEF DemoteFormerOwner, userTuple, writeTuples
<1>7. CASE w # q.w /\ DeleteWorkspace(r)
  BY <1>1, <1>7, TeamWriter DEF DeleteWorkspace, DeleteWorkspaceRow, repo
<1>8. CASE UNCHANGED <<rows, tuples>>
  BY <1>8
<1>9. CASE w = q.w /\ q.pc \in {"put", "demote", "delete"}
  BY <1>9, TeamWriter
<1> QED BY <1>3, <1>4, <1>5, <1>6, <1>7, <1>8, <1>9, ZenonT(30)
        DEF Step, GetWorkspace, Check, PersonalWorkspace, CreateWorkspace, UpdateWorkspace,
            DeleteWorkspace, RecordOwner, GetMembership, GetFormerOwner, CreateInvitation, putMember,
            UpdateMemberRole, RemoveMember, SuspendMember, ReinstateMember, PromoteOwner,
            DemoteFormerOwner, GetInvitationByTokenHash, GetInvitation, SettleInvitation, Abort,
            UpdateWorkspaceRow, UpdateInvitation, repo

\* A team workspace stays one or goes; a personal workspace stays as it is.
LEMMA TypesStay ==
  ASSUME TypeInv, PersonalInv, NEW r \in Requests, Step(r), NEW w \in WorkspaceIDs
  PROVE  /\ TeamOrGone(w) => TeamOrGone(w)'
         /\ ws[w] # None /\ ws[w].type = "personal" => ws'[w] = ws[w]
<1>1. ws[w] # None => w \in issued
  BY DEF PersonalInv
<1> QED BY <1>1, RowMoves DEF TeamOrGone
-----------------------------------------------------------------------------
(* What the handlers know goes on being true. *)

LEMMA IdleKnows == Knows(Idle)'
BY ConstantsAssumption DEF Knows, Idle, MemberOps, InviteOps, Ops

LEMMA KnowledgeStays ==
  ASSUME TypeInv, PersonalInv, NEW r \in Requests, Step(r), NEW q, Shape(q), Knows(q)
  PROVE  Knows(q)'
<1>1. CASE q.w \in WorkspaceIDs
  <2>1. /\ TeamOrGone(q.w) => TeamOrGone(q.w)'
        /\ ws[q.w] # None /\ ws[q.w].type = "personal" => ws'[q.w] = ws[q.w]
    BY <1>1, TypesStay
  <2>2. issued \subseteq issued'
    BY <1>1, WorkspaceLife
  <2>3. q.wrow # None => q.wrow \in Workspace
    BY DEF Shape, Handler
  <2> QED BY <2>1, <2>2, <2>3 DEF Knows
<1>2. CASE q.w \notin WorkspaceIDs
  <2>1. q.pc \in {"idle", "lookup", "create", "token", "getinv"}
    BY <1>2 DEF Shape
  <2>2. CASE q = Idle
    BY <2>2, IdleKnows, Zenon
  <2>3. CASE q # Idle
    <3>1. q.wrow = None
      BY <2>1, <2>3, Zenon DEF Knows, Shape
    <3>2. q.op \in InviteOps => q.pc \in {"token", "getinv"}
      BY <2>1, <2>3, SMTT(20) DEF Shape, Stage, InviteOps, MemberOps
    <3> QED BY <2>1, <3>1, <3>2, Zenon DEF Knows
  <2> QED BY <2>2, <2>3, Zenon
<1> QED BY <1>1, <1>2, Zenon

\* A handler that goes on knows what it needs to.
LEMMA HandlerLearns ==
  ASSUME TypeInv, PersonalInv, NEW r \in Requests, Step(r),
         NEW q, q = req[r], NEW n, n = req'[r], n # Idle, Shape(n)
  PROVE  Knows(n)'
<1>1. Shape(q) /\ Knows(q) /\ Knows(q)' /\ Moves(r, q, n)
  BY HandlerMoves, KnowledgeStays, Zenon DEF TypeInv, PersonalInv
<1>2. CASE GetWorkspace(r) /\ n.w = q.w /\ n.wrow = ws[q.w] /\ ws[q.w] # None /\ SameRequest(q, n)
           /\ n.pc = requiredRole(q.op)
  <2>1. q.w \in WorkspaceIDs /\ q.pc = "get"
    BY <1>1, <1>2 DEF GetWorkspace, Shape
  <2>2. ws[q.w] \in Workspace /\ q.w \in issued
    BY <1>2, <2>1 DEF TypeInv, TypeOK, PersonalInv
  <2>3. UNCHANGED <<ws, issued>>
    BY <1>2, Zenon DEF GetWorkspace, repo
  <2>4. n.pc \in {"admin", "owner"}
    BY <1>2, Zenon DEF requiredRole
  <2> QED BY <1>1, <1>2, <2>1, <2>2, <2>3, <2>4, ZenonT(30) DEF Knows, TeamOrGone, SameRequest
<1>3. ASSUME SameWorkspace(q, n), q.pc \notin {"token", "getinv"},
             n.pc \notin {"lookup", "token", "getinv"}, n.pc = "create" => q.pc = "lookup",
             n.op \in MemberOps /\ n.pc = "put" => n.wrow.type = "team"
      PROVE  Knows(n)'
  BY <1>1, <1>3 DEF Knows, SameWorkspace, SameRequest
<1>4. CASE Check(r) /\ SameWorkspace(q, n) /\ n.pc \in {"owner", afterCheck(q.op)}
  <2>1. n.pc \notin {"lookup", "token", "getinv", "create", "put"}
    BY <1>4 DEF afterCheck
  <2> QED BY <1>3, <1>4, <2>1 DEF Check
<1>5. CASE PersonalWorkspace(r) /\ SameWorkspace(q, n) /\ n.pc = "create"
  BY <1>3, <1>5 DEF PersonalWorkspace
<1>6. ASSUME NEW w \in WorkspaceIDs, CreateWorkspace(r, w), SameRequest(q, n), n.w = w,
             n.wrow = ws'[w], ws'[w] # None, n.pc = "own"
      PROVE  Knows(n)'
  <2>1. q.op \notin InviteOps /\ w \in issued'
    BY <1>1, <1>6, Zenon DEF CreateWorkspace, Shape, Stage, InviteOps, MemberOps
  <2> QED BY <1>6, <2>1 DEF Knows, TeamOrGone, SameRequest
<1>7. CASE /\ GetMembership(r) /\ SameWorkspace(q, n) /\ n.pc \in {"consume", "put"}
           /\ admits(q.op, q.role, rows[q.w][q.target])
  <2>1. q.pc = "member"
    BY <1>7 DEF GetMembership
  <2>2. ASSUME q.op \in MemberOps PROVE q.wrow.type = "team"
    <3>1. q.w \in WorkspaceIDs /\ q.target \in Users /\ q.wrow \in Workspace
      BY <1>1, <2>1, <2>2, Zenon DEF Shape, MemberOps, TargetOps
    <3>2. CASE q.wrow.type = "personal"
      <4>1. ws[q.w] = q.wrow /\ q.wrow # None
        BY <1>1, <3>1, <3>2, ConstantsAssumption, Zenon DEF Knows
      <4>2. \/ rows[q.w][q.target] = None
            \/ rows[q.w][q.target] = [role |-> "owner", status |-> "active"]
        BY <3>1, <3>2, <4>1 DEF PersonalInv, PersonalIsPrivate
      <4> QED BY <1>7, <2>2, <4>2 DEF admits, MemberOps
    <3> QED BY <3>1, <3>2, Zenon DEF Workspace
  <2> QED BY <1>3, <1>7, <2>1, <2>2 DEF SameWorkspace, SameRequest
<1>8. CASE /\ SameWorkspace(q, n) /\ n.pc \in {"consume", "record", "former", "demote"}
           /\ putMember(r) \/ PromoteOwner(r) \/ RecordOwner(r) \/ GetFormerOwner(r)
  BY <1>3, <1>8, Zenon DEF putMember, PromoteOwner, RecordOwner, GetFormerOwner
<1>9. CASE /\ GetInvitationByTokenHash(r) \/ GetInvitation(r)
           /\ SameRequest(q, n) /\ n.wrow = q.wrow /\ n.w = invs[q.inv].w /\ invs[q.inv] # None
           /\ n.pc \in {"expire", "member", "get"}
  <2>1. q.pc \in {"token", "getinv"} /\ UNCHANGED <<ws, issued>>
    BY <1>9, Zenon DEF GetInvitationByTokenHash, GetInvitation, repo
  <2>2. q.op \in InviteOps /\ q.inv \in InvitationIDs
    BY <1>1, <2>1, Zenon DEF Shape, Stage, InviteOps, MemberOps
  <2>3. TeamOrGone(n.w)
    BY <1>9, <2>2, Zenon DEF PersonalInv
  <2> QED BY <1>1, <1>9, <2>1, <2>2, <2>3, Zenon DEF Knows, TeamOrGone, SameRequest, InviteOps, MemberOps
<1> QED BY <1>1, <1>2, <1>4, <1>5, <1>6, <1>7, <1>8, <1>9, ZenonT(30) DEF Moves

-----------------------------------------------------------------------------
(* The tables *)

\* An invitation is stored by CreateInvitation, or was stored before.
LEMMA InvitationsMove ==
  ASSUME TypeInv, PersonalInv, NEW r \in Requests, Step(r), NEW i \in InvitationIDs,
         invs'[i] # None
  PROVE  invs'[i].w \in WorkspaceIDs /\ TeamOrGone(invs'[i].w)
<1> DEFINE q == req[r]
<1>1. invs \in [InvitationIDs -> Invitation \cup {None}]
  BY Zenon DEF TypeInv, TypeOK
<1>2. CASE invs'[i] = invs[i]
  BY <1>1, <1>2 DEF PersonalInv, Invitation
<1>3. ASSUME NEW j \in InvitationIDs, CreateInvitation(r, j), invs'[i] # invs[i]
      PROVE  invs'[i].w \in WorkspaceIDs /\ TeamOrGone(invs'[i].w)
  <2>1. q.w \in WorkspaceIDs /\ TeamOrGone(q.w)
    BY <1>3, TeamWriter, Zenon DEF CreateInvitation
  <2>2. invs'[i].w = q.w
    BY <1>1, <1>3 DEF CreateInvitation
  <2> QED BY <2>1, <2>2, Zenon
<1>4. CASE SettleInvitation(r) /\ invs'[i] # invs[i]
  <2>1. q.w \in WorkspaceIDs /\ TeamOrGone(q.w)
    BY <1>4, TeamWriter DEF SettleInvitation
  <2>2. q.irow \in Invitation /\ q.irow.w = q.w
    BY <1>4 DEF SettleInvitation, TypeInv, Shape, Stage, InviteOps, MemberOps
  <2>3. invs'[i] = [q.irow EXCEPT !.status = settledStatus(q.pc)]
    BY <1>1, <1>4 DEF SettleInvitation, UpdateInvitation
  <2>4. invs'[i].w = q.w
    BY <2>2, <2>3 DEF Invitation
  <2> QED BY <2>1, <2>4
<1>5. CASE DeleteWorkspace(r) /\ invs'[i] # invs[i]
  BY <1>1, <1>5 DEF DeleteWorkspace, DeleteWorkspaceRow, repo
<1>6. CASE invs' = invs
  BY <1>2, <1>6
<1> QED BY <1>2, <1>3, <1>4, <1>5, <1>6, ZenonT(30)
        DEF Step, GetWorkspace, Check, PersonalWorkspace, CreateWorkspace, CreateOwner,
            UpdateWorkspace, RecordOwner, GetMembership, putMember, UpdateMemberRole, RemoveMember,
            SuspendMember, ReinstateMember, PromoteOwner, GetFormerOwner, DemoteFormerOwner,
            GetInvitationByTokenHash, GetInvitation, Abort, PutMembershipAndTuples,
            DeleteMembershipAndTuples, UpdateWorkspaceRow, repo

LEMMA FreshIsEmpty ==
  ASSUME TypeInv, PersonalInv, NEW r \in Requests, Step(r), NEW w \in WorkspaceIDs, w \notin issued'
  PROVE  /\ ws'[w] = None
         /\ \A u \in Users : rows'[w][u] = None
         /\ \A t \in tuples' : t[1] # w
<1>1. w \notin issued /\ ws'[w] = None
  BY WorkspaceLife, Zenon DEF PersonalInv
<1>2. ~TeamOrGone(w) /\ ~(CreateOwner(r) /\ w = req[r].w)
  BY <1>1, KnownWorkspace, Zenon DEF TeamOrGone, CreateOwner
<1> QED BY <1>1, <1>2, MembersMove DEF PersonalInv

LEMMA StaysPrivate ==
  ASSUME TypeInv, PersonalInv, NEW r \in Requests, Step(r)
  PROVE  PersonalIsPrivate'
<1> DEFINE q == req[r]
<1> SUFFICES ASSUME NEW w \in WorkspaceIDs, ws'[w] # None, ws'[w].type = "personal"
             PROVE  /\ \A u \in Users :
                         rows'[w][u] # None =>
                           u = ws'[w].owner /\ rows'[w][u] = [role |-> "owner", status |-> "active"]
                    /\ \A t \in tuples' : t[1] = w => t = userTuple(w, "owner", ws'[w].owner)
  BY DEF PersonalIsPrivate
<1>1. ~TeamOrGone(w)'
  BY DEF TeamOrGone
<1>2. ~TeamOrGone(w)
  BY <1>1, TypesStay, Zenon
<1>3. CASE CreateOwner(r) /\ w = q.w
  <2>1. q.wrow \in Workspace /\ ws[w] = q.wrow /\ ws' = ws /\ q.wrow # None
    BY <1>2, <1>3, KnownWorkspace, ConstantsAssumption
       DEF CreateOwner, PutMembershipAndTuples, Workspace
  <2>2. rows \in [WorkspaceIDs -> [Users -> Membership \cup {None}]] /\ q.wrow.owner \in Users
    BY <2>1, Zenon DEF TypeInv, TypeOK, Workspace
  <2>3. /\ \A u \in Users : rows'[w][u] # rows[w][u] =>
             u = q.wrow.owner /\ rows'[w][u] = [role |-> "owner", status |-> "active"]
        /\ \A t \in tuples' : t \in tuples \/ t = userTuple(w, "owner", q.wrow.owner)
    BY <1>3, <2>2, Zenon DEF CreateOwner, PutMembershipAndTuples, writeTuples
  <2> QED BY <2>1, <2>3 DEF PersonalInv, PersonalIsPrivate
<1>4. CASE /\ \A u \in Users : rows'[w][u] = rows[w][u]
           /\ \A t \in tuples' : t[1] = w => t \in tuples
  <2>1. CASE ws'[w] = ws[w]
    BY <1>4, <2>1, ZenonT(30) DEF PersonalInv, PersonalIsPrivate
  <2>2. CASE w \notin issued
    BY <1>4, <2>2 DEF PersonalInv
  <2> QED BY <1>1, <2>1, <2>2, RowMoves, Zenon
<1> QED BY <1>2, <1>3, <1>4, MembersMove, Zenon

LEMMA StaysOne ==
  ASSUME TypeInv, PersonalInv, NEW r \in Requests, Step(r)
  PROVE  OnePersonalPerUser'
<1> SUFFICES ASSUME NEW u \in Users, NEW w \in WorkspaceIDs, NEW v \in WorkspaceIDs,
                    ws'[w] = [type |-> "personal", owner |-> u],
                    ws'[v] = [type |-> "personal", owner |-> u]
             PROVE  w = v
  BY DEF OnePersonalPerUser, personalOf
<1> DEFINE row == [type |-> "personal", owner |-> u]
<1>1. row # None /\ row.type = "personal"
  BY ConstantsAssumption, SMTT(20) DEF Workspace
<1>2. ASSUME NEW x \in WorkspaceIDs, ws'[x] = row
      PROVE  \/ ws[x] = row
             \/ x \notin issued /\ CreateWorkspace(r, x) /\ ws'[x] # ws[x]
  BY <1>1, <1>2, RowMoves DEF TeamOrGone
<1>3. ASSUME NEW x \in WorkspaceIDs, NEW y \in WorkspaceIDs, x # y, ws'[x] = row, ws'[y] = row,
             CreateWorkspace(r, x), ws'[x] # ws[x]
      PROVE  FALSE
  <2>1. ws \in [WorkspaceIDs -> Workspace \cup {None}]
    BY DEF TypeInv, TypeOK
  <2>2. ws'[y] = ws[y] /\ row.owner = req[r].user /\ personalOf(req[r].user) = {}
    BY <1>3, <2>1, Zenon DEF CreateWorkspace
  <2> QED BY <1>3, <2>2 DEF personalOf
<1>4. CASE ws[w] = row /\ ws[v] = row
  BY <1>4, Zenon DEF PersonalInv, OnePersonalPerUser, personalOf
<1> HIDE DEF row
<1>5. ws'[w] = row /\ ws'[v] = row
  BY Zenon DEF row
<1> QED BY <1>2, <1>3, <1>4, <1>5
-----------------------------------------------------------------------------
LEMMA PersonalStep ==
  ASSUME TypeInv, TypeInv', PersonalInv, NEW r \in Requests, Step(r)
  PROVE  PersonalInv'
<1>1. ASSUME NEW s \in Requests PROVE Knows(req[s])'
  <2>1. PICK n : n = req'[s]
    OBVIOUS
  <2>2. Shape(n)
    BY <2>1 DEF TypeInv
  <2>3. CASE s = r /\ n # Idle
    BY <2>1, <2>2, <2>3, HandlerLearns
  <2>4. CASE s # r
    <3>1. n = req[s]
      BY <2>1, <2>4, OthersStay
    <3>2. Knows(n)
      BY <3>1 DEF PersonalInv
    <3> QED BY <2>1, <2>2, <3>2, KnowledgeStays
  <2> QED BY <2>1, <2>3, <2>4, IdleKnows
<1>2. ASSUME NEW i \in InvitationIDs, invs'[i] # None PROVE TeamOrGone(invs[i].w)'
  <2>1. PICK w : w = invs'[i].w
    OBVIOUS
  <2>2. w \in WorkspaceIDs /\ TeamOrGone(w)
    BY <1>2, <2>1, InvitationsMove
  <2>3. TeamOrGone(w)'
    BY <2>2, TypesStay, Zenon
  <2> QED BY <2>1, <2>3
<1> QED BY <1>1, <1>2, FreshIsEmpty, StaysPrivate, StaysOne, Zenon DEF PersonalInv

LEMMA PersonalArrive ==
  ASSUME TypeInv, PersonalInv, NEW r \in Requests, Arrive(r)
  PROVE  PersonalInv'
<1>1. PICK op \in Ops, u \in Users :
        \E w \in workspaceArgs(op), t \in targetArgs(op), role \in roleArgs(op),
           i \in invitationArgs(op) : Begin(r, op, u, w, t, role, i)
  BY DEF Arrive
<1>2. PICK w \in workspaceArgs(op), t \in targetArgs(op), role \in roleArgs(op),
           i \in invitationArgs(op) : Begin(r, op, u, w, t, role, i)
  BY <1>1
<1>3. req'[r].op = op /\ req'[r].wrow = None /\ req'[r].pc = entry(op)
  BY <1>2 DEF Begin, Idle, TypeInv, TypeOK
<1>4. UNCHANGED repo
  BY <1>2 DEF Begin
<1>5. entry(op) # "put" /\ (op \in InviteOps => entry(op) \in {"token", "getinv"})
  BY Zenon DEF entry, InviteOps
<1>6. Knows(req[r])'
  BY <1>3, <1>5, Zenon DEF Knows
<1>7. ASSUME NEW s \in Requests, s # r PROVE Knows(req[s])'
  <2>1. req'[s] = req[s]
    BY <1>7, OthersStay
  <2> QED BY <1>4, <2>1, ZenonT(30) DEF PersonalInv, Knows, TeamOrGone, repo
<1>8. \A s \in Requests : Knows(req[s])'
  BY <1>6, <1>7
<1>9. ws' = ws /\ rows' = rows /\ tuples' = tuples /\ invs' = invs /\ issued' = issued
  BY <1>4, Zenon DEF repo
<1>10. PersonalIsPrivate' /\ OnePersonalPerUser'
  BY <1>9, Zenon DEF PersonalInv, PersonalIsPrivate, OnePersonalPerUser, personalOf
<1>11. (\A j \in InvitationIDs : invs[j] # None => TeamOrGone(invs[j].w))'
  BY <1>9, Zenon DEF PersonalInv, TeamOrGone
<1> QED BY <1>8, <1>9, <1>10, <1>11, Zenon DEF PersonalInv

LEMMA PersonalInvariant == Spec => []PersonalInv
<1>1. TypeInv /\ TypeInv' /\ PersonalInv /\ [Next]_vars => PersonalInv'
  <2> SUFFICES ASSUME TypeInv, TypeInv', PersonalInv, [Next]_vars PROVE PersonalInv'
    OBVIOUS
  <2>1. ASSUME NEW r \in Requests, Step(r) PROVE PersonalInv'
    BY <2>1, PersonalStep
  <2>2. ASSUME NEW r \in Requests, Arrive(r) PROVE PersonalInv'
    BY <2>2, PersonalArrive, Zenon
  <2>3. CASE UNCHANGED <<repo, req>>
    BY <2>3, ZenonT(30) DEF PersonalInv, PersonalIsPrivate, OnePersonalPerUser, personalOf, Knows, TeamOrGone, repo
  <2> QED BY <2>1, <2>2, <2>3 DEF Next, Lapse, vars, repo
<1> QED BY <1>1, PersonalInit, TypeInvariant, PTL DEF Spec

\* A personal workspace "admits exactly one member - the owner", for any number
\* of users, workspaces, invitations and requests in flight: every handler that
\* refuses personal workspaces does so on a row it read calls earlier, and no
\* other request can have made that answer wrong by the time it writes.
THEOREM PersonalAlways == Spec => []PersonalIsPrivate
<1>1. PersonalInv => PersonalIsPrivate
  BY DEF PersonalInv
<1> QED BY <1>1, PersonalInvariant, PTL

\* EnsurePersonalWorkspace: "concurrent first calls converge on a single personal
\* workspace", however many calls race between the lookup and the insert, and no
\* later write of a row read before makes a second one.
THEOREM OnePersonalAlways == Spec => []OnePersonalPerUser
<1>1. PersonalInv => OnePersonalPerUser
  BY DEF PersonalInv
<1> QED BY <1>1, PersonalInvariant, PTL
=============================================================================
