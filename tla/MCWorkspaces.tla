---------------------------- MODULE MCWorkspaces ----------------------------
(* Workspaces for TLC: what is enumerated, and from which states.           *)
EXTENDS Workspaces, Naturals, FiniteSets, TLC

CONSTANTS
  Scenarios,   \* which of the plans below this run follows
  Pair,        \* two of the users, where a plan makes do with two
  One          \* one of the workspace ids, where a plan makes do with one

VARIABLES
  plan,    \* the scenario of this behaviour
  calls    \* how many requests have arrived, where the plan bounds them

mcVars == <<vars, plan, calls>>

symmetry == Permutations(Pair) \cup Permutations(Requests)

Managing == {"UpdateWorkspace", "DeleteWorkspace", "AddMember", "UpdateMemberRole",
             "RemoveMember", "SuspendMember", "ReinstateMember", "TransferOwnership"}

\* menu: the operations that arrive; grants: the roles they grant (no handler
\* tells member from guest); width: requests in flight at a time; calls: how many
\* arrive in all (0: no bound); cast, spaces: which users and workspaces occur.
Plan == [
  sequential |-> [menu |-> Ops, grants |-> Roles \ {"guest"}, width |-> 1, calls |-> 0, cast |-> Users, spaces |-> One],
  ownership  |-> [menu |-> Managing, grants |-> {"admin", "member"},
                  width |-> 2, calls |-> 3, cast |-> Pair, spaces |-> One],
  personal   |-> [menu |-> Ops, grants |-> {"admin"}, width |-> 2, calls |-> 3, cast |-> Pair, spaces |-> WorkspaceIDs],
  transfers  |-> [menu |-> {"TransferOwnership"}, grants |-> {"member"},
                  width |-> 2, calls |-> 2, cast |-> Pair, spaces |-> One],
  suspend    |-> [menu |-> {"SuspendMember", "UpdateMemberRole"}, grants |-> {"admin", "member"},
                  width |-> 2, calls |-> 2, cast |-> Pair, spaces |-> One],
  revoke     |-> [menu |-> {"AcceptInvitation", "RevokeInvitation"}, grants |-> {"member"},
                  width |-> 2, calls |-> 2, cast |-> Pair, spaces |-> One],
  create     |-> [menu |-> {"EnsurePersonalWorkspace"}, grants |-> {"member"}, width |-> 1, calls |-> 1,
                  cast |-> Pair, spaces |-> One]]

fromEmpty == {"sequential", "personal", "create"}

inFlight == {r \in Requests : req[r] # Idle}

Admit(r) ==
  /\ Plan[plan].calls > 0 => calls < Plan[plan].calls
  /\ Cardinality(inFlight) < Plan[plan].width
  /\ Arrive(r)
  /\ LET q == req'[r] IN
       /\ q.op \in Plan[plan].menu /\ q.role \in Plan[plan].grants \cup {None}
       /\ {q.user, q.target} \subseteq Plan[plan].cast \cup {None}
       /\ q.w \in Plan[plan].spaces \cup {None}
  /\ calls' = IF Plan[plan].calls = 0 THEN 0 ELSE calls + 1

MCNext ==
  /\ \/ \E r \in Requests : Admit(r)
     \/ /\ (\E r \in Requests : Step(r)) \/ (\E i \in InvitationIDs : Lapse(i))
        /\ issued' \subseteq Plan[plan].spaces \cup InvitationIDs
        /\ UNCHANGED calls
  /\ UNCHANGED plan

\* A shard with one team workspace: its creator owns it, every other user of the
\* cast has any role and status or is no member, and at most one invitation to it
\* is pending.  Each of these states is reached by a sequence of requests.
Seeded ==
  \E w \in Plan[plan].spaces, o \in Plan[plan].cast,
     rest \in [Users -> [role : Plan[plan].grants, status : {"active", "suspended"}] \cup {None}],
     I \in {J \in SUBSET InvitationIDs : Cardinality(J) <= 1} :
    /\ \A u \in Users \ (Plan[plan].cast \ {o}) : rest[u] = None
    /\ ws = [x \in WorkspaceIDs |-> IF x = w THEN [type |-> "team", owner |-> o] ELSE None]
    /\ rows = [x \in WorkspaceIDs |-> [u \in Users |->
                 IF x # w THEN None
                 ELSE IF u = o THEN [role |-> "owner", status |-> "active"] ELSE rest[u]]]
    /\ tuples = {userTuple(w, "owner", o)} \cup
                {userTuple(w, rest[u].role, u) :
                   u \in {v \in Users : rest[v] # None /\ rest[v].status = "active"}}
    /\ issued = {w} \cup I
    /\ \E role \in Plan[plan].grants :
         invs = [i \in InvitationIDs |->
                   IF i \in I THEN [w |-> w, role |-> role, status |-> "pending"] ELSE None]
    /\ lapsed = {}
    /\ req = [r \in Requests |-> Idle]

MCInit ==
  /\ plan \in Scenarios
  /\ calls = 0
  /\ IF plan \in fromEmpty THEN Init ELSE Seeded

MCSpec == MCInit /\ [][MCNext]_mcVars
-----------------------------------------------------------------------------
(* What holds of the handlers one request at a time *)

alone == plan = "sequential"

\* However long the sequence of calls, and wherever one of them stopped, the row
\* of a member and their role tuples tell the same story.
AgreementAlone == alone => Agreement

\* However long the sequence of calls, and wherever a transfer stopped, the owner
\* recorded on a workspace holds the owner role.
RecordedOwnerAlone == alone => RecordedOwnerHolds

\* However long the sequence of calls, and wherever one of them stopped, a settled
\* invitation (accepted, revoked, expired) is never settled again:
\* AcceptInvitation and RevokeInvitation act on pending ones only.
SettledOnceAlone == [][alone => keepsSettled]_mcVars
=============================================================================
