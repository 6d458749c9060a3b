----------------------------- MODULE MCProjects -----------------------------
(* Projects for TLC: which requests reach which process. *)
EXTENDS Projects

CONSTANTS
  Scenarios,   \* which of the plans below this run follows
  Home,        \* the process of a data region; the others serve every region
  One          \* one of the projects, where a plan makes do with one

VARIABLE plan  \* the scenario of this behaviour

mcVars == <<vars, plan>>

\* Home is pinned to one region, the other processes to none.
homeRegion == CHOOSE g \in Regions : TRUE
pinned == [i \in Instances |-> IF i = Home THEN homeRegion ELSE None]

Admin == {"UpdateProject", "CreateProject", "Boot"}

\* menu: the operations that arrive; patches: the fields they set; away: do
\* admin requests reach the other processes only; overlap: may two updates of one
\* project be in flight; faults: do processes restart, requests and loads fail.
Plan == [
  serve  |-> [menu |-> {"Resolve", "UpdateProject", "CreateProject"}, patches |-> {"status"}, projects |-> One,
              away |-> FALSE, overlap |-> TRUE, time |-> TRUE, faults |-> TRUE],
  region |-> [menu |-> {"Resolve", "UpdateProject", "Boot"}, patches |-> {"region"}, projects |-> One,
              away |-> TRUE, overlap |-> FALSE, time |-> TRUE, faults |-> FALSE],
  evict  |-> [menu |-> {"Resolve"}, patches |-> {}, projects |-> ProjectIDs,
              away |-> FALSE, overlap |-> FALSE, time |-> TRUE, faults |-> TRUE],
  patch  |-> [menu |-> Admin, patches |-> {"model", "budget"}, projects |-> One,
              away |-> TRUE, overlap |-> FALSE, time |-> FALSE, faults |-> TRUE],
  lost   |-> [menu |-> Admin, patches |-> {"status", "model"}, projects |-> One,
              away |-> TRUE, overlap |-> TRUE, time |-> FALSE, faults |-> TRUE],
  late   |-> [menu |-> {"Resolve", "UpdateProject", "CreateProject"}, patches |-> {"status"}, projects |-> One,
              away |-> FALSE, overlap |-> FALSE, time |-> FALSE, faults |-> FALSE]]

ASSUME PlanAssumption ==
  Home \in Instances /\ One \subseteq ProjectIDs /\ Scenarios \subseteq DOMAIN Plan

updating(p) == \E s \in Requests : req[s].op = "UpdateProject" /\ req[s].p = p

\* Data-plane requests reach Home: it does not matter to its cache what the
\* others have cached.  Admin requests reach it too, or the others only.
desks == IF Plan[plan].away THEN Instances \ {Home} ELSE Instances

PatchOf(fields) ==
  {x \in Patch : /\ "status" \in fields \/ x.status = None
                 /\ "model" \in fields \/ x.model = None
                 /\ "region" \in fields \/ x.region = None
                 /\ "budget" \in fields \/ x.budget = 0}

Admit(r) ==
  LET menu == Plan[plan].menu IN
  \/ \E i \in desks : "Boot" \in menu /\ Boot(r, i)
  \/ \E p \in Plan[plan].projects : "Resolve" \in menu /\ ResolveRPC(r, Home, p)
  \/ \E i \in desks, p \in Plan[plan].projects : \E x \in PatchOf(Plan[plan].patches) :
       \/ "CreateProject" \in menu /\ CreateProjectRPC(r, i, p, x)
       \/ /\ "UpdateProject" \in menu /\ (Plan[plan].overlap \/ ~updating(p))
          /\ UpdateProjectRPC(r, i, p, x)

MCTick == Plan[plan].time /\ Tick

MCNext ==
  /\ \/ MCTick
     \/ Plan[plan].faults /\ Fault
     \/ \E r \in Requests : Admit(r) \/ Step(r)
     \/ \E i \in Instances, p \in ProjectIDs : FlightStep(i, p)
  /\ UNCHANGED plan

MCInit == plan \in Scenarios /\ Init

\* The clock advances, and a load that has started runs to its end.
MCSpec ==
  /\ MCInit /\ [][MCNext]_mcVars
  /\ WF_vars(MCTick)
  /\ \A i \in Instances, p \in ProjectIDs : WF_vars(FlightStep(i, p))
-----------------------------------------------------------------------------
\* Where no two updates of one project overlap, UpdateProject overwrites only the
\* fields the caller provides: the row it leaves is the row it finds, with the
\* patch applied, whatever creations, boots and failures interleave.
PatchKeepsRestApart == [][~Plan[plan].overlap => \A r \in Requests : keepsRest(r)]_mcVars
=============================================================================
