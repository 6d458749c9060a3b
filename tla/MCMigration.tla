---------------------------- MODULE MCMigration -----------------------------
(* Migration for TLC: who takes part, and what is fair. *)
EXTENDS Migration

CONSTANTS
  Scenarios,  \* which of the plans below this run follows
  Few         \* one replica and the operator

VARIABLE plan \* the scenario of this behaviour

mcVars == <<vars, plan>>

widened == <<"workspaces", "relation_tuples">>

\* fleet: everyone, nothing is fair; heal: a few, who keep trying.
cast == IF plan = "heal" THEN Few ELSE Procs

Boot(p) == p \in cast /\ buildRepo(p)
Expand(p) == p \in cast /\ runMigrate(p, "expand")
Finish(p) == p \in cast /\ runMigrate(p, "contract")
Calm == plan = "heal" /\ Settle

MCNext ==
  /\ Calm \/ \E p \in Procs : Boot(p) \/ Expand(p) \/ Finish(p) \/ Step(p) \/ Fail(p)
  /\ UNCHANGED plan

MCInit == plan \in Scenarios /\ Init

\* Replicas are restarted and the operator keeps trying both phases, all of them
\* get on with it, and after a while nothing fails any more.
Fairness ==
  /\ WF_vars(Calm)
  /\ \A p \in Few : WF_vars(Step(p))
  /\ \A p \in Few \cap Fleet : WF_vars(Boot(p))
  /\ \A p \in Few \ Fleet : SF_vars(Expand(p)) /\ SF_vars(Finish(p))

MCSpec == MCInit /\ [][MCNext]_mcVars /\ Fairness
-----------------------------------------------------------------------------
\* Where all keep trying, no replica waits for the lock for ever, and however
\* often migrations failed part way the schema ends up expanded and contracted
\* once they stop failing, and stays so (acquireMigrationLock, Migrate, Contract).
Heals ==
  /\ \A p \in Few \cap Fleet :
       (plan = "heal" /\ proc[p].pc = "lock") ~> proc[p].pc \in Serving \cup {"exited"}
  /\ <>[](plan = "heal" => settled)
=============================================================================
