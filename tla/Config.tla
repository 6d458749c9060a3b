------------------------------- MODULE Config -------------------------------
(* Configuration from the environment and its validation, beside the       *)
(* validation of what an administrator sets for a project, which is written  *)
(* a second time in the service.  A process starts with the environment it   *)
(* finds; one that is refused does not start.                                *)
EXTENDS Integers, Sequences

CONSTANTS
  Numbers,      \* what a numeric variable may hold
  Regions,      \* what GATEWAY_DATA_REGION may hold: sequences of letters
  maxDataRegionLen,         \* of package config
  projectMaxDataRegionLen,  \* maxDataRegionLen of package service
  Unset,        \* the variable is not there
  Malformed     \* it is there and does not parse

VARIABLES
  env,       \* the environment of the next start
  config,    \* what the process runs with, Unset if it does not run
  pinned     \* what an administrator set for a project: its region and read budget

vars == <<env, config, pinned>>

Knobs == {"ConnectPort", "MetricsPort", "HTTPMaxBodyBytes", "MaxCheckReads", "TenantRateLimitPerMinute"}
default == [ConnectPort |-> 8080, MetricsPort |-> 9090, HTTPMaxBodyBytes |-> 1048576,
            MaxCheckReads |-> 5000, TenantRateLimitPerMinute |-> 0]
MinMaxCheckReads == 100
minTenantRateLimitPerMinute == 60

\* What does not parse counts as unset.
envInt(v, def) == IF v \in {Unset, Malformed} THEN def ELSE v

\* Mutant: upper case is let through.
validateDataRegionUpper(r) ==
  Len(r) <= maxDataRegionLen /\ \A i \in DOMAIN r : r[i] \in {"a", "A", "0", "-", "_"}
\* Of the instance: lowercase letters, digits, '-' and '_'.
validateDataRegion(r) ==
  Len(r) <= maxDataRegionLen /\ \A i \in DOMAIN r : r[i] \in {"a", "0", "-", "_"}

\* Of a project.
ValidateRegion(r) ==
  Len(r) <= projectMaxDataRegionLen /\ \A i \in DOMAIN r : r[i] \in {"a", "0", "-", "_"}

\* Of a project; 0 and less stand for the budget of the instance.
ValidateMaxCheckReads(n) == n > 0 => n >= MinMaxCheckReads

Validate(c) ==
  /\ c.ConnectPort \in 1..65535
  /\ c.MetricsPort \in 1..65535
  /\ c.HTTPMaxBodyBytes > 0
  /\ c.AdminAPISecret # "short"
  /\ c.TenantRateLimitPerMinute > 0 => c.TenantRateLimitPerMinute >= minTenantRateLimitPerMinute
  /\ c.MaxCheckReads > 0 => c.MaxCheckReads >= MinMaxCheckReads
  /\ validateDataRegion(c.DataRegion)

\* Every entry has a token long enough and a name; one bad entry refuses all.
parseServiceCredentials(v) == v \in {Unset, "good"}

parsed(e) ==
  [k \in Knobs \cup {"DataRegion", "AdminAPISecret"} |->
     CASE k = "DataRegion" -> e.region
       [] k = "AdminAPISecret" -> e.secret
       [] OTHER -> envInt(e[k], default[k])]

loads(e) == parseServiceCredentials(e.creds) /\ Validate(parsed(e))

\* A process starts, or exits with config_invalid.
Load ==
  /\ config = Unset
  /\ config' = IF loads(env) THEN parsed(env) ELSE Unset
  /\ UNCHANGED <<env, pinned>>

Exit == config # Unset /\ config' = Unset /\ UNCHANGED <<env, pinned>>

CreateProject(r, n) ==
  /\ ValidateRegion(r) /\ ValidateMaxCheckReads(n)
  /\ pinned' = [region |-> r, budget |-> n]
  /\ UNCHANGED <<env, config>>

\* An empty region and a budget that is not positive leave what is there.
UpdateProject(r, n, clearRegion, clearBudget) ==
  /\ ValidateRegion(r) /\ ValidateMaxCheckReads(n)
  /\ ~(clearRegion /\ r # << >>) /\ ~(clearBudget /\ n > 0)
  /\ pinned' = [region |-> IF clearRegion \/ r # << >> THEN r ELSE pinned.region,
                budget |-> CASE clearBudget -> 0 [] ~clearBudget /\ n > 0 -> n [] OTHER -> pinned.budget]
  /\ UNCHANGED <<env, config>>

\* The budget the service is built with: a setting that is not positive keeps
\* the default of the service.
WithMaxCheckReads(n) == IF n > 0 THEN n ELSE 5000

\* The reads one evaluation may take for the project.
effectiveMaxReads ==
  IF pinned.budget > 0 THEN pinned.budget ELSE WithMaxCheckReads(config.MaxCheckReads)

Edit(k, v) == config = Unset /\ env' = [env EXCEPT ![k] = v] /\ UNCHANGED <<config, pinned>>

Init ==
  /\ env = [k \in Knobs \cup {"region", "creds", "secret"} |-> IF k = "region" THEN << >> ELSE Unset]
  /\ config = Unset
  /\ pinned = [region |-> << >>, budget |-> 0]

Next ==
  \/ Load \/ Exit
  \/ \E r \in Regions : Edit("region", r)
  \/ \E r \in Regions, n \in Numbers : CreateProject(r, n)
  \/ \E r \in Regions, n \in Numbers, cr, cb \in BOOLEAN : UpdateProject(r, n, cr, cb)
  \/ \E v \in {Unset, "good", "bad"} : Edit("creds", v)
  \/ \E v \in {Unset, "short", "long"} : Edit("secret", v)
  \/ \E k \in Knobs, v \in Numbers \cup {Unset, Malformed} : Edit(k, v)

Spec == Init /\ [][Next]_vars
-----------------------------------------------------------------------------
(* Properties *)

\* A region a process runs with is one a project can be pinned to, and the other
\* way round, although each package has a rule of its own: "it MUST match the
\* service's project-side validateRegion rule"
\* (validateDataRegion, ValidateRegion).
RegionsAgree ==
  /\ config # Unset => ValidateRegion(config.DataRegion)
  /\ validateDataRegion(pinned.region)

\* Whatever the environment holds and a project was created or updated with, a
\* process that runs gives no evaluation a budget below the floor, at which
\* ordinary checks would be refused: the variable, the project's override, their
\* two validations and three defaults fit together
\* (Validate, ValidateMaxCheckReads, WithMaxCheckReads, effectiveMaxReads).
BudgetsUsable == config # Unset => effectiveMaxReads >= MinMaxCheckReads
=============================================================================
