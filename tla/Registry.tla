------------------------------ MODULE Registry ------------------------------
(***************************************************************************)
(* What the project registry promises the requests it answers: a request   *)
(* is told what its project resolves to now, or what it resolved to at     *)
(* some moment of the last Bound ticks.  Projects implements it.           *)
(***************************************************************************)
EXTENDS Naturals

CONSTANTS
  ProjectIDs,
  Requests,
  Resolutions,  \* what a project may resolve to
  Unknown,      \* what a project nobody has registered resolves to
  Bound,        \* how many ticks an answer may lag behind
  None

VARIABLES
  current,   \* what each project resolves to
  recent,    \* ticks since it last resolved to each value, Bound + 1 for longer
  answered   \* the last answer of each request

Init ==
  /\ current = [p \in ProjectIDs |-> Unknown]
  /\ recent = [p \in ProjectIDs |-> [x \in Resolutions |-> IF x = Unknown THEN 0 ELSE Bound + 1]]
  /\ answered = [r \in Requests |-> None]

Change(p, x) ==
  /\ current' = [current EXCEPT ![p] = x]
  /\ recent' = [recent EXCEPT ![p][x] = 0]
  /\ UNCHANGED answered

Tick ==
  /\ recent' = [p \in ProjectIDs |-> [x \in Resolutions |->
                  IF x = current[p] \/ recent[p][x] > Bound THEN recent[p][x]
                  ELSE recent[p][x] + 1]]
  /\ UNCHANGED <<current, answered>>

\* Any number of requests are answered, or forget their last answer.
Answer ==
  /\ \A r \in Requests :
       \/ answered'[r] \in {answered[r], None}
       \/ \E p \in ProjectIDs, x \in Resolutions :
            recent[p][x] <= Bound /\ answered'[r] = [p |-> p, res |-> x]
  /\ DOMAIN answered' = Requests
  /\ UNCHANGED <<current, recent>>

Next == Answer \/ Tick \/ \E p \in ProjectIDs, x \in Resolutions : Change(p, x)

Spec == Init /\ [][Next]_<<current, recent, answered>>
=============================================================================
