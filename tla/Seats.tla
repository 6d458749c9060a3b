-------------------------------- MODULE Seats --------------------------------
(***************************************************************************)
(* The seats of one sku in one (project, tenant) shard, as the memory      *)
(* driver keeps them: every call holds the store's mutex from its first    *)
(* line to its last, so each is one step.  This is what a driver promises; *)
(* SeatsPostgres is checked against it.                                    *)
(***************************************************************************)
EXTENDS Naturals, FiniteSets

CONSTANTS
  Users,
  Limits,    \* the caps an administrator may set
  Unlimited  \* no row in seat_limits

VARIABLES
  limit,   \* the cap of the sku
  held,    \* users with a seat assignment: what is counted
  granted  \* users with a seat:<sku>#holder tuple: what Check reads

Init == limit = Unlimited /\ held = {} /\ granted = {}

\* Any cap may be set or cleared, also one below the seats in use.
SetSeatLimit(n) == limit' = n /\ UNCHANGED <<held, granted>>

full == limit # Unlimited /\ Cardinality(held) >= limit

\* A user who has a seat keeps it and gets the tuple again; a new seat must be
\* within the cap (ErrResourceExhausted changes nothing).
AssignSeatAndTuple(u) ==
  /\ u \in held \/ ~full
  /\ held' = held \cup {u}
  /\ granted' = granted \cup {u}
  /\ UNCHANGED limit

RevokeSeatAndTuple(u) ==
  /\ held' = held \ {u}
  /\ granted' = granted \ {u}
  /\ UNCHANGED limit

\* Deprovisioning: the tuples and the seats of the user, together.
DeleteAllSubjectTuplesInProject(u) == RevokeSeatAndTuple(u)

Next ==
  \/ \E n \in Limits \cup {Unlimited} : SetSeatLimit(n)
  \/ \E u \in Users : \/ AssignSeatAndTuple(u)
                      \/ RevokeSeatAndTuple(u)
                      \/ DeleteAllSubjectTuplesInProject(u)

Spec == Init /\ [][Next]_<<limit, held, granted>>
=============================================================================
