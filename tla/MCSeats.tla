------------------------------- MODULE MCSeats -------------------------------
(* SeatsPostgres for TLC: which calls are made, and beside which others. *)
EXTENDS SeatsPostgres

CONSTANTS
  Scenarios,   \* which of the plans below this run follows
  Few          \* two of the users, where a plan makes do with two

VARIABLE plan  \* the scenario of this behaviour

mcVars == <<vars, plan>>

\* race: assignments and deprovisionings; waits: the calls that lock in one order;
\* alone: one call at a time, the cap changes between calls only.
Plan == [
  race  |-> [kinds |-> Kinds \ {"revoke"}, users |-> Users, width |-> Cardinality(Txs)],
  waits |-> [kinds |-> Kinds \ {"deprovision"}, users |-> Few, width |-> Cardinality(Txs)],
  alone |-> [kinds |-> Kinds, users |-> Users, width |-> 1]]

inFlight == {a \in Txs : open(a)}

Call(a) ==
  /\ Cardinality(inFlight) < Plan[plan].width
  /\ \E kind \in Plan[plan].kinds, u \in Plan[plan].users : Begin(a, kind, u)

Cap(n) == (plan = "alone" => inFlight = {}) /\ SetSeatLimit(n)

MCNext ==
  /\ \/ \E a \in Txs : Call(a) \/ Statement(a) \/ Rollback(a)
     \/ \E n \in Limits \cup {Unlimited} : Cap(n)
  /\ UNCHANGED plan

MCInit == plan \in Scenarios /\ Init

\* A statement that can run does, and Postgres serves the waiters of a lock in
\* the order they came: a transaction is not passed over for ever.
MCSpec == MCInit /\ [][MCNext]_mcVars /\ \A a \in Txs : SF_vars(Statement(a))
-----------------------------------------------------------------------------
\* Every call that locks in the common order ends: AssignSeatAndTuple and
\* RevokeSeatAndTuple leave no transaction open, whatever they wait for and
\* whichever error path they take.
CallsEnd == \A a \in Txs : (plan = "waits" /\ open(a)) ~> ~open(a)

\* One call at a time, the Postgres driver takes the steps of the memory driver:
\* seats, cap and tuples change as in Seats.
AloneAsMemory == Memory!Init /\ [][plan = "alone" => Memory!Next]_<<limit, held, granted, plan>>
=============================================================================
