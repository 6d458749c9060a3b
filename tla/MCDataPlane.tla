---------------------------- MODULE MCDataPlane -----------------------------
(* DataPlane for TLC: which requests arrive, over which tuples. *)
EXTENDS DataPlane, TLC

CONSTANTS
  Scenarios,  \* which of the plans below this run follows
  Home        \* one of the tenants, where a plan makes do with one

VARIABLE plan \* the scenario of this behaviour

mcVars == <<vars, plan>>

\* A document under groups that may contain each other, under groups within
\* groups as deep as the limit and deeper, and under one group.
ring == {<<"doc", "g1">>, <<"g1", "g2">>, <<"g2", "g1">>, <<"g2", "u">>, <<"doc", "g2">>}
nested == {<<"doc", "g1">>, <<"doc", "g2">>, <<"g1", "g2">>, <<"g2", "g1">>, <<"g2", "g3">>, <<"g3", "u">>}
flat == {<<"doc", "g1">>, <<"doc", "u">>, <<"g1", "u">>}
written == ring \cup nested \cup flat
questions == {<<<<"doc", "v">>, <<"doc", "u">>>>, << >>}

\* menu: what arrives; over: the tuples that are written; tenants: where; filled:
\* does the shard hold any set of those tuples at first; writes: how many there are.
Plan == [
  walk   |-> [menu |-> {"WriteTuples", "BatchCheck"}, over |-> ring,
              tenants |-> Home, filled |-> TRUE, writes |-> 2],
  deep   |-> [menu |-> {"WriteTuples", "Check", "DeprovisionUser"}, over |-> nested,
              tenants |-> Home, filled |-> TRUE, writes |-> 1],
  list   |-> [menu |-> {"WriteTuples", "ListObjects", "SetStatus"}, over |-> flat,
              tenants |-> Home, filled |-> TRUE, writes |-> 2],
  tokens |-> [menu |-> {"WriteTuples", "Check", "SetStatus", "Restart"}, over |-> flat,
              tenants |-> Tenants, filled |-> FALSE, writes |-> 2],
  export |-> [menu |-> {"WriteTuples", "ExportSubjectGrants"}, over |-> flat,
              tenants |-> Tenants, filled |-> TRUE, writes |-> 1],
  lost   |-> [menu |-> {"WriteTuples", "Check", "Restart"}, over |-> flat,
              tenants |-> Home, filled |-> FALSE, writes |-> 2]]

MCInit ==
  /\ plan \in Scenarios
  /\ IF ~Plan[plan].filled THEN Init
     ELSE \E T \in SUBSET Plan[plan].over :
            InitWith([t \in Tenants |-> IF t \in Plan[plan].tenants THEN T ELSE {}])

reading == \E r \in Requests : req[r].pc # "idle" /\ req[r].op \notin {"WriteTuples", "DeprovisionUser"}

\* Requests that only read have no effect on each other: one at a time.
Read(r) ==
  LET menu == Plan[plan].menu IN
  /\ ~reading
  /\ \/ \E u \in Users : "ExportSubjectGrants" \in menu /\ ExportSubjectGrantsRPC(r, u)
     \/ \E t \in Plan[plan].tenants, tk \in tokens \cup {None} :
          \/ \E b \in Batches : "Check" \in menu /\ b # << >> /\ CheckRPC(r, t, tk, b[Len(b)])
          \/ \E b \in Batches : "BatchCheck" \in menu /\ BatchCheckRPC(r, t, tk, b)
          \/ \E u \in Users : "ListObjects" \in menu /\ ListObjectsRPC(r, t, tk, u)

\* Where the shard may hold anything at first, only the changes that come beside
\* a read matter.
Change(r) ==
  /\ Plan[plan].filled => reading
  /\ \/ /\ writes < Plan[plan].writes
        /\ \E t \in Plan[plan].tenants, x \in Plan[plan].over :
             WriteRelationTuples(r, t, {x}, {}) \/ WriteRelationTuples(r, t, {}, {x})
     \/ \E u \in Users : "DeprovisionUser" \in Plan[plan].menu /\ DeprovisionUserRPC(r, u)

MCNext ==
  /\ \/ \E r \in Requests : Read(r) \/ Change(r) \/ Proceed(r) \/ Return(r) \/ Abort(r)
     \/ "Restart" \in Plan[plan].menu /\ Restart
     \/ "SetStatus" \in Plan[plan].menu /\ SetStatus
  /\ Witness
  /\ UNCHANGED plan

MCSpec == MCInit /\ [][MCNext]_mcVars

symmetry == Permutations(Requests)
=============================================================================
