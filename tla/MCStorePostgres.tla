-------------------------- MODULE MCStorePostgres --------------------------
(* StorePostgres for TLC: the calls that arrive, and beside which others. *)
EXTENDS StorePostgres

CONSTANTS
  Scenarios,  \* which of the plans below this run follows
  Few, Home   \* one id and one tenant, where a plan makes do with one

VARIABLE plan \* the scenario of this behaviour

mcVars == <<vars, plan>>

call(op, t, id, u, row, del, ins, expiry) ==
  [op |-> op, t |-> t, id |-> id, u |-> u, row |-> row, del |-> del, ins |-> ins,
   expiry |-> expiry]
grant(ns, id, u) == [ns |-> ns, obj |-> id, subject |-> [kind |-> "user", id |-> u]]
nested(id, g) == [ns |-> "group", obj |-> id, subject |-> [kind |-> "set", id |-> g]]
everyone(id) == [ns |-> "group", obj |-> id, subject |-> [kind |-> "wildcard", id |-> None]]

\* Tuples with and without an expiry, of every kind of subject, and erasure.
tupleCalls(Ts, Is) ==
  {call("WriteTuples", t, None, None, None, None, grant("workspace", i, u), e) :
     t \in Ts, i \in Is, u \in Users, e \in {"never", "later"}}
  \cup {call("WriteTuples", t, None, None, None, nested(i, i), everyone(i), "never") :
           t \in Ts, i \in Is}
  \cup {call("WriteTuples", t, None, None, None, everyone(i), nested(i, i), "never") :
           t \in Ts, i \in Is}
  \cup {call("DeleteAllSubjectTuplesInProject", None, None, u, None, None, None, None) : u \in Users}

workspaceCalls(type, Ts, Is) ==
  UNION {{call("CreateWorkspace", t, i, None, [type |-> type, owner |-> u], None, None, None),
          call("UpdateWorkspace", t, i, None, [type |-> type, owner |-> u], None, None, None),
          call("DeleteWorkspace", t, i, None, None, None, None, None)} :
           t \in Ts, i \in Is, u \in Users}
invitationCalls(Ts, Is) ==
  UNION {{call("CreateInvitation", t, i, None, [w |-> w, status |-> "pending"], None, None, None),
          call("UpdateInvitation", t, i, None, [w |-> w, status |-> "accepted"], None, None, None)} :
           t \in Ts, i \in Is, w \in Is}
memberCalls(Ts, Is) ==
  UNION {{call("PutMembership", t, i, u, "suspended", None, None, None),
          call("DeleteMembership", t, i, u, None, None, None, None),
          call("PutMembershipAndTuples", t, i, u, "active", None, grant("workspace", i, u), "never"),
          call("DeleteMembershipAndTuples", t, i, u, None, grant("workspace", i, u), None, None)} :
           t \in Ts, i \in Is, u \in Users}
groupCalls(Ts, Is) ==
  UNION {{call("CreateGroup", t, i, None, [w |-> None], None, None, None),
          call("DeleteGroup", t, i, None, None, None, None, None),
          call("SetEnrollmentAndTuples", t, i, u, "active", None, grant("group", i, u), "never"),
          call("SetEnrollmentAndTuples", t, i, u, "dropped", grant("group", i, u), None, None)} :
           t \in Ts, i \in Is, u \in Users}

\* Writers that take the same two tuples in opposite order, and the erasure of
\* the user both are about.
crossedCalls(Ts, Is) ==
  UNION {{call("WriteTuples", t, None, None, None, grant("group", i, u), grant("workspace", i, u), "never"),
          call("WriteTuples", t, None, None, None, grant("workspace", i, u), grant("group", i, u), "never")} :
           t \in Ts, i \in Is, u \in Users}
  \cup {call("DeleteAllSubjectTuplesInProject", None, None, u, None, None, None, None) : u \in Users}

\* arrive: the calls; seq: how far the sequence of a tenant may get; apart: are
\* calls about one object never in flight together.
Plan == [
  tuples   |-> [arrive |-> tupleCalls(Tenants, Few), seq |-> 2, apart |-> TRUE],
  teams    |-> [arrive |-> workspaceCalls("team", Home, Few) \cup memberCalls(Home, IDs), seq |-> 2, apart |-> TRUE],
  invites  |-> [arrive |-> workspaceCalls("team", Home, IDs) \cup invitationCalls(Home, IDs), seq |-> 1, apart |-> TRUE],
  groups   |-> [arrive |-> groupCalls(Home, IDs), seq |-> 3, apart |-> TRUE],
  personal |-> [arrive |-> workspaceCalls("personal", Home, IDs), seq |-> 3, apart |-> FALSE],
  crossed  |-> [arrive |-> crossedCalls(Home, Few) \cup groupCalls(Home, Few), seq |-> 4, apart |-> FALSE],
  shared   |-> [arrive |-> workspaceCalls("team", Home, Few) \cup memberCalls(Home, Few), seq |-> 3, apart |-> FALSE],
  cascade  |-> [arrive |-> groupCalls(Home, Few), seq |-> 3, apart |-> FALSE]]

allCalls == UNION {Plan[p].arrive : p \in Scenarios}
allTuples == {c.ins : c \in allCalls} \ {None}

\* Two calls are about one object or one tuple, or one sweeps what the other adds.
collide(a, b) ==
  \/ a.t = b.t /\ a.id # None /\ a.id = b.id
  \/ ({a.del, a.ins} \cap {b.del, b.ins}) \ {None} # {}
  \/ \E p \in {<<a, b>>, <<b, a>>} :
       \/ p[1].op = "DeleteAllSubjectTuplesInProject" /\ p[2].ins # None
       \/ p[1].op = "DeleteWorkspace" /\ p[2].op \in {"CreateInvitation", "UpdateInvitation"}

\* The pool hands out any connection that is free: which one makes no difference.
free == CHOOSE c \in Clients : tx[c] = None

Admit(c, x) ==
  /\ Plan[plan].apart => \A d \in Open : ~collide(x, tx[d].call)
  /\ fits(x, Plan[plan].seq)
  /\ Begin(c, x)

MCNext ==
  /\ \/ Open # Clients /\ \E x \in Plan[plan].arrive : Admit(free, x)
     \/ \E c \in Clients : Step(c) \/ Rollback(c)
     \/ \E k \in Keys : Lapse(k)
  /\ UNCHANGED plan

MCInit == plan \in Scenarios /\ Init

MCSpec == MCInit /\ [][MCNext]_mcVars
-----------------------------------------------------------------------------
ending(op) == \E c \in Clients : tx[c] # None /\ tx'[c] = None /\ tx[c].call.op = op

\* Where calls about one object do not overlap, and for personal workspaces even
\* where they do, the driver does what the memory driver does: every COMMIT is one
\* call of Store, and nothing shows before it or after a rollback.
ImplementsStore ==
  Mem!Init /\ [][rows' # rows /\ plan \notin {"crossed", "shared"} => Mem!Next]_mcVars

\* However calls overlap, and whichever of them are aborted, a change of a tenant's
\* tuples commits together with an advance of its sequence, and no advance is lost;
\* project-wide erasure, which advances none, is set apart.
SeqAdvancesOnWrites ==
  [][rows' # rows /\ ~ending("DeleteAllSubjectTuplesInProject") => Mem!seqAdvances]_mcVars

\* Every change of a tenant's tuples, erasure included, advances its sequence.
AlwaysAdvances == Mem!SeqAdvances

\* Whatever has been committed, every query of the driver returns what the memory
\* driver returns for the same rows.  The queries read committed rows only, and
\* every set of committed rows occurs with no transaction open.
CommittedReadsAgree == Open = {} => ReadsAgree

\* The rows a call may write, its tenant's sequence set apart.
writesRows(x) == UNION {s.keys : s \in Range(statements(x))} \ {seqKey(t) : t \in Tenants}
ofWorkspaces == {"CreateWorkspace", "UpdateWorkspace", "DeleteWorkspace", "PutMembership", "DeleteMembership",
                 "PutMembershipAndTuples", "DeleteMembershipAndTuples"}

\* Calls end up waiting for each other, and one of them is aborted, only if both
\* write the same two rows besides the sequence: the sequence, which all writers
\* of a tenant share, is the last row every call takes.  Calls about workspaces
\* and members never do: workspace, membership and tuple are taken in this order
\* by all of them (bumpSeqExec at the end, DeleteWorkspace, putMembershipExec).
LocksInOrder ==
  \A c, d \in Open : d \in waitsFor[c] /\ c \in waitsFor[d] =>
    /\ Cardinality(writesRows(tx[c].call) \cap writesRows(tx[d].call)) > 1
    /\ {tx[c].call.op, tx[d].call.op} \ ofWorkspaces # {}
=============================================================================
