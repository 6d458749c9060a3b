---------------------------- MODULE SeatsPostgres ----------------------------
(***************************************************************************)
(* The seats of one sku as the Postgres driver keeps them: each call is a  *)
(* READ COMMITTED transaction, and each statement of it is a step.  A      *)
(* statement sees what is committed when it runs; a write is visible to    *)
(* others once its transaction commits and locks its row until then, so a  *)
(* statement on that row waits.  A DELETE that finds no committed row      *)
(* locks nothing.                                                          *)
(***************************************************************************)
EXTENDS Naturals, FiniteSets

CONSTANTS
  Users,
  Limits,     \* the caps an administrator may set
  Unlimited,  \* no row in seat_limits
  Txs,        \* transactions that may be open at the same time
  Kinds       \* which calls are made: a subset of AllKinds

AllKinds == {"assign", "revoke", "deprovision"}

ASSUME SeatConstants ==
  Limits \subseteq Nat /\ Unlimited \notin Nat /\ Kinds \subseteq AllKinds /\ IsFiniteSet(Users)

VARIABLES
  limit, held, granted,  \* the committed tables, as in Seats
  tx                     \* the open transactions

vars == <<limit, held, granted, tx>>
tables == <<limit, held, granted>>

Writes == {"none", "insert", "delete"}
PCs == {"idle", "lock", "exists", "limit", "count", "insert", "upsert",
        "delseat", "deltuple", "bump", "commit", "alltuples", "allseats"}

\* A transaction: the user it is about, the statement it is at, the cap it has
\* read, what it has written to the seat row and the tuple row of its user, and
\* whether it has bumped the sequence.
Transaction == [kind : AllKinds, user : Users, pc : PCs \ {"idle"},
                cap : Limits \cup {Unlimited}, seat : Writes, tuple : Writes, seq : BOOLEAN]
Idle == [pc |-> "idle"]

\* Committed tables and open transactions are well formed.
TypeOK ==
  /\ limit \in Limits \cup {Unlimited}
  /\ held \subseteq Users
  /\ granted \subseteq Users
  /\ tx \in [Txs -> Transaction \cup {Idle}]

Init ==
  /\ limit = Unlimited
  /\ held = {}
  /\ granted = {}
  /\ tx = [a \in Txs |-> Idle]
-----------------------------------------------------------------------------
(* Locks *)

open(a) == tx[a] # Idle
seatRow(u) == <<"seat", u>>
tupleRow(u) == <<"tuple", u>>

\* The advisory lock is held from the first statement of an assignment, the
\* shard's consistency_seq row from the bump, a row from the write to it.
locks(a) ==
  IF ~open(a) THEN {}
  ELSE (IF tx[a].kind = "assign" /\ tx[a].pc # "lock" THEN {<<"advisory">>} ELSE {})
       \cup (IF tx[a].seat # "none" THEN {seatRow(tx[a].user)} ELSE {})
       \cup (IF tx[a].tuple # "none" THEN {tupleRow(tx[a].user)} ELSE {})
       \cup (IF tx[a].seq THEN {<<"seq">>} ELSE {})

\* What the next statement of a waits for.
wanted(a) ==
  IF ~open(a) THEN {}
  ELSE CASE tx[a].pc = "lock" -> {<<"advisory">>}
         [] tx[a].pc = "insert" -> {seatRow(tx[a].user)}
         [] tx[a].pc = "upsert" -> {tupleRow(tx[a].user)}
         [] tx[a].pc \in {"delseat", "allseats"} ->
              IF tx[a].user \in held THEN {seatRow(tx[a].user)} ELSE {}
         [] tx[a].pc \in {"deltuple", "alltuples"} ->
              IF tx[a].user \in granted THEN {tupleRow(tx[a].user)} ELSE {}
         [] tx[a].pc = "bump" -> {<<"seq">>}
         [] OTHER -> {}

waitsFor(a, b) == a # b /\ wanted(a) \cap locks(b) # {}

\* a runs its statement at pc, which is not blocked, and becomes t.
Run(a, pc, t) ==
  /\ tx[a].pc = pc
  /\ \A b \in Txs : ~waitsFor(a, b)
  /\ tx' = [tx EXCEPT ![a] = t]
-----------------------------------------------------------------------------
(* AssignSeatAndTuple *)

firstStatement(kind) ==
  CASE kind = "assign" -> "lock" [] kind = "revoke" -> "delseat" [] OTHER -> "alltuples"

Begin(a, kind, u) ==
  /\ ~open(a)
  /\ tx' = [tx EXCEPT ![a] = [kind |-> kind, user |-> u, pc |-> firstStatement(kind),
                               cap |-> Unlimited, seat |-> "none", tuple |-> "none",
                               seq |-> FALSE]]
  /\ UNCHANGED tables

\* Mutant: the advisory lock is shared.
AdvisoryLockShared(a) ==
  /\ tx[a].pc = "lock"
  /\ tx' = [tx EXCEPT ![a] = [tx[a] EXCEPT !.pc = "exists"]]
  /\ UNCHANGED tables

AdvisoryLock(a) ==
  /\ Run(a, "lock", [tx[a] EXCEPT !.pc = "exists"])
  /\ UNCHANGED tables

\* A user who already holds a seat only gets the tuple written again.
SelectExists(a) ==
  /\ Run(a, "exists", [tx[a] EXCEPT !.pc = IF tx[a].user \in held THEN "upsert" ELSE "limit"])
  /\ UNCHANGED tables

SelectLimit(a) ==
  /\ Run(a, "limit", [tx[a] EXCEPT !.cap = limit,
                                   !.pc = IF limit = Unlimited THEN "insert" ELSE "count"])
  /\ UNCHANGED tables

\* Mutant: ErrResourceExhausted leaves the transaction open.
SelectCountLeaks(a) ==
  /\ Run(a, "count", IF Cardinality(held) >= tx[a].cap
                     THEN tx[a] ELSE [tx[a] EXCEPT !.pc = "insert"])
  /\ UNCHANGED tables

\* ErrResourceExhausted rolls back.
SelectCount(a) ==
  /\ Run(a, "count", IF Cardinality(held) >= tx[a].cap
                     THEN Idle ELSE [tx[a] EXCEPT !.pc = "insert"])
  /\ UNCHANGED tables

InsertSeat(a) ==
  /\ Run(a, "insert", [tx[a] EXCEPT !.seat = "insert", !.pc = "upsert"])
  /\ UNCHANGED tables

\* writeTuplesExec: the tuple, then the bump of the sequence.
UpsertTuple(a) ==
  /\ Run(a, "upsert", [tx[a] EXCEPT !.tuple = "insert", !.pc = "bump"])
  /\ UNCHANGED tables

BumpSeq(a) ==
  /\ Run(a, "bump", [tx[a] EXCEPT !.seq = TRUE, !.pc = "commit"])
  /\ UNCHANGED tables
-----------------------------------------------------------------------------
(* RevokeSeatAndTuple and DeleteAllSubjectTuplesInProject *)

found(u, table) == IF u \in table THEN "delete" ELSE "none"

DeleteSeat(a) ==
  /\ Run(a, "delseat", [tx[a] EXCEPT !.seat = found(tx[a].user, held), !.pc = "deltuple"])
  /\ UNCHANGED tables

\* Mutant: a revocation frees the seat and leaves its tuple.
DeleteTupleKept(a) ==
  /\ Run(a, "deltuple", [tx[a] EXCEPT !.pc = "bump"])
  /\ UNCHANGED tables

DeleteTuple(a) ==
  /\ Run(a, "deltuple", [tx[a] EXCEPT !.tuple = found(tx[a].user, granted), !.pc = "bump"])
  /\ UNCHANGED tables

DeleteSubjectTuples(a) ==
  /\ Run(a, "alltuples", [tx[a] EXCEPT !.tuple = found(tx[a].user, granted), !.pc = "allseats"])
  /\ UNCHANGED tables

DeleteSubjectSeats(a) ==
  /\ Run(a, "allseats", [tx[a] EXCEPT !.seat = found(tx[a].user, held), !.pc = "commit"])
  /\ UNCHANGED tables
-----------------------------------------------------------------------------
applied(write, u, table) ==
  CASE write = "insert" -> table \cup {u} [] write = "delete" -> table \ {u} [] OTHER -> table

Commit(a) ==
  /\ Run(a, "commit", Idle)
  /\ held' = applied(tx[a].seat, tx[a].user, held)
  /\ granted' = applied(tx[a].tuple, tx[a].user, granted)
  /\ UNCHANGED limit

\* The transaction is rolled back: the process or the connection dies, the
\* context ends, or Postgres picks it to break a deadlock.
Rollback(a) ==
  /\ open(a)
  /\ tx' = [tx EXCEPT ![a] = Idle]
  /\ UNCHANGED tables

\* One statement that commits by itself.
SetSeatLimit(n) ==
  /\ limit' = n
  /\ UNCHANGED <<held, granted, tx>>

Statement(a) ==
  \/ AdvisoryLock(a) \/ SelectExists(a) \/ SelectLimit(a) \/ SelectCount(a)
  \/ InsertSeat(a) \/ UpsertTuple(a) \/ BumpSeq(a)
  \/ DeleteSeat(a) \/ DeleteTuple(a)
  \/ DeleteSubjectTuples(a) \/ DeleteSubjectSeats(a)
  \/ Commit(a)

Next ==
  \/ \E a \in Txs : \/ \E kind \in Kinds, u \in Users : Begin(a, kind, u)
                    \/ Statement(a)
                    \/ Rollback(a)
  \/ \E n \in Limits \cup {Unlimited} : SetSeatLimit(n)

Spec == Init /\ [][Next]_vars
-----------------------------------------------------------------------------
(* Correctness *)

\* AssignSeat "enforcing the sku's cap at write time", and "two racing assigns
\* can never both succeed past the cap": an assignment that commits a new seat
\* leaves no more seats than the cap it checked.
WithinCap ==
  [][\A a \in Txs : Commit(a) /\ ~(held' \subseteq held) =>
       tx[a].cap = Unlimited \/ Cardinality(held') <= tx[a].cap]_vars

\* "the seat count and the granted access can never diverge": whoever is
\* counted has the tuple, and nobody else does.
CountMatchesAccess == held = granted

\* One transaction at a time, the driver does what the memory driver does.
Memory == INSTANCE Seats
=============================================================================
