----------------------------- MODULE SeatsProofs -----------------------------
(* The cap of a sku holds for any number of users and open transactions.    *)
EXTENDS SeatsPostgres, FiniteSetTheorems, TLAPS

\* a is past the advisory lock.
Assigning(a) == open(a) /\ tx[a].kind = "assign" /\ tx[a].pc # "lock"
\* a has found room for the seat of its user, or has written it.
Admitted(a) == open(a) /\ (tx[a].pc = "insert" \/ tx[a].seat = "insert")

CapInv ==
  /\ TypeOK
  /\ \A a \in Txs : open(a) =>
       /\ tx[a].pc \in {"lock", "exists", "limit", "count", "insert", "upsert"} => tx[a].kind = "assign"
       /\ tx[a].seat = "insert" => tx[a].kind = "assign" /\ tx[a].pc \in {"upsert", "bump", "commit"}
       /\ tx[a].pc = "count" => tx[a].cap \in Limits
  /\ \A a, b \in Txs : Assigning(a) /\ Assigning(b) => a = b
  /\ \A a \in Txs : Admitted(a) =>
       tx[a].cap = Unlimited \/ Cardinality(held \cup {tx[a].user}) <= tx[a].cap

LEMMA IdleIsNoTransaction == Idle \notin Transaction /\ Idle.pc = "idle"
BY DEF Idle, Transaction, PCs

LEMMA CapInit == Init => CapInv
BY SeatConstants DEF Init, CapInv, TypeOK, open, Admitted, Assigning

\* Removing seats, or adding none, keeps a seat that was admitted within its cap.
LEMMA FewerSeats ==
  ASSUME TypeOK, NEW u \in Users, NEW H, H \subseteq held
  PROVE  /\ Cardinality(H \cup {u}) \in Nat /\ Cardinality(held \cup {u}) \in Nat
         /\ Cardinality(H \cup {u}) <= Cardinality(held \cup {u})
<1>1. IsFiniteSet(held \cup {u})
  BY SeatConstants, FS_Subset DEF TypeOK
<1>2. H \cup {u} \subseteq held \cup {u}
  OBVIOUS
<1> QED BY <1>1, <1>2, FS_Subset, FS_CardinalityType

LEMMA Room ==
  ASSUME TypeOK, NEW u \in Users, NEW n \in Nat, ~(Cardinality(held) >= n)
  PROVE  Cardinality(held \cup {u}) <= n
<1>1. IsFiniteSet(held)
  BY SeatConstants, FS_Subset DEF TypeOK
<1>2. Cardinality(held) \in Nat
  BY <1>1, FS_CardinalityType
<1>3. Cardinality(held \cup {u}) = IF u \in held THEN Cardinality(held) ELSE Cardinality(held) + 1
  BY <1>1, FS_AddElement
<1> QED BY <1>2, <1>3

\* A transaction that changes nothing committed: it stays typed, takes the
\* advisory lock only when it is free, and is admitted only when there is room.
LEMMA StatementKeeps ==
  ASSUME CapInv, NEW a \in Txs, NEW t \in Transaction, tx' = [tx EXCEPT ![a] = t],
         UNCHANGED <<held, granted>>, limit' \in Limits \cup {Unlimited},
         t.pc \in {"lock", "exists", "limit", "count", "insert", "upsert"} => t.kind = "assign",
         t.seat = "insert" => t.kind = "assign" /\ t.pc \in {"upsert", "bump", "commit"},
         t.pc = "count" => t.cap \in Limits,
         t.kind = "assign" /\ t.pc # "lock" =>
           Assigning(a) \/ \A b \in Txs : b # a => ~Assigning(b),
         t.pc = "insert" \/ t.seat = "insert" =>
           t.cap = Unlimited \/ Cardinality(held \cup {t.user}) <= t.cap
  PROVE  CapInv'
<1>1. tx \in [Txs -> Transaction \cup {Idle}]
  BY DEF CapInv, TypeOK
<1>2. tx'[a] = t /\ \A b \in Txs : b # a => tx'[b] = tx[b]
  BY <1>1
<1>3. TypeOK'
  BY <1>1 DEF CapInv, TypeOK
<1>4. \A b \in Txs : b # a => (open(b)' = open(b) /\ Assigning(b)' = Assigning(b) /\ Admitted(b)' = Admitted(b))
  BY <1>2 DEF open, Assigning, Admitted
<1>5. Assigning(a)' => \A b \in Txs : b # a => ~Assigning(b)
  BY <1>2 DEF Assigning, CapInv
<1>6. \A b, c \in Txs : Assigning(b)' /\ Assigning(c)' => b = c
  BY <1>4, <1>5 DEF CapInv
<1>7. ASSUME NEW b \in Txs, open(b)'
      PROVE  /\ tx'[b].pc \in {"lock", "exists", "limit", "count", "insert", "upsert"} => tx'[b].kind = "assign"
             /\ tx'[b].seat = "insert" => tx'[b].kind = "assign" /\ tx'[b].pc \in {"upsert", "bump", "commit"}
             /\ tx'[b].pc = "count" => tx'[b].cap \in Limits
  BY <1>2, <1>4, <1>7 DEF CapInv
<1>8. ASSUME NEW b \in Txs, Admitted(b)'
      PROVE  tx'[b].cap = Unlimited \/ Cardinality(held' \cup {tx'[b].user}) <= tx'[b].cap
  <2>1. CASE b = a
    BY <1>2, <1>8, <2>1 DEF Admitted
  <2>2. CASE b # a
    BY <1>2, <1>4, <1>8, <2>2 DEF CapInv
  <2> QED BY <2>1, <2>2
<1> QED BY <1>3, <1>6, <1>7, <1>8 DEF CapInv

\* A transaction that ends: it frees its locks, and the seats it leaves are
\* those there were, or fewer, unless it alone holds the advisory lock.
LEMMA EndKeeps ==
  ASSUME CapInv, NEW a \in Txs, tx' = [tx EXCEPT ![a] = Idle], UNCHANGED limit,
         held' \subseteq Users, granted' \subseteq Users,
         held' \subseteq held \/ Assigning(a)
  PROVE  CapInv'
<1>1. tx \in [Txs -> Transaction \cup {Idle}]
  BY DEF CapInv, TypeOK
<1>2. ~open(a)' /\ \A b \in Txs : b # a => tx'[b] = tx[b]
  BY <1>1 DEF open
<1>3. TypeOK'
  BY <1>1 DEF CapInv, TypeOK
<1>4. \A b \in Txs : open(b)' => b # a /\ open(b)
  BY <1>2 DEF open
<1>5. \A b \in Txs : /\ Assigning(b)' => b # a /\ Assigning(b)
                     /\ Admitted(b)' => b # a /\ Admitted(b)
  BY <1>2, <1>4 DEF Assigning, Admitted
<1>6. ASSUME NEW b \in Txs, Admitted(b)'
      PROVE  tx'[b].cap = Unlimited \/ Cardinality(held' \cup {tx'[b].user}) <= tx'[b].cap
  <2>1. b # a /\ Admitted(b) /\ tx'[b] = tx[b] /\ tx[b] \in Transaction
    BY <1>1, <1>2, <1>5, <1>6 DEF Admitted, open
  <2>2. Assigning(b)
    BY <2>1 DEF CapInv, Admitted, Assigning
  <2>3. held' \subseteq held
    BY <2>1, <2>2 DEF CapInv
  <2>4. tx[b].user \in Users /\ tx[b].cap \in Limits \cup {Unlimited}
    BY <2>1 DEF Transaction
  <2>5. tx[b].cap = Unlimited \/ Cardinality(held \cup {tx[b].user}) <= tx[b].cap
    BY <2>1 DEF CapInv
  <2>6. CASE tx[b].cap # Unlimited
    <3>1. tx[b].cap \in Nat
      BY <2>4, <2>6, SeatConstants, Zenon
    <3>2. /\ Cardinality(held' \cup {tx[b].user}) \in Nat
          /\ Cardinality(held \cup {tx[b].user}) \in Nat
          /\ Cardinality(held' \cup {tx[b].user}) <= Cardinality(held \cup {tx[b].user})
      BY <2>3, <2>4, FewerSeats, Zenon DEF CapInv
    <3> QED BY <2>1, <2>5, <2>6, <3>1, <3>2
  <2> QED BY <2>1, <2>6
<1> QED BY <1>2, <1>3, <1>4, <1>5, <1>6 DEF CapInv

\* The statements of an open transaction, one step per statement.
LEMMA StatementStep ==
  ASSUME CapInv, NEW a \in Txs, Statement(a)
  PROVE  CapInv'
<1> DEFINE q == tx[a]
<1>1. q \in Transaction /\ open(a)
  BY IdleIsNoTransaction DEF CapInv, TypeOK, Statement, AdvisoryLock, SelectExists, SelectLimit,
     SelectCount, InsertSeat, UpsertTuple, BumpSeq, DeleteSeat, DeleteTuple, DeleteSubjectTuples,
     DeleteSubjectSeats, Commit, Run, open
<1>2. /\ q.kind \in AllKinds /\ q.user \in Users /\ q.pc \in PCs \ {"idle"}
      /\ q.cap \in Limits \cup {Unlimited} /\ q.seat \in Writes /\ q.tuple \in Writes /\ q.seq \in BOOLEAN
  BY <1>1 DEF Transaction
<1>3. /\ q.pc \in {"lock", "exists", "limit", "count", "insert", "upsert"} => q.kind = "assign"
      /\ q.seat = "insert" => q.kind = "assign" /\ q.pc \in {"upsert", "bump", "commit"}
      /\ q.pc = "count" => q.cap \in Limits
      /\ q.pc = "insert" \/ q.seat = "insert" =>
           q.cap = Unlimited \/ Cardinality(held \cup {q.user}) <= q.cap
      /\ q.kind = "assign" /\ q.pc # "lock" => Assigning(a)
  BY <1>1 DEF CapInv, Admitted, Assigning
<1>4. limit \in Limits \cup {Unlimited} /\ held \subseteq Users /\ granted \subseteq Users
  BY DEF CapInv, TypeOK
<1>5. \A u \in Users, T \in {held, granted} : found(u, T) \in Writes \ {"insert"}
  BY DEF found, Writes
<1> HIDE DEF q
<1>6. CASE AdvisoryLock(a)
  <2>1. q.pc = "lock" /\ tx' = [tx EXCEPT ![a] = [q EXCEPT !.pc = "exists"]] /\ UNCHANGED tables
    BY <1>6 DEF AdvisoryLock, Run, q
  <2>2. \A b \in Txs : b # a => ~Assigning(b)
    <3>1. wanted(a) = {<<"advisory">>}
      BY <1>1, <2>1 DEF wanted, q
    <3>2. ASSUME NEW b \in Txs, b # a, Assigning(b) PROVE FALSE
      <4>1. <<"advisory">> \in locks(b)
        BY <3>2 DEF Assigning, locks
      <4>2. waitsFor(a, b)
        BY <3>1, <3>2, <4>1 DEF waitsFor
      <4> QED BY <1>6, <4>2 DEF AdvisoryLock, Run
    <3> QED BY <3>2
  <2>3. [q EXCEPT !.pc = "exists"] \in Transaction
    BY <1>1 DEF Transaction, PCs
  <2>4. q.seat # "insert"
    BY <1>3, <2>1
  <2>5. PICK t \in Transaction : /\ t = [q EXCEPT !.pc = "exists"] /\ t.pc = "exists"
                                 /\ t.kind = q.kind /\ t.seat = q.seat
    BY <1>1, <2>3 DEF Transaction
  <2> QED BY <1>3, <1>4, <2>1, <2>2, <2>4, <2>5, StatementKeeps, Zenon DEF tables
<1>7. CASE SelectExists(a)
  <2>1. PICK pc \in {"upsert", "limit"} :
          q.pc = "exists" /\ tx' = [tx EXCEPT ![a] = [q EXCEPT !.pc = pc]] /\ UNCHANGED tables
    BY <1>7, Zenon DEF SelectExists, Run, q
  <2>2. [q EXCEPT !.pc = pc] \in Transaction
    BY <1>1, <2>1 DEF Transaction, PCs
  <2>3. PICK t \in Transaction : /\ t = [q EXCEPT !.pc = pc] /\ t.pc = pc /\ t.kind = q.kind
                                 /\ t.seat = q.seat /\ t.cap = q.cap /\ t.user = q.user
    BY <1>1, <2>2 DEF Transaction
  <2> QED BY <1>3, <1>4, <2>1, <2>3, StatementKeeps, Zenon DEF tables
<1>8. CASE SelectLimit(a)
  <2> DEFINE pc == IF limit = Unlimited THEN "insert" ELSE "count"
  <2>1. /\ q.pc = "limit" /\ UNCHANGED tables
        /\ tx' = [tx EXCEPT ![a] = [q EXCEPT !.cap = limit, !.pc = pc]]
    BY <1>8 DEF SelectLimit, Run, q
  <2>2. (pc = "insert" /\ limit = Unlimited) \/ (pc = "count" /\ limit \in Limits)
    BY <1>4
  <2> HIDE DEF pc
  <2>3. [q EXCEPT !.cap = limit, !.pc = pc] \in Transaction
    BY <1>1, <1>4, <2>2, Zenon DEF Transaction, PCs
  <2>4. PICK t \in Transaction : /\ t = [q EXCEPT !.cap = limit, !.pc = pc] /\ t.pc = pc
                                 /\ t.cap = limit /\ t.kind = q.kind /\ t.seat = q.seat
    BY <1>1, <2>3, Zenon DEF Transaction
  <2> QED BY <1>3, <1>4, <2>1, <2>2, <2>4, StatementKeeps, Zenon DEF tables
<1>9. CASE SelectCount(a)
  <2>1. q.pc = "count" /\ UNCHANGED tables
    BY <1>9 DEF SelectCount, Run, q
  <2>2. CASE Cardinality(held) >= q.cap
    <3>1. tx' = [tx EXCEPT ![a] = Idle]
      BY <1>9, <2>2, Zenon DEF SelectCount, Run, q
    <3> QED BY <1>4, <2>1, <3>1, EndKeeps, Zenon DEF tables
  <2>3. CASE ~(Cardinality(held) >= q.cap)
    <3>1. tx' = [tx EXCEPT ![a] = [q EXCEPT !.pc = "insert"]]
      BY <1>9, <2>3, Zenon DEF SelectCount, Run, q
    <3>2. q.cap \in Nat
      BY <1>3, <2>1, SeatConstants, Zenon
    <3>3. Cardinality(held \cup {q.user}) <= q.cap
      BY <1>2, <2>3, <3>2, Room DEF CapInv
    <3>4. [q EXCEPT !.pc = "insert"] \in Transaction
      BY <1>1 DEF Transaction, PCs
    <3>5. PICK t \in Transaction : /\ t = [q EXCEPT !.pc = "insert"] /\ t.pc = "insert" /\ t.kind = q.kind
                                   /\ t.seat = q.seat /\ t.cap = q.cap /\ t.user = q.user
      BY <1>1, <3>4 DEF Transaction
    <3> QED BY <1>3, <1>4, <2>1, <3>1, <3>3, <3>5, StatementKeeps, Zenon DEF tables
  <2> QED BY <2>2, <2>3
<1>10. CASE InsertSeat(a)
  <2>1. /\ q.pc = "insert" /\ UNCHANGED tables
        /\ tx' = [tx EXCEPT ![a] = [q EXCEPT !.seat = "insert", !.pc = "upsert"]]
    BY <1>10 DEF InsertSeat, Run, q
  <2>2. [q EXCEPT !.seat = "insert", !.pc = "upsert"] \in Transaction
    BY <1>1, Zenon DEF Transaction, PCs, Writes
  <2>3. PICK t \in Transaction : /\ t = [q EXCEPT !.seat = "insert", !.pc = "upsert"] /\ t.pc = "upsert"
                                 /\ t.kind = q.kind /\ t.cap = q.cap /\ t.user = q.user
    BY <1>1, <2>2, Zenon DEF Transaction
  <2> QED BY <1>3, <1>4, <2>1, <2>3, StatementKeeps, Zenon DEF tables
<1>11. CASE UpsertTuple(a)
  <2>1. /\ q.pc = "upsert" /\ UNCHANGED tables
        /\ tx' = [tx EXCEPT ![a] = [q EXCEPT !.tuple = "insert", !.pc = "bump"]]
    BY <1>11 DEF UpsertTuple, Run, q
  <2>2. [q EXCEPT !.tuple = "insert", !.pc = "bump"] \in Transaction
    BY <1>1, <1>2, <1>5, Zenon DEF Transaction, PCs, Writes
  <2>3. PICK t \in Transaction : /\ t = [q EXCEPT !.tuple = "insert", !.pc = "bump"] /\ t.pc = "bump"
                                 /\ t.kind = q.kind /\ t.seat = q.seat /\ t.cap = q.cap /\ t.user = q.user
    BY <1>1, <1>2, <1>5, <2>2, Zenon DEF Transaction
  <2> QED BY <1>3, <1>4, <2>1, <2>3, StatementKeeps, Zenon DEF tables
<1>12. CASE BumpSeq(a)
  <2>1. /\ q.pc = "bump" /\ UNCHANGED tables
        /\ tx' = [tx EXCEPT ![a] = [q EXCEPT !.seq = TRUE, !.pc = "commit"]]
    BY <1>12 DEF BumpSeq, Run, q
  <2>2. [q EXCEPT !.seq = TRUE, !.pc = "commit"] \in Transaction
    BY <1>1, <1>2, <1>5, Zenon DEF Transaction, PCs, Writes
  <2>3. PICK t \in Transaction : /\ t = [q EXCEPT !.seq = TRUE, !.pc = "commit"] /\ t.pc = "commit"
                                 /\ t.kind = q.kind /\ t.seat = q.seat /\ t.cap = q.cap /\ t.user = q.user
    BY <1>1, <1>2, <1>5, <2>2, Zenon DEF Transaction
  <2> QED BY <1>3, <1>4, <2>1, <2>3, StatementKeeps, Zenon DEF tables
<1>13. CASE DeleteSeat(a)
  <2>1. /\ q.pc = "delseat" /\ UNCHANGED tables
        /\ tx' = [tx EXCEPT ![a] = [q EXCEPT !.seat = found(q.user, held), !.pc = "deltuple"]]
    BY <1>13 DEF DeleteSeat, Run, q
  <2>2. [q EXCEPT !.seat = found(q.user, held), !.pc = "deltuple"] \in Transaction
    BY <1>1, <1>2, <1>5, Zenon DEF Transaction, PCs, Writes
  <2>3. PICK t \in Transaction : /\ t = [q EXCEPT !.seat = found(q.user, held), !.pc = "deltuple"] /\ t.pc = "deltuple"
                                 /\ t.kind = q.kind /\ t.seat # "insert"
    BY <1>1, <1>2, <1>5, <2>2, Zenon DEF Transaction
  <2> QED BY <1>3, <1>4, <2>1, <2>3, StatementKeeps, Zenon DEF tables
<1>14. CASE DeleteTuple(a)
  <2>1. /\ q.pc = "deltuple" /\ UNCHANGED tables
        /\ tx' = [tx EXCEPT ![a] = [q EXCEPT !.tuple = found(q.user, granted), !.pc = "bump"]]
    BY <1>14 DEF DeleteTuple, Run, q
  <2>2. [q EXCEPT !.tuple = found(q.user, granted), !.pc = "bump"] \in Transaction
    BY <1>1, <1>2, <1>5, Zenon DEF Transaction, PCs, Writes
  <2>3. PICK t \in Transaction : /\ t = [q EXCEPT !.tuple = found(q.user, granted), !.pc = "bump"] /\ t.pc = "bump"
                                 /\ t.kind = q.kind /\ t.seat = q.seat /\ t.cap = q.cap /\ t.user = q.user
    BY <1>1, <1>2, <1>5, <2>2, Zenon DEF Transaction
  <2> QED BY <1>3, <1>4, <2>1, <2>3, StatementKeeps, Zenon DEF tables
<1>15. CASE DeleteSubjectTuples(a)
  <2>1. /\ q.pc = "alltuples" /\ UNCHANGED tables
        /\ tx' = [tx EXCEPT ![a] = [q EXCEPT !.tuple = found(q.user, granted), !.pc = "allseats"]]
    BY <1>15 DEF DeleteSubjectTuples, Run, q
  <2>2. [q EXCEPT !.tuple = found(q.user, granted), !.pc = "allseats"] \in Transaction
    BY <1>1, <1>2, <1>5, Zenon DEF Transaction, PCs, Writes
  <2>3. PICK t \in Transaction : /\ t = [q EXCEPT !.tuple = found(q.user, granted), !.pc = "allseats"] /\ t.pc = "allseats"
                                 /\ t.kind = q.kind /\ t.seat = q.seat /\ t.cap = q.cap /\ t.user = q.user
    BY <1>1, <1>2, <1>5, <2>2, Zenon DEF Transaction
  <2> QED BY <1>3, <1>4, <2>1, <2>3, StatementKeeps, Zenon DEF tables
<1>16. CASE DeleteSubjectSeats(a)
  <2>1. /\ q.pc = "allseats" /\ UNCHANGED tables
        /\ tx' = [tx EXCEPT ![a] = [q EXCEPT !.seat = found(q.user, held), !.pc = "commit"]]
    BY <1>16 DEF DeleteSubjectSeats, Run, q
  <2>2. [q EXCEPT !.seat = found(q.user, held), !.pc = "commit"] \in Transaction
    BY <1>1, <1>2, <1>5, Zenon DEF Transaction, PCs, Writes
  <2>3. PICK t \in Transaction : /\ t = [q EXCEPT !.seat = found(q.user, held), !.pc = "commit"] /\ t.pc = "commit"
                                 /\ t.kind = q.kind /\ t.seat # "insert"
    BY <1>1, <1>2, <1>5, <2>2, Zenon DEF Transaction
  <2> QED BY <1>3, <1>4, <2>1, <2>3, StatementKeeps, Zenon DEF tables
<1>17. CASE Commit(a)
  <2>1. /\ q.pc = "commit" /\ tx' = [tx EXCEPT ![a] = Idle] /\ UNCHANGED limit
        /\ held' = applied(q.seat, q.user, held) /\ granted' = applied(q.tuple, q.user, granted)
    BY <1>17 DEF Commit, Run, q
  <2>2. held' \subseteq Users /\ granted' \subseteq Users
    BY <1>2, <1>4, <2>1 DEF applied
  <2>3. q.seat = "insert" \/ held' \subseteq held
    BY <2>1 DEF applied
  <2> QED BY <1>3, <2>1, <2>2, <2>3, EndKeeps, Zenon
<1> QED
  BY <1>6, <1>7, <1>8, <1>9, <1>10, <1>11, <1>12, <1>13, <1>14, <1>15, <1>16, <1>17 DEF Statement

LEMMA CapStep == CapInv /\ [Next]_vars => CapInv'
<1> SUFFICES ASSUME CapInv, [Next]_vars PROVE CapInv'
  OBVIOUS
<1>1. ASSUME NEW a \in Txs, NEW kind \in Kinds, NEW u \in Users, Begin(a, kind, u) PROVE CapInv'
  <2> DEFINE t == [kind |-> kind, user |-> u, pc |-> firstStatement(kind), cap |-> Unlimited,
                   seat |-> "none", tuple |-> "none", seq |-> FALSE]
  <2>1. t \in Transaction /\ t.seat # "insert" /\ t.pc # "count" /\ t.pc # "insert"
        /\ (t.kind = "assign" => t.pc = "lock") /\ (t.pc \in {"lock", "exists", "limit", "count", "insert", "upsert"} => t.kind = "assign")
    BY SeatConstants DEF Transaction, PCs, Writes, firstStatement, AllKinds
  <2>2. tx' = [tx EXCEPT ![a] = t] /\ UNCHANGED tables
    BY <1>1 DEF Begin
  <2>3. limit \in Limits \cup {Unlimited}
    BY DEF CapInv, TypeOK
  <2> HIDE DEF t
  <2> QED BY <2>1, <2>2, <2>3, StatementKeeps, Zenon DEF tables
<1>2. ASSUME NEW a \in Txs, Statement(a) PROVE CapInv'
  BY <1>2, StatementStep
<1>3. ASSUME NEW a \in Txs, Rollback(a) PROVE CapInv'
  BY <1>3, EndKeeps, Zenon DEF Rollback, tables, CapInv, TypeOK
<1>4. ASSUME NEW n \in Limits \cup {Unlimited}, SetSeatLimit(n) PROVE CapInv'
  BY <1>4 DEF SetSeatLimit, CapInv, TypeOK, open, Assigning, Admitted
<1>5. CASE UNCHANGED vars
  BY <1>5 DEF vars, CapInv, TypeOK, open, Assigning, Admitted
<1> QED BY <1>1, <1>2, <1>3, <1>4, <1>5 DEF Next

\* AssignSeatAndTuple keeps every new seat within the cap it read, for any
\* number of users, caps and open transactions.
THEOREM CapHolds == Spec => WithinCap
<1>1. ASSUME CapInv, NEW a \in Txs, Commit(a), ~(held' \subseteq held)
      PROVE  tx[a].cap = Unlimited \/ Cardinality(held') <= tx[a].cap
  <2>1. open(a)
    BY <1>1, IdleIsNoTransaction DEF Commit, Run, open
  <2>2. tx[a].seat = "insert" /\ held' = held \cup {tx[a].user}
    BY <1>1 DEF Commit, applied
  <2> QED BY <1>1, <2>1, <2>2 DEF CapInv, Admitted
<1>2. CapInv => [\A a \in Txs : Commit(a) /\ ~(held' \subseteq held) =>
                   tx[a].cap = Unlimited \/ Cardinality(held') <= tx[a].cap]_vars
  BY <1>1
<1> QED BY CapInit, CapStep, <1>2, PTL DEF Spec, WithinCap
=============================================================================
