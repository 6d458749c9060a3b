-------------------------------- MODULE Keys --------------------------------
(* The strings that stand for a shard, a tuple, a rate bucket and a seat     *)
(* lock.  The memory driver keeps tuples in a map from scope keys to maps    *)
(* from tuple keys, the handler charges the buckets of its tenant limiter by *)
(* key, and the Postgres driver takes advisory locks by key; each key joins  *)
(* ids that callers choose.  Here the strings are sequences of characters,   *)
(* because the question is whether two identities can meet in one key and    *)
(* whether a scan by prefix finds a project's shards and no other.           *)
EXTENDS Naturals, Sequences, SequencesExt, FiniteSets

CONSTANTS
  Ids,              \* the project and tenant ids callers send (sequences)
  RPCs,             \* names of project-wide RPCs with a bucket of their own
  Namespaces,       \* namespaces of tuples
  Fields,           \* object ids, relations and user ids of tuples
  Skus,             \* seat skus
  DefaultProjectID, \* Handler.defaultProjectID
  DefaultTenantID,  \* Handler.defaultTenantID
  MaxKeys           \* bound: keys in use at once

VARIABLES
  tuples,   \* memory driver: pairs of a scope key and a tuple key in use
  written,  \* the project, tenant and tuple behind each of them
  buckets,  \* the keys of tenantLimiter.buckets
  charged,  \* the shard or project-wide RPC behind each of them
  locks,    \* the advisory lock keys of AssignSeatAndTuple
  seated    \* the project, tenant and sku behind each of them

vars == <<tuples, written, buckets, charged, locks, seated>>

NUL == "NUL"   \* 0x00
US  == "US"    \* 0x1F, the unit separator

\* A tuple as far as its key goes: a user, a subject set or the wildcard holds a
\* relation on an object.
Subject == [kind : {"user"}, UserID : Fields]
             \cup [kind : {"set"}, Namespace : Namespaces, ObjectID : Fields, Relation : Fields]
             \cup {[kind |-> "wildcard"]}
Tuple == [Namespace : Namespaces, ObjectID : Fields, Relation : Fields, Subject : Subject]
-----------------------------------------------------------------------------
(* Ids *)

HasControlChar(s) == \E i \in DOMAIN s : s[i] \in {NUL, US}

validateScopeIDs(p, t) == ~HasControlChar(p) /\ ~HasControlChar(t)

projectOr(p) == IF p = << >> THEN DefaultProjectID ELSE p
tenantOr(t) == IF t = << >> THEN DefaultTenantID ELSE t
-----------------------------------------------------------------------------
(* Keys *)

scope(p, t) == p \o <<NUL>> \o t

\* What follows the first NUL.
tenantOfScope(sk) ==
  IF \E i \in DOMAIN sk : sk[i] = NUL
  THEN LET i == CHOOSE j \in DOMAIN sk : sk[j] = NUL /\ \A k \in 1 .. j - 1 : sk[k] # NUL
       IN SubSeq(sk, i + 1, Len(sk))
  ELSE << >>

\* The scan of a project: the shards whose scope key starts with its id and NUL.
scan(p) == {x \in tuples : IsPrefix(p \o <<NUL>>, x[1])}

\* Mutant: a component ends at a separator instead of starting with its length.
partSeparated(s) == s \o <<"|">>
\* part: the length in decimal, a colon, the value.
part(s) == <<ToString(Len(s)), ":">> \o s

subjectKey(s) ==
  CASE s.kind = "wildcard" -> <<"w">>
    [] s.kind = "set"      -> <<"s">> \o part(s.Namespace) \o part(s.ObjectID) \o part(s.Relation)
    [] s.kind = "user"     -> <<"u">> \o part(s.UserID)

tupleKey(t) ==
  part(t.Namespace) \o part(t.ObjectID) \o part(t.Relation) \o part(subjectKey(t.Subject))

seatLockKey(p, t, sku) == <<"seat", US>> \o p \o <<US>> \o t \o <<US>> \o sku
-----------------------------------------------------------------------------
(* Steps: each validates the ids the caller sent, resolves the defaults and  *)
(* uses the key.                                                             *)

Init ==
  /\ tuples = {} /\ written = {}
  /\ buckets = {} /\ charged = {}
  /\ locks = {} /\ seated = {}

\* A tuple enters the memory driver, in the shard Handler.scope names.
writeTuplesLocked(p, t, x) ==
  /\ validateScopeIDs(p, t)
  /\ Cardinality(written) < MaxKeys
  /\ tuples' = tuples \cup {<<scope(projectOr(p), tenantOr(t)), tupleKey(x)>>}
  /\ written' = written \cup {<<projectOr(p), tenantOr(t), x>>}
  /\ UNCHANGED <<buckets, charged, locks, seated>>

\* The delete loop of writeTuplesLocked.
deleteTuple(p, t, x) ==
  /\ tuples' = tuples \ {<<scope(p, t), tupleKey(x)>>}
  /\ written' = written \ {<<p, t, x>>}
  /\ UNCHANGED <<buckets, charged, locks, seated>>

charge(key, who) ==
  /\ Cardinality(charged) < MaxKeys
  /\ buckets' = buckets \cup {key}
  /\ charged' = charged \cup {who}
  /\ UNCHANGED <<tuples, written, locks, seated>>

requireTenantRate(p, t) ==
  /\ validateScopeIDs(p, t)
  /\ charge(projectOr(p) \o <<NUL>> \o tenantOr(t), <<"tenant", projectOr(p), tenantOr(t)>>)

requireRPCRate(p, rpc) ==
  /\ validateScopeIDs(p, << >>)
  /\ charge(projectOr(p) \o <<NUL, NUL>> \o rpc, <<"rpc", projectOr(p), rpc>>)

\* AssignSeatAndTuple takes the lock of a sku; skus are not validated.  The lock
\* is that of a 64-bit hash of the key (hashtextextended), taken here as the key:
\* a collision of the hash makes two counters wait for each other, no more.
AssignSeat(p, t, sku) ==
  /\ validateScopeIDs(p, t)
  /\ Cardinality(seated) < MaxKeys
  /\ locks' = locks \cup {seatLockKey(projectOr(p), tenantOr(t), sku)}
  /\ seated' = seated \cup {<<projectOr(p), tenantOr(t), sku>>}
  /\ UNCHANGED <<tuples, written, buckets, charged>>

\* The locks end with their transactions, the buckets when all have been idle.
release ==
  /\ buckets' = {} /\ charged' = {}
  /\ locks' = {} /\ seated' = {}
  /\ UNCHANGED <<tuples, written>>

Next ==
  \/ \E p \in Ids, t \in Ids, x \in Tuple : writeTuplesLocked(p, t, x)
  \/ \E x \in written : deleteTuple(x[1], x[2], x[3])
  \/ release
  \/ \E p \in Ids, t \in Ids : requireTenantRate(p, t)
  \/ \E p \in Ids, rpc \in RPCs : requireRPCRate(p, rpc)
  \/ \E p \in Ids, t \in Ids, sku \in Skus : AssignSeat(p, t, sku)

Spec == Init /\ [][Next]_vars
-----------------------------------------------------------------------------
(* Properties *)

\* Whatever '|', ':' or digits the fields of tuples hold, two different tuples,
\* or one tuple in two shards, never meet in one entry of the memory driver's
\* map: a grant never overwrites another (part, subjectKey, tupleKey, scope).
OneEntryPerTuple == Cardinality(tuples) = Cardinality(written)

\* The scans behind DeleteAllSubjectTuplesInProject, ListSubjectTuplesInProject
\* and ListTuplesForSubjectSetsInProject reach every shard of their project and
\* no shard of another, and tenantOfScope names the tenant each entry is in.
ScanFindsProject ==
  \A p \in {projectOr(q) : q \in Ids} :
    {<<tenantOfScope(x[1]), x[2]>> : x \in scan(p)}
      = {<<x[2], tupleKey(x[3])>> : x \in {y \in written : y[1] = p}}

\* No bucket is shared by two shards, or by a shard and a project-wide RPC: an
\* export or erase storm takes no token from the checks of a tenant
\* (requireTenantRate, requireRPCRate).
BucketsApart == Cardinality(buckets) = Cardinality(charged)

\* Two different seats counters never have one advisory lock key, even where a sku
\* holds the unit separator (seatLockKey; up to a collision of the hash).
LocksApart == Cardinality(locks) = Cardinality(seated)
=============================================================================
