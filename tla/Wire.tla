-------------------------------- MODULE Wire --------------------------------
(* What a value goes through between the wire and the two drivers.  A tuple  *)
(* arrives as a protobuf message, becomes a domain tuple, is validated, and  *)
(* is kept by the memory driver as it is and by the Postgres driver as a row *)
(* of columns; a read takes the way back.  A project goes the same way       *)
(* through its JSON envelope.  The two drivers are run in lock step on the   *)
(* same requests.  Strings are members of small sets: the empty string, one  *)
(* with a control character and ordinary ones are told apart, nothing else.  *)
(* A time is a pair of microseconds and the nanoseconds beyond them.         *)
EXTENDS Naturals, Sequences, SequencesExt, FiniteSets

CONSTANTS
  ProtoTuples,  \* the tuple messages that arrive
  Known,        \* names of registered conditions
  ModelDocs,    \* model documents that parse, other than the empty one
  Regions,      \* well-formed data regions
  Budgets,      \* accepted values of max_check_reads
  None,         \* nil
  Bad           \* a conversion that failed

VARIABLES
  memory,   \* memory driver: the tuples of the shard
  table,    \* Postgres driver: the rows of relation_tuples
  project,  \* memory driver: the project, or None
  row,      \* Postgres driver: its row, or None
  last      \* the tuple inserted last, as it was sent, or None

vars == <<memory, table, project, row, last>>
-----------------------------------------------------------------------------
(* Tuples: wire to domain *)

HasControlChar(s) == s = "ctl"

\* subjectFromProto; Bad stands for the error it returns.
subjectFromProto(s) ==
  CASE s = None                            -> Bad
    [] s # None /\ s.Kind = "user_id"      -> [UserID |-> s.UserId, Set |-> None, Wildcard |-> FALSE]
    [] s # None /\ s.Kind = "set" /\ s.Set # None
                                           -> [UserID |-> "", Set |-> s.Set, Wildcard |-> FALSE]
    [] s # None /\ s.Kind = "wildcard" /\ s.Wildcard
                                           -> [UserID |-> "", Set |-> None, Wildcard |-> TRUE]
    [] OTHER                               -> Bad

subjectToProto(s) ==
  CASE s.Wildcard                   -> [Kind |-> "wildcard", Wildcard |-> TRUE]
    [] ~s.Wildcard /\ s.Set # None  -> [Kind |-> "set", Set |-> s.Set]
    [] OTHER                        -> [Kind |-> "user_id", UserId |-> s.UserID]

\* Mutant: the condition of a tuple is left behind.
tupleFromProtoUnconditional(t) ==
  LET subj == IF t = None THEN Bad ELSE subjectFromProto(t.Subject) IN
  IF subj = Bad THEN Bad
  ELSE [Namespace |-> t.Namespace, ObjectID |-> t.ObjectId, Relation |-> t.Relation,
        Subject |-> subj, ExpiresAt |-> t.ExpiresAt, Condition |-> None]
\* A condition exists only where it has a name.
tupleFromProto(t) ==
  LET subj == IF t = None THEN Bad ELSE subjectFromProto(t.Subject) IN
  IF subj = Bad THEN Bad
  ELSE [Namespace |-> t.Namespace, ObjectID |-> t.ObjectId, Relation |-> t.Relation,
        Subject |-> subj, ExpiresAt |-> t.ExpiresAt,
        Condition |-> IF t.ConditionName = "" THEN None
                      ELSE [Name |-> t.ConditionName, Params |-> t.ConditionParams]]

\* Parameters go out only where there are some.
tupleToProto(t) ==
  [Namespace |-> t.Namespace, ObjectId |-> t.ObjectID, Relation |-> t.Relation,
   Subject |-> subjectToProto(t.Subject), ExpiresAt |-> t.ExpiresAt,
   ConditionName |-> IF t.Condition = None THEN "" ELSE t.Condition.Name,
   ConditionParams |-> IF t.Condition = None \/ t.Condition.Params \in {None, "{}"}
                       THEN None ELSE t.Condition.Params]

validateTuple(t) ==
  /\ t.Namespace # "" /\ t.ObjectID # "" /\ t.Relation # ""
  /\ t.Namespace # "seat"
  /\ \A f \in {t.Namespace, t.ObjectID, t.Relation, t.Subject.UserID} : ~HasControlChar(f)
  /\ t.Subject.Set # None =>
       /\ ~HasControlChar(t.Subject.Set.Namespace)
       /\ ~HasControlChar(t.Subject.Set.ObjectID)
       /\ ~HasControlChar(t.Subject.Set.Relation)
       /\ t.Subject.Set.Namespace # "" /\ t.Subject.Set.ObjectID # ""
  /\ Cardinality({k \in {"user", "set", "wildcard"} :
                    \/ k = "user" /\ t.Subject.UserID # ""
                    \/ k = "set" /\ t.Subject.Set # None
                    \/ k = "wildcard" /\ t.Subject.Wildcard}) = 1
  /\ t.Condition # None => t.Condition.Name \in Known
-----------------------------------------------------------------------------
(* Tuples: domain to the drivers and back *)

\* The memory driver keys a tuple by its object, relation and subject.
identity(t) == <<t.Namespace, t.ObjectID, t.Relation, t.Subject>>

\* The subject columns of a row.
tupleCols(t) ==
  CASE t.Subject.Wildcard                           -> <<"wildcard", "", None>>
    [] ~t.Subject.Wildcard /\ t.Subject.Set # None  -> <<"set", "", t.Subject.Set>>
    [] OTHER                                        -> <<"user", t.Subject.UserID, None>>

\* An absent condition is an empty name and an empty object, and so are absent
\* parameters of a condition.
conditionCols(t) ==
  IF t.Condition = None THEN <<"", "{}">>
  ELSE <<t.Condition.Name, IF t.Condition.Params = None THEN "{}" ELSE t.Condition.Params>>

\* A timestamptz keeps microseconds.
timestamptz(x) == IF x = None THEN None ELSE [us |-> x.us, ns |-> 0]

rowOf(t) ==
  [key |-> <<t.Namespace, t.ObjectID, t.Relation, tupleCols(t)>>,
   expires_at |-> timestamptz(t.ExpiresAt), condition |-> conditionCols(t)]

scanTuple(r) ==
  [Namespace |-> r.key[1], ObjectID |-> r.key[2], Relation |-> r.key[3],
   Subject |-> CASE r.key[4][1] = "set"
                      -> [UserID |-> "", Set |-> r.key[4][3], Wildcard |-> FALSE]
                 [] r.key[4][1] = "wildcard"
                      -> [UserID |-> "", Set |-> None, Wildcard |-> TRUE]
                 [] OTHER
                      -> [UserID |-> r.key[4][2], Set |-> None, Wildcard |-> FALSE],
   ExpiresAt |-> r.expires_at,
   Condition |-> IF r.condition[1] = "" THEN None
                 ELSE [Name |-> r.condition[1], Params |-> r.condition[2]]]

\* writeTuplesLocked: the deletes, then the inserts in order, each replacing the
\* tuple of its identity.
writeTuplesLocked(inserts, deletes) ==
  LET drop(S, t) == {x \in S : identity(x) # identity(t)}
      put(S, t) == drop(S, t) \cup {t}
  IN FoldLeft(put, FoldLeft(drop, memory, deletes), inserts)

\* writeTuplesExec: the same over rows, DELETE and INSERT ... ON CONFLICT.
writeTuplesExec(inserts, deletes) ==
  LET drop(S, t) == {x \in S : x.key # rowOf(t).key}
      put(S, t) == drop(S, t) \cup {rowOf(t)}
  IN FoldLeft(put, FoldLeft(drop, table, deletes), inserts)

\* The answers of ReadRelationTuples with an empty filter, over each driver.
ReadRelationTuples == [memory   |-> {tupleToProto(t) : t \in memory},
                       postgres |-> {tupleToProto(scanTuple(r)) : r \in table}]

\* WriteRelationTuples: every update is converted and validated before any is
\* applied.  TupleUpdate is an op and a tuple.
WriteRelationTuples(updates) ==
  LET tupleOf(u) == tupleFromProto(u.Tuple)
      of(op) == LET picked == SelectSeq(updates, LAMBDA u : u.Op = op)
                IN [i \in DOMAIN picked |-> tupleOf(picked[i])]
  IN
  /\ \A i \in DOMAIN updates :
       /\ updates[i].Op \in {"INSERT", "DELETE"}
       /\ tupleOf(updates[i]) # Bad
       /\ validateTuple(tupleOf(updates[i]))
  /\ memory' = writeTuplesLocked(of("INSERT"), of("DELETE"))
  /\ table' = writeTuplesExec(of("INSERT"), of("DELETE"))
  /\ last' = IF of("INSERT") = << >> THEN None
             ELSE SelectSeq(updates, LAMBDA u : u.Op = "INSERT")[Len(of("INSERT"))].Tuple
  /\ UNCHANGED <<project, row>>
-----------------------------------------------------------------------------
(* Projects.  A model is None, the empty map or a document that parses.      *)

modelFromJSON(s) == IF s = "" THEN None ELSE s
MarshalModel(m) == m

empty(m) == m \in {None, "{}"}

\* encodeProjectConfig: an absent member is an empty string, 0 or no model.
encodeProjectConfig(p) ==
  [model |-> IF empty(p.Model) THEN None ELSE MarshalModel(p.Model),
   data_region |-> p.DataRegion, max_check_reads |-> p.MaxCheckReads]

decodeProjectConfig(c) ==
  [Model |-> c.model, DataRegion |-> c.data_region, MaxCheckReads |-> c.max_check_reads]

scanProject(r) ==
  LET c == decodeProjectConfig(r.config_json) IN
  [Status |-> r.status, Model |-> c.Model, DataRegion |-> c.DataRegion,
   MaxCheckReads |-> c.MaxCheckReads]

projectStatusToProto(s) == IF s = "active" THEN "ACTIVE" ELSE "SUSPENDED"
\* An unspecified status leaves the status unchanged.
projectStatusFromProto(s) ==
  CASE s = "ACTIVE" -> "active" [] s = "SUSPENDED" -> "suspended" [] OTHER -> ""

projectToProto(p) ==
  [Status |-> projectStatusToProto(p.Status),
   ModelJson |-> IF empty(p.Model) THEN "" ELSE MarshalModel(p.Model),
   DataRegion |-> p.DataRegion, MaxCheckReads |-> p.MaxCheckReads]

rowOfProject(p) == [status |-> p.Status, config_json |-> encodeProjectConfig(p)]

CreateProject(m) ==
  /\ project = None
  /\ LET p == [Status |-> "active", Model |-> modelFromJSON(m.ModelJson),
               DataRegion |-> m.DataRegion, MaxCheckReads |-> m.MaxCheckReads]
     IN project' = p /\ row' = rowOfProject(p)
  /\ UNCHANGED <<memory, table, last>>

\* The patch of UpdateProject: only what the message gives is overwritten.
patched(p, m) ==
  LET status == projectStatusFromProto(m.Status)
      model == modelFromJSON(m.ModelJson)
  IN [Status |-> IF status # "" THEN status ELSE p.Status,
      Model |-> IF empty(model) THEN p.Model ELSE model,
      DataRegion |-> IF m.DataRegion # "" THEN m.DataRegion ELSE p.DataRegion,
      MaxCheckReads |-> IF m.MaxCheckReads > 0 THEN m.MaxCheckReads ELSE p.MaxCheckReads]

UpdateProject(m) ==
  /\ project # None
  /\ project' = patched(project, m)
  /\ row' = rowOfProject(patched(scanProject(row), m))
  /\ UNCHANGED <<memory, table, last>>

ProjectMessages ==
  [Status : {"UNSPECIFIED", "ACTIVE", "SUSPENDED"}, ModelJson : ModelDocs \cup {"", "{}"},
   DataRegion : Regions \cup {""}, MaxCheckReads : Budgets \cup {0}]
-----------------------------------------------------------------------------
Init ==
  /\ memory = {} /\ table = {} /\ last = None
  /\ project = None /\ row = None

Updates == [Op : {"INSERT", "DELETE", "UNSPECIFIED"}, Tuple : ProtoTuples]

Next ==
  \/ \E u \in Updates : WriteRelationTuples(<<u>>)
  \/ \E u, v \in Updates : WriteRelationTuples(<<u, v>>)
  \/ \E m \in ProjectMessages : CreateProject(m) \/ UpdateProject(m)

Spec == Init /\ [][Next]_vars
-----------------------------------------------------------------------------
(* Properties *)

\* What a tuple message says, however it is put: no parameters without a name,
\* empty parameters are no parameters, times to the microsecond.
meaning(t) ==
  [t EXCEPT !.ConditionParams = IF t.ConditionName = "" \/ @ = "{}" THEN None ELSE @,
            !.ExpiresAt = timestamptz(@)]

\* An insert that is accepted is read back as it was sent, over either driver,
\* whatever stood there before and whatever else the same request inserts or
\* deletes: no kind of subject, condition, parameter or expiry is lost or
\* confused on the way in and out (tupleFromProto, conditionCols, scanTuple,
\* tupleToProto).
ReadBack ==
  last # None =>
    /\ meaning(last) \in {meaning(t) : t \in ReadRelationTuples.memory}
    /\ meaning(last) \in ReadRelationTuples.postgres

\* The two drivers answer every read alike, to the microsecond: they agree on
\* which tuples are the same tuple, although one keys a map and the other a row
\* (subjectKey and tupleCols).
DriversAgree ==
  {meaning(t) : t \in ReadRelationTuples.memory} = ReadRelationTuples.postgres

\* An administrator sees the same project over either driver, and sending back
\* what GetProject answered changes nothing: a read, a change of one field and
\* an UpdateProject of the whole message change that field alone
\* (projectToProto, projectStatusFromProto, encode- and decodeProjectConfig).
EchoIsNoChange ==
  project # None =>
    /\ projectToProto(project) = projectToProto(scanProject(row))
    /\ patched(scanProject(row), projectToProto(project)) = scanProject(row)
=============================================================================
