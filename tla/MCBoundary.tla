----------------------------- MODULE MCBoundary -----------------------------
(* What stands between the service and what is outside of it: the keys made  *)
(* from callers' ids, the messages and their stored forms, conditions,       *)
(* models, the environment, the way of a request to its handler, and the     *)
(* limiters.  These parts share no state; in a behaviour one of them moves.  *)
EXTENDS Integers, Sequences, FiniteSets, TLC

CONSTANTS
  Parts,         \* which of the parts below this run looks at
  Caller, Three, \* a key of the limiter, and goroutines that call it
  Crowd, Two,    \* the same with several keys
  MaxSpent,      \* bound: buckets of the gateway that are not full at one time
  MaxFields,     \* bound: fields of a request's context; a condition reads one
  MaxEdited,     \* bound: variables of the environment set at one time
  None, Bad, Err, Unset, Malformed

VARIABLES
  part,                                                \* which one moves
  tuples, written, keyBuckets, charged, locks, seated, \* Keys
  memory, table, project, row, last,                   \* Wire
  grant, context,                                      \* Conditions
  doc, stored, meant,                                  \* Models
  env, config, pinned,                                 \* Config
  cur, used, refused, handler,                         \* Gateway
  time, buckets, lastPrune, call, admitted, denied     \* RateLimiter

keysVars == <<tuples, written, keyBuckets, charged, locks, seated>>
wireVars == <<memory, table, project, row, last>>
condVars == <<grant, context>>
modelVars == <<doc, stored, meant>>
confVars == <<env, config, pinned>>
gateVars == <<cur, used, refused, handler>>
rateVars == <<time, buckets, lastPrune, call, admitted, denied>>
vars == <<part, keysVars, wireVars, condVars, modelVars, confVars, gateVars, rateVars>>
-----------------------------------------------------------------------------
(* Keys *)

\* All strings up to two characters over one ordinary character and the
\* separator the key in question uses.
over(sep) == UNION {[1 .. n -> {"a", sep}] : n \in 0 .. 2}
nulIds == over("NUL")
usIds == over("US")
rpcNames == {<<"a">>, <<"a", "a">>}

\* Fields that imitate the key's own syntax: a length and a colon, a separator.
tupleFields == {<<"a">>, <<"a", "|">>, <<"|", "a">>, <<"1", ":", "a">>}

K == INSTANCE Keys WITH
  Ids <- nulIds \cup usIds, RPCs <- rpcNames, Namespaces <- {<<"a">>}, Fields <- tupleFields, Skus <- usIds,
  DefaultProjectID <- <<"a">>, DefaultTenantID <- << >>, MaxKeys <- 4, buckets <- keyBuckets

plain == [Namespace |-> <<"a">>, ObjectID |-> <<"a">>, Relation |-> <<"a">>, Subject |-> [kind |-> "wildcard"]]
allTuples == K!Tuple

\* Pairs of tuples in one shard; one tuple in many shards; buckets; locks.
KeysNext ==
  \/ part = "tuples" /\ Cardinality(written) < 2 /\ \E x \in allTuples : K!writeTuplesLocked(<<"a">>, << >>, x)
  \/ part = "shards" /\ \E p, t \in nulIds : K!writeTuplesLocked(p, t, plain)
  \/ part \in {"tuples", "shards"} /\ \E x \in written : K!deleteTuple(x[1], x[2], x[3])
  \/ part = "buckets" /\ \E p, t \in nulIds : K!requireTenantRate(p, t)
  \/ part = "buckets" /\ \E p \in nulIds, rpc \in rpcNames : K!requireRPCRate(p, rpc)
  \/ part = "locks" /\ Cardinality(seated) < 2 /\ \E p, t, sku \in usIds : K!AssignSeat(p, t, sku)
  \/ part \in {"buckets", "locks"} /\ K!release
-----------------------------------------------------------------------------
(* Wire *)

subjectSets == [Namespace : {"group", ""}, ObjectID : {"g"}, Relation : {"", "ctl"}]

protoSubjects ==
  {None, [Kind |-> "unset"]}
    \cup [Kind : {"user_id"}, UserId : {"", "u", "ctl"}]
    \cup [Kind : {"set"}, Set : subjectSets \cup {None}]
    \cup [Kind : {"wildcard"}, Wildcard : BOOLEAN]

Ops == {"INSERT", "DELETE", "UNSPECIFIED"}

\* Every shape of message, well-formed or not.
shapes ==
  [Op : Ops, Tuple : {None} \cup
     [Namespace : {"doc", "seat", ""}, ObjectId : {"o"}, Relation : {"r"}, Subject : protoSubjects,
      ExpiresAt : {None, [us |-> 1, ns |-> 5]}, ConditionName : {"", "consent", "bogus"},
      ConditionParams : {None, "{}", "p"}]]

\* The subjects that are accepted, with and without expiry and condition.
accepted ==
  [Op : Ops, Tuple :
     [Namespace : {"doc"}, ObjectId : {"o"}, Relation : {"r"},
      Subject : {[Kind |-> "user_id", UserId |-> "u"], [Kind |-> "wildcard", Wildcard |-> TRUE],
                 [Kind |-> "set", Set |-> [Namespace |-> "group", ObjectID |-> "g", Relation |-> ""]]},
      ExpiresAt : {None, [us |-> 1, ns |-> 5]}, ConditionName : {"", "consent"}, ConditionParams : {"p"}]]

W == INSTANCE Wire WITH
  ProtoTuples <- {}, Known <- {"consent"}, ModelDocs <- {"m1", "m2"},
  Regions <- {"east", "west", "north"}, Budgets <- {100, 200, 300}

WireNext ==
  \/ part = "shapes" /\ \E u \in shapes : W!WriteRelationTuples(<<u>>)
  \/ part = "pairs" /\ \E u, v \in accepted : W!WriteRelationTuples(<<u, v>>)
  \/ part = "project" /\ \E m \in W!ProjectMessages : W!CreateProject(m) \/ W!UpdateProject(m)
-----------------------------------------------------------------------------
(* Conditions: well-formed, ill-typed and unparsable fields *)

val(kind, v) == [kind |-> kind, v |-> v]
str(v) == val("string", v)
cond(name, params) == [name |-> name, params |-> params]

fields ==
  [consent |-> {val("bool", TRUE), val("bool", FALSE), str("yes")},
   age     |-> {val("float64", 12), val("int", 13), str("x")},
   ip      |-> {str("10.0.0.1"), str("192.168.0.1"), str("x"), val("bool", TRUE)},
   now     |-> {str("noon"), str("night"), str("x")},
   scope   |-> {str("tasks:read"), str("x"), val("int", 1)}]

grants ==
  {cond("", << >>), cond("consent_granted", << >>)}
  \cup {cond("age_at_least", "min_age" :> v) : v \in {val("int64", 13), val("float64", 12), str("x")}}
  \cup {cond("age_at_least", << >>), cond("not_after", << >>), cond("consent_granted", "x" :> val("int", 1)),
        cond("age_at_least", "x" :> val("int", 1) @@ "min_age" :> val("int", 13))}
  \cup {cond("not_after", "until" :> v) : v \in {str("noon"), str("x"), val("int", 1)}}
  \cup {cond("ip_in_cidrs", "cidrs" :> v) :
          v \in {val("[]string", <<"172.16.0.0/12", "10.0.0.0/8">>), val("[]string", <<"x", "10.0.0.0/8">>),
                 val("[]any", <<str("10.0.0.0/8"), str("x")>>), val("[]any", <<str("10.0.0.0/8"), val("int", 1)>>)}}
  \cup {cond("scope_in", "allowed" :> v) :
          v \in {val("[]any", <<str("tasks:write"), str("tasks:read")>>), val("[]string", << >>), str("tasks:read")}}

C == INSTANCE Conditions WITH
  Grants <- grants, Fields <- fields, IPs <- {"10.0.0.1", "192.168.0.1"},
  CIDRs <- ("10.0.0.0/8" :> {"10.0.0.1"}) @@ ("172.16.0.0/12" :> {}),
  Times <- ("noon" :> 12) @@ ("night" :> 24)

ConditionsNext == C!Next /\ Cardinality(DOMAIN context') <= MaxFields
-----------------------------------------------------------------------------
(* Models: rules of every form, nested ones, empty and double ones *)

rule == [this |-> FALSE, computed |-> "", ttu |-> << >>, union |-> Bad, intersection |-> Bad, exclusion |-> << >>]
This == [rule EXCEPT !.this = TRUE]
Computed(rel) == [rule EXCEPT !.computed = rel]
Ttu(a, b) == [rule EXCEPT !.ttu = <<a, b>>]
Union(s) == [rule EXCEPT !.union = s]

\* A second namespace has simple rules, and a relation without a name.
rules == [
  doc |-> {Bad, rule, This, Computed("b"), Ttu("a", "b"), Ttu("a", ""), Union(<< >>),
           Union(<<This, Ttu("b", "a")>>), [This EXCEPT !.computed = "a"],
           [rule EXCEPT !.intersection = <<Computed("a"), rule>>],
           [rule EXCEPT !.intersection = <<This, Union(<<Computed("b")>>)>>],
           [rule EXCEPT !.exclusion = <<This, Computed("b")>>],
           [rule EXCEPT !.exclusion = <<Union(<<This>>), Ttu("a", "a")>>]},
  group |-> {This, Computed("b")}]

M == INSTANCE Models WITH
  Namespaces <- {}, Relations <- {}, Rules <- {}, MaxRules <- 2

ModelsNext ==
  \/ \E rel \in {"a", "b"}, rd \in rules.doc : M!Declare("doc", rel, rd)
  \/ \E rel \in {"", "a"}, rd \in rules.group : M!Declare("group", rel, rd)
  \/ \E k \in DOMAIN doc : M!Withdraw(k)
  \/ M!CreateProject \/ M!UpdateProject
-----------------------------------------------------------------------------
(* Config: regions of up to three letters, one too long; the values around   *)
(* each limit.  The length limit is 2 in both packages, 64 in the code.      *)

regions == {<< >>, <<"a">>, <<"A">>, <<"a", "0">>, <<"a", "-", "_">>, <<"a", "A">>, <<"0", " ">>}
budgets == {-1, 0, 99, 100}
numbers == {-1, 0, 1, 59, 60, 99, 100, 65536, Malformed, Unset}

F == INSTANCE Config WITH
  Numbers <- {}, Regions <- {}, maxDataRegionLen <- 2, projectMaxDataRegionLen <- 2

edited == {k \in DOMAIN env : IF k = "region" THEN env[k] # << >> ELSE env[k] # Unset}

ConfigNext ==
  \/ F!Load \/ F!Exit
  \/ \E r \in regions, n \in budgets : F!CreateProject(r, n)
  \/ \E r \in regions, n \in budgets, cr, cb \in BOOLEAN : F!UpdateProject(r, n, cr, cb)
  \/ /\ \/ \E r \in regions : F!Edit("region", r)
        \/ \E v \in {Unset, "good", "bad"} : F!Edit("creds", v)
        \/ \E v \in {Unset, "short", "long"} : F!Edit("secret", v)
        \/ \E k \in F!Knobs, v \in numbers : F!Edit(k, v)
     /\ Cardinality(edited') <= MaxEdited
-----------------------------------------------------------------------------
(* Gateway: two services with credentials, one of them twice, and a flat     *)
(* token; the requests that differ in what a guard reads                     *)

\* The slack token is also a flat token; the linear token has two entries.
credentials == <<[token |-> "t1", name |-> "slack", project |-> "p1"],
                 [token |-> "t2", name |-> "linear", project |-> None],
                 [token |-> "t2", name |-> "linear2", project |-> "p2"]>>

G == INSTANCE Gateway WITH
  Tokens <- {"t1", "t3"}, Credentials <- credentials, Projects <- {"p1", "p2", "p3"}, Tenants <- {"a", "main"},
  DefaultProject <- "p3", DefaultTenant <- "main", Elsewhere <- {"p2"}, Inputs <- {},
  Hosts <- {"h1", "h2"},
  Handlers <- [adminSecret : BOOLEAN, adminLimit : {0, 1}, tenantLimit : {0, 1}]

\* A header other than a bearer token is tried with one token.
headers == [scheme : {"bearer"}, token : {"t1", "t2", "t3", None}] \cup [scheme : {"basic"}, token : {"t1"}]

requests ==
  [rpc : {"Check", "BatchCheck", "DeprovisionUser", "ExportSubjectGrants", "AddMember", "ReadRelationTuples",
          "OPTIONS", "healthz"},
   header : headers, project : {None, "p1", "p2", "p3"}, tenant : {None, "a"}, user : {None, "u"},
   peer : {"h1"}, forwarded : {<< >>}, secret : {FALSE}]
adminRequests ==
  [rpc : {"UpdateProject"}, header : headers, project : {None}, tenant : {None}, user : {None},
   peer : {"h1", "h2"}, forwarded : {<< >>, <<"h1">>, <<"h2", "h1">>}, secret : BOOLEAN]

spent == {b \in G!Buckets : used[b] > 0}

GatewayNext ==
  /\ \/ part = "gateway" /\ \E in \in requests : (in.user = None => in.rpc = "AddMember") /\ G!Arrive(in)
     \/ part = "admin" /\ \E in \in adminRequests : G!Arrive(in)
     \/ \E b \in G!Buckets : G!refill(b)
     \/ G!CORS \/ G!Recover \/ G!ServiceAuth \/ G!requireTenantRate \/ G!requireRPCRate \/ G!requireAdmin
     \/ G!unlimited \/ G!oversized \/ G!validateScopeIDs \/ G!scope \/ G!acting \/ G!Serve \/ G!Answered
  /\ Cardinality(spent') <= IF part = "admin" THEN MaxSpent + 1 ELSE MaxSpent
-----------------------------------------------------------------------------
(* RateLimiter: a key under load, and keys that come and go *)

R == INSTANCE RateLimiter WITH Keys <- Caller, Calls <- Three, perMinute <- 2, MaxTime <- 6, MaxWait <- 1
P == INSTANCE RateLimiter WITH Keys <- Crowd, Calls <- Two, perMinute <- 1, MaxTime <- 3, MaxWait <- 1

RateNext ==
  \/ part = "load" /\ (R!Tick \/ R!Done \/ \E c \in Three : R!allow(c) \/ \E k \in Caller : R!now(c, k))
  \/ part = "crowd" /\ (P!Tick \/ P!Done \/ \E c \in Two : P!allow(c) \/ \E k \in Crowd : P!now(c, k))
-----------------------------------------------------------------------------
Init ==
  /\ part \in Parts
  /\ K!Init /\ W!Init /\ C!Init /\ M!Init /\ F!Init /\ G!Init
  /\ part # "conditions" => grant = cond("", << >>)
  /\ part # "gateway" => handler.tenantLimit = 1
  /\ part # "admin" => handler.adminSecret /\ handler.adminLimit = 1
  /\ IF part = "crowd" THEN P!newRateLimiter ELSE R!newRateLimiter

Next ==
  /\ UNCHANGED part
  /\ IF part \in {"tuples", "shards", "buckets", "locks"} THEN KeysNext ELSE UNCHANGED keysVars
  /\ IF part \in {"shapes", "pairs", "project"} THEN WireNext ELSE UNCHANGED wireVars
  /\ IF part = "conditions" THEN ConditionsNext ELSE UNCHANGED condVars
  /\ IF part = "models" THEN ModelsNext ELSE UNCHANGED modelVars
  /\ IF part = "config" THEN ConfigNext ELSE UNCHANGED confVars
  /\ IF part \in {"gateway", "admin"} THEN GatewayNext ELSE UNCHANGED gateVars
  /\ IF part \in {"load", "crowd"} THEN RateNext ELSE UNCHANGED rateVars

Spec == Init /\ [][Next]_vars
-----------------------------------------------------------------------------
(* Properties *)

\* Whatever separators and digits callers put into ids, fields and skus, no two
\* tuples, shards, rate buckets or seat counters ever meet in one key (for seats,
\* in what is hashed to the lock), and a scan by prefix finds the shards of its
\* project and no other (validateScopeIDs, tupleKey, requireRPCRate, seatLockKey).
KeysApart == K!OneEntryPerTuple /\ K!ScanFindsProject /\ K!BucketsApart /\ K!LocksApart

\* Either driver gives back what was sent and both give the same, tuple or
\* project, through columns, JSON and messages, whatever stood there before; a
\* project that is read and sent back unchanged stays as it is
\* (tupleFromProto, scanTuple, tupleToProto, decodeProjectConfig, projectToProto).
StoredAsSent == W!ReadBack /\ W!DriversAgree /\ W!EchoIsNoChange

\* Every conditional grant that applies hangs on a field of the request and on
\* the stored parameter its condition reads, whatever else is stored with it,
\* and leaving a field out never gains access (EvalCondition).
EveryGrantIsEarned == C!EveryGrantIsEarned

\* Whoever loads a project gets the model the last request that gave one stood
\* for, through its JSON form and updates that leave it out
\* (MarshalModel, ParseModel, UpdateProject).
LoadsAsWritten == M!LoadsAsWritten

\* The regions an instance may run with are those a project can be pinned to,
\* and whatever the environment and a project say of budgets, no instance runs
\* that would answer a project's ordinary checks with an exhausted budget
\* (validateDataRegion, ValidateRegion, Validate, ValidateMaxCheckReads).
StartsUsable == F!RegionsAgree /\ F!BudgetsUsable

\* What reaches the service acts in the project of its credential, whatever the
\* request names, and was charged to a bucket of that project and of no other
\* (ServiceAuth, callerProject, requireTenantRate, requireRPCRate).
ChargedWhereServed == G!ActsAsItsCredential /\ G!ChargedWhereServed

\* In every window a key gets through no more than a full bucket and what the
\* window, longer by the time a call may wait with its clock reading, refills, and
\* is refused only once it has used that up, although calls apply their readings
\* in any order and idle buckets are dropped (allow, pruneLocked).
RateBounded ==
  CASE part = "load" -> R!RateBounded /\ R!RefusedWhenSpent
    [] part = "crowd" -> P!RateBounded /\ P!RefusedWhenSpent /\ P!BucketsRecent
    [] OTHER -> TRUE
=============================================================================
