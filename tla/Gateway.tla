------------------------------ MODULE Gateway -------------------------------
(* What every request passes before the service sees it: the HTTP            *)
(* middlewares, the limiters, the project and tenant it acts in, the region  *)
(* guard, and on the way back the error code and the metrics.  Requests      *)
(* share the limiters, whose calls are atomic, so one at a time is enough.   *)
EXTENDS Naturals, Sequences, SequencesExt, FiniteSets

CONSTANTS
  Tokens,       \* GATEWAY_SERVICE_AUTH_TOKENS
  Credentials,  \* GATEWAY_SERVICE_CREDENTIALS: [token, name, project] in order
  Projects, Tenants,
  DefaultProject, DefaultTenant,
  Elsewhere,    \* projects pinned to a region this instance does not serve
  Inputs,       \* the requests that arrive
  Hosts,        \* callers of the admin API, by peer address or first forwarded hop
  Handlers,     \* configurations: [adminSecret, adminLimit, tenantLimit]; a limit is
                \* the capacity of a bucket, and 0 disables the limiter
  None          \* an empty string of the request or the configuration

VARIABLES
  cur,       \* the request in the handler
  used,      \* per bucket: tokens spent and not refilled yet
  refused,   \* authz_region_refused_total, up to one
  handler    \* the configuration of this process

vars == <<cur, used, refused, handler>>

\* The RPCs, by how they are guarded.
Decisions == {"Check", "BatchCheck", "Expand", "ListObjects"}
TenantRated == Decisions \cup {"WriteRelationTuples", "AssignSeat"}
RPCRated == {"DeprovisionUser", "ExportSubjectGrants"}
Scoped == TenantRated \cup RPCRated \cup {"ReadRelationTuples", "ListSeats"}
Acting == {"AddMember"}
Admin == {"UpdateProject"}
RPCs == Scoped \cup Acting \cup Admin

Buckets == (Projects \X (Tenants \cup RPCRated)) \cup (Hosts \X {"admin"})

Nobody == [name |-> None, project |-> None]

Init ==
  /\ cur = None
  /\ used = [b \in Buckets |-> 0]
  /\ refused = 0
  /\ handler \in Handlers

Arrive(in) ==
  /\ cur = None
  /\ cur' = [in |-> in, at |-> "http", caller |-> Nobody, bucket |-> None, p |-> None, code |-> None]
  /\ UNCHANGED <<used, refused, handler>>

answer(code) == cur' = [cur EXCEPT !.at = "done", !.code = code]
at(stage) == cur # None /\ cur.at = stage
-----------------------------------------------------------------------------
(* Middlewares: recover, CORS, service authentication *)

\* A panic below becomes an internal error.
Recover ==
  /\ cur # None /\ cur.at # "done"
  /\ answer("internal")
  /\ UNCHANGED <<used, refused, handler>>

\* Answers a preflight itself, so it needs no credential.
CORS ==
  /\ at("http")
  /\ IF cur.in.rpc = "OPTIONS" THEN answer("no_content") ELSE cur' = [cur EXCEPT !.at = "auth"]
  /\ UNCHANGED <<used, refused, handler>>

IsInfraPath(rpc) == rpc = "healthz"

\* Nothing was presented, or not as a bearer token.
bearerToken(header) == IF header.scheme = "bearer" THEN header.token ELSE None

matches(presented) == {i \in DOMAIN Credentials : Credentials[i].token = presented}

\* The last entry with the token counts.
matchCredential(presented) ==
  LET c == Credentials[CHOOSE i \in matches(presented) : \A j \in matches(presented) : j <= i]
  IN [name |-> c.name, project |-> c.project]

tokenMatches(presented) == presented # None /\ presented \in Tokens

disabled == Tokens = {} /\ Credentials = << >>

ServiceAuth ==
  /\ at("auth")
  /\ LET presented == bearerToken(cur.in.header)
         next(c) == cur' = [cur EXCEPT !.at = "handler", !.caller = c]
     IN CASE IsInfraPath(cur.in.rpc) -> answer("ok")
          [] ~IsInfraPath(cur.in.rpc) /\ disabled -> next(Nobody)
          [] ~IsInfraPath(cur.in.rpc) /\ ~disabled /\ presented # None /\ matches(presented) # {} ->
               next(matchCredential(presented))
          [] ~IsInfraPath(cur.in.rpc) /\ ~disabled /\ matches(presented) = {} /\ tokenMatches(presented) ->
               next(Nobody)
          [] OTHER -> answer("unauthenticated")
  /\ UNCHANGED <<used, refused, handler>>
-----------------------------------------------------------------------------
(* The scope of a request *)

projectOr(project) == IF project = None THEN DefaultProject ELSE project
tenantOr(tenant) == IF tenant = None THEN DefaultTenant ELSE tenant

\* A pinned credential acts in its project, whatever the request says.
callerProject(project) ==
  IF cur.caller.project # None THEN cur.caller.project ELSE projectOr(project)

\* The limiter's answer for a bucket; one that is disabled keeps no buckets.
allow(b, limit) == limit = 0 \/ used[b] < limit
spend(b, limit) == IF limit = 0 THEN UNCHANGED used ELSE used' = [used EXCEPT ![b] = @ + 1]

charge(b) ==
  /\ IF allow(b, handler.tenantLimit)
     THEN spend(b, handler.tenantLimit) /\ cur' = [cur EXCEPT !.at = "scope", !.bucket = b]
     ELSE answer("resource_exhausted") /\ UNCHANGED used
  /\ UNCHANGED <<refused, handler>>

\* Mutant: the bucket of the project the request names.
requireTenantRateNamed ==
  /\ at("handler") /\ cur.in.rpc \in TenantRated
  /\ charge(<<projectOr(cur.in.project), tenantOr(cur.in.tenant)>>)
requireTenantRate ==
  /\ at("handler") /\ cur.in.rpc \in TenantRated
  /\ charge(<<callerProject(cur.in.project), tenantOr(cur.in.tenant)>>)

requireRPCRate ==
  /\ at("handler") /\ cur.in.rpc \in RPCRated
  /\ charge(<<callerProject(cur.in.project), cur.in.rpc>>)

\* Reads of tuples and seats, and the workspace surface, have no limiter.
unlimited ==
  /\ at("handler") /\ cur.in.rpc \in Scoped \cup Acting
  /\ cur.in.rpc \notin TenantRated \cup RPCRated
  /\ cur' = [cur EXCEPT !.at = "scope"]
  /\ UNCHANGED <<used, refused, handler>>

\* A batch with more questions than the configured cap.
oversized ==
  /\ at("scope") /\ cur.in.rpc = "BatchCheck"
  /\ answer("invalid_argument")
  /\ UNCHANGED <<used, refused, handler>>

\* An id of the scope holds a control character (Keys says why it matters): seen
\* before a bucket is charged, or where the limiter does not look at the tenant
\* or there is none, in scope and acting.
validateScopeIDs ==
  /\ \/ at("handler") /\ cur.in.rpc \in TenantRated \cup RPCRated
     \/ at("scope") /\ cur.in.rpc \notin TenantRated
  /\ answer("invalid_argument")
  /\ UNCHANGED <<used, refused, handler>>

\* The region guard, with its metric.
ensureServable(p) ==
  /\ IF p.project \in Elsewhere THEN answer("failed_precondition") /\ refused' = 1
     ELSE cur' = [cur EXCEPT !.at = "service", !.p = p] /\ UNCHANGED refused
  /\ UNCHANGED <<used, handler>>

principal(user) ==
  [user |-> user, project |-> callerProject(cur.in.project),
   tenant |-> IF cur.in.rpc = "ExportSubjectGrants" THEN DefaultTenant ELSE tenantOr(cur.in.tenant),
   caller |-> cur.caller.name]

scope == at("scope") /\ cur.in.rpc \notin Acting /\ ensureServable(principal(None))

acting ==
  /\ at("scope") /\ cur.in.rpc \in Acting
  /\ IF cur.in.user = None THEN answer("invalid_argument") /\ UNCHANGED <<used, refused, handler>>
     ELSE ensureServable(principal(cur.in.user))

\* The first forwarded hop, or the host of the peer where nothing was forwarded.
callerKey ==
  <<IF cur.in.forwarded = << >> THEN cur.in.peer ELSE Head(cur.in.forwarded), "admin">>

\* The limiter first, then the secret.
requireAdmin ==
  /\ at("handler") /\ cur.in.rpc \in Admin
  /\ CASE ~handler.adminSecret -> answer("unimplemented") /\ UNCHANGED used
       [] handler.adminSecret /\ ~allow(callerKey, handler.adminLimit) ->
            answer("resource_exhausted") /\ UNCHANGED used
       [] OTHER ->
            /\ spend(callerKey, handler.adminLimit)
            /\ IF cur.in.secret THEN cur' = [cur EXCEPT !.at = "service"] ELSE answer("unauthenticated")
  /\ UNCHANGED <<refused, handler>>
-----------------------------------------------------------------------------
(* The service's answer *)

\* What the service may fail with: its sentinels, and anything else.
sentinels ==
  [NotFound |-> "not_found", AlreadyExists |-> "already_exists", InvalidArgument |-> "invalid_argument",
   PermissionDenied |-> "permission_denied", FailedPrecondition |-> "failed_precondition",
   ResourceExhausted |-> "resource_exhausted"]

errToConnect(err) == IF err \in DOMAIN sentinels THEN sentinels[err] ELSE "internal"

Serve ==
  /\ at("service")
  /\ answer("ok") \/ \E err \in DOMAIN sentinels \cup {"other"} : answer(errToConnect(err))
  /\ UNCHANGED <<used, refused, handler>>

Answered ==
  /\ at("done")
  /\ cur' = None
  /\ UNCHANGED <<used, refused, handler>>

\* A minute goes by for one bucket.
refill(b) ==
  /\ used[b] > 0
  /\ used' = [used EXCEPT ![b] = 0]
  /\ UNCHANGED <<cur, refused, handler>>

Next ==
  \/ (\E in \in Inputs : Arrive(in)) \/ (\E b \in Buckets : refill(b))
  \/ CORS \/ Recover \/ ServiceAuth \/ requireTenantRate \/ requireRPCRate \/ requireAdmin
  \/ unlimited \/ oversized \/ validateScopeIDs \/ scope \/ acting \/ Serve \/ Answered

Spec == Init /\ [][Next]_vars
-----------------------------------------------------------------------------
(* Properties *)

served == cur # None /\ cur.p # None
presented == bearerToken(cur.in.header)

\* What reaches the service acts in the project its credential is pinned to and
\* carries its name; without a pin, in the project the request names
\* (matchCredential, callerProject).
ActsAsItsCredential ==
  served =>
    IF presented # None /\ matches(presented) # {}
    THEN \E i \in matches(presented) :
           /\ cur.p.caller = Credentials[i].name
           /\ cur.p.project = IF Credentials[i].project # None THEN Credentials[i].project
                              ELSE projectOr(cur.in.project)
    ELSE cur.p.caller = None /\ cur.p.project = projectOr(cur.in.project)

\* The bucket a request was charged to is that of the project and tenant, or of
\* the project and operation, it then acts in: no caller spends the budget of
\* another (requireTenantRate, requireRPCRate, scope).
ChargedWhereServed ==
  served /\ cur.bucket # None =>
    cur.bucket = <<cur.p.project, IF cur.in.rpc \in RPCRated THEN cur.in.rpc ELSE cur.p.tenant>>
=============================================================================
