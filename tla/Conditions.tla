----------------------------- MODULE Conditions -----------------------------
(* The built-in conditions of conditional grants: pure functions of the      *)
(* parameters stored with the grant and the context of the request.  A field *)
(* is a value with a kind, the way JSON and structpb deliver it; a missing   *)
(* or ill-typed field, text that does not parse and an unknown name are an   *)
(* error, and an error denies.  Grants are rewritten and contexts gain and   *)
(* lose fields, one at a time.                                               *)
EXTENDS Naturals, Sequences, SequencesExt, FiniteSets

CONSTANTS
  Grants,     \* stored conditions: [name, params]
  Fields,     \* context fields: a function from a key to its possible values
  IPs,        \* texts net.ParseIP accepts
  CIDRs,      \* texts net.ParseCIDR accepts, with the addresses inside
  Times,      \* texts time.Parse accepts, with the instant they mean
  Err         \* a non-nil error

VARIABLES
  grant,    \* the condition of the grant
  context   \* the context of the request

vars == <<grant, context>>

Without(m, k) == [x \in DOMAIN m \ {k} |-> m[x]]
With(m, k, v) == [x \in DOMAIN m \cup {k} |-> IF x = k THEN v ELSE m[x]]
-----------------------------------------------------------------------------
(* Typed fields *)

boolField(m, k) == IF k \in DOMAIN m /\ m[k].kind = "bool" THEN m[k].v ELSE Err

\* Mutant: the zero value of Go for a field that is not there.
numFieldZero(m, k) ==
  IF k \notin DOMAIN m THEN 0 ELSE IF m[k].kind \in {"float64", "int", "int64"} THEN m[k].v ELSE Err
numField(m, k) == IF k \in DOMAIN m /\ m[k].kind \in {"float64", "int", "int64"} THEN m[k].v ELSE Err

strField(m, k) == IF k \in DOMAIN m /\ m[k].kind = "string" THEN m[k].v ELSE Err

strSliceField(m, k) ==
  IF k \notin DOMAIN m THEN Err
  ELSE IF m[k].kind = "[]string" THEN m[k].v
  ELSE IF m[k].kind = "[]any" /\ \A i \in DOMAIN m[k].v : m[k].v[i].kind = "string"
  THEN [i \in DOMAIN m[k].v |-> m[k].v[i].v]
  ELSE Err
-----------------------------------------------------------------------------
(* The built-in conditions *)

condConsentGranted(params, ctx) == boolField(ctx, "consent")

condAgeAtLeast(params, ctx) ==
  LET min == numField(params, "min_age")
      age == numField(ctx, "age")
  IN IF Err \in {min, age} THEN Err ELSE age >= min

\* The first network that contains the address or does not parse decides.
condIPInCIDRs(params, ctx) ==
  LET ip == strField(ctx, "ip")
      cidrs == strSliceField(params, "cidrs")
      contains(i) == cidrs[i] \in DOMAIN CIDRs /\ ip \in CIDRs[cidrs[i]]
      invalid(i) == cidrs[i] \notin DOMAIN CIDRs
      decides == {i \in DOMAIN cidrs : contains(i) \/ invalid(i)}
      first == CHOOSE i \in decides : \A j \in decides : i <= j
  IN CASE ip = Err \/ ip \notin IPs -> Err
       [] cidrs = Err -> Err
       [] decides = {} -> FALSE
       [] OTHER -> IF invalid(first) THEN Err ELSE TRUE

condNotAfter(params, ctx) ==
  LET until == strField(params, "until")
      now == strField(ctx, "now")
  IN IF {until, now} \subseteq DOMAIN Times THEN Times[now] <= Times[until] ELSE Err

condScopeIn(params, ctx) ==
  LET scope == strField(ctx, "scope")
      allowed == strSliceField(params, "allowed")
  IN IF Err \in {scope, allowed} THEN Err ELSE scope \in Range(allowed)

conditionRegistry == {"consent_granted", "age_at_least", "ip_in_cidrs", "not_after", "scope_in"}

KnownCondition(name) == name \in conditionRegistry

EvalCondition(c, ctx) ==
  LET result == CASE c.name = "consent_granted" -> condConsentGranted(c.params, ctx)
                  [] c.name = "age_at_least"    -> condAgeAtLeast(c.params, ctx)
                  [] c.name = "ip_in_cidrs"     -> condIPInCIDRs(c.params, ctx)
                  [] c.name = "not_after"       -> condNotAfter(c.params, ctx)
                  [] c.name = "scope_in"        -> condScopeIn(c.params, ctx)
                  [] OTHER                      -> FALSE
  IN c.name = "" \/ result = TRUE
-----------------------------------------------------------------------------
(* Grants and requests *)

Init ==
  /\ grant \in Grants
  /\ context = << >>

WriteGrant(c) ==
  /\ c.name = "" \/ KnownCondition(c.name)
  /\ grant' = c
  /\ UNCHANGED context

Put(k, v) ==
  /\ k \notin DOMAIN context
  /\ context' = With(context, k, v)
  /\ UNCHANGED grant

Drop(k) ==
  /\ context' = Without(context, k)
  /\ UNCHANGED grant

Next ==
  \/ \E c \in Grants : WriteGrant(c)
  \/ \E k \in DOMAIN Fields : \E v \in Fields[k] : Put(k, v)
  \/ \E k \in DOMAIN context : Drop(k)

Spec == Init /\ [][Next]_vars
-----------------------------------------------------------------------------
(* Properties *)

\* The parameter a condition reads; consent_granted reads none, and a grant may
\* store parameters nothing reads.
parameter == [age_at_least |-> "min_age", ip_in_cidrs |-> "cidrs", not_after |-> "until", scope_in |-> "allowed"]

\* Every conditional grant is earned: where one applies there is a field of the
\* context it hangs on, which it does not survive the loss of, and it hangs on
\* the parameter its condition reads too; and a request never gains access by
\* leaving a field out (EvalCondition, "fail closed").
EveryGrantIsEarned ==
  /\ EvalCondition(grant, context) /\ grant.name # "" =>
       /\ \E k \in DOMAIN context : ~EvalCondition(grant, Without(context, k))
       /\ grant.name \in DOMAIN parameter =>
            ~EvalCondition([grant EXCEPT !.params = Without(@, parameter[grant.name])], context)
  /\ \A k \in DOMAIN context :
       EvalCondition(grant, Without(context, k)) => EvalCondition(grant, context)
=============================================================================
