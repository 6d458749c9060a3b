----------------------------- MODULE DataPlane ------------------------------
(* The authorization data plane between the transport and the store:         *)
(* WriteTuples and its consistency token, Check, BatchCheck, ListObjects,    *)
(* DeprovisionUser and ExportSubjectGrants, each a sequence of single store  *)
(* calls that other requests come between.  The evaluation of a check is the *)
(* engine's depth-first walk, one read of the store per step, under a model  *)
(* whose relations hold direct tuples; Engine has the rewrite rules and the  *)
(* arithmetic of the limits on one state of the store.  A relation of an     *)
(* object is a node; a tuple puts a user or a node under a node.  The walk   *)
(* knows a node by its names joined with ':' and '#'; the names here hold    *)
(* neither, so that two nodes are never taken for one (see Engine).  One     *)
(* project with several tenants; a restart loses the memory driver's data.   *)
EXTENDS Naturals, Sequences, FiniteSets, Functions

CONSTANTS
  Tenants, Users, Nodes,
  Groups,       \* the nodes of the form group:g#member
  Tuples,       \* what may be written: pairs of a node and a user or node
  Batches,      \* the questions of a request: sequences of <<node, user>>
  Requests,     \* slots for requests in flight
  MaxWrites,    \* bound: writes in a run
  MaxReads,     \* the read budget of an evaluation, 0 for none
  MaxDepth,     \* how deep below the queried node an evaluation goes
  Durable,      \* whether the store survives a restart of the process
  None

ASSUME ConstantsAssumption ==
  /\ IsFiniteSet(Nodes) /\ Nodes \cap Users = {} /\ Groups \subseteq Nodes
  /\ Tuples \subseteq Nodes \X (Nodes \cup Users)
  /\ Batches \subseteq Seq(Nodes \X Users)
  /\ {MaxWrites, MaxReads, MaxDepth} \subseteq Nat

VARIABLES
  tuples,     \* per tenant
  seq,        \* tuple_seq, per tenant
  reflects,   \* history: per tenant, the writes the store reflects
  writes,     \* how many writes there have been
  suspended,  \* the project, as the resolver has it
  tokens,     \* history: the tokens handed out, each with its write
  req,
  ever,       \* history: per request, all tuples there were during it
  always      \* history: per request, the tuples that were there throughout

store == <<tuples, seq, reflects, writes>>
vars == <<tuples, seq, reflects, writes, suspended, tokens, req, ever, always>>

Idle == [pc |-> "idle"]

Begin(r, op, tenant, token, items) ==
  [pc |-> "ensure", op |-> op, tenant |-> tenant, token |-> token, items |-> items, i |-> 1,
   stack |-> << >>, memo |-> {}, cycles |-> 0, reads |-> 0, verdict |-> None, results |-> << >>]

to(r, pc) == req' = [req EXCEPT ![r].pc = pc]
answer(r) == to(r, "answered")

\* What is stored leads from a node to a user along p, which has no node twice:
\* the node itself and at most MaxDepth others.
Way(T, p, n, user) ==
  /\ p \in [1..n -> Nodes \cup {user}] /\ p[n] = user
  /\ \A k \in 1..(n - 1) : <<p[k], p[k + 1]>> \in T
Simple(p, n) == \A j, k \in 1..n : p[j] = p[k] => j = k
Leads(T, node, user) ==
  \E n \in 2..(MaxDepth + 2) : \E p \in [1..n -> Nodes \cup {user}] :
    p[1] = node /\ Way(T, p, n, user) /\ Simple(p, n)
-----------------------------------------------------------------------------
(* Writes *)

\* A store that holds T, put there by one earlier write per tenant.
InitWith(T) ==
  /\ tuples = T
  /\ seq = [t \in Tenants |-> IF T[t] = {} THEN 0 ELSE 1]
  /\ reflects = [t \in Tenants |-> {}]
  /\ writes = 0
  /\ suspended = FALSE
  /\ tokens = {}
  /\ req = [r \in Requests |-> Idle]
  /\ ever = [r \in Requests |-> {}]
  /\ always = [r \in Requests |-> {}]

Init == InitWith([t \in Tenants |-> {}])

WriteRelationTuples(r, tenant, inserts, deletes) ==
  /\ req[r] = Idle /\ writes < MaxWrites
  /\ req' = [req EXCEPT ![r] = [pc |-> "active", op |-> "WriteTuples", tenant |-> tenant,
                                inserts |-> inserts, deletes |-> deletes, write |-> None]]
  /\ UNCHANGED <<store, suspended, tokens>>

ensureProjectActive(r) ==
  /\ req[r].pc = "active"
  /\ IF suspended THEN answer(r) ELSE to(r, "write")
  /\ UNCHANGED <<store, suspended, tokens>>

\* The writes of the batch are one repository call and count one in the shard's
\* sequence.
WriteTuples(r) ==
  LET t == req[r].tenant IN
  /\ req[r].pc = "write" /\ writes < MaxWrites
  /\ tuples' = [tuples EXCEPT ![t] = (@ \ req[r].deletes) \cup req[r].inserts]
  /\ seq' = [seq EXCEPT ![t] = @ + 1]
  /\ writes' = writes + 1
  /\ reflects' = [reflects EXCEPT ![t] = @ \cup {writes + 1}]
  /\ req' = [req EXCEPT ![r].pc = "token", ![r].write = writes + 1]
  /\ UNCHANGED <<suspended, tokens>>

\* The sequence is read after the write, by a call of its own.
Encode(r) ==
  /\ req[r].pc = "token"
  /\ tokens' = tokens \cup {[tenant |-> req[r].tenant, seq |-> seq[req[r].tenant],
                             write |-> req[r].write]}
  /\ answer(r)
  /\ UNCHANGED <<store, suspended>>

\* One repository call for all tenants; it leaves the sequences alone.
DeprovisionUser(r) ==
  /\ req[r].pc = "deprovision"
  /\ tuples' = [t \in Tenants |-> {x \in tuples[t] : x[2] # req[r].user}]
  /\ answer(r)
  /\ UNCHANGED <<seq, reflects, writes, suspended, tokens>>

DeprovisionUserRPC(r, user) ==
  /\ req[r] = Idle
  /\ req' = [req EXCEPT ![r] = [pc |-> "deprovision", op |-> "DeprovisionUser", user |-> user]]
  /\ UNCHANGED <<store, suspended, tokens>>
-----------------------------------------------------------------------------
(* Reads *)

ReadRPC(r, op, tenant, token, items) ==
  /\ req[r] = Idle
  /\ req' = [req EXCEPT ![r] = Begin(r, op, tenant, token, items)]
  /\ UNCHANGED <<store, suspended, tokens>>

CheckRPC(r, tenant, token, item) == ReadRPC(r, "Check", tenant, token, <<item>>)

BatchCheckRPC(r, tenant, token, items) == ReadRPC(r, "BatchCheck", tenant, token, items)

ListObjectsRPC(r, tenant, token, user) == ReadRPC(r, "ListObjects", tenant, token, <<<<None, user>>>>)

\* Mutant: a token of any shard is compared with the sequence of this one.
EnsureConsistencyAnyShard(r) ==
  LET tk == req[r].token IN
  /\ req[r].pc = "ensure"
  /\ IF tk # None /\ seq[req[r].tenant] < tk.seq THEN answer(r)
     ELSE to(r, IF req[r].op = "ListObjects" THEN "list" ELSE "check")
  /\ UNCHANGED <<store, suspended, tokens>>
\* A token of another shard, or one the shard has not reached, is refused.
EnsureConsistency(r) ==
  LET tk == req[r].token IN
  /\ req[r].pc = "ensure"
  /\ IF tk # None /\ (tk.tenant # req[r].tenant \/ seq[req[r].tenant] < tk.seq) THEN answer(r)
     ELSE to(r, IF req[r].op = "ListObjects" THEN "list" ELSE "check")
  /\ UNCHANGED <<store, suspended, tokens>>

\* ListObjectIDs lists every id once, in an order the ids fix.
inOrder(S) == CHOOSE f \in Bijection(1..Cardinality(S), S) : TRUE

\* The candidates: every object with a stored tuple.
ListObjects(r) ==
  /\ req[r].pc = "list"
  /\ IF suspended THEN answer(r)
     ELSE LET ids == {t[1] : t \in tuples[req[r].tenant]}
              user == req[r].items[1][2]
          IN req' = [req EXCEPT ![r].pc = "check",
                                ![r].items = inOrder({<<n, user>> : n \in ids})]
  /\ UNCHANGED <<store, suspended, tokens>>

\* The next question, or the answer; a suspended project denies.  Every question
\* has an evaluation of its own, the candidates of ListObjects share the budget.
Check(r) ==
  LET q == req[r] IN
  /\ q.pc = "check"
  /\ CASE q.i > Len(q.items) -> answer(r)
       [] q.i <= Len(q.items) /\ suspended /\ q.op # "ListObjects" ->
            req' = [req EXCEPT ![r].results = Append(@, "deny"), ![r].i = @ + 1]
       [] OTHER -> req' = [req EXCEPT ![r].pc = "eval", ![r].stack = << >>, ![r].memo = {}, ![r].cycles = 0,
                                      ![r].reads = IF q.op = "ListObjects" THEN @ ELSE 0]
  /\ UNCHANGED <<store, suspended, tokens>>
-----------------------------------------------------------------------------
(* The walk of one evaluation.  A frame of the stack is a node in progress:  *)
(* what its read returned and is still to be looked at.                      *)

pop(stack) == SubSeq(stack, 1, Len(stack) - 1)

judge(r, verdict) == req' = [req EXCEPT ![r].pc = "judged", ![r].verdict = verdict]

\* One read: the subjects stored under the node, of which another user is of no
\* account; an error once the budget is exceeded.
evalThis(r, stack, node) ==
  LET q == req[r]
      subjects == {t[2] : t \in {x \in tuples[q.tenant] : x[1] = node}} \cap (Nodes \cup {q.items[q.i][2]})
  IN IF MaxReads > 0 /\ q.reads + 1 > MaxReads THEN judge(r, "exhausted")
     ELSE req' = [req EXCEPT ![r].reads = @ + 1,
                             ![r].stack = Append(stack, [node |-> node, rest |-> subjects, cycles |-> q.cycles])]

\* The walk enters the queried node.
enter(r) ==
  /\ req[r].pc = "eval" /\ req[r].stack = << >>
  /\ evalThis(r, << >>, req[r].items[req[r].i][1])
  /\ UNCHANGED <<store, suspended, tokens>>

\* Mutant: a node beyond the limit counts as one that leads nowhere.
visitForgetsDepth(r, s) ==
  LET q == req[r]
      top == q.stack[Len(q.stack)]
      rest == [q.stack EXCEPT ![Len(q.stack)].rest = @ \ {s}]
  IN
  /\ q.pc = "eval" /\ q.stack # << >> /\ s \in top.rest
  /\ CASE s = q.items[q.i][2] -> judge(r, "allow")
       [] s \in Nodes /\ \E f \in Range(q.stack) : f.node = s ->
            req' = [req EXCEPT ![r].stack = rest, ![r].cycles = @ + 1]
       [] s \in q.memo \/ Len(q.stack) > MaxDepth -> req' = [req EXCEPT ![r].stack = rest]
       [] OTHER -> evalThis(r, rest, s)
  /\ UNCHANGED <<store, suspended, tokens>>
\* The walk looks at one subject of the node it is at: the user itself, a node
\* in progress or beyond the limit, which are both passed over and counted, a
\* node known not to lead to the user, or one to go into.
visit(r, s) ==
  LET q == req[r]
      top == q.stack[Len(q.stack)]
      rest == [q.stack EXCEPT ![Len(q.stack)].rest = @ \ {s}]
  IN
  /\ q.pc = "eval" /\ q.stack # << >> /\ s \in top.rest
  /\ CASE s = q.items[q.i][2] -> judge(r, "allow")
       [] s \in Nodes /\ (Len(q.stack) > MaxDepth \/ \E f \in Range(q.stack) : f.node = s) ->
            req' = [req EXCEPT ![r].stack = rest, ![r].cycles = @ + 1]
       [] s \in q.memo -> req' = [req EXCEPT ![r].stack = rest]
       [] OTHER -> evalThis(r, rest, s)
  /\ UNCHANGED <<store, suspended, tokens>>

\* The walk leaves a node that does not lead to the user; that is remembered if
\* nothing was passed over below it.
leave(r) ==
  LET q == req[r]
      top == q.stack[Len(q.stack)]
  IN
  /\ q.pc = "eval" /\ q.stack # << >> /\ top.rest = {}
  /\ IF Len(q.stack) = 1 THEN judge(r, "deny")
     ELSE req' = [req EXCEPT ![r].stack = pop(@),
                             ![r].memo = IF q.cycles = top.cycles THEN @ \cup {top.node} ELSE @]
  /\ UNCHANGED <<store, suspended, tokens>>

\* The answer to one question.  An exhausted budget is an error of the question
\* in a batch and of the whole request otherwise.
BatchCheck(r) ==
  LET q == req[r] IN
  /\ q.pc = "judged"
  /\ IF q.verdict = "exhausted" /\ q.op # "BatchCheck" THEN answer(r)
     ELSE req' = [req EXCEPT ![r].pc = "check", ![r].results = Append(@, q.verdict), ![r].i = @ + 1]
  /\ UNCHANGED <<store, suspended, tokens>>
-----------------------------------------------------------------------------
(* The export of what a user holds: two reads *)

ExportSubjectGrantsRPC(r, user) ==
  /\ req[r] = Idle
  /\ req' = [req EXCEPT ![r] = [pc |-> "direct", op |-> "ExportSubjectGrants", user |-> user, grants |-> {}]]
  /\ UNCHANGED <<store, suspended, tokens>>

grant(tenant, node, via) == [tenant |-> tenant, node |-> node, via |-> via]

\* Mutant: the memberships themselves are left out.
ListSubjectTuplesNoGroups(r) ==
  /\ req[r].pc = "direct"
  /\ req' = [req EXCEPT ![r].pc = "via",
               ![r].grants = {grant(t, n, None) : t \in Tenants, n \in Nodes \ Groups} \cap
                             UNION {{grant(t, x[1], None) : x \in {y \in tuples[t] : y[2] = req[r].user}} : t \in Tenants}]
  /\ UNCHANGED <<store, suspended, tokens>>
ListSubjectTuplesInProject(r) ==
  /\ req[r].pc = "direct"
  /\ req' = [req EXCEPT ![r].pc = "via",
               ![r].grants = UNION {{grant(t, x[1], None) : x \in {y \in tuples[t] : y[2] = req[r].user}} : t \in Tenants}]
  /\ UNCHANGED <<store, suspended, tokens>>

\* The grants to the groups found, in every tenant.
ExportSubjectGrants(r) ==
  LET groups == {g.node : g \in req[r].grants} \cap Groups IN
  /\ req[r].pc = "via"
  /\ req' = [req EXCEPT ![r].pc = "answered",
               ![r].grants = @ \cup UNION {{grant(t, x[1], x[2]) : x \in {y \in tuples[t] : y[2] \in groups}} : t \in Tenants}]
  /\ UNCHANGED <<store, suspended, tokens>>
-----------------------------------------------------------------------------
(* Everything else *)

Return(r) ==
  /\ req[r].pc = "answered"
  /\ req' = [req EXCEPT ![r] = Idle]
  /\ UNCHANGED <<store, suspended, tokens>>

\* A store error, or a caller that gave up: the call ends where it is.
Abort(r) ==
  /\ req[r].pc \notin {"idle", "answered"}
  /\ req' = [req EXCEPT ![r] = Idle]
  /\ UNCHANGED <<store, suspended, tokens>>

\* The process stops; what the store keeps is the driver's matter.
Restart ==
  /\ req' = [r \in Requests |-> Idle]
  /\ IF Durable THEN UNCHANGED <<tuples, seq, reflects>>
     ELSE /\ tuples' = [t \in Tenants |-> {}]
          /\ seq' = [t \in Tenants |-> 0]
          /\ reflects' = [t \in Tenants |-> {}]
  /\ UNCHANGED <<writes, suspended, tokens>>

SetStatus ==
  /\ suspended' = ~suspended
  /\ UNCHANGED <<store, tokens, req>>

\* What is stored.
present == UNION {{<<t, x[1], x[2]>> : x \in tuples[t]} : t \in Tenants}

\* What a request may rely on having been there: since it was begun, or since the
\* question it is at was.
Witness ==
  LET unread(r) == req'[r].pc \in {"idle", "active", "write", "token", "deprovision"}
      fresh(r) == \/ req'[r].pc \in {"ensure", "list", "direct"}
                  \/ req'[r].pc = "check" /\ req'[r].op # "ListObjects"
  IN /\ ever' = [r \in Requests |-> IF unread(r) THEN {}
                                    ELSE IF fresh(r) THEN present' ELSE ever[r] \cup present']
     /\ always' = [r \in Requests |-> IF unread(r) THEN {}
                                      ELSE IF fresh(r) THEN present' ELSE always[r] \cap present']

Arrive(r) ==
  \/ \E t \in Tenants, x \in Tuples :
       WriteRelationTuples(r, t, {x}, {}) \/ WriteRelationTuples(r, t, {}, {x})
  \/ \E u \in Users : DeprovisionUserRPC(r, u) \/ ExportSubjectGrantsRPC(r, u)
  \/ \E t \in Tenants, tk \in tokens \cup {None} :
       \/ \E b \in Batches : BatchCheckRPC(r, t, tk, b) \/ \E k \in DOMAIN b : CheckRPC(r, t, tk, b[k])
       \/ \E u \in Users : ListObjectsRPC(r, t, tk, u)

Proceed(r) ==
  \/ ensureProjectActive(r) \/ WriteTuples(r) \/ Encode(r) \/ DeprovisionUser(r)
  \/ EnsureConsistency(r) \/ ListObjects(r) \/ Check(r) \/ BatchCheck(r)
  \/ enter(r) \/ leave(r) \/ \E s \in Users \cup Nodes : visit(r, s)
  \/ ListSubjectTuplesInProject(r) \/ ExportSubjectGrants(r)

Next ==
  /\ \/ \E r \in Requests : Arrive(r) \/ Proceed(r) \/ Return(r) \/ Abort(r)
     \/ Restart \/ SetStatus
  /\ Witness

Spec == Init /\ [][Next]_vars
-----------------------------------------------------------------------------
(* Properties *)

\* In the store of one tenant, as pairs.
of(history, tenant) == {<<x[2], x[3]>> : x \in {y \in history : y[1] = tenant}}

\* A check that other requests write under allows only what some of the tuples
\* seen during it would allow, and denies only what the tuples that were there
\* throughout do not allow within the depth limit; so a grant within it that
\* nobody touches is never missed, whatever the walk passed over on its way, and
\* one gone before the check began is never honoured (Check, BatchCheck, check).
VerdictsHold ==
  \A r \in Requests : req[r].pc = "judged" =>
    LET q == req[r]
        node == q.items[q.i][1]
        user == q.items[q.i][2]
    IN /\ q.verdict = "allow" => Leads(of(ever[r], q.tenant), node, user)
       /\ q.verdict = "deny" => ~Leads(of(always[r], q.tenant), node, user)

\* What ListObjects returns leaves out no object the user could reach all along
\* within the depth limit, though objects come and go while the candidates are checked (ListObjects).
ListComplete ==
  \A r \in Requests :
    LET q == req[r] IN
    q.pc = "answered" /\ q.op = "ListObjects" /\ q.i > Len(q.items) =>
      \A n \in Nodes, u \in Users :
        Leads(of(always[r], q.tenant), n, u) /\ (q.items # << >> => u = q.items[1][2]) =>
          \E i \in DOMAIN q.items : q.items[i] = <<n, u>> /\ q.results[i] = "allow"

\* Verdicts of Check and BatchCheck, and lists of ListObjects, hold of the tuples
\* there were during them, though others write between their reads.
AnswersHold == VerdictsHold /\ ListComplete

\* A token that has been handed out is never refused by its own shard.
TokensAreReached == \A tk \in tokens : tk.seq <= seq[tk.tenant]

\* A read that presented a token and was let through sees a store that reflects
\* the write the token came from (WriteTuples, EnsureConsistency).
TokensAreHonoured ==
  \A r \in Requests :
    req[r].pc \in {"list", "check", "eval", "judged"} /\ req[r].token # None =>
      req[r].token.write \in reflects[req[r].tenant]

\* A token is never refused by its own shard, and a read it lets through sees the
\* write it came from (WriteTuples, EnsureConsistency), also after a restart.
TokensHold == TokensAreReached /\ TokensAreHonoured

held(history, u) ==
  {grant(x[1], x[2], None) : x \in {y \in history : y[3] = u}}
  \cup {grant(x[1], x[2], x[3]) : x \in {y \in history : y[3] \in Groups /\ <<y[1], y[3], u>> \in history}}

\* An export returns every grant the user held throughout it, direct or through a
\* group, in every tenant (ExportSubjectGrants).
ExportComplete ==
  \A r \in Requests : req[r].pc = "answered" /\ req[r].op = "ExportSubjectGrants" =>
    held(always[r], req[r].user) \subseteq req[r].grants

\* A grant exported with a group is one the user's membership of that group
\* confers.
ExportedIsConferred ==
  \A r \in Requests : req[r].pc = "answered" /\ req[r].op = "ExportSubjectGrants" =>
    req[r].grants \subseteq held(ever[r], req[r].user)
=============================================================================
