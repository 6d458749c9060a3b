------------------------------- MODULE Engine -------------------------------
(* The authorization engine: Check, CheckSet, Expand and ListObjects as      *)
(* recursive operators over the tuples of one shard, with the state a single *)
(* evaluation threads through its recursion: the nodes in progress, the      *)
(* memo, the count of cycles and depth limits met, and the reads made.  The  *)
(* tuples change between evaluations; an evaluation sees one state of them   *)
(* (DataPlane has the writes that come between two reads of one check).      *)
(* A node is a namespace, an object and a relation; a subject is a user, a   *)
(* node or the wildcard.  Marks and memo go by the node's key, which joins   *)
(* the three names without escaping: names that hold ':' or '#' may give two *)
(* nodes one key, so a name is spelled as the sequence of its characters.    *)
EXTENDS Naturals, Sequences, SequencesExt, FiniteSets, FiniteSetsExt, TLC

CONSTANTS
  Model,       \* rewrite rules: a function from <<namespace, relation>>
  Tuples,      \* the tuples that may be stored
  Orders,      \* the orders in which a driver may return them
  Users,       \* users that are asked about
  Nodes,       \* all nodes: where tuples are stored and what they lead to
  MaxDepth,    \* Engine.maxDepth
  Headroom,    \* fanOutHeadroom
  Spell(_),    \* the characters of a name
  None

VARIABLES
  tuples,   \* the tuples of the shard
  order     \* the order the driver returns them in

vars == <<tuples, order>>

\* A stored tuple: node, subject, and whether its condition, if it has one, is
\* met by a request that carries the context.
Tuple == [node : Nodes, kind : {"user", "set", "wildcard"},
          subject : Users \cup Nodes \cup {None}, conditional : BOOLEAN]
\* The elements of a set one after the other, where the order is of no account.
inSomeOrder(S) == FoldSet(LAMBDA x, acc : Append(acc, x), << >>, S)
-----------------------------------------------------------------------------
(* Reads and rewrite rules *)

this == [op |-> "this"]
union(of) == [op |-> "union", of |-> of]
intersection(of) == [op |-> "intersection", of |-> of]
exclusion(include, exclude) == [op |-> "exclusion", include |-> include, exclude |-> exclude]
computed(rel) == [op |-> "computed", rel |-> rel]
tupleToUserset(tupleset, rel) == [op |-> "ttu", tupleset |-> tupleset, rel |-> rel]

DefaultModel ==
  LET direct == this IN
     (<<"workspace", "owner">>  :> direct)
  @@ (<<"workspace", "admin">>  :> union(<<direct, computed("owner")>>))
  @@ (<<"workspace", "member">> :> union(<<direct, computed("admin")>>))
  @@ (<<"workspace", "guest">>  :> union(<<direct, computed("member")>>))
  @@ (<<"workspace", "editor">> :> computed("admin"))
  @@ (<<"workspace", "viewer">> :> computed("member"))
  @@ (<<"group", "member">>     :> direct)
  @@ (<<"resource", "parent">>  :> direct)
  @@ (<<"resource", "owner">>   :> direct)
  @@ (<<"resource", "editor">>  :> union(<<direct, computed("owner"), tupleToUserset("parent", "editor")>>))
  @@ (<<"resource", "viewer">>  :> union(<<direct, computed("editor"), tupleToUserset("parent", "viewer")>>))

\* A relation the model does not name holds direct tuples.
rewrite(node) ==
  IF <<node[1], node[3]>> \in DOMAIN Model THEN Model[<<node[1], node[3]>>] ELSE this

\* What the reader returns for a node, in the driver's order.
ListSubjects(node) == SelectSeq(order, LAMBDA t : t \in tuples /\ t.node = node)

\* Mutant: only the objects with a tuple for a user.
ListObjectIDsOfUsers(ns) ==
  {t.node[2] : t \in {x \in tuples : x.node[1] = ns /\ x.kind = "user"}}
ListObjectIDs(ns) == {t.node[2] : t \in {x \in tuples : x.node[1] = ns}}

\* A grant without a condition always holds, one with a condition only for a
\* request whose context meets it.
EvalCondition(t, cc) == t.conditional => cc

RECURSIVE readsStoredTuples(_)
readsStoredTuples(rw) ==
  CASE rw.op = "this"                       -> TRUE
    [] rw.op \in {"union", "intersection"}  -> \E i \in DOMAIN rw.of : readsStoredTuples(rw.of[i])
    [] rw.op = "exclusion"                  -> readsStoredTuples(rw.include) \/ readsStoredTuples(rw.exclude)
    [] rw.op \in {"computed", "ttu"}        -> FALSE

WritableRelation(ns, rel) == <<ns, rel>> \in DOMAIN Model => readsStoredTuples(Model[<<ns, rel>>])
-----------------------------------------------------------------------------
(* One evaluation *)

newEvalState(maxReads) ==
  [visited |-> {}, memo |-> << >>, cyclesSeen |-> 0, reads |-> 0, maxReads |-> maxReads,
   nodes |-> 0, err |-> FALSE]

Result(ok, st) == [ok |-> ok, st |-> st]

visitKey(node) == Spell(node[1]) \o <<":">> \o Spell(node[2]) \o <<"#">> \o Spell(node[3])

\* One read more, an error once the budget is exceeded; no budget is 0.
charge(st) == [st EXCEPT !.reads = @ + 1, !.err = st.maxReads > 0 /\ st.reads + 1 > st.maxReads]

\* Mutant: nothing in either context.
backstopPositive(negated, st) == Result(FALSE, [st EXCEPT !.cyclesSeen = @ + 1])
\* A cycle or the depth limit: nothing in positive context, everything in
\* negated context.
backstop(negated, st) == Result(negated, [st EXCEPT !.cyclesSeen = @ + 1])

\* Mutant: a result is kept whatever its subtree met.
memoizableAlways(before, after) == ~after.err
\* Mutant: no result is kept.
memoizableNever(before, after) == FALSE
\* A result is kept when its subtree met neither cycle nor depth limit.
memoizable(before, after) == ~after.err /\ after.cyclesSeen = before.cyclesSeen

RECURSIVE check(_, _, _, _, _, _), evalRewrite(_, _, _, _, _, _, _), evalEach(_, _, _, _, _, _, _, _)

check(node, q, cc, negated, st, depth) ==
  LET key == visitKey(node)
      mk == <<key, negated>>
  IN
  IF key \in st.visited \/ depth > MaxDepth THEN backstop(negated, st)
  ELSE IF mk \in DOMAIN st.memo THEN Result(st.memo[mk], st)
  ELSE LET r == evalRewrite(rewrite(node), node, q, cc, negated,
                            [st EXCEPT !.visited = @ \cup {key}], depth)
           left == [r.st EXCEPT !.visited = @ \ {key}]
       IN Result(r.ok, IF memoizable(st, left) THEN [left EXCEPT !.memo = (mk :> r.ok) @@ @] ELSE left)

\* evalRewrite.  The operators "yes", "no" and "check" are what evalThis and
\* evalTupleToUserset find in the tuples they read.
evalRewrite(rw, node, q, cc, negated, st, depth) ==
  CASE rw.op = "yes"   -> Result(TRUE, st)
    [] rw.op = "no"    -> Result(FALSE, st)
    [] rw.op = "check" -> check(rw.node, q, cc, negated, st, depth + 1)
    [] rw.op = "this"  ->
         LET c == charge(st)
             found(t) ==
               CASE ~EvalCondition(t, cc)             -> [op |-> "no"]
                 [] EvalCondition(t, cc) /\ t.kind = "wildcard" -> [op |-> "yes"]
                 [] EvalCondition(t, cc) /\ t.kind = "user" ->
                      [op |-> IF q = [user |-> t.subject] THEN "yes" ELSE "no"]
                 [] EvalCondition(t, cc) /\ t.kind = "set" ->
                      IF q = [set |-> t.subject] THEN [op |-> "yes"]
                      ELSE [op |-> "check", node |-> t.subject]
             subjects == ListSubjects(node)
         IN IF c.err THEN Result(FALSE, c)
            ELSE evalEach([i \in DOMAIN subjects |-> found(subjects[i])], TRUE,
                          node, q, cc, negated, c, depth)
    [] rw.op = "union" -> evalEach(rw.of, TRUE, node, q, cc, negated, st, depth)
    [] rw.op = "intersection" ->
         IF "set" \in DOMAIN q THEN Result(FALSE, st)
         ELSE evalEach(rw.of, FALSE, node, q, cc, negated, st, depth)
    [] rw.op = "exclusion" ->
         IF "set" \in DOMAIN q THEN Result(FALSE, st)
         ELSE LET i == evalRewrite(rw.include, node, q, cc, negated, st, depth)
                  x == evalRewrite(rw.exclude, node, q, cc, ~negated, i.st, depth)
              IN IF i.st.err \/ ~i.ok THEN Result(FALSE, i.st)
                 ELSE Result(~x.st.err /\ ~x.ok, x.st)
    [] rw.op = "computed" ->
         check(<<node[1], node[2], rw.rel>>, q, cc, negated, st, depth + 1)
    [] rw.op = "ttu" ->
         LET c == charge(st)
             pointers == SelectSeq(ListSubjects(<<node[1], node[2], rw.tupleset>>),
                                   LAMBDA t : EvalCondition(t, cc) /\ t.kind = "set")
         IN IF c.err THEN Result(FALSE, c)
            ELSE evalEach([i \in DOMAIN pointers |->
                             [op |-> "check",
                              node |-> <<pointers[i].subject[1], pointers[i].subject[2], rw.rel>>]],
                          TRUE, node, q, cc, negated, c, depth)

\* The loops over children and subjects: up to the first result that decides.
evalEach(rws, decides, node, q, cc, negated, st, depth) ==
  IF rws = << >> THEN Result(~decides, st)
  ELSE LET r == evalRewrite(Head(rws), node, q, cc, negated, st, depth)
       IN CASE r.st.err -> Result(FALSE, r.st)
            [] ~r.st.err /\ r.ok = decides -> Result(decides, r.st)
            [] OTHER -> evalEach(Tail(rws), decides, node, q, cc, negated, r.st, depth)

CheckWithModel(node, u, cc, maxReads) ==
  check(node, [user |-> u], cc, FALSE, newEvalState(maxReads), 0)
-----------------------------------------------------------------------------
(* Expand: the tree of a node, down to its stored subjects *)

leaf(node) == [op |-> "leaf", expanded |-> node, users |-> {}, sets |-> {}, wildcard |-> FALSE]
TreeResult(tree, st) == [tree |-> tree, st |-> st]

\* n nodes more, an error past the cap; no cap is 0.
bump(st, max, n) == [st EXCEPT !.nodes = @ + n, !.err = @ \/ (max > 0 /\ st.nodes + n > max)]

RECURSIVE expand(_, _, _, _, _), expandRewrite(_, _, _, _, _, _), expandEach(_, _, _, _, _, _, _)

\* Over-deep or cyclic: a bare leaf.
expand(node, max, st, visited, depth) ==
  IF depth > MaxDepth \/ visitKey(node) \in visited THEN TreeResult(leaf(node), st)
  ELSE expandRewrite(rewrite(node), node, max, st, visited \cup {visitKey(node)}, depth)

expandRewrite(rw, node, max, st0, visited, depth) ==
  LET st == bump(st0, max, 1)
      branch(op, items) ==
        LET r == expandEach(items, << >>, node, max, st, visited, depth)
        IN TreeResult([op |-> op, expanded |-> node, of |-> r.tree], r.st)
  IN
  CASE st.err -> TreeResult(leaf(node), st)
    [] ~st.err /\ rw.op = "this" ->
         LET found == {t \in tuples : t.node = node}
             c == charge(st)
             b == bump(c, max, Cardinality(found))
         IN TreeResult(
              [leaf(node) EXCEPT !.users = {t.subject : t \in {x \in found : x.kind = "user"}},
                                 !.sets = {t.subject : t \in {x \in found : x.kind = "set"}},
                                 !.wildcard = \E t \in found : t.kind = "wildcard"],
              IF c.err THEN c ELSE b)
    [] ~st.err /\ rw.op \in {"union", "intersection"} -> branch(rw.op, rw.of)
    [] ~st.err /\ rw.op = "exclusion" -> branch("exclusion", <<rw.include, rw.exclude>>)
    [] ~st.err /\ rw.op = "computed" ->
         expand(<<node[1], node[2], rw.rel>>, max, st, visited, depth + 1)
    [] ~st.err /\ rw.op = "ttu" ->
         LET c == charge(st)
             pointers == SelectSeq(ListSubjects(<<node[1], node[2], rw.tupleset>>),
                                   LAMBDA t : t.kind = "set")
             r == expandEach([i \in DOMAIN pointers |->
                                [op |-> "expand",
                                 node |-> <<pointers[i].subject[1], pointers[i].subject[2], rw.rel>>]],
                             << >>, node, max, c, visited, depth)
         IN IF c.err THEN TreeResult(leaf(node), c)
            ELSE TreeResult([op |-> "union", expanded |-> node, of |-> r.tree], r.st)

\* The children of a node, in order, up to the first error.
expandEach(items, done, node, max, st, visited, depth) ==
  IF items = << >> \/ st.err THEN TreeResult(done, st)
  ELSE LET it == Head(items)
           r == IF it.op = "expand" THEN expand(it.node, max, st, visited, depth + 1)
                ELSE expandRewrite(it, node, max, st, visited, depth)
       IN expandEach(Tail(items), Append(done, r.tree), node, max, r.st, visited, depth)

expandBudget(base, maxNodes) == IF base = 0 THEN 0 ELSE Max({maxNodes * Headroom, base})

ExpandWithModel(node, max, maxReads) ==
  expand(node, max, newEvalState(expandBudget(maxReads, max)), {}, 0)
-----------------------------------------------------------------------------
(* CheckSet: does a userset intersect the userset of a node *)

Members(users, everyone, st) == [users |-> users, everyone |-> everyone, st |-> st]

RECURSIVE resolveMembers(_, _, _, _), membersOfTree(_, _, _, _), membersOfEach(_, _, _, _, _)

\* Every stored subject counts, whatever its condition.
resolveMembers(set, st, visited, depth) ==
  IF depth > MaxDepth \/ visitKey(set) \in visited THEN Members({}, FALSE, st)
  ELSE LET e == expand(set, 0, st, {}, depth)
       IN IF e.st.err THEN Members({}, FALSE, e.st)
          ELSE membersOfTree(e.tree, e.st, visited \cup {visitKey(set)}, depth)

\* The members of some trees, or of the sets of a leaf, one after the other.
membersOfEach(items, done, st, visited, depth) ==
  IF items = << >> \/ st.err THEN [each |-> done, st |-> st]
  ELSE LET m == IF Head(items).op = "set"
                THEN resolveMembers(Head(items).node, st, visited, depth + 1)
                ELSE membersOfTree(Head(items), st, visited, depth)
       IN membersOfEach(Tail(items), Append(done, m), m.st, visited, depth)

membersOfTree(t, st, visited, depth) ==
  LET r == membersOfEach(IF t.op # "leaf" THEN t.of
                         ELSE LET s == inSomeOrder(t.sets)
                              IN [i \in DOMAIN s |-> [op |-> "set", node |-> s[i]]],
                         << >>, st, visited, depth)
      all == Range(r.each)
      bounded == {m \in all : ~m.everyone}
  IN
  CASE r.st.err -> Members({}, FALSE, r.st)
    [] ~r.st.err /\ t.op = "leaf" ->
         Members(t.users \cup UNION {m.users : m \in all},
                 t.wildcard \/ \E m \in all : m.everyone, r.st)
    [] ~r.st.err /\ t.op = "union" ->
         Members(UNION {m.users : m \in all}, \E m \in all : m.everyone, r.st)
    [] ~r.st.err /\ t.op = "intersection" ->
         Members({u \in UNION {m.users : m \in bounded} : \A m \in bounded : u \in m.users},
                 bounded = {}, r.st)
    [] ~r.st.err /\ t.op = "exclusion" ->
         Members(r.each[1].users \ r.each[2].users, r.each[1].everyone, r.st)

fanOutBudget(base, candidates) ==
  IF base = 0 THEN 0 ELSE Max({candidates * MaxDepth * Headroom, base})

\* Mutant: the memo of the previous member is kept.
nextQueryKeepsMemo(st) == [st EXCEPT !.visited = {}]
\* Fresh marks and memo, the reads go on.
nextQuery(st) == [st EXCEPT !.visited = {}, !.memo = << >>]

RECURSIVE checkMembers(_, _, _, _)
\* The loop over the members of the queried set.
checkMembers(us, node, cc, st) ==
  IF us = << >> THEN Result(FALSE, st)
  ELSE LET r == check(node, [user |-> Head(us)], cc, FALSE, nextQuery(st), 0)
       IN IF r.st.err \/ r.ok THEN Result(r.ok /\ ~r.st.err, r.st)
          ELSE checkMembers(Tail(us), node, cc, r.st)

CheckSetWithModel(node, set, cc, maxReads, candidates) ==
  LET s == check(node, [set |-> set], cc, FALSE, newEvalState(fanOutBudget(maxReads, candidates)), 0)
      m == resolveMembers(set, s.st, {}, 0)
      c == checkMembers(inSomeOrder(m.users), node, cc, m.st)
      target == resolveMembers(node, c.st, {}, 0)
  IN
  CASE s.st.err \/ s.ok                                -> Result(s.ok /\ ~s.st.err, s.st)
    [] ~(s.st.err \/ s.ok) /\ m.st.err                 -> Result(FALSE, m.st)
    [] ~(s.st.err \/ s.ok) /\ ~m.st.err /\ (c.st.err \/ c.ok \/ ~m.everyone) -> c
    [] OTHER -> Result(~target.st.err /\ (target.everyone \/ target.users # {}), target.st)
-----------------------------------------------------------------------------
(* ListObjects: Check on every object with a stored tuple, with one budget *)

RECURSIVE listEach(_, _, _, _, _, _)
listEach(ids, done, ns, rel, u, st) ==
  IF ids = << >> THEN [ids |-> done, st |-> st]
  ELSE LET r == check(<<ns, Head(ids), rel>>, [user |-> u], FALSE, FALSE, nextQuery(st), 0)
       IN IF r.st.err THEN [ids |-> {}, st |-> r.st]
          ELSE listEach(Tail(ids), IF r.ok THEN done \cup {Head(ids)} ELSE done, ns, rel, u, r.st)

\* ErrTooManyObjects is an error like the budget's.
ListObjectsWithModel(ns, rel, u, maxObjects, maxReads) ==
  LET ids == ListObjectIDs(ns)
      candidates == IF maxObjects > 0 THEN maxObjects ELSE Cardinality(ids)
      st == newEvalState(fanOutBudget(maxReads, candidates))
  IN IF maxObjects > 0 /\ Cardinality(ids) > maxObjects
     THEN [ids |-> {}, st |-> [st EXCEPT !.err = TRUE]]
     ELSE listEach(inSomeOrder(ids), {}, ns, rel, u, st)
-----------------------------------------------------------------------------
(* The shard *)

Init ==
  /\ tuples = {}
  /\ order \in Orders

\* A tuple replaces the one of the same identity.
Write(t) ==
  /\ tuples' = {x \in tuples : <<x.node, x.kind, x.subject>> # <<t.node, t.kind, t.subject>>} \cup {t}
  /\ UNCHANGED order

Delete(t) ==
  /\ tuples' = tuples \ {t}
  /\ UNCHANGED order

Next == \/ \E t \in Tuples : WritableRelation(t.node[1], t.node[3]) /\ Write(t)
        \/ \E t \in tuples : Delete(t)

Spec == Init /\ [][Next]_vars
-----------------------------------------------------------------------------
(* What the answers should be: the well-founded reading of the rewrite rules *)
(* over the stored tuples, computed as a fixed point over all nodes.  P and  *)
(* N are the nodes taken as granting in positive and in negated context.     *)

RECURSIVE grants(_, _, _, _, _, _)
grants(rw, node, P, N, u, cc) ==
  LET stored(n) == {t \in tuples : t.node = n /\ EvalCondition(t, cc)} IN
  CASE rw.op = "this" ->
         \E t \in stored(node) : \/ t.kind = "wildcard"
                                 \/ t.kind = "user" /\ t.subject = u
                                 \/ t.kind = "set" /\ t.subject \in P
    [] rw.op = "union" -> \E i \in DOMAIN rw.of : grants(rw.of[i], node, P, N, u, cc)
    [] rw.op = "intersection" -> \A i \in DOMAIN rw.of : grants(rw.of[i], node, P, N, u, cc)
    [] rw.op = "exclusion" ->
         grants(rw.include, node, P, N, u, cc) /\ ~grants(rw.exclude, node, N, P, u, cc)
    [] rw.op = "computed" -> <<node[1], node[2], rw.rel>> \in P
    [] rw.op = "ttu" -> \E t \in stored(<<node[1], node[2], rw.tupleset>>) :
                          t.kind = "set" /\ <<t.subject[1], t.subject[2], rw.rel>> \in P

RECURSIVE least(_, _, _, _), alternate(_, _, _)
least(P, N, u, cc) ==
  LET Q == {n \in Nodes : grants(rewrite(n), n, P, N, u, cc)}
  IN IF Q = P THEN P ELSE least(Q, N, u, cc)
alternate(K, u, cc) ==
  LET possible == least({}, K, u, cc)
      certain == least({}, possible, u, cc)
  IN IF certain = K THEN K ELSE alternate(certain, u, cc)

\* The nodes u is certain to belong to.
Granted(u, cc) == alternate({}, u, cc)

\* A user no tuple names: belongs where everyone does.
Anyone == None

RECURSIVE monotone(_)
monotone(rw) ==
  CASE rw.op = "exclusion" -> FALSE
    [] rw.op \in {"union", "intersection"} -> \A i \in DOMAIN rw.of : monotone(rw.of[i])
    [] OTHER -> TRUE
Monotone == \A k \in DOMAIN Model : monotone(Model[k])

RECURSIVE additive(_)
additive(rw) ==
  CASE rw.op \in {"exclusion", "intersection"} -> FALSE
    [] rw.op = "union" -> \A i \in DOMAIN rw.of : additive(rw.of[i])
    [] OTHER -> TRUE
OnlyUnions == \A k \in DOMAIN Model : additive(Model[k])

\* No two nodes have one key.
Unambiguous == \A m, n \in Nodes : visitKey(m) = visitKey(n) => m = n
-----------------------------------------------------------------------------
(* Properties *)

\* Check never allows what the rules do not grant, whatever cycles the tuples
\* close, through groups, parents or block lists, and wherever the depth limit
\* cuts an evaluation off: a cycle or a cut under an exclusion counts as blocked.
\* Where names give nodes one key this is said of models that only unite, in
\* which a mistaken mark or memo can only take away
\* (check, visitKey, evalRewrite, the polarity of the exclude branch).
NeverOverGrants ==
  Unambiguous \/ OnlyUnions =>
    \A u \in Users, cc \in BOOLEAN : LET G == Granted(u, cc) IN
      \A n \in Nodes : CheckWithModel(n, u, cc, 0).ok => n \in G

\* Where no two nodes have one key and an evaluation meets no cycle and no depth
\* limit, Check answers exactly what the rules say; and in a model without
\* exclusions cycles hide nothing either, in whatever order the driver returns
\* tuples: the memo never keeps an answer that only held below a node in progress.
ExactAnswers ==
  Unambiguous =>
    \A u \in Users, cc \in BOOLEAN : LET G == Granted(u, cc) IN
      \A n \in Nodes : LET r == CheckWithModel(n, u, cc, 0) IN
        (r.st.cyclesSeen = 0 \/ Monotone) => (r.ok <=> n \in G)

\* A read budget bounds the reads and never changes an answer: an evaluation
\* that stays within it answers as without it, any other is an error at the
\* first read too many, not a denial (charge, mapBudgetErr).
BudgetIsNoAnswer ==
  \A u \in Users, n \in Nodes : LET free == CheckWithModel(n, u, FALSE, 0) IN
    \A b \in 1 .. 4 : LET r == CheckWithModel(n, u, FALSE, b) IN
      IF r.st.err THEN r.st.reads = b + 1 /\ free.st.reads > b
      ELSE r.st.reads <= b /\ r.ok = free.ok

\* The read budget of an Expand is never tighter than its node cap: a tree that
\* fits the cap is returned, however small the budget of a single check
\* (expandBudget).
TreesThatFitAreReturned ==
  \A n \in Nodes, max \in 1 .. 6, b \in 1 .. 3 :
    ~ExpandWithModel(n, max, 0).st.err => ~ExpandWithModel(n, max, b).st.err

leaves(rw) == IF rw.op \in {"union", "intersection"}
              THEN Cardinality({i \in DOMAIN rw.of : rw.of[i].op \in {"this", "ttu"}})
              ELSE IF rw.op = "exclusion" THEN 2 ELSE 1

\* Where no cycle is met, shared groups and parents are evaluated once each: the
\* reads of a check never exceed what the nodes have to read once,
\* however many paths lead to them (the memo of check).
OneEvaluationPerNode ==
  \A u \in Users, n \in Nodes : LET r == CheckWithModel(n, u, FALSE, 0) IN
    r.st.cyclesSeen = 0 =>
      r.st.reads <= MapThenSumSet(LAMBDA k : leaves(rewrite(k)),
                                {n} \cup UNION {{t.node} \cup IF t.kind = "set" THEN {t.subject} ELSE {} : t \in tuples})

\* Under the built-in model a stronger role on a workspace or resource includes
\* the weaker ones, and a role on a parent is a role on what lies below it,
\* also where parents form a cycle.
RolesNest ==
  \A u \in Users, x \in {n[2] : n \in Nodes} :
    LET may(ns, rel) == CheckWithModel(<<ns, x, rel>>, u, FALSE, 0).ok IN
    /\ \A p \in {<<"owner", "admin">>, <<"admin", "member">>, <<"member", "guest">>,
                <<"admin", "editor">>, <<"editor", "viewer">>} :
         may("workspace", p[1]) => may("workspace", p[2])
    /\ \A p \in {<<"owner", "editor">>, <<"editor", "viewer">>} :
         may("resource", p[1]) => may("resource", p[2])
    /\ \A t \in tuples, rel \in {"editor", "viewer"} :
         /\ t.node = <<"resource", x, "parent">>
         /\ CheckWithModel(<<t.subject[1], t.subject[2], rel>>, u, FALSE, 0).ok
         => may("resource", rel)

\* ListObjects returns every object Check allows and no other: the objects with
\* no stored tuple that it never tries are granted to nobody
\* (ListObjectIDs, ListObjectsWithModel).
ListsEveryObject ==
  \A u \in Users, n \in Nodes :
    n[2] \in ListObjectsWithModel(n[1], n[3], u, 0, 0).ids <=> CheckWithModel(n, u, FALSE, 0).ok

\* In a model without exclusions, over tuples without conditions and nodes with
\* keys of their own, CheckSet is true exactly when the queried set is itself
\* under the relation or somebody belongs to both, everyone included.
SetsIntersect ==
  Unambiguous /\ Monotone /\ (\A t \in tuples : ~t.conditional) =>
    \A set, n \in Nodes :
      CheckSetWithModel(n, set, FALSE, 0, 0).ok <=>
        \/ check(n, [set |-> set], FALSE, FALSE, newEvalState(0), 0).ok
        \/ \E u \in Users \cup {Anyone} : {set, n} \subseteq Granted(u, FALSE)

\* resolveMembers: the concrete users it finds are users that satisfy the set
\* (conditions apart, which resolution does not evaluate).
MembersSatisfy ==
  (\A t \in tuples : ~t.conditional) =>
  \A n \in Nodes : \A u \in resolveMembers(n, newEvalState(0), {}, 0).users : n \in Granted(u, FALSE)

\* A grant under a condition gives a queried set what it gives a user: CheckSet
\* of a set finds access only where some user's Check, with the same context,
\* finds it too.
SetsMeetConditions ==
  \A set, n \in Nodes, cc \in BOOLEAN :
    CheckSetWithModel(n, set, cc, 0, 0).ok =>
      \/ check(n, [set |-> set], cc, FALSE, newEvalState(0), 0).ok
      \/ \E u \in Users \cup {Anyone} : CheckWithModel(n, u, cc, 0).ok
=============================================================================
