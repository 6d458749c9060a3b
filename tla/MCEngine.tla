------------------------------ MODULE MCEngine ------------------------------
(* Engine for TLC: models, tuples that close cycles, orders.  One behaviour  *)
(* is about one model, the model of its plan.                                *)
EXTENDS Naturals, SequencesExt, TLC

CONSTANTS
  Scenarios,  \* which of the models below this run is about
  None

VARIABLES
  tuples, order,  \* of Engine
  plan            \* the model of this behaviour

vars == <<tuples, order, plan>>

\* Names without separators are their own spelling.
name(x) == <<x>>

\* The constructors of rewrite rules, and the built-in model.
Rules == INSTANCE Engine WITH
  Model <- << >>, Tuples <- {}, Orders <- {}, Users <- {}, Nodes <- {}, MaxDepth <- 0, Headroom <- 0, Spell <- name
this == Rules!this
union(of) == Rules!union(of)
intersection(of) == Rules!intersection(of)
exclusion(include, exclude) == Rules!exclusion(include, exclude)
computed(rel) == Rules!computed(rel)
tupleToUserset(tupleset, rel) == Rules!tupleToUserset(tupleset, rel)

member(g) == <<"group", g, "member">>
doc(d, rel) == <<"doc", d, rel>>
to(node, user) == [node |-> node, kind |-> "user", subject |-> user, conditional |-> FALSE]
on(node, set) == [node |-> node, kind |-> "set", subject |-> set, conditional |-> FALSE]
all(node) == [node |-> node, kind |-> "wildcard", subject |-> None, conditional |-> FALSE]
when(t) == [t EXCEPT !.conditional = TRUE]

\* Documents inherit from their parents; groups nest.
nestModel == (<<"doc", "viewer">> :> union(<<this, computed("editor"), tupleToUserset("parent", "viewer")>>))
nestNodes == {doc(d, rel) : d \in {"d1", "d2"}, rel \in {"viewer", "editor", "parent"}}
               \cup {member(g) : g \in {"g1", "g2"}}
nestTuples ==
  {on(doc("d1", "viewer"), member("g1")), when(to(doc("d1", "editor"), "u")),
   on(doc("d1", "parent"), doc("d2", "viewer")), on(doc("d2", "parent"), doc("d1", "viewer")),
   on(doc("d2", "editor"), member("g2")), on(member("g1"), member("g2")),
   on(member("g2"), member("g1")), to(member("g2"), "u"), all(member("g1"))}

\* Documents with a block list that has exemptions; both are inherited.
blockModel ==
  (<<"doc", "viewer">> :> exclusion(union(<<this, tupleToUserset("parent", "viewer")>>), computed("blocked")))
  @@ (<<"doc", "blocked">> :> exclusion(union(<<this, tupleToUserset("parent", "blocked")>>), computed("exempt")))
blockNodes == {doc(d, rel) : d \in {"d1", "d2"}, rel \in {"viewer", "blocked", "exempt", "parent"}}
                \cup {member(g) : g \in {"g1", "g2"}}
blockTuples ==
  {on(doc("d1", "viewer"), member("g1")), on(doc("d1", "parent"), doc("d2", "viewer")),
   on(doc("d2", "parent"), doc("d1", "viewer")), all(doc("d2", "viewer")),
   on(doc("d1", "blocked"), member("g2")), when(to(doc("d2", "blocked"), "u")),
   on(doc("d1", "exempt"), member("g1")), on(member("g1"), member("g2")),
   on(member("g2"), member("g1")), to(member("g1"), "u"), all(doc("d1", "blocked")),
   on(doc("d1", "blocked"), doc("d2", "viewer"))}

\* A document needs a license as well as a grant; nothing is subtracted.
bothModel ==
  (<<"doc", "viewer">> :> intersection(<<union(<<this, tupleToUserset("parent", "viewer")>>), computed("licensed")>>))
bothNodes == {doc(d, rel) : d \in {"d1", "d2"}, rel \in {"viewer", "licensed", "parent"}}
               \cup {member(g) : g \in {"g1", "g2"}}
bothTuples ==
  {on(doc("d1", "viewer"), member("g1")), to(doc("d1", "viewer"), "v"),
   on(doc("d1", "parent"), doc("d2", "viewer")), all(doc("d2", "viewer")),
   to(doc("d2", "licensed"), "u"), on(doc("d1", "licensed"), member("g2")),
   all(doc("d1", "licensed")), to(member("g1"), "u"),
   on(member("g1"), member("g2")), on(member("g2"), member("g1"))}

\* The built-in model: a resource in a resource in a workspace.
res(r, rel) == <<"resource", r, rel>>
ws(rel) == <<"workspace", "w", rel>>
defaultNodes == {res(r, rel) : r \in {"r1", "r2"}, rel \in {"parent", "owner", "editor", "viewer"}}
                  \cup {ws(rel) : rel \in {"owner", "admin", "member", "guest", "editor", "viewer"}}
                  \cup {member("g1")}
defaultTuples ==
  {on(res("r1", "parent"), res("r2", "viewer")), on(res("r2", "parent"), ws("member")),
   on(res("r2", "parent"), res("r1", "viewer")), to(res("r1", "owner"), "u"),
   on(res("r2", "viewer"), member("g1")), to(ws("owner"), "u"), on(ws("admin"), member("g1")),
   to(ws("viewer"), "u"), to(member("g1"), "u")}

\* A diamond of groups above a document.
diamondNodes == {member(g) : g \in {"g1", "g2", "g3", "g4", "g5", "g6", "g7"}}
diamondTuples ==
  {on(member("g1"), member("g2")), on(member("g1"), member("g3")),
   on(member("g2"), member("g4")), on(member("g3"), member("g4")),
   on(member("g4"), member("g5")), on(member("g4"), member("g6")),
   on(member("g5"), member("g7")), on(member("g6"), member("g7"))}

\* Two nodes of different objects with one key, in groups that nest.
joined == <<"group", "g1", "lead#member">>
joined2 == <<"group", "g1#lead", "member">>
spelled(x) ==
  CASE x = "lead#member" -> <<"lead", "#", "member">>
    [] x = "g1#lead" -> <<"g1", "#", "lead">>
    [] OTHER -> <<x>>
spelledNodes == {joined, joined2, member("g1"), member("g2")}
spelledTuples ==
  {on(member("g2"), joined), on(member("g2"), joined2), on(member("g1"), member("g2")), on(joined, joined2),
   on(joined2, member("g1")), to(joined2, "u"), to(joined, "u"), on(joined, member("g2"))}

forth(T) == {Rules!inSomeOrder(T)}
bothWays(T) == forth(T) \cup {Reverse(o) : o \in forth(T)}

\* The depth limit is 8 unless the plan is about it; headroom is fanOutHeadroom.
Nest == INSTANCE Engine WITH
  Model <- nestModel, Tuples <- nestTuples, Nodes <- nestNodes, Orders <- bothWays(nestTuples),
  Users <- {"u"}, MaxDepth <- 8, Headroom <- 2, Spell <- name
Block == INSTANCE Engine WITH
  Model <- blockModel, Tuples <- blockTuples, Nodes <- blockNodes, Orders <- bothWays(blockTuples),
  Users <- {"u"}, MaxDepth <- 8, Headroom <- 2, Spell <- name
Deep == INSTANCE Engine WITH
  Model <- blockModel, Tuples <- blockTuples, Nodes <- blockNodes, Orders <- forth(blockTuples),
  Users <- {"u"}, MaxDepth <- 1, Headroom <- 2, Spell <- name
Both == INSTANCE Engine WITH
  Model <- bothModel, Tuples <- bothTuples, Nodes <- bothNodes, Orders <- bothWays(bothTuples),
  Users <- {"u", "v"}, MaxDepth <- 8, Headroom <- 2, Spell <- name
BuiltIn == INSTANCE Engine WITH
  Model <- Rules!DefaultModel, Tuples <- defaultTuples, Nodes <- defaultNodes, Orders <- forth(defaultTuples),
  Users <- {"u"}, MaxDepth <- 8, Headroom <- 2, Spell <- name
Diamond == INSTANCE Engine WITH
  Model <- << >>, Tuples <- diamondTuples, Nodes <- diamondNodes, Orders <- forth(diamondTuples),
  Users <- {"u"}, MaxDepth <- 8, Headroom <- 2, Spell <- name
Spelled == INSTANCE Engine WITH
  Model <- << >>, Tuples <- spelledTuples, Nodes <- spelledNodes, Orders <- bothWays(spelledTuples),
  Users <- {"u"}, MaxDepth <- 8, Headroom <- 2, Spell <- spelled

MCInit ==
  /\ plan \in Scenarios
  /\ \/ plan = "nest" /\ Nest!Init
     \/ plan = "block" /\ Block!Init
     \/ plan = "deep" /\ Deep!Init
     \/ plan = "both" /\ Both!Init
     \/ plan = "builtin" /\ BuiltIn!Init
     \/ plan = "diamond" /\ Diamond!Init
     \/ plan = "spelled" /\ Spelled!Init

MCNext ==
  /\ \/ plan = "nest" /\ Nest!Next
     \/ plan = "block" /\ Block!Next
     \/ plan = "deep" /\ Deep!Next
     \/ plan = "both" /\ Both!Next
     \/ plan = "builtin" /\ BuiltIn!Next
     \/ plan = "diamond" /\ Diamond!Next
     \/ plan = "spelled" /\ Spelled!Next
  /\ UNCHANGED plan

MCSpec == MCInit /\ [][MCNext]_vars
-----------------------------------------------------------------------------
(* Properties *)

\* Check never allows what the rules do not grant, whatever cycles the tuples
\* close and wherever the depth limit cuts an evaluation off: a cycle or a cut
\* under an exclusion counts as blocked; nor, in a model that only unites, where
\* names with separators give two nodes one key (check, visitKey, evalRewrite).
NeverOverGrants ==
  /\ plan = "block" => Block!NeverOverGrants
  /\ plan = "deep" => Deep!NeverOverGrants
  /\ plan = "spelled" => Spelled!NeverOverGrants

\* Where nodes have keys of their own, Check answers exactly what the rules say
\* wherever it meets no cycle, and in models without exclusions everywhere, in
\* whatever order the driver returns tuples; and under the built-in model a
\* stronger role includes the weaker ones, on an object and on all that lies
\* below it (check and its memo, DefaultModel).
ExactAnswers ==
  /\ plan = "both" => Both!ExactAnswers
  /\ plan = "nest" => Nest!ExactAnswers
  /\ plan = "block" => Block!ExactAnswers
  /\ plan = "builtin" => BuiltIn!ExactAnswers /\ BuiltIn!RolesNest

\* Without exclusions, conditions and shared keys, CheckSet is true exactly when
\* the queried set is itself under the relation or somebody belongs to both,
\* everyone included (CheckSetWithModel).
SetsIntersect ==
  /\ plan = "both" => Both!SetsIntersect
  /\ plan = "nest" => Nest!SetsIntersect

\* ListObjects returns every object Check allows and no other, although it tries
\* only objects with stored tuples (ListObjectsWithModel).
ListsEveryObject == plan = "nest" => Nest!ListsEveryObject

\* Reads are bounded and the bound is no answer: an evaluation within its budget
\* answers as without one and any other is an error, also in the middle of an
\* exclusion, where a denial would grant; an Expand that fits its cap is returned,
\* and shared groups are read once (charge, expandBudget, the memo).
ReadsAreBounded ==
  /\ plan = "block" => Block!BudgetIsNoAnswer
  /\ plan = "nest" => Nest!BudgetIsNoAnswer /\ Nest!TreesThatFitAreReturned
  /\ plan = "diamond" => Diamond!OneEvaluationPerNode

\* The members a set resolves to are users that satisfy it (resolveMembers).
MembersSatisfy == plan = "block" => Block!MembersSatisfy

\* CheckSet finds access only where some user's Check, with the same context,
\* finds it too: conditions count for sets as for users (CheckSetWithModel).
SetsMeetConditions == plan = "nest" => Nest!SetsMeetConditions
=============================================================================
