--------------------------- MODULE DataPlaneLemmas ---------------------------
(* What the data plane answers while others write between its reads: lemmas  *)
(* on the walk of an evaluation, on what holds of a request, and on the steps *)
(* of requests outside of a walk.  DataPlaneProofs has the others and the    *)
(* theorems.                                                                 *)
EXTENDS DataPlane, FiniteSetTheorems, SequenceTheorems, TLAPS

Fact == Tenants \X Nodes \X (Nodes \cup Users)
Question == Nodes \X Users
Token == [tenant : Tenants, seq : Nat, write : Nat]
Frame == [node : Nodes, rest : SUBSET (Nodes \cup Users), cycles : Nat]
Verdict == {"allow", "deny", "exhausted"}
Grant == [tenant : Tenants, node : Nodes, via : Nodes \cup Users \cup {None}]

Writer == {q \in [pc : {"active", "write", "token", "answered"}, op : {"WriteTuples"}, tenant : Tenants,
                  inserts : SUBSET Tuples, deletes : SUBSET Tuples, write : Nat \cup {None}] :
             q.pc = "token" => q.write \in Nat}
Eraser == [pc : {"deprovision", "answered"}, op : {"DeprovisionUser"}, user : Users]
Exporter == [pc : {"direct", "via", "answered"}, op : {"ExportSubjectGrants"}, user : Users,
             grants : SUBSET Grant]
Reader == [pc : {"ensure", "list", "check", "eval", "judged", "answered"},
           op : {"Check", "BatchCheck", "ListObjects"}, tenant : Tenants, token : Token \cup {None},
           items : Seq((Nodes \cup {None}) \X Users), i : Nat \ {0}, stack : Seq(Frame),
           memo : SUBSET Nodes, cycles : Nat, reads : Nat, verdict : Verdict \cup {None},
           results : Seq(Verdict)]
-----------------------------------------------------------------------------
(* A result is appended *)

LEMMA Appended ==
  ASSUME NEW out \in Seq(Verdict), NEW e \in Verdict
  PROVE  /\ Append(out, e) \in Seq(Verdict) /\ Len(Append(out, e)) = Len(out) + 1
         /\ DOMAIN Append(out, e) = 1..(Len(out) + 1) /\ DOMAIN out = 1..Len(out) /\ Len(out) \in Nat
         /\ \A k \in DOMAIN out : Append(out, e)[k] = out[k]
         /\ Append(out, e)[Len(out) + 1] = e
OBVIOUS

LEMMA LastOne ==
  ASSUME NEW m \in Nat, NEW i \in Nat, m = i - 1, NEW k \in 1..(m + 1), k \notin 1..m
  PROVE  k = i /\ k = m + 1
OBVIOUS

LEMMA OneOn == \A i \in Nat \ {0} : i + 1 \in Nat \ {0}
OBVIOUS
-----------------------------------------------------------------------------
(* Who is under a node *)

LEMMA LeadsMore ==
  ASSUME NEW T, NEW U, T \subseteq U, NEW a, NEW b, Leads(T, a, b)
  PROVE  Leads(U, a, b)
<1>1. PICK n \in 2..(MaxDepth + 2) : \E p \in [1..n -> Nodes \cup {b}] :
        p[1] = a /\ Way(T, p, n, b) /\ Simple(p, n)
  BY DEF Leads
<1>2. PICK p \in [1..n -> Nodes \cup {b}] : p[1] = a /\ Way(T, p, n, b) /\ Simple(p, n)
  BY <1>1
<1>3. Way(U, p, n, b)
  BY <1>2 DEF Way
<1> QED BY <1>1, <1>2, <1>3 DEF Leads

\* What is stored under no node leads nowhere.
LEMMA LeadsFrom ==
  ASSUME NEW T, NEW n \in Nodes, NEW u \in Users, Leads(T, n, u)
  PROVE  \E t \in T : t[1] = n
<1>1. PICK m \in 2..(MaxDepth + 2) : \E p \in [1..m -> Nodes \cup {u}] : p[1] = n /\ Way(T, p, m, u)
  BY DEF Leads
<1>2. PICK p \in [1..m -> Nodes \cup {u}] : p[1] = n /\ Way(T, p, m, u)
  BY <1>1
<1>3. 1 \in 1..(m - 1)
  BY <1>1, ConstantsAssumption
<1>4. <<p[1], p[1 + 1]>> \in T
  BY <1>2, <1>3 DEF Way
<1> QED BY <1>2, <1>4

LEMMA InHistory ==
  ASSUME NEW H \in SUBSET Fact, NEW t
  PROVE  /\ \A a, b : <<a, b>> \in of(H, t) <=> <<t, a, b>> \in H
         /\ \A x \in of(H, t) : x = <<x[1], x[2]>> /\ x[1] \in Nodes /\ x[2] \in Nodes \cup Users
BY DEF of, Fact

LEMMA HistoryGrows ==
  ASSUME NEW H, NEW G, H \subseteq G, NEW t
  PROVE  of(H, t) \subseteq of(G, t)
BY DEF of

\* A finite set as a sequence leaves nothing out.
LEMMA SeqOfSet ==
  ASSUME NEW S, IsFiniteSet(S)
  PROVE  /\ inOrder(S) \in Seq(S)
         /\ \A x \in S : \E k \in DOMAIN inOrder(S) : inOrder(S)[k] = x
<1> DEFINE n == Cardinality(S)
<1>1. n \in Nat /\ \E b : b \in Bijection(1..n, S)
  BY FS_CardinalityType DEF ExistsBijection
<1>2. inOrder(S) \in Bijection(1..n, S)
  BY <1>1 DEF inOrder
<1>3. inOrder(S) \in [1..n -> S] /\ \A x \in S : \E k \in 1..n : inOrder(S)[k] = x
  BY <1>2 DEF Bijection, Injection, Surjection
<1> QED BY <1>1, <1>3
-----------------------------------------------------------------------------
(* The walk of one evaluation: st the stack, root and user the question. *)

\* The stack is a way in T from the root, no longer than the limit allows, and
\* what is still to be looked at is under its nodes.
Sound(st, root, user, T) ==
  /\ Len(st) <= MaxDepth + 1
  /\ st # << >> => st[1].node = root
  /\ \A k \in DOMAIN st : \A s \in st[k].rest : s \in Nodes \cup {user} /\ <<st[k].node, s>> \in T
  /\ \A k \in DOMAIN st : k + 1 \in DOMAIN st => <<st[k].node, st[k + 1].node>> \in T
  /\ \A j, k \in DOMAIN st : st[j].node = st[k].node => j = k

\* Nothing that is remembered is on a way to the user.
Apart(memo, user, T) ==
  \A n \in Nat \ {0} : \A p : Way(T, p, n, user) => \A j \in 1..n : p[j] \notin memo

\* Counts grow along the stack; below a node since whose entry nothing was passed
\* over, all is remembered, on the stack, about to be (next) or to be looked at.
Counted(st, c) ==
  /\ \A k \in DOMAIN st : st[k].cycles <= c
  /\ \A j, k \in DOMAIN st : j <= k => st[j].cycles <= st[k].cycles
Clean(st, memo, c, user, T, next) ==
  \A k \in DOMAIN st : st[k].cycles = c =>
    \A b \in Nodes \cup {user} : <<st[k].node, b>> \in T =>
      \/ b \in memo \/ b \in st[k].rest
      \/ k + 1 \in DOMAIN st /\ b = st[k + 1].node
      \/ k = Len(st) /\ b \in next

\* The walk has followed p for k nodes, and the next one is among S.
Along(st, p, k, S) == (\A j \in 1..k : st[j].node = p[j]) /\ p[k + 1] \in S

\* Every way from the root to the user parts from the stack at a node that is
\* still to be looked at or, at the top, about to be entered.
Pending(st, root, user, T, next) ==
  \A n \in 2..(MaxDepth + 2) : \A p : p[1] = root /\ Way(T, p, n, user) /\ Simple(p, n) =>
    \/ \E k \in DOMAIN st : k < n /\ Along(st, p, k, st[k].rest)
    \/ Len(st) < n /\ Along(st, p, Len(st), next)

Explored(st, memo, c, root, user, T, next) ==
  /\ Apart(memo, user, T) /\ Counted(st, c)
  /\ Clean(st, memo, c, user, T, next) /\ Pending(st, root, user, T, next)

LEMMA FramesOf ==
  ASSUME NEW st \in Seq(Frame)
  PROVE  \A k \in DOMAIN st : st[k] \in Frame /\ st[k].node \in Nodes /\ st[k].cycles \in Nat
<1>1. \A k \in DOMAIN st : st[k] \in Frame
  OBVIOUS
<1> QED BY <1>1, Zenon DEF Frame

LEMMA SoundGrows ==
  ASSUME NEW st, NEW root, NEW user, NEW T, NEW U, T \subseteq U, Sound(st, root, user, T)
  PROVE  Sound(st, root, user, U)
BY DEF Sound

LEMMA ExploredShrinks ==
  ASSUME NEW st, NEW memo, NEW c, NEW root, NEW user, NEW T, NEW U, U \subseteq T, NEW next,
         Explored(st, memo, c, root, user, T, next)
  PROVE  Explored(st, memo, c, root, user, U, next)
<1>1. \A p, n : Way(U, p, n, user) => Way(T, p, n, user)
  BY DEF Way
<1>2. Apart(memo, user, U)
  BY <1>1 DEF Explored, Apart
<1>3. Clean(st, memo, c, user, U, next)
  BY DEF Explored, Clean
<1>4. Pending(st, root, user, U, next)
  BY <1>1, Zenon DEF Explored, Pending
<1> QED BY <1>2, <1>3, <1>4 DEF Explored

\* A walk begins: it is about to enter the root.
LEMMA Started ==
  ASSUME NEW root \in Nodes, NEW user \in Users, NEW T, NEW U
  PROVE  Sound(<< >>, root, user, T) /\ Explored(<< >>, {}, 0, root, user, U, {root})
<1>1. Sound(<< >>, root, user, T)
  BY ConstantsAssumption DEF Sound
<1>2. Apart({}, user, U) /\ Counted(<< >>, 0) /\ Clean(<< >>, {}, 0, user, U, {root})
  BY DEF Apart, Counted, Clean
<1>3. Pending(<< >>, root, user, U, {root})
  <2> SUFFICES ASSUME NEW n \in 2..(MaxDepth + 2), NEW p, p[1] = root
               PROVE  Len(<< >>) < n /\ Along(<< >>, p, Len(<< >>), {root})
    BY Zenon DEF Pending
  <2>1. Len(<< >>) = 0
    OBVIOUS
  <2> QED BY <2>1, ConstantsAssumption DEF Along
<1> QED BY <1>1, <1>2, <1>3 DEF Explored

\* A node is entered: D is what the read returns, of which U was there all along
\* and all of which was there at some time, T.
LEMMA Entered ==
  ASSUME NEW st \in Seq(Frame), NEW memo, NEW root \in Nodes, NEW user \in Users,
         NEW T, NEW U, NEW D, D \subseteq T, U \subseteq D,
         NEW m \in Nodes, NEW rest, NEW c \in Nat,
         \A b : b \in rest <=> <<m, b>> \in D /\ b \in Nodes \cup {user},
         Sound(st, root, user, T), Len(st) <= MaxDepth,
         st = << >> => m = root, st # << >> => <<st[Len(st)].node, m>> \in T,
         \A k \in DOMAIN st : st[k].node # m,
         Explored(st, memo, c, root, user, U, {m})
  PROVE  LET f == [node |-> m, rest |-> rest, cycles |-> c] IN
         /\ Append(st, f) \in Seq(Frame) /\ Append(st, f) # << >>
         /\ Sound(Append(st, f), root, user, T)
         /\ Explored(Append(st, f), memo, c, root, user, U, {})
<1> DEFINE f == [node |-> m, rest |-> rest, cycles |-> c]
           new == Append(st, f)
           l == Len(st)
<1>1. f \in Frame /\ f.node = m /\ f.rest = rest /\ f.cycles = c
  BY Zenon DEF Frame
<1> HIDE DEF f
<1>2. /\ new \in Seq(Frame) /\ DOMAIN new = 1..(l + 1) /\ Len(new) = l + 1 /\ l \in Nat /\ DOMAIN st = 1..l
      /\ \A k \in DOMAIN st : new[k] = st[k]
      /\ new[l + 1] = f
  BY <1>1
<1>3. l = 0 <=> st = << >>
  BY EmptySeq
<1>4. \A k \in DOMAIN st : st[k].cycles \in Nat
  BY FramesOf
<1> HIDE DEF new, l
<1>5. Sound(new, root, user, T)
  <2>1. Len(new) <= MaxDepth + 1
    BY <1>2, ConstantsAssumption DEF l
  <2>2. new[1].node = root
    <3>1. CASE l = 0
      BY <1>1, <1>2, <1>3, <3>1
    <3>2. CASE l # 0
      BY <1>2, <1>3, <3>2 DEF Sound
    <3> QED BY <3>1, <3>2
  <2>3. ASSUME NEW k \in DOMAIN new, NEW s \in new[k].rest
        PROVE  s \in Nodes \cup {user} /\ <<new[k].node, s>> \in T
    BY <1>1, <1>2 DEF Sound
  <2>4. ASSUME NEW k \in DOMAIN new, k + 1 \in DOMAIN new
        PROVE  <<new[k].node, new[k + 1].node>> \in T
    <3>1. CASE k = l
      BY <1>1, <1>2, <1>3, <3>1 DEF l
    <3>2. CASE k # l
      <4>1. k \in DOMAIN st /\ k + 1 \in DOMAIN st
        BY <1>2, <2>4, <3>2
      <4> QED BY <1>2, <4>1 DEF Sound
    <3> QED BY <3>1, <3>2
  <2>5. ASSUME NEW j \in DOMAIN new, NEW k \in DOMAIN new, new[j].node = new[k].node
        PROVE  j = k
    BY <1>1, <1>2, <2>5 DEF Sound
  <2> QED BY <2>1, <2>2, <2>3, <2>4, <2>5 DEF Sound
<1>6. Counted(new, c)
  <2>1. ASSUME NEW k \in DOMAIN new PROVE (k \in DOMAIN st /\ new[k] = st[k]) \/ (k = l + 1 /\ new[k] = f)
    <3>1. k \in 1..l \/ k = l + 1
      BY <1>2
    <3> QED BY <1>2, <3>1
  <2>2. Counted(st, c)
    BY DEF Explored
  <2>3. \A k \in DOMAIN new : new[k].cycles <= c
    BY <1>1, <2>1, <2>2 DEF Counted
  <2>4. ASSUME NEW j \in DOMAIN new, NEW k \in DOMAIN new, j <= k PROVE new[j].cycles <= new[k].cycles
    <3>1. CASE k = l + 1
      BY <1>1, <1>2, <2>3, <3>1
    <3>2. CASE k # l + 1
      BY <1>2, <2>1, <2>2, <2>4, <3>2 DEF Counted
    <3> QED BY <3>1, <3>2
  <2> QED BY <2>3, <2>4 DEF Counted
<1>7. Clean(new, memo, c, user, U, {})
  <2> SUFFICES ASSUME NEW k \in DOMAIN new, new[k].cycles = c,
                      NEW b \in Nodes \cup {user}, <<new[k].node, b>> \in U
               PROVE  b \in memo \/ b \in new[k].rest \/ (k + 1 \in DOMAIN new /\ b = new[k + 1].node)
    BY DEF Clean
  <2>1. CASE k = l + 1
    BY <1>1, <1>2, <2>1
  <2>2. CASE k # l + 1
    <3>1. k \in DOMAIN st /\ k + 1 \in DOMAIN new /\ new[k] = st[k]
      BY <1>2, <2>2
    <3>2. \/ b \in memo \/ b \in st[k].rest
          \/ k + 1 \in DOMAIN st /\ b = st[k + 1].node
          \/ k = l /\ b = m
      BY <3>1 DEF Explored, Clean, l
    <3> QED BY <1>1, <1>2, <3>1, <3>2
  <2> QED BY <2>1, <2>2
<1>8. Pending(new, root, user, U, {})
  <2> SUFFICES ASSUME NEW n \in 2..(MaxDepth + 2), NEW p, p[1] = root, Way(U, p, n, user), Simple(p, n)
               PROVE  \E k \in DOMAIN new : k < n /\ Along(new, p, k, new[k].rest)
    BY DEF Pending
  <2>1. CASE \E k \in DOMAIN st : k < n /\ Along(st, p, k, st[k].rest)
    <3>1. PICK k \in DOMAIN st : k < n /\ Along(st, p, k, st[k].rest)
      BY <2>1
    <3>2. \A j \in 1..k : j \in DOMAIN st
      BY <1>2
    <3>3. Along(new, p, k, new[k].rest)
      BY <1>2, <3>1, <3>2, Zenon DEF Along
    <3> QED BY <1>2, <3>1, <3>3
  <2>2. CASE l < n /\ Along(st, p, l, {m})
    <3>1. p[l + 1] = m /\ \A j \in 1..l : st[j].node = p[j]
      BY <2>2 DEF Along
    <3>2. l + 1 # n
      BY <3>1, ConstantsAssumption DEF Way
    <3>3. l + 1 < n /\ l + 1 \in 1..(n - 1) /\ n \in Nat
      BY <1>2, <2>2, <3>2, ConstantsAssumption
    <3>4. <<m, p[(l + 1) + 1]>> \in U /\ p[(l + 1) + 1] \in Nodes \cup {user}
      <4>1. (l + 1) + 1 \in 1..n
        BY <1>2, <3>3
      <4> QED BY <3>1, <3>3, <4>1 DEF Way
    <3>5. \A j \in 1..(l + 1) : new[j].node = p[j]
      BY <1>1, <1>2, <3>1
    <3>6. Along(new, p, l + 1, new[l + 1].rest)
      BY <1>1, <1>2, <3>4, <3>5 DEF Along
    <3> QED BY <1>2, <3>3, <3>6
  <2> QED BY <2>1, <2>2, Zenon DEF Explored, Pending, l
<1>9. Explored(new, memo, c, root, user, U, {})
  BY <1>6, <1>7, <1>8 DEF Explored
<1>10. new # << >>
  BY <1>2
<1> QED BY <1>2, <1>5, <1>9, <1>10 DEF new, f

\* One subject of the node at the top has been looked at.
LEMMA Looked ==
  ASSUME NEW st \in Seq(Frame), st # << >>, NEW memo, NEW c \in Nat, NEW root, NEW user, NEW T, NEW U, NEW s,
         Sound(st, root, user, T), Explored(st, memo, c, root, user, U, {})
  PROVE  LET new == [st EXCEPT ![Len(st)].rest = @ \ {s}] IN
         /\ new \in Seq(Frame) /\ new # << >> /\ Len(new) = Len(st)
         /\ \A k \in DOMAIN new : k \in DOMAIN st /\ new[k].node = st[k].node
         /\ Sound(new, root, user, T)
         /\ Explored(new, memo, c, root, user, U, {s})
<1> DEFINE new == [st EXCEPT ![Len(st)].rest = @ \ {s}]
<1>1. Len(st) \in DOMAIN st /\ DOMAIN st = 1..Len(st) /\ st[Len(st)] \in Frame /\ Len(st) \in Nat
  BY ElementOfSeq, EmptySeq
<1> DEFINE m == Len(st)
           top == [st[m] EXCEPT !.rest = @ \ {s}]
<1>2. top \in Frame /\ top.node = st[m].node /\ top.rest = st[m].rest \ {s} /\ top.cycles = st[m].cycles
  BY <1>1 DEF Frame
<1>3. new = [st EXCEPT ![m] = top]
  OBVIOUS
<1> HIDE DEF top, m, new
<1>4. /\ m \in DOMAIN st /\ st = [k \in DOMAIN st |-> st[k]] /\ \A k \in DOMAIN st : st[k] \in Frame
  BY <1>1 DEF m
<1>5. DOMAIN new = DOMAIN st /\ \A k \in DOMAIN st : new[k] = IF k = m THEN top ELSE st[k]
  BY <1>3, <1>4
<1>6. new \in Seq(Frame) /\ new # << >> /\ Len(new) = m
  <2>1. new = [k \in 1..Len(st) |-> new[k]] /\ \A k \in 1..Len(st) : new[k] \in Frame
    BY <1>1, <1>2, <1>3, <1>4, <1>5, Zenon
  <2>2. Len(st) \in Nat
    OBVIOUS
  <2> QED BY <1>1, <1>5, <2>1, <2>2 DEF m
<1>7. \A k \in DOMAIN st : /\ new[k].node = st[k].node /\ new[k].cycles = st[k].cycles
                           /\ new[k].rest \subseteq st[k].rest
                           /\ st[k].rest \subseteq new[k].rest \cup {s}
                           /\ k # m => new[k].rest = st[k].rest
  BY <1>2, <1>5
<1>8. Sound(new, root, user, T)
  <2>1. 1 \in DOMAIN st
    BY <1>1
  <2> QED BY <1>5, <1>6, <1>7, <2>1 DEF Sound, m
<1>9. Counted(new, c)
  BY <1>5, <1>7 DEF Explored, Counted
<1>10. Clean(new, memo, c, user, U, {s})
  <2> SUFFICES ASSUME NEW k \in DOMAIN new, new[k].cycles = c,
                      NEW b \in Nodes \cup {user}, <<new[k].node, b>> \in U
               PROVE  \/ b \in memo \/ b \in new[k].rest
                      \/ k + 1 \in DOMAIN new /\ b = new[k + 1].node
                      \/ k = Len(new) /\ b \in {s}
    BY DEF Clean
  <2>1. \/ b \in memo \/ b \in st[k].rest \/ (k + 1 \in DOMAIN st /\ b = st[k + 1].node)
    BY <1>5, <1>7 DEF Explored, Clean
  <2> QED BY <1>5, <1>6, <1>7, <2>1
<1>11. Pending(new, root, user, U, {s})
  <2> SUFFICES ASSUME NEW n \in 2..(MaxDepth + 2), NEW p, p[1] = root, Way(U, p, n, user), Simple(p, n)
               PROVE  \/ \E k \in DOMAIN new : k < n /\ Along(new, p, k, new[k].rest)
                      \/ Len(new) < n /\ Along(new, p, Len(new), {s})
    BY Zenon DEF Pending
  <2>1. PICK k \in DOMAIN st : k < n /\ Along(st, p, k, st[k].rest)
    BY DEF Explored, Pending, Along
  <2>2. \A j \in 1..k : new[j].node = p[j]
    <3>1. \A j \in 1..k : j \in DOMAIN st
      BY <1>1
    <3> QED BY <1>7, <2>1, <3>1 DEF Along
  <2>3. CASE p[k + 1] \in new[k].rest
    BY <1>5, <2>1, <2>2, <2>3 DEF Along
  <2>4. CASE p[k + 1] \notin new[k].rest
    <3>1. p[k + 1] = s /\ k = m
      BY <1>7, <2>1, <2>4 DEF Along
    <3> QED BY <1>6, <2>1, <2>2, <3>1 DEF Along
  <2> QED BY <2>3, <2>4
<1> QED BY <1>5, <1>6, <1>7, <1>8, <1>9, <1>10, <1>11, Zenon DEF Explored, new, m

\* It is in progress, or beyond the limit: it is passed over.
LEMMA PassedOver ==
  ASSUME NEW st \in Seq(Frame), NEW memo, NEW c \in Nat, NEW root, NEW user, NEW U, NEW s, s # user,
         Len(st) > MaxDepth \/ \E k \in DOMAIN st : st[k].node = s,
         Explored(st, memo, c, root, user, U, {s})
  PROVE  Explored(st, memo, c + 1, root, user, U, {})
<1>1. \A k \in DOMAIN st : st[k].cycles \in Nat /\ st[k].cycles <= c
  BY FramesOf DEF Explored, Counted
<1>2. Counted(st, c + 1) /\ Clean(st, memo, c + 1, user, U, {})
  BY <1>1 DEF Explored, Counted, Clean
<1>3. Pending(st, root, user, U, {})
  <2> SUFFICES ASSUME NEW n \in 2..(MaxDepth + 2), NEW p, p[1] = root, Way(U, p, n, user), Simple(p, n),
                      Len(st) < n, Along(st, p, Len(st), {s})
               PROVE  FALSE
    BY Zenon DEF Explored, Pending
  <2>1. p[Len(st) + 1] = s /\ (\A j \in 1..Len(st) : st[j].node = p[j]) /\ p[n] = user
    BY DEF Along, Way
  <2>2. Len(st) \in Nat /\ DOMAIN st = 1..Len(st) /\ n \in Nat /\ n <= MaxDepth + 2 /\ MaxDepth \in Nat
    BY ConstantsAssumption
  <2>3. Len(st) + 1 # n
    BY <2>1
  <2>4. Len(st) <= MaxDepth /\ Len(st) + 1 \in 1..n
    BY <2>2, <2>3
  <2>5. PICK k \in 1..Len(st) : st[k].node = s
    BY <2>2, <2>4
  <2>6. k \in 1..n /\ p[k] = p[Len(st) + 1]
    BY <2>1, <2>2, <2>5
  <2> QED BY <2>2, <2>4, <2>5, <2>6 DEF Simple
<1> QED BY <1>2, <1>3 DEF Explored

\* It is known to lead nowhere.
LEMMA Skipped ==
  ASSUME NEW st \in Seq(Frame), NEW memo, NEW c, NEW root, NEW user, NEW U, NEW s \in memo,
         Explored(st, memo, c, root, user, U, {s})
  PROVE  Explored(st, memo, c, root, user, U, {})
<1>1. Clean(st, memo, c, user, U, {})
  BY DEF Explored, Clean
<1>2. Pending(st, root, user, U, {})
  <2> SUFFICES ASSUME NEW n \in 2..(MaxDepth + 2), NEW p, p[1] = root, Way(U, p, n, user), Simple(p, n),
                      Len(st) < n, Along(st, p, Len(st), {s})
               PROVE  FALSE
    BY Zenon DEF Explored, Pending
  <2>1. p[Len(st) + 1] \in memo
    BY DEF Along
  <2>2. Len(st) + 1 \in 1..n /\ n \in Nat \ {0}
    BY ConstantsAssumption
  <2> QED BY <2>1, <2>2 DEF Explored, Apart
<1> QED BY <1>1, <1>2 DEF Explored

\* The node at the top is left, and remembered if nothing was passed over below it.
LEMMA Left ==
  ASSUME NEW st \in Seq(Frame), st # << >>, st[Len(st)].rest = {}, NEW memo \in SUBSET Nodes, NEW c \in Nat,
         NEW root, NEW user \in Users, NEW T, NEW U,
         Sound(st, root, user, T), Explored(st, memo, c, root, user, U, {})
  PROVE  LET kept == IF c = st[Len(st)].cycles THEN memo \cup {st[Len(st)].node} ELSE memo IN
         /\ pop(st) \in Seq(Frame) /\ Len(pop(st)) = Len(st) - 1
         /\ Sound(pop(st), root, user, T)
         /\ Explored(pop(st), kept, c, root, user, U, {})
<1> DEFINE m == Len(st)
           new == pop(st)
           kept == IF c = st[Len(st)].cycles THEN memo \cup {st[Len(st)].node} ELSE memo
<1>1. m \in Nat /\ m # 0 /\ DOMAIN st = 1..m
  BY EmptySeq
<1>2. new \in Seq(Frame) /\ DOMAIN new = 1..(m - 1) /\ Len(new) = m - 1 /\ \A k \in 1..(m - 1) : new[k] = st[k]
  BY <1>1 DEF pop
<1>3. /\ \A k \in DOMAIN new : k \in DOMAIN st /\ new[k] = st[k] /\ k + 1 \in DOMAIN st
      /\ \A k \in DOMAIN st : k \in DOMAIN new \/ k = m
      /\ m \in DOMAIN st /\ st[m].rest = {} /\ m + 1 \notin DOMAIN st
  BY <1>1, <1>2
<1>4. \A k \in DOMAIN st : st[k].cycles \in Nat /\ st[k].node \in Nodes
  BY FramesOf
<1>5. /\ kept = IF c = st[m].cycles THEN memo \cup {st[m].node} ELSE memo
      /\ memo \subseteq kept
  OBVIOUS
<1> HIDE DEF new, m, kept
<1>6. Sound(new, root, user, T)
  <2>1. Len(new) <= MaxDepth + 1
    BY <1>1, <1>2, ConstantsAssumption DEF Sound, m
  <2>2. new # << >> => new[1].node = root
    <3> SUFFICES ASSUME new # << >> PROVE new[1].node = root
      OBVIOUS
    <3>1. 1 \in DOMAIN new
      BY <1>2
    <3> QED BY <1>3, <3>1 DEF Sound
  <2>3. \A k \in DOMAIN new : \A s \in new[k].rest : s \in Nodes \cup {user} /\ <<new[k].node, s>> \in T
    BY <1>3, Zenon DEF Sound
  <2>4. \A k \in DOMAIN new : k + 1 \in DOMAIN new => <<new[k].node, new[k + 1].node>> \in T
    BY <1>3, Zenon DEF Sound
  <2>5. \A j, k \in DOMAIN new : new[j].node = new[k].node => j = k
    <3> SUFFICES ASSUME NEW j \in DOMAIN new, NEW k \in DOMAIN new, new[j].node = new[k].node
                 PROVE  j = k
      OBVIOUS
    <3>1. j \in DOMAIN st /\ k \in DOMAIN st /\ st[j].node = st[k].node
      BY <1>3, Zenon
    <3> QED BY <3>1, Zenon DEF Sound
  <2> QED BY <2>1, <2>2, <2>3, <2>4, <2>5, Zenon DEF Sound
<1>7. Counted(new, c)
  BY <1>3 DEF Explored, Counted
<1>8. Apart(kept, user, U)
  <2> SUFFICES ASSUME NEW n \in Nat \ {0}, NEW p, Way(U, p, n, user), NEW j \in 1..n, p[j] \in kept
               PROVE  FALSE
    BY DEF Apart
  <2>1. \A i \in 1..n : p[i] \notin memo
    BY DEF Explored, Apart
  <2>2. c = st[m].cycles /\ p[j] = st[m].node
    BY <1>5, <2>1
  <2>3. j # n
    BY <1>3, <1>4, <2>2, ConstantsAssumption DEF Way
  <2>4. j \in 1..(n - 1) /\ j + 1 \in 1..n
    BY <2>3
  <2>5. <<st[m].node, p[j + 1]>> \in U /\ p[j + 1] \in Nodes \cup {user}
    BY <2>2, <2>4 DEF Way
  <2>6. p[j + 1] \in memo
    BY <1>3, <2>2, <2>5 DEF Explored, Clean
  <2> QED BY <2>1, <2>4, <2>6
<1>9. Clean(new, kept, c, user, U, {})
  <2> SUFFICES ASSUME NEW k \in DOMAIN new, new[k].cycles = c,
                      NEW b \in Nodes \cup {user}, <<new[k].node, b>> \in U
               PROVE  b \in kept \/ b \in new[k].rest \/ (k + 1 \in DOMAIN new /\ b = new[k + 1].node)
    BY DEF Clean
  <2>1. b \in memo \/ b \in st[k].rest \/ (k + 1 \in DOMAIN st /\ b = st[k + 1].node)
    BY <1>3 DEF Explored, Clean
  <2>2. CASE k + 1 \in DOMAIN new
    BY <1>3, <1>5, <2>1, <2>2
  <2>3. CASE k + 1 \notin DOMAIN new
    <3>1. k + 1 = m
      BY <1>3, <2>3
    <3>2. st[k].cycles <= st[m].cycles /\ st[m].cycles <= c /\ st[k].cycles = c
      BY <1>1, <1>3, <3>1 DEF Explored, Counted
    <3>3. st[m].cycles = c
      BY <1>3, <1>4, <3>2
    <3> QED BY <1>3, <1>5, <2>1, <3>1, <3>3
  <2> QED BY <2>2, <2>3
<1>10. Pending(new, root, user, U, {})
  <2> SUFFICES ASSUME NEW n \in 2..(MaxDepth + 2), NEW p, p[1] = root, Way(U, p, n, user), Simple(p, n)
               PROVE  \E k \in DOMAIN new : k < n /\ Along(new, p, k, new[k].rest)
    BY DEF Pending
  <2>1. PICK k \in DOMAIN st : k < n /\ Along(st, p, k, st[k].rest)
    BY DEF Explored, Pending, Along
  <2>2. k # m
    BY <1>3, <2>1 DEF Along
  <2>3. k \in DOMAIN new /\ \A j \in 1..k : j \in DOMAIN new
    BY <1>2, <1>3, <2>2
  <2> QED BY <1>3, <2>1, <2>3, Zenon DEF Along
<1> QED BY <1>1, <1>2, <1>6, <1>7, <1>8, <1>9, <1>10 DEF Explored, new, m, kept

\* The root is left: no way to the user remains.
LEMMA Denied ==
  ASSUME NEW st \in Seq(Frame), Len(st) = 1, st[1].rest = {}, NEW memo, NEW c, NEW root, NEW user, NEW U,
         Explored(st, memo, c, root, user, U, {})
  PROVE  ~Leads(U, root, user)
<1>1. DOMAIN st = {1}
  BY SMTT(20)
<1> SUFFICES ASSUME NEW n \in 2..(MaxDepth + 2), NEW p, p[1] = root, Way(U, p, n, user), Simple(p, n)
             PROVE  FALSE
  BY DEF Leads
<1>2. PICK k \in DOMAIN st : Along(st, p, k, st[k].rest)
  BY DEF Explored, Pending, Along
<1> QED BY <1>1, <1>2 DEF Along

\* The user is under the node at the top: the stack leads there.
LEMMA Allowed ==
  ASSUME NEW st \in Seq(Frame), st # << >>, NEW root, NEW user \in Users, NEW T, Sound(st, root, user, T),
         user \in st[Len(st)].rest
  PROVE  Leads(T, root, user)
<1> DEFINE m == Len(st)
           n == m + 1
           p == [k \in 1..n |-> IF k <= m THEN st[k].node ELSE user]
<1>1. m \in Nat /\ m # 0 /\ DOMAIN st = 1..m
  BY EmptySeq
<1>2. \A k \in 1..m : st[k].node \in Nodes
  BY <1>1, FramesOf
<1>3. m <= MaxDepth + 1 /\ n \in 2..(MaxDepth + 2)
  BY <1>1, ConstantsAssumption DEF Sound
<1>4. (\A k \in 1..m : p[k] = st[k].node) /\ p[n] = user /\ p \in [1..n -> Nodes \cup {user}]
  BY <1>1, <1>2
<1> HIDE DEF p
<1>5. ASSUME NEW k \in 1..(n - 1) PROVE <<p[k], p[k + 1]>> \in T
  <2>1. k \in DOMAIN st
    BY <1>1
  <2>2. CASE k = m
    BY <1>1, <1>4, <2>1, <2>2 DEF Sound
  <2>3. CASE k # m
    <3>1. k + 1 \in DOMAIN st
      <4> HIDE DEF m
      <4> QED BY <1>1, <2>3
    <3>2. p[k] = st[k].node /\ p[k + 1] = st[k + 1].node
      BY <1>1, <1>4, <2>1, <3>1
    <3> QED BY <2>1, <3>1, <3>2 DEF Sound
  <2> QED BY <2>2, <2>3
<1>6. Simple(p, n)
  <2> SUFFICES ASSUME NEW j \in 1..n, NEW k \in 1..n, p[j] = p[k] PROVE j = k
    BY DEF Simple
  <2>1. CASE j # n /\ k # n
    BY <1>1, <1>4, <2>1 DEF Sound
  <2>2. CASE j = n \/ k = n
    <3>1. \A i \in 1..m : p[i] # p[n]
      BY <1>2, <1>4, ConstantsAssumption
    <3> QED BY <1>1, <2>2, <3>1
  <2> QED BY <2>1, <2>2
<1>7. p[1] = root
  BY <1>1, <1>4 DEF Sound
<1>8. Way(T, p, n, user)
  BY <1>4, <1>5 DEF Way
<1> QED BY <1>3, <1>4, <1>6, <1>7, <1>8 DEF Leads
-----------------------------------------------------------------------------
(* What holds of a request; E and A are the tuples there were at some time, *)
(* and all the time, since it may rely on them.                             *)

root(q) == q.items[q.i][1]
asker(q) == q.items[q.i][2]

\* The candidates are complete, and so is what was found out about them.
Listed(q, T) ==
  /\ \A n \in Nodes, u \in Users :
       Leads(T, n, u) /\ (q.items # << >> => u = q.items[1][2]) =>
         \E k \in DOMAIN q.items : q.items[k] = <<n, u>>
  /\ Len(q.results) = q.i - 1
  /\ \A k \in DOMAIN q.results : k \in DOMAIN q.items =>
       /\ q.results[k] # "exhausted"
       /\ q.results[k] = "deny" => ~Leads(T, q.items[k][1], q.items[k][2])

Judged(q, T, U) ==
  /\ q.verdict \in Verdict
  /\ q.verdict = "allow" => Leads(T, root(q), asker(q))
  /\ q.verdict = "deny" => ~Leads(U, root(q), asker(q))

\* A walk that has not begun is about to enter the root.
ahead(q) == IF q.stack = << >> THEN {root(q)} ELSE {}
Walking(q, T, U) ==
  /\ Sound(q.stack, root(q), asker(q), T)
  /\ Explored(q.stack, q.memo, q.cycles, root(q), asker(q), U, ahead(q))

ReadsOK(q, T, U) ==
  /\ q.pc = "list" => q.op = "ListObjects"
  /\ q.pc \in {"ensure", "list"} /\ q.op = "ListObjects" =>
       Len(q.items) = 1 /\ q.i = 1 /\ q.results = << >>
  /\ (q.pc = "ensure" /\ q.op # "ListObjects") \/ q.pc \in {"check", "eval", "judged"} =>
       q.items \in Seq(Question)
  /\ q.pc \in {"eval", "judged"} => q.i <= Len(q.items)
  /\ q.pc = "eval" => Walking(q, T, U)
  /\ q.pc = "judged" => Judged(q, T, U)
  /\ /\ q.op = "ListObjects"
     /\ q.pc \in {"check", "eval", "judged"} \/ (q.pc = "answered" /\ q.i > Len(q.items))
     => Listed(q, U)

ExportsOK(q, A) ==
  /\ q.pc = "via" => \A x \in A : x[3] = q.user => grant(x[1], x[2], None) \in q.grants
  /\ q.pc = "answered" => held(A, q.user) \subseteq q.grants

Good(q, E, A) ==
  \/ q = Idle \/ q \in Writer \/ q \in Eraser
  \/ q \in Exporter /\ ExportsOK(q, A)
  \/ q \in Reader /\ ReadsOK(q, of(E, q.tenant), of(A, q.tenant))

unread(q) == q.pc \in {"idle", "active", "write", "token", "deprovision"}
fresh(q) == q.pc \in {"ensure", "list", "direct"} \/ (q.pc = "check" /\ q.op # "ListObjects")
everOf(q, E, P) == IF unread(q) THEN {} ELSE IF fresh(q) THEN P ELSE E \cup P
alwaysOf(q, A, P) == IF unread(q) THEN {} ELSE IF fresh(q) THEN P ELSE A \cap P

LEMMA ListedShrinks ==
  ASSUME NEW q, NEW T, NEW U, U \subseteq T, Listed(q, T)
  PROVE  Listed(q, U)
<1>1. \A a, b : Leads(U, a, b) => Leads(T, a, b)
  BY LeadsMore
<1> QED BY <1>1, Zenon DEF Listed

\* What holds of a request that does not move still holds when others have.
LEMMA GoodStays ==
  ASSUME NEW q, NEW E, NEW A, NEW P, Good(q, E, A)
  PROVE  Good(q, everOf(q, E, P), alwaysOf(q, A, P))
<1>1. CASE q = Idle \/ q \in Writer \/ q \in Eraser
  BY <1>1 DEF Good
<1>2. CASE q \in Exporter /\ ExportsOK(q, A)
  <2>1. q.pc \in {"direct", "via", "answered"} /\ q.op = "ExportSubjectGrants"
    BY <1>2 DEF Exporter
  <2>2. q.pc # "direct" => alwaysOf(q, A, P) = A \cap P
    BY <2>1 DEF alwaysOf, unread, fresh
  <2>3. held(A \cap P, q.user) \subseteq held(A, q.user)
    BY DEF held
  <2>4. ExportsOK(q, alwaysOf(q, A, P))
    BY <1>2, <2>1, <2>2, <2>3 DEF ExportsOK
  <2> QED BY <1>2, <2>4 DEF Good
<1>3. CASE q \in Reader /\ ReadsOK(q, of(E, q.tenant), of(A, q.tenant))
  <2> DEFINE T == of(E, q.tenant)
             U == of(A, q.tenant)
             T2 == of(everOf(q, E, P), q.tenant)
             U2 == of(alwaysOf(q, A, P), q.tenant)
  <2>1. q.pc \in {"ensure", "list", "check", "eval", "judged", "answered"}
    BY <1>3, Zenon DEF Reader
  <2>2. CASE q.pc \in {"ensure", "list"} \/ (q.pc = "check" /\ q.op # "ListObjects")
    BY <1>3, <2>2 DEF ReadsOK, Good
  <2>3. CASE q.pc \in {"eval", "judged", "answered"} \/ (q.pc = "check" /\ q.op = "ListObjects")
    <3>1. T \subseteq T2 /\ U2 \subseteq U
      <4>1. E \subseteq everOf(q, E, P) /\ alwaysOf(q, A, P) \subseteq A
        BY <2>3 DEF everOf, alwaysOf, unread, fresh
      <4> QED BY <4>1, HistoryGrows
    <3> HIDE DEF T, U, T2, U2
    <3>2. Walking(q, T, U) => Walking(q, T2, U2)
      BY <3>1, SoundGrows, ExploredShrinks DEF Walking
    <3>3. Judged(q, T, U) => Judged(q, T2, U2)
      BY <3>1, LeadsMore DEF Judged
    <3>4. Listed(q, U) => Listed(q, U2)
      BY <3>1, ListedShrinks
    <3>5. ReadsOK(q, T, U)
      BY <1>3 DEF T, U
    <3>6. ReadsOK(q, T2, U2)
      BY <3>2, <3>3, <3>4, <3>5 DEF ReadsOK
    <3> QED BY <1>3, <3>6 DEF Good, T2, U2
  <2> QED BY <2>1, <2>2, <2>3
<1> QED BY <1>1, <1>2, <1>3 DEF Good
-----------------------------------------------------------------------------
TypeInv ==
  /\ tuples \in [Tenants -> SUBSET Tuples] /\ seq \in [Tenants -> Nat]
  /\ reflects \in [Tenants -> SUBSET Nat] /\ writes \in Nat /\ tokens \in SUBSET Token
  /\ req = [r \in Requests |-> req[r]]
  /\ ever \in [Requests -> SUBSET Fact] /\ always \in [Requests -> SUBSET Fact]
GoodInv == \A r \in Requests : Good(req[r], ever[r], always[r])
PlaneInv == TypeInv /\ GoodInv

LEMMA StoredFacts ==
  ASSUME NEW T \in [Tenants -> SUBSET Tuples]
  PROVE  LET stored == UNION {{<<t, x[1], x[2]>> : x \in T[t]} : t \in Tenants} IN
         /\ stored \in SUBSET Fact
         /\ \A t \in Tenants : \A a, b : <<t, a, b>> \in stored <=> <<a, b>> \in T[t]
<1> DEFINE stored == UNION {{<<t, x[1], x[2]>> : x \in T[t]} : t \in Tenants}
<1>1. \A t \in Tenants : \A x \in T[t] : x = <<x[1], x[2]>> /\ x[1] \in Nodes /\ x[2] \in Nodes \cup Users
  BY ConstantsAssumption
<1>2. stored \in SUBSET Fact
  BY <1>1 DEF Fact
<1>3. ASSUME NEW t \in Tenants, NEW a, NEW b PROVE <<t, a, b>> \in stored <=> <<a, b>> \in T[t]
  BY <1>1
<1> QED BY <1>2, <1>3

LEMMA PresentFacts ==
  ASSUME tuples \in [Tenants -> SUBSET Tuples]
  PROVE  /\ present \in SUBSET Fact
         /\ \A t \in Tenants : \A a, b : <<t, a, b>> \in present <=> <<a, b>> \in tuples[t]
BY StoredFacts DEF present

\* The step of a request, before the history of the others.
GoodStep(r) ==
  \E n : /\ req' = [req EXCEPT ![r] = n]
         /\ Good(n, ever[r] \cup present', always[r] \cap present')

LEMMA WitnessKeeps ==
  ASSUME PlaneInv, tuples' \in [Tenants -> SUBSET Tuples], Witness, NEW r \in Requests, GoodStep(r)
  PROVE  /\ req' = [s \in Requests |-> req'[s]]
         /\ ever' \in [Requests -> SUBSET Fact] /\ always' \in [Requests -> SUBSET Fact]
         /\ GoodInv'
<1>1. PICK n : /\ req' = [req EXCEPT ![r] = n]
               /\ Good(n, ever[r] \cup present', always[r] \cap present')
  BY Zenon DEF GoodStep
<1>2. req' = [s \in Requests |-> req'[s]] /\ \A s \in Requests : req'[s] = IF s = r THEN n ELSE req[s]
  BY <1>1, Zenon DEF PlaneInv, TypeInv
<1>3. present' \in SUBSET Fact
  BY StoredFacts DEF present
<1>4. /\ ever' = [s \in Requests |-> everOf(req'[s], ever[s], present')]
      /\ always' = [s \in Requests |-> alwaysOf(req'[s], always[s], present')]
  BY DEF Witness, everOf, alwaysOf, unread, fresh
<1>5. ever' \in [Requests -> SUBSET Fact] /\ always' \in [Requests -> SUBSET Fact]
  BY <1>3, <1>4 DEF PlaneInv, TypeInv, everOf, alwaysOf
<1>6. ASSUME NEW s \in Requests PROVE Good(req'[s], ever'[s], always'[s])
  <2>1. CASE s # r
    <3>1. Good(req[s], ever[s], always[s]) /\ req'[s] = req[s]
      BY <1>2, <2>1 DEF PlaneInv, GoodInv
    <3> QED BY <1>4, <3>1, GoodStays
  <2>2. CASE s = r
    <3>1. Good(n, everOf(n, ever[s] \cup present', present'), alwaysOf(n, always[s] \cap present', present'))
      BY <1>1, <2>2, GoodStays
    <3>2. /\ everOf(n, ever[s] \cup present', present') = everOf(n, ever[s], present')
          /\ alwaysOf(n, always[s] \cap present', present') = alwaysOf(n, always[s], present')
      BY Zenon DEF everOf, alwaysOf
    <3> QED BY <1>2, <1>4, <2>2, <3>1, <3>2
  <2> QED BY <2>1, <2>2, Zenon
<1> QED BY <1>2, <1>5, <1>6 DEF GoodInv
-----------------------------------------------------------------------------
(* The steps of a request that reads *)

\* In the tenant of request r: what there was, was throughout, and is.
was(r) == of(ever[r] \cup present, req[r].tenant)
stayed(r) == of(always[r] \cap present, req[r].tenant)
is(r) == of(present, req[r].tenant)

LEMMA ReadsMono ==
  ASSUME NEW q, NEW T, NEW U, NEW T2, NEW U2, T \subseteq T2, U2 \subseteq U, ReadsOK(q, T, U)
  PROVE  ReadsOK(q, T2, U2)
<1>1. Walking(q, T, U) => Walking(q, T2, U2)
  BY SoundGrows, ExploredShrinks DEF Walking
<1>2. Judged(q, T, U) => Judged(q, T2, U2)
  BY LeadsMore DEF Judged
<1>3. Listed(q, U) => Listed(q, U2)
  BY ListedShrinks
<1> QED BY <1>1, <1>2, <1>3 DEF ReadsOK

LEMMA ReaderKnows ==
  ASSUME PlaneInv, NEW r \in Requests, req[r].pc \in {"ensure", "list", "check", "eval", "judged"}
  PROVE  /\ req[r] \in Reader
         /\ ReadsOK(req[r], was(r), stayed(r))
         /\ is(r) \subseteq was(r) /\ stayed(r) \subseteq is(r)
         /\ \A x \in stayed(r) : x = <<x[1], x[2]>> /\ x[1] \in Nodes /\ x[2] \in Nodes \cup Users
         /\ \A a, b : <<a, b>> \in is(r) <=> <<a, b>> \in tuples[req[r].tenant]
<1>1. Good(req[r], ever[r], always[r])
  BY DEF PlaneInv, GoodInv
<1>2. req[r] \in Reader /\ ReadsOK(req[r], of(ever[r], req[r].tenant), of(always[r], req[r].tenant))
  BY <1>1 DEF Good, Idle, Writer, Eraser, Exporter
<1>3. req[r].tenant \in Tenants
  BY <1>2 DEF Reader
<1>4. present \in SUBSET Fact /\ always[r] \in SUBSET Fact
  BY PresentFacts DEF PlaneInv, TypeInv
<1>5. /\ of(ever[r], req[r].tenant) \subseteq was(r) /\ is(r) \subseteq was(r)
      /\ stayed(r) \subseteq of(always[r], req[r].tenant) /\ stayed(r) \subseteq is(r)
  BY HistoryGrows DEF was, stayed, is
<1>6. ReadsOK(req[r], was(r), stayed(r))
  BY <1>2, <1>5, ReadsMono
<1>7. \A x \in stayed(r) : x = <<x[1], x[2]>> /\ x[1] \in Nodes /\ x[2] \in Nodes \cup Users
  BY <1>4, InHistory DEF stayed
<1>8. \A a, b : <<a, b>> \in is(r) <=> <<a, b>> \in tuples[req[r].tenant]
  <2>1. \A a, b : <<a, b>> \in is(r) <=> <<req[r].tenant, a, b>> \in present
    BY <1>4, InHistory, Zenon DEF is
  <2> QED BY <1>3, <2>1, PresentFacts, Zenon DEF PlaneInv, TypeInv
<1> QED BY <1>2, <1>5, <1>6, <1>7, <1>8

LEMMA ReaderMoves ==
  ASSUME PlaneInv, NEW r \in Requests, tuples' = tuples,
         NEW n \in Reader, req' = [req EXCEPT ![r] = n], n.tenant = req[r].tenant,
         ReadsOK(n, was(r), stayed(r))
  PROVE  GoodStep(r)
<1>1. present' = present
  BY DEF present
<1>2. Good(n, ever[r] \cup present, always[r] \cap present)
  BY DEF Good, was, stayed
<1> QED BY <1>1, <1>2, Zenon DEF GoodStep

\* A reader whose place alone changes.
LEMMA AtPc ==
  ASSUME NEW q \in Reader, NEW pc \in {"list", "check", "answered"}
  PROVE  LET n == [q EXCEPT !.pc = pc] IN
         /\ n \in Reader /\ n.pc = pc /\ n.tenant = q.tenant /\ n.op = q.op /\ n.items = q.items
         /\ n.i = q.i /\ n.results = q.results
BY Zenon DEF Reader

LEMMA AnswerReads ==
  ASSUME NEW q \in Reader, NEW T, NEW U, NEW n \in Reader, n.pc = "answered",
         n.op = q.op, n.items = q.items, n.i = q.i, n.results = q.results,
         q.op = "ListObjects" => Listed(q, U) \/ q.i <= Len(q.items)
  PROVE  ReadsOK(n, T, U)
<1>1. q.items \in Seq((Nodes \cup {None}) \X Users) /\ q.i \in Nat
  BY DEF Reader
<1>2. q.i <= Len(q.items) => ~(n.i > Len(n.items))
  BY <1>1
<1>3. Listed(q, U) => Listed(n, U)
  BY Zenon DEF Listed
<1> QED BY <1>2, <1>3 DEF ReadsOK

LEMMA EnsureGood ==
  ASSUME PlaneInv, NEW r \in Requests, EnsureConsistency(r)
  PROVE  GoodStep(r)
<1> DEFINE q == req[r]
<1>1. q.pc = "ensure" /\ tuples' = tuples
  BY DEF EnsureConsistency, store
<1>2. q \in Reader /\ ReadsOK(q, was(r), stayed(r))
  BY <1>1, ReaderKnows
<1>3. PICK pc \in {"list", "check", "answered"} :
        to(r, pc) /\ (pc = "list" => q.op = "ListObjects") /\ (pc = "check" => q.op # "ListObjects")
  BY DEF EnsureConsistency, answer
<1> DEFINE n == [q EXCEPT !.pc = pc]
<1>4. /\ n \in Reader /\ n.pc = pc /\ n.tenant = q.tenant /\ n.op = q.op /\ n.items = q.items
      /\ n.i = q.i /\ n.results = q.results
  BY <1>2, AtPc, Zenon
<1>5. req' = [req EXCEPT ![r] = n]
  BY <1>3 DEF to, PlaneInv, TypeInv
<1> HIDE DEF n
<1>6. CASE pc = "answered"
  <2>1. q.op = "ListObjects" => Len(q.items) = 1 /\ q.i = 1
    BY <1>1, <1>2 DEF ReadsOK
  <2>2. ASSUME q.op = "ListObjects" PROVE q.i <= Len(q.items)
    <3>1. q.i = 1 /\ Len(q.items) = 1
      BY <2>1, <2>2
    <3> QED BY <3>1
  <2>3. ReadsOK(n, was(r), stayed(r))
    BY <1>2, <1>4, <1>6, <2>2, AnswerReads, Zenon
  <2> QED BY <1>1, <1>4, <1>5, <2>3, ReaderMoves, ZenonT(30)
<1>7. CASE pc # "answered"
  <2>1. ReadsOK(n, was(r), stayed(r))
    BY <1>1, <1>2, <1>3, <1>4, <1>7 DEF ReadsOK
  <2> QED BY <1>1, <1>4, <1>5, <2>1, ReaderMoves, Zenon
<1> QED BY <1>6, <1>7

LEMMA ListGood ==
  ASSUME PlaneInv, NEW r \in Requests, ListObjects(r)
  PROVE  GoodStep(r)
<1> DEFINE q == req[r]
<1>1. q.pc = "list" /\ tuples' = tuples
  BY DEF ListObjects, store
<1>2. /\ q \in Reader /\ ReadsOK(q, was(r), stayed(r)) /\ stayed(r) \subseteq is(r)
      /\ \A x \in stayed(r) : x = <<x[1], x[2]>>
      /\ \A a, b : <<a, b>> \in is(r) <=> <<a, b>> \in tuples[q.tenant]
  BY <1>1, ReaderKnows
<1>3. q.op = "ListObjects" /\ Len(q.items) = 1 /\ q.i = 1 /\ q.results = << >>
  BY <1>1, <1>2 DEF ReadsOK
<1>4. CASE suspended
  <2> DEFINE n == [q EXCEPT !.pc = "answered"]
  <2>1. /\ n \in Reader /\ n.pc = "answered" /\ n.tenant = q.tenant /\ n.op = q.op /\ n.items = q.items
        /\ n.i = q.i /\ n.results = q.results
    BY <1>2, AtPc, Zenon
  <2>2. req' = [req EXCEPT ![r] = n]
    BY <1>4 DEF ListObjects, answer, to, PlaneInv, TypeInv
  <2> HIDE DEF n
  <2>3. ReadsOK(n, was(r), stayed(r))
    BY <1>2, <1>3, <2>1, AnswerReads
  <2> QED BY <1>1, <2>1, <2>2, <2>3, ReaderMoves, Zenon
<1>5. CASE ~suspended
  <2> DEFINE ids == {t[1] : t \in tuples[q.tenant]}
             user == q.items[1][2]
             asked == {<<m, user>> : m \in ids}
             items == inOrder(asked)
             n == [q EXCEPT !.pc = "check", !.items = items]
  <2>1. user \in Users /\ q.tenant \in Tenants
    BY <1>2, <1>3 DEF Reader
  <2>2. ids \in SUBSET Nodes /\ \A a, b : <<a, b>> \in tuples[q.tenant] => a \in ids
    BY <2>1, ConstantsAssumption DEF PlaneInv, TypeInv
  <2>3. IsFiniteSet(asked)
    <3>1. IsFiniteSet(Nodes \X {user})
      BY ConstantsAssumption, FS_Singleton, FS_Product, Zenon
    <3> QED BY <2>2, <3>1, FS_Subset
  <2>4. items \in Seq(asked) /\ \A x \in asked : \E k \in DOMAIN items : items[k] = x
    BY <2>3, SeqOfSet, Zenon
  <2>5. items \in Seq(Question) /\ items \in Seq((Nodes \cup {None}) \X Users)
    <3>1. asked \subseteq Question /\ asked \subseteq (Nodes \cup {None}) \X Users
      BY <2>1, <2>2 DEF Question
    <3> HIDE DEF asked, items
    <3> QED BY <2>4, <3>1
  <2>6. items # << >> => items[1][2] = user
    <3>1. \A x \in asked : x[2] = user
      OBVIOUS
    <3>2. items # << >> => items[1] \in asked
      <4> HIDE DEF asked, items
      <4> QED BY <2>4
    <3> QED BY <3>1, <3>2
  <2>7. req' = [req EXCEPT ![r] = n]
    BY <1>5, Zenon DEF ListObjects, PlaneInv, TypeInv
  <2> HIDE DEF items
  <2>8. /\ n \in Reader /\ n.pc = "check" /\ n.tenant = q.tenant /\ n.op = "ListObjects" /\ n.items = items
        /\ n.i = 1 /\ n.results = << >>
    BY <1>2, <1>3, <2>5, Zenon DEF Reader
  <2>9. ASSUME NEW m \in Nodes, NEW u \in Users, Leads(stayed(r), m, u),
               items # << >> => u = items[1][2]
        PROVE  \E k \in DOMAIN items : items[k] = <<m, u>>
    <3>1. PICK t \in stayed(r) : t[1] = m
      BY <2>9, LeadsFrom
    <3>2. m \in ids
      BY <1>2, <2>2, <3>1
    <3>3. PICK k \in DOMAIN items : items[k] = <<m, user>>
      BY <2>4, <3>2, Zenon
    <3>4. items # << >>
      BY <3>3
    <3> QED BY <2>6, <2>9, <3>3, <3>4
  <2> HIDE DEF n
  <2>10. Listed(n, stayed(r))
    BY <2>8, <2>9 DEF Listed
  <2>11. ReadsOK(n, was(r), stayed(r))
    BY <2>5, <2>8, <2>10 DEF ReadsOK
  <2> QED BY <1>1, <2>7, <2>8, <2>11, ReaderMoves, Zenon
<1> QED BY <1>4, <1>5

Same(q, n) == n.tenant = q.tenant /\ n.op = q.op /\ n.items = q.items /\ n.i = q.i /\ n.results = q.results

LEMMA SameListed ==
  ASSUME NEW q, NEW n, Same(q, n), NEW U, Listed(q, U)
  PROVE  Listed(n, U)
BY Zenon DEF Same, Listed

\* A walk begins, goes on or ends.
LEMMA EvalReads ==
  ASSUME NEW q, NEW T, NEW U, ReadsOK(q, T, U), q.pc \in {"check", "eval"}, q.i <= Len(q.items),
         NEW n, n.pc = "eval", Same(q, n), Walking(n, T, U)
  PROVE  ReadsOK(n, T, U)
<1>1. Listed(q, U) => Listed(n, U)
  BY SameListed
<1> QED BY <1>1 DEF ReadsOK, Same

LEMMA JudgeReads ==
  ASSUME NEW q \in Reader, NEW T, NEW U, ReadsOK(q, T, U), q.pc = "eval", NEW v \in Verdict,
         v = "allow" => Leads(T, root(q), asker(q)),
         v = "deny" => ~Leads(U, root(q), asker(q))
  PROVE  LET n == [q EXCEPT !.pc = "judged", !.verdict = v] IN
         n \in Reader /\ n.tenant = q.tenant /\ ReadsOK(n, T, U)
<1> DEFINE n == [q EXCEPT !.pc = "judged", !.verdict = v]
<1>1. n \in Reader /\ n.pc = "judged" /\ n.verdict = v /\ Same(q, n)
  BY Zenon DEF Reader, Same
<1> HIDE DEF n
<1>2. Judged(n, T, U)
  BY <1>1 DEF Judged, Same, root, asker
<1>3. Listed(q, U) => Listed(n, U)
  BY <1>1, SameListed, Zenon
<1>4. ReadsOK(n, T, U)
  BY <1>1, <1>2, <1>3 DEF ReadsOK, Same
<1> QED BY <1>1, <1>4 DEF n, Same

LEMMA CheckGood ==
  ASSUME PlaneInv, NEW r \in Requests, Check(r)
  PROVE  GoodStep(r)
<1> DEFINE q == req[r]
<1>1. q.pc = "check" /\ tuples' = tuples
  BY DEF Check, store
<1>2. q \in Reader /\ ReadsOK(q, was(r), stayed(r))
  BY <1>1, ReaderKnows, Zenon
<1>3. q.items \in Seq(Question) /\ q.i \in Nat \ {0} /\ Len(q.items) \in Nat /\ q.results \in Seq(Verdict)
  BY <1>1, <1>2 DEF ReadsOK, Reader
<1>4. CASE q.i > Len(q.items)
  <2> DEFINE n == [q EXCEPT !.pc = "answered"]
  <2>1. /\ n \in Reader /\ n.pc = "answered" /\ n.tenant = q.tenant /\ n.op = q.op /\ n.items = q.items
        /\ n.i = q.i /\ n.results = q.results
    BY <1>2, AtPc, Zenon
  <2>2. req' = [req EXCEPT ![r] = n]
    <3>1. to(r, "answered")
      BY <1>3, <1>4 DEF Check, answer
    <3> QED BY <3>1 DEF to, PlaneInv, TypeInv
  <2> HIDE DEF n
  <2>3. q.op = "ListObjects" => Listed(q, stayed(r))
    BY <1>1, <1>2, Zenon DEF ReadsOK
  <2>4. ReadsOK(n, was(r), stayed(r))
    BY <1>2, <2>1, <2>3, AnswerReads
  <2> QED BY <1>1, <2>1, <2>2, <2>4, ReaderMoves, Zenon
<1>5. CASE q.i <= Len(q.items) /\ suspended /\ q.op # "ListObjects"
  <2> DEFINE n == [q EXCEPT !.results = Append(@, "deny"), !.i = @ + 1]
  <2>1. Append(q.results, "deny") \in Seq(Verdict) /\ q.i + 1 \in Nat \ {0}
    BY <1>3 DEF Verdict
  <2>2. n \in Reader /\ n.pc = "check" /\ n.op # "ListObjects" /\ n.items = q.items /\ n.tenant = q.tenant
    BY <1>1, <1>2, <1>5, <2>1, Zenon DEF Reader
  <2>3. req' = [req EXCEPT ![r] = n]
    BY <1>3, <1>5 DEF Check, PlaneInv, TypeInv
  <2> HIDE DEF n
  <2>4. ReadsOK(n, was(r), stayed(r))
    BY <1>3, <2>2 DEF ReadsOK
  <2> QED BY <1>1, <2>2, <2>3, <2>4, ReaderMoves, Zenon
<1>6. CASE q.i <= Len(q.items) /\ ~(suspended /\ q.op # "ListObjects")
  <2> DEFINE reads == IF q.op = "ListObjects" THEN q.reads ELSE 0
             n == [q EXCEPT !.pc = "eval", !.stack = << >>, !.memo = {}, !.cycles = 0, !.reads = reads]
  <2>1. reads \in Nat
    BY <1>2 DEF Reader
  <2>2. req' = [req EXCEPT ![r] = n]
    BY <1>3, <1>6 DEF Check, PlaneInv, TypeInv
  <2> HIDE DEF reads
  <2>3. n \in Reader /\ n.pc = "eval" /\ n.stack = << >> /\ n.memo = {} /\ n.cycles = 0 /\ Same(q, n)
    <3>1. n \in Reader
      <4>1. << >> \in Seq(Frame) /\ {} \in SUBSET Nodes /\ 0 \in Nat
        OBVIOUS
      <4> DEFINE m == [q EXCEPT !.pc = "eval", !.stack = << >>, !.memo = {}]
      <4>2. m \in Reader
        BY <1>2, <4>1, Zenon DEF Reader
      <4>3. n = [m EXCEPT !.cycles = 0, !.reads = reads]
        BY <1>2 DEF Reader
      <4> HIDE DEF m
      <4> QED BY <2>1, <4>1, <4>2, <4>3, ZenonT(30) DEF Reader
    <3>2. n.pc = "eval" /\ n.stack = << >> /\ n.memo = {} /\ n.cycles = 0
      BY <1>2 DEF Reader
    <3>3. Same(q, n)
      BY <1>2 DEF Reader, Same
    <3> QED BY <3>1, <3>2, <3>3
  <2> HIDE DEF n
  <2>4. root(n) \in Nodes /\ asker(n) \in Users
    <3>1. n.items[n.i] \in Question
      BY <1>3, <1>6, <2>3 DEF Same
    <3> QED BY <3>1 DEF Question, root, asker
  <2>5. Walking(n, was(r), stayed(r))
    BY <2>3, <2>4, Started, Zenon DEF Walking, ahead
  <2>6. ReadsOK(n, was(r), stayed(r))
    BY <1>1, <1>2, <1>6, <2>3, <2>5, EvalReads, Zenon
  <2> QED BY <1>1, <2>2, <2>3, <2>6, ReaderMoves, Zenon DEF Same
<1> QED BY <1>3, <1>4, <1>5, <1>6
-----------------------------------------------------------------------------
(* The other requests *)

LEMMA OtherKinds ==
  ASSUME PlaneInv, NEW r \in Requests
  PROVE  /\ req[r].pc \in {"active", "write", "token"} => req[r] \in Writer
         /\ req[r].pc = "deprovision" => req[r] \in Eraser
         /\ req[r].pc \in {"direct", "via"} => req[r] \in Exporter /\ ExportsOK(req[r], always[r])
<1>1. Good(req[r], ever[r], always[r])
  BY DEF PlaneInv, GoodInv
<1>2. Idle.pc = "idle" /\ (req[r] \in Writer => req[r].pc \in {"active", "write", "token", "answered"})
  BY DEF Idle, Writer
<1>3. /\ req[r] \in Eraser => req[r].pc \in {"deprovision", "answered"}
      /\ req[r] \in Exporter => req[r].pc \in {"direct", "via", "answered"}
  BY DEF Eraser, Exporter
<1>4. req[r] \in Reader => req[r].pc \in {"ensure", "list", "check", "eval", "judged", "answered"}
  BY DEF Reader
<1>5. \/ req[r] = Idle \/ req[r] \in Writer \/ req[r] \in Eraser \/ req[r] \in Reader
      \/ req[r] \in Exporter /\ ExportsOK(req[r], always[r])
  BY <1>1, Zenon DEF Good
<1> QED BY ONLY <1>2, <1>3, <1>4, <1>5

\* A request with nothing to show for what it read.
LEMMA PlainStep ==
  ASSUME NEW r, NEW n, req' = [req EXCEPT ![r] = n], n = Idle \/ n \in Writer \/ n \in Eraser
  PROVE  GoodStep(r)
BY Zenon DEF GoodStep, Good

LEMMA EndGood ==
  ASSUME NEW r, Return(r) \/ Abort(r)
  PROVE  GoodStep(r)
BY PlainStep DEF Return, Abort

LEMMA AnswersPlainly ==
  ASSUME PlaneInv, NEW r \in Requests, req[r] \in Writer \/ req[r] \in Eraser, answer(r)
  PROVE  GoodStep(r)
<1> DEFINE n == [req[r] EXCEPT !.pc = "answered"]
<1>1. n \in Writer \/ n \in Eraser
  BY DEF Writer, Eraser
<1>2. req' = [req EXCEPT ![r] = n]
  BY DEF answer, to, PlaneInv, TypeInv
<1> HIDE DEF n
<1> QED BY <1>1, <1>2, PlainStep, Zenon

LEMMA ActiveGood ==
  ASSUME PlaneInv, NEW r \in Requests, ensureProjectActive(r)
  PROVE  GoodStep(r)
<1>1. req[r].pc = "active" /\ req[r] \in Writer
  BY OtherKinds DEF ensureProjectActive
<1>2. CASE suspended
  BY <1>1, <1>2, AnswersPlainly DEF ensureProjectActive
<1>3. CASE ~suspended
  <2> DEFINE n == [req[r] EXCEPT !.pc = "write"]
  <2>1. n \in Writer
    BY <1>1, Zenon DEF Writer
  <2>2. req' = [req EXCEPT ![r] = n]
    BY <1>3 DEF ensureProjectActive, to, PlaneInv, TypeInv
  <2> HIDE DEF n
  <2> QED BY <2>1, <2>2, PlainStep, Zenon
<1> QED BY <1>2, <1>3

LEMMA WriteGood ==
  ASSUME PlaneInv, NEW r \in Requests, WriteTuples(r)
  PROVE  /\ GoodStep(r)
         /\ tuples' \in [Tenants -> SUBSET Tuples] /\ seq' \in [Tenants -> Nat]
         /\ reflects' \in [Tenants -> SUBSET Nat] /\ writes' \in Nat /\ tokens' = tokens
<1> DEFINE q == req[r]
           n == [q EXCEPT !.pc = "token", !.write = writes + 1]
<1>1. q.pc = "write" /\ q \in Writer /\ tokens' = tokens
  BY OtherKinds DEF WriteTuples
<1>2. q.tenant \in Tenants /\ q.inserts \in SUBSET Tuples /\ writes + 1 \in Nat
  BY <1>1 DEF Writer, PlaneInv, TypeInv
<1>3. /\ tuples' = [tuples EXCEPT ![q.tenant] = (@ \ q.deletes) \cup q.inserts]
      /\ seq' = [seq EXCEPT ![q.tenant] = @ + 1] /\ writes' = writes + 1
      /\ reflects' = [reflects EXCEPT ![q.tenant] = @ \cup {writes + 1}]
      /\ req' = [req EXCEPT ![r].pc = "token", ![r].write = writes + 1]
  BY DEF WriteTuples
<1>4. tuples' \in [Tenants -> SUBSET Tuples] /\ seq' \in [Tenants -> Nat] /\ writes' \in Nat
  BY <1>2, <1>3 DEF PlaneInv, TypeInv
<1>5. reflects' \in [Tenants -> SUBSET Nat]
  BY <1>2, <1>3 DEF PlaneInv, TypeInv
<1>6. n \in Writer
  BY <1>1, <1>2, Zenon DEF Writer
<1>7. req' = [req EXCEPT ![r] = n]
  BY <1>3, Zenon DEF PlaneInv, TypeInv
<1> HIDE DEF n
<1> QED BY <1>1, <1>4, <1>5, <1>6, <1>7, PlainStep, ZenonT(30)

LEMMA EncodeGood ==
  ASSUME PlaneInv, NEW r \in Requests, Encode(r)
  PROVE  GoodStep(r) /\ tokens' \in SUBSET Token
<1>1. req[r] \in Writer /\ req[r].pc = "token" /\ answer(r)
  BY OtherKinds DEF Encode
<1>2. [tenant |-> req[r].tenant, seq |-> seq[req[r].tenant], write |-> req[r].write] \in Token
  BY <1>1 DEF Writer, Token, PlaneInv, TypeInv
<1> QED BY <1>1, <1>2, AnswersPlainly, Zenon DEF Encode, PlaneInv, TypeInv

LEMMA DeprovisionGood ==
  ASSUME PlaneInv, NEW r \in Requests, DeprovisionUser(r)
  PROVE  GoodStep(r) /\ tuples' \in [Tenants -> SUBSET Tuples]
BY OtherKinds, AnswersPlainly DEF DeprovisionUser, PlaneInv, TypeInv

LEMMA DirectGood ==
  ASSUME PlaneInv, NEW r \in Requests, ListSubjectTuplesInProject(r)
  PROVE  GoodStep(r)
<1> DEFINE q == req[r]
           G == UNION {{grant(t, x[1], None) : x \in {y \in tuples[t] : y[2] = q.user}} : t \in Tenants}
           n == [q EXCEPT !.pc = "via", !.grants = G]
<1>1. q \in Exporter /\ q.pc = "direct" /\ tuples' = tuples
  BY OtherKinds DEF ListSubjectTuplesInProject, store
<1>2. G \in SUBSET Grant
  BY ConstantsAssumption DEF Grant, grant, PlaneInv, TypeInv
<1>3. \A x \in present : x[3] = q.user => grant(x[1], x[2], None) \in G
  BY DEF present
<1>4. req' = [req EXCEPT ![r] = n]
  BY Zenon DEF ListSubjectTuplesInProject, PlaneInv, TypeInv
<1> HIDE DEF G
<1>5. n \in Exporter /\ n.pc = "via" /\ n.grants = G /\ n.user = q.user
  BY <1>1, <1>2, ZenonT(30) DEF Exporter
<1> HIDE DEF n
<1>6. ExportsOK(n, always[r] \cap present)
  BY <1>3, <1>5, Zenon DEF ExportsOK
<1>7. present' = present
  BY <1>1 DEF present
<1> QED BY <1>4, <1>5, <1>6, <1>7, Zenon DEF GoodStep, Good

LEMMA ViaGood ==
  ASSUME PlaneInv, NEW r \in Requests, ExportSubjectGrants(r)
  PROVE  GoodStep(r)
<1> DEFINE q == req[r]
           groups == {g.node : g \in q.grants} \cap Groups
           G == UNION {{grant(t, x[1], x[2]) : x \in {y \in tuples[t] : y[2] \in groups}} : t \in Tenants}
           n == [q EXCEPT !.pc = "answered", !.grants = q.grants \cup G]
           A == always[r] \cap present
<1>1. q \in Exporter /\ q.pc = "via" /\ ExportsOK(q, always[r]) /\ tuples' = tuples
  BY OtherKinds DEF ExportSubjectGrants, store
<1>2. G \in SUBSET Grant
  BY ConstantsAssumption DEF Grant, grant, PlaneInv, TypeInv
<1>3. \A x \in present : x[3] \in groups => grant(x[1], x[2], x[3]) \in G
  BY DEF present
<1>4. req' = [req EXCEPT ![r] = n]
  BY Zenon DEF ExportSubjectGrants, PlaneInv, TypeInv
<1> HIDE DEF G
<1>5. n \in Exporter /\ n.pc = "answered" /\ n.grants = q.grants \cup G /\ n.user = q.user
  BY <1>1, <1>2, ZenonT(30) DEF Exporter
<1> HIDE DEF n
<1>6. \A x \in A : x[3] = q.user => grant(x[1], x[2], None) \in q.grants
  BY <1>1 DEF ExportsOK
<1>7. ASSUME NEW x \in A, x[3] \in Groups, <<x[1], x[3], q.user>> \in A
      PROVE  grant(x[1], x[2], x[3]) \in G
  <2>1. grant(x[1], x[3], None) \in q.grants
    BY <1>6, <1>7
  <2>2. grant(x[1], x[3], None).node = x[3]
    BY DEF grant
  <2>3. x[3] \in groups
    BY <1>7, <2>1, <2>2
  <2> QED BY <1>3, <2>3
<1>8. held(A, q.user) \subseteq q.grants \cup G
  BY <1>6, <1>7, Zenon DEF held
<1>9. ExportsOK(n, A)
  BY <1>5, <1>8 DEF ExportsOK
<1>10. present' = present
  BY <1>1 DEF present
<1> QED BY <1>4, <1>5, <1>9, <1>10, Zenon DEF GoodStep, Good
=============================================================================
