-------------------------- MODULE DataPlaneProofs ---------------------------
(* What the data plane answers while others write between its reads, for    *)
(* any graph of groups, any number of requests and any budget of reads.      *)
EXTENDS DataPlaneLemmas

-----------------------------------------------------------------------------
(* The steps of the walk *)

LEMMA Walker ==
  ASSUME PlaneInv, NEW r \in Requests, req[r].pc = "eval"
  PROVE  /\ req[r] \in Reader /\ req[r].i \in Nat /\ req[r].i <= Len(req[r].items)
         /\ root(req[r]) \in Nodes /\ asker(req[r]) \in Users
         /\ req[r].stack \in Seq(Frame) /\ req[r].cycles \in Nat
         /\ Walking(req[r], was(r), stayed(r))
<1> DEFINE q == req[r]
<1>1. q \in Reader /\ ReadsOK(q, was(r), stayed(r))
  BY ReaderKnows
<1>2. q.items \in Seq(Question) /\ q.i \in Nat \ {0} /\ q.i <= Len(q.items) /\ Walking(q, was(r), stayed(r))
  BY <1>1 DEF ReadsOK, Reader
<1>3. q.items[q.i] \in Question
  BY <1>2
<1>4. root(q) \in Nodes /\ asker(q) \in Users
  BY <1>3 DEF root, asker, Question
<1> QED BY <1>1, <1>2, <1>4 DEF Reader

LEMMA JudgeGood ==
  ASSUME PlaneInv, NEW r \in Requests, req[r].pc = "eval", tuples' = tuples, NEW v \in Verdict, judge(r, v),
         v = "allow" => Leads(was(r), root(req[r]), asker(req[r])),
         v = "deny" => ~Leads(stayed(r), root(req[r]), asker(req[r]))
  PROVE  GoodStep(r)
<1> DEFINE n == [req[r] EXCEPT !.pc = "judged", !.verdict = v]
<1>1. req[r] \in Reader /\ ReadsOK(req[r], was(r), stayed(r))
  BY ReaderKnows
<1>2. n \in Reader /\ n.tenant = req[r].tenant /\ ReadsOK(n, was(r), stayed(r))
  BY <1>1, JudgeReads, Zenon
<1>3. req' = [req EXCEPT ![r] = n]
  BY Zenon DEF judge, PlaneInv, TypeInv
<1> HIDE DEF n
<1> QED BY <1>2, <1>3, ReaderMoves, Zenon

\* A walk goes on with another stack and memo.
LEMMA WalkOn ==
  ASSUME PlaneInv, NEW r \in Requests, req[r].pc = "eval", tuples' = tuples,
         NEW n \in Reader, req' = [req EXCEPT ![r] = n], n.pc = "eval", Same(req[r], n),
         Walking(n, was(r), stayed(r))
  PROVE  GoodStep(r)
<1>1. ReadsOK(req[r], was(r), stayed(r)) /\ req[r].i <= Len(req[r].items)
  BY ReaderKnows, Walker
<1>2. ReadsOK(n, was(r), stayed(r))
  BY <1>1, EvalReads, SMTT(20)
<1> QED BY <1>2, ReaderMoves, Zenon DEF Same

LEMMA EvalThisGood ==
  ASSUME PlaneInv, NEW r \in Requests, req[r].pc = "eval", tuples' = tuples,
         NEW st \in Seq(Frame), NEW m \in Nodes,
         Sound(st, root(req[r]), asker(req[r]), was(r)), Len(st) <= MaxDepth,
         st = << >> => m = root(req[r]), st # << >> => <<st[Len(st)].node, m>> \in was(r),
         \A k \in DOMAIN st : st[k].node # m,
         Explored(st, req[r].memo, req[r].cycles, root(req[r]), asker(req[r]), stayed(r), {m}),
         evalThis(r, st, m)
  PROVE  GoodStep(r)
<1> DEFINE q == req[r]
           subjects == {t[2] : t \in {x \in tuples[q.tenant] : x[1] = m}} \cap (Nodes \cup {q.items[q.i][2]})
           f == [node |-> m, rest |-> subjects, cycles |-> q.cycles]
           n == [q EXCEPT !.reads = @ + 1, !.stack = Append(st, f)]
<1>1. /\ q \in Reader /\ root(q) \in Nodes /\ asker(q) \in Users /\ q.cycles \in Nat
  BY Walker
<1>2. CASE judge(r, "exhausted")
  BY <1>2, JudgeGood DEF Verdict
<1>3. CASE ~judge(r, "exhausted")
  <2>1. req' = [req EXCEPT ![r] = n]
    BY <1>3 DEF evalThis, PlaneInv, TypeInv
  <2>2. /\ is(r) \subseteq was(r) /\ stayed(r) \subseteq is(r)
        /\ \A a, b : <<a, b>> \in is(r) <=> <<a, b>> \in tuples[q.tenant]
    BY ReaderKnows
  <2>3. \A x \in tuples[q.tenant] : x = <<x[1], x[2]>>
    BY <1>1, ConstantsAssumption, SMTT(20) DEF PlaneInv, TypeInv, Reader
  <2>4. ASSUME NEW b PROVE b \in subjects <=> <<m, b>> \in is(r) /\ b \in Nodes \cup {asker(q)}
    BY <2>2, <2>3 DEF asker
  <2> HIDE DEF subjects
  <2>5. /\ Append(st, f) \in Seq(Frame) /\ Append(st, f) # << >>
        /\ Sound(Append(st, f), root(q), asker(q), was(r))
        /\ Explored(Append(st, f), q.memo, q.cycles, root(q), asker(q), stayed(r), {})
    BY <1>1, <2>2, <2>4, Entered, ZenonT(30)
  <2> HIDE DEF f
  <2>6. n \in Reader /\ n.pc = "eval" /\ n.stack = Append(st, f) /\ n.memo = q.memo /\ n.cycles = q.cycles /\ Same(q, n)
    <3> DEFINE new == Append(st, f)
    <3> HIDE DEF new
    <3>1. new \in Seq(Frame) /\ n = [q EXCEPT !.reads = q.reads + 1, !.stack = new] /\ q.reads + 1 \in Nat
      BY <1>1, <2>5 DEF new, Reader
    <3> HIDE DEF n
    <3>2. n \in Reader
      BY <1>1, <3>1, Zenon DEF Reader
    <3>3. n.pc = "eval" /\ n.stack = new /\ n.memo = q.memo /\ n.cycles = q.cycles /\ Same(q, n)
      BY <1>1, <3>1 DEF Reader, Same
    <3> QED BY <3>2, <3>3 DEF new
  <2> HIDE DEF n
  <2>7. Walking(n, was(r), stayed(r))
    BY <2>5, <2>6, ZenonT(30) DEF Walking, Same, root, asker, ahead
  <2> QED BY <2>1, <2>6, <2>7, WalkOn, Zenon
<1> QED BY <1>2, <1>3

LEMMA EnterGood ==
  ASSUME PlaneInv, NEW r \in Requests, enter(r)
  PROVE  GoodStep(r)
<1>1. req[r].pc = "eval" /\ req[r].stack = << >> /\ tuples' = tuples /\ evalThis(r, << >>, req[r].items[req[r].i][1])
  BY DEF enter, store
<1>2. root(req[r]) \in Nodes /\ Walking(req[r], was(r), stayed(r))
  BY <1>1, Walker
<1>3. PICK m \in Nodes : m = root(req[r])
  BY <1>2, SMTT(20)
<1>4. /\ Sound(<< >>, root(req[r]), asker(req[r]), was(r))
      /\ Explored(<< >>, req[r].memo, req[r].cycles, root(req[r]), asker(req[r]), stayed(r), {m})
  BY <1>1, <1>2, <1>3 DEF Walking, ahead
<1>5. evalThis(r, << >>, m)
  BY <1>1, <1>3 DEF root
<1>6. << >> \in Seq(Frame) /\ Len(<< >>) <= MaxDepth /\ \A k \in DOMAIN << >> : FALSE
  BY ConstantsAssumption
<1> QED BY <1>1, <1>3, <1>4, <1>5, <1>6, EvalThisGood, ZenonT(30)

\* A reader with another stack, memo or count of what was passed over.
LEMMA WalkerWith ==
  ASSUME NEW q \in Reader, NEW st \in Seq(Frame), NEW memo \in SUBSET Nodes, NEW c \in Nat
  PROVE  LET n == [q EXCEPT !.stack = st, !.memo = memo, !.cycles = c] IN
         n \in Reader /\ n.pc = q.pc /\ n.stack = st /\ n.memo = memo /\ n.cycles = c /\ Same(q, n)
<1> DEFINE n == [q EXCEPT !.stack = st, !.memo = memo, !.cycles = c]
<1>1. n \in Reader
  BY Zenon DEF Reader
<1>2. n.pc = q.pc /\ n.stack = st /\ n.memo = memo /\ n.cycles = c
  BY DEF Reader
<1>3. Same(q, n)
  BY DEF Reader, Same
<1> QED BY <1>1, <1>2, <1>3

LEMMA VisitGood ==
  ASSUME PlaneInv, NEW r \in Requests, NEW s, visit(r, s)
  PROVE  GoodStep(r)
<1> DEFINE q == req[r]
           rest == [q.stack EXCEPT ![Len(q.stack)].rest = @ \ {s}]
<1>1. q.pc = "eval" /\ q.stack # << >> /\ s \in q.stack[Len(q.stack)].rest /\ tuples' = tuples
  BY DEF visit, store
<1>2. /\ q \in Reader /\ q.stack \in Seq(Frame) /\ q.cycles \in Nat /\ q.memo \in SUBSET Nodes
      /\ Walking(q, was(r), stayed(r)) /\ asker(q) \in Users
  BY <1>1, Walker DEF Reader
<1>3. Len(q.stack) \in DOMAIN q.stack /\ DOMAIN q.stack = 1..Len(q.stack) /\ Len(q.stack) \in Nat
  BY <1>1, <1>2, SMTT(20)
<1>4. s \in Nodes \cup {asker(q)} /\ <<q.stack[Len(q.stack)].node, s>> \in was(r)
  BY <1>1, <1>2, <1>3, Zenon DEF Walking, Sound
<1>5. Explored(q.stack, q.memo, q.cycles, root(q), asker(q), stayed(r), {})
  BY <1>1, <1>2 DEF Walking, ahead
<1>6. /\ rest \in Seq(Frame) /\ rest # << >> /\ Len(rest) = Len(q.stack)
      /\ \A k \in DOMAIN rest : k \in DOMAIN q.stack /\ rest[k].node = q.stack[k].node
      /\ Sound(rest, root(q), asker(q), was(r))
      /\ Explored(rest, q.memo, q.cycles, root(q), asker(q), stayed(r), {s})
  BY <1>1, <1>2, <1>5, Looked, ZenonT(30) DEF Walking
<1>7. CASE s = asker(q)
  <2>1. s = q.items[q.i][2]
    BY <1>7, SMTT(20) DEF asker
  <2>2. s \notin Nodes /\ s \notin q.memo
    BY <1>2, <1>7, ConstantsAssumption, Zenon
  <2>3. judge(r, "allow")
    BY <2>1, <2>2, SMTT(20) DEF visit
  <2>4. Leads(was(r), root(q), asker(q))
    BY <1>1, <1>2, <1>7, Allowed, ZenonT(30) DEF Walking
  <2> QED BY <1>1, <2>3, <2>4, JudgeGood, Zenon DEF Verdict
<1>8. CASE s # asker(q)
  <2> DEFINE over == Len(q.stack) > MaxDepth \/ \E f \in Range(q.stack) : f.node = s
  <2>1. s \in Nodes
    BY <1>4, <1>8, Zenon
  <2>2. \/ over /\ req' = [req EXCEPT ![r].stack = rest, ![r].cycles = @ + 1]
        \/ s \in q.memo /\ req' = [req EXCEPT ![r].stack = rest]
        \/ ~over /\ evalThis(r, rest, s)
    BY <1>8, <2>1 DEF visit, asker
  <2>3. PICK st \in Seq(Frame) : st = rest
    BY <1>6, Zenon
  <2>4. /\ st # << >> /\ Len(st) = Len(q.stack) /\ DOMAIN st = DOMAIN q.stack
        /\ \A k \in DOMAIN st : st[k].node = q.stack[k].node
        /\ Sound(st, root(q), asker(q), was(r))
        /\ Explored(st, q.memo, q.cycles, root(q), asker(q), stayed(r), {s})
    BY <1>3, <1>6, <2>3, SMTT(20)
  <2> HIDE DEF rest
  <2>5. over <=> Len(st) > MaxDepth \/ \E k \in DOMAIN st : st[k].node = s
    BY <2>4 DEF Range
  <2>6. CASE ~over /\ evalThis(r, rest, s)
    <3>1. evalThis(r, st, s)
      BY <2>3, <2>6
    <3>2. Len(st) <= MaxDepth /\ \A k \in DOMAIN st : st[k].node # s
      BY <1>3, <2>4, <2>5, <2>6, ConstantsAssumption
    <3>3. <<st[Len(st)].node, s>> \in was(r)
      BY <1>3, <1>4, <2>4
    <3> QED BY <1>1, <2>1, <2>4, <3>1, <3>2, <3>3, EvalThisGood, ZenonT(30)
  <2>7. ASSUME NEW c \in Nat, Explored(st, q.memo, c, root(q), asker(q), stayed(r), {}),
               req' = [req EXCEPT ![r] = [q EXCEPT !.stack = st, !.memo = q.memo, !.cycles = c]]
        PROVE  GoodStep(r)
    <3> DEFINE n == [q EXCEPT !.stack = st, !.memo = q.memo, !.cycles = c]
    <3>1. n \in Reader /\ n.pc = q.pc /\ n.stack = st /\ n.memo = q.memo /\ n.cycles = c /\ Same(q, n)
      BY <1>2, WalkerWith, Zenon
    <3>2. req' = [req EXCEPT ![r] = n]
      BY <2>7, SMTT(20)
    <3> HIDE DEF n
    <3>3. Walking(n, was(r), stayed(r))
      BY <2>4, <2>7, <3>1, ZenonT(30) DEF Walking, Same, root, asker, ahead
    <3> QED BY <1>1, <3>1, <3>2, <3>3, WalkOn, Zenon
  <2>8. CASE s \in q.memo /\ req' = [req EXCEPT ![r].stack = rest]
    <3>1. Explored(st, q.memo, q.cycles, root(q), asker(q), stayed(r), {})
      BY <2>4, <2>8, Skipped
    <3>2. [q EXCEPT !.stack = st] = [q EXCEPT !.stack = st, !.memo = q.memo, !.cycles = q.cycles]
      BY <1>2, Zenon DEF Reader
    <3>3. req' = [req EXCEPT ![r] = [q EXCEPT !.stack = st]]
      BY <2>3, <2>8 DEF PlaneInv, TypeInv
    <3> QED BY <1>2, <2>7, <3>1, <3>2, <3>3, ZenonT(30)
  <2>9. CASE over /\ req' = [req EXCEPT ![r].stack = rest, ![r].cycles = @ + 1]
    <3>1. PICK c \in Nat : c = q.cycles + 1
      <4>1. q.cycles + 1 \in Nat
        BY <1>2
      <4> QED BY <4>1
    <3>2. Explored(st, q.memo, c, root(q), asker(q), stayed(r), {})
      BY <1>2, <1>8, <2>4, <2>5, <2>9, <3>1, PassedOver, Zenon
    <3>3. [q EXCEPT !.stack = st, !.cycles = c] = [q EXCEPT !.stack = st, !.memo = q.memo, !.cycles = c]
      BY <1>2, Zenon DEF Reader
    <3>4. req' = [req EXCEPT ![r] = [q EXCEPT !.stack = st, !.cycles = c]]
      BY <2>3, <2>9, <3>1, Zenon DEF PlaneInv, TypeInv
    <3> QED BY <2>7, <3>2, <3>3, <3>4, Zenon
  <2> QED BY <2>2, <2>6, <2>8, <2>9
<1> QED BY <1>7, <1>8, Zenon

LEMMA LeaveGood ==
  ASSUME PlaneInv, NEW r \in Requests, leave(r)
  PROVE  GoodStep(r)
<1> DEFINE q == req[r]
           top == q.stack[Len(q.stack)]
           kept == IF q.cycles = top.cycles THEN q.memo \cup {top.node} ELSE q.memo
<1>1. q.pc = "eval" /\ q.stack # << >> /\ top.rest = {} /\ tuples' = tuples
  BY SMTT(20) DEF leave, store
<1>2. /\ q \in Reader /\ q.stack \in Seq(Frame) /\ q.cycles \in Nat /\ q.memo \in SUBSET Nodes
      /\ Walking(q, was(r), stayed(r)) /\ asker(q) \in Users
  <2>1. q \in Reader /\ q.stack \in Seq(Frame) /\ q.cycles \in Nat /\ Walking(q, was(r), stayed(r))
        /\ asker(q) \in Users
    BY <1>1, Walker, Zenon
  <2>2. q.memo \in SUBSET Nodes
    BY ONLY <2>1 DEF Reader
  <2> QED BY <2>1, <2>2, Zenon
<1>3. Explored(q.stack, q.memo, q.cycles, root(q), asker(q), stayed(r), {})
  BY <1>1, <1>2 DEF Walking, ahead
<1>4. CASE Len(q.stack) = 1
  <2>1. judge(r, "deny")
    BY <1>4 DEF leave
  <2>2. ~Leads(stayed(r), root(q), asker(q))
    BY <1>1, <1>2, <1>3, <1>4, Denied, Zenon
  <2> QED BY <1>1, <2>1, <2>2, JudgeGood DEF Verdict
<1>5. CASE Len(q.stack) # 1
  <2> DEFINE st == pop(q.stack)
             n == [q EXCEPT !.stack = st, !.memo = kept, !.cycles = q.cycles]
  <2>1. kept \in SUBSET Nodes
    <3>1. top \in Frame
      BY <1>1, <1>2, SMTT(20)
    <3> QED BY <1>2, <3>1 DEF Frame
  <2>2. req' = [req EXCEPT ![r] = [q EXCEPT !.stack = st, !.memo = kept]]
    BY <1>5 DEF leave, PlaneInv, TypeInv
  <2>3. /\ st \in Seq(Frame) /\ Len(st) = Len(q.stack) - 1 /\ Sound(st, root(q), asker(q), was(r))
        /\ Explored(st, kept, q.cycles, root(q), asker(q), stayed(r), {})
    BY <1>1, <1>2, <1>3, Left, ZenonT(30) DEF Walking
  <2> HIDE DEF kept, st
  <2>4. st # << >>
    <3>1. Len(q.stack) \in Nat /\ Len(q.stack) # 0
      BY <1>1, <1>2
    <3>2. Len(st) = Len(q.stack) - 1
      BY <2>3, Zenon
    <3>3. Len(st) # 0
      BY ONLY <1>5, <3>1, <3>2
    <3> QED BY ONLY <3>3
  <2>5. [q EXCEPT !.stack = st, !.memo = kept] = n
    BY <1>2, Zenon DEF Reader
  <2>6. n \in Reader /\ n.pc = q.pc /\ n.stack = st /\ n.memo = kept /\ n.cycles = q.cycles /\ Same(q, n)
    BY <1>2, <2>1, <2>3, WalkerWith, Zenon
  <2> HIDE DEF n
  <2>7. Walking(n, was(r), stayed(r))
    BY <2>3, <2>4, <2>6, ZenonT(30) DEF Walking, Same, root, asker, ahead
  <2> QED BY <1>1, <2>2, <2>5, <2>6, <2>7, WalkOn, ZenonT(30)
<1> QED BY <1>4, <1>5

LEMMA BatchGood ==
  ASSUME PlaneInv, NEW r \in Requests, BatchCheck(r)
  PROVE  GoodStep(r)
<1> DEFINE q == req[r]
<1>1. q.pc = "judged" /\ tuples' = tuples
  BY DEF BatchCheck, store
<1>2. q \in Reader /\ ReadsOK(q, was(r), stayed(r))
  BY <1>1, ReaderKnows
<1>3. /\ q.items \in Seq(Question) /\ q.i \in Nat \ {0} /\ q.i <= Len(q.items) /\ q.results \in Seq(Verdict)
      /\ Judged(q, was(r), stayed(r)) /\ q.verdict \in Verdict
  BY <1>1, <1>2, Zenon DEF ReadsOK, Reader, Judged
<1>4. CASE q.verdict = "exhausted" /\ q.op # "BatchCheck"
  <2> DEFINE n == [q EXCEPT !.pc = "answered"]
  <2>1. /\ n \in Reader /\ n.pc = "answered" /\ n.tenant = q.tenant /\ n.op = q.op /\ n.items = q.items
        /\ n.i = q.i /\ n.results = q.results
    BY <1>2, AtPc, Zenon
  <2>2. to(r, "answered")
    BY <1>4 DEF BatchCheck, answer
  <2>3. req' = [req EXCEPT ![r] = n]
    BY <2>2 DEF to, PlaneInv, TypeInv
  <2> HIDE DEF n
  <2>4. ReadsOK(n, was(r), stayed(r))
    BY <1>2, <1>3, <2>1, AnswerReads
  <2> QED BY <1>1, <2>1, <2>3, <2>4, ReaderMoves, ZenonT(30)
<1>5. CASE ~(q.verdict = "exhausted" /\ q.op # "BatchCheck")
  <2> DEFINE results == Append(q.results, q.verdict)
             n == [q EXCEPT !.pc = "check", !.results = results, !.i = q.i + 1]
  <2>1. /\ results \in Seq(Verdict) /\ q.i + 1 \in Nat \ {0} /\ Len(results) = Len(q.results) + 1
        /\ DOMAIN results = 1..(Len(q.results) + 1) /\ DOMAIN q.results = 1..Len(q.results)
        /\ \A k \in DOMAIN q.results : results[k] = q.results[k]
        /\ results[Len(q.results) + 1] = q.verdict
    <3>1. q.i + 1 \in Nat \ {0}
      BY <1>3, OneOn, Zenon
    <3>2. q.results \in Seq(Verdict) /\ q.verdict \in Verdict
      BY <1>3, Zenon
    <3> QED BY <3>1, <3>2, Appended, Zenon
  <2>2. req' = [req EXCEPT ![r] = n]
    BY <1>5 DEF BatchCheck, PlaneInv, TypeInv
  <2> HIDE DEF results
  <2>3. n \in Reader
    BY <1>2, <2>1, Zenon DEF Reader
  <2>4. /\ n.pc = "check" /\ n.op = q.op /\ n.items = q.items /\ n.tenant = q.tenant
        /\ n.results = results /\ n.i = q.i + 1
    BY <1>2 DEF Reader
  <2> HIDE DEF n
  <2>5. ASSUME q.op = "ListObjects" PROVE Listed(n, stayed(r))
    <3>1. Listed(q, stayed(r))
      BY <1>1, <1>2, <2>5, Zenon DEF ReadsOK
    <3>2. Len(q.results) = q.i - 1 /\ Len(q.results) \in Nat
      BY <1>3, <3>1, SMTT(20) DEF Listed
    <3>3. Len(n.results) = n.i - 1
      BY <1>3, <2>1, <2>4, <3>2
    <3>4. q.verdict # "exhausted"
      BY <1>5, <2>5
    <3>5. ASSUME NEW k \in DOMAIN results, k \in DOMAIN q.items
          PROVE  /\ results[k] # "exhausted"
                 /\ results[k] = "deny" => ~Leads(stayed(r), q.items[k][1], q.items[k][2])
      <4>1. CASE k \in DOMAIN q.results
        BY <2>1, <3>1, <3>5, <4>1, Zenon DEF Listed
      <4>2. CASE k \notin DOMAIN q.results
        <5>1. k = q.i /\ results[k] = q.verdict
          BY <1>3, <2>1, <3>2, <3>5, <4>2, LastOne, Zenon
        <5> QED BY <1>3, <3>4, <5>1, Zenon DEF Judged, root, asker
      <4> QED BY <4>1, <4>2, Zenon
    <3> QED BY <2>4, <3>1, <3>3, <3>5, Zenon DEF Listed
  <2>6. ReadsOK(n, was(r), stayed(r))
    BY <1>3, <2>4, <2>5 DEF ReadsOK
  <2> QED BY <1>1, <2>2, <2>3, <2>4, <2>6, ReaderMoves, ZenonT(30)
<1> QED BY <1>4, <1>5

LEMMA ArriveReads ==
  ASSUME PlaneInv, NEW r \in Requests, NEW op \in {"Check", "BatchCheck", "ListObjects"}, NEW t \in Tenants,
         NEW tk \in tokens \cup {None}, NEW items \in Seq((Nodes \cup {None}) \X Users),
         op # "ListObjects" => items \in Seq(Question), op = "ListObjects" => Len(items) = 1,
         ReadRPC(r, op, t, tk, items)
  PROVE  GoodStep(r)
<1> DEFINE n == Begin(r, op, t, tk, items)
<1>1. tk \in Token \cup {None}
  BY DEF PlaneInv, TypeInv
<1>2. << >> \in Seq(Frame) /\ << >> \in Seq(Verdict) /\ {} \in SUBSET Nodes
  OBVIOUS
<1>3. n \in Reader
  BY <1>1, <1>2 DEF Begin, Reader
<1>4. n.pc = "ensure" /\ n.op = op /\ n.items = items /\ n.i = 1 /\ n.results = << >>
  BY DEF Begin
<1>5. req' = [req EXCEPT ![r] = n]
  BY DEF ReadRPC
<1> HIDE DEF n
<1>6. \A T, U : ReadsOK(n, T, U)
  BY <1>4 DEF ReadsOK
<1>7. Good(n, ever[r] \cup present', always[r] \cap present')
  BY <1>3, <1>6, SMTT(20) DEF Good
<1> QED BY <1>5, <1>7, Zenon DEF GoodStep
-----------------------------------------------------------------------------
(* The invariant *)

LEMMA BeginGood ==
  ASSUME PlaneInv, NEW r \in Requests, Arrive(r)
  PROVE  GoodStep(r)
<1>1. ASSUME NEW t \in Tenants, NEW x \in Tuples,
             WriteRelationTuples(r, t, {x}, {}) \/ WriteRelationTuples(r, t, {}, {x})
      PROVE  GoodStep(r)
  <2>1. ASSUME NEW I \in SUBSET Tuples, NEW D \in SUBSET Tuples, WriteRelationTuples(r, t, I, D)
        PROVE  GoodStep(r)
    BY <2>1, PlainStep, Zenon DEF WriteRelationTuples, Writer
  <2> QED BY <1>1, <2>1
<1>2. ASSUME NEW u \in Users, DeprovisionUserRPC(r, u)
      PROVE  GoodStep(r)
  BY <1>2, PlainStep, Zenon DEF DeprovisionUserRPC, Eraser
<1>3. ASSUME NEW u \in Users, ExportSubjectGrantsRPC(r, u)
      PROVE  GoodStep(r)
  <2> DEFINE n == [pc |-> "direct", op |-> "ExportSubjectGrants", user |-> u, grants |-> {}]
  <2>1. req' = [req EXCEPT ![r] = n]
    BY <1>3 DEF ExportSubjectGrantsRPC
  <2>2. n \in Exporter /\ n.pc = "direct"
    BY DEF Exporter
  <2> HIDE DEF n
  <2> QED BY <2>1, <2>2, ZenonT(30) DEF GoodStep, Good, ExportsOK
<1>4. ASSUME NEW t \in Tenants, NEW tk \in tokens \cup {None}, NEW b \in Batches,
             BatchCheckRPC(r, t, tk, b) \/ \E k \in DOMAIN b : CheckRPC(r, t, tk, b[k])
      PROVE  GoodStep(r)
  <2>1. b \in Seq(Question)
    BY ConstantsAssumption DEF Question
  <2>2. Seq(Question) \subseteq Seq((Nodes \cup {None}) \X Users)
    BY DEF Question
  <2>3. ASSUME NEW k \in DOMAIN b, CheckRPC(r, t, tk, b[k]) PROVE GoodStep(r)
    <3>1. b[k] \in Question /\ <<b[k]>> \in Seq(Question)
      BY <2>1
    <3>2. ReadRPC(r, "Check", t, tk, <<b[k]>>) /\ <<b[k]>> \in Seq((Nodes \cup {None}) \X Users)
      BY <2>2, <2>3, <3>1, Zenon DEF CheckRPC
    <3> QED BY <3>1, <3>2, ArriveReads, Zenon
  <2>4. ASSUME BatchCheckRPC(r, t, tk, b) PROVE GoodStep(r)
    <3>1. ReadRPC(r, "BatchCheck", t, tk, b) /\ b \in Seq((Nodes \cup {None}) \X Users)
      BY <2>1, <2>2, <2>4 DEF BatchCheckRPC
    <3> QED BY <2>1, <3>1, ArriveReads, Zenon
  <2> QED BY <1>4, <2>3, <2>4
<1>5. ASSUME NEW t \in Tenants, NEW tk \in tokens \cup {None}, NEW u \in Users,
             ListObjectsRPC(r, t, tk, u)
      PROVE  GoodStep(r)
  <2>1. <<<<None, u>>>> \in Seq((Nodes \cup {None}) \X Users) /\ Len(<<<<None, u>>>>) = 1
    OBVIOUS
  <2>2. ReadRPC(r, "ListObjects", t, tk, <<<<None, u>>>>)
    BY <1>5 DEF ListObjectsRPC
  <2> QED BY <2>1, <2>2, ArriveReads, Zenon
<1> QED BY <1>1, <1>2, <1>3, <1>4, <1>5, ZenonT(30) DEF Arrive

LEMMA ReadsGood ==
  ASSUME PlaneInv, NEW r \in Requests,
         \/ EnsureConsistency(r) \/ ListObjects(r) \/ Check(r) \/ BatchCheck(r)
         \/ enter(r) \/ leave(r) \/ \E s \in Users \cup Nodes : visit(r, s)
  PROVE  GoodStep(r) /\ UNCHANGED <<store, tokens>>
<1>1. GoodStep(r)
  BY EnsureGood, ListGood, CheckGood, BatchGood, EnterGood, LeaveGood, VisitGood, Zenon
<1>2. UNCHANGED <<store, tokens>>
  BY Zenon DEF EnsureConsistency, ListObjects, Check, BatchCheck, enter, leave, visit
<1> QED BY <1>1, <1>2

LEMMA RequestStep ==
  ASSUME PlaneInv, NEW r \in Requests, Arrive(r) \/ Proceed(r) \/ Return(r) \/ Abort(r), Witness
  PROVE  PlaneInv'
<1>1. CASE Arrive(r)
  <2>1. UNCHANGED <<store, tokens>>
    BY <1>1, Zenon DEF Arrive, WriteRelationTuples, DeprovisionUserRPC, ExportSubjectGrantsRPC, CheckRPC,
                BatchCheckRPC, ListObjectsRPC, ReadRPC
  <2>2. GoodStep(r)
    BY <1>1, BeginGood, Zenon
  <2> QED BY <2>1, <2>2, WitnessKeeps DEF PlaneInv, TypeInv, store
<1>2. CASE Return(r) \/ Abort(r)
  <2>1. UNCHANGED <<store, tokens>>
    BY <1>2 DEF Return, Abort
  <2>2. GoodStep(r)
    BY <1>2, EndGood, Zenon
  <2> QED BY <2>1, <2>2, WitnessKeeps DEF PlaneInv, TypeInv, store
<1>8. CASE ensureProjectActive(r)
  <2>1. UNCHANGED <<store, tokens>>
    BY <1>8 DEF ensureProjectActive
  <2>2. GoodStep(r)
    BY <1>8, ActiveGood
  <2> QED BY <2>1, <2>2, WitnessKeeps DEF PlaneInv, TypeInv, store
<1>3. CASE WriteTuples(r)
  BY <1>3, WriteGood, WitnessKeeps, Zenon DEF PlaneInv, TypeInv
<1>4. CASE Encode(r)
  <2>1. UNCHANGED store
    BY <1>4 DEF Encode
  <2>2. GoodStep(r) /\ tokens' \in SUBSET Token
    BY <1>4, EncodeGood
  <2> QED BY <2>1, <2>2, WitnessKeeps, Zenon DEF PlaneInv, TypeInv, store
<1>5. CASE DeprovisionUser(r)
  <2>1. UNCHANGED <<seq, reflects, writes, tokens>>
    BY <1>5 DEF DeprovisionUser
  <2>2. GoodStep(r) /\ tuples' \in [Tenants -> SUBSET Tuples]
    BY <1>5, DeprovisionGood
  <2> QED BY <2>1, <2>2, WitnessKeeps DEF PlaneInv, TypeInv
<1>6. CASE \/ EnsureConsistency(r) \/ ListObjects(r) \/ Check(r) \/ BatchCheck(r)
           \/ enter(r) \/ leave(r) \/ \E s \in Users \cup Nodes : visit(r, s)
  <2>1. GoodStep(r) /\ UNCHANGED <<store, tokens>>
    BY <1>6, ReadsGood, Zenon
  <2> QED BY <2>1, WitnessKeeps DEF PlaneInv, TypeInv, store
<1>7. CASE ListSubjectTuplesInProject(r) \/ ExportSubjectGrants(r)
  <2>1. UNCHANGED <<store, tokens>>
    BY <1>7 DEF ListSubjectTuplesInProject, ExportSubjectGrants
  <2>2. GoodStep(r)
    BY <1>7, DirectGood, ViaGood
  <2> QED BY <2>1, <2>2, WitnessKeeps DEF PlaneInv, TypeInv, store
<1> QED BY <1>1, <1>2, <1>3, <1>4, <1>5, <1>6, <1>7, <1>8, Zenon DEF Proceed

\* A restart, and a change of the project's status, which leaves requests alone.
LEMMA OutsideStep ==
  ASSUME PlaneInv, Restart \/ SetStatus, Witness
  PROVE  PlaneInv'
<1>1. /\ tuples' \in [Tenants -> SUBSET Tuples] /\ seq' \in [Tenants -> Nat]
      /\ reflects' \in [Tenants -> SUBSET Nat] /\ writes' \in Nat /\ tokens' \in SUBSET Token
  BY DEF Restart, SetStatus, store, PlaneInv, TypeInv
<1>2. /\ req' = [s \in Requests |-> req'[s]]
      /\ \A s \in Requests : req'[s] = Idle \/ req'[s] = req[s]
  BY DEF Restart, SetStatus, PlaneInv, TypeInv
<1>3. present' \in SUBSET Fact
  BY <1>1, StoredFacts DEF present
<1>4. /\ ever' = [s \in Requests |-> everOf(req'[s], ever[s], present')]
      /\ always' = [s \in Requests |-> alwaysOf(req'[s], always[s], present')]
  BY DEF Witness, everOf, alwaysOf, unread, fresh
<1>5. ever' \in [Requests -> SUBSET Fact] /\ always' \in [Requests -> SUBSET Fact]
  BY <1>3, <1>4 DEF PlaneInv, TypeInv, everOf, alwaysOf
<1>6. ASSUME NEW s \in Requests PROVE Good(req'[s], ever'[s], always'[s])
  <2>1. CASE req'[s] = Idle
    BY <2>1 DEF Good
  <2>2. CASE req'[s] = req[s]
    <3>1. Good(req[s], ever[s], always[s])
      BY DEF PlaneInv, GoodInv
    <3> QED BY <1>4, <2>2, <3>1, GoodStays, Zenon
  <2> QED BY <1>2, <2>1, <2>2, Zenon
<1> QED BY <1>1, <1>2, <1>5, <1>6, Zenon DEF PlaneInv, TypeInv, GoodInv

LEMMA PlaneInit ==
  ASSUME NEW T \in [Tenants -> SUBSET Tuples], InitWith(T)
  PROVE  PlaneInv
BY DEF InitWith, PlaneInv, TypeInv, GoodInv, Good

LEMMA PlaneStep ==
  ASSUME PlaneInv, [Next]_vars
  PROVE  PlaneInv'
<1>1. CASE Next
  BY <1>1, RequestStep, OutsideStep DEF Next
<1>2. CASE UNCHANGED vars
  BY <1>2 DEF vars, PlaneInv, TypeInv, GoodInv
<1> QED BY <1>1, <1>2

LEMMA PlaneAnswers ==
  ASSUME PlaneInv
  PROVE  AnswersHold
<1>1. ASSUME NEW r \in Requests, req[r].pc = "judged"
      PROVE  Judged(req[r], of(ever[r], req[r].tenant), of(always[r], req[r].tenant))
  <2>1. Good(req[r], ever[r], always[r])
    BY DEF PlaneInv, GoodInv
  <2>2. req[r] \in Reader /\ ReadsOK(req[r], of(ever[r], req[r].tenant), of(always[r], req[r].tenant))
    BY <1>1, <2>1, SMTT(20) DEF Good, Idle, Writer, Eraser, Exporter
  <2> QED BY <1>1, <2>2, SMTT(20) DEF ReadsOK
<1>2. VerdictsHold
  BY <1>1, SMTT(20) DEF VerdictsHold, Judged, root, asker
<1>3. ASSUME NEW r \in Requests, req[r].pc = "answered", req[r].op = "ListObjects",
             req[r].i > Len(req[r].items), NEW n \in Nodes, NEW u \in Users,
             Leads(of(always[r], req[r].tenant), n, u),
             req[r].items # << >> => u = req[r].items[1][2]
      PROVE  \E k \in DOMAIN req[r].items : req[r].items[k] = <<n, u>> /\ req[r].results[k] = "allow"
  <2> DEFINE q == req[r]
             A == of(always[r], q.tenant)
  <2>1. Good(q, ever[r], always[r])
    BY Zenon DEF PlaneInv, GoodInv
  <2>2. q \in Reader /\ ReadsOK(q, of(ever[r], q.tenant), A)
    BY <1>3, <2>1, SMTT(20) DEF Good, Idle, Writer, Eraser, Exporter
  <2>3. Listed(q, A)
    BY <1>3, <2>2, ZenonT(30) DEF ReadsOK
  <2>4. q.results \in Seq(Verdict) /\ q.items \in Seq((Nodes \cup {None}) \X Users) /\ q.i \in Nat
    BY <2>2, SMTT(20) DEF Reader
  <2>5. Leads(A, n, u)
    BY <1>3
  <2> HIDE DEF A
  <2>6. PICK k \in DOMAIN q.items : q.items[k] = <<n, u>>
    BY <1>3, <2>3, <2>5, ZenonT(30) DEF Listed
  <2>7. Len(q.results) = q.i - 1
    BY <2>3 DEF Listed
  <2>8. k \in DOMAIN q.results
    BY <1>3, <2>4, <2>7, SMTT(20)
  <2>9. q.results[k] \in Verdict
    BY <2>4, <2>8, SMTT(20)
  <2>10. q.results[k] # "exhausted" /\ (q.results[k] = "deny" => ~Leads(A, n, u))
    BY <2>3, <2>6, <2>8 DEF Listed
  <2> QED BY <2>5, <2>6, <2>9, <2>10, Zenon DEF Verdict
<1>4. ListComplete
  BY <1>3, ZenonT(30) DEF ListComplete
<1> QED BY <1>2, <1>4, Zenon DEF AnswersHold

LEMMA PlaneExports ==
  ASSUME PlaneInv
  PROVE  ExportComplete
<1> SUFFICES ASSUME NEW r \in Requests, req[r].pc = "answered", req[r].op = "ExportSubjectGrants"
             PROVE  held(always[r], req[r].user) \subseteq req[r].grants
  BY DEF ExportComplete
<1>1. Good(req[r], ever[r], always[r])
  BY SMTT(20) DEF PlaneInv, GoodInv
<1>2. ExportsOK(req[r], always[r])
  BY <1>1 DEF Good, Idle, Writer, Eraser, Reader
<1> QED BY <1>2 DEF ExportsOK

\* A verdict of Check or BatchCheck, and a list of ListObjects, hold of the tuples
\* there were while they were found, whatever the graph of groups, however many
\* requests write between the reads of the walk, and whatever the store held.
THEOREM AnswersAlways ==
  ASSUME NEW T \in [Tenants -> SUBSET Tuples]
  PROVE  InitWith(T) /\ [][Next]_vars => []AnswersHold
<1>1. InitWith(T) => PlaneInv
  BY PlaneInit
<1>2. PlaneInv /\ [Next]_vars => PlaneInv'
  BY PlaneStep
<1>3. PlaneInv => AnswersHold
  BY PlaneAnswers, Zenon
<1> QED BY <1>1, <1>2, <1>3, PTL

\* ExportSubjectGrants returns every grant the user held throughout its two reads,
\* direct or through a group, in every tenant.
THEOREM ExportAlways ==
  ASSUME NEW T \in [Tenants -> SUBSET Tuples]
  PROVE  InitWith(T) /\ [][Next]_vars => []ExportComplete
<1>1. InitWith(T) => PlaneInv
  BY PlaneInit
<1>2. PlaneInv /\ [Next]_vars => PlaneInv'
  BY PlaneStep
<1>3. PlaneInv => ExportComplete
  BY PlaneExports
<1> QED BY <1>1, <1>2, <1>3, PTL
-----------------------------------------------------------------------------
(* Tokens, of a store that survives restarts *)

Reading == {"ensure", "list", "check", "eval", "judged"}

\* What a request may hold of the tokens K when the store reflects the writes F.
Trusts(q, K, F) ==
  /\ q.pc = "token" => q.write \in F[q.tenant]
  /\ q.pc \in Reading => q.token \in K \cup {None}
  /\ q.pc \in Reading \ {"ensure"} /\ q.token # None => q.token.tenant = q.tenant

TokensOK == \A tk \in tokens : tk.seq <= seq[tk.tenant] /\ tk.write \in reflects[tk.tenant]
TokenInv == TokensOK /\ \A r \in Requests : Trusts(req[r], tokens, reflects)

\* Sequences only grow, and nothing that was written or handed out is forgotten.
Grows ==
  /\ tokens \subseteq tokens'
  /\ \A t \in Tenants : seq[t] <= seq'[t] /\ reflects[t] \subseteq reflects'[t]

TrustStep(r) == req' = [req EXCEPT ![r] = req'[r]] /\ Trusts(req'[r], tokens', reflects')

LEMMA TrustsStay ==
  ASSUME PlaneInv, TokenInv, Grows, NEW r \in Requests
  PROVE  Trusts(req[r], tokens', reflects')
<1>1. req[r].pc = "token" => req[r].tenant \in Tenants
  BY OtherKinds DEF Writer
<1>2. Trusts(req[r], tokens, reflects)
  BY DEF TokenInv
<1> QED BY <1>1, <1>2, SMTT(20) DEF Trusts, Grows

\* A step of a reader that has been let through.
Carries(r) ==
  /\ req' = [req EXCEPT ![r] = req'[r]]
  /\ req[r].pc \in Reading \ {"ensure"} /\ req'[r].pc \in (Reading \ {"ensure"}) \cup {"answered"}
  /\ req'[r].token = req[r].token /\ req'[r].tenant = req[r].tenant

LEMMA CarriesTrust ==
  ASSUME PlaneInv, TokenInv, Grows, NEW r \in Requests, Carries(r)
  PROVE  TrustStep(r)
<1>1. Trusts(req[r], tokens', reflects')
  BY TrustsStay
<1> QED BY <1>1 DEF Trusts, TrustStep, Carries, Reading

LEMMA AnsweredTrust ==
  ASSUME PlaneInv, NEW r \in Requests, answer(r), "pc" \in DOMAIN req[r]
  PROVE  TrustStep(r)
<1>1. req' = [req EXCEPT ![r] = req'[r]] /\ req'[r].pc = "answered"
  BY DEF answer, to, PlaneInv, TypeInv
<1> QED BY <1>1 DEF TrustStep, Trusts, Reading

LEMMA JudgeCarries ==
  ASSUME PlaneInv, NEW r \in Requests, req[r] \in Reader, req[r].pc = "eval", NEW v, judge(r, v)
  PROVE  Carries(r)
BY Zenon DEF judge, Carries, Reading, Reader, PlaneInv, TypeInv

LEMMA WalkCarries ==
  ASSUME PlaneInv, NEW r \in Requests, req[r] \in Reader, req[r].pc = "eval",
         NEW stack, NEW node, evalThis(r, stack, node)
  PROVE  Carries(r)
<1>1. CASE MaxReads > 0 /\ req[r].reads + 1 > MaxReads
  BY <1>1, JudgeCarries DEF evalThis
<1>2. CASE ~(MaxReads > 0 /\ req[r].reads + 1 > MaxReads)
  BY <1>2 DEF evalThis, Carries, Reading, Reader, PlaneInv, TypeInv
<1> QED BY <1>1, <1>2

LEMMA ReadCarries ==
  ASSUME PlaneInv, NEW r \in Requests,
         \/ ListObjects(r) \/ Check(r) \/ BatchCheck(r)
         \/ enter(r) \/ leave(r) \/ \E s \in Users \cup Nodes : visit(r, s)
  PROVE  Carries(r)
<1>1. req[r].pc \in Reading \ {"ensure"}
  BY ZenonT(30) DEF ListObjects, Check, BatchCheck, enter, leave, visit, Reading
<1>2. req[r] \in Reader
  BY <1>1, ReaderKnows DEF Reading
<1>3. ASSUME answer(r) PROVE Carries(r)
  BY <1>1, <1>2, <1>3, Zenon DEF answer, to, Carries, Reading, Reader, PlaneInv, TypeInv
<1>4. CASE ListObjects(r)
  BY <1>1, <1>2, <1>3, <1>4, SMTT(20) DEF ListObjects, Carries, Reading, Reader, PlaneInv, TypeInv
<1>5. CASE Check(r)
  BY <1>1, <1>2, <1>3, <1>5, SMTT(20) DEF Check, Carries, Reading, Reader, PlaneInv, TypeInv
<1>6. CASE BatchCheck(r)
  BY <1>1, <1>2, <1>3, <1>6, SMTT(20) DEF BatchCheck, Carries, Reading, Reader, PlaneInv, TypeInv
<1>7. CASE enter(r)
  BY <1>2, <1>7, WalkCarries DEF enter
<1>8. CASE leave(r)
  <2>1. CASE Len(req[r].stack) = 1
    BY <1>2, <1>8, <2>1, JudgeCarries, Zenon DEF leave
  <2>2. CASE Len(req[r].stack) # 1
    BY <1>1, <1>2, <1>8, <2>2, SMTT(20) DEF leave, Carries, Reading, Reader, PlaneInv, TypeInv
  <2> QED BY <2>1, <2>2
<1>9. ASSUME NEW s, visit(r, s) PROVE Carries(r)
  <2> DEFINE q == req[r]
             rest == [q.stack EXCEPT ![Len(q.stack)].rest = @ \ {s}]
  <2>1. q.pc = "eval"
    BY <1>9, Zenon DEF visit
  <2>2. \/ judge(r, "allow") \/ evalThis(r, rest, s)
        \/ req' = [req EXCEPT ![r].stack = rest]
        \/ req' = [req EXCEPT ![r].stack = rest, ![r].cycles = @ + 1]
    BY <1>9, Zenon DEF visit
  <2> HIDE DEF rest
  <2>3. CASE req' = [req EXCEPT ![r].stack = rest]
    BY <1>1, <1>2, <2>3, ZenonT(30) DEF Carries, Reading, Reader, PlaneInv, TypeInv
  <2>4. CASE req' = [req EXCEPT ![r].stack = rest, ![r].cycles = @ + 1]
    BY <1>1, <1>2, <2>4, ZenonT(30) DEF Carries, Reading, Reader, PlaneInv, TypeInv
  <2> QED BY <1>2, <2>1, <2>2, <2>3, <2>4, JudgeCarries, WalkCarries, Zenon
<1> QED BY <1>4, <1>5, <1>6, <1>7, <1>8, <1>9, Zenon

LEMMA EnsureTrust ==
  ASSUME PlaneInv, TokenInv, Grows, NEW r \in Requests, EnsureConsistency(r)
  PROVE  TrustStep(r)
<1> DEFINE q == req[r]
<1>1. q.pc = "ensure"
  BY SMTT(20) DEF EnsureConsistency
<1>2. q \in Reader
  BY <1>1, ReaderKnows
<1>3. Trusts(q, tokens', reflects')
  BY TrustsStay
<1>4. CASE answer(r)
  BY <1>2, <1>4, AnsweredTrust, Zenon DEF Reader
<1>5. ASSUME NEW pc \in {"list", "check"}, to(r, pc), q.token # None => q.token.tenant = q.tenant
      PROVE  TrustStep(r)
  <2>1. req' = [req EXCEPT ![r] = req'[r]] /\ req'[r] = [q EXCEPT !.pc = pc]
    BY <1>5 DEF to, PlaneInv, TypeInv
  <2>2. req'[r].pc = pc /\ req'[r].token = q.token /\ req'[r].tenant = q.tenant
    BY <1>2, <2>1 DEF Reader
  <2> QED BY <1>1, <1>3, <1>5, <2>1, <2>2, Zenon DEF TrustStep, Trusts, Reading
<1> QED BY <1>4, <1>5 DEF EnsureConsistency

LEMMA EncodeTrust ==
  ASSUME PlaneInv, TokenInv, NEW r \in Requests, Encode(r)
  PROVE  Grows /\ TokensOK' /\ TrustStep(r)
<1> DEFINE q == req[r]
           tk == [tenant |-> q.tenant, seq |-> seq[q.tenant], write |-> q.write]
<1>1. q \in Writer /\ q.pc = "token" /\ answer(r)
  BY OtherKinds, SMTT(20) DEF Encode
<1>2. tokens' = tokens \cup {tk} /\ seq' = seq /\ reflects' = reflects
  BY Zenon DEF Encode, store
<1>3. q.write \in reflects[q.tenant] /\ q.tenant \in Tenants
  BY <1>1 DEF TokenInv, Trusts, Writer
<1>4. Grows
  BY <1>2 DEF Grows, PlaneInv, TypeInv
<1>5. tk.seq <= seq[tk.tenant] /\ tk.write \in reflects[tk.tenant]
  BY <1>3, SMTT(20) DEF PlaneInv, TypeInv
<1> HIDE DEF tk
<1>6. TokensOK'
  BY <1>2, <1>5, Zenon DEF TokensOK, TokenInv
<1>7. TrustStep(r)
  BY <1>1, AnsweredTrust DEF Writer
<1> QED BY <1>4, <1>6, <1>7, Zenon

LEMMA ActiveTrust ==
  ASSUME PlaneInv, NEW r \in Requests, ensureProjectActive(r)
  PROVE  TrustStep(r) /\ UNCHANGED <<store, tokens>>
<1>1. req[r] \in Writer /\ UNCHANGED <<store, tokens>>
  BY OtherKinds DEF ensureProjectActive
<1>2. PICK pc \in {"answered", "write"} : to(r, pc)
  BY DEF ensureProjectActive, answer
<1>3. req' = [req EXCEPT ![r] = req'[r]] /\ req'[r] = [req[r] EXCEPT !.pc = pc]
  BY <1>2 DEF to, PlaneInv, TypeInv
<1>4. req'[r].pc = pc
  BY <1>1, <1>3 DEF Writer
<1> QED BY <1>1, <1>3, <1>4, Zenon DEF TrustStep, Trusts, Reading

LEMMA WriteTrust ==
  ASSUME PlaneInv, TokenInv, NEW r \in Requests, WriteTuples(r)
  PROVE  Grows /\ TrustStep(r)
<1> DEFINE q == req[r]
<1>1. q \in Writer
  BY OtherKinds DEF WriteTuples
<1>2. /\ seq' = [seq EXCEPT ![q.tenant] = @ + 1] /\ tokens' = tokens
      /\ reflects' = [reflects EXCEPT ![q.tenant] = @ \cup {writes + 1}]
      /\ req' = [req EXCEPT ![r].pc = "token", ![r].write = writes + 1]
  BY SMTT(20) DEF WriteTuples
<1>3. q.tenant \in Tenants
  BY <1>1 DEF Writer
<1>4. Grows
  BY <1>2, <1>3 DEF Grows, PlaneInv, TypeInv
<1>5. req' = [req EXCEPT ![r] = req'[r]] /\ req'[r] = [q EXCEPT !.pc = "token", !.write = writes + 1]
  BY <1>2, Zenon DEF PlaneInv, TypeInv
<1>6. req'[r].pc = "token" /\ req'[r].tenant = q.tenant /\ req'[r].write = writes + 1
  BY <1>1, <1>5 DEF Writer
<1>7. writes + 1 \in reflects'[q.tenant]
  BY <1>2, <1>3 DEF PlaneInv, TypeInv
<1> QED BY <1>4, <1>5, <1>6, <1>7, Zenon DEF TrustStep, Trusts, Reading

LEMMA BeginTrust ==
  ASSUME PlaneInv, NEW r \in Requests, Arrive(r)
  PROVE  TrustStep(r) /\ UNCHANGED <<store, tokens>>
<1>1. UNCHANGED <<store, tokens>>
  BY Zenon DEF Arrive, WriteRelationTuples, DeprovisionUserRPC, ExportSubjectGrantsRPC, CheckRPC,
         BatchCheckRPC, ListObjectsRPC, ReadRPC
<1>2. ASSUME NEW n, req' = [req EXCEPT ![r] = n], n.pc \in {"active", "deprovision", "direct"}
      PROVE  TrustStep(r)
  BY <1>2 DEF TrustStep, Trusts, Reading, PlaneInv, TypeInv
<1>3. ASSUME NEW t, NEW I, NEW D, WriteRelationTuples(r, t, I, D)
      PROVE  TrustStep(r)
  BY <1>2, <1>3, Zenon DEF WriteRelationTuples
<1>4. ASSUME NEW u, DeprovisionUserRPC(r, u) \/ ExportSubjectGrantsRPC(r, u)
      PROVE  TrustStep(r)
  BY <1>2, <1>4, Zenon DEF DeprovisionUserRPC, ExportSubjectGrantsRPC
<1>5. ASSUME NEW op, NEW t, NEW tk \in tokens \cup {None}, NEW items, ReadRPC(r, op, t, tk, items)
      PROVE  TrustStep(r)
  <2>1. req' = [req EXCEPT ![r] = req'[r]] /\ req'[r] = Begin(r, op, t, tk, items) /\ tokens' = tokens
    BY <1>5, Zenon DEF ReadRPC, PlaneInv, TypeInv
  <2>2. req'[r].pc = "ensure" /\ req'[r].token = tk
    BY <2>1 DEF Begin
  <2>3. Trusts(req'[r], tokens, reflects')
    BY <2>2 DEF Trusts, Reading
  <2> QED BY <2>1, <2>3 DEF TrustStep
<1> QED BY <1>1, <1>3, <1>4, <1>5, ZenonT(30) DEF Arrive, CheckRPC, BatchCheckRPC, ListObjectsRPC

LEMMA TokensStay ==
  ASSUME PlaneInv, PlaneInv', TokenInv, Grows, tokens' = tokens
  PROVE  TokensOK'
<1> SUFFICES ASSUME NEW tk \in tokens PROVE tk.seq <= seq'[tk.tenant] /\ tk.write \in reflects'[tk.tenant]
  BY DEF TokensOK
<1>1. tk.tenant \in Tenants /\ tk.seq \in Nat
  BY DEF PlaneInv, TypeInv, Token
<1>2. tk.seq <= seq[tk.tenant] /\ tk.write \in reflects[tk.tenant]
  BY DEF TokenInv, TokensOK
<1>3. seq[tk.tenant] <= seq'[tk.tenant] /\ reflects[tk.tenant] \subseteq reflects'[tk.tenant]
  BY <1>1 DEF Grows
<1>4. seq[tk.tenant] \in Nat /\ seq'[tk.tenant] \in Nat
  BY <1>1 DEF PlaneInv, TypeInv
<1> QED BY <1>1, <1>2, <1>3, <1>4, SMTT(20)

LEMMA StoreKept ==
  ASSUME PlaneInv, UNCHANGED <<seq, reflects, tokens>>
  PROVE  Grows
BY DEF Grows, PlaneInv, TypeInv

LEMMA TrustKept ==
  ASSUME PlaneInv, PlaneInv', TokenInv, Grows, TokensOK', NEW r \in Requests, TrustStep(r)
  PROVE  TokenInv'
<1> SUFFICES ASSUME NEW s \in Requests PROVE Trusts(req'[s], tokens', reflects')
  BY DEF TokenInv
<1>1. CASE s = r
  BY <1>1 DEF TrustStep
<1>2. CASE s # r
  BY <1>2, TrustsStay, Zenon DEF TrustStep, PlaneInv, TypeInv
<1> QED BY <1>1, <1>2, SMTT(20)

LEMMA TokenStep ==
  ASSUME Durable, PlaneInv, PlaneInv', TokenInv, [Next]_vars
  PROVE  TokenInv'
<1>1. ASSUME NEW r \in Requests, TrustStep(r), UNCHANGED <<store, tokens>>
      PROVE  TokenInv'
  BY <1>1, StoreKept, TokensStay, TrustKept, Zenon DEF store
<1>2. ASSUME NEW r \in Requests, Arrive(r) PROVE TokenInv'
  BY <1>1, <1>2, BeginTrust
<1>3. ASSUME NEW r \in Requests, Return(r) \/ Abort(r) PROVE TokenInv'
  <2>1. req' = [req EXCEPT ![r] = req'[r]] /\ req'[r].pc = "idle" /\ UNCHANGED <<store, tokens>>
    BY <1>3 DEF Return, Abort, Idle, PlaneInv, TypeInv
  <2> QED BY <1>1, <2>1, Zenon DEF TrustStep, Trusts, Reading
<1>4. ASSUME NEW r \in Requests, WriteTuples(r) PROVE TokenInv'
  <2>1. tokens' = tokens
    BY <1>4, Zenon DEF WriteTuples
  <2> QED BY <1>4, <2>1, WriteTrust, TokensStay, TrustKept, Zenon
<1>12. ASSUME NEW r \in Requests, ensureProjectActive(r) PROVE TokenInv'
  BY <1>1, <1>12, ActiveTrust
<1>5. ASSUME NEW r \in Requests, Encode(r) PROVE TokenInv'
  BY <1>5, EncodeTrust, TrustKept, Zenon
<1>6. ASSUME NEW r \in Requests, DeprovisionUser(r) PROVE TokenInv'
  <2>1. answer(r) /\ req[r] \in Eraser /\ UNCHANGED <<seq, reflects, tokens>>
    BY <1>6, OtherKinds DEF DeprovisionUser
  <2>2. TrustStep(r)
    BY <2>1, AnsweredTrust DEF Eraser
  <2> QED BY <2>1, <2>2, StoreKept, TokensStay, TrustKept, Zenon
<1>7. ASSUME NEW r \in Requests,
             \/ EnsureConsistency(r) \/ ListObjects(r) \/ Check(r) \/ BatchCheck(r)
             \/ enter(r) \/ leave(r) \/ \E s \in Users \cup Nodes : visit(r, s)
      PROVE  TokenInv'
  <2>1. UNCHANGED <<store, tokens>>
    BY <1>7, ReadsGood
  <2>2. Grows
    BY <2>1, StoreKept DEF store
  <2>3. TrustStep(r)
    BY <1>7, <2>2, EnsureTrust, ReadCarries, CarriesTrust, Zenon
  <2> QED BY <1>1, <2>1, <2>3, Zenon
<1>8. ASSUME NEW r \in Requests, ListSubjectTuplesInProject(r) \/ ExportSubjectGrants(r)
      PROVE  TokenInv'
  <2>1. req[r] \in Exporter
    BY <1>8, OtherKinds DEF ListSubjectTuplesInProject, ExportSubjectGrants
  <2>2. /\ req' = [req EXCEPT ![r] = req'[r]] /\ UNCHANGED <<store, tokens>>
        /\ req'[r].pc \in {"via", "answered"}
    BY <1>8, <2>1, SMTT(20) DEF ListSubjectTuplesInProject, ExportSubjectGrants, Exporter, PlaneInv, TypeInv
  <2> QED BY <1>1, <2>2, Zenon DEF TrustStep, Trusts, Reading
<1>9. CASE Restart
  <2>1. UNCHANGED <<seq, reflects, tokens>> /\ \A s \in Requests : req'[s] = Idle
    BY <1>9, SMTT(20) DEF Restart
  <2>2. \A s \in Requests : Trusts(req'[s], tokens', reflects')
    BY <2>1, SMTT(20) DEF Idle, Trusts, Reading
  <2> QED BY <2>1, <2>2, StoreKept, TokensStay, Zenon DEF TokenInv
<1>10. CASE SetStatus
  BY <1>10 DEF SetStatus, store, TokenInv, TokensOK
<1>11. CASE UNCHANGED vars
  BY <1>11 DEF vars, TokenInv, TokensOK
<1> QED BY <1>2, <1>3, <1>4, <1>5, <1>6, <1>7, <1>8, <1>9, <1>10, <1>11, <1>12, Zenon DEF Next, Proceed

LEMMA TokensTrusted ==
  ASSUME PlaneInv, TokenInv
  PROVE  TokensHold
<1>1. TokensAreReached
  BY DEF TokensAreReached, TokenInv, TokensOK
<1>2. TokensAreHonoured
  BY DEF TokensAreHonoured, TokenInv, TokensOK, Trusts, Reading
<1> QED BY <1>1, <1>2, Zenon DEF TokensHold

\* Over a store that survives restarts, a token WriteTuples handed out is never
\* refused by its own shard, and a read EnsureConsistency lets through with it
\* sees the write it came from, whatever is written and restarted meanwhile.
THEOREM TokensAlways ==
  ASSUME Durable, NEW T \in [Tenants -> SUBSET Tuples]
  PROVE  InitWith(T) /\ [][Next]_vars => []TokensHold
<1>1. InitWith(T) => PlaneInv /\ TokenInv
  <2>1. InitWith(T) => TokenInv
    BY DEF InitWith, TokenInv, TokensOK, Trusts, Reading, Idle
  <2> QED BY <2>1, PlaneInit, Zenon
<1>2. PlaneInv /\ [Next]_vars => PlaneInv'
  BY PlaneStep
<1>3. PlaneInv /\ PlaneInv' /\ TokenInv /\ [Next]_vars => TokenInv'
  BY TokenStep
<1>4. PlaneInv /\ TokenInv => TokensHold
  BY TokensTrusted
<1> QED BY <1>1, <1>2, <1>3, <1>4, PTL
=============================================================================
