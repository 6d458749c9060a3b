---------------------------- MODULE GroupsProofs ----------------------------
(* The roster of a group and who has access through it, for every set of    *)
(* users, groups and concurrent requests.                                   *)
EXTENDS Groups, TLAPS

MemberOps == {"AddGroupMember", "RemoveGroupMember", "SetEnrollmentState"}

\* What a handler has learnt at each of its steps.
Shape(q) ==
  /\ q \in Handler
  /\ \/ q = Idle
     \/ q.op = "CreateGroup" /\ q.pc \in {"workspace", "create"} /\ q.user \in Users
     \/ q.op = "DeleteGroup" /\ q.pc \in {"get", "manager", "delete"} /\ q.g \in GroupIDs
     \/ /\ q.op \in MemberOps /\ q.pc \in {"get", "manager", "enrollment", "write"}
        /\ q.g \in GroupIDs /\ q.member \in GroupMember
        /\ q.op = "SetEnrollmentState" => q.state \in EnrollmentStates

TypeInv == TypeOK /\ \A r \in Requests : Shape(req[r])

\* What the enrollment row of m in g says, and whether m is in the member set.
stateOf(g, m) == enrollments[g][MemberKey(m)]
inGroup(g, m) == groupMemberTuple(g, m) \in tuples
aside(g, m) == groupMemberTuple(g, m) \in bypassed

\* A handler past the read of its group, and past the read of the enrollment,
\* still knows what is in the tables.
Learnt(r) ==
  /\ req[r].pc \in {"manager", "enrollment", "write", "delete"} => groups[req[r].g] # None
  /\ req[r].pc = "write" => (req[r].tracked <=> stateOf(req[r].g, req[r].member) # None)

\* A member has a row or a tuple in a group that exists only, and the two agree,
\* but for what the data plane wrote.
Roster(g, m) ==
  /\ groups[g] = None => stateOf(g, m) = None /\ (inGroup(g, m) => aside(g, m))
  /\ stateOf(g, m) # None /\ ~aside(g, m) =>
       /\ inGroup(g, m) => GrantsAccess(stateOf(g, m))
       /\ GrantsAccess(stateOf(g, m)) => inGroup(g, m) \/ m.UserID \in erased

GroupInv ==
  /\ \A r, s \in Requests : r # s => ~collide(req[r], req[s])
  /\ \A r \in Requests : Learnt(r)
  /\ \A g \in GroupIDs : groups[g] # None => g \in issued
  /\ \A g \in GroupIDs, m \in GroupMember : Roster(g, m)
-----------------------------------------------------------------------------
(* Storage keys *)

\* A member's key names the member, and every key is some member's.
LEMMA KeyOfMember ==
  ASSUME NEW m \in GroupMember
  PROVE  MemberKey(m) \in MemberKeys /\ MemberFromKey(MemberKey(m)) = m
BY ConstantsAssumption DEF GroupMember, MemberKey, MemberKeys, MemberFromKey

LEMMA MemberOfKey ==
  ASSUME NEW k \in MemberKeys
  PROVE  MemberFromKey(k) \in GroupMember /\ MemberKey(MemberFromKey(k)) = k
BY ConstantsAssumption DEF GroupMember, MemberKey, MemberKeys, MemberFromKey

LEMMA ShapeOfIdle == Shape(Idle) /\ Idle.g = None /\ Idle.pc = "idle"
BY DEF Shape, Idle, Handler, PCs
-----------------------------------------------------------------------------
(* What a step of handler r does to r and to the others. *)

\* The handler goes on as q, which is about the same member of the same group.
Continues(r, q) ==
  /\ req' = [req EXCEPT ![r] = q]
  /\ Shape(q) /\ q.op = req[r].op /\ q.g = req[r].g /\ q.member = req[r].member

LEMMA StepReq ==
  ASSUME TypeInv, NEW r \in Requests, Step(r)
  PROVE  Return(r) \/ \E q : Continues(r, q)
<1> DEFINE q == req[r]
<1>1. Shape(q)
  BY DEF TypeInv
<1>2. CASE RequireMember(r)
  <2>1. Return(r) \/ req' = [req EXCEPT ![r] = [q EXCEPT !.pc = "create"]]
    BY <1>2, Zenon DEF RequireMember, Proceed, Return
  <2>2. Shape([q EXCEPT !.pc = "create"])
    BY <1>1, <1>2 DEF RequireMember, Shape, Handler, PCs, MemberOps, Idle
  <2> QED BY <1>1, <2>1, <2>2 DEF Continues, Shape, Handler
<1>3. CASE GetGroup(r)
  <2>1. PICK pc \in {afterManager(q.op), "manager"} :
          Return(r) \/ req' = [req EXCEPT ![r] = [q EXCEPT !.pc = pc]]
    BY <1>3, Zenon DEF GetGroup, Proceed, Return
  <2>2. Shape([q EXCEPT !.pc = pc])
    BY <1>1, <1>3 DEF GetGroup, Shape, Handler, PCs, MemberOps, Idle, afterManager
  <2> QED BY <1>1, <2>1, <2>2 DEF Continues, Shape, Handler
<1>4. CASE requireGroupManager(r)
  <2>1. Return(r) \/ req' = [req EXCEPT ![r] = [q EXCEPT !.pc = afterManager(q.op)]]
    BY <1>4, Zenon DEF requireGroupManager, Proceed, Return
  <2>2. Shape([q EXCEPT !.pc = afterManager(q.op)])
    BY <1>1, <1>4 DEF requireGroupManager, Shape, Handler, PCs, MemberOps, Idle, afterManager
  <2> QED BY <1>1, <2>1, <2>2 DEF Continues, Shape, Handler
<1>5. CASE ReadEnrollment(r)
  <2>1. PICK t \in BOOLEAN : req' = [req EXCEPT ![r] = [q EXCEPT !.tracked = t, !.pc = "write"]]
    BY <1>5, Zenon DEF ReadEnrollment, Proceed
  <2>2. q.pc = "enrollment"
    BY <1>5, Zenon DEF ReadEnrollment
  <2> DEFINE h == [q EXCEPT !.tracked = t, !.pc = "write"]
  <2>3. q \in Handler
    BY <1>1 DEF Shape
  <2>4. h \in Handler
    BY <2>3, Zenon DEF Handler, PCs
  <2>5. /\ h.op = q.op /\ h.g = q.g /\ h.member = q.member /\ h.state = q.state
        /\ h.pc = "write"
    BY <2>3 DEF Handler
  <2> HIDE DEF h
  <2>6. Shape(h)
    BY <1>1, <2>2, <2>4, <2>5 DEF Shape, MemberOps, Idle
  <2> QED BY <2>1, <2>5, <2>6, Zenon DEF Continues, h
<1> QED BY <1>2, <1>3, <1>4, <1>5
        DEF Step, Abort, DeleteGroup, AddGroupMember, RemoveGroupMember, SetEnrollmentState,
            CreateGroup

LEMMA ArriveReq ==
  ASSUME Arrive
  PROVE  \E r \in Requests : \E q : Begin(r, q) /\ Shape(q) /\ q.pc \in {"workspace", "create", "get"}
<1>1. PICK r \in Requests, u \in Users :
        \/ \E owned \in BOOLEAN : CreateGroupRPC(r, u, owned)
        \/ \E g \in GroupIDs : DeleteGroupRPC(r, u, g)
        \/ \E g \in GroupIDs, m \in GroupMember :
             \/ AddGroupMemberRPC(r, u, g, m) \/ RemoveGroupMemberRPC(r, u, g, m)
             \/ \E state \in EnrollmentStates : SetEnrollmentStateRPC(r, u, g, m, state)
  BY Zenon DEF Arrive
<1>2. ASSUME NEW owned \in BOOLEAN, CreateGroupRPC(r, u, owned)
      PROVE  \E q : Begin(r, q) /\ Shape(q) /\ q.pc \in {"workspace", "create", "get"}
  <2> DEFINE q == [Idle EXCEPT !.op = "CreateGroup", !.pc = entry("CreateGroup", owned),
                               !.user = u, !.owned = owned]
  <2>1. entry("CreateGroup", owned) \in {"workspace", "create"}
    BY DEF entry
  <2>2. q.op = "CreateGroup" /\ q.pc \in {"workspace", "create"} /\ q.user = u /\ q \in Handler
    BY <2>1, Zenon DEF Handler, Ops, PCs, Idle
  <2>3. Begin(r, q)
    BY <1>2 DEF CreateGroupRPC
  <2> HIDE DEF q
  <2> QED BY <2>2, <2>3 DEF Shape
<1>3. ASSUME NEW g \in GroupIDs, DeleteGroupRPC(r, u, g)
      PROVE  \E q : Begin(r, q) /\ Shape(q) /\ q.pc \in {"workspace", "create", "get"}
  <2> DEFINE q == [Idle EXCEPT !.op = "DeleteGroup", !.pc = "get", !.user = u, !.g = g]
  <2>1. q.op = "DeleteGroup" /\ q.pc = "get" /\ q.g = g /\ q \in Handler
    BY Zenon DEF Handler, Ops, PCs, Idle
  <2>2. Begin(r, q)
    BY <1>3 DEF DeleteGroupRPC
  <2> HIDE DEF q
  <2> QED BY <2>1, <2>2 DEF Shape
<1>4. ASSUME NEW g \in GroupIDs, NEW m \in GroupMember,
             AddGroupMemberRPC(r, u, g, m) \/ RemoveGroupMemberRPC(r, u, g, m)
      PROVE  \E q : Begin(r, q) /\ Shape(q) /\ q.pc \in {"workspace", "create", "get"}
  <2>1. PICK op \in {"AddGroupMember", "RemoveGroupMember"} :
          Begin(r, [Idle EXCEPT !.op = op, !.pc = "get", !.user = u, !.g = g, !.member = m])
    BY <1>4 DEF AddGroupMemberRPC, RemoveGroupMemberRPC
  <2> DEFINE q == [Idle EXCEPT !.op = op, !.pc = "get", !.user = u, !.g = g, !.member = m]
  <2>2. q.op = op /\ q.pc = "get" /\ q.g = g /\ q.member = m /\ q \in Handler
    BY Zenon DEF Handler, Ops, PCs, Idle
  <2> HIDE DEF q
  <2>3. Shape(q)
    BY <2>2 DEF Shape, MemberOps
  <2> QED BY <2>1, <2>2, <2>3, Zenon DEF q
<1>5. ASSUME NEW g \in GroupIDs, NEW m \in GroupMember, NEW state \in EnrollmentStates,
             SetEnrollmentStateRPC(r, u, g, m, state)
      PROVE  \E q : Begin(r, q) /\ Shape(q) /\ q.pc \in {"workspace", "create", "get"}
  <2> DEFINE q == [Idle EXCEPT !.op = "SetEnrollmentState", !.pc = "get", !.user = u, !.g = g,
                               !.member = m, !.state = state]
  <2>1. /\ q.op = "SetEnrollmentState" /\ q.pc = "get" /\ q.g = g /\ q.member = m
        /\ q.state = state /\ q \in Handler
    BY Zenon DEF Handler, Ops, PCs, Idle
  <2>2. Begin(r, q)
    BY <1>5 DEF SetEnrollmentStateRPC
  <2> HIDE DEF q
  <2> QED BY <2>1, <2>2 DEF Shape, MemberOps
<1> QED BY <1>1, <1>2, <1>3, <1>4, <1>5, Zenon
-----------------------------------------------------------------------------
(* What a step does to the tables. *)

MemberWrite(r) == AddGroupMember(r) \/ RemoveGroupMember(r) \/ SetEnrollmentState(r)

LEMMA StepRepo ==
  ASSUME NEW r \in Requests, Step(r)
  PROVE  \/ UNCHANGED repo
         \/ MemberWrite(r)
         \/ DeleteGroup(r)
         \/ \E g \in GroupIDs : CreateGroup(r, g)
BY Zenon DEF Step, Abort, RequireMember, GetGroup, requireGroupManager, ReadEnrollment, MemberWrite

\* A write of a member is about a member, in a group the handler has found.
LEMMA WriterShape ==
  ASSUME TypeInv, NEW r \in Requests, req[r].pc = "write"
  PROVE  req[r].g \in GroupIDs /\ req[r].member \in GroupMember /\ req[r].op \in MemberOps
BY DEF TypeInv, Shape, Idle

Puts(g, m, st) == enrollments' = [enrollments EXCEPT ![g][MemberKey(m)] = st]

LEMMA EnrollmentsType ==
  ASSUME TypeOK, NEW g \in GroupIDs, NEW m \in GroupMember, NEW st \in EnrollmentStates, Puts(g, m, st)
  PROVE  /\ enrollments' \in [GroupIDs -> [MemberKeys -> EnrollmentStates \cup {None}]]
         /\ stateOf(g, m)' = st
         /\ \A h \in GroupIDs, n \in GroupMember :
              <<h, n>> # <<g, m>> => stateOf(h, n)' = stateOf(h, n)
<1>1. MemberKey(m) \in MemberKeys
  BY KeyOfMember
<1>2. \A n \in GroupMember : MemberKey(n) \in MemberKeys /\ (n # m => MemberKey(n) # MemberKey(m))
  BY KeyOfMember
<1> QED BY <1>1, <1>2 DEF TypeOK, stateOf, Puts

\* A write of a member touches that member alone, and leaves the tuple beside a
\* row exactly when the row's state grants access.
LEMMA MemberWriteEffect ==
  ASSUME TypeInv, NEW r \in Requests, MemberWrite(r),
         NEW g \in GroupIDs, NEW m \in GroupMember, g = req[r].g, m = req[r].member,
         req[r].tracked <=> stateOf(g, m) # None
  PROVE  /\ UNCHANGED <<groups, issued, erased>> /\ Return(r)
         /\ enrollments' \in [GroupIDs -> [MemberKeys -> EnrollmentStates \cup {None}]]
         /\ tuples' \subseteq GroupIDs \X GroupMember /\ bypassed' \subseteq bypassed
         /\ \A h \in GroupIDs, n \in GroupMember : <<h, n>> # <<g, m>> =>
              /\ stateOf(h, n)' = stateOf(h, n)
              /\ (inGroup(h, n)' <=> inGroup(h, n)) /\ (aside(h, n)' <=> aside(h, n))
         /\ stateOf(g, m)' # None => (inGroup(g, m)' <=> GrantsAccess(stateOf(g, m)'))
<1> DEFINE t == {groupMemberTuple(g, m)}
           PutState(st) ==
             /\ Puts(g, m, st)
             /\ tuples' = IF GrantsAccess(st) THEN tuples \cup t ELSE tuples \ t
             /\ bypassed' = bypassed \ t
             /\ UNCHANGED <<groups, issued, erased>>
<1>3. TypeOK
  BY DEF TypeInv
<1>4. Return(r)
  BY Zenon DEF MemberWrite, AddGroupMember, RemoveGroupMember, SetEnrollmentState
<1>5. ASSUME NEW st \in EnrollmentStates, PutState(st)
      PROVE  /\ UNCHANGED <<groups, issued, erased>>
             /\ enrollments' \in [GroupIDs -> [MemberKeys -> EnrollmentStates \cup {None}]]
             /\ tuples' \subseteq GroupIDs \X GroupMember /\ bypassed' \subseteq bypassed
             /\ \A h \in GroupIDs, n \in GroupMember : <<h, n>> # <<g, m>> =>
                  /\ stateOf(h, n)' = stateOf(h, n)
                  /\ (inGroup(h, n)' <=> inGroup(h, n)) /\ (aside(h, n)' <=> aside(h, n))
             /\ inGroup(g, m)' <=> GrantsAccess(stateOf(g, m)')
  <2>1. /\ enrollments' \in [GroupIDs -> [MemberKeys -> EnrollmentStates \cup {None}]]
        /\ stateOf(g, m)' = st
        /\ \A h \in GroupIDs, n \in GroupMember :
             <<h, n>> # <<g, m>> => stateOf(h, n)' = stateOf(h, n)
    BY <1>3, <1>5, EnrollmentsType
  <2>2. /\ UNCHANGED <<groups, issued, erased>>
        /\ bypassed' = bypassed \ t
        /\ \/ GrantsAccess(st) /\ tuples' = tuples \cup t
           \/ ~GrantsAccess(st) /\ tuples' = tuples \ t
    BY <1>5
  <2>3. tuples' \subseteq GroupIDs \X GroupMember
    BY <1>3, <2>2 DEF TypeOK, groupMemberTuple
  <2>4. \A h \in GroupIDs, n \in GroupMember : <<h, n>> # <<g, m>> =>
          (inGroup(h, n)' <=> inGroup(h, n)) /\ (aside(h, n)' <=> aside(h, n))
    BY <2>2 DEF inGroup, aside, groupMemberTuple
  <2>5. inGroup(g, m)' <=> GrantsAccess(st)
    BY <2>2 DEF inGroup, groupMemberTuple
  <2> QED BY <2>1, <2>2, <2>3, <2>4, <2>5, Zenon
<1>6. ASSUME WriteTuples(t, {}) \/ WriteTuples({}, t), stateOf(g, m) = None
      PROVE  /\ UNCHANGED <<groups, issued, erased>>
             /\ enrollments' \in [GroupIDs -> [MemberKeys -> EnrollmentStates \cup {None}]]
             /\ tuples' \subseteq GroupIDs \X GroupMember /\ bypassed' \subseteq bypassed
             /\ \A h \in GroupIDs, n \in GroupMember : <<h, n>> # <<g, m>> =>
                  /\ stateOf(h, n)' = stateOf(h, n)
                  /\ (inGroup(h, n)' <=> inGroup(h, n)) /\ (aside(h, n)' <=> aside(h, n))
             /\ stateOf(g, m)' = None
  <2>1. /\ UNCHANGED <<groups, enrollments, issued, erased>>
        /\ tuples' = tuples \cup t \/ tuples' = tuples \ t
        /\ bypassed' = bypassed \ t
    BY <1>6 DEF WriteTuples
  <2>2. tuples' \subseteq GroupIDs \X GroupMember
    BY <1>3, <2>1 DEF TypeOK, groupMemberTuple
  <2>3. \A h \in GroupIDs, n \in GroupMember : <<h, n>> # <<g, m>> =>
          (inGroup(h, n)' <=> inGroup(h, n)) /\ (aside(h, n)' <=> aside(h, n))
    BY <2>1 DEF inGroup, aside, groupMemberTuple
  <2> QED BY <1>3, <1>6, <2>1, <2>2, <2>3 DEF TypeOK, stateOf
<1>7. GrantsAccess("enrolled") /\ ~GrantsAccess("dropped")
      /\ "enrolled" \in EnrollmentStates /\ "dropped" \in EnrollmentStates
  BY DEF GrantsAccess, EnrollmentStates
<1> HIDE DEF PutState, t
<1>8. CASE AddGroupMember(r)
  <2>1. (\E st \in EnrollmentStates : PutState(st)) \/ (WriteTuples(t, {}) /\ stateOf(g, m) = None)
    BY <1>7, <1>8 DEF AddGroupMember, SetEnrollmentAndTuples, PutState, Puts, t
  <2>2. CASE \E st \in EnrollmentStates : PutState(st)
    BY <1>4, <1>5, <2>2
  <2> QED BY <1>4, <1>6, <2>1, <2>2
<1>9. CASE RemoveGroupMember(r)
  <2>1. (\E st \in EnrollmentStates : PutState(st)) \/ (WriteTuples({}, t) /\ stateOf(g, m) = None)
    BY <1>7, <1>9 DEF RemoveGroupMember, SetEnrollmentAndTuples, PutState, Puts, t
  <2>2. CASE \E st \in EnrollmentStates : PutState(st)
    BY <1>4, <1>5, <2>2
  <2> QED BY <1>4, <1>6, <2>1, <2>2
<1>10. CASE SetEnrollmentState(r)
  <2>1. req[r].pc = "write" /\ req[r].op = "SetEnrollmentState"
    BY <1>10, Zenon DEF SetEnrollmentState
  <2>2. req[r].state \in EnrollmentStates
    BY <2>1 DEF TypeInv, Shape, Idle, MemberOps
  <2>3. PutState(req[r].state)
    BY <1>10 DEF SetEnrollmentState, SetEnrollmentAndTuples, PutState, Puts, t
  <2> QED BY <1>4, <1>5, <2>2, <2>3
<1> QED BY <1>8, <1>9, <1>10 DEF MemberWrite

LEMMA TypeInit == Init => TypeInv
BY ShapeOfIdle DEF Init, TypeInv, TypeOK, Shape

LEMMA TypeStep == TypeInv /\ GroupInv /\ [Next]_vars => TypeInv'
<1> SUFFICES ASSUME TypeInv, GroupInv, [Next]_vars PROVE TypeInv'
  OBVIOUS
<1>1. ASSUME NEW r \in Requests, NEW q, req' = [req EXCEPT ![r] = q], Shape(q)
      PROVE  req' \in [Requests -> Handler] /\ \A s \in Requests : Shape(req'[s])
  BY <1>1 DEF TypeInv, TypeOK, Shape
<1>2. ASSUME NEW r \in Requests, Step(r) PROVE TypeInv'
  <2>1. req' \in [Requests -> Handler] /\ \A s \in Requests : Shape(req'[s])
    BY <1>1, <1>2, StepReq, ShapeOfIdle, Zenon DEF Return, Continues
  <2>2. CASE UNCHANGED repo
    BY <2>1, <2>2 DEF TypeInv, TypeOK, repo, Shape
  <2>3. CASE MemberWrite(r)
    <3>1. req[r].pc = "write"
      BY <2>3, Zenon DEF MemberWrite, AddGroupMember, RemoveGroupMember, SetEnrollmentState
    <3> QED BY <2>1, <2>3, <3>1, WriterShape, MemberWriteEffect DEF TypeInv, TypeOK, GroupInv, Learnt
  <2>4. CASE DeleteGroup(r)
    <3>1. CASE UNCHANGED repo
      BY <2>2, <3>1
    <3>2. CASE ~UNCHANGED repo
      <4>1. /\ groups' = [groups EXCEPT ![req[r].g] = None]
            /\ tuples' = {t \in tuples : t[1] # req[r].g}
            /\ bypassed' = {t \in bypassed : t[1] # req[r].g}
            /\ enrollments' = [enrollments EXCEPT ![req[r].g] = [k \in MemberKeys |-> None]]
            /\ UNCHANGED <<issued, erased>>
        BY <2>4, <3>2 DEF DeleteGroup, DeleteGroupRow
      <4>2. groups' \in [GroupIDs -> Group \cup {None}]
        BY <4>1, Zenon DEF TypeInv, TypeOK
      <4>3. enrollments' \in [GroupIDs -> [MemberKeys -> EnrollmentStates \cup {None}]]
        BY <4>1, Zenon DEF TypeInv, TypeOK
      <4> QED BY <2>1, <4>1, <4>2, <4>3 DEF TypeInv, TypeOK
    <3> QED BY <3>1, <3>2
  <2>5. ASSUME NEW g \in GroupIDs, CreateGroup(r, g) PROVE TypeInv'
    <3>1. [by |-> req[r].user, owned |-> req[r].owned] \in Group
      BY <2>5 DEF CreateGroup, TypeInv, Shape, Idle, Handler, Group, MemberOps
    <3> QED BY <2>1, <2>5, <3>1 DEF CreateGroup, TypeInv, TypeOK
  <2> QED BY <1>2, <2>2, <2>3, <2>4, <2>5, StepRepo
<1>3. CASE Arrive
  <2>1. PICK r \in Requests : \E q : Begin(r, q) /\ Shape(q)
    BY <1>3, ArriveReq
  <2>2. req' \in [Requests -> Handler] /\ \A s \in Requests : Shape(req'[s])
    BY <1>1, <2>1, Zenon DEF Begin
  <2> QED BY <2>1, <2>2 DEF Begin, TypeInv, TypeOK, repo
<1>4. ASSUME NEW u \in Users, DeprovisionUser(u) PROVE TypeInv'
  BY <1>4 DEF DeprovisionUser, TypeInv, TypeOK, Shape
<1>5. CASE UNCHANGED vars
  BY <1>5 DEF vars, TypeInv, TypeOK, Shape
<1>6. ASSUME NEW g \in GroupIDs, NEW m \in GroupMember, WriteRelationTuples(g, m) PROVE TypeInv'
  <2>1. /\ tuples' \subseteq tuples \cup {<<g, m>>} /\ bypassed' = bypassed \cup {<<g, m>>}
        /\ UNCHANGED <<groups, enrollments, issued, erased, req>>
    BY <1>6 DEF WriteRelationTuples, groupMemberTuple
  <2> QED BY <2>1 DEF TypeInv, TypeOK, Shape
<1> QED BY <1>2, <1>3, <1>4, <1>5, <1>6 DEF Next

-----------------------------------------------------------------------------
(* The roster *)

LEMMA GroupInit == Init => GroupInv
<1> SUFFICES ASSUME Init PROVE GroupInv
  OBVIOUS
<1>1. \A r \in Requests : req[r].g = None /\ req[r].pc = "idle"
  BY ShapeOfIdle DEF Init
<1>2. \A g \in GroupIDs, m \in GroupMember : stateOf(g, m) = None /\ ~inGroup(g, m)
  BY KeyOfMember DEF Init, stateOf, inGroup
<1> QED BY <1>1, <1>2 DEF Init, GroupInv, collide, Learnt, Roster

\* A step of a handler leaves the others where they are, and collides with them
\* no more than before.
LEMMA StaysApart ==
  ASSUME TypeInv, GroupInv, NEW r \in Requests, Step(r)
  PROVE  /\ \A s \in Requests : s # r => req'[s] = req[s]
         /\ \A s, t \in Requests : s # t => ~collide(req'[s], req'[t])
<1>1. PICK q : /\ req' = [req EXCEPT ![r] = q]
               /\ q.g = None \/ (q.op = req[r].op /\ q.g = req[r].g /\ q.member = req[r].member)
  BY StepReq, ShapeOfIdle DEF Return, Continues
<1>2. \A s \in Requests : s # r => req'[s] = req[s]
  BY <1>1 DEF TypeInv, TypeOK
<1>3. req'[r] = q
  BY <1>1 DEF TypeInv, TypeOK
<1> QED BY <1>1, <1>2, <1>3 DEF GroupInv, collide

\* A read: the handler learns something, the tables stay.
LEMMA ReadStep ==
  ASSUME TypeInv, GroupInv, NEW r \in Requests, Step(r), UNCHANGED repo
  PROVE  GroupInv'
<1>1. UNCHANGED <<groups, enrollments, tuples, issued, erased, bypassed>>
  BY DEF repo
<1>2. \A g \in GroupIDs, m \in GroupMember : Roster(g, m)'
  BY <1>1 DEF GroupInv, Roster, stateOf, inGroup, aside
<1>3. \A s \in Requests : s # r => Learnt(s)'
  BY <1>1, StaysApart DEF GroupInv, Learnt, stateOf
<1>4. CASE Return(r)
  <2>1. req'[r].pc = "idle"
    BY <1>4, ShapeOfIdle DEF Return, TypeInv, TypeOK
  <2>2. Learnt(r)'
    BY <2>1 DEF Learnt
  <2> QED BY <1>1, <1>2, <1>3, <2>2, StaysApart DEF GroupInv
<1>5. CASE ReadEnrollment(r)
  <2> DEFINE q == req[r]
  <2>1. PICK t \in BOOLEAN : /\ t <=> stateOf(q.g, q.member) # None
                             /\ req'[r] = [q EXCEPT !.tracked = t, !.pc = "write"]
    BY <1>5, Zenon DEF ReadEnrollment, Proceed, TypeInv, TypeOK, stateOf, GetEnrollment
  <2>2. q.pc = "enrollment" /\ q \in Handler
    BY <1>5, Zenon DEF ReadEnrollment, TypeInv, Shape
  <2>3. /\ req'[r].pc = "write" /\ req'[r].g = q.g /\ req'[r].member = q.member
        /\ req'[r].tracked = t
    BY <2>1, <2>2 DEF Handler
  <2>4. groups'[q.g] # None
    BY <1>1, <2>2 DEF GroupInv, Learnt
  <2>5. enrollments'[q.g][MemberKey(q.member)] = stateOf(q.g, q.member)
    BY <1>1 DEF stateOf
  <2>6. Learnt(r)'
    <3>1. groups'[req'[r].g] # None
      BY <2>3, <2>4
    <3>2. enrollments'[req'[r].g][MemberKey(req'[r].member)] # None <=> stateOf(q.g, q.member) # None
      BY <2>3, <2>5
    <3>3. req'[r].tracked <=> enrollments'[req'[r].g][MemberKey(req'[r].member)] # None
      BY <2>1, <2>3, <3>2, Zenon
    <3> QED BY <3>1, <3>3, Zenon DEF Learnt, stateOf
  <2> QED BY <1>1, <1>2, <1>3, <2>6, StaysApart DEF GroupInv
<1>6. CASE ~Return(r) /\ (RequireMember(r) \/ GetGroup(r) \/ requireGroupManager(r))
  <2> DEFINE q == req[r]
  <2>1. q \in Handler /\ Shape(q)
    BY DEF TypeInv, Shape
  <2>2. PICK pc \in {"create", "manager", afterManager(q.op)} :
          /\ req'[r] = [q EXCEPT !.pc = pc]
          /\ pc # "create" => groups[q.g] # None
    BY <1>6 DEF RequireMember, GetGroup, requireGroupManager, Proceed, Return, GroupInv, Learnt,
                TypeInv, TypeOK
  <2>3. req'[r].pc = pc /\ req'[r].g = q.g /\ pc # "write"
    BY <2>1, <2>2 DEF Handler, afterManager
  <2>4. Learnt(r)'
    BY <1>1, <2>2, <2>3 DEF Learnt
  <2> QED BY <1>1, <1>2, <1>3, <2>4, StaysApart DEF GroupInv
<1> QED BY <1>4, <1>5, <1>6
        DEF Step, Abort, DeleteGroup, AddGroupMember, RemoveGroupMember, SetEnrollmentState,
            CreateGroup

\* The row of a member, its tuple or both change, and nobody else is about that
\* member of that group.
LEMMA WriteStep ==
  ASSUME TypeInv, GroupInv, NEW r \in Requests, Step(r), MemberWrite(r)
  PROVE  GroupInv'
<1>1. req[r].pc = "write"
  BY Zenon DEF MemberWrite, AddGroupMember, RemoveGroupMember, SetEnrollmentState
<1>2. PICK g \in GroupIDs, m \in GroupMember :
        g = req[r].g /\ m = req[r].member /\ req[r].op \in MemberOps
  BY <1>1, WriterShape
<1>3. groups[g] # None /\ (req[r].tracked <=> stateOf(g, m) # None)
  BY <1>1, <1>2 DEF GroupInv, Learnt
<1>4. /\ UNCHANGED <<groups, issued, erased>> /\ Return(r)
      /\ \A h \in GroupIDs, n \in GroupMember : <<h, n>> # <<g, m>> =>
           /\ stateOf(h, n)' = stateOf(h, n)
           /\ (inGroup(h, n)' <=> inGroup(h, n)) /\ (aside(h, n)' <=> aside(h, n))
      /\ stateOf(g, m)' # None => (inGroup(g, m)' <=> GrantsAccess(stateOf(g, m)'))
  BY <1>2, <1>3, MemberWriteEffect
<1>5. \A h \in GroupIDs, n \in GroupMember : Roster(h, n)'
  <2> SUFFICES ASSUME NEW h \in GroupIDs, NEW n \in GroupMember PROVE Roster(h, n)'
    OBVIOUS
  <2>1. CASE h = g /\ n = m
    BY <1>3, <1>4, <2>1 DEF Roster
  <2>2. CASE <<h, n>> # <<g, m>>
    BY <1>4, <2>2 DEF GroupInv, Roster
  <2> QED BY <2>1, <2>2
<1>6. ASSUME NEW s \in Requests PROVE Learnt(s)'
  <2>1. CASE s = r
    BY <1>4, <2>1, ShapeOfIdle DEF Return, TypeInv, TypeOK, Learnt
  <2>2. CASE s # r
    <3>1. req'[s] = req[s] /\ ~collide(req[r], req[s])
      BY <2>2, StaysApart DEF GroupInv
    <3>2. CASE req[s].pc = "write"
      <4>1. PICK h \in GroupIDs, n \in GroupMember : h = req[s].g /\ n = req[s].member
        BY <3>2, WriterShape
      <4>2. <<h, n>> # <<g, m>>
        BY <1>2, <3>1, <4>1, ConstantsAssumption DEF collide
      <4>3. enrollments'[h][MemberKey(n)] = enrollments[h][MemberKey(n)]
        BY <1>4, <4>2 DEF stateOf
      <4> QED BY <1>4, <3>1, <4>1, <4>3 DEF GroupInv, Learnt, stateOf
    <3> QED BY <1>4, <3>1, <3>2 DEF GroupInv, Learnt
  <2> QED BY <2>1, <2>2
<1> QED BY <1>4, <1>5, <1>6, StaysApart DEF GroupInv

\* The group goes with its rows and tuples, and nobody else is about the group.
LEMMA DeleteStep ==
  ASSUME TypeInv, GroupInv, NEW r \in Requests, Step(r), DeleteGroup(r)
  PROVE  GroupInv'
<1>1. PICK g \in GroupIDs : g = req[r].g /\ req[r].op = "DeleteGroup"
  BY DEF DeleteGroup, TypeInv, Shape, Idle, MemberOps
<1>2. groups[g] # None
  BY <1>1 DEF DeleteGroup, GroupInv, Learnt
<1>3. /\ groups' = [groups EXCEPT ![g] = None]
      /\ tuples' = {t \in tuples : t[1] # g}
      /\ bypassed' = {t \in bypassed : t[1] # g}
      /\ enrollments' = [enrollments EXCEPT ![g] = [k \in MemberKeys |-> None]]
      /\ UNCHANGED <<issued, erased>>
  BY <1>1, <1>2 DEF DeleteGroup, DeleteGroupRow
<1>4. ASSUME NEW h \in GroupIDs, NEW m \in GroupMember
      PROVE  Roster(h, m)' /\ (h # g => stateOf(h, m)' = stateOf(h, m))
  <2>1. CASE h = g
    BY <1>3, <2>1, KeyOfMember DEF Roster, stateOf, inGroup, groupMemberTuple, TypeInv, TypeOK
  <2>2. CASE h # g
    <3>1. stateOf(h, m)' = stateOf(h, m) /\ groups'[h] = groups[h] /\ erased' = erased
      BY <1>3, <2>2 DEF stateOf, TypeInv, TypeOK
    <3>2. (inGroup(h, m)' <=> inGroup(h, m)) /\ (aside(h, m)' <=> aside(h, m))
      BY <1>3, <2>2 DEF inGroup, aside, groupMemberTuple
    <3> QED BY <2>2, <3>1, <3>2 DEF GroupInv, Roster
  <2> QED BY <2>1, <2>2
<1>5. ASSUME NEW s \in Requests PROVE Learnt(s)'
  <2>1. CASE s = r
    BY <2>1, ShapeOfIdle DEF DeleteGroup, Return, TypeInv, TypeOK, Learnt
  <2>2. CASE s # r
    <3>1. req'[s] = req[s] /\ ~collide(req[r], req[s])
      BY <2>2, StaysApart DEF GroupInv
    <3>2. req[s].g # g
      BY <1>1, <3>1, ConstantsAssumption DEF collide
    <3>3. req[s].pc \in {"manager", "enrollment", "write", "delete"} => req[s].g \in GroupIDs
      BY DEF TypeInv, Shape, Idle
    <3>4. /\ req[s].g \in GroupIDs => groups'[req[s].g] = groups[req[s].g]
          /\ req[s].g \in GroupIDs => enrollments'[req[s].g] = enrollments[req[s].g]
      BY <1>3, <3>2 DEF TypeInv, TypeOK
    <3> QED BY <3>1, <3>3, <3>4 DEF GroupInv, Learnt, stateOf
  <2> QED BY <2>1, <2>2
<1>6. \A h \in GroupIDs : groups'[h] # None => h \in issued'
  BY <1>3 DEF GroupInv, TypeInv, TypeOK
<1> QED BY <1>4, <1>5, <1>6, StaysApart DEF GroupInv

\* A fresh id: no handler has found the group, nothing has been written for it.
LEMMA CreateStep ==
  ASSUME TypeInv, GroupInv, NEW r \in Requests, Step(r), NEW g \in GroupIDs, CreateGroup(r, g)
  PROVE  GroupInv'
<1>1. groups[g] = None
  BY DEF CreateGroup, GroupInv
<1>2. PICK row : groups' = [groups EXCEPT ![g] = row] /\ row # None
  <2>1. [by |-> req[r].user, owned |-> req[r].owned] \in Group
    BY DEF CreateGroup, TypeInv, Shape, Idle, Handler, Group, MemberOps
  <2> QED BY <2>1, ConstantsAssumption, Zenon DEF CreateGroup
<1>3. UNCHANGED <<enrollments, tuples, erased, bypassed>> /\ issued' = issued \cup {g} /\ Return(r)
  BY Zenon DEF CreateGroup
<1>4. ASSUME NEW h \in GroupIDs, NEW m \in GroupMember PROVE Roster(h, m)'
  <2>1. /\ stateOf(h, m)' = stateOf(h, m) /\ (inGroup(h, m)' <=> inGroup(h, m))
        /\ (aside(h, m)' <=> aside(h, m)) /\ erased' = erased
    BY <1>3 DEF stateOf, inGroup, aside
  <2>2. groups'[h] = None => groups[h] = None
    BY <1>2 DEF TypeInv, TypeOK
  <2> QED BY <2>1, <2>2 DEF GroupInv, Roster
<1>5. ASSUME NEW s \in Requests PROVE Learnt(s)'
  <2>1. CASE s = r
    BY <1>3, <2>1, ShapeOfIdle, SMTT(20) DEF Return, TypeInv, TypeOK, Learnt
  <2>2. CASE s # r
    <3>1. req'[s] = req[s]
      BY <2>2, StaysApart
    <3>2. req[s].pc \in {"manager", "enrollment", "write", "delete"} => req[s].g \in GroupIDs
      BY DEF TypeInv, Shape, Idle
    <3>3. req[s].g \in GroupIDs /\ groups[req[s].g] # None => groups'[req[s].g] # None
      BY <1>2 DEF TypeInv, TypeOK
    <3> QED BY <1>3, <3>1, <3>2, <3>3 DEF GroupInv, Learnt, stateOf
  <2> QED BY <2>1, <2>2
<1>6. \A h \in GroupIDs : groups'[h] # None => h \in issued'
  BY <1>2, <1>3, SMTT(20) DEF GroupInv, TypeInv, TypeOK
<1> QED BY <1>4, <1>5, <1>6, StaysApart DEF GroupInv

LEMMA ArriveStep ==
  ASSUME ~OverlappingChanges, TypeInv, GroupInv, Arrive
  PROVE  GroupInv'
<1>1. PICK r \in Requests : \E q : Begin(r, q) /\ Shape(q) /\ q.pc \in {"workspace", "create", "get"}
  BY ArriveReq
<1>2. PICK q : Begin(r, q) /\ q.pc \in {"workspace", "create", "get"}
  BY <1>1
<1>3. req'[r] = q /\ \A s \in Requests : s # r => req'[s] = req[s]
  BY <1>2 DEF Begin, TypeInv, TypeOK
<1>4. \A s, t \in Requests : s # t => ~collide(req'[s], req'[t])
  <2>1. \A s \in Requests : ~collide(q, req[s]) /\ ~collide(req[s], q)
    BY <1>2 DEF Begin, collide
  <2> QED BY <1>3, <2>1 DEF GroupInv
<1>5. UNCHANGED <<groups, enrollments, tuples, issued, erased, bypassed>>
  BY <1>2 DEF Begin, repo
<1>6. \A s \in Requests : Learnt(s)'
  BY <1>2, <1>3, <1>5 DEF GroupInv, Learnt, stateOf
<1>7. \A g \in GroupIDs, m \in GroupMember : Roster(g, m)'
  BY <1>5 DEF GroupInv, Roster, stateOf, inGroup, aside
<1> QED BY <1>4, <1>5, <1>6, <1>7 DEF GroupInv

LEMMA DeprovisionStep ==
  ASSUME TypeInv, GroupInv, NEW u \in Users, DeprovisionUser(u)
  PROVE  GroupInv'
<1>1. /\ tuples' = {t \in tuples : t[2].UserID # u} /\ erased' = erased \cup {u}
      /\ UNCHANGED <<groups, enrollments, issued, bypassed, req>>
  BY DEF DeprovisionUser
<1>2. ASSUME NEW g \in GroupIDs, NEW m \in GroupMember PROVE Roster(g, m)'
  <2>1. stateOf(g, m)' = stateOf(g, m) /\ (aside(g, m)' <=> aside(g, m))
    BY <1>1 DEF stateOf, aside
  <2>2. /\ inGroup(g, m)' => inGroup(g, m)
        /\ inGroup(g, m) => inGroup(g, m)' \/ m.UserID = u
    BY <1>1 DEF inGroup, groupMemberTuple
  <2> QED BY <1>1, <2>1, <2>2 DEF GroupInv, Roster
<1>3. \A s \in Requests : Learnt(s)'
  BY <1>1 DEF GroupInv, Learnt, stateOf
<1> QED BY <1>1, <1>2, <1>3 DEF GroupInv

\* The data plane's writes are set aside and touch no row.
LEMMA BypassStep ==
  ASSUME TypeInv, GroupInv, NEW g \in GroupIDs, NEW m \in GroupMember, WriteRelationTuples(g, m)
  PROVE  GroupInv'
<1>1. /\ UNCHANGED <<groups, enrollments, issued, erased, req>>
      /\ bypassed' = bypassed \cup {<<g, m>>}
      /\ tuples' \in {tuples \cup {<<g, m>>}, tuples \ {<<g, m>>}}
  BY DEF WriteRelationTuples, groupMemberTuple
<1>2. ASSUME NEW h \in GroupIDs, NEW n \in GroupMember PROVE Roster(h, n)'
  <2>1. stateOf(h, n)' = stateOf(h, n) /\ (aside(h, n) => aside(h, n)')
    BY <1>1 DEF stateOf, aside
  <2>2. aside(h, n)' \/ (inGroup(h, n)' <=> inGroup(h, n))
    BY <1>1 DEF inGroup, aside, groupMemberTuple
  <2> QED BY <1>1, <2>1, <2>2 DEF GroupInv, Roster
<1>3. \A s \in Requests : Learnt(s)'
  BY <1>1 DEF GroupInv, Learnt, stateOf
<1> QED BY <1>1, <1>2, <1>3 DEF GroupInv

LEMMA GroupInvariant ==
  ASSUME ~OverlappingChanges
  PROVE  Spec => [](TypeInv /\ GroupInv)
<1>1. Init => TypeInv /\ GroupInv
  BY TypeInit, GroupInit
<1>2. TypeInv /\ GroupInv /\ [Next]_vars => GroupInv'
  <2> SUFFICES ASSUME TypeInv, GroupInv, [Next]_vars PROVE GroupInv'
    OBVIOUS
  <2>1. ASSUME NEW r \in Requests, Step(r) PROVE GroupInv'
    BY <2>1, StepRepo, ReadStep, WriteStep, DeleteStep, CreateStep
  <2>2. CASE Arrive
    BY <2>2, ArriveStep
  <2>3. ASSUME NEW u \in Users, DeprovisionUser(u) PROVE GroupInv'
    BY <2>3, DeprovisionStep
  <2>4. CASE UNCHANGED vars
    BY <2>4 DEF vars, GroupInv, Learnt, Roster, stateOf, inGroup, aside
  <2>5. ASSUME NEW g \in GroupIDs, NEW m \in GroupMember, WriteRelationTuples(g, m) PROVE GroupInv'
    BY <2>5, BypassStep
  <2> QED BY <2>1, <2>2, <2>3, <2>4, <2>5 DEF Next
<1> QED BY <1>1, <1>2, TypeStep, PTL DEF Spec

\* Tracked membership, for any number of users, groups and concurrent requests,
\* wherever they stop: if no two changes of one member of a group overlap, a
\* member with an enrollment row is in the member set exactly when the row's
\* state grants access, up to the users DeprovisionUser has swept and the tuples
\* the data plane wrote since.
THEOREM RosterHolds ==
  ASSUME ~OverlappingChanges
  PROVE  Spec => []RosterMatchesAccess
<1>1. TypeInv /\ GroupInv => RosterMatchesAccess
  <2> SUFFICES ASSUME GroupInv, NEW g \in GroupIDs, NEW k \in MemberKeys,
                      enrollments[g][k] # None,
                      groupMemberTuple(g, MemberFromKey(k)) \notin bypassed
               PROVE  /\ MemberFromKey(k) \in ListGroupMembers(g) => GrantsAccess(enrollments[g][k])
                      /\ GrantsAccess(enrollments[g][k]) =>
                           \/ MemberFromKey(k) \in ListGroupMembers(g)
                           \/ MemberFromKey(k).UserID \in erased
    BY DEF RosterMatchesAccess, ListEnrollments
  <2>1. MemberFromKey(k) \in GroupMember /\ stateOf(g, MemberFromKey(k)) = enrollments[g][k]
    BY MemberOfKey DEF stateOf
  <2> QED BY <2>1 DEF GroupInv, Roster, ListGroupMembers, inGroup, aside
<1> QED BY <1>1, GroupInvariant, PTL

\* DeleteGroup's cascade, for any number of users, groups and concurrent
\* requests: if no two changes of one member of a group overlap, no row is left of
\* a group that does not exist, and no tuple but one the data plane wrote since.
THEOREM CascadeHolds ==
  ASSUME ~OverlappingChanges
  PROVE  Spec => []NothingOutlivesGroup
<1>1. TypeInv /\ GroupInv => NothingOutlivesGroup
  <2> SUFFICES ASSUME GroupInv, NEW g \in GroupIDs, groups[g] = None
               PROVE  /\ ListEnrollments(g) = {}
                      /\ \A m \in ListGroupMembers(g) : groupMemberTuple(g, m) \in bypassed
    BY DEF NothingOutlivesGroup
  <2>1. \A m \in ListGroupMembers(g) : groupMemberTuple(g, m) \in bypassed
    BY DEF GroupInv, Roster, ListGroupMembers, inGroup, aside
  <2>2. \A k \in MemberKeys : enrollments[g][k] = None
    BY MemberOfKey DEF GroupInv, Roster, stateOf
  <2> QED BY <2>1, <2>2 DEF ListEnrollments
<1> QED BY <1>1, GroupInvariant, PTL
=============================================================================
