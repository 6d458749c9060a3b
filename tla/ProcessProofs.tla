--------------------------- MODULE ProcessProofs ----------------------------
(* The asynchronous logger keeps the order of its records and Close drains   *)
(* it, a process uses it as it is meant to be used, and leaves a record of   *)
(* every write: for every number of requests, capacity and number of calls.  *)
EXTENDS Process, FiniteSetTheorems, SequenceTheorems, TLAPS
-----------------------------------------------------------------------------
(* The logger *)

\* InOrder, record by record: the provers do not reason well about the
\* concatenation of two sequences.
Numbered ==
  /\ Len(out) + Len(ch) = accepted
  /\ \A i \in 1..Len(out) : out[i] = i
  /\ \A i \in 1..Len(ch) : ch[i] = Len(out) + i

\* Drained is not inductive by itself: Close returns because the goroutine has
\* ended, and what the goroutine saw when the channel was empty covers what is
\* owed because nothing is owed for a record sent after quit.
LogInv ==
  /\ ch \in Seq(Nat) /\ out \in Seq(Nat)
  /\ accepted \in Nat /\ owed \in Nat /\ owed <= accepted
  /\ Numbered
  /\ loop # "run" => quit
  /\ loop = "done" => Len(out) >= owed
  /\ closer = "closed" => loop = "done"

LEMMA LogInit == NewZap => LogInv
<1> SUFFICES ASSUME NewZap PROVE LogInv
  OBVIOUS
<1>1. Len(ch) = 0 /\ Len(out) = 0 /\ ch \in Seq(Nat) /\ out \in Seq(Nat)
  BY DEF NewZap
<1>2. Numbered
  BY <1>1 DEF NewZap, Numbered
<1> QED BY <1>1, <1>2 DEF NewZap, LogInv

LEMMA SendKeeps ==
  ASSUME LogInv, send, UNCHANGED <<quit, loop, closer, out>>
  PROVE  LogInv'
<1>1. ch' = Append(ch, accepted + 1) /\ accepted' = accepted + 1 /\ accepted' \in Nat /\ ch' \in Seq(Nat)
  BY DEF LogInv, send
<1>2. Len(ch') = Len(ch) + 1 /\ Len(ch) \in Nat /\ Len(out) \in Nat
  BY <1>1 DEF LogInv
<1>a. accepted = Len(out) + Len(ch) /\ accepted \in Nat
  BY DEF LogInv, Numbered
<1>3. ASSUME NEW i \in 1..Len(ch') PROVE ch'[i] = Len(out) + i
  <2>1. CASE i \in 1..Len(ch)
    <3>1. ch'[i] = ch[i]
      BY <1>1, <2>1 DEF LogInv
    <3> QED BY <2>1, <3>1 DEF LogInv, Numbered
  <2>2. CASE i = Len(ch) + 1
    <3>1. ch'[i] = accepted + 1
      BY <1>1, <2>2 DEF LogInv
    <3> QED BY <2>2, <3>1, <1>2, <1>a
  <2> QED BY <2>1, <2>2, <1>2
<1>4. Numbered'
  BY <1>1, <1>2, <1>3 DEF LogInv, Numbered
<1>5. owed' \in Nat /\ owed' <= accepted' /\ (quit => owed' = owed)
  BY <1>1 DEF LogInv, send
<1> QED BY <1>1, <1>4, <1>5 DEF LogInv

LEMMA EmitKeeps ==
  ASSUME LogInv, emit, UNCHANGED loop
  PROVE  LogInv'
<1>1. /\ ch # << >> /\ ch' = Tail(ch) /\ out' = Append(out, Head(ch))
      /\ UNCHANGED <<quit, closer, accepted, owed, loop>>
  BY DEF emit
<1>2. Len(ch) \in Nat \ {0} /\ Len(out) \in Nat
  BY <1>1 DEF LogInv
<1>3. Head(ch) = ch[1] /\ ch[1] = Len(out) + 1
  BY <1>1, <1>2 DEF LogInv, Numbered
<1>4. ch' \in Seq(Nat) /\ Len(ch') = Len(ch) - 1 /\ \A i \in 1..Len(ch') : ch'[i] = ch[i + 1]
  BY <1>1, <1>2 DEF LogInv
<1>5. out' \in Seq(Nat) /\ Len(out') = Len(out) + 1
  BY <1>1, <1>2, <1>3 DEF LogInv
<1>6. ASSUME NEW i \in 1..Len(out') PROVE out'[i] = i
  <2>1. CASE i \in 1..Len(out)
    <3>1. out'[i] = out[i]
      BY <1>1, <2>1 DEF LogInv
    <3> QED BY <2>1, <3>1 DEF LogInv, Numbered
  <2>2. CASE i = Len(out) + 1
    <3>1. out'[i] = Head(ch)
      BY <1>1, <2>2 DEF LogInv
    <3> QED BY <2>2, <3>1, <1>3
  <2> QED BY <2>1, <2>2, <1>2, <1>5
<1>7. Numbered'
  <2>a. accepted' = Len(out) + Len(ch)
    BY <1>1 DEF LogInv, Numbered
  <2>1. Len(out') + Len(ch') = accepted'
    BY <2>a, <1>2, <1>4, <1>5
  <2>2. ASSUME NEW i \in 1..Len(ch') PROVE ch'[i] = Len(out') + i
    <3>1. i + 1 \in 1..Len(ch) /\ ch'[i] = ch[i + 1]
      BY <1>2, <1>4, SMTT(20)
    <3>2. ch[i + 1] = Len(out) + (i + 1)
      BY <3>1 DEF LogInv, Numbered
    <3> QED BY <3>1, <3>2, <1>2, <1>5
  <2> QED BY <1>6, <2>1, <2>2 DEF Numbered
<1> QED BY <1>1, <1>2, <1>4, <1>5, <1>7 DEF LogInv

LEMMA RunKeeps == LogInv /\ run => LogInv'
<1> SUFFICES ASSUME LogInv, run PROVE LogInv'
  OBVIOUS
<1>1. CASE emit /\ UNCHANGED loop
  BY <1>1, EmitKeeps
<1>2. CASE /\ \/ loop = "run" /\ quit /\ loop' = "drain"
              \/ loop = "drain" /\ ch = << >> /\ loop' = "done"
           /\ UNCHANGED <<ch, quit, dropped, closer, caller, out, logs, accepted, owed>>
  <2>1. ch = << >> => Len(out) = accepted
    BY DEF LogInv, Numbered
  <2> QED BY <1>2, <2>1 DEF LogInv, Numbered
<1> QED BY <1>1, <1>2 DEF run

LEMMA LogKeeps == LogInv /\ (\E c \in Callers : Log(c)) => LogInv'
<1> SUFFICES ASSUME LogInv, NEW c \in Callers, Log(c) PROVE LogInv'
  OBVIOUS
<1>1. CASE send
  BY <1>1, SendKeeps DEF Log
<1>2. CASE UNCHANGED <<ch, accepted, owed>>
  BY <1>2 DEF Log, LogInv, Numbered
<1> QED BY <1>1, <1>2 DEF Log

LEMMA LogStep == LogInv /\ [Next]_vars => LogInv'
<1> SUFFICES ASSUME LogInv, [Next]_vars PROVE LogInv'
  OBVIOUS
<1>1. CASE \E c \in Callers : Log(c)
  BY <1>1, LogKeeps
<1>2. CASE \E c \in Callers : Count(c)
  BY <1>2 DEF Count, LogInv, Numbered
<1>3. CASE run
  BY <1>3, RunKeeps
<1>4. CASE Close
  BY <1>4 DEF Close, LogInv, Numbered
<1>5. CASE CloseReturns
  BY <1>5 DEF CloseReturns, LogInv, Numbered
<1>6. CASE UNCHANGED vars
  BY <1>6 DEF vars, LogInv, Numbered
<1> QED BY <1>1, <1>2, <1>3, <1>4, <1>5, <1>6 DEF Next

LEMMA LogInvariant == Spec => []LogInv
BY LogInit, LogStep, PTL DEF Spec

LEMMA NumberedInOrder == LogInv => InOrder
<1> SUFFICES ASSUME LogInv PROVE InOrder
  OBVIOUS
<1>1. out \o ch \in Seq(Nat) /\ Len(out \o ch) = accepted /\ Len(out) \in Nat /\ Len(ch) \in Nat
  BY DEF LogInv, Numbered
<1>2. ASSUME NEW i \in 1..accepted PROVE (out \o ch)[i] = i
  <2>1. CASE i \in 1..Len(out)
    <3>1. (out \o ch)[i] = out[i]
      BY <2>1 DEF LogInv
    <3> QED BY <2>1, <3>1 DEF LogInv, Numbered
  <2>2. CASE i > Len(out)
    <3>1. i - Len(out) \in 1..Len(ch)
      BY <1>1, <2>2 DEF LogInv, Numbered
    <3>2. (out \o ch)[i] = ch[i - Len(out)]
      BY <1>1, <2>2, <3>1 DEF LogInv, Numbered
    <3> QED BY <1>1, <3>1, <3>2 DEF LogInv, Numbered
  <2> QED BY <1>1, <2>1, <2>2 DEF LogInv
<1>3. DOMAIN (out \o ch) = 1..accepted
  BY <1>1 DEF LogInv
<1>4. out \o ch \in [1..accepted -> Nat]
  BY <1>1, LenProperties, Zenon
<1>5. [i \in 1..accepted |-> i] \in [1..accepted -> Nat]
  BY DEF LogInv
<1> QED BY <1>2, <1>4, <1>5, Zenon DEF InOrder

\* Records come out in the order they went in, none twice and none skipped, for
\* any number of callers and any capacity (send, run, emit).
THEOREM OrderKept == Spec => []InOrder
BY LogInvariant, NumberedInOrder, PTL

\* When Close has returned, everything accepted before it was called has been
\* emitted, however select chose (run, Close).
THEOREM CloseDrains == Spec => []Drained
<1>1. LogInv => Drained
  BY DEF LogInv, Drained
<1> QED BY <1>1, LogInvariant, PTL
-----------------------------------------------------------------------------
(* The process and its log *)

LEMMA StepLogs == [ProcNext]_allVars => [Next]_vars
<1> SUFFICES ASSUME [ProcNext]_allVars PROVE [Next]_vars
  OBVIOUS
<1>1. CASE Main
  BY <1>1 DEF Main, OptionsFromEnv, buildRepo, New, exitAfter, Shutdown, srvClose, closed, closeRepo, closeLogs, Next
<1>2. CASE drain
  BY <1>2 DEF drain, Next
<1>3. CASE Stop \/ Tick \/ Batch
  BY <1>3 DEF Stop, Tick, Batch
<1>4. ASSUME NEW r \in Callers, ServeHTTP(r) \/ Handle(r) PROVE [Next]_vars
  BY <1>4 DEF ServeHTTP, Handle, WriteTuples, auditTupleChanges, count, Next
<1>5. CASE UNCHANGED allVars
  BY <1>5 DEF allVars
<1> QED BY <1>1, <1>2, <1>3, <1>4, <1>5 DEF ProcNext

\* What a process does to its log is what the logger allows: from start to exit
\* it logs, drains, closes once and waits for it
\* (auditTupleChanges, New, srvClose, main).
THEOREM ProcessLogs == ProcSpec => Spec
<1>1. Init => NewZap
  BY DEF Init
<1> QED BY <1>1, StepLogs, PTL DEF ProcSpec, Spec

LEMMA ProcLogInv == ProcSpec => []LogInv
BY ProcessLogs, LogInvariant, PTL
-----------------------------------------------------------------------------
(* Where main is, and what can still be logged *)

\* The places of main, those before it serves, and those after Close returned.
Stages == {"load", "repo", "new", "undo", "fatal", "serve", "shutdown", "close", "closing", "closeRepo",
           "closeLogs", "exited"}
Starting == {"load", "repo", "new", "undo", "fatal"}
Closed == {"closeRepo", "closeLogs"}

\* Requests whose write is committed and not yet in the log or the counter.
pending == {r \in Callers : req[r] \in {"audit", "count"}}

\* The log is quit only after the last request in flight has been served, or the
\* deadline passed.
Shape ==
  /\ req \in [Callers -> {"idle", "write", "audit", "count"}]
  /\ caller \in [Callers -> {"idle", "full"}]
  /\ \A r \in Callers : req[r] = "count" <=> caller[r] = "full"
  /\ main \in Stages
  /\ export \in {"off", "open", "closed"} /\ (export = "closed" => main = "exited")
  /\ export = "open" => main # "exited"
  /\ quit => main \in {"undo", "fatal", "closing", "exited"} \cup Closed
  /\ main \in Starting \cup {"serve", "shutdown"} => ~late
  /\ main \notin {"serve", "shutdown"} /\ ~late => served
  /\ main \in Starting => ch = << >>
  /\ main \in Closed => loop = "done"
  /\ ~late /\ (loop = "done" \/ main = "exited") => ch = << >>

LEMMA ShapeInit == Init => Shape
BY DEF Init, NewZap, Shape, Stages, Starting, Closed, served

LEMMA MainShape == Shape /\ LogInv /\ Main => Shape'
<1> SUFFICES ASSUME Shape, LogInv, Main PROVE Shape'
  OBVIOUS
<1> USE DEF Shape, Stages, Starting, Closed, served, goto, vars
<1>1. CASE OptionsFromEnv
  BY <1>1 DEF OptionsFromEnv
<1>2. CASE buildRepo
  BY <1>2 DEF buildRepo
<1>3. CASE New
  BY <1>3 DEF New, Close
<1>4. CASE exitAfter
  BY <1>4 DEF exitAfter, flush
<1>5. CASE Shutdown
  BY <1>5, Zenon DEF Shutdown, LogInv
<1>6. CASE srvClose
  BY <1>6 DEF srvClose, Close
<1>7. CASE closed
  BY <1>7 DEF closed, CloseReturns
<1>8. CASE closeRepo
  BY <1>8 DEF closeRepo
<1>9. CASE closeLogs
  BY <1>9 DEF closeLogs, flush
<1> QED BY <1>1, <1>2, <1>3, <1>4, <1>5, <1>6, <1>7, <1>8, <1>9 DEF Main

LEMMA DrainShape == Shape /\ LogInv /\ drain => Shape'
<1> SUFFICES ASSUME Shape, LogInv, drain PROVE Shape'
  OBVIOUS
<1> USE DEF Shape, served
<1>1. CASE emit /\ UNCHANGED loop /\ loop \in {"run", "drain"}
  BY <1>1 DEF drain, emit, Starting, Closed
<1>2. CASE loop = "run" /\ quit /\ loop' = "drain" /\ UNCHANGED <<ch, quit, caller>>
  BY <1>2 DEF drain
<1>3. CASE loop = "drain" /\ ch = << >> /\ loop' = "done" /\ UNCHANGED <<ch, quit, caller>>
  BY <1>3 DEF drain
<1> QED BY <1>1, <1>2, <1>3 DEF drain, run

LEMMA RequestShape == ASSUME NEW r \in Callers, Shape, LogInv, ServeHTTP(r) \/ Handle(r) PROVE Shape'
<1> USE DEF Shape, served, vars
<1>1. CASE ServeHTTP(r)
  BY <1>1 DEF ServeHTTP, Starting
<1>2. CASE WriteTuples(r)
  BY <1>2 DEF WriteTuples, Starting
<1>3. CASE auditTupleChanges(r)
  <2>1. ~late => main \in {"serve", "shutdown"} /\ ~quit
    BY <1>3 DEF auditTupleChanges, Closed
  <2>2. ~late => loop = "run"
    BY <2>1 DEF LogInv
  <2>3. late => main \notin Starting
    OBVIOUS
  <2> QED BY <1>3, <2>1, <2>2, <2>3 DEF auditTupleChanges, Log, send, Starting, Closed
<1>4. CASE count(r)
  BY <1>4 DEF count, Count, Starting
<1> QED BY <1>1, <1>2, <1>3, <1>4 DEF Handle

LEMMA ShapeStep == Shape /\ LogInv /\ [ProcNext]_allVars => Shape'
<1> SUFFICES ASSUME Shape, LogInv, [ProcNext]_allVars PROVE Shape'
  OBVIOUS
<1>1. CASE Main
  BY <1>1, MainShape
<1>2. CASE drain
  BY <1>2, DrainShape
<1>3. CASE Stop
  BY <1>3 DEF Stop, goto, Shape, Stages, Starting, Closed, served, vars
<1>6. CASE Tick \/ Batch
  BY <1>6 DEF Tick, Batch, Shape, served, vars
<1>4. CASE \E r \in Callers : ServeHTTP(r) \/ Handle(r)
  BY <1>4, RequestShape
<1>5. CASE UNCHANGED allVars
  BY <1>5 DEF allVars, procVars, vars, Shape, served
<1> QED BY <1>1, <1>2, <1>3, <1>4, <1>5, <1>6 DEF ProcNext
-----------------------------------------------------------------------------
(* Every line is somewhere *)

\* What the log handed over is on stderr or was left out by the sampler, the
\* latter in a busy second only; what is on stderr is queued, sent or lost.
Lines ==
  /\ window \in Nat /\ written \in Nat /\ sampled \in Nat /\ busy \in BOOLEAN
  /\ queue \in Nat /\ exported \in Nat /\ lost \in Nat
  /\ written + sampled = Len(out)
  /\ sampled > 0 => busy
  /\ export # "off" => written = exported + queue + lost
  /\ queue <= QueueSize
  /\ export \in {"off", "open", "closed"} /\ (export # "open" => queue = 0)

LEMMA LinesInit == Init => Lines
<1> SUFFICES ASSUME Init PROVE Lines
  OBVIOUS
<1>1. Len(out) = 0
  BY DEF Init, NewZap
<1>2. /\ window = 0 /\ written = 0 /\ sampled = 0 /\ queue = 0 /\ exported = 0 /\ lost = 0
      /\ busy \in BOOLEAN /\ export \in {"off", "open", "closed"}
  BY Zenon DEF Init
<1>3. /\ {window, written, sampled, queue, exported, lost} \subseteq Nat
      /\ ~(sampled > 0) /\ written + sampled = Len(out) /\ written = exported + queue + lost /\ queue <= QueueSize
  BY ONLY <1>1, <1>2, SamplingAssumption
<1> QED BY <1>2, <1>3, Zenon DEF Lines

LEMMA LinesStill ==
  ASSUME Lines, UNCHANGED <<lines, export, out>>
  PROVE  Lines'
BY DEF Lines, lines

\* A line more.
LEMMA InfoLines ==
  ASSUME Lines, Info, export # "closed", UNCHANGED export, Len(out) \in Nat, Len(out') = Len(out) + 1
  PROVE  Lines'
<1> DEFINE n == window + 1
           kept == n <= Initial \/ (n - Initial) % Thereafter = 0
<1>1. n \in Nat /\ Initial \in Nat /\ QueueSize \in Nat \ {0}
  BY SamplingAssumption DEF Lines
<1>2. /\ window' = n /\ busy' = (busy \/ n > Initial) /\ exported' = exported
      /\ written' = (IF kept THEN written + 1 ELSE written)
      /\ sampled' = (IF kept THEN sampled ELSE sampled + 1)
      /\ queue' = (IF kept /\ export = "open" /\ queue < QueueSize THEN queue + 1 ELSE queue)
      /\ lost' = (IF kept /\ export = "open" /\ queue = QueueSize THEN lost + 1 ELSE lost)
  BY Zenon DEF Info
<1>3. ~kept => n > Initial
  BY <1>1
<1> HIDE DEF kept, n
<1>4. CASE kept
  <2>1. written' = written + 1 /\ sampled' = sampled
    BY <1>2, <1>4, Zenon
  <2>2. busy' \in BOOLEAN /\ (sampled > 0 => busy')
    BY <1>2, Zenon DEF Lines
  <2>3. CASE export = "open"
    <3>1. CASE queue < QueueSize
      <4>1. queue' = queue + 1 /\ lost' = lost
        BY <1>1, <1>2, <1>4, <2>3, <3>1 DEF Lines
      <4> QED BY <1>1, <1>2, <2>1, <2>2, <2>3, <3>1, <4>1 DEF Lines
    <3>2. CASE queue = QueueSize
      <4>1. queue' = queue /\ lost' = lost + 1
        BY <1>1, <1>2, <1>4, <2>3, <3>2 DEF Lines
      <4> QED BY <1>1, <1>2, <2>1, <2>2, <2>3, <3>2, <4>1 DEF Lines
    <3> QED BY <1>1, <3>1, <3>2 DEF Lines
  <2>4. CASE export # "open"
    <3>1. queue' = queue /\ lost' = lost
      BY <1>2, <2>4, Zenon
    <3>2. export' = "off"
      BY <2>4, Zenon DEF Lines
    <3>3. written' + sampled' = Len(out') /\ written' \in Nat /\ window' \in Nat
      BY <1>1, <1>2, <2>1 DEF Lines
    <3> QED BY <1>2, <2>1, <2>2, <2>4, <3>1, <3>2, <3>3, Zenon DEF Lines
  <2> QED BY <2>3, <2>4
<1>5. CASE ~kept
  <2>1. written' = written /\ sampled' = sampled + 1 /\ queue' = queue /\ lost' = lost /\ busy' = TRUE
    BY <1>2, <1>3, <1>5, Zenon
  <2> QED BY <1>1, <1>2, <2>1 DEF Lines
<1> QED BY <1>4, <1>5

\* The queue is sent, and the export stays as it is or is closed.
LEMMA DeliverLines ==
  ASSUME Lines, deliver, UNCHANGED out, export' = export \/ (export = "open" /\ export' = "closed")
  PROVE  Lines'
<1>1. PICK k \in 0..queue : exported' = exported + k /\ lost' = lost + queue - k
  BY DEF deliver
<1>2. exported' \in Nat /\ lost' \in Nat /\ exported' + 0 + lost' = exported + queue + lost
  BY <1>1 DEF Lines
<1>3. queue' = 0 /\ UNCHANGED <<window, written, sampled, busy>>
  BY DEF deliver
<1>4. queue' <= QueueSize /\ (export # "off" => written' = exported' + queue' + lost')
  <2>1. export # "off" => written = exported + queue + lost
    BY Zenon DEF Lines
  <2> QED BY ONLY <1>2, <1>3, <2>1, SamplingAssumption
<1>5. export' # "off" <=> export # "off"
  OBVIOUS
<1>6. written' + sampled' = Len(out') /\ (sampled' > 0 => busy')
  BY <1>3, Zenon DEF Lines
<1>7. queue' \in Nat
  BY <1>3
<1> QED BY <1>2, <1>3, <1>4, <1>5, <1>6, <1>7, Zenon DEF Lines

LEMMA LinesStep == Lines /\ Shape /\ LogInv /\ [ProcNext]_allVars => Lines'
<1> SUFFICES ASSUME Lines, Shape, LogInv, [ProcNext]_allVars PROVE Lines'
  OBVIOUS
<1>1. CASE exitAfter \/ closeLogs
  <2>1. deliver /\ UNCHANGED out /\ (export' = export \/ (export = "open" /\ export' = "closed"))
    BY <1>1 DEF exitAfter, closeLogs, flush, vars
  <2> QED BY <2>1, DeliverLines
<1>2. CASE OptionsFromEnv \/ buildRepo \/ New \/ Shutdown \/ srvClose \/ closed \/ closeRepo \/ Stop
  <2>1. UNCHANGED <<lines, export, out>>
    BY <1>2 DEF OptionsFromEnv, buildRepo, New, Shutdown, srvClose, closed, closeRepo, Stop, Close, CloseReturns, vars
  <2> QED BY <2>1, LinesStill
<1>3. CASE drain
  <2>1. UNCHANGED export /\ (export = "closed" => FALSE)
    BY <1>3 DEF drain, Shape
  <2>2. CASE out' = out
    <3>1. UNCHANGED lines
      BY <1>3, <2>2, Zenon DEF drain
    <3> QED BY <2>1, <2>2, <3>1, LinesStill
  <2>3. CASE out' # out
    <3>1. Info
      BY <1>3, <2>3, Zenon DEF drain
    <3>2. ch # << >> /\ out' = Append(out, Head(ch))
      BY <1>3, <2>3 DEF drain, run, emit
    <3>3. Len(out) \in Nat /\ Len(out') = Len(out) + 1
      BY <3>2 DEF LogInv
    <3> QED BY <2>1, <3>1, <3>3, InfoLines
  <2> QED BY <2>2, <2>3
<1>4. CASE Tick
  BY <1>4 DEF Tick, Lines, vars
<1>5. CASE Batch
  BY <1>5, DeliverLines DEF Batch, vars
<1>6. CASE \E r \in Callers : ServeHTTP(r) \/ Handle(r)
  <2>1. UNCHANGED <<lines, export, out>>
    BY <1>6 DEF ServeHTTP, Handle, WriteTuples, auditTupleChanges, count, Log, Count, vars
  <2> QED BY <2>1, LinesStill
<1>7. CASE UNCHANGED allVars
  BY <1>7, LinesStill DEF allVars, procVars, vars
<1> QED BY <1>1, <1>2, <1>3, <1>4, <1>5, <1>6, <1>7, Zenon DEF ProcNext, Main
-----------------------------------------------------------------------------
(* Every committed write is somewhere *)

Counted ==
  /\ committed \in Nat /\ dropped \in Nat
  /\ ~late => committed = Len(out) + Len(ch) + dropped + Cardinality(pending)

LEMMA PendingFinite == IsFiniteSet(pending) /\ Cardinality(pending) \in Nat
<1>1. pending \subseteq Callers
  BY DEF pending
<1> QED BY <1>1, CallersAssumption, FS_Subset, FS_CardinalityType

LEMMA CountInit == Init => Counted
<1> SUFFICES ASSUME Init PROVE Counted
  OBVIOUS
<1>1. pending = {}
  BY DEF Init, pending
<1>2. Cardinality(pending) = 0 /\ Len(out) = 0 /\ Len(ch) = 0
  BY <1>1, FS_EmptySet DEF Init, NewZap
<1>3. committed = 0 /\ dropped = 0
  BY DEF Init, NewZap
<1> QED BY <1>2, <1>3 DEF Counted

\* What changes neither the log nor the requests changes no count.
LEMMA CountStill ==
  ASSUME Counted, UNCHANGED <<ch, out, dropped, req, committed>>, late => late'
  PROVE  Counted'
<1>1. pending' = pending
  BY DEF pending
<1> QED BY <1>1 DEF Counted

LEMMA MainCount == Counted /\ Shape /\ Main => Counted'
<1> SUFFICES ASSUME Counted, Shape, Main PROVE Counted'
  OBVIOUS
<1>1. UNCHANGED <<ch, out, dropped, req, committed>>
  BY DEF Main, OptionsFromEnv, buildRepo, New, exitAfter, Shutdown, srvClose, closed, closeRepo, closeLogs,
         goto, vars, Close, CloseReturns
<1>2. late => late'
  <2>1. CASE Shutdown
    BY <2>1 DEF Shutdown, Shape, served
  <2> QED BY <2>1, Zenon DEF Main, OptionsFromEnv, buildRepo, New, exitAfter, srvClose, closed, closeRepo, closeLogs
<1> QED BY <1>1, <1>2, CountStill

LEMMA DrainCount == Counted /\ Shape /\ LogInv /\ drain => Counted'
<1> SUFFICES ASSUME Counted, Shape, LogInv, drain PROVE Counted'
  OBVIOUS
<1>1. UNCHANGED <<req, committed, dropped, late>>
  BY DEF drain, run, emit, Shape
<1>2. pending' = pending
  BY <1>1 DEF pending
<1>3. Len(out) \in Nat /\ Len(ch) \in Nat
  BY DEF LogInv
<1>5. CASE emit
  <2>1. ch # << >> /\ ch' = Tail(ch) /\ out' = Append(out, Head(ch))
    BY <1>5 DEF emit
  <2>2. Len(out') = Len(out) + 1 /\ Len(ch') = Len(ch) - 1
    BY <2>1 DEF LogInv
  <2>4. ~late => committed = Len(out') + Len(ch') + dropped + Cardinality(pending)
    BY <2>2, <1>3, PendingFinite DEF Counted
  <2> QED BY <2>4, <1>1, <1>2 DEF Counted
<1>6. CASE UNCHANGED <<ch, out>>
  BY <1>1, <1>2, <1>6 DEF Counted
<1> QED BY <1>5, <1>6 DEF drain, run

LEMMA RequestCount == ASSUME NEW r \in Callers, Counted, Shape, LogInv, ServeHTTP(r) \/ Handle(r) PROVE Counted'
<1> USE DEF vars
<1>1. CASE ServeHTTP(r)
  <2>1. pending' = pending
    BY <1>1 DEF ServeHTTP, pending, Shape
  <2> QED BY <1>1, <2>1 DEF ServeHTTP, Counted
<1>2. CASE WriteTuples(r)
  <2>1. UNCHANGED <<ch, out, dropped, late>>
    BY <1>2 DEF WriteTuples
  <2>2. CASE req' = [req EXCEPT ![r] = "audit"] /\ committed' = committed + 1
    <3>1. pending' = pending \cup {r} /\ r \notin pending
      BY <1>2, <2>2 DEF WriteTuples, pending, Shape
    <3>2. Cardinality(pending') = Cardinality(pending) + 1
      BY <3>1, PendingFinite, FS_AddElement
    <3>3. Len(out) \in Nat /\ Len(ch) \in Nat
      BY DEF LogInv
    <3> QED BY <2>1, <2>2, <3>2, <3>3, PendingFinite DEF Counted
  <2>3. CASE req' = [req EXCEPT ![r] = "idle"] /\ UNCHANGED committed
    <3>1. pending' = pending
      BY <1>2, <2>3 DEF WriteTuples, pending, Shape
    <3> QED BY <2>1, <2>3, <3>1 DEF Counted
  <2> QED BY <1>2, <2>2, <2>3 DEF WriteTuples
<1>3. CASE auditTupleChanges(r)
  <2>1. /\ UNCHANGED <<out, dropped, committed, late>>
        /\ r \in pending /\ caller[r] = "idle"
    BY <1>3 DEF auditTupleChanges, Log, pending, Shape
  <2>2. ~late => ~quit
    BY <1>3 DEF auditTupleChanges, Shape, served, Closed
  <2>3. Len(out) \in Nat /\ Len(ch) \in Nat /\ ch \in Seq(Nat) /\ accepted \in Nat
    BY DEF LogInv
  <2>4. CASE send
    <3>1. Len(ch') = Len(ch) + 1
      BY <2>3, <2>4 DEF send
    <3>2. pending' = pending \ {r}
      BY <1>3, <2>1, <2>4, SMTT(20) DEF auditTupleChanges, send, pending, Shape
    <3>3. Cardinality(pending') = Cardinality(pending) - 1
      BY <2>1, <3>2, PendingFinite, FS_RemoveElement
    <3> QED BY <2>1, <2>3, <3>1, <3>3, PendingFinite DEF Counted
  <2>5. CASE quit /\ UNCHANGED <<ch, accepted, owed, caller>>
    BY <2>1, <2>2, <2>5 DEF Counted
  <2>6. CASE caller' = [caller EXCEPT ![r] = "full"] /\ UNCHANGED <<ch, accepted, owed>>
    <3>1. pending' = pending
      BY <1>3, <2>6 DEF auditTupleChanges, pending, Shape
    <3> QED BY <2>1, <2>6, <3>1 DEF Counted
  <2> QED BY <1>3, <2>4, <2>5, <2>6 DEF auditTupleChanges, Log
<1>4. CASE count(r)
  <2>1. UNCHANGED <<out, ch, committed, late>> /\ dropped' = dropped + 1
    BY <1>4 DEF count, Count
  <2>2. r \in pending /\ pending' = pending \ {r}
    BY <1>4 DEF count, Count, pending, Shape
  <2>3. Cardinality(pending') = Cardinality(pending) - 1
    BY <2>2, PendingFinite, FS_RemoveElement
  <2>4. Len(out) \in Nat /\ Len(ch) \in Nat
    BY DEF LogInv
  <2> QED BY <2>1, <2>3, <2>4, PendingFinite DEF Counted
<1> QED BY <1>1, <1>2, <1>3, <1>4 DEF Handle

LEMMA CountStep == Counted /\ Shape /\ LogInv /\ [ProcNext]_allVars => Counted'
<1> SUFFICES ASSUME Counted, Shape, LogInv, [ProcNext]_allVars PROVE Counted'
  OBVIOUS
<1>1. CASE Main
  BY <1>1, MainCount
<1>2. CASE drain
  BY <1>2, DrainCount
<1>3. CASE Stop \/ Tick \/ Batch
  BY <1>3, CountStill DEF Stop, Tick, Batch, goto, vars
<1>4. CASE \E r \in Callers : ServeHTTP(r) \/ Handle(r)
  BY <1>4, RequestCount
<1>5. CASE UNCHANGED allVars
  BY <1>5, CountStill DEF allVars, procVars, vars
<1> QED BY <1>1, <1>2, <1>3, <1>4, <1>5 DEF ProcNext

\* A process that met its deadline leaves, for every write it committed, a line
\* or a count, unless the sampler left the line out in a busy second; and what is
\* on stderr was sent, overwritten or refused: for any number of requests, any
\* capacity of the log and of the export's queue and any sampling
\* (main, auditTupleChanges, Close, closeLogs).
THEOREM AuditedAlways == ProcSpec => []Audited
<1>1. Counted /\ Lines /\ Shape /\ LogInv => Audited
  <2> SUFFICES ASSUME Counted, Lines, Shape, LogInv, main = "exited" PROVE Audited
    BY DEF Audited
  <2>1. ASSUME ~late PROVE committed = written + dropped + sampled
    <3>1. pending = {}
      BY <2>1 DEF Shape, served, pending
    <3>2. Cardinality(pending) = 0 /\ Len(ch) = 0
      BY <2>1, <3>1, FS_EmptySet DEF Shape
    <3>3. Len(out) \in Nat
      BY DEF LogInv
    <3> QED BY <2>1, <3>2, <3>3 DEF Counted, Lines
  <2>2. export # "off" => written = exported + lost
    BY DEF Shape, Lines
  <2> QED BY <2>1, <2>2 DEF Audited, Lines
<1>2. Init => Shape /\ Counted /\ Lines
  BY ShapeInit, CountInit, LinesInit
<1> QED BY <1>1, <1>2, ProcLogInv, ShapeStep, CountStep, LinesStep, PTL DEF ProcSpec
=============================================================================
