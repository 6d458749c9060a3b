------------------------------ MODULE AsyncLog ------------------------------
(* The asynchronous logger behind the decision log and the audit log.        *)
(* Callers put records into a bounded channel and never wait; one goroutine  *)
(* takes them out and hands them to zap, which may sample them (Process);    *)
(* Close tells it to drain and waits for it.                                 *)
(* The channel is never closed, so calls may go on during and after Close.   *)
EXTENDS Naturals, Sequences, FiniteSets

CONSTANTS
  Callers,   \* goroutines of requests that log
  BufSize,   \* capacity of the channel
  MaxLogs    \* bound: calls of Log, during and after Close too

ASSUME CallersAssumption == IsFiniteSet(Callers)
ASSUME BufSizeAssumption == BufSize \in Nat \ {0}
ASSUME MaxLogsAssumption == MaxLogs \in Nat

VARIABLES
  ch,        \* the channel; the n-th record it accepted is n
  quit,      \* Close has closed the quit channel
  loop,      \* the goroutine: "run", "drain", "done"
  dropped,   \* the counter
  closer,    \* Close: "open", "closing", "closed"
  caller,    \* per caller: "idle", or "full" between the select and the counter
  out,       \* what was handed to zap
  logs,      \* history: calls of Log
  accepted,  \* history: records the channel took
  owed       \* history: how many of them before Close

vars == <<ch, quit, loop, dropped, closer, caller, out, logs, accepted, owed>>

NewZap ==
  /\ ch = << >> /\ out = << >>
  /\ quit = FALSE
  /\ loop = "run"
  /\ closer = "open"
  /\ caller = [c \in Callers |-> "idle"]
  /\ dropped = 0 /\ logs = 0 /\ accepted = 0 /\ owed = 0
-----------------------------------------------------------------------------
(* Callers *)

\* The case of the select that sends.
send ==
  /\ Len(ch) < BufSize
  /\ ch' = Append(ch, accepted + 1)
  /\ accepted' = accepted + 1
  /\ owed' = IF quit THEN owed ELSE accepted + 1
  /\ UNCHANGED caller

\* Any ready case of the select may be taken, the default only if none is.
Log(c) ==
  /\ caller[c] = "idle" /\ logs < MaxLogs
  /\ logs' = logs + 1
  /\ \/ send
     \/ quit /\ UNCHANGED <<ch, accepted, owed, caller>>
     \/ /\ Len(ch) = BufSize /\ ~quit
        /\ caller' = [caller EXCEPT ![c] = "full"]
        /\ UNCHANGED <<ch, accepted, owed>>
  /\ UNCHANGED <<quit, loop, dropped, closer, out>>

\* The default case counts what it drops.
Count(c) ==
  /\ caller[c] = "full"
  /\ dropped' = dropped + 1
  /\ caller' = [caller EXCEPT ![c] = "idle"]
  /\ UNCHANGED <<ch, quit, loop, closer, out, logs, accepted, owed>>
-----------------------------------------------------------------------------
(* The goroutine *)

emit ==
  /\ ch # << >>
  /\ out' = Append(out, Head(ch))
  /\ ch' = Tail(ch)
  /\ UNCHANGED <<quit, dropped, closer, caller, logs, accepted, owed>>

\* Mutant: only records are waited for.
runDeaf == loop = "run" /\ emit /\ UNCHANGED loop
\* Takes a record or sees quit, whichever the select picks; then drains until
\* the channel is empty.
run ==
  \/ loop \in {"run", "drain"} /\ emit /\ UNCHANGED loop
  \/ /\ \/ loop = "run" /\ quit /\ loop' = "drain"
        \/ loop = "drain" /\ ch = << >> /\ loop' = "done"
     /\ UNCHANGED <<ch, quit, dropped, closer, caller, out, logs, accepted, owed>>
-----------------------------------------------------------------------------
(* Close *)

Close ==
  /\ closer = "open"
  /\ closer' = "closing"
  /\ quit' = TRUE
  /\ UNCHANGED <<ch, loop, dropped, caller, out, logs, accepted, owed>>

CloseReturns ==
  /\ closer = "closing" /\ loop = "done"
  /\ closer' = "closed"
  /\ UNCHANGED <<ch, quit, loop, dropped, caller, out, logs, accepted, owed>>

Next == (\E c \in Callers : Log(c) \/ Count(c)) \/ run \/ Close \/ CloseReturns

Spec == NewZap /\ [][Next]_vars
-----------------------------------------------------------------------------
(* Properties *)

\* Records come out in the order they went in, none twice and none skipped:
\* what was emitted, followed by what is in the channel, is what was accepted
\* (run, emit).
InOrder == out \o ch = [i \in 1..accepted |-> i]

\* When Close has returned, every record the channel took before Close was
\* called has been emitted, however the goroutine's select chose between the
\* records and quit (run, Close).
Drained == closer = "closed" => Len(out) >= owed
=============================================================================
