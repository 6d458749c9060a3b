------------------------------ MODULE Process -------------------------------
(* The life of a service process, from the environment to its exit, with the *)
(* audit log it owns, the requests it serves and the logger it writes to.    *)
(* Shutdown stops accepting requests and waits for those in flight, at most  *)
(* ten seconds; then main's deferred calls run last to first: the server     *)
(* with its logs, the repository, the log export.  The decision log is one   *)
(* more such log.  The logger samples: of the lines with one message it      *)
(* keeps the first ones of a second and then every so many-th; what it keeps *)
(* goes to stderr and into the bounded queue of the export, if there is one. *)
(* A write changes one tuple.                                                *)
EXTENDS AsyncLog

CONSTANTS
  Initial,     \* lines of one second the sampler keeps
  Thereafter,  \* of the others, every Thereafter-th
  QueueSize    \* lines the export queues

ASSUME SamplingAssumption == Initial \in Nat /\ Thereafter \in Nat \ {0} /\ QueueSize \in Nat \ {0}

VARIABLES
  main,       \* where main is
  req,        \* per request: "idle", "write", "audit" (committed, not logged yet)
  repo,       \* the repository is open
  export,     \* the log export: "off", "open", "closed"
  window,     \* the sampler's count of this second
  queue,      \* lines the export has yet to send
  committed,  \* history: writes that succeeded
  written,    \* history: lines on stderr
  sampled,    \* history: lines the sampler left out, which nothing counts
  busy,       \* history: a second brought more than Initial lines
  exported,   \* history: lines the collector got
  lost,       \* history: lines overwritten in the queue, or not taken by the collector
  late        \* history: the shutdown deadline passed with requests in flight

lines == <<window, queue, written, sampled, busy, exported, lost>>
procVars == <<main, req, repo, export, committed, lines, late>>
allVars == <<vars, procVars>>

Init ==
  /\ NewZap
  /\ main = "load"
  /\ req = [r \in Callers |-> "idle"]
  /\ repo = FALSE /\ export \in {"off", "open"}
  /\ window = 0 /\ queue = 0
  /\ committed = 0 /\ written = 0 /\ sampled = 0 /\ exported = 0 /\ lost = 0
  /\ busy = FALSE /\ late = FALSE

goto(pc) == main' = pc /\ UNCHANGED <<req, committed>>
-----------------------------------------------------------------------------
(* The service logger *)

\* One more line with the message of the audit log.  The queue of the export
\* overwrites its oldest line when it is full.
Info ==
  LET n == window + 1
      kept == n <= Initial \/ (n - Initial) % Thereafter = 0
  IN
  /\ window' = n
  /\ busy' = (busy \/ n > Initial)
  /\ written' = IF kept THEN written + 1 ELSE written
  /\ sampled' = IF kept THEN sampled ELSE sampled + 1
  /\ queue' = IF kept /\ export = "open" /\ queue < QueueSize THEN queue + 1 ELSE queue
  /\ lost' = IF kept /\ export = "open" /\ queue = QueueSize THEN lost + 1 ELSE lost
  /\ UNCHANGED exported

\* The next second of the sampler.
Tick ==
  /\ main # "exited" /\ window > 0
  /\ window' = 0
  /\ UNCHANGED <<vars, main, req, repo, export, committed, queue, written, sampled, busy, exported, lost, late>>

\* The queue is sent; the collector may fail to take some of it.
deliver ==
  /\ queue' = 0
  /\ \E k \in 0..queue : exported' = exported + k /\ lost' = lost + queue - k
  /\ UNCHANGED <<window, written, sampled, busy>>

Batch ==
  /\ main # "exited" /\ export = "open" /\ queue > 0
  /\ deliver
  /\ UNCHANGED <<vars, main, req, repo, export, committed, late>>

\* Logger.Close sends what is queued, within its time, and ends the export.
flush ==
  /\ deliver
  /\ export' = IF export = "open" THEN "closed" ELSE export
-----------------------------------------------------------------------------
(* Starting.  A failure is fatal: the log is flushed and the process exits   *)
(* without the deferred calls.                                               *)

OptionsFromEnv ==
  /\ main = "load"
  /\ goto("repo") \/ goto("fatal")
  /\ UNCHANGED <<vars, repo, export, lines, late>>

buildRepo ==
  /\ main = "repo"
  /\ \/ goto("new") /\ repo' = TRUE
     \/ goto("fatal") /\ UNCHANGED repo
  /\ UNCHANGED <<vars, export, lines, late>>

\* workspaceserver.New refuses a region before there are logs, and closes them
\* again when app.New fails.
New ==
  /\ main = "new"
  /\ \/ goto("serve") /\ UNCHANGED vars
     \/ goto("fatal") /\ UNCHANGED vars
     \/ goto("undo") /\ Close
  /\ UNCHANGED <<repo, export, lines, late>>

exitAfter ==
  /\ main = "fatal"
  /\ goto("exited") /\ flush
  /\ UNCHANGED <<vars, repo, late>>
-----------------------------------------------------------------------------
(* Requests *)

ServeHTTP(r) ==
  /\ main = "serve" /\ req[r] = "idle"
  /\ logs < MaxLogs
  /\ req' = [req EXCEPT ![r] = "write"]
  /\ UNCHANGED <<vars, main, repo, export, committed, lines, late>>

\* The repository refuses once it is closed, and may fail before that.
WriteTuples(r) ==
  /\ req[r] = "write" /\ main # "exited"
  /\ \/ repo /\ req' = [req EXCEPT ![r] = "audit"] /\ committed' = committed + 1
     \/ req' = [req EXCEPT ![r] = "idle"] /\ UNCHANGED committed
  /\ UNCHANGED <<vars, main, repo, export, lines, late>>

auditTupleChanges(r) ==
  /\ req[r] = "audit" /\ main # "exited"
  /\ Log(r)
  /\ req' = [req EXCEPT ![r] = IF caller'[r] = "full" THEN "count" ELSE "idle"]
  /\ UNCHANGED <<main, repo, export, committed, lines, late>>

count(r) ==
  /\ main # "exited"
  /\ Count(r)
  /\ req' = [req EXCEPT ![r] = "idle"]
  /\ UNCHANGED <<main, repo, export, committed, lines, late>>

\* The goroutine of the log hands each record to the logger.
drain ==
  /\ main # "exited"
  /\ run
  /\ IF out' = out THEN UNCHANGED lines ELSE Info
  /\ UNCHANGED <<main, req, repo, export, committed, late>>
-----------------------------------------------------------------------------
(* Stopping *)

\* SIGTERM, SIGINT, or a listener that failed.
Stop ==
  /\ main = "serve"
  /\ goto("shutdown")
  /\ UNCHANGED <<vars, repo, export, lines, late>>

served == \A r \in Callers : req[r] = "idle"

\* http.Server.Shutdown returns when every request was answered, or at the
\* deadline.
Shutdown ==
  /\ main = "shutdown"
  /\ goto("close")
  /\ late' = ~served
  /\ UNCHANGED <<vars, repo, export, lines>>

\* Mutant: the export is flushed before the server's logs have drained.
srvCloseLast ==
  /\ main = "close"
  /\ goto("closing") /\ Close /\ flush
  /\ UNCHANGED <<repo, late>>
\* The deferred calls, last to first.
srvClose ==
  /\ main = "close"
  /\ goto("closing") /\ Close
  /\ UNCHANGED <<repo, export, lines, late>>

closed ==
  /\ main \in {"closing", "undo"}
  /\ goto(IF main = "undo" THEN "fatal" ELSE "closeRepo") /\ CloseReturns
  /\ UNCHANGED <<repo, export, lines, late>>

\* The pool waits for the calls that hold a connection.
closeRepo ==
  /\ main = "closeRepo" /\ \A r \in Callers : req[r] # "write"
  /\ goto("closeLogs") /\ repo' = FALSE
  /\ UNCHANGED <<vars, export, lines, late>>

closeLogs ==
  /\ main = "closeLogs"
  /\ goto("exited") /\ flush
  /\ UNCHANGED <<vars, repo, late>>
-----------------------------------------------------------------------------
Main == \/ OptionsFromEnv \/ buildRepo \/ New \/ exitAfter
        \/ Shutdown \/ srvClose \/ closed \/ closeRepo \/ closeLogs

Handle(r) == WriteTuples(r) \/ auditTupleChanges(r) \/ count(r)

ProcNext == Main \/ drain \/ Tick \/ Batch \/ Stop \/ \E r \in Callers : ServeHTTP(r) \/ Handle(r)

ProcSpec == Init /\ [][ProcNext]_allVars

\* main and the goroutine of the log are scheduled, and calls of the repository
\* end: the pool cannot close while one is running.
FairProcSpec ==
  /\ ProcSpec
  /\ WF_allVars(Main) /\ WF_allVars(drain)
  /\ \A r \in Callers : WF_allVars(Handle(r))
-----------------------------------------------------------------------------
(* Properties *)

\* A process that answered every request before its deadline leaves, for every
\* write it committed, a line on stderr or a count, except for lines the sampler
\* left out, and that only where a second brought more than it keeps; and what is
\* on stderr the export sent, except for lines overwritten or refused: the
\* deferred calls run in the right order (main, auditTupleChanges, closeLogs).
Audited ==
  main = "exited" =>
    /\ ~late => committed = written + dropped + sampled
    /\ sampled > 0 => busy
    /\ export # "off" => written = exported + lost

\* A process told to stop exits, whatever its requests do meanwhile (main).
Exits == main = "shutdown" ~> main = "exited"
=============================================================================
