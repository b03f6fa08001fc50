----------------------------- MODULE Lifecycle -----------------------------
(***************************************************************************)
(* The life of the process (cmd/svm/main.go, internal/app/app.go): it      *)
(* serves until a signal or a failure of the listener, drains the server,  *)
(* closes the background parts and the access log, each within what is     *)
(* left of one shutdown timeout, and exits. Requests, the goroutine that   *)
(* closes the background parts, a refresh and the log writer run beside.   *)
(***************************************************************************)
EXTENDS Integers, Sequences

CONSTANTS
    Requests,
    requestLogQueueSize,
    Timeout,                \* SHUTDOWN_TIMEOUT, in ticks
    SignalWhileStarting,    \* may a signal come before the server listens?
    None

ASSUME LifecycleAssumption ==
    /\ requestLogQueueSize \in Nat \ {0}
    /\ Timeout \in Nat \ {0}
    /\ SignalWhileStarting \in BOOLEAN
    /\ None \notin Requests \cup 0..Timeout

VARIABLES
    main,           \* where runServerWithLifecycle is
    serverErr,      \* ShutdownWithContext gave up at the deadline
    code,           \* exit code of the process, None while it runs
    server,         \* the HTTP server
    listen,         \* what the listen goroutine has reported
    closer,         \* the part CloseOnShutdown is closing
    refreshing,     \* a worker is in an upstream request
    req,            \* each request, then its access log line
    logQueue,
    logClosed,      \* the channel is closed and requestLogQueue is nil
    writing,        \* the line processRequestLogs has taken
    logDone,
    timer,          \* time left to the timer main waits for, None without
    elapsed         \* time since the shutdown began, up to Timeout + 1

processVars == <<main, serverErr, code>>
serverVars  == <<server, listen>>
workVars    == <<closer, refreshing>>
logVars     == <<req, logQueue, logClosed, writing, logDone>>
timeVars    == <<timer, elapsed>>
vars == <<processVars, serverVars, workVars, logVars, timeVars>>

Init ==
    /\ main = "serve" /\ serverErr = FALSE /\ code = None
    /\ server = "starting" /\ listen = "running"
    /\ closer = "none" /\ refreshing = FALSE
    /\ req = [r \in Requests |-> "none"]
    /\ logQueue = <<>> /\ logClosed = FALSE /\ writing = None /\ logDone = FALSE
    /\ timer = None /\ elapsed = 0

-----------------------------------------------------------------------------
(* The server. Connections that are open when the listener closes go on,   *)
(* and so do those that outlast the shutdown timeout.                      *)

ServerListens ==
    /\ server = "starting"
    /\ server' = "open"
    /\ UNCHANGED <<processVars, listen, workVars, logVars, timeVars>>

ListenFails ==
    /\ server \in {"starting", "open"}
    /\ server' = "closed" /\ listen' = "failed"
    /\ UNCHANGED <<processVars, workVars, logVars, timeVars>>

ListenReturns ==
    /\ listen = "running" /\ server \in {"closed", "drained"}
    /\ listen' = "ok"
    /\ UNCHANGED <<processVars, server, workVars, logVars, timeVars>>

RequestBegins(r) ==
    /\ req[r] = "none" /\ server \in {"open", "closed"}
    /\ req' = [req EXCEPT ![r] = "running"]
    /\ UNCHANGED <<processVars, serverVars, workVars, logQueue, logClosed,
                   writing, logDone, timeVars>>

-----------------------------------------------------------------------------
(* The access log. A request holds the read lock from "sending" to its     *)
(* line; a waiting Lock keeps new readers out.                             *)

EnqueueBegins(r) ==
    /\ req[r] = "running" /\ main # "lock"
    /\ req' = [req EXCEPT ![r] = IF logClosed THEN "lost" ELSE "sending"]
    /\ UNCHANGED <<processVars, serverVars, workVars, logQueue, logClosed,
                   writing, logDone, timeVars>>

\* Seeded fault: a full queue takes one more line.
FaultyEnqueueEnds(r) ==
    /\ req[r] = "sending"
    /\ \/ /\ Len(logQueue) <= requestLogQueueSize
          /\ logQueue' = Append(logQueue, r)
          /\ req' = [req EXCEPT ![r] = "queued"]
       \/ /\ Len(logQueue) > requestLogQueueSize
          /\ req' = [req EXCEPT ![r] = "dropped"]
          /\ UNCHANGED logQueue
    /\ UNCHANGED <<processVars, serverVars, workVars, logClosed, writing,
                   logDone, timeVars>>

\* Seeded fault: a request waits for room in the queue.
BlockingEnqueueEnds(r) ==
    /\ req[r] = "sending"
    /\ Len(logQueue) < requestLogQueueSize
    /\ logQueue' = Append(logQueue, r)
    /\ req' = [req EXCEPT ![r] = "queued"]
    /\ UNCHANGED <<processVars, serverVars, workVars, logClosed, writing,
                   logDone, timeVars>>

EnqueueEnds(r) ==
    /\ req[r] = "sending"
    /\ \/ /\ Len(logQueue) < requestLogQueueSize
          /\ logQueue' = Append(logQueue, r)
          /\ req' = [req EXCEPT ![r] = "queued"]
       \/ /\ Len(logQueue) >= requestLogQueueSize
          /\ req' = [req EXCEPT ![r] = "dropped"]
          /\ UNCHANGED logQueue
    /\ UNCHANGED <<processVars, serverVars, workVars, logClosed, writing,
                   logDone, timeVars>>

WriterTakes ==
    /\ writing = None /\ logQueue # <<>>
    /\ writing' = Head(logQueue) /\ logQueue' = Tail(logQueue)
    /\ UNCHANGED <<processVars, serverVars, workVars, req, logClosed, logDone,
                   timeVars>>

WriterWrites ==
    /\ writing # None
    /\ req' = [req EXCEPT ![writing] = "written"]
    /\ writing' = None
    /\ UNCHANGED <<processVars, serverVars, workVars, logQueue, logClosed,
                   logDone, timeVars>>

\* Seeded fault: the writer stops at the close instead of draining the queue.
FaultyWriterEnds ==
    /\ logClosed /\ ~logDone /\ writing = None
    /\ logDone' = TRUE
    /\ UNCHANGED <<processVars, serverVars, workVars, req, logQueue, logClosed,
                   writing, timeVars>>

WriterEnds ==
    /\ logClosed /\ ~logDone /\ writing = None /\ logQueue = <<>>
    /\ logDone' = TRUE
    /\ UNCHANGED <<processVars, serverVars, workVars, req, logQueue, logClosed,
                   writing, timeVars>>

-----------------------------------------------------------------------------
(* The background parts. A refresh ends when upstream answers or times     *)
(* out, long after the shutdown timeout if it must.                        *)

RefreshBegins ==
    /\ ~refreshing /\ closer \in {"none", "scheduler", "workers"}
    /\ refreshing' = TRUE
    /\ UNCHANGED <<processVars, serverVars, closer, logVars, timeVars>>

RefreshEnds ==
    /\ refreshing
    /\ refreshing' = FALSE
    /\ UNCHANGED <<processVars, serverVars, closer, logVars, timeVars>>

CloseOnShutdown ==
    /\ \/ closer = "scheduler" /\ closer' = "workers"
       \/ closer = "workers" /\ ~refreshing /\ closer' = "queue"
       \/ closer = "queue" /\ closer' = "closed"
    /\ UNCHANGED <<processVars, serverVars, refreshing, logVars, timeVars>>

-----------------------------------------------------------------------------
(* The main goroutine. Every wait after the signal has a timer, but for    *)
(* the last one: the server's own return.                                  *)

Remaining == IF elapsed < Timeout THEN Timeout - elapsed ELSE 0
Expired == timer = 0

Signal ==
    /\ main = "serve"
    /\ SignalWhileStarting \/ server # "starting"
    /\ main' = "signalled"
    /\ UNCHANGED <<serverErr, code, serverVars, workVars, logVars, timeVars>>

\* shutdownBackground: the closing goroutine starts, main waits for it.
BackgroundWait(left) ==
    /\ main' = "background" /\ closer' = "scheduler" /\ timer' = left
    /\ UNCHANGED <<code, refreshing, logVars, elapsed>>

\* The listener failed before any signal: shutdown without a server.
TakeListenError ==
    /\ main = "serve" /\ listen = "failed"
    /\ BackgroundWait(Timeout)
    /\ UNCHANGED <<serverErr, serverVars>>

\* Seeded fault: the listener is closed, but its requests are not waited for.
FaultyStopServer ==
    /\ main = "signalled"
    /\ server' = IF server = "starting" THEN server ELSE "closed"
    /\ BackgroundWait(Timeout)
    /\ UNCHANGED <<serverErr, listen>>

\* A server that does not listen yet has nothing to shut down.
StopServer ==
    /\ main = "signalled"
    /\ \/ /\ server = "starting"
          /\ BackgroundWait(Timeout)
          /\ UNCHANGED <<serverErr, serverVars>>
       \/ /\ server # "starting"
          /\ main' = "server" /\ server' = "closed" /\ timer' = Timeout
          /\ UNCHANGED <<serverErr, code, listen, workVars, logVars, elapsed>>

AllFinished == \A r \in Requests : req[r] \notin {"running", "sending"}

\* Seeded fault: each phase of the shutdown gets the whole timeout.
FaultyServerStopped ==
    /\ main = "server"
    /\ \/ /\ AllFinished
          /\ server' = "drained"
          /\ UNCHANGED serverErr
       \/ /\ Expired
          /\ serverErr' = TRUE
          /\ UNCHANGED server
    /\ BackgroundWait(Timeout)
    /\ UNCHANGED listen

ServerStopped ==
    /\ main = "server"
    /\ \/ /\ AllFinished
          /\ server' = "drained"
          /\ UNCHANGED serverErr
       \/ /\ Expired
          /\ serverErr' = TRUE
          /\ UNCHANGED server
    /\ BackgroundWait(Remaining)
    /\ UNCHANGED listen

BackgroundClosed ==
    /\ main = "background"
    /\ closer = "closed" \/ Expired
    /\ main' = "lock" /\ timer' = None
    /\ UNCHANGED <<serverErr, code, serverVars, workVars, logVars, elapsed>>

\* Seeded fault: the channel is closed without the lock.
UnlockedCloseLog ==
    /\ main = "lock"
    /\ logClosed' = TRUE
    /\ main' = "flush" /\ timer' = Remaining
    /\ UNCHANGED <<serverErr, code, serverVars, workVars, req, logQueue, writing,
                   logDone, elapsed>>

\* shutdownRequestLogs has the lock. With no time left its timer is due at once
\* (the nanosecond of shutdownBackground).
CloseLog ==
    /\ main = "lock" /\ \A r \in Requests : req[r] # "sending"
    /\ logClosed' = TRUE
    /\ main' = "flush" /\ timer' = Remaining
    /\ UNCHANGED <<serverErr, code, serverVars, workVars, req, logQueue, writing,
                   logDone, elapsed>>

LogFlushed ==
    /\ main = "flush"
    /\ logDone \/ Expired
    /\ main' = "listen" /\ timer' = None
    /\ UNCHANGED <<serverErr, code, serverVars, workVars, logVars, elapsed>>

\* Seeded fault: an interrupted drain is not reported.
FaultyExit ==
    /\ main = "listen" /\ listen # "running"
    /\ main' = "exited" /\ code' = IF listen = "failed" THEN 1 ELSE 0
    /\ UNCHANGED <<serverErr, serverVars, workVars, logVars, timeVars>>

\* The result of the listen goroutine decides, then that of the server. (A
\* listener that failed has reported already; its shutdown goes straight here.)
Exit ==
    /\ main = "listen" /\ listen # "running"
    /\ main' = "exited" /\ code' = IF listen = "failed" \/ serverErr THEN 1 ELSE 0
    /\ UNCHANGED <<serverErr, serverVars, workVars, logVars, timeVars>>

MainStep ==
    TakeListenError \/ StopServer \/ ServerStopped \/ BackgroundClosed
    \/ CloseLog \/ LogFlushed \/ Exit

-----------------------------------------------------------------------------

\* Steps that only compute, and timers that are due, come before time passes.
Urgent == main \in {"signalled", "lock"} \/ Expired

Tick ==
    /\ main \notin {"serve", "exited"} /\ ~Urgent
    /\ elapsed <= Timeout
    /\ elapsed' = elapsed + 1
    /\ timer' = IF timer = None THEN None ELSE timer - 1
    /\ UNCHANGED <<processVars, serverVars, workVars, logVars>>

Request(r) == RequestBegins(r) \/ EnqueueBegins(r) \/ EnqueueEnds(r)

Running ==
    \/ MainStep \/ Signal \/ Tick
    \/ ServerListens \/ ListenFails \/ ListenReturns
    \/ \E r \in Requests : Request(r)
    \/ WriterTakes \/ WriterWrites \/ WriterEnds
    \/ RefreshBegins \/ RefreshEnds \/ CloseOnShutdown

Next == main # "exited" /\ Running

Spec == Init /\ [][Next]_vars

\* Handlers, refreshes, the log writer and the closing goroutine may all hang.
Fairness ==
    /\ WF_vars(MainStep) /\ WF_vars(Tick) /\ WF_vars(ServerListens)
    /\ WF_vars(main # "exited" /\ ListenReturns)
    /\ \A r \in Requests : WF_vars(main # "exited" /\ EnqueueEnds(r))

FairSpec == Spec /\ Fairness

-----------------------------------------------------------------------------

TypeOK ==
    /\ main \in {"serve", "signalled", "server", "background", "lock", "flush",
                 "listen", "exited"}
    /\ serverErr \in BOOLEAN /\ code \in {None, 0, 1}
    /\ server \in {"starting", "open", "closed", "drained"}
    /\ listen \in {"running", "ok", "failed"}
    /\ closer \in {"none", "scheduler", "workers", "queue", "closed"}
    /\ refreshing \in BOOLEAN
    /\ req \in [Requests -> {"none", "running", "sending", "queued", "dropped",
                             "lost", "written"}]
    /\ logQueue \in Seq(Requests) /\ Len(logQueue) <= requestLogQueueSize
    /\ logClosed \in BOOLEAN /\ logDone \in BOOLEAN
    /\ writing \in Requests \cup {None}
    /\ timer \in 0..Timeout \cup {None}
    /\ elapsed \in 0..(Timeout + 1)

\* No request that found the log open can still send when the channel is closed:
\* that send would panic (main.go:268-298 against 380-387).
NeverSendsOnClosedLog ==
    logClosed => \A r \in Requests : req[r] # "sending"

\* A finished request leaves no line, and is not even counted as dropped, only if
\* the server could not be drained within the timeout or had failed: the log
\* outlives the server (main.go:410-431).
OnlyLateLinesAreLost ==
    (\E r \in Requests : req[r] = "lost") => elapsed >= Timeout \/ listen = "failed"

\* Background parts are left behind, and lines are left unwritten, only when the
\* whole timeout has passed (main.go:348-408).
NothingAbandonedEarly ==
    elapsed < Timeout =>
        /\ main \in {"lock", "flush", "listen", "exited"} => closer = "closed"
        /\ main \in {"listen", "exited"} => \A r \in Requests : req[r] # "queued"

\* All phases of a shutdown together stay within one timeout (README.md:107).
WithinTimeout ==
    main \in {"signalled", "server", "background", "lock", "flush"} =>
        elapsed <= Timeout

\* Exit code 0 says that every request was answered and its line written, queued
\* when time ran out, or counted as dropped (main.go:465-470, 522-532).
CleanExitMeansDrained ==
    code = 0 => \A r \in Requests : req[r] \notin {"running", "sending", "lost"}

\* A shutdown that has begun ends, although refreshes, handlers and the output of
\* the log may hang (main.go:363-372, 394-406).
ShutdownEnds == main \notin {"serve", "exited"} ~> main = "exited"
=============================================================================
