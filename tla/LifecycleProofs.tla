--------------------------- MODULE LifecycleProofs ---------------------------
(***************************************************************************)
(* The end of the process, for any requests, any length of the log queue   *)
(* and any timeout. The argument: while main waits, its timer and the time *)
(* that has passed make up the timeout (TimeInv), so whatever main stops   *)
(* waiting for is either done or late (DrainInv, NothingAbandonedEarly).   *)
(***************************************************************************)
EXTENDS Lifecycle, TLAPS

Ending == main \in {"background", "lock", "flush", "listen", "exited"}

\* While main waits with a timer, the timer and the time that has passed make
\* up the timeout.
TimeInv ==
    /\ main \in {"serve", "signalled"} => elapsed = 0
    /\ main \in {"server", "background", "flush"} =>
          elapsed <= Timeout /\ timer = Timeout - elapsed
    /\ main = "lock" => elapsed <= Timeout
    /\ main \in {"serve", "signalled", "lock", "listen", "exited"} => timer = None

\* The log closes on the way to the flush, with no sender inside; a queued line
\* is in the queue or in the hands of the writer.
LogInv ==
    /\ logClosed <=> main \in {"flush", "listen", "exited"}
    /\ NeverSendsOnClosedLog
    /\ logDone => logClosed /\ logQueue = <<>> /\ writing = None
    /\ \A r \in Requests :
          /\ req[r] = "lost" => logClosed
          /\ req[r] = "queued" =>
                r = writing \/ \E i \in DOMAIN logQueue : logQueue[i] = r

\* How the process came to end, if the server was not drained.
DrainInv ==
    /\ server = "drained" =>
          \A r \in Requests : req[r] \notin {"running", "sending", "lost"}
    /\ serverErr => elapsed >= Timeout
    /\ listen = "ok" => server \in {"closed", "drained"}
    /\ main = "signalled" => server # "starting" \/ SignalWhileStarting
    /\ Ending => \/ server = "drained" \/ serverErr \/ listen = "failed"
                 \/ SignalWhileStarting /\ server \in {"starting", "open"}
    /\ SignalWhileStarting \/ OnlyLateLinesAreLost
    /\ code = 0 => main = "exited" /\ listen = "ok" /\ ~serverErr

Inv == TypeOK /\ TimeInv /\ LogInv /\ DrainInv /\ NothingAbandonedEarly

LEMMA InvInit == Init => Inv
<1> SUFFICES ASSUME Init PROVE Inv
  OBVIOUS
<1> USE DEF Init
<1>1. TypeOK
  <2>1. logQueue \in Seq(Requests) /\ Len(logQueue) = 0
    OBVIOUS
  <2>2. elapsed \in 0..(Timeout + 1) /\ 0 <= requestLogQueueSize
    BY LifecycleAssumption
  <2>3. serverErr \in BOOLEAN /\ refreshing \in BOOLEAN
        /\ logClosed \in BOOLEAN /\ logDone \in BOOLEAN
    BY Zenon
  <2> QED
    BY <2>1, <2>2, <2>3 DEF TypeOK
<1>2. TimeInv
  BY DEF TimeInv
<1>3. LogInv
  BY DEF LogInv, NeverSendsOnClosedLog
<1>4. DrainInv
  BY LifecycleAssumption DEF DrainInv, OnlyLateLinesAreLost, Ending
<1>5. NothingAbandonedEarly
  BY DEF NothingAbandonedEarly
<1> QED
  BY <1>1, <1>2, <1>3, <1>4, <1>5 DEF Inv

-----------------------------------------------------------------------------

LEMMA TypeStep == Inv /\ [Next]_vars => TypeOK'
<1> SUFFICES ASSUME Inv, [Next]_vars PROVE TypeOK'
  OBVIOUS
<1> USE LifecycleAssumption DEF Inv, TypeOK, processVars, serverVars, workVars,
           logVars, timeVars
<1>1. CASE TakeListenError
  BY <1>1 DEF TakeListenError, BackgroundWait
<1>2. CASE StopServer
  BY <1>2 DEF StopServer, BackgroundWait
<1>3. CASE ServerStopped
  <2>1. Remaining \in 0..Timeout
    BY DEF Remaining
  <2>2. serverErr' \in BOOLEAN
    BY <1>3 DEF ServerStopped
  <2> QED
    BY <1>3, <2>1, <2>2 DEF ServerStopped, BackgroundWait
<1>4. CASE BackgroundClosed
  BY <1>4 DEF BackgroundClosed, Expired
<1>5. CASE CloseLog
  BY <1>5 DEF CloseLog, Remaining
<1>6. CASE LogFlushed
  BY <1>6 DEF LogFlushed, Expired
<1>7. CASE Exit
  BY <1>7 DEF Exit
<1>8. CASE Signal
  BY <1>8 DEF Signal
<1>9. CASE Tick
  BY <1>9 DEF Tick, Urgent, Expired
<1>10. CASE ServerListens
  BY <1>10 DEF ServerListens
<1>11. CASE ListenFails
  BY <1>11 DEF ListenFails
<1>12. CASE ListenReturns
  BY <1>12 DEF ListenReturns
<1>13. ASSUME NEW r \in Requests, RequestBegins(r) PROVE TypeOK'
  BY <1>13 DEF RequestBegins
<1>14. ASSUME NEW r \in Requests, EnqueueBegins(r) PROVE TypeOK'
  BY <1>14 DEF EnqueueBegins
<1>15. ASSUME NEW r \in Requests, EnqueueEnds(r) PROVE TypeOK'
  BY <1>15 DEF EnqueueEnds
<1>16. CASE WriterTakes
  BY <1>16 DEF WriterTakes
<1>17. CASE WriterWrites
  BY <1>17 DEF WriterWrites
<1>18. CASE WriterEnds
  BY <1>18 DEF WriterEnds
<1>19. CASE RefreshBegins
  BY <1>19 DEF RefreshBegins
<1>20. CASE RefreshEnds
  <2>1. refreshing' \in BOOLEAN
    BY <1>20, Zenon DEF RefreshEnds
  <2> QED
    BY <1>20, <2>1 DEF RefreshEnds
<1>21. CASE CloseOnShutdown
  BY <1>21 DEF CloseOnShutdown
<1>22. CASE UNCHANGED vars
  BY <1>22 DEF vars
<1> QED
  BY <1>1, <1>2, <1>3, <1>4, <1>5, <1>6, <1>7, <1>8, <1>9, <1>10, <1>11,
     <1>12, <1>13, <1>14, <1>15, <1>16, <1>17, <1>18, <1>19, <1>20, <1>21,
     <1>22 DEF Next, Running, MainStep, Request

LEMMA TimeStep == Inv /\ [Next]_vars => TimeInv'
<1> SUFFICES ASSUME Inv, [Next]_vars PROVE TimeInv'
  OBVIOUS
<1> USE LifecycleAssumption DEF Inv, TypeOK, TimeInv, processVars, serverVars, workVars,
           logVars, timeVars
<1>1. CASE TakeListenError
  BY <1>1 DEF TakeListenError, BackgroundWait
<1>2. CASE StopServer
  BY <1>2 DEF StopServer, BackgroundWait
<1>3. CASE ServerStopped
  BY <1>3 DEF ServerStopped, BackgroundWait, Remaining, Expired, AllFinished
<1>4. CASE BackgroundClosed
  BY <1>4 DEF BackgroundClosed, Expired
<1>5. CASE CloseLog
  BY <1>5 DEF CloseLog, Remaining
<1>6. CASE LogFlushed
  BY <1>6 DEF LogFlushed, Expired
<1>7. CASE Exit
  BY <1>7 DEF Exit
<1>8. CASE Signal
  BY <1>8 DEF Signal
<1>9. CASE Tick
  BY <1>9 DEF Tick, Urgent, Expired
<1>10. ASSUME NEW r \in Requests, RequestBegins(r) \/ EnqueueBegins(r) \/ EnqueueEnds(r) PROVE TimeInv'
  BY <1>10 DEF RequestBegins, EnqueueBegins, EnqueueEnds
<1>11. CASE ServerListens \/ ListenFails \/ ListenReturns \/ WriterTakes \/
          WriterWrites \/ WriterEnds \/ RefreshBegins \/ RefreshEnds \/
          CloseOnShutdown
  BY <1>11 DEF ServerListens, ListenFails, ListenReturns, WriterTakes,
     WriterWrites, WriterEnds, RefreshBegins, RefreshEnds, CloseOnShutdown
<1>12. CASE UNCHANGED vars
  BY <1>12 DEF vars
<1> QED
  BY <1>1, <1>2, <1>3, <1>4, <1>5, <1>6, <1>7, <1>8, <1>9, <1>10, <1>11,
     <1>12 DEF Next, Running, MainStep, Request

LEMMA HeadOrTail ==
    ASSUME NEW S, NEW s \in Seq(S), NEW i \in DOMAIN s
    PROVE  s[i] = Head(s) \/ \E j \in DOMAIN Tail(s) : Tail(s)[j] = s[i]
<1>1. CASE i = 1
  BY <1>1
<1>2. CASE i # 1
  <2>1. i - 1 \in DOMAIN Tail(s) /\ Tail(s)[i - 1] = s[i]
    BY <1>2
  <2> QED
    BY <2>1
<1> QED
  BY <1>1, <1>2

LEMMA LogStep == Inv /\ [Next]_vars => LogInv'
<1> SUFFICES ASSUME Inv, [Next]_vars PROVE LogInv'
  OBVIOUS
<1> USE DEF Inv, TypeOK, LogInv, NeverSendsOnClosedLog,
           processVars, serverVars, workVars,
           logVars, timeVars
<1>1. CASE TakeListenError
  BY <1>1 DEF TakeListenError, BackgroundWait
<1>2. CASE StopServer
  BY <1>2 DEF StopServer, BackgroundWait
<1>3. CASE ServerStopped
  BY <1>3 DEF ServerStopped, BackgroundWait, Remaining, Expired, AllFinished
<1>4. CASE BackgroundClosed
  BY <1>4 DEF BackgroundClosed, Expired
<1>5. CASE CloseLog
  BY <1>5 DEF CloseLog, Remaining
<1>6. CASE LogFlushed
  BY <1>6 DEF LogFlushed, Expired
<1>7. CASE Exit
  BY <1>7 DEF Exit
<1>8. ASSUME NEW r \in Requests, RequestBegins(r) PROVE LogInv'
  BY <1>8 DEF RequestBegins
<1>9. ASSUME NEW r \in Requests, EnqueueBegins(r) PROVE LogInv'
  BY <1>9 DEF EnqueueBegins
<1>10. ASSUME NEW r \in Requests, EnqueueEnds(r) PROVE LogInv'
  BY <1>10 DEF EnqueueEnds
<1>11. CASE WriterTakes
  <2>1. ASSUME NEW r \in Requests, req[r] = "queued"
        PROVE  r = writing' \/ \E j \in DOMAIN logQueue' : logQueue'[j] = r
    <3>1. PICK i \in DOMAIN logQueue : logQueue[i] = r
      BY <1>11, <2>1, LifecycleAssumption DEF WriterTakes
    <3>2. r = Head(logQueue)
          \/ \E j \in DOMAIN Tail(logQueue) : Tail(logQueue)[j] = r
      BY <3>1, HeadOrTail
    <3> QED
      BY <1>11, <3>2 DEF WriterTakes
  <2> QED
    BY <1>11, <2>1 DEF WriterTakes
<1>12. CASE WriterWrites
  BY <1>12 DEF WriterWrites
<1>13. CASE WriterEnds
  BY <1>13 DEF WriterEnds
<1>14. CASE Signal \/ Tick \/ ServerListens \/ ListenFails \/ ListenReturns
          \/ RefreshBegins \/ RefreshEnds \/ CloseOnShutdown
  BY <1>14 DEF Signal, Tick, ServerListens, ListenFails, ListenReturns,
     RefreshBegins, RefreshEnds, CloseOnShutdown
<1>15. CASE UNCHANGED vars
  BY <1>15 DEF vars
<1> QED
  BY <1>1, <1>2, <1>3, <1>4, <1>5, <1>6, <1>7, <1>8, <1>9, <1>10, <1>11,
     <1>12, <1>13, <1>14, <1>15 DEF Next, Running, MainStep, Request

LEMMA DrainStep == Inv /\ [Next]_vars => DrainInv'
<1> SUFFICES ASSUME Inv, [Next]_vars PROVE DrainInv'
  OBVIOUS
<1> USE LifecycleAssumption DEF Inv, TypeOK, DrainInv, TimeInv, LogInv, NeverSendsOnClosedLog,
           OnlyLateLinesAreLost, Ending, processVars, serverVars, workVars,
           logVars, timeVars
<1>1. CASE TakeListenError
  BY <1>1 DEF TakeListenError, BackgroundWait
<1>2. CASE StopServer
  BY <1>2 DEF StopServer, BackgroundWait
<1>3. CASE ServerStopped
  BY <1>3 DEF ServerStopped, BackgroundWait, Remaining, Expired, AllFinished
<1>4. CASE BackgroundClosed
  BY <1>4 DEF BackgroundClosed, Expired
<1>5. CASE CloseLog
  BY <1>5 DEF CloseLog, Remaining
<1>6. CASE LogFlushed
  BY <1>6 DEF LogFlushed, Expired
<1>7. CASE Exit
  BY <1>7 DEF Exit
<1>8. CASE Signal
  BY <1>8 DEF Signal
<1>9. CASE Tick
  BY <1>9 DEF Tick, Urgent, Expired
<1>10. CASE ServerListens
  BY <1>10 DEF ServerListens
<1>11. CASE ListenFails
  BY <1>11 DEF ListenFails
<1>12. CASE ListenReturns
  BY <1>12 DEF ListenReturns
<1>13. ASSUME NEW r \in Requests, RequestBegins(r) PROVE DrainInv'
  BY <1>13 DEF RequestBegins
<1>14. ASSUME NEW r \in Requests, EnqueueBegins(r) PROVE DrainInv'
  BY <1>14 DEF EnqueueBegins
<1>15. ASSUME NEW r \in Requests, EnqueueEnds(r) PROVE DrainInv'
  BY <1>15 DEF EnqueueEnds
<1>16. CASE WriterTakes \/ WriterWrites \/ WriterEnds \/ RefreshBegins \/
          RefreshEnds \/ CloseOnShutdown
  BY <1>16 DEF WriterTakes, WriterWrites, WriterEnds, RefreshBegins,
     RefreshEnds, CloseOnShutdown
<1>17. CASE UNCHANGED vars
  BY <1>17 DEF vars
<1> QED
  BY <1>1, <1>2, <1>3, <1>4, <1>5, <1>6, <1>7, <1>8, <1>9, <1>10, <1>11,
     <1>12, <1>13, <1>14, <1>15, <1>16, <1>17 DEF Next, Running, MainStep,
     Request

LEMMA EarlyStep == Inv /\ [Next]_vars => NothingAbandonedEarly'
<1> SUFFICES ASSUME Inv, [Next]_vars PROVE NothingAbandonedEarly'
  OBVIOUS
<1> USE LifecycleAssumption DEF Inv, TypeOK, TimeInv, LogInv, NothingAbandonedEarly,
           NeverSendsOnClosedLog, processVars, serverVars, workVars,
           logVars, timeVars
<1>1. CASE TakeListenError
  BY <1>1 DEF TakeListenError, BackgroundWait
<1>2. CASE StopServer
  BY <1>2 DEF StopServer, BackgroundWait
<1>3. CASE ServerStopped
  BY <1>3 DEF ServerStopped, BackgroundWait, Remaining, Expired, AllFinished
<1>4. CASE BackgroundClosed
  BY <1>4 DEF BackgroundClosed, Expired
<1>5. CASE CloseLog
  BY <1>5 DEF CloseLog, Remaining
<1>6. CASE LogFlushed
  BY <1>6 DEF LogFlushed, Expired
<1>7. CASE Exit
  BY <1>7 DEF Exit
<1>8. CASE Signal
  BY <1>8 DEF Signal
<1>9. CASE Tick
  BY <1>9 DEF Tick, Urgent, Expired
<1>10. ASSUME NEW r \in Requests, RequestBegins(r) PROVE NothingAbandonedEarly'
  BY <1>10 DEF RequestBegins
<1>11. ASSUME NEW r \in Requests, EnqueueBegins(r) PROVE NothingAbandonedEarly'
  BY <1>11 DEF EnqueueBegins
<1>12. ASSUME NEW r \in Requests, EnqueueEnds(r) PROVE NothingAbandonedEarly'
  BY <1>12 DEF EnqueueEnds
<1>13. CASE WriterWrites
  BY <1>13 DEF WriterWrites
<1>14. CASE WriterEnds
  BY <1>14 DEF WriterEnds
<1>15. CASE CloseOnShutdown
  BY <1>15 DEF CloseOnShutdown
<1>16. CASE ServerListens \/ ListenFails \/ ListenReturns \/ RefreshBegins
          \/ RefreshEnds \/ WriterTakes
  BY <1>16 DEF ServerListens, ListenFails, ListenReturns, RefreshBegins,
     RefreshEnds, WriterTakes
<1>17. CASE UNCHANGED vars
  BY <1>17 DEF vars
<1> QED
  BY <1>1, <1>2, <1>3, <1>4, <1>5, <1>6, <1>7, <1>8, <1>9, <1>10, <1>11,
     <1>12, <1>13, <1>14, <1>15, <1>16, <1>17 DEF Next, Running, MainStep,
     Request

-----------------------------------------------------------------------------

LEMMA Invariant == Spec => []Inv
<1>1. Inv /\ [Next]_vars => Inv'
  BY TypeStep, TimeStep, LogStep, DrainStep, EarlyStep DEF Inv
<1> QED
  BY <1>1, InvInit, PTL DEF Spec

\* The state of the process is well-formed; the log queue stays within its size
\* (main.go:118, 294-298).
THEOREM LifecycleTypeCorrect == Spec => []TypeOK
<1>1. Inv => TypeOK
  BY DEF Inv
<1> QED
  BY <1>1, Invariant, PTL

\* No request sends on the closed access log (main.go:267-299, 380-387).
THEOREM LogIsNeverSentOnClosed == Spec => []NeverSendsOnClosedLog
<1>1. Inv => NeverSendsOnClosedLog
  BY DEF Inv, LogInv
<1> QED
  BY <1>1, Invariant, PTL

\* If no signal comes before the server listens, a line is lost only when the
\* drain timed out or the listener failed (main.go:410-431).
THEOREM LostLinesAreLate ==
    ASSUME ~SignalWhileStarting PROVE Spec => []OnlyLateLinesAreLost
<1>1. Inv => OnlyLateLinesAreLost
  BY DEF Inv, DrainInv
<1> QED
  BY <1>1, Invariant, PTL

\* Nothing is left behind before the timeout has passed (main.go:348-408).
THEOREM NothingIsAbandonedEarly == Spec => []NothingAbandonedEarly
<1>1. Inv => NothingAbandonedEarly
  BY DEF Inv
<1> QED
  BY <1>1, Invariant, PTL

\* From the signal to the flushed log no more than one timeout passes
\* (main.go:410-429).
THEOREM ShutdownStaysWithinTimeout == Spec => []WithinTimeout
<1>1. Inv => WithinTimeout
  BY LifecycleAssumption DEF Inv, TypeOK, TimeInv, WithinTimeout
<1> QED
  BY <1>1, Invariant, PTL

\* Exit code 0 hides no request that was cut off (main.go:465-470, 522-532).
THEOREM CleanExitIsDrained == Spec => []CleanExitMeansDrained
<1>1. Inv => CleanExitMeansDrained
  BY DEF Inv, DrainInv, Ending, CleanExitMeansDrained
<1> QED
  BY <1>1, Invariant, PTL
=============================================================================
