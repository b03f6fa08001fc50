---------------------------- MODULE Revalidation ----------------------------
(***************************************************************************)
(* Background revalidation: the activity tracker, the scheduler that       *)
(* sweeps it, the bounded queue it fills, the paced workers that empty it, *)
(* and the order in which they are closed (activity_tracker.go,            *)
(* revalidate_scheduler.go, refresh_queue.go, refresh_worker.go, and       *)
(* shutdownBackground of cmd/svm/main.go).                                 *)
(*                                                                         *)
(* Time is counted in ticks and kept as ages, each up to the value beyond  *)
(* which the code no longer tells ages apart. A step that only computes    *)
(* takes no time: the clock waits until no such step is ready. An upstream *)
(* request takes up to MaxRefresh ticks.                                   *)
(***************************************************************************)
EXTENDS Integers, SequencesExt

CONSTANTS
    Keys, Workers, None,
    Interval,       \* REVALIDATE_INTERVAL
    Lookback,       \* REVALIDATE_LOOKBACK
    Pace,           \* one second / REVALIDATE_PER_WORKER_RPS
    QueueSize,      \* REFRESH_QUEUE_SIZE
    MaxRefresh      \* the longest upstream request

ASSUME RevalidationAssumption ==
    /\ None \notin Keys /\ None \notin Nat /\ IsFiniteSet(Keys)
    /\ IsFiniteSet(Workers) /\ Workers # {}
    /\ {Interval, Lookback, Pace, QueueSize} \subseteq Nat \ {0}
    /\ MaxRefresh \in Nat

VARIABLES
    cached,     \* cached[k]: whether k is cached, and as what
    age,        \* age[k]: time since LastCheckedAt, up to Interval
    idle,       \* idle[k]: time since lastHits, up to Lookback + 1, or None
    timer,      \* time left until the next sweep
    sweep,      \* the scheduler goroutine: the keys to look up, those due
    queue,      \* the keys of the refresh jobs
    worker,     \* worker[w]: its job, the time since its last and into this
    closing,    \* how far shutdownBackground is
    owed        \* keys found due and not attempted since (history)

vars == <<cached, age, idle, timer, sweep, queue, worker, closing, owed>>

Worker == [pc: {"waiting", "pacing", "refreshing", "stopped"},
           key: Keys \cup {None}, rest: 0..Pace, busy: 0..MaxRefresh]

TypeOK ==
    /\ cached \in [Keys -> {"none", "positive", "negative"}]
    /\ age \in [Keys -> 0..Interval]
    /\ idle \in [Keys -> 0..(Lookback + 1) \cup {None}]
    /\ timer \in 0..Interval
    /\ sweep \in [pc: {"waiting", "reading", "queueing", "stopped"},
                  unread: Seq(Keys), due: Seq(Keys)]
    /\ queue \in Seq(Keys) /\ Len(queue) <= QueueSize
    /\ worker \in [Workers -> Worker]
    /\ closing \in {"running", "scheduler", "workers", "closed"}
    /\ owed \subseteq Keys

Init ==
    /\ cached = [k \in Keys |-> "none"]
    /\ age = [k \in Keys |-> 0]
    /\ idle = [k \in Keys |-> None]
    /\ timer = Interval
    /\ sweep = [pc |-> "waiting", unread |-> <<>>, due |-> <<>>]
    /\ queue = <<>>
    /\ worker = [w \in Workers |-> [pc |-> "waiting", key |-> None,
                                    rest |-> Pace, busy |-> 0]]
    /\ closing = "running"
    /\ owed = {}

AtMost(n, limit) == IF n < limit THEN n ELSE limit

-----------------------------------------------------------------------------
(* What requests do to the cache and the tracker (VersionService). The     *)
(* clock of a fetch is read before upstream is asked: d ticks ago.         *)

\* Seeded fault: the last call wins, whatever its clock says.
FaultyRecorded(k, d) == AtMost(d, Lookback + 1)

\* RecordActivity keeps the latest use of a key.
Recorded(k, d) ==
    IF idle[k] # None /\ idle[k] <= d THEN idle[k] ELSE AtMost(d, Lookback + 1)

ServeHit(k) ==
    /\ cached[k] # "none"
    /\ idle' = [idle EXCEPT ![k] = Recorded(k, 0)]
    /\ UNCHANGED <<cached, age, timer, sweep, queue, worker, closing, owed>>

\* A fetch is recorded if its lookup found nothing or upstream answered 304.
Fetch(k, d) ==
    /\ \E kind \in {"positive", "negative"}, recorded \in BOOLEAN :
         /\ cached' = [cached EXCEPT ![k] = kind]
         /\ idle' = IF recorded THEN [idle EXCEPT ![k] = Recorded(k, d)]
                                ELSE idle
    /\ age' = [age EXCEPT ![k] = AtMost(d, Interval)]
    /\ owed' = owed \ {k}
    /\ UNCHANGED <<timer, sweep, queue, worker, closing>>

Evict(k) ==
    /\ cached' = [cached EXCEPT ![k] = "none"]
    /\ owed' = owed \ {k}
    /\ UNCHANGED <<age, idle, timer, sweep, queue, worker, closing>>

-----------------------------------------------------------------------------
(* The scheduler goroutine: runWithFixedDelay and Sweep.                   *)

\* The keys used within the lookback, the longest unused first.
ActiveKeysSince ==
    LET active == {k \in Keys : idle[k] # None /\ idle[k] <= Lookback}
    IN  {s \in SetToSeqs(active) :
            \A i, j \in DOMAIN s : i < j => idle[s[i]] >= idle[s[j]]}

\* What PruneActiveKeysBefore leaves.
Pruned ==
    [k \in Keys |-> IF idle[k] # None /\ idle[k] > Lookback THEN None
                                                            ELSE idle[k]]

\* Once the context is cancelled listing the keys fails: the sweep is over.
SweepStart ==
    /\ sweep.pc = "waiting" /\ timer = 0
    /\ idle' = Pruned
    /\ \/ /\ closing = "running"
          /\ \E keys \in ActiveKeysSince :
               sweep' = [sweep EXCEPT !.pc = "reading", !.unread = keys]
          /\ UNCHANGED timer
       \/ /\ closing # "running"
          /\ timer' = Interval
          /\ UNCHANGED sweep
    /\ UNCHANGED <<cached, age, queue, worker, closing, owed>>

IsRevalidationDue(k) == age[k] = Interval

SweepRead ==
    /\ sweep.pc = "reading" /\ sweep.unread # <<>>
    /\ LET k   == Head(sweep.unread)
           due == cached[k] # "none" /\ IsRevalidationDue(k)
       IN  /\ sweep' = [sweep EXCEPT !.unread = Tail(@),
                                     !.due = IF due THEN Append(@, k) ELSE @]
           /\ owed' = IF due THEN owed \cup {k} ELSE owed
    /\ UNCHANGED <<cached, age, idle, timer, queue, worker, closing>>

SweepListed ==
    /\ sweep.pc = "reading" /\ sweep.unread = <<>>
    /\ sweep' = [sweep EXCEPT !.pc = "queueing"]
    /\ UNCHANGED <<cached, age, idle, timer, queue, worker, closing, owed>>

\* Seeded fault: one place of the queue stays empty.
FaultyEnqueued(k) ==
    IF Len(queue) < QueueSize - 1 THEN Append(queue, k) ELSE queue

\* Seeded fault: the queue takes one job too many.
OverfullEnqueued(k) ==
    IF Len(queue) <= QueueSize THEN Append(queue, k) ELSE queue

\* Enqueue: a job that finds the queue full is dropped.
Enqueued(k) == IF Len(queue) < QueueSize THEN Append(queue, k) ELSE queue

SweepEnqueue ==
    /\ sweep.pc = "queueing" /\ sweep.due # <<>>
    /\ queue' = Enqueued(Head(sweep.due))
    /\ sweep' = [sweep EXCEPT !.due = Tail(@)]
    /\ UNCHANGED <<cached, age, idle, timer, worker, closing, owed>>

SweepEnd ==
    /\ sweep.pc = "queueing" /\ sweep.due = <<>>
    /\ sweep' = [sweep EXCEPT !.pc = "waiting"]
    /\ timer' = Interval
    /\ UNCHANGED <<cached, age, idle, queue, worker, closing, owed>>

-----------------------------------------------------------------------------
(* A worker goroutine: runWorker and RefreshByKey.                         *)

\* Seeded fault: a job that is taken stays in the queue.
FaultyDequeue(w) ==
    /\ worker[w].pc = "waiting" /\ queue # <<>>
    /\ worker' = [worker EXCEPT ![w].pc = "pacing", ![w].key = Head(queue)]
    /\ UNCHANGED <<cached, age, idle, timer, sweep, queue, closing, owed>>

Dequeue(w) ==
    /\ worker[w].pc = "waiting" /\ queue # <<>>
    /\ worker' = [worker EXCEPT ![w].pc = "pacing", ![w].key = Head(queue)]
    /\ queue' = Tail(queue)
    /\ UNCHANGED <<cached, age, idle, timer, sweep, closing, owed>>

Finished(w) ==
    worker' = [worker EXCEPT ![w] = [@ EXCEPT !.pc = "waiting", !.key = None,
                                              !.rest = 0, !.busy = 0]]

InProgress(k) ==
    \E u \in Workers : worker[u].pc = "refreshing" /\ worker[u].key = k

\* The wait for the interval is over, or there was none.
Paced(w) == worker[w].pc = "pacing" /\ worker[w].rest = Pace

RefreshStart(w) ==
    /\ Paced(w)
    /\ cached[worker[w].key] = "positive" /\ ~InProgress(worker[w].key)
    /\ worker' = [worker EXCEPT ![w].pc = "refreshing"]
    /\ UNCHANGED <<cached, age, idle, timer, sweep, queue, closing, owed>>

\* Another worker has the key, or there is no positive record to refresh.
RefreshSkip(w) ==
    /\ Paced(w)
    /\ cached[worker[w].key] # "positive" \/ InProgress(worker[w].key)
    /\ Finished(w)
    /\ owed' = IF InProgress(worker[w].key) THEN owed
                                            ELSE owed \ {worker[w].key}
    /\ UNCHANGED <<cached, age, idle, timer, sweep, queue, closing>>

\* A refresh that succeeds stores the key, evicted meanwhile or not.
RefreshDone(w) ==
    /\ worker[w].pc = "refreshing"
    /\ LET k == worker[w].key
       IN  /\ \/ /\ cached' = [cached EXCEPT ![k] = "positive"]
                 /\ age' = [age EXCEPT ![k] = AtMost(worker[w].busy, Interval)]
              \/ UNCHANGED <<cached, age>>
           /\ owed' = owed \ {k}
    /\ Finished(w)
    /\ UNCHANGED <<idle, timer, sweep, queue, closing>>

-----------------------------------------------------------------------------
(* Shutdown: shutdownBackground closes the scheduler, the workers and the  *)
(* queue, each when the one before has stopped.                            *)

Shutdown ==
    /\ closing = "running"
    /\ closing' = "scheduler"
    /\ UNCHANGED <<cached, age, idle, timer, sweep, queue, worker, owed>>

SchedulerStopped ==
    /\ closing = "scheduler" /\ sweep.pc = "waiting"
    /\ sweep' = [sweep EXCEPT !.pc = "stopped"]
    /\ closing' = "workers"
    /\ UNCHANGED <<cached, age, idle, timer, queue, worker, owed>>

\* Seeded fault: a worker waits for a job without its context.
FaultyWorkerStopped(w) ==
    /\ closing = "workers"
    /\ worker[w].pc = "pacing" /\ worker[w].rest < Pace
    /\ worker' = [worker EXCEPT ![w].pc = "stopped"]
    /\ UNCHANGED <<cached, age, idle, timer, sweep, queue, closing, owed>>

\* Dequeue and waitForInterval select among their channels at random: a
\* cancelled worker may take a job that is there, and may end its wait.
WorkerStopped(w) ==
    /\ closing = "workers"
    /\ \/ worker[w].pc = "waiting"
       \/ worker[w].pc = "pacing" /\ worker[w].rest < Pace
    /\ worker' = [worker EXCEPT ![w].pc = "stopped"]
    /\ UNCHANGED <<cached, age, idle, timer, sweep, queue, closing, owed>>

QueueClosed ==
    /\ closing = "workers"
    /\ \A w \in Workers : worker[w].pc = "stopped"
    /\ closing' = "closed"
    /\ UNCHANGED <<cached, age, idle, timer, sweep, queue, worker, owed>>

-----------------------------------------------------------------------------
\* A computing step of the scheduler or of a worker is ready, or a refresh
\* has taken its time.
Urgent ==
    \/ sweep.pc \in {"reading", "queueing"}
    \/ sweep.pc = "waiting" /\ timer = 0
    \/ \E w \in Workers : \/ worker[w].pc = "waiting" /\ queue # <<>>
                          \/ Paced(w)
                          \/ /\ worker[w].pc = "refreshing"
                             /\ worker[w].busy = MaxRefresh

Aged(w) == [worker[w] EXCEPT
                !.rest = AtMost(@ + 1, Pace),
                !.busy = IF worker[w].pc = "refreshing" THEN @ + 1 ELSE @]

Tick ==
    /\ ~Urgent /\ closing # "closed"
    /\ age' = [k \in Keys |-> AtMost(age[k] + 1, Interval)]
    /\ idle' = [k \in Keys |-> IF idle[k] = None THEN None
                               ELSE AtMost(idle[k] + 1, Lookback + 1)]
    /\ timer' = IF sweep.pc = "waiting" THEN timer - 1 ELSE timer
    /\ worker' = [w \in Workers |-> Aged(w)]
    /\ UNCHANGED <<cached, sweep, queue, closing, owed>>

Requests ==
    \E k \in Keys : \/ ServeHit(k) \/ Evict(k)
                    \/ \E d \in 0..MaxRefresh : Fetch(k, d)

Sweep == SweepStart \/ SweepRead \/ SweepListed \/ SweepEnqueue \/ SweepEnd

Work(w) == Dequeue(w) \/ RefreshStart(w) \/ RefreshSkip(w) \/ RefreshDone(w)

Close == SchedulerStopped \/ QueueClosed \/ \E w \in Workers : WorkerStopped(w)

Next ==
    \/ Tick \/ Requests \/ Sweep \/ Shutdown \/ Close
    \/ \E w \in Workers : Work(w)

Spec == Init /\ [][Next]_vars

\* The clock runs, goroutines are scheduled, and an upstream request ends by
\* the client's timeout. Requests and shutdown need not come.
FairSpec ==
    /\ Spec
    /\ WF_vars(Tick) /\ WF_vars(Sweep)
    /\ WF_vars(SchedulerStopped) /\ WF_vars(QueueClosed)
    /\ \A w \in Workers : WF_vars(Work(w)) /\ WF_vars(WorkerStopped(w))

-----------------------------------------------------------------------------
(* What revalidation promises.                                             *)

\* The workers have the time, and the queue the room, for all keys between
\* two sweeps. A job waits only while all workers are pacing or refreshing,
\* and then takes a worker at most one pace and one refresh.
HasCapacity ==
    /\ (Cardinality(Keys) + Cardinality(Workers) - 1) * (Pace + MaxRefresh)
          <= Cardinality(Workers) * Interval
    /\ Cardinality(Keys) <= QueueSize

\* With capacity a sweep finds every key the last one found due attempted
\* since: no job is lost between the scheduler's list, the bounded queue, the
\* pacing and the exclusion of a key in progress (revalidate_scheduler.go:
\* 155-192, refresh_worker.go:151-180).
KeepsUp ==
    HasCapacity =>
        (closing = "running" /\ sweep.pc = "waiting" /\ timer = 0 => owed = {})

\* With capacity a key has one job at most, queued or taken, although the
\* scheduler never looks at what is queued: refreshes are not repeated.
NoJobTwice ==
    HasCapacity =>
        /\ \A i, j \in DOMAIN queue : queue[i] = queue[j] => i = j
        /\ \A w, u \in Workers :
              worker[w].key # None =>
                  /\ worker[w].key \notin ToSet(queue)
                  /\ worker[w].key = worker[u].key => w = u

\* A key used within the lookback stays in the tracker, and no use that is
\* recorded late, with the clock of a slow fetch, makes it look idle longer
\* than it is (activity_tracker.go:22-37, 84-96).
StaysActive ==
    [][\A k \in Keys : idle[k] # None =>
         \/ idle[k] > Lookback
         \/ idle'[k] # None /\ idle'[k] <= idle[k]
         \/ Tick]_vars

\* Closing in order, scheduler, workers, queue, ends (main.go:355-362): no
\* worker is kept busy by a scheduler that still queues jobs.
ShutdownCompletes == closing = "scheduler" ~> closing = "closed"
=============================================================================
