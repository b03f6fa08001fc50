------------------------- MODULE RevalidationProofs -------------------------
(***************************************************************************)
(* Type correctness of Revalidation, with the bound of its queue, what the *)
(* tracker keeps, and that workers with enough time keep up without ever   *)
(* doing a job twice, for any keys, workers, intervals and queue size.     *)
(***************************************************************************)
EXTENDS Revalidation, Counting, SequenceTheorems, TLAPS

\* A worker is off its job only while it waits for one, or after it stopped.
JobInv == \A w \in Workers : worker[w].pc \in {"pacing", "refreshing"} => worker[w].key \in Keys

Inv == TypeOK /\ JobInv

LEMMA Constants ==
    /\ Interval \in Nat \ {0} /\ Lookback \in Nat \ {0} /\ Pace \in Nat \ {0}
    /\ QueueSize \in Nat \ {0} /\ MaxRefresh \in Nat /\ None \notin Keys /\ None \notin Nat
BY RevalidationAssumption

LEMMA AtMostType ==
    ASSUME NEW n \in Nat, NEW limit \in Nat
    PROVE  AtMost(n, limit) \in 0..limit /\ AtMost(n, limit) <= n
BY DEF AtMost

LEMMA InvInit == Init => Inv
<1> SUFFICES ASSUME Init PROVE Inv
  OBVIOUS
<1>1. queue \in Seq(Keys) /\ Len(queue) = 0
  BY DEF Init
<1>2. sweep \in [pc: {"waiting", "reading", "queueing", "stopped"},
                 unread: Seq(Keys), due: Seq(Keys)]
  BY DEF Init
<1>3. worker \in [Workers -> Worker] /\ JobInv
  BY Constants DEF Init, Worker, JobInv
<1> QED
  BY <1>1, <1>2, <1>3, Constants DEF Init, Inv, TypeOK

-----------------------------------------------------------------------------
(* Requests.                                                               *)

LEMMA RecordedType ==
    ASSUME Inv, NEW k \in Keys, NEW d \in Nat
    PROVE  Recorded(k, d) \in 0..(Lookback + 1)
<1>1. Lookback + 1 \in Nat
  BY Constants
<1>2. AtMost(d, Lookback + 1) \in 0..(Lookback + 1)
  BY <1>1, AtMostType
<1> QED
  BY <1>1, <1>2, Constants DEF Recorded, Inv, TypeOK

LEMMA RequestsStep == Inv /\ Requests => Inv'
<1> SUFFICES ASSUME Inv, Requests PROVE Inv'
  OBVIOUS
<1> USE Constants DEF Inv, TypeOK, JobInv
<1>1. ASSUME NEW k \in Keys, ServeHit(k) PROVE Inv'
  <2>1. Recorded(k, 0) \in 0..(Lookback + 1)
    BY RecordedType
  <2> QED
    BY <1>1, <2>1 DEF ServeHit
<1>2. ASSUME NEW k \in Keys, Evict(k) PROVE Inv'
  BY <1>2 DEF Evict
<1>3. ASSUME NEW k \in Keys, NEW d \in 0..MaxRefresh, Fetch(k, d) PROVE Inv'
  <2>1. d \in Nat /\ Recorded(k, d) \in 0..(Lookback + 1)
    BY RecordedType
  <2>2. AtMost(d, Interval) \in 0..Interval
    BY <2>1, AtMostType
  <2>3. cached' \in [Keys -> {"none", "positive", "negative"}]
    BY <1>3 DEF Fetch
  <2>4. idle' \in [Keys -> 0..(Lookback + 1) \cup {None}]
    BY <1>3, <2>1 DEF Fetch
  <2>5. age' \in [Keys -> 0..Interval]
    BY <1>3, <2>2 DEF Fetch
  <2> QED
    BY <1>3, <2>3, <2>4, <2>5 DEF Fetch
<1> QED
  BY <1>1, <1>2, <1>3 DEF Requests

-----------------------------------------------------------------------------
(* The scheduler.                                                          *)

\* The list of the active keys is a sequence of keys.
LEMMA ActiveKeysType == ActiveKeysSince \subseteq Seq(Keys)
<1> DEFINE active == {k \in Keys : idle[k] # None /\ idle[k] <= Lookback}
<1>1. Cardinality(active) \in Nat
  BY FS_Subset, FS_CardinalityType, RevalidationAssumption
<1>2. SetToSeqs(active) \subseteq [1..Cardinality(active) -> Keys]
  BY DEF SetToSeqs
<1>3. \A s \in [1..Cardinality(active) -> Keys] : s \in Seq(Keys)
  BY <1>1, SeqDef
<1> QED
  BY <1>2, <1>3 DEF ActiveKeysSince

LEMMA SweepStep == Inv /\ Sweep => Inv'
<1> SUFFICES ASSUME Inv, Sweep PROVE Inv'
  OBVIOUS
<1> USE Constants DEF Inv, TypeOK, JobInv
<1>1. CASE SweepStart
  <2>1. idle' \in [Keys -> 0..(Lookback + 1) \cup {None}]
    BY <1>1 DEF SweepStart, Pruned
  <2>2. ActiveKeysSince \subseteq Seq(Keys)
    BY ActiveKeysType
  <2>3. \A keys \in Seq(Keys) :
           [sweep EXCEPT !.pc = "reading", !.unread = keys]
             \in [pc: {"waiting", "reading", "queueing", "stopped"},
                  unread: Seq(Keys), due: Seq(Keys)]
    OBVIOUS
  <2>4. sweep' \in [pc: {"waiting", "reading", "queueing", "stopped"},
                    unread: Seq(Keys), due: Seq(Keys)]
    <3>1. CASE UNCHANGED sweep
      BY <3>1
    <3>2. CASE \E keys \in ActiveKeysSince :
                  sweep' = [sweep EXCEPT !.pc = "reading", !.unread = keys]
      BY <2>2, <2>3, <3>2
    <3> QED
      BY <1>1, <3>1, <3>2 DEF SweepStart
  <2>5. timer' \in 0..Interval
    <3>1. timer' = timer \/ timer' = Interval
      BY <1>1 DEF SweepStart
    <3> QED
      BY <3>1
  <2> QED
    BY <1>1, <2>1, <2>4, <2>5 DEF SweepStart
<1>2. CASE SweepRead
  <2> DEFINE k == Head(sweep.unread)
  <2>1. k \in Keys /\ Tail(sweep.unread) \in Seq(Keys) /\ Append(sweep.due, k) \in Seq(Keys)
    BY <1>2 DEF SweepRead
  <2>2. owed' \subseteq Keys
    BY <1>2, <2>1 DEF SweepRead
  <2>3. sweep' \in [pc: {"waiting", "reading", "queueing", "stopped"},
                    unread: Seq(Keys), due: Seq(Keys)]
    BY <1>2, <2>1 DEF SweepRead
  <2> QED
    BY <1>2, <2>2, <2>3 DEF SweepRead
<1>3. CASE SweepListed
  BY <1>3 DEF SweepListed
<1>4. CASE SweepEnqueue
  <2>1. Head(sweep.due) \in Keys /\ Tail(sweep.due) \in Seq(Keys)
    BY <1>4 DEF SweepEnqueue
  <2>2. queue' \in Seq(Keys) /\ Len(queue') <= QueueSize
    BY <1>4, <2>1 DEF SweepEnqueue, Enqueued
  <2>3. sweep' \in [pc: {"waiting", "reading", "queueing", "stopped"},
                    unread: Seq(Keys), due: Seq(Keys)]
    BY <1>4, <2>1 DEF SweepEnqueue
  <2> QED
    BY <1>4, <2>2, <2>3 DEF SweepEnqueue
<1>5. CASE SweepEnd
  <2>1. sweep' \in [pc: {"waiting", "reading", "queueing", "stopped"},
                    unread: Seq(Keys), due: Seq(Keys)]
    BY <1>5 DEF SweepEnd
  <2>2. timer' \in 0..Interval
    BY <1>5 DEF SweepEnd
  <2> QED
    BY <1>5, <2>1, <2>2 DEF SweepEnd
<1> QED
  BY <1>1, <1>2, <1>3, <1>4, <1>5 DEF Sweep

-----------------------------------------------------------------------------
(* The workers.                                                            *)

\* A step of w that leaves it a worker keeps the workers.
LEMMA WorkerStep ==
    ASSUME Inv, NEW w \in Workers, NEW x \in Worker, worker' = [worker EXCEPT ![w] = x],
           x.pc \in {"pacing", "refreshing"} => x.key \in Keys
    PROVE  worker' \in [Workers -> Worker] /\ JobInv'
BY DEF Inv, TypeOK, JobInv

LEMMA FinishedStep ==
    ASSUME Inv, NEW w \in Workers, Finished(w)
    PROVE  worker' \in [Workers -> Worker] /\ JobInv'
<1> DEFINE x == [worker[w] EXCEPT !.pc = "waiting", !.key = None, !.rest = 0, !.busy = 0]
<1>1. worker[w] \in Worker /\ 0 \in 0..Pace /\ 0 \in 0..MaxRefresh
  BY Constants DEF Inv, TypeOK
<1>2. x \in Worker /\ x.pc = "waiting"
  BY <1>1 DEF Worker
<1> QED
  BY <1>2, WorkerStep DEF Finished

LEMMA WorkStep ==
    ASSUME Inv, NEW w \in Workers, Work(w)
    PROVE  Inv'
<1>1. worker[w] \in Worker
  BY DEF Inv, TypeOK
<1>2. CASE Dequeue(w)
  <2> DEFINE x == [worker[w] EXCEPT !.pc = "pacing", !.key = Head(queue)]
  <2>1. Head(queue) \in Keys /\ queue' \in Seq(Keys) /\ Len(queue') <= QueueSize
    BY <1>2, Constants DEF Dequeue, Inv, TypeOK
  <2>2. x \in Worker /\ x.key \in Keys
    BY <1>1, <2>1 DEF Worker
  <2>3. worker' = [worker EXCEPT ![w] = x]
    BY <1>2 DEF Dequeue
  <2>4. worker' \in [Workers -> Worker] /\ JobInv'
    BY <2>2, <2>3, WorkerStep
  <2> QED
    BY <1>2, <2>1, <2>4 DEF Dequeue, Inv, TypeOK
<1>3. CASE RefreshStart(w)
  <2> DEFINE x == [worker[w] EXCEPT !.pc = "refreshing"]
  <2>1. worker[w].key \in Keys
    BY <1>3 DEF RefreshStart, Paced, Inv, JobInv
  <2>2. x \in Worker /\ x.key \in Keys
    BY <1>1, <2>1 DEF Worker
  <2>3. worker' = [worker EXCEPT ![w] = x]
    BY <1>3 DEF RefreshStart
  <2>4. worker' \in [Workers -> Worker] /\ JobInv'
    BY <2>2, <2>3, WorkerStep
  <2> QED
    BY <1>3, <2>4 DEF RefreshStart, Inv, TypeOK
<1>4. CASE RefreshSkip(w)
  <2>1. worker' \in [Workers -> Worker] /\ JobInv'
    BY <1>4, FinishedStep DEF RefreshSkip
  <2> QED
    BY <1>4, <2>1 DEF RefreshSkip, Inv, TypeOK
<1>5. CASE RefreshDone(w)
  <2>1. worker' \in [Workers -> Worker] /\ JobInv'
    BY <1>5, FinishedStep DEF RefreshDone
  <2>2. worker[w].busy \in Nat
    BY <1>1, Constants DEF Worker
  <2>3. AtMost(worker[w].busy, Interval) \in 0..Interval
    BY <2>2, AtMostType, Constants
  <2>4. cached' \in [Keys -> {"none", "positive", "negative"}]
        /\ age' \in [Keys -> 0..Interval]
    <3>1. \/ UNCHANGED <<cached, age>>
          \/ /\ cached' = [cached EXCEPT ![worker[w].key] = "positive"]
             /\ age' = [age EXCEPT ![worker[w].key] = AtMost(worker[w].busy, Interval)]
      BY <1>5 DEF RefreshDone
    <3>2. /\ cached \in [Keys -> {"none", "positive", "negative"}]
          /\ age \in [Keys -> 0..Interval]
      BY DEF Inv, TypeOK
    <3> QED
      BY <2>3, <3>1, <3>2
  <2> QED
    BY <1>5, <2>1, <2>4 DEF RefreshDone, Inv, TypeOK
<1> QED
  BY <1>2, <1>3, <1>4, <1>5 DEF Work

-----------------------------------------------------------------------------
(* Shutdown and time.                                                      *)

LEMMA CloseStep == Inv /\ (Shutdown \/ Close) => Inv'
<1> SUFFICES ASSUME Inv, Shutdown \/ Close PROVE Inv'
  OBVIOUS
<1>1. CASE Shutdown
  BY <1>1 DEF Shutdown, Inv, TypeOK, JobInv
<1>2. CASE SchedulerStopped
  BY <1>2 DEF SchedulerStopped, Inv, TypeOK, JobInv
<1>3. CASE QueueClosed
  BY <1>3 DEF QueueClosed, Inv, TypeOK, JobInv
<1>4. ASSUME NEW w \in Workers, WorkerStopped(w) PROVE Inv'
  <2> DEFINE x == [worker[w] EXCEPT !.pc = "stopped"]
  <2>1. x \in Worker /\ x.pc = "stopped"
    BY DEF Inv, TypeOK, Worker
  <2>2. worker' = [worker EXCEPT ![w] = x]
    BY <1>4 DEF WorkerStopped
  <2>3. worker' \in [Workers -> Worker] /\ JobInv'
    BY <2>1, <2>2, WorkerStep
  <2> QED
    BY <1>4, <2>3 DEF WorkerStopped, Inv, TypeOK
<1> QED
  BY <1>1, <1>2, <1>3, <1>4 DEF Close

LEMMA TickStep == Inv /\ Tick => Inv'
<1> SUFFICES ASSUME Inv, Tick PROVE Inv'
  OBVIOUS
<1>1. age' \in [Keys -> 0..Interval]
  BY Constants DEF Tick, AtMost, Inv, TypeOK
<1>2. idle' \in [Keys -> 0..(Lookback + 1) \cup {None}]
  BY Constants DEF Tick, AtMost, Inv, TypeOK
<1>3. timer' \in 0..Interval
  BY Constants DEF Tick, Urgent, Inv, TypeOK
<1>4. ASSUME NEW w \in Workers
      PROVE  /\ Aged(w) \in Worker
             /\ Aged(w).pc = worker[w].pc /\ Aged(w).key = worker[w].key
  <2>1. worker[w] \in Worker
    BY DEF Inv, TypeOK
  <2>2. AtMost(worker[w].rest + 1, Pace) \in 0..Pace
    <3>1. worker[w].rest \in 0..Pace
      BY <2>1 DEF Worker
    <3>2. worker[w].rest + 1 \in Nat
      BY <3>1, Constants
    <3> QED
      BY <3>2, Constants, AtMostType
  <2>3. (IF worker[w].pc = "refreshing" THEN worker[w].busy + 1 ELSE worker[w].busy)
           \in 0..MaxRefresh
    BY <2>1, Constants DEF Worker, Tick, Urgent
  <2> QED
    BY <2>1, <2>2, <2>3 DEF Aged, Worker
<1>5. worker' \in [Workers -> Worker] /\ JobInv'
  BY <1>4 DEF Tick, Inv, JobInv
<1> QED
  BY <1>1, <1>2, <1>3, <1>5 DEF Tick, Inv, TypeOK

LEMMA InvStep == Inv /\ [Next]_vars => Inv'
<1>1. Inv /\ UNCHANGED vars => Inv'
  BY DEF vars, Inv, TypeOK, JobInv
<1> QED
  BY <1>1, RequestsStep, SweepStep, WorkStep, CloseStep, TickStep DEF Next

LEMMA Invariant == Spec => []Inv
BY InvInit, InvStep, PTL DEF Spec

\* The state of the scheduler, its queue and its workers is well-formed; the queue
\* never holds more than its size (refresh_queue.go:34-51).
THEOREM RevalidationTypeCorrect == Spec => []TypeOK
<1>1. Inv => TypeOK
  BY DEF Inv
<1> QED
  BY <1>1, Invariant, PTL

-----------------------------------------------------------------------------

\* A use of a key within the lookback is not forgotten, nor made older, by any
\* step but the passing of time (activity_tracker.go:22-37, 84-96).
THEOREM UsesAreKept == Spec => StaysActive
<1> DEFINE Kept(k) == idle[k] # None =>
               \/ idle[k] > Lookback
               \/ idle'[k] # None /\ idle'[k] <= idle[k]
               \/ Tick
<1>1. ASSUME Inv, Next, NEW k \in Keys PROVE Kept(k)
  <2> SUFFICES ASSUME idle[k] # None, idle[k] <= Lookback, ~Tick
               PROVE  idle'[k] # None /\ idle'[k] <= idle[k]
    BY <1>1, Constants DEF Inv, TypeOK
  <2>1. idle[k] \in Nat /\ idle \in [Keys -> 0..(Lookback + 1) \cup {None}]
    BY <1>1, Constants DEF Inv, TypeOK
  <2>2. ASSUME NEW d \in Nat PROVE Recorded(k, d) \in Nat /\ Recorded(k, d) <= idle[k]
    <3>1. Lookback + 1 \in Nat
      BY Constants
    <3>2. AtMost(d, Lookback + 1) \in Nat /\ AtMost(d, Lookback + 1) <= d
      BY <3>1 DEF AtMost
    <3> QED
      BY <2>1, <3>2, Constants DEF Recorded
  <2>3. ASSUME NEW j \in Keys, NEW d \in Nat, idle' = [idle EXCEPT ![j] = Recorded(j, d)]
        PROVE  idle'[k] # None /\ idle'[k] <= idle[k]
    BY <2>1, <2>2, <2>3, Constants
  <2>4. CASE Requests
    <3>1. CASE UNCHANGED idle
      BY <2>1, <3>1
    <3>2. CASE \E j \in Keys : \E d \in Nat : idle' = [idle EXCEPT ![j] = Recorded(j, d)]
      BY <2>3, <3>2
    <3> QED
      BY <2>4, <3>1, <3>2, Constants DEF Requests, ServeHit, Evict, Fetch
  <2>5. CASE SweepStart
    <3>1. idle' = Pruned
      BY <2>5 DEF SweepStart
    <3>2. Pruned[k] = idle[k]
      BY <2>1, Constants DEF Pruned
    <3> QED
      BY <2>1, <3>1, <3>2, Constants
  <2>6. CASE UNCHANGED idle
    BY <2>1, <2>6
  <2> QED
    BY <1>1, <2>4, <2>5, <2>6
    DEF Next, Sweep, SweepRead, SweepListed, SweepEnqueue, SweepEnd, Shutdown, Close,
        SchedulerStopped, QueueClosed, WorkerStopped, Work, Dequeue, RefreshStart,
        RefreshSkip, RefreshDone
<1>2. Inv /\ [Next]_vars => [\A k \in Keys : Kept(k)]_vars
  BY <1>1
<1> QED
  BY <1>2, Invariant, PTL DEF Spec, StaysActive

-----------------------------------------------------------------------------
(* Capacity. Between two sweeps the workers get through all that is        *)
(* pending, so that the next one finds them all waiting.                   *)

\* The scheduler still runs, and so do the workers.
Open == closing \in {"running", "scheduler"}

\* Who is stopped when, and what the scheduler and the workers hold when they
\* wait: no worker stops before the scheduler has.
PhaseInv ==
    /\ IF Open THEN sweep.pc # "stopped" /\ \A w \in Workers : worker[w].pc # "stopped"
               ELSE sweep.pc = "stopped"
    /\ sweep.pc # "reading" => sweep.unread = <<>>
    /\ sweep.pc \in {"waiting", "stopped"} => sweep.due = <<>>
    /\ \A w \in Workers : worker[w].pc = "waiting" => worker[w].key = None

\* One job takes a worker at most a pace and a refresh.
Cost == Pace + MaxRefresh

\* The time w needs until it waits for a job, and has waited a tick.
Need(w) ==
    CASE worker[w].pc = "pacing"     -> Pace - worker[w].rest + MaxRefresh + 1
      [] worker[w].pc = "refreshing" -> MaxRefresh - worker[w].busy + 1
      [] worker[w].pc = "waiting" /\ worker[w].rest = 0 -> 1
      [] OTHER -> 0

\* The time all workers need together.
Load == Total(Workers, [w \in Workers |-> Need(w)])

\* The keys of a sweep that no worker has taken, and the time to the next one.
Pending == Len(queue) + Len(sweep.due) + Len(sweep.unread)
Remaining == IF sweep.pc \in {"reading", "queueing"} THEN Interval ELSE timer

W == Cardinality(Workers)

\* The time that n pending jobs take all workers together at most: the last
\* waits until none of them has another job.
Demand(n) == (n + W - 1) * Cost

\* Each worker is done in time, and all of them with what is pending.
PaceInv ==
    Open => /\ Pending <= Cardinality(Keys)
            /\ \A w \in Workers : Need(w) <= Remaining
            /\ Pending > 0 => Load + Demand(Pending) <= W * Remaining

Distinct(s) == \A i, j \in 1..Len(s) : s[i] = s[j] => i = j
Apart(s, t) == \A i \in 1..Len(s), j \in 1..Len(t) : s[i] # t[j]
Without(s, k) == \A i \in 1..Len(s) : s[i] # k

\* A key has one job at most, from the list of the sweep to the worker.
JobsApart ==
    /\ Distinct(queue) /\ Distinct(sweep.due) /\ Distinct(sweep.unread)
    /\ Apart(queue, sweep.due) /\ Apart(queue, sweep.unread)
    /\ Apart(sweep.due, sweep.unread)
    /\ \A w \in Workers : worker[w].key # None =>
          /\ Without(queue, worker[w].key)
          /\ Without(sweep.due, worker[w].key)
          /\ Without(sweep.unread, worker[w].key)
          /\ \A u \in Workers : worker[u].key = worker[w].key => u = w

\* A key that is owed an attempt has a job.
OnItsWay(k) == \/ ~Without(queue, k) \/ ~Without(sweep.due, k)
               \/ \E w \in Workers : worker[w].key = k

OwedInv ==
    Open => \A k \in owed : OnItsWay(k)

LEMMA PhaseInit == Init => PhaseInv
BY DEF Init, PhaseInv, Open

\* A step of w leaves the other workers alone.
LEMMA OthersSame ==
    ASSUME Inv, NEW w \in Workers, NEW x, worker' = [worker EXCEPT ![w] = x]
    PROVE  worker'[w] = x /\ \A u \in Workers : u # w => worker'[u] = worker[u]
BY DEF Inv, TypeOK

\* How each step of a worker leaves it and the queue.
Alone(w) ==
    /\ \A u \in Workers : u # w => worker'[u] = worker[u]
    /\ UNCHANGED <<timer, sweep, closing>>

Takes(w) ==
    /\ worker[w].pc = "waiting" /\ queue # <<>> /\ queue' = Tail(queue)
    /\ worker'[w] = [worker[w] EXCEPT !.pc = "pacing", !.key = Head(queue)]
    /\ owed' = owed

Starts(w) ==
    /\ Paced(w) /\ queue' = queue /\ owed' = owed
    /\ worker'[w] = [worker[w] EXCEPT !.pc = "refreshing"]

Ends(w) ==
    /\ Paced(w) \/ worker[w].pc = "refreshing"
    /\ queue' = queue
    /\ worker'[w] = [worker[w] EXCEPT !.pc = "waiting", !.key = None,
                                      !.rest = 0, !.busy = 0]
    /\ \/ owed' = owed \ {worker[w].key}
       \/ owed' = owed /\ Paced(w) /\ InProgress(worker[w].key)

LEMMA WorkEffect ==
    ASSUME Inv, NEW w \in Workers, Work(w)
    PROVE  Alone(w) /\ (Takes(w) \/ Starts(w) \/ Ends(w))
<1>1. ASSUME NEW x, worker' = [worker EXCEPT ![w] = x], UNCHANGED <<timer, sweep, closing>>
      PROVE  Alone(w) /\ worker'[w] = x
  BY <1>1, OthersSame DEF Alone
<1>2. CASE Dequeue(w)
  <2> DEFINE x == [worker[w] EXCEPT !.pc = "pacing", !.key = Head(queue)]
  <2>1. worker' = [worker EXCEPT ![w] = x] /\ UNCHANGED <<timer, sweep, closing>>
    BY <1>2 DEF Dequeue, Inv, TypeOK
  <2>2. Alone(w) /\ worker'[w] = x
    BY <1>1, <2>1
  <2> QED
    BY <1>2, <2>2 DEF Dequeue, Takes
<1>3. CASE RefreshStart(w)
  BY <1>1, <1>3 DEF RefreshStart, Starts
<1>4. CASE RefreshSkip(w)
  BY <1>1, <1>4 DEF RefreshSkip, Finished, Ends
<1>5. CASE RefreshDone(w)
  BY <1>1, <1>5 DEF RefreshDone, Finished, Ends
<1> QED
  BY <1>2, <1>3, <1>4, <1>5 DEF Work

LEMMA PhaseWork ==
    ASSUME Inv, PhaseInv, NEW w \in Workers, Work(w)
    PROVE  PhaseInv'
<1>1. worker[w] \in Worker
  BY DEF Inv, TypeOK
<1>2. worker'[w].pc # "stopped" /\ (worker'[w].pc = "waiting" => worker'[w].key = None)
  <2>1. CASE Takes(w)
    BY <1>1, <2>1 DEF Takes, Worker
  <2>2. CASE Starts(w)
    BY <1>1, <2>2 DEF Starts, Worker
  <2>3. CASE Ends(w)
    BY <1>1, <2>3 DEF Ends, Worker
  <2> QED
    BY <2>1, <2>2, <2>3, WorkEffect
<1>3. UNCHANGED <<sweep, closing>> /\ (Open' <=> Open)
  BY WorkEffect DEF Alone, Open
<1>4. ASSUME NEW u \in Workers
      PROVE  /\ worker'[u].pc = "stopped" => worker[u].pc = "stopped"
             /\ worker[u].pc = "waiting" => worker[u].key = None
             /\ worker'[u].pc = "waiting" => worker'[u].key = None
  BY <1>2, WorkEffect DEF Alone, PhaseInv
<1> QED
  BY <1>3, <1>4 DEF PhaseInv

LEMMA PhaseStep == Inv /\ PhaseInv /\ [Next]_vars => PhaseInv'
<1> SUFFICES ASSUME Inv, PhaseInv, [Next]_vars PROVE PhaseInv'
  OBVIOUS
<1>1. sweep \in [pc: {"waiting", "reading", "queueing", "stopped"},
                 unread: Seq(Keys), due: Seq(Keys)]
  BY DEF Inv, TypeOK
<1>2. CASE Requests \/ UNCHANGED vars
  <2>1. UNCHANGED <<sweep, worker, closing>>
    BY <1>2 DEF Requests, ServeHit, Evict, Fetch, vars
  <2> QED
    BY <2>1 DEF PhaseInv, Open
<1>3. CASE Sweep
  <2>1. UNCHANGED <<worker, closing>> /\ sweep.pc # "stopped"
    BY <1>3 DEF Sweep, SweepStart, SweepRead, SweepListed, SweepEnqueue, SweepEnd
  <2>2. \/ sweep' = sweep
        \/ sweep'.pc = "reading"
        \/ sweep'.pc = "queueing" /\ sweep'.unread = sweep.unread /\ sweep.unread = <<>>
        \/ sweep'.pc = "waiting" /\ sweep'.unread = sweep.unread /\ sweep'.due = <<>>
           /\ sweep.pc = "queueing"
    <3>1. CASE SweepStart
      BY <1>1, <3>1 DEF SweepStart
    <3>2. CASE SweepRead
      BY <1>1, <3>2 DEF SweepRead
    <3>3. CASE SweepListed
      BY <1>1, <3>3 DEF SweepListed
    <3>4. CASE SweepEnqueue
      BY <1>1, <3>4 DEF SweepEnqueue, PhaseInv
    <3>5. CASE SweepEnd
      BY <1>1, <3>5 DEF SweepEnd
    <3> QED
      BY <1>3, <3>1, <3>2, <3>3, <3>4, <3>5 DEF Sweep
  <2> QED
    BY <2>1, <2>2 DEF PhaseInv, Open
<1>4. ASSUME NEW w \in Workers, Work(w) PROVE PhaseInv'
  BY <1>4, PhaseWork
<1>5. CASE Shutdown \/ QueueClosed
  BY <1>5 DEF Shutdown, QueueClosed, PhaseInv, Open
<1>6. CASE SchedulerStopped
  BY <1>1, <1>6 DEF SchedulerStopped, PhaseInv, Open
<1>7. ASSUME NEW w \in Workers, WorkerStopped(w) PROVE PhaseInv'
  <2>1. worker[w] \in Worker /\ worker' = [worker EXCEPT ![w].pc = "stopped"]
    BY <1>7 DEF WorkerStopped, Inv, TypeOK
  <2>2. worker'[w].pc = "stopped" /\ \A u \in Workers : u # w => worker'[u] = worker[u]
    BY <2>1 DEF Inv, TypeOK, Worker
  <2> QED
    BY <1>7, <2>2 DEF WorkerStopped, PhaseInv, Open
<1>8. CASE Tick
  <2>1. \A w \in Workers : worker'[w].pc = worker[w].pc /\ worker'[w].key = worker[w].key
    BY <1>8 DEF Tick, Aged, Inv, TypeOK, Worker
  <2> QED
    BY <1>8, <2>1 DEF Tick, PhaseInv, Open
<1> QED
  BY <1>2, <1>3, <1>4, <1>5, <1>6, <1>7, <1>8 DEF Next, Close

-----------------------------------------------------------------------------

LEMMA CapacityConstants ==
    /\ IsFiniteSet(Workers) /\ IsFiniteSet(Keys)
    /\ W \in Nat \ {0} /\ Cardinality(Keys) \in Nat
    /\ Cost \in Nat \ {0} /\ Interval \in Nat \ {0}
    /\ W * Cost \in Nat
<1>1. IsFiniteSet(Workers) /\ IsFiniteSet(Keys) /\ Workers # {}
  BY RevalidationAssumption
<1>2. W \in Nat \ {0} /\ Cardinality(Keys) \in Nat
  BY <1>1, FS_CardinalityType, FS_EmptySet DEF W
<1>3. Cost \in Nat \ {0}
  BY Constants DEF Cost
<1> QED
  BY <1>1, <1>2, <1>3, Constants

LEMMA Factor ==
    ASSUME NEW n \in Nat \ {0}, NEW a \in Nat, NEW b \in Nat
    PROVE  /\ n * a \in Nat
           /\ n * a <= n * b => a <= b
           /\ a <= b => n * a <= n * b
           /\ n * a < n * b => a < b
           /\ n * (a + 1) = n * a + n
<1>1. CASE a <= b
  <2>1. PICK d \in Nat : b = a + d
    <3>1. b - a \in Nat /\ b = a + (b - a)
      BY <1>1
    <3> QED
      BY <3>1
  <2>2. n * b = n * a + n * d /\ n * d \in Nat /\ n * a \in Nat
    BY <2>1
  <2>3. CASE d = 0
    BY <2>1, <2>2, <2>3
  <2>4. CASE d # 0
    BY <2>1, <2>2, <2>4
  <2> QED
    BY <2>3, <2>4
<1>2. CASE a > b
  <2>1. PICK d \in Nat \ {0} : a = b + d
    <3>1. a - b \in Nat \ {0} /\ a = b + (a - b)
      BY <1>2
    <3> QED
      BY <3>1
  <2>2. n * a = n * b + n * d /\ n * d \in Nat \ {0} /\ n * b \in Nat
    BY <2>1
  <2> QED
    BY <1>2, <2>2
<1> QED
  BY <1>1, <1>2

LEMMA DemandSteps ==
    ASSUME NEW n \in Nat
    PROVE  /\ n > 0 => Demand(n) \in Nat
           /\ n > 0 => Demand(n + 1) = Demand(n) + Cost
           /\ n > 0 => Demand(n) >= W * Cost
           /\ n > 1 => Demand(n - 1) = Demand(n) - Cost
           /\ \A m \in Nat : 0 < m /\ m <= n => Demand(m) <= Demand(n)
<1> USE CapacityConstants
<1>1. ASSUME NEW k \in Nat \ {0}
      PROVE  /\ Demand(k) \in Nat /\ Demand(k) = W * Cost + (k - 1) * Cost
             /\ (k - 1) * Cost \in Nat
  BY DEF Demand
<1>2. ASSUME NEW k \in Nat \ {0} PROVE Demand(k + 1) = Demand(k) + Cost
  <2>1. (k + 1 - 1) * Cost = (k - 1) * Cost + Cost
    OBVIOUS
  <2> QED
    BY <1>1, <2>1
<1>3. ASSUME NEW m \in Nat, 0 < m, m <= n PROVE Demand(m) <= Demand(n)
  <2>1. (m - 1) * Cost <= (n - 1) * Cost
    <3>1. Cost * (m - 1) <= Cost * (n - 1)
      BY <1>3, Factor
    <3> QED
      BY <1>3, <3>1
  <2> DEFINE a == (m - 1) * Cost
             b == (n - 1) * Cost
             base == W * Cost
  <2>2. /\ Demand(m) = base + a /\ Demand(n) = base + b
        /\ a \in Nat /\ b \in Nat /\ base \in Nat /\ a <= b
    <3>1. m \in Nat \ {0} /\ n \in Nat \ {0}
      BY <1>3
    <3> QED
      BY <1>1, <2>1, <3>1
  <2> HIDE DEF a, b, base
  <2> QED
    BY <2>2
<1>4. ASSUME n > 1 PROVE Demand(n - 1) = Demand(n) - Cost
  <2>1. n - 1 \in Nat \ {0} /\ (n - 1) + 1 = n
    BY <1>4
  <2> QED
    BY <1>1, <1>2, <2>1
<1>5. ASSUME n > 0 PROVE Demand(n) >= W * Cost
  <2>1. Demand(n) = W * Cost + (n - 1) * Cost /\ (n - 1) * Cost \in Nat
    BY <1>1, <1>5
  <2> DEFINE a == (n - 1) * Cost
             base == W * Cost
  <2>2. Demand(n) = base + a /\ a \in Nat /\ base \in Nat
    BY <2>1
  <2> HIDE DEF a, base
  <2>3. Demand(n) >= base
    BY <2>2
  <2> QED
    BY <2>3 DEF base
<1>6. n > 0 => Demand(n) \in Nat /\ Demand(n + 1) = Demand(n) + Cost
  BY <1>1, <1>2
<1> QED
  BY <1>3, <1>4, <1>5, <1>6

LEMMA NeedType ==
    ASSUME Inv, NEW w \in Workers
    PROVE  Need(w) \in 0..(Cost + 1)
<1>1. worker[w] \in Worker
  BY DEF Inv, TypeOK
<1> QED
  BY <1>1, Constants DEF Worker, Need, Cost

LEMMA LoadType ==
    ASSUME Inv
    PROVE  /\ [w \in Workers |-> Need(w)] \in [Workers -> Nat]
           /\ Load \in Nat /\ \A w \in Workers : Need(w) <= Load
<1>1. [w \in Workers |-> Need(w)] \in [Workers -> Nat]
  BY NeedType, CapacityConstants
<1>2. Load \in Nat
  BY <1>1, UnitsFinite, CapacityConstants DEF Load
<1>3. ASSUME NEW w \in Workers PROVE Need(w) <= Load
  <2> DEFINE f == [v \in Workers |-> Need(v)]
  <2>1. f \in [Workers -> Nat] /\ f[w] = Need(w)
    BY <1>1
  <2> HIDE DEF f
  <2>2. f[w] <= Total(Workers, f)
    BY <2>1, TotalAtLeast, CapacityConstants
  <2> QED
    BY <2>1, <2>2 DEF Load, f
<1> QED
  BY <1>1, <1>2, <1>3

\* A step of w changes the load by what it changes of w.
LEMMA LoadOfStep ==
    ASSUME Inv, Inv', NEW w \in Workers,
           \A u \in Workers : u # w => worker'[u] = worker[u]
    PROVE  /\ Load' = Load - Need(w) + Need(w)'
           /\ Load' \in Nat /\ Need(w)' \in Nat
           /\ \A u \in Workers : u # w => Need(u)' = Need(u)
<1> DEFINE f == [v \in Workers |-> Need(v)]
           g == [v \in Workers |-> Need(v)']
<1>1. \A u \in Workers : u # w => Need(u)' = Need(u)
  BY DEF Need
<1>2. ASSUME NEW u \in Workers PROVE Need(u)' \in Nat
  <2>1. worker'[u] \in Worker
    BY DEF Inv, TypeOK
  <2> QED
    BY <2>1, Constants DEF Worker, Need, Cost
<1>3. f \in [Workers -> Nat] /\ g \in [Workers -> Nat]
  BY <1>2, LoadType
<1>4. \A u \in Workers : u # w => g[u] = f[u]
  BY <1>1
<1>5. f[w] = Need(w) /\ g[w] = Need(w)'
  OBVIOUS
<1>6. Load = Total(Workers, f) /\ Load' = Total(Workers, g)
  BY DEF Load
<1> HIDE DEF f, g
<1>7. Total(Workers, g) = Total(Workers, f) - f[w] + g[w]
  BY <1>3, <1>4, TotalOfChange, CapacityConstants
<1>8. Load' \in Nat
  BY <1>3, <1>6, UnitsFinite, CapacityConstants
<1>9. Need(w)' \in Nat
  BY <1>2
<1> QED
  BY <1>1, <1>5, <1>6, <1>7, <1>8, <1>9

LEMMA PaceType ==
    ASSUME Inv
    PROVE  /\ Len(queue) \in Nat /\ Len(sweep.due) \in Nat /\ Len(sweep.unread) \in Nat
           /\ Pending \in Nat /\ Remaining \in 0..Interval /\ Remaining \in Nat
BY Constants DEF Inv, TypeOK, Pending, Remaining

\* When the next sweep begins, all workers wait and nothing is pending.
LEMMA AllDone ==
    ASSUME Inv, PhaseInv, PaceInv, Open, sweep.pc = "waiting", timer = 0
    PROVE  /\ Pending = 0 /\ queue = <<>> /\ sweep.due = <<>> /\ sweep.unread = <<>>
           /\ Load = 0
           /\ \A w \in Workers : /\ worker[w].pc = "waiting" /\ worker[w].key = None
                                 /\ Need(w) = 0
<1>1. Remaining = 0
  BY DEF Remaining
<1>2. Pending = 0
  <2> SUFFICES ASSUME Pending > 0 PROVE FALSE
    BY PaceType
  <2>1. Load + Demand(Pending) <= W * 0
    BY <1>1 DEF PaceInv
  <2>2. Demand(Pending) >= W * Cost /\ Demand(Pending) \in Nat
    BY PaceType, DemandSteps
  <2>3. W * Cost <= W * 0
    BY <2>1, <2>2, LoadType, CapacityConstants
  <2>4. Cost <= 0
    BY <2>3, Factor, CapacityConstants
  <2> QED
    BY <2>4, CapacityConstants
<1>3. ASSUME NEW w \in Workers
      PROVE  Need(w) = 0 /\ worker[w].pc = "waiting" /\ worker[w].key = None
  <2>1. Need(w) = 0
    BY <1>1, NeedType, CapacityConstants DEF PaceInv
  <2>2. worker[w] \in Worker /\ worker[w].pc # "stopped"
    BY DEF Inv, TypeOK, PhaseInv
  <2>3. worker[w].pc = "waiting"
    BY <2>1, <2>2, Constants DEF Need, Worker
  <2> QED
    BY <2>1, <2>3 DEF PhaseInv
<1>4. queue = <<>> /\ sweep.due = <<>> /\ sweep.unread = <<>>
  <2> DEFINE a == Len(queue)
             b == Len(sweep.due)
             c == Len(sweep.unread)
  <2>0. a \in Nat /\ b \in Nat /\ c \in Nat /\ a + b + c = 0
    BY <1>2, PaceType DEF Pending
  <2>1. Len(queue) = 0
    <3> HIDE DEF a, b, c
    <3>1. a = 0
      BY <2>0
    <3> QED
      BY <3>1 DEF a
  <2>2. queue = <<>>
    BY <2>1 DEF Inv, TypeOK
  <2> QED
    BY <2>2 DEF PhaseInv
<1>5. Load = 0
  <2> DEFINE f == [w \in Workers |-> Need(w)]
  <2>1. \A w \in Workers : f[w] = 0
    BY <1>3
  <2> HIDE DEF f
  <2>2. Total(Workers, f) = 0
    BY <2>1, TotalOfNone
  <2> QED
    BY <2>2 DEF Load, f
<1> QED
  BY <1>2, <1>3, <1>4, <1>5

\* The scheduler hands on a job or lets a key go: nothing is added.
LEMMA PaceFewer ==
    ASSUME Inv, PaceInv, Pending' \in Nat, Pending' <= Pending,
           UNCHANGED <<Remaining, worker>>, Open' => Open
    PROVE  PaceInv'
<1> SUFFICES ASSUME Open' PROVE PaceInv'
  BY DEF PaceInv
<1>1. Load' = Load /\ \A w \in Workers : Need(w)' = Need(w)
  BY DEF Load, Need
<1>2. ASSUME Pending' > 0 PROVE Load' + Demand(Pending') <= W * Remaining
  <2>1. Load + Demand(Pending) <= W * Remaining
    BY <1>2, PaceType DEF PaceInv
  <2>2. /\ Demand(Pending') <= Demand(Pending)
        /\ Demand(Pending') \in Nat /\ Demand(Pending) \in Nat
    BY <1>2, PaceType, DemandSteps
  <2>3. W * Remaining \in Nat
    BY PaceType, CapacityConstants
  <2> QED
    BY <1>1, <2>1, <2>2, <2>3, LoadType
<1> QED
  BY <1>1, <1>2, PaceType, CapacityConstants DEF PaceInv, Demand

\* A sweep lists at most all keys, and there is time for them.
LEMMA PaceSweepStart ==
    ASSUME Inv, PhaseInv, PaceInv, HasCapacity, SweepStart
    PROVE  PaceInv'
<1> SUFFICES ASSUME Open' PROVE PaceInv'
  BY DEF PaceInv
<1>1. Open /\ sweep.pc = "waiting" /\ timer = 0
  BY DEF SweepStart, Open
<1>2. /\ Pending = 0 /\ queue = <<>> /\ sweep.due = <<>> /\ sweep.unread = <<>>
      /\ Load = 0 /\ \A w \in Workers : Need(w) = 0
  BY <1>1, AllDone
<1>3. worker' = worker /\ queue' = queue
  BY DEF SweepStart
<1>4. Load' = 0 /\ \A w \in Workers : Need(w)' = 0
  BY <1>2, <1>3 DEF Load, Need
<1>5. sweep \in [pc: {"waiting", "reading", "queueing", "stopped"},
                 unread: Seq(Keys), due: Seq(Keys)]
  BY DEF Inv, TypeOK
<1>6. CASE \E keys \in ActiveKeysSince :
              sweep' = [sweep EXCEPT !.pc = "reading", !.unread = keys]
  <2>1. PICK keys \in ActiveKeysSince :
              sweep' = [sweep EXCEPT !.pc = "reading", !.unread = keys]
    BY <1>6
  <2>2. sweep'.pc = "reading" /\ sweep'.unread = keys /\ sweep'.due = <<>>
    BY <1>2, <1>5, <2>1
  <2>3. Len(keys) \in Nat /\ Len(keys) <= Cardinality(Keys)
    <3> DEFINE active == {k \in Keys : idle[k] # None /\ idle[k] <= Lookback}
    <3>1. Cardinality(active) \in Nat /\ Cardinality(active) <= Cardinality(Keys)
      BY CapacityConstants, SizeOfSubset
    <3>2. keys \in [1..Cardinality(active) -> active]
      BY <2>1 DEF ActiveKeysSince, SetToSeqs
    <3>3. Len(keys) = Cardinality(active)
      BY <3>1, <3>2
    <3> QED
      BY <3>1, <3>3
  <2>4. Pending' = Len(keys) /\ Remaining' = Interval
    BY <1>2, <1>3, <2>2, <2>3 DEF Pending, Remaining
  <2>5. ASSUME Len(keys) > 0 PROVE Demand(Len(keys)) <= W * Interval
    <3> DEFINE K == Cardinality(Keys)
    <3>1. Demand(Len(keys)) <= Demand(K) /\ Demand(Len(keys)) \in Nat
          /\ Demand(K) \in Nat
      BY <2>3, <2>5, DemandSteps, CapacityConstants
    <3>2. Demand(K) <= W * Interval
      BY DEF HasCapacity, Demand, W, Cost
    <3>3. W * Interval \in Nat
      BY CapacityConstants
    <3> QED
      BY <3>1, <3>2, <3>3
  <2>6. ASSUME Len(keys) > 0 PROVE 0 + Demand(Len(keys)) <= W * Interval
    <3>1. Demand(Len(keys)) \in Nat
      BY <2>3, <2>6, DemandSteps
    <3> QED
      BY <2>5, <2>6, <3>1
  <2>7. \A w \in Workers : Need(w)' <= Interval
    BY <1>4, CapacityConstants
  <2>8. /\ Pending' <= Cardinality(Keys)
        /\ Pending' > 0 => Load' + Demand(Pending') <= W * Remaining'
    BY <1>4, <2>3, <2>4, <2>6
  <2>9. Demand(Pending)' = Demand(Pending')
    BY DEF Demand, W
  <2>10. \A w \in Workers : Need(w)' <= Remaining'
    BY <2>4, <2>7
  <2>11. Pending' > 0 => Load' + Demand(Pending)' <= W * Remaining'
    BY <2>8, <2>9
  <2> QED
    BY <2>8, <2>10, <2>11 DEF PaceInv
<1>7. CASE timer' = Interval /\ sweep' = sweep
  <2>1. Pending' = Pending
    BY <1>3, <1>7 DEF Pending
  <2>2. Remaining' = Interval
    BY <1>1, <1>7 DEF Remaining
  <2> QED
    BY <1>2, <1>4, <2>1, <2>2, CapacityConstants DEF PaceInv
<1> QED
  BY <1>6, <1>7 DEF SweepStart

\* The other steps of a sweep.
LEMMA PaceSweep ==
    ASSUME Inv, PhaseInv, PaceInv, HasCapacity, Sweep
    PROVE  PaceInv'
<1>1. sweep \in [pc: {"waiting", "reading", "queueing", "stopped"},
                 unread: Seq(Keys), due: Seq(Keys)] /\ queue \in Seq(Keys)
  BY DEF Inv, TypeOK
<1>2. ASSUME Inv', UNCHANGED <<worker, closing>>, NEW q \in Nat, NEW d \in Nat, NEW u \in Nat,
             Len(queue') = q, Len(sweep'.due) = d, Len(sweep'.unread) = u,
             q + d + u <= Pending, UNCHANGED Remaining
      PROVE  PaceInv'
  <2>1. Pending' = q + d + u
    BY <1>2 DEF Pending
  <2>2. Open' => Open
    BY <1>2 DEF Open
  <2> QED
    BY <1>2, <2>1, <2>2, PaceFewer
<1>3. Inv'
  BY SweepStep
<1> DEFINE q == Len(queue)
           d == Len(sweep.due)
           u == Len(sweep.unread)
<1>4. q \in Nat /\ d \in Nat /\ u \in Nat /\ Pending = q + d + u
  BY PaceType DEF Pending
<1>5. CASE SweepStart
  BY <1>5, PaceSweepStart
<1>6. CASE SweepRead
  <2> DEFINE k == Head(sweep.unread)
  <2>1. sweep.unread # <<>> /\ UNCHANGED <<worker, closing, queue, timer>>
    BY <1>6 DEF SweepRead
  <2>2. sweep.unread # <<>> /\ Len(Tail(sweep.unread)) = u - 1 /\ u - 1 \in Nat
        /\ k \in Keys
    BY <1>1, <2>1
  <2>3. Len(Append(sweep.due, k)) = d + 1
    BY <1>1, <2>2
  <2>4. /\ sweep'.unread = Tail(sweep.unread)
        /\ sweep'.due \in {sweep.due, Append(sweep.due, k)}
        /\ sweep'.pc = sweep.pc
    BY <1>1, <1>6 DEF SweepRead
  <2>5. UNCHANGED Remaining
    BY <2>1, <2>4 DEF Remaining
  <2>6. Len(sweep'.due) \in {d, d + 1} /\ Len(sweep'.unread) = u - 1
    BY <2>2, <2>3, <2>4
  <2> HIDE DEF d, u, k
  <2>7. CASE Len(sweep'.due) = d
    <3>1. q + d + (u - 1) <= Pending
      BY <1>4
    <3> QED
      BY <1>2, <1>3, <1>4, <2>1, <2>2, <2>5, <2>6, <2>7, <3>1
  <2>8. CASE Len(sweep'.due) = d + 1
    <3>1. q + (d + 1) + (u - 1) <= Pending /\ d + 1 \in Nat
      BY <1>4
    <3> QED
      BY <1>2, <1>3, <1>4, <2>1, <2>2, <2>5, <2>6, <2>8, <3>1
  <2> QED
    BY <2>6, <2>7, <2>8
<1>7. CASE SweepListed \/ SweepEnd
  <2>1. /\ UNCHANGED <<worker, closing, queue>>
        /\ sweep'.due = sweep.due /\ sweep'.unread = sweep.unread
    BY <1>1, <1>7 DEF SweepListed, SweepEnd
  <2>2. UNCHANGED Remaining
    BY <1>1, <1>7 DEF Remaining, SweepListed, SweepEnd
  <2>3. q + d + u <= Pending
    BY <1>4
  <2> QED
    BY <1>2, <1>3, <1>4, <2>1, <2>2, <2>3
<1>8. CASE SweepEnqueue
  <2> DEFINE k == Head(sweep.due)
  <2>1. sweep.due # <<>> /\ UNCHANGED <<worker, closing, timer>>
    BY <1>8 DEF SweepEnqueue
  <2>2. Len(Tail(sweep.due)) = d - 1 /\ d - 1 \in Nat /\ k \in Keys
    BY <1>1, <2>1
  <2>3. Len(Append(queue, k)) = q + 1
    BY <1>1, <2>2
  <2>4. /\ sweep'.due = Tail(sweep.due) /\ sweep'.unread = sweep.unread
        /\ queue' \in {queue, Append(queue, k)} /\ sweep'.pc = sweep.pc
    BY <1>1, <1>8 DEF SweepEnqueue, Enqueued
  <2>5. UNCHANGED Remaining
    BY <2>1, <2>4 DEF Remaining
  <2>6. Len(queue') \in {q, q + 1} /\ Len(sweep'.due) = d - 1 /\ Len(sweep'.unread) = u
    BY <2>2, <2>3, <2>4
  <2> HIDE DEF d, q, u, k
  <2>7. CASE Len(queue') = q
    <3>1. q + (d - 1) + u <= Pending
      BY <1>4
    <3> QED
      BY <1>2, <1>3, <1>4, <2>1, <2>2, <2>5, <2>6, <2>7, <3>1
  <2>8. CASE Len(queue') = q + 1
    <3>1. (q + 1) + (d - 1) + u <= Pending /\ q + 1 \in Nat
      BY <1>4
    <3> QED
      BY <1>2, <1>3, <1>4, <2>1, <2>2, <2>5, <2>6, <2>8, <3>1
  <2> QED
    BY <2>6, <2>7, <2>8
<1> QED
  BY <1>5, <1>6, <1>7, <1>8 DEF Sweep

\* A worker takes a job only when there is time for it, and for those that stay.
LEMMA PaceWork ==
    ASSUME Inv, PhaseInv, PaceInv, NEW w \in Workers, Work(w)
    PROVE  PaceInv'
<1> SUFFICES ASSUME Open' PROVE PaceInv'
  BY DEF PaceInv
<1>1. Inv'
  BY WorkStep
<1>2. /\ \A u \in Workers : u # w => worker'[u] = worker[u]
      /\ UNCHANGED <<timer, sweep, closing>>
  BY WorkEffect DEF Alone
<1>3. Open /\ Remaining' = Remaining
  BY <1>2 DEF Open, Remaining
<1>4. /\ Load' = Load - Need(w) + Need(w)'
      /\ \A u \in Workers : u # w => Need(u)' = Need(u)
  BY <1>1, <1>2, LoadOfStep
<1>5. worker[w] \in Worker /\ worker'[w] \in Worker
  BY <1>1 DEF Inv, TypeOK
<1>6. /\ Need(w) \in Nat /\ Need(w)' \in Nat /\ Load \in Nat /\ Load' \in Nat
      /\ Need(w) <= Load
  BY <1>1, <1>2, NeedType, LoadType, LoadOfStep, CapacityConstants
<1>7. CASE /\ worker[w].pc = "waiting" /\ queue # <<>> /\ queue' = Tail(queue)
           /\ worker'[w] = [worker[w] EXCEPT !.pc = "pacing", !.key = Head(queue)]
  <2>1. Pending' = Pending - 1 /\ Pending \in Nat \ {0} /\ Pending' \in Nat
    <3>1. queue \in Seq(Keys)
      BY DEF Inv, TypeOK
    <3>2. Len(Tail(queue)) = Len(queue) - 1 /\ Len(queue) \in Nat \ {0}
      BY <1>7, <3>1
    <3>3. Len(queue') = Len(queue) - 1 /\ sweep' = sweep
      BY <1>2, <1>7, <3>2
    <3> DEFINE q == Len(queue)
               d == Len(sweep.due)
               u == Len(sweep.unread)
    <3>4. Pending = q + d + u /\ Pending' = (q - 1) + d + u
      BY <3>3 DEF Pending
    <3>5. q \in Nat \ {0} /\ d \in Nat /\ u \in Nat
      BY <3>2, PaceType
    <3> HIDE DEF q, d, u
    <3> QED
      BY <3>4, <3>5
  <2>2. Load + Demand(Pending) <= W * Remaining
    BY <1>3, <2>1 DEF PaceInv
  <2>3. Need(w)' <= Need(w) + Cost
    <3>1. worker'[w].pc = "pacing" /\ worker'[w].rest = worker[w].rest
      BY <1>5, <1>7 DEF Worker
    <3>2. worker[w].rest \in Nat /\ worker[w].rest <= Pace
      BY <1>5, Constants DEF Worker
    <3>3. Need(w)' = Pace - worker[w].rest + MaxRefresh + 1
      BY <3>1 DEF Need
    <3>4. Need(w) = IF worker[w].rest = 0 THEN 1 ELSE 0
      BY <1>7 DEF Need
    <3> QED
      BY <3>2, <3>3, <3>4, Constants DEF Cost
  <2>4. Need(w)' <= Remaining
    <3>1. /\ Need(w) + W * Cost <= W * Remaining
          /\ W * Cost \in Nat /\ W * Remaining \in Nat
      <4>1. Demand(Pending) >= W * Cost /\ Demand(Pending) \in Nat
        BY <2>1, DemandSteps
      <4>2. W * Cost \in Nat /\ W * Remaining \in Nat
        BY PaceType, CapacityConstants
      <4> DEFINE c == W * Cost
                 r == W * Remaining
      <4> HIDE DEF c, r
      <4>3. c \in Nat /\ r \in Nat /\ Demand(Pending) >= c /\ Load + Demand(Pending) <= r
        BY <2>2, <4>1, <4>2 DEF c, r
      <4>4. Need(w) + c <= r
        BY <1>6, <4>1, <4>3
      <4> QED
        BY <4>2, <4>4 DEF c, r
    <3>2. Need(w) \in {0, 1}
      BY <1>7 DEF Need
    <3>3. CASE Need(w) = 0
      <4>1. W * Cost <= W * Remaining
        BY <3>1, <3>3
      <4>2. Cost <= Remaining
        BY <4>1, Factor, PaceType, CapacityConstants
      <4> QED
        BY <1>6, <2>3, <3>3, <4>2, PaceType, CapacityConstants
    <3>4. CASE Need(w) = 1
      <4>1. W * Cost < W * Remaining
        BY <3>1, <3>4
      <4>2. Cost < Remaining
        BY <4>1, Factor, PaceType, CapacityConstants
      <4> QED
        BY <1>6, <2>3, <3>4, <4>2, PaceType, CapacityConstants
    <3> QED
      BY <3>2, <3>3, <3>4
  <2>5. ASSUME Pending' > 0 PROVE Load' + Demand(Pending') <= W * Remaining
    <3>1. Demand(Pending') = Demand(Pending) - Cost /\ Demand(Pending) \in Nat
      BY <2>1, <2>5, DemandSteps
    <3>2. W * Remaining \in Nat
      BY PaceType, CapacityConstants
    <3> QED
      BY <1>4, <1>6, <2>2, <2>3, <3>1, <3>2, CapacityConstants
  <2>6. \A u \in Workers : Need(u)' <= Remaining'
    BY <1>3, <1>4, <2>4 DEF PaceInv
  <2>7. Pending' <= Cardinality(Keys)
    BY <1>3, <2>1, CapacityConstants DEF PaceInv
  <2>8. Pending' > 0 => Load' + Demand(Pending)' <= W * Remaining'
    BY <1>3, <2>5 DEF Demand
  <2> QED
    BY <2>6, <2>7, <2>8 DEF PaceInv
<1>8. CASE queue' = queue /\ Need(w)' <= Need(w)
  <2>1. Pending' = Pending
    BY <1>2, <1>8 DEF Pending
  <2>2. \A u \in Workers : Need(u)' <= Remaining'
    <3>1. Need(w)' <= Remaining
      BY <1>3, <1>6, <1>8, PaceType DEF PaceInv
    <3> QED
      BY <1>3, <1>4, <3>1 DEF PaceInv
  <2>3. Load' <= Load
    BY <1>4, <1>6, <1>8
  <2>4. ASSUME Pending > 0 PROVE Load' + Demand(Pending) <= W * Remaining
    <3>1. Load + Demand(Pending) <= W * Remaining /\ Demand(Pending) \in Nat
      BY <1>3, <2>4, PaceType, DemandSteps DEF PaceInv
    <3>2. W * Remaining \in Nat
      BY PaceType, CapacityConstants
    <3> QED
      BY <1>6, <2>3, <3>1, <3>2
  <2>5. Demand(Pending)' = Demand(Pending) /\ Remaining' = Remaining
    <3>1. Demand(Pending)' = (Pending' + W - 1) * Cost
      BY Zenon DEF Demand
    <3>2. Demand(Pending) = (Pending + W - 1) * Cost
      BY Zenon DEF Demand
    <3> QED
      BY <1>3, <2>1, <3>1, <3>2, Zenon
  <2>6. Pending' > 0 => Load' + Demand(Pending)' <= W * Remaining'
    BY <2>1, <2>4, <2>5, Zenon
  <2> QED
    BY <1>3, <2>1, <2>2, <2>6 DEF PaceInv
<1>9. \/ /\ worker[w].pc = "waiting" /\ queue # <<>> /\ queue' = Tail(queue)
         /\ worker'[w] = [worker[w] EXCEPT !.pc = "pacing", !.key = Head(queue)]
      \/ queue' = queue /\ Need(w)' <= Need(w)
  <2>1. ASSUME Paced(w), worker'[w] = [worker[w] EXCEPT !.pc = "refreshing"]
        PROVE  Need(w)' <= Need(w)
    <3>1. /\ worker'[w].pc = "refreshing" /\ worker'[w].busy = worker[w].busy
          /\ worker[w].busy \in Nat
      BY <1>5, <2>1, Constants DEF Worker
    <3> QED
      BY <2>1, <3>1, Constants DEF Need, Paced
  <2>2. ASSUME Paced(w) \/ worker[w].pc = "refreshing",
               worker'[w] = [worker[w] EXCEPT !.pc = "waiting", !.key = None,
                                              !.rest = 0, !.busy = 0]
        PROVE  Need(w)' <= Need(w)
    <3>1. worker'[w].pc = "waiting" /\ worker'[w].rest = 0
      BY <1>5, <2>2 DEF Worker
    <3>2. worker[w].busy \in Nat /\ worker[w].busy <= MaxRefresh
      BY <1>5, Constants DEF Worker
    <3> QED
      BY <2>2, <3>1, <3>2, Constants DEF Need, Paced
  <2> QED
    BY <2>1, <2>2, WorkEffect DEF Takes, Starts, Ends
<1> QED
  BY <1>7, <1>8, <1>9

\* A tick brings the next sweep nearer, and every busy worker nearer its end.
LEMMA PaceTick ==
    ASSUME Inv, PhaseInv, PaceInv, Tick
    PROVE  PaceInv'
<1> SUFFICES ASSUME Open' PROVE PaceInv'
  BY DEF PaceInv
<1>1. Inv' /\ UNCHANGED <<sweep, queue, closing>> /\ ~Urgent
  BY TickStep DEF Tick
<1>2. Open /\ sweep.pc = "waiting" /\ timer # 0 /\ timer \in Nat
  <2>1. Open
    BY <1>1 DEF Open
  <2>2. sweep.pc \in {"waiting", "reading", "queueing", "stopped"} /\ timer \in Nat
    BY Constants DEF Inv, TypeOK
  <2> QED
    BY <1>1, <2>1, <2>2 DEF PhaseInv, Urgent
<1>3. Remaining = timer /\ Remaining' = timer - 1 /\ Pending' = Pending
  BY <1>1, <1>2 DEF Remaining, Pending, Tick
<1>4. ASSUME NEW w \in Workers
      PROVE  /\ Need(w) \in Nat /\ Need(w)' \in Nat
             /\ IF Need(w) = 0 THEN Need(w)' = 0 ELSE Need(w)' = Need(w) - 1
             /\ queue # <<>> => Need(w) # 0
  <2>1. worker[w] \in Worker /\ worker[w].pc # "stopped"
    BY <1>2 DEF Inv, TypeOK, PhaseInv
  <2>2. /\ worker'[w].pc = worker[w].pc
        /\ worker'[w].rest = AtMost(worker[w].rest + 1, Pace)
        /\ worker'[w].busy = IF worker[w].pc = "refreshing" THEN worker[w].busy + 1
                                                            ELSE worker[w].busy
    BY <2>1 DEF Tick, Aged, Worker
  <2>3. /\ worker[w].rest \in Nat /\ worker[w].rest <= Pace
        /\ worker[w].busy \in Nat /\ worker[w].busy <= MaxRefresh
    BY <2>1, Constants DEF Worker
  <2>4. CASE worker[w].pc = "waiting"
    <3>1. queue = <<>>
      BY <1>1, <2>4 DEF Urgent
    <3>2. worker'[w].rest # 0
      BY <2>2, <2>3, Constants DEF AtMost
    <3> QED
      BY <2>2, <2>4, <3>1, <3>2 DEF Need
  <2>5. CASE worker[w].pc = "pacing"
    <3>1. worker[w].rest < Pace
      BY <1>1, <2>3, <2>5, Constants DEF Urgent, Paced
    <3>2. worker'[w].rest = worker[w].rest + 1
      BY <2>2, <2>3, <3>1, Constants DEF AtMost
    <3>3. Need(w) = Pace - worker[w].rest + MaxRefresh + 1
      BY <2>5 DEF Need
    <3>4. Need(w)' = Pace - (worker[w].rest + 1) + MaxRefresh + 1
      BY <2>2, <2>5, <3>2 DEF Need
    <3>5. Need(w) \in Nat /\ Need(w) # 0
      BY <2>3, <3>1, <3>3, Constants
    <3>6. Need(w)' = Need(w) - 1
      BY <2>3, <3>3, <3>4, Constants
    <3> QED
      BY <3>5, <3>6
  <2>6. CASE worker[w].pc = "refreshing"
    <3>1. worker[w].busy < MaxRefresh
      BY <1>1, <2>3, <2>6, Constants DEF Urgent
    <3>2. Need(w) = MaxRefresh - worker[w].busy + 1
      BY <2>6 DEF Need
    <3>3. Need(w)' = MaxRefresh - (worker[w].busy + 1) + 1
      BY <2>2, <2>6 DEF Need
    <3>4. Need(w) \in Nat /\ Need(w) # 0
      BY <2>3, <3>1, <3>2, Constants
    <3>5. Need(w)' = Need(w) - 1
      BY <2>3, <3>2, <3>3, Constants
    <3> QED
      BY <2>6, <3>1, <3>4, <3>5, Constants
  <2> QED
    BY <2>1, <2>4, <2>5, <2>6 DEF Worker
<1>5. \A w \in Workers : Need(w)' <= Remaining'
  <2> SUFFICES ASSUME NEW w \in Workers PROVE Need(w)' <= Remaining'
    OBVIOUS
  <2>1. Need(w) <= timer
    BY <1>2, <1>3 DEF PaceInv
  <2> QED
    BY <1>2, <1>3, <1>4, <2>1
<1>6. ASSUME Pending > 0 PROVE Load' + Demand(Pending) <= W * (timer - 1)
  <2>1. queue # <<>>
    <3>1. sweep.due = <<>> /\ sweep.unread = <<>>
      BY <1>2 DEF PhaseInv
    <3>2. Len(sweep.due) = 0 /\ Len(sweep.unread) = 0
      BY <3>1
    <3>3. ASSUME queue = <<>> PROVE FALSE
      <4>1. Len(queue) = 0
        BY <3>3
      <4>2. Pending = 0 + 0 + 0
        BY <3>2, <4>1 DEF Pending
      <4> QED
        BY <1>6, <4>2
    <3> QED
      BY <3>3
  <2> DEFINE f == [v \in Workers |-> Need(v)]
             g == [v \in Workers |-> Need(v)']
  <2>2. f \in [Workers -> Nat]
    BY LoadType
  <2>3. \A v \in Workers : f[v] \in Nat /\ g[v] \in Nat /\ f[v] = g[v] + 1
    BY <1>4, <2>1
  <2>4. g \in [Workers -> Nat]
    BY <2>3
  <2>5. Load = Total(Workers, f) /\ Load' = Total(Workers, g)
    BY DEF Load
  <2> HIDE DEF f, g
  <2>6. Load = Load' + W
    BY <2>2, <2>3, <2>4, <2>5, TotalOfLess, CapacityConstants DEF W
  <2>7. Load + Demand(Pending) <= W * timer
    BY <1>2, <1>3, <1>6 DEF PaceInv
  <2>8. W * timer = W * (timer - 1) + W /\ W * (timer - 1) \in Nat
    <3>1. timer - 1 \in Nat /\ (timer - 1) + 1 = timer
      BY <1>2
    <3> QED
      BY <3>1, Factor, CapacityConstants
  <2>9. Load' \in Nat /\ Demand(Pending) \in Nat
    BY <1>6, <2>4, <2>5, UnitsFinite, CapacityConstants, PaceType, DemandSteps
  <2> QED
    BY <2>6, <2>7, <2>8, <2>9, CapacityConstants
<1>7. Pending' > 0 => Load' + Demand(Pending)' <= W * Remaining'
  BY <1>3, <1>6 DEF Demand
<1>8. Pending' <= Cardinality(Keys)
  BY <1>2, <1>3 DEF PaceInv
<1> QED
  BY <1>5, <1>7, <1>8 DEF PaceInv

LEMMA PaceInit == Init => PaceInv
<1> SUFFICES ASSUME Init PROVE PaceInv
  OBVIOUS
<1>1. \A w \in Workers : Need(w) = 0
  BY Constants DEF Init, Need
<1>2. Len(queue) = 0 /\ Len(sweep.due) = 0 /\ Len(sweep.unread) = 0
  BY DEF Init
<1>3. Pending = 0
  BY <1>2 DEF Pending
<1>4. Remaining = Interval
  BY DEF Init, Remaining
<1> QED
  BY <1>1, <1>3, <1>4, CapacityConstants DEF PaceInv

LEMMA PaceStep == HasCapacity /\ Inv /\ PhaseInv /\ PaceInv /\ [Next]_vars => PaceInv'
<1> SUFFICES ASSUME HasCapacity, Inv, PhaseInv, PaceInv, [Next]_vars PROVE PaceInv'
  OBVIOUS
<1>1. CASE Requests \/ Shutdown \/ UNCHANGED vars
  <2>1. UNCHANGED <<timer, sweep, queue, worker>> /\ (Open' => Open)
    BY <1>1 DEF Requests, ServeHit, Evict, Fetch, Shutdown, vars, Open
  <2>2. UNCHANGED Remaining /\ Pending' = Pending
    BY <2>1 DEF Remaining, Pending
  <2> QED
    BY <2>1, <2>2, PaceType, PaceFewer
<1>2. CASE Close
  <2>1. ~Open'
    BY <1>2 DEF Close, SchedulerStopped, QueueClosed, WorkerStopped, Open
  <2> QED
    BY <2>1 DEF PaceInv
<1> QED
  BY <1>1, <1>2, PaceSweep, PaceWork, PaceTick DEF Next

-----------------------------------------------------------------------------
(* A key is in one place at most.                                          *)

LEMMA TailJobs ==
    ASSUME NEW s \in Seq(Keys), s # <<>>
    PROVE  /\ Head(s) \in Keys /\ Tail(s) \in Seq(Keys)
           /\ ~Without(s, Head(s))
           /\ \A k : Without(s, k) <=> k # Head(s) /\ Without(Tail(s), k)
           /\ Distinct(s) => Distinct(Tail(s)) /\ Without(Tail(s), Head(s))
           /\ \A t : Apart(s, t) => Apart(Tail(s), t) /\ Without(t, Head(s))
           /\ \A t : Apart(t, s) => Apart(t, Tail(s)) /\ Without(t, Head(s))
<1>1. Len(s) \in Nat \ {0} /\ Head(s) = s[1] /\ Head(s) \in Keys /\ Tail(s) \in Seq(Keys)
      /\ Len(Tail(s)) = Len(s) - 1 /\ \A i \in 1..(Len(s) - 1) : Tail(s)[i] = s[i + 1]
  OBVIOUS
<1>2. /\ \A i \in 1..(Len(s) - 1) : i + 1 \in 1..Len(s)
      /\ 1 \in 1..Len(s)
      /\ \A i \in 1..Len(s) : i # 1 => i - 1 \in 1..(Len(s) - 1) /\ (i - 1) + 1 = i
  BY <1>1
<1>3. ~Without(s, Head(s))
  BY <1>1, <1>2 DEF Without
<1>4. ASSUME NEW k PROVE Without(s, k) <=> k # Head(s) /\ Without(Tail(s), k)
  <2>1. Without(s, k) => k # Head(s) /\ Without(Tail(s), k)
    BY <1>1, <1>2 DEF Without
  <2>2. ASSUME k # Head(s), Without(Tail(s), k), NEW i \in 1..Len(s) PROVE s[i] # k
    <3>1. CASE i = 1
      BY <1>1, <2>2, <3>1
    <3>2. CASE i # 1
      <4>1. i - 1 \in 1..(Len(s) - 1) /\ Tail(s)[i - 1] = s[i]
        BY <1>1, <1>2, <3>2
      <4> QED
        BY <1>1, <2>2, <4>1 DEF Without
    <3> QED
      BY <3>1, <3>2
  <2> QED
    BY <2>1, <2>2 DEF Without
<1>5. ASSUME Distinct(s) PROVE Distinct(Tail(s)) /\ Without(Tail(s), Head(s))
  <2>1. ASSUME NEW i \in 1..(Len(s) - 1), NEW j \in 1..(Len(s) - 1), Tail(s)[i] = Tail(s)[j]
        PROVE  i = j
    <3>1. i + 1 = j + 1
      BY <1>1, <1>2, <1>5, <2>1 DEF Distinct
    <3> QED
      BY <3>1
  <2>2. ASSUME NEW i \in 1..(Len(s) - 1) PROVE Tail(s)[i] # Head(s)
    <3>1. Tail(s)[i] = Head(s) => i + 1 = 1
      BY <1>1, <1>2, <1>5 DEF Distinct
    <3> QED
      BY <3>1
  <2> QED
    BY <1>1, <2>1, <2>2 DEF Distinct, Without
<1>6. \A t : Apart(s, t) => Apart(Tail(s), t) /\ Without(t, Head(s))
  BY <1>1, <1>2 DEF Apart, Without
<1>7. \A t : Apart(t, s) => Apart(t, Tail(s)) /\ Without(t, Head(s))
  BY <1>1, <1>2 DEF Apart, Without
<1> QED
  BY <1>1, <1>3, <1>4, <1>5, <1>6, <1>7

LEMMA AppendJobs ==
    ASSUME NEW s \in Seq(Keys), NEW k \in Keys
    PROVE  /\ Append(s, k) \in Seq(Keys)
           /\ \A j : Without(Append(s, k), j) <=> j # k /\ Without(s, j)
           /\ Distinct(s) /\ Without(s, k) => Distinct(Append(s, k))
           /\ \A t : Apart(s, t) /\ Without(t, k) => Apart(Append(s, k), t)
           /\ \A t : Apart(t, s) /\ Without(t, k) => Apart(t, Append(s, k))
<1> DEFINE n == Len(s)
           a == Append(s, k)
<1>1. /\ n \in Nat /\ a \in Seq(Keys) /\ Len(a) = n + 1 /\ a[n + 1] = k
      /\ \A i \in 1..n : a[i] = s[i] /\ i \in 1..(n + 1)
      /\ \A i \in 1..(n + 1) : i \in 1..n \/ i = n + 1
      /\ n + 1 \in 1..(n + 1)
  OBVIOUS
<1> HIDE DEF a, n
<1>2. \A j : Without(a, j) <=> j # k /\ Without(s, j)
  BY <1>1 DEF Without, n
<1>3. Distinct(s) /\ Without(s, k) => Distinct(a)
  BY <1>1 DEF Distinct, Without, n
<1>4. \A t : Apart(s, t) /\ Without(t, k) => Apart(a, t)
  BY <1>1 DEF Apart, Without, n
<1>5. \A t : Apart(t, s) /\ Without(t, k) => Apart(t, a)
  BY <1>1 DEF Apart, Without, n
<1> QED
  BY <1>1, <1>2, <1>3, <1>4, <1>5 DEF a

LEMMA NoJobs ==
    \A s : /\ Distinct(<<>>) /\ Apart(<<>>, s) /\ Apart(s, <<>>) /\ Without(<<>>, s)
BY DEF Distinct, Apart, Without

LEMMA JobsInit == Init => JobsApart
<1> SUFFICES ASSUME Init PROVE JobsApart
  OBVIOUS
<1>1. queue = <<>> /\ sweep.due = <<>> /\ sweep.unread = <<>>
      /\ \A w \in Workers : worker[w].key = None
  BY DEF Init
<1> QED
  BY <1>1, NoJobs DEF JobsApart

\* A step that moves nothing into a place where it was not.
LEMMA JobsSweep ==
    ASSUME Inv, PhaseInv, PaceInv, JobsApart, Sweep
    PROVE  JobsApart'
<1>1. /\ sweep \in [pc: {"waiting", "reading", "queueing", "stopped"},
                    unread: Seq(Keys), due: Seq(Keys)]
      /\ queue \in Seq(Keys)
  BY DEF Inv, TypeOK
<1>2. worker' = worker
  BY DEF Sweep, SweepStart, SweepRead, SweepListed, SweepEnqueue, SweepEnd
<1>3. CASE SweepStart
  <2>1. CASE sweep' = sweep
    BY <1>2, <1>3, <2>1 DEF SweepStart, JobsApart
  <2>2. CASE \E keys \in ActiveKeysSince :
                sweep' = [sweep EXCEPT !.pc = "reading", !.unread = keys]
    <3>1. PICK keys \in ActiveKeysSince :
                sweep' = [sweep EXCEPT !.pc = "reading", !.unread = keys]
      BY <2>2
    <3>2. sweep.pc = "waiting" /\ timer = 0 /\ Open /\ queue' = queue
      BY <1>3 DEF SweepStart, PhaseInv
    <3>3. /\ queue = <<>> /\ sweep.due = <<>>
          /\ \A w \in Workers : worker[w].key = None
      BY <3>2, AllDone
    <3>4. sweep'.unread = keys /\ sweep'.due = <<>>
      BY <1>1, <3>1, <3>3
    <3>5. Distinct(keys)
      <4> DEFINE active == {k \in Keys : idle[k] # None /\ idle[k] <= Lookback}
                 c == Cardinality(active)
      <4>1. c \in Nat
        BY CapacityConstants, SizeOfSubset
      <4>2. /\ keys \in [1..c -> active]
            /\ \A i, j \in 1..c : i # j => keys[i] # keys[j]
        BY <3>1 DEF ActiveKeysSince, SetToSeqs
      <4>3. Len(keys) = c
        BY <4>1, <4>2
      <4> QED
        BY <4>2, <4>3 DEF Distinct
    <3> QED
      BY <1>2, <3>2, <3>3, <3>4, <3>5, NoJobs DEF JobsApart
  <2> QED
    BY <1>3, <2>1, <2>2 DEF SweepStart
<1>4. CASE SweepRead
  <2> DEFINE k == Head(sweep.unread)
  <2>1. sweep.unread # <<>> /\ queue' = queue
    BY <1>4 DEF SweepRead
  <2>2. /\ sweep'.unread = Tail(sweep.unread)
        /\ sweep'.due \in {sweep.due, Append(sweep.due, k)}
    BY <1>1, <1>4 DEF SweepRead
  <2>3. /\ k \in Keys /\ ~Without(sweep.unread, k)
        /\ Distinct(Tail(sweep.unread)) /\ Without(Tail(sweep.unread), k)
        /\ Apart(queue, Tail(sweep.unread)) /\ Apart(sweep.due, Tail(sweep.unread))
        /\ Without(queue, k) /\ Without(sweep.due, k)
        /\ \A j : Without(sweep.unread, j) => j # k /\ Without(Tail(sweep.unread), j)
    BY <1>1, <2>1, TailJobs DEF JobsApart
  <2> HIDE DEF k
  <2>4. CASE sweep'.due = sweep.due
    BY <1>2, <2>1, <2>2, <2>3, <2>4 DEF JobsApart
  <2>5. CASE sweep'.due = Append(sweep.due, k)
    <3> DEFINE due == Append(sweep.due, k)
    <3>1. /\ Distinct(due) /\ Apart(queue, due) /\ Apart(due, Tail(sweep.unread))
          /\ \A j : Without(due, j) <=> j # k /\ Without(sweep.due, j)
      BY <1>1, <2>3, AppendJobs DEF JobsApart
    <3> HIDE DEF due
    <3> QED
      BY <1>2, <2>1, <2>2, <2>3, <2>5, <3>1 DEF JobsApart, due
  <2> QED
    BY <2>2, <2>4, <2>5
<1>5. CASE SweepListed \/ SweepEnd
  <2>1. queue' = queue /\ sweep'.due = sweep.due /\ sweep'.unread = sweep.unread
    BY <1>1, <1>5 DEF SweepListed, SweepEnd
  <2> QED
    BY <1>2, <2>1 DEF JobsApart
<1>6. CASE SweepEnqueue
  <2> DEFINE k == Head(sweep.due)
  <2>1. sweep.due # <<>> /\ queue' \in {queue, Append(queue, k)}
    BY <1>6 DEF SweepEnqueue, Enqueued
  <2>2. sweep'.due = Tail(sweep.due) /\ sweep'.unread = sweep.unread
    BY <1>1, <1>6 DEF SweepEnqueue
  <2>3. /\ k \in Keys /\ ~Without(sweep.due, k)
        /\ Distinct(Tail(sweep.due)) /\ Without(Tail(sweep.due), k)
        /\ Apart(queue, Tail(sweep.due)) /\ Apart(Tail(sweep.due), sweep.unread)
        /\ Without(queue, k) /\ Without(sweep.unread, k)
        /\ \A j : Without(sweep.due, j) => j # k /\ Without(Tail(sweep.due), j)
    BY <1>1, <2>1, TailJobs DEF JobsApart
  <2> HIDE DEF k
  <2>4. CASE queue' = queue
    BY <1>2, <2>2, <2>3, <2>4 DEF JobsApart
  <2>5. CASE queue' = Append(queue, k)
    <3> DEFINE q == Append(queue, k)
    <3>1. /\ Distinct(q) /\ Apart(q, Tail(sweep.due)) /\ Apart(q, sweep.unread)
          /\ \A j : Without(q, j) <=> j # k /\ Without(queue, j)
      <4>1. /\ Distinct(queue) /\ Without(queue, k)
            /\ Apart(queue, Tail(sweep.due)) /\ Without(Tail(sweep.due), k)
            /\ Apart(queue, sweep.unread) /\ Without(sweep.unread, k)
        BY <2>3 DEF JobsApart
      <4> DEFINE due == Tail(sweep.due)
      <4> HIDE DEF due, q
      <4>2. Distinct(q) /\ \A j : Without(q, j) <=> j # k /\ Without(queue, j)
        BY <1>1, <2>3, <4>1, AppendJobs DEF q
      <4>3. \A t : Apart(queue, t) /\ Without(t, k) => Apart(q, t)
        BY <1>1, <2>3, AppendJobs, Zenon DEF q
      <4>4. Apart(q, due) /\ Apart(q, sweep.unread)
        BY <4>1, <4>3, Zenon DEF due
      <4> QED
        BY <4>2, <4>4 DEF due
    <3> HIDE DEF q
    <3> QED
      BY <1>2, <2>2, <2>3, <2>5, <3>1 DEF JobsApart, q
  <2> QED
    BY <2>1, <2>4, <2>5
<1> QED
  BY <1>3, <1>4, <1>5, <1>6 DEF Sweep

LEMMA JobsWork ==
    ASSUME Inv, PhaseInv, JobsApart, NEW w \in Workers, Work(w)
    PROVE  JobsApart'
<1>1. worker[w] \in Worker /\ queue \in Seq(Keys)
  BY DEF Inv, TypeOK
<1>2. /\ \A u \in Workers : u # w => worker'[u] = worker[u]
      /\ UNCHANGED sweep
  BY WorkEffect DEF Alone
<1>3. CASE /\ worker[w].pc = "waiting" /\ queue # <<>> /\ queue' = Tail(queue)
           /\ worker'[w] = [worker[w] EXCEPT !.pc = "pacing", !.key = Head(queue)]
  <2> DEFINE k == Head(queue)
  <2>1. /\ k \in Keys /\ ~Without(queue, k)
        /\ Distinct(Tail(queue)) /\ Without(Tail(queue), k)
        /\ Apart(Tail(queue), sweep.due) /\ Apart(Tail(queue), sweep.unread)
        /\ Without(sweep.due, k) /\ Without(sweep.unread, k)
        /\ \A j : Without(queue, j) => j # k /\ Without(Tail(queue), j)
    BY <1>1, <1>3, TailJobs DEF JobsApart
  <2>2. worker'[w].key = k
    BY <1>1, <1>3 DEF Worker
  <2> HIDE DEF k
  <2>3. \A u \in Workers : worker[u].key # None => worker[u].key # k
    BY <2>1 DEF JobsApart
  <2>4. k # None
    BY <2>1, Constants
  <2>5. ASSUME NEW u \in Workers, worker'[u].key # None
        PROVE  /\ Without(queue', worker'[u].key)
               /\ Without(sweep'.due, worker'[u].key)
               /\ Without(sweep'.unread, worker'[u].key)
               /\ \A v \in Workers : worker'[v].key = worker'[u].key => v = u
    <3>1. CASE u = w
      BY <1>2, <1>3, <2>1, <2>2, <2>3, <2>4, <3>1
    <3>2. CASE u # w
      <4>1. worker'[u] = worker[u] /\ worker[u].key # k
        BY <1>2, <2>3, <2>5, <3>2
      <4>2. \A v \in Workers : worker'[v].key = worker[u].key => v = u
        BY <1>2, <2>2, <2>5, <4>1 DEF JobsApart
      <4> QED
        BY <1>2, <1>3, <2>1, <2>5, <4>1, <4>2 DEF JobsApart
    <3> QED
      BY <3>1, <3>2
  <2> QED
    BY <1>2, <1>3, <2>1, <2>5 DEF JobsApart
<1>4. ASSUME queue' = queue, worker'[w].key \in {worker[w].key, None}
      PROVE  JobsApart'
  BY <1>2, <1>4 DEF JobsApart
<1>5. ASSUME worker'[w] = [worker[w] EXCEPT !.pc = "refreshing"]
      PROVE  worker'[w].key = worker[w].key
  BY <1>1, <1>5 DEF Worker
<1>6. ASSUME worker'[w] = [worker[w] EXCEPT !.pc = "waiting", !.key = None,
                                            !.rest = 0, !.busy = 0]
      PROVE  worker'[w].key = None
  BY <1>1, <1>6 DEF Worker
<1> QED
  BY <1>3, <1>4, <1>5, <1>6, WorkEffect DEF Takes, Starts, Ends

LEMMA JobsStep == Inv /\ PhaseInv /\ PaceInv /\ JobsApart /\ [Next]_vars => JobsApart'
<1> SUFFICES ASSUME Inv, PhaseInv, PaceInv, JobsApart, [Next]_vars PROVE JobsApart'
  OBVIOUS
<1>1. ASSUME UNCHANGED queue, sweep'.due = sweep.due, sweep'.unread = sweep.unread,
             \A w \in Workers : worker'[w].key = worker[w].key
      PROVE  JobsApart'
  BY <1>1 DEF JobsApart
<1>2. CASE Requests \/ Shutdown \/ QueueClosed \/ UNCHANGED vars
  <2>1. UNCHANGED <<queue, sweep, worker>>
    BY <1>2 DEF Requests, ServeHit, Evict, Fetch, Shutdown, QueueClosed, vars
  <2> QED
    BY <1>1, <2>1
<1>3. CASE SchedulerStopped
  <2>1. sweep' = [sweep EXCEPT !.pc = "stopped"] /\ UNCHANGED <<queue, worker>>
    BY <1>3 DEF SchedulerStopped
  <2>2. sweep'.due = sweep.due /\ sweep'.unread = sweep.unread
    BY <2>1 DEF Inv, TypeOK
  <2> QED
    BY <1>1, <2>1, <2>2
<1>4. ASSUME NEW w \in Workers, WorkerStopped(w) PROVE JobsApart'
  <2>1. worker' = [worker EXCEPT ![w].pc = "stopped"] /\ UNCHANGED <<queue, sweep>>
    BY <1>4 DEF WorkerStopped
  <2>2. \A u \in Workers : worker'[u].key = worker[u].key
    BY <2>1 DEF Inv, TypeOK, Worker
  <2> QED
    BY <1>1, <2>1, <2>2
<1>5. CASE Tick
  <2>1. UNCHANGED <<queue, sweep>>
    BY <1>5 DEF Tick
  <2>2. \A w \in Workers : worker'[w].key = worker[w].key
    BY <1>5 DEF Tick, Aged, Inv, TypeOK, Worker
  <2> QED
    BY <1>1, <2>1, <2>2
<1> QED
  BY <1>2, <1>3, <1>4, <1>5, JobsSweep, JobsWork DEF Next, Close

-----------------------------------------------------------------------------
(* A job is on its way for every key that is owed an attempt.              *)

LEMMA OwedSweep ==
    ASSUME HasCapacity, Inv, PhaseInv, PaceInv, OwedInv, Sweep
    PROVE  OwedInv'
<1> SUFFICES ASSUME Open', NEW k \in owed' PROVE OnItsWay(k)'
  BY DEF OwedInv, OnItsWay
<1>1. /\ sweep \in [pc: {"waiting", "reading", "queueing", "stopped"},
                    unread: Seq(Keys), due: Seq(Keys)]
      /\ queue \in Seq(Keys) /\ owed \subseteq Keys
  BY DEF Inv, TypeOK
<1>2. worker' = worker /\ closing' = closing
  BY DEF Sweep, SweepStart, SweepRead, SweepListed, SweepEnqueue, SweepEnd
<1>3. Open /\ \A j \in owed : OnItsWay(j)
  BY <1>2 DEF Open, OwedInv, OnItsWay
<1>4. CASE SweepStart \/ SweepListed \/ SweepEnd
  <2>1. queue' = queue /\ sweep'.due = sweep.due /\ owed' = owed
    BY <1>1, <1>4 DEF SweepStart, SweepListed, SweepEnd
  <2> QED
    BY <1>2, <1>3, <2>1 DEF OnItsWay
<1>5. CASE SweepRead
  <2> DEFINE j == Head(sweep.unread)
  <2>1. sweep.unread # <<>> /\ queue' = queue
    BY <1>5 DEF SweepRead
  <2>2. j \in Keys
    BY <1>1, <2>1
  <2>3. \/ owed' = owed /\ sweep'.due = sweep.due
        \/ owed' = owed \cup {j} /\ sweep'.due = Append(sweep.due, j)
    BY <1>1, <1>5 DEF SweepRead
  <2>4. \A x : Without(Append(sweep.due, j), x) <=> x # j /\ Without(sweep.due, x)
    BY <1>1, <2>2, AppendJobs
  <2> HIDE DEF j
  <2> QED
    BY <1>2, <1>3, <2>1, <2>3, <2>4 DEF OnItsWay
<1>6. CASE SweepEnqueue
  <2> DEFINE j == Head(sweep.due)
  <2>1. sweep.due # <<>> /\ owed' = owed
    BY <1>6 DEF SweepEnqueue
  <2>2. j \in Keys /\ \A x : Without(sweep.due, x) <=> x # j /\ Without(Tail(sweep.due), x)
    BY <1>1, <2>1, TailJobs
  <2>3. sweep'.due = Tail(sweep.due)
    BY <1>1, <1>6 DEF SweepEnqueue
  <2>4. Len(queue) < QueueSize
    <3> DEFINE q == Len(queue)
               d == Len(sweep.due)
               u == Len(sweep.unread)
    <3>1. d \in Nat \ {0} /\ q \in Nat /\ u \in Nat
      BY <1>1, <2>1
    <3>2. q + d + u <= Cardinality(Keys)
      BY <1>3 DEF PaceInv, Pending
    <3>3. Cardinality(Keys) <= QueueSize
      BY DEF HasCapacity
    <3> HIDE DEF q, d, u
    <3>4. q < QueueSize
      BY <3>1, <3>2, <3>3, CapacityConstants, Constants
    <3> QED
      BY <3>4 DEF q
  <2>5. queue' = Append(queue, j)
    BY <1>6, <2>4 DEF SweepEnqueue, Enqueued
  <2>6. \A x : Without(Append(queue, j), x) <=> x # j /\ Without(queue, x)
    BY <1>1, <2>2, AppendJobs
  <2> HIDE DEF j
  <2> QED
    BY <1>2, <1>3, <2>1, <2>2, <2>3, <2>5, <2>6 DEF OnItsWay
<1> QED
  BY <1>4, <1>5, <1>6 DEF Sweep

\* A worker lets a key go only after an attempt: no other worker has it.
LEMMA OwedWork ==
    ASSUME Inv, PhaseInv, JobsApart, OwedInv, NEW w \in Workers, Work(w)
    PROVE  OwedInv'
<1> SUFFICES ASSUME Open', NEW k \in owed' PROVE OnItsWay(k)'
  BY DEF OwedInv, OnItsWay
<1>1. worker[w] \in Worker /\ queue \in Seq(Keys) /\ owed \subseteq Keys
  BY DEF Inv, TypeOK
<1>2. /\ \A u \in Workers : u # w => worker'[u] = worker[u]
      /\ UNCHANGED <<sweep, closing>>
  BY WorkEffect DEF Alone
<1>3. Open /\ \A j \in owed : OnItsWay(j)
  BY <1>2 DEF Open, OwedInv, OnItsWay
<1>4. CASE /\ worker[w].pc = "waiting" /\ queue # <<>> /\ queue' = Tail(queue)
           /\ worker'[w] = [worker[w] EXCEPT !.pc = "pacing", !.key = Head(queue)]
           /\ owed' = owed
  <2>1. worker[w].key = None /\ worker'[w].key = Head(queue)
    BY <1>1, <1>4 DEF PhaseInv, Worker
  <2>2. \A x : Without(queue, x) <=> x # Head(queue) /\ Without(Tail(queue), x)
    BY <1>1, <1>4, TailJobs
  <2>3. k # None
    BY <1>1, <1>4, Constants
  <2> QED
    BY <1>2, <1>3, <1>4, <2>1, <2>2, <2>3 DEF OnItsWay
<1>5. CASE /\ queue' = queue /\ owed' = owed
           /\ worker'[w] = [worker[w] EXCEPT !.pc = "refreshing"]
  <2>1. worker'[w].key = worker[w].key
    BY <1>1, <1>5 DEF Worker
  <2> QED
    BY <1>2, <1>3, <1>5, <2>1 DEF OnItsWay
<1>6. CASE /\ Paced(w) \/ worker[w].pc = "refreshing"
           /\ queue' = queue
           /\ \/ owed' = owed \ {worker[w].key}
              \/ owed' = owed /\ Paced(w) /\ InProgress(worker[w].key)
  <2>1. worker[w].key # None
    BY <1>1, <1>6, Constants DEF Paced, Inv, JobInv
  <2>2. ~(Paced(w) /\ InProgress(worker[w].key))
    BY <2>1 DEF Paced, InProgress, JobsApart
  <2>3. k \in owed /\ k # worker[w].key
    BY <1>6, <2>2
  <2> QED
    BY <1>2, <1>3, <1>6, <2>3 DEF OnItsWay
<1> QED
  BY <1>4, <1>5, <1>6, WorkEffect DEF Takes, Starts, Ends

LEMMA OwedStep ==
    HasCapacity /\ Inv /\ PhaseInv /\ PaceInv /\ JobsApart /\ OwedInv /\ [Next]_vars
        => OwedInv'
<1> SUFFICES ASSUME HasCapacity, Inv, PhaseInv, PaceInv, JobsApart, OwedInv, [Next]_vars
             PROVE  OwedInv'
  OBVIOUS
<1>1. CASE Requests \/ Shutdown \/ UNCHANGED vars
  <2>1. UNCHANGED <<queue, sweep, worker>> /\ owed' \subseteq owed /\ (Open' => Open)
    BY <1>1 DEF Requests, ServeHit, Evict, Fetch, Shutdown, vars, Open
  <2> QED
    BY <2>1 DEF OwedInv, OnItsWay
<1>2. CASE Close
  <2>1. ~Open'
    BY <1>2 DEF Close, SchedulerStopped, QueueClosed, WorkerStopped, Open
  <2> QED
    BY <2>1 DEF OwedInv
<1>3. CASE Tick
  <2>1. UNCHANGED <<queue, sweep, owed, closing>>
    BY <1>3 DEF Tick
  <2>2. \A w \in Workers : worker'[w].key = worker[w].key
    BY <1>3 DEF Tick, Aged, Inv, TypeOK, Worker
  <2> QED
    BY <2>1, <2>2 DEF OwedInv, OnItsWay, Open
<1> QED
  BY <1>1, <1>2, <1>3, OwedSweep, OwedWork DEF Next

-----------------------------------------------------------------------------

\* What holds while the capacity does. Without capacity nothing is said, and
\* with it all four parts are kept together: the time that is left, where the
\* jobs are, and which keys they are for.
CapacityInv == HasCapacity => PhaseInv /\ PaceInv /\ JobsApart /\ OwedInv

LEMMA CapacityInvariant == Spec => []CapacityInv
<1>1. Init => CapacityInv
  <2>1. Init => OwedInv
    BY DEF Init, OwedInv
  <2> QED
    BY <2>1, PhaseInit, PaceInit, JobsInit DEF CapacityInv
<1>2. Inv /\ CapacityInv /\ [Next]_vars => CapacityInv'
  <2>1. HasCapacity' = HasCapacity
    BY DEF HasCapacity
  <2> QED
    BY <2>1, PhaseStep, PaceStep, JobsStep, OwedStep DEF CapacityInv
<1> QED
  BY <1>1, <1>2, Invariant, PTL DEF Spec

\* With capacity a sweep finds every key that the last one found due attempted
\* since (revalidate_scheduler.go:155-192, refresh_worker.go:151-180).
THEOREM WorkersKeepUp == Spec => []KeepsUp
<1>1. Inv /\ CapacityInv => KeepsUp
  <2> SUFFICES ASSUME Inv, PhaseInv, PaceInv, OwedInv, closing = "running",
                      sweep.pc = "waiting", timer = 0, NEW k \in owed
               PROVE  FALSE
    BY DEF KeepsUp, CapacityInv
  <2>1. Open
    BY DEF Open
  <2>2. /\ queue = <<>> /\ sweep.due = <<>>
        /\ \A w \in Workers : worker[w].key = None
    BY <2>1, AllDone
  <2>3. k # None
    BY Constants DEF Inv, TypeOK
  <2> QED
    BY <2>1, <2>2, <2>3, NoJobs DEF OwedInv, OnItsWay
<1> QED
  BY <1>1, Invariant, CapacityInvariant, PTL

\* With capacity a key has one job at most, queued or taken, although nothing
\* looks at what is queued before a job is (revalidate_scheduler.go:171-189).
THEOREM JobsAreNotRepeated == Spec => []NoJobTwice
<1>1. Inv /\ CapacityInv => NoJobTwice
  <2> SUFFICES ASSUME Inv, JobsApart
               PROVE  /\ \A i, j \in DOMAIN queue : queue[i] = queue[j] => i = j
                      /\ \A w, u \in Workers :
                            worker[w].key # None =>
                                /\ worker[w].key \notin ToSet(queue)
                                /\ worker[w].key = worker[u].key => w = u
    BY DEF NoJobTwice, CapacityInv
  <2>1. DOMAIN queue = 1..Len(queue)
    BY DEF Inv, TypeOK
  <2> QED
    BY <2>1 DEF JobsApart, Distinct, Without, ToSet
<1> QED
  BY <1>1, Invariant, CapacityInvariant, PTL
=============================================================================
