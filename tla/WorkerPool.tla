------------------------------ MODULE WorkerPool ------------------------------
(* How long jobs wait: the scheduler of run_prober feeding its worker threads   *)
(* through the unbounded queue `jobs` (prober.cpp:65-91, 553-567, 591-603). A   *)
(* probe holds its worker until the answer or the timeout. Workers that are     *)
(* free take jobs at once: the wait is what the code causes, not the machine.   *)
(* The queue itself is in BlockingQueue, what becomes of the results in         *)
(* Pipeline; here is the time.                                                  *)
EXTENDS Scheduler, FiniteSets

CONSTANTS Threads,     \* threads there could be
          MaxWorkers,  \* 64
          Answer,      \* how long an answered probe takes
          Timeout      \* timeout_ms, which an unanswered one takes

ASSUME PoolAssumption ==
  /\ MaxWorkers \in Nat \ {0} /\ IsFiniteSet(Threads) /\ Cardinality(Threads) >= 2
  /\ Answer \in Nat \ {0} /\ Timeout \in Nat /\ Answer <= Timeout

VARIABLES jobs,     \* the queue: targets, and when each was pushed
          free_at,  \* when each worker is done with its probe
          sent      \* history: when the last probe left

pool == <<jobs, free_at, sent>>

PoolTypeOK ==
  /\ TypeOK
  /\ jobs \in Seq([target : Targets, at : Nat])
  /\ \E W \in SUBSET Threads : free_at \in [W -> Nat]
  /\ sent \in Nat \cup {Never}

Smaller(a, b) == IF a < b THEN a ELSE b
Larger(a, b)  == IF a < b THEN b ELSE a

-----------------------------------------------------------------------------
\* Slips the code could contain; each is checked to break a property.
WorkersBoundsSwapped == Smaller(2, Larger(N, MaxWorkers))
-----------------------------------------------------------------------------
\* n_workers
Workers == Larger(2, Smaller(N, MaxWorkers))

PoolInit ==
  /\ Init
  /\ jobs = << >>
  /\ \E W \in SUBSET Threads : Cardinality(W) = Workers /\ free_at = [w \in W |-> 0]
  /\ sent = Never

\* The queue after the loop that pushes a job for every target in `due`.
Pushed == jobs \o [k \in DOMAIN out |-> [target |-> out[k], at |-> mono]]

\* Worker w is the next to call pop(), and gets a job at this time.
TakenAt(w) == Larger(free_at[w], Head(jobs).at)
MayTake(w) ==
  /\ jobs # << >>
  /\ \A v \in DOMAIN free_at : free_at[w] <= free_at[v]
  /\ TakenAt(w) <= mono

\* pop() and the probe: tcp_ping or ping returns after an answer or the timeout.
Probe(w) ==
  /\ MayTake(w)
  /\ jobs' = Tail(jobs)
  /\ \E d \in {Answer, Timeout} : free_at' = [free_at EXCEPT ![w] = TakenAt(w) + d]
  /\ sent' = TakenAt(w)
  /\ UNCHANGED vars

SchedulerStep ==
  /\ \A w \in DOMAIN free_at : ~MayTake(w)
  /\ \/ PushJobs /\ jobs' = Pushed
     \/ /\ \/ \E i \in Targets : Collect(i)
           \/ CollectReturns \/ Iterate \/ Stop \/ Sleep \/ CheckGap \/ Suspend \/ Ended
        /\ UNCHANGED jobs
  /\ UNCHANGED <<free_at, sent>>

PoolNext == SchedulerStep \/ \E w \in DOMAIN free_at : Probe(w)

PoolSpec == PoolInit /\ [][PoolNext]_<<vars, pool>>

-----------------------------------------------------------------------------
(* Properties *)

Waiting(i) == {k \in DOMAIN jobs : jobs[k].target = i}

\* With a worker for every target and no timeout above an interval, the queue
\* keeps up whatever times out and however late the scheduler is: a target's job
\* is taken before its next one is pushed, so that no more than one job of a
\* target ever waits (prober.cpp:560-561, 597, scheduler.cpp:16-29).
QueueKeepsUp ==
  (N <= MaxWorkers /\ \A i \in Targets : Timeout <= Interval[i]) =>
    \A i \in Targets : Cardinality(Waiting(i)) <= 1

\* The scheduler "phase-spreads probe starts across the interval, so packets
\* never leave in a burst" (README.md:128-129): with targets of one interval and
\* an iteration that is never late, the sends of two probes lie apart.
PacketsLeaveApart ==
  [][SameInterval /\ sent # Never /\ Len(jobs') < Len(jobs) =>
       sent' - sent >= Interval[1] \div N]_pool
=============================================================================
