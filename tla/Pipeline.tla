------------------------------ MODULE Pipeline ------------------------------
(* The threads of run_prober (prober.cpp:73-131, 344-398, 493-505, 543-640) and *)
(* the queues between them, for one run of the prober: the scheduler pushes      *)
(* jobs, workers probe and push samples, the writer appends them to the segment *)
(* and feeds the outage detector, and the tracer runs the traces the detector   *)
(* asks for. The queues are used as ClosableQueue describes them; the detector  *)
(* is EventDetector, whose `requests` are everything pushed to the trace queue. *)
(* When jobs are due is left to Scheduler and the segment files to SegmentStore.*)
EXTENDS Integers, Sequences, FiniteSets

CONSTANTS Targets, FailThreshold, MinOutageMs, TriggerTraceroute,
          Workers,        \* the worker threads
          HandleMayFail,  \* whether IcmpCreateFile may fail in a worker
          OpenMayFail,    \* whether opening a segment may fail
          SuspendMs,      \* how far the wall clock jumps in a suspension
          MaxJobs,        \* bound: jobs
          MaxSuspends     \* bound: suspensions

AppendMayFail == FALSE
Deltas  == {}
GapMs   == {SuspendMs}
MaxHist == MaxJobs + MaxSuspends + Cardinality(Targets)

ASSUME PipelineAssumption ==
  /\ Targets \subseteq Nat \ {0} /\ IsFiniteSet(Targets)
  /\ FailThreshold \in Int /\ MinOutageMs \in Int /\ TriggerTraceroute \in BOOLEAN
  /\ Workers # {} /\ IsFiniteSet(Workers)
  /\ HandleMayFail \in BOOLEAN /\ OpenMayFail \in BOOLEAN
  /\ SuspendMs \in Nat \ {0}
  /\ MaxJobs \in Nat /\ MaxSuspends \in Nat

VARIABLES st, counter, events, headless, requests, last_utc, phase, hist, dropped,
                          \* the detector
          main,           \* the main thread: the scheduler, then the joins
          jobs, jobs_closed,
          worker,         \* what each worker does
          samples, samples_closed,
          dead,           \* the writer returned early
          traced,         \* traces taken from the queue
          traces_closed,
          tracer,         \* what the tracer does
          awake,          \* suspensions so far
          unseen,         \* a suspension the scheduler has not noticed yet
          issued,         \* history: jobs pushed
          taken,          \* history: what the writer took from the queue
          written         \* history: jobs whose result is in the segment

detector == <<st, counter, events, headless, requests, last_utc, phase, hist, dropped>>
vars == <<detector, main, jobs, jobs_closed, worker, samples, samples_closed, dead, traced,
          traces_closed, tracer, awake, unseen, issued, taken, written>>

H == INSTANCE EventHistory

Monitor == 0
Job     == [id : 1 .. MaxJobs, target : Targets]
\* `at` counts the suspensions before the probe was completed.
Result  == [id : 0 .. MaxJobs, target : Targets \cup {Monitor}, failed : BOOLEAN,
            utc : 0 .. 1 + SuspendMs * MaxSuspends, at : 0 .. MaxSuspends]
Nothing == [id |-> 0, target |-> Monitor, failed |-> FALSE, utc |-> 0, at |-> 0]

TypeOK ==
  /\ H!TypeOK
  /\ main \in {"scheduling", "join workers", "join writer", "join tracer", "returned"}
  /\ jobs \in Seq(Job) /\ jobs_closed \in BOOLEAN
  /\ worker \in [Workers -> [pc : {"starting", "idle", "probing", "stamped", "exited", "refused"},
                             result : Result]]
  /\ samples \in Seq(Result) /\ samples_closed \in BOOLEAN
  /\ dead \in BOOLEAN
  /\ traced \in Nat /\ traces_closed \in BOOLEAN
  /\ tracer \in {"idle", "tracing", "exited"}
  /\ awake \in 0 .. MaxSuspends /\ unseen \in BOOLEAN
  /\ issued \in 0 .. MaxJobs
  /\ taken \in Seq(Result)
  /\ written \in Seq(1 .. MaxJobs)

Init ==
  /\ H!Init
  /\ main = "scheduling"
  /\ jobs = << >> /\ jobs_closed = FALSE
  /\ worker = [w \in Workers |-> [pc |-> "starting", result |-> Nothing]]
  /\ samples = << >> /\ samples_closed = FALSE
  /\ dead = FALSE
  /\ traced = 0 /\ traces_closed = FALSE /\ tracer = "idle"
  /\ awake = 0 /\ unseen = FALSE
  /\ issued = 0 /\ taken = << >> /\ written = << >>

-----------------------------------------------------------------------------
\* Slips the code could contain; each is checked to break a property.

CloseSamplesEarly ==
  /\ main = "join workers"
  /\ samples_closed' = TRUE
  /\ main' = "join writer"
  /\ UNCHANGED <<detector, jobs, jobs_closed, worker, samples, dead, traced, traces_closed,
                 tracer, awake, unseen, issued, taken, written>>

UtcSetBack == 1 - SuspendMs * awake

TakeNewest ==
  /\ samples # << >>
  /\ samples' = SubSeq(samples, 1, Len(samples) - 1)
  /\ taken' = Append(taken, samples[Len(samples)])

TakeJobAndLeaveIt(w) ==
  /\ worker[w].pc = "idle" /\ jobs # << >>
  /\ worker' = [worker EXCEPT ![w] =
       [pc |-> "probing",
        result |-> [Nothing EXCEPT !.id = Head(jobs).id, !.target = Head(jobs).target]]]
  /\ UNCHANGED <<detector, main, jobs, jobs_closed, samples, samples_closed, dead, traced,
                 traces_closed, tracer, awake, unseen, issued, taken, written>>

WriterSkipsFinalize ==
  /\ phase = "finalizing" /\ phase' = "stopped"
  /\ UNCHANGED <<st, counter, events, headless, requests, last_utc, hist, dropped, main, jobs,
                 jobs_closed, worker, samples, samples_closed, dead, traced, traces_closed, tracer, awake,
                 unseen, issued, taken, written>>

FinishTraceAndRetry ==
  /\ tracer = "tracing"
  /\ tracer' = "idle"
  /\ traced' = traced - 1
  /\ UNCHANGED <<detector, main, jobs, jobs_closed, worker, samples, samples_closed, dead,
                 traces_closed, awake, unseen, issued, taken, written>>

-----------------------------------------------------------------------------
(* The main thread *)

\* now_utc_ms(): only a suspension moves the wall clock on.
utc_now == 1 + SuspendMs * awake

\* A target is due: its job is pushed.
PushJob(t) ==
  /\ main = "scheduling" /\ issued < MaxJobs
  /\ issued' = issued + 1
  /\ jobs' = Append(jobs, [id |-> issued + 1, target |-> t])
  /\ UNCHANGED <<detector, main, jobs_closed, worker, samples, samples_closed, dead, traced,
                 traces_closed, tracer, awake, unseen, taken, written>>

\* The loop finds that the wall clock has jumped, and pushes a marker.
PushGap ==
  /\ main = "scheduling" /\ unseen
  /\ unseen' = FALSE
  /\ samples' = Append(samples, [Nothing EXCEPT !.utc = utc_now, !.at = awake])
  /\ UNCHANGED <<detector, main, jobs, jobs_closed, worker, samples_closed, dead, traced,
                 traces_closed, tracer, awake, issued, taken, written>>

\* stop is set: the loop ends and jobs.close() is called.
Shut ==
  /\ main = "scheduling"
  /\ jobs_closed' = TRUE
  /\ main' = "join workers"
  /\ UNCHANGED <<detector, jobs, worker, samples, samples_closed, dead, traced, traces_closed,
                 tracer, awake, unseen, issued, taken, written>>

\* Every worker has returned: samples.close().
JoinWorkers ==
  /\ main = "join workers"
  /\ \A w \in Workers : worker[w].pc \in {"exited", "refused"}
  /\ samples_closed' = TRUE
  /\ main' = "join writer"
  /\ UNCHANGED <<detector, jobs, jobs_closed, worker, samples, dead, traced, traces_closed,
                 tracer, awake, unseen, issued, taken, written>>

\* The writer has returned: traces.close().
JoinWriter ==
  /\ main = "join writer"
  /\ dead \/ phase = "stopped"
  /\ traces_closed' = TRUE
  /\ main' = "join tracer"
  /\ UNCHANGED <<detector, jobs, jobs_closed, worker, samples, samples_closed, dead, traced,
                 tracer, awake, unseen, issued, taken, written>>

JoinTracer ==
  /\ main = "join tracer"
  /\ tracer = "exited"
  /\ main' = "returned"
  /\ UNCHANGED <<detector, jobs, jobs_closed, worker, samples, samples_closed, dead, traced,
                 traces_closed, tracer, awake, unseen, issued, taken, written>>

-----------------------------------------------------------------------------
(* worker_loop *)

rest == <<detector, main, jobs_closed, samples_closed, dead, traced, traces_closed, tracer,
          awake, unseen, issued, taken, written>>

\* The worker opens its ICMP handle, or returns at once if it cannot.
OpenHandle(w) ==
  /\ worker[w].pc = "starting"
  /\ \E next \in IF HandleMayFail THEN {"idle", "refused"} ELSE {"idle"} :
       worker' = [worker EXCEPT ![w].pc = next]
  /\ UNCHANGED <<rest, jobs, samples>>

TakeJob(w) ==
  /\ worker[w].pc = "idle" /\ jobs # << >>
  /\ worker' = [worker EXCEPT ![w] =
       [pc |-> "probing",
        result |-> [Nothing EXCEPT !.id = Head(jobs).id, !.target = Head(jobs).target]]]
  /\ jobs' = Tail(jobs)
  /\ UNCHANGED <<rest, samples>>

\* The probe is answered or times out, and is stamped with the time.
FinishProbe(w) ==
  /\ worker[w].pc = "probing"
  /\ \E failed \in BOOLEAN :
       worker' = [worker EXCEPT ![w] =
         [pc |-> "stamped",
          result |-> [worker[w].result EXCEPT !.failed = failed, !.utc = utc_now, !.at = awake]]]
  /\ UNCHANGED <<rest, jobs, samples>>

PushSample(w) ==
  /\ worker[w].pc = "stamped"
  /\ samples' = Append(samples, worker[w].result)
  /\ worker' = [worker EXCEPT ![w] = [pc |-> "idle", result |-> Nothing]]
  /\ UNCHANGED <<rest, jobs>>

WorkerReturns(w) ==
  /\ worker[w].pc = "idle" /\ jobs = << >> /\ jobs_closed
  /\ worker' = [worker EXCEPT ![w].pc = "exited"]
  /\ UNCHANGED <<rest, jobs, samples>>

-----------------------------------------------------------------------------
(* writer_loop *)

writer_rest == <<main, jobs, jobs_closed, worker, samples_closed, traced, traces_closed, tracer,
                 awake, unseen, issued>>

Take == samples # << >> /\ samples' = Tail(samples) /\ taken' = Append(taken, Head(samples))

\* A probe's result: appended to the segment and given to the detector.
WriteSample ==
  /\ ~dead /\ Take
  /\ Head(samples).target # Monitor
  /\ written' = Append(written, Head(samples).id)
  /\ H!Sample(Head(samples).target, Head(samples).failed, Head(samples).utc)
  /\ UNCHANGED <<writer_rest, dead>>

WriteGap ==
  /\ ~dead /\ Take
  /\ Head(samples).target = Monitor
  /\ H!Gap(SuspendMs, Head(samples).utc)
  /\ UNCHANGED <<writer_rest, dead, written>>

\* open_aligned fails: at the start, or in a rotation with a sample in hand.
WriterDies ==
  /\ OpenMayFail /\ ~dead /\ phase = "running"
  /\ dead' = TRUE
  /\ \/ Take
     \/ taken = << >> /\ UNCHANGED <<samples, taken>>
  /\ UNCHANGED <<writer_rest, detector, written>>

\* The queue is closed and drained: the open outages are finalized.
WriterStops ==
  /\ ~dead /\ samples = << >> /\ samples_closed
  /\ H!Stop
  /\ UNCHANGED <<writer_rest, samples, taken, dead, written>>

WriterFinalizes ==
  /\ (\E t \in Targets : H!FinalizeOutage(t)) \/ H!Finalized
  /\ UNCHANGED <<writer_rest, samples, taken, dead, written>>

-----------------------------------------------------------------------------
(* trace_loop *)

tracer_rest == <<detector, main, jobs, jobs_closed, worker, samples, samples_closed, dead,
                 traces_closed, awake, unseen, issued, taken, written>>

TakeTrace ==
  /\ tracer = "idle" /\ traced < Len(requests)
  /\ traced' = traced + 1
  /\ tracer' = "tracing"
  /\ UNCHANGED tracer_rest

\* The route is traced (cut short once stop is set), or the file cannot be
\* created.
FinishTrace ==
  /\ tracer = "tracing"
  /\ tracer' = "idle"
  /\ UNCHANGED <<tracer_rest, traced>>

TracerReturns ==
  /\ tracer = "idle" /\ traced = Len(requests) /\ traces_closed
  /\ tracer' = "exited"
  /\ UNCHANGED <<tracer_rest, traced>>

-----------------------------------------------------------------------------
(* The environment *)

\* The machine sleeps. What wakes first, the scheduler or a worker, is open.
Suspend ==
  /\ main = "scheduling" /\ awake < MaxSuspends /\ ~unseen
  /\ awake' = awake + 1
  /\ unseen' = TRUE
  /\ UNCHANGED <<detector, main, jobs, jobs_closed, worker, samples, samples_closed, dead, traced,
                 traces_closed, tracer, issued, taken, written>>

Returned == main = "returned" /\ UNCHANGED vars

Main   == PushGap \/ JoinWorkers \/ JoinWriter \/ JoinTracer
Work(w) == OpenHandle(w) \/ TakeJob(w) \/ FinishProbe(w) \/ PushSample(w) \/ WorkerReturns(w)
Writer == WriteSample \/ WriteGap \/ WriterStops \/ WriterFinalizes
Tracer == TakeTrace \/ FinishTrace \/ TracerReturns

Next ==
  \/ \E t \in Targets : PushJob(t)
  \/ Shut \/ Main
  \/ \E w \in Workers : Work(w)
  \/ Writer \/ WriterDies
  \/ Tracer
  \/ Suspend \/ Returned

\* Every thread that can run does: a probe and a trace end by their timeouts.
\* Nothing obliges anyone to stop the program.
Fairness ==
  /\ WF_vars(Main) /\ WF_vars(Writer) /\ WF_vars(Tracer)
  /\ \A w \in Workers : WF_vars(Work(w))

SafeSpec == Init /\ [][Next]_vars
Spec     == SafeSpec /\ Fairness

-----------------------------------------------------------------------------
(* Properties *)

Ids(s) == {s[i].id : i \in DOMAIN s} \ {0}
Held   == {worker[w].result.id : w \in Workers} \ {0}

\* A job is at one place on its way to the segment at any time, and is written
\* once, whatever threads it passes through.
EachJobOnce ==
  LET waiting == {jobs[i].id : i \in DOMAIN jobs}
      queued  == Ids(samples)
      done    == Ids(taken)
  IN  /\ waiting \cup Held \cup queued \cup done = 1 .. issued
      /\ waiting \cap (Held \cup queued \cup done) = {}
      /\ Held \cap (queued \cup done) = {} /\ queued \cap done = {}
      /\ \A i, j \in DOMAIN written : i # j => written[i] # written[j]

\* "Stopping with Ctrl+C flushes and seals the current segment; nothing is lost"
\* (README.md:210): when run_prober returns every job has its record, unless the
\* writer returned early (prober.cpp:297, 353) or no worker has an ICMP handle.
NothingLostIfHealthy ==
  main = "returned" /\ ~dead /\ (\E w \in Workers : worker[w].pc = "exited") =>
    {written[i] : i \in DOMAIN written} = 1 .. issued

\* When run_prober returns every outage is reported, an open one too, as the history
\* of what the writer was told has it, and every trace an outage asked for has been
\* run, those of outages found while draining the queue included.
AllOutagesReported ==
  /\ H!LogMatchesHistory
  /\ main = "returned" => traced = Len(requests)
  /\ main = "returned" /\ ~dead => \A t \in Targets : ~st[t].in_outage

\* Once stop is set run_prober returns: no thread waits for one that waits for
\* it, even if a worker has no handle or the writer has returned early.
ShutdownCompletes == (main = "join workers") ~> (main = "returned")

\* The samples queue is used as a closable queue with one consumer.
SamplesQueue == INSTANCE ClosableQueue
  WITH Consumers <- {"writer"}, Item <- Result, q <- samples, closed <- samples_closed,
       finished <- IF phase = "running" THEN {} ELSE {"writer"}
UsesClosableQueue == SamplesQueue!SafeSpec

\* "Clears pending failure counters after a monitor gap so pre-/post-gap failures
\* don't merge into a false outage" (events.hpp:53-54): the failures that open an
\* outage are all from before a suspension or all from after it.
GapSeparatesRuns ==
  \A t \in Targets : \A o \in DOMAIN taken : \A a \in 1 .. o :
    H!Opens(t, a, o) => taken[a].at = taken[o].at
=============================================================================
