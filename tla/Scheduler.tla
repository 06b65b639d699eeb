------------------------------ MODULE Scheduler ------------------------------
(* scheduler.cpp and the scheduler loop of run_prober (prober.cpp:569-630):     *)
(* when each target is probed, and how a jump of the wall clock is noticed.     *)
(* Times are whole numbers where the code has doubles. The heap is the function *)
(* from a target to its due time; which of two equal ones is on top is open.    *)
EXTENDS Integers, Sequences

CONSTANTS Interval,      \* interval_ms of each active target, in their order
          MaxWait,       \* the longest sleep of the loop (200 ms)
          MaxLate,       \* how much longer than asked an iteration may take
          GapThreshold,  \* kGapThresholdMs
          Jumps,         \* how far the wall clock jumps in a suspension
          MaxMono,       \* bound: the monotonic clock
          MaxJumps,      \* bound: suspensions
          MaxOut         \* bound: entries of `out`

N == Len(Interval)
Targets == 1 .. N

ASSUME SchedulerAssumption ==
  /\ Interval \in Seq(Nat) /\ Interval # << >>
  /\ MaxWait \in Nat \ {0} /\ MaxLate \in Nat
  /\ GapThreshold \in Nat
  /\ \A j \in Jumps : j \in Nat /\ j > GapThreshold
  /\ MaxMono \in Nat /\ MaxJumps \in Nat /\ MaxOut \in Nat

VARIABLES loc,        \* where the loop is
          mono,       \* mono_ms()
          drift,      \* now_utc_ms() - mono_ms()
          due,        \* the heap
          at,         \* now
          out,        \* due, the vector collect_due fills
          cur_mono, prev_mono, prev_wall,
          prev_at,    \* history: `now` of the iteration before
          last,       \* history: `now` when each target was last collected
          before,     \* history: and the time before that
          late,       \* history: some iteration took an interval or longer
          jumps,      \* suspensions so far
          gaps,       \* history: gap_ms of the markers pushed, added up
          unseen      \* history: suspensions since the wall clock was last read

vars == <<loc, mono, drift, due, at, out, cur_mono, prev_mono, prev_wall, prev_at, last,
          before, late, jumps, gaps, unseen>>
clock == <<mono, drift, jumps, unseen>>
past  == <<prev_at, last, before, late>>
gapvars == <<cur_mono, prev_mono, prev_wall, gaps>>

Never == -1

TypeOK ==
  /\ loc \in {"top", "collect", "push", "sleep", "wall", "stopped"}
  /\ mono \in Nat /\ drift \in Nat /\ jumps \in 0 .. MaxJumps
  /\ due \in [Targets -> Nat]
  /\ at \in Nat /\ prev_at \in Nat
  /\ out \in Seq(Targets)
  /\ cur_mono \in Nat /\ prev_mono \in Nat /\ prev_wall \in Nat
  /\ last \in [Targets -> Nat \cup {Never}]
  /\ before \in [Targets -> Nat \cup {Never}]
  /\ late \in BOOLEAN
  /\ gaps \in Nat /\ unseen \in Nat

-----------------------------------------------------------------------------
\* Slips the code could contain; each is checked to break a property.

NextDueNoSkip(d, interval) == d + interval
NextDueFromSlot(d, interval) ==
  IF d + interval < at THEN at + interval ELSE d + interval
PhaseTogether(i) == 0
CollectFromZero(i) ==
  /\ loc = "collect"
  /\ due[i] <= at /\ \A k \in Targets : due[i] <= due[k]
  /\ Len(out) < MaxOut
  /\ out' = Append(out, i - 1)
  /\ due' = [due EXCEPT ![i] = IF @ + Interval[i] <= at THEN at + Interval[i] ELSE @ + Interval[i]]
  /\ last' = [last EXCEPT ![i] = at]
  /\ before' = [before EXCEPT ![i] = last[i]]
  /\ UNCHANGED <<loc, clock, at, gapvars, prev_at, late>>
KeepPrevWall(cur_wall) == IF cur_wall - prev_wall - (cur_mono - prev_mono) > GapThreshold
                          THEN prev_wall ELSE cur_wall

-----------------------------------------------------------------------------
(* Scheduler *)

\* sched.add: the first due times are spread over the interval.
Phase(i) == (Interval[i] * (i - 1)) \div N

Init ==
  /\ loc = "top"
  /\ mono = 0 /\ drift = 0 /\ jumps = 0
  /\ due = [i \in Targets |-> Phase(i)]
  /\ at = 0 /\ prev_at = 0
  /\ out = << >>
  /\ cur_mono = 0 /\ prev_mono = 0 /\ prev_wall = 0
  /\ last = [i \in Targets |-> Never] /\ before = [i \in Targets |-> Never]
  /\ late = FALSE
  /\ gaps = 0 /\ unseen = 0

Earliest(d) == CHOOSE t \in {d[i] : i \in Targets} : \A i \in Targets : t <= d[i]

\* collect_due: the next due time of a target that was due at d.
NextDue(d, interval) ==
  IF d + interval <= at THEN at + interval ELSE d + interval

\* One round of the loop of collect_due.
Collect(i) ==
  /\ loc = "collect"
  /\ due[i] <= at /\ \A k \in Targets : due[i] <= due[k]
  /\ Len(out) < MaxOut
  /\ out' = Append(out, i)
  /\ due' = [due EXCEPT ![i] = NextDue(@, Interval[i])]
  /\ last' = [last EXCEPT ![i] = at]
  /\ before' = [before EXCEPT ![i] = last[i]]
  /\ UNCHANGED <<loc, clock, at, gapvars, prev_at, late>>

CollectReturns ==
  /\ loc = "collect"
  /\ \A i \in Targets : due[i] > at
  /\ loc' = "push"
  /\ UNCHANGED <<clock, due, at, out, gapvars, past>>

-----------------------------------------------------------------------------
(* The loop of run_prober *)

\* stop is false: a new iteration reads the clock.
Iterate ==
  /\ loc = "top"
  /\ at' = mono /\ prev_at' = at
  /\ late' = (late \/ \E i \in Targets : mono - at >= Interval[i])
  /\ out' = << >>
  /\ loc' = "collect"
  /\ UNCHANGED <<clock, due, gapvars, last, before>>

Stop ==
  /\ loc = "top"
  /\ loc' = "stopped"
  /\ UNCHANGED <<clock, due, at, out, gapvars, past>>

\* A job is pushed for every target collected.
PushJobs ==
  /\ loc = "push"
  /\ loc' = "sleep"
  /\ UNCHANGED <<clock, due, at, out, gapvars, past>>

WaitFor ==
  LET w == Earliest(due) - mono IN IF w < 1 THEN 1 ELSE IF w > MaxWait THEN MaxWait ELSE w

\* Sleep until the earliest target is due, at least 1 ms and at most 200 ms; the
\* machine may be slow. Then the monotonic clock is read.
Sleep ==
  /\ loc = "sleep"
  /\ \E extra \in 0 .. MaxLate :
       /\ mono + WaitFor + extra <= MaxMono
       /\ mono' = mono + WaitFor + extra
  /\ cur_mono' = mono'
  /\ loc' = "wall"
  /\ UNCHANGED <<drift, jumps, unseen, due, at, out, prev_mono, prev_wall, gaps, past>>

WallToKeep(cur_wall) == cur_wall

\* The wall clock is read; if it has advanced far more than the monotonic clock
\* since the last iteration, a monitor-gap marker is pushed to the writer.
CheckGap ==
  LET cur_wall == mono + drift
      ahead    == (cur_wall - prev_wall) - (cur_mono - prev_mono)
  IN
  /\ loc = "wall"
  /\ gaps' = IF ahead > GapThreshold THEN gaps + ahead ELSE gaps
  /\ prev_mono' = cur_mono /\ prev_wall' = WallToKeep(cur_wall)
  /\ unseen' = 0
  /\ loc' = "top"
  /\ UNCHANGED <<mono, drift, jumps, due, at, out, cur_mono, past>>

\* The machine is suspended: the wall clock jumps and the monotonic one does not.
Suspend ==
  /\ loc # "stopped" /\ jumps < MaxJumps
  /\ \E j \in Jumps : drift' = drift + j /\ unseen' = unseen + j
  /\ jumps' = jumps + 1
  /\ UNCHANGED <<loc, mono, due, at, out, gapvars, past>>

\* The loop has ended, or the bound on the clock is reached.
Ended ==
  /\ loc = "stopped" \/ (loc = "sleep" /\ mono + WaitFor > MaxMono)
  /\ UNCHANGED vars

Next ==
  \/ \E i \in Targets : Collect(i)
  \/ CollectReturns \/ Iterate \/ Stop \/ PushJobs \/ Sleep \/ CheckGap \/ Suspend \/ Ended

Spec == Init /\ [][Next]_vars

-----------------------------------------------------------------------------
(* Properties *)

\* One call of collect_due collects a target once, however late the loop is:
\* "missed slots are skipped rather than fired in a burst" (scheduler.hpp:9-11).
CollectedOnce ==
  \A i, k \in DOMAIN out : i # k => out[i] # out[k]

\* Over several iterations too: of three firings of a target, the first and the
\* last are more than an interval apart, whatever the loop's delays.
NoCatchingUp ==
  \A i \in Targets : before[i] # Never =>
    /\ due[i] > before[i] + Interval[i]
    /\ last[i] > before[i]

\* "packets never leave in a burst" (README.md:129), for targets of one interval:
\* an iteration that came in time finds one target due.
SameInterval == \A i, k \in Targets : Interval[i] = Interval[k]
InTime == at - prev_at <= Interval[1] \div N
NoBurst == SameInterval /\ InTime => Len(out) <= 1

\* It holds as long as no iteration has ever taken an interval or longer.
NoBurstUntilLate == ~late => NoBurst

\* The markers pushed account for the whole time the machine was suspended, but
\* for suspensions since the wall clock was last read: one that comes between the
\* readings of the two clocks is reported once, now or in the next iteration
\* (prober.cpp:605-618).
GapsAddUp == gaps + unseen = drift
=============================================================================
