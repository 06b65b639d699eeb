--------------------------- MODULE WorkerPoolProofs ---------------------------
(* Proofs about Scheduler and the pool it feeds, for any number of targets and  *)
(* threads, any intervals, delays, timeouts, gap threshold and suspensions.     *)
(* First the scheduler alone: its types, that one call of collect_due collects  *)
(* a target once and that no target catches up on missed slots (both for        *)
(* intervals that are not zero), that the markers of suspensions add up, and    *)
(* that due times stay apart until an iteration is late. Then the pool, whose   *)
(* scheduler does not see its workers, and whose queue keeps up.                *)
EXTENDS WorkerPool, DataLemmas, FiniteSetTheorems

\* There is a target, and its interval is a number.
LEMMA TargetsExist ==
  /\ N \in Nat \ {0} /\ 1 \in Targets
  /\ \A i \in Targets : Interval[i] \in Nat /\ i \in Nat \ {0}
<1>1. Interval \in Seq(Nat) /\ Interval # << >>
  BY SchedulerAssumption
<1> QED BY <1>1 DEF N, Targets

\* Phases are natural numbers.
LEMMA PhaseType == ASSUME NEW i \in Targets PROVE Phase(i) \in Nat
<1>1. \A a \in Nat, b \in Nat \ {0} : a \div b \in Nat
  OBVIOUS
<1>2. \A a, b \in Nat : a * b \in Nat
  OBVIOUS
<1>3. i - 1 \in Nat /\ Interval[i] \in Nat /\ N \in Nat \ {0}
  BY TargetsExist
<1>4. Interval[i] * (i - 1) \in Nat
  BY <1>2, <1>3
<1> QED BY <1>1, <1>3, <1>4 DEF Phase

\* The loop sleeps for a positive time, whichever target is due first.
LEMMA WaitForType == ASSUME TypeOK PROVE WaitFor \in Nat \ {0}
<1> DEFINE S == {due[i] : i \in Targets}
<1>1. S \subseteq Nat /\ S # {}
  BY TargetsExist DEF TypeOK
<1>2. \E t \in S : \A n \in S : t <= n
  <2> HIDE DEF S
  <2> QED BY <1>1, LeastNat
<1>3. \E t \in S : \A i \in Targets : t <= due[i]
  BY <1>2
<1>4. Earliest(due) \in S
  BY <1>3 DEF Earliest
<1>5. Earliest(due) \in Nat /\ mono \in Nat /\ MaxWait \in Nat \ {0}
  <2> HIDE DEF S
  <2> QED BY <1>1, <1>4, SchedulerAssumption DEF TypeOK
<1> QED BY <1>5 DEF WaitFor

\* Due times are natural numbers.
LEMMA NextDueType ==
  ASSUME NEW d \in Nat, NEW interval \in Nat, at \in Nat
  PROVE  NextDue(d, interval) \in Nat
BY DEF NextDue

-----------------------------------------------------------------------------
\* The types hold at the start.
LEMMA InitType == Init => TypeOK
<1> SUFFICES ASSUME Init PROVE TypeOK
  OBVIOUS
<1>1. due \in [Targets -> Nat]
  BY PhaseType DEF Init
<1>2. 0 \in 0 .. MaxJumps
  BY SchedulerAssumption
<1>3. out \in Seq(Targets)
  BY DEF Init
<1>4. last \in [Targets -> Nat \cup {Never}] /\ before \in [Targets -> Nat \cup {Never}]
  BY DEF Init
<1>5. late \in BOOLEAN
  BY DEF Init
<1> QED BY <1>1, <1>2, <1>3, <1>4, <1>5 DEF Init, TypeOK

\* Every step keeps the types.
LEMMA TypeStep == TypeOK /\ [Next]_vars => TypeOK'
<1> SUFFICES ASSUME TypeOK, [Next]_vars PROVE TypeOK'
  OBVIOUS
<1> USE DEF TypeOK, clock, past, gapvars
<1>1. ASSUME NEW i \in Targets, Collect(i) PROVE TypeOK'
  <2>1. NextDue(due[i], Interval[i]) \in Nat
    BY NextDueType, TargetsExist
  <2>2. due' \in [Targets -> Nat]
    BY <1>1, <2>1 DEF Collect
  <2>3. last' \in [Targets -> Nat \cup {Never}] /\ before' \in [Targets -> Nat \cup {Never}]
    BY <1>1 DEF Collect
  <2>4. out' \in Seq(Targets)
    BY <1>1 DEF Collect
  <2> QED BY <1>1, <2>2, <2>3, <2>4 DEF Collect
<1>2. CASE CollectReturns
  BY <1>2 DEF CollectReturns
<1>3. CASE Iterate
  BY <1>3 DEF Iterate
<1>4. CASE Stop
  BY <1>4 DEF Stop
<1>5. CASE PushJobs
  BY <1>5 DEF PushJobs
<1>6. CASE Sleep
  <2>1. mono' \in Nat
    BY <1>6, WaitForType, SchedulerAssumption DEF Sleep
  <2> QED BY <1>6, <2>1 DEF Sleep
<1>7. CASE CheckGap
  <2>1. gaps' \in Nat
    BY <1>7, SchedulerAssumption DEF CheckGap
  <2>2. prev_wall' \in Nat
    BY <1>7 DEF CheckGap, WallToKeep
  <2> QED BY <1>7, <2>1, <2>2 DEF CheckGap
<1>8. CASE Suspend
  BY <1>8, SchedulerAssumption DEF Suspend
<1>9. CASE UNCHANGED vars
  BY <1>9 DEF vars
<1> QED BY <1>1, <1>2, <1>3, <1>4, <1>5, <1>6, <1>7, <1>8, <1>9 DEF Next, Ended

\* The variables of the scheduler loop keep their types, for every
\* configuration (scheduler.cpp, prober.cpp:569-630).
THEOREM TypeCorrect == Spec => []TypeOK
<1>1. Init => TypeOK
  BY InitType
<1>2. TypeOK /\ [Next]_vars => TypeOK'
  BY TypeStep
<1> QED BY <1>1, <1>2, PTL DEF Spec

-----------------------------------------------------------------------------
(* Collecting: a target that was collected is due later than `now`. *)

Positive == \A i \in Targets : Interval[i] > 0

OutIsDueLater == \A k \in DOMAIN out : due[out[k]] > at
LastIsBeforeDue == \A i \in Targets : last[i] # Never => due[i] > last[i]

CollectInv ==
  /\ TypeOK
  /\ OutIsDueLater
  /\ LastIsBeforeDue
  /\ CollectedOnce
  /\ NoCatchingUp

\* A round of collect_due keeps the invariant.
LEMMA CollectStep ==
  ASSUME Positive, CollectInv, NEW i \in Targets, Collect(i)
  PROVE  OutIsDueLater' /\ LastIsBeforeDue' /\ CollectedOnce' /\ NoCatchingUp'
<1> USE DEF TypeOK
<1>0. TypeOK
  BY DEF CollectInv
<1>1. /\ due[i] \in Nat /\ at \in Nat /\ Interval[i] \in Nat /\ Interval[i] > 0
      /\ due[i] <= at /\ at' = at
  BY <1>0, TargetsExist DEF Collect, Positive
<1>2. /\ due' = [due EXCEPT ![i] = NextDue(due[i], Interval[i])]
      /\ NextDue(due[i], Interval[i]) > at
      /\ NextDue(due[i], Interval[i]) >= due[i] + Interval[i]
      /\ NextDue(due[i], Interval[i]) \in Nat
  BY <1>1 DEF Collect, NextDue
<1>3. \A k \in DOMAIN out : out[k] # i
  BY <1>1 DEF CollectInv, OutIsDueLater
<1>4. /\ out' = Append(out, i) /\ out \in Seq(Targets)
      /\ DOMAIN out' = 1 .. Len(out) + 1
      /\ out'[Len(out) + 1] = i
      /\ \A k \in DOMAIN out : out'[k] = out[k] /\ out[k] \in Targets
  BY <1>0 DEF Collect
<1>5. OutIsDueLater'
  <2> SUFFICES ASSUME NEW k \in DOMAIN out' PROVE due'[out'[k]] > at'
    BY DEF OutIsDueLater
  <2>1. CASE k \in DOMAIN out
    BY <1>0, <1>1, <1>2, <1>3, <1>4, <2>1 DEF CollectInv, OutIsDueLater
  <2>2. CASE k = Len(out) + 1
    BY <1>0, <1>1, <1>2, <1>4, <2>2
  <2> QED BY <1>4, <2>1, <2>2
<1>6. CollectedOnce'
  BY <1>3, <1>4 DEF CollectInv, CollectedOnce
<1>7. last' = [last EXCEPT ![i] = at] /\ before' = [before EXCEPT ![i] = last[i]]
  BY DEF Collect
<1>8. LastIsBeforeDue'
  BY <1>0, <1>1, <1>2, <1>7 DEF CollectInv, LastIsBeforeDue
<1>9. NoCatchingUp'
  <2> SUFFICES ASSUME NEW k \in Targets, before'[k] # Never
               PROVE  due'[k] > before'[k] + Interval[k] /\ last'[k] > before'[k]
    BY DEF NoCatchingUp
  <2>1. CASE k = i
    <3>1. last[i] # Never /\ last[i] \in Nat /\ due[i] > last[i]
      BY <1>0, <1>7, <2>1 DEF CollectInv, LastIsBeforeDue
    <3> QED BY <1>0, <1>1, <1>2, <1>7, <2>1, <3>1
  <2>2. CASE k # i
    BY <1>0, <1>2, <1>7, <2>2 DEF CollectInv, NoCatchingUp
  <2> QED BY <2>1, <2>2
<1> QED BY <1>5, <1>6, <1>8, <1>9

\* Every step keeps the invariant.
LEMMA CollectInvStep ==
  ASSUME Positive PROVE CollectInv /\ [Next]_vars => CollectInv'
<1> SUFFICES ASSUME CollectInv, [Next]_vars PROVE CollectInv'
  OBVIOUS
<1>0. TypeOK'
  BY TypeStep DEF CollectInv
<1>1. ASSUME NEW i \in Targets, Collect(i) PROVE CollectInv'
  BY <1>0, <1>1, CollectStep DEF CollectInv
<1>2. CASE Iterate
  <2>1. /\ out' = << >> /\ due' = due /\ last' = last /\ before' = before
    BY <1>2 DEF Iterate
  <2> QED BY <1>0, <2>1 DEF CollectInv, OutIsDueLater, LastIsBeforeDue, CollectedOnce,
                            NoCatchingUp
<1>3. ASSUME UNCHANGED <<out, due, at, last, before>> PROVE CollectInv'
  BY <1>0, <1>3 DEF CollectInv, OutIsDueLater, LastIsBeforeDue, CollectedOnce, NoCatchingUp
<1>4. Next => \/ \E i \in Targets : Collect(i)
              \/ Iterate
              \/ UNCHANGED <<out, due, at, last, before>>
  BY DEF Next, CollectReturns, Stop, PushJobs, Sleep, CheckGap, Suspend, Ended, clock, past,
         gapvars, vars
<1> QED BY <1>1, <1>2, <1>3, <1>4 DEF vars

\* The invariant holds at the start.
LEMMA CollectInvInit == Init => CollectInv
<1> SUFFICES ASSUME Init PROVE CollectInv
  OBVIOUS
<1>1. TypeOK
  BY InitType
<1>2. out = << >> /\ \A i \in Targets : last[i] = Never /\ before[i] = Never
  BY DEF Init
<1> QED BY <1>1, <1>2 DEF CollectInv, OutIsDueLater, LastIsBeforeDue, CollectedOnce,
                          NoCatchingUp

\* One call of collect_due collects a target at most once, however late the
\* loop is, if no interval is zero (scheduler.cpp:16-29).
THEOREM EachDueTargetOnce == Positive => (Spec => []CollectedOnce)
<1> SUFFICES ASSUME Positive PROVE Spec => []CollectedOnce
  OBVIOUS
<1>1. Init => CollectInv
  BY CollectInvInit
<1>2. CollectInv /\ [Next]_vars => CollectInv'
  BY CollectInvStep
<1>3. CollectInv => CollectedOnce
  BY DEF CollectInv
<1> QED BY <1>1, <1>2, <1>3, PTL DEF Spec

\* Missed slots are not made up for: of three firings of a target the first and
\* the last are more than an interval apart (scheduler.cpp:22-26).
THEOREM MissedSlotsAreSkipped == Positive => (Spec => []NoCatchingUp)
<1> SUFFICES ASSUME Positive PROVE Spec => []NoCatchingUp
  OBVIOUS
<1>1. Init => CollectInv
  BY CollectInvInit
<1>2. CollectInv /\ [Next]_vars => CollectInv'
  BY CollectInvStep
<1>3. CollectInv => NoCatchingUp
  BY DEF CollectInv
<1> QED BY <1>1, <1>2, <1>3, PTL DEF Spec

-----------------------------------------------------------------------------
(* Gaps: what the last comparison of the clocks saw has been reported, and what *)
(* has come since is nothing or more than the threshold.                        *)

GapInv ==
  /\ TypeOK
  /\ gaps = prev_wall - prev_mono
  /\ GapsAddUp
  /\ unseen = 0 \/ unseen > GapThreshold
  /\ loc = "wall" => cur_mono = mono
  /\ loc \in {"top", "collect", "push", "sleep"} => prev_mono = mono

\* Every step keeps the account of the suspensions.
LEMMA GapInvStep == GapInv /\ [Next]_vars => GapInv'
<1> SUFFICES ASSUME GapInv, [Next]_vars PROVE GapInv'
  OBVIOUS
<1>0. TypeOK /\ TypeOK'
  BY TypeStep DEF GapInv
<1>a. GapThreshold \in Nat /\ \A j \in Jumps : j \in Nat /\ j > GapThreshold
  BY SchedulerAssumption
<1> USE DEF GapInv, GapsAddUp, clock, past, gapvars
<1>1. ASSUME NEW i \in Targets, Collect(i) PROVE GapInv'
  BY <1>0, <1>1 DEF Collect
<1>2. CASE CollectReturns
  BY <1>0, <1>2 DEF CollectReturns
<1>3. CASE Iterate
  BY <1>0, <1>3 DEF Iterate
<1>4. CASE Stop
  BY <1>0, <1>4 DEF Stop
<1>5. CASE PushJobs
  BY <1>0, <1>5 DEF PushJobs
<1>6. CASE Sleep
  BY <1>0, <1>6 DEF Sleep
<1>7. CASE CheckGap
  <2>1. /\ loc = "wall" /\ loc' = "top" /\ cur_mono = mono
        /\ prev_mono' = mono /\ prev_wall' = mono + drift
        /\ drift' = drift /\ mono' = mono /\ cur_mono' = cur_mono /\ unseen' = 0
    BY <1>7 DEF CheckGap, WallToKeep
  <2>2. gaps' = IF unseen > GapThreshold THEN drift ELSE gaps
    BY <1>0, <1>7, <2>1 DEF CheckGap, TypeOK
  <2>3. gaps' = drift
    BY <1>0, <1>a, <2>2 DEF TypeOK
  <2> QED BY <1>0, <2>1, <2>3 DEF TypeOK
<1>8. CASE Suspend
  <2>1. PICK j \in Jumps : drift' = drift + j /\ unseen' = unseen + j
    BY <1>8 DEF Suspend
  <2>2. /\ loc' = loc /\ mono' = mono /\ gaps' = gaps /\ cur_mono' = cur_mono
        /\ prev_mono' = prev_mono /\ prev_wall' = prev_wall
    BY <1>8 DEF Suspend
  <2>3. gaps \in Nat /\ unseen \in Nat /\ drift \in Nat
    BY <1>0 DEF TypeOK
  <2>4. j \in Nat /\ j > GapThreshold /\ GapThreshold \in Nat
    BY <1>a
  <2>5. gaps' + unseen' = drift'
    BY <2>1, <2>2, <2>3, <2>4
  <2>6. unseen' > GapThreshold
    BY <2>1, <2>3, <2>4
  <2> QED BY <1>0, <2>2, <2>5, <2>6
<1>9. CASE UNCHANGED vars
  BY <1>0, <1>9 DEF vars
<1> QED BY <1>1, <1>2, <1>3, <1>4, <1>5, <1>6, <1>7, <1>8, <1>9 DEF Next, Ended

\* The markers pushed add up to the time the machine was suspended until the
\* wall clock was last read, wherever between the readings of the two clocks a
\* suspension comes (prober.cpp:605-618).
THEOREM SuspensionsAreReported == Spec => []GapsAddUp
<1>1. Init => GapInv
  BY InitType DEF Init, GapInv, GapsAddUp
<1>2. GapInv /\ [Next]_vars => GapInv'
  BY GapInvStep
<1>3. GapInv => GapsAddUp
  BY DEF GapInv
<1> QED BY <1>1, <1>2, <1>3, PTL DEF Spec

-----------------------------------------------------------------------------
(* Bursts: while no iteration is late, the due times of targets of one interval  *)
(* stay as far apart as they were at the start.                                  *)

\* A unit of time for each target, in which the first due times differ.
RoomForAll == Interval[1] >= N

\* Division rounds down.
LEMMA DivBounds ==
  ASSUME NEW a \in Nat, NEW b \in Nat \ {0}
  PROVE  a \div b \in Nat /\ b * (a \div b) <= a /\ a < b * (a \div b) + b
  OBVIOUS

\* A multiple is not smaller than what it is a multiple of.
LEMMA AtLeastOnce ==
  ASSUME NEW a \in Nat, NEW c \in Int
  PROVE  /\ a * c \in Int
         /\ c >= 1 => a * c >= a
         /\ c <= -1 => a * c <= -a
  OBVIOUS

\* Multiples keep the order.
LEMMA MoreByMore ==
  ASSUME NEW n \in Nat, NEW x \in Int, NEW y \in Int, x <= y
  PROVE  n * x \in Int /\ n * y \in Int /\ n * x <= n * y
  OBVIOUS

\* The order of multiples is the order of what is multiplied.
LEMMA LessByMore ==
  ASSUME NEW n \in Nat \ {0}, NEW x \in Int, NEW y \in Int, n * x < n * y
  PROVE  x < y
<1>1. x >= y => n * x >= n * y
  OBVIOUS
<1> QED BY <1>1

\* The first due times of two targets differ by an N-th of the interval or more, and
\* so do those of the next round and of this.
LEMMA PhasesApart ==
  ASSUME SameInterval, RoomForAll, NEW i \in Targets, NEW j \in Targets, j < i
  PROVE  /\ Phase(i) - Phase(j) >= Interval[1] \div N
         /\ Phase(i) - Phase(j) <= Interval[1] - Interval[1] \div N
<1>1. /\ N \in Nat \ {0} /\ 1 \in Targets /\ i \in 1 .. N /\ j \in 1 .. N
      /\ Interval[1] \in Nat /\ Interval[i] = Interval[1] /\ Interval[j] = Interval[1]
  BY TargetsExist DEF SameInterval, Targets
<1> PICK L \in Nat, n \in Nat \ {0} : L = Interval[1] /\ n = N
  BY <1>1
<1> PICK x, y, q : x = (L * (i - 1)) \div n /\ y = (L * (j - 1)) \div n /\ q = L \div n
  OBVIOUS
<1>2. Phase(i) = x /\ Phase(j) = y /\ Interval[1] \div N = q
  BY <1>1 DEF Phase
<1> PICK a, b : a = L * (i - 1) /\ b = L * (j - 1)
  OBVIOUS
<1>3. a \in Nat /\ b \in Nat /\ x \in Nat /\ y \in Nat /\ q \in Nat
  <2>1. i - 1 \in Nat /\ j - 1 \in Nat
    BY <1>1
  <2>2. \A u, v \in Nat : u * v \in Nat
    OBVIOUS
  <2>3. a \in Nat /\ b \in Nat
    BY <2>1, <2>2
  <2> QED BY <2>3, DivBounds
<1>4. n * x <= a /\ a < n * x + n /\ n * y <= b /\ b < n * y + n /\ n * q <= L
  BY <1>1, <1>3, DivBounds
<1>5. a - b >= L /\ a - b <= L * n - L
  <2>1. a - b = L * (i - j)
    BY <1>1
  <2>2. L * 1 <= L * (i - j) /\ L * (i - j) <= L * (n - 1)
    <3>1. i - j \in Int /\ n - 1 \in Int /\ 1 <= i - j /\ i - j <= n - 1
      BY <1>1
    <3> QED BY <3>1, MoreByMore
  <2>3. L * (n - 1) = L * n - L
    BY <1>1
  <2> QED BY <2>1, <2>2, <2>3
<1>6. n * (x - y) > n * (q - 1)
  <2>1. n * (x - y) = n * x - n * y /\ n * (q - 1) = n * q - n
    BY <1>3
  <2> QED BY <1>3, <1>4, <1>5, <2>1
<1>7. n * (x - y) < n * (L - q + 1)
  <2>1. n * (x - y) = n * x - n * y /\ n * (L - q + 1) = L * n - n * q + n
    BY <1>3
  <2> QED BY <1>3, <1>4, <1>5, <2>1
<1>8. x - y > q - 1
  BY <1>3, <1>6, LessByMore
<1>9. x - y < L - q + 1
  BY <1>3, <1>7, LessByMore
<1> QED BY <1>2, <1>3, <1>8, <1>9

\* A due time that an iteration in time collects: passed since the iteration before,
\* or at the very start.
InWindow(d) == 0 <= d /\ d <= at /\ (d > prev_at \/ at = 0)

\* Due times are those of the start, some intervals later.
OnSlots == \A i \in Targets : \E k \in Nat : due[i] = Phase(i) + Interval[1] * k

\* Each iteration collects what became due since the one before.
NothingLeftDue ==
  /\ loc = "top" => \A i \in Targets : due[i] > at \/ mono = 0
  /\ loc = "collect" => \A i \in Targets : due[i] > prev_at \/ at = 0
  /\ loc \in {"push", "sleep", "wall"} => \A i \in Targets : due[i] > at
OutInWindow == \A k \in DOMAIN out : InWindow(due[out[k]] - Interval[1])

SpreadInv ==
  /\ CollectInv
  /\ ~late => at - prev_at < Interval[1] /\ OnSlots /\ NothingLeftDue /\ OutInWindow

\* Two of these due times would be too close.
LEMMA TooClose ==
  ASSUME SameInterval, RoomForAll, InTime, TypeOK, NEW i \in Targets, NEW j \in Targets, j < i,
         NEW k \in Nat, NEW m \in Nat,
         due[i] = Phase(i) + Interval[1] * k, InWindow(due[i] - Interval[1]),
         due[j] = Phase(j) + Interval[1] * m, InWindow(due[j] - Interval[1])
  PROVE  FALSE
<1>1. N \in Nat \ {0} /\ Interval[1] \in Nat /\ Phase(i) \in Nat /\ Phase(j) \in Nat
  BY TargetsExist, PhaseType
<1> PICK L, q : L = Interval[1] /\ q = L \div N
  OBVIOUS
<1> PICK x, y : x = Phase(i) /\ y = Phase(j)
  OBVIOUS
<1>2. L \in Nat /\ q \in Nat /\ x \in Nat /\ y \in Nat /\ q >= 1
  <2>1. q \in Nat /\ L \in Nat /\ L < N * q + N /\ L >= N
    BY <1>1, DivBounds DEF RoomForAll
  <2>2. q # 0
    <3> PICK n \in Nat \ {0} : n = N
      BY <1>1
    <3> PICK z : z = n * q
      OBVIOUS
    <3>1. q = 0 => z = 0
      OBVIOUS
    <3>2. L < z + n /\ L >= n /\ L \in Nat
      BY <2>1
    <3> QED BY ONLY <3>1, <3>2
  <2> QED BY <1>1, <2>1, <2>2
<1>3. x - y >= q /\ x - y <= L - q
  BY PhasesApart
<1> PICK d, e : d = L * k /\ e = L * m
  OBVIOUS
<1>4. d \in Int /\ e \in Int /\ d - e = L * (k - m)
  BY <1>2
<1>5. d = e \/ d - e >= L \/ d - e <= -L
  <2>1. CASE k = m
    BY <2>1
  <2>2. CASE k - m >= 1
    BY <1>2, <1>4, <2>2, AtLeastOnce
  <2>3. CASE k - m <= -1
    BY <1>2, <1>4, <2>3, AtLeastOnce
  <2> QED BY <2>1, <2>2, <2>3
<1>6. InWindow(due[i] - L) /\ InWindow(due[j] - L) /\ due[i] = x + d /\ due[j] = y + e
  OBVIOUS
<1>7. at \in Nat /\ prev_at \in Nat /\ at - prev_at <= q
  BY DEF TypeOK, InTime
<1>8. (x + d) - (y + e) < q /\ (x + d) - (y + e) > -q
  BY <1>2, <1>4, <1>6, <1>7 DEF InWindow
<1> QED BY <1>2, <1>3, <1>4, <1>5, <1>8

\* So an iteration in time collects one target.
LEMMA OneIsDue ==
  ASSUME RoomForAll, SpreadInv
  PROVE  NoBurstUntilLate
<1> SUFFICES ASSUME ~late, SameInterval, InTime, ~(Len(out) <= 1) PROVE FALSE
  BY DEF NoBurstUntilLate, NoBurst
<1>1. TypeOK /\ CollectedOnce /\ OnSlots /\ OutInWindow
  BY DEF SpreadInv, CollectInv
<1>2. out \in Seq(Targets) /\ 1 \in DOMAIN out /\ 2 \in DOMAIN out
  BY <1>1 DEF TypeOK
<1> PICK i \in Targets, j \in Targets : i = out[1] /\ j = out[2]
  BY <1>2
<1>3. i # j
  BY <1>1, <1>2 DEF CollectedOnce
<1>4. PICK k \in Nat : due[i] = Phase(i) + Interval[1] * k
  BY <1>1 DEF OnSlots
<1>5. PICK m \in Nat : due[j] = Phase(j) + Interval[1] * m
  BY <1>1 DEF OnSlots
<1>6. InWindow(due[i] - Interval[1]) /\ InWindow(due[j] - Interval[1])
  BY <1>1, <1>2 DEF OutInWindow
<1>7. i < j \/ j < i
  BY <1>3 DEF Targets
<1> QED BY <1>1, <1>4, <1>5, <1>6, <1>7, TooClose

\* A round of collect_due keeps the due times apart.
LEMMA SpreadCollect ==
  ASSUME SameInterval, Positive, SpreadInv, NEW i \in Targets, Collect(i), ~late'
  PROVE  OnSlots' /\ NothingLeftDue' /\ OutInWindow'
<1>1. TypeOK /\ ~late /\ at - prev_at < Interval[1] /\ OnSlots /\ NothingLeftDue /\ OutInWindow
      /\ CollectInv
  BY DEF SpreadInv, CollectInv, Collect
<1>2. /\ due[i] \in Nat /\ at \in Nat /\ prev_at \in Nat /\ Interval[1] \in Nat
      /\ Interval[1] > 0 /\ Interval[i] = Interval[1]
      /\ due[i] <= at /\ loc = "collect"
      /\ UNCHANGED <<loc, at, prev_at, mono, late>>
  BY <1>1, TargetsExist DEF Collect, TypeOK, SameInterval, Positive, clock
<1>3. due[i] > prev_at \/ at = 0
  BY <1>1, <1>2 DEF NothingLeftDue
<1>4. NextDue(due[i], Interval[i]) = due[i] + Interval[1]
  BY <1>1, <1>2, <1>3 DEF NextDue
<1>5. due' = [due EXCEPT ![i] = due[i] + Interval[1]] /\ due \in [Targets -> Nat]
  BY <1>1, <1>4 DEF Collect, TypeOK
<1>6. OnSlots'
  <2> SUFFICES ASSUME NEW t \in Targets
               PROVE  \E k \in Nat : due'[t] = Phase(t) + Interval[1] * k
    BY DEF OnSlots, Phase, Targets, N
  <2>1. PICK k \in Nat : due[t] = Phase(t) + Interval[1] * k
    BY <1>1 DEF OnSlots
  <2>2. Interval[1] * (k + 1) = Interval[1] * k + Interval[1] /\ Interval[1] * k \in Nat
        /\ Phase(t) \in Nat
    BY <1>2, PhaseType
  <2> PICK p \in Nat : p = Interval[1] * k
    BY <2>2
  <2>3. due[t] = Phase(t) + p /\ Interval[1] * (k + 1) = p + Interval[1]
    BY <2>1, <2>2
  <2>4. due'[t] = due[t] \/ due'[t] = Phase(t) + Interval[1] * (k + 1)
    <3>1. due'[t] = due[t] \/ due'[t] = due[t] + Interval[1]
      BY <1>5
    <3> QED BY <1>2, <2>2, <2>3, <3>1
  <2> QED BY <2>1, <2>4
<1>7. NothingLeftDue'
  BY <1>1, <1>2, <1>5 DEF NothingLeftDue
<1>8. OutInWindow'
  <2>1. /\ out' = Append(out, i) /\ out \in Seq(Targets)
        /\ DOMAIN out' = 1 .. Len(out) + 1
        /\ out'[Len(out) + 1] = i
        /\ \A k \in DOMAIN out : out'[k] = out[k] /\ out[k] \in Targets
    BY <1>1 DEF Collect, TypeOK
  <2>2. \A k \in DOMAIN out : out[k] # i
    BY <1>1, <1>2 DEF CollectInv, OutIsDueLater
  <2> SUFFICES ASSUME NEW k \in DOMAIN out'
               PROVE  LET d == due'[out'[k]] - Interval[1] IN
                      0 <= d /\ d <= at /\ (d > prev_at \/ at = 0)
    BY <1>2 DEF OutInWindow, InWindow
  <2>3. CASE k \in DOMAIN out
    <3>1. due'[out'[k]] = due[out[k]]
      BY <1>5, <2>1, <2>2, <2>3
    <3> QED BY <1>1, <2>3, <3>1 DEF OutInWindow, InWindow
  <2>4. CASE k = Len(out) + 1
    <3>1. due'[out'[k]] = due[i] + Interval[1]
      BY <1>5, <2>1, <2>4
    <3> QED BY <1>2, <1>3, <3>1
  <2> QED BY <2>1, <2>3, <2>4
<1> QED BY <1>6, <1>7, <1>8

\* Every step keeps them apart.
LEMMA SpreadStep ==
  ASSUME SameInterval, Positive PROVE SpreadInv /\ [Next]_vars => SpreadInv'
<1> SUFFICES ASSUME SpreadInv, [Next]_vars PROVE SpreadInv'
  OBVIOUS
<1>0. CollectInv' /\ TypeOK /\ 1 \in Targets
  BY CollectInvStep, TargetsExist DEF SpreadInv, CollectInv
<1>1. ASSUME NEW i \in Targets, Collect(i) PROVE SpreadInv'
  <2>1. UNCHANGED <<at, prev_at, late>>
    BY <1>1 DEF Collect
  <2> QED BY <1>0, <1>1, <2>1, SpreadCollect DEF SpreadInv
<1>2. CASE Iterate
  <2>1. /\ loc = "top" /\ loc' = "collect" /\ at' = mono /\ prev_at' = at /\ out' = << >>
        /\ due' = due /\ mono' = mono
    BY <1>2 DEF Iterate, clock
  <2>2. ~late' => ~late /\ ~(mono - at >= Interval[1])
    BY <1>0, <1>2 DEF Iterate
  <2>3. ~late' => ~late /\ mono - at < Interval[1]
    BY <1>0, <2>2, TargetsExist DEF TypeOK
  <2> QED BY <1>0, <2>1, <2>3 DEF SpreadInv, OnSlots, NothingLeftDue, OutInWindow
<1>3. CASE CollectReturns
  <2>1. /\ loc' = "push" /\ UNCHANGED <<at, prev_at, due, out, late>>
        /\ \A i \in Targets : due[i] > at
    BY <1>3 DEF CollectReturns, past
  <2> QED BY <1>0, <2>1 DEF SpreadInv, OnSlots, NothingLeftDue, OutInWindow, InWindow
<1>4. CASE Stop \/ PushJobs
  <2>1. /\ loc' = "stopped" \/ (loc = "push" /\ loc' = "sleep")
        /\ UNCHANGED <<at, prev_at, due, out, late>>
    BY <1>4 DEF Stop, PushJobs, past
  <2> QED BY <1>0, <2>1 DEF SpreadInv, OnSlots, NothingLeftDue, OutInWindow, InWindow
<1>5. CASE Sleep \/ CheckGap
  <2>1. /\ loc \in {"sleep", "wall"} /\ loc' \in {"wall", "top"}
        /\ UNCHANGED <<at, prev_at, due, out, late>>
    BY <1>5 DEF Sleep, CheckGap, past
  <2> QED BY <1>0, <2>1 DEF SpreadInv, OnSlots, NothingLeftDue, OutInWindow, InWindow
<1>6. CASE UNCHANGED <<loc, mono, at, prev_at, due, out, late>>
  BY <1>0, <1>6 DEF SpreadInv, OnSlots, NothingLeftDue, OutInWindow, InWindow
<1>7. CASE Suspend \/ UNCHANGED vars
  <2>1. UNCHANGED <<loc, mono, at, prev_at, due, out, late>>
    BY <1>7 DEF Suspend, past, vars
  <2> QED BY <1>6, <2>1
<1> QED BY <1>1, <1>2, <1>3, <1>4, <1>5, <1>7 DEF Next, Ended

\* The due times are apart at the start.
LEMMA SpreadInit == ASSUME SameInterval, Positive, Init PROVE SpreadInv
<1>1. CollectInv /\ \A i \in Targets : Phase(i) \in Nat
  BY CollectInvInit, PhaseType
<1>2. /\ loc = "top" /\ mono = 0 /\ at = 0 /\ prev_at = 0 /\ out = << >>
      /\ due = [i \in Targets |-> Phase(i)]
  BY DEF Init
<1>3. 0 < Interval[1] /\ Interval[1] \in Nat /\ Interval[1] * 0 = 0
  BY TargetsExist DEF Positive
<1>4. OnSlots
  BY <1>1, <1>2, <1>3 DEF OnSlots
<1> QED BY <1>1, <1>2, <1>3, <1>4 DEF SpreadInv, NothingLeftDue, OutInWindow

\* Targets of one interval, of at least a unit of time for each, never leave together
\* in an iteration that comes in time, as long as no iteration has taken an interval or
\* longer (prober.cpp:553-567, scheduler.cpp:16-29).
THEOREM PacketsAreSpread == RoomForAll => (Spec => []NoBurstUntilLate)
<1> SUFFICES ASSUME RoomForAll PROVE Spec => []NoBurstUntilLate
  OBVIOUS
<1>1. CASE ~SameInterval
  <2>1. NoBurstUntilLate
    BY <1>1 DEF NoBurstUntilLate, NoBurst
  <2> QED BY <2>1, PTL
<1>2. CASE SameInterval
  <2>1. Positive
    BY <1>2, TargetsExist DEF RoomForAll, SameInterval, Positive
  <2>2. Init => SpreadInv
    BY <1>2, <2>1, SpreadInit
  <2>3. SpreadInv /\ [Next]_vars => SpreadInv'
    BY <1>2, <2>1, SpreadStep
  <2>4. SpreadInv => NoBurstUntilLate
    BY OneIsDue
  <2> QED BY <2>2, <2>3, <2>4, PTL DEF Spec
<1> QED BY <1>1, <1>2

-----------------------------------------------------------------------------
(* The pool *)

\* A step of the scheduler in the pool is one it takes alone.
LEMMA SchedulerSteps == ASSUME SchedulerStep PROVE Next
BY DEF SchedulerStep, Next

\* A step of the pool is one of the scheduler, or leaves it alone.
LEMMA PoolStep == [PoolNext]_<<vars, pool>> => [Next]_vars
<1> SUFFICES ASSUME [PoolNext]_<<vars, pool>> PROVE [Next]_vars
  OBVIOUS
<1>1. CASE SchedulerStep
  BY <1>1, SchedulerSteps
<1>2. ASSUME NEW w \in DOMAIN free_at, Probe(w) PROVE UNCHANGED vars
  BY <1>2 DEF Probe
<1> QED BY <1>1, <1>2 DEF PoolNext

\* The scheduler with its workers is the scheduler (prober.cpp:591-603): it never
\* waits for them, and nothing they do changes what is due.
THEOREM PoolSchedules == PoolSpec => Spec
<1>1. PoolInit => Init
  BY DEF PoolInit
<1>2. [PoolNext]_<<vars, pool>> => [Next]_vars
  BY PoolStep
<1> QED BY <1>1, <1>2, PTL DEF PoolSpec, Spec

-----------------------------------------------------------------------------
Job == [target : Targets, at : Nat]

\* The queue, after the jobs of one iteration have been pushed.
LEMMA PushedType == ASSUME PoolTypeOK PROVE Pushed \in Seq(Job)
<1>1. jobs \in Seq(Job) /\ mono \in Nat /\ out \in Seq(Targets)
  BY DEF PoolTypeOK, TypeOK, Job
<1>2. \A k \in DOMAIN out : [target |-> out[k], at |-> mono] \in Job
  BY <1>1 DEF Job
<1>3. [k \in DOMAIN out |-> [target |-> out[k], at |-> mono]] \in Seq(Job)
  BY <1>1, <1>2
<1> QED BY <1>1, <1>3 DEF Pushed

\* The types hold at the start.
LEMMA PoolInitType == PoolInit => PoolTypeOK
<1> SUFFICES ASSUME PoolInit PROVE PoolTypeOK
  OBVIOUS
<1>1. TypeOK
  BY InitType DEF PoolInit
<1>2. PICK W \in SUBSET Threads : free_at = [w \in W |-> 0]
  BY DEF PoolInit
<1>3. free_at \in [W -> Nat]
  BY <1>2
<1> QED BY <1>1, <1>2, <1>3 DEF PoolInit, PoolTypeOK

\* Every step keeps the types.
LEMMA PoolTypeStep == PoolTypeOK /\ [PoolNext]_<<vars, pool>> => PoolTypeOK'
<1> SUFFICES ASSUME PoolTypeOK, [PoolNext]_<<vars, pool>> PROVE PoolTypeOK'
  OBVIOUS
<1>1. TypeOK'
  BY PoolStep, TypeStep DEF PoolTypeOK
<1>2. jobs \in Seq(Job) /\ sent \in Nat \cup {Never}
  BY DEF PoolTypeOK, Job
<1>3. PICK W \in SUBSET Threads : free_at \in [W -> Nat]
  BY DEF PoolTypeOK
<1>4. CASE SchedulerStep
  <2>1. jobs' = Pushed \/ jobs' = jobs
    BY <1>4 DEF SchedulerStep
  <2>2. jobs' \in Seq(Job)
    BY <2>1, <1>2, PushedType
  <2>3. free_at' = free_at /\ sent' = sent
    BY <1>4 DEF SchedulerStep
  <2> QED BY <1>1, <1>2, <1>3, <2>2, <2>3 DEF PoolTypeOK, Job
<1>5. ASSUME NEW w \in DOMAIN free_at, Probe(w) PROVE PoolTypeOK'
  <2>1. jobs # << >> /\ Head(jobs) \in Job /\ jobs' \in Seq(Job)
    BY <1>2, <1>5 DEF Probe, MayTake
  <2>2. w \in W /\ free_at[w] \in Nat
    BY <1>3
  <2>3. TakenAt(w) \in Nat
    BY <2>1, <2>2 DEF TakenAt, Larger, Job
  <2>4. PICK d \in {Answer, Timeout} : free_at' = [free_at EXCEPT ![w] = TakenAt(w) + d]
    BY <1>5 DEF Probe
  <2>5. TakenAt(w) + d \in Nat
    BY <2>3, PoolAssumption
  <2>6. free_at' \in [W -> Nat]
    BY <1>3, <2>4, <2>5
  <2>7. sent' = TakenAt(w)
    BY <1>5 DEF Probe
  <2> QED BY <1>1, <2>1, <2>3, <2>6, <2>7 DEF PoolTypeOK, Job
<1>6. CASE UNCHANGED <<vars, pool>>
  BY <1>1, <1>2, <1>3, <1>6 DEF pool, PoolTypeOK, Job
<1> QED BY <1>4, <1>5, <1>6 DEF PoolNext

\* Jobs keep the time they were pushed at, and a worker is busy till a time that is
\* never negative, whatever times out.
THEOREM PoolTypeCorrect == PoolSpec => []PoolTypeOK
<1>1. PoolInit => PoolTypeOK
  BY PoolInitType
<1>2. PoolTypeOK /\ [PoolNext]_<<vars, pool>> => PoolTypeOK'
  BY PoolTypeStep
<1> QED BY <1>1, <1>2, PTL DEF PoolSpec

\* In the pool too, if all intervals are positive, one call of collect_due collects
\* each target at most once, no three firings of a target come within one interval,
\* and the gap markers add up to the suspensions (scheduler.cpp:16-29,
\* prober.cpp:606-618).
THEOREM PoolIsOnTime ==
  Positive => (PoolSpec => [](CollectedOnce /\ NoCatchingUp /\ GapsAddUp))
<1> SUFFICES ASSUME Positive PROVE PoolSpec => [](CollectedOnce /\ NoCatchingUp /\ GapsAddUp)
  OBVIOUS
<1>1. PoolSpec => Spec
  BY PoolSchedules
<1>2. Spec => []CollectedOnce
  BY EachDueTargetOnce
<1>3. Spec => []NoCatchingUp
  BY MissedSlotsAreSkipped
<1>4. Spec => []GapsAddUp
  BY SuspensionsAreReported
<1> QED BY <1>1, <1>2, <1>3, <1>4, PTL

-----------------------------------------------------------------------------
(* The queue keeps up. Every target has a worker of its own, g[k], at least on   *)
(* paper: the worker that takes a job swaps with the one of its target. slot[k]  *)
(* is when the probe of k under way was due, or the next one is if the last has  *)
(* left the queue; its worker is done with it a timeout later at most, and that  *)
(* is before the next slot.                                                      *)

\* A target for every job there is or is about to be, in their order.
TargetsOf(J) == [n \in DOMAIN J |-> J[n].target]
ToBePushed == IF loc \in {"collect", "push"} THEN out ELSE << >>
Pending == TargetsOf(jobs) \o ToBePushed

OneJobEach(P) == \A m, n \in DOMAIN P : m # n => P[m] # P[n]
Fit(P, slot, g, d, f) ==
  /\ slot \in [Targets -> Nat] /\ g \in [Targets -> DOMAIN f]
  /\ \A j, k \in Targets : j # k => g[j] # g[k]
  /\ \A k \in Targets : f[g[k]] <= slot[k] + Timeout
  /\ \A k \in Targets : (\A n \in DOMAIN P : P[n] # k) => slot[k] = d[k]
  /\ \A n \in DOMAIN P : slot[P[n]] + Interval[P[n]] <= d[P[n]]
  /\ \A n \in DOMAIN P, k \in Targets : slot[P[n]] <= d[k]
  /\ \A m, n \in DOMAIN P : m <= n => slot[P[m]] <= slot[P[n]]
Fits(P, d, f) == \E slot, g : Fit(P, slot, g, d, f)

PushedInTime == \A n \in DOMAIN jobs : jobs[n].at <= mono /\ jobs[n].at <= due[jobs[n].target]

KeepsUp ==
  /\ PoolTypeOK /\ CollectInv
  /\ loc \in {"collect", "push"} => at = mono
  /\ PushedInTime
  /\ OneJobEach(Pending)
  /\ Fits(Pending, due, free_at)

EnoughWorkers == N <= MaxWorkers /\ \A i \in Targets : Timeout <= Interval[i]

\* A target that is collected, without a job waiting, gets one after all the others.
LEMMA FitCollect ==
  ASSUME NEW P \in Seq(Targets), NEW d \in [Targets -> Nat], NEW f, Fits(P, d, f),
         NEW i \in Targets, \A n \in DOMAIN P : P[n] # i, \A k \in Targets : d[i] <= d[k],
         NEW e \in Nat, d[i] + Interval[i] <= e
  PROVE  Fits(Append(P, i), [d EXCEPT ![i] = e], f)
<1> PICK slot, g : Fit(P, slot, g, d, f)
  BY DEF Fits
<1> PICK Q, d2 : Q = Append(P, i) /\ d2 = [d EXCEPT ![i] = e]
  OBVIOUS
<1>1. /\ DOMAIN Q = 1 .. Len(P) + 1 /\ DOMAIN P = 1 .. Len(P) /\ Len(P) \in Nat
      /\ Q[Len(P) + 1] = i /\ \A n \in DOMAIN P : Q[n] = P[n] /\ P[n] \in Targets
  OBVIOUS
<1>2. /\ slot \in [Targets -> Nat] /\ slot[i] = d[i] /\ Interval[i] \in Nat
      /\ \A k \in Targets : slot[k] \in Nat /\ d[k] \in Nat
  BY TargetsExist DEF Fit
<1>3. /\ \A k \in Targets : d2[k] >= d[k] /\ d2[k] \in Nat
      /\ \A k \in Targets : k # i => d2[k] = d[k]
      /\ d2[i] = e
  BY <1>2
<1>4. \A k \in Targets : (\A n \in DOMAIN Q : Q[n] # k) => slot[k] = d2[k]
  <2> SUFFICES ASSUME NEW k \in Targets, \A n \in DOMAIN Q : Q[n] # k PROVE slot[k] = d2[k]
    OBVIOUS
  <2>1. k # i /\ \A n \in DOMAIN P : P[n] # k
    <3>1. /\ Len(P) + 1 \in DOMAIN Q /\ Q[Len(P) + 1] = i
          /\ \A n \in DOMAIN P : n \in DOMAIN Q /\ Q[n] = P[n]
      BY ONLY <1>1
    <3> QED BY ONLY <3>1, \A n \in DOMAIN Q : Q[n] # k
  <2> QED BY <1>3, <2>1 DEF Fit
<1>5. \A n \in DOMAIN Q : slot[Q[n]] + Interval[Q[n]] <= d2[Q[n]]
  <2> SUFFICES ASSUME NEW n \in DOMAIN Q PROVE slot[Q[n]] + Interval[Q[n]] <= d2[Q[n]]
    OBVIOUS
  <2>1. CASE n = Len(P) + 1
    BY <1>1, <1>2, <1>3, <2>1
  <2>2. CASE n \in DOMAIN P
    BY <1>1, <1>3, <2>2 DEF Fit
  <2> QED BY <1>1, <2>1, <2>2
<1>6. \A n \in DOMAIN Q, k \in Targets : slot[Q[n]] <= d2[k]
  <2> SUFFICES ASSUME NEW n \in DOMAIN Q, NEW k \in Targets PROVE slot[Q[n]] <= d2[k]
    OBVIOUS
  <2>1. slot[Q[n]] <= d[k] /\ slot[Q[n]] \in Nat
    <3>1. CASE n = Len(P) + 1
      BY <1>1, <1>2, <3>1
    <3>2. CASE n \in DOMAIN P
      BY <1>1, <1>2, <3>2 DEF Fit
    <3> QED BY <1>1, <3>1, <3>2
  <2>2. d[k] <= d2[k] /\ d[k] \in Nat /\ d2[k] \in Nat
    BY <1>2, <1>3
  <2> QED BY ONLY <2>1, <2>2
<1>7. \A m, n \in DOMAIN Q : m <= n => slot[Q[m]] <= slot[Q[n]]
  <2> SUFFICES ASSUME NEW m \in DOMAIN Q, NEW n \in DOMAIN Q, m <= n
               PROVE  slot[Q[m]] <= slot[Q[n]]
    OBVIOUS
  <2>1. CASE n = Len(P) + 1 /\ m \in DOMAIN P
    BY <1>1, <1>2, <2>1 DEF Fit
  <2>2. CASE n \in DOMAIN P /\ m \in DOMAIN P
    BY <1>1, <2>2 DEF Fit
  <2>3. CASE n = m
    BY <1>1, <1>2, <2>3
  <2> QED BY <1>1, <2>1, <2>2, <2>3
<1>8. Fit(Q, slot, g, d2, f)
  BY <1>4, <1>5, <1>6, <1>7 DEF Fit
<1> QED BY <1>8 DEF Fits

\* The worker that is done first takes the first job: the target of the job and the
\* target whose worker it was swap workers.
LEMMA FitProbe ==
  ASSUME EnoughWorkers,
         NEW P \in Seq(Targets), P # << >>, OneJobEach(P),
         NEW d \in [Targets -> Nat], NEW W, NEW f \in [W -> Nat], Fits(P, d, f),
         NEW w \in W, \A v \in W : f[w] <= f[v],
         NEW a \in Nat, a <= d[Head(P)], NEW b \in {Answer, Timeout}
  PROVE  Fits(Tail(P), d, [f EXCEPT ![w] = Larger(f[w], a) + b])
<1> PICK slot, g : Fit(P, slot, g, d, f)
  BY DEF Fits
<1> PICK Q, f2, h : Q = Tail(P) /\ f2 = [f EXCEPT ![w] = Larger(f[w], a) + b] /\ h = P[1]
  OBVIOUS
<1> PICK slot2, g2 : /\ slot2 = [slot EXCEPT ![h] = d[h]]
                     /\ g2 = [k \in Targets |-> IF k = h THEN w
                                                ELSE IF g[k] = w THEN g[h] ELSE g[k]]
  OBVIOUS
<1>1. /\ h \in Targets /\ 1 \in DOMAIN P /\ h = Head(P) /\ Len(P) \in Nat \ {0}
      /\ DOMAIN P = 1 .. Len(P) /\ DOMAIN Q = 1 .. Len(P) - 1
      /\ \A n \in DOMAIN Q : Q[n] = P[n + 1] /\ n + 1 \in DOMAIN P /\ P[n + 1] # h
  BY DEF OneJobEach
<1>2. /\ slot \in [Targets -> Nat] /\ g \in [Targets -> W] /\ DOMAIN f2 = W
      /\ \A k \in Targets : slot[k] \in Nat /\ d[k] \in Nat /\ g[k] \in W
      /\ \A n \in DOMAIN P : P[n] \in Targets
  BY DEF Fit
<1>3. /\ Timeout \in Nat /\ Answer \in Nat /\ b \in Nat /\ b <= Timeout
      /\ Interval[h] \in Nat /\ Timeout <= Interval[h]
  BY <1>1, TargetsExist, PoolAssumption DEF EnoughWorkers
<1>4. \A k \in Targets : slot[h] <= slot[k] /\ slot[h] <= d[k]
  <2> SUFFICES ASSUME NEW k \in Targets PROVE slot[h] <= slot[k] /\ slot[h] <= d[k]
    OBVIOUS
  <2>1. slot[h] <= d[k]
    BY <1>1 DEF Fit
  <2>2. CASE \A n \in DOMAIN P : P[n] # k
    BY <2>1, <2>2 DEF Fit
  <2>3. CASE \E n \in DOMAIN P : P[n] = k
    <3> PICK n \in DOMAIN P : P[n] = k
      BY <2>3
    <3>1. 1 <= n
      BY <1>1
    <3> QED BY <1>1, <2>1, <3>1 DEF Fit
  <2> QED BY <2>1, <2>2, <2>3
<1>5. f2[w] <= d[h] + Timeout /\ \A v \in W : v # w => f2[v] = f[v]
  <2>1. f[w] \in Nat /\ f[g[h]] \in Nat /\ f[w] <= f[g[h]] /\ f[g[h]] <= slot[h] + Timeout
    BY <1>1, <1>2 DEF Fit
  <2>2. slot[h] + Interval[h] <= d[h]
    BY <1>1 DEF Fit
  <2>3. f[w] <= d[h] /\ a <= d[h] /\ slot[h] \in Nat /\ d[h] \in Nat
    BY <1>1, <1>2, <1>3, <2>1, <2>2
  <2>4. Larger(f[w], a) <= d[h] /\ Larger(f[w], a) \in Nat
    BY <2>1, <2>3 DEF Larger
  <2> QED BY <1>3, <2>3, <2>4
<1>6. /\ slot2 \in [Targets -> Nat] /\ slot2[h] = d[h]
      /\ \A k \in Targets : k # h => slot2[k] = slot[k]
  BY <1>1, <1>2
<1>7. g2 \in [Targets -> W] /\ \A j, k \in Targets : j # k => g2[j] # g2[k]
  <2>1. \A k \in Targets : g[k] \in W /\ \A j \in Targets : j # k => g[j] # g[k]
    BY <1>2 DEF Fit
  <2> QED BY <1>1, <2>1
<1>8. \A k \in Targets : f2[g2[k]] <= slot2[k] + Timeout
  <2> SUFFICES ASSUME NEW k \in Targets PROVE f2[g2[k]] <= slot2[k] + Timeout
    OBVIOUS
  <2>0. f[g[k]] <= slot[k] + Timeout /\ f[g[h]] <= slot[h] + Timeout /\ f[g[h]] \in Nat
    BY <1>1, <1>2 DEF Fit
  <2>1. CASE k = h
    BY <1>5, <1>6, <2>1
  <2>2. CASE k # h /\ g[k] = w
    <3>1. g2[k] = g[h] /\ g[h] # w /\ g[h] \in W
      BY <1>1, <1>2, <2>2 DEF Fit
    <3>2. f2[g2[k]] = f[g[h]]
      BY <1>5, <3>1
    <3>3. slot[h] <= slot[k] /\ slot2[k] = slot[k] /\ slot[h] \in Nat /\ slot[k] \in Nat
      BY <1>1, <1>2, <1>4, <1>6, <2>2
    <3>4. f[g[h]] <= slot[h] + Timeout /\ f[g[h]] \in Nat /\ Timeout \in Nat
      BY <1>3, <2>0
    <3> QED BY ONLY <3>2, <3>3, <3>4
  <2>3. CASE k # h /\ g[k] # w
    <3>1. g2[k] = g[k] /\ f2[g[k]] = f[g[k]]
      BY <1>2, <1>5, <2>3
    <3> QED BY <1>6, <2>0, <2>3, <3>1
  <2> QED BY <2>1, <2>2, <2>3
<1>9. \A k \in Targets : (\A n \in DOMAIN Q : Q[n] # k) => slot2[k] = d[k]
  <2> SUFFICES ASSUME NEW k \in Targets, \A n \in DOMAIN Q : Q[n] # k, k # h
               PROVE  slot2[k] = d[k]
    BY <1>6
  <2>1. ASSUME NEW n \in DOMAIN P PROVE P[n] # k
    <3>1. CASE n = 1
      BY <3>1
    <3>2. CASE n # 1
      <4>1. n - 1 \in DOMAIN Q /\ (n - 1) + 1 = n
        BY <1>1, <3>2
      <4> QED BY <1>1, <4>1
    <3> QED BY <3>1, <3>2
  <2> QED BY <1>6, <2>1 DEF Fit
<1>10. \A n \in DOMAIN Q : slot2[Q[n]] = slot[Q[n]] /\ Q[n] \in Targets
  BY <1>1, <1>2, <1>6
<1>11. /\ \A n \in DOMAIN Q : slot2[Q[n]] + Interval[Q[n]] <= d[Q[n]]
       /\ \A n \in DOMAIN Q, k \in Targets : slot2[Q[n]] <= d[k]
  <2>1. ASSUME NEW n \in DOMAIN Q
        PROVE  /\ slot2[Q[n]] + Interval[Q[n]] <= d[Q[n]]
               /\ \A k \in Targets : slot2[Q[n]] <= d[k]
    <3> PICK p : p = P[n + 1]
      OBVIOUS
    <3>1. slot2[p] = slot[p] /\ Q[n] = p
      BY <1>1, <1>10, <2>1
    <3>2. slot[p] + Interval[p] <= d[p] /\ \A k \in Targets : slot[p] <= d[k]
      BY <1>1, <2>1 DEF Fit
    <3> QED BY <3>1, <3>2
  <2> QED BY <2>1
<1>12. \A m, n \in DOMAIN Q : m <= n => slot2[Q[m]] <= slot2[Q[n]]
  <2> SUFFICES ASSUME NEW m \in DOMAIN Q, NEW n \in DOMAIN Q, m <= n
               PROVE  slot2[Q[m]] <= slot2[Q[n]]
    OBVIOUS
  <2>1. m + 1 <= n + 1 /\ m + 1 \in DOMAIN P /\ n + 1 \in DOMAIN P
    BY <1>1
  <2>2. slot[P[m + 1]] <= slot[P[n + 1]]
    BY <2>1 DEF Fit
  <2> QED BY <1>1, <1>10, <2>2
<1>13. Fit(Q, slot2, g2, d, f2)
  BY <1>2, <1>6, <1>7, <1>8, <1>9, <1>11, <1>12 DEF Fit
<1> QED BY <1>13 DEF Fits

\* The jobs are for targets, and have a time.
LEMMA JobsTell ==
  ASSUME NEW J \in Seq(Job)
  PROVE  /\ TargetsOf(J) \in Seq(Targets) /\ Len(TargetsOf(J)) = Len(J)
         /\ \A n \in 1 .. Len(J) : /\ TargetsOf(J)[n] = J[n].target
                                   /\ J[n].target \in Targets /\ J[n].at \in Nat
<1>1. \A j \in Job : j.target \in Targets /\ j.at \in Nat
  BY DEF Job
<1>2. \A n \in 1 .. Len(J) : J[n] \in Job
  OBVIOUS
<1>3. \A n \in 1 .. Len(J) : J[n].target \in Targets /\ J[n].at \in Nat
  BY <1>1, <1>2
<1>4. DOMAIN J = 1 .. Len(J) /\ Len(J) \in Nat
  OBVIOUS
<1>5. TargetsOf(J) = [n \in 1 .. Len(J) |-> J[n].target]
  BY <1>4 DEF TargetsOf
<1>6. TargetsOf(J) \in Seq(Targets)
  BY <1>3, <1>4, <1>5
<1> QED BY <1>3, <1>4, <1>5, <1>6

\* Sequences of the same elements are equal.
LEMMA SameSeq ==
  ASSUME NEW S, NEW A \in Seq(S), NEW B \in Seq(S), Len(A) = Len(B),
         \A n \in 1 .. Len(A) : A[n] = B[n]
  PROVE  A = B
OBVIOUS

\* The targets of jobs without the first.
LEMMA JobsTail ==
  ASSUME NEW J \in Seq(Job), J # << >>
  PROVE  TargetsOf(Tail(J)) = Tail(TargetsOf(J))
<1>a. Tail(J) \in Seq(Job) /\ TargetsOf(J) \in Seq(Targets)
  BY JobsTell
<1> PICK K \in Seq(Job), R \in Seq(Targets) : K = Tail(J) /\ R = TargetsOf(J)
  BY <1>a
<1>1. Len(R) = Len(J) /\ \A n \in 1 .. Len(J) : R[n] = J[n].target
  BY JobsTell
<1>2. Len(K) = Len(J) - 1 /\ \A n \in 1 .. Len(K) : K[n] = J[n + 1] /\ n + 1 \in 1 .. Len(J)
  OBVIOUS
<1>b. TargetsOf(K) \in Seq(Targets)
  BY JobsTell
<1>c. R # << >> /\ Tail(R) \in Seq(Targets)
  BY <1>1
<1> PICK T \in Seq(Targets), L \in Seq(Targets) : T = TargetsOf(K) /\ L = Tail(R)
  BY <1>b, <1>c
<1>3. Len(T) = Len(K) /\ \A n \in 1 .. Len(K) : T[n] = K[n].target
  BY JobsTell
<1>4. Len(L) = Len(R) - 1 /\ \A n \in 1 .. Len(L) : L[n] = R[n + 1]
  BY <1>1
<1>5. Len(T) = Len(L)
  BY <1>1, <1>2, <1>3, <1>4
<1>6. \A n \in 1 .. Len(T) : T[n] = L[n]
  BY <1>1, <1>2, <1>3, <1>4, <1>5
<1>7. T = L
  BY ONLY <1>5, <1>6, T \in Seq(Targets), L \in Seq(Targets), SameSeq
<1> QED BY <1>7

\* The targets of jobs and more jobs.
LEMMA JobsJoined ==
  ASSUME NEW J \in Seq(Job), NEW K \in Seq(Job)
  PROVE  TargetsOf(J \o K) = TargetsOf(J) \o TargetsOf(K)
<1>a. TargetsOf(J) \in Seq(Targets) /\ TargetsOf(K) \in Seq(Targets) /\ J \o K \in Seq(Job)
  BY JobsTell
<1> PICK L \in Seq(Job), A \in Seq(Targets), B \in Seq(Targets) :
      L = J \o K /\ A = TargetsOf(J) /\ B = TargetsOf(K)
  BY <1>a
<1>b. TargetsOf(L) \in Seq(Targets)
  BY JobsTell
<1>c. A \o B \in Seq(Targets)
  OBVIOUS
<1> PICK T \in Seq(Targets), R \in Seq(Targets) : T = TargetsOf(L) /\ R = A \o B
  BY <1>b, <1>c
<1>1. /\ Len(A) = Len(J) /\ \A n \in 1 .. Len(J) : A[n] = J[n].target
      /\ Len(B) = Len(K) /\ \A n \in 1 .. Len(K) : B[n] = K[n].target
      /\ Len(T) = Len(L) /\ \A n \in 1 .. Len(L) : T[n] = L[n].target
  BY JobsTell
<1>2. /\ Len(L) = Len(J) + Len(K) /\ Len(J) \in Nat /\ Len(K) \in Nat
      /\ \A n \in 1 .. Len(L) : L[n] = IF n <= Len(J) THEN J[n] ELSE K[n - Len(J)]
  OBVIOUS
<1>3. /\ Len(R) = Len(A) + Len(B)
      /\ \A n \in 1 .. Len(R) : R[n] = IF n <= Len(A) THEN A[n] ELSE B[n - Len(A)]
  OBVIOUS
<1>4. ASSUME NEW n \in 1 .. Len(T) PROVE T[n] = R[n]
  <2>0. n \in 1 .. Len(L) /\ n \in 1 .. Len(R) /\ T[n] = L[n].target
    BY <1>1, <1>2, <1>3
  <2>1. CASE n <= Len(J)
    <3>1. L[n] = J[n] /\ R[n] = A[n] /\ n \in 1 .. Len(J)
      BY <1>1, <1>2, <1>3, <2>0, <2>1
    <3> QED BY <1>1, <2>0, <3>1
  <2>2. CASE n > Len(J)
    <3> PICK m : m = n - Len(J)
      OBVIOUS
    <3>1. L[n] = K[m] /\ R[n] = B[m] /\ m \in 1 .. Len(K)
      BY <1>1, <1>2, <1>3, <2>0, <2>2
    <3> QED BY <1>1, <2>0, <3>1
  <2> QED BY <1>2, <2>0, <2>1, <2>2
<1>5. Len(T) = Len(R)
  BY <1>1, <1>2, <1>3
<1>6. T = R
  BY ONLY <1>4, <1>5, T \in Seq(Targets), R \in Seq(Targets), SameSeq
<1> QED BY <1>6

\* The pending targets are targets.
LEMMA PendingType ==
  ASSUME PoolTypeOK
  PROVE  /\ jobs \in Seq(Job) /\ ToBePushed \in Seq(Targets) /\ out \in Seq(Targets)
         /\ Pending \in Seq(Targets)
<1>1. jobs \in Seq(Job) /\ out \in Seq(Targets)
  BY DEF PoolTypeOK, TypeOK, Job
<1>2. TargetsOf(jobs) \in Seq(Targets)
  BY <1>1, JobsTell
<1> QED BY <1>1, <1>2 DEF Pending, ToBePushed

\* A target that is due has no job waiting: the worker of the job in front would be
\* free for it.
LEMMA DueIsNotPending ==
  ASSUME EnoughWorkers, KeepsUp, loc = "collect", \A w \in DOMAIN free_at : ~MayTake(w),
         NEW i \in Targets, due[i] <= at
  PROVE  \A n \in DOMAIN Pending : Pending[n] # i
<1> SUFFICES ASSUME NEW n \in DOMAIN Pending, Pending[n] = i PROVE FALSE
  OBVIOUS
<1>0. PoolTypeOK /\ CollectInv /\ at = mono /\ PushedInTime
  BY DEF KeepsUp
<1>1. /\ jobs \in Seq(Job) /\ out \in Seq(Targets) /\ at \in Nat
      /\ due \in [Targets -> Nat]
  BY <1>0 DEF PoolTypeOK, TypeOK, Job
<1> PICK slot, g : Fit(Pending, slot, g, due, free_at)
  BY DEF KeepsUp, Fits
<1>2. jobs # << >>
  <2> SUFFICES ASSUME jobs = << >> PROVE FALSE
    OBVIOUS
  <2>1. TargetsOf(jobs) = << >>
    BY DEF TargetsOf
  <2>2. Pending = out
    BY <1>1, <2>1 DEF Pending, ToBePushed
  <2> QED BY <1>0, <1>1, <2>2 DEF CollectInv, OutIsDueLater
<1>a. Len(jobs) \in Nat \ {0} /\ Head(jobs) = jobs[1]
  BY <1>1, <1>2
<1>b. Head(jobs).target \in Targets /\ Head(jobs).at \in Nat
  <2>1. \A j \in Job : j.target \in Targets /\ j.at \in Nat
    BY DEF Job
  <2>2. Head(jobs) \in Job
    BY <1>1, <1>2
  <2> QED BY <2>1, <2>2
<1> PICK h \in Targets : h = Head(jobs).target
  BY <1>b
<1>3. Pending \in Seq(Targets) /\ 1 \in DOMAIN Pending /\ Pending[1] = h
  <2> PICK R \in Seq(Targets), O \in Seq(Targets) : R = TargetsOf(jobs) /\ O = ToBePushed
    BY <1>0, <1>1, JobsTell, PendingType
  <2>1. Len(R) = Len(jobs) /\ R[1] = h
    BY <1>1, <1>a, JobsTell
  <2>2. Pending = R \o O
    BY DEF Pending
  <2> QED BY <1>a, <2>1, <2>2
<1>4. 1 <= n
  BY <1>3
<1>5. slot[h] <= slot[i] /\ slot[i] + Interval[i] <= due[i] /\ slot[i] \in Nat /\ slot[h] \in Nat
  BY <1>3, <1>4 DEF Fit
<1>6. free_at[g[h]] <= slot[h] + Timeout /\ g[h] \in DOMAIN free_at
  BY DEF Fit
<1> PICK W \in SUBSET Threads : free_at \in [W -> Nat]
  BY <1>0 DEF PoolTypeOK
<1>7. free_at[g[h]] <= mono
  <2>1. Timeout \in Nat /\ Interval[i] \in Nat /\ Timeout <= Interval[i]
    BY TargetsExist, PoolAssumption DEF EnoughWorkers
  <2>2. free_at[g[h]] \in Nat /\ due[i] \in Nat
    BY <1>1, <1>6
  <2>3. at = mono /\ at \in Nat /\ due[i] <= at
    BY <1>0, <1>1
  <2> QED BY ONLY <1>5, <1>6, <2>1, <2>2, <2>3
<1>8. PICK w \in W : \A v \in W : free_at[w] <= free_at[v]
  <2> DEFINE S == {free_at[v] : v \in W}
  <2>1. S \subseteq Nat /\ S # {}
    BY <1>6
  <2>2. \E m \in S : \A k \in S : m <= k
    <3> HIDE DEF S
    <3> QED BY <2>1, LeastNat
  <2> QED BY <2>2
<1>9. free_at[w] <= mono
  BY <1>0, <1>1, <1>6, <1>7, <1>8
<1>10. Head(jobs).at <= mono
  BY <1>0, <1>1, <1>2 DEF PushedInTime
<1>11. MayTake(w)
  BY <1>2, <1>8, <1>9, <1>10 DEF MayTake, TakenAt, Larger
<1> QED BY <1>8, <1>11

\* The scheduler collects one more target.
LEMMA CollectKeepsUp ==
  ASSUME Positive, EnoughWorkers, KeepsUp, SchedulerStep, NEW i \in Targets, Collect(i),
         jobs' = jobs
  PROVE  KeepsUp'
<1>0. PoolTypeOK /\ CollectInv /\ PoolTypeOK' /\ CollectInv'
  <2>1. [Next]_vars /\ PoolNext
    BY SchedulerSteps DEF PoolNext
  <2> QED BY <2>1, CollectInvStep, PoolTypeStep DEF KeepsUp
<1>1. /\ loc = "collect" /\ loc' = loc /\ at' = at /\ mono' = mono /\ out' = Append(out, i)
      /\ due[i] <= at /\ \A k \in Targets : due[i] <= due[k]
      /\ due' = [due EXCEPT ![i] = NextDue(due[i], Interval[i])]
      /\ free_at' = free_at
  BY DEF Collect, SchedulerStep, clock
<1>2. /\ jobs \in Seq(Job) /\ out \in Seq(Targets) /\ at \in Nat /\ mono \in Nat
      /\ due \in [Targets -> Nat] /\ due' \in [Targets -> Nat]
      /\ Interval[i] \in Nat
  BY <1>0, TargetsExist DEF PoolTypeOK, TypeOK, Job
<1> PICK e : e = NextDue(due[i], Interval[i])
  OBVIOUS
<1>3. e \in Nat /\ due[i] + Interval[i] <= e
  BY <1>1, <1>2 DEF NextDue
<1>4. \A n \in DOMAIN Pending : Pending[n] # i
  BY <1>1, DueIsNotPending DEF SchedulerStep
<1>5. Pending' = Append(Pending, i)
  <2> PICK R \in Seq(Targets), O \in Seq(Targets) : R = TargetsOf(jobs) /\ O = out
    BY <1>2, JobsTell
  <2>1. TargetsOf(jobs') = R
    OBVIOUS
  <2>2. Pending = R \o O /\ Pending' = R \o Append(O, i)
    BY <1>1, <2>1 DEF Pending, ToBePushed
  <2>3. R \o Append(O, i) = Append(R \o O, i)
    OBVIOUS
  <2> QED BY <2>2, <2>3
<1>6. Fits(Pending', due', free_at')
  <2>1. Fits(Pending, due, free_at) /\ Pending \in Seq(Targets)
    BY <1>0, PendingType DEF KeepsUp
  <2>2. Fits(Append(Pending, i), [due EXCEPT ![i] = e], free_at)
    BY <1>1, <1>2, <1>3, <1>4, <2>1, FitCollect
  <2> QED BY <1>1, <1>5, <2>2
<1>7. OneJobEach(Pending')
  <2> PICK P \in Seq(Targets) : P = Pending
    BY <1>0, PendingType
  <2>1. OneJobEach(P) /\ \A n \in DOMAIN P : P[n] # i
    BY <1>4 DEF KeepsUp
  <2>2. OneJobEach(Append(P, i))
    BY <2>1 DEF OneJobEach
  <2> QED BY <1>5, <2>2
<1>8. PushedInTime'
  <2>1. \A k \in Targets : due[k] <= due'[k]
    BY <1>1, <1>2, <1>3
  <2>2. \A n \in DOMAIN jobs : jobs[n].target \in Targets /\ jobs[n].at \in Nat
    <3>1. \A j \in Job : j.target \in Targets /\ j.at \in Nat
      BY DEF Job
    <3>2. \A n \in DOMAIN jobs : jobs[n] \in Job
      BY <1>2
    <3> QED BY <3>1, <3>2
  <2>3. PushedInTime
    BY DEF KeepsUp
  <2> SUFFICES ASSUME NEW n \in DOMAIN jobs
               PROVE  jobs[n].at <= mono /\ jobs[n].at <= due'[jobs[n].target]
    BY <1>1 DEF PushedInTime
  <2> PICK t \in Targets, b \in Nat : t = jobs[n].target /\ b = jobs[n].at
    BY <2>2
  <2>4. b <= mono /\ b <= due[t] /\ due[t] <= due'[t] /\ due[t] \in Nat /\ due'[t] \in Nat
    BY <1>2, <2>1, <2>3 DEF PushedInTime
  <2> QED BY <2>4
<1> QED BY <1>0, <1>1, <1>6, <1>7, <1>8 DEF KeepsUp

\* The jobs of an iteration are pushed.
LEMMA PushKeepsUp ==
  ASSUME Positive, EnoughWorkers, KeepsUp, SchedulerStep, PushJobs, jobs' = Pushed
  PROVE  KeepsUp'
<1>0. PoolTypeOK /\ CollectInv /\ PoolTypeOK' /\ CollectInv'
  <2>1. [Next]_vars /\ PoolNext
    BY SchedulerSteps DEF PoolNext
  <2> QED BY <2>1, CollectInvStep, PoolTypeStep DEF KeepsUp
<1>1. /\ loc = "push" /\ loc' = "sleep" /\ UNCHANGED <<mono, due, at, out, free_at>>
  BY DEF PushJobs, SchedulerStep, clock
<1>2. /\ jobs \in Seq(Job) /\ out \in Seq(Targets) /\ at = mono /\ mono \in Nat
      /\ due \in [Targets -> Nat]
  BY <1>0, <1>1 DEF PoolTypeOK, TypeOK, Job, KeepsUp
<1> PICK J \in Seq(Job), O \in Seq(Targets), m \in Nat : J = jobs /\ O = out /\ m = mono
  BY <1>2
<1>3. jobs' = J \o [n \in DOMAIN O |-> [target |-> O[n], at |-> m]]
  BY DEF Pushed
<1> PICK K : K = [n \in DOMAIN O |-> [target |-> O[n], at |-> m]]
  OBVIOUS
<1>4. K \in Seq(Job)
  <2>1. \A n \in DOMAIN O : [target |-> O[n], at |-> m] \in Job
    BY DEF Job
  <2> QED BY <2>1
<1>5. Len(K) = Len(O) /\ \A n \in 1 .. Len(O) : K[n].target = O[n] /\ K[n].at = m
  OBVIOUS
<1>6. Pending' = Pending
  <2>1. Pending' = TargetsOf(J \o K) \o << >> /\ Pending = TargetsOf(J) \o O
    BY <1>1, <1>3 DEF Pending, ToBePushed
  <2>2. TargetsOf(K) = O
    <3> PICK T \in Seq(Targets) : T = TargetsOf(K)
      BY <1>4, JobsTell
    <3>1. Len(T) = Len(O) /\ \A n \in 1 .. Len(O) : T[n] = O[n]
      BY <1>4, <1>5, JobsTell
    <3>2. T = O
      BY ONLY <3>1, T \in Seq(Targets), O \in Seq(Targets), SameSeq
    <3> QED BY <3>2
  <2>3. TargetsOf(J) \in Seq(Targets)
    BY JobsTell
  <2>4. TargetsOf(J \o K) = TargetsOf(J) \o O
    BY <1>4, <2>2, JobsJoined
  <2>5. (TargetsOf(J) \o O) \o << >> = TargetsOf(J) \o O
    BY <2>3
  <2> QED BY <2>1, <2>4, <2>5
<1>7. PushedInTime'
  <2>1. \A n \in DOMAIN O : m < due[O[n]]
    BY <1>0, <1>2 DEF CollectInv, OutIsDueLater
  <2>2. \A n \in 1 .. Len(J) : J[n].at <= m /\ J[n].at <= due[J[n].target]
    BY DEF KeepsUp, PushedInTime
  <2>3. ASSUME NEW n \in 1 .. Len(K) PROVE K[n].at <= m /\ K[n].at <= due[K[n].target]
    <3>1. K[n].target = O[n] /\ K[n].at = m /\ O[n] \in Targets
      BY <1>5
    <3>2. m < due[O[n]] /\ due[O[n]] \in Nat
      BY <1>2, <1>5, <2>1, <3>1
    <3> QED BY <3>1, <3>2
  <2>4. \A n \in DOMAIN (J \o K) : \/ n \in 1 .. Len(J) /\ (J \o K)[n] = J[n]
                                   \/ n - Len(J) \in 1 .. Len(K) /\ (J \o K)[n] = K[n - Len(J)]
    BY <1>4
  <2>5. ASSUME NEW n \in DOMAIN (J \o K)
        PROVE  (J \o K)[n].at <= m /\ (J \o K)[n].at <= due[(J \o K)[n].target]
    <3> PICK x : x = (J \o K)[n]
      OBVIOUS
    <3>1. x.at <= m /\ x.at <= due[x.target]
      BY <2>2, <2>3, <2>4
    <3> QED BY <3>1
  <2> QED BY <1>1, <1>3, <2>5 DEF PushedInTime
<1> QED BY <1>0, <1>1, <1>6, <1>7 DEF KeepsUp

\* A worker takes the first job.
LEMMA ProbeKeepsUp ==
  ASSUME EnoughWorkers, KeepsUp, PoolTypeOK', CollectInv', NEW w \in DOMAIN free_at, Probe(w)
  PROVE  KeepsUp'
<1>0. PoolTypeOK /\ PushedInTime
  BY DEF KeepsUp
<1>1. /\ jobs # << >> /\ jobs' = Tail(jobs) /\ UNCHANGED vars
      /\ \A v \in DOMAIN free_at : free_at[w] <= free_at[v]
  BY DEF Probe, MayTake
<1> PICK b \in {Answer, Timeout} : free_at' = [free_at EXCEPT ![w] = TakenAt(w) + b]
  BY DEF Probe
<1>2. /\ jobs \in Seq(Job) /\ out \in Seq(Targets) /\ mono \in Nat /\ due \in [Targets -> Nat]
  BY <1>0 DEF PoolTypeOK, TypeOK, Job
<1> PICK W \in SUBSET Threads : free_at \in [W -> Nat]
  BY <1>0 DEF PoolTypeOK
<1>3. /\ Head(jobs).at \in Nat /\ Head(jobs).target \in Targets
      /\ Head(jobs).at <= due[Head(jobs).target]
  <2>1. 1 \in DOMAIN jobs /\ 1 \in 1 .. Len(jobs) /\ Head(jobs) = jobs[1]
    BY <1>1, <1>2
  <2> QED BY <1>0, <1>2, <2>1, JobsTell DEF PushedInTime
<1>4. /\ Pending # << >> /\ Head(Pending) = Head(jobs).target
      /\ Pending' = Tail(Pending)
  <2> PICK R \in Seq(Targets), O \in Seq(Targets) : R = TargetsOf(jobs) /\ O = ToBePushed
    BY <1>0, <1>2, JobsTell, PendingType
  <2>1. 1 \in 1 .. Len(jobs) /\ Head(jobs) = jobs[1] /\ Len(jobs) \in Nat
    BY <1>1, <1>2
  <2>2. Len(R) = Len(jobs) /\ R[1] = Head(jobs).target
    BY <1>2, <2>1, JobsTell
  <2>3. Pending = R \o O /\ R # << >> /\ Head(R) = Head(jobs).target
    BY <2>1, <2>2 DEF Pending
  <2>4. TargetsOf(Tail(jobs)) = Tail(R)
    BY <1>1, <1>2, JobsTail
  <2>5. Pending' = Tail(R) \o O
    BY <1>1, <2>4 DEF Pending, ToBePushed, vars
  <2>6. Tail(R \o O) = Tail(R) \o O /\ Head(R \o O) = Head(R) /\ R \o O # << >>
    BY <2>3
  <2> QED BY <2>3, <2>5, <2>6
<1> PICK a \in Nat : a = Head(jobs).at
  BY <1>3
<1> PICK P \in Seq(Targets) : P = Pending
  BY <1>0, PendingType
<1>5. Fits(Tail(P), due, free_at')
  <2>1. Fits(P, due, free_at) /\ OneJobEach(P)
    BY DEF KeepsUp
  <2>2. a <= due[Head(P)] /\ P # << >>
    BY <1>3, <1>4
  <2>3. w \in W /\ \A v \in W : free_at[w] <= free_at[v]
    BY <1>1
  <2>4. free_at' = [free_at EXCEPT ![w] = Larger(free_at[w], a) + b]
    BY DEF TakenAt
  <2>5. /\ EnoughWorkers /\ P \in Seq(Targets) /\ due \in [Targets -> Nat]
        /\ free_at \in [W -> Nat] /\ a \in Nat /\ b \in {Answer, Timeout}
    BY <1>2
  <2> QED BY ONLY <2>1, <2>2, <2>3, <2>4, <2>5, FitProbe
<1>6. OneJobEach(Tail(P))
  <2>1. OneJobEach(P) /\ P # << >>
    BY <1>4 DEF KeepsUp
  <2> QED BY <2>1 DEF OneJobEach
<1>7. PushedInTime'
  BY <1>0, <1>1, <1>2 DEF PushedInTime, vars
<1> QED BY <1>1, <1>4, <1>5, <1>6, <1>7 DEF KeepsUp, vars

\* Whatever else happens leaves the jobs alone.
LEMMA KeepsUpElse ==
  ASSUME KeepsUp, PoolTypeOK', CollectInv', UNCHANGED <<jobs, free_at, due>>, mono <= mono',
         Pending' = Pending, loc' \in {"collect", "push"} => at' = mono'
  PROVE  KeepsUp'
<1>1. PushedInTime'
  <2> SUFFICES ASSUME NEW n \in DOMAIN jobs
               PROVE  jobs[n].at <= mono' /\ jobs[n].at <= due[jobs[n].target]
    BY DEF PushedInTime
  <2>1. jobs[n].at <= mono /\ jobs[n].at <= due[jobs[n].target]
    BY DEF KeepsUp, PushedInTime
  <2>2. jobs \in Seq(Job) /\ mono \in Nat /\ mono' \in Nat
    BY DEF KeepsUp, PoolTypeOK, TypeOK, Job
  <2>3. jobs[n].at \in Nat
    BY <2>2, JobsTell
  <2> QED BY <2>1, <2>2, <2>3
<1> QED BY <1>1 DEF KeepsUp

\* Every step keeps up.
LEMMA KeepsUpStep ==
  ASSUME Positive, EnoughWorkers PROVE KeepsUp /\ [PoolNext]_<<vars, pool>> => KeepsUp'
<1> SUFFICES ASSUME KeepsUp, [PoolNext]_<<vars, pool>> PROVE KeepsUp'
  OBVIOUS
<1>0. PoolTypeOK /\ PoolTypeOK' /\ CollectInv'
  BY PoolStep, CollectInvStep, PoolTypeStep DEF KeepsUp
<1>1. mono \in Nat /\ mono' \in Nat
  BY <1>0 DEF PoolTypeOK, TypeOK
<1>2. ASSUME NEW w \in DOMAIN free_at, Probe(w) PROVE KeepsUp'
  BY <1>0, <1>2, ProbeKeepsUp
<1>3. CASE SchedulerStep
  <2>1. CASE PushJobs /\ jobs' = Pushed
    BY <1>3, <2>1, PushKeepsUp
  <2>2. ASSUME NEW i \in Targets, Collect(i), jobs' = jobs PROVE KeepsUp'
    BY <1>3, <2>2, CollectKeepsUp
  <2>3. ASSUME Iterate \/ CollectReturns \/ Stop \/ Sleep \/ CheckGap \/ Suspend \/ Ended,
               jobs' = jobs
        PROVE  KeepsUp'
    <3>0. free_at' = free_at
      BY <1>3 DEF SchedulerStep
    <3>1. CASE Iterate
      <4>1. /\ loc = "top" /\ loc' = "collect" /\ out' = << >> /\ at' = mono
            /\ UNCHANGED <<due, mono>>
        BY <3>1 DEF Iterate, clock
      <4>2. Pending' = Pending
        BY <2>3, <4>1 DEF Pending, ToBePushed
      <4> QED BY <1>0, <1>1, <2>3, <3>0, <4>1, <4>2, KeepsUpElse
    <3>2. CASE CollectReturns
      <4>1. loc = "collect" /\ loc' = "push" /\ UNCHANGED <<due, mono, at, out>>
        BY <3>2 DEF CollectReturns, clock
      <4>2. Pending' = Pending
        BY <2>3, <4>1 DEF Pending, ToBePushed
      <4> QED BY <1>0, <1>1, <2>3, <3>0, <4>1, <4>2, KeepsUpElse DEF KeepsUp
    <3>3. CASE Stop \/ CheckGap
      <4>1. /\ loc \in {"top", "wall"} /\ loc' \in {"stopped", "top"}
            /\ UNCHANGED <<due, mono, at, out>>
        BY <3>3 DEF Stop, CheckGap, clock
      <4>2. Pending' = Pending
        BY <2>3, <4>1 DEF Pending, ToBePushed
      <4> QED BY <1>0, <1>1, <2>3, <3>0, <4>1, <4>2, KeepsUpElse
    <3>4. CASE Sleep
      <4>1. /\ loc = "sleep" /\ loc' = "wall" /\ UNCHANGED <<due, at, out>>
        BY <3>4 DEF Sleep
      <4>2. mono <= mono'
        BY <1>0, <1>1, <3>4, WaitForType, SchedulerAssumption DEF Sleep, PoolTypeOK
      <4>3. Pending' = Pending
        BY <2>3, <4>1 DEF Pending, ToBePushed
      <4> QED BY <1>0, <2>3, <3>0, <4>1, <4>2, <4>3, KeepsUpElse
    <3>5. CASE Suspend \/ Ended
      <4>1. UNCHANGED <<loc, due, mono, at, out>>
        BY <3>5 DEF Suspend, Ended, vars
      <4>2. Pending' = Pending
        BY <2>3, <4>1 DEF Pending, ToBePushed
      <4> QED BY <1>0, <1>1, <2>3, <3>0, <4>1, <4>2, KeepsUpElse DEF KeepsUp
    <3> QED BY <2>3, <3>1, <3>2, <3>3, <3>4, <3>5
  <2> QED BY <1>3, <2>1, <2>2, <2>3 DEF SchedulerStep
<1>4. CASE UNCHANGED <<vars, pool>>
  <2>1. UNCHANGED <<loc, due, mono, at, out, jobs, free_at>>
    BY <1>4 DEF vars, pool
  <2>2. Pending' = Pending
    BY <2>1 DEF Pending, ToBePushed
  <2> QED BY <1>0, <1>1, <2>1, <2>2, KeepsUpElse DEF KeepsUp
<1> QED BY <1>2, <1>3, <1>4 DEF PoolNext

\* At the start there is a worker for every target.
LEMMA KeepsUpInit == ASSUME EnoughWorkers, PoolInit PROVE KeepsUp
<1>0. PoolTypeOK /\ CollectInv
  BY PoolInitType, CollectInvInit DEF PoolInit
<1>1. loc = "top" /\ jobs = << >> /\ due \in [Targets -> Nat]
  BY <1>0 DEF PoolInit, Init, PoolTypeOK, TypeOK
<1>2. Pending = << >> /\ PushedInTime
  <2>1. TargetsOf(jobs) = << >>
    BY <1>1 DEF TargetsOf
  <2> QED BY <1>1, <2>1 DEF Pending, ToBePushed, PushedInTime
<1>3. PICK W \in SUBSET Threads : Cardinality(W) = Workers /\ free_at = [w \in W |-> 0]
  BY DEF PoolInit
<1>4. N \in Nat \ {0} /\ Workers \in Nat /\ N <= Workers
  BY TargetsExist, PoolAssumption DEF EnoughWorkers, Workers, Larger, Smaller
<1>5. ExistsBijection(1 .. Workers, W)
  BY <1>3, PoolAssumption, FS_Subset, FS_CardinalityType
<1>6. PICK b \in [1 .. Workers -> W] : \A m, n \in 1 .. Workers : b[m] = b[n] => m = n
  BY <1>5 DEF ExistsBijection, Bijection, Injection, IsInjective
<1> PICK g : g = [k \in Targets |-> b[k]]
  OBVIOUS
<1>7. /\ g \in [Targets -> DOMAIN free_at]
      /\ \A j, k \in Targets : j # k => g[j] # g[k]
      /\ \A k \in Targets : free_at[g[k]] = 0
  BY <1>3, <1>4, <1>6 DEF Targets
<1>8. Timeout \in Nat /\ \A k \in Targets : due[k] \in Nat
  BY <1>1, PoolAssumption
<1>9. Fit(<< >>, due, g, due, free_at)
  BY <1>1, <1>7, <1>8 DEF Fit
<1> QED BY <1>0, <1>1, <1>2, <1>9 DEF KeepsUp, Fits, OneJobEach

\* A target has one job at most among those pending.
LEMMA OneWaits == ASSUME KeepsUp PROVE \A i \in Targets : Cardinality(Waiting(i)) <= 1
<1> SUFFICES ASSUME NEW i \in Targets PROVE Cardinality(Waiting(i)) <= 1
  OBVIOUS
<1>1. jobs \in Seq(Job) /\ out \in Seq(Targets) /\ OneJobEach(Pending)
  BY DEF KeepsUp, PoolTypeOK, TypeOK, Job
<1>2. \A m, n \in DOMAIN jobs : m # n => jobs[m].target # jobs[n].target
  <2>0. TargetsOf(jobs) \in Seq(Targets) /\ ToBePushed \in Seq(Targets)
    BY <1>1, JobsTell DEF ToBePushed
  <2> PICK R \in Seq(Targets), O \in Seq(Targets) : R = TargetsOf(jobs) /\ O = ToBePushed
    BY <2>0
  <2>1. Len(R) = Len(jobs) /\ \A n \in 1 .. Len(jobs) : R[n] = jobs[n].target
    BY <1>1, JobsTell
  <2>2. OneJobEach(R \o O)
    BY <1>1 DEF Pending
  <2>3. \A n \in DOMAIN R : n \in DOMAIN (R \o O) /\ (R \o O)[n] = R[n]
    OBVIOUS
  <2> PICK Q : Q = R \o O
    OBVIOUS
  <2>4. \A m, n \in DOMAIN R : m # n => R[m] # R[n]
    BY <2>2, <2>3 DEF OneJobEach
  <2>5. DOMAIN R = 1 .. Len(jobs) /\ DOMAIN jobs = 1 .. Len(jobs)
    BY <1>1, <2>1
  <2> QED BY <2>1, <2>4, <2>5
<1>3. Waiting(i) = {} \/ \E k : Waiting(i) = {k}
  BY <1>2 DEF Waiting
<1>4. CASE Waiting(i) = {}
  BY <1>4, FS_EmptySet
<1>5. ASSUME NEW k, Waiting(i) = {k} PROVE Cardinality(Waiting(i)) <= 1
  <2>1. Cardinality({k}) = 1
    BY FS_Singleton
  <2> QED BY <1>5, <2>1
<1> QED BY <1>3, <1>4, <1>5

\* A worker for every target and no timeout above an interval: a target never has two
\* jobs waiting, whatever times out and however late the scheduler comes
\* (prober.cpp:560-561, 597).
THEOREM JobsDoNotPileUp == PoolSpec => []QueueKeepsUp
<1>1. CASE ~EnoughWorkers
  <2>1. QueueKeepsUp
    BY <1>1 DEF QueueKeepsUp, EnoughWorkers
  <2> QED BY <2>1, PTL
<1>2. CASE EnoughWorkers
  <2>1. Positive
    BY <1>2, TargetsExist, PoolAssumption DEF EnoughWorkers, Positive
  <2>2. PoolInit => KeepsUp
    BY <1>2, KeepsUpInit
  <2>3. KeepsUp /\ [PoolNext]_<<vars, pool>> => KeepsUp'
    BY <1>2, <2>1, KeepsUpStep
  <2>4. KeepsUp => QueueKeepsUp
    BY OneWaits DEF QueueKeepsUp
  <2> QED BY <2>2, <2>3, <2>4, PTL DEF PoolSpec
<1> QED BY <1>1, <1>2
=============================================================================
