------------------------------- MODULE Rollup -------------------------------
(* rollup.cpp: the per-minute rows of rollup/<date>.csv, fed by the writer      *)
(* thread sample by sample (prober.cpp:395-397, 500) through any number of runs *)
(* of the prober, and summed up by analyze (analyzer.cpp:52-116). Every row is a *)
(* step of its own: it opens the file of its date, which creates it, and is      *)
(* flushed at the end, with the header if the file did not exist. A kill in      *)
(* between leaves an empty file, which never gets a header, while analyze skips  *)
(* the first line of every file whatever it is. Percentiles and names are left   *)
(* out.                                                                         *)
EXTENDS Integers, FiniteSets, SequencesExt

CONSTANTS Targets,     \* ids of the probed targets
          MinuteMs,    \* kMinuteMs
          DayMs,       \* what the minutes of one file span
          RttNa,       \* kRttNa
          Rtts,        \* the round trips probes may take, in tenths of a ms
          Jitter,      \* how far before `now` a sample may be stamped
          MayFail,     \* whether opening a rollup file may fail
          MaxTime,     \* bound: the clock
          MaxSamples,  \* bound: samples
          MaxCrashes   \* bound: kills

ASSUME RollupAssumption ==
  /\ Targets \subseteq Nat /\ IsFiniteSet(Targets)
  /\ MinuteMs \in Nat \ {0} /\ DayMs \in Nat \ {0}
  /\ Rtts \subseteq Nat /\ RttNa \in Nat \ Rtts
  /\ Jitter \in Nat
  /\ MayFail \in BOOLEAN
  /\ MaxTime \in Nat /\ MaxSamples \in Nat /\ MaxCrashes \in Nat

VARIABLES buckets,  \* buckets_: what is pending for each minute and target
          writing,  \* the minutes that a flush or finalize() has still to write
          files,    \* each date's file is absent, empty, or begun: it has a first line
          rows,     \* the lines below the first of all files, in the order written
          running,  \* whether the writer takes samples
          now,      \* the clock
          given,    \* history: the samples of all runs
          spoilt,   \* history: minutes and targets with counts lost in a kill, in a
                    \* failure, or in a first line
          crashes   \* kills so far

vars == <<buckets, writing, files, rows, running, now, given, spoilt, crashes>>

Minute(utc) == (utc \div MinuteMs) * MinuteMs
Minutes == {Minute(utc) : utc \in 0 .. MaxTime}
Date(minute) == minute \div DayMs

\* A bucket that does not exist counts nothing.
NoBucket == [sent |-> 0, lost |-> 0, rtt |-> << >>]
Empty    == [m \in Minutes |-> [t \in Targets |-> NoBucket]]

Bucket == [sent : 0 .. MaxSamples, lost : 0 .. MaxSamples, rtt : Seq(Rtts)]
Row    == [minute : Minutes, target : Targets, sent : 1 .. MaxSamples, lost : 0 .. MaxSamples,
           has_rtt : BOOLEAN, min : Nat, avg : Nat, max : Nat]

\* What became of a probe: a round trip, one that is not available, or no answer.
Lost    == -1
Results == Rtts \cup {RttNa, Lost}

TypeOK ==
  /\ buckets \in [Minutes -> [Targets -> Bucket]]
  /\ writing \subseteq Minutes
  /\ files \in [{Date(m) : m \in Minutes} -> {"absent", "empty", "begun"}]
  /\ rows \in Seq(Row)
  /\ running \in BOOLEAN
  /\ now \in 0 .. MaxTime
  /\ given \in Seq([target : Targets, utc : 0 .. MaxTime, result : Results])
  /\ spoilt \subseteq Minutes \X Targets
  /\ crashes \in 0 .. MaxCrashes

Init ==
  /\ buckets = Empty
  /\ writing = {}
  /\ files = [d \in {Date(m) : m \in Minutes} |-> "absent"]
  /\ rows = << >>
  /\ running = TRUE
  /\ now = 0
  /\ given = << >>
  /\ spoilt = {}
  /\ crashes = 0

Pending(b) == {m \in Minutes : \E t \in Targets : b[m][t] # NoBucket}

-----------------------------------------------------------------------------
\* Slips the code could contain; each is checked to break a property.
CompletedLate(b, utc) == {m \in Pending(b) : m + MinuteMs < Minute(utc)}
ErasedMinute(b, k) == [b EXCEPT ![k[1]] = [t \in Targets |-> NoBucket]]
AddLostOnly(b, t, result, utc) ==
  LET old == b[Minute(utc)][t] IN
  [b EXCEPT ![Minute(utc)][t] =
     IF result = Lost THEN [old EXCEPT !.lost = @ + 1] ELSE [old EXCEPT !.sent = @ + 1]]
EveryRowAlike(row) == 1
-----------------------------------------------------------------------------
(* RollupWriter *)

\* add()
Added(b, t, result, utc) ==
  LET old == b[Minute(utc)][t] IN
  [b EXCEPT ![Minute(utc)][t] =
     [sent |-> old.sent + 1,
      lost |-> IF result = Lost THEN old.lost + 1 ELSE old.lost,
      rtt  |-> IF result \in {Lost, RttNa} THEN old.rtt ELSE Append(old.rtt, result)]]

\* The minutes flush_completed() writes.
Completed(b, utc) == {m \in Pending(b) : m < Minute(utc)}

\* The row of a bucket: an average is rounded to a tenth, and all times are blank
\* if there is none.
Filled(minute, t, bucket) ==
  LET sum == SumFunction(bucket.rtt)
      n   == Len(bucket.rtt)
  IN  [minute |-> minute, target |-> t, sent |-> bucket.sent, lost |-> bucket.lost,
       has_rtt |-> n > 0,
       min |-> IF n = 0 THEN 0 ELSE Min(ToSet(bucket.rtt)),
       avg |-> IF n = 0 THEN 0 ELSE (2 * sum + n) \div (2 * n),
       max |-> IF n = 0 THEN 0 ELSE Max(ToSet(bucket.rtt))]

\* The buckets of minutes ms, and which of those to be written comes first.
Keys(b, ms)  == {k \in ms \X Targets : b[k[1]][k[2]] # NoBucket}
Before(j, k) == j[1] < k[1] \/ (j[1] = k[1] /\ j[2] < k[2])
IsNext(k) ==
  LET keys == Keys(buckets, writing) IN k \in keys /\ \A j \in keys : j = k \/ Before(k, j)

\* A bucket is done. The code drops the buckets of a minute together, after the
\* last of them; nothing looks at them before.
Erased(b, k) == [b EXCEPT ![k[1]][k[2]] = NoBucket]

\* write_minute() for one target: the row goes below the first line, the header if
\* the file is fresh; into an empty file it goes as the first line; and it goes
\* nowhere if the file cannot be opened.
WriteMinute(k) ==
  /\ IsNext(k)
  /\ \/ /\ files[Date(k[1])] \in {"absent", "begun"}
        /\ files' = [files EXCEPT ![Date(k[1])] = "begun"]
        /\ rows' = Append(rows, Filled(k[1], k[2], buckets[k[1]][k[2]]))
        /\ UNCHANGED spoilt
     \/ /\ files[Date(k[1])] = "empty"
        /\ files' = [files EXCEPT ![Date(k[1])] = "begun"]
        /\ spoilt' = spoilt \cup {k} /\ UNCHANGED rows
     \/ MayFail /\ spoilt' = spoilt \cup {k} /\ UNCHANGED <<files, rows>>
  /\ buckets' = Erased(buckets, k)
  /\ writing' = writing \cap Pending(buckets')
  /\ UNCHANGED <<running, now, given, crashes>>

\* A probe result reaches the writer: add(), and flush_completed() begins.
Sample(t, result, utc) ==
  /\ running /\ writing = {} /\ Len(given) < MaxSamples
  /\ given' = Append(given, [target |-> t, utc |-> utc, result |-> result])
  /\ buckets' = Added(buckets, t, result, utc)
  /\ writing' = Completed(buckets', utc)
  /\ UNCHANGED <<files, rows, running, now, spoilt, crashes>>

\* The prober stops: finalize() begins.
Finalize ==
  /\ running /\ writing = {}
  /\ running' = FALSE
  /\ writing' = Pending(buckets)
  /\ UNCHANGED <<buckets, files, rows, now, given, spoilt, crashes>>

\* The process is killed: what is pending is gone, what is still to be written of a
\* flush included.
Killed ==
  /\ running \/ writing # {}
  /\ crashes < MaxCrashes /\ crashes' = crashes + 1
  /\ running' = FALSE /\ writing' = {}
  /\ spoilt' = spoilt \cup Keys(buckets, Minutes)
  /\ buckets' = Empty
  /\ UNCHANGED <<rows, now, given>>

Crash == Killed /\ UNCHANGED files

\* A kill between the creation of the file for the next row and its first flush.
CrashCreating ==
  /\ \E k \in Keys(buckets, writing) :
       /\ IsNext(k) /\ files[Date(k[1])] = "absent"
       /\ files' = [files EXCEPT ![Date(k[1])] = "empty"]
  /\ Killed

\* The next run of the prober; the buckets of the last one are gone by then.
Start ==
  /\ ~running /\ writing = {} /\ now < MaxTime
  /\ running' = TRUE
  /\ now' = now + 1
  /\ UNCHANGED <<buckets, writing, files, rows, given, spoilt, crashes>>

Tick ==
  /\ now < MaxTime
  /\ now' = now + 1
  /\ UNCHANGED <<buckets, writing, files, rows, running, given, spoilt, crashes>>

\* The bound on the clock is reached.
Exhausted == ~running /\ writing = {} /\ now = MaxTime /\ UNCHANGED vars

Next ==
  \/ \E t \in Targets, result \in Results, utc \in now - Jitter .. now :
       utc >= 0 /\ Sample(t, result, utc)
  \/ \E k \in Keys(buckets, writing) : WriteMinute(k)
  \/ Finalize \/ Crash \/ CrashCreating \/ Start \/ Tick \/ Exhausted

Spec == Init /\ [][Next]_vars

-----------------------------------------------------------------------------
(* analyze *)

\* How much the average of a row counts in that of the window: by the probes that
\* were answered.
Weight(row) == IF row.sent > row.lost THEN row.sent - row.lost ELSE 0

\* aggregate() over the rows load_rollups() keeps, for one target: it takes no first
\* line for a row.
Aggregate(t, from, to) ==
  LET mine  == {i \in DOMAIN rows : /\ rows[i].target = t
                                    /\ from <= rows[i].minute /\ rows[i].minute <= to}
      timed == {i \in mine : rows[i].has_rtt}
  IN  [sent |-> SumFunction([i \in mine |-> rows[i].sent]),
       lost |-> SumFunction([i \in mine |-> rows[i].lost]),
       ok   |-> SumFunction([i \in timed |-> Weight(rows[i])]),
       wsum |-> SumFunction([i \in timed |-> Weight(rows[i]) * rows[i].avg]),
       mins |-> {rows[i].min : i \in timed}, maxs |-> {rows[i].max : i \in timed}]

-----------------------------------------------------------------------------
(* Properties *)

SamplesOf(t, m) == {i \in DOMAIN given : given[i].target = t /\ Minute(given[i].utc) = m}

\* What analyze sums up for a target in a minute and what is still pending are all
\* its samples of that minute, each counted once, however many rows they are spread
\* over and however late they came; but for what was pending in a kill, in the midst
\* of a flush too, what could not be written, and a row that became the first line
\* of a file that a kill left empty (rollup.cpp:30-72, analyzer.cpp:58-116).
EverySampleCounted ==
  \A m \in Minutes, t \in Targets : <<m, t>> \notin spoilt =>
    LET own == SamplesOf(t, m)
        sum == Aggregate(t, m, m)
    IN  /\ sum.sent + buckets[m][t].sent = Cardinality(own)
        /\ sum.lost + buckets[m][t].lost = Cardinality({i \in own : given[i].result = Lost})

\* What a kill may cost: if no sample is stamped more than Jitter before it reaches
\* the writer, what is pending is of the minute of the latest sample or of one that
\* began at most Jitter after its stamp; and as long as a flush is under way, of
\* those that were pending so when it began, with the sample before
\* (rollup.cpp:41-48, prober.cpp:396-397).
Recent(i) == {m \in Minutes : Minute(given[i].utc) <= m /\ m <= given[i].utc + Jitter}
OnlyRecentPending ==
  given # << >> =>
    Pending(buckets) \subseteq
      Recent(Len(given)) \cup (IF writing # {} /\ Len(given) > 1 THEN Recent(Len(given) - 1) ELSE {})

\* What the summary of analyze says of the round trips of a minute that is written
\* is true of the probes of a target, over however many rows: the shortest and the longest are
\* exact, and the average is off by no more than the rounding of the rows, unless a
\* probe was answered in a time that is not available (rollup.cpp:74-90,
\* analyzer.cpp:100-116).
SummaryIsTrue ==
  \A m \in Minutes, t \in Targets : <<m, t>> \notin spoilt /\ buckets[m][t] = NoBucket =>
    LET own   == SamplesOf(t, m)
        timed == {i \in own : given[i].result \in Rtts}
        sum   == SumFunction([i \in timed |-> given[i].result])
        agg   == Aggregate(t, m, m)
        error == Cardinality(timed) * agg.wsum - sum * agg.ok
    IN  timed # {} =>
          /\ Min(agg.mins) = Min({given[i].result : i \in timed})
          /\ Max(agg.maxs) = Max({given[i].result : i \in timed})
          /\ (\A i \in own : given[i].result # RttNa) =>
               2 * Max({error, -error}) <= Cardinality(timed) * agg.ok
=============================================================================
