---------------------------- MODULE EventDetector ----------------------------
(* events.cpp: the online outage detector and the event log, driven as the     *)
(* writer thread drives them (prober.cpp:344-398, 499), through any number of  *)
(* runs of the prober: probe results and monitor gaps are fed in, the          *)
(* detector is finalized on shutdown, and a crash may come at any point.       *)
(*                                                                             *)
(* Times are small numbers; the wall clock may be set back. An event row       *)
(* keeps its numbers and its type; names and the formatted duration are left   *)
(* out. trace_ref is the pair <<start, target>> its file name is made of.      *)
(*                                                                             *)
(* The first append creates events.csv, and flushes its header and row at the  *)
(* end. A kill in between leaves an empty file, which never gets a header.     *)
EXTENDS Integers, Sequences, FiniteSets

CONSTANTS Targets,            \* ids of the probed targets
          FailThreshold,      \* events.fail_threshold
          MinOutageMs,        \* events.min_outage_ms
          TriggerTraceroute,  \* events.trigger_traceroute
          AppendMayFail,      \* whether opening events.csv for append may fail
          Deltas,             \* how far apart consecutive samples may be stamped
          GapMs,              \* lengths of monitor gaps
          MaxHist             \* bound: steps of the history

ASSUME DetectorAssumption ==
  /\ Targets \subseteq Nat \ {0} /\ IsFiniteSet(Targets)
  /\ FailThreshold \in Int
  /\ MinOutageMs \in Int
  /\ TriggerTraceroute \in BOOLEAN
  /\ AppendMayFail \in BOOLEAN
  /\ Deltas \subseteq Int
  /\ GapMs \subseteq Nat
  /\ MaxHist \in Nat

VARIABLES st,        \* state_: the detector's record of each target
          counter,   \* EventLog::counter_
          events,    \* the lines of events.csv but for the header
          headless,  \* events.csv was created by an append that was killed: no header
          requests,  \* trace jobs pushed by on_open
          last_utc,  \* the writer's last_utc
          phase,     \* what the writer thread is doing
          hist,      \* history: everything the detector was told
          dropped    \* history: a row could not be appended to events.csv

log  == <<counter, events, headless, dropped>>
vars == <<st, log, requests, last_utc, phase, hist>>

NoTrace == << >>
Monitor == 0            \* target_id of a monitor_gap row

Healthy == [in_outage |-> FALSE, consec |-> 0, cand_start |-> 0, start |-> 0,
            last_utc |-> 0, sent |-> 0, lost |-> 0, trace_ref |-> NoTrace, type |-> "host"]

TraceRef  == {NoTrace} \cup (Nat \X Targets)
OutageRow == [event_id : Nat, target_id : Targets, start_utc : Nat, end_utc : Nat,
              sent : Nat, lost : Nat, type : {"host", "local"}, trace_ref : TraceRef]
GapRow    == [event_id : Nat, target_id : {Monitor}, start_utc : Nat, end_utc : Nat,
              sent : {0}, lost : {0}, type : {"monitor_gap"}, trace_ref : {NoTrace}]

TypeOK ==
  /\ st \in [Targets -> [in_outage : BOOLEAN, consec : Nat, cand_start : Nat, start : Nat,
                         last_utc : Nat, sent : Nat, lost : Nat, trace_ref : TraceRef,
                         type : {"host", "local"}]]
  /\ counter \in Nat
  /\ events \in Seq(OutageRow \cup GapRow)
  /\ requests \in Seq(Nat \X Targets)
  /\ last_utc \in Nat
  /\ phase \in {"running", "finalizing", "stopped"}
  /\ hist \in Seq([kind : {"ok", "fail", "gap", "stop", "boot"},
                   target : Targets \cup {Monitor}, utc : Nat])
  /\ headless \in BOOLEAN /\ dropped \in BOOLEAN

Init ==
  /\ st = [t \in Targets |-> Healthy]
  /\ counter = 0
  /\ events = << >>
  /\ requests = << >>
  /\ last_utc = 1
  /\ phase = "running"
  /\ hist = << >>
  /\ headless = FALSE /\ dropped = FALSE

Note(kind, t, utc) ==
  /\ Len(hist) < MaxHist
  /\ hist' = Append(hist, [kind |-> kind, target |-> t, utc |-> utc])

-----------------------------------------------------------------------------
\* Slips the code could contain; each is checked to break a property.

GapStartUnclamped(utc, gap) == utc - gap
CountEveryLine(rows) == Len(rows) + 1
ResetEverything(s) == Healthy
AddFailureInOutageAndTrace(s, t, utc) ==
  /\ s.in_outage
  /\ st' = [st EXCEPT ![t].last_utc = utc, ![t].sent = @ + 1, ![t].lost = @ + 1,
                      ![t].consec = @ + 1]
  /\ requests' = IF TriggerTraceroute THEN Append(requests, <<utc, t>>) ELSE requests
  /\ UNCHANGED log

-----------------------------------------------------------------------------
(* EventLog *)

\* The constructor: number on from the lines already in the file, without the
\* first, which is taken for the header; in a headless file it is a row.
CountRows(rows) == Len(rows) - (IF headless /\ rows # << >> THEN 1 ELSE 0)

\* append(): nothing is written if the file cannot be opened. The id, taken
\* with next_id() before the call, is used up all the same. The header is written
\* if the file does not exist.
LogEvent(row) ==
  /\ counter' = row.event_id /\ headless' = headless
  /\ \/ events' = Append(events, row) /\ dropped' = dropped
     \/ AppendMayFail /\ events' = events /\ dropped' = TRUE

-----------------------------------------------------------------------------
(* EventDetector *)

count_failing(t) == Cardinality({u \in Targets : st[u].in_outage \/ st[u].consec > 0} \cup {t})

\* At least 75% of the targets, and never with one or two of them.
Widespread(t) ==
  LET total == Cardinality(Targets) IN
  total > 2 /\ count_failing(t) * 100 >= total * 75

\* min_outage_ms is compared as an unsigned number: a negative one is never met.
LongEnough(start, end) ==
  /\ MinOutageMs >= 0
  /\ (IF end > start THEN end - start ELSE 0) >= MinOutageMs

\* close_outage(), for the record s that already counts the closing sample.
CloseOutage(s, t, end_utc) ==
  /\ IF LongEnough(s.start, end_utc)
     THEN LogEvent([event_id |-> counter + 1, target_id |-> t,
                    start_utc |-> s.start, end_utc |-> end_utc, sent |-> s.sent,
                    lost |-> s.lost, type |-> s.type, trace_ref |-> s.trace_ref])
     ELSE UNCHANGED log
  /\ st' = [st EXCEPT ![t] = [s EXCEPT !.in_outage = FALSE, !.consec = 0, !.sent = 0,
                                       !.lost = 0, !.type = "host"]]

\* add() in an outage: a failure prolongs it, the first success ends it.
AddFailureInOutage(s, t, utc) ==
  /\ s.in_outage
  /\ st' = [st EXCEPT ![t].last_utc = utc, ![t].sent = @ + 1, ![t].lost = @ + 1,
                      ![t].consec = @ + 1]
  /\ UNCHANGED <<log, requests>>

AddSuccessInOutage(s, t, utc) ==
  /\ s.in_outage
  /\ CloseOutage([s EXCEPT !.last_utc = utc, !.sent = @ + 1], t, utc)
  /\ UNCHANGED requests

\* add() while healthy: a success ends the run of failures.
AddSuccess(s, t, utc) ==
  /\ ~s.in_outage
  /\ st' = [st EXCEPT ![t].last_utc = utc, ![t].consec = 0]
  /\ UNCHANGED <<log, requests>>

\* add() while healthy: the start of the run the failure belongs to.
CandStart(s, utc) == IF s.consec = 0 THEN utc ELSE s.cand_start

AddFailureBelowThreshold(s, t, utc) ==
  /\ ~s.in_outage
  /\ s.consec + 1 < FailThreshold
  /\ st' = [st EXCEPT ![t].last_utc = utc, ![t].cand_start = CandStart(s, utc),
                      ![t].consec = @ + 1]
  /\ UNCHANGED <<log, requests>>

\* The failure that opens the outage, back-dated to the first of its run, and
\* that asks for a trace.
OpenOutage(s, t, utc) ==
  LET start == CandStart(s, utc) IN
  /\ ~s.in_outage
  /\ s.consec + 1 >= FailThreshold
  /\ st' = [st EXCEPT ![t] =
              [in_outage |-> TRUE, consec |-> s.consec + 1, cand_start |-> start,
               start |-> start, last_utc |-> utc, sent |-> s.consec + 1,
               lost |-> s.consec + 1,
               trace_ref |-> IF TriggerTraceroute THEN <<start, t>> ELSE NoTrace,
               type |-> IF Widespread(t) THEN "local" ELSE "host"]]
  /\ requests' = IF TriggerTraceroute THEN Append(requests, <<start, t>>) ELSE requests
  /\ UNCHANGED log

\* reset_after_gap(), for one target's record.
ResetAfterGap(s) == IF s.in_outage THEN s ELSE [s EXCEPT !.consec = 0]

-----------------------------------------------------------------------------
(* The writer thread *)

\* Samples are stamped with the wall clock, which may have been set back.
Stamps == {utc \in {last_utc + d : d \in Deltas} : utc >= 0}

\* A probe result of target t.
Sample(t, failed, utc) ==
  /\ phase = "running"
  /\ last_utc' = utc
  /\ Note(IF failed THEN "fail" ELSE "ok", t, utc)
  /\ IF failed
     THEN \/ AddFailureInOutage(st[t], t, utc)
          \/ AddFailureBelowThreshold(st[t], t, utc)
          \/ OpenOutage(st[t], t, utc)
     ELSE AddSuccessInOutage(st[t], t, utc) \/ AddSuccess(st[t], t, utc)
  /\ UNCHANGED phase

GapStart(utc, gap) == IF utc > gap THEN utc - gap ELSE 0

\* A monitor-gap marker: an event of its own, and pending runs are forgotten.
Gap(gap, utc) ==
  /\ phase = "running"
  /\ last_utc' = utc
  /\ Note("gap", Monitor, utc)
  /\ LogEvent([event_id |-> counter + 1, target_id |-> Monitor,
               start_utc |-> GapStart(utc, gap), end_utc |-> utc, sent |-> 0,
               lost |-> 0, type |-> "monitor_gap", trace_ref |-> NoTrace])
  /\ st' = [t \in Targets |-> ResetAfterGap(st[t])]
  /\ UNCHANGED <<requests, phase>>

\* The queue of samples is closed and drained: finalize(last_utc) begins.
Stop ==
  /\ phase = "running"
  /\ phase' = "finalizing"
  /\ UNCHANGED <<st, log, requests, last_utc, hist>>

\* finalize() closes the open outages one by one, in the order of the map.
FinalizeOutage(t) ==
  /\ phase = "finalizing"
  /\ st[t].in_outage
  /\ \A u \in Targets : u < t => ~st[u].in_outage
  /\ CloseOutage(st[t], t, IF last_utc > st[t].last_utc THEN last_utc ELSE st[t].last_utc)
  /\ Note("stop", t, last_utc)
  /\ UNCHANGED <<requests, last_utc, phase>>

Finalized ==
  /\ phase = "finalizing"
  /\ \A t \in Targets : ~st[t].in_outage
  /\ phase' = "stopped"
  /\ UNCHANGED <<st, log, requests, last_utc, hist>>

\* The prober is started again: what the detector knew is gone, and the log counts
\* its rows.
Boot ==
  /\ phase' = "running"
  /\ Note("boot", Monitor, last_utc)
  /\ st' = [t \in Targets |-> Healthy]
  /\ counter' = CountRows(events)
  /\ UNCHANGED <<events, dropped, requests, last_utc>>

\* After it stopped, or after a kill between two steps.
Restart == Boot /\ UNCHANGED headless

\* An append may be under way: of a marker, or of an outage that ends.
Appending ==
  \/ phase = "running" /\ GapMs # {}
  \/ \E t \in Targets :
       /\ st[t].in_outage
       /\ \E utc \in IF phase = "running" THEN Stamps ELSE {last_utc, st[t].last_utc} :
            LongEnough(st[t].start, utc)

\* After a kill in the first append, between the creation of the file and the flush
\* of its first lines. What was being handled is lost.
KilledCreatingLog ==
  /\ events = << >> /\ ~headless /\ Appending
  /\ headless' = TRUE
  /\ Boot

\* The bound on the history is reached.
Exhausted == Len(hist) = MaxHist /\ UNCHANGED vars

Next ==
  \/ \E t \in Targets, failed \in BOOLEAN, utc \in Stamps : Sample(t, failed, utc)
  \/ \E gap \in GapMs, utc \in Stamps : Gap(gap, utc)
  \/ Stop
  \/ \E t \in Targets : FinalizeOutage(t)
  \/ Finalized
  \/ Restart
  \/ KilledCreatingLog
  \/ Exhausted

Spec == Init /\ [][Next]_vars

-----------------------------------------------------------------------------
(* Properties; EventHistory has those about what the rows say *)

\* The ids are the row numbers, except that row k + 1 has the id of row k.
NumberedBut(k) ==
  /\ counter = IF k <= Len(events) THEN Len(events) - 1 ELSE Len(events)
  /\ \A i \in DOMAIN events : events[i].event_id = IF i <= k THEN i ELSE i - 1

\* Ids number on across restarts: they are the row numbers, whatever crashes and
\* restarts happen between next_id(), the append and the next run's count of the
\* rows (events.cpp:17-49), until a row cannot be appended. If a kill made the file
\* headless, one id comes twice, in two rows one after the other, and no more.
IdsAreRowNumbers ==
  ~dropped => IF headless THEN \E k \in 1 .. Len(events) + 1 : NumberedBut(k)
              ELSE NumberedBut(Len(events) + 1)
=============================================================================
