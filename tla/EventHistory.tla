---------------------------- MODULE EventHistory ----------------------------
(* What events.csv should say, defined over everything the detector was told   *)
(* and not by counters: where the outages of a target begin, open and end.     *)
(* EventDetector is checked against it.                                        *)
EXTENDS EventDetector

Steps == DOMAIN hist

Failure(t, i)  == hist[i].kind = "fail" /\ hist[i].target = t
Probe(t, i)    == hist[i].kind \in {"ok", "fail"} /\ hist[i].target = t
\* What ends an outage: a success, the finalization of its target, or a crash
\* or restart, which loses it.
Ends(t, i)     == \/ hist[i].kind \in {"ok", "stop"} /\ hist[i].target = t
                  \/ hist[i].kind = "boot"
\* What ends a run of failures that is not an outage yet.
Breaks(t, i)   == Ends(t, i) \/ hist[i].kind = "gap"

Unbroken(t, a, b) == \A i \in a .. b : ~Breaks(t, i)
Failures(t, a, b) == {i \in a .. b : Failure(t, i)}
Probes(t, a, b)   == {i \in a .. b : Probe(t, i)}

\* a is the first failure of a run that is still unbroken at n.
RunFrom(t, a, n) ==
  /\ Failure(t, a) /\ Unbroken(t, a, n)
  /\ \A i \in Failures(t, 1, a - 1) : ~Unbroken(t, i, a)

\* The failure o brings the run that begins at a to the threshold.
RunReaches(t, a, o) ==
  /\ RunFrom(t, a, o) /\ Failure(t, o)
  /\ Cardinality(Failures(t, a, o)) = IF FailThreshold < 1 THEN 1 ELSE FailThreshold

\* An outage that begins at a and opens at o: no earlier run of the same stretch
\* without a success has opened one.
Opens(t, a, o) ==
  /\ RunReaches(t, a, o)
  /\ \A p \in Failures(t, 1, a - 1) :
       (\E b \in Failures(t, 1, p) : RunReaches(t, b, p)) => \E i \in p .. o : Ends(t, i)

\* Target t is down or has failed its latest probes, just after step n.
FailingAt(t, n) ==
  \/ \E i \in Failures(t, 1, n) : Unbroken(t, i, n)
  \/ \E o \in Failures(t, 1, n) :
       /\ \E a \in Failures(t, 1, o) : Opens(t, a, o)
       /\ \A i \in o .. n : ~Ends(t, i)

SharedFault(n) ==
  LET failing == Cardinality({u \in Targets : FailingAt(u, n)}) IN
  Cardinality(Targets) > 2 /\ 4 * failing >= 3 * Cardinality(Targets)

\* The outages of t, as the steps where each begins, opens and is closed.
Closed(t) ==
  {w \in Failures(t, 1, Len(hist)) \X Failures(t, 1, Len(hist)) \X {i \in Steps : Ends(t, i)} :
     /\ w[1] <= w[2] /\ w[2] < w[3]
     /\ \A i \in w[2] .. w[3] - 1 : ~Ends(t, i)
     /\ Opens(t, w[1], w[2])}

\* The last probe of its target in the outage w.
LastProbe(t, w) ==
  CHOOSE i \in w[2] .. w[3] : Probe(t, i) /\ \A j \in i + 1 .. w[3] : ~Probe(t, j)

\* A shutdown closes an outage at the last sample of any target, or at the
\* target's own last sample if the clock was set back since.
EndOf(t, w) ==
  IF hist[w[3]].kind = "ok" THEN hist[w[3]].utc
  ELSE LET own == hist[LastProbe(t, w)].utc
       IN  IF own > hist[w[3]].utc THEN own ELSE hist[w[3]].utc

\* An outage that ends before it began, by a clock that was set back, counts as
\* one of no length.
Reported(t) ==
  {w \in Closed(t) :
     /\ hist[w[3]].kind # "boot"
     /\ MinOutageMs = 0 \/ (MinOutageMs > 0 /\ EndOf(t, w) >= hist[w[1]].utc + MinOutageMs)}

\* The row an outage deserves, with everything but its id.
RowOf(t, w) ==
  [target_id |-> t, start_utc |-> hist[w[1]].utc, end_utc |-> EndOf(t, w),
   sent |-> Cardinality(Probes(t, w[1], w[3])),
   lost |-> Cardinality(Failures(t, w[1], w[3])),
   type |-> IF SharedFault(w[2]) THEN "local" ELSE "host",
   trace_ref |-> IF TriggerTraceroute THEN <<hist[w[1]].utc, t>> ELSE NoTrace]

WithoutId(row) == [f \in DOMAIN row \ {"event_id"} |-> row[f]]
OwnRows(t) == {i \in DOMAIN events : events[i].target_id = t}

\* Every outage that opened: its target and the steps where it begins and opens.
OpeningsOf(t) ==
  LET failed == Failures(t, 1, Len(hist)) IN
  {x \in {t} \X failed \X failed : Opens(t, x[2], x[3])}
Openings == UNION {OpeningsOf(t) : t \in Targets}

\* The ways to assign all of W, whose members end at their third component, to
\* the indices I in the order of their ends.
InOrder(I, W) ==
  {f \in [I -> W] : /\ \A w \in W : \E i \in I : f[i] = w
                    /\ \A i, j \in I : i < j => f[i][3] < f[j][3]}

-----------------------------------------------------------------------------
(* Properties *)

\* events.csv holds exactly the outages the probe history contains, each once
\* and in the order they ended, with the right start, end, counts, type and
\* trace reference: whatever the targets' samples, gaps, shutdowns and crashes
\* in between (README.md:312-323). An outage open at a crash is not reported, and
\* rows are missing once events.csv could not be opened. Where a kill made the file
\* headless, the first row is there all the same.
LogMatchesHistory ==
  ~dropped =>
    \A t \in Targets : \E f \in InOrder(OwnRows(t), Reported(t)) :
      \A i \in OwnRows(t) : WithoutId(events[i]) = RowOf(t, f[i])

\* A trace is asked for once for every outage that opens, when it opens, and
\* for nothing else: short outages that are never logged included.
OneTracePerOutage ==
  IF TriggerTraceroute
  THEN \E f \in InOrder(DOMAIN requests, Openings) :
         \A i \in DOMAIN requests : requests[i] = <<hist[f[i][2]].utc, f[i][1]>>
  ELSE requests = << >>
=============================================================================
