------------------------- MODULE EventDetectorProofs -------------------------
(* Proofs about EventDetector, for any targets, thresholds, times and number   *)
(* of restarts: its types, the numbering of events.csv until an append fails,  *)
(* and that its rows and the traces it asks for are what the history of its    *)
(* samples deserves.                                                           *)
EXTENDS EventHistory, DataLemmas, FiniteSetTheorems, TLAPS

USE DEF log

State == [in_outage : BOOLEAN, consec : Nat, cand_start : Nat, start : Nat,
          last_utc : Nat, sent : Nat, lost : Nat, trace_ref : TraceRef,
          type : {"host", "local"}]

\* The fresh record of a target is of its type.
LEMMA HealthyType == Healthy \in State
BY DEF Healthy, State, TraceRef

\* The types hold at the start.
LEMMA InitType == Init => TypeOK
<1> SUFFICES ASSUME Init PROVE TypeOK
  OBVIOUS
<1>1. st \in [Targets -> State]
  BY HealthyType DEF Init
<1>2. events \in Seq(OutageRow \cup GapRow) /\ requests \in Seq(Nat \X Targets)
  BY DEF Init
<1>3. hist \in Seq([kind : {"ok", "fail", "gap", "stop", "boot"},
                    target : Targets \cup {Monitor}, utc : Nat])
  BY DEF Init
<1> QED BY <1>1, <1>2, <1>3 DEF Init, TypeOK, State

\* A row given to the log leaves the log well typed.
LEMMA LogEventType ==
  ASSUME TypeOK, NEW row \in OutageRow \cup GapRow, LogEvent(row)
  PROVE  /\ counter' \in Nat /\ events' \in Seq(OutageRow \cup GapRow)
         /\ dropped' \in BOOLEAN /\ headless' \in BOOLEAN
<1> DEFINE R == OutageRow \cup GapRow
<1>1. row.event_id \in Nat
  BY DEF OutageRow, GapRow
<1>2. /\ events \in Seq(R) /\ row \in R
      /\ counter' = row.event_id
      /\ events' = Append(events, row) \/ events' = events
  BY DEF TypeOK, LogEvent
<1> HIDE DEF R
<1>3. events' \in Seq(R)
  BY <1>2
<1>4. dropped' \in BOOLEAN /\ headless' \in BOOLEAN
  <2>1. /\ dropped \in BOOLEAN /\ (dropped' = dropped \/ dropped' = TRUE)
        /\ headless \in BOOLEAN /\ headless' = headless
    BY DEF TypeOK, LogEvent
  <2> QED BY <2>1
<1> QED BY <1>1, <1>2, <1>3, <1>4 DEF R

\* The end of an outage keeps the types.
LEMMA CloseOutageType ==
  ASSUME TypeOK, NEW s \in State, NEW t \in Targets, NEW end_utc \in Nat,
         CloseOutage(s, t, end_utc)
  PROVE  /\ counter' \in Nat
         /\ events' \in Seq(OutageRow \cup GapRow)
         /\ dropped' \in BOOLEAN /\ headless' \in BOOLEAN
         /\ st' \in [Targets -> State]
<1>1. [s EXCEPT !.in_outage = FALSE, !.consec = 0, !.sent = 0, !.lost = 0, !.type = "host"]
        \in State
  BY DEF State
<1>2. st' \in [Targets -> State]
  BY <1>1 DEF CloseOutage, TypeOK, State
<1> DEFINE row == [event_id |-> counter + 1, target_id |-> t,
                   start_utc |-> s.start, end_utc |-> end_utc, sent |-> s.sent,
                   lost |-> s.lost, type |-> s.type, trace_ref |-> s.trace_ref]
<1>3. row \in OutageRow
  BY DEF TypeOK, State, OutageRow
<1>4. LogEvent(row) \/ UNCHANGED log
  BY DEF CloseOutage
<1> HIDE DEF row
<1>5. /\ counter' \in Nat /\ events' \in Seq(OutageRow \cup GapRow) /\ dropped' \in BOOLEAN
      /\ headless' \in BOOLEAN
  BY <1>3, <1>4, LogEventType DEF TypeOK
<1> QED BY <1>2, <1>5

\* The history keeps its type.
LEMMA NoteType ==
  ASSUME TypeOK, NEW kind \in {"ok", "fail", "gap", "stop", "boot"},
         NEW t \in Targets \cup {Monitor}, NEW utc \in Nat, Note(kind, t, utc)
  PROVE  hist' \in Seq([kind : {"ok", "fail", "gap", "stop", "boot"},
                        target : Targets \cup {Monitor}, utc : Nat])
<1> DEFINE H == [kind : {"ok", "fail", "gap", "stop", "boot"},
                 target : Targets \cup {Monitor}, utc : Nat]
<1>1. [kind |-> kind, target |-> t, utc |-> utc] \in H
  OBVIOUS
<1>2. hist \in Seq(H) /\ hist' = Append(hist, [kind |-> kind, target |-> t, utc |-> utc])
  BY DEF TypeOK, Note
<1> HIDE DEF H
<1>3. hist' \in Seq(H)
  BY <1>1, <1>2
<1> QED BY <1>3 DEF H

\* A record that counts one more probe, or one more failure, is a record.
LEMMA CountedType ==
  ASSUME NEW s \in State, NEW utc \in Nat
  PROVE  /\ [s EXCEPT !.last_utc = utc, !.sent = s.sent + 1] \in State
         /\ [s EXCEPT !.last_utc = utc, !.sent = s.sent + 1, !.lost = s.lost + 1,
                      !.consec = s.consec + 1] \in State
<1>1. s.sent + 1 \in Nat /\ s.lost + 1 \in Nat /\ s.consec + 1 \in Nat
  BY DEF State
<1> QED BY <1>1 DEF State

\* The detector's five reactions to a probe result.
LEMMA SampleType ==
  ASSUME TypeOK, NEW t \in Targets, NEW utc \in Nat,
         \/ AddFailureInOutage(st[t], t, utc)
         \/ AddFailureBelowThreshold(st[t], t, utc)
         \/ OpenOutage(st[t], t, utc)
         \/ AddSuccessInOutage(st[t], t, utc)
         \/ AddSuccess(st[t], t, utc)
  PROVE  /\ st' \in [Targets -> State]
         /\ counter' \in Nat /\ events' \in Seq(OutageRow \cup GapRow)
         /\ dropped' \in BOOLEAN /\ headless' \in BOOLEAN
         /\ requests' \in Seq(Nat \X Targets)
<1>0. /\ st \in [Targets -> State] /\ st[t] \in State
      /\ counter \in Nat /\ events \in Seq(OutageRow \cup GapRow)
      /\ requests \in Seq(Nat \X Targets) /\ dropped \in BOOLEAN /\ headless \in BOOLEAN
  BY DEF TypeOK, State
<1>1. CASE AddFailureInOutage(st[t], t, utc)
  <2>1. /\ st' = [st EXCEPT ![t] = [st[t] EXCEPT !.last_utc = utc, !.sent = st[t].sent + 1,
                                     !.lost = st[t].lost + 1, !.consec = st[t].consec + 1]]
        /\ UNCHANGED <<log, requests>>
    BY <1>0, <1>1 DEF AddFailureInOutage
  <2>2. [st[t] EXCEPT !.last_utc = utc, !.sent = st[t].sent + 1,
                      !.lost = st[t].lost + 1, !.consec = st[t].consec + 1] \in State
    BY <1>0, CountedType
  <2> QED BY <1>0, <2>1, <2>2
<1>2. CASE AddFailureBelowThreshold(st[t], t, utc)
  <2>1. CandStart(st[t], utc) \in Nat /\ st[t].consec + 1 \in Nat
    BY <1>0 DEF CandStart, State
  <2>2. /\ st' = [st EXCEPT ![t] = [st[t] EXCEPT !.last_utc = utc,
                      !.cand_start = CandStart(st[t], utc), !.consec = st[t].consec + 1]]
        /\ UNCHANGED <<log, requests>>
    BY <1>0, <1>2 DEF AddFailureBelowThreshold
  <2>3. [st[t] EXCEPT !.last_utc = utc, !.cand_start = CandStart(st[t], utc),
                      !.consec = st[t].consec + 1] \in State
    BY <1>0, <2>1 DEF State
  <2> QED BY <1>0, <2>2, <2>3
<1>3. CASE OpenOutage(st[t], t, utc)
  <2>1. CandStart(st[t], utc) \in Nat
    BY <1>0 DEF CandStart, State
  <2>2. <<CandStart(st[t], utc), t>> \in Nat \X Targets
    BY <2>1
  <2>3. requests' \in Seq(Nat \X Targets)
    BY <1>0, <1>3, <2>2 DEF OpenOutage
  <2>4. [in_outage |-> TRUE, consec |-> st[t].consec + 1,
         cand_start |-> CandStart(st[t], utc), start |-> CandStart(st[t], utc),
         last_utc |-> utc, sent |-> st[t].consec + 1, lost |-> st[t].consec + 1,
         trace_ref |-> IF TriggerTraceroute THEN <<CandStart(st[t], utc), t>> ELSE NoTrace,
         type |-> IF Widespread(t) THEN "local" ELSE "host"] \in State
    BY <1>0, <2>1, <2>2 DEF State, TraceRef
  <2>5. st' \in [Targets -> State]
    BY <1>0, <1>3, <2>4 DEF OpenOutage
  <2> QED BY <1>0, <1>3, <2>3, <2>5 DEF OpenOutage
<1>4. CASE AddSuccessInOutage(st[t], t, utc)
  <2>1. [st[t] EXCEPT !.last_utc = utc, !.sent = @ + 1] \in State
    BY <1>0, CountedType
  <2>2. requests' = requests
        /\ CloseOutage([st[t] EXCEPT !.last_utc = utc, !.sent = @ + 1], t, utc)
    BY <1>4 DEF AddSuccessInOutage
  <2> QED BY <1>0, <2>1, <2>2, CloseOutageType
<1>5. CASE AddSuccess(st[t], t, utc)
  BY <1>0, <1>5 DEF AddSuccess, State
<1> QED BY <1>1, <1>2, <1>3, <1>4, <1>5

\* Every step keeps the types.
LEMMA TypeStep == TypeOK /\ [Next]_vars => TypeOK'
<1> SUFFICES ASSUME TypeOK, [Next]_vars PROVE TypeOK'
  OBVIOUS
<1>0. st \in [Targets -> State]
  BY DEF TypeOK, State
<1>1. ASSUME NEW t \in Targets, NEW failed \in BOOLEAN, NEW utc \in Stamps,
             Sample(t, failed, utc)
      PROVE  TypeOK'
  <2>1. utc \in Nat
    BY DetectorAssumption DEF Stamps, TypeOK
  <2>2. \/ AddFailureInOutage(st[t], t, utc)
        \/ AddFailureBelowThreshold(st[t], t, utc)
        \/ OpenOutage(st[t], t, utc)
        \/ AddSuccessInOutage(st[t], t, utc)
        \/ AddSuccess(st[t], t, utc)
    BY <1>1 DEF Sample
  <2>3. /\ st' \in [Targets -> State]
        /\ counter' \in Nat /\ events' \in Seq(OutageRow \cup GapRow)
        /\ requests' \in Seq(Nat \X Targets) /\ dropped' \in BOOLEAN /\ headless' \in BOOLEAN
    BY <2>1, <2>2, SampleType
  <2>4. hist' \in Seq([kind : {"ok", "fail", "gap", "stop", "boot"},
                       target : Targets \cup {Monitor}, utc : Nat])
    BY <1>1, <2>1, NoteType DEF Sample
  <2> QED BY <1>1, <2>1, <2>3, <2>4 DEF Sample, TypeOK, State
<1>2. ASSUME NEW gap \in GapMs, NEW utc \in Stamps, Gap(gap, utc) PROVE TypeOK'
  <2>1. utc \in Nat /\ gap \in Nat
    BY DetectorAssumption DEF Stamps, TypeOK
  <2>2. GapStart(utc, gap) \in Nat
    BY <2>1 DEF GapStart
  <2> DEFINE row == [event_id |-> counter + 1, target_id |-> Monitor,
                     start_utc |-> GapStart(utc, gap), end_utc |-> utc, sent |-> 0,
                     lost |-> 0, type |-> "monitor_gap", trace_ref |-> NoTrace]
  <2>3. row \in GapRow
    BY <2>1, <2>2 DEF TypeOK, GapRow
  <2>4. LogEvent(row)
    BY <1>2 DEF Gap
  <2>5. /\ counter' \in Nat /\ events' \in Seq(OutageRow \cup GapRow) /\ dropped' \in BOOLEAN
        /\ headless' \in BOOLEAN
    <3> HIDE DEF row
    <3> QED BY <2>3, <2>4, LogEventType
  <2>6. st' \in [Targets -> State]
    BY <1>0, <1>2 DEF Gap, ResetAfterGap, State
  <2>7. hist' \in Seq([kind : {"ok", "fail", "gap", "stop", "boot"},
                       target : Targets \cup {Monitor}, utc : Nat])
    BY <1>2, <2>1, NoteType DEF Gap
  <2> QED BY <1>2, <2>1, <2>5, <2>6, <2>7 DEF Gap, TypeOK, State
<1>3. CASE Stop
  BY <1>3 DEF Stop, TypeOK
<1>4. ASSUME NEW t \in Targets, FinalizeOutage(t) PROVE TypeOK'
  <2>1. (IF last_utc > st[t].last_utc THEN last_utc ELSE st[t].last_utc) \in Nat
    BY <1>0 DEF TypeOK, State
  <2>2. /\ counter' \in Nat /\ events' \in Seq(OutageRow \cup GapRow)
        /\ dropped' \in BOOLEAN /\ headless' \in BOOLEAN
        /\ st' \in [Targets -> State]
    BY <1>0, <1>4, <2>1, CloseOutageType DEF FinalizeOutage
  <2>3. hist' \in Seq([kind : {"ok", "fail", "gap", "stop", "boot"},
                       target : Targets \cup {Monitor}, utc : Nat])
    BY <1>4, NoteType DEF FinalizeOutage, TypeOK
  <2> QED BY <1>4, <2>2, <2>3 DEF FinalizeOutage, TypeOK, State
<1>5. CASE Finalized
  BY <1>5 DEF Finalized, TypeOK
<1>6. CASE Restart \/ KilledCreatingLog
  <2>0. Boot /\ headless' \in BOOLEAN
    BY <1>6 DEF Restart, KilledCreatingLog, TypeOK
  <2>1. st' \in [Targets -> State]
    BY <2>0, HealthyType DEF Boot
  <2>2. counter' \in Nat
    <3>1. Len(events) \in Nat /\ (events # << >> => Len(events) > 0)
      BY DEF TypeOK
    <3>2. counter' = Len(events) \/ (events # << >> /\ counter' = Len(events) - 1)
      BY <2>0, <3>1 DEF Boot, CountRows
    <3> QED BY <3>1, <3>2
  <2>3. hist' \in Seq([kind : {"ok", "fail", "gap", "stop", "boot"},
                       target : Targets \cup {Monitor}, utc : Nat])
    BY <2>0, NoteType DEF Boot, TypeOK
  <2> QED BY <2>0, <2>1, <2>2, <2>3 DEF Boot, TypeOK, State
<1>7. CASE UNCHANGED vars
  BY <1>7 DEF vars, TypeOK
<1> QED BY <1>1, <1>2, <1>3, <1>4, <1>5, <1>6, <1>7 DEF Next, Exhausted

\* The detector and its log keep their types for every configuration, whatever
\* the clock does, through all crashes and restarts (events.cpp).
THEOREM TypeCorrect == Spec => []TypeOK
<1>1. Init => TypeOK
  BY InitType
<1>2. TypeOK /\ [Next]_vars => TypeOK'
  BY TypeStep
<1> QED BY <1>1, <1>2, PTL DEF Spec
-----------------------------------------------------------------------------
(* Ids *)

IdInv == TypeOK /\ IdsAreRowNumbers

\* What the ids may be, headless or not.
LEMMA NumberedIds ==
  ASSUME TypeOK
  PROVE  IdsAreRowNumbers <=>
           (~dropped => \E k \in 1 .. Len(events) + 1 :
                          NumberedBut(k) /\ (~headless => k = Len(events) + 1))
<1>1. Len(events) \in Nat
  BY DEF TypeOK
<1>2. Len(events) + 1 \in 1 .. Len(events) + 1
  BY <1>1
<1> QED BY <1>2 DEF IdsAreRowNumbers

\* A row with the next id keeps the ids equal to the row numbers.
LEMMA LogEventIds ==
  ASSUME IdInv, TypeOK', NEW row \in OutageRow \cup GapRow,
         row.event_id = counter + 1, LogEvent(row)
  PROVE  IdsAreRowNumbers'
<1> SUFFICES ASSUME ~dropped' PROVE IdsAreRowNumbers'
  BY DEF IdsAreRowNumbers
<1> DEFINE R == OutageRow \cup GapRow
<1>0. ~dropped /\ events' = Append(events, row) /\ headless' = headless
  BY DEF LogEvent
<1>1. /\ events \in Seq(R) /\ row \in R
      /\ counter' = counter + 1 /\ events' = Append(events, row)
  BY <1>0 DEF IdInv, TypeOK, LogEvent
<1> HIDE DEF R
<1>2. /\ Len(events') = Len(events) + 1
      /\ DOMAIN events' = 1 .. Len(events) + 1
      /\ events'[Len(events) + 1] = row
      /\ \A i \in DOMAIN events : events'[i] = events[i]
      /\ DOMAIN events = 1 .. Len(events) /\ Len(events) \in Nat
  BY <1>1
<1>3. PICK k \in 1 .. Len(events) + 1 :
        NumberedBut(k) /\ (~headless => k = Len(events) + 1)
  BY <1>0, NumberedIds DEF IdInv
<1>9. /\ k \in Nat /\ k <= Len(events) + 1 /\ (~headless => k = Len(events) + 1)
      /\ counter = IF k <= Len(events) THEN Len(events) - 1 ELSE Len(events)
      /\ \A i \in DOMAIN events : events[i].event_id = IF i <= k THEN i ELSE i - 1
  <2>1. k \in Nat /\ k <= Len(events) + 1
    BY <1>2
  <2> QED BY <1>3, <2>1, Zenon DEF NumberedBut
<1>4. PICK j : j = IF k <= Len(events) THEN k ELSE k + 1
  OBVIOUS
<1>5. j \in 1 .. Len(events') + 1 /\ (~headless' => j = Len(events') + 1)
  BY <1>0, <1>2, <1>3, <1>4
<1>6. \A i \in DOMAIN events' : events'[i].event_id = IF i <= j THEN i ELSE i - 1
  <2> SUFFICES ASSUME NEW i \in DOMAIN events'
               PROVE  events'[i].event_id = IF i <= j THEN i ELSE i - 1
    OBVIOUS
  <2>1. CASE i = Len(events) + 1
    <3>0. events'[i].event_id = counter + 1
      BY <1>2, <2>1
    <3>1. events'[i].event_id = IF k <= Len(events) THEN Len(events) ELSE Len(events) + 1
      <4>1. CASE k <= Len(events)
        BY <1>2, <1>9, <3>0, <4>1
      <4>2. CASE ~(k <= Len(events))
        BY <1>2, <1>9, <3>0, <4>2
      <4> QED BY <4>1, <4>2
    <3> QED BY <1>2, <1>4, <2>1, <3>1
  <2>2. CASE i \in DOMAIN events
    <3>1. events'[i].event_id = IF i <= k THEN i ELSE i - 1
      BY <1>2, <1>9, <2>2
    <3>2. i <= k <=> i <= j
      BY <1>2, <1>4, <2>2
    <3> QED BY <3>1, <3>2
  <2> QED BY <1>2, <2>1, <2>2
<1>7. counter' = IF j <= Len(events') THEN Len(events') - 1 ELSE Len(events')
  <2>1. Len(events) \in Nat /\ Len(events') = Len(events) + 1
    BY <1>2
  <2>2. counter' = counter + 1 /\ k \in Nat /\ k <= Len(events) + 1
    BY <1>1, <1>9
  <2>3. CASE k <= Len(events)
    <3>1. j = k /\ counter = Len(events) - 1
      BY <1>4, <1>9, <2>3, Zenon
    <3> QED BY <2>1, <2>2, <2>3, <3>1
  <2>4. CASE ~(k <= Len(events))
    <3>1. j = k + 1 /\ counter = Len(events)
      BY <1>4, <1>9, <2>4, Zenon
    <3> QED BY <2>1, <2>2, <2>4, <3>1
  <2> QED BY <2>3, <2>4
<1>8. NumberedBut(j)'
  BY <1>6, <1>7 DEF NumberedBut
<1> QED BY <1>5, <1>8, NumberedIds DEF IdsAreRowNumbers

\* A start counts the rows, in a headless file all but the first.
LEMMA BootIds ==
  ASSUME IdInv, TypeOK', Restart \/ KilledCreatingLog PROVE IdsAreRowNumbers'
<1> SUFFICES ASSUME ~dropped' PROVE IdsAreRowNumbers'
  BY DEF IdsAreRowNumbers
<1>1. /\ ~dropped /\ events' = events /\ counter' = CountRows(events)
      /\ headless' = headless \/ (events = << >> /\ ~headless)
  BY DEF Restart, KilledCreatingLog, Boot
<1>2. /\ DOMAIN events = 1 .. Len(events) /\ Len(events) \in Nat
      /\ (events = << >> <=> Len(events) = 0)
  BY DEF IdInv, TypeOK
<1>3. PICK k \in 1 .. Len(events) + 1 :
        NumberedBut(k) /\ (~headless => k = Len(events) + 1)
  BY <1>1, NumberedIds DEF IdInv
<1>9. k \in Nat /\ \A i \in DOMAIN events : events[i].event_id = IF i <= k THEN i ELSE i - 1
  <2>1. k \in Nat
    BY <1>2
  <2> QED BY <1>3, <2>1, Zenon DEF NumberedBut
<1>4. PICK j : j = IF headless /\ events # << >> /\ k = Len(events) + 1 THEN Len(events) ELSE k
  OBVIOUS
<1>5. j \in 1 .. Len(events') + 1 /\ (~headless' => j = Len(events') + 1)
  BY <1>1, <1>2, <1>3, <1>4
<1>6. \A i \in DOMAIN events' : events'[i].event_id = IF i <= j THEN i ELSE i - 1
  <2> SUFFICES ASSUME NEW i \in DOMAIN events
               PROVE  events[i].event_id = IF i <= j THEN i ELSE i - 1
    BY <1>1
  <2>1. i <= k <=> i <= j
    BY <1>2, <1>3, <1>4
  <2> QED BY <1>9, <2>1
<1>7. counter' = IF j <= Len(events') THEN Len(events') - 1 ELSE Len(events')
  <2>1. counter' = IF headless /\ events # << >> THEN Len(events) - 1 ELSE Len(events)
    BY <1>1, <1>2 DEF CountRows
  <2>2. headless /\ events # << >> <=> j <= Len(events)
    BY <1>2, <1>3, <1>4
  <2> QED BY <1>1, <2>1, <2>2
<1>8. NumberedBut(j)'
  BY <1>6, <1>7 DEF NumberedBut
<1> QED BY <1>5, <1>8, NumberedIds DEF IdsAreRowNumbers

\* The end of an outage numbers on.
LEMMA CloseOutageIds ==
  ASSUME IdInv, TypeOK', NEW s \in State, NEW t \in Targets, NEW end_utc \in Nat,
         CloseOutage(s, t, end_utc)
  PROVE  IdsAreRowNumbers'
<1> DEFINE row == [event_id |-> counter + 1, target_id |-> t,
                   start_utc |-> s.start, end_utc |-> end_utc, sent |-> s.sent,
                   lost |-> s.lost, type |-> s.type, trace_ref |-> s.trace_ref]
<1>1. row \in OutageRow /\ row.event_id = counter + 1
  BY DEF IdInv, TypeOK, State, OutageRow
<1>2. LogEvent(row) \/ UNCHANGED log
  BY DEF CloseOutage
<1> HIDE DEF row
<1>3. CASE LogEvent(row)
  BY <1>1, <1>3, LogEventIds
<1>4. CASE UNCHANGED log
  BY <1>4 DEF IdInv, IdsAreRowNumbers, NumberedBut
<1> QED BY <1>2, <1>3, <1>4

\* Every step keeps the numbering.
LEMMA IdStep == IdInv /\ [Next]_vars => IdInv'
<1> SUFFICES ASSUME IdInv, [Next]_vars, TypeOK' PROVE IdsAreRowNumbers'
  BY TypeStep DEF IdInv
<1>0. st \in [Targets -> State] /\ \A t \in Targets : st[t] \in State
  BY DEF IdInv, TypeOK, State
<1>1. ASSUME NEW t \in Targets, NEW failed \in BOOLEAN, NEW utc \in Stamps,
             Sample(t, failed, utc)
      PROVE  IdsAreRowNumbers'
  <2>1. utc \in Nat
    BY DetectorAssumption DEF Stamps, IdInv, TypeOK
  <2>2. CASE AddSuccessInOutage(st[t], t, utc)
    <3>1. [st[t] EXCEPT !.last_utc = utc, !.sent = @ + 1] \in State
      BY <1>0, <2>1, CountedType
    <3>2. CloseOutage([st[t] EXCEPT !.last_utc = utc, !.sent = @ + 1], t, utc)
      BY <2>2 DEF AddSuccessInOutage
    <3> QED BY <2>1, <3>1, <3>2, CloseOutageIds
  <2>3. CASE UNCHANGED log
    BY <2>3 DEF IdInv, IdsAreRowNumbers, NumberedBut
  <2> QED BY <1>1, <2>2, <2>3 DEF Sample, AddFailureInOutage, AddFailureBelowThreshold,
                                  OpenOutage, AddSuccess
<1>2. ASSUME NEW gap \in GapMs, NEW utc \in Stamps, Gap(gap, utc) PROVE IdsAreRowNumbers'
  <2>1. utc \in Nat /\ gap \in Nat
    BY DetectorAssumption DEF Stamps, IdInv, TypeOK
  <2>2. GapStart(utc, gap) \in Nat
    BY <2>1 DEF GapStart
  <2> DEFINE row == [event_id |-> counter + 1, target_id |-> Monitor,
                     start_utc |-> GapStart(utc, gap), end_utc |-> utc, sent |-> 0,
                     lost |-> 0, type |-> "monitor_gap", trace_ref |-> NoTrace]
  <2>3. row \in GapRow /\ row.event_id = counter + 1
    BY <2>1, <2>2 DEF IdInv, TypeOK, GapRow
  <2>4. LogEvent(row)
    BY <1>2 DEF Gap
  <2> HIDE DEF row
  <2> QED BY <2>3, <2>4, LogEventIds
<1>3. ASSUME NEW t \in Targets, FinalizeOutage(t) PROVE IdsAreRowNumbers'
  <2>1. (IF last_utc > st[t].last_utc THEN last_utc ELSE st[t].last_utc) \in Nat
    BY <1>0 DEF IdInv, TypeOK, State
  <2> QED BY <1>0, <1>3, <2>1, CloseOutageIds DEF FinalizeOutage
<1>4. CASE Restart \/ KilledCreatingLog
  BY <1>4, BootIds
<1>5. CASE UNCHANGED log
  BY <1>5 DEF IdInv, IdsAreRowNumbers, NumberedBut
<1> QED BY <1>1, <1>2, <1>3, <1>4, <1>5 DEF Next, Stop, Finalized, Exhausted, vars

\* Until an append fails, the ids of events.csv are its row numbers and the
\* counter is the number of its rows, through all crashes and restarts
\* (events.cpp:17-49), and no id is given twice; if a kill came between the creation
\* of the file and its first flush, one id is, to two rows one after the other.
THEOREM IdsNumberOn == Spec => []IdsAreRowNumbers
<1>1. Init => IdInv
  BY InitType DEF IdInv, IdsAreRowNumbers, NumberedBut, Init
<1>2. IdInv /\ [Next]_vars => IdInv'
  BY IdStep
<1>3. IdInv => IdsAreRowNumbers
  BY DEF IdInv
<1> QED BY <1>1, <1>2, <1>3, PTL DEF Spec

-----------------------------------------------------------------------------
(* What the history says about its first steps does not change when a step is   *)
(* added to it.                                                                 *)

HistEntry == [kind : {"ok", "fail", "gap", "stop", "boot"},
              target : Targets \cup {Monitor}, utc : Nat]

\* The detector has been told n things, and is told e.
Told(n, e) ==
  /\ n \in Nat /\ n = Len(hist) /\ hist \in Seq(HistEntry)
  /\ e \in HistEntry /\ hist' = Append(hist, e)

\* Appending leaves the earlier steps alone.
LEMMA Appended ==
  ASSUME NEW n, NEW e, Told(n, e)
  PROVE  /\ n \in Nat /\ Len(hist') = n + 1
         /\ DOMAIN hist = 1 .. n /\ DOMAIN hist' = 1 .. n + 1
         /\ \A i \in 1 .. n : hist'[i] = hist[i] /\ hist[i] \in HistEntry
         /\ hist'[n + 1] = e /\ e \in HistEntry
BY DEF Told

\* A step says the same about a target in the longer history.
LEMMA SameSteps ==
  ASSUME NEW n, NEW e, Told(n, e), NEW t
  PROVE  \A i \in 1 .. n : /\ Failure(t, i)' <=> Failure(t, i)
                           /\ Probe(t, i)' <=> Probe(t, i)
                           /\ Ends(t, i)' <=> Ends(t, i)
                           /\ Breaks(t, i)' <=> Breaks(t, i)
<1>1. \A i \in 1 .. n : hist'[i] = hist[i]
  BY Appended
<1> QED BY <1>1 DEF Failure, Probe, Ends, Breaks

\* And what the new step says is what the detector was told.
LEMMA NewStep ==
  ASSUME NEW n, NEW e, Told(n, e), NEW t
  PROVE  /\ Failure(t, n + 1)' <=> e.kind = "fail" /\ e.target = t
         /\ Probe(t, n + 1)' <=> e.kind \in {"ok", "fail"} /\ e.target = t
         /\ Ends(t, n + 1)' <=> \/ e.kind \in {"ok", "stop"} /\ e.target = t
                                \/ e.kind = "boot"
         /\ Breaks(t, n + 1)' <=> Ends(t, n + 1)' \/ e.kind = "gap"
<1>1. hist'[n + 1] = e
  BY Appended
<1> QED BY <1>1 DEF Failure, Probe, Ends, Breaks

\* Windows of the first n steps.
LEMMA SameWindows ==
  ASSUME NEW n, NEW e, Told(n, e), NEW t
  PROVE  \A a \in Nat \ {0}, b \in 0 .. n :
           /\ Unbroken(t, a, b)' <=> Unbroken(t, a, b)
           /\ Failures(t, a, b)' = Failures(t, a, b)
           /\ Probes(t, a, b)' = Probes(t, a, b)
<1>1. n \in Nat
  BY Appended
<1> SUFFICES ASSUME NEW a \in Nat \ {0}, NEW b \in 0 .. n
             PROVE  /\ Unbroken(t, a, b)' <=> Unbroken(t, a, b)
                    /\ Failures(t, a, b)' = Failures(t, a, b)
                    /\ Probes(t, a, b)' = Probes(t, a, b)
  OBVIOUS
<1>2. \A i \in a .. b : i \in 1 .. n
  BY <1>1
<1>3. \A i \in a .. b : /\ Failure(t, i)' <=> Failure(t, i)
                        /\ Probe(t, i)' <=> Probe(t, i)
                        /\ Breaks(t, i)' <=> Breaks(t, i)
  BY <1>2, SameSteps
<1>4. Unbroken(t, a, b)' <=> Unbroken(t, a, b)
  BY <1>3 DEF Unbroken
<1>5. Failures(t, a, b)' = Failures(t, a, b)
  BY <1>3 DEF Failures
<1>6. Probes(t, a, b)' = Probes(t, a, b)
  BY <1>3 DEF Probes
<1> QED BY <1>4, <1>5, <1>6

\* Windows that reach the new step.
LEMMA WindowsGrow ==
  ASSUME NEW n, NEW e, Told(n, e), NEW t, NEW a \in 1 .. n + 1
  PROVE  /\ Unbroken(t, a, n + 1)' <=> Unbroken(t, a, n) /\ ~Breaks(t, n + 1)'
         /\ Failure(t, n + 1)' => Failures(t, a, n + 1)' = Failures(t, a, n) \cup {n + 1}
         /\ ~Failure(t, n + 1)' => Failures(t, a, n + 1)' = Failures(t, a, n)
         /\ Probe(t, n + 1)' => Probes(t, a, n + 1)' = Probes(t, a, n) \cup {n + 1}
         /\ ~Probe(t, n + 1)' => Probes(t, a, n + 1)' = Probes(t, a, n)
<1>1. n \in Nat
  BY Appended
<1>2. a .. n + 1 = (a .. n) \cup {n + 1} /\ \A i \in a .. n : i \in 1 .. n
  BY <1>1
<1>3. \A i \in a .. n : /\ Failure(t, i)' <=> Failure(t, i)
                        /\ Probe(t, i)' <=> Probe(t, i)
                        /\ Breaks(t, i)' <=> Breaks(t, i)
  BY <1>2, SameSteps
<1>4. Unbroken(t, a, n + 1)' <=> Unbroken(t, a, n) /\ ~Breaks(t, n + 1)'
  BY <1>2, <1>3 DEF Unbroken
<1>5. /\ Failure(t, n + 1)' => Failures(t, a, n + 1)' = Failures(t, a, n) \cup {n + 1}
      /\ ~Failure(t, n + 1)' => Failures(t, a, n + 1)' = Failures(t, a, n)
  BY <1>2, <1>3 DEF Failures
<1>6. /\ Probe(t, n + 1)' => Probes(t, a, n + 1)' = Probes(t, a, n) \cup {n + 1}
      /\ ~Probe(t, n + 1)' => Probes(t, a, n + 1)' = Probes(t, a, n)
  BY <1>2, <1>3 DEF Probes
<1> QED BY <1>4, <1>5, <1>6

\* Runs within the first n steps.
LEMMA SameRuns ==
  ASSUME NEW n, NEW e, Told(n, e), NEW t
  PROVE  \A a, o \in 1 .. n : /\ RunFrom(t, a, o)' <=> RunFrom(t, a, o)
                              /\ RunReaches(t, a, o)' <=> RunReaches(t, a, o)
<1>1. n \in Nat
  BY Appended
<1> SUFFICES ASSUME NEW a \in 1 .. n, NEW o \in 1 .. n
             PROVE  /\ RunFrom(t, a, o)' <=> RunFrom(t, a, o)
                    /\ RunReaches(t, a, o)' <=> RunReaches(t, a, o)
  OBVIOUS
<1>2. /\ Failures(t, 1, a - 1)' = Failures(t, 1, a - 1)
      /\ Failures(t, a, o)' = Failures(t, a, o)
      /\ Unbroken(t, a, o)' <=> Unbroken(t, a, o)
      /\ Failure(t, a)' <=> Failure(t, a)
      /\ Failure(t, o)' <=> Failure(t, o)
  BY <1>1, SameSteps, SameWindows
<1>3. \A i \in Failures(t, 1, a - 1) : i \in Nat \ {0}
  BY <1>1 DEF Failures
<1>4. \A i \in Failures(t, 1, a - 1) : Unbroken(t, i, a)' <=> Unbroken(t, i, a)
  BY <1>1, <1>3, SameWindows
<1>5. RunFrom(t, a, o)' <=> RunFrom(t, a, o)
  BY <1>2, <1>4 DEF RunFrom
<1> QED BY <1>2, <1>5 DEF RunReaches

\* Outages that open within the first n steps, and those that are not over.
LEMMA SameOpens ==
  ASSUME NEW n, NEW e, Told(n, e), NEW t
  PROVE  \A a, o \in 1 .. n : Opens(t, a, o)' <=> Opens(t, a, o)
<1>1. n \in Nat
  BY Appended
<1> SUFFICES ASSUME NEW a \in 1 .. n, NEW o \in 1 .. n
             PROVE  Opens(t, a, o)' <=> Opens(t, a, o)
  OBVIOUS
<1> DEFINE Before == Failures(t, 1, a - 1)
<1>2. Failures(t, 1, a - 1)' = Before
  BY <1>1, SameWindows
<1>3. \A p \in Before : p \in 1 .. n /\ p \in Nat \ {0}
  BY <1>1 DEF Failures
<1>4. \A p \in Before : Failures(t, 1, p)' = Failures(t, 1, p)
  BY <1>1, <1>3, SameWindows
<1>5. \A p \in Before : \A b \in Failures(t, 1, p) :
        RunReaches(t, b, p)' <=> RunReaches(t, b, p)
  <2> SUFFICES ASSUME NEW p \in Before, NEW b \in Failures(t, 1, p)
               PROVE  RunReaches(t, b, p)' <=> RunReaches(t, b, p)
    OBVIOUS
  <2>1. p \in 1 .. n /\ b \in 1 .. n
    BY <1>1, <1>3 DEF Failures
  <2> QED BY <2>1, SameRuns
<1>6. \A p \in Before : \A i \in p .. o : Ends(t, i)' <=> Ends(t, i)
  BY <1>1, <1>3, SameSteps
<1>7. RunReaches(t, a, o)' <=> RunReaches(t, a, o)
  BY SameRuns
<1> HIDE DEF Before
<1>8. (\A p \in Before : (\E b \in Failures(t, 1, p)' : RunReaches(t, b, p)')
                            => \E i \in p .. o : Ends(t, i)')
      <=> (\A p \in Before : (\E b \in Failures(t, 1, p) : RunReaches(t, b, p))
                                => \E i \in p .. o : Ends(t, i))
  BY <1>4, <1>5, <1>6
<1> QED BY <1>2, <1>7, <1>8 DEF Opens, Before

\* Which targets are failing after one of the first n steps.
LEMMA SameFault ==
  ASSUME NEW n, NEW e, Told(n, e)
  PROVE  \A m \in 1 .. n : SharedFault(m)' <=> SharedFault(m)
<1>1. n \in Nat
  BY Appended
<1> SUFFICES ASSUME NEW m \in 1 .. n PROVE SharedFault(m)' <=> SharedFault(m)
  OBVIOUS
<1>2. \A t \in Targets : FailingAt(t, m)' <=> FailingAt(t, m)
  <2> SUFFICES ASSUME NEW t \in Targets PROVE FailingAt(t, m)' <=> FailingAt(t, m)
    OBVIOUS
  <2> DEFINE F == Failures(t, 1, m)
  <2>1. Failures(t, 1, m)' = F
    BY <1>1, SameWindows
  <2>2. \A i \in F : i \in 1 .. m /\ i \in 1 .. n /\ i \in Nat \ {0}
    BY <1>1 DEF Failures
  <2>3. \A i \in F : Unbroken(t, i, m)' <=> Unbroken(t, i, m)
    BY <1>1, <2>2, SameWindows
  <2>4. \A o \in F : Failures(t, 1, o)' = Failures(t, 1, o)
    BY <1>1, <2>2, SameWindows
  <2>5. \A o \in F : \A a \in Failures(t, 1, o) : Opens(t, a, o)' <=> Opens(t, a, o)
    <3> SUFFICES ASSUME NEW o \in F, NEW a \in Failures(t, 1, o)
                 PROVE  Opens(t, a, o)' <=> Opens(t, a, o)
      OBVIOUS
    <3>1. o \in 1 .. n /\ a \in 1 .. n
      BY <1>1, <2>2 DEF Failures
    <3> QED BY <3>1, SameOpens
  <2>6. \A o \in F : \A i \in o .. m : Ends(t, i)' <=> Ends(t, i)
    BY <1>1, <2>2, SameSteps
  <2> HIDE DEF F
  <2>7. (\E i \in F : Unbroken(t, i, m)') <=> (\E i \in F : Unbroken(t, i, m))
    BY <2>3
  <2>8. (\E o \in F : /\ \E a \in Failures(t, 1, o)' : Opens(t, a, o)'
                      /\ \A i \in o .. m : ~Ends(t, i)')
        <=> (\E o \in F : /\ \E a \in Failures(t, 1, o) : Opens(t, a, o)
                          /\ \A i \in o .. m : ~Ends(t, i))
    BY <2>4, <2>5, <2>6
  <2> QED BY <2>1, <2>7, <2>8 DEF FailingAt, F
<1>3. {u \in Targets : FailingAt(u, m)'} = {u \in Targets : FailingAt(u, m)}
  BY <1>2
<1> QED BY <1>3 DEF SharedFault
-----------------------------------------------------------------------------
(* Windows are finite, a run has one beginning, and a stretch without a success *)
(* opens one outage.                                                           *)

\* Windows are finite.
LEMMA FiniteWindows ==
  ASSUME NEW t, NEW a \in Int, NEW b \in Int
  PROVE  /\ IsFiniteSet(Failures(t, a, b)) /\ Cardinality(Failures(t, a, b)) \in Nat
         /\ IsFiniteSet(Probes(t, a, b)) /\ Cardinality(Probes(t, a, b)) \in Nat
<1>1. IsFiniteSet(a .. b)
  BY FS_Interval
<1>2. Failures(t, a, b) \subseteq a .. b /\ Probes(t, a, b) \subseteq a .. b
  BY DEF Failures, Probes
<1> QED BY <1>1, <1>2, FS_Subset, FS_CardinalityType

\* A window counts one more when the new step belongs to it.
LEMMA CountOneMore ==
  ASSUME NEW S, IsFiniteSet(S), NEW x, x \notin S
  PROVE  Cardinality(S \cup {x}) = Cardinality(S) + 1
BY FS_AddElement

\* A run has one first failure.
LEMMA OneBeginning ==
  ASSUME NEW t, NEW n \in Nat, NEW a \in 1 .. n, NEW b \in 1 .. n, NEW m \in 1 .. n,
         a <= m, b <= m, RunFrom(t, a, n) \/ RunFrom(t, a, m), RunFrom(t, b, m)
  PROVE  a = b
<1>1. /\ Failure(t, a) /\ Failure(t, b)
      /\ \A i \in Failures(t, 1, a - 1) : ~Unbroken(t, i, a)
      /\ \A i \in Failures(t, 1, b - 1) : ~Unbroken(t, i, b)
      /\ \A i \in a .. m : ~Breaks(t, i)
      /\ \A i \in b .. m : ~Breaks(t, i)
  BY DEF RunFrom, Unbroken
<1>2. CASE a < b
  <2>1. a \in Failures(t, 1, b - 1)
    BY <1>1, <1>2 DEF Failures
  <2>2. Unbroken(t, a, b)
    BY <1>1, <1>2 DEF Unbroken
  <2> QED BY <1>1, <2>1, <2>2
<1>3. CASE b < a
  <2>1. b \in Failures(t, 1, a - 1)
    BY <1>1, <1>3 DEF Failures
  <2>2. Unbroken(t, b, a)
    BY <1>1, <1>3 DEF Unbroken
  <2> QED BY <1>1, <2>1, <2>2
<1> QED BY <1>2, <1>3

\* A run reaches the threshold once.
LEMMA ReachesOnce ==
  ASSUME NEW t, NEW n \in Nat, NEW a \in 1 .. n, NEW o \in a .. n, NEW p \in a .. n,
         RunReaches(t, a, o), RunReaches(t, a, p), o < p
  PROVE  FALSE
<1>1. /\ Cardinality(Failures(t, a, o)) = Cardinality(Failures(t, a, p)) /\ Failure(t, p)
  BY DEF RunReaches
<1>2. /\ Failures(t, a, o) \cup {p} \subseteq Failures(t, a, p)
      /\ p \notin Failures(t, a, o)
  BY <1>1 DEF Failures
<1>3. /\ IsFiniteSet(Failures(t, a, o)) /\ Cardinality(Failures(t, a, o)) \in Nat
      /\ IsFiniteSet(Failures(t, a, p)) /\ Cardinality(Failures(t, a, p)) \in Nat
  BY FiniteWindows
<1>4. Cardinality(Failures(t, a, o) \cup {p}) = Cardinality(Failures(t, a, o)) + 1
  BY <1>2, <1>3, CountOneMore
<1>5. Cardinality(Failures(t, a, o) \cup {p}) <= Cardinality(Failures(t, a, p))
  BY <1>2, <1>3, FS_Subset
<1> QED BY <1>1, <1>3, <1>4, <1>5

\* A run that reaches the threshold does so at a failure not before its first.
LEMMA ReachesLater ==
  ASSUME NEW t, NEW n \in Nat, NEW a \in 1 .. n, NEW o \in 1 .. n, RunReaches(t, a, o)
  PROVE  a <= o
<1> SUFFICES ASSUME o < a PROVE FALSE
  OBVIOUS
<1>1. Failures(t, a, o) = {}
  BY DEF Failures
<1>2. Cardinality(Failures(t, a, o)) = 0
  BY <1>1, FS_EmptySet
<1> QED BY <1>2, DetectorAssumption DEF RunReaches

\* Of two outages that open in the same stretch, the first has to end in between.
LEMMA OneAtATime ==
  ASSUME NEW t, NEW n \in Nat, NEW a \in 1 .. n, NEW o \in a .. n,
         NEW b \in 1 .. n, NEW p \in b .. n, Opens(t, a, o), Opens(t, b, p), o < p
  PROVE  \E i \in o .. p : Ends(t, i)
<1>1. RunReaches(t, a, o) /\ RunReaches(t, b, p) /\ RunFrom(t, a, o) /\ RunFrom(t, b, p)
      /\ Failure(t, o) /\ Failure(t, a)
  BY DEF Opens, RunReaches, RunFrom
<1>2. CASE o < b
  <2>1. o \in Failures(t, 1, b - 1) /\ a \in Failures(t, 1, o)
    BY <1>1, <1>2 DEF Failures
  <2> QED BY <1>1, <2>1 DEF Opens
<1>3. CASE b <= o
  <2>1. RunFrom(t, b, o)
    <3>1. \A i \in b .. p : ~Breaks(t, i)
      BY <1>1 DEF RunFrom, Unbroken
    <3>2. Unbroken(t, b, o)
      BY <3>1 DEF Unbroken
    <3> QED BY <1>1, <3>2 DEF RunFrom
  <2>2. a = b
    BY <1>1, <1>3, <2>1, OneBeginning
  <2> QED BY <1>1, <2>2, ReachesOnce
<1> QED BY <1>2, <1>3

\* The outage that is not over is unique.
LEMMA OneOutage ==
  ASSUME NEW t, NEW n \in Nat, NEW a \in 1 .. n, NEW o \in a .. n,
         NEW b \in 1 .. n, NEW p \in b .. n, Opens(t, a, o), Opens(t, b, p),
         \A i \in o .. n : ~Ends(t, i), \A i \in p .. n : ~Ends(t, i)
  PROVE  a = b /\ o = p
<1>1. ~(o < p)
  <2> SUFFICES ASSUME o < p PROVE FALSE
    OBVIOUS
  <2>1. \E i \in o .. p : Ends(t, i)
    BY OneAtATime
  <2> QED BY <2>1
<1>2. ~(p < o)
  <2> SUFFICES ASSUME p < o PROVE FALSE
    OBVIOUS
  <2>1. \E i \in p .. o : Ends(t, i)
    BY OneAtATime
  <2> QED BY <2>1
<1>3. o = p
  BY <1>1, <1>2
<1>4. RunFrom(t, a, o) /\ RunFrom(t, b, o)
  BY <1>3 DEF Opens, RunReaches
<1> QED BY <1>3, <1>4, OneBeginning
-----------------------------------------------------------------------------
(* The records of the detector describe the history.                            *)

\* No failure of t is pending: every one is followed by what breaks its run.
NoRun(t, n) == \A i \in Failures(t, 1, n) : ~Unbroken(t, i, n)

\* No run of t has reached the threshold since the last end of an outage.
NoneReached(t, n) ==
  \A p \in Failures(t, 1, n) :
    (\E b \in Failures(t, 1, p) : RunReaches(t, b, p)) => \E i \in p .. n : Ends(t, i)

\* The outage of t that begins at a and opens at o is not over at n.
StillOpen(t, a, o, n) ==
  /\ a \in 1 .. n /\ o \in a .. n
  /\ Opens(t, a, o)
  /\ \A i \in o .. n : ~Ends(t, i)

IsLastProbe(t, j, n) == Probe(t, j) /\ \A k \in j + 1 .. n : ~Probe(t, k)

\* The pending run of t begins at a, and s counts its failures.
Pending(s, t, a, n) ==
  /\ RunFrom(t, a, n)
  /\ s.cand_start = hist[a].utc
  /\ s.consec = Cardinality(Failures(t, a, n))

\* The record of a healthy target counts the failures of its pending run.
HealthyRecord(s, t, n) ==
  /\ s.consec = 0 => NoRun(t, n)
  /\ s.consec # 0 => s.consec < FailThreshold /\ \E a \in 1 .. n : Pending(s, t, a, n)
  /\ NoneReached(t, n)

\* s describes the outage of t that began at a and opened at o.
Describes(s, t, a, o, n) ==
  /\ StillOpen(t, a, o, n)
  /\ s.start = hist[a].utc
  /\ s.sent = Cardinality(Probes(t, a, n))
  /\ s.lost = Cardinality(Failures(t, a, n))
  /\ s.type = (IF SharedFault(o) THEN "local" ELSE "host")
  /\ s.trace_ref = (IF TriggerTraceroute THEN <<hist[a].utc, t>> ELSE NoTrace)
  /\ \E j \in o .. n : IsLastProbe(t, j, n) /\ s.last_utc = hist[j].utc

RecordOf(s, t, n) ==
  IF s.in_outage THEN s.consec # 0 /\ \E a, o \in 1 .. n : Describes(s, t, a, o, n)
  ELSE HealthyRecord(s, t, n)

HInv == \A t \in Targets : RecordOf(st[t], t, Len(hist))
\* A step that is no failure of t leaves no new run of t at the threshold.
LEMMA NoneReachedKept ==
  ASSUME NEW n, NEW e, Told(n, e), NEW t, ~Failure(t, n + 1)', NoneReached(t, n)
  PROVE  NoneReached(t, n + 1)'
<1>1. n \in Nat
  BY Appended
<1>2. Failures(t, 1, n + 1)' = Failures(t, 1, n)
  BY <1>1, WindowsGrow
<1> SUFFICES ASSUME NEW p \in Failures(t, 1, n), NEW b \in Failures(t, 1, p)',
                    RunReaches(t, b, p)'
             PROVE  \E i \in p .. n + 1 : Ends(t, i)'
  BY <1>2 DEF NoneReached
<1>3. p \in 1 .. n
  BY DEF Failures
<1>4. b \in Failures(t, 1, p) /\ b \in 1 .. n
  <2>1. Failures(t, 1, p)' = Failures(t, 1, p)
    BY <1>1, <1>3, SameWindows
  <2> QED BY <1>1, <1>3, <2>1 DEF Failures
<1>5. RunReaches(t, b, p)
  BY <1>3, <1>4, SameRuns
<1>6. PICK i \in p .. n : Ends(t, i)
  BY <1>4, <1>5 DEF NoneReached
<1>7. Ends(t, i)'
  BY <1>1, <1>3, <1>6, SameSteps
<1> QED BY <1>1, <1>3, <1>6, <1>7

\* After an end, a record that counts nothing is right.
LEMMA EndedRecord ==
  ASSUME NEW n, NEW e, Told(n, e), NEW t, NEW s, Ends(t, n + 1)',
         ~s.in_outage, s.consec = 0
  PROVE  RecordOf(s, t, n + 1)'
<1>1. n \in Nat
  BY Appended
<1>2. Breaks(t, n + 1)'
  BY DEF Breaks
<1>3. NoRun(t, n + 1)'
  <2>1. \A i \in 1 .. n + 1 : ~Unbroken(t, i, n + 1)'
    BY <1>2, WindowsGrow
  <2> QED BY <2>1 DEF NoRun, Failures
<1>4. NoneReached(t, n + 1)'
  BY <1>1 DEF NoneReached, Failures
<1> QED BY <1>3, <1>4 DEF RecordOf, HealthyRecord

\* An outage stays open over a step that does not end it.
LEMMA StillOpenKept ==
  ASSUME NEW n, NEW e, Told(n, e), NEW t, NEW a, NEW o, StillOpen(t, a, o, n),
         ~Ends(t, n + 1)'
  PROVE  StillOpen(t, a, o, n + 1)'
<1>1. n \in Nat /\ a \in 1 .. n /\ o \in a .. n /\ o \in 1 .. n
  BY Appended DEF StillOpen
<1>2. Opens(t, a, o)'
  BY <1>1, SameOpens DEF StillOpen
<1>3. \A i \in o .. n : ~Ends(t, i)'
  BY <1>1, SameSteps DEF StillOpen
<1>4. \A i \in o .. n + 1 : i \in o .. n \/ i = n + 1
  BY <1>1
<1> QED BY <1>1, <1>2, <1>3, <1>4 DEF StillOpen

\* The steps of an outage keep their times, and the verdict on its opening.
LEMMA SameOutage ==
  ASSUME NEW n, NEW e, Told(n, e), NEW t, NEW a \in 1 .. n, NEW o \in 1 .. n
  PROVE  /\ hist'[a].utc = hist[a].utc /\ hist'[o].utc = hist[o].utc
         /\ SharedFault(o)' <=> SharedFault(o)
BY Appended, SameFault

\* An outage is described as before after a step that neither probes nor ends it.
LEMMA OutageKept ==
  ASSUME NEW n, NEW e, Told(n, e), NEW t, NEW s, RecordOf(s, t, n), s.in_outage,
         ~Probe(t, n + 1)', ~Ends(t, n + 1)'
  PROVE  RecordOf(s, t, n + 1)'
<1>1. n \in Nat
  BY Appended
<1>2. ~Failure(t, n + 1)'
  BY DEF Failure, Probe
<1>3. PICK a, o \in 1 .. n : Describes(s, t, a, o, n)
  BY DEF RecordOf
<1>4. StillOpen(t, a, o, n + 1)'
  BY <1>2, <1>3, StillOpenKept DEF Describes
<1>5. PICK j \in o .. n : IsLastProbe(t, j, n) /\ s.last_utc = hist[j].utc
  BY <1>3 DEF Describes
<1>6. j \in 1 .. n /\ j \in o .. n + 1 /\ hist'[j].utc = s.last_utc
  BY <1>1, <1>5, Appended
<1>7. IsLastProbe(t, j, n + 1)'
  <2>1. \A k \in j + 1 .. n : k \in 1 .. n /\ ~Probe(t, k)'
    BY <1>1, <1>5, <1>6, SameSteps DEF IsLastProbe
  <2>2. Probe(t, j)'
    BY <1>5, <1>6, SameSteps DEF IsLastProbe
  <2>3. \A k \in j + 1 .. n + 1 : k \in j + 1 .. n \/ k = n + 1
    BY <1>1, <1>6
  <2> QED BY <1>2, <2>1, <2>2, <2>3 DEF IsLastProbe
<1>8. a \in 1 .. n + 1 /\ o \in 1 .. n + 1
  BY <1>1
<1>9. Failures(t, a, n + 1)' = Failures(t, a, n) /\ Probes(t, a, n + 1)' = Probes(t, a, n)
  BY <1>2, <1>8, WindowsGrow
<1>10. Describes(s, t, a, o, n + 1)'
  BY <1>3, <1>4, <1>6, <1>7, <1>8, <1>9, SameOutage DEF Describes
<1> QED BY <1>8, <1>10 DEF RecordOf

\* A step about others leaves the record of t right.
LEMMA QuietRecord ==
  ASSUME NEW n, NEW e, Told(n, e), NEW t, NEW s, RecordOf(s, t, n),
         ~Probe(t, n + 1)', ~Breaks(t, n + 1)'
  PROVE  RecordOf(s, t, n + 1)'
<1>1. n \in Nat
  BY Appended
<1>2. ~Failure(t, n + 1)' /\ ~Ends(t, n + 1)'
  BY DEF Failure, Probe, Breaks
<1>3. \A a \in 1 .. n + 1 : /\ Unbroken(t, a, n + 1)' <=> Unbroken(t, a, n)
                            /\ Failures(t, a, n + 1)' = Failures(t, a, n)
                            /\ Probes(t, a, n + 1)' = Probes(t, a, n)
  <2> SUFFICES ASSUME NEW a \in 1 .. n + 1
               PROVE  /\ Unbroken(t, a, n + 1)' <=> Unbroken(t, a, n)
                      /\ Failures(t, a, n + 1)' = Failures(t, a, n)
                      /\ Probes(t, a, n + 1)' = Probes(t, a, n)
    OBVIOUS
  <2>1. Unbroken(t, a, n + 1)' <=> Unbroken(t, a, n)
    BY WindowsGrow
  <2>2. Failures(t, a, n + 1)' = Failures(t, a, n)
    BY <1>2, WindowsGrow
  <2>3. Probes(t, a, n + 1)' = Probes(t, a, n)
    BY WindowsGrow
  <2> QED BY <2>1, <2>2, <2>3
<1>4. CASE ~s.in_outage
  <2>1. HealthyRecord(s, t, n)
    BY <1>4 DEF RecordOf
  <2>2. NoneReached(t, n + 1)'
    BY <1>2, <2>1, NoneReachedKept DEF HealthyRecord
  <2>3. CASE s.consec = 0
    <3>1. NoRun(t, n + 1)'
      BY <1>1, <1>3, <2>1, <2>3 DEF HealthyRecord, NoRun, Failures
    <3> QED BY <1>4, <2>2, <2>3, <3>1 DEF RecordOf, HealthyRecord
  <2>4. CASE s.consec # 0
    <3>1. PICK a \in 1 .. n : Pending(s, t, a, n)
      BY <2>1, <2>4 DEF HealthyRecord
    <3>2. RunFrom(t, a, n + 1)'
      <4>1. RunFrom(t, a, n)'
        BY <1>1, <3>1, SameRuns DEF Pending
      <4>2. Unbroken(t, a, n + 1)'
        BY <1>1, <1>3, <3>1 DEF Pending, RunFrom
      <4> QED BY <4>1, <4>2 DEF RunFrom
    <3>3. Pending(s, t, a, n + 1)'
      BY <1>1, <1>3, <3>1, <3>2, SameOutage DEF Pending
    <3>4. a \in 1 .. n + 1
      BY <1>1
    <3> QED BY <1>4, <2>1, <2>2, <2>4, <3>3, <3>4 DEF RecordOf, HealthyRecord
  <2> QED BY <2>3, <2>4
<1>5. CASE s.in_outage
  BY <1>2, <1>5, OutageKept
<1> QED BY <1>4, <1>5

\* A gap forgets the pending run and leaves an outage as it is.
LEMMA GapRecordRight ==
  ASSUME NEW n, NEW e, Told(n, e), NEW t \in Targets, NEW s \in State, RecordOf(s, t, n),
         e.kind = "gap"
  PROVE  RecordOf(ResetAfterGap(s), t, n + 1)'
<1>1. n \in Nat
  BY Appended
<1>2. /\ ~Failure(t, n + 1)' /\ ~Probe(t, n + 1)' /\ ~Ends(t, n + 1)' /\ Breaks(t, n + 1)'
  BY NewStep
<1>3. CASE ~s.in_outage
  <2> DEFINE r == [s EXCEPT !.consec = 0]
  <2>1. ResetAfterGap(s) = r /\ ~r.in_outage /\ r.consec = 0
    BY <1>3 DEF ResetAfterGap, State
  <2>2. NoneReached(t, n + 1)'
    BY <1>2, <1>3, NoneReachedKept DEF RecordOf, HealthyRecord
  <2>3. NoRun(t, n + 1)'
    <3>1. \A i \in 1 .. n + 1 : ~Unbroken(t, i, n + 1)'
      BY <1>2, WindowsGrow
    <3> QED BY <3>1 DEF NoRun, Failures
  <2> HIDE DEF r
  <2>4. RecordOf(r, t, n + 1)'
    BY <2>1, <2>2, <2>3 DEF RecordOf, HealthyRecord
  <2> QED BY <2>1, <2>4
<1>4. CASE s.in_outage
  BY <1>2, <1>4, OutageKept DEF ResetAfterGap
<1> QED BY <1>3, <1>4
\* The same as a formula, and so in every state.
RunsBeginOnce ==
  \A t : \A n \in Nat : \A a, b \in 1 .. n : RunFrom(t, a, n) /\ RunFrom(t, b, n) => a = b

LEMMA OneBeginningAlways == RunsBeginOnce
BY OneBeginning DEF RunsBeginOnce

\* The same in the next state.
LEMMA OneBeginningNext ==
  ASSUME NEW t, NEW n \in Nat, NEW a \in 1 .. n, NEW b \in 1 .. n,
         RunFrom(t, a, n)', RunFrom(t, b, n)'
  PROVE  a = b
<1>1. RunsBeginOnce'
  BY OneBeginningAlways, PTL
<1> QED BY <1>1 DEF RunsBeginOnce

\* A failure of a healthy target prolongs its pending run, or begins one.
LEMMA PendingGrows ==
  ASSUME NEW n, NEW e, Told(n, e), NEW t \in Targets, NEW s \in State,
         e.kind = "fail", e.target = t, HealthyRecord(s, t, n)
  PROVE  \E a \in 1 .. n + 1 :
           /\ RunFrom(t, a, n + 1)'
           /\ hist'[a].utc = CandStart(s, e.utc)
           /\ Cardinality(Failures(t, a, n + 1)') = s.consec + 1
           /\ Probes(t, a, n + 1)' = Failures(t, a, n + 1)'
<1>1. n \in Nat /\ hist'[n + 1] = e
  BY Appended
<1>2. /\ Failure(t, n + 1)' /\ Probe(t, n + 1)' /\ ~Ends(t, n + 1)' /\ ~Breaks(t, n + 1)'
  BY NewStep
<1>3. SUFFICES \E a \in 1 .. n + 1 :
                 /\ RunFrom(t, a, n + 1)'
                 /\ hist'[a].utc = CandStart(s, e.utc)
                 /\ Cardinality(Failures(t, a, n + 1)') = s.consec + 1
  <2>1. PICK a \in 1 .. n + 1 :
          /\ RunFrom(t, a, n + 1)'
          /\ hist'[a].utc = CandStart(s, e.utc)
          /\ Cardinality(Failures(t, a, n + 1)') = s.consec + 1
    BY <1>3
  <2>2. \A i \in a .. n + 1 : ~Ends(t, i)'
    BY <2>1 DEF RunFrom, Unbroken, Breaks
  <2>3. \A i \in a .. n + 1 : Probe(t, i)' <=> Failure(t, i)'
    BY <2>2 DEF Probe, Failure, Ends
  <2>4. Probes(t, a, n + 1)' = Failures(t, a, n + 1)'
    BY <2>3 DEF Probes, Failures
  <2> QED BY <2>1, <2>4
<1>4. \A a \in 1 .. n + 1 : /\ IsFiniteSet(Failures(t, a, n))
                            /\ n + 1 \notin Failures(t, a, n)
  BY <1>1, FiniteWindows DEF Failures
<1>5. \A a \in 1 .. n + 1 : Cardinality(Failures(t, a, n + 1)')
                              = Cardinality(Failures(t, a, n)) + 1
  <2> SUFFICES ASSUME NEW a \in 1 .. n + 1
               PROVE  Cardinality(Failures(t, a, n + 1)') = Cardinality(Failures(t, a, n)) + 1
    OBVIOUS
  <2>1. Failures(t, a, n + 1)' = Failures(t, a, n) \cup {n + 1}
    BY <1>2, WindowsGrow
  <2> QED BY <1>4, <2>1, CountOneMore
<1>6. CASE s.consec = 0
  <2>1. NoRun(t, n)
    BY <1>6 DEF HealthyRecord
  <2>2. RunFrom(t, n + 1, n + 1)'
    <3>1. Unbroken(t, n + 1, n + 1)'
      BY <1>1, <1>2 DEF Unbroken
    <3>2. Failures(t, 1, n)' = Failures(t, 1, n)
      BY <1>1, SameWindows
    <3>3. \A i \in Failures(t, 1, n) : ~Unbroken(t, i, n + 1)'
      <4> SUFFICES ASSUME NEW i \in Failures(t, 1, n) PROVE ~Unbroken(t, i, n + 1)'
        OBVIOUS
      <4>1. i \in 1 .. n + 1
        BY <1>1 DEF Failures
      <4>2. ~Unbroken(t, i, n)
        BY <2>1 DEF NoRun
      <4> QED BY <4>1, <4>2, WindowsGrow
    <3>4. (n + 1) - 1 = n
      BY <1>1
    <3> QED BY <1>2, <3>1, <3>2, <3>3, <3>4 DEF RunFrom
  <2>3. Failures(t, n + 1, n) = {}
    BY <1>1 DEF Failures
  <2>4. Cardinality(Failures(t, n + 1, n + 1)') = 1
    <3>1. Cardinality(Failures(t, n + 1, n + 1)') = Cardinality(Failures(t, n + 1, n)) + 1
      BY <1>1, <1>5
    <3>2. Cardinality(Failures(t, n + 1, n)) = 0
      BY ONLY <2>3, FS_EmptySet
    <3> QED BY ONLY <3>1, <3>2
  <2> QED BY <1>1, <1>6, <2>2, <2>4 DEF CandStart
<1>7. CASE s.consec # 0
  <2>1. PICK a \in 1 .. n : Pending(s, t, a, n)
    BY <1>7 DEF HealthyRecord
  <2>2. RunFrom(t, a, n)' /\ hist'[a].utc = CandStart(s, e.utc)
    BY <1>1, <1>7, <2>1, SameRuns, SameOutage DEF Pending, CandStart
  <2>3. a \in 1 .. n + 1
    BY <1>1
  <2>4. Unbroken(t, a, n + 1)'
    BY <1>2, <2>1, <2>3, WindowsGrow DEF Pending, RunFrom
  <2>5. RunFrom(t, a, n + 1)'
    BY <2>2, <2>4 DEF RunFrom
  <2> QED BY <1>5, <2>1, <2>2, <2>3, <2>5 DEF Pending
<1> QED BY <1>6, <1>7

\* A failure below the threshold is counted.
LEMMA BelowThresholdRight ==
  ASSUME NEW n, NEW e, Told(n, e), NEW t \in Targets, NEW s \in State,
         e.kind = "fail", e.target = t, ~s.in_outage, RecordOf(s, t, n),
         s.consec + 1 < FailThreshold,
         NEW r, ~r.in_outage, r.consec = s.consec + 1, r.cand_start = CandStart(s, e.utc)
  PROVE  RecordOf(r, t, n + 1)'
<1>1. n \in Nat /\ HealthyRecord(s, t, n) /\ s.consec \in Nat
  BY Appended DEF RecordOf, State
<1>2. PICK a \in 1 .. n + 1 : /\ RunFrom(t, a, n + 1)'
                              /\ hist'[a].utc = CandStart(s, e.utc)
                              /\ Cardinality(Failures(t, a, n + 1)') = s.consec + 1
  BY <1>1, PendingGrows
<1>3. Pending(r, t, a, n + 1)'
  BY <1>2 DEF Pending
<1>4. Failures(t, 1, n + 1)' = Failures(t, 1, n) \cup {n + 1}
  BY <1>1, NewStep, WindowsGrow
<1>5. NoneReached(t, n + 1)'
  <2> SUFFICES ASSUME NEW p \in Failures(t, 1, n) \cup {n + 1}, NEW b \in Failures(t, 1, p)',
                      RunReaches(t, b, p)'
               PROVE  \E i \in p .. n + 1 : Ends(t, i)'
    BY <1>4 DEF NoneReached
  <2>1. CASE p \in Failures(t, 1, n)
    <3>1. p \in 1 .. n
      BY <2>1 DEF Failures
    <3>2. b \in Failures(t, 1, p) /\ b \in 1 .. n
      <4>1. Failures(t, 1, p)' = Failures(t, 1, p)
        BY <1>1, <3>1, SameWindows
      <4> QED BY <1>1, <3>1, <4>1 DEF Failures
    <3>3. RunReaches(t, b, p)
      BY <3>1, <3>2, SameRuns
    <3>4. PICK i \in p .. n : Ends(t, i)
      BY <1>1, <2>1, <3>2, <3>3 DEF HealthyRecord, NoneReached
    <3>5. Ends(t, i)'
      BY <1>1, <3>1, <3>4, SameSteps
    <3> QED BY <1>1, <3>1, <3>4, <3>5
  <2>2. CASE p = n + 1
    <3>1. b \in 1 .. n + 1 /\ RunFrom(t, b, n + 1)'
      BY <1>1, <2>2 DEF Failures, RunReaches
    <3>2. a = b
      BY <1>1, <1>2, <3>1, OneBeginningNext
    <3>3. Cardinality(Failures(t, a, n + 1)') = IF FailThreshold < 1 THEN 1 ELSE FailThreshold
      BY <2>2, <3>2 DEF RunReaches
    <3> QED BY <1>1, <1>2, <3>3, DetectorAssumption
  <2> QED BY <2>1, <2>2
<1>6. r.consec # 0 /\ r.consec < FailThreshold
  BY <1>1
<1> QED BY <1>3, <1>5, <1>6 DEF RecordOf, HealthyRecord

\* The failure that reaches the threshold opens an outage.
LEMMA OpensRight ==
  ASSUME NEW n, NEW e, Told(n, e), NEW t \in Targets, NEW s \in State,
         e.kind = "fail", e.target = t, ~s.in_outage, RecordOf(s, t, n),
         s.consec + 1 >= FailThreshold
  PROVE  \E a \in 1 .. n + 1 :
           /\ Opens(t, a, n + 1)'
           /\ hist'[a].utc = CandStart(s, e.utc)
           /\ Cardinality(Failures(t, a, n + 1)') = s.consec + 1
           /\ Probes(t, a, n + 1)' = Failures(t, a, n + 1)'
<1>1. n \in Nat /\ HealthyRecord(s, t, n) /\ s.consec \in Nat
  BY Appended DEF RecordOf, State
<1>2. PICK a \in 1 .. n + 1 : /\ RunFrom(t, a, n + 1)'
                              /\ hist'[a].utc = CandStart(s, e.utc)
                              /\ Cardinality(Failures(t, a, n + 1)') = s.consec + 1
                              /\ Probes(t, a, n + 1)' = Failures(t, a, n + 1)'
  BY <1>1, PendingGrows
<1>3. Failure(t, n + 1)'
  BY NewStep
<1>4. s.consec + 1 = IF FailThreshold < 1 THEN 1 ELSE FailThreshold
  BY <1>1, DetectorAssumption DEF HealthyRecord
<1>5. RunReaches(t, a, n + 1)'
  BY <1>2, <1>3, <1>4 DEF RunReaches
<1>6. ASSUME NEW p \in Failures(t, 1, a - 1)', NEW b \in Failures(t, 1, p)',
             RunReaches(t, b, p)'
      PROVE  \E i \in p .. n + 1 : Ends(t, i)'
  <2>1. Failures(t, 1, a - 1)' = Failures(t, 1, a - 1)
    BY <1>1, SameWindows
  <2>2. p \in 1 .. n /\ p \in Failures(t, 1, n)
    BY <1>1, <1>6, <2>1 DEF Failures
  <2>3. b \in Failures(t, 1, p) /\ b \in 1 .. n
    <3>1. Failures(t, 1, p)' = Failures(t, 1, p)
      BY <1>1, <2>2, SameWindows
    <3> QED BY <1>1, <1>6, <2>2, <3>1 DEF Failures
  <2>4. RunReaches(t, b, p)
    BY <1>6, <2>2, <2>3, SameRuns
  <2>5. PICK i \in p .. n : Ends(t, i)
    BY <1>1, <2>2, <2>3, <2>4 DEF HealthyRecord, NoneReached
  <2>6. Ends(t, i)'
    BY <1>1, <2>2, <2>5, SameSteps
  <2> QED BY <1>1, <2>2, <2>5, <2>6
<1>7. Opens(t, a, n + 1)'
  BY <1>5, <1>6 DEF Opens
<1> QED BY <1>2, <1>7

\* A failure during the outage is counted in it.
LEMMA FailureInOutageRight ==
  ASSUME NEW n, NEW e, Told(n, e), NEW t \in Targets, NEW s \in State,
         e.kind = "fail", e.target = t, s.in_outage, RecordOf(s, t, n),
         NEW r, r.in_outage, r.consec = s.consec + 1, r.start = s.start,
         r.last_utc = e.utc, r.sent = s.sent + 1, r.lost = s.lost + 1,
         r.type = s.type, r.trace_ref = s.trace_ref
  PROVE  RecordOf(r, t, n + 1)'
<1>1. n \in Nat /\ hist'[n + 1] = e
  BY Appended
<1>2. Failure(t, n + 1)' /\ Probe(t, n + 1)' /\ ~Ends(t, n + 1)'
  BY NewStep
<1>3. PICK a, o \in 1 .. n : Describes(s, t, a, o, n)
  BY DEF RecordOf
<1>4. StillOpen(t, a, o, n + 1)'
  BY <1>2, <1>3, StillOpenKept DEF Describes
<1>5. a \in 1 .. n + 1 /\ o \in 1 .. n + 1 /\ n + 1 \in o .. n + 1
  BY <1>1
<1>6. /\ Failures(t, a, n + 1)' = Failures(t, a, n) \cup {n + 1}
      /\ Probes(t, a, n + 1)' = Probes(t, a, n) \cup {n + 1}
  BY <1>2, <1>5, WindowsGrow
<1>7. n + 1 \notin Failures(t, a, n) /\ n + 1 \notin Probes(t, a, n)
  BY <1>1 DEF Failures, Probes
<1>8. /\ Cardinality(Failures(t, a, n + 1)') = Cardinality(Failures(t, a, n)) + 1
      /\ Cardinality(Probes(t, a, n + 1)') = Cardinality(Probes(t, a, n)) + 1
  BY <1>1, <1>6, <1>7, FiniteWindows, CountOneMore
<1>9. IsLastProbe(t, n + 1, n + 1)'
  BY <1>1, <1>2 DEF IsLastProbe
<1>10. Describes(r, t, a, o, n + 1)'
  BY <1>1, <1>3, <1>4, <1>5, <1>8, <1>9, SameOutage DEF Describes
<1>11. r.consec # 0
  BY DEF State
<1> QED BY <1>5, <1>10, <1>11 DEF RecordOf
\* A target is failing exactly when its record says so.
LEMMA FailingNow ==
  ASSUME NEW n \in Nat, NEW t \in Targets, NEW s \in State, RecordOf(s, t, n)
  PROVE  FailingAt(t, n) <=> s.in_outage \/ s.consec > 0
<1>0. s.consec \in Nat /\ s.in_outage \in BOOLEAN
  BY DEF State
<1>1. CASE s.in_outage
  <2>1. PICK a, o \in 1 .. n : StillOpen(t, a, o, n)
    BY <1>1 DEF RecordOf, Describes
  <2>2. RunReaches(t, a, o) /\ a <= o
    BY <2>1 DEF StillOpen, Opens
  <2>3. Failure(t, o) /\ Failure(t, a)
    BY <2>2 DEF RunReaches, RunFrom
  <2>4. o \in Failures(t, 1, n) /\ a \in Failures(t, 1, o)
    BY <2>2, <2>3 DEF Failures
  <2> QED BY <1>1, <2>1, <2>4 DEF FailingAt, StillOpen
<1>2. CASE ~s.in_outage
  <2>1. HealthyRecord(s, t, n)
    BY <1>2 DEF RecordOf
  <2>2. ~(\E o \in Failures(t, 1, n) : /\ \E a \in Failures(t, 1, o) : Opens(t, a, o)
                                       /\ \A i \in o .. n : ~Ends(t, i))
    BY <2>1 DEF HealthyRecord, NoneReached, Opens
  <2>3. CASE s.consec = 0
    BY <1>2, <2>1, <2>2, <2>3 DEF HealthyRecord, NoRun, FailingAt
  <2>4. CASE s.consec # 0
    <3>1. PICK a \in 1 .. n : RunFrom(t, a, n)
      BY <2>1, <2>4 DEF HealthyRecord, Pending
    <3>2. a \in Failures(t, 1, n) /\ Unbroken(t, a, n)
      BY <3>1 DEF RunFrom, Failures
    <3> QED BY <1>0, <2>4, <3>2 DEF FailingAt
  <2> QED BY <2>3, <2>4
<1> QED BY <1>1, <1>2

\* A failure of t leaves the other targets failing or not, and t failing.
LEMMA FailingNext ==
  ASSUME NEW n, NEW e, Told(n, e), NEW t \in Targets, e.kind = "fail", e.target = t,
         NEW u \in Targets
  PROVE  FailingAt(u, n + 1)' <=> FailingAt(u, n) \/ u = t
<1>1. n \in Nat
  BY Appended
<1>2. CASE u = t
  <2>1. Failure(t, n + 1)' /\ ~Breaks(t, n + 1)'
    BY NewStep
  <2>2. n + 1 \in Failures(t, 1, n + 1)' /\ Unbroken(t, n + 1, n + 1)'
    BY <1>1, <2>1 DEF Failures, Unbroken
  <2> QED BY <1>2, <2>2 DEF FailingAt
<1>3. CASE u # t
  <2>1. ~Failure(u, n + 1)' /\ ~Ends(u, n + 1)' /\ ~Breaks(u, n + 1)'
    BY <1>3, NewStep
  <2> DEFINE F == Failures(u, 1, n)
  <2>2. Failures(u, 1, n + 1)' = F
    BY <1>1, <2>1, WindowsGrow
  <2>3. \A i \in F : i \in 1 .. n /\ i \in 1 .. n + 1 /\ i \in Nat \ {0} /\ i \in 0 .. n
    BY <1>1 DEF Failures
  <2>4. \A i \in F : Unbroken(u, i, n + 1)' <=> Unbroken(u, i, n)
    BY <2>1, <2>3, WindowsGrow
  <2>5. \A o \in F : Failures(u, 1, o)' = Failures(u, 1, o)
    BY <1>1, <2>3, SameWindows
  <2>6. \A o \in F : \A a \in Failures(u, 1, o) : Opens(u, a, o)' <=> Opens(u, a, o)
    <3> SUFFICES ASSUME NEW o \in F, NEW a \in Failures(u, 1, o)
                 PROVE  Opens(u, a, o)' <=> Opens(u, a, o)
      OBVIOUS
    <3>1. o \in 1 .. n /\ a \in 1 .. n
      BY <1>1, <2>3 DEF Failures
    <3> QED BY <3>1, SameOpens
  <2>7. \A o \in F : (\A i \in o .. n + 1 : ~Ends(u, i)') <=> (\A i \in o .. n : ~Ends(u, i))
    <3> SUFFICES ASSUME NEW o \in F
                 PROVE  (\A i \in o .. n + 1 : ~Ends(u, i)') <=> (\A i \in o .. n : ~Ends(u, i))
      OBVIOUS
    <3>1. \A i \in o .. n : Ends(u, i)' <=> Ends(u, i)
      BY <1>1, <2>3, SameSteps
    <3>2. o .. n + 1 = (o .. n) \cup {n + 1}
      BY <1>1, <2>3
    <3> QED BY <2>1, <3>1, <3>2
  <2> HIDE DEF F
  <2>8. (\E i \in F : Unbroken(u, i, n + 1)') <=> (\E i \in F : Unbroken(u, i, n))
    BY <2>4
  <2>9. (\E o \in F : /\ \E a \in Failures(u, 1, o)' : Opens(u, a, o)'
                      /\ \A i \in o .. n + 1 : ~Ends(u, i)')
        <=> (\E o \in F : /\ \E a \in Failures(u, 1, o) : Opens(u, a, o)
                          /\ \A i \in o .. n : ~Ends(u, i))
    BY <2>5, <2>6, <2>7
  <2> QED BY <1>3, <2>2, <2>8, <2>9 DEF FailingAt, F
<1> QED BY <1>2, <1>3

\* The detector's verdict on an opening outage is that of the history.
LEMMA WidespreadIsShared ==
  ASSUME NEW n, NEW e, Told(n, e), NEW t \in Targets, e.kind = "fail", e.target = t,
         st \in [Targets -> State], \A u \in Targets : RecordOf(st[u], u, n)
  PROVE  Widespread(t) <=> SharedFault(n + 1)'
<1>1. n \in Nat
  BY Appended
<1>2. \A u \in Targets : FailingAt(u, n + 1)' <=> (st[u].in_outage \/ st[u].consec > 0) \/ u = t
  <2> SUFFICES ASSUME NEW u \in Targets
               PROVE  FailingAt(u, n + 1)' <=> (st[u].in_outage \/ st[u].consec > 0) \/ u = t
    OBVIOUS
  <2>1. FailingAt(u, n) <=> st[u].in_outage \/ st[u].consec > 0
    BY <1>1, FailingNow
  <2> QED BY <2>1, FailingNext
<1> DEFINE F == {u \in Targets : st[u].in_outage \/ st[u].consec > 0} \cup {t}
<1>3. {u \in Targets : FailingAt(u, n + 1)'} = F
  BY <1>2
<1>4. F \subseteq Targets
  OBVIOUS
<1> HIDE DEF F
<1>5. Cardinality(F) \in Nat /\ Cardinality(Targets) \in Nat
  BY <1>4, DetectorAssumption, FS_Subset, FS_CardinalityType
<1>6. count_failing(t) = Cardinality(F)
  BY DEF count_failing, F
<1>7. SharedFault(n + 1)' <=>
        Cardinality(Targets) > 2 /\ 4 * Cardinality(F) >= 3 * Cardinality(Targets)
  BY <1>3 DEF SharedFault
<1>8. Widespread(t) <=>
        Cardinality(Targets) > 2 /\ Cardinality(F) * 100 >= Cardinality(Targets) * 75
  BY <1>6 DEF Widespread
<1> QED BY <1>5, <1>7, <1>8
\* What the detector is told is what the history notes.
LEMMA NoteTold ==
  ASSUME TypeOK, NEW kind \in {"ok", "fail", "gap", "stop", "boot"},
         NEW t \in Targets \cup {Monitor}, NEW utc \in Nat, Note(kind, t, utc)
  PROVE  Told(Len(hist), [kind |-> kind, target |-> t, utc |-> utc])
<1>1. [kind |-> kind, target |-> t, utc |-> utc] \in HistEntry
  BY DEF HistEntry
<1>2. hist \in Seq(HistEntry) /\ Len(hist) \in Nat
  BY DEF TypeOK, HistEntry
<1> QED BY <1>1, <1>2 DEF Told, Note

\* The new record of the target whose probe result came in.
LEMMA SampledRecord ==
  ASSUME NEW n, NEW e, Told(n, e), NEW t \in Targets, st \in [Targets -> State],
         \A u \in Targets : RecordOf(st[u], u, n), e.target = t,
         \/ /\ e.kind = "fail"
            /\ \/ AddFailureInOutage(st[t], t, e.utc)
               \/ AddFailureBelowThreshold(st[t], t, e.utc)
               \/ OpenOutage(st[t], t, e.utc)
         \/ /\ e.kind = "ok"
            /\ AddSuccessInOutage(st[t], t, e.utc) \/ AddSuccess(st[t], t, e.utc),
         NEW r, r = st'[t]
  PROVE  RecordOf(r, t, n + 1)'
<1>1. n \in Nat /\ st[t] \in State /\ RecordOf(st[t], t, n) /\ hist'[n + 1] = e
  BY Appended
<1> PICK s \in State : s = st[t]
  BY <1>1
<1>2. CASE e.kind = "fail" /\ AddFailureInOutage(st[t], t, e.utc)
  <2>1. r = [s EXCEPT !.last_utc = e.utc, !.sent = s.sent + 1, !.lost = s.lost + 1,
                      !.consec = s.consec + 1] /\ s.in_outage
    BY <1>2 DEF AddFailureInOutage
  <2>2. /\ r.in_outage /\ r.consec = s.consec + 1 /\ r.start = s.start /\ r.last_utc = e.utc
        /\ r.sent = s.sent + 1 /\ r.lost = s.lost + 1 /\ r.type = s.type
        /\ r.trace_ref = s.trace_ref
    BY <2>1 DEF State
  <2> QED BY <1>1, <1>2, <2>1, <2>2, FailureInOutageRight
<1>3. CASE e.kind = "fail" /\ AddFailureBelowThreshold(st[t], t, e.utc)
  <2>1. /\ r = [s EXCEPT !.last_utc = e.utc, !.cand_start = CandStart(s, e.utc),
                         !.consec = s.consec + 1]
        /\ ~s.in_outage /\ s.consec + 1 < FailThreshold
    BY <1>3 DEF AddFailureBelowThreshold
  <2>2. ~r.in_outage /\ r.consec = s.consec + 1 /\ r.cand_start = CandStart(s, e.utc)
    BY <2>1 DEF State
  <2> QED BY <1>1, <1>3, <2>1, <2>2, BelowThresholdRight
<1>4. CASE e.kind = "fail" /\ OpenOutage(st[t], t, e.utc)
  <2> DEFINE start == CandStart(s, e.utc)
  <2>1. /\ r = [in_outage |-> TRUE, consec |-> s.consec + 1, cand_start |-> start,
                start |-> start, last_utc |-> e.utc, sent |-> s.consec + 1,
                lost |-> s.consec + 1,
                trace_ref |-> IF TriggerTraceroute THEN <<start, t>> ELSE NoTrace,
                type |-> IF Widespread(t) THEN "local" ELSE "host"]
        /\ ~s.in_outage /\ s.consec + 1 >= FailThreshold
    BY <1>4 DEF OpenOutage
  <2> HIDE DEF start
  <2>2. PICK a \in 1 .. n + 1 : /\ Opens(t, a, n + 1)'
                                /\ hist'[a].utc = start
                                /\ Cardinality(Failures(t, a, n + 1)') = s.consec + 1
                                /\ Probes(t, a, n + 1)' = Failures(t, a, n + 1)'
    BY <1>1, <1>4, <2>1, OpensRight DEF start
  <2>3. Widespread(t) <=> SharedFault(n + 1)'
    BY <1>4, WidespreadIsShared
  <2>4. Probe(t, n + 1)' /\ ~Ends(t, n + 1)'
    BY <1>4, NewStep
  <2>5. StillOpen(t, a, n + 1, n + 1)'
    BY <1>1, <2>2, <2>4 DEF StillOpen
  <2>6. IsLastProbe(t, n + 1, n + 1)'
    BY <1>1, <2>4 DEF IsLastProbe
  <2>7. n + 1 \in n + 1 .. n + 1 /\ n + 1 \in 1 .. n + 1
    BY <1>1
  <2>8. Describes(r, t, a, n + 1, n + 1)'
    BY <1>1, <2>1, <2>2, <2>3, <2>5, <2>6, <2>7 DEF Describes
  <2>9. r.in_outage /\ r.consec # 0
    BY <2>1 DEF State
  <2> QED BY <2>7, <2>8, <2>9 DEF RecordOf
<1>5. CASE e.kind = "ok"
  <2>1. Ends(t, n + 1)'
    BY <1>5, NewStep
  <2>2. ~r.in_outage /\ r.consec = 0
    <3>1. CASE AddSuccessInOutage(st[t], t, e.utc)
      <4>1. [s EXCEPT !.last_utc = e.utc, !.sent = @ + 1] \in State
        <5>1. e.utc \in Nat
          BY <1>1, Appended DEF HistEntry
        <5> QED BY <5>1, CountedType
      <4> PICK c \in State : c = [s EXCEPT !.last_utc = e.utc, !.sent = @ + 1]
        BY <4>1
      <4>2. CloseOutage(c, t, e.utc)
        BY <3>1 DEF AddSuccessInOutage
      <4>3. r = [c EXCEPT !.in_outage = FALSE, !.consec = 0, !.sent = 0, !.lost = 0,
                          !.type = "host"]
        BY <4>2 DEF CloseOutage
      <4> QED BY <4>3 DEF State
    <3>2. CASE AddSuccess(st[t], t, e.utc)
      BY <3>2 DEF AddSuccess, State
    <3> QED BY <1>5, <3>1, <3>2
  <2> QED BY <2>1, <2>2, EndedRecord
<1> QED BY <1>2, <1>3, <1>4, <1>5

\* A probe result touches no other target's record.
LEMMA SampleTouchesOne ==
  ASSUME st \in [Targets -> State], NEW t \in Targets, NEW utc,
         \/ AddFailureInOutage(st[t], t, utc)
         \/ AddFailureBelowThreshold(st[t], t, utc)
         \/ OpenOutage(st[t], t, utc)
         \/ AddSuccessInOutage(st[t], t, utc)
         \/ AddSuccess(st[t], t, utc)
  PROVE  \A u \in Targets \ {t} : st'[u] = st[u]
BY DEF AddFailureInOutage, AddFailureBelowThreshold, OpenOutage, AddSuccessInOutage,
       AddSuccess, CloseOutage

\* The invariant of the records, from each of them.
LEMMA RecordsNext ==
  ASSUME NEW m, m = Len(hist'),
         \A t \in Targets : \A r : r = st'[t] => RecordOf(r, t, m)'
  PROVE  HInv'
<1> SUFFICES ASSUME NEW t \in Targets PROVE RecordOf(st[t], t, Len(hist))'
  BY DEF HInv
<1> PICK r : r = st'[t]
  OBVIOUS
<1>1. RecordOf(r, t, m)'
  OBVIOUS
<1> QED BY <1>1
\* Nothing is different when nothing was told.
LEMMA SameHistory ==
  ASSUME hist' = hist
  PROVE  /\ \A t, i : /\ Failure(t, i)' <=> Failure(t, i)
                      /\ Probe(t, i)' <=> Probe(t, i)
                      /\ Ends(t, i)' <=> Ends(t, i)
         /\ \A t, a, b : /\ Unbroken(t, a, b)' <=> Unbroken(t, a, b)
                         /\ Failures(t, a, b)' = Failures(t, a, b)
                         /\ Probes(t, a, b)' = Probes(t, a, b)
         /\ \A t, a, o : /\ RunFrom(t, a, o)' <=> RunFrom(t, a, o)
                         /\ RunReaches(t, a, o)' <=> RunReaches(t, a, o)
                         /\ Opens(t, a, o)' <=> Opens(t, a, o)
         /\ \A n : SharedFault(n)' <=> SharedFault(n)
<1>1. \A t, i : /\ Failure(t, i)' <=> Failure(t, i)
                /\ Probe(t, i)' <=> Probe(t, i)
                /\ Ends(t, i)' <=> Ends(t, i)
                /\ Breaks(t, i)' <=> Breaks(t, i)
  BY DEF Failure, Probe, Ends, Breaks
<1>2. \A t, a, b : Unbroken(t, a, b)' <=> Unbroken(t, a, b)
  BY <1>1 DEF Unbroken
<1>3. \A t, a, b : Failures(t, a, b)' = Failures(t, a, b)
  BY <1>1 DEF Failures
<1>4. \A t, a, b : Probes(t, a, b)' = Probes(t, a, b)
  BY <1>1 DEF Probes
<1>5. \A t, a, o : RunFrom(t, a, o)' <=> RunFrom(t, a, o)
  BY <1>1, <1>2, <1>3 DEF RunFrom
<1>6. \A t, a, o : RunReaches(t, a, o)' <=> RunReaches(t, a, o)
  BY <1>1, <1>3, <1>5 DEF RunReaches
<1>7. \A t, a, o : Opens(t, a, o)' <=> Opens(t, a, o)
  BY <1>1, <1>3, <1>6 DEF Opens
<1>8. \A t, n : FailingAt(t, n)' <=> FailingAt(t, n)
  BY <1>1, <1>2, <1>3, <1>7 DEF FailingAt
<1>9. \A n : {u \in Targets : FailingAt(u, n)'} = {u \in Targets : FailingAt(u, n)}
  BY <1>8
<1>10. \A n : SharedFault(n)' <=> SharedFault(n)
  BY <1>9 DEF SharedFault
<1> QED BY <1>1, <1>2, <1>3, <1>4, <1>5, <1>6, <1>7, <1>10

\* Nor is a record.
LEMMA SameRecord ==
  ASSUME hist' = hist, NEW s, NEW t, NEW n
  PROVE  RecordOf(s, t, n)' <=> RecordOf(s, t, n)
<1>1. NoRun(t, n)' <=> NoRun(t, n)
  BY SameHistory DEF NoRun
<1>2. NoneReached(t, n)' <=> NoneReached(t, n)
  BY SameHistory DEF NoneReached
<1>3. \A a : Pending(s, t, a, n)' <=> Pending(s, t, a, n)
  BY SameHistory DEF Pending
<1>4. HealthyRecord(s, t, n)' <=> HealthyRecord(s, t, n)
  BY <1>1, <1>2, <1>3 DEF HealthyRecord
<1>5. \A a, o : StillOpen(t, a, o, n)' <=> StillOpen(t, a, o, n)
  BY SameHistory DEF StillOpen
<1>6. \A j : IsLastProbe(t, j, n)' <=> IsLastProbe(t, j, n)
  BY SameHistory DEF IsLastProbe
<1>7. \A a, o : Describes(s, t, a, o, n)' <=> Describes(s, t, a, o, n)
  BY <1>5, <1>6, SameHistory DEF Describes
<1> QED BY <1>4, <1>7 DEF RecordOf

\* Every step keeps the records true to the history.
LEMMA HStep == TypeOK /\ HInv /\ [Next]_vars => HInv'
<1> SUFFICES ASSUME TypeOK, HInv, [Next]_vars PROVE HInv'
  OBVIOUS
<1> PICK n \in Nat : n = Len(hist)
  BY DEF TypeOK
<1>1. st \in [Targets -> State] /\ \A u \in Targets : RecordOf(st[u], u, n) /\ st[u] \in State
  BY DEF TypeOK, State, HInv
<1>2. last_utc \in Nat /\ \A utc \in Stamps : utc \in Nat
  BY DetectorAssumption DEF TypeOK, Stamps
<1>3. ASSUME NEW t \in Targets, NEW failed \in BOOLEAN, NEW utc \in Stamps,
             Sample(t, failed, utc)
      PROVE  HInv'
  <2> PICK e : e = [kind |-> IF failed THEN "fail" ELSE "ok", target |-> t, utc |-> utc]
    OBVIOUS
  <2>1. Told(n, e)
    BY <1>2, <1>3, NoteTold DEF Sample
  <2>2. /\ e.kind \in {"ok", "fail"} /\ e.target = t /\ e.utc = utc
        /\ e.kind = "fail" <=> failed
    OBVIOUS
  <2>3. ASSUME NEW r, r = st'[t] PROVE RecordOf(r, t, n + 1)'
    <3>1. \/ /\ e.kind = "fail"
             /\ \/ AddFailureInOutage(st[t], t, e.utc)
                \/ AddFailureBelowThreshold(st[t], t, e.utc)
                \/ OpenOutage(st[t], t, e.utc)
          \/ /\ e.kind = "ok"
             /\ AddSuccessInOutage(st[t], t, e.utc) \/ AddSuccess(st[t], t, e.utc)
      BY <1>3, <2>2 DEF Sample
    <3> QED BY <1>1, <2>1, <2>2, <2>3, <3>1, SampledRecord
  <2>4. ASSUME NEW u \in Targets, u # t, NEW r, r = st'[u] PROVE RecordOf(r, u, n + 1)'
    <3>1. st'[u] = st[u]
      BY <1>1, <1>3, <2>4, SampleTouchesOne DEF Sample
    <3>2. ~Probe(u, n + 1)' /\ ~Breaks(u, n + 1)'
      BY <2>1, <2>2, <2>4, NewStep
    <3> QED BY <1>1, <2>1, <2>4, <3>1, <3>2, QuietRecord
  <2>5. Len(hist') = n + 1
    BY <2>1, Appended
  <2> QED BY <2>3, <2>4, <2>5, RecordsNext
<1>4. ASSUME NEW gap \in GapMs, NEW utc \in Stamps, Gap(gap, utc) PROVE HInv'
  <2> PICK e : e = [kind |-> "gap", target |-> Monitor, utc |-> utc]
    OBVIOUS
  <2>1. Told(n, e) /\ e.kind = "gap"
    BY <1>2, <1>4, NoteTold DEF Gap
  <2>2. ASSUME NEW u \in Targets, NEW r, r = st'[u] PROVE RecordOf(r, u, n + 1)'
    <3>1. r = ResetAfterGap(st[u])
      BY <1>4, <2>2 DEF Gap
    <3> QED BY <1>1, <2>1, <3>1, GapRecordRight
  <2>3. Len(hist') = n + 1
    BY <2>1, Appended
  <2> QED BY <2>2, <2>3, RecordsNext
<1>5. ASSUME NEW t \in Targets, FinalizeOutage(t) PROVE HInv'
  <2> PICK e : e = [kind |-> "stop", target |-> t, utc |-> last_utc]
    OBVIOUS
  <2>1. Told(n, e) /\ e.kind = "stop" /\ e.target = t
    BY <1>2, <1>5, NoteTold DEF FinalizeOutage
  <2>2. ASSUME NEW r, r = st'[t] PROVE RecordOf(r, t, n + 1)'
    <3>1. ~r.in_outage /\ r.consec = 0
      BY <1>1, <1>5, <2>2 DEF FinalizeOutage, CloseOutage, State
    <3> QED BY <2>1, <3>1, NewStep, EndedRecord
  <2>3. ASSUME NEW u \in Targets, u # t, NEW r, r = st'[u] PROVE RecordOf(r, u, n + 1)'
    <3>1. st'[u] = st[u]
      BY <1>1, <1>5, <2>3 DEF FinalizeOutage, CloseOutage
    <3>2. ~Probe(u, n + 1)' /\ ~Breaks(u, n + 1)'
      BY <2>1, <2>3, NewStep
    <3> QED BY <1>1, <2>1, <2>3, <3>1, <3>2, QuietRecord
  <2>4. Len(hist') = n + 1
    BY <2>1, Appended
  <2> QED BY <2>2, <2>3, <2>4, RecordsNext
<1>6. CASE Boot
  <2> PICK e : e = [kind |-> "boot", target |-> Monitor, utc |-> last_utc]
    OBVIOUS
  <2>1. Told(n, e) /\ e.kind = "boot"
    BY <1>2, <1>6, NoteTold DEF Boot
  <2>2. ASSUME NEW u \in Targets, NEW r, r = st'[u] PROVE RecordOf(r, u, n + 1)'
    <3>1. ~r.in_outage /\ r.consec = 0
      BY <1>6, <2>2 DEF Boot, Healthy
    <3> QED BY <2>1, <3>1, NewStep, EndedRecord
  <2>3. Len(hist') = n + 1
    BY <2>1, Appended
  <2> QED BY <2>2, <2>3, RecordsNext
<1>7. CASE UNCHANGED <<st, hist>>
  <2>1. ASSUME NEW u \in Targets, NEW r, r = st'[u] PROVE RecordOf(r, u, n)'
    BY <1>1, <1>7, <2>1, SameRecord
  <2> QED BY <1>7, <2>1, RecordsNext
<1> QED BY <1>3, <1>4, <1>5, <1>6, <1>7 DEF Next, Restart, KilledCreatingLog,
         Stop, Finalized, Exhausted, vars

\* At the start nothing was told and every target is healthy.
LEMMA HInit == Init => HInv
<1> SUFFICES ASSUME Init, NEW t \in Targets PROVE RecordOf(st[t], t, Len(hist))
  BY DEF HInv
<1>1. Len(hist) = 0 /\ ~st[t].in_outage /\ st[t].consec = 0
  BY DEF Init, Healthy
<1>2. Failures(t, 1, 0) = {}
  BY DEF Failures
<1>3. NoRun(t, 0) /\ NoneReached(t, 0)
  BY <1>2 DEF NoRun, NoneReached
<1> QED BY <1>1, <1>3 DEF RecordOf, HealthyRecord
-----------------------------------------------------------------------------
(* Assignments in order                                                         *)

\* An assignment in order grows by one index and one window that are later than
\* all the others.
LEMMA InOrderGrows ==
  ASSUME NEW I \in SUBSET Int, NEW W, NEW f \in InOrder(I, W),
         NEW k \in Int, \A i \in I : i < k, NEW w, \A v \in W : v[3] < w[3]
  PROVE  [i \in I \cup {k} |-> IF i = k THEN w ELSE f[i]] \in InOrder(I \cup {k}, W \cup {w})
<1> DEFINE g == [i \in I \cup {k} |-> IF i = k THEN w ELSE f[i]]
<1>1. /\ f \in [I -> W] /\ \A v \in W : \E i \in I : f[i] = v
      /\ \A i, j \in I : i < j => f[i][3] < f[j][3]
  BY DEF InOrder
<1>2. g[k] = w /\ \A i \in I : g[i] = f[i] /\ i # k
  OBVIOUS
<1>3. g \in [I \cup {k} -> W \cup {w}]
  BY <1>1
<1> HIDE DEF g
<1>4. \A v \in W \cup {w} : \E i \in I \cup {k} : g[i] = v
  BY <1>1, <1>2
<1>5. \A i, j \in I \cup {k} : i < j => g[i][3] < g[j][3]
  <2> SUFFICES ASSUME NEW i \in I \cup {k}, NEW j \in I \cup {k}, i < j
               PROVE  g[i][3] < g[j][3]
    OBVIOUS
  <2>1. i # k
    <3>1. j \in I => j < k
      OBVIOUS
    <3>2. i \in Int /\ j \in Int
      OBVIOUS
    <3> QED BY <3>1, <3>2
  <2>2. CASE j = k
    BY <1>1, <1>2, <2>1, <2>2
  <2>3. CASE j # k
    BY <1>1, <1>2, <2>1, <2>3
  <2> QED BY <2>2, <2>3
<1>6. g \in InOrder(I \cup {k}, W \cup {w})
  BY <1>3, <1>4, <1>5 DEF InOrder
<1> QED BY <1>6 DEF g
-----------------------------------------------------------------------------
(* The outages that opened, and those that are over, after one more step.       *)

\* The outage of a target that is not over is one at most, as a formula.
OutagesAreApart ==
  \A t : \A n \in Nat : \A a, o, b, p \in 1 .. n :
    StillOpen(t, a, o, n) /\ StillOpen(t, b, p, n) => a = b /\ o = p

LEMMA OneOutageAlways == OutagesAreApart
<1> SUFFICES ASSUME NEW t, NEW n \in Nat, NEW a \in 1 .. n, NEW o \in 1 .. n,
                    NEW b \in 1 .. n, NEW p \in 1 .. n,
                    StillOpen(t, a, o, n), StillOpen(t, b, p, n)
             PROVE  a = b /\ o = p
  BY DEF OutagesAreApart
<1> QED BY OneOutage DEF StillOpen

\* A step adds to the openings the one that happens at it.
LEMMA OpeningsNext ==
  ASSUME NEW n, NEW e, Told(n, e)
  PROVE  /\ Openings \subseteq Targets \X (1 .. n) \X (1 .. n)
         /\ Openings' = Openings \cup {x \in Targets \X (1 .. n + 1) \X {n + 1} :
                                         Opens(x[1], x[2], n + 1)'}
<1>1. n \in Nat /\ DOMAIN hist = 1 .. n /\ DOMAIN hist' = 1 .. n + 1
  BY Appended
<1>2. Openings' = {x \in Targets \X (1 .. n + 1) \X (1 .. n + 1) : Opens(x[1], x[2], x[3])'}
  <2>1. Len(hist)' = n + 1
    BY <1>1, Appended DEF Told, HInv, TypeOK
  <2>2. ASSUME NEW t \in Targets, NEW x
        PROVE  x \in OpeningsOf(t)' <=>
                 x \in {t} \X (1 .. n + 1) \X (1 .. n + 1) /\ Opens(t, x[2], x[3])'
    <3>1. \A a, o : Opens(t, a, o)' => Failure(t, a)' /\ Failure(t, o)'
      BY DEF Opens, RunReaches, RunFrom
    <3> QED BY <2>1, <3>1 DEF OpeningsOf, Failures
  <2> QED BY <2>2 DEF Openings
<1>3. Openings = {x \in Targets \X (1 .. n) \X (1 .. n) : Opens(x[1], x[2], x[3])}
  <2>1. Len(hist) = n
    BY <1>1, Appended DEF Told, HInv, TypeOK
  <2>2. ASSUME NEW t \in Targets, NEW x
        PROVE  x \in OpeningsOf(t) <=>
                 x \in {t} \X (1 .. n) \X (1 .. n) /\ Opens(t, x[2], x[3])
    <3>1. \A a, o : Opens(t, a, o) => Failure(t, a) /\ Failure(t, o)
      BY DEF Opens, RunReaches, RunFrom
    <3> QED BY <2>1, <3>1 DEF OpeningsOf, Failures
  <2> QED BY <2>2 DEF Openings
<1>4. \A t \in Targets, a \in 1 .. n + 1, o \in 1 .. n :
        Opens(t, a, o)' <=> a \in 1 .. n /\ Opens(t, a, o)
  <2> SUFFICES ASSUME NEW t \in Targets, NEW a \in 1 .. n + 1, NEW o \in 1 .. n
               PROVE  Opens(t, a, o)' <=> a \in 1 .. n /\ Opens(t, a, o)
    OBVIOUS
  <2>1. CASE a \in 1 .. n
    BY <2>1, SameOpens
  <2>2. CASE a = n + 1
    <3>1. Failures(t, a, o)' = {}
      BY <1>1, <2>2 DEF Failures
    <3>2. Cardinality(Failures(t, a, o)') = 0
      BY <3>1, FS_EmptySet
    <3> QED BY <1>1, <2>2, <3>2, DetectorAssumption DEF Opens, RunReaches
  <2> QED BY <1>1, <2>1, <2>2
<1> DEFINE New == {x \in Targets \X (1 .. n + 1) \X {n + 1} : Opens(x[1], x[2], n + 1)'}
<1>5. ASSUME NEW x \in Openings' PROVE x \in Openings \cup New
  <2>1. PICK t \in Targets, a \in 1 .. n + 1, o \in 1 .. n + 1 :
          x = <<t, a, o>> /\ Opens(t, a, o)'
    BY <1>2
  <2>2. CASE o = n + 1
    BY <2>1, <2>2
  <2>3. CASE o \in 1 .. n
    <3>1. a \in 1 .. n /\ Opens(t, a, o)
      BY <1>4, <2>1, <2>3
    <3> QED BY <1>3, <2>1, <2>3, <3>1
  <2> QED BY <1>1, <2>2, <2>3
<1>6. ASSUME NEW x \in Openings PROVE x \in Openings'
  <2>1. PICK t \in Targets, a \in 1 .. n, o \in 1 .. n : x = <<t, a, o>> /\ Opens(t, a, o)
    BY <1>3
  <2>2. Opens(t, a, o)' /\ a \in 1 .. n + 1 /\ o \in 1 .. n + 1
    BY <1>1, <1>4, <2>1
  <2> QED BY <1>2, <2>1, <2>2
<1>7. ASSUME NEW x \in New PROVE x \in Openings'
  <2>1. PICK t \in Targets, a \in 1 .. n + 1 : x = <<t, a, n + 1>> /\ Opens(t, a, n + 1)'
    OBVIOUS
  <2>2. n + 1 \in 1 .. n + 1
    BY <1>1
  <2> QED BY <1>2, <2>1, <2>2
<1> HIDE DEF New
<1>8. Openings' = Openings \cup New
  BY <1>5, <1>6, <1>7
<1> QED BY <1>3, <1>8 DEF New

\* The outage a record describes after the step opened before it, unless it opened
\* at the step.
LEMMA OpensNotAgain ==
  ASSUME NEW n, NEW e, Told(n, e), NEW t \in Targets, NEW r, RecordOf(r, t, n + 1)',
         \/ ~r.in_outage
         \/ \E a, o \in 1 .. n : StillOpen(t, a, o, n + 1)',
         NEW b \in 1 .. n + 1
  PROVE  ~Opens(t, b, n + 1)'
<1> SUFFICES ASSUME Opens(t, b, n + 1)' PROVE FALSE
  OBVIOUS
<1>1. n \in Nat
  BY Appended
<1>2. RunReaches(t, b, n + 1)' /\ Failure(t, n + 1)' /\ Failure(t, b)'
  BY DEF Opens, RunReaches, RunFrom
<1>3. ~Ends(t, n + 1)'
  BY <1>2 DEF Failure, Ends
<1>4. n + 1 \in Failures(t, 1, n + 1)' /\ b \in Failures(t, 1, n + 1)'
  BY <1>1, <1>2 DEF Failures
<1>5. CASE ~r.in_outage
  <2>1. \E i \in n + 1 .. n + 1 : Ends(t, i)'
    BY <1>2, <1>4, <1>5 DEF RecordOf, HealthyRecord, NoneReached
  <2> QED BY <1>1, <1>3, <2>1
<1>6. CASE \E a, o \in 1 .. n : StillOpen(t, a, o, n + 1)'
  <2>1. PICK a \in 1 .. n, o \in 1 .. n : StillOpen(t, a, o, n + 1)'
    BY <1>6
  <2>2. StillOpen(t, b, n + 1, n + 1)'
    BY <1>1, <1>3 DEF StillOpen
  <2>3. OutagesAreApart'
    BY OneOutageAlways, PTL
  <2>4. a \in 1 .. n + 1 /\ o \in 1 .. n + 1 /\ n + 1 \in 1 .. n + 1 /\ n + 1 \in Nat
    BY <1>1
  <2>5. o = n + 1
    BY <2>1, <2>2, <2>3, <2>4 DEF OutagesAreApart
  <2> QED BY <1>1, <2>5
<1> QED BY <1>5, <1>6

\* No trace is asked for and no outage opens.
LEMMA TraceKept ==
  ASSUME NEW n, NEW e, Told(n, e), OneTracePerOutage, requests' = requests,
         \A t \in Targets, a \in 1 .. n + 1 : ~Opens(t, a, n + 1)'
  PROVE  OneTracePerOutage'
<1>1. n \in Nat /\ \A i \in 1 .. n : hist'[i] = hist[i]
  BY Appended
<1>2. {x \in Targets \X (1 .. n + 1) \X {n + 1} : Opens(x[1], x[2], n + 1)'} = {}
  OBVIOUS
<1>3. Openings' = Openings /\ Openings \subseteq Targets \X (1 .. n) \X (1 .. n)
  BY <1>2, OpeningsNext
<1>4. CASE TriggerTraceroute
  <2>1. PICK f \in InOrder(DOMAIN requests, Openings) :
          \A i \in DOMAIN requests : requests[i] = <<hist[f[i][2]].utc, f[i][1]>>
    BY <1>4 DEF OneTracePerOutage
  <2>2. f \in InOrder(DOMAIN requests, Openings)'
    BY <1>3, <2>1 DEF InOrder
  <2>3. \A i \in DOMAIN requests : f[i] \in Openings
    BY <2>1 DEF InOrder
  <2>4. \A i \in DOMAIN requests : f[i][2] \in 1 .. n
    BY <1>3, <2>3
  <2>5. \A i \in DOMAIN requests : requests[i] = <<hist'[f[i][2]].utc, f[i][1]>>
    BY <1>1, <2>1, <2>4
  <2> QED BY <1>4, <2>2, <2>5 DEF OneTracePerOutage
<1>5. CASE ~TriggerTraceroute
  BY <1>5 DEF OneTracePerOutage
<1> QED BY <1>4, <1>5

\* One outage opens, and its trace is asked for.
LEMMA TraceAsked ==
  ASSUME NEW n, NEW e, Told(n, e), OneTracePerOutage, requests \in Seq(Nat \X Targets),
         NEW t \in Targets, NEW a \in 1 .. n + 1, Opens(t, a, n + 1)', e.target = t,
         requests' = IF TriggerTraceroute THEN Append(requests, <<hist'[a].utc, t>>)
                     ELSE requests,
         hist'[a].utc \in Nat
  PROVE  OneTracePerOutage'
<1>1. n \in Nat /\ \A i \in 1 .. n : hist'[i] = hist[i]
  BY Appended
<1> DEFINE w == <<t, a, n + 1>>
           k == Len(requests) + 1
<1>2. {x \in Targets \X (1 .. n + 1) \X {n + 1} : Opens(x[1], x[2], n + 1)'} = {w}
  <2>1. w \in Targets \X (1 .. n + 1) \X {n + 1}
    OBVIOUS
  <2>2. ASSUME NEW u \in Targets, NEW b \in 1 .. n + 1, Opens(u, b, n + 1)'
        PROVE  u = t /\ b = a
    <3>1. Failure(u, n + 1)' /\ RunFrom(u, b, n + 1)' /\ RunFrom(t, a, n + 1)'
      BY <2>2 DEF Opens, RunReaches
    <3>2. u = t
      BY <3>1, NewStep
    <3> QED BY <1>1, <3>1, <3>2, OneBeginningNext
  <2> QED BY <2>1, <2>2
<1>3. Openings' = Openings \cup {w} /\ Openings \subseteq Targets \X (1 .. n) \X (1 .. n)
  BY <1>2, OpeningsNext
<1>4. CASE TriggerTraceroute
  <2>1. PICK f \in InOrder(DOMAIN requests, Openings) :
          \A i \in DOMAIN requests : requests[i] = <<hist[f[i][2]].utc, f[i][1]>>
    BY <1>4 DEF OneTracePerOutage
  <2>2. /\ DOMAIN requests \in SUBSET Int /\ k \in Int /\ \A i \in DOMAIN requests : i < k
        /\ DOMAIN requests' = DOMAIN requests \cup {k}
        /\ requests'[k] = <<hist'[a].utc, t>>
        /\ \A i \in DOMAIN requests : requests'[i] = requests[i]
    <3>1. <<hist'[a].utc, t>> \in Nat \X Targets /\ requests' = Append(requests, <<hist'[a].utc, t>>)
      BY <1>4
    <3> QED BY <3>1
  <2>3. \A v \in Openings : v[3] < w[3]
    BY <1>1, <1>3
  <2> DEFINE g == [i \in DOMAIN requests \cup {k} |-> IF i = k THEN w ELSE f[i]]
  <2> HIDE DEF w, k
  <2>4. g \in InOrder(DOMAIN requests \cup {k}, Openings \cup {w})
    BY <2>1, <2>2, <2>3, InOrderGrows
  <2>5. g[k] = w /\ \A i \in DOMAIN requests : g[i] = f[i]
    BY <2>2
  <2>6. \A i \in DOMAIN requests : f[i] \in Openings
    BY <2>1 DEF InOrder
  <2>7. \A i \in DOMAIN requests : f[i][2] \in 1 .. n
    BY <1>3, <2>6
  <2> HIDE DEF g
  <2>8. ASSUME NEW i \in DOMAIN requests \cup {k}
        PROVE  requests'[i] = <<hist'[g[i][2]].utc, g[i][1]>>
    <3>1. CASE i = k
      BY <2>2, <2>5, <3>1 DEF w
    <3>2. CASE i \in DOMAIN requests
      BY <1>1, <2>1, <2>2, <2>5, <2>7, <3>2
    <3> QED BY <3>1, <3>2
  <2>9. \E h \in InOrder(DOMAIN requests', Openings') :
          \A i \in DOMAIN requests' : requests'[i] = <<hist'[h[i][2]].utc, h[i][1]>>
    BY <1>3, <2>2, <2>4, <2>8
  <2> QED BY <1>4, <2>9 DEF OneTracePerOutage, InOrder
<1>5. CASE ~TriggerTraceroute
  BY <1>5 DEF OneTracePerOutage
<1> QED BY <1>4, <1>5

\* A step that is not a failure opens nothing.
LEMMA NothingOpens ==
  ASSUME NEW n, NEW e, Told(n, e), NEW t, e.kind # "fail" \/ e.target # t,
         NEW a \in 1 .. n + 1
  PROVE  ~Opens(t, a, n + 1)'
BY NewStep DEF Opens, RunReaches

\* Nothing is asked for, and nothing is told.
LEMMA TraceSame ==
  ASSUME OneTracePerOutage, UNCHANGED <<hist, requests>>
  PROVE  OneTracePerOutage'
<1>1. Openings' = Openings
  BY SameHistory DEF Openings, OpeningsOf, Failures, Failure
<1> QED BY <1>1 DEF OneTracePerOutage, InOrder

\* A probe result asks for a trace when it opens an outage, and only then.
LEMMA SampleTrace ==
  ASSUME NEW n, NEW e, Told(n, e), NEW t \in Targets, st \in [Targets -> State],
         \A u \in Targets : RecordOf(st[u], u, n), e.target = t,
         requests \in Seq(Nat \X Targets), OneTracePerOutage,
         \/ /\ e.kind = "fail"
            /\ \/ AddFailureInOutage(st[t], t, e.utc)
               \/ AddFailureBelowThreshold(st[t], t, e.utc)
               \/ OpenOutage(st[t], t, e.utc)
         \/ /\ e.kind = "ok"
            /\ AddSuccessInOutage(st[t], t, e.utc) \/ AddSuccess(st[t], t, e.utc)
  PROVE  OneTracePerOutage'
<1>1. n \in Nat /\ st[t] \in State /\ RecordOf(st[t], t, n)
  BY Appended
<1> PICK s \in State : s = st[t]
  BY <1>1
<1> PICK r : r = st'[t]
  OBVIOUS
<1>2. RecordOf(r, t, n + 1)'
  BY SampledRecord
<1>3. \A u \in Targets, a \in 1 .. n + 1 : u # t => ~Opens(u, a, n + 1)'
  BY NothingOpens
<1>4. CASE e.kind = "fail" /\ AddFailureInOutage(st[t], t, e.utc)
  <2>1. s.in_outage /\ requests' = requests
    BY <1>4 DEF AddFailureInOutage
  <2>2. PICK a, o \in 1 .. n : StillOpen(t, a, o, n)
    BY <1>1, <2>1 DEF RecordOf, Describes
  <2>3. ~Ends(t, n + 1)'
    BY <1>4, NewStep
  <2>4. StillOpen(t, a, o, n + 1)'
    BY <2>2, <2>3, StillOpenKept
  <2>5. \A b \in 1 .. n + 1 : ~Opens(t, b, n + 1)'
    BY <1>2, <2>4, OpensNotAgain
  <2> QED BY <1>3, <2>1, <2>5, TraceKept
<1>5. CASE e.kind = "fail" /\ AddFailureBelowThreshold(st[t], t, e.utc)
  <2>1. requests' = requests
    BY <1>5 DEF AddFailureBelowThreshold
  <2>2. /\ r = [s EXCEPT !.last_utc = e.utc, !.cand_start = CandStart(s, e.utc),
                         !.consec = s.consec + 1]
        /\ ~s.in_outage
    BY <1>5 DEF AddFailureBelowThreshold
  <2>3. ~r.in_outage
    BY <2>2 DEF State
  <2>4. \A b \in 1 .. n + 1 : ~Opens(t, b, n + 1)'
    BY <1>2, <2>3, OpensNotAgain
  <2> QED BY <1>3, <2>1, <2>4, TraceKept
<1>6. CASE e.kind = "fail" /\ OpenOutage(st[t], t, e.utc)
  <2>1. ~s.in_outage /\ s.consec + 1 >= FailThreshold
    BY <1>6 DEF OpenOutage
  <2>2. PICK a \in 1 .. n + 1 : Opens(t, a, n + 1)' /\ hist'[a].utc = CandStart(s, e.utc)
    BY <1>1, <1>6, <2>1, OpensRight
  <2>3. requests' = IF TriggerTraceroute THEN Append(requests, <<hist'[a].utc, t>>)
                    ELSE requests
    BY <1>6, <2>2 DEF OpenOutage
  <2>4. hist'[a].utc \in Nat
    BY <1>1, Appended DEF HistEntry
  <2> QED BY <2>2, <2>3, <2>4, TraceAsked
<1>7. CASE e.kind = "ok"
  <2>1. requests' = requests
    BY <1>7 DEF AddSuccessInOutage, AddSuccess
  <2>2. \A u \in Targets, a \in 1 .. n + 1 : ~Opens(u, a, n + 1)'
    BY <1>7, NothingOpens
  <2> QED BY <2>1, <2>2, TraceKept
<1> QED BY <1>4, <1>5, <1>6, <1>7

\* Every step keeps the traces and the outages together.
LEMMA TraceStep == TypeOK /\ HInv /\ OneTracePerOutage /\ [Next]_vars => OneTracePerOutage'
<1> SUFFICES ASSUME TypeOK, HInv, OneTracePerOutage, [Next]_vars PROVE OneTracePerOutage'
  OBVIOUS
<1> PICK n \in Nat : n = Len(hist)
  BY DEF TypeOK
<1>1. /\ st \in [Targets -> State] /\ \A u \in Targets : RecordOf(st[u], u, n)
      /\ requests \in Seq(Nat \X Targets)
  BY DEF TypeOK, State, HInv
<1>2. last_utc \in Nat /\ \A utc \in Stamps : utc \in Nat
  BY DetectorAssumption DEF TypeOK, Stamps
<1>3. ASSUME NEW t \in Targets, NEW failed \in BOOLEAN, NEW utc \in Stamps,
             Sample(t, failed, utc)
      PROVE  OneTracePerOutage'
  <2> PICK e : e = [kind |-> IF failed THEN "fail" ELSE "ok", target |-> t, utc |-> utc]
    OBVIOUS
  <2>1. Told(n, e)
    BY <1>2, <1>3, NoteTold DEF Sample
  <2>2. /\ e.target = t
        /\ \/ /\ e.kind = "fail"
              /\ \/ AddFailureInOutage(st[t], t, e.utc)
                 \/ AddFailureBelowThreshold(st[t], t, e.utc)
                 \/ OpenOutage(st[t], t, e.utc)
           \/ /\ e.kind = "ok"
              /\ AddSuccessInOutage(st[t], t, e.utc) \/ AddSuccess(st[t], t, e.utc)
    BY <1>3 DEF Sample
  <2> QED BY <1>1, <2>1, <2>2, SampleTrace
<1>4. ASSUME NEW e, e.kind # "fail", Told(n, e), requests' = requests
      PROVE  OneTracePerOutage'
  <2>1. \A u \in Targets, a \in 1 .. n + 1 : ~Opens(u, a, n + 1)'
    BY <1>4, NothingOpens
  <2> QED BY <1>4, <2>1, TraceKept
<1>5. ASSUME NEW gap \in GapMs, NEW utc \in Stamps, Gap(gap, utc) PROVE OneTracePerOutage'
  <2> PICK e : e = [kind |-> "gap", target |-> Monitor, utc |-> utc]
    OBVIOUS
  <2>1. Told(n, e) /\ e.kind # "fail" /\ requests' = requests
    BY <1>2, <1>5, NoteTold DEF Gap
  <2> QED BY <1>4, <2>1
<1>6. ASSUME NEW t \in Targets, FinalizeOutage(t) PROVE OneTracePerOutage'
  <2> PICK e : e = [kind |-> "stop", target |-> t, utc |-> last_utc]
    OBVIOUS
  <2>1. Told(n, e) /\ e.kind # "fail" /\ requests' = requests
    BY <1>2, <1>6, NoteTold DEF FinalizeOutage
  <2> QED BY <1>4, <2>1
<1>7. CASE Boot
  <2> PICK e : e = [kind |-> "boot", target |-> Monitor, utc |-> last_utc]
    OBVIOUS
  <2>1. Told(n, e) /\ e.kind # "fail" /\ requests' = requests
    BY <1>2, <1>7, NoteTold DEF Boot
  <2> QED BY <1>4, <2>1
<1>8. CASE UNCHANGED <<hist, requests>>
  BY <1>8, TraceSame
<1> QED BY <1>3, <1>5, <1>6, <1>7, <1>8 DEF Next, Restart, KilledCreatingLog,
         Stop, Finalized, Exhausted, vars

\* A trace is asked for once for every outage that opens, when it opens and with
\* its start, and for nothing else, whatever the samples, gaps, shutdowns and
\* crashes (events.cpp:91-110).
THEOREM TracesMatchOutages == Spec => []OneTracePerOutage
<1>1. Init => TypeOK /\ HInv /\ OneTracePerOutage
  <2>1. Init => OneTracePerOutage
    <3> SUFFICES ASSUME Init PROVE OneTracePerOutage
      OBVIOUS
    <3>1. DOMAIN requests = {} /\ DOMAIN hist = {} /\ requests = << >>
      BY DEF Init
    <3>2. Openings = {}
      <4>1. \A t \in Targets : Failures(t, 1, Len(hist)) = {}
        BY DEF Failures, Init
      <4> QED BY <4>1 DEF Openings, OpeningsOf
    <3>3. [i \in {} |-> 0] \in InOrder({}, {})
      BY DEF InOrder
    <3> QED BY <3>1, <3>2, <3>3 DEF OneTracePerOutage
  <2> QED BY <2>1, InitType, HInit
<1>2. TypeOK /\ HInv /\ OneTracePerOutage /\ [Next]_vars
        => (TypeOK /\ HInv /\ OneTracePerOutage)'
  BY TypeStep, HStep, TraceStep
<1> QED BY <1>1, <1>2, PTL DEF Spec
-----------------------------------------------------------------------------
(* The rows of events.csv                                                       *)

\* a, o and c are the steps of an outage of t that is over.
IsClosed(t, a, o, c, n) ==
  /\ a \in 1 .. n /\ o \in 1 .. n /\ c \in 1 .. n
  /\ a <= o /\ o < c
  /\ \A i \in o .. c - 1 : ~Ends(t, i)
  /\ Ends(t, c)
  /\ Opens(t, a, o)

\* The outages that are over, one by one.
LEMMA ClosedIs ==
  ASSUME NEW n \in Nat, hist \in Seq(HistEntry), n = Len(hist), NEW t
  PROVE  /\ Closed(t) \subseteq (1 .. n) \X (1 .. n) \X (1 .. n)
         /\ \A a, o, c \in 1 .. n : <<a, o, c>> \in Closed(t) <=> IsClosed(t, a, o, c, n)
<1>1. Steps = 1 .. n
  BY DEF Steps
<1>2. Failures(t, 1, n) \subseteq 1 .. n
  BY DEF Failures
<1>3. Closed(t) \subseteq (1 .. n) \X (1 .. n) \X (1 .. n)
  BY <1>1, <1>2 DEF Closed
<1>4. ASSUME NEW a \in 1 .. n, NEW o \in 1 .. n, NEW c \in 1 .. n
      PROVE  <<a, o, c>> \in Closed(t) <=> IsClosed(t, a, o, c, n)
  <2>1. Opens(t, a, o) => a \in Failures(t, 1, n) /\ o \in Failures(t, 1, n)
    BY DEF Opens, RunReaches, RunFrom, Failures
  <2>2. Ends(t, c) <=> c \in {i \in Steps : Ends(t, i)}
    BY <1>1
  <2> QED BY <2>1, <2>2 DEF Closed, IsClosed
<1> QED BY <1>3, <1>4

\* The same as a formula, for the next state.
ClosedOnes(n) ==
  hist \in Seq(HistEntry) /\ n = Len(hist) =>
    \A t : /\ Closed(t) \subseteq (1 .. n) \X (1 .. n) \X (1 .. n)
           /\ \A a, o, c \in 1 .. n : <<a, o, c>> \in Closed(t) <=> IsClosed(t, a, o, c, n)

ClosedAlways == \A n \in Nat : ClosedOnes(n)

LEMMA ClosedIsAlways == ClosedAlways
BY ClosedIs DEF ClosedAlways, ClosedOnes

LEMMA ClosedIsNext ==
  ASSUME NEW n, NEW e, Told(n, e), NEW t
  PROVE  /\ Closed(t)' \subseteq (1 .. n + 1) \X (1 .. n + 1) \X (1 .. n + 1)
         /\ \A a, o, c \in 1 .. n + 1 :
              <<a, o, c>> \in Closed(t)' <=> IsClosed(t, a, o, c, n + 1)'
<1>1. ClosedAlways'
  BY ClosedIsAlways, PTL
<1>2. n + 1 \in Nat /\ hist' \in Seq(HistEntry) /\ n + 1 = Len(hist')
  BY DEF Told
<1> QED BY <1>1, <1>2 DEF ClosedAlways, ClosedOnes

\* A step adds to them the outage that it ends.
LEMMA ClosedGrows ==
  ASSUME NEW n, NEW e, Told(n, e), NEW t
  PROVE  /\ Closed(t) \subseteq (1 .. n) \X (1 .. n) \X (1 .. n)
         /\ Closed(t)' = Closed(t) \cup {w \in (1 .. n) \X (1 .. n) \X {n + 1} :
                                          Ends(t, n + 1)' /\ StillOpen(t, w[1], w[2], n)}
<1>1. n \in Nat /\ hist \in Seq(HistEntry) /\ n = Len(hist)
  BY DEF Told
<1>2. /\ Closed(t) \subseteq (1 .. n) \X (1 .. n) \X (1 .. n)
      /\ \A a, o, c \in 1 .. n : <<a, o, c>> \in Closed(t) <=> IsClosed(t, a, o, c, n)
  BY <1>1, ClosedIs
<1>3. /\ Closed(t)' \subseteq (1 .. n + 1) \X (1 .. n + 1) \X (1 .. n + 1)
      /\ \A a, o, c \in 1 .. n + 1 :
           <<a, o, c>> \in Closed(t)' <=> IsClosed(t, a, o, c, n + 1)'
  BY ClosedIsNext
<1>4. ASSUME NEW a \in 1 .. n, NEW o \in 1 .. n, NEW c \in 1 .. n
      PROVE  IsClosed(t, a, o, c, n + 1)' <=> IsClosed(t, a, o, c, n)
  <2>1. Opens(t, a, o)' <=> Opens(t, a, o)
    BY SameOpens
  <2>2. \A i \in o .. c : Ends(t, i)' <=> Ends(t, i)
    BY <1>1, SameSteps
  <2>3. a \in 1 .. n + 1 /\ o \in 1 .. n + 1 /\ c \in 1 .. n + 1
    BY <1>1
  <2>4. (\A i \in o .. c - 1 : ~Ends(t, i)') <=> (\A i \in o .. c - 1 : ~Ends(t, i))
    BY <1>1, <2>2
  <2>5. Ends(t, c)' <=> Ends(t, c)
    BY SameSteps
  <2> QED BY <2>1, <2>3, <2>4, <2>5 DEF IsClosed
<1>5. ASSUME NEW a \in 1 .. n, NEW o \in 1 .. n
      PROVE  IsClosed(t, a, o, n + 1, n + 1)' <=> Ends(t, n + 1)' /\ StillOpen(t, a, o, n)
  <2>1. Opens(t, a, o)' <=> Opens(t, a, o)
    BY SameOpens
  <2>2. \A i \in o .. n : Ends(t, i)' <=> Ends(t, i)
    BY <1>1, SameSteps
  <2>3. a \in 1 .. n + 1 /\ o \in 1 .. n + 1 /\ n + 1 \in 1 .. n + 1 /\ (n + 1) - 1 = n
        /\ o < n + 1
    BY <1>1
  <2>4. (\A i \in o .. n : ~Ends(t, i)') <=> (\A i \in o .. n : ~Ends(t, i))
    BY <2>2
  <2>5. a <= o <=> o \in a .. n
    BY <1>1
  <2> QED BY <2>1, <2>3, <2>4, <2>5 DEF IsClosed, StillOpen
<1>6. ASSUME NEW a \in 1 .. n + 1, NEW o \in 1 .. n + 1, NEW c \in 1 .. n + 1,
             IsClosed(t, a, o, c, n + 1)'
      PROVE  a \in 1 .. n /\ o \in 1 .. n
  BY <1>1, <1>6 DEF IsClosed
<1> DEFINE New == {w \in (1 .. n) \X (1 .. n) \X {n + 1} :
                     Ends(t, n + 1)' /\ StillOpen(t, w[1], w[2], n)}
<1>7. ASSUME NEW w \in Closed(t)' PROVE w \in Closed(t) \cup New
  <2>1. PICK a \in 1 .. n + 1, o \in 1 .. n + 1, c \in 1 .. n + 1 : w = <<a, o, c>>
    BY <1>3
  <2>2. IsClosed(t, a, o, c, n + 1)' /\ a \in 1 .. n /\ o \in 1 .. n
    BY <1>3, <1>6, <2>1
  <2>3. CASE c \in 1 .. n
    BY <1>2, <1>4, <2>1, <2>2, <2>3
  <2>4. CASE c = n + 1
    <3>1. Ends(t, n + 1)' /\ StillOpen(t, a, o, n)
      BY <1>5, <2>2, <2>4
    <3> QED BY <2>1, <2>2, <2>4, <3>1
  <2> QED BY <1>1, <2>3, <2>4
<1>8. ASSUME NEW w \in Closed(t) PROVE w \in Closed(t)'
  <2>1. PICK a \in 1 .. n, o \in 1 .. n, c \in 1 .. n : w = <<a, o, c>>
    BY <1>2
  <2>2. a \in 1 .. n + 1 /\ o \in 1 .. n + 1 /\ c \in 1 .. n + 1
    BY <1>1
  <2> QED BY <1>2, <1>3, <1>4, <2>1, <2>2
<1>9. ASSUME NEW w \in New PROVE w \in Closed(t)'
  <2>1. PICK a \in 1 .. n, o \in 1 .. n :
          w = <<a, o, n + 1>> /\ Ends(t, n + 1)' /\ StillOpen(t, a, o, n)
    OBVIOUS
  <2>2. a \in 1 .. n + 1 /\ o \in 1 .. n + 1 /\ n + 1 \in 1 .. n + 1
    BY <1>1
  <2> QED BY <1>3, <1>5, <2>1, <2>2
<1> HIDE DEF New
<1>10. Closed(t)' = Closed(t) \cup New
  BY <1>7, <1>8, <1>9
<1> QED BY <1>2, <1>10 DEF New

\* An outage that is over had a last probe.
LEMMA HasLastProbe ==
  ASSUME NEW n \in Nat, NEW t, NEW o \in 1 .. n, NEW c \in 1 .. n, o < c, Failure(t, o)
  PROVE  \E j \in o .. c : IsLastProbe(t, j, c)
<1> DEFINE P == {i \in o .. c : Probe(t, i)}
<1>1. o \in P
  BY DEF Failure, Probe
<1>2. P \subseteq Int /\ \A i \in P : i <= c
  OBVIOUS
<1>0. P # {} /\ c \in Int
  BY <1>1
<1> HIDE DEF P
<1>3. PICK j \in P : \A i \in P : i <= j
  BY <1>0, <1>2, GreatestInt
<1>4. j \in o .. c /\ Probe(t, j) /\ \A i \in o .. c : Probe(t, i) => i <= j
  BY <1>3 DEF P
<1>5. IsLastProbe(t, j, c)
  BY <1>4 DEF IsLastProbe
<1> QED BY <1>4, <1>5

\* And its end is told by that probe and by the step that ended it.
LEMMA EndOfIs ==
  ASSUME NEW n \in Nat, NEW t, NEW w \in (1 .. n) \X (1 .. n) \X (1 .. n),
         NEW j \in w[2] .. w[3], IsLastProbe(t, j, w[3])
  PROVE  EndOf(t, w) = IF hist[w[3]].kind = "ok" THEN hist[w[3]].utc
                       ELSE IF hist[j].utc > hist[w[3]].utc THEN hist[j].utc
                            ELSE hist[w[3]].utc
<1>1. \A i \in w[2] .. w[3] :
        (Probe(t, i) /\ \A k \in i + 1 .. w[3] : ~Probe(t, k)) <=> i = j
  BY DEF IsLastProbe
<1>2. LastProbe(t, w) = j
  BY <1>1 DEF LastProbe
<1> QED BY <1>2 DEF EndOf

\* An outage that is over is never reported differently.
LEMMA SameRow ==
  ASSUME NEW n, NEW e, Told(n, e), NEW t, NEW w \in Closed(t)
  PROVE  /\ EndOf(t, w)' = EndOf(t, w)
         /\ RowOf(t, w)' = RowOf(t, w)
         /\ hist'[w[1]] = hist[w[1]] /\ hist'[w[3]] = hist[w[3]]
<1>1. n \in Nat /\ hist \in Seq(HistEntry) /\ n = Len(hist)
      /\ \A i \in 1 .. n : hist'[i] = hist[i]
  BY Appended DEF Told
<1>2. PICK a \in 1 .. n, o \in 1 .. n, c \in 1 .. n : w = <<a, o, c>>
  BY ClosedGrows
<1>3. IsClosed(t, a, o, c, n)
  BY <1>1, <1>2, ClosedIs
<1>4. o < c /\ a <= o /\ Failure(t, o)
  BY <1>3 DEF IsClosed, Opens, RunReaches
<1>5. PICK j \in o .. c : IsLastProbe(t, j, c)
  BY <1>1, <1>4, HasLastProbe
<1>6. \A i \in o .. c : /\ i \in 1 .. n /\ \A k \in i + 1 .. c : k \in 1 .. n
  BY <1>1
<1>7. \A i \in o .. c :
        (Probe(t, i)' /\ \A k \in i + 1 .. c : ~Probe(t, k)') <=> i = j
  <2>1. \A i \in o .. c : /\ Probe(t, i)' <=> Probe(t, i)
                          /\ \A k \in i + 1 .. c : Probe(t, k)' <=> Probe(t, k)
    BY <1>6, SameSteps
  <2> QED BY <1>5, <2>1 DEF IsLastProbe
<1>8. LastProbe(t, w)' = j
  BY <1>2, <1>7 DEF LastProbe
<1>9. hist'[a] = hist[a] /\ hist'[c] = hist[c] /\ hist'[j] = hist[j]
  BY <1>1, <1>6
<1>10. EndOf(t, w)' = EndOf(t, w)
  <2>1. EndOf(t, w) = IF hist[c].kind = "ok" THEN hist[c].utc
                      ELSE IF hist[j].utc > hist[c].utc THEN hist[j].utc ELSE hist[c].utc
    BY <1>1, <1>2, <1>5, EndOfIs
  <2>2. EndOf(t, w)' = IF hist'[c].kind = "ok" THEN hist'[c].utc
                       ELSE IF hist'[j].utc > hist'[c].utc THEN hist'[j].utc
                            ELSE hist'[c].utc
    BY <1>2, <1>8 DEF EndOf
  <2> QED BY <1>9, <2>1, <2>2
<1>11. /\ Probes(t, a, c)' = Probes(t, a, c) /\ Failures(t, a, c)' = Failures(t, a, c)
       /\ SharedFault(o)' <=> SharedFault(o)
  BY <1>1, SameWindows, SameFault
<1>12. RowOf(t, w)' = RowOf(t, w)
  BY <1>2, <1>9, <1>10, <1>11 DEF RowOf
<1> QED BY <1>2, <1>9, <1>10, <1>12

\* So it stays reported, or not.
LEMMA SameReported ==
  ASSUME NEW n, NEW e, Told(n, e), NEW t
  PROVE  /\ Reported(t) \subseteq Closed(t)
         /\ Reported(t)' = Reported(t) \cup {w \in Closed(t)' \ Closed(t) : w \in Reported(t)'}
<1>1. Closed(t) \subseteq Closed(t)'
  BY ClosedGrows
<1>2. \A w \in Closed(t) : w \in Reported(t)' <=> w \in Reported(t)
  BY <1>1, SameRow DEF Reported
<1>3. Reported(t) \subseteq Closed(t) /\ Reported(t)' \subseteq Closed(t)'
  BY DEF Reported
<1> QED BY <1>1, <1>2, <1>3

\* The rows of t are the outages f assigns to them.
RowsSay(t, f) == \A i \in OwnRows(t) : WithoutId(events[i]) = RowOf(t, f[i])
Matches(t) == \E f \in InOrder(OwnRows(t), Reported(t)) : RowsSay(t, f)

\* No row of t is added and no outage of t is reported.
LEMMA MatchKept ==
  ASSUME NEW n, NEW e, Told(n, e), NEW t, Matches(t),
         OwnRows(t)' = OwnRows(t), \A i \in OwnRows(t) : events'[i] = events[i],
         Reported(t)' = Reported(t)
  PROVE  Matches(t)'
<1>1. PICK f \in InOrder(OwnRows(t), Reported(t)) : RowsSay(t, f)
  BY DEF Matches
<1>2. f \in InOrder(OwnRows(t), Reported(t))'
  BY <1>1 DEF InOrder
<1>3. \A i \in OwnRows(t) : f[i] \in Closed(t)
  BY <1>1, SameReported DEF InOrder
<1>4. \A i \in OwnRows(t) : WithoutId(events'[i]) = RowOf(t, f[i])'
  <2> SUFFICES ASSUME NEW i \in OwnRows(t) PROVE WithoutId(events'[i]) = RowOf(t, f[i])'
    OBVIOUS
  <2>1. PICK w \in Closed(t) : w = f[i]
    BY <1>3
  <2>2. RowOf(t, w)' = RowOf(t, w)
    BY SameRow
  <2> QED BY <1>1, <2>1, <2>2 DEF RowsSay
<1>5. RowsSay(t, f)'
  BY <1>4 DEF RowsSay, WithoutId
<1> QED BY <1>2, <1>5 DEF Matches

\* A row of t is added for an outage that is reported.
LEMMA MatchGrows ==
  ASSUME NEW n, NEW e, Told(n, e), NEW t, Matches(t),
         events \in Seq(OutageRow \cup GapRow), NEW row \in OutageRow, row.target_id = t,
         events' = Append(events, row),
         NEW w, w \notin Closed(t), w[3] = n + 1, Reported(t)' = Reported(t) \cup {w},
         WithoutId(row) = RowOf(t, w)'
  PROVE  Matches(t)'
<1> DEFINE k == Len(events) + 1
           R == OutageRow \cup GapRow
<1>1. n \in Nat
  BY Appended
<1>2. /\ k \in Int /\ OwnRows(t) \in SUBSET Int
      /\ \A i \in OwnRows(t) : i < k /\ events'[i] = events[i]
      /\ events'[k] = row
      /\ OwnRows(t)' = OwnRows(t) \cup {k}
  <2>1. events \in Seq(R) /\ row \in R
    OBVIOUS
  <2> HIDE DEF R
  <2>2. /\ k \in Int /\ DOMAIN events = 1 .. k - 1 /\ DOMAIN events' = 1 .. k
        /\ events'[k] = row /\ \A i \in DOMAIN events : events'[i] = events[i]
    BY <2>1
  <2>3. OwnRows(t) \subseteq DOMAIN events
    BY DEF OwnRows
  <2>4. OwnRows(t)' = OwnRows(t) \cup {k}
    BY <2>2 DEF OwnRows
  <2> QED BY <2>2, <2>3, <2>4
<1>3. PICK f \in InOrder(OwnRows(t), Reported(t)) : RowsSay(t, f)
  BY DEF Matches
<1>4. Reported(t) \subseteq Closed(t) /\ Closed(t) \subseteq (1 .. n) \X (1 .. n) \X (1 .. n)
  BY SameReported, ClosedGrows
<1>5. \A v \in Reported(t) : v[3] < w[3]
  BY <1>1, <1>4
<1> HIDE DEF k
<1> DEFINE g == [i \in OwnRows(t) \cup {k} |-> IF i = k THEN w ELSE f[i]]
<1>6. g \in InOrder(OwnRows(t) \cup {k}, Reported(t) \cup {w})
  <2>1. \A i \in OwnRows(t) : i < k
    BY <1>2
  <2>2. k \in Int /\ OwnRows(t) \in SUBSET Int
    BY <1>2
  <2>3. f \in InOrder(OwnRows(t), Reported(t))
    BY <1>3
  <2> QED BY ONLY <2>1, <2>2, <2>3, <1>5, InOrderGrows
<1>7. g[k] = w /\ \A i \in OwnRows(t) : g[i] = f[i] /\ i # k
  BY <1>2
<1>8. \A i \in OwnRows(t) : f[i] \in Closed(t)
  BY <1>3, <1>4 DEF InOrder
<1> PICK h : h = g
  OBVIOUS
<1> HIDE DEF g
<1>9. \A i \in OwnRows(t) \cup {k} : WithoutId(events'[i]) = RowOf(t, h[i])'
  <2> SUFFICES ASSUME NEW i \in OwnRows(t) \cup {k}
               PROVE  WithoutId(events'[i]) = RowOf(t, h[i])'
    OBVIOUS
  <2>1. CASE i = k
    BY <1>2, <1>7, <2>1
  <2>2. CASE i \in OwnRows(t)
    <3>1. PICK v \in Closed(t) : v = f[i]
      BY <1>8, <2>2
    <3>2. RowOf(t, v)' = RowOf(t, v) /\ h[i] = v
      BY <1>7, <2>2, <3>1, SameRow
    <3>3. WithoutId(events[i]) = RowOf(t, v)
      BY <1>3, <2>2, <3>1 DEF RowsSay
    <3> QED BY <1>2, <2>2, <3>2, <3>3
  <2> QED BY <2>1, <2>2
<1>10. RowsSay(t, h)'
  BY <1>2, <1>9 DEF RowsSay, WithoutId
<1>11. h \in InOrder(OwnRows(t), Reported(t))'
  BY <1>2, <1>6 DEF InOrder
<1> QED BY <1>10, <1>11 DEF Matches

\* A row loses its id.
LEMMA WithoutIdIs ==
  ASSUME NEW id, NEW t, NEW a, NEW b, NEW sent, NEW lost, NEW type, NEW ref
  PROVE  WithoutId([event_id |-> id, target_id |-> t, start_utc |-> a, end_utc |-> b,
                    sent |-> sent, lost |-> lost, type |-> type, trace_ref |-> ref])
         = [target_id |-> t, start_utc |-> a, end_utc |-> b,
            sent |-> sent, lost |-> lost, type |-> type, trace_ref |-> ref]
BY DEF WithoutId

\* A step that ends nothing, or ends nothing of t, reports nothing of t.
LEMMA NothingReported ==
  ASSUME NEW n, NEW e, Told(n, e), NEW t \in Targets, NEW s, RecordOf(s, t, n),
         ~Ends(t, n + 1)' \/ ~s.in_outage \/ e.kind = "boot"
  PROVE  Reported(t)' = Reported(t)
<1>1. n \in Nat /\ hist'[n + 1] = e
  BY Appended
<1>2. \A w \in Closed(t)' \ Closed(t) : w \notin Reported(t)'
  <2> SUFFICES ASSUME NEW w \in Closed(t)' \ Closed(t), w \in Reported(t)' PROVE FALSE
    OBVIOUS
  <2>1. PICK a \in 1 .. n, o \in 1 .. n :
          w = <<a, o, n + 1>> /\ Ends(t, n + 1)' /\ StillOpen(t, a, o, n)
    BY ClosedGrows
  <2>2. CASE ~s.in_outage
    <3>1. RunReaches(t, a, o) /\ Failure(t, o) /\ Failure(t, a) /\ a <= o
      BY <2>1 DEF StillOpen, Opens, RunReaches, RunFrom
    <3>2. o \in Failures(t, 1, n) /\ a \in Failures(t, 1, o)
      BY <1>1, <3>1 DEF Failures
    <3>3. \E i \in o .. n : Ends(t, i)
      BY <2>2, <3>1, <3>2 DEF RecordOf, HealthyRecord, NoneReached
    <3> QED BY <2>1, <3>3 DEF StillOpen
  <2>3. CASE e.kind = "boot"
    BY <1>1, <2>1, <2>3 DEF Reported
  <2> QED BY <2>1, <2>2, <2>3
<1> QED BY <1>2, SameReported

\* The step n + 1 ends the outage w of t, which deserves the row that its record s
\* makes of it, with sent probes and the end given.
EndsOutage(n, t, s, sent, end, w) ==
  /\ w \notin Closed(t) /\ w[3] = n + 1
  /\ Closed(t)' = Closed(t) \cup {w}
  /\ hist'[w[1]].utc = s.start /\ EndOf(t, w)' = end
  /\ RowOf(t, w)' = [target_id |-> t, start_utc |-> s.start, end_utc |-> end,
                     sent |-> sent, lost |-> s.lost, type |-> s.type,
                     trace_ref |-> s.trace_ref]

\* The end of an outage, as its record sees it, is the end of one in the history.
LEMMA ClosesRight ==
  ASSUME NEW n, NEW e, Told(n, e), NEW t \in Targets, NEW s \in State, RecordOf(s, t, n),
         s.in_outage, e.target = t,
         NEW sent, NEW end,
         \/ e.kind = "ok" /\ sent = s.sent + 1 /\ end = e.utc
         \/ /\ e.kind = "stop" /\ sent = s.sent
            /\ end = IF e.utc > s.last_utc THEN e.utc ELSE s.last_utc
  PROVE  \E w : EndsOutage(n, t, s, sent, end, w)
<1>1. n \in Nat /\ hist'[n + 1] = e /\ e.utc \in Nat /\ s.last_utc \in Nat
  BY Appended DEF HistEntry, State
<1>2. PICK a, o \in 1 .. n : Describes(s, t, a, o, n)
  BY DEF RecordOf
<1>3. StillOpen(t, a, o, n) /\ o \in a .. n
  BY <1>2 DEF Describes, StillOpen
<1> DEFINE w == <<a, o, n + 1>>
<1>4. Ends(t, n + 1)' /\ ~Failure(t, n + 1)' /\ (Probe(t, n + 1)' <=> e.kind = "ok")
  BY NewStep
<1>5. w \notin Closed(t) /\ w[3] = n + 1
  BY <1>1, ClosedGrows
<1>6. Closed(t)' = Closed(t) \cup {w}
  <2>1. {v \in (1 .. n) \X (1 .. n) \X {n + 1} :
           Ends(t, n + 1)' /\ StillOpen(t, v[1], v[2], n)} = {w}
    <3>1. ASSUME NEW b \in 1 .. n, NEW p \in 1 .. n, StillOpen(t, b, p, n)
          PROVE  b = a /\ p = o
      BY <1>1, <1>3, <3>1, OneOutageAlways DEF OutagesAreApart
    <3> QED BY <1>3, <1>4, <3>1
  <2> QED BY <2>1, ClosedGrows
<1>7. PICK j \in o .. n : IsLastProbe(t, j, n) /\ s.last_utc = hist[j].utc
  BY <1>2 DEF Describes
<1>8. j \in 1 .. n /\ hist'[j] = hist[j] /\ hist'[a] = hist[a]
  BY <1>1, <1>7, Appended
<1>9. EndOf(t, w)' = end
  <2>1. CASE e.kind = "ok"
    BY <1>1, <2>1 DEF EndOf
  <2>2. CASE e.kind = "stop"
    <3>1. \A i \in o .. n : /\ Probe(t, i)' <=> Probe(t, i)
                            /\ \A k \in i + 1 .. n : Probe(t, k)' <=> Probe(t, k)
      BY <1>1, SameSteps
    <3>2. ~Probe(t, n + 1)'
      BY <1>4, <2>2
    <3>3. \A i \in o .. n + 1 :
            (Probe(t, i)' /\ \A k \in i + 1 .. n + 1 : ~Probe(t, k)') <=> i = j
      <4> SUFFICES ASSUME NEW i \in o .. n + 1
                   PROVE  (Probe(t, i)' /\ \A k \in i + 1 .. n + 1 : ~Probe(t, k)') <=> i = j
        OBVIOUS
      <4>1. CASE i = n + 1
        BY <1>1, <1>7, <3>2, <4>1
      <4>2. CASE i \in o .. n
        <5>1. (\A k \in i + 1 .. n + 1 : ~Probe(t, k)') <=> (\A k \in i + 1 .. n : ~Probe(t, k))
          <6>1. i + 1 .. n + 1 = (i + 1 .. n) \cup {n + 1}
            BY <1>1, <4>2
          <6>2. \A k \in i + 1 .. n : Probe(t, k)' <=> Probe(t, k)
            BY <3>1, <4>2
          <6> QED BY <3>2, <6>1, <6>2
        <5>2. (Probe(t, i) /\ \A k \in i + 1 .. n : ~Probe(t, k)) <=> i = j
          BY <1>1, <1>7, <4>2 DEF IsLastProbe
        <5> QED BY <3>1, <4>2, <5>1, <5>2
      <4> QED BY <1>1, <4>1, <4>2
    <3>4. LastProbe(t, w)' = j
      BY <3>3 DEF LastProbe
    <3>5. EndOf(t, w)' = IF hist'[j].utc > e.utc THEN hist'[j].utc ELSE e.utc
      BY <1>1, <2>2, <3>4 DEF EndOf
    <3> QED BY <1>1, <1>7, <1>8, <2>2, <3>5
  <2> QED BY <2>1, <2>2
<1>10. /\ hist'[a].utc = s.start
       /\ s.lost = Cardinality(Failures(t, a, n + 1)')
       /\ sent = Cardinality(Probes(t, a, n + 1)')
  <2>1. a \in 1 .. n + 1
    BY <1>1
  <2>2. Failures(t, a, n + 1)' = Failures(t, a, n)
    BY <1>4, <2>1, WindowsGrow
  <2>3. CASE e.kind = "ok"
    <3>0. n + 1 \notin Probes(t, a, n)
      BY <1>1 DEF Probes
    <3>1. Probes(t, a, n + 1)' = Probes(t, a, n) \cup {n + 1}
      BY <1>4, <2>1, <2>3, WindowsGrow
    <3>2. Cardinality(Probes(t, a, n + 1)') = Cardinality(Probes(t, a, n)) + 1
      BY <1>1, <3>0, <3>1, FiniteWindows, CountOneMore
    <3> QED BY <1>2, <1>8, <2>2, <2>3, <3>2 DEF Describes
  <2>4. CASE e.kind = "stop"
    <3>1. Probes(t, a, n + 1)' = Probes(t, a, n)
      BY <1>4, <2>1, <2>4, WindowsGrow
    <3> QED BY <1>2, <1>8, <2>2, <2>4, <3>1 DEF Describes
  <2> QED BY <2>3, <2>4
<1>11. SharedFault(o)' <=> SharedFault(o)
  BY SameFault
<1>12. RowOf(t, w)' = [target_id |-> t, start_utc |-> s.start, end_utc |-> end,
                       sent |-> sent, lost |-> s.lost, type |-> s.type,
                       trace_ref |-> s.trace_ref]
  BY <1>2, <1>9, <1>10, <1>11 DEF RowOf, Describes
<1> HIDE DEF w
<1>13. hist'[w[1]].utc = s.start
  BY <1>10 DEF w
<1> QED BY <1>5, <1>6, <1>9, <1>12, <1>13 DEF EndsOutage

\* An outage is reported when the detector finds it long enough.
LEMMA ReportedWhenLong ==
  ASSUME NEW n, NEW e, Told(n, e), NEW t \in Targets, NEW w, w \notin Closed(t),
         w[3] = n + 1, Closed(t)' = Closed(t) \cup {w}, e.kind # "boot",
         NEW start \in Nat, NEW end \in Nat, hist'[w[1]].utc = start, EndOf(t, w)' = end
  PROVE  Reported(t)' = IF LongEnough(start, end) THEN Reported(t) \cup {w} ELSE Reported(t)
<1>1. hist'[n + 1] = e
  BY Appended
<1>2. w \in Reported(t)' <=> MinOutageMs = 0 \/ (MinOutageMs > 0 /\ end >= start + MinOutageMs)
  BY <1>1 DEF Reported
<1>3. w \in Reported(t)' <=> LongEnough(start, end)
  BY <1>2, DetectorAssumption DEF LongEnough
<1>4. {v \in Closed(t)' \ Closed(t) : v \in Reported(t)'} =
        IF LongEnough(start, end) THEN {w} ELSE {}
  BY <1>3
<1> QED BY <1>4, SameReported

\* The rows of others stay theirs when one row is added, and no row of t is.
LEMMA ForeignRow ==
  ASSUME events \in Seq(OutageRow \cup GapRow), NEW row \in OutageRow \cup GapRow,
         \/ events' = Append(events, row)
         \/ events' = events,
         NEW t, row.target_id # t
  PROVE  OwnRows(t)' = OwnRows(t) /\ \A i \in OwnRows(t) : events'[i] = events[i]
<1> DEFINE R == OutageRow \cup GapRow
<1>1. CASE events' = Append(events, row)
  <2>1. events \in Seq(R) /\ row \in R
    OBVIOUS
  <2> HIDE DEF R
  <2>2. PICK k \in Nat : /\ DOMAIN events = 1 .. k /\ DOMAIN events' = 1 .. k + 1
                         /\ events'[k + 1] = row
                         /\ \A i \in 1 .. k : events'[i] = events[i]
    BY <1>1, <2>1
  <2> QED BY <2>2 DEF OwnRows
<1>2. CASE events' = events
  BY <1>2 DEF OwnRows
<1> QED BY <1>1, <1>2

\* The detector closes an outage.
LEMMA CloseKeepsLog ==
  ASSUME NEW n, NEW e, Told(n, e), NEW t \in Targets, NEW s \in State,
         \A u \in Targets : RecordOf(st[u], u, n), RecordOf(s, t, n),
         s.in_outage, e.target = t, LogMatchesHistory,
         events \in Seq(OutageRow \cup GapRow), counter \in Nat,
         NEW c \in State, c.start = s.start, c.lost = s.lost, c.type = s.type,
         c.trace_ref = s.trace_ref, NEW end \in Nat,
         \/ e.kind = "ok" /\ c.sent = s.sent + 1 /\ end = e.utc
         \/ /\ e.kind = "stop" /\ c.sent = s.sent
            /\ end = IF e.utc > s.last_utc THEN e.utc ELSE s.last_utc,
         CloseOutage(c, t, end)
  PROVE  LogMatchesHistory'
<1> SUFFICES ASSUME ~dropped', NEW u \in Targets PROVE Matches(u)'
  BY DEF LogMatchesHistory, Matches, RowsSay
<1> DEFINE row == [event_id |-> counter + 1, target_id |-> t,
                   start_utc |-> c.start, end_utc |-> end, sent |-> c.sent,
                   lost |-> c.lost, type |-> c.type, trace_ref |-> c.trace_ref]
<1>1. row \in OutageRow /\ row.target_id = t
  BY DEF State, OutageRow
<1>2. WithoutId(row) = [target_id |-> t, start_utc |-> c.start, end_utc |-> end,
                        sent |-> c.sent, lost |-> c.lost, type |-> c.type,
                        trace_ref |-> c.trace_ref]
  BY WithoutIdIs
<1>3. IF LongEnough(c.start, end) THEN LogEvent(row) ELSE UNCHANGED log
  BY DEF CloseOutage
<1> HIDE DEF row
<1>4. /\ ~dropped
      /\ LongEnough(c.start, end) => events' = Append(events, row)
      /\ ~LongEnough(c.start, end) => events' = events
  <2>1. CASE LongEnough(c.start, end)
    BY <1>3, <2>1 DEF LogEvent
  <2>2. CASE ~LongEnough(c.start, end)
    BY <1>3, <2>2 DEF log
  <2> QED BY <2>1, <2>2
<1>5. Matches(u)
  BY <1>4 DEF LogMatchesHistory, Matches, RowsSay
<1>6. PICK w : EndsOutage(n, t, s, c.sent, end, w)
  BY ClosesRight
<1>7. c.start \in Nat /\ e.kind # "boot"
  BY DEF State
<1>8. Reported(t)' = IF LongEnough(c.start, end) THEN Reported(t) \cup {w} ELSE Reported(t)
  BY <1>6, <1>7, ReportedWhenLong DEF EndsOutage
<1>9. CASE u = t /\ LongEnough(c.start, end)
  <2>1. WithoutId(row) = RowOf(t, w)'
    BY <1>2, <1>6 DEF EndsOutage
  <2>2. w \notin Closed(t) /\ w[3] = n + 1
    BY <1>6 DEF EndsOutage
  <2> QED BY <1>1, <1>4, <1>5, <1>8, <1>9, <2>1, <2>2, MatchGrows
<1>10. CASE u = t /\ ~LongEnough(c.start, end)
  <2>1. OwnRows(u)' = OwnRows(u) /\ \A i \in OwnRows(u) : events'[i] = events[i]
    BY <1>4, <1>10 DEF OwnRows
  <2> QED BY <1>5, <1>8, <1>10, <2>1, MatchKept
<1>11. CASE u # t
  <2>1. OwnRows(u)' = OwnRows(u) /\ \A i \in OwnRows(u) : events'[i] = events[i]
    BY <1>1, <1>4, <1>11, ForeignRow
  <2>2. ~Ends(u, n + 1)'
    BY <1>11, NewStep
  <2>3. Reported(u)' = Reported(u)
    BY <2>2, NothingReported
  <2> QED BY <1>5, <2>1, <2>3, MatchKept
<1> QED BY <1>9, <1>10, <1>11

\* Nothing is reported, and no row but a gap's is added.
LEMMA QuietKeepsLog ==
  ASSUME NEW n, NEW e, Told(n, e), LogMatchesHistory,
         events \in Seq(OutageRow \cup GapRow),
         \A u \in Targets : Reported(u)' = Reported(u),
         \/ UNCHANGED <<events, dropped>>
         \/ \E row \in GapRow : LogEvent(row)
  PROVE  LogMatchesHistory'
<1> SUFFICES ASSUME ~dropped', NEW u \in Targets PROVE Matches(u)'
  BY DEF LogMatchesHistory, Matches, RowsSay
<1>1. ~dropped /\ (events' = events \/ \E row \in GapRow : events' = Append(events, row))
  BY DEF LogEvent
<1>2. Matches(u)
  BY <1>1 DEF LogMatchesHistory, Matches, RowsSay
<1>3. OwnRows(u)' = OwnRows(u) /\ \A i \in OwnRows(u) : events'[i] = events[i]
  <2>1. CASE events' = events
    BY <2>1 DEF OwnRows
  <2>2. CASE \E row \in GapRow : events' = Append(events, row)
    <3>1. PICK row \in GapRow : events' = Append(events, row)
      BY <2>2
    <3>2. row.target_id # u
      BY DetectorAssumption DEF GapRow, Monitor
    <3> QED BY <3>1, <3>2, ForeignRow
  <2> QED BY <1>1, <2>1, <2>2
<1> QED BY <1>2, <1>3, MatchKept

\* Nothing is told, and no row is added.
LEMMA LogSame ==
  ASSUME LogMatchesHistory, UNCHANGED <<hist, events, dropped>>
  PROVE  LogMatchesHistory'
<1> SUFFICES ASSUME ~dropped', NEW t \in Targets PROVE Matches(t)'
  BY DEF LogMatchesHistory, Matches, RowsSay
<1>1. OwnRows(t)' = OwnRows(t)
  BY DEF OwnRows
<1>2. ASSUME NEW w PROVE EndOf(t, w)' = EndOf(t, w) /\ RowOf(t, w)' = RowOf(t, w)
  <2>1. LastProbe(t, w)' = LastProbe(t, w)
    BY DEF LastProbe, Probe
  <2>2. EndOf(t, w)' = EndOf(t, w)
    BY <2>1 DEF EndOf
  <2>3. /\ Probes(t, w[1], w[3])' = Probes(t, w[1], w[3])
        /\ Failures(t, w[1], w[3])' = Failures(t, w[1], w[3])
    BY DEF Probes, Failures, Probe, Failure
  <2>4. SharedFault(w[2])' <=> SharedFault(w[2])
    BY SameHistory
  <2> QED BY <2>2, <2>3, <2>4 DEF RowOf
<1>3. Closed(t)' = Closed(t)
  <2>1. Steps' = Steps /\ hist' = hist
    BY DEF Steps
  <2>2. Failures(t, 1, Len(hist))' = Failures(t, 1, Len(hist))
    BY DEF Failures, Failure
  <2>3. \A a, o : Opens(t, a, o)' <=> Opens(t, a, o)
    BY SameHistory
  <2>4. \A i : Ends(t, i)' <=> Ends(t, i)
    BY DEF Ends
  <2> QED BY <2>1, <2>2, <2>3, <2>4 DEF Closed
<1>4. Reported(t)' = Reported(t)
  BY <1>2, <1>3 DEF Reported
<1>5. PICK f \in InOrder(OwnRows(t), Reported(t)) : RowsSay(t, f)
  BY DEF LogMatchesHistory, Matches, RowsSay
<1>6. f \in InOrder(OwnRows(t), Reported(t))'
  BY <1>1, <1>4, <1>5 DEF InOrder
<1>7. RowsSay(t, f)'
  <2> SUFFICES ASSUME NEW i \in OwnRows(t)
               PROVE  WithoutId(events'[i]) = RowOf(t, f[i])'
    BY <1>1 DEF RowsSay, WithoutId
  <2> PICK w : w = f[i]
    OBVIOUS
  <2>1. RowOf(t, w)' = RowOf(t, w)
    BY <1>2
  <2> QED BY <1>5, <2>1 DEF RowsSay
<1> QED BY <1>6, <1>7 DEF Matches

\* Every step keeps the log and the history together.
LEMMA LogStep == TypeOK /\ HInv /\ LogMatchesHistory /\ [Next]_vars => LogMatchesHistory'
<1> SUFFICES ASSUME TypeOK, HInv, LogMatchesHistory, [Next]_vars PROVE LogMatchesHistory'
  OBVIOUS
<1> PICK n \in Nat : n = Len(hist)
  BY DEF TypeOK
<1>1. /\ st \in [Targets -> State] /\ \A u \in Targets : RecordOf(st[u], u, n) /\ st[u] \in State
      /\ events \in Seq(OutageRow \cup GapRow) /\ counter \in Nat
  BY DEF TypeOK, State, HInv
<1>2. last_utc \in Nat /\ \A utc \in Stamps : utc \in Nat
  BY DetectorAssumption DEF TypeOK, Stamps
<1>3. ASSUME NEW t \in Targets, NEW failed \in BOOLEAN, NEW utc \in Stamps,
             Sample(t, failed, utc)
      PROVE  LogMatchesHistory'
  <2> PICK e : e = [kind |-> IF failed THEN "fail" ELSE "ok", target |-> t, utc |-> utc]
    OBVIOUS
  <2>1. Told(n, e) /\ e.target = t /\ e.utc = utc /\ utc \in Nat
    BY <1>2, <1>3, NoteTold DEF Sample
  <2> PICK s \in State : s = st[t]
    BY <1>1
  <2>2. CASE ~failed /\ AddSuccessInOutage(s, t, utc)
    <3>1. [s EXCEPT !.last_utc = utc, !.sent = s.sent + 1] \in State
      BY <2>1, CountedType
    <3> PICK c \in State : c = [s EXCEPT !.last_utc = utc, !.sent = s.sent + 1]
      BY <3>1
    <3>2. /\ c.start = s.start /\ c.lost = s.lost /\ c.type = s.type
          /\ c.trace_ref = s.trace_ref /\ c.sent = s.sent + 1
      BY DEF State
    <3> PICK end \in Nat : end = utc
      BY <2>1
    <3>3. CloseOutage(c, t, end) /\ s.in_outage /\ e.kind = "ok"
      BY <2>2 DEF AddSuccessInOutage
    <3>4. e.kind = "ok" /\ c.sent = s.sent + 1 /\ end = e.utc
      BY <2>1, <3>2, <3>3
    <3>5. RecordOf(s, t, n) /\ Told(n, e) /\ e.target = t
      BY <1>1, <2>1
    <3>6. \/ e.kind = "ok" /\ c.sent = s.sent + 1 /\ end = e.utc
          \/ /\ e.kind = "stop" /\ c.sent = s.sent
             /\ end = IF e.utc > s.last_utc THEN e.utc ELSE s.last_utc
      BY <3>4
    <3> QED BY ONLY <1>1, LogMatchesHistory, <3>2, <3>3, <3>6, <3>5, CloseKeepsLog
  <2>3. CASE ~failed /\ AddSuccess(s, t, utc)
    <3>1. UNCHANGED <<events, dropped>> /\ ~s.in_outage /\ e.kind = "ok"
      BY <2>3 DEF AddSuccess, log
    <3>2. \A u \in Targets : Reported(u)' = Reported(u)
      <4> SUFFICES ASSUME NEW u \in Targets PROVE Reported(u)' = Reported(u)
        OBVIOUS
      <4>1. CASE u = t
        BY <1>1, <2>1, <3>1, <4>1, NothingReported
      <4>2. CASE u # t
        <5>1. ~Ends(u, n + 1)'
          BY <2>1, <3>1, <4>2, NewStep
        <5> QED BY <1>1, <2>1, <5>1, NothingReported
      <4> QED BY <4>1, <4>2
    <3> QED BY <1>1, <2>1, <3>1, <3>2, QuietKeepsLog
  <2>4. CASE failed
    <3>1. UNCHANGED <<events, dropped>> /\ e.kind = "fail"
      BY <1>3, <2>4 DEF Sample, AddFailureInOutage, AddFailureBelowThreshold, OpenOutage, log
    <3>2. \A u \in Targets : Reported(u)' = Reported(u)
      <4> SUFFICES ASSUME NEW u \in Targets PROVE Reported(u)' = Reported(u)
        OBVIOUS
      <4>1. ~Ends(u, n + 1)'
        BY <2>1, <3>1, NewStep
      <4> QED BY <1>1, <2>1, <4>1, NothingReported
    <3> QED BY <1>1, <2>1, <3>1, <3>2, QuietKeepsLog
  <2> QED BY <1>3, <2>2, <2>3, <2>4 DEF Sample
<1>4. ASSUME NEW gap \in GapMs, NEW utc \in Stamps, Gap(gap, utc) PROVE LogMatchesHistory'
  <2> PICK e : e = [kind |-> "gap", target |-> Monitor, utc |-> utc]
    OBVIOUS
  <2>1. Told(n, e) /\ e.kind = "gap"
    BY <1>2, <1>4, NoteTold DEF Gap
  <2>2. utc \in Nat /\ gap \in Nat
    BY <1>2, DetectorAssumption
  <2>3. GapStart(utc, gap) \in Nat
    BY <2>2 DEF GapStart
  <2> DEFINE row == [event_id |-> counter + 1, target_id |-> Monitor,
                     start_utc |-> GapStart(utc, gap), end_utc |-> utc, sent |-> 0,
                     lost |-> 0, type |-> "monitor_gap", trace_ref |-> NoTrace]
  <2>4. row \in GapRow
    BY <1>1, <2>2, <2>3 DEF GapRow
  <2>5. LogEvent(row)
    BY <1>4 DEF Gap
  <2> HIDE DEF row
  <2>6. \A u \in Targets : Reported(u)' = Reported(u)
    <3> SUFFICES ASSUME NEW u \in Targets PROVE Reported(u)' = Reported(u)
      OBVIOUS
    <3>1. ~Ends(u, n + 1)'
      BY <2>1, NewStep
    <3> QED BY <1>1, <2>1, <3>1, NothingReported
  <2> QED BY <1>1, <2>1, <2>4, <2>5, <2>6, QuietKeepsLog
<1>5. ASSUME NEW t \in Targets, FinalizeOutage(t) PROVE LogMatchesHistory'
  <2> PICK e : e = [kind |-> "stop", target |-> t, utc |-> last_utc]
    OBVIOUS
  <2>1. Told(n, e) /\ e.kind = "stop" /\ e.target = t /\ e.utc = last_utc
    BY <1>2, <1>5, NoteTold DEF FinalizeOutage
  <2> PICK s \in State : s = st[t]
    BY <1>1
  <2> PICK end : end = IF last_utc > s.last_utc THEN last_utc ELSE s.last_utc
    OBVIOUS
  <2>2. end \in Nat /\ CloseOutage(s, t, end) /\ s.in_outage /\ RecordOf(s, t, n)
    BY <1>1, <1>2, <1>5 DEF FinalizeOutage, State
  <2>3. end = IF e.utc > s.last_utc THEN e.utc ELSE s.last_utc
    BY <2>1
  <2> QED BY <1>1, <2>1, <2>2, <2>3, CloseKeepsLog
<1>6. CASE Boot
  <2> PICK e : e = [kind |-> "boot", target |-> Monitor, utc |-> last_utc]
    OBVIOUS
  <2>1. Told(n, e) /\ e.kind = "boot"
    BY <1>2, <1>6, NoteTold DEF Boot
  <2>2. UNCHANGED <<events, dropped>>
    BY <1>6 DEF Boot
  <2>3. \A u \in Targets : Reported(u)' = Reported(u)
    BY <1>1, <2>1, NothingReported
  <2> QED BY <1>1, <2>1, <2>2, <2>3, QuietKeepsLog
<1>7. CASE UNCHANGED <<hist, events, dropped>>
  BY <1>7, LogSame
<1> QED BY <1>3, <1>4, <1>5, <1>6, <1>7 DEF Next, Restart, KilledCreatingLog,
         Stop, Finalized, Exhausted, vars, log

\* events.csv holds exactly the outages the probe history contains, each once, in
\* the order they ended and with the right start, end, counts, type and trace
\* reference, for any targets, thresholds, clocks and number of crashes, as long
\* as it could be opened for append (events.cpp:40-146).
THEOREM LogTellsHistory == Spec => []LogMatchesHistory
<1>1. Init => TypeOK /\ HInv /\ LogMatchesHistory
  <2>1. Init => LogMatchesHistory
    <3> SUFFICES ASSUME Init, NEW t \in Targets PROVE Matches(t)
      BY DEF LogMatchesHistory, Matches, RowsSay
    <3>1. DOMAIN events = {} /\ DOMAIN hist = {} /\ hist \in Seq(HistEntry) /\ Len(hist) = 0
      BY DEF Init
    <3>2. Closed(t) = {} /\ OwnRows(t) = {}
      BY <3>1 DEF Closed, Steps, OwnRows
    <3>3. Reported(t) = {}
      BY <3>2 DEF Reported
    <3>4. [i \in {} |-> 0] \in InOrder({}, {})
      BY DEF InOrder
    <3> QED BY <3>2, <3>3, <3>4 DEF Matches, RowsSay
  <2> QED BY <2>1, InitType, HInit
<1>2. TypeOK /\ HInv /\ LogMatchesHistory /\ [Next]_vars
        => (TypeOK /\ HInv /\ LogMatchesHistory)'
  BY TypeStep, HStep, LogStep
<1> QED BY <1>1, <1>2, PTL DEF Spec
=============================================================================
