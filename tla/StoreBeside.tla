----------------------------- MODULE StoreBeside -----------------------------
(* The storage directory of SegmentStore with a second process in it: a verify  *)
(* or an export that is started while run, or another verify, is at work        *)
(* (cli.cpp:126-165). The two share the files and nothing else; nothing in the  *)
(* code keeps them apart, and either may be killed at any point.                *)
(*                                                                             *)
(* Every file the code opens is open to others for reading and writing, but     *)
(* cannot be removed while it is open, which on Windows takes a sharing mode    *)
(* that neither fopen nor the file streams ask for.                             *)
EXTENDS SegmentStore

CONSTANT MaxVisits  \* bound: commands of the second process

ASSUME BesideAssumption == MaxVisits \in Nat

VARIABLES step,     \* the next thing the second process does
          listed,   \* the .part files it found, if it is a verify
          to_seal,  \* those it has yet to seal
          held,     \* the part it has read: its start and its records
          scanned,  \* the rows it is going to write to index.csv
          visits,   \* commands so far
          exposed,  \* history: records put at risk by a verify beside the process
          alone,    \* history: no second process since the last command was started
          killed    \* history: a second process was killed

visitor == <<step, listed, to_seal, held, scanned, visits>>

Nobody == [start |-> 0, recs |-> << >>]

BesideInit ==
  /\ Init
  /\ step = "idle" /\ listed = {} /\ to_seal = {} /\ held = Nobody /\ scanned = << >>
  /\ visits = 0
  /\ exposed = {} /\ alone = TRUE /\ killed = FALSE

-----------------------------------------------------------------------------
\* Slips the code could contain; each is checked to break a property.
NamedBySlot == (held.start \div SegMs) * SegMs
-----------------------------------------------------------------------------
(* The first process *)

\* seal_part finds the part gone: the second process has removed it.
SealGone ==
  /\ pc = "write" /\ ~part[job.start].ok
  /\ pc' = job.next
  /\ UNCHANGED <<files, process, now, faults, past>>

\* The records a step of the first process puts at risk: those that come into a part
\* a verify has found, and those the verify has sealed, if a kill cuts the writing
\* of the same .zst short.
Raced == UNION {ToSet(part'[s].recs) \ ToSet(part[s].recs) : s \in listed}
CutShort ==
  IF pc = "write" /\ (job.start \in listed \/ ~part[job.start].exists)
  THEN ToSet(zst[job.start].recs) \ ToSet(zst'[job.start].recs) ELSE {}
AtRisk == Raced \cup CutShort

First ==
  /\ Next \/ SealGone
  /\ exposed' = exposed \cup AtRisk
  /\ alone' = IF pc = "down" /\ pc' = "recover" THEN step = "idle" ELSE alone
  /\ UNCHANGED visitor

-----------------------------------------------------------------------------
(* The second process: verify *)

Untouched == UNCHANGED <<pc, process, now, faults, past, exposed>>

Visit(command) ==
  /\ step = "idle" /\ pc # "down" /\ visits < MaxVisits
  /\ visits' = visits + 1
  /\ \/ command = "verify" /\ step' = "recover" /\ listed' = Leftover
     \/ command = "export" /\ step' = "load" /\ listed' = {}
  /\ to_seal' = listed'
  /\ alone' = FALSE
  /\ UNCHANGED <<files, held, scanned>> /\ Untouched

\* seal_part loads the part, if it still is there: so far as it has been flushed.
VisitorReads(s) ==
  /\ step = "recover" /\ s \in to_seal
  /\ to_seal' = to_seal \ {s}
  /\ IF part[s].ok
     THEN step' = "write" /\ held' = [start |-> s, recs |-> part[s].recs]
     ELSE UNCHANGED <<step, held>>
  /\ UNCHANGED <<files, listed, scanned, visits, alone>> /\ Untouched

\* The .zst is named by the start in the header.
HeldFile == held.start

VisitorWrites ==
  /\ step = "write"
  /\ zst' = [zst EXCEPT ![HeldFile] = Holding(held.recs)]
  /\ step' = "log"
  /\ UNCHANGED <<part, index, listed, to_seal, held, scanned, visits, alone>> /\ Untouched

VisitorLogs ==
  /\ step = "log"
  /\ index' = AppendRow(index, [start |-> held.start, end |-> LatestTime(held.start, held.recs),
                                count |-> Len(held.recs)])
  /\ step' = "remove"
  /\ UNCHANGED <<part, zst, listed, to_seal, held, scanned, visits, alone>> /\ Untouched

\* The writer has its file open from open() to close().
OpenPart(s) == pc = "run" /\ s = active

VisitorRemoves ==
  /\ step = "remove"
  /\ part' = IF OpenPart(held.start) THEN part ELSE [part EXCEPT ![held.start] = Absent]
  /\ held' = Nobody
  /\ step' = "recover"
  /\ UNCHANGED <<zst, index, listed, to_seal, scanned, visits, alone>> /\ Untouched

-----------------------------------------------------------------------------
(* The second process: rebuild(), of verify and of an export without rows *)

VisitorLoads ==
  /\ step = "load"
  /\ step' = IF Rows(index) = << >> THEN "scan" ELSE "idle"
  /\ UNCHANGED <<files, listed, to_seal, held, scanned, visits, alone>> /\ Untouched

VisitorScans ==
  /\ step = "scan" \/ (step = "recover" /\ to_seal = {})
  /\ scanned' = RebuiltLines
  /\ step' = "cut"
  /\ UNCHANGED <<files, listed, to_seal, held, visits, alone>> /\ Untouched

VisitorCuts ==
  /\ step = "cut"
  /\ index' = [exists |-> TRUE, lines |-> << >>]
  /\ step' = "rewrite"
  /\ UNCHANGED <<part, zst, listed, to_seal, held, scanned, visits, alone>> /\ Untouched

\* The text goes to the beginning of the file, over what was appended meanwhile.
Rewritten == scanned

VisitorRewrites ==
  /\ step = "rewrite"
  /\ index' = [exists |-> TRUE, lines |-> Rewritten]
  /\ step' = "idle" /\ listed' = {} /\ scanned' = << >>
  /\ UNCHANGED <<part, zst, to_seal, held, visits, alone>> /\ Untouched

Second ==
  \/ \E command \in {"verify", "export"} : Visit(command)
  \/ \E s \in Starts : VisitorReads(s)
  \/ VisitorWrites \/ VisitorLogs \/ VisitorRemoves
  \/ VisitorLoads \/ VisitorScans \/ VisitorCuts \/ VisitorRewrites

-----------------------------------------------------------------------------
(* The second process is killed *)

\* What that leaves of the file it writes: a .zst that cannot be read, an index
\* without a header, or the beginning of what rebuild() writes.
TornFiles ==
  \/ /\ step = "write"
     /\ zst' = [zst EXCEPT ![HeldFile] = Broken]
     /\ UNCHANGED <<part, index>>
  \/ /\ step = "log" /\ ~index.exists
     /\ index' = [exists |-> TRUE, lines |-> << >>]
     /\ UNCHANGED <<part, zst>>
  \/ /\ step = "rewrite"
     /\ \E n \in 1 .. Len(scanned) - 1 :
          index' = [exists |-> TRUE, lines |-> SubSeq(scanned, 1, n)]
     /\ UNCHANGED <<part, zst>>
  \/ UNCHANGED files

\* The records this puts at risk: those of the .zst, but for those of its part, if
\* that is there, is not about to be removed, and will be sealed again.
SealedAgain(s) == part[s].ok /\ failed = {} /\ ~(pc \in {"log", "remove"} /\ s = job.start)
Torn ==
  IF zst'[HeldFile] = zst[HeldFile] THEN {}
  ELSE ToSet(zst[HeldFile].recs) \ (IF SealedAgain(HeldFile) THEN ToSet(part[HeldFile].recs) ELSE {})

VisitorKilled ==
  /\ step # "idle" /\ faults < MaxFaults
  /\ TornFiles
  /\ faults' = faults + 1
  /\ step' = "idle" /\ listed' = {} /\ to_seal' = {} /\ held' = Nobody /\ scanned' = << >>
  /\ exposed' = exposed \cup Torn
  /\ killed' = TRUE
  /\ UNCHANGED <<pc, process, now, past, visits, alone>>

BesideNext ==
  \/ (First \/ Second) /\ UNCHANGED killed
  \/ VisitorKilled

BesideSpec == BesideInit /\ [][BesideNext]_<<vars, visitor, exposed, alone, killed>>

-----------------------------------------------------------------------------
(* Properties *)

\* A verify beside a run may write a .zst from a part it read before the run added
\* to it, sealed it and removed it; and if it is killed as it writes, none of what
\* the run has sealed into that .zst can be read. That is all either command can
\* destroy: an export never costs a record, and a verify none but those flushed
\* between its start and its end to a part it had found, or those of a .zst that a
\* kill catches it, or the run, writing a second time, with the part gone or about
\* to be removed by the other (seal.cpp:28-33, 49-99, cli.cpp:126-143).
LosesOnlyWhatItRaces ==
  \A r \in flushed \ retired : OnDisk(r) \/ r \in exposed

\* Whatever a verify or an export beside a run has done to the files, killed or not,
\* a verify that is left alone repairs: all records on disk are exported once, no
\* part is left.
VerifyAloneRepairs ==
  pc = "down" /\ verified /\ alone /\ failed = {} =>
    /\ \A r \in DOMAIN stamp : OnDisk(r) => TimesExported(r) = 1
    /\ \A s \in Starts : part[s].exists => ~part[s].ok

\* The export of a window skips a row that is outside the window (exporter.cpp:57).
\* Once the part of a segment is gone, all this can miss are records that are later
\* than the last arrival of the segment, by no more than what samples are out of
\* order, and those a verify has raced, whose row it wrote before they came. It
\* takes a command that was killed and another one after it to miss more: what a
\* verify leaves in the .zst of an open segment, an export may list as all there is.
WindowMissesLateOnly ==
  (killed => visits = 1) =>
    \A i \in DOMAIN Rows(index) :
      ~part[Rows(index)[i].start].exists =>
        \A r \in ToSet(zst[Rows(index)[i].start].recs) \ exposed :
          \E j \in DOMAIN Rows(index) :
            /\ Rows(index)[j].start = Rows(index)[i].start
            /\ ReadTime(Rows(index)[j].start, r) <= Rows(index)[j].end + Jitter
=============================================================================
