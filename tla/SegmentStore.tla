---------------------------- MODULE SegmentStore ----------------------------
(* The raw segment files of one storage directory and the process that writes  *)
(* them: storage/segment_writer.cpp, seal.cpp, index.cpp and the parts of      *)
(* prober.cpp and cli.cpp that drive them. A segment is written to a .part     *)
(* file, sealed into a .zst file at the segment boundary and on shutdown, and  *)
(* listed in index.csv; leftover parts are sealed at the next start.           *)
(*                                                                             *)
(* Each file operation that can be told apart after a crash is one action, and *)
(* a crash (a kill of the process) may come between any two of them. A record  *)
(* is a number, in the order of arrival; `stamp` is its utc_ms. Record counts  *)
(* are always recomputed from the byte length, so the header's count is left   *)
(* out, and a record cut in two by a crash counts as one that was not written. *)
EXTENDS Integers, Sequences, FiniteSets, SequencesExt

CONSTANTS SegMs,        \* length of a segment
          RetentionMs,  \* raw_retention_days as a time; 0 keeps everything
          Jitter,       \* how far before `now` a sample may be stamped
          Failures,     \* operations that may fail: "zst", "index", "remove", "open"
          FirstTime,    \* the clock at the beginning
          MaxTime,      \* bound: the clock
          MaxRecords,   \* bound: samples
          MaxFaults     \* bound: kills and failures

ASSUME StoreAssumption ==
  /\ SegMs \in Nat \ {0}
  /\ RetentionMs \in Nat
  /\ Jitter \in Nat
  /\ Failures \subseteq {"zst", "index", "remove", "open"}
  /\ FirstTime \in Nat /\ Jitter < FirstTime
  /\ MaxTime \in Nat /\ FirstTime <= MaxTime
  /\ MaxRecords \in Nat /\ MaxFaults \in Nat

VARIABLES part,      \* the seg_<start>.part files
          zst,       \* the seg_<start>.zst files
          index,     \* index.csv: whether it exists, and its lines
          pc,        \* the next thing the process does
          mode,      \* the command it was started with: "run" or "verify"
          todo,      \* files left to go through in recovery and in retention
          removed,   \* retention has removed a file
          job,       \* the arguments of the seal_part call in progress
          active,    \* start of the segment being written
          cur_end,   \* when it is to be rotated
          last_utc,  \* time of the last sample taken from the queue
          buf,       \* records appended and still in the stdio buffer
          hand,      \* the sample that caused a rotation, if one is held
          now,       \* the clock
          faults,    \* kills and failures so far
          stamp,     \* history: utc_ms of every sample taken from the queue
          flushed,   \* history: records that were flushed
          retired,   \* history: records whose file retention removed
          failed,    \* history: the operations that have failed
          verified,  \* history: verify was the last command, and ran to its end
          cut        \* history: a kill left index.csv without its header, or without
                     \* rows of a rewrite

files   == <<part, zst, index>>
process == <<mode, todo, removed, job, active, cur_end, last_utc, buf, hand>>
past    == <<stamp, flushed, retired, failed, verified, cut>>
vars    == <<files, pc, process, now, faults, past>>

Starts == 0 .. MaxTime
Record == 1 .. MaxRecords
None   == 0

\* ok: the header of a part can be parsed, a .zst can be decompressed.
Absent      == [exists |-> FALSE, ok |-> FALSE, recs |-> << >>]
Broken      == [exists |-> TRUE,  ok |-> FALSE, recs |-> << >>]
Holding(rs) == [exists |-> TRUE,  ok |-> TRUE,  recs |-> rs]

HeaderLine == [start |-> 0, end |-> 0, count |-> 0]
NoJob      == [start |-> 0, end |-> 0, count |-> 0, next |-> "down"]

File  == [exists : BOOLEAN, ok : BOOLEAN, recs : Seq(Record)]
Line  == [start : Starts, end : Nat, count : Nat]
Steps == {"down", "recover", "write", "log", "remove", "retain", "rebuild", "open",
          "run", "dead"}

TypeOK ==
  /\ part \in [Starts -> File] /\ zst \in [Starts -> File]
  /\ index \in [exists : BOOLEAN, lines : Seq(Line)]
  /\ pc \in Steps
  /\ mode \in {"run", "verify"}
  /\ todo \subseteq Starts
  /\ removed \in BOOLEAN
  /\ job \in [start : Starts, end : Nat, count : Nat, next : {"recover", "open", "down"}]
  /\ active \in Starts /\ cur_end \in Nat /\ last_utc \in Nat
  /\ buf \in Seq(Record)
  /\ hand \in Record \cup {None}
  /\ now \in FirstTime .. MaxTime /\ faults \in 0 .. MaxFaults
  /\ stamp \in Seq(Starts) /\ Len(stamp) <= MaxRecords
  /\ flushed \subseteq Record /\ retired \subseteq Record
  /\ failed \subseteq Failures /\ verified \in BOOLEAN /\ cut \in BOOLEAN

Init ==
  /\ part = [s \in Starts |-> Absent] /\ zst = [s \in Starts |-> Absent]
  /\ index = [exists |-> FALSE, lines |-> << >>]
  /\ pc = "down" /\ mode = "run"
  /\ todo = {} /\ removed = FALSE /\ job = NoJob
  /\ active = 0 /\ cur_end = 0 /\ last_utc = 0
  /\ buf = << >> /\ hand = None
  /\ now = FirstTime /\ faults = 0
  /\ stamp = << >> /\ flushed = {} /\ retired = {}
  /\ failed = {} /\ verified = FALSE /\ cut = FALSE

\* The time a record is read back with: offsets are not negative.
ReadTime(start, r) == Max({start, stamp[r]})
\* The latest time in a segment, its start if it holds nothing.
LatestTime(start, recs) == Max({start} \cup {ReadTime(start, r) : r \in ToSet(recs)})

-----------------------------------------------------------------------------
(* Index *)

\* load(): the first line is skipped, whatever it is.
Rows(ix) == IF ix.lines = << >> THEN << >> ELSE Tail(ix.lines)

\* append(): the header goes first only if the file does not exist.
AppendRow(ix, row) ==
  [exists |-> TRUE, lines |-> IF ix.exists THEN Append(ix.lines, row)
                              ELSE <<HeaderLine, row>>]

\* The numbers of a set, the least first.
Sorted(S) ==
  CHOOSE q \in [1 .. Cardinality(S) -> S] : \A i, j \in DOMAIN q : i < j => q[i] < q[j]

\* rebuild(): a row for every readable .zst, in the order of their start.
RowOf(s) ==
  [start |-> s, end |-> LatestTime(s, zst[s].recs), count |-> Len(zst[s].recs)]
RebuiltLines ==
  LET sealed == Sorted({s \in Starts : zst[s].ok})
  IN  <<HeaderLine>> \o [i \in DOMAIN sealed |-> RowOf(sealed[i])]

-----------------------------------------------------------------------------
\* Slips the code could contain; each is checked to break a property.

AlwaysAligned(utc) == (utc \div SegMs) * SegMs
NextSlot(utc) == (utc \div SegMs + 1) * SegMs
NothingInHand == << >>
AppendRebuilt == index.lines \o RebuiltLines
ExpiredByStart == {s \in Starts : \E i \in DOMAIN Rows(index) :
                     Rows(index)[i].start = s /\ s < now - RetentionMs}
RetryUnreadable(s) ==
  /\ pc = "recover" /\ s \in todo
  /\ IF part[s].ok
     THEN /\ pc' = "write" /\ job' = [start |-> s, end |-> 0, count |-> 0, next |-> "recover"]
          /\ todo' = todo \ {s}
     ELSE UNCHANGED <<pc, job, todo>>
  /\ UNCHANGED <<files, mode, removed, active, cur_end, last_utc, buf, hand, now, faults, past>>
SealedEndAtStart == active
NamedBySealingTime == (now \div SegMs) * SegMs
SealWithoutRow ==
  /\ pc = "log"
  /\ pc' = "remove"
  /\ UNCHANGED <<files, process, now, faults, past>>

-----------------------------------------------------------------------------
(* Starting a command *)

Leftover == {s \in Starts : part[s].exists}

\* run and verify both begin with recover_dangling_parts. Between the end of a
\* process and what the next one does, the clock advances.
Start(m) ==
  /\ pc = "down" /\ now < MaxTime
  /\ now' = now + 1
  /\ pc' = "recover" /\ mode' = m
  /\ todo' = Leftover
  /\ verified' = FALSE
  /\ UNCHANGED <<files, removed, job, active, cur_end, last_utc, buf, hand, faults,
                 stamp, flushed, retired, failed, cut>>

\* The next leftover part: sealed if its header can be parsed, else left alone.
RecoverPart(s) ==
  /\ pc = "recover" /\ s \in todo
  /\ todo' = todo \ {s}
  /\ IF part[s].ok
     THEN pc' = "write" /\ job' = [start |-> s, end |-> 0, count |-> 0, next |-> "recover"]
     ELSE UNCHANGED <<pc, job>>
  /\ UNCHANGED <<files, mode, removed, active, cur_end, last_utc, buf, hand, now, faults, past>>

\* enforce_retention: the files whose index row ends before the cutoff.
Expired == {s \in Starts : \E i \in DOMAIN Rows(index) :
              Rows(index)[i].start = s /\ Rows(index)[i].end < now - RetentionMs}

\* Recovery is over: verify rebuilds the index, run applies the retention.
Recovered ==
  /\ pc = "recover" /\ todo = {}
  /\ pc' = IF mode = "verify" THEN "rebuild" ELSE "retain"
  /\ todo' = IF mode = "run" /\ RetentionMs > 0 /\ now >= RetentionMs THEN Expired ELSE {}
  /\ removed' = FALSE
  /\ UNCHANGED <<files, mode, job, active, cur_end, last_utc, buf, hand, now, faults, past>>

RemoveExpired(s) ==
  /\ pc = "retain" /\ s \in todo
  /\ todo' = todo \ {s}
  /\ IF zst[s].exists
     THEN /\ zst' = [zst EXCEPT ![s] = Absent]
          /\ retired' = retired \cup ToSet(zst[s].recs)
          /\ removed' = TRUE
     ELSE UNCHANGED <<zst, retired, removed>>
  /\ UNCHANGED <<part, index, pc, mode, job, active, cur_end, last_utc, buf, hand, now, faults,
                 stamp, flushed, failed, verified, cut>>

Retained ==
  /\ pc = "retain" /\ todo = {}
  /\ pc' = IF removed THEN "rebuild" ELSE "open"
  /\ UNCHANGED <<files, process, now, faults, past>>

\* index.csv is truncated and written anew.
NewLines == RebuiltLines

Rebuild ==
  /\ pc = "rebuild"
  /\ index' = [exists |-> TRUE, lines |-> NewLines]
  /\ pc' = IF mode = "verify" THEN "down" ELSE "open"
  /\ verified' = (mode = "verify") /\ cut' = FALSE
  /\ UNCHANGED <<part, zst, process, now, faults, stamp, flushed, retired, failed>>

-----------------------------------------------------------------------------
(* seal_part, from the .part in job to the .zst; every failure but that of     *)
(* writing the .zst goes unnoticed, and no caller looks at the result.         *)

\* The .zst is named by the start in the header.
OutFile == job.start

SealWrite ==
  /\ pc = "write" /\ part[job.start].ok
  /\ zst' = [zst EXCEPT ![OutFile] = Holding(part[job.start].recs)]
  /\ job' = [job EXCEPT !.end = IF @ = 0 THEN LatestTime(job.start, part[job.start].recs)
                                ELSE @,
                        !.count = Len(part[job.start].recs)]
  /\ pc' = "log"
  /\ UNCHANGED <<part, index, mode, todo, removed, active, cur_end, last_utc, buf, hand,
                 now, faults, past>>

SealLog ==
  /\ pc = "log"
  /\ index' = AppendRow(index, [start |-> job.start, end |-> job.end,
                                count |-> job.count])
  /\ pc' = "remove"
  /\ UNCHANGED <<part, zst, process, now, faults, past>>

SealRemove ==
  /\ pc = "remove"
  /\ part' = [part EXCEPT ![job.start] = Absent]
  /\ pc' = job.next
  /\ UNCHANGED <<zst, index, process, now, faults, past>>

Fails(operation) ==
  /\ operation \in Failures /\ faults < MaxFaults
  /\ failed' = failed \cup {operation}
  /\ faults' = faults + 1

\* write_file fails: the .zst is not created, or is left incomplete.
SealWriteFails ==
  /\ pc = "write"
  /\ zst' \in {zst, [zst EXCEPT ![job.start] = Broken]}
  /\ pc' = job.next
  /\ Fails("zst")
  /\ UNCHANGED <<part, index, process, now, stamp, flushed, retired, verified, cut>>

\* index.csv cannot be opened: append() and rebuild() log it and return.
IndexFails ==
  /\ \/ pc = "log" /\ pc' = "remove"
     \/ pc = "rebuild" /\ pc' = IF mode = "verify" THEN "down" ELSE "open"
  /\ Fails("index")
  /\ UNCHANGED <<files, process, now, stamp, flushed, retired, verified, cut>>

RemoveFails ==
  /\ pc = "remove"
  /\ pc' = job.next
  /\ Fails("remove")
  /\ UNCHANGED <<files, process, now, stamp, flushed, retired, verified, cut>>

-----------------------------------------------------------------------------
(* The writer thread *)

\* open_aligned: the slot of utc, or utc itself if the slot has a sealed segment.
AlignedStart(utc) ==
  LET slot == (utc \div SegMs) * SegMs IN IF zst[slot].exists THEN utc ELSE slot

OpenTime  == IF hand = None THEN now ELSE stamp[hand]
FirstRecs == IF hand = None THEN << >> ELSE <<hand>>

\* A segment is opened, at the start or after a rotation, and takes the sample
\* in hand. A file of that name is truncated.
OpenSegment ==
  LET start == AlignedStart(OpenTime) IN
  /\ pc = "open"
  /\ part' = [part EXCEPT ![start] = Holding(<< >>)]
  /\ active' = start /\ cur_end' = start + SegMs
  /\ last_utc' = IF hand = None THEN start ELSE stamp[hand]
  /\ buf' = FirstRecs /\ hand' = None
  /\ pc' = "run"
  /\ UNCHANGED <<zst, index, mode, todo, removed, job, now, faults, past>>

\* The segment cannot be opened: the writer thread returns.
OpenFails ==
  /\ pc = "open"
  /\ pc' = "dead"
  /\ Fails("open")
  /\ UNCHANGED <<files, process, now, stamp, flushed, retired, verified, cut>>

\* What flush() does to the active part.
Flush ==
  /\ part' = [part EXCEPT ![active].recs = @ \o buf]
  /\ flushed' = flushed \cup ToSet(buf)

\* end_utc of a segment sealed by the writer.
SealedEnd == last_utc

\* A sample of the current segment is appended, and flushed if 50 samples or
\* 1.5 s have passed since the last flush.
Sample(utc, flush) ==
  LET r == Len(stamp) + 1 IN
  /\ pc = "run" /\ utc < cur_end
  /\ Len(stamp) < MaxRecords
  /\ stamp' = Append(stamp, utc)
  /\ last_utc' = utc
  /\ IF flush
     THEN /\ part' = [part EXCEPT ![active].recs = @ \o Append(buf, r)]
          /\ flushed' = flushed \cup ToSet(buf) \cup {r}
          /\ buf' = << >>
     ELSE /\ buf' = Append(buf, r)
          /\ UNCHANGED <<part, flushed>>
  /\ UNCHANGED <<zst, index, pc, mode, todo, removed, job, active, cur_end, hand, now, faults,
                 retired, failed, verified, cut>>

\* A sample past the end: flush, close and seal, with the sample in hand.
Rotate(utc) ==
  /\ pc = "run" /\ utc >= cur_end
  /\ Len(stamp) < MaxRecords
  /\ stamp' = Append(stamp, utc)
  /\ hand' = Len(stamp) + 1
  /\ Flush
  /\ buf' = << >>
  /\ job' = [start |-> active, end |-> SealedEnd, count |-> 0, next |-> "open"]
  /\ pc' = "write"
  /\ UNCHANGED <<zst, index, mode, todo, removed, active, cur_end, last_utc, now, faults,
                 retired, failed, verified, cut>>

\* The queue is closed and drained: flush, close and seal.
Stop ==
  /\ pc = "run"
  /\ Flush
  /\ buf' = << >>
  /\ job' = [start |-> active, end |-> SealedEnd, count |-> 0, next |-> "down"]
  /\ pc' = "write"
  /\ UNCHANGED <<zst, index, mode, todo, removed, active, cur_end, last_utc, hand, now, faults,
                 stamp, retired, failed, verified, cut>>

\* The rest of the process ends although the writer has returned early, with the
\* sample in hand if there was one.
StopDead ==
  /\ pc = "dead"
  /\ pc' = "down"
  /\ hand' = None
  /\ UNCHANGED <<files, mode, todo, removed, job, active, cur_end, last_utc, buf, now, faults,
                 past>>

-----------------------------------------------------------------------------
(* The environment *)

Tick ==
  /\ now < MaxTime
  /\ now' = now + 1
  /\ UNCHANGED <<files, pc, process, faults, past>>

\* What a kill leaves of the file being written: of the active part, some of the
\* records in the stdio buffer; of a .zst or of a segment's header, a file that
\* cannot be read; of index.csv, the lines written so far, and none if append()
\* has just created it.
CrashFiles ==
  \/ /\ pc = "run"
     /\ \E n \in 0 .. Len(buf) :
          part' = [part EXCEPT ![active].recs = @ \o SubSeq(buf, 1, n)]
     /\ UNCHANGED <<zst, index, cut>>
  \/ /\ pc = "write"
     /\ zst' = [zst EXCEPT ![job.start] = Broken]
     /\ UNCHANGED <<part, index, cut>>
  \/ /\ pc = "open"
     /\ part' = [part EXCEPT ![AlignedStart(OpenTime)] = Broken]
     /\ UNCHANGED <<zst, index, cut>>
  \/ /\ pc = "log" /\ ~index.exists
     /\ index' = [exists |-> TRUE, lines |-> << >>]
     /\ cut' = TRUE
     /\ UNCHANGED <<part, zst>>
  \/ /\ pc = "rebuild"
     /\ \E n \in 0 .. Len(RebuiltLines) - 1 :
          index' = [exists |-> TRUE, lines |-> SubSeq(RebuiltLines, 1, n)]
     /\ cut' = TRUE
     /\ UNCHANGED <<part, zst>>
  \/ UNCHANGED <<files, cut>>

\* The process is killed.
Crash ==
  /\ pc # "down" /\ faults < MaxFaults
  /\ CrashFiles
  /\ pc' = "down"
  /\ faults' = faults + 1
  /\ buf' = << >> /\ hand' = None /\ todo' = {}
  /\ UNCHANGED <<mode, removed, job, active, cur_end, last_utc, now, stamp, flushed, retired,
                 failed, verified>>

\* The bound on the clock is reached.
Exhausted == pc = "down" /\ now = MaxTime /\ UNCHANGED vars

Next ==
  \/ \E m \in {"run", "verify"} : Start(m)
  \/ \E s \in Starts : RecoverPart(s) \/ RemoveExpired(s)
  \/ Recovered \/ Retained \/ Rebuild
  \/ SealWrite \/ SealLog \/ SealRemove
  \/ SealWriteFails \/ IndexFails \/ RemoveFails
  \/ OpenSegment \/ OpenFails
  \/ \E utc \in now - Jitter .. now :
       Rotate(utc) \/ \E flush \in BOOLEAN : Sample(utc, flush)
  \/ Stop \/ StopDead
  \/ Tick \/ Crash
  \/ Exhausted

Spec == Init /\ [][Next]_vars

\* The process runs on once it is started; nothing obliges anyone to start or
\* stop it, and samples need not come.
Proceed ==
  \/ \E s \in Starts : RecoverPart(s) \/ RemoveExpired(s)
  \/ Recovered \/ Retained \/ Rebuild
  \/ SealWrite \/ SealLog \/ SealRemove
  \/ OpenSegment
FairSpec == Spec /\ WF_vars(Proceed)

-----------------------------------------------------------------------------
(* Properties *)

\* What `export` reads over all times (exporter.cpp:32-93): the records of every
\* indexed file, and a fresh index if this one is empty.
ExportRows == IF Rows(index) = << >> THEN Tail(RebuiltLines) ELSE Rows(index)
TimesExported(r) ==
  Cardinality({i \in DOMAIN ExportRows : r \in ToSet(zst[ExportRows[i].start].recs)})

\* A record that was flushed stays on disk whatever the process is doing when it
\* is killed, again and again: it is in a part that the next start will seal or
\* in a readable segment, until retention removes it (README.md:32). No failure
\* changes that but that of writing a .zst, after which the part is left to the
\* next segment that is opened in its slot.
OnDisk(r) == \E s \in Starts : r \in ToSet(part[s].recs) \cup ToSet(zst[s].recs)
FlushedStaysOnDisk ==
  "zst" \notin failed => \A r \in flushed \ retired : OnDisk(r)

\* seal_part "returns false on any I/O / format failure (the .part is left
\* intact)" (seal.hpp:12): so a failure to write a .zst costs nothing that was
\* flushed either.
FailedSealKeepsPart ==
  \A r \in flushed \ retired : OnDisk(r)

\* "A kill mid-write leaves at most ~1.5s of data unflushed; a dangling segment
\* is sealed automatically on the next start" (README.md:32-33): a run finds and
\* exports everything that was flushed before any number of kills, unless one of
\* them cut the creation or a rewrite of the index short (index.cpp:26-35, 95-100).
FlushedIsExported ==
  pc = "run" /\ failed = {} /\ ~cut =>
    \A r \in flushed \ retired : TimesExported(r) > 0 \/ r \in ToSet(part[active].recs)

\* A record is stored in one segment only, in the order of arrival, through all
\* rotations, restarts in the same slot and repeated recoveries.
OneSegmentPerRecord ==
  \A s, u \in Starts :
    /\ ToSet(part[s].recs) \cap (ToSet(part[u].recs) \cup ToSet(zst[u].recs)) # {} => s = u
    /\ ToSet(zst[s].recs) \cap ToSet(zst[u].recs) # {} => s = u
    /\ \A i, j \in DOMAIN zst[s].recs : i < j => zst[s].recs[i] < zst[s].recs[j]

\* A start that is not killed gets through the recovery, whatever earlier kills
\* have left behind, parts without a header included (seal.cpp:106-127), and the
\* rest of its way to the writer's loop or to the end of verify.
RecoveryCompletes == pc = "recover" ~> pc \in {"run", "dead", "down"}

\* "Stopping with Ctrl+C flushes and seals the current segment; nothing is lost"
\* (README.md:210): without a kill, all samples taken are exported, once.
CleanStopKeepsEverything ==
  pc = "down" /\ faults = 0 =>
    \A r \in DOMAIN stamp : r \notin retired => TimesExported(r) = 1

\* "verify - repair storage" (README.md:291): after it, whatever crashes came
\* before, every record on disk is exported, once, and no part is left.
VerifyRepairs ==
  pc = "down" /\ verified /\ failed = {} =>
    /\ \A r \in flushed \ retired : TimesExported(r) = 1
    /\ \A s \in Starts : part[s].exists => ~part[s].ok

\* Retention goes by the index row of a file, whose end is the latest arrival and
\* not the latest time (seal.cpp:136-138): it removes no record that is younger
\* than the limit by more than samples are out of order, whatever rows failures,
\* kills and repeated sealing have left.
RetentionKeepsRecent ==
  [][\A r \in retired' \ retired : stamp[r] < now - RetentionMs + Jitter]_vars

\* The export has "one row per probe attempt" (README.md:280), whatever kills and
\* recoveries came before.
ExportedOnce == \A r \in DOMAIN stamp : TimesExported(r) <= 1
=============================================================================
