------------------------- MODULE SegmentStoreProofs -------------------------
(* The properties of the store, for every length of segments, every retention,    *)
(* every disorder of the samples and any number of kills and failures: what was   *)
(* flushed stays on disk, in one segment; what is on disk is exported, and after  *)
(* a verify exactly once; a run that is stopped cleanly exports all it was given; *)
(* retention removes nothing recent; and what a second process may lose, and what *)
(* a window may miss beside one.                                                  *)
(*                                                                                *)
(* Each part adds to the invariant: CInv ties the process to the files, IInv      *)
(* follows a record from the buffer into a .zst, OInv keeps the files apart, XInv *)
(* ties the files to the index, NoFaults says what is so until the first fault,   *)
(* RInv what a row says of the times, BInv what a second process leaves, and WInv *)
(* which segments have rows, and how far these reach, beside it.                  *)
EXTENDS StoreBeside, DataLemmas, SequenceTheorems, FiniteSetTheorems, TLAPS
-----------------------------------------------------------------------------
(* The process and the files: so much holds with a second process beside it too *)

Sealing == pc \in {"write", "log", "remove"}

\* As much of the type invariant as the argument needs.
Shape ==
  /\ part \in [Starts -> File] /\ zst \in [Starts -> File]
  /\ pc \in Steps
  /\ todo \subseteq Starts
  /\ job = [start |-> job.start, end |-> job.end, count |-> job.count, next |-> job.next]
  /\ job.start \in Starts /\ job.next \in {"recover", "open", "down"}
  /\ active \in Starts /\ cur_end \in Nat
  /\ buf \in Seq(Record)
  /\ now \in FirstTime .. MaxTime
  /\ stamp \in Seq(Starts)
  /\ hand # None => hand \in Record /\ hand \in DOMAIN stamp

\* What cannot be read is taken to hold nothing, and the part that is written can be
\* read.
Readable ==
  /\ \A s \in Starts : /\ ~part[s].ok => part[s].recs = << >>
                       /\ ~zst[s].exists => zst[s].recs = << >>
                       /\ part[s].ok => part[s].exists
  /\ pc = "run" => part[active].ok

Exists(s) == part[s].exists \/ zst[s].exists
ToOpen ==
  \/ pc \in {"recover", "retain", "rebuild", "open"}
  \/ Sealing /\ job.next \in {"recover", "open"}

\* Time x is past for the clock, and time y for the segments to come.
PastBy(x, y) ==
  /\ x <= now
  /\ ToOpen => y <= OpenTime
  /\ pc = "run" => y <= cur_end
Passed(x) == PastBy(x, x + 1)

\* A segment is opened after all that exist: so the name is not that of a sealed
\* one, also when it is not that of a slot.
Times ==
  /\ \A s \in Starts : Exists(s) => Passed(s)
  /\ pc = "write" => Passed(job.start)
  /\ hand # None => pc \in {"open", "dead"} \/ (Sealing /\ job.next = "open")
  /\ ToOpen => OpenTime \in 0 .. now

CInv == Shape /\ Readable /\ Times

-----------------------------------------------------------------------------
(* Operators *)

\* A sample is stamped at a time there is.
LEMMA SampleTime ==
  ASSUME now \in FirstTime .. MaxTime, NEW utc \in now - Jitter .. now
  PROVE  utc \in Starts /\ utc \in Nat /\ utc <= now /\ now <= utc + Jitter
<1>1. now \in Nat /\ now <= MaxTime /\ MaxTime \in Nat /\ Jitter \in Nat /\ Jitter < now
  BY StoreAssumption
<1>2. utc \in Int /\ now - Jitter <= utc /\ utc <= now
  BY <1>1
<1> QED BY ONLY <1>1, <1>2 DEF Starts

\* No records, no elements.
LEMMA NoRecords == ToSet(<< >>) = {}
  BY DEF ToSet

\* Appending a record to a sequence adds it to the records.
LEMMA AppendRecords ==
  ASSUME NEW S, NEW q \in Seq(S), NEW x \in S
  PROVE  ToSet(Append(q, x)) = ToSet(q) \cup {x}
  <1>1. \A i \in DOMAIN q : Append(q, x)[i] = q[i]
    OBVIOUS
  <1>2. Append(q, x)[Len(q) + 1] = x /\ DOMAIN Append(q, x) = DOMAIN q \cup {Len(q) + 1}
    OBVIOUS
  <1> QED BY <1>1, <1>2 DEF ToSet

\* Two sequences put together hold the records of both.
LEMMA ConcatRecords ==
  ASSUME NEW S, NEW p \in Seq(S), NEW q \in Seq(S)
  PROVE  p \o q \in Seq(S) /\ ToSet(p \o q) = ToSet(p) \cup ToSet(q)
  <1>1. p \o q \in Seq(S) /\ DOMAIN (p \o q) = 1 .. Len(p) + Len(q)
    OBVIOUS
  <1>2. \A i \in DOMAIN p : i \in DOMAIN (p \o q) /\ (p \o q)[i] = p[i]
    OBVIOUS
  <1>3. \A i \in DOMAIN q : Len(p) + i \in DOMAIN (p \o q) /\ (p \o q)[Len(p) + i] = q[i]
    OBVIOUS
  <1>4. \A i \in DOMAIN (p \o q) :
          i \in DOMAIN p \/ \E j \in DOMAIN q : i = Len(p) + j
    <2> TAKE i \in DOMAIN (p \o q)
    <2>1. CASE i <= Len(p)
      BY <1>1, <2>1
    <2>2. CASE i > Len(p)
      <3>1. i - Len(p) \in DOMAIN q /\ i = Len(p) + (i - Len(p))
        BY <1>1, <2>2
      <3> QED BY <3>1
    <2> QED BY <1>1, <2>1, <2>2
  <1>5. ToSet(p \o q) \subseteq ToSet(p) \cup ToSet(q)
    BY <1>2, <1>3, <1>4 DEF ToSet
  <1>6. ToSet(p) \cup ToSet(q) \subseteq ToSet(p \o q)
    BY <1>2, <1>3 DEF ToSet
  <1> QED BY <1>1, <1>5, <1>6

\* The beginning of a sequence is a sequence, and holds no more.
LEMMA Beginning ==
  ASSUME NEW S, NEW q \in Seq(S), NEW n \in 0 .. Len(q)
  PROVE  SubSeq(q, 1, n) \in Seq(S) /\ ToSet(SubSeq(q, 1, n)) \subseteq ToSet(q)
  <1>1. /\ DOMAIN SubSeq(q, 1, n) = 1 .. n /\ 1 .. n \subseteq DOMAIN q
        /\ \A i \in 1 .. n : SubSeq(q, 1, n)[i] = q[i]
    OBVIOUS
  <1>2. ToSet(SubSeq(q, 1, n)) \subseteq ToSet(q)
    BY <1>1 DEF ToSet
  <1>3. SubSeq(q, 1, n) \in Seq(S)
    OBVIOUS
  <1> QED BY <1>2, <1>3

\* A segment that is opened begins at its first sample or at the slot of it, and
\* ends after it.
LEMMA Aligned ==
  ASSUME NEW utc \in Nat
  PROVE  AlignedStart(utc) \in 0 .. utc /\ utc < AlignedStart(utc) + SegMs
  <1> DEFINE slot == (utc \div SegMs) * SegMs
  <1>1. SegMs \in Nat /\ SegMs > 0
    BY StoreAssumption
  <1>2. utc \div SegMs \in Nat /\ utc % SegMs \in 0 .. SegMs - 1
    BY <1>1
  <1>3. utc = SegMs * (utc \div SegMs) + (utc % SegMs)
    BY <1>1
  <1>4. slot \in Nat /\ slot = SegMs * (utc \div SegMs)
    BY <1>1, <1>2
  <1>5. slot \in 0 .. utc /\ utc < slot + SegMs
    <2> HIDE DEF slot
    <2> QED BY <1>1, <1>2, <1>3, <1>4
  <1> QED BY <1>1, <1>5 DEF AlignedStart

-----------------------------------------------------------------------------
(* What the steps do to the files *)

\* The part of segment s is removed after sealing, created when it is opened, or gets
\* records from memory.
PartStep(s) ==
  \/ part'[s] = part[s]
  \/ pc = "remove" /\ s = job.start /\ part'[s] = Absent
  \/ /\ pc = "open" /\ s = AlignedStart(OpenTime) /\ part'[s] \in {Holding(<< >>), Broken}
     /\ now' = now /\ hand' = None
     /\ pc' = "down" \/ (pc' = "run" /\ cur_end' = s + SegMs)
  \/ /\ pc = "run" /\ s = active /\ part'[s].ok /\ part'[s].exists
     /\ \E new \in SUBSET (ToSet(buf) \cup {Len(stamp) + 1}) :
          ToSet(part'[s].recs) = ToSet(part[s].recs) \cup new

\* Its .zst is written from the part, left incomplete, or removed by retention.
ZstStep(s) ==
  \/ zst'[s] = zst[s]
  \/ /\ pc = "write" /\ s = job.start /\ UNCHANGED <<part, now>>
     /\ \/ part[s].ok /\ zst'[s] = Holding(part[s].recs)
        \/ zst'[s] = Broken
  \/ /\ pc = "retain" /\ s \in todo /\ zst'[s] = Absent /\ UNCHANGED <<part, now>>
     /\ ToSet(zst[s].recs) \subseteq retired'

FilesStep ==
  /\ part' \in [Starts -> File] /\ zst' \in [Starts -> File]
  /\ \A s \in Starts : PartStep(s) /\ ZstStep(s)

\* What comes from the buffer is added to the active part.
LEMMA Added ==
  ASSUME Shape, Readable, pc = "run", NEW more \in Seq(Record), UNCHANGED zst,
         part' = [part EXCEPT ![active].recs = @ \o more]
  PROVE  /\ part' \in [Starts -> File]
         /\ part'[active].ok /\ part'[active].exists
         /\ ToSet(part'[active].recs) = ToSet(part[active].recs) \cup ToSet(more)
         /\ \A s \in Starts : s # active => part'[s] = part[s]
         /\ \A s \in Starts : Exists(s)' <=> Exists(s)
  <1>1. part \in [Starts -> File] /\ active \in Starts
    BY DEF Shape
  <1>2. part[active].ok /\ part[active].exists
    BY <1>1 DEF Readable
  <1>3. part[active].recs \in Seq(Record)
    BY <1>1 DEF File
  <1>4. /\ part[active].recs \o more \in Seq(Record)
        /\ ToSet(part[active].recs \o more) = ToSet(part[active].recs) \cup ToSet(more)
    BY <1>3, ConcatRecords
  <1>5. part'[active] = [part[active] EXCEPT !.recs = part[active].recs \o more]
    BY <1>1
  <1>6. \A s \in Starts : s # active => part'[s] = part[s]
    BY <1>1
  <1>7. /\ part'[active] \in File /\ part'[active].ok /\ part'[active].exists
        /\ part'[active].recs = part[active].recs \o more
    BY <1>1, <1>2, <1>4, <1>5 DEF File
  <1>8. part' \in [Starts -> File]
    BY <1>1, <1>7
  <1>9. \A s \in Starts : Exists(s)' <=> Exists(s)
    BY <1>2, <1>6, <1>7 DEF Exists
  <1> QED BY <1>4, <1>6, <1>7, <1>8, <1>9

\* The records a sample, a rotation or a stop adds to the active part.
LEMMA SampleAdds ==
  ASSUME Shape, NEW utc \in now - Jitter .. now, NEW flush \in BOOLEAN, Sample(utc, flush)
  PROVE  /\ Len(stamp) + 1 \in Record /\ Append(buf, Len(stamp) + 1) \in Seq(Record)
         /\ ToSet(Append(buf, Len(stamp) + 1)) = ToSet(buf) \cup {Len(stamp) + 1}
         /\ \E more \in Seq(Record) :
              /\ ToSet(more) = IF flush THEN ToSet(buf) \cup {Len(stamp) + 1} ELSE {}
              /\ part' = [part EXCEPT ![active].recs = @ \o more]
              /\ flushed' = flushed \cup ToSet(more)
  <1> PICK r : r = Len(stamp) + 1
    OBVIOUS
  <1>1. r \in Record /\ buf \in Seq(Record)
    BY StoreAssumption DEF Sample, Shape, Record
  <1>2. Append(buf, r) \in Seq(Record) /\ ToSet(Append(buf, r)) = ToSet(buf) \cup {r}
    BY <1>1, AppendRecords
  <1>3. CASE flush
    <2>1. /\ part' = [part EXCEPT ![active].recs = @ \o Append(buf, r)]
          /\ flushed' = flushed \cup ToSet(buf) \cup {r}
      BY <1>3 DEF Sample
    <2> QED BY <1>1, <1>2, <1>3, <2>1
  <1>4. CASE ~flush
    <2>1. part \in [Starts -> File] /\ active \in Starts
      BY DEF Shape
    <2>2. part[active].recs \o << >> = part[active].recs
      BY <2>1 DEF File
    <2>3. part = [part EXCEPT ![active].recs = @ \o << >>]
      BY <2>1, <2>2 DEF File
    <2>4. << >> \in Seq(Record) /\ ToSet(<< >>) = {}
      BY NoRecords
    <2>5. part' = [part EXCEPT ![active].recs = @ \o << >>] /\ flushed' = flushed
      BY <1>4, <2>3 DEF Sample
    <2> QED BY <1>1, <1>2, <1>4, <2>4, <2>5
  <1> QED BY <1>3, <1>4

\* A step of the process, which may find the part that it seals gone if another process
\* is at work.
Moves == [Next]_vars \/ SealGone

\* Steps that write no part and no segment.
Quiet ==
  \/ \E m \in {"run", "verify"} : Start(m)
  \/ \E s \in Starts : RecoverPart(s)
  \/ Recovered \/ Retained \/ Rebuild \/ SealLog \/ IndexFails \/ RemoveFails
  \/ OpenFails \/ StopDead \/ Tick \/ SealGone \/ UNCHANGED vars

LEMMA QuietFiles == ASSUME Quiet PROVE part' = part /\ zst' = zst
  BY DEF Quiet, Start, RecoverPart, Recovered, Retained, Rebuild, SealLog, IndexFails, RemoveFails,
         OpenFails, StopDead, Tick, SealGone, vars, files

LEMMA NextKinds ==
  ASSUME Moves
  PROVE  \/ Quiet \/ SealWrite \/ SealWriteFails \/ SealRemove \/ OpenSegment \/ Stop \/ Crash
         \/ \E s \in Starts : RemoveExpired(s)
         \/ \E utc \in now - Jitter .. now :
              Rotate(utc) \/ \E flush \in BOOLEAN : Sample(utc, flush)
  BY DEF Moves, Next, Quiet, Exhausted

\* The segment that is opened, or that was being opened when a kill came.
LEMMA OpenedAt ==
  ASSUME CInv, pc = "open"
  PROVE  /\ OpenTime \in Nat /\ OpenTime <= now
         /\ AlignedStart(OpenTime) \in Starts
         /\ AlignedStart(OpenTime) <= OpenTime /\ OpenTime < AlignedStart(OpenTime) + SegMs
         /\ AlignedStart(OpenTime) <= now
         /\ ~zst[AlignedStart(OpenTime)].exists
  <1> PICK t : t = OpenTime
    OBVIOUS
  <1>1. t \in 0 .. now /\ (\A s \in Starts : Exists(s) => s + 1 <= t)
    BY DEF CInv, Times, ToOpen, Passed, PastBy
  <1>2. now \in Nat /\ now <= MaxTime /\ MaxTime \in Nat /\ t \in Nat /\ t <= now
    BY <1>1, StoreAssumption DEF CInv, Shape
  <1>3. AlignedStart(t) \in 0 .. t /\ t < AlignedStart(t) + SegMs
    BY <1>2, Aligned
  <1>4. AlignedStart(t) \in Starts /\ AlignedStart(t) <= t /\ AlignedStart(t) <= now
    <2> PICK u : u = AlignedStart(t)
      OBVIOUS
    <2>1. u \in 0 .. t
      BY <1>3
    <2> QED BY <1>2, <2>1 DEF Starts
  <1>5. ~zst[AlignedStart(t)].exists
    BY <1>1, <1>2, <1>4 DEF AlignedStart, Exists, Starts
  <1> QED BY <1>2, <1>3, <1>4, <1>5

LEMMA FilesChange == ASSUME CInv, Moves PROVE FilesStep
  <1>1. /\ part \in [Starts -> File] /\ zst \in [Starts -> File]
        /\ job.start \in Starts /\ active \in Starts /\ buf \in Seq(Record)
        /\ Absent \in File /\ Broken \in File /\ Holding(<< >>) \in File
    BY DEF CInv, Shape, Absent, Broken, Holding, File
  <1>2. CASE Quiet
    <2>1. part' = part /\ zst' = zst
      BY <1>2, QuietFiles
    <2> QED BY <1>1, <2>1 DEF FilesStep, PartStep, ZstStep
  <1>3. CASE SealWrite
    <2> PICK u \in Starts : u = job.start
      BY <1>1
    <2>1. /\ pc = "write" /\ part[u].ok /\ UNCHANGED <<part, now>>
          /\ zst' = [zst EXCEPT ![u] = Holding(part[u].recs)]
      BY <1>3 DEF SealWrite, OutFile
    <2>2. Holding(part[u].recs) \in File
      BY <1>1 DEF Holding, File
    <2>3. zst' \in [Starts -> File]
      BY <1>1, <2>1, <2>2
    <2>4. zst'[u] = Holding(part[u].recs) /\ \A s \in Starts : s # u => zst'[s] = zst[s]
      BY <1>1, <2>1
    <2> QED BY <1>1, <2>1, <2>3, <2>4 DEF FilesStep, PartStep, ZstStep
  <1>4. ASSUME pc = "write", UNCHANGED <<part, now>>,
               zst' \in {zst, [zst EXCEPT ![job.start] = Broken]}
        PROVE  FilesStep
    <2>1. zst' \in [Starts -> File]
      BY <1>1, <1>4
    <2>2. \A s \in Starts : zst'[s] = zst[s] \/ (s = job.start /\ zst'[s] = Broken)
      BY <1>1, <1>4
    <2> QED BY <1>1, <1>4, <2>1, <2>2 DEF FilesStep, PartStep, ZstStep
  <1>5. CASE SealWriteFails
    BY <1>4, <1>5 DEF SealWriteFails, process
  <1>6. CASE SealRemove
    <2>1. pc = "remove" /\ zst' = zst /\ part' = [part EXCEPT ![job.start] = Absent]
      BY <1>6 DEF SealRemove
    <2>2. part' \in [Starts -> File]
      BY <1>1, <2>1
    <2>3. \A s \in Starts : part'[s] = part[s] \/ (s = job.start /\ part'[s] = Absent)
      BY <1>1, <2>1
    <2> QED BY <1>1, <2>1, <2>2, <2>3 DEF FilesStep, PartStep, ZstStep
  <1>7. ASSUME NEW u \in Starts, RemoveExpired(u) PROVE FilesStep
    <2>1. pc = "retain" /\ u \in todo /\ part' = part /\ now' = now
      BY <1>7 DEF RemoveExpired
    <2>2. \/ zst' = zst
          \/ /\ zst' = [zst EXCEPT ![u] = Absent]
             /\ ToSet(zst[u].recs) \subseteq retired'
      BY <1>7 DEF RemoveExpired
    <2>3. zst' \in [Starts -> File]
      BY <1>1, <2>2
    <2>4. \A s \in Starts :
            zst'[s] = zst[s] \/ (s = u /\ zst'[s] = Absent /\ ToSet(zst[s].recs) \subseteq retired')
      BY <1>1, <2>2
    <2> QED BY <1>1, <2>1, <2>3, <2>4 DEF FilesStep, PartStep, ZstStep
  <1>8. ASSUME NEW f \in {Holding(<< >>), Broken}, pc = "open", zst' = zst, now' = now, hand' = None,
               part' = [part EXCEPT ![AlignedStart(OpenTime)] = f],
               pc' = "down" \/ (pc' = "run" /\ cur_end' = AlignedStart(OpenTime) + SegMs)
        PROVE  FilesStep
    <2> PICK u \in Starts : u = AlignedStart(OpenTime)
      BY <1>8, OpenedAt
    <2>1. part' = [part EXCEPT ![u] = f] /\ f \in File
      BY <1>1, <1>8
    <2>2. part' \in [Starts -> File]
      BY <1>1, <2>1
    <2>3. \A s \in Starts : part'[s] = part[s] \/ (s = u /\ part'[s] = f)
      BY <1>1, <2>1
    <2> QED BY <1>1, <1>8, <2>2, <2>3 DEF FilesStep, PartStep, ZstStep
  <1>9. CASE OpenSegment
    BY <1>8, <1>9 DEF OpenSegment
  <1>10. ASSUME pc = "run", zst' = zst, NEW more \in Seq(Record),
                ToSet(more) \subseteq ToSet(buf) \cup {Len(stamp) + 1},
                part' = [part EXCEPT ![active].recs = @ \o more]
         PROVE  FilesStep
    <2>1. /\ part' \in [Starts -> File] /\ part'[active].ok /\ part'[active].exists
          /\ ToSet(part'[active].recs) = ToSet(part[active].recs) \cup ToSet(more)
          /\ \A s \in Starts : s # active => part'[s] = part[s]
      BY <1>10, Added DEF CInv
    <2> QED BY <1>1, <1>10, <2>1 DEF FilesStep, PartStep, ZstStep
  <1>11. ASSUME NEW utc \in now - Jitter .. now, NEW flush \in BOOLEAN, Sample(utc, flush)
         PROVE  FilesStep
    <2>1. PICK more \in Seq(Record) :
            /\ ToSet(more) \subseteq ToSet(buf) \cup {Len(stamp) + 1}
            /\ part' = [part EXCEPT ![active].recs = @ \o more]
      BY <1>11, SampleAdds DEF CInv
    <2>2. pc = "run" /\ zst' = zst
      BY <1>11 DEF Sample
    <2> QED BY <1>10, <2>1, <2>2
  <1>12. ASSUME pc = "run", zst' = zst, Flush PROVE FilesStep
    BY <1>1, <1>10, <1>12 DEF Flush
  <1>13. ASSUME NEW utc \in now - Jitter .. now, Rotate(utc) PROVE FilesStep
    BY <1>12, <1>13 DEF Rotate
  <1>14. CASE Stop
    BY <1>12, <1>14 DEF Stop
  <1>15. CASE Crash
    <2>1. pc' = "down" /\ now' = now /\ hand' = None /\ CrashFiles
      BY <1>15 DEF Crash
    <2>2. ASSUME pc = "run", zst' = zst, NEW n \in 0 .. Len(buf),
                 part' = [part EXCEPT ![active].recs = @ \o SubSeq(buf, 1, n)]
          PROVE  FilesStep
      <3> PICK more : more = SubSeq(buf, 1, n)
        OBVIOUS
      <3>1. more \in Seq(Record) /\ ToSet(more) \subseteq ToSet(buf)
        BY <1>1, Beginning
      <3> QED BY <1>10, <2>2, <3>1
    <2>3. ASSUME pc = "write", part' = part, zst' = [zst EXCEPT ![job.start] = Broken]
          PROVE  FilesStep
      BY <1>4, <2>1, <2>3
    <2>4. ASSUME pc = "open", zst' = zst, part' = [part EXCEPT ![AlignedStart(OpenTime)] = Broken]
          PROVE  FilesStep
      BY <1>8, <2>1, <2>4
    <2>5. CASE UNCHANGED <<part, zst>>
      BY <1>1, <2>5 DEF FilesStep, PartStep, ZstStep
    <2> QED BY <2>1, <2>2, <2>3, <2>4, <2>5 DEF CrashFiles, files
  <1> QED BY <1>2, <1>3, <1>5, <1>6, <1>7, <1>9, <1>11, <1>13, <1>14, <1>15, NextKinds

-----------------------------------------------------------------------------
(* The control invariant *)

\* It holds of an empty directory.
LEMMA InitCInv == ASSUME Init PROVE CInv
  <1>1. Absent \in File /\ 0 \in Starts /\ now \in FirstTime .. MaxTime
    BY StoreAssumption DEF Init, Absent, File, Starts
  <1>2. job.start = 0 /\ job.next = "down"
    BY DEF Init, NoJob
  <1>3. Shape
    BY <1>1, <1>2 DEF Init, Shape, Steps, NoJob
  <1>4. Readable
    BY DEF Init, Readable, Absent
  <1>5. Times
    BY <1>2 DEF Init, Times, ToOpen, Exists, Sealing, Absent
  <1> QED BY <1>3, <1>4, <1>5 DEF CInv

\* The job of a seal_part that is called has the start of a segment, and a next step.
LEMMA JobIs ==
  ASSUME NEW s \in Starts, NEW e, NEW n \in {"recover", "open", "down"},
         job' = [start |-> s, end |-> e, count |-> 0, next |-> n]
  PROVE  /\ job' = [start |-> job'.start, end |-> job'.end, count |-> job'.count,
                    next |-> job'.next]
         /\ job'.start \in Starts /\ job'.next \in {"recover", "open", "down"}
         /\ job'.start = s /\ job'.next = n
  OBVIOUS

LEMMA QuietShape == ASSUME CInv, Quiet PROVE Shape'
  <1> USE DEF files, process, past
  <1>1. part' = part /\ zst' = zst
    BY QuietFiles
  <1>2. ASSUME NEW m \in {"run", "verify"}, Start(m) PROVE Shape'
    BY <1>2, StoreAssumption DEF Start, CInv, Shape, Leftover, Steps
  <1>3. ASSUME NEW s \in Starts, RecoverPart(s) PROVE Shape'
    <2>1. job' = job \/ job' = [start |-> s, end |-> 0, count |-> 0, next |-> "recover"]
      BY <1>3 DEF RecoverPart
    <2>2. /\ job' = [start |-> job'.start, end |-> job'.end, count |-> job'.count,
                      next |-> job'.next]
          /\ job'.start \in Starts /\ job'.next \in {"recover", "open", "down"}
      BY <2>1, JobIs DEF CInv, Shape
    <2>3. pc' \in Steps /\ todo' \subseteq Starts
      BY <1>3 DEF RecoverPart, CInv, Shape, Steps
    <2> QED BY <1>1, <1>3, <2>2, <2>3 DEF RecoverPart, CInv, Shape
  <1>4. CASE Recovered
    BY <1>4 DEF Recovered, CInv, Shape, Expired, Steps
  <1>5. CASE Retained \/ Rebuild
    BY <1>5 DEF Retained, Rebuild, CInv, Shape, Steps
  <1>6. CASE SealLog \/ IndexFails \/ RemoveFails
    BY <1>6 DEF SealLog, IndexFails, RemoveFails, CInv, Shape, Steps
  <1>7. CASE OpenFails \/ StopDead
    BY <1>7 DEF OpenFails, StopDead, CInv, Shape, Steps
  <1>8. CASE Tick
    BY <1>8, StoreAssumption DEF Tick, CInv, Shape
  <1>9. CASE SealGone \/ UNCHANGED vars
    BY <1>9 DEF SealGone, vars, CInv, Shape, Steps
  <1> QED BY <1>2, <1>3, <1>4, <1>5, <1>6, <1>7, <1>8, <1>9 DEF Quiet

LEMMA ShapeStep == ASSUME CInv, Moves PROVE Shape'
  <1> USE DEF process, past
  <1>1. part' \in [Starts -> File] /\ zst' \in [Starts -> File]
    BY FilesChange DEF FilesStep
  <1>2. CASE Quiet
    BY <1>2, QuietShape
  <1>3. CASE SealWrite
    <2>1. /\ job' = [start |-> job'.start, end |-> job'.end, count |-> job'.count,
                      next |-> job'.next]
          /\ job'.start = job.start /\ job'.next = job.next
      BY <1>3 DEF SealWrite, CInv, Shape
    <2> QED BY <1>1, <1>3, <2>1 DEF SealWrite, CInv, Shape, Steps
  <1>4. CASE SealWriteFails \/ SealRemove
    BY <1>1, <1>4 DEF SealWriteFails, SealRemove, CInv, Shape, Steps
  <1>5. CASE OpenSegment
    <2>1. FirstRecs \in Seq(Record)
      BY DEF FirstRecs, CInv, Shape, None
    <2> PICK u \in Starts : u = AlignedStart(OpenTime)
      BY <1>5, OpenedAt DEF OpenSegment
    <2>2. active' = u /\ cur_end' = u + SegMs
      BY <1>5 DEF OpenSegment
    <2>3. cur_end' \in Nat
      BY <2>2, StoreAssumption DEF Starts
    <2> QED BY <1>1, <1>5, <2>1, <2>2, <2>3 DEF OpenSegment, CInv, Shape, Steps
  <1>6. CASE Stop
    <2>1. job' = [start |-> active, end |-> SealedEnd, count |-> 0, next |-> "down"]
      BY <1>6 DEF Stop
    <2>2. /\ job' = [start |-> job'.start, end |-> job'.end, count |-> job'.count,
                      next |-> job'.next]
          /\ job'.start \in Starts /\ job'.next \in {"recover", "open", "down"}
      BY <2>1, JobIs DEF CInv, Shape
    <2> QED BY <1>1, <1>6, <2>2 DEF Stop, CInv, Shape, Steps
  <1>7. CASE Crash
    BY <1>1, <1>7 DEF Crash, CInv, Shape, Steps
  <1>8. ASSUME NEW s \in Starts, RemoveExpired(s) PROVE Shape'
    BY <1>1, <1>8 DEF RemoveExpired, CInv, Shape
  <1>9. ASSUME NEW utc \in now - Jitter .. now, Rotate(utc) PROVE Shape'
    <2>1. job' = [start |-> active, end |-> SealedEnd, count |-> 0, next |-> "open"]
      BY <1>9 DEF Rotate
    <2>2. /\ job' = [start |-> job'.start, end |-> job'.end, count |-> job'.count,
                      next |-> job'.next]
          /\ job'.start \in Starts /\ job'.next \in {"recover", "open", "down"}
      BY <2>1, JobIs DEF CInv, Shape
    <2>3. /\ utc \in Starts /\ stamp \in Seq(Starts) /\ Len(stamp) < MaxRecords
          /\ stamp' = Append(stamp, utc) /\ hand' = Len(stamp) + 1
      BY <1>9, SampleTime DEF Rotate, CInv, Shape
    <2>4. stamp' \in Seq(Starts) /\ hand' \in DOMAIN stamp' /\ hand' \in Record
      BY <2>3, StoreAssumption DEF Record
    <2> QED BY <1>1, <1>9, <2>2, <2>4 DEF Rotate, CInv, Shape, Steps
  <1>10. ASSUME NEW utc \in now - Jitter .. now, NEW flush \in BOOLEAN, Sample(utc, flush)
         PROVE  Shape'
    <2>1. /\ utc \in Starts /\ stamp \in Seq(Starts) /\ stamp' = Append(stamp, utc)
      BY <1>10, SampleTime DEF Sample, CInv, Shape
    <2>2. stamp' \in Seq(Starts) /\ DOMAIN stamp \subseteq DOMAIN stamp'
      BY <2>1
    <2>3. buf' = << >> \/ buf' = Append(buf, Len(stamp) + 1)
      BY <1>10 DEF Sample
    <2>4. buf' \in Seq(Record)
      <3>1. << >> \in Seq(Record) /\ Append(buf, Len(stamp) + 1) \in Seq(Record)
        BY <1>10, SampleAdds DEF CInv
      <3> QED BY ONLY <2>3, <3>1
    <2> QED BY <1>1, <1>10, <2>2, <2>4 DEF Sample, CInv, Shape
  <1> QED BY <1>2, <1>3, <1>4, <1>5, <1>6, <1>7, <1>8, <1>9, <1>10, NextKinds

\* What is past stays past.
LEMMA PastStays ==
  ASSUME CInv, Moves, NEW x \in Nat, NEW y \in Nat, x <= y, y <= x + 1, PastBy(x, y)
  PROVE  PastBy(x, y)'
  <1> USE DEF files, process, past
  <1>0. now \in Nat /\ cur_end \in Nat /\ SegMs \in Nat /\ SegMs > 0
        /\ (ToOpen => OpenTime \in 0 .. now) /\ job.next \in {"recover", "open", "down"}
    BY StoreAssumption DEF CInv, Shape, Times
  <1>1. ASSUME UNCHANGED <<now, hand, stamp>>, ToOpen' => ToOpen,
               pc' = "run" => pc = "run" /\ cur_end' = cur_end
        PROVE  PastBy(x, y)'
    BY <1>1 DEF PastBy, OpenTime
  <1>2. ASSUME NEW m \in {"run", "verify"}, Start(m) PROVE PastBy(x, y)'
    <2>1. now' = now + 1 /\ pc' = "recover" /\ hand' = None
      BY <1>2 DEF Start, CInv, Times, Sealing
    <2> QED BY <1>0, <2>1 DEF PastBy, OpenTime
  <1>3. ASSUME NEW s \in Starts, RecoverPart(s) PROVE PastBy(x, y)'
    BY <1>1, <1>3 DEF RecoverPart, ToOpen, Sealing
  <1>4. ASSUME NEW s \in Starts, RemoveExpired(s) PROVE PastBy(x, y)'
    BY <1>1, <1>4 DEF RemoveExpired, ToOpen, Sealing
  <1>5. CASE Recovered \/ Retained \/ Rebuild
    BY <1>1, <1>5 DEF Recovered, Retained, Rebuild, ToOpen, Sealing
  <1>6. CASE SealWrite
    <2>1. job'.next = job.next
      BY <1>6 DEF SealWrite, CInv, Shape
    <2> QED BY <1>1, <1>6, <2>1 DEF SealWrite, ToOpen, Sealing
  <1>7. CASE SealLog \/ SealRemove \/ SealWriteFails \/ SealGone \/ IndexFails \/ RemoveFails
    BY <1>0, <1>1, <1>7 DEF SealLog, SealRemove, SealWriteFails, SealGone, IndexFails, RemoveFails,
                            ToOpen, Sealing
  <1>8. CASE OpenFails
    BY <1>1, <1>8 DEF OpenFails, ToOpen, Sealing
  <1>9. CASE StopDead
    <2>1. pc' = "down" /\ now' = now
      BY <1>9 DEF StopDead
    <2> QED BY <2>1 DEF PastBy, ToOpen, Sealing
  <1>10. CASE OpenSegment
    <2>1. /\ pc = "open" /\ pc' = "run" /\ now' = now
          /\ cur_end' = AlignedStart(OpenTime) + SegMs
      BY <1>10 DEF OpenSegment
    <2> PICK t \in Nat : t = OpenTime
      BY <1>0, <2>1 DEF ToOpen
    <2>2. AlignedStart(t) \in 0 .. t /\ t < AlignedStart(t) + SegMs
      BY Aligned
    <2>3. y <= t /\ x <= now
      BY <2>1 DEF PastBy, ToOpen
    <2>4. y <= cur_end'
      BY <1>0, <2>1, <2>2, <2>3
    <2> QED BY <2>1, <2>3, <2>4 DEF PastBy, ToOpen, Sealing
  <1>11. ASSUME NEW utc \in now - Jitter .. now, Rotate(utc) PROVE PastBy(x, y)'
    <2>1. /\ pc = "run" /\ utc >= cur_end /\ now' = now /\ pc' = "write"
          /\ hand' = Len(stamp) + 1 /\ stamp' = Append(stamp, utc)
      BY <1>11 DEF Rotate
    <2>2. stamp \in Seq(Starts) /\ Jitter \in Nat /\ utc \in Int
      BY <1>0, StoreAssumption DEF CInv, Shape
    <2>3. hand' # None /\ stamp'[hand'] = utc
      BY <2>1, <2>2 DEF None
    <2>4. y <= utc
      BY <1>0, <2>1, <2>2 DEF PastBy
    <2> QED BY <2>1, <2>3, <2>4 DEF PastBy, OpenTime
  <1>12. ASSUME NEW utc \in now - Jitter .. now, NEW flush \in BOOLEAN, Sample(utc, flush)
         PROVE  PastBy(x, y)'
    <2>1. pc = "run" /\ pc' = pc /\ now' = now /\ cur_end' = cur_end
      BY <1>12 DEF Sample
    <2> QED BY <2>1 DEF PastBy, ToOpen, Sealing
  <1>13. CASE Stop
    <2>1. pc' = "write" /\ now' = now /\ job'.next = "down"
      BY <1>13 DEF Stop
    <2> QED BY <2>1 DEF PastBy, ToOpen, Sealing
  <1>14. CASE Crash
    <2>1. pc' = "down" /\ now' = now
      BY <1>14 DEF Crash
    <2> QED BY <2>1 DEF PastBy, ToOpen, Sealing
  <1>15. CASE Tick
    <2>1. now' = now + 1 /\ (ToOpen' <=> ToOpen) /\ pc' = pc /\ cur_end' = cur_end
          /\ hand' = hand /\ stamp' = stamp
      BY <1>15 DEF Tick, ToOpen, Sealing
    <2> QED BY <1>0, <2>1 DEF PastBy, OpenTime
  <1>16. CASE UNCHANGED vars
    BY <1>1, <1>16 DEF vars, ToOpen, Sealing
  <1> QED BY <1>2, <1>3, <1>4, <1>5, <1>6, <1>7, <1>8, <1>9, <1>10, <1>11, <1>12, <1>13, <1>14,
             <1>15, <1>16 DEF Moves, Next, Exhausted

LEMMA StartsAreTimes == \A s \in Starts : s \in Nat /\ s + 1 \in Nat /\ s <= s + 1
  BY StoreAssumption DEF Starts

LEMMA PassedStays ==
  ASSUME CInv, Moves, NEW s \in Starts, Passed(s) PROVE Passed(s)'
  BY PastStays, StartsAreTimes DEF Passed

LEMMA ReadableStep == ASSUME CInv, Moves PROVE Readable'
  <1>1. \A s \in Starts : PartStep(s) /\ ZstStep(s)
    BY FilesChange DEF FilesStep
  <1>2. ASSUME NEW s \in Starts
        PROVE  /\ ~part'[s].ok => part'[s].recs = << >>
               /\ ~zst'[s].exists => zst'[s].recs = << >>
               /\ part'[s].ok => part'[s].exists
               /\ pc = "run" /\ part[s].ok => part'[s].ok
    <2>1. PartStep(s) /\ ZstStep(s)
      BY <1>1
    <2>2. /\ ~part'[s].ok => part'[s].recs = << >>
          /\ part'[s].ok => part'[s].exists
          /\ pc = "run" /\ part[s].ok => part'[s].ok
      BY <2>1 DEF CInv, Readable, PartStep, Absent, Broken, Holding
    <2>3. ~zst'[s].exists => zst'[s].recs = << >>
      BY <2>1 DEF CInv, Readable, ZstStep, Absent, Broken, Holding
    <2> QED BY <2>2, <2>3
  <1>3. ASSUME pc' = "run" PROVE part'[active'].ok
    <2>1. CASE pc = "run" /\ active' = active
      BY <1>2, <2>1 DEF CInv, Shape, Readable
    <2>2. CASE OpenSegment
      <3> PICK u \in Starts : u = AlignedStart(OpenTime)
        BY <2>2, OpenedAt DEF OpenSegment
      <3>1. part' = [part EXCEPT ![u] = Holding(<< >>)] /\ active' = u
        BY <2>2 DEF OpenSegment
      <3> QED BY <3>1 DEF CInv, Shape, Holding
    <2>3. Quiet => pc = "run" /\ active' = active
      BY <1>3 DEF Quiet, Start, RecoverPart, Recovered, Retained, Rebuild, SealLog, IndexFails,
             RemoveFails, OpenFails, StopDead, Tick, SealGone, vars, process, CInv, Shape
    <2>4. ~(SealWrite \/ SealWriteFails \/ SealRemove \/ Stop \/ Crash)
      BY <1>3 DEF SealWrite, SealWriteFails, SealRemove, Stop, Crash, CInv, Shape
    <2>5. \A s \in Starts : ~RemoveExpired(s)
      BY <1>3 DEF RemoveExpired
    <2>6. ASSUME NEW utc \in now - Jitter .. now,
                 Rotate(utc) \/ \E flush \in BOOLEAN : Sample(utc, flush)
          PROVE  pc = "run" /\ active' = active
      BY <1>3, <2>6 DEF Rotate, Sample
    <2> QED BY <2>1, <2>2, <2>3, <2>4, <2>5, <2>6, NextKinds
  <1> QED BY <1>2, <1>3 DEF Readable

\* The files that come to be are those of a part that is written or opened.
LEMMA FilesArePast ==
  ASSUME CInv, Moves, NEW s \in Starts, Exists(s)' PROVE Passed(s)'
  <1>1. PartStep(s) /\ ZstStep(s)
    BY FilesChange DEF FilesStep
  <1>2. CASE Exists(s)
    BY <1>2, PassedStays DEF CInv, Times
  <1>3. CASE pc = "write" /\ s = job.start
    BY <1>3, PassedStays DEF CInv, Times
  <1>4. CASE /\ pc = "open" /\ s = AlignedStart(OpenTime) /\ now' = now
             /\ pc' = "down" \/ (pc' = "run" /\ cur_end' = s + SegMs)
    <2>1. s <= now /\ s \in Nat /\ s + 1 <= s + SegMs
      BY <1>4, OpenedAt, StoreAssumption DEF Starts
    <2> QED BY <1>4, <2>1 DEF Passed, PastBy, ToOpen, Sealing
  <1>5. CASE pc = "run" /\ s = active
    <2>1. Exists(s)
      BY <1>5 DEF CInv, Shape, Readable, Exists
    <2> QED BY <1>2, <2>1
  <1> QED BY <1>1, <1>2, <1>3, <1>4, <1>5 DEF PartStep, ZstStep, Exists, Absent

\* Opening follows on opening, but for the start of a command and for a rotation.
LEMMA OpeningStep ==
  ASSUME CInv, Moves
  PROVE  /\ ToOpen' => OpenTime' \in 0 .. now'
         /\ hand' # None => pc' \in {"open", "dead"} \/ (Sealing /\ job.next = "open")'
  <1> USE DEF files, process, past
  <1>0. /\ now \in Nat /\ (ToOpen => OpenTime \in 0 .. now)
        /\ hand # None => pc \in {"open", "dead"} \/ (Sealing /\ job.next = "open")
        /\ job.next \in {"recover", "open", "down"}
    BY StoreAssumption DEF CInv, Shape, Times
  <1> DEFINE G == /\ ToOpen' => OpenTime' \in 0 .. now'
                  /\ hand' # None => pc' \in {"open", "dead"} \/ (Sealing /\ job.next = "open")'
  <1>1. ASSUME UNCHANGED <<now, hand, stamp>>, ToOpen' => ToOpen,
               hand # None => pc' \in {"open", "dead"} \/ (Sealing /\ job.next = "open")'
        PROVE  G
    BY <1>0, <1>1 DEF OpenTime
  <1>2. ASSUME NEW m \in {"run", "verify"}, Start(m) PROVE G
    <2>1. now' = now + 1 /\ hand' = None
      BY <1>0, <1>2 DEF Start, Sealing
    <2> QED BY <1>0, <2>1 DEF OpenTime
  <1>3. ASSUME NEW s \in Starts, RecoverPart(s) PROVE G
    BY <1>0, <1>1, <1>3 DEF RecoverPart, ToOpen, Sealing
  <1>4. ASSUME NEW s \in Starts, RemoveExpired(s) PROVE G
    BY <1>0, <1>1, <1>4 DEF RemoveExpired, ToOpen, Sealing
  <1>5. CASE Recovered \/ Retained \/ Rebuild
    BY <1>0, <1>1, <1>5 DEF Recovered, Retained, Rebuild, ToOpen, Sealing
  <1>6. CASE SealWrite
    <2>1. job'.next = job.next
      BY <1>6 DEF SealWrite, CInv, Shape
    <2> QED BY <1>0, <1>1, <1>6, <2>1 DEF SealWrite, ToOpen, Sealing
  <1>7. CASE SealLog \/ SealRemove \/ SealWriteFails \/ SealGone \/ IndexFails \/ RemoveFails
    BY <1>0, <1>1, <1>7 DEF SealLog, SealRemove, SealWriteFails, SealGone, IndexFails, RemoveFails,
                            ToOpen, Sealing
  <1>8. CASE OpenFails
    BY <1>0, <1>1, <1>8 DEF OpenFails, ToOpen, Sealing
  <1>9. CASE StopDead \/ Crash
    BY <1>9 DEF StopDead, Crash, ToOpen, Sealing
  <1>10. CASE OpenSegment
    BY <1>10 DEF OpenSegment, ToOpen, Sealing
  <1>11. ASSUME NEW utc \in now - Jitter .. now, Rotate(utc) PROVE G
    <2>1. /\ utc \in Starts /\ utc <= now /\ now' = now /\ pc' = "write" /\ job'.next = "open"
          /\ hand' = Len(stamp) + 1 /\ stamp' = Append(stamp, utc) /\ stamp \in Seq(Starts)
      BY <1>11, SampleTime DEF Rotate, CInv, Shape
    <2>2. hand' # None /\ stamp'[hand'] = utc
      BY <2>1 DEF None
    <2>3. utc \in 0 .. now
      BY <1>0, <2>1, StartsAreTimes
    <2> QED BY <2>1, <2>2, <2>3 DEF OpenTime, Sealing
  <1>12. ASSUME NEW utc \in now - Jitter .. now, NEW flush \in BOOLEAN, Sample(utc, flush) PROVE G
    <2>1. pc = "run" /\ pc' = pc /\ hand' = hand
      BY <1>12 DEF Sample
    <2> QED BY <1>0, <2>1 DEF ToOpen, Sealing
  <1>13. CASE Stop
    <2>1. pc = "run" /\ pc' = "write" /\ job'.next = "down" /\ hand' = hand
      BY <1>13 DEF Stop
    <2> QED BY <1>0, <2>1 DEF ToOpen, Sealing
  <1>14. CASE Tick
    <2>1. now' = now + 1 /\ (ToOpen' <=> ToOpen) /\ (Sealing' <=> Sealing) /\ pc' = pc
          /\ job' = job /\ hand' = hand /\ stamp' = stamp
      BY <1>14 DEF Tick, ToOpen, Sealing
    <2> QED BY <1>0, <2>1 DEF OpenTime
  <1>15. CASE UNCHANGED vars
    BY <1>0, <1>1, <1>15 DEF vars, ToOpen, Sealing
  <1> QED BY <1>2, <1>3, <1>4, <1>5, <1>6, <1>7, <1>8, <1>9, <1>10, <1>11, <1>12, <1>13, <1>14,
             <1>15 DEF Moves, Next, Exhausted

\* The part that is to be sealed can be read when seal_part is called.
LEMMA WriteStep ==
  ASSUME CInv, Moves, pc' = "write"
  PROVE  \/ part'[job'.start].ok
         \/ pc = "write" /\ UNCHANGED <<job, part>>
  <1>1. ASSUME NEW s \in Starts, RecoverPart(s) PROVE part'[job'.start].ok
    BY <1>1 DEF RecoverPart, files
  <1>2. ASSUME pc = "run", job'.start = active, Flush PROVE part'[job'.start].ok
    BY <1>2 DEF CInv, Shape, Readable, Flush, File
  <1>3. Tick \/ UNCHANGED vars => pc = "write" /\ UNCHANGED <<job, part>>
    BY DEF Tick, vars, process, files
  <1>4. ~(\/ \E m \in {"run", "verify"} : Start(m)
          \/ Recovered \/ Retained \/ Rebuild \/ SealLog \/ IndexFails \/ RemoveFails
          \/ OpenFails \/ StopDead \/ SealGone)
    BY DEF Start, Recovered, Retained, Rebuild, SealLog, IndexFails, RemoveFails, OpenFails,
           StopDead, SealGone, CInv, Shape
  <1>5. ~(SealWrite \/ SealWriteFails \/ SealRemove \/ OpenSegment \/ Crash)
    BY DEF SealWrite, SealWriteFails, SealRemove, OpenSegment, Crash, CInv, Shape
  <1>6. Stop => pc = "run" /\ job'.start = active /\ Flush
    BY DEF Stop
  <1>7. \A s \in Starts : ~RemoveExpired(s)
    BY DEF RemoveExpired
  <1>8. ASSUME NEW utc \in now - Jitter .. now, Rotate(utc)
        PROVE  pc = "run" /\ job'.start = active /\ Flush
    BY <1>8 DEF Rotate
  <1>9. ASSUME NEW utc \in now - Jitter .. now, NEW flush \in BOOLEAN, Sample(utc, flush)
        PROVE  FALSE
    BY <1>9 DEF Sample
  <1> QED BY <1>1, <1>2, <1>3, <1>4, <1>5, <1>6, <1>7, <1>8, <1>9, NextKinds DEF Quiet

LEMMA TimesStep == ASSUME CInv, Moves PROVE Times'
  <1>1. /\ ToOpen' => OpenTime' \in 0 .. now'
        /\ hand' # None => pc' \in {"open", "dead"} \/ (Sealing /\ job.next = "open")'
    BY OpeningStep
  <1>2. \A s \in Starts : Exists(s)' => Passed(s)'
    BY FilesArePast
  <1>3. ASSUME pc' = "write" PROVE Passed(job.start)'
    <2> PICK u \in Starts : u = job'.start
      BY ShapeStep DEF Shape
    <2>1. Passed(u)' => Passed(job.start)'
      BY DEF Passed, PastBy
    <2>2. CASE part'[u].ok
      BY <1>2, <2>1, <2>2, ReadableStep DEF Readable, Exists
    <2>3. CASE pc = "write" /\ job' = job
      BY <2>1, <2>3, PassedStays DEF CInv, Times
    <2> QED BY <1>3, <2>2, <2>3, WriteStep
  <1> QED BY <1>1, <1>2, <1>3 DEF Times

\* Every step keeps the control invariant.
LEMMA NextCInv == ASSUME CInv, Moves PROVE CInv'
  BY ShapeStep, ReadableStep, TimesStep DEF CInv

-----------------------------------------------------------------------------
(* What is flushed is not lost: the inductive invariant *)

\* The part that is sealed can be read.
JobReadable == pc = "write" => part[job.start].ok

\* A segment beside a readable part was sealed from that part, so that the part can
\* be sealed again over it.
ZstIsOlder == \A s \in Starts : part[s].ok => ToSet(zst[s].recs) \subseteq ToSet(part[s].recs)

\* What a part holds is sealed or was removed by retention: it can be lost.
Behind(s) == ToSet(part[s].recs) \subseteq ToSet(zst[s].recs) \cup retired

\* The part that is about to be removed can be lost, whatever has failed before.
SealedFirst == pc \in {"log", "remove"} => Behind(job.start)

\* The parts that cannot be lost but that somebody will come to.
InCare(s) ==
  \/ pc \in {"down", "dead"}
  \/ s \in todo /\ (pc = "recover" \/ (Sealing /\ job.next = "recover"))
  \/ pc = "write" /\ s = job.start
  \/ pc = "run" /\ s = active
Care == "zst" \notin failed => \A s \in Starts : InCare(s) \/ Behind(s)

Lossless == JobReadable /\ ZstIsOlder /\ SealedFirst /\ Care /\ FlushedStaysOnDisk
IInv == Shape /\ Readable /\ Times /\ Lossless

LEMMA Control == ASSUME IInv PROVE CInv /\ Lossless
  BY DEF IInv, CInv

LEMMA InitIInv == ASSUME Init PROVE IInv
  <1>1. Shape /\ Readable /\ Times
    BY InitCInv DEF CInv
  <1>2. JobReadable /\ ZstIsOlder /\ SealedFirst
    BY NoRecords DEF Init, JobReadable, ZstIsOlder, SealedFirst, Absent
  <1>3. Care /\ FlushedStaysOnDisk
    BY DEF Init, Care, InCare, FlushedStaysOnDisk
  <1> QED BY <1>1, <1>2, <1>3 DEF IInv, Lossless

\* What the steps that write no part and no segment leave as it is.
LEMMA SameFiles ==
  ASSUME IInv, UNCHANGED <<part, zst, flushed, retired>>, failed \subseteq failed'
  PROVE  FlushedStaysOnDisk' /\ ZstIsOlder' /\ (\A s \in Starts : Behind(s)' <=> Behind(s))
  BY DEF IInv, Lossless, FlushedStaysOnDisk, OnDisk, ZstIsOlder, Behind

\* Steps that only go on: a part comes into care when a command is started, and leaves it
\* when it turns out to hold nothing or is to be removed.
LEMMA GoOnStep == ASSUME IInv, Quiet PROVE Lossless'
  <1> USE DEF files, process, past, Fails
  <1>1. FlushedStaysOnDisk' /\ ZstIsOlder' /\ (\A s \in Starts : Behind(s)' <=> Behind(s))
    <2>1. UNCHANGED <<part, zst, flushed, retired>> /\ failed \subseteq failed'
      BY DEF Quiet, Start, RecoverPart, Recovered, Retained, Rebuild, SealLog, IndexFails,
             RemoveFails, OpenFails, StopDead, Tick, SealGone, vars
    <2> QED BY <2>1, SameFiles
  <1>0. /\ JobReadable /\ SealedFirst /\ Care /\ job.start \in Starts
        /\ job.next \in {"recover", "open", "down"}
    BY DEF IInv, Lossless, Shape
  <1>2. ASSUME NEW m \in {"run", "verify"}, Start(m) PROVE Lossless'
    <2>1. JobReadable' /\ SealedFirst'
      BY <1>2 DEF Start, JobReadable, SealedFirst
    <2>2. Care'
      BY NoRecords, <1>1, <1>2 DEF Start, IInv, Readable, Care, InCare, Behind, Leftover
    <2> QED BY <1>1, <2>1, <2>2 DEF Lossless
  <1>3. ASSUME NEW s \in Starts, RecoverPart(s) PROVE Lossless'
    <2>1. ~part[s].ok => Behind(s)
      BY NoRecords DEF IInv, Readable, Behind
    <2>2. Care'
      BY <1>0, <1>1, <1>3, <2>1 DEF RecoverPart, Care, InCare, Sealing
    <2>3. JobReadable' /\ SealedFirst'
      BY <1>3 DEF RecoverPart, JobReadable, SealedFirst
    <2> QED BY <1>1, <2>2, <2>3 DEF Lossless
  <1>4. CASE Recovered
    BY <1>0, <1>1, <1>4 DEF Recovered, Lossless, JobReadable, SealedFirst, Care, InCare, Sealing
  <1>5. CASE Retained \/ Rebuild
    BY <1>0, <1>1, <1>5
       DEF Retained, Rebuild, Lossless, JobReadable, SealedFirst, Care, InCare, Sealing
  <1>6. CASE SealLog
    BY <1>0, <1>1, <1>6 DEF SealLog, Lossless, JobReadable, SealedFirst, Care, InCare, Sealing
  <1>7. CASE IndexFails
    BY <1>0, <1>1, <1>7 DEF IndexFails, Lossless, JobReadable, SealedFirst, Care, InCare, Sealing
  <1>8. CASE RemoveFails
    BY <1>0, <1>1, <1>8 DEF RemoveFails, Lossless, JobReadable, SealedFirst, Care, InCare, Sealing
  <1>9. CASE OpenFails \/ StopDead
    BY <1>0, <1>1, <1>9
       DEF OpenFails, StopDead, Lossless, JobReadable, SealedFirst, Care, InCare, Sealing
  <1>10. CASE Tick \/ UNCHANGED vars
    BY <1>0, <1>1, <1>10 DEF Tick, vars, Lossless, JobReadable, SealedFirst, Care, InCare, Sealing
  <1>11. ~SealGone
    BY <1>0 DEF SealGone, JobReadable
  <1> QED BY <1>2, <1>3, <1>4, <1>5, <1>6, <1>7, <1>8, <1>9, <1>10, <1>11 DEF Quiet

\* The .zst is written over one that holds no more.
LEMMA SealWriteStep ==
  ASSUME IInv, SealWrite
  PROVE  Lossless'
  <1> PICK u \in Starts : u = job.start
    BY DEF IInv, Shape
  <1>1. /\ u \in Starts /\ part[u].ok /\ zst \in [Starts -> File]
        /\ zst' = [zst EXCEPT ![u] = Holding(part[u].recs)]
        /\ UNCHANGED <<part, flushed, retired, failed>> /\ pc' = "log"
    BY DEF SealWrite, IInv, Shape, OutFile, past
  <1>2. /\ zst'[u] = Holding(part[u].recs)
        /\ \A s \in Starts : s # u => zst'[s] = zst[s]
    BY <1>1
  <1>3. job'.start = u /\ job'.next = job.next
    BY DEF SealWrite, IInv, Shape
  <1>4. ZstIsOlder'
    BY <1>1, <1>2 DEF IInv, Lossless, ZstIsOlder, Holding
  <1>5. /\ Behind(u)'
        /\ \A s \in Starts : Behind(s) => Behind(s)'
    BY <1>1, <1>2 DEF Behind, Holding
  <1>6. SealedFirst' /\ JobReadable'
    BY <1>1, <1>3, <1>5 DEF SealedFirst, JobReadable
  <1>7. Care'
    BY <1>1, <1>3, <1>5 DEF SealWrite, IInv, Lossless, Care, InCare, Sealing
  <1>8. FlushedStaysOnDisk'
    <2>1. \A r \in ToSet(part[u].recs) \cup ToSet(zst[u].recs) : r \in ToSet(part'[u].recs)
      BY <1>1 DEF IInv, Lossless, ZstIsOlder
    <2> QED BY <1>1, <1>2, <2>1 DEF IInv, Lossless, FlushedStaysOnDisk, OnDisk
  <1> QED BY <1>4, <1>6, <1>7, <1>8 DEF Lossless

\* The part that has been sealed is removed.
LEMMA SealRemoveStep ==
  ASSUME IInv, SealRemove
  PROVE  Lossless'
  <1> PICK u \in Starts : u = job.start
    BY DEF IInv, Shape
  <1>1. /\ u \in Starts /\ part \in [Starts -> File] /\ Behind(u)
        /\ part' = [part EXCEPT ![u] = Absent]
        /\ UNCHANGED <<zst, flushed, retired, failed>>
    BY DEF SealRemove, IInv, Lossless, Shape, SealedFirst, past
  <1>2. /\ part'[u] = Absent
        /\ \A s \in Starts : s # u => part'[s] = part[s]
    BY <1>1
  <1>3. SealedFirst' /\ JobReadable'
    BY DEF SealRemove, IInv, Shape, SealedFirst, JobReadable
  <1>4. ZstIsOlder'
    BY <1>1, <1>2 DEF IInv, Lossless, ZstIsOlder, Absent
  <1>5. \A s \in Starts : Behind(s) \/ s = u => Behind(s)'
    BY <1>1, <1>2, NoRecords DEF Behind, Absent
  <1>6. Care'
    BY <1>1, <1>5 DEF SealRemove, IInv, Lossless, Shape, Care, InCare, Sealing, process
  <1>7. FlushedStaysOnDisk'
    BY <1>1, <1>2 DEF IInv, Lossless, FlushedStaysOnDisk, OnDisk, Behind
  <1> QED BY <1>3, <1>4, <1>6, <1>7 DEF Lossless

\* A .zst that could not be written.
LEMMA SealWriteFailsStep ==
  ASSUME IInv, SealWriteFails
  PROVE  Lossless'
  <1> PICK u \in Starts : u = job.start
    BY DEF IInv, Shape
  <1>1. /\ u \in Starts /\ zst \in [Starts -> File]
        /\ zst' \in {zst, [zst EXCEPT ![u] = Broken]}
        /\ UNCHANGED part /\ "zst" \in failed'
    BY DEF SealWriteFails, Fails, IInv, Shape
  <1>2. \A s \in Starts : zst'[s] = zst[s] \/ zst'[s] = Broken
    BY <1>1
  <1>3. SealedFirst' /\ JobReadable'
    BY DEF SealWriteFails, IInv, Shape, SealedFirst, JobReadable
  <1>4. ZstIsOlder'
    BY <1>1, <1>2, NoRecords DEF IInv, Lossless, ZstIsOlder, Broken
  <1>5. Care' /\ FlushedStaysOnDisk'
    BY <1>1 DEF Care, FlushedStaysOnDisk
  <1> QED BY <1>3, <1>4, <1>5 DEF Lossless

\* Retention removes a segment, and what it holds is no longer asked for.
LEMMA RemoveExpiredStep ==
  ASSUME IInv, NEW u \in Starts, RemoveExpired(u)
  PROVE  Lossless'
  <1>1. /\ pc = "retain" /\ pc' = pc /\ todo' \subseteq todo
        /\ UNCHANGED <<part, flushed, failed>>
        /\ zst \in [Starts -> File] /\ zst' \in {zst, [zst EXCEPT ![u] = Absent]}
        /\ retired' = retired \cup (ToSet(zst[u].recs) \ ToSet(zst'[u].recs))
    <2>1. CASE zst[u].exists
      <3>1. zst'[u] = Absent
        BY <2>1 DEF RemoveExpired, IInv, Shape
      <3> QED BY <2>1, <3>1, NoRecords DEF RemoveExpired, IInv, Shape, Absent
    <2>2. CASE ~zst[u].exists
      BY <2>2 DEF RemoveExpired, IInv, Shape
    <2> QED BY <2>1, <2>2
  <1>2. /\ zst'[u] \in {zst[u], Absent}
        /\ \A s \in Starts : s # u => zst'[s] = zst[s]
    BY <1>1
  <1>3. SealedFirst' /\ JobReadable'
    BY <1>1 DEF SealedFirst, JobReadable
  <1>4. ZstIsOlder'
    BY <1>1, <1>2, NoRecords DEF IInv, Lossless, ZstIsOlder, Absent
  <1>5. Care'
    <2>1. \A s \in Starts : Behind(s) => Behind(s)'
      BY <1>1, <1>2 DEF Behind
    <2> QED BY <1>1, <2>1 DEF IInv, Lossless, Care, InCare, Sealing
  <1>6. FlushedStaysOnDisk'
    BY <1>1, <1>2 DEF IInv, Lossless, FlushedStaysOnDisk, OnDisk
  <1> QED BY <1>3, <1>4, <1>5, <1>6 DEF Lossless

\* A part is created, over one that can be lost if there is one of its name, and
\* beside no segment.
LEMMA OpenSegmentStep ==
  ASSUME IInv, OpenSegment
  PROVE  Lossless'
  <1> PICK v \in Starts : v = AlignedStart(OpenTime)
    BY OpenedAt, Control DEF OpenSegment
  <1>1. /\ part' = [part EXCEPT ![v] = Holding(<< >>)]
        /\ active' = v /\ pc = "open" /\ pc' = "run"
        /\ UNCHANGED <<zst, flushed, retired, failed>>
    BY DEF OpenSegment, past
  <1>2. ~zst[v].exists
    BY <1>1, OpenedAt, Control
  <1>3. /\ part \in [Starts -> File] /\ part'[v] = Holding(<< >>)
        /\ \A s \in Starts : s # v => part'[s] = part[s]
    BY <1>1 DEF IInv, Shape
  <1>4. ToSet(zst[v].recs) = {}
    BY <1>2, NoRecords DEF IInv, Readable
  <1>5. ZstIsOlder'
    BY <1>1, <1>3, <1>4 DEF IInv, Lossless, ZstIsOlder
  <1>6. SealedFirst' /\ JobReadable'
    BY <1>1 DEF SealedFirst, JobReadable
  <1>7. \A s \in Starts : Behind(s) => Behind(s)'
    BY <1>1, <1>3, NoRecords DEF Behind, Holding
  <1>8. "zst" \notin failed => \A s \in Starts : Behind(s)
    BY <1>1 DEF IInv, Lossless, Care, InCare, Sealing
  <1>9. Care'
    BY <1>1, <1>7, <1>8 DEF Care
  <1>10. FlushedStaysOnDisk'
    BY <1>1, <1>3, <1>8 DEF IInv, Lossless, FlushedStaysOnDisk, OnDisk, Behind
  <1> QED BY <1>5, <1>6, <1>9, <1>10 DEF Lossless

\* A part that grows is still no older than its segment.
LEMMA AddedOlder ==
  ASSUME IInv, pc = "run", NEW more \in Seq(Record), UNCHANGED zst,
         part' = [part EXCEPT ![active].recs = @ \o more]
  PROVE  /\ part'[active].ok
         /\ ToSet(part'[active].recs) = ToSet(part[active].recs) \cup ToSet(more)
         /\ \A s \in Starts : s # active => part'[s] = part[s]
         /\ ZstIsOlder'
  <1>1. /\ part'[active].ok
        /\ ToSet(part'[active].recs) = ToSet(part[active].recs) \cup ToSet(more)
        /\ \A s \in Starts : s # active => part'[s] = part[s]
    BY Added DEF IInv
  <1>2. part[active].ok
    BY DEF IInv, Readable
  <1> QED BY <1>1, <1>2 DEF IInv, Lossless, ZstIsOlder

\* A sample of the current segment.
LEMMA SampleStep ==
  ASSUME IInv, NEW utc \in now - Jitter .. now, NEW flush \in BOOLEAN, Sample(utc, flush)
  PROVE  Lossless'
  <1>1. PICK more \in Seq(Record) : /\ part' = [part EXCEPT ![active].recs = @ \o more]
                                    /\ flushed' = flushed \cup ToSet(more)
    BY SampleAdds DEF IInv
  <1>2. /\ pc = "run" /\ pc' = pc
        /\ UNCHANGED <<zst, retired, failed, job, todo, active>>
    BY DEF Sample
  <1>3. /\ part'[active].ok
        /\ ToSet(part'[active].recs) = ToSet(part[active].recs) \cup ToSet(more)
        /\ \A s \in Starts : s # active => part'[s] = part[s]
        /\ ZstIsOlder'
    BY <1>1, <1>2, AddedOlder
  <1>4. SealedFirst' /\ JobReadable'
    BY <1>2 DEF SealedFirst, JobReadable
  <1>5. Care'
    BY <1>2, <1>3 DEF IInv, Lossless, Care, InCare, Behind, Sealing
  <1>6. FlushedStaysOnDisk'
    BY <1>1, <1>2, <1>3 DEF IInv, Lossless, Shape, FlushedStaysOnDisk, OnDisk
  <1> QED BY <1>3, <1>4, <1>5, <1>6 DEF Lossless

\* A rotation and a stop: the active part is flushed and to be sealed.
LEMMA FlushStep ==
  ASSUME IInv, pc = "run", pc' = "write", Flush, job'.start = active,
         UNCHANGED <<zst, active, retired, failed>>
  PROVE  Lossless'
  <1>1. /\ part'[active].ok
        /\ ToSet(part'[active].recs) = ToSet(part[active].recs) \cup ToSet(buf)
        /\ \A s \in Starts : s # active => part'[s] = part[s]
        /\ ZstIsOlder'
    BY AddedOlder DEF IInv, Shape, Flush
  <1>2. active \in Starts
    BY DEF IInv, Shape
  <1>3. JobReadable' /\ SealedFirst'
    BY <1>1, <1>2 DEF JobReadable, SealedFirst
  <1>4. Care'
    BY <1>1 DEF IInv, Lossless, Care, InCare, Behind, Sealing
  <1>5. FlushedStaysOnDisk'
    BY <1>1, <1>2 DEF IInv, Lossless, FlushedStaysOnDisk, OnDisk, Flush
  <1> QED BY <1>1, <1>3, <1>4, <1>5 DEF Lossless

\* A kill leaves of the file that is being written what CrashFiles says.
LEMMA CrashStep ==
  ASSUME IInv, Crash
  PROVE  Lossless'
  <1>1. pc' = "down" /\ UNCHANGED <<flushed, retired, failed>>
    BY DEF Crash
  <1>2. SealedFirst' /\ Care' /\ JobReadable'
    BY <1>1 DEF SealedFirst, Care, InCare, JobReadable
  <1>3. ASSUME FlushedStaysOnDisk', ZstIsOlder' PROVE Lossless'
    BY <1>2, <1>3 DEF Lossless
  <1>4. CASE UNCHANGED <<part, zst>>
    <2>1. FlushedStaysOnDisk' /\ ZstIsOlder'
      BY <1>1, <1>4, SameFiles
    <2> QED BY <1>3, <2>1
  <1>5. ASSUME pc = "run", UNCHANGED zst, NEW n \in 0 .. Len(buf),
               part' = [part EXCEPT ![active].recs = @ \o SubSeq(buf, 1, n)]
        PROVE  Lossless'
    <2> PICK more : more = SubSeq(buf, 1, n)
      OBVIOUS
    <2>1. more \in Seq(Record)
      BY Beginning DEF IInv, Shape
    <2>2. /\ ToSet(part'[active].recs) = ToSet(part[active].recs) \cup ToSet(more)
          /\ \A s \in Starts : s # active => part'[s] = part[s]
          /\ ZstIsOlder'
      BY <1>5, <2>1, AddedOlder
    <2>3. FlushedStaysOnDisk'
      BY <1>1, <1>5, <2>2 DEF IInv, Lossless, Shape, FlushedStaysOnDisk, OnDisk
    <2> QED BY <1>3, <2>2, <2>3
  <1>6. ASSUME pc = "write", UNCHANGED part, zst' = [zst EXCEPT ![job.start] = Broken]
        PROVE  Lossless'
    <2> PICK u \in Starts : u = job.start
      BY DEF IInv, Shape
    <2>1. /\ part[u].ok /\ zst \in [Starts -> File] /\ zst' = [zst EXCEPT ![u] = Broken]
      BY <1>6 DEF IInv, Lossless, Shape, JobReadable
    <2>2. /\ zst'[u] = Broken
          /\ \A s \in Starts : s # u => zst'[s] = zst[s]
      BY <2>1
    <2>3. ZstIsOlder'
      BY <1>6, <2>2, NoRecords DEF IInv, Lossless, ZstIsOlder, Broken
    <2>4. FlushedStaysOnDisk'
      <3>1. ToSet(zst[u].recs) \subseteq ToSet(part[u].recs)
        BY <2>1 DEF IInv, Lossless, ZstIsOlder
      <3> QED BY <1>1, <1>6, <2>2, <3>1 DEF IInv, Lossless, FlushedStaysOnDisk, OnDisk
    <2> QED BY <1>3, <2>3, <2>4
  <1>7. ASSUME pc = "open", UNCHANGED zst,
               part' = [part EXCEPT ![AlignedStart(OpenTime)] = Broken]
        PROVE  Lossless'
    <2> PICK v \in Starts : v = AlignedStart(OpenTime)
      BY <1>7, OpenedAt, Control
    <2>1. part \in [Starts -> File] /\ part' = [part EXCEPT ![v] = Broken]
      BY <1>7 DEF IInv, Shape
    <2>2. /\ part'[v] = Broken
          /\ \A s \in Starts : s # v => part'[s] = part[s]
      BY <2>1
    <2>3. ZstIsOlder'
      BY <1>7, <2>2 DEF IInv, Lossless, ZstIsOlder, Broken
    <2>4. FlushedStaysOnDisk'
      <3>1. "zst" \notin failed => Behind(v)
        BY <1>7 DEF IInv, Lossless, Care, InCare, Sealing
      <3> QED BY <1>1, <1>7, <2>2, <3>1 DEF IInv, Lossless, FlushedStaysOnDisk, OnDisk, Behind
    <2> QED BY <1>3, <2>3, <2>4
  <1>8. CrashFiles
    BY DEF Crash
  <1> QED BY <1>4, <1>5, <1>6, <1>7, <1>8 DEF CrashFiles, files

-----------------------------------------------------------------------------
(* What is flushed stays on disk *)

\* Every step keeps the invariant.
LEMMA NextIInv == ASSUME IInv, [Next]_vars PROVE IInv'
  <1> SUFFICES Lossless'
    BY Control, NextCInv DEF IInv, CInv, Moves
  <1>1. CASE Quiet
    BY <1>1, GoOnStep
  <1>2. CASE \E s \in Starts : RemoveExpired(s)
    BY <1>2, RemoveExpiredStep
  <1>3. CASE SealWrite
    BY <1>3, SealWriteStep
  <1>4. CASE SealRemove
    BY <1>4, SealRemoveStep
  <1>5. CASE SealWriteFails
    BY <1>5, SealWriteFailsStep
  <1>6. CASE OpenSegment
    BY <1>6, OpenSegmentStep
  <1>7. ASSUME NEW utc \in now - Jitter .. now, Rotate(utc) PROVE Lossless'
    BY <1>7, FlushStep DEF Rotate
  <1>8. ASSUME NEW utc \in now - Jitter .. now, NEW flush \in BOOLEAN, Sample(utc, flush)
        PROVE  Lossless'
    BY <1>8, SampleStep
  <1>9. CASE Stop
    BY <1>9, FlushStep DEF Stop
  <1>10. CASE Crash
    BY <1>10, CrashStep
  <1> QED BY <1>1, <1>2, <1>3, <1>4, <1>5, <1>6, <1>7, <1>8, <1>9, <1>10, NextKinds DEF Moves

\* What was flushed stays on disk through any number of kills, of the recovery too,
\* and through failures of every file operation but the writing of a .zst, until
\* retention removes it (segment_writer.cpp, seal.cpp, prober.cpp:344-383).
THEOREM FlushedSurvives == Spec => []FlushedStaysOnDisk
  <1>1. Init => IInv
    BY InitIInv
  <1>2. IInv /\ [Next]_vars => IInv'
    BY NextIInv
  <1>3. IInv => FlushedStaysOnDisk
    BY DEF IInv, Lossless
  <1> QED BY <1>1, <1>2, <1>3, PTL DEF Spec

-----------------------------------------------------------------------------
(* One segment for each record *)

Records(s) == ToSet(part[s].recs) \cup ToSet(zst[s].recs)
Ascends(q) == \A i, j \in DOMAIN q : i < j => q[i] < q[j]

\* The files of two segments have no record in common, and hold theirs in the order of
\* arrival.
FilesApart  == \A s, u \in Starts : Records(s) \cap Records(u) # {} => s = u
FilesAscend == \A s \in Starts : Ascends(part[s].recs) /\ Ascends(zst[s].recs)

\* Record r is later than all on disk.
After(r) == \A s \in Starts : \A d \in Records(s) : d < r

\* The records in the buffer, the sample in hand and the next are later than all on disk.
MemoryIsLater ==
  /\ Ascends(buf)
  /\ buf # << >> => pc = "run"
  /\ \A b \in ToSet(buf) : After(b) /\ b <= Len(stamp)
  /\ hand # None => After(hand)
  /\ After(Len(stamp) + 1)

OInv == FilesApart /\ FilesAscend /\ MemoryIsLater

\* Put together, two sequences of which the second is later ascend if both do.
LEMMA ConcatAscends ==
  ASSUME NEW p \in Seq(Nat), NEW q \in Seq(Nat), Ascends(p), Ascends(q),
         \A x \in ToSet(p), y \in ToSet(q) : x < y
  PROVE  Ascends(p \o q)
  <1> DEFINE w == p \o q
  <1>1. /\ w \in Seq(Nat) /\ DOMAIN w = 1 .. Len(p) + Len(q)
        /\ DOMAIN p = 1 .. Len(p) /\ DOMAIN q = 1 .. Len(q) /\ Len(p) \in Nat /\ Len(q) \in Nat
    OBVIOUS
  <1>2. \A i \in DOMAIN w : i <= Len(p) => i \in DOMAIN p /\ w[i] = p[i]
    OBVIOUS
  <1>3. \A i \in DOMAIN w : ~(i <= Len(p)) => i - Len(p) \in DOMAIN q /\ w[i] = q[i - Len(p)]
    OBVIOUS
  <1> SUFFICES ASSUME NEW i \in DOMAIN w, NEW j \in DOMAIN w, i < j PROVE w[i] < w[j]
    BY DEF Ascends
  <1> HIDE DEF w
  <1>4. i \in Nat /\ j \in Nat
    BY <1>1
  <1>5. CASE j <= Len(p)
    <2>1. i <= Len(p)
      BY <1>1, <1>4, <1>5
    <2> QED BY <1>2, <1>5, <2>1 DEF Ascends
  <1>6. CASE ~(j <= Len(p)) /\ i <= Len(p)
    <2>1. w[i] \in ToSet(p) /\ w[j] \in ToSet(q)
      BY <1>2, <1>3, <1>6 DEF ToSet
    <2> QED BY <2>1
  <1>7. CASE ~(j <= Len(p)) /\ ~(i <= Len(p))
    <2>1. i - Len(p) < j - Len(p)
      BY <1>1, <1>4
    <2> QED BY <1>3, <1>7, <2>1 DEF Ascends
  <1> QED BY <1>5, <1>6, <1>7

\* No record and one record ascend.
LEMMA FewAscend == Ascends(<< >>) /\ \A r : Ascends(<<r>>) /\ ToSet(<<r>>) = {r}
  <1>1. Ascends(<< >>)
    BY DEF Ascends
  <1>2. ASSUME NEW r PROVE Ascends(<<r>>) /\ ToSet(<<r>>) = {r}
    <2>1. DOMAIN <<r>> = {1} /\ <<r>>[1] = r
      OBVIOUS
    <2> QED BY <2>1 DEF Ascends, ToSet
  <1> QED BY <1>1, <1>2

\* So does the beginning of what ascends, and holds no more.
LEMMA BeginningAscends ==
  ASSUME NEW q \in Seq(Nat), Ascends(q), NEW n \in 0 .. Len(q)
  PROVE  Ascends(SubSeq(q, 1, n)) /\ ToSet(SubSeq(q, 1, n)) \subseteq ToSet(q)
  <1>1. /\ DOMAIN SubSeq(q, 1, n) = 1 .. n /\ 1 .. n \subseteq DOMAIN q
        /\ \A i \in 1 .. n : SubSeq(q, 1, n)[i] = q[i]
    OBVIOUS
  <1>2. Ascends(SubSeq(q, 1, n))
    BY <1>1 DEF Ascends
  <1>3. ToSet(SubSeq(q, 1, n)) \subseteq ToSet(q)
    BY <1>1 DEF ToSet
  <1> QED BY <1>2, <1>3

\* Records are numbers.
LEMMA RecordsAreNumbers ==
  ASSUME Shape
  PROVE  /\ Record \subseteq Nat /\ buf \in Seq(Nat) /\ Len(stamp) \in Nat
         /\ \A s \in Starts : part[s].recs \in Seq(Nat) /\ zst[s].recs \in Seq(Nat)
         /\ \A s \in Starts : Records(s) \subseteq Nat
         /\ ToSet(buf) \subseteq Nat /\ hand \in Nat
  <1>1. Record \subseteq Nat
    BY StoreAssumption DEF Record
  <1>2. \A q \in Seq(Record) : q \in Seq(Nat)
    BY <1>1, SeqMonotonic
  <1>3. \A s \in Starts : part[s].recs \in Seq(Record) /\ zst[s].recs \in Seq(Record)
    BY DEF Shape, File
  <1>4. \A q \in Seq(Nat) : ToSet(q) \subseteq Nat
    BY DEF ToSet
  <1>5. hand \in Nat
    BY <1>1 DEF Shape, None
  <1> QED BY <1>1, <1>2, <1>3, <1>4, <1>5 DEF Shape, Records

-----------------------------------------------------------------------------
\* A step by which files only lose records, or a .zst takes those of its part.
LEMMA ShrinkStep ==
  ASSUME CInv, OInv,
         \A s \in Starts : /\ part'[s].recs \in {part[s].recs, << >>}
                           /\ zst'[s].recs \in {zst[s].recs, part[s].recs, << >>},
         stamp' = stamp,
         hand' \in {hand, None},
         buf' = << >> \/ (buf' = buf /\ pc' = pc) \/ (hand # None /\ buf' = <<hand>> /\ pc' = "run")
  PROVE  OInv'
  <1>1. \A s \in Starts : Records(s)' \subseteq Records(s)
    BY NoRecords DEF Records
  <1>2. FilesApart'
    BY <1>1 DEF OInv, FilesApart
  <1>3. FilesAscend'
    BY FewAscend DEF OInv, FilesAscend
  <1>4. \A r : After(r) => After(r)'
    BY <1>1 DEF After
  <1>5. After(Len(stamp) + 1)' /\ (hand' # None => After(hand)')
    BY <1>4 DEF OInv, MemoryIsLater
  <1>6. /\ Ascends(buf)' /\ (buf' # << >> => pc' = "run")
        /\ \A b \in ToSet(buf') : After(b)' /\ b <= Len(stamp')
    <2>1. CASE buf' = << >>
      BY <2>1, NoRecords, FewAscend
    <2>2. CASE buf' = buf /\ pc' = pc
      BY <2>2, <1>4 DEF OInv, MemoryIsLater, Ascends
    <2>3. CASE hand # None /\ buf' = <<hand>> /\ pc' = "run"
      <3>1. hand <= Len(stamp)
        BY <2>3 DEF CInv, Shape
      <3>2. Ascends(<<hand>>) /\ ToSet(<<hand>>) = {hand}
        BY FewAscend
      <3> QED BY <2>3, <3>1, <3>2, <1>4 DEF OInv, MemoryIsLater, Ascends
    <2> QED BY <2>1, <2>2, <2>3
  <1> QED BY <1>2, <1>3, <1>5, <1>6 DEF OInv, MemoryIsLater

\* Records later than all on disk are added to the active part.
LEMMA GrowStep ==
  ASSUME CInv, OInv, pc = "run",
         NEW more \in Seq(Record), Ascends(more),
         \A m \in ToSet(more) : After(m),
         zst' = zst, part' = [part EXCEPT ![active].recs = @ \o more]
  PROVE  /\ FilesApart' /\ FilesAscend'
         /\ \A r \in Nat : After(r) /\ (\A m \in ToSet(more) : m < r) => After(r)'
  <1> PICK a \in Starts : a = active
    BY DEF CInv, Shape
  <1>1. /\ ToSet(part'[a].recs) = ToSet(part[a].recs) \cup ToSet(more)
        /\ \A s \in Starts : s # a => part'[s] = part[s]
    BY Added DEF CInv
  <1>2. part \in [Starts -> File] /\ part' = [part EXCEPT ![a].recs = @ \o more]
    BY DEF CInv, Shape
  <1>3. /\ Records(a)' = Records(a) \cup ToSet(more)
        /\ \A s \in Starts : s # a => Records(s)' = Records(s)
    BY <1>1 DEF Records
  <1>4. \A s \in Starts : Records(s) \subseteq Nat
    BY RecordsAreNumbers DEF CInv
  <1>5. \A s \in Starts : Records(s) \cap ToSet(more) = {}
    BY <1>4 DEF After
  <1>6. FilesApart'
    <2> SUFFICES ASSUME NEW s \in Starts, NEW u \in Starts, s # u
                 PROVE  Records(s)' \cap Records(u)' = {}
      BY DEF FilesApart
    <2>1. Records(s) \cap Records(u) = {}
      BY DEF OInv, FilesApart
    <2> QED BY <1>3, <1>5, <2>1
  <1>7. part'[a].recs = part[a].recs \o more
    BY <1>2 DEF File
  <1>8. Ascends(part[a].recs \o more)
    <2>1. part[a].recs \in Seq(Nat) /\ more \in Seq(Nat)
      BY RecordsAreNumbers, SeqMonotonic DEF CInv
    <2>2. \A x \in ToSet(part[a].recs), y \in ToSet(more) : x < y
      BY DEF After, Records
    <2> QED BY <2>1, <2>2, ConcatAscends DEF OInv, FilesAscend
  <1>9. FilesAscend'
    BY <1>1, <1>7, <1>8 DEF OInv, FilesAscend
  <1>10. ASSUME NEW r \in Nat, After(r), \A m \in ToSet(more) : m < r
         PROVE  After(r)'
    BY <1>3, <1>10 DEF After
  <1> QED BY <1>6, <1>9, <1>10

\* A sample is later than all before it, in the buffer and on disk.
LEMMA SampleOrder ==
  ASSUME CInv, OInv, NEW utc \in now - Jitter .. now, NEW flush \in BOOLEAN, Sample(utc, flush)
  PROVE  OInv'
  <1>1. /\ Len(stamp) \in Nat /\ Len(stamp) + 1 \in Record /\ Len(stamp') = Len(stamp) + 1
        /\ buf \in Seq(Record) /\ buf \in Seq(Nat)
    <2>1. stamp \in Seq(Starts) /\ utc \in Starts /\ stamp' = Append(stamp, utc)
      <3>1. stamp \in Seq(Starts) /\ now \in FirstTime .. MaxTime
        BY DEF CInv, Shape
      <3>2. stamp' = Append(stamp, utc) /\ utc \in now - Jitter .. now
        BY DEF Sample
      <3>3. utc \in Starts
        BY <3>1, SampleTime
      <3> QED BY <3>1, <3>2, <3>3
    <2>2. Len(stamp) \in Nat /\ Len(stamp') = Len(stamp) + 1
      BY <2>1
    <2>3. Len(stamp) + 1 \in Record
      BY <2>2, StoreAssumption DEF Sample, Record
    <2> QED BY <2>2, <2>3, RecordsAreNumbers DEF CInv, Shape
  <1> PICK r \in Record : r = Len(stamp) + 1
    BY <1>1
  <1>2. r \in Nat /\ r + 1 \in Nat /\ Len(stamp') = r
    BY <1>1
  <1>3. ToSet(buf) \subseteq Nat /\ \A b \in ToSet(buf) : b < r /\ b <= Len(stamp)
    BY <1>1, RecordsAreNumbers DEF CInv, OInv, MemoryIsLater
  <1>4. /\ Append(buf, r) = buf \o <<r>> /\ <<r>> \in Seq(Nat)
        /\ Append(buf, r) \in Seq(Record)
    BY <1>1, <1>2
  <1>5. ToSet(Append(buf, r)) = ToSet(buf) \cup {r}
    BY <1>1, AppendRecords
  <1>6. Ascends(Append(buf, r))
    <2>1. Ascends(buf) /\ Ascends(<<r>>) /\ ToSet(<<r>>) = {r}
      BY FewAscend DEF OInv, MemoryIsLater
    <2>2. \A x \in ToSet(buf), y \in ToSet(<<r>>) : x < y
      BY <1>3, <2>1
    <2> QED BY <1>1, <1>4, <2>1, <2>2, ConcatAscends
  <1>7. After(r) /\ \A b \in ToSet(buf) : After(b)
    BY DEF OInv, MemoryIsLater
  <1>8. \A s \in Starts : Records(s) \subseteq Nat
    BY RecordsAreNumbers DEF CInv
  <1>9. After(r + 1)
    BY <1>2, <1>7, <1>8 DEF After
  <1>10. hand = None /\ hand' = None /\ pc = "run" /\ pc' = "run"
    BY DEF Sample, CInv, Times, Sealing
  <1>11. CASE flush
    <2>1. buf' = << >> /\ zst' = zst /\ part' = [part EXCEPT ![active].recs = @ \o Append(buf, r)]
      BY <1>11 DEF Sample
    <2>2. \A m \in ToSet(Append(buf, r)) : After(m) /\ m < r + 1
      BY <1>2, <1>3, <1>5, <1>7
    <2>3. /\ FilesApart' /\ FilesAscend'
          /\ \A x \in Nat : After(x) /\ (\A m \in ToSet(Append(buf, r)) : m < x) => After(x)'
      BY <1>4, <1>6, <1>10, <2>1, <2>2, GrowStep
    <2>4. After(r + 1)'
      BY <1>2, <1>9, <2>2, <2>3
    <2>5. After(Len(stamp) + 1)'
      BY <1>2, <2>4 DEF After
    <2> QED BY <1>10, <2>1, <2>3, <2>5, NoRecords, FewAscend DEF OInv, MemoryIsLater
  <1>12. CASE ~flush
    <2>1. buf' = Append(buf, r) /\ UNCHANGED <<part, zst>>
      BY <1>12 DEF Sample
    <2>2. FilesApart' /\ FilesAscend'
      BY <2>1 DEF OInv, FilesApart, FilesAscend, Records
    <2>3. \A x : After(x) => After(x)'
      BY <2>1 DEF After, Records
    <2>4. After(Len(stamp) + 1)'
      BY <1>2, <1>9, <2>1 DEF After, Records
    <2>5. Ascends(buf)'
      BY <1>6, <2>1 DEF Ascends
    <2>6. \A b \in ToSet(buf') : After(b)' /\ b <= Len(stamp')
      BY <1>1, <1>2, <1>3, <1>5, <1>7, <2>1, <2>3
    <2> QED BY <1>10, <2>2, <2>4, <2>5, <2>6 DEF OInv, MemoryIsLater
  <1> QED BY <1>11, <1>12

\* What is in the buffer, or the beginning of it, comes to the active part.
LEMMA FlushOrder ==
  ASSUME CInv, OInv, pc = "run",
         NEW more \in Seq(Record), Ascends(more), ToSet(more) \subseteq ToSet(buf),
         zst' = zst, part' = [part EXCEPT ![active].recs = @ \o more]
  PROVE  /\ FilesApart' /\ FilesAscend'
         /\ \A r \in Nat : r > Len(stamp) => After(r)'
  <1>1. \A m \in ToSet(more) : After(m) /\ m \in Nat /\ m <= Len(stamp)
    BY RecordsAreNumbers DEF CInv, OInv, MemoryIsLater
  <1>2. /\ FilesApart' /\ FilesAscend'
        /\ \A r \in Nat : After(r) /\ (\A m \in ToSet(more) : m < r) => After(r)'
    BY <1>1, GrowStep
  <1>3. ASSUME NEW r \in Nat, r > Len(stamp) PROVE After(r)'
    <2>1. Len(stamp) \in Nat /\ \A s \in Starts : Records(s) \subseteq Nat
      BY RecordsAreNumbers DEF CInv
    <2>2. After(Len(stamp) + 1)
      BY DEF OInv, MemoryIsLater
    <2>3. After(r)
      BY <1>3, <2>1, <2>2 DEF After
    <2>4. \A m \in ToSet(more) : m < r
      BY <1>1, <1>3, <2>1
    <2> QED BY <1>2, <2>3, <2>4
  <1> QED BY <1>2, <1>3

\* A rotation flushes the buffer and takes the next sample in hand.
LEMMA RotateOrder ==
  ASSUME CInv, OInv, NEW utc \in now - Jitter .. now, Rotate(utc)
  PROVE  OInv'
  <1>1. /\ Len(stamp) \in Nat /\ Len(stamp') = Len(stamp) + 1 /\ hand' = Len(stamp) + 1
    <2>1. stamp \in Seq(Starts) /\ stamp' = Append(stamp, utc)
      BY DEF Rotate, CInv, Shape
    <2> QED BY <2>1 DEF Rotate
  <1>2. /\ FilesApart' /\ FilesAscend'
        /\ \A r \in Nat : r > Len(stamp) => After(r)'
    BY FlushOrder DEF Rotate, Flush, CInv, Shape, OInv, MemoryIsLater
  <1>3. After(hand)' /\ After(Len(stamp) + 1)'
    <2> PICK r \in Nat : r = Len(stamp) + 1
      BY <1>1
    <2>1. After(r)' /\ After(r + 1)'
      BY <1>1, <1>2
    <2> QED BY <1>1, <2>1 DEF After
  <1>4. buf' = << >>
    BY DEF Rotate
  <1> QED BY <1>2, <1>3, <1>4, NoRecords, FewAscend DEF OInv, MemoryIsLater

\* The end of a run flushes the buffer.
LEMMA StopOrder ==
  ASSUME CInv, OInv, Stop
  PROVE  OInv'
  <1>1. /\ FilesApart' /\ FilesAscend'
        /\ \A r \in Nat : r > Len(stamp) => After(r)'
    BY FlushOrder DEF Stop, Flush, CInv, Shape, OInv, MemoryIsLater
  <1>2. Len(stamp) \in Nat
    BY RecordsAreNumbers DEF CInv
  <1>3. After(Len(stamp) + 1)'
    BY <1>1, <1>2 DEF Stop, After
  <1>4. hand' = None /\ buf' = << >>
    BY DEF Stop, CInv, Times, Sealing
  <1> QED BY <1>1, <1>3, <1>4, NoRecords, FewAscend DEF OInv, MemoryIsLater

\* A kill leaves a file that cannot be read, or adds the beginning of the buffer.
LEMMA CrashOrder ==
  ASSUME CInv, OInv, Crash
  PROVE  OInv'
  <1>1. buf' = << >> /\ hand' = None /\ stamp' = stamp
    BY DEF Crash
  <1>2. part \in [Starts -> File] /\ zst \in [Starts -> File]
    BY DEF CInv, Shape
  <1>3. CASE UNCHANGED <<part, zst>>
    BY <1>1, <1>3, ShrinkStep
  <1>4. ASSUME pc = "run", UNCHANGED zst, NEW n \in 0 .. Len(buf),
               part' = [part EXCEPT ![active].recs = @ \o SubSeq(buf, 1, n)]
        PROVE  OInv'
    <2> PICK more \in Seq(Record) : more = SubSeq(buf, 1, n)
      BY Beginning DEF CInv, Shape
    <2>1. Ascends(more) /\ ToSet(more) \subseteq ToSet(buf)
      BY BeginningAscends, RecordsAreNumbers DEF CInv, OInv, MemoryIsLater
    <2>2. /\ FilesApart' /\ FilesAscend'
          /\ \A r \in Nat : r > Len(stamp) => After(r)'
      BY <1>4, <2>1, FlushOrder
    <2>3. Len(stamp) \in Nat
      BY RecordsAreNumbers DEF CInv
    <2>4. After(Len(stamp) + 1)'
      BY <1>1, <2>2, <2>3 DEF After
    <2> QED BY <1>1, <2>2, <2>4, NoRecords, FewAscend DEF OInv, MemoryIsLater
  <1>5. ASSUME UNCHANGED part, zst' = [zst EXCEPT ![job.start] = Broken]
        PROVE  OInv'
    <2>1. \A s \in Starts : zst'[s] \in {zst[s], Broken}
      BY <1>2, <1>5
    <2> QED BY <1>1, <1>5, <2>1, ShrinkStep DEF Broken
  <1>6. ASSUME UNCHANGED zst, part' = [part EXCEPT ![AlignedStart(OpenTime)] = Broken]
        PROVE  OInv'
    <2>1. \A s \in Starts : part'[s] \in {part[s], Broken}
      BY <1>2, <1>6
    <2> QED BY <1>1, <1>6, <2>1, ShrinkStep DEF Broken
  <1> QED BY <1>3, <1>4, <1>5, <1>6 DEF Crash, CrashFiles, files

\* Steps that write no record and take none in.
LEMMA OtherOrder ==
  ASSUME CInv, OInv, Quiet
  PROVE  OInv'
  <1> USE DEF files, process, past, Fails
  <1>1. part' = part /\ zst' = zst /\ stamp' = stamp /\ buf' = buf
    BY DEF Quiet, Start, RecoverPart, Recovered, Retained, Rebuild, SealLog, IndexFails,
           RemoveFails, OpenFails, StopDead, Tick, SealGone, vars
  <1>2. hand' = hand \/ hand' = None
    BY DEF Quiet, Start, RecoverPart, Recovered, Retained, Rebuild, SealLog, IndexFails,
           RemoveFails, OpenFails, StopDead, Tick, SealGone, vars
  <1>3. pc # "run" \/ pc' = pc
    BY DEF Quiet, Start, RecoverPart, Recovered, Retained, Rebuild, SealLog, IndexFails,
           RemoveFails, OpenFails, StopDead, Tick, SealGone, vars
  <1>4. buf' = << >> \/ (buf' = buf /\ pc' = pc)
    BY <1>1, <1>3 DEF OInv, MemoryIsLater
  <1> QED BY <1>1, <1>2, <1>4, ShrinkStep

\* Steps that replace a file.
LEMMA FileOrder ==
  ASSUME CInv, OInv,
         SealWrite \/ SealRemove \/ SealWriteFails \/ (\E s \in Starts : RemoveExpired(s))
           \/ OpenSegment
  PROVE  OInv'
  <1>1. part \in [Starts -> File] /\ zst \in [Starts -> File] /\ job.start \in Starts
    BY DEF CInv, Shape
  <1>2. pc # "run" /\ buf = << >>
    BY DEF OInv, MemoryIsLater, SealWrite, SealRemove, SealWriteFails, RemoveExpired, OpenSegment
  <1>3. CASE SealWrite
    <2>1. zst' = [zst EXCEPT ![job.start] = Holding(part[job.start].recs)]
      BY <1>3 DEF SealWrite, OutFile
    <2>2. \A s \in Starts : zst'[s].recs \in {zst[s].recs, part[s].recs}
      BY <1>1, <2>1 DEF Holding
    <2> QED BY <1>2, <1>3, <2>2, ShrinkStep DEF SealWrite, past
  <1>4. CASE SealRemove
    <2>1. \A s \in Starts : part'[s] \in {part[s], Absent}
      BY <1>1, <1>4 DEF SealRemove
    <2> QED BY <1>2, <1>4, <2>1, ShrinkStep DEF SealRemove, Absent, process, past
  <1>5. CASE SealWriteFails
    <2>1. \A s \in Starts : zst'[s] \in {zst[s], Broken}
      BY <1>1, <1>5 DEF SealWriteFails
    <2> QED BY <1>2, <1>5, <2>1, ShrinkStep DEF SealWriteFails, Broken, process
  <1>6. ASSUME NEW u \in Starts, RemoveExpired(u) PROVE OInv'
    <2>1. \A s \in Starts : zst'[s] \in {zst[s], Absent}
      BY <1>1, <1>6 DEF RemoveExpired
    <2> QED BY <1>2, <1>6, <2>1, ShrinkStep DEF RemoveExpired, Absent
  <1>7. CASE OpenSegment
    <2>1. \A s \in Starts : part'[s] \in {part[s], Holding(<< >>)}
      BY <1>1, <1>7 DEF OpenSegment
    <2>2. buf' = << >> \/ (hand # None /\ buf' = <<hand>> /\ pc' = "run")
      BY <1>7 DEF OpenSegment, FirstRecs
    <2> QED BY <1>7, <2>1, <2>2, ShrinkStep DEF OpenSegment, Holding, past
  <1> QED BY <1>3, <1>4, <1>5, <1>6, <1>7

\* The order holds of an empty directory.
LEMMA InitOInv == ASSUME Init PROVE OInv
  <1>1. \A s \in Starts : part[s].recs = << >> /\ zst[s].recs = << >>
    BY DEF Init, Absent
  <1>2. \A s \in Starts : Records(s) = {}
    BY <1>1, NoRecords DEF Records
  <1> QED BY <1>1, <1>2, NoRecords, FewAscend
          DEF Init, OInv, FilesApart, FilesAscend, MemoryIsLater, After

\* Every step keeps the order.
LEMMA NextOInv == ASSUME CInv, OInv, Moves PROVE OInv'
  <1>1. CASE \E utc \in now - Jitter .. now : Rotate(utc)
    BY <1>1, RotateOrder
  <1>2. CASE \E utc \in now - Jitter .. now : \E flush \in BOOLEAN : Sample(utc, flush)
    BY <1>2, SampleOrder
  <1>3. CASE Stop
    BY <1>3, StopOrder
  <1>4. CASE Crash
    BY <1>4, CrashOrder
  <1>5. CASE \/ SealWrite \/ SealRemove \/ SealWriteFails \/ (\E s \in Starts : RemoveExpired(s))
             \/ OpenSegment
    BY <1>5, FileOrder
  <1>6. CASE Quiet
    BY <1>6, OtherOrder
  <1> QED BY <1>1, <1>2, <1>3, <1>4, <1>5, <1>6, NextKinds

\* A record is never in the files of two segments, and a segment holds its records in
\* the order of arrival, whatever is killed or fails: a part is sealed to the .zst of
\* its own name only, and is not written again once another segment is open
\* (seal.cpp:49-99, prober.cpp:344-383).
THEOREM RecordsAreApart == Spec => []OneSegmentPerRecord
  <1>1. Init => IInv /\ OInv
    BY InitIInv, InitOInv
  <1>2. IInv /\ OInv /\ [Next]_vars => IInv' /\ OInv'
    BY Control, NextIInv, NextOInv DEF Moves
  <1>3. OInv => OneSegmentPerRecord
    BY DEF OInv, FilesApart, FilesAscend, Records, Ascends, OneSegmentPerRecord
  <1> QED BY <1>1, <1>2, <1>3, PTL DEF Spec

-----------------------------------------------------------------------------
(* The index *)

\* A finite set of numbers can be put in order.
LEMMA SortedSet ==
  ASSUME NEW S, IsFiniteSet(S), S \subseteq Nat
  PROVE  /\ Sorted(S) \in Seq(S) /\ Len(Sorted(S)) = Cardinality(S) /\ ToSet(Sorted(S)) = S
         /\ \A i, j \in DOMAIN Sorted(S) : i < j => Sorted(S)[i] < Sorted(S)[j]
  <1> DEFINE UpTo(x) == {y \in S : y <= x}
  <1> PICK n \in Nat : n = Cardinality(S)
    BY FS_CardinalityType
  <1>0. \A x \in S : x \in Nat
    OBVIOUS
  <1>1. ASSUME NEW x \in S PROVE Cardinality(UpTo(x)) \in 1 .. n
    <2>1. IsFiniteSet(UpTo(x)) /\ Cardinality(UpTo(x)) <= n
      BY FS_Subset
    <2>2. x \in UpTo(x)
      OBVIOUS
    <2>3. Cardinality(UpTo(x)) \in Nat /\ Cardinality(UpTo(x)) # 0
      BY <2>1, <2>2, FS_CardinalityType, FS_EmptySet
    <2> QED BY <2>1, <2>3
  <1>2. ASSUME NEW x \in S, NEW y \in S, x < y
        PROVE  Cardinality(UpTo(x)) < Cardinality(UpTo(y))
    <2>1. IsFiniteSet(UpTo(y)) /\ UpTo(x) \in SUBSET UpTo(y)
      <3>1. IsFiniteSet(UpTo(y))
        BY FS_Subset
      <3>2. \A z \in S : z <= x => z <= y
        BY <1>0, <1>2
      <3> QED BY <3>1, <3>2
    <2>2. y \in UpTo(y) /\ y \notin UpTo(x)
      BY <1>0, <1>2
    <2>3. Cardinality(UpTo(x)) <= Cardinality(UpTo(y)) /\ Cardinality(UpTo(x)) # Cardinality(UpTo(y))
      BY <2>1, <2>2, FS_Subset
    <2>4. Cardinality(UpTo(x)) \in Nat /\ Cardinality(UpTo(y)) \in Nat
      BY <1>1
    <2> QED BY <2>3, <2>4
  <1> PICK rank : rank = [x \in S |-> Cardinality(UpTo(x))]
    OBVIOUS
  <1>3. rank \in [S -> 1 .. n] /\ \A x, y \in S : x < y => rank[x] < rank[y]
    BY <1>1, <1>2
  <1> HIDE DEF UpTo
  <1>4. rank \in Injection(S, 1 .. n)
    <2>1. \A x, y \in S : rank[x] = rank[y] => x = y
      <3> SUFFICES ASSUME NEW x \in S, NEW y \in S, rank[x] = rank[y], x # y PROVE FALSE
        OBVIOUS
      <3>1. x < y \/ y < x
        OBVIOUS
      <3> QED BY <1>3, <3>1
    <2> QED BY <1>3, <2>1 DEF Injection, IsInjective
  <1>5. IsFiniteSet(1 .. n) /\ Cardinality(1 .. n) = n
    BY FS_Interval
  <1>6. rank \in Surjection(S, 1 .. n)
    BY <1>4, <1>5, FS_Injection
  <1>7. \A i \in 1 .. n : \E x \in S : rank[x] = i
    BY <1>6 DEF Surjection
  <1> PICK q : q = [i \in 1 .. n |-> CHOOSE x \in S : rank[x] = i]
    OBVIOUS
  <1>8. \A i \in 1 .. n : q[i] \in S /\ rank[q[i]] = i
    BY <1>7
  <1>9. q \in [1 .. n -> S] /\ \A i, j \in DOMAIN q : i < j => q[i] < q[j]
    <2>1. ASSUME NEW i \in 1 .. n, NEW j \in 1 .. n, i < j PROVE q[i] < q[j]
      <3> PICK x \in S, y \in S : x = q[i] /\ y = q[j]
        BY <1>8
      <3>1. rank[x] = i /\ rank[y] = j
        BY <1>8
      <3>2. x \in Nat /\ y \in Nat
        BY <1>0
      <3>3. ~(y < x) /\ x # y
        <4>1. y < x => j < i
          BY <1>3, <3>1
        <4>2. i \in Nat /\ j \in Nat /\ i < j
          BY <2>1
        <4>3. x = y => i = j
          BY <3>1
        <4> QED BY ONLY <3>2, <4>1, <4>2, <4>3
      <3>4. x < y
        BY <3>2, <3>3
      <3> QED BY <3>4
    <2> QED BY <1>8, <2>1
  <1> PICK p : p = Sorted(S)
    OBVIOUS
  <1>10. p \in [1 .. n -> S] /\ \A i, j \in DOMAIN p : i < j => p[i] < p[j]
    BY <1>9 DEF Sorted
  <1>11. p \in Injection(1 .. n, S)
    <2>1. \A i, j \in 1 .. n : p[i] = p[j] => i = j
      <3> SUFFICES ASSUME NEW i \in 1 .. n, NEW j \in 1 .. n, p[i] = p[j], i # j PROVE FALSE
        OBVIOUS
      <3>1. i < j \/ j < i
        OBVIOUS
      <3>2. p[i] \in Nat
        BY <1>10
      <3> QED BY <1>10, <3>1, <3>2
    <2> QED BY <1>10, <2>1 DEF Injection, IsInjective
  <1>12. p \in Surjection(1 .. n, S)
    BY <1>5, <1>11, FS_Injection
  <1>13. ToSet(p) = S
    BY <1>10, <1>12 DEF Surjection, ToSet
  <1> QED BY <1>10, <1>13

\* The latest time in a segment is that of its start or of one of its records.
LEMMA LatestTimeIs ==
  ASSUME NEW s \in Starts, NEW q \in Seq(DOMAIN stamp), stamp \in Seq(Starts)
  PROVE  /\ LatestTime(s, q) \in Starts /\ s <= LatestTime(s, q)
         /\ \A r \in ToSet(q) : stamp[r] <= LatestTime(s, q)
  <1>1. Starts \subseteq Nat /\ MaxTime \in Nat
    BY StoreAssumption DEF Starts
  <1>2. ASSUME NEW r \in ToSet(q)
        PROVE  ReadTime(s, r) \in Starts /\ stamp[r] <= ReadTime(s, r) /\ stamp[r] \in Nat
    <2>1. r \in DOMAIN stamp /\ stamp[r] \in Starts
      BY DEF ToSet
    <2> PICK a \in Starts : a = stamp[r]
      BY <2>1
    <2>2. \E x \in {s, a} : \A y \in {s, a} : x >= y
      <3>1. s >= a \/ a >= s
        BY <1>1
      <3> QED BY <1>1, <3>1
    <2>3. Max({s, a}) \in {s, a} /\ Max({s, a}) >= a
      BY <2>2 DEF Max
    <2> QED BY <1>1, <2>3 DEF ReadTime
  <1> DEFINE T == {s} \cup {ReadTime(s, r) : r \in ToSet(q)}
  <1>3. T \subseteq Starts /\ s \in T /\ \A r \in ToSet(q) : ReadTime(s, r) \in T
    BY <1>2
  <1>4. LatestTime(s, q) = Max(T)
    BY DEF LatestTime
  <1> HIDE DEF T
  <1>5. \E x \in T : \A y \in T : y <= x
    <2>1. T \subseteq Int /\ T # {} /\ \A y \in T : y <= MaxTime
      BY <1>1, <1>3 DEF Starts
    <2>2. MaxTime \in Int
      BY <1>1
    <2> QED BY ONLY <2>1, <2>2, GreatestInt
  <1>6. \E x \in T : \A y \in T : x >= y
    BY <1>1, <1>3, <1>5
  <1>7. Max(T) \in T /\ \A y \in T : y <= Max(T)
    BY <1>1, <1>3, <1>6 DEF Max
  <1>8. \A r \in ToSet(q) : stamp[r] <= Max(T)
    <2> SUFFICES ASSUME NEW r \in ToSet(q) PROVE stamp[r] <= Max(T)
      OBVIOUS
    <2>1. stamp[r] <= ReadTime(s, r) /\ ReadTime(s, r) <= Max(T) /\ ReadTime(s, r) \in Nat
          /\ Max(T) \in Nat /\ stamp[r] \in Nat
      BY <1>1, <1>2, <1>3, <1>7
    <2> QED BY <2>1
  <1> QED BY <1>3, <1>4, <1>7, <1>8

\* What is on disk has been taken from the queue.
LEMMA OnDiskIsStamped ==
  ASSUME Shape, OInv, NEW s \in Starts
  PROVE  /\ part[s].recs \in Seq(DOMAIN stamp) /\ zst[s].recs \in Seq(DOMAIN stamp)
         /\ Records(s) \subseteq DOMAIN stamp
  <1>1. part[s].recs \in Seq(Record) /\ zst[s].recs \in Seq(Record)
    BY DEF Shape, File
  <1>2. Record \subseteq Nat \ {0} /\ stamp \in Seq(Starts)
    BY StoreAssumption DEF Shape, Record
  <1>3. \A d \in Records(s) : d < Len(stamp) + 1
    BY DEF OInv, MemoryIsLater, After
  <1>4. Records(s) \subseteq Record
    BY <1>1 DEF Records, ToSet
  <1>5. \A d \in Records(s) : d \in DOMAIN stamp
    <2> SUFFICES ASSUME NEW d \in Records(s) PROVE d \in DOMAIN stamp
      OBVIOUS
    <2>1. d \in Nat \ {0} /\ d < Len(stamp) + 1
      BY <1>2, <1>3, <1>4
    <2> QED BY <1>2, <2>1
  <1>6. ASSUME NEW q \in Seq(Record), ToSet(q) \subseteq Records(s) PROVE q \in Seq(DOMAIN stamp)
    <2>1. \A i \in 1 .. Len(q) : q[i] \in DOMAIN stamp
      BY <1>5, <1>6 DEF ToSet
    <2> QED BY <2>1
  <1> QED BY <1>1, <1>5, <1>6 DEF Records

\* Starts are numbers, and there are finitely many.
LEMMA StartsAre == IsFiniteSet(Starts) /\ Starts \subseteq Nat /\ 0 \in Starts
  <1>1. MaxTime \in Nat
    BY StoreAssumption
  <1>2. IsFiniteSet(0 .. MaxTime)
    BY <1>1, FS_Interval
  <1> QED BY <1>1, <1>2 DEF Starts

\* rebuild() lists each readable .zst once.
LEMMA RebuiltIs ==
  ASSUME Shape, OInv
  PROVE  /\ RebuiltLines \in Seq(Line) /\ Len(RebuiltLines) >= 1
         /\ Tail(RebuiltLines) \in Seq(Line)
         /\ \A i \in DOMAIN Tail(RebuiltLines) :
              \E s \in Starts : zst[s].ok /\ Tail(RebuiltLines)[i] = RowOf(s)
         /\ \A s \in Starts : zst[s].ok =>
              \E i \in DOMAIN Tail(RebuiltLines) : Tail(RebuiltLines)[i] = RowOf(s)
         /\ \A i, j \in DOMAIN Tail(RebuiltLines) :
              Tail(RebuiltLines)[i].start = Tail(RebuiltLines)[j].start => i = j
  <1> PICK S : S = {s \in Starts : zst[s].ok}
    OBVIOUS
  <1>1. IsFiniteSet(S) /\ S \subseteq Nat /\ S \subseteq Starts
    BY StartsAre, FS_Subset
  <1> PICK q : q = Sorted(S)
    OBVIOUS
  <1>2. /\ q \in Seq(S) /\ ToSet(q) = S
        /\ \A i, j \in DOMAIN q : i < j => q[i] < q[j]
    BY <1>1, SortedSet
  <1>3. ASSUME NEW s \in Starts PROVE RowOf(s) \in Line /\ RowOf(s).start = s
    <2>1. zst[s].recs \in Seq(DOMAIN stamp) /\ stamp \in Seq(Starts)
      BY OnDiskIsStamped DEF Shape
    <2>2. LatestTime(s, zst[s].recs) \in Nat
      BY <2>1, LatestTimeIs, StartsAre
    <2>3. Len(zst[s].recs) \in Nat
      BY <2>1
    <2> QED BY <2>2, <2>3 DEF RowOf, Line
  <1> PICK w : w = [i \in DOMAIN q |-> RowOf(q[i])]
    OBVIOUS
  <1>4. /\ w \in Seq(Line) /\ DOMAIN w = DOMAIN q
        /\ \A i \in DOMAIN q : w[i] = RowOf(q[i]) /\ q[i] \in S
    <2>1. \A i \in 1 .. Len(q) : q[i] \in S /\ RowOf(q[i]) \in Line
      BY <1>1, <1>2, <1>3
    <2> QED BY <1>2, <2>1
  <1>5. RebuiltLines = <<HeaderLine>> \o w
    BY DEF RebuiltLines
  <1>6. HeaderLine \in Line
    BY StartsAre DEF HeaderLine, Line
  <1>7. RebuiltLines \in Seq(Line) /\ Len(RebuiltLines) >= 1 /\ Tail(RebuiltLines) = w
    <2>1. <<HeaderLine>> \in Seq(Line)
      BY <1>6
    <2> PICK h \in Line : h = HeaderLine
      BY <1>6
    <2>2. <<h>> \o w \in Seq(Line) /\ Len(<<h>> \o w) >= 1
      BY <1>4
    <2>3. Tail(<<h>> \o w) = w
      <3>1. Len(Tail(<<h>> \o w)) = Len(w) /\ Tail(<<h>> \o w) \in Seq(Line)
        BY <1>4
      <3>2. \A i \in 1 .. Len(w) : Tail(<<h>> \o w)[i] = w[i]
        BY <1>4
      <3> QED BY <1>4, <3>1, <3>2
    <2> QED BY <1>5, <2>2, <2>3
  <1>8. \A i \in DOMAIN w : \E s \in Starts : zst[s].ok /\ w[i] = RowOf(s)
    BY <1>4
  <1>9. \A s \in Starts : zst[s].ok => \E i \in DOMAIN w : w[i] = RowOf(s)
    <2> SUFFICES ASSUME NEW s \in Starts, zst[s].ok PROVE \E i \in DOMAIN w : w[i] = RowOf(s)
      OBVIOUS
    <2>0. s \in ToSet(q)
      BY <1>2
    <2>1. PICK i \in DOMAIN q : q[i] = s
      BY <2>0 DEF ToSet
    <2> QED BY <1>4, <2>1
  <1>10. ASSUME NEW i \in DOMAIN w, NEW j \in DOMAIN w, w[i].start = w[j].start PROVE i = j
    <2>1. q[i] = q[j] /\ q[i] \in Nat
      BY <1>1, <1>3, <1>4, <1>10
    <2>2. i \in Nat /\ j \in Nat
      BY <1>2, <1>4
    <2>3. i \in DOMAIN q /\ j \in DOMAIN q
      BY <1>4
    <2>4. ASSUME i < j PROVE FALSE
      BY ONLY <1>2, <2>1, <2>3, <2>4
    <2>5. ASSUME j < i PROVE FALSE
      BY ONLY <1>2, <2>1, <2>3, <2>5
    <2> QED BY ONLY <2>2, <2>4, <2>5
  <1>11. w \in Seq(Line) /\ \A i, j \in DOMAIN w : w[i].start = w[j].start => i = j
    BY <1>4, <1>10
  <1> HIDE DEF RowOf
  <1> QED BY ONLY <1>7, <1>8, <1>9, <1>11

-----------------------------------------------------------------------------
(* Types *)

\* What the types say beyond the invariant.
Rest ==
  /\ index \in [exists : BOOLEAN, lines : Seq(Line)]
  /\ mode \in {"run", "verify"} /\ removed \in BOOLEAN
  /\ job.end \in Nat /\ job.count \in Nat
  /\ last_utc \in Nat
  /\ faults \in 0 .. MaxFaults /\ Len(stamp) <= MaxRecords
  /\ flushed \subseteq Record /\ retired \subseteq Record
  /\ failed \subseteq Failures /\ verified \in BOOLEAN /\ cut \in BOOLEAN

\* The types are those of the invariant and the rest.
LEMMA TypesAre == ASSUME Shape, Rest PROVE TypeOK
  <1>1. job \in [start : Starts, end : Nat, count : Nat, next : {"recover", "open", "down"}]
    <2> PICK s, e, c, n : s = job.start /\ e = job.end /\ c = job.count /\ n = job.next
      OBVIOUS
    <2>1. job = [start |-> s, end |-> e, count |-> c, next |-> n]
      BY DEF Shape
    <2>2. s \in Starts /\ e \in Nat /\ c \in Nat /\ n \in {"recover", "open", "down"}
      BY DEF Shape, Rest
    <2> QED BY <2>1, <2>2
  <1>2. hand \in Record \cup {None}
    BY DEF Shape
  <1> QED BY <1>1, <1>2 DEF Shape, Rest, TypeOK

\* The rest holds at the start.
LEMMA InitRest == ASSUME Init PROVE Rest
  <1>1. index \in [exists : BOOLEAN, lines : Seq(Line)]
    <2>1. << >> \in Seq(Line)
      OBVIOUS
    <2> QED BY <2>1 DEF Init
  <1>2. job.end = 0 /\ job.count = 0
    BY DEF Init, NoJob
  <1>3. Len(stamp) = 0 /\ MaxRecords \in Nat /\ MaxFaults \in Nat /\ faults = 0
    BY StoreAssumption DEF Init
  <1>4. /\ mode = "run" /\ removed = FALSE /\ last_utc = 0 /\ flushed = {} /\ retired = {}
        /\ failed = {} /\ verified = FALSE /\ cut = FALSE
    BY DEF Init
  <1>5. faults \in 0 .. MaxFaults /\ Len(stamp) <= MaxRecords
    BY <1>3
  <1>6. /\ mode \in {"run", "verify"} /\ removed \in BOOLEAN /\ verified \in BOOLEAN
        /\ cut \in BOOLEAN
    BY <1>4
  <1>7. /\ flushed \subseteq Record /\ retired \subseteq Record /\ failed \subseteq Failures
    BY <1>4
  <1>8. job.end \in Nat /\ job.count \in Nat /\ last_utc \in Nat
    BY <1>2, <1>4
  <1> QED BY ONLY <1>1, <1>5, <1>6, <1>7, <1>8 DEF Rest

\* A file is flushed: the records are records.
LEMMA FilesHoldRecords ==
  ASSUME Shape, NEW s \in Starts
  PROVE  ToSet(zst[s].recs) \subseteq Record /\ ToSet(part[s].recs) \subseteq Record
         /\ ToSet(buf) \subseteq Record
  BY DEF Shape, File, ToSet

\* Every step keeps the rest.
LEMMA RestStep == ASSUME IInv, OInv, Rest, [Next]_vars PROVE Rest'
  <1> USE DEF files, process, past, Fails
  <1>0. Shape /\ now \in Nat /\ MaxFaults \in Nat /\ MaxRecords \in Nat /\ stamp \in Seq(Starts)
    BY StoreAssumption DEF IInv, Shape
  <1>1. ASSUME NEW m \in {"run", "verify"}, Start(m) PROVE Rest'
    BY <1>1 DEF Start, Rest
  <1>2. ASSUME NEW s \in Starts, RecoverPart(s) PROVE Rest'
    BY <1>2 DEF RecoverPart, Rest
  <1>3. ASSUME NEW s \in Starts, RemoveExpired(s) PROVE Rest'
    BY <1>0, <1>3, FilesHoldRecords DEF RemoveExpired, Rest
  <1>4. CASE Recovered \/ Retained \/ SealRemove \/ StopDead \/ Tick \/ Exhausted
    BY <1>4 DEF Recovered, Retained, SealRemove, StopDead, Tick, Exhausted, vars, Rest
  <1>5. CASE Rebuild
    <2>1. index' \in [exists : BOOLEAN, lines : Seq(Line)]
      BY <1>0, <1>5, RebuiltIs DEF Rebuild, NewLines
    <2> QED BY <1>5, <2>1 DEF Rebuild, Rest
  <1>6. CASE SealWrite
    <2> PICK s \in Starts : s = job.start
      BY <1>0 DEF Shape
    <2>1. part[s].recs \in Seq(DOMAIN stamp)
      BY <1>0, OnDiskIsStamped
    <2>2. LatestTime(s, part[s].recs) \in Nat /\ Len(part[s].recs) \in Nat
      BY <1>0, <2>1, LatestTimeIs, StartsAre
    <2>3. job = [start |-> s, end |-> job.end, count |-> job.count, next |-> job.next]
      BY <1>0 DEF Shape
    <2>4. job' = [start |-> s, end |-> IF job.end = 0 THEN LatestTime(s, part[s].recs) ELSE job.end,
                  count |-> Len(part[s].recs), next |-> job.next]
      BY <1>6, <2>3 DEF SealWrite
    <2> QED BY <1>6, <2>2, <2>4 DEF SealWrite, Rest
  <1>7. CASE SealLog
    <2> PICK row \in Line : row = [start |-> job.start, end |-> job.end, count |-> job.count]
      BY <1>0 DEF Rest, Shape, Line
    <2>1. HeaderLine \in Line
      BY StartsAre DEF HeaderLine, Line
    <2>2. index.lines \in Seq(Line) /\ Append(index.lines, row) \in Seq(Line)
          /\ <<HeaderLine, row>> \in Seq(Line)
      BY <2>1 DEF Rest
    <2>3. index' = AppendRow(index, row)
      BY <1>7 DEF SealLog
    <2>4. index' \in [exists : BOOLEAN, lines : Seq(Line)]
      BY <2>2, <2>3 DEF AppendRow
    <2> QED BY <1>7, <2>4 DEF SealLog, Rest
  <1>8. CASE SealWriteFails \/ IndexFails \/ RemoveFails \/ OpenFails
    <2>1. failed' \subseteq Failures /\ faults' \in 0 .. MaxFaults
      BY <1>0, <1>8 DEF SealWriteFails, IndexFails, RemoveFails, OpenFails, Rest
    <2>2. UNCHANGED <<index, process, stamp, flushed, retired, verified, cut>>
      BY <1>8 DEF SealWriteFails, IndexFails, RemoveFails, OpenFails
    <2> QED BY <2>1, <2>2 DEF Rest
  <1>9. CASE OpenSegment
    <2>1. OpenTime \in Nat
      BY <1>0, StartsAre DEF OpenTime, Shape
    <2>2. AlignedStart(OpenTime) \in Nat
      BY <2>1, Aligned
    <2>3. last_utc' \in Nat
      BY <1>9, <2>1, <2>2 DEF OpenSegment, OpenTime
    <2> QED BY <1>9, <2>3 DEF OpenSegment, Rest
  <1>10. ASSUME NEW utc \in now - Jitter .. now, Rotate(utc) PROVE Rest'
    <2>1. /\ Len(stamp') <= MaxRecords /\ flushed' \subseteq Record
      <3>1. utc \in Starts
        BY StoreAssumption, <1>0 DEF Shape, Starts
      <3>2. 0 \in Starts
        BY StartsAre
      <3> QED BY <1>0, <1>10, <3>1, <3>2, FilesHoldRecords DEF Rotate, Flush, Rest
    <2>2. job'.end \in Nat /\ job'.count \in Nat
      BY <1>10 DEF Rotate, SealedEnd, Rest
    <2> QED BY <1>10, <2>1, <2>2 DEF Rotate, Rest
  <1>11. ASSUME NEW utc \in now - Jitter .. now, NEW flush \in BOOLEAN, Sample(utc, flush)
         PROVE  Rest'
    <2>1. utc \in Starts /\ utc \in Nat /\ 0 \in Starts
      BY StoreAssumption, <1>0, StartsAre DEF Shape, Starts
    <2>2. Len(stamp) + 1 \in Record /\ Len(stamp') <= MaxRecords
      BY <1>0, <1>11, <2>1 DEF Sample, Record
    <2>3. flushed' \subseteq Record
      <3>1. ToSet(buf) \subseteq Record /\ flushed \subseteq Record
        BY <1>0, <2>1, FilesHoldRecords DEF Rest
      <3> QED BY <1>11, <2>2, <3>1 DEF Sample
    <2> QED BY <1>11, <2>1, <2>2, <2>3 DEF Sample, Rest
  <1>12. CASE Stop
    <2>1. flushed' \subseteq Record
      BY <1>0, <1>12, FilesHoldRecords, StartsAre DEF Stop, Flush, Rest
    <2>2. job'.end \in Nat /\ job'.count \in Nat
      BY <1>12 DEF Stop, SealedEnd, Rest
    <2> QED BY <1>12, <2>1, <2>2 DEF Stop, Rest
  <1>13. CASE Crash
    <2>1. index' \in [exists : BOOLEAN, lines : Seq(Line)] /\ cut' \in BOOLEAN
      <3>1. ASSUME NEW n \in 0 .. Len(RebuiltLines) - 1
            PROVE  SubSeq(RebuiltLines, 1, n) \in Seq(Line)
        <4>1. RebuiltLines \in Seq(Line)
          BY <1>0, RebuiltIs
        <4>2. n \in 0 .. Len(RebuiltLines)
          BY <4>1
        <4> QED BY <4>1, <4>2, Beginning
      <3>2. CASE UNCHANGED <<index, cut>>
        BY <3>2 DEF Rest
      <3>3. ASSUME NEW n \in 0 .. Len(RebuiltLines) - 1, cut' = TRUE,
                   index' = [exists |-> TRUE, lines |-> SubSeq(RebuiltLines, 1, n)]
            PROVE  index' \in [exists : BOOLEAN, lines : Seq(Line)] /\ cut' \in BOOLEAN
        BY <3>1, <3>3
      <3>4. ASSUME cut' = TRUE, index' = [exists |-> TRUE, lines |-> << >>]
            PROVE  index' \in [exists : BOOLEAN, lines : Seq(Line)] /\ cut' \in BOOLEAN
        BY <3>4
      <3> QED BY <1>13, <3>2, <3>3, <3>4 DEF Crash, CrashFiles
    <2>2. faults' \in 0 .. MaxFaults
      BY <1>0, <1>13 DEF Crash, Rest
    <2> QED BY <1>13, <2>1, <2>2 DEF Crash, Rest
  <1>14. CASE UNCHANGED vars
    BY <1>14 DEF vars, Rest
  <1> QED BY <1>1, <1>2, <1>3, <1>4, <1>5, <1>6, <1>7, <1>8, <1>9, <1>10, <1>11, <1>12, <1>13,
             <1>14 DEF Next

\* The files, the index and the state of the process keep their types, whatever is killed
\* or fails: sealing and rebuilding write rows, and segments begin at a time there is.
THEOREM StoreTypes == Spec => []TypeOK
  <1>1. Init => IInv /\ OInv /\ Rest
    BY InitIInv, InitOInv, InitRest
  <1>2. IInv /\ OInv /\ Rest /\ [Next]_vars => (IInv /\ OInv /\ Rest)'
    BY Control, NextIInv, NextOInv, RestStep DEF Moves
  <1>3. IInv /\ Rest => TypeOK
    BY TypesAre DEF IInv
  <1> QED BY <1>1, <1>2, <1>3, PTL DEF Spec

-----------------------------------------------------------------------------
(* What is exported: while no operation has failed and no rewrite of the index    *)
(* was cut short, a segment with records is listed, unless its part is still      *)
(* there; and a part that can be read is one that somebody will come to.          *)

Listed(s) == \E i \in DOMAIN Rows(index) : Rows(index)[i].start = s
Sound == failed = {} /\ ~cut

LinesThere ==
  /\ index.exists /\ ~cut => index.lines # << >>
  /\ ~index.exists => index.lines = << >>
ZstReadable == \A s \in Starts : ~zst[s].ok => zst[s].recs = << >>
Known == Sound => \A s \in Starts : zst[s].recs # << >> => Listed(s) \/ part[s].ok
JobListed == Sound /\ pc = "remove" => Listed(job.start)
PartsInHand ==
  failed = {} =>
    \A s \in Starts : part[s].ok => InCare(s) \/ (pc \in {"log", "remove"} /\ s = job.start)
VerifiedAtEnd == verified => pc = "down"

XInv == LinesThere /\ ZstReadable /\ Known /\ JobListed /\ PartsInHand /\ VerifiedAtEnd

\* Rows are lines.
LEMMA RowsAreLines ==
  ASSUME index \in [exists : BOOLEAN, lines : Seq(Line)]
  PROVE  Rows(index) \in Seq(Line)
  <1> PICK ls : ls = index.lines
    OBVIOUS
  <1>1. ls \in Seq(Line) /\ Rows(index) = IF ls = << >> THEN << >> ELSE Tail(ls)
    BY DEF Rows
  <1>2. CASE ls = << >>
    BY <1>1, <1>2
  <1>3. CASE ls # << >>
    <2>1. Tail(ls) \in Seq(Line)
      BY <1>1, <1>3
    <2> QED BY <1>1, <1>3, <2>1
  <1> QED BY <1>2, <1>3

\* The rows after one has been appended: it comes last, or is taken for the header.
LEMMA AppendedRow ==
  ASSUME index \in [exists : BOOLEAN, lines : Seq(Line)], NEW row \in Line,
         ~index.exists => index.lines = << >>
  PROVE  /\ Rows(index) \in Seq(Line)
         /\ AppendRow(index, row).lines # << >> /\ AppendRow(index, row).exists
         /\ \/ Rows(AppendRow(index, row)) = Append(Rows(index), row)
            \/ index.exists /\ index.lines = << >> /\ Rows(AppendRow(index, row)) = << >>
  <1> PICK ls : ls = index.lines
    OBVIOUS
  <1>1. ls \in Seq(Line) /\ Rows(index) = IF ls = << >> THEN << >> ELSE Tail(ls)
    BY DEF Rows
  <1>2. Rows(index) \in Seq(Line)
    BY RowsAreLines
  <1>3. CASE ~index.exists
    <2>1. AppendRow(index, row) = [exists |-> TRUE, lines |-> <<HeaderLine, row>>]
      BY <1>3 DEF AppendRow
    <2>2. Rows(AppendRow(index, row)) = <<row>>
      BY <2>1 DEF Rows
    <2>3. Rows(index) = << >>
      BY <1>1, <1>3
    <2> QED BY <1>2, <2>1, <2>2, <2>3
  <1>4. CASE index.exists
    <2>1. /\ AppendRow(index, row).lines = Append(ls, row) /\ AppendRow(index, row).exists
      BY <1>4 DEF AppendRow
    <2>2. Append(ls, row) # << >> /\ Rows(AppendRow(index, row)) = Tail(Append(ls, row))
      <3>1. Append(ls, row) # << >>
        BY <1>1
      <3> QED BY <2>1, <3>1 DEF Rows
    <2>3. CASE ls # << >>
      <3>1. Tail(Append(ls, row)) = Append(Tail(ls), row)
        BY <1>1, <2>3
      <3> QED BY <1>1, <1>2, <2>1, <2>2, <2>3, <3>1
    <2>4. CASE ls = << >>
      <3>1. Tail(Append(<< >>, row)) = << >>
        OBVIOUS
      <3> QED BY <1>2, <1>4, <2>1, <2>2, <2>4, <3>1
    <2> QED BY <2>3, <2>4
  <1> QED BY <1>3, <1>4

\* What it lists.
LEMMA AppendedLists ==
  ASSUME index \in [exists : BOOLEAN, lines : Seq(Line)], NEW row \in Line,
         LinesThere, ~cut, index' = AppendRow(index, row)
  PROVE  Listed(row.start)' /\ \A s \in Starts : Listed(s) => Listed(s)'
  <1> PICK old \in Seq(Line) : old = Rows(index)
    BY AppendedRow DEF LinesThere
  <1> PICK after : after = Rows(index')
    OBVIOUS
  <1>1. after = Append(old, row)
    BY AppendedRow DEF LinesThere
  <1>2. \A i \in DOMAIN old : i \in DOMAIN after /\ after[i] = old[i]
    BY <1>1
  <1>3. Len(old) + 1 \in DOMAIN after /\ after[Len(old) + 1] = row
    BY <1>1
  <1>4. Listed(row.start)'
    BY <1>3 DEF Listed
  <1> QED BY <1>2, <1>4 DEF Listed

\* The invariant holds of an empty directory.
LEMMA InitXInv == ASSUME Init PROVE XInv
  <1>1. \A s \in Starts : zst[s] = Absent /\ part[s] = Absent
    BY DEF Init
  <1>2. index = [exists |-> FALSE, lines |-> << >>] /\ pc = "down"
    BY DEF Init
  <1>3. LinesThere
    BY <1>2 DEF LinesThere
  <1> QED BY <1>1, <1>2, <1>3
        DEF XInv, ZstReadable, Known, JobListed, PartsInHand, VerifiedAtEnd, Absent

\* rebuild() lists all that can be read.
LEMMA RebuildExports ==
  ASSUME IInv, OInv, Rest, XInv, Rebuild PROVE XInv'
  <1> USE DEF files, process, past
  <1>1. /\ RebuiltLines \in Seq(Line) /\ Len(RebuiltLines) >= 1
        /\ \A s \in Starts : zst[s].ok =>
             \E i \in DOMAIN Tail(RebuiltLines) : Tail(RebuiltLines)[i] = RowOf(s)
    BY RebuiltIs DEF IInv
  <1>2. /\ pc = "rebuild" /\ UNCHANGED <<part, zst, failed, job, todo, active>>
        /\ index' = [exists |-> TRUE, lines |-> RebuiltLines]
        /\ pc' \in {"down", "open"} /\ (verified' => pc' = "down")
    BY DEF Rebuild, NewLines
  <1>3. LinesThere' /\ RebuiltLines # << >>
    BY <1>1, <1>2 DEF LinesThere
  <1>4. Rows(index') = Tail(RebuiltLines)
    BY <1>2, <1>3 DEF Rows
  <1>5. \A s \in Starts : zst[s].ok => Listed(s)'
    <2> SUFFICES ASSUME NEW s \in Starts, zst[s].ok PROVE Listed(s)'
      OBVIOUS
    <2>1. PICK i \in DOMAIN Tail(RebuiltLines) : Tail(RebuiltLines)[i] = RowOf(s)
      BY <1>1
    <2>2. RowOf(s).start = s
      BY DEF RowOf
    <2> HIDE DEF files, process, past
    <2>3. \E j \in DOMAIN Rows(index') : Rows(index')[j].start = s
      BY ONLY <1>4, <2>1, <2>2
    <2> QED BY <2>3 DEF Listed
  <1>6. Known'
    BY <1>2, <1>5 DEF XInv, ZstReadable, Known
  <1>7. PartsInHand'
    BY <1>2 DEF XInv, PartsInHand, InCare, Sealing
  <1> QED BY <1>2, <1>3, <1>6, <1>7 DEF XInv, ZstReadable, JobListed, VerifiedAtEnd

\* Steps that leave the files as they are.
LEMMA SameFilesExport ==
  ASSUME IInv, XInv,
         \/ \E m \in {"run", "verify"} : Start(m)
         \/ \E s \in Starts : RecoverPart(s)
         \/ Recovered \/ Retained \/ StopDead \/ Tick \/ UNCHANGED vars
  PROVE  XInv'
  <1> USE DEF files, process, past
  <1>1. UNCHANGED <<part, zst, index, failed, cut>>
    BY DEF Start, RecoverPart, Recovered, Retained, StopDead, Tick, vars
  <1>2. LinesThere' /\ ZstReadable' /\ Known'
    BY <1>1 DEF XInv, LinesThere, ZstReadable, Known, Sound, Listed
  <1>3. CASE pc' = pc /\ job' = job /\ todo' = todo /\ active' = active /\ verified' = verified
    BY <1>1, <1>2, <1>3 DEF XInv, JobListed, Sound, Listed, PartsInHand, InCare, Sealing,
       VerifiedAtEnd
  <1>4. ASSUME NEW m \in {"run", "verify"}, Start(m) PROVE XInv'
    <2>1. PartsInHand'
      BY <1>1, <1>4 DEF Start, PartsInHand, InCare, Leftover, IInv, Readable
    <2> QED BY <1>2, <1>4, <2>1 DEF Start, XInv, JobListed, VerifiedAtEnd
  <1>5. ASSUME NEW s \in Starts, RecoverPart(s) PROVE XInv'
    <2>1. PartsInHand'
      <3> SUFFICES ASSUME failed = {}, NEW u \in Starts, part[u].ok
                   PROVE  InCare(u)' \/ (pc' \in {"log", "remove"} /\ u = job'.start)
        BY <1>1 DEF PartsInHand
      <3>1. u \in todo /\ pc = "recover"
        BY <1>5 DEF RecoverPart, XInv, PartsInHand, InCare, Sealing
      <3>2. CASE u = s
        BY <1>5, <3>1, <3>2 DEF RecoverPart, InCare
      <3>3. CASE u # s
        BY <1>5, <3>1, <3>3 DEF RecoverPart, InCare, Sealing
      <3> QED BY <3>2, <3>3
    <2> QED BY <1>2, <1>5, <2>1 DEF RecoverPart, XInv, JobListed, VerifiedAtEnd
  <1>6. CASE Recovered \/ Retained
    <2>1. PartsInHand'
      BY <1>1, <1>6 DEF Recovered, Retained, XInv, PartsInHand, InCare, Sealing
    <2> QED BY <1>2, <1>6, <2>1 DEF Recovered, Retained, XInv, JobListed, VerifiedAtEnd
  <1>7. CASE StopDead
    BY <1>1, <1>2, <1>7 DEF StopDead, XInv, JobListed, PartsInHand, InCare, VerifiedAtEnd
  <1>8. CASE Tick \/ UNCHANGED vars
    BY <1>3, <1>8 DEF Tick, vars
  <1> QED BY <1>4, <1>5, <1>6, <1>7, <1>8

\* Operations that fail.
LEMMA FailedExport ==
  ASSUME IInv, XInv, SealWriteFails \/ IndexFails \/ RemoveFails \/ OpenFails
  PROVE  XInv'
  <1> USE DEF files, process, past, Fails
  <1>1. failed' # {} /\ UNCHANGED <<part, index, cut, verified>> /\ pc # "down"
    BY DEF SealWriteFails, IndexFails, RemoveFails, OpenFails
  <1>2. \A s \in Starts : zst'[s] \in {zst[s], Broken}
    BY DEF SealWriteFails, IndexFails, RemoveFails, OpenFails, IInv, Shape
  <1>3. ZstReadable'
    BY <1>2 DEF XInv, ZstReadable, Broken
  <1>4. LinesThere'
    BY <1>1 DEF XInv, LinesThere
  <1> QED BY <1>1, <1>3, <1>4
        DEF XInv, Known, JobListed, Sound, PartsInHand, VerifiedAtEnd

\* A part is sealed.
LEMMA SealExport ==
  ASSUME IInv, Rest, XInv, SealWrite \/ SealLog \/ SealRemove PROVE XInv'
  <1> USE DEF files, process, past
  <1> PICK u \in Starts : u = job.start
    BY DEF IInv, Shape
  <1>1. part \in [Starts -> File] /\ zst \in [Starts -> File]
    BY DEF IInv, Shape
  <1>2. UNCHANGED <<failed, cut, verified, todo, active>> /\ pc # "down" /\ ~verified
    BY DEF SealWrite, SealLog, SealRemove, XInv, VerifiedAtEnd
  <1>3. CASE SealWrite
    <2>1. /\ part[u].ok /\ zst' = [zst EXCEPT ![u] = Holding(part[u].recs)]
          /\ UNCHANGED <<part, index>> /\ pc = "write" /\ pc' = "log"
      BY <1>3 DEF SealWrite, OutFile
    <2>2. job'.start = u /\ job'.next = job.next
      BY <1>3 DEF SealWrite, IInv, Shape
    <2>3. zst'[u] = Holding(part[u].recs) /\ \A s \in Starts : s # u => zst'[s] = zst[s]
      BY <1>1, <2>1
    <2>4. LinesThere'
      BY <1>2, <2>1 DEF XInv, LinesThere
    <2>5. ZstReadable' /\ Known'
      BY <1>2, <2>1, <2>3 DEF XInv, ZstReadable, Known, Sound, Listed, Holding
    <2>6. PartsInHand'
      BY <1>2, <2>1, <2>2 DEF XInv, PartsInHand, InCare, Sealing
    <2> QED BY <1>2, <2>1, <2>4, <2>5, <2>6 DEF XInv, JobListed, VerifiedAtEnd
  <1>4. CASE SealLog
    <2> PICK row \in Line : row = [start |-> job.start, end |-> job.end, count |-> job.count]
      BY DEF Rest, IInv, Shape, Line
    <2>1. /\ UNCHANGED <<part, zst, job>> /\ pc = "log" /\ pc' = "remove"
          /\ index' = AppendRow(index, row)
      BY <1>4 DEF SealLog
    <2>2. index \in [exists : BOOLEAN, lines : Seq(Line)] /\ LinesThere
      BY DEF Rest, XInv
    <2>3. LinesThere'
      BY <2>1, <2>2, AppendedRow DEF LinesThere
    <2>4. ~cut => Listed(u)' /\ \A s \in Starts : Listed(s) => Listed(s)'
      BY <2>1, <2>2, AppendedLists
    <2>5. Known' /\ JobListed'
      BY <1>2, <2>1, <2>4 DEF XInv, Known, JobListed, Sound
    <2>6. PartsInHand'
      BY <1>2, <2>1 DEF XInv, PartsInHand, InCare, Sealing
    <2>7. ZstReadable'
      BY <2>1 DEF XInv, ZstReadable
    <2> QED BY <1>2, <2>3, <2>5, <2>6, <2>7 DEF XInv, VerifiedAtEnd
  <1>5. CASE SealRemove
    <2>1. /\ UNCHANGED <<index, zst, job>> /\ pc = "remove" /\ pc' = job.next
          /\ part' = [part EXCEPT ![u] = Absent] /\ job.next \in {"recover", "open", "down"}
      BY <1>5 DEF SealRemove, IInv, Shape
    <2>2. part'[u] = Absent /\ \A s \in Starts : s # u => part'[s] = part[s]
      BY <1>1, <2>1
    <2>3. Known'
      BY <1>2, <2>1, <2>2 DEF XInv, Known, JobListed, Sound, Listed
    <2>4. PartsInHand'
      BY <1>2, <2>1, <2>2 DEF XInv, PartsInHand, InCare, Sealing, Absent
    <2>5. LinesThere' /\ ZstReadable'
      BY <1>2, <2>1 DEF XInv, LinesThere, ZstReadable
    <2> QED BY <1>2, <2>1, <2>3, <2>4, <2>5 DEF XInv, JobListed, VerifiedAtEnd
  <1> QED BY <1>3, <1>4, <1>5

\* An old segment is removed, or a new one is opened.
LEMMA ReplaceExport ==
  ASSUME IInv, XInv, OpenSegment \/ (\E s \in Starts : RemoveExpired(s)) PROVE XInv'
  <1> USE DEF files, process, past
  <1>1. part \in [Starts -> File] /\ zst \in [Starts -> File]
    BY DEF IInv, Shape
  <1>2. /\ UNCHANGED <<index, failed, cut, verified, job>> /\ pc \in {"open", "retain"}
        /\ pc' \in {"run", "retain"} /\ ~verified
    BY DEF OpenSegment, RemoveExpired, XInv, VerifiedAtEnd
  <1>3. failed = {} => \A s \in Starts : ~part[s].ok
    BY <1>2 DEF XInv, PartsInHand, InCare, Sealing
  <1>4. \A s \in Starts : zst'[s] \in {zst[s], Absent}
    BY <1>1 DEF OpenSegment, RemoveExpired
  <1>5. LinesThere' /\ ZstReadable' /\ JobListed' /\ VerifiedAtEnd'
    BY <1>2, <1>4 DEF XInv, LinesThere, ZstReadable, JobListed, VerifiedAtEnd, Absent
  <1>6. Known'
    BY <1>2, <1>3, <1>4 DEF XInv, Known, Sound, Listed, Absent
  <1>7. PartsInHand'
    <2>1. \A s \in Starts : part'[s] = part[s] \/ (pc' = "run" /\ s = active')
      BY <1>1 DEF OpenSegment, RemoveExpired
    <2> QED BY <1>2, <1>3, <2>1 DEF PartsInHand, InCare
  <1> QED BY <1>5, <1>6, <1>7 DEF XInv

\* The writer's loop adds to the part it writes.
LEMMA WriterExport ==
  ASSUME IInv, XInv,
         \/ \E utc \in now - Jitter .. now :
              Rotate(utc) \/ \E flush \in BOOLEAN : Sample(utc, flush)
         \/ Stop
  PROVE  XInv'
  <1> USE DEF files, process, past
  <1>1. part \in [Starts -> File] /\ active \in Starts /\ pc = "run" /\ part[active].ok
    BY DEF Rotate, Sample, Stop, IInv, Shape, Readable
  <1>2. UNCHANGED <<zst, index, failed, cut, verified, todo, active>> /\ ~verified
    BY <1>1 DEF Rotate, Sample, Stop, XInv, VerifiedAtEnd
  <1>3. \A s \in Starts : part'[s].ok <=> part[s].ok
    <2>1. ASSUME NEW more, part' = [part EXCEPT ![active].recs = @ \o more]
          PROVE  \A s \in Starts : part'[s].ok <=> part[s].ok
      <3>1. \A s \in Starts : s # active => part'[s] = part[s]
        BY <1>1, <2>1
      <3>2. part'[active] = [part[active] EXCEPT !.recs = @ \o more]
        BY <1>1, <2>1
      <3>3. part'[active].ok = part[active].ok
        BY <1>1, <3>2 DEF File
      <3> QED BY <3>1, <3>3
    <2>2. part' = part \/ \E more : part' = [part EXCEPT ![active].recs = @ \o more]
      BY DEF Rotate, Sample, Stop, Flush
    <2> QED BY <2>1, <2>2
  <1>4. \/ pc' = "run"
        \/ pc' = "write" /\ job'.start = active
    <2>1. ASSUME NEW utc \in now - Jitter .. now, Rotate(utc)
          PROVE  pc' = "write" /\ job'.start = active
      BY <2>1 DEF Rotate
    <2>2. CASE Stop
      BY <2>2 DEF Stop
    <2>3. ASSUME NEW utc \in now - Jitter .. now, NEW flush \in BOOLEAN, Sample(utc, flush)
          PROVE  pc' = "run"
      BY <1>1, <2>3 DEF Sample
    <2> QED BY <2>1, <2>2, <2>3
  <1>5. PartsInHand'
    BY <1>1, <1>2, <1>3, <1>4 DEF XInv, PartsInHand, InCare, Sealing
  <1> QED BY <1>2, <1>3, <1>4, <1>5
        DEF XInv, LinesThere, ZstReadable, Known, Sound, Listed, JobListed, VerifiedAtEnd

\* A kill cuts nothing off but what a rebuild was writing, and the header of a new index.
LEMMA CrashExport == ASSUME IInv, OInv, XInv, Crash PROVE XInv'
  <1> USE DEF files
  <1>1. part \in [Starts -> File] /\ zst \in [Starts -> File] /\ job.start \in Starts
    BY DEF IInv, Shape
  <1>2. pc' = "down" /\ pc # "down" /\ UNCHANGED <<failed, verified>> /\ CrashFiles
    BY DEF Crash
  <1>3. PartsInHand' /\ JobListed' /\ VerifiedAtEnd'
    BY <1>2 DEF PartsInHand, InCare, JobListed, VerifiedAtEnd
  <1>4. \A s \in Starts : zst'[s] \in {zst[s], Broken}
    BY <1>1, <1>2 DEF CrashFiles
  <1>5. ZstReadable'
    BY <1>4 DEF XInv, ZstReadable, Broken
  <1>6. CASE UNCHANGED <<index, cut>>
    <2>1. \A s \in Starts : part[s].ok => part'[s].ok \/ pc = "open"
      <3>1. CASE UNCHANGED part \/ pc = "open"
        BY <3>1
      <3>2. ASSUME NEW more, part' = [part EXCEPT ![active].recs = @ \o more]
            PROVE  \A s \in Starts : part'[s].ok <=> part[s].ok
        <4>0. active \in Starts
          BY DEF IInv, Shape
        <4>1. \A s \in Starts : s # active => part'[s] = part[s]
          BY <1>1, <3>2
        <4>2. part'[active] = [part[active] EXCEPT !.recs = @ \o more]
          BY <1>1, <3>2, <4>0
        <4>3. part'[active].ok = part[active].ok
          BY <1>1, <4>0, <4>2 DEF File
        <4> QED BY <4>1, <4>3
      <3>3. CASE pc = "run" /\ \E more : part' = [part EXCEPT ![active].recs = @ \o more]
        BY <3>2, <3>3
      <3> QED BY <1>2, <3>1, <3>3 DEF CrashFiles
    <2>2. pc = "open" /\ failed = {} => \A s \in Starts : ~part[s].ok
      BY DEF XInv, PartsInHand, InCare, Sealing
    <2>3. Known'
      BY <1>2, <1>4, <1>6, <2>1, <2>2 DEF XInv, Known, Sound, Listed, Broken
    <2> QED BY <1>3, <1>5, <1>6, <2>3 DEF XInv, LinesThere
  <1>7. CASE cut' /\ index'.exists
    BY <1>3, <1>5, <1>7 DEF XInv, LinesThere, Known, Sound
  <1> QED BY <1>2, <1>6, <1>7 DEF CrashFiles

\* Every step keeps the invariant.
LEMMA NextXInv == ASSUME IInv, OInv, Rest, XInv, [Next]_vars PROVE XInv'
  <1>1. CASE Rebuild
    BY <1>1, RebuildExports
  <1>2. CASE \/ \E m \in {"run", "verify"} : Start(m)
             \/ \E s \in Starts : RecoverPart(s)
             \/ Recovered \/ Retained \/ StopDead \/ Tick \/ UNCHANGED vars
    BY <1>2, SameFilesExport
  <1>3. CASE SealWriteFails \/ IndexFails \/ RemoveFails \/ OpenFails
    BY <1>3, FailedExport
  <1>4. CASE SealWrite \/ SealLog \/ SealRemove
    BY <1>4, SealExport
  <1>5. CASE OpenSegment \/ (\E s \in Starts : RemoveExpired(s))
    BY <1>5, ReplaceExport
  <1>6. CASE \/ \E utc \in now - Jitter .. now :
                  Rotate(utc) \/ \E flush \in BOOLEAN : Sample(utc, flush)
             \/ Stop
    BY <1>6, WriterExport
  <1>7. CASE Crash
    BY <1>7, CrashExport
  <1> QED BY <1>1, <1>2, <1>3, <1>4, <1>5, <1>6, <1>7 DEF Next, Exhausted

\* A record of a listed segment is exported.
LEMMA ListedIsExported ==
  ASSUME Rest, NEW s \in Starts, Listed(s), NEW r \in ToSet(zst[s].recs)
  PROVE  TimesExported(r) > 0
  <1> PICK R : R = Rows(index)
    OBVIOUS
  <1>1. R \in Seq(Line) /\ \E i \in DOMAIN R : R[i].start = s
    BY RowsAreLines DEF Rest, Listed
  <1>2. R # << >> /\ ExportRows = R
    BY <1>1 DEF ExportRows
  <1> PICK X : X = {i \in DOMAIN R : r \in ToSet(zst[R[i].start].recs)}
    OBVIOUS
  <1>3. X # {} /\ X \subseteq 1 .. Len(R) /\ Len(R) \in Nat
    BY <1>1
  <1>4. IsFiniteSet(X)
    BY <1>3, FS_Interval, FS_Subset
  <1>5. Cardinality(X) \in Nat /\ Cardinality(X) # 0
    BY <1>3, <1>4, FS_CardinalityType, FS_EmptySet
  <1> QED BY <1>2, <1>5 DEF TimesExported

\* What a run finds, it exports or has in its part.
LEMMA RunExports == ASSUME IInv, Rest, XInv PROVE FlushedIsExported
  <1> SUFFICES ASSUME pc = "run", failed = {}, ~cut, NEW r \in flushed \ retired,
                      r \notin ToSet(part[active].recs)
               PROVE  TimesExported(r) > 0
    BY DEF FlushedIsExported
  <1>1. PICK s \in Starts : r \in ToSet(part[s].recs) \cup ToSet(zst[s].recs)
    BY DEF IInv, Lossless, FlushedStaysOnDisk, OnDisk
  <1>2. r \in ToSet(zst[s].recs)
    <2>1. CASE s = active
      BY <1>1, <2>1
    <2>2. CASE s # active
      <3>1. Behind(s)
        BY <2>2 DEF IInv, Lossless, Care, InCare, Sealing
      <3> QED BY <1>1, <3>1 DEF Behind
    <2> QED BY <2>1, <2>2
  <1>3. zst[s].recs # << >>
    BY <1>2, NoRecords
  <1>4. ~part[s].ok
    <2> SUFFICES ASSUME part[s].ok PROVE FALSE
      OBVIOUS
    <2>1. s = active
      BY DEF XInv, PartsInHand, InCare, Sealing
    <2> QED BY <1>2, <2>1 DEF IInv, Lossless, ZstIsOlder
  <1>5. Listed(s)
    BY <1>3, <1>4 DEF XInv, Known, Sound
  <1> QED BY <1>2, <1>5, ListedIsExported

\* A run finds and exports everything that was flushed before any number of kills, if
\* no operation has failed and neither the creation nor a rewrite of the index was cut
\* short: whatever a kill leaves, the next start logs the segment before it removes the
\* part (seal.cpp:49-127, prober.cpp:344-383, index.cpp:26-35).
THEOREM RecoveredIsExported == Spec => []FlushedIsExported
  <1>1. Init => IInv /\ OInv /\ Rest /\ XInv
    BY InitIInv, InitOInv, InitRest, InitXInv
  <1>2. IInv /\ OInv /\ Rest /\ XInv /\ [Next]_vars => (IInv /\ OInv /\ Rest /\ XInv)'
    BY Control, NextIInv, NextOInv, RestStep, NextXInv DEF Moves
  <1>3. IInv /\ Rest /\ XInv => FlushedIsExported
    BY RunExports
  <1> QED BY <1>1, <1>2, <1>3, PTL DEF Spec

-----------------------------------------------------------------------------
(* A verify repairs *)

\* The rows of a list R that hold record r in the segments Z.
Holders(R, Z, r) == {i \in DOMAIN R : r \in ToSet(Z[R[i].start].recs)}

\* While every row is that of another segment, a record of a listed one is exported once.
LEMMA ListedOnce ==
  ASSUME NEW R \in Seq(Line), \A i, j \in DOMAIN R : R[i].start = R[j].start => i = j,
         NEW Z, NEW r, NEW k \in DOMAIN R, r \in ToSet(Z[R[k].start].recs),
         \A s, u \in Starts : r \in ToSet(Z[s].recs) /\ r \in ToSet(Z[u].recs) => s = u
  PROVE  Cardinality(Holders(R, Z, r)) = 1
  <1> PICK X : X = Holders(R, Z, r)
    OBVIOUS
  <1>1. \A i \in DOMAIN R : R[i].start \in Starts
    <2>1. \A i \in DOMAIN R : R[i] \in Line
      OBVIOUS
    <2> QED BY <2>1 DEF Line
  <1>2. \A i \in X : i = k
    BY <1>1 DEF Holders
  <1>3. X = {k}
    BY <1>2 DEF Holders
  <1>4. Cardinality(X) = 1
    BY <1>3, FS_Singleton
  <1> QED BY <1>4

\* What is exported depends on the files and the stamps alone.
LEMMA SameExport ==
  ASSUME UNCHANGED <<zst, index, stamp>>
  PROVE  \A r : TimesExported(r)' = TimesExported(r)
  <1>1. RebuiltLines' = RebuiltLines
    BY DEF RebuiltLines, RowOf, LatestTime, ReadTime
  <1>2. ExportRows' = ExportRows
    BY <1>1 DEF ExportRows, Rows
  <1> QED BY <1>2 DEF TimesExported

\* A rebuild, when no part is left, lists every record on disk, once.
LEMMA RebuildRepairs ==
  ASSUME CInv, OInv, ZstReadable, PartsInHand, Rebuild, failed = {}
  PROVE  /\ \A r : OnDisk(r) => TimesExported(r)' = 1
         /\ \A s \in Starts : ~part[s].ok
         /\ UNCHANGED <<part, zst, stamp, flushed, retired>>
  <1> USE DEF files, process, past
  <1> PICK w : w = Tail(RebuiltLines)
    OBVIOUS
  <1>1. /\ w \in Seq(Line) /\ RebuiltLines # << >>
        /\ \A s \in Starts : zst[s].ok => \E i \in DOMAIN w : w[i].start = s
        /\ \A i, j \in DOMAIN w : w[i].start = w[j].start => i = j
    <2>1. RebuiltLines \in Seq(Line) /\ Len(RebuiltLines) >= 1 /\ w \in Seq(Line)
      BY RebuiltIs DEF CInv
    <2>2. RebuiltLines # << >>
      BY <2>1
    <2>3. \A s \in Starts : zst[s].ok => \E i \in DOMAIN w : w[i] = RowOf(s)
      BY RebuiltIs DEF CInv
    <2>4. \A s \in Starts : RowOf(s).start = s
      BY DEF RowOf
    <2>5. \A s \in Starts : zst[s].ok => \E i \in DOMAIN w : w[i].start = s
      <3> HIDE DEF files, process, past
      <3> QED BY ONLY <2>3, <2>4
    <2>6. \A i, j \in DOMAIN w : w[i].start = w[j].start => i = j
      BY RebuiltIs DEF CInv
    <2> QED BY <2>1, <2>2, <2>5, <2>6
  <1>2. /\ UNCHANGED <<part, zst, stamp, flushed, retired, failed>> /\ pc = "rebuild"
        /\ index' = [exists |-> TRUE, lines |-> RebuiltLines]
    BY DEF Rebuild, NewLines
  <1>3. RebuiltLines' = RebuiltLines
    BY <1>2 DEF RebuiltLines, RowOf, LatestTime, ReadTime
  <1>4. ExportRows' = w
    <2>1. Rows(index') = w
      BY <1>1, <1>2 DEF Rows
    <2> QED BY <1>3, <2>1 DEF ExportRows
  <1>5. \A s \in Starts : ~part[s].ok
    BY <1>2 DEF PartsInHand, InCare, Sealing
  <1>6. ASSUME NEW r, OnDisk(r) PROVE TimesExported(r)' = 1
    <2>1. PICK s \in Starts : r \in ToSet(part[s].recs) \cup ToSet(zst[s].recs)
      BY <1>6 DEF OnDisk
    <2>2. part[s].recs = << >>
      BY <1>5 DEF CInv, Readable
    <2>3. r \in ToSet(zst[s].recs)
      BY <2>1, <2>2, NoRecords
    <2>4. zst[s].ok
      BY <2>3, NoRecords DEF ZstReadable
    <2>5. PICK k \in DOMAIN w : w[k].start = s
      BY <1>1, <2>4
    <2>6. \A t, u \in Starts : r \in ToSet(zst[t].recs) /\ r \in ToSet(zst[u].recs) => t = u
      BY DEF OInv, FilesApart, Records
    <2>7. Cardinality(Holders(w, zst, r)) = 1
      <3>1. \A i, j \in DOMAIN w : w[i].start = w[j].start => i = j
        BY <1>1
      <3>2. w \in Seq(Line)
        BY <1>1
      <3>3. r \in ToSet(zst[w[k].start].recs)
        BY <2>3, <2>5
      <3> HIDE DEF files, process, past
      <3> QED BY ONLY <2>5, <2>6, <3>1, <3>2, <3>3, ListedOnce
    <2> QED BY <1>2, <1>4, <2>7 DEF TimesExported, Holders
  <1> QED BY <1>2, <1>5, <1>6

\* After a verify nothing is done but to start the next command.
LEMMA NextVerify ==
  ASSUME IInv, OInv, Rest, XInv, VerifyRepairs, [Next]_vars PROVE VerifyRepairs'
  <1> USE DEF files, process, past
  <1>1. CASE UNCHANGED <<part, zst, index, stamp, flushed, retired, failed, verified, pc>>
    <2>1. \A r : TimesExported(r)' = TimesExported(r)
      BY <1>1, SameExport
    <2> QED BY <1>1, <2>1 DEF VerifyRepairs
  <1>2. CASE Rebuild
    <2>1. failed' = failed
      BY <1>2 DEF Rebuild
    <2>2. CASE failed = {}
      <3>1. /\ \A r : OnDisk(r) => TimesExported(r)' = 1
            /\ \A s \in Starts : ~part[s].ok
            /\ UNCHANGED <<part, zst, stamp, flushed, retired>>
        BY <1>2, <2>2, RebuildRepairs, Control DEF XInv
      <3>2. \A r \in flushed \ retired : OnDisk(r)
        BY <2>2 DEF IInv, Lossless, FlushedStaysOnDisk
      <3> QED BY <3>1, <3>2 DEF VerifyRepairs
    <2>3. CASE failed # {}
      BY <2>1, <2>3 DEF VerifyRepairs
    <2> QED BY <2>2, <2>3
  <1>3. CASE ~verified'
    BY <1>3 DEF VerifyRepairs
  <1>4. CASE verified' = verified /\ pc # "down"
    BY <1>3, <1>4 DEF XInv, VerifiedAtEnd
  <1>5. CASE UNCHANGED vars \/ Tick \/ Exhausted
    BY <1>1, <1>5 DEF vars, Tick, Exhausted
  <1>6. ASSUME NEW m \in {"run", "verify"}, Start(m) PROVE VerifyRepairs'
    BY <1>3, <1>6 DEF Start
  <1>7. ASSUME NEW s \in Starts, RecoverPart(s) \/ RemoveExpired(s) PROVE VerifyRepairs'
    BY <1>4, <1>7 DEF RecoverPart, RemoveExpired
  <1>8. CASE \/ Recovered \/ Retained \/ SealWrite \/ SealLog \/ SealRemove \/ OpenSegment \/ Stop
             \/ StopDead
    BY <1>4, <1>8 DEF Recovered, Retained, SealWrite, SealLog, SealRemove, OpenSegment, Stop,
       StopDead
  <1>9. CASE SealWriteFails \/ IndexFails \/ RemoveFails \/ OpenFails \/ Crash
    BY <1>4, <1>9 DEF SealWriteFails, IndexFails, RemoveFails, OpenFails, Crash
  <1>10. ASSUME NEW utc \in now - Jitter .. now,
                Rotate(utc) \/ \E flush \in BOOLEAN : Sample(utc, flush)
         PROVE  VerifyRepairs'
    BY <1>4, <1>10 DEF Rotate, Sample
  <1> QED BY <1>2, <1>5, <1>6, <1>7, <1>8, <1>9, <1>10 DEF Next

\* After a verify, whatever kills came before it, every record that was flushed and that
\* retention has not removed is exported, once, and no part that can be read is left, if
\* no operation has failed (cli.cpp:137-140, index.cpp:72-101).
THEOREM RepairedByVerify == Spec => []VerifyRepairs
  <1>1. Init => IInv /\ OInv /\ Rest /\ XInv /\ VerifyRepairs
    <2>1. Init => VerifyRepairs
      BY DEF Init, VerifyRepairs
    <2> QED BY <2>1, InitIInv, InitOInv, InitRest, InitXInv
  <1>2. IInv /\ OInv /\ Rest /\ XInv /\ VerifyRepairs /\ [Next]_vars
          => (IInv /\ OInv /\ Rest /\ XInv /\ VerifyRepairs)'
    BY Control, NextIInv, NextOInv, RestStep, NextXInv, NextVerify DEF Moves
  <1> QED BY <1>1, <1>2, PTL DEF Spec

-----------------------------------------------------------------------------
(* Without kills and failures: a segment is listed once, when it is sealed, no    *)
(* part is left, and every sample taken is in a file, in memory, or retired.      *)

Unfailed == failed = {} /\ ~cut /\ pc # "dead"
Whole ==
  /\ \A s \in Starts : zst[s].ok <=> zst[s].exists
  /\ pc = "log" => zst[job.start].exists
RowsApart ==
  \A i, j \in DOMAIN Rows(index) : Rows(index)[i].start = Rows(index)[j].start => i = j
ListedThere ==
  \A s \in Starts : Listed(s) => zst[s].exists \/ (pc \in {"retain", "rebuild"} /\ removed)
PartIsOurs ==
  \A s \in Starts :
    part[s].exists => (pc = "run" /\ s = active) \/ (Sealing /\ s = job.start)
SealedListed ==
  \A s \in Starts : zst[s].recs # << >> => Listed(s) \/ (pc = "log" /\ s = job.start)
NewRow ==
  /\ pc = "run" => ~Listed(active)
  /\ pc \in {"write", "log"} => ~Listed(job.start)
NoneLost == \A r \in DOMAIN stamp : OnDisk(r) \/ r \in retired \/ r \in ToSet(buf) \/ r = hand

NoFaults ==
  /\ Unfailed /\ Whole /\ RowsApart /\ ListedThere /\ PartIsOurs /\ SealedListed /\ NewRow
  /\ NoneLost

\* An empty directory lists nothing.
LEMMA InitNoFaults == ASSUME Init PROVE NoFaults
  <1>1. Rows(index) = << >>
    BY DEF Init, Rows
  <1>2. \A s \in Starts : zst[s] = Absent /\ part[s] = Absent /\ ~Listed(s)
    BY <1>1 DEF Init, Listed
  <1>3. RowsApart
    BY <1>1 DEF RowsApart
  <1>4. Unfailed /\ NewRow /\ NoneLost /\ pc = "down"
    BY DEF Init, Unfailed, NewRow, NoneLost
  <1> QED BY <1>2, <1>3, <1>4
        DEF NoFaults, Whole, ListedThere, PartIsOurs, SealedListed, Absent

\* What depends on the files alone.
LEMMA SameIndex ==
  ASSUME UNCHANGED index
  PROVE  /\ \A s \in Starts : Listed(s)' <=> Listed(s)
         /\ RowsApart' <=> RowsApart
  BY DEF Listed, RowsApart

\* Steps that leave the files as they are.
LEMMA SameFilesClean ==
  ASSUME IInv, NoFaults,
         \/ \E m \in {"run", "verify"} : Start(m)
         \/ \E s \in Starts : RecoverPart(s)
         \/ Recovered \/ Retained \/ Tick \/ UNCHANGED vars
  PROVE  NoFaults'
  <1> USE DEF files, process, past
  <1>1. UNCHANGED <<part, zst, index, failed, cut, stamp, retired, buf, hand, active>>
    BY DEF Start, RecoverPart, Recovered, Retained, Tick, vars
  <1>2. (\A s \in Starts : Listed(s)' <=> Listed(s)) /\ RowsApart' /\ NoneLost'
    BY <1>1, SameIndex DEF NoFaults, NoneLost, OnDisk
  <1>3. CASE UNCHANGED <<pc, job, removed>>
    <2>1. Unfailed' /\ Whole' /\ ListedThere' /\ SealedListed'
      BY <1>1, <1>2, <1>3 DEF NoFaults, Unfailed, Whole, ListedThere, SealedListed
    <2>2. PartIsOurs'
      BY <1>1, <1>3 DEF NoFaults, PartIsOurs, Sealing
    <2>3. NewRow'
      BY <1>1, <1>2, <1>3, IInv DEF NoFaults, NewRow, IInv, Shape
    <2> QED BY <1>2, <2>1, <2>2, <2>3 DEF NoFaults
  <1>4. ASSUME NEW m \in {"run", "verify"}, Start(m) PROVE NoFaults'
    BY <1>1, <1>2, <1>4
       DEF Start, NoFaults, Unfailed, Whole, ListedThere, PartIsOurs, SealedListed, NewRow, Sealing
  <1>5. ASSUME NEW s \in Starts, RecoverPart(s) PROVE NoFaults'
    <2>1. ~part[s].ok
      BY <1>5 DEF RecoverPart, NoFaults, PartIsOurs, Sealing, IInv, Readable
    <2> QED BY <1>3, <1>5, <2>1 DEF RecoverPart
  <1>6. CASE Recovered
    BY <1>1, <1>2, <1>6
       DEF Recovered, NoFaults, Unfailed, Whole, ListedThere, PartIsOurs, SealedListed, NewRow, Sealing
  <1>7. CASE Retained
    BY <1>1, <1>2, <1>7
       DEF Retained, NoFaults, Unfailed, Whole, ListedThere, PartIsOurs, SealedListed, NewRow, Sealing
  <1>8. CASE Tick \/ UNCHANGED vars
    BY <1>3, <1>8 DEF Tick, vars
  <1> QED BY <1>4, <1>5, <1>6, <1>7, <1>8

\* A segment that retention removes is still listed until the index is rebuilt.
LEMMA RemoveExpiredClean ==
  ASSUME IInv, NoFaults, NEW u \in Starts, RemoveExpired(u) PROVE NoFaults'
  <1>1. /\ UNCHANGED <<part, index, failed, cut, stamp, buf, hand, active, job, pc>>
        /\ pc = "retain"
    BY DEF RemoveExpired
  <1>2. (\A s \in Starts : Listed(s)' <=> Listed(s)) /\ RowsApart'
    BY <1>1, SameIndex DEF NoFaults
  <1>3. CASE ~zst[u].exists
    <2>1. UNCHANGED <<zst, retired, removed>>
      BY <1>3 DEF RemoveExpired
    <2> QED BY <1>1, <1>2, <2>1
         DEF NoFaults, Unfailed, Whole, ListedThere, PartIsOurs, SealedListed, NewRow, NoneLost,
             OnDisk, Sealing
  <1>4. CASE zst[u].exists
    <2>1. /\ zst' = [zst EXCEPT ![u] = Absent] /\ retired' = retired \cup ToSet(zst[u].recs)
          /\ removed' = TRUE
      BY <1>4 DEF RemoveExpired
    <2>2. zst'[u] = Absent /\ \A s \in Starts : s # u => zst'[s] = zst[s]
      BY <2>1 DEF IInv, Shape
    <2>3. Whole' /\ SealedListed' /\ ListedThere'
      BY <1>1, <1>2, <2>1, <2>2 DEF NoFaults, Whole, SealedListed, ListedThere, Absent
    <2>4. NoneLost'
      BY <1>1, <2>1, <2>2 DEF NoFaults, NoneLost, OnDisk
    <2> QED BY <1>1, <1>2, <2>3, <2>4 DEF NoFaults, Unfailed, PartIsOurs, NewRow, Sealing
  <1> QED BY <1>3, <1>4

\* rebuild() lists each segment once, and none that was removed.
LEMMA RebuildClean ==
  ASSUME IInv, OInv, XInv, NoFaults, Rebuild PROVE NoFaults'
  <1> USE DEF files, process, past
  <1> PICK w : w = Tail(RebuiltLines)
    OBVIOUS
  <1>1. /\ RebuiltLines # << >>
        /\ \A i, j \in DOMAIN w : w[i].start = w[j].start => i = j
    <2>1. RebuiltLines \in Seq(Line) /\ Len(RebuiltLines) >= 1
      BY RebuiltIs DEF IInv
    <2> QED BY <2>1, RebuiltIs DEF IInv
  <1>2. \A s \in Starts : zst[s].ok <=> \E i \in DOMAIN w : w[i].start = s
    <2>1. \A s \in Starts : zst[s].ok => \E i \in DOMAIN w : w[i] = RowOf(s)
      BY RebuiltIs DEF IInv
    <2>2. \A i \in DOMAIN w : \E s \in Starts : zst[s].ok /\ w[i] = RowOf(s)
      BY RebuiltIs DEF IInv
    <2>3. \A s \in Starts : RowOf(s).start = s
      BY DEF RowOf
    <2> HIDE DEF files, process, past
    <2> QED BY ONLY <2>1, <2>2, <2>3
  <1>3. /\ UNCHANGED <<part, zst, stamp, buf, hand, retired, failed, job, active>>
        /\ pc = "rebuild" /\ ~cut' /\ pc' \in {"down", "open"}
        /\ index' = [exists |-> TRUE, lines |-> RebuiltLines]
    BY DEF Rebuild, NewLines
  <1>4. Rows(index') = w
    BY <1>1, <1>3 DEF Rows
  <1>5. \A s \in Starts : Listed(s)' <=> zst[s].ok
    BY <1>2, <1>4 DEF Listed
  <1>6. RowsApart'
    BY <1>1, <1>4 DEF RowsApart
  <1>7. ListedThere' /\ SealedListed'
    BY <1>3, <1>5 DEF NoFaults, Whole, XInv, ZstReadable, ListedThere, SealedListed
  <1> QED BY <1>3, <1>6, <1>7
        DEF NoFaults, Unfailed, Whole, PartIsOurs, NewRow, NoneLost, OnDisk, Sealing

\* A part is sealed: it is not yet listed, and then it is.
LEMMA SealClean ==
  ASSUME IInv, Rest, XInv, NoFaults, SealWrite \/ SealLog \/ SealRemove PROVE NoFaults'
  <1> USE DEF files, process, past
  <1> PICK u \in Starts : u = job.start
    BY DEF IInv, Shape
  <1>1. part \in [Starts -> File] /\ zst \in [Starts -> File]
    BY DEF IInv, Shape
  <1>2. UNCHANGED <<failed, cut, active, stamp, buf, hand, retired, removed>>
    BY DEF SealWrite, SealLog, SealRemove
  <1>3. CASE SealWrite
    <2>1. /\ part[u].ok /\ zst' = [zst EXCEPT ![u] = Holding(part[u].recs)]
          /\ UNCHANGED <<part, index>> /\ pc = "write" /\ pc' = "log"
      BY <1>3 DEF SealWrite, OutFile
    <2>2. job'.start = u
      BY <1>3 DEF SealWrite, IInv, Shape
    <2>3. zst'[u] = Holding(part[u].recs) /\ \A s \in Starts : s # u => zst'[s] = zst[s]
      BY <1>1, <2>1
    <2>4. (\A s \in Starts : Listed(s)' <=> Listed(s)) /\ RowsApart'
      BY <2>1, SameIndex DEF NoFaults
    <2>5. Whole' /\ ListedThere' /\ SealedListed'
      BY <2>1, <2>2, <2>3, <2>4 DEF NoFaults, Whole, ListedThere, SealedListed, Holding
    <2>6. PartIsOurs' /\ NewRow' /\ Unfailed'
      BY <1>2, <2>1, <2>2, <2>4 DEF NoFaults, PartIsOurs, NewRow, Unfailed, Sealing
    <2>7. NoneLost'
      <3>1. \A r : OnDisk(r) => OnDisk(r)'
        BY <2>1, <2>3 DEF OnDisk, Holding, IInv, Lossless, ZstIsOlder
      <3> QED BY <1>2, <3>1 DEF NoFaults, NoneLost
    <2> QED BY <2>4, <2>5, <2>6, <2>7 DEF NoFaults
  <1>4. CASE SealLog
    <2> PICK row \in Line : row = [start |-> job.start, end |-> job.end, count |-> job.count]
      BY DEF Rest, IInv, Shape, Line
    <2>1. /\ UNCHANGED <<part, zst, job>> /\ pc = "log" /\ pc' = "remove"
          /\ index' = AppendRow(index, row)
      BY <1>4 DEF SealLog
    <2>2. index \in [exists : BOOLEAN, lines : Seq(Line)] /\ LinesThere /\ ~cut
      BY DEF Rest, XInv, NoFaults, Unfailed
    <2> PICK old \in Seq(Line) : old = Rows(index)
      BY <2>2, AppendedRow DEF LinesThere
    <2> PICK after : after = Rows(index')
      OBVIOUS
    <2>3. after = Append(old, row)
      BY <2>1, <2>2, AppendedRow DEF LinesThere
    <2>4. ~Listed(u) /\ row.start = u
      BY <2>1 DEF NoFaults, NewRow
    <2>5. \A i \in DOMAIN old : old[i].start # u
      BY <2>4 DEF Listed
    <2>6. \A i \in DOMAIN after : \/ i \in DOMAIN old /\ after[i] = old[i]
                                  \/ i = Len(old) + 1 /\ after[i] = row
      BY <2>3
    <2>7. \A i, j \in DOMAIN old : old[i].start = old[j].start => i = j
      BY DEF NoFaults, RowsApart
    <2>8. RowsApart'
      <3>1. ASSUME NEW i \in DOMAIN after, NEW j \in DOMAIN after, after[i].start = after[j].start
            PROVE  i = j
        BY <2>4, <2>5, <2>6, <2>7, <3>1
      <3> QED BY <3>1 DEF RowsApart
    <2>9. Listed(u)' /\ \A s \in Starts : Listed(s) => Listed(s)'
      BY <2>1, <2>2, <2>4, AppendedLists
    <2>10. \A s \in Starts : Listed(s)' => s = u \/ Listed(s)
      BY <2>4, <2>6 DEF Listed
    <2>11. zst[u].exists
      BY <2>1 DEF NoFaults, Whole
    <2>12. ListedThere'
      BY <2>1, <2>10, <2>11 DEF NoFaults, ListedThere
    <2>13. SealedListed'
      BY <2>1, <2>9 DEF NoFaults, SealedListed
    <2> QED BY <1>2, <2>1, <2>8, <2>12, <2>13
         DEF NoFaults, Unfailed, Whole, PartIsOurs, NewRow, NoneLost, OnDisk, Sealing
  <1>5. CASE SealRemove
    <2>1. /\ UNCHANGED <<index, zst, job>> /\ pc = "remove" /\ pc' = job.next
          /\ part' = [part EXCEPT ![u] = Absent] /\ job.next \in {"recover", "open", "down"}
      BY <1>5 DEF SealRemove, IInv, Shape
    <2>2. part'[u] = Absent /\ \A s \in Starts : s # u => part'[s] = part[s]
      BY <1>1, <2>1
    <2>3. (\A s \in Starts : Listed(s)' <=> Listed(s)) /\ RowsApart'
      BY <2>1, SameIndex DEF NoFaults
    <2>4. PartIsOurs' /\ NewRow' /\ Unfailed'
      BY <1>2, <2>1, <2>2, <2>3 DEF NoFaults, PartIsOurs, NewRow, Unfailed, Sealing, Absent
    <2>5. ListedThere' /\ SealedListed' /\ Whole'
      BY <1>2, <2>1, <2>3 DEF NoFaults, ListedThere, SealedListed, Whole
    <2>6. \A r \in ToSet(part[u].recs) : r \in ToSet(zst[u].recs) \cup retired
      BY <2>1 DEF IInv, Lossless, SealedFirst, Behind
    <2>7. NoneLost'
      <3> SUFFICES ASSUME NEW r \in DOMAIN stamp, OnDisk(r), r \notin retired PROVE OnDisk(r)'
        BY <1>2 DEF NoFaults, NoneLost
      <3>1. PICK s \in Starts : r \in ToSet(part[s].recs) \cup ToSet(zst[s].recs)
        BY DEF OnDisk
      <3>2. CASE s = u
        BY <2>1, <2>6, <3>1, <3>2 DEF OnDisk
      <3>3. CASE s # u
        BY <2>1, <2>2, <3>1, <3>3 DEF OnDisk
      <3> QED BY <3>2, <3>3
    <2> QED BY <2>3, <2>4, <2>5, <2>7 DEF NoFaults
  <1> QED BY <1>3, <1>4, <1>5

\* A segment is opened under a name that no row has.
LEMMA OpenClean == ASSUME IInv, OInv, NoFaults, OpenSegment PROVE NoFaults'
  <1> PICK start : start = AlignedStart(OpenTime)
    OBVIOUS
  <1>1. part \in [Starts -> File] /\ pc = "open"
    BY DEF IInv, Shape, OpenSegment
  <1>2. /\ UNCHANGED <<zst, index, failed, cut, stamp, retired, removed, job>>
        /\ pc' = "run" /\ active' = start /\ part' = [part EXCEPT ![start] = Holding(<< >>)]
        /\ hand' = None /\ buf' = FirstRecs
    BY DEF OpenSegment, past
  <1>3. \A s \in Starts : ~part[s].exists
    BY <1>1 DEF NoFaults, PartIsOurs, Sealing
  <1>4. start \in Starts /\ ~zst[start].exists
    BY <1>1, OpenedAt, Control
  <1>5. (\A s \in Starts : Listed(s)' <=> Listed(s)) /\ RowsApart'
    BY <1>2, SameIndex DEF NoFaults
  <1>6. ~Listed(start)
    BY <1>1, <1>4 DEF NoFaults, ListedThere
  <1>7. \A s \in Starts : s # start => part'[s] = part[s]
    BY <1>1, <1>2
  <1>8. PartIsOurs' /\ NewRow'
    BY <1>2, <1>3, <1>4, <1>5, <1>6, <1>7 DEF PartIsOurs, NewRow
  <1>9. ListedThere' /\ SealedListed' /\ Whole' /\ Unfailed'
    BY <1>1, <1>2, <1>5 DEF NoFaults, ListedThere, SealedListed, Whole, Unfailed
  <1>10. NoneLost'
    <2>1. \A s \in Starts : part[s].recs = << >>
      BY <1>3 DEF IInv, Readable
    <2>2. \A r : OnDisk(r) => OnDisk(r)'
      BY <1>2, <2>1, NoRecords DEF OnDisk
    <2>3. \A r \in DOMAIN stamp : r # None
      BY DEF IInv, Shape, None
    <2>4. hand # None => ToSet(buf') = {hand}
      BY <1>2, FewAscend DEF FirstRecs
    <2>5. buf = << >>
      BY <1>1 DEF OInv, MemoryIsLater
    <2> QED BY <1>2, <2>2, <2>3, <2>4, <2>5, NoRecords DEF NoFaults, NoneLost
  <1> QED BY <1>5, <1>8, <1>9, <1>10 DEF NoFaults

\* The writer's loop keeps every sample, in the buffer, in hand or in its part.
LEMMA WriterClean ==
  ASSUME IInv, OInv, NoFaults,
         \/ \E utc \in now - Jitter .. now :
              Rotate(utc) \/ \E flush \in BOOLEAN : Sample(utc, flush)
         \/ Stop
  PROVE  NoFaults'
  <1> USE DEF files, process, past
  <1>1. part \in [Starts -> File] /\ active \in Starts /\ pc = "run" /\ part[active].ok
    BY DEF Rotate, Sample, Stop, IInv, Shape, Readable
  <1>2. UNCHANGED <<zst, index, failed, cut, retired, active, removed>>
    BY <1>1 DEF Rotate, Sample, Stop
  <1>3. \/ pc' = "run" /\ job' = job
        \/ pc' = "write" /\ job'.start = active
    <2>1. ASSUME NEW utc \in now - Jitter .. now, Rotate(utc)
          PROVE  pc' = "write" /\ job'.start = active
      BY <2>1 DEF Rotate
    <2>2. CASE Stop
      BY <2>2 DEF Stop
    <2>3. ASSUME NEW utc \in now - Jitter .. now, NEW flush \in BOOLEAN, Sample(utc, flush)
          PROVE  pc' = "run" /\ job' = job
      BY <1>1, <2>3 DEF Sample
    <2> QED BY <2>1, <2>2, <2>3
  <1>4. (\A s \in Starts : Listed(s)' <=> Listed(s)) /\ RowsApart'
    BY <1>2, SameIndex DEF NoFaults
  <1>5. \A s \in Starts : s # active => part'[s] = part[s]
    BY <1>1 DEF Rotate, Sample, Stop, Flush
  <1>6. PartIsOurs'
    BY <1>1, <1>2, <1>3, <1>5 DEF NoFaults, PartIsOurs, Sealing
  <1>7. NewRow' /\ ListedThere' /\ SealedListed' /\ Whole' /\ Unfailed'
    BY <1>1, <1>2, <1>3, <1>4
       DEF NoFaults, NewRow, ListedThere, SealedListed, Whole, Unfailed
  <1>8. hand = None /\ stamp \in Seq(Starts) /\ Len(stamp) \in Nat
    BY <1>1 DEF IInv, Shape, Times, Sealing
  <1>9. ASSUME NEW more \in Seq(Record), part' = [part EXCEPT ![active].recs = @ \o more]
        PROVE  \A r : OnDisk(r) \/ r \in ToSet(more) => OnDisk(r)'
    <2>1. ToSet(part'[active].recs) = ToSet(part[active].recs) \cup ToSet(more)
      BY <1>1, <1>2, <1>9, Added DEF IInv
    <2> QED BY <1>1, <1>2, <1>5, <2>1 DEF OnDisk
  <1>10. NoneLost'
    <2>1. ASSUME NEW utc \in now - Jitter .. now, stamp' = Append(stamp, utc),
                 \A r : OnDisk(r) \/ r \in ToSet(buf) \/ r = Len(stamp) + 1
                          => OnDisk(r)' \/ r \in ToSet(buf') \/ r = hand'
          PROVE  NoneLost'
      <3>1. \A r \in DOMAIN stamp' : r \in DOMAIN stamp \/ r = Len(stamp) + 1
        BY <1>8, <2>1
      <3>2. \A r \in DOMAIN stamp : r # hand
        BY <1>8 DEF None
      <3> QED BY <1>2, <2>1, <3>1, <3>2 DEF NoFaults, NoneLost
    <2>2. ASSUME NEW utc \in now - Jitter .. now, Rotate(utc) PROVE NoneLost'
      <3>1. \A r : OnDisk(r) \/ r \in ToSet(buf) => OnDisk(r)'
        BY <1>9, <2>2 DEF Rotate, Flush, IInv, Shape
      <3> QED BY <2>1, <2>2, <3>1 DEF Rotate
    <2>3. ASSUME NEW utc \in now - Jitter .. now, NEW flush \in BOOLEAN, Sample(utc, flush)
          PROVE  NoneLost'
      <3> PICK r \in Record : r = Len(stamp) + 1
        BY <1>8, <2>3, StoreAssumption DEF Sample, Record
      <3>1. buf \in Seq(Record)
        BY DEF IInv, Shape
      <3>2. Append(buf, r) \in Seq(Record) /\ ToSet(Append(buf, r)) = ToSet(buf) \cup {r}
        BY <3>1, AppendRecords
      <3>3. CASE flush
        <4>1. part' = [part EXCEPT ![active].recs = @ \o Append(buf, r)] /\ stamp' = Append(stamp, utc)
          BY <2>3, <3>3 DEF Sample
        <4>2. \A x : OnDisk(x) \/ x \in ToSet(buf) \/ x = r => OnDisk(x)'
          BY <1>9, <3>2, <4>1
        <4> QED BY <2>1, <4>1, <4>2
      <3>4. CASE ~flush
        <4>1. part' = part /\ buf' = Append(buf, r) /\ stamp' = Append(stamp, utc)
          BY <2>3, <3>4 DEF Sample
        <4>2. \A x : OnDisk(x) => OnDisk(x)'
          BY <1>2, <4>1 DEF OnDisk
        <4>3. ToSet(buf') = ToSet(buf) \cup {r}
          BY <3>2, <4>1
        <4> QED BY <2>1, <4>1, <4>2, <4>3
      <3> QED BY <3>3, <3>4
    <2>4. CASE Stop
      <3>1. \A r : OnDisk(r) \/ r \in ToSet(buf) => OnDisk(r)'
        BY <1>9, <2>4 DEF Stop, Flush, IInv, Shape
      <3>2. stamp' = stamp /\ hand' = hand
        BY <2>4 DEF Stop
      <3> QED BY <1>2, <3>1, <3>2 DEF NoFaults, NoneLost
    <2> QED BY <2>2, <2>3, <2>4
  <1> QED BY <1>4, <1>6, <1>7, <1>10 DEF NoFaults

\* While there has been no fault, no step that is none breaks this.
LEMMA NextNoFaults ==
  ASSUME IInv, OInv, Rest, XInv, faults = 0 => NoFaults, [Next]_vars
  PROVE  faults' = 0 => NoFaults'
  <1> SUFFICES ASSUME faults' = 0 PROVE NoFaults'
    OBVIOUS
  <1> USE DEF files, process, past
  <1>0. faults \in Nat
    BY StoreAssumption DEF Rest
  <1>1. CASE SealWriteFails \/ IndexFails \/ RemoveFails \/ OpenFails \/ Crash
    <2>1. faults' = faults + 1
      BY <1>1 DEF SealWriteFails, IndexFails, RemoveFails, OpenFails, Crash, Fails
    <2> QED BY <1>0, <2>1
  <1> HIDE DEF files, process, past
  <1>2. CASE \/ \E m \in {"run", "verify"} : Start(m)
             \/ \E s \in Starts : RecoverPart(s)
             \/ Recovered \/ Retained \/ Tick \/ UNCHANGED vars
    <2>1. faults' = faults
      BY <1>2 DEF Start, RecoverPart, Recovered, Retained, Tick, vars
    <2> QED BY <1>2, <2>1, SameFilesClean
  <1>3. CASE \E s \in Starts : RemoveExpired(s)
    <2>1. faults' = faults
      BY <1>3 DEF RemoveExpired
    <2> QED BY <1>3, <2>1, RemoveExpiredClean
  <1>4. CASE Rebuild
    <2>1. faults' = faults
      BY <1>4 DEF Rebuild
    <2> QED BY <1>4, <2>1, RebuildClean
  <1>5. CASE SealWrite \/ SealLog \/ SealRemove
    <2>1. faults' = faults
      BY <1>5 DEF SealWrite, SealLog, SealRemove
    <2> QED BY <1>5, <2>1, SealClean
  <1>6. CASE OpenSegment
    <2>1. faults' = faults
      BY <1>6 DEF OpenSegment
    <2> QED BY <1>6, <2>1, OpenClean
  <1>7. CASE \/ \E utc \in now - Jitter .. now :
                  Rotate(utc) \/ \E flush \in BOOLEAN : Sample(utc, flush)
             \/ Stop
    <2>1. faults' = faults
      BY <1>7 DEF Rotate, Sample, Stop
    <2> QED BY <1>7, <2>1, WriterClean
  <1>8. CASE StopDead
    <2>1. faults' = faults /\ pc = "dead"
      BY <1>8 DEF StopDead
    <2> QED BY <2>1 DEF NoFaults, Unfailed
  <1> QED BY <1>1, <1>2, <1>3, <1>4, <1>5, <1>6, <1>7, <1>8 DEF Next, Exhausted

\* When the process has ended, all samples are in listed segments.
LEMMA CleanExport ==
  ASSUME IInv, OInv, Rest, XInv, faults = 0 => NoFaults PROVE CleanStopKeepsEverything
  <1> SUFFICES ASSUME pc = "down", faults = 0, NEW r \in DOMAIN stamp, r \notin retired
               PROVE  TimesExported(r) = 1
    BY DEF CleanStopKeepsEverything
  <1>1. hand = None /\ buf = << >>
    BY DEF IInv, OInv, Times, MemoryIsLater, Sealing
  <1>2. r # None
    BY DEF IInv, Shape, None
  <1>3. PICK s \in Starts : r \in ToSet(part[s].recs) \cup ToSet(zst[s].recs)
    BY <1>1, <1>2, NoRecords DEF NoFaults, NoneLost, OnDisk
  <1>4. part[s].recs = << >>
    BY DEF NoFaults, PartIsOurs, Sealing, IInv, Readable
  <1>5. r \in ToSet(zst[s].recs)
    BY <1>3, <1>4, NoRecords
  <1>6. Listed(s)
    BY <1>5, NoRecords DEF NoFaults, SealedListed
  <1> PICK R : R = Rows(index)
    OBVIOUS
  <1>7. PICK k \in DOMAIN R : R[k].start = s
    BY <1>6 DEF Listed
  <1>8. R \in Seq(Line)
    BY RowsAreLines DEF Rest
  <1>9. R # << >>
    BY <1>7
  <1>10. ExportRows = R
    BY <1>9 DEF ExportRows
  <1>11. \A t, u \in Starts : r \in ToSet(zst[t].recs) /\ r \in ToSet(zst[u].recs) => t = u
    BY DEF OInv, FilesApart, Records
  <1>12. Cardinality(Holders(R, zst, r)) = 1
    <2>1. \A i, j \in DOMAIN R : R[i].start = R[j].start => i = j
      BY DEF NoFaults, RowsApart
    <2>2. r \in ToSet(zst[R[k].start].recs)
      BY <1>5, <1>7
    <2> QED BY ONLY <1>7, <1>8, <1>11, <2>1, <2>2, ListedOnce
  <1> QED BY <1>10, <1>12 DEF TimesExported, Holders

\* Without a kill or a failure, any number of runs and verifies, rotations and removals by
\* retention later, all samples taken are exported, once: no segment is opened under a
\* name that is listed, and retention is followed by a rebuild (segment_writer.cpp:42-55,
\* prober.cpp:344-421).
THEOREM CleanStopsExport == Spec => []CleanStopKeepsEverything
  <1>1. Init => IInv /\ OInv /\ Rest /\ XInv /\ (faults = 0 => NoFaults)
    BY InitIInv, InitOInv, InitRest, InitXInv, InitNoFaults
  <1>2. IInv /\ OInv /\ Rest /\ XInv /\ (faults = 0 => NoFaults) /\ [Next]_vars
          => (IInv /\ OInv /\ Rest /\ XInv /\ (faults = 0 => NoFaults))'
    BY Control, NextIInv, NextOInv, RestStep, NextXInv, NextNoFaults DEF Moves
  <1>3. IInv /\ OInv /\ Rest /\ XInv /\ (faults = 0 => NoFaults) => CleanStopKeepsEverything
    BY CleanExport
  <1> QED BY <1>1, <1>2, <1>3, PTL DEF Spec

-----------------------------------------------------------------------------
(* Retention: a row reaches as far as the records of its segment, but for what    *)
(* samples are out of order; and a name that a row has is not used again.         *)

\* A segment, and what samples are out of order, is not longer than the retention.
LongRetention == RetentionMs = 0 \/ SegMs + Jitter <= RetentionMs

Reaches(s, e) == s <= e + Jitter /\ \A r \in Records(s) : stamp[r] <= e + Jitter

Past(x) == PastBy(x, x)

NamesKept ==
  \A s \in Starts :
    /\ zst[s].ok => zst[s].exists
    /\ zst[s].ok /\ part[s].ok => ToSet(part[s].recs) \subseteq ToSet(zst[s].recs)
Fresh == pc = "run" => ~zst[active].exists /\ ~Listed(active)
ListedTimes == \A s \in Starts : Listed(s) => zst[s].exists \/ Past(s + SegMs)
RowsReach ==
  \A i \in DOMAIN Rows(index) : Reaches(Rows(index)[i].start, Rows(index)[i].end)
JobReach ==
  /\ pc = "write" /\ job.end # 0 => Reaches(job.start, job.end)
  /\ pc = "log" => Reaches(job.start, job.end) /\ zst[job.start].exists
RunReach ==
  pc = "run" => Reaches(active, last_utc) /\ \A r \in ToSet(buf) : stamp[r] <= last_utc + Jitter
PastStamps == \A r \in DOMAIN stamp : stamp[r] <= now
TodoOld ==
  pc = "retain" /\ todo # {} =>
    /\ RetentionMs > 0
    /\ \A s \in todo : /\ s + RetentionMs < now + Jitter
                       /\ \A r \in Records(s) : stamp[r] + RetentionMs < now + Jitter

RInv ==
  /\ NamesKept /\ Fresh /\ ListedTimes /\ RowsReach /\ JobReach /\ RunReach /\ PastStamps
  /\ TodoOld

\* The invariant holds of an empty directory.
LEMMA InitRInv == ASSUME Init PROVE RInv
  <1>1. Rows(index) = << >> /\ pc = "down" /\ stamp = << >>
    BY DEF Init, Rows
  <1>2. \A s \in Starts : zst[s] = Absent /\ part[s] = Absent /\ ~Listed(s)
    BY <1>1 DEF Init, Listed
  <1>3. NamesKept
    BY <1>2 DEF NamesKept, Absent
  <1>4. RowsReach /\ PastStamps
    BY <1>1 DEF RowsReach, PastStamps
  <1> QED BY <1>1, <1>2, <1>3, <1>4 DEF RInv, Fresh, ListedTimes, JobReach, RunReach, TodoOld

\* What is past stays past.
LEMMA PastLasts ==
  ASSUME IInv, [Next]_vars, NEW x \in Nat, Past(x) PROVE Past(x)'
  BY PastStays, Control DEF Past, Moves

\* A row goes on to reach as far as its segment while the index is as it is and no listed
\* segment gets a record.
LEMMA KeepRows ==
  ASSUME IInv, Rest, [Next]_vars, RInv, UNCHANGED index,
         \A s \in Starts : zst[s].exists => zst'[s].exists,
         \A s \in Starts : \A r \in Records(s) : stamp'[r] = stamp[r],
         \A s \in Starts : Listed(s) => Records(s)' \subseteq Records(s)
  PROVE  ListedTimes' /\ RowsReach'
  <1>1. \A s \in Starts : Listed(s)' <=> Listed(s)
    BY SameIndex
  <1>2. ListedTimes'
    <2>1. \A s \in Starts : s + SegMs \in Nat
      BY StartsAre, StoreAssumption
    <2> QED BY <1>1, <2>1, PastLasts DEF RInv, ListedTimes
  <1> PICK R : R = Rows(index)
    OBVIOUS
  <1>3. R \in Seq(Line) /\ Rows(index') = R
    BY RowsAreLines DEF Rest
  <1>4. \A i \in DOMAIN R : R[i].start \in Starts
    <2>1. \A i \in DOMAIN R : R[i] \in Line
      BY <1>3
    <2> QED BY <2>1 DEF Line
  <1>5. ASSUME NEW i \in DOMAIN R PROVE Reaches(R[i].start, R[i].end)'
    <2> PICK s \in Starts : s = R[i].start
      BY <1>4
    <2> PICK e : e = R[i].end
      OBVIOUS
    <2>1. Reaches(s, e)
      BY DEF RInv, RowsReach
    <2>2. Listed(s)
      BY DEF Listed
    <2> QED BY <2>1, <2>2 DEF Reaches
  <1> QED BY <1>2, <1>3, <1>5 DEF RowsReach

\* The stamps of what is on disk are times.
LEMMA StampsAre ==
  ASSUME Shape, OInv, NEW s \in Starts PROVE \A r \in Records(s) : stamp[r] \in Nat
  <1>1. \A r \in Records(s) : r \in DOMAIN stamp
    BY OnDiskIsStamped
  <1>2. stamp \in Seq(Starts)
    BY DEF Shape
  <1>3. \A r \in DOMAIN stamp : stamp[r] \in Starts
    BY <1>2
  <1> QED BY <1>1, <1>3, StartsAre

\* A file that is gone or broken has no records.
LEMMA FewerRecords ==
  ASSUME IInv,
         \A s \in Starts : zst'[s] \in {zst[s], Broken, Absent},
         \A s \in Starts : part'[s] \in {part[s], Broken, Absent}
  PROVE  \A s \in Starts : Records(s)' \subseteq Records(s)
  BY NoRecords DEF Records, Broken, Absent

\* Steps that leave the index alone and break or remove a file at most.
LEMMA QuietRetains ==
  ASSUME IInv, OInv, Rest, RInv,
         \/ \E m \in {"run", "verify"} : Start(m)
         \/ \E s \in Starts : RecoverPart(s)
         \/ Recovered \/ Retained \/ StopDead \/ Tick \/ UNCHANGED vars
         \/ SealRemove \/ SealWriteFails \/ IndexFails \/ RemoveFails \/ OpenFails
  PROVE  RInv'
  <1> USE DEF files, process, past, Fails
  <1>0. /\ part \in [Starts -> File] /\ zst \in [Starts -> File] /\ now \in Nat
        /\ now' \in {now, now + 1} /\ stamp \in Seq(Starts) /\ Jitter \in Nat
    BY StoreAssumption
       DEF IInv, Shape, Start, RecoverPart, Recovered, Retained, StopDead, Tick, vars, SealRemove,
           SealWriteFails, IndexFails, RemoveFails, OpenFails
  <1>1. UNCHANGED <<index, stamp, buf, active, last_utc>>
    BY DEF Start, RecoverPart, Recovered, Retained, StopDead, Tick, vars, SealRemove,
           SealWriteFails, IndexFails, RemoveFails, OpenFails
  <1>2. /\ \A s \in Starts : zst'[s] \in {zst[s], Broken}
        /\ \A s \in Starts : part'[s] \in {part[s], Absent}
    BY <1>0 DEF Start, RecoverPart, Recovered, Retained, StopDead, Tick, vars, SealRemove,
           SealWriteFails, IndexFails, RemoveFails, OpenFails
  <1>3. [Next]_vars
    BY DEF Next
  <1>4. \A s \in Starts : Records(s)' \subseteq Records(s)
    BY <1>2, FewerRecords
  <1>5. NamesKept'
    BY <1>2 DEF RInv, NamesKept, Broken, Absent
  <1>6. ListedTimes' /\ RowsReach'
    <2>1. \A s \in Starts : zst[s].exists => zst'[s].exists
      BY <1>2 DEF Broken
    <2> HIDE DEF files, process, past, Fails
    <2> QED BY <1>1, <1>3, <1>4, <2>1, KeepRows
  <1>7. PastStamps'
    <2>1. \A r \in DOMAIN stamp : stamp[r] \in Nat
      BY <1>0, StartsAre
    <2> QED BY <1>0, <1>1, <2>1 DEF RInv, PastStamps
  <1>8. /\ pc' = "run" => pc = "run" /\ UNCHANGED <<zst, part>>
        /\ pc' = "log" => pc = "log" /\ UNCHANGED <<zst, part, job>>
        /\ pc' = "write" => (pc = "write" /\ job' = job) \/ job'.end = 0
    BY DEF IInv, Shape, Start, RecoverPart, Recovered, Retained, StopDead, Tick, vars,
           SealRemove, SealWriteFails, IndexFails, RemoveFails, OpenFails
  <1>9. Fresh' /\ RunReach'
    <2> HIDE DEF files, process, past, Fails
    <2>1. CASE pc' = "run"
      <3>1. /\ pc = "run" /\ UNCHANGED <<zst, part, active, buf, stamp, last_utc>>
            /\ (Listed(active)' <=> Listed(active))
        <4>1. active \in Starts
          BY DEF IInv, Shape
        <4> QED BY <1>1, <1>8, <2>1 DEF Listed
      <3> QED BY <3>1 DEF RInv, Fresh, RunReach, Reaches, Records
    <2>2. CASE pc' # "run"
      BY <2>2 DEF Fresh, RunReach
    <2> QED BY <2>1, <2>2
  <1>10. JobReach'
    <2> HIDE DEF files, process, past, Fails
    <2> PICK u \in Starts : u = job.start
      BY DEF IInv, Shape
    <2>1. CASE pc' = "log"
      BY <1>1, <1>8, <2>1 DEF RInv, JobReach, Reaches, Records
    <2>2. CASE pc' = "write" /\ job'.end # 0
      BY <1>1, <1>4, <1>8, <2>2 DEF RInv, JobReach, Reaches
    <2> QED BY <2>1, <2>2 DEF JobReach
  <1>11. TodoOld'
    <2>1. CASE pc' # "retain"
      BY <2>1 DEF TodoOld
    <2>2. CASE pc' = "retain" /\ pc = "retain" /\ todo' = todo
      <3> HIDE DEF files, process, past, Fails
      <3> SUFFICES ASSUME NEW s \in todo
                   PROVE  /\ RetentionMs > 0 /\ s + RetentionMs < now' + Jitter
                          /\ \A r \in Records(s)' : stamp'[r] + RetentionMs < now' + Jitter
        BY <2>2 DEF TodoOld
      <3>1. /\ RetentionMs > 0 /\ s + RetentionMs < now + Jitter
            /\ \A r \in Records(s) : stamp[r] + RetentionMs < now + Jitter
        BY <2>2 DEF RInv, TodoOld
      <3>2. s \in Starts /\ s \in Nat /\ RetentionMs \in Nat
        BY StartsAre, StoreAssumption DEF IInv, Shape
      <3>3. \A r \in Records(s) : stamp[r] \in Nat
        BY <3>2, StampsAre DEF IInv
      <3>4. ASSUME NEW r \in Records(s)' PROVE stamp'[r] + RetentionMs < now' + Jitter
        <4>1. r \in Records(s) /\ stamp'[r] = stamp[r]
          BY <1>1, <1>4, <3>2
        <4> PICK a \in Nat : a = stamp[r]
          BY <3>3, <4>1
        <4>2. a + RetentionMs < now + Jitter
          BY <3>1, <4>1
        <4>3. a + RetentionMs < now' + Jitter
          BY <1>0, <3>2, <4>2
        <4> QED BY <4>1, <4>3
      <3>5. s + RetentionMs < now' + Jitter
        <4> PICK t \in Nat : t = s
          BY <3>2
        <4>1. t + RetentionMs < now + Jitter
          BY <3>1
        <4>2. now' \in Nat /\ now \in Nat /\ now <= now' /\ Jitter \in Nat /\ RetentionMs \in Nat
          BY <1>0, <3>2
        <4> PICK n \in Nat : n = now
          BY <4>2
        <4> PICK m \in Nat : m = now'
          BY <4>2
        <4> PICK limit \in Nat : limit = RetentionMs
          BY <4>2
        <4> PICK j \in Nat : j = Jitter
          BY <4>2
        <4>3. t + limit < n + j /\ n <= m
          BY <4>1, <4>2
        <4>4. t + limit < m + j
          BY ONLY <4>3
        <4> QED BY <4>4
      <3> QED BY <3>1, <3>4, <3>5
    <2>3. CASE Recovered
      <3> HIDE DEF files, process, past, Fails
      <3>1. /\ todo' \subseteq Expired /\ (todo' # {} => RetentionMs > 0) /\ now' = now
            /\ UNCHANGED <<zst, part, stamp>>
        BY <2>3 DEF Recovered, files, past
      <3> PICK R : R = Rows(index)
        OBVIOUS
      <3>2. R \in Seq(Line)
        BY RowsAreLines DEF Rest
      <3>3. ASSUME NEW s \in todo'
            PROVE  /\ s + RetentionMs < now + Jitter
                   /\ \A r \in Records(s) : stamp[r] + RetentionMs < now + Jitter
        <4>1. s \in Starts /\ s \in Nat /\ RetentionMs \in Nat
          BY <3>1, StartsAre, StoreAssumption DEF Expired
        <4>2. PICK i \in DOMAIN R : R[i].start = s /\ R[i].end < now - RetentionMs
          BY <3>1 DEF Expired
        <4> PICK e : e = R[i].end
          OBVIOUS
        <4>3. e \in Nat
          <5>1. R[i] \in Line
            BY <3>2
          <5> QED BY <5>1 DEF Line
        <4>4. s <= e + Jitter /\ \A r \in Records(s) : stamp[r] <= e + Jitter
          BY <4>2 DEF RInv, RowsReach, Reaches
        <4>5. \A r \in Records(s) : stamp[r] \in Nat
          BY <4>1, StampsAre DEF IInv
        <4>6. e < now - RetentionMs
          BY <4>2
        <4>7. \A r \in Records(s) : stamp[r] + RetentionMs < now + Jitter
          BY <1>0, <4>1, <4>3, <4>4, <4>5, <4>6
        <4> QED BY <1>0, <4>1, <4>3, <4>4, <4>6, <4>7
      <3>4. \A s \in Starts : Records(s)' = Records(s)
        BY <3>1 DEF Records
      <3>5. todo' \subseteq Starts
        BY <3>1 DEF Expired
      <3> QED BY <3>1, <3>3, <3>4, <3>5 DEF TodoOld
    <2>4. \/ pc' # "retain"
          \/ pc' = "retain" /\ pc = "retain" /\ todo' = todo
          \/ Recovered
      BY DEF IInv, Shape, Start, RecoverPart, Retained, StopDead, Tick, vars,
             SealRemove, SealWriteFails, IndexFails, RemoveFails, OpenFails
    <2> QED BY <2>1, <2>2, <2>3, <2>4
  <1> QED BY <1>5, <1>6, <1>7, <1>9, <1>10, <1>11 DEF RInv

\* Retention removes what is past: the name is not that of a segment to come.
LEMMA RemoveExpiredRetains ==
  ASSUME LongRetention, IInv, OInv, Rest, RInv, NEW u \in Starts, RemoveExpired(u) PROVE RInv'
  <1>0. /\ zst \in [Starts -> File] /\ now \in FirstTime .. MaxTime /\ now \in Nat
        /\ SegMs \in Nat /\ Jitter \in Nat /\ RetentionMs \in Nat /\ u \in Nat
    BY StoreAssumption, StartsAre DEF IInv, Shape
  <1>1. /\ UNCHANGED <<part, index, pc, job, active, last_utc, buf, hand, now, stamp>>
        /\ pc = "retain" /\ u \in todo /\ todo' = todo \ {u}
    BY DEF RemoveExpired
  <1>2. \A s \in Starts : zst'[s] \in {zst[s], Absent} /\ (s # u => zst'[s] = zst[s])
    BY <1>0 DEF RemoveExpired
  <1>3. \A s \in Starts : Records(s)' \subseteq Records(s)
    BY <1>1, <1>2, FewerRecords
  <1>4. NamesKept'
    BY <1>1, <1>2 DEF RInv, NamesKept, Absent
  <1>5. \A s \in Starts : Listed(s)' <=> Listed(s)
    BY <1>1, SameIndex
  <1>6. ListedTimes'
    <2>1. \A x : Past(x)' <=> Past(x)
      BY <1>1 DEF Past, PastBy, ToOpen, OpenTime, Sealing
    <2>2. Past(u + SegMs)
      <3>1. hand = None
        BY <1>1 DEF IInv, Times, Sealing
      <3>2. OpenTime = now
        BY <3>1 DEF OpenTime
      <3>3. RetentionMs > 0 /\ u + RetentionMs < now + Jitter
        BY <1>1 DEF RInv, TodoOld
      <3>4. u + SegMs <= now
        BY <1>0, <3>3 DEF LongRetention
      <3> QED BY <1>1, <3>2, <3>4 DEF Past, PastBy
    <2> QED BY <1>2, <1>5, <2>1, <2>2 DEF RInv, ListedTimes
  <1>7. RowsReach'
    <2> PICK R : R = Rows(index)
      OBVIOUS
    <2>1. R \in Seq(Line) /\ Rows(index') = R
      BY <1>1, RowsAreLines DEF Rest
    <2>2. \A i \in DOMAIN R : R[i].start \in Starts
      <3>1. \A i \in DOMAIN R : R[i] \in Line
        BY <2>1
      <3> QED BY <3>1 DEF Line
    <2>3. \A i \in DOMAIN R : Reaches(R[i].start, R[i].end)'
      BY <1>1, <1>3, <2>2 DEF RInv, RowsReach, Reaches
    <2> QED BY <2>1, <2>3 DEF RowsReach
  <1>8. TodoOld'
    <2>1. todo \subseteq Starts
      BY DEF IInv, Shape
    <2> QED BY <1>1, <1>3, <2>1 DEF RInv, TodoOld
  <1>9. Fresh' /\ JobReach' /\ RunReach'
    BY <1>1 DEF Fresh, JobReach, RunReach
  <1>10. PastStamps'
    BY <1>1 DEF RInv, PastStamps
  <1> QED BY <1>4, <1>6, <1>7, <1>8, <1>9, <1>10 DEF RInv

\* The row of a readable segment reaches as far as its records.
LEMMA RowOfReaches ==
  ASSUME IInv, OInv, RInv, NEW s \in Starts, zst[s].ok
  PROVE  RowOf(s).start = s /\ Reaches(s, RowOf(s).end)
  <1>1. RowOf(s).start = s /\ RowOf(s).end = LatestTime(s, zst[s].recs)
    BY DEF RowOf
  <1>2. zst[s].recs \in Seq(DOMAIN stamp) /\ stamp \in Seq(Starts)
    BY OnDiskIsStamped DEF IInv, Shape
  <1> PICK e : e = LatestTime(s, zst[s].recs)
    OBVIOUS
  <1>3. e \in Starts /\ s <= e /\ \A r \in ToSet(zst[s].recs) : stamp[r] <= e
    BY <1>2, LatestTimeIs
  <1>4. Records(s) = ToSet(zst[s].recs)
    BY NoRecords DEF RInv, NamesKept, IInv, Readable, Records
  <1>5. e \in Nat /\ s \in Nat /\ Jitter \in Nat /\ \A r \in Records(s) : stamp[r] \in Nat
    BY <1>3, StartsAre, StampsAre, StoreAssumption DEF IInv
  <1>6. s <= e + Jitter
    BY <1>3, <1>5
  <1>7. \A r \in Records(s) : stamp[r] <= e + Jitter
    BY <1>3, <1>4, <1>5
  <1> QED BY <1>1, <1>6, <1>7 DEF Reaches

\* rebuild(), cut short by a kill or not, writes such rows.
LEMMA RebuiltRows ==
  ASSUME IInv, OInv, RInv, UNCHANGED <<part, zst, stamp>>,
         \A i \in DOMAIN Rows(index') :
           \E s \in Starts : zst[s].ok /\ Rows(index')[i] = RowOf(s)
  PROVE  RowsReach' /\ ListedTimes' /\ NamesKept'
  <1> PICK R : R = Rows(index')
    OBVIOUS
  <1>1. \A i \in DOMAIN R : \E s \in Starts : zst[s].ok /\ R[i] = RowOf(s)
    OBVIOUS
  <1>2. \A i \in DOMAIN R : \E s \in Starts :
          zst[s].ok /\ R[i].start = s /\ Reaches(s, R[i].end)
    <2> SUFFICES ASSUME NEW i \in DOMAIN R
                 PROVE  \E s \in Starts : zst[s].ok /\ R[i].start = s /\ Reaches(s, R[i].end)
      OBVIOUS
    <2>1. PICK s \in Starts : zst[s].ok /\ R[i] = RowOf(s)
      BY <1>1
    <2>2. RowOf(s).start = s /\ Reaches(s, RowOf(s).end)
      BY <2>1, RowOfReaches
    <2> QED BY <2>1, <2>2
  <1>3. \A s, e : Reaches(s, e)' <=> Reaches(s, e)
    BY DEF Reaches, Records
  <1>4. RowsReach'
    BY <1>2, <1>3 DEF RowsReach
  <1>5. ListedTimes'
    BY <1>2 DEF ListedTimes, Listed, RInv, NamesKept
  <1>6. NamesKept'
    BY DEF RInv, NamesKept
  <1> QED BY <1>4, <1>5, <1>6

\* rebuild() keeps the invariant.
LEMMA RebuildRetains == ASSUME IInv, OInv, RInv, Rebuild PROVE RInv'
  <1>1. /\ UNCHANGED <<part, zst, stamp, now>> /\ pc' \in {"down", "open"}
        /\ index' = [exists |-> TRUE, lines |-> RebuiltLines]
    BY DEF Rebuild, NewLines
  <1>2. RebuiltLines # << >>
    <2>1. RebuiltLines \in Seq(Line) /\ Len(RebuiltLines) >= 1
      BY RebuiltIs DEF IInv
    <2> QED BY <2>1
  <1>3. Rows(index') = Tail(RebuiltLines)
    BY <1>1, <1>2 DEF Rows
  <1>4. \A i \in DOMAIN Tail(RebuiltLines) :
          \E s \in Starts : zst[s].ok /\ Tail(RebuiltLines)[i] = RowOf(s)
    BY RebuiltIs DEF IInv
  <1>5. RowsReach' /\ ListedTimes' /\ NamesKept'
    BY <1>1, <1>3, <1>4, RebuiltRows
  <1> QED BY <1>1, <1>5 DEF RInv, Fresh, JobReach, RunReach, PastStamps, TodoOld

\* A sealed segment is listed with a row that reaches as far as its records.
LEMMA SealRetains ==
  ASSUME IInv, OInv, Rest, XInv, RInv, SealWrite \/ SealLog PROVE RInv'
  <1> USE DEF files, process, past
  <1> PICK u \in Starts : u = job.start
    BY DEF IInv, Shape
  <1>1. part \in [Starts -> File] /\ zst \in [Starts -> File] /\ [Next]_vars
    BY DEF IInv, Shape, Next
  <1>2. UNCHANGED <<part, active, last_utc, stamp, buf, todo, now>>
    BY DEF SealWrite, SealLog
  <1>3. PastStamps'
    BY <1>2 DEF RInv, PastStamps
  <1>4. CASE SealWrite
    <2>1. /\ part[u].ok /\ zst' = [zst EXCEPT ![u] = Holding(part[u].recs)]
          /\ UNCHANGED <<part, index>> /\ pc = "write" /\ pc' = "log"
      BY <1>4 DEF SealWrite, OutFile
    <2>2. zst'[u] = Holding(part[u].recs) /\ \A s \in Starts : s # u => zst'[s] = zst[s]
      BY <1>1, <2>1
    <2>3. /\ job'.start = u
          /\ job'.end = IF job.end = 0 THEN LatestTime(u, part[u].recs) ELSE job.end
      BY <1>4 DEF SealWrite, IInv, Shape
    <2>4. NamesKept'
      BY <1>2, <2>2 DEF RInv, NamesKept, Holding
    <2>5. \A s \in Starts : Records(s)' \subseteq Records(s)
      BY <1>2, <2>2 DEF Records, Holding
    <2>6. ListedTimes' /\ RowsReach'
      <3>1. \A s \in Starts : zst[s].exists => zst'[s].exists
        BY <2>2 DEF Holding
      <3> HIDE DEF files, process, past
      <3> QED BY <1>1, <1>2, <2>1, <2>5, <3>1, KeepRows
    <2>7. Reaches(u, job.end)'
      <3>1. CASE job.end # 0
        BY <1>2, <2>1, <2>3, <2>5, <3>1 DEF RInv, JobReach, Reaches
      <3>2. CASE job.end = 0
        <4>1. part[u].recs \in Seq(DOMAIN stamp) /\ stamp \in Seq(Starts)
          BY OnDiskIsStamped DEF IInv, Shape
        <4> PICK e : e = LatestTime(u, part[u].recs)
          OBVIOUS
        <4>2. e \in Starts /\ u <= e /\ \A r \in ToSet(part[u].recs) : stamp[r] <= e
          BY <4>1, LatestTimeIs
        <4>3. e \in Nat /\ u \in Nat /\ Jitter \in Nat /\ \A r \in Records(u) : stamp[r] \in Nat
          BY <4>2, StartsAre, StampsAre, StoreAssumption DEF IInv
        <4>4. u <= e + Jitter
          BY <4>2, <4>3
        <4>5. Records(u)' = ToSet(part[u].recs) /\ ToSet(part[u].recs) \subseteq Records(u)
          BY <1>2, <2>2 DEF Records, Holding
        <4>6. \A r \in ToSet(part[u].recs) : stamp[r] <= e + Jitter
          BY <4>2, <4>3, <4>5
        <4> QED BY <1>2, <2>3, <3>2, <4>4, <4>5, <4>6 DEF Reaches
      <3> QED BY <3>1, <3>2
    <2>8. JobReach'
      BY <2>1, <2>2, <2>3, <2>7 DEF JobReach, Holding
    <2> QED BY <1>3, <2>1, <2>4, <2>6, <2>8 DEF RInv, Fresh, RunReach, TodoOld
  <1>5. CASE SealLog
    <2> PICK row \in Line : row = [start |-> job.start, end |-> job.end, count |-> job.count]
      BY DEF Rest, IInv, Shape, Line
    <2>1. /\ UNCHANGED <<part, zst, job>> /\ pc = "log" /\ pc' = "remove"
          /\ index' = AppendRow(index, row)
      BY <1>5 DEF SealLog
    <2>2. index \in [exists : BOOLEAN, lines : Seq(Line)] /\ LinesThere
      BY DEF Rest, XInv
    <2> PICK old \in Seq(Line) : old = Rows(index)
      BY <2>2, AppendedRow DEF LinesThere
    <2> PICK after : after = Rows(index')
      OBVIOUS
    <2>3. after = Append(old, row) \/ after = << >>
      BY <2>1, <2>2, AppendedRow DEF LinesThere
    <2>4. \A i \in DOMAIN after : (i \in DOMAIN old /\ after[i] = old[i]) \/ after[i] = row
      BY <2>3
    <2>5. \A s, e : Reaches(s, e)' <=> Reaches(s, e)
      BY <1>2, <2>1 DEF Reaches, Records
    <2>6. RowsReach'
      <3>1. Reaches(row.start, row.end)
        BY <2>1 DEF RInv, JobReach
      <3>2. \A i \in DOMAIN old : Reaches(old[i].start, old[i].end)
        BY DEF RInv, RowsReach
      <3>3. \A i \in DOMAIN after : Reaches(after[i].start, after[i].end)
        BY <2>4, <3>1, <3>2
      <3> QED BY <2>5, <3>3 DEF RowsReach
    <2>7. \A s \in Starts : Listed(s)' => Listed(s) \/ zst[s].exists
      <3>1. zst[u].exists /\ row.start = u
        BY <2>1 DEF RInv, JobReach
      <3> QED BY <2>4, <3>1 DEF Listed
    <2>8. ListedTimes'
      <3>1. \A s \in Starts : s + SegMs \in Nat
        BY StartsAre, StoreAssumption
      <3> HIDE DEF files, process, past
      <3> QED BY <1>1, <2>1, <2>7, <3>1, PastLasts DEF RInv, ListedTimes
    <2>9. NamesKept'
      BY <2>1 DEF RInv, NamesKept
    <2> QED BY <1>3, <2>1, <2>6, <2>8, <2>9 DEF RInv, Fresh, JobReach, RunReach, TodoOld
  <1> QED BY <1>4, <1>5

\* A segment is opened under a name that no row has, or whose segment is not past.
LEMMA OpenRetains == ASSUME IInv, OInv, Rest, RInv, OpenSegment PROVE RInv'
  <1> PICK start : start = AlignedStart(OpenTime)
    OBVIOUS
  <1>0. /\ part \in [Starts -> File] /\ pc = "open" /\ [Next]_vars /\ SegMs \in Nat
        /\ Jitter \in Nat /\ now \in FirstTime .. MaxTime /\ stamp \in Seq(Starts)
    BY StoreAssumption DEF IInv, Shape, OpenSegment, Next
  <1>1. OpenTime \in Nat /\ OpenTime <= now
    BY <1>0, OpenedAt, Control
  <1>2. start <= OpenTime /\ OpenTime < start + SegMs
    BY <1>0, OpenedAt, Control
  <1>3. start \in Starts /\ start \in Nat
    BY <1>0, OpenedAt, Control, StartsAre
  <1>4. ~zst[start].exists
    BY <1>0, OpenedAt, Control
  <1>5. ~Listed(start)
    <2> SUFFICES ASSUME Listed(start) PROVE FALSE
      OBVIOUS
    <2>1. Past(start + SegMs)
      BY <1>3, <1>4 DEF RInv, ListedTimes
    <2>2. start + SegMs <= OpenTime
      BY <1>0, <2>1 DEF Past, PastBy, ToOpen
    <2> QED BY <1>0, <1>1, <1>2, <1>3, <2>2
  <1>6. /\ UNCHANGED <<zst, index, stamp, now, todo, job>>
        /\ pc' = "run" /\ active' = start /\ part' = [part EXCEPT ![start] = Holding(<< >>)]
        /\ last_utc' = IF hand = None THEN start ELSE stamp[hand]
        /\ buf' = FirstRecs
    BY DEF OpenSegment, past
  <1>7. part'[start] = Holding(<< >>) /\ \A s \in Starts : s # start => part'[s] = part[s]
    BY <1>0, <1>3, <1>6
  <1>8. Records(start)' = {} /\ \A s \in Starts : Records(s)' \subseteq Records(s)
    <2>1. zst[start].recs = << >>
      BY <1>3, <1>4 DEF IInv, Readable
    <2> QED BY <1>6, <1>7, <2>1, NoRecords DEF Records, Holding
  <1>9. ListedTimes' /\ RowsReach'
    <2>1. \A s \in Starts : \A r \in Records(s) : stamp'[r] = stamp[r]
      BY <1>6
    <2> QED BY <1>0, <1>6, <1>8, <2>1, KeepRows
  <1>10. NamesKept'
    BY <1>3, <1>4, <1>6, <1>7 DEF RInv, NamesKept
  <1>11. Fresh'
    <2>1. Listed(start)' <=> Listed(start)
      BY <1>6 DEF Listed
    <2> QED BY <1>4, <1>5, <1>6, <2>1 DEF Fresh
  <1>12. RunReach'
    <2> PICK e : e = last_utc'
      OBVIOUS
    <2>1. e \in Nat /\ start <= e + Jitter
      BY <1>0, <1>1, <1>2, <1>3, <1>6 DEF OpenTime
    <2>2. \A r \in ToSet(buf') : stamp[r] <= e + Jitter
      <3>1. CASE hand = None
        BY <1>6, <3>1, NoRecords DEF FirstRecs
      <3>2. CASE hand # None
        <4>1. ToSet(buf') = {hand} /\ e = stamp[hand]
          BY <1>6, <3>2, FewAscend DEF FirstRecs
        <4> QED BY <1>0, <2>1, <4>1
      <3> QED BY <3>1, <3>2
    <2> QED BY <1>6, <1>8, <2>1, <2>2 DEF RunReach, Reaches
  <1> QED BY <1>6, <1>9, <1>10, <1>11, <1>12
       DEF RInv, JobReach, PastStamps, TodoOld

\* The active part grows, and has no row.
LEMMA WriterRetains ==
  ASSUME IInv, OInv, Rest, RInv,
         \/ \E utc \in now - Jitter .. now :
              Rotate(utc) \/ \E flush \in BOOLEAN : Sample(utc, flush)
         \/ Stop
  PROVE  RInv'
  <1> USE DEF files, process, past
  <1>0. /\ part \in [Starts -> File] /\ active \in Starts /\ pc = "run" /\ part[active].ok
        /\ [Next]_vars /\ now \in Nat /\ Jitter \in Nat /\ stamp \in Seq(Starts)
        /\ buf \in Seq(Record) /\ Len(stamp) \in Nat /\ last_utc \in Nat
    <2>1. pc = "run"
      BY DEF Rotate, Sample, Stop
    <2>2. [Next]_vars
      BY DEF Next
    <2>3. now \in Nat /\ Jitter \in Nat /\ last_utc \in Nat
      <3>1. now \in FirstTime .. MaxTime
        BY DEF IInv, Shape
      <3>2. last_utc \in Nat
        BY DEF Rest
      <3> QED BY <3>1, <3>2, StoreAssumption
    <2>4. stamp \in Seq(Starts) /\ Len(stamp) \in Nat
      BY DEF IInv, Shape
    <2> QED BY <2>1, <2>2, <2>3, <2>4 DEF IInv, Shape, Readable
  <1>1. UNCHANGED <<zst, index, active, now, todo>>
    BY <1>0 DEF Rotate, Sample, Stop
  <1>2. \/ pc' = "run" /\ job' = job
        \/ pc' = "write" /\ job'.start = active /\ job'.end = last_utc /\ last_utc' = last_utc
           /\ buf' = << >> /\ part' = [part EXCEPT ![active].recs = @ \o buf]
    <2>1. ASSUME NEW utc \in now - Jitter .. now, Rotate(utc)
          PROVE  pc' = "write" /\ job'.start = active /\ job'.end = last_utc /\ last_utc' = last_utc
                 /\ buf' = << >> /\ part' = [part EXCEPT ![active].recs = @ \o buf]
      BY <2>1 DEF Rotate, SealedEnd, Flush
    <2>2. CASE Stop
      BY <2>2 DEF Stop, SealedEnd, Flush
    <2>3. ASSUME NEW utc \in now - Jitter .. now, NEW flush \in BOOLEAN, Sample(utc, flush)
          PROVE  pc' = "run" /\ job' = job
      BY <1>0, <2>3 DEF Sample
    <2> QED BY <2>1, <2>2, <2>3
  <1>3. \A s \in Starts : s # active => part'[s] = part[s] /\ Records(s)' = Records(s)
    BY <1>0, <1>1 DEF Rotate, Sample, Stop, Flush, Records
  <1>4. ~Listed(active) /\ ~zst[active].exists
    BY <1>0 DEF RInv, Fresh
  <1>5. stamp' = stamp \/ \E utc \in now - Jitter .. now : utc \in Starts /\ stamp' = Append(stamp, utc)
    <2>1. \A utc \in now - Jitter .. now : utc \in Starts
      BY StoreAssumption DEF Starts, IInv, Shape
    <2> QED BY <2>1 DEF Rotate, Sample, Stop
  <1>6. \A r \in DOMAIN stamp : stamp'[r] = stamp[r] /\ r \in DOMAIN stamp'
    BY <1>0, <1>5
  <1>7. PastStamps'
    <2>1. CASE stamp' = stamp
      BY <1>1, <2>1 DEF RInv, PastStamps
    <2>2. ASSUME NEW utc \in now - Jitter .. now, utc \in Starts, stamp' = Append(stamp, utc)
          PROVE  PastStamps'
      <3>1. \A r \in DOMAIN stamp' : (r \in DOMAIN stamp /\ stamp'[r] = stamp[r]) \/ stamp'[r] = utc
        BY <1>0, <2>2
      <3>2. utc <= now
        BY <1>0
      <3> QED BY <1>1, <3>1, <3>2 DEF RInv, PastStamps
    <2> QED BY <1>5, <2>1, <2>2
  <1>8. ListedTimes' /\ RowsReach'
    <2>1. \A s \in Starts : \A r \in Records(s) : stamp'[r] = stamp[r]
      <3>1. \A s \in Starts : Records(s) \subseteq DOMAIN stamp
        BY OnDiskIsStamped DEF IInv
      <3> QED BY <1>6, <3>1
    <2>2. \A s \in Starts : Listed(s) => Records(s)' \subseteq Records(s)
      BY <1>3, <1>4
    <2> HIDE DEF files, process, past
    <2> QED BY <1>0, <1>1, <2>1, <2>2, KeepRows
  <1>9. NamesKept'
    BY <1>0, <1>1, <1>3, <1>4 DEF RInv, NamesKept
  <1>10. Fresh'
    <2>1. Listed(active)' <=> Listed(active)
      BY <1>1 DEF Listed
    <2> QED BY <1>1, <1>4, <2>1 DEF Fresh
  <1>11. TodoOld'
    BY <1>2 DEF TodoOld
  <1>12. /\ Records(active) \subseteq DOMAIN stamp /\ ToSet(buf) \subseteq DOMAIN stamp
         /\ zst[active].recs = << >>
    <2>1. Records(active) \subseteq DOMAIN stamp
      BY <1>0, OnDiskIsStamped DEF IInv
    <2>2. ASSUME NEW b \in ToSet(buf) PROVE b \in DOMAIN stamp
      <3>1. b <= Len(stamp) /\ b \in Record
        BY FilesHoldRecords, <1>0 DEF OInv, MemoryIsLater, IInv
      <3>2. b \in Nat /\ b >= 1
        BY <3>1, StoreAssumption DEF Record
      <3> QED BY <1>0, <3>1, <3>2
    <2> QED BY <1>0, <1>4, <2>1, <2>2 DEF IInv, Readable
  <1>13. ASSUME NEW more \in Seq(Record), part' = [part EXCEPT ![active].recs = @ \o more]
         PROVE  Records(active)' = Records(active) \cup ToSet(more)
    <2>1. ToSet(part'[active].recs) = ToSet(part[active].recs) \cup ToSet(more)
      BY <1>0, <1>1, <1>13, Added DEF IInv
    <2> QED BY <1>1, <2>1 DEF Records
  <1>14. active <= last_utc + Jitter /\ \A r \in Records(active) \cup ToSet(buf) : stamp[r] <= last_utc + Jitter
    BY <1>0 DEF RInv, RunReach, Reaches
  <1>15. CASE pc' = "write"
    <2>1. /\ job'.start = active /\ job'.end = last_utc
          /\ Records(active)' = Records(active) \cup ToSet(buf)
      BY <1>0, <1>2, <1>13, <1>15
    <2>2. \A r \in Records(active) \cup ToSet(buf) : stamp'[r] <= last_utc + Jitter
      BY <1>6, <1>12, <1>14
    <2>3. JobReach'
      <3>1. \A r \in Records(active)' : stamp'[r] <= last_utc + Jitter
        BY <2>1, <2>2
      <3>2. Records(job.start)' = Records(active)'
        BY <1>1, <2>1 DEF Records
      <3> HIDE DEF files, process, past
      <3> QED BY <1>14, <1>15, <2>1, <3>1, <3>2 DEF JobReach, Reaches
    <2>4. RunReach'
      BY <1>15 DEF RunReach
    <2> QED BY <1>7, <1>8, <1>9, <1>10, <1>11, <2>3, <2>4 DEF RInv
  <1>16. ASSUME NEW utc \in now - Jitter .. now, NEW flush \in BOOLEAN, Sample(utc, flush)
         PROVE  RInv'
    <2> PICK r \in Record : r = Len(stamp) + 1
      BY <1>0, <1>16, StoreAssumption DEF Sample, Record
    <2>1. Append(buf, r) \in Seq(Record) /\ ToSet(Append(buf, r)) = ToSet(buf) \cup {r}
      BY <1>0, AppendRecords
    <2>2. Records(active)' \cup ToSet(buf') = Records(active) \cup ToSet(buf) \cup {r}
      <3>1. CASE flush
        <4>1. part' = [part EXCEPT ![active].recs = @ \o Append(buf, r)] /\ buf' = << >>
          BY <1>16, <3>1 DEF Sample
        <4> QED BY <1>13, <2>1, <4>1, NoRecords
      <3>2. CASE ~flush
        <4>1. part' = part /\ buf' = Append(buf, r)
          BY <1>16, <3>2 DEF Sample
        <4>2. Records(active)' = Records(active)
          BY <1>1, <4>1 DEF Records
        <4> QED BY <2>1, <4>1, <4>2
      <3> QED BY <3>1, <3>2
    <2>3. utc \in Starts /\ utc \in Nat /\ utc <= now /\ now <= utc + Jitter
      BY SampleTime DEF IInv, Shape
    <2>4. stamp' = Append(stamp, utc) /\ last_utc' = utc /\ pc' = "run"
      BY <1>0, <1>16 DEF Sample
    <2>5. stamp'[r] = utc
      BY <1>0, <2>3, <2>4
    <2>6. ASSUME NEW x \in Records(active) \cup ToSet(buf) \cup {r}
          PROVE  stamp'[x] <= utc + Jitter
      <3>1. CASE x = r
        BY <1>0, <2>3, <2>5, <3>1
      <3>2. CASE x # r
        <4>1. x \in DOMAIN stamp /\ stamp'[x] = stamp[x]
          BY <1>6, <1>12, <3>2
        <4> PICK a \in Starts : a = stamp[x]
          BY <1>0, <4>1
        <4>0. a \in Nat
          BY StartsAre
        <4>2. a <= now
          BY <4>1 DEF RInv, PastStamps
        <4>3. a <= utc + Jitter
          BY <1>0, <2>3, <4>0, <4>2
        <4> QED BY <4>1, <4>3
      <3> QED BY <3>1, <3>2
    <2>7. active <= utc + Jitter
      <3>1. Exists(active)
        BY <1>0 DEF Exists, IInv, Readable
      <3>2. active <= now /\ active \in Nat
        BY <1>0, <3>1, StartsAre DEF IInv, Times, Passed, PastBy
      <3> QED BY <1>0, <2>3, <3>2
    <2>8. RunReach'
      BY <1>1, <2>2, <2>4, <2>6, <2>7 DEF RunReach, Reaches
    <2>9. JobReach'
      BY <2>4 DEF JobReach
    <2> QED BY <1>7, <1>8, <1>9, <1>10, <1>11, <2>8, <2>9 DEF RInv
  <1>17. CASE Stop \/ \E utc \in now - Jitter .. now : Rotate(utc)
    <2>1. pc' = "write"
      BY <1>17 DEF Stop, Rotate
    <2> QED BY <1>15, <2>1
  <1> QED BY <1>16, <1>17

\* A kill breaks a file, adds to the active part, or cuts the index or its header short.
LEMMA CrashRetains == ASSUME IInv, OInv, Rest, RInv, Crash PROVE RInv'
  <1> USE DEF files, process, past
  <1>0. /\ part \in [Starts -> File] /\ zst \in [Starts -> File] /\ [Next]_vars
        /\ active \in Starts
    BY DEF IInv, Shape, Next
  <1>1. /\ UNCHANGED <<active, last_utc, now, stamp, job>> /\ pc' = "down" /\ CrashFiles
    BY DEF Crash
  <1>2. Fresh' /\ JobReach' /\ RunReach' /\ PastStamps' /\ TodoOld'
    BY <1>1 DEF Fresh, JobReach, RunReach, PastStamps, TodoOld, RInv
  <1>3. ASSUME UNCHANGED index, \A s \in Starts : zst'[s] \in {zst[s], Broken},
               \A s \in Starts : part'[s] \in {part[s], Broken}
        PROVE  RInv'
    <2>1. \A s \in Starts : Records(s)' \subseteq Records(s)
      BY <1>3, FewerRecords
    <2>2. NamesKept'
      BY <1>3 DEF RInv, NamesKept, Broken
    <2>3. ListedTimes' /\ RowsReach'
      <3>1. \A s \in Starts : zst[s].exists => zst'[s].exists
        BY <1>3 DEF Broken
      <3>2. \A s \in Starts : \A r \in Records(s) : stamp'[r] = stamp[r]
        BY <1>1
      <3> HIDE DEF files, process, past
      <3> QED BY <1>0, <1>3, <2>1, <3>1, <3>2, KeepRows
    <2> QED BY <1>2, <2>2, <2>3 DEF RInv
  <1>4. ASSUME pc = "run", UNCHANGED <<zst, index>>, NEW n \in 0 .. Len(buf),
               part' = [part EXCEPT ![active].recs = @ \o SubSeq(buf, 1, n)]
        PROVE  RInv'
    <2>1. ~Listed(active) /\ ~zst[active].exists
      BY <1>4 DEF RInv, Fresh
    <2>2. \A s \in Starts : s # active => part'[s] = part[s] /\ Records(s)' = Records(s)
      BY <1>0, <1>4 DEF Records
    <2>3. NamesKept'
      BY <1>4, <2>1, <2>2 DEF RInv, NamesKept
    <2>4. ListedTimes' /\ RowsReach'
      <3>1. \A s \in Starts : \A r \in Records(s) : stamp'[r] = stamp[r]
        BY <1>1
      <3>2. \A s \in Starts : Listed(s) => Records(s)' \subseteq Records(s)
        BY <2>1, <2>2
      <3> HIDE DEF files, process, past
      <3> QED BY <1>0, <1>4, <3>1, <3>2, KeepRows
    <2> QED BY <1>2, <2>3, <2>4 DEF RInv
  <1>5. ASSUME pc = "rebuild", UNCHANGED <<part, zst>>, NEW n \in 0 .. Len(RebuiltLines) - 1,
               index' = [exists |-> TRUE, lines |-> SubSeq(RebuiltLines, 1, n)]
        PROVE  RInv'
    <2> PICK L \in Seq(Line) : L = RebuiltLines
      BY RebuiltIs DEF IInv
    <2> PICK p \in Seq(Line) : p = SubSeq(L, 1, n)
      BY <1>5, Beginning
    <2>1. Rows(index') \in Seq(Line) /\ \A i \in DOMAIN Rows(index') :
            i \in DOMAIN Tail(L) /\ Rows(index')[i] = Tail(L)[i]
      <3>1. CASE p = << >>
        <4>1. Rows(index') = << >>
          BY <1>5, <3>1 DEF Rows
        <4> QED BY <4>1
      <3>2. CASE p # << >>
        <4>1. Rows(index') = Tail(p)
          BY <1>5, <3>2 DEF Rows
        <4>2. Tail(p) \in Seq(Line)
          BY <3>2
        <4>3. \A i \in DOMAIN Tail(p) : i \in DOMAIN Tail(L) /\ Tail(p)[i] = Tail(L)[i]
          BY <3>2
        <4> QED BY <4>1, <4>2, <4>3
      <3> QED BY <3>1, <3>2
    <2>2. \A i \in DOMAIN Tail(L) : \E s \in Starts : zst[s].ok /\ Tail(L)[i] = RowOf(s)
      BY RebuiltIs DEF IInv
    <2>3. /\ RowsReach' /\ ListedTimes' /\ NamesKept'
      <3> HIDE DEF files, process, past
      <3> QED BY <1>1, <1>5, <2>1, <2>2, RebuiltRows
    <2> QED BY <1>2, <2>3 DEF RInv
  <1>6. ASSUME pc = "write", zst' = [zst EXCEPT ![job.start] = Broken], UNCHANGED <<part, index>>
        PROVE  RInv'
    <2>1. \A s \in Starts : zst'[s] \in {zst[s], Broken}
      BY <1>0, <1>6
    <2> QED BY <1>3, <1>6, <2>1
  <1>7. ASSUME part' = [part EXCEPT ![AlignedStart(OpenTime)] = Broken], UNCHANGED <<zst, index>>
        PROVE  RInv'
    <2>1. \A s \in Starts : part'[s] \in {part[s], Broken}
      BY <1>0, <1>7
    <2> QED BY <1>3, <1>7, <2>1
  <1>8. CASE UNCHANGED <<part, zst, index>>
    BY <1>3, <1>8
  <1>9. ASSUME UNCHANGED <<part, zst>>, index' = [exists |-> TRUE, lines |-> << >>]
        PROVE  RInv'
    <2>1. Rows(index') = << >>
      BY <1>9 DEF Rows
    <2>2. RowsReach' /\ ListedTimes' /\ NamesKept'
      <3> HIDE DEF files, process, past
      <3> QED BY <1>1, <1>9, <2>1, RebuiltRows
    <2> QED BY <1>2, <2>2 DEF RInv
  <1> QED BY <1>1, <1>4, <1>5, <1>6, <1>7, <1>8, <1>9 DEF CrashFiles

\* Every step keeps the invariant.
LEMMA NextRInv ==
  ASSUME LongRetention, IInv, OInv, Rest, XInv, RInv, [Next]_vars PROVE RInv'
  <1>1. CASE \/ \E m \in {"run", "verify"} : Start(m)
             \/ \E s \in Starts : RecoverPart(s)
             \/ Recovered \/ Retained \/ StopDead \/ Tick \/ UNCHANGED vars
             \/ SealRemove \/ SealWriteFails \/ IndexFails \/ RemoveFails \/ OpenFails
    BY <1>1, QuietRetains
  <1>2. CASE \E s \in Starts : RemoveExpired(s)
    BY <1>2, RemoveExpiredRetains
  <1>3. CASE Rebuild
    BY <1>3, RebuildRetains
  <1>4. CASE SealWrite \/ SealLog
    BY <1>4, SealRetains
  <1>5. CASE OpenSegment
    BY <1>5, OpenRetains
  <1>6. CASE \/ \E utc \in now - Jitter .. now :
                  Rotate(utc) \/ \E flush \in BOOLEAN : Sample(utc, flush)
             \/ Stop
    BY <1>6, WriterRetains
  <1>7. CASE Crash
    BY <1>7, CrashRetains
  <1> QED BY <1>1, <1>2, <1>3, <1>4, <1>5, <1>6, <1>7 DEF Next, Exhausted

\* What retention removes is old.
LEMMA OldIsRemoved ==
  ASSUME IInv, OInv, RInv, [Next]_vars
  PROVE  \A r \in retired' \ retired : stamp[r] < now - RetentionMs + Jitter
  <1>1. ASSUME NEW s \in Starts, RemoveExpired(s), NEW r \in retired' \ retired
        PROVE  stamp[r] < now - RetentionMs + Jitter
    <2>1. r \in Records(s) /\ pc = "retain" /\ s \in todo
      BY <1>1 DEF RemoveExpired, Records
    <2>2. stamp[r] + RetentionMs < now + Jitter
      BY <2>1 DEF RInv, TodoOld
    <2>3. stamp[r] \in Nat /\ now \in Nat /\ RetentionMs \in Nat /\ Jitter \in Nat
      BY <2>1, StampsAre, StoreAssumption DEF IInv, Shape
    <2> QED BY <2>2, <2>3
  <1>2. (\E s \in Starts : RemoveExpired(s)) \/ retired' = retired
    BY DEF Next, vars, past, process, Start, RecoverPart, Recovered, Retained, Rebuild,
       SealWrite, SealLog, SealRemove, SealWriteFails, IndexFails, RemoveFails, OpenSegment,
       OpenFails, Rotate, Sample, Stop, StopDead, Tick, Crash, Exhausted
  <1> QED BY <1>1, <1>2

\* Retention, which goes by the rows of the index, removes no record that is younger than
\* the limit by more than samples are out of order, whatever is killed or fails, if a
\* segment is not longer than the retention (prober.cpp:385-421, seal.cpp:136-138).
THEOREM RecentIsRetained == LongRetention => (Spec => RetentionKeepsRecent)
  <1> SUFFICES ASSUME LongRetention PROVE Spec => RetentionKeepsRecent
    OBVIOUS
  <1>1. Init => IInv /\ OInv /\ Rest /\ XInv /\ RInv
    BY InitIInv, InitOInv, InitRest, InitXInv, InitRInv
  <1>2. IInv /\ OInv /\ Rest /\ XInv /\ RInv /\ [Next]_vars
          => (IInv /\ OInv /\ Rest /\ XInv /\ RInv)'
    BY Control, NextIInv, NextOInv, RestStep, NextXInv, NextRInv DEF Moves
  <1>3. IInv /\ OInv /\ RInv /\ [Next]_vars
          => [\A r \in retired' \ retired : stamp[r] < now - RetentionMs + Jitter]_vars
    BY OldIsRemoved
  <1> QED BY <1>1, <1>2, <1>3, PTL DEF Spec, RetentionKeepsRecent
-----------------------------------------------------------------------------
(* A second process: what a step of the first one does to the records *)

\* Record d came before all that is in memory.
Old(d) == d <= Len(stamp) /\ (hand # None => d < hand) /\ \A b \in ToSet(buf) : d < b

\* What is in memory after a step was there before, or is the next record.
LEMMA MemoryStep ==
  ASSUME CInv, Moves
  PROVE  /\ Len(stamp') \in Nat /\ Len(stamp) <= Len(stamp')
         /\ hand' # None => hand' = hand \/ hand' = Len(stamp) + 1
         /\ \A b \in ToSet(buf') : b \in ToSet(buf) \/ b = Len(stamp) + 1 \/ (hand # None /\ b = hand)
  <1> USE DEF files, process, past
  <1>1. stamp \in Seq(Starts) /\ Len(stamp) \in Nat /\ Len(stamp) <= Len(stamp)
    BY DEF CInv, Shape
  <1>2. CASE Quiet
    <2>1. stamp' = stamp /\ buf' = buf /\ (hand' = hand \/ hand' = None)
      BY <1>2 DEF Quiet, Start, RecoverPart, Recovered, Retained, Rebuild, SealLog, IndexFails,
         RemoveFails, OpenFails, StopDead, Tick, SealGone, vars
    <2> QED BY <1>1, <2>1
  <1>3. CASE SealWrite \/ SealWriteFails \/ SealRemove
    <2>1. stamp' = stamp /\ buf' = buf /\ hand' = hand
      BY <1>3 DEF SealWrite, SealWriteFails, SealRemove
    <2> QED BY <1>1, <2>1
  <1>4. CASE OpenSegment
    <2>1. stamp' = stamp /\ buf' = FirstRecs /\ hand' = None
      BY <1>4 DEF OpenSegment
    <2>2. \A b \in ToSet(FirstRecs) : hand # None /\ b = hand
      BY NoRecords, FewAscend DEF FirstRecs
    <2> QED BY <1>1, <2>1, <2>2
  <1>5. CASE Stop
    <2>1. stamp' = stamp /\ buf' = << >> /\ hand' = hand
      BY <1>5 DEF Stop
    <2> QED BY <1>1, <2>1, NoRecords
  <1>6. CASE Crash
    <2>1. stamp' = stamp /\ buf' = << >> /\ hand' = None
      BY <1>6 DEF Crash
    <2> QED BY <1>1, <2>1, NoRecords
  <1>7. ASSUME NEW s \in Starts, RemoveExpired(s)
        PROVE  stamp' = stamp /\ buf' = buf /\ hand' = hand
    BY <1>7 DEF RemoveExpired
  <1>8. ASSUME NEW utc \in now - Jitter .. now, stamp' = Append(stamp, utc)
        PROVE  Len(stamp') = Len(stamp) + 1
    BY <1>1, <1>8
  <1>9. ASSUME NEW utc \in now - Jitter .. now, Rotate(utc)
        PROVE  /\ Len(stamp') = Len(stamp) + 1 /\ ToSet(buf') = {}
               /\ hand' = Len(stamp) + 1
    BY <1>8, <1>9, NoRecords DEF Rotate
  <1>10. ASSUME NEW utc \in now - Jitter .. now, NEW flush \in BOOLEAN, Sample(utc, flush)
         PROVE  /\ Len(stamp') = Len(stamp) + 1 /\ hand' = hand
                /\ ToSet(buf') \subseteq ToSet(buf) \cup {Len(stamp) + 1}
    <2>1. stamp' = Append(stamp, utc) /\ hand' = hand
          /\ (buf' = << >> \/ buf' = Append(buf, Len(stamp) + 1))
      BY <1>10 DEF Sample
    <2>2. ToSet(Append(buf, Len(stamp) + 1)) = ToSet(buf) \cup {Len(stamp) + 1}
      BY <1>10, SampleAdds DEF CInv
    <2> QED BY <1>8, <2>1, <2>2, NoRecords
  <1> QED BY <1>1, <1>2, <1>3, <1>4, <1>5, <1>6, <1>7, <1>9, <1>10, NextKinds

\* What is old stays old, and no file gets it.
LEMMA OldStays ==
  ASSUME CInv, Moves, NEW d \in Nat, Old(d)
  PROVE  Old(d)' /\ \A s \in Starts : d \in Records(s)' => d \in Records(s)
  <1>1. Len(stamp) \in Nat /\ hand \in Nat /\ d <= Len(stamp) /\ d < Len(stamp) + 1
    BY RecordsAreNumbers DEF CInv, Old
  <1>2. Old(d)'
    BY <1>1, MemoryStep DEF Old
  <1>3. ASSUME NEW s \in Starts, d \in Records(s)' PROVE d \in Records(s)
    <2>1. PartStep(s) /\ ZstStep(s)
      BY FilesChange DEF FilesStep
    <2>2. d \notin ToSet(buf) \cup {Len(stamp) + 1}
      BY <1>1, RecordsAreNumbers DEF CInv, Old
    <2>3. d \in ToSet(part'[s].recs) => d \in Records(s)
      BY <2>1, <2>2, NoRecords DEF PartStep, Records, Absent, Broken, Holding
    <2>4. d \in ToSet(zst'[s].recs) => d \in Records(s)
      BY <2>1, NoRecords DEF ZstStep, Records, Absent, Broken, Holding
    <2> QED BY <1>3, <2>3, <2>4 DEF Records
  <1> QED BY <1>2, <1>3

\* A record is flushed to the active part, and is later than all on disk.
LEMMA FlushedStep ==
  ASSUME CInv, OInv, Moves, NEW r \in flushed', r \notin flushed
  PROVE  /\ pc = "run" /\ active \in Starts /\ r \in ToSet(part'[active].recs)
         /\ r \notin Records(active) /\ part'[active].ok
         /\ (pc' = "run" /\ active' = active) \/ (pc' = "write" /\ job'.start = active)
  <1>1. active \in Starts /\ \A x \in Records(active) : x \in Nat
    BY RecordsAreNumbers DEF CInv, Shape
  <1>2. \A b \in ToSet(buf) \cup {Len(stamp) + 1} : b \notin Records(active)
    BY <1>1 DEF OInv, MemoryIsLater, After
  <1>3. ASSUME pc = "run", NEW more \in Seq(Record), zst' = zst,
               part' = [part EXCEPT ![active].recs = @ \o more],
               flushed' = flushed \cup ToSet(more),
               ToSet(more) \subseteq ToSet(buf) \cup {Len(stamp) + 1}
        PROVE  /\ r \in ToSet(part'[active].recs) /\ r \notin Records(active)
               /\ part'[active].ok
    <2>1. /\ part'[active].ok
          /\ ToSet(part'[active].recs) = ToSet(part[active].recs) \cup ToSet(more)
      BY <1>3, Added DEF CInv
    <2> QED BY <1>2, <1>3, <2>1
  <1>4. ~(Quiet \/ SealWrite \/ SealWriteFails \/ SealRemove \/ OpenSegment \/ Crash)
    BY DEF Quiet, Start, RecoverPart, Recovered, Retained, Rebuild, SealLog, IndexFails,
       RemoveFails, OpenFails, StopDead, Tick, SealGone, vars, past, SealWrite, SealWriteFails,
       SealRemove, OpenSegment, Crash
  <1>5. \A s \in Starts : ~RemoveExpired(s)
    BY DEF RemoveExpired
  <1>6. ASSUME NEW utc \in now - Jitter .. now, NEW flush \in BOOLEAN, Sample(utc, flush)
        PROVE  /\ pc = "run" /\ r \in ToSet(part'[active].recs)
               /\ r \notin Records(active) /\ part'[active].ok
               /\ pc' = "run" /\ active' = active
    <2>1. PICK more \in Seq(Record) :
            /\ ToSet(more) \subseteq ToSet(buf) \cup {Len(stamp) + 1}
            /\ part' = [part EXCEPT ![active].recs = @ \o more]
            /\ flushed' = flushed \cup ToSet(more)
      BY <1>6, SampleAdds DEF CInv
    <2>2. pc = "run" /\ pc' = pc /\ active' = active /\ zst' = zst
      BY <1>6 DEF Sample
    <2> QED BY <1>3, <2>1, <2>2
  <1>7. ASSUME pc = "run", zst' = zst, Flush
        PROVE  /\ r \in ToSet(part'[active].recs) /\ r \notin Records(active)
               /\ part'[active].ok
    <2>1. /\ buf \in Seq(Record) /\ part' = [part EXCEPT ![active].recs = @ \o buf]
          /\ flushed' = flushed \cup ToSet(buf)
      BY <1>7 DEF CInv, Shape, Flush
    <2> QED BY <1>3, <1>7, <2>1
  <1>8. ASSUME NEW utc \in now - Jitter .. now, Rotate(utc)
        PROVE  pc = "run" /\ zst' = zst /\ Flush /\ pc' = "write" /\ job'.start = active
    BY <1>8 DEF Rotate
  <1>9. Stop => pc = "run" /\ zst' = zst /\ Flush /\ pc' = "write" /\ job'.start = active
    BY DEF Stop
  <1> QED BY <1>1, <1>4, <1>5, <1>6, <1>7, <1>8, <1>9, NextKinds

\* A part that somebody will come to is still there and in care after a step, or has been
\* sealed.
LEMMA InCareStep ==
  ASSUME CInv, Moves, "zst" \notin failed', NEW s \in Starts, part[s].ok, InCare(s),
         ~(pc \in {"log", "remove"} /\ s = job.start)
  PROVE  \/ part'[s].ok /\ InCare(s)' /\ ~(pc' \in {"log", "remove"} /\ s = job'.start)
         \/ zst'[s] = Holding(part[s].recs) /\ pc' = "log" /\ s = job'.start
  <1> USE DEF files, process, past, Fails
  <1> DEFINE G == part'[s].ok /\ InCare(s)' /\ ~(pc' \in {"log", "remove"} /\ s = job'.start)
  <1>0. /\ job.start \in Starts /\ job.next \in {"recover", "open", "down"}
        /\ part \in [Starts -> File] /\ zst \in [Starts -> File] /\ pc \in Steps
    BY DEF CInv, Shape
  <1>1. pc \in {"down", "dead", "recover", "write", "log", "remove", "run"}
        /\ (pc = "recover" => s \in todo)
        /\ (pc \in {"log", "remove"} => s \in todo /\ job.next = "recover")
        /\ (pc = "write" => s = job.start \/ (s \in todo /\ job.next = "recover"))
        /\ (pc = "run" => s = active)
    BY DEF InCare, Sealing
  <1>2. ASSUME NEW m \in {"run", "verify"}, Start(m) PROVE G
    <2>1. s \in Leftover
      BY DEF CInv, Readable, Leftover
    <2> QED BY <1>2, <2>1 DEF Start, InCare
  <1>3. ASSUME NEW u \in Starts, RecoverPart(u) PROVE G
    BY <1>1, <1>3 DEF RecoverPart, InCare, Sealing
  <1>4. ~(Recovered \/ Retained \/ Rebuild \/ OpenSegment \/ OpenFails)
    BY <1>1 DEF Recovered, Retained, Rebuild, OpenSegment, OpenFails
  <1>5. \A u \in Starts : ~RemoveExpired(u)
    BY <1>1 DEF RemoveExpired
  <1>6. ~SealWriteFails
    BY DEF SealWriteFails
  <1>7. ASSUME SealWrite
        PROVE  G \/ (zst'[s] = Holding(part[s].recs) /\ pc' = "log" /\ s = job'.start)
    <2> PICK u \in Starts : u = job.start
      BY <1>0
    <2>1. /\ job'.start = u /\ job'.next = job.next /\ pc = "write" /\ pc' = "log"
          /\ todo' = todo /\ part' = part /\ zst' = [zst EXCEPT ![u] = Holding(part[u].recs)]
      BY <1>7 DEF SealWrite, CInv, Shape, OutFile
    <2>2. CASE s = u
      BY <1>0, <2>1, <2>2
    <2>3. CASE s # u
      BY <1>1, <2>1, <2>3 DEF InCare, Sealing
    <2> QED BY <2>2, <2>3
  <1>8. CASE SealLog
    BY <1>1, <1>8 DEF SealLog, InCare, Sealing
  <1>9. CASE SealRemove
    <2>1. part'[s] = part[s]
      BY <1>0, <1>9 DEF SealRemove
    <2> QED BY <1>1, <1>9, <2>1 DEF SealRemove, InCare, Sealing
  <1>10. CASE IndexFails
    BY <1>1, <1>10 DEF IndexFails, InCare, Sealing
  <1>11. CASE RemoveFails
    BY <1>1, <1>11 DEF RemoveFails, InCare, Sealing
  <1>12. CASE SealGone
    BY <1>0, <1>1, <1>12 DEF SealGone, InCare, Sealing
  <1>13. CASE StopDead
    BY <1>13 DEF StopDead, InCare
  <1>14. CASE Tick \/ UNCHANGED vars
    BY <1>14 DEF Tick, vars, InCare, Sealing
  <1>15. pc = "run" => part'[s].ok
    <2>1. PartStep(s)
      BY FilesChange DEF FilesStep
    <2> QED BY <2>1 DEF PartStep
  <1>16. CASE Crash
    <2>1. part'[s].ok
      <3>1. CASE pc = "run"
        BY <1>15, <3>1
      <3>2. CASE pc # "run"
        BY <1>1, <1>16, <3>2 DEF Crash, CrashFiles
      <3> QED BY <3>1, <3>2
    <2> QED BY <1>16, <2>1 DEF Crash, InCare
  <1>17. CASE Stop
    BY <1>1, <1>15, <1>17 DEF Stop, InCare
  <1>18. ASSUME NEW utc \in now - Jitter .. now, Rotate(utc) PROVE G
    BY <1>1, <1>15, <1>18 DEF Rotate, InCare
  <1>19. ASSUME NEW utc \in now - Jitter .. now, NEW flush \in BOOLEAN, Sample(utc, flush) PROVE G
    <2>1. pc = "run" /\ pc' = pc /\ active' = active
      BY <1>19 DEF Sample
    <2> QED BY <1>1, <1>15, <2>1 DEF InCare
  <1> HIDE DEF G
  <1>20. ASSUME G
         PROVE  part'[s].ok /\ InCare(s)' /\ ~(pc' \in {"log", "remove"} /\ s = job'.start)
    BY <1>20 DEF G
  <1> QED BY <1>2, <1>3, <1>4, <1>5, <1>6, <1>7, <1>8, <1>9, <1>10, <1>11, <1>12, <1>13, <1>14,
             <1>16, <1>17, <1>18, <1>19, <1>20, NextKinds DEF Quiet

\* Record r is safe in segment s: whatever is written to the .zst next holds it, and the
\* part is not removed before that.
Safe(r, s) ==
  /\ part[s].ok => r \in ToSet(part[s].recs)
  /\ \/ r \in ToSet(zst[s].recs)
     \/ part[s].ok /\ InCare(s) /\ ~(pc \in {"log", "remove"} /\ s = job.start)

\* It stays safe unless retention removes it, the writing of a .zst fails, or a kill cuts
\* short the second writing of a .zst that was all there is.
LEMMA SafeStep ==
  ASSUME CInv, Moves, NEW s \in Starts, NEW r, Safe(r, s), r \notin retired', "zst" \notin failed',
         (pc = "write" /\ s = job.start /\ ~part[s].ok => r \in ToSet(zst'[s].recs))
  PROVE  Safe(r, s)'
  <1>1. PartStep(s) /\ ZstStep(s)
    BY FilesChange DEF FilesStep
  <1>2. part'[s].ok => r \in ToSet(part'[s].recs)
    <2>1. ~(pc = "open" /\ s = AlignedStart(OpenTime))
      <3> SUFFICES ASSUME pc = "open", s = AlignedStart(OpenTime) PROVE FALSE
        OBVIOUS
      <3>1. r \notin ToSet(zst[s].recs)
        BY OpenedAt, NoRecords DEF CInv, Readable
      <3>2. ~InCare(s)
        BY DEF InCare, Sealing
      <3> QED BY <3>1, <3>2 DEF Safe
    <2>2. pc = "run" /\ s = active => part[s].ok
      BY DEF CInv, Readable
    <2> QED BY <1>1, <2>1, <2>2 DEF PartStep, Safe, Absent
  <1>3. CASE r \in ToSet(zst[s].recs)
    <2>1. CASE r \in ToSet(zst'[s].recs)
      BY <1>2, <2>1 DEF Safe
    <2>2. CASE r \notin ToSet(zst'[s].recs)
      <3>1. pc = "write" /\ s = job.start /\ zst'[s] = Broken
        BY <1>1, <1>3, <2>2 DEF ZstStep, Safe, Holding
      <3>2. part[s].ok /\ InCare(s) /\ zst'[s] # Holding(part[s].recs)
        BY <2>2, <3>1 DEF InCare, Broken, Holding
      <3>3. part'[s].ok /\ InCare(s)' /\ ~(pc' \in {"log", "remove"} /\ s = job'.start)
        BY <3>1, <3>2, InCareStep
      <3> QED BY <1>2, <3>3 DEF Safe
    <2> QED BY <2>1, <2>2
  <1>4. CASE r \notin ToSet(zst[s].recs)
    <2>1. part[s].ok /\ InCare(s) /\ ~(pc \in {"log", "remove"} /\ s = job.start)
      BY <1>4 DEF Safe
    <2>2. CASE part'[s].ok /\ InCare(s)' /\ ~(pc' \in {"log", "remove"} /\ s = job'.start)
      BY <1>2, <2>2 DEF Safe
    <2>3. CASE zst'[s] = Holding(part[s].recs)
      BY <1>2, <2>1, <2>3 DEF Safe, Holding
    <2> QED BY <2>1, <2>2, <2>3, InCareStep
  <1> QED BY <1>3, <1>4

-----------------------------------------------------------------------------
(* The second process: the invariant *)

VisitorShape ==
  /\ held.start \in Starts /\ held.recs \in Seq(Record)
  /\ to_seal \subseteq Starts
  /\ step \in {"recover", "write", "log", "remove"} => to_seal \subseteq listed

\* The part it seals was there when it began, and is no later than what exists.
HeldThere ==
  step \in {"write", "log", "remove"} => held.start \in listed /\ Passed(held.start)

\* What it has read is old, and in the files of no other segment.
HeldApart ==
  step = "write" =>
    /\ Ascends(held.recs) /\ \A d \in ToSet(held.recs) : Old(d)
    /\ \A u \in Starts : u # held.start => ToSet(held.recs) \cap Records(u) = {}

\* The part that the first process seals can be read, or the second has removed it.
JobPart == pc = "write" => part[job.start].ok \/ ~part[job.start].exists

\* The second process will write record r if it writes the .zst of s, and does not remove
\* the part before.
HeldSafe(r, s) ==
  held.start = s => /\ step = "write" => r \in ToSet(held.recs)
                    /\ step \in {"log", "remove"} => r \in ToSet(zst[s].recs)

\* What was flushed and not put at risk is safe from both.
Spared ==
  "zst" \notin failed =>
    \A r \in flushed \ (retired \cup exposed) : \E s \in Starts : Safe(r, s) /\ HeldSafe(r, s)

VInv == VisitorShape /\ HeldThere /\ HeldApart /\ JobPart /\ Spared

LEMMA InitVInv == ASSUME BesideInit PROVE VInv
  <1>1. held.start \in Starts /\ held.recs \in Seq(Record) /\ to_seal = {} /\ step = "idle"
    BY StoreAssumption DEF BesideInit, Nobody, Starts
  <1>2. pc = "down" /\ flushed = {}
    BY DEF BesideInit, Init
  <1> QED BY <1>1, <1>2 DEF VInv, VisitorShape, HeldThere, HeldApart, JobPart, Spared

\* No failure is forgotten, and what retention has removed is not asked for again.
LEMMA PastGrows == ASSUME Moves PROVE failed \subseteq failed' /\ retired \subseteq retired'
  <1> USE DEF files, process, past, Fails
  <1>1. CASE Quiet
    BY <1>1 DEF Quiet, Start, RecoverPart, Recovered, Retained, Rebuild, SealLog, IndexFails,
       RemoveFails, OpenFails, StopDead, Tick, SealGone, vars
  <1>2. CASE SealWrite \/ SealWriteFails \/ SealRemove \/ OpenSegment \/ Stop \/ Crash
    BY <1>2 DEF SealWrite, SealWriteFails, SealRemove, OpenSegment, Stop, Crash
  <1>3. ASSUME NEW s \in Starts, RemoveExpired(s)
        PROVE  failed \subseteq failed' /\ retired \subseteq retired'
    BY <1>3 DEF RemoveExpired
  <1>4. ASSUME NEW utc \in now - Jitter .. now, Rotate(utc)
        PROVE  failed \subseteq failed' /\ retired \subseteq retired'
    BY <1>4 DEF Rotate
  <1>5. ASSUME NEW utc \in now - Jitter .. now, NEW flush \in BOOLEAN, Sample(utc, flush)
        PROVE  failed \subseteq failed' /\ retired \subseteq retired'
    BY <1>5 DEF Sample
  <1> QED BY <1>1, <1>2, <1>3, <1>4, <1>5, NextKinds

\* A record is at risk when the second writing of its .zst is cut short.
LEMMA RacedWrite ==
  ASSUME NEW r, pc = "write", job.start \in listed \/ ~part[job.start].exists,
         r \in ToSet(zst[job.start].recs), r \notin ToSet(zst'[job.start].recs)
  PROVE  r \in AtRisk
  BY DEF AtRisk, CutShort

\* A step of the first process keeps the invariant, with the records at risk exposed.
LEMMA FirstVInv ==
  ASSUME CInv, OInv, VInv, Moves, UNCHANGED visitor, exposed \subseteq exposed', AtRisk \subseteq exposed'
  PROVE  VInv'
  <1> USE DEF visitor
  <1>1. VisitorShape'
    BY DEF VInv, VisitorShape
  <1>2. HeldThere'
    <2> PICK s \in Starts : s = held.start
      BY DEF VInv, VisitorShape
    <2>1. Passed(s) => Passed(s)'
      BY PassedStays
    <2>2. Passed(s)' => Passed(held.start)'
      BY DEF Passed, PastBy
    <2> QED BY <2>1, <2>2 DEF VInv, HeldThere
  <1>3. HeldApart'
    <2> SUFFICES ASSUME step = "write" PROVE HeldApart'
      BY DEF HeldApart
    <2>1. \A d \in ToSet(held.recs) : d \in Nat /\ Old(d)
      <3>1. Record \subseteq Nat
        BY StoreAssumption DEF Record
      <3>2. \A d \in ToSet(held.recs) : d \in Record
        BY DEF VInv, VisitorShape, ToSet
      <3> QED BY <3>1, <3>2 DEF VInv, HeldApart
    <2>2. \A d \in ToSet(held.recs) : Old(d)'
      BY <2>1, OldStays
    <2>3. ASSUME NEW u \in Starts, u # held.start PROVE ToSet(held.recs) \cap Records(u)' = {}
      <3>1. ToSet(held.recs) \cap Records(u) = {}
        BY <2>3 DEF VInv, HeldApart
      <3> QED BY <2>1, <3>1, OldStays
    <2>4. Ascends(held.recs)'
      BY DEF VInv, HeldApart, Ascends
    <2> QED BY <2>2, <2>3, <2>4 DEF HeldApart
  <1>4. JobPart'
    <2> SUFFICES ASSUME pc' = "write" PROVE part'[job'.start].ok \/ ~part'[job'.start].exists
      BY DEF JobPart
    <2>1. part'[job'.start].ok \/ (pc = "write" /\ UNCHANGED <<job, part>>)
      BY WriteStep
    <2> QED BY <2>1 DEF VInv, JobPart
  <1>5. ASSUME NEW r \in flushed' \ (retired' \cup exposed'), "zst" \notin failed'
        PROVE  \E s \in Starts : Safe(r, s)' /\ HeldSafe(r, s)'
    <2>1. r \notin retired /\ r \notin exposed /\ "zst" \notin failed /\ r \notin AtRisk
      BY <1>5, PastGrows
    <2>2. CASE r \in flushed
      <3> PICK s \in Starts : Safe(r, s) /\ HeldSafe(r, s)
        BY <2>1, <2>2 DEF VInv, Spared
      <3>0. ZstStep(s)
        BY FilesChange DEF FilesStep
      <3>1. (pc = "write" /\ s = job.start /\ (s \in listed \/ ~part[s].exists)
               /\ r \in ToSet(zst[s].recs)) => r \in ToSet(zst'[s].recs)
        BY <2>1, RacedWrite
      <3>2. pc = "write" /\ s = job.start /\ ~part[s].ok => r \in ToSet(zst'[s].recs)
        BY <3>1 DEF VInv, JobPart, Safe
      <3>3. Safe(r, s)'
        BY <1>5, <3>2, SafeStep
      <3>4. HeldSafe(r, s)'
        <4> SUFFICES ASSUME held.start = s, step \in {"log", "remove"} PROVE r \in ToSet(zst'[s].recs)
          BY DEF HeldSafe
        <4>1. r \in ToSet(zst[s].recs) /\ s \in listed
          BY DEF HeldSafe, VInv, HeldThere
        <4> QED BY <1>5, <3>0, <3>1, <4>1 DEF ZstStep, Holding, Safe
      <3> QED BY <3>3, <3>4
    <2>3. CASE r \notin flushed
      <3> PICK a \in Starts : a = active
        BY DEF CInv, Shape
      <3>1. /\ pc = "run" /\ r \in ToSet(part'[a].recs) /\ r \notin Records(a) /\ part'[a].ok
            /\ (pc' = "run" /\ active' = a) \/ (pc' = "write" /\ job'.start = a)
        BY <1>5, <2>3, FlushedStep
      <3>2. a \notin listed
        BY <2>1, <3>1 DEF AtRisk, Raced, Records
      <3>3. HeldSafe(r, a)'
        BY <3>2 DEF HeldSafe, VInv, HeldThere
      <3>4. Safe(r, a)'
        BY <3>1 DEF Safe, InCare
      <3> QED BY <3>3, <3>4
    <2> QED BY <2>2, <2>3
  <1> QED BY <1>1, <1>2, <1>3, <1>4, <1>5 DEF VInv, Spared

-----------------------------------------------------------------------------
(* A second process: its own steps *)

\* Steps of the second process that leave the parts and the segments alone, and what it
\* holds of them.
Idles ==
  /\ UNCHANGED <<part, zst, held>> /\ step' \notin {"write", "log", "remove"}
  /\ to_seal' \subseteq Starts /\ (step' = "recover" => to_seal' \subseteq listed')

\* It reads a part that can be read.
Reads(s) ==
  /\ step = "recover" /\ s \in to_seal /\ s \in listed /\ part[s].ok /\ step' = "write"
  /\ held' = [start |-> s, recs |-> part[s].recs] /\ to_seal' \subseteq to_seal
  /\ UNCHANGED <<part, zst, listed>>

LEMMA SecondKinds ==
  ASSUME Second, VisitorShape
  PROVE  \/ Idles \/ VisitorWrites \/ VisitorLogs \/ VisitorRemoves
         \/ \E s \in Starts : Reads(s)
  <1> USE DEF files
  <1>1. ASSUME NEW command \in {"verify", "export"}, Visit(command) PROVE Idles
    <2>1. to_seal' = listed' /\ step' \in {"recover", "load"} /\ listed' \subseteq Starts
      BY <1>1 DEF Visit, Leftover
    <2> QED BY <1>1, <2>1 DEF Visit, Idles
  <1>2. ASSUME NEW s \in Starts, VisitorReads(s) PROVE Idles \/ Reads(s)
    <2>1. to_seal \subseteq listed /\ to_seal \subseteq Starts /\ s \in to_seal
      BY <1>2 DEF VisitorReads, VisitorShape
    <2>2. CASE part[s].ok
      BY <1>2, <2>1, <2>2 DEF VisitorReads, Reads
    <2>3. CASE ~part[s].ok
      BY <1>2, <2>1, <2>3 DEF VisitorReads, Idles
    <2> QED BY <2>2, <2>3
  <1>3. CASE VisitorLoads \/ VisitorScans \/ VisitorCuts \/ VisitorRewrites
    BY <1>3 DEF VisitorLoads, VisitorScans, VisitorCuts, VisitorRewrites, Idles, VisitorShape
  <1> QED BY <1>1, <1>2, <1>3 DEF Second

\* All it shares with the first is the files.
LEMMA SecondKeeps ==
  ASSUME Second PROVE UNCHANGED <<pc, process, now, faults, past, exposed>>
  BY DEF Second, Untouched, Visit, VisitorReads, VisitorWrites, VisitorLogs, VisitorRemoves,
     VisitorLoads, VisitorScans, VisitorCuts, VisitorRewrites

\* It writes the .zst of what it holds, and removes the part, unless that is open.
LEMMA SecondFiles ==
  ASSUME CInv, VInv, Second
  PROVE  /\ part' \in [Starts -> File] /\ zst' \in [Starts -> File]
         /\ \A s \in Starts :
              \/ part'[s] = part[s]
              \/ step = "remove" /\ s = held.start /\ ~OpenPart(s) /\ part'[s] = Absent
         /\ \A s \in Starts :
              \/ zst'[s] = zst[s]
              \/ /\ step = "write" /\ s = held.start /\ zst'[s] = Holding(held.recs)
                 /\ part' = part
  <1>1. /\ part \in [Starts -> File] /\ zst \in [Starts -> File] /\ Absent \in File
        /\ held.start \in Starts /\ Holding(held.recs) \in File
    BY DEF CInv, Shape, VInv, VisitorShape, Absent, Holding, File
  <1>2. CASE Idles \/ VisitorLogs \/ \E s \in Starts : Reads(s)
    <2>1. part' = part /\ zst' = zst
      BY <1>2 DEF Idles, VisitorLogs, Reads
    <2> QED BY <1>1, <2>1
  <1>3. CASE VisitorWrites
    <2>1. step = "write" /\ part' = part /\ zst' = [zst EXCEPT ![held.start] = Holding(held.recs)]
      BY <1>3 DEF VisitorWrites, HeldFile
    <2>2. zst' \in [Starts -> File]
      BY <1>1, <2>1
    <2>3. \A s \in Starts : zst'[s] = zst[s] \/ (s = held.start /\ zst'[s] = Holding(held.recs))
      BY <1>1, <2>1
    <2> QED BY <1>1, <2>1, <2>2, <2>3
  <1>4. CASE VisitorRemoves
    <2>1. step = "remove" /\ zst' = zst
      BY <1>4 DEF VisitorRemoves
    <2>2. CASE OpenPart(held.start)
      BY <1>1, <1>4, <2>1, <2>2 DEF VisitorRemoves
    <2>3. CASE ~OpenPart(held.start)
      <3>1. part' = [part EXCEPT ![held.start] = Absent]
        BY <1>4, <2>3 DEF VisitorRemoves
      <3>2. part' \in [Starts -> File]
        BY <1>1, <3>1
      <3>3. \A s \in Starts : part'[s] = part[s] \/ (s = held.start /\ part'[s] = Absent)
        BY <1>1, <3>1
      <3> QED BY <1>1, <2>1, <2>3, <3>2, <3>3
    <2> QED BY <2>2, <2>3
  <1> QED BY <1>2, <1>3, <1>4, SecondKinds DEF VInv

\* What it writes is a segment that there was.
LEMMA SecondCInv == ASSUME CInv, VInv, Second PROVE CInv'
  <1> USE DEF process, past
  <1>1. Shape'
    BY SecondFiles, SecondKeeps DEF CInv, Shape
  <1>2. Readable'
    <2>1. ASSUME NEW s \in Starts
          PROVE  /\ ~part'[s].ok => part'[s].recs = << >>
                 /\ ~zst'[s].exists => zst'[s].recs = << >>
                 /\ part'[s].ok => part'[s].exists
      BY SecondFiles DEF CInv, Readable, Absent, Holding
    <2>2. pc' = "run" => part'[active'].ok
      BY SecondFiles, SecondKeeps DEF CInv, Shape, Readable, OpenPart
    <2> QED BY <2>1, <2>2 DEF Readable
  <1>3. Times'
    <2>1. UNCHANGED <<pc, job, hand, stamp, now, cur_end>>
      BY SecondKeeps
    <2>2. (ToOpen' <=> ToOpen) /\ OpenTime' = OpenTime /\ (Sealing' <=> Sealing)
      BY <2>1 DEF ToOpen, OpenTime, Sealing
    <2>3. \A x : Passed(x)' <=> Passed(x)
      BY <2>1, <2>2 DEF Passed, PastBy
    <2>4. ASSUME NEW s \in Starts, Exists(s)' PROVE Passed(s)'
      <3>1. Exists(s) \/ (step = "write" /\ s = held.start)
        BY <2>4, SecondFiles DEF Exists, Absent
      <3>2. Passed(s)
        BY <3>1 DEF CInv, Times, VInv, HeldThere
      <3> QED BY <2>3, <3>2
    <2> QED BY <2>1, <2>2, <2>3, <2>4 DEF CInv, Times
  <1> QED BY <1>1, <1>2, <1>3 DEF CInv

\* What it writes is old, and was in no other segment.
LEMMA SecondOInv == ASSUME CInv, OInv, VInv, Second PROVE OInv'
  <1> USE DEF process, past
  <1>1. UNCHANGED <<pc, buf, hand, stamp>>
    BY SecondKeeps
  <1>2. ASSUME NEW s \in Starts
        PROVE  \/ Records(s)' \subseteq Records(s)
               \/ /\ step = "write" /\ s = held.start
                  /\ Records(s)' \subseteq Records(s) \cup ToSet(held.recs)
    BY SecondFiles, NoRecords DEF Records, Absent, Holding
  <1>3. FilesApart'
    <2> SUFFICES ASSUME NEW s \in Starts, NEW u \in Starts, s # u
                 PROVE  Records(s)' \cap Records(u)' = {}
      BY DEF FilesApart
    <2>1. Records(s) \cap Records(u) = {}
      BY DEF OInv, FilesApart
    <2>2. /\ step = "write" /\ s = held.start => ToSet(held.recs) \cap Records(u) = {}
          /\ step = "write" /\ u = held.start => ToSet(held.recs) \cap Records(s) = {}
      BY DEF VInv, HeldApart
    <2> QED BY <1>2, <2>1, <2>2
  <1>4. FilesAscend'
    BY SecondFiles, FewAscend DEF OInv, FilesAscend, VInv, HeldApart, Absent, Holding, Ascends
  <1>5. ASSUME NEW r \in Nat, After(r), step = "write" => \A d \in ToSet(held.recs) : d < r
        PROVE  After(r)'
    BY <1>2, <1>5 DEF After
  <1>6. Len(stamp) \in Nat /\ hand \in Nat /\ (\A b \in ToSet(buf) : b \in Nat)
    BY RecordsAreNumbers DEF CInv
  <1>7. ASSUME step = "write", NEW d \in ToSet(held.recs)
        PROVE  d < Len(stamp) + 1 /\ (hand # None => d < hand) /\ \A b \in ToSet(buf) : d < b
    <2>1. Old(d)
      BY <1>7 DEF VInv, HeldApart
    <2>2. d \in Nat
      <3>1. ToSet(held.recs) \subseteq Record /\ Record \subseteq Nat
        BY StoreAssumption DEF VInv, VisitorShape, ToSet, Record
      <3> QED BY <3>1
    <2> QED BY <1>6, <2>1, <2>2 DEF Old
  <1>8. MemoryIsLater'
    <2>1. After(Len(stamp) + 1)'
      <3> PICK r \in Nat : r = Len(stamp) + 1
        BY <1>6
      <3>1. After(r)'
        BY <1>5, <1>7 DEF OInv, MemoryIsLater
      <3> QED BY <1>1, <3>1 DEF After
    <2>2. hand # None => After(hand)'
      <3> PICK r \in Nat : r = hand
        BY <1>6
      <3>1. hand # None => After(r)'
        BY <1>5, <1>7 DEF OInv, MemoryIsLater
      <3> QED BY <1>1, <3>1 DEF After
    <2>3. ASSUME NEW b \in ToSet(buf) PROVE After(b)' /\ b <= Len(stamp)
      <3> PICK r \in Nat : r = b
        BY <1>6
      <3>1. After(r) /\ r <= Len(stamp)
        BY DEF OInv, MemoryIsLater
      <3>2. After(r)'
        BY <1>5, <1>7, <3>1
      <3> QED BY <3>1, <3>2 DEF After
    <2>4. Ascends(buf)' /\ (buf # << >> => pc = "run")
      BY <1>1 DEF OInv, MemoryIsLater, Ascends
    <2>5. ToSet(buf') = ToSet(buf)
      BY <1>1
    <2> QED BY <1>1, <2>1, <2>2, <2>3, <2>4, <2>5 DEF MemoryIsLater
  <1> QED BY <1>3, <1>4, <1>8 DEF OInv

\* What is safe from both stays so.
LEMMA SecondSafe ==
  ASSUME CInv, VInv, Second, NEW s \in Starts, NEW r, Safe(r, s), HeldSafe(r, s)
  PROVE  Safe(r, s)' /\ HeldSafe(r, s)'
  <1> USE DEF process, past
  <1>1. UNCHANGED <<pc, todo, job, active>>
    BY SecondKeeps
  <1>2. InCare(s)' <=> InCare(s)
    BY <1>1 DEF InCare, Sealing
  <1>3. Safe(r, s)'
    <2>1. CASE part'[s] = part[s] /\ zst'[s] = zst[s]
      BY <1>1, <1>2, <2>1 DEF Safe
    <2>2. CASE step = "remove" /\ s = held.start /\ part'[s] = Absent
      <3>1. zst'[s] = zst[s] /\ r \in ToSet(zst[s].recs)
        BY <2>2, SecondFiles DEF HeldSafe
      <3> QED BY <2>2, <3>1 DEF Safe, Absent
    <2>3. CASE step = "write" /\ s = held.start /\ zst'[s] = Holding(held.recs) /\ part' = part
      <3>1. r \in ToSet(held.recs)
        BY <2>3 DEF HeldSafe
      <3> QED BY <2>3, <3>1 DEF Safe, Holding
    <2> QED BY <2>1, <2>2, <2>3, SecondFiles
  <1>4. HeldSafe(r, s)'
    <2>1. CASE Idles
      BY <2>1 DEF Idles, HeldSafe
    <2>2. CASE VisitorLogs
      BY <2>2 DEF VisitorLogs, HeldSafe
    <2>3. CASE VisitorRemoves
      BY <2>3 DEF VisitorRemoves, HeldSafe
    <2>4. CASE VisitorWrites
      <3>1. step = "write" /\ step' = "log" /\ held' = held
            /\ zst' = [zst EXCEPT ![held.start] = Holding(held.recs)]
        BY <2>4 DEF VisitorWrites, HeldFile
      <3>2. s = held.start => zst'[s] = Holding(held.recs) /\ r \in ToSet(held.recs)
        BY <3>1 DEF CInv, Shape, HeldSafe
      <3> QED BY <3>1, <3>2 DEF HeldSafe, Holding
    <2>5. ASSUME NEW u \in Starts, Reads(u) PROVE HeldSafe(r, s)'
      <3>1. held'.start = u /\ held'.recs = part[u].recs /\ step' = "write"
        BY <2>5 DEF Reads
      <3>2. u = s => r \in ToSet(part[u].recs)
        BY <2>5 DEF Reads, Safe
      <3> QED BY <3>1, <3>2 DEF HeldSafe
    <2> QED BY <2>1, <2>2, <2>3, <2>4, <2>5, SecondKinds DEF VInv
  <1> QED BY <1>3, <1>4

LEMMA SecondVInv == ASSUME CInv, OInv, VInv, Second PROVE VInv'
  <1> USE DEF process, past
  <1>1. UNCHANGED <<pc, job, stamp, buf, hand, now, cur_end, flushed, retired, failed, exposed>>
    BY SecondKeeps
  <1>2. ASSUME NEW s \in Starts, Reads(s)
        PROVE  VisitorShape' /\ HeldThere' /\ HeldApart'
    <2>1. /\ held'.start = s /\ held'.recs = part[s].recs /\ step' = "write"
          /\ listed' = listed /\ to_seal' \subseteq to_seal /\ UNCHANGED <<part, zst>>
          /\ s \in listed /\ part[s].ok
      BY <1>2 DEF Reads
    <2>2. VisitorShape'
      <3>1. part[s].recs \in Seq(Record)
        BY DEF CInv, Shape, File
      <3>2. to_seal \subseteq Starts /\ to_seal \subseteq listed
        BY <1>2 DEF Reads, VInv, VisitorShape
      <3> QED BY <2>1, <3>1, <3>2 DEF VisitorShape
    <2>3. Passed(s)' <=> Passed(s)
      BY <1>1 DEF Passed, PastBy, ToOpen, OpenTime, Sealing
    <2>4. HeldThere'
      <3>1. Passed(s)
        BY <2>1 DEF CInv, Readable, Times, Exists
      <3>2. Passed(s)' => Passed(held.start)'
        BY <2>1 DEF Passed, PastBy
      <3> QED BY <2>1, <2>3, <3>1, <3>2 DEF HeldThere
    <2>5. ASSUME NEW d \in ToSet(part[s].recs) PROVE Old(d)'
      <3>1. d \in Records(s) /\ d \in Nat /\ Len(stamp) \in Nat
        BY RecordsAreNumbers DEF CInv, Records
      <3>2. d < Len(stamp) + 1 /\ (hand # None => d < hand) /\ \A b \in ToSet(buf) : d < b
        BY <3>1 DEF OInv, MemoryIsLater, After
      <3> QED BY <1>1, <3>1, <3>2 DEF Old
    <2>6. \A u \in Starts : u # s => ToSet(part[s].recs) \cap Records(u)' = {}
      BY <2>1 DEF OInv, FilesApart, Records
    <2>7. Ascends(held.recs)'
      BY <2>1 DEF OInv, FilesAscend, Ascends
    <2> QED BY <2>1, <2>2, <2>4, <2>5, <2>6, <2>7 DEF HeldApart
  <1>3. ASSUME step' \notin {"write", "log", "remove"}, VisitorShape'
        PROVE  VisitorShape' /\ HeldThere' /\ HeldApart'
    BY <1>3 DEF HeldThere, HeldApart
  <1>4. ASSUME UNCHANGED <<held, listed, to_seal>>, step \in {"write", "log"},
               step' \in {"log", "remove"}
        PROVE  VisitorShape' /\ HeldThere' /\ HeldApart'
    <2>1. VisitorShape' /\ HeldApart'
      BY <1>4 DEF VInv, VisitorShape, HeldApart
    <2>2. held.start \in listed /\ Passed(held.start)
      BY <1>4 DEF VInv, HeldThere
    <2>3. Passed(held.start)'
      BY <1>1, <1>4, <2>2 DEF Passed, PastBy, ToOpen, OpenTime, Sealing
    <2> QED BY <1>4, <2>1, <2>2, <2>3 DEF HeldThere
  <1>5. ASSUME VisitorWrites \/ VisitorLogs PROVE VisitorShape' /\ HeldThere' /\ HeldApart'
    <2>1. UNCHANGED <<held, listed, to_seal>>
      BY <1>5 DEF VisitorWrites, VisitorLogs
    <2>2. step \in {"write", "log"} /\ step' \in {"log", "remove"}
      BY <1>5 DEF VisitorWrites, VisitorLogs
    <2> QED BY <1>4, <2>1, <2>2
  <1>6. ASSUME VisitorRemoves PROVE VisitorShape' /\ HeldThere' /\ HeldApart'
    <2>1. Nobody.start \in Starts /\ Nobody.recs \in Seq(Record)
      BY StoreAssumption DEF Nobody, Starts
    <2>2. held' = Nobody /\ step = "remove" /\ step' = "recover" /\ UNCHANGED <<listed, to_seal>>
      BY <1>6 DEF VisitorRemoves
    <2>3. VisitorShape'
      BY <2>1, <2>2 DEF VInv, VisitorShape
    <2> QED BY <1>3, <2>2, <2>3
  <1>7. ASSUME Idles PROVE VisitorShape' /\ HeldThere' /\ HeldApart'
    <2>1. VisitorShape'
      BY <1>7 DEF Idles, VInv, VisitorShape
    <2> QED BY <1>3, <1>7, <2>1 DEF Idles
  <1>8. VisitorShape' /\ HeldThere' /\ HeldApart'
    BY <1>2, <1>5, <1>6, <1>7, SecondKinds DEF VInv
  <1>9. JobPart'
    BY <1>1, SecondFiles DEF VInv, JobPart, CInv, Shape, Absent
  <1>10. Spared'
    <2> SUFFICES ASSUME "zst" \notin failed, NEW r \in flushed \ (retired \cup exposed)
                 PROVE  \E s \in Starts : Safe(r, s)' /\ HeldSafe(r, s)'
      BY <1>1 DEF Spared
    <2> PICK s \in Starts : Safe(r, s) /\ HeldSafe(r, s)
      BY DEF VInv, Spared
    <2> QED BY SecondSafe
  <1> QED BY <1>8, <1>9, <1>10 DEF VInv

-----------------------------------------------------------------------------
(* A second process: the kill *)

\* A kill of the second process leaves a .zst it was writing unreadable, and nothing of what
\* it was doing; a part whose .zst is torn is in care, or its records are exposed.
LEMMA KilledKeeps ==
  ASSUME CInv, VInv, VisitorKilled
  PROVE  /\ UNCHANGED <<part, pc, process, now, past, visits, alone>> /\ zst' \in [Starts -> File]
         /\ step # "idle" /\ step' = "idle" /\ listed' = {} /\ to_seal' = {} /\ held' = Nobody
         /\ exposed' = exposed \cup Torn
         /\ \A s \in Starts :
              zst'[s] = zst[s] \/ (step = "write" /\ s = held.start /\ zst'[s] = Broken)
  <1>1. zst \in [Starts -> File] /\ held.start \in Starts /\ Broken \in File
    BY DEF CInv, Shape, VInv, VisitorShape, Broken, File
  <1>2. /\ UNCHANGED <<pc, process, now, past, visits, alone>> /\ TornFiles
        /\ step # "idle" /\ step' = "idle" /\ listed' = {} /\ to_seal' = {} /\ held' = Nobody
        /\ exposed' = exposed \cup Torn
    BY DEF VisitorKilled
  <1>3. part' = part /\ (zst' = zst \/ (step = "write" /\ zst' = [zst EXCEPT ![held.start] = Broken]))
    BY <1>2 DEF TornFiles, HeldFile, files
  <1>4. CASE zst' = zst
    BY <1>1, <1>2, <1>3, <1>4
  <1>5. CASE step = "write" /\ zst' = [zst EXCEPT ![held.start] = Broken]
    <2>1. zst' \in [Starts -> File]
      BY <1>1, <1>5
    <2>2. \A s \in Starts : zst'[s] = zst[s] \/ (s = held.start /\ zst'[s] = Broken)
      BY <1>1, <1>5
    <2> QED BY <1>2, <1>3, <1>5, <2>1, <2>2
  <1> QED BY <1>3, <1>4, <1>5

\* The segment it was writing is one that there was.
LEMMA KilledCInv == ASSUME CInv, VInv, VisitorKilled PROVE CInv'
  <1> USE DEF process, past
  <1>1. Shape'
    BY KilledKeeps DEF CInv, Shape
  <1>2. Readable'
    BY KilledKeeps DEF CInv, Readable, Broken
  <1>3. Times'
    <2>1. UNCHANGED <<pc, job, hand, stamp, now, cur_end>>
      BY KilledKeeps
    <2>2. (ToOpen' <=> ToOpen) /\ OpenTime' = OpenTime /\ (Sealing' <=> Sealing)
      BY <2>1 DEF ToOpen, OpenTime, Sealing
    <2>3. \A x : Passed(x)' <=> Passed(x)
      BY <2>1, <2>2 DEF Passed, PastBy
    <2>4. ASSUME NEW s \in Starts, Exists(s)' PROVE Passed(s)'
      <3>1. Exists(s) \/ (step = "write" /\ s = held.start)
        BY <2>4, KilledKeeps DEF Exists
      <3>2. Passed(s)
        BY <3>1 DEF CInv, Times, VInv, HeldThere
      <3> QED BY <2>3, <3>2
    <2> QED BY <2>1, <2>2, <2>3, <2>4 DEF CInv, Times
  <1> QED BY <1>1, <1>2, <1>3 DEF CInv

\* No file gets a record.
LEMMA KilledOInv == ASSUME CInv, OInv, VInv, VisitorKilled PROVE OInv'
  <1> USE DEF process, past
  <1>1. UNCHANGED <<pc, buf, hand, stamp>>
    BY KilledKeeps
  <1>2. \A s \in Starts : Records(s)' \subseteq Records(s)
    BY KilledKeeps, NoRecords DEF Records, Broken
  <1>3. FilesApart'
    BY <1>2 DEF OInv, FilesApart
  <1>4. FilesAscend'
    BY KilledKeeps, FewAscend DEF OInv, FilesAscend, Broken, Ascends
  <1>5. \A r : After(r) => After(r)'
    BY <1>2 DEF After
  <1>6. MemoryIsLater'
    <2>1. After(Len(stamp) + 1) => After(Len(stamp) + 1)'
      BY <1>1, <1>2 DEF After
    <2>2. After(hand) => After(hand)'
      BY <1>1, <1>2 DEF After
    <2>3. Ascends(buf)' <=> Ascends(buf)
      BY <1>1 DEF Ascends
    <2>4. ToSet(buf') = ToSet(buf)
      BY <1>1
    <2> QED BY <1>1, <1>5, <2>1, <2>2, <2>3, <2>4 DEF OInv, MemoryIsLater
  <1> QED BY <1>3, <1>4, <1>6 DEF OInv

\* A record that it takes out of a .zst is exposed, or still in a part in care.
LEMMA KilledSafe ==
  ASSUME CInv, VInv, PartsInHand, VisitorKilled, NEW s \in Starts, NEW r, Safe(r, s), r \notin exposed'
  PROVE  Safe(r, s)'
  <1> USE DEF process, past
  <1>1. UNCHANGED <<part, pc, todo, job, active, failed>>
    BY KilledKeeps
  <1>2. InCare(s)' <=> InCare(s)
    BY <1>1 DEF InCare, Sealing
  <1>3. CASE zst'[s] = zst[s]
    BY <1>1, <1>2, <1>3 DEF Safe
  <1>4. CASE r \notin ToSet(zst[s].recs)
    BY <1>1, <1>2, <1>4 DEF Safe
  <1>5. CASE zst'[s] # zst[s] /\ r \in ToSet(zst[s].recs)
    <2>1. s = held.start /\ r \notin Torn
      BY <1>5, KilledKeeps
    <2>2. SealedAgain(s)
      BY <1>5, <2>1 DEF Torn, HeldFile
    <2>3. InCare(s) /\ part[s].ok /\ ~(pc \in {"log", "remove"} /\ s = job.start)
      BY <2>2 DEF SealedAgain, PartsInHand
    <2> QED BY <1>1, <1>2, <2>3 DEF Safe
  <1> QED BY <1>3, <1>4, <1>5

LEMMA KilledVInv == ASSUME CInv, VInv, PartsInHand, VisitorKilled PROVE VInv'
  <1> USE DEF process, past
  <1>1. Nobody.start \in Starts /\ Nobody.recs \in Seq(Record)
    BY StoreAssumption DEF Nobody, Starts
  <1>2. VisitorShape' /\ HeldThere' /\ HeldApart'
    BY <1>1, KilledKeeps DEF VisitorShape, HeldThere, HeldApart
  <1>3. JobPart'
    BY KilledKeeps DEF VInv, JobPart
  <1>4. Spared'
    <2> SUFFICES ASSUME "zst" \notin failed, NEW r \in flushed \ (retired \cup exposed')
                 PROVE  \E s \in Starts : Safe(r, s)' /\ HeldSafe(r, s)'
      BY KilledKeeps DEF Spared
    <2>1. r \notin exposed
      BY KilledKeeps
    <2>2. PICK s \in Starts : Safe(r, s)
      BY <2>1 DEF VInv, Spared
    <2>3. HeldSafe(r, s)'
      BY KilledKeeps DEF HeldSafe
    <2> QED BY <2>2, <2>3, KilledSafe
  <1> QED BY <1>2, <1>3, <1>4 DEF VInv

\* A part that can be read has somebody who will come to it, also when the other process
\* has removed parts.
LEMMA InHandStep ==
  ASSUME CInv, Moves, PartsInHand PROVE PartsInHand'
  <1> USE DEF files, process, past, Fails
  <1> SUFFICES ASSUME failed' = {}, NEW s \in Starts, part'[s].ok
               PROVE  InCare(s)' \/ (pc' \in {"log", "remove"} /\ s = job'.start)
    BY DEF PartsInHand
  <1>0. failed = {} /\ "zst" \notin failed'
    BY PastGrows
  <1>1. CASE part[s].ok /\ ~(pc \in {"log", "remove"} /\ s = job.start)
    <2>1. InCare(s)
      BY <1>0, <1>1 DEF PartsInHand
    <2> QED BY <1>0, <1>1, <2>1, InCareStep
  <1>2. CASE part[s].ok /\ pc \in {"log", "remove"} /\ s = job.start
    <2>1. CASE SealLog
      BY <1>2, <2>1 DEF SealLog
    <2>2. CASE SealRemove
      BY <1>2, <2>2 DEF SealRemove, CInv, Shape, Absent
    <2>3. CASE Crash
      BY <2>3 DEF Crash, InCare
    <2>4. CASE Tick \/ UNCHANGED vars
      BY <1>2, <2>4 DEF Tick, vars
    <2>5. ~(IndexFails \/ RemoveFails)
      BY <1>0 DEF IndexFails, RemoveFails
    <2>6. ~(Recovered \/ Retained \/ Rebuild \/ OpenFails \/ StopDead \/ SealGone
            \/ SealWrite \/ SealWriteFails \/ OpenSegment \/ Stop)
      BY <1>2 DEF Recovered, Retained, Rebuild, OpenFails, StopDead, SealGone, SealWrite,
             SealWriteFails, OpenSegment, Stop
    <2>7. ~(\E m \in {"run", "verify"} : Start(m))
          /\ ~(\E u \in Starts : RecoverPart(u) \/ RemoveExpired(u))
      BY <1>2 DEF Start, RecoverPart, RemoveExpired
    <2>8. \A utc \in now - Jitter .. now :
            ~Rotate(utc) /\ \A flush \in BOOLEAN : ~Sample(utc, flush)
      BY <1>2 DEF Rotate, Sample
    <2> QED BY <2>1, <2>2, <2>3, <2>4, <2>5, <2>6, <2>7, <2>8, NextKinds DEF Quiet
  <1>3. CASE ~part[s].ok
    <2>1. pc = "open" /\ s = AlignedStart(OpenTime) /\ pc' \in {"down", "run"}
      <3>1. PartStep(s)
        BY FilesChange DEF FilesStep
      <3>2. ~(pc = "run" /\ s = active)
        BY <1>3 DEF CInv, Readable
      <3> QED BY <1>3, <3>1, <3>2 DEF PartStep, Absent
    <2>2. CASE pc' = "down"
      BY <2>2 DEF InCare
    <2>3. CASE OpenSegment
      BY <2>1, <2>3 DEF OpenSegment, InCare
    <2>4. CASE pc' = "run"
      <3>1. ~Quiet
        BY <2>1, <2>4 DEF Quiet, Start, RecoverPart, Recovered, Retained, Rebuild, SealLog,
           IndexFails, RemoveFails, OpenFails, StopDead, Tick, SealGone, vars
      <3>2. ~(SealWrite \/ SealWriteFails \/ SealRemove \/ Stop \/ Crash)
        BY <2>4 DEF SealWrite, SealWriteFails, SealRemove, Stop, Crash, CInv, Shape
      <3>3. \A u \in Starts : ~RemoveExpired(u)
        BY <2>1 DEF RemoveExpired
      <3>4. \A utc \in now - Jitter .. now :
              ~Rotate(utc) /\ \A flush \in BOOLEAN : ~Sample(utc, flush)
        BY <2>1 DEF Rotate, Sample
      <3> QED BY <2>3, <3>1, <3>2, <3>3, <3>4, NextKinds
    <2> QED BY <2>1, <2>2, <2>4
  <1> QED BY <1>1, <1>2, <1>3

\* The second process takes none of it out of hand, killed or not.
LEMMA SecondInHand ==
  ASSUME CInv, VInv, PartsInHand, Second \/ VisitorKilled PROVE PartsInHand'
  <1> USE DEF process, past
  <1>1. UNCHANGED <<pc, todo, job, active, failed>>
    BY SecondKeeps, KilledKeeps
  <1>2. \A s \in Starts : part'[s].ok => part[s].ok
    BY SecondFiles, KilledKeeps DEF Absent
  <1>3. \A s \in Starts : InCare(s)' <=> InCare(s)
    BY <1>1 DEF InCare, Sealing
  <1> QED BY <1>1, <1>2, <1>3 DEF PartsInHand

\* The files of two processes: the invariant of both.
BInv == CInv /\ OInv /\ VInv /\ PartsInHand
BesideVars == <<vars, visitor, exposed, alone, killed>>

\* A step of either process, or none.
LEMMA BesideKinds ==
  ASSUME [BesideNext]_BesideVars
  PROVE  \/ /\ Moves /\ UNCHANGED <<visitor, killed>>
            /\ exposed \subseteq exposed' /\ AtRisk \subseteq exposed'
            /\ alone' = IF pc = "down" /\ pc' = "recover" THEN step = "idle" ELSE alone
         \/ Second /\ UNCHANGED killed
         \/ VisitorKilled
  <1>1. CASE First /\ UNCHANGED killed
    BY <1>1 DEF First, Moves
  <1>2. CASE UNCHANGED BesideVars
    <2>1. /\ Moves /\ UNCHANGED <<visitor, killed>> /\ exposed' = exposed /\ alone' = alone
          /\ pc' = pc /\ part' = part /\ zst' = zst
      BY <1>2 DEF BesideVars, Moves, vars, files
    <2>2. Raced = {} /\ CutShort = {}
      BY <2>1 DEF Raced, CutShort
    <2>3. AtRisk = {}
      BY <2>2 DEF AtRisk
    <2> QED BY <2>1, <2>3
  <1> QED BY <1>1, <1>2 DEF BesideNext

LEMMA BesideStep == ASSUME BInv, [BesideNext]_BesideVars PROVE BInv'
  <1>1. CASE Moves /\ UNCHANGED visitor /\ exposed \subseteq exposed' /\ AtRisk \subseteq exposed'
    BY <1>1, NextCInv, NextOInv, FirstVInv, InHandStep DEF BInv
  <1>2. CASE Second
    BY <1>2, SecondCInv, SecondOInv, SecondVInv, SecondInHand DEF BInv
  <1>3. CASE VisitorKilled
    BY <1>3, KilledCInv, KilledOInv, KilledVInv, SecondInHand DEF BInv
  <1> QED BY <1>1, <1>2, <1>3, BesideKinds

LEMMA InitBInv == ASSUME BesideInit PROVE BInv
  <1>1. PartsInHand
    BY DEF BesideInit, Init, PartsInHand, Absent
  <1> QED BY <1>1, InitCInv, InitOInv, InitVInv DEF BInv, BesideInit

\* Whatever a verify or an export does beside a run, or beside another verify, and
\* wherever either of the two is killed, any number of times: a record that was flushed,
\* and that retention has not removed, is on disk, unless it came into a part that a
\* verify had found, or was in a .zst that a kill caught either process writing a second
\* time, when the other had removed the part or was about to (seal.cpp:28-33, 49-99,
\* cli.cpp:126-143). It takes a failure to write a .zst to lose another.
THEOREM LossesAreRaced == BesideSpec => []("zst" \notin failed => LosesOnlyWhatItRaces)
  <1>1. BesideInit => BInv
    BY InitBInv
  <1>2. BInv /\ [BesideNext]_BesideVars => BInv'
    BY BesideStep
  <1>3. BInv => ("zst" \notin failed => LosesOnlyWhatItRaces)
    <2> SUFFICES ASSUME BInv, "zst" \notin failed, NEW r \in flushed \ retired, r \notin exposed
                 PROVE  OnDisk(r)
      BY DEF LosesOnlyWhatItRaces
    <2>1. PICK s \in Starts : Safe(r, s)
      BY DEF BInv, VInv, Spared
    <2> QED BY <2>1 DEF Safe, OnDisk
  <1> QED BY <1>1, <1>2, <1>3, PTL DEF BesideSpec, BesideVars

\* No two processes store a record in two segments, or out of order, whatever verify and
\* export do beside a run, and whatever is killed or fails (seal.cpp:49-99).
THEOREM RecordsStayApart == BesideSpec => []OneSegmentPerRecord
  <1>1. BesideInit => BInv
    BY InitBInv
  <1>2. BInv /\ [BesideNext]_BesideVars => BInv'
    BY BesideStep
  <1>3. BInv => OneSegmentPerRecord
    BY DEF BInv, OInv, FilesApart, FilesAscend, Records, Ascends, OneSegmentPerRecord
  <1> QED BY <1>1, <1>2, <1>3, PTL DEF BesideSpec, BesideVars

-----------------------------------------------------------------------------
(* A verify that is left alone *)

AloneIdle == alone => step = "idle"

AInv == ZstReadable /\ VerifiedAtEnd /\ AloneIdle

LEMMA InitAInv == ASSUME BesideInit PROVE AInv
  BY DEF BesideInit, Init, AInv, ZstReadable, VerifiedAtEnd, AloneIdle, Absent

\* What cannot be read is taken to hold nothing.
LEMMA ZstReadableStep == ASSUME CInv, Moves, ZstReadable PROVE ZstReadable'
  <1> SUFFICES ASSUME NEW s \in Starts, ~zst'[s].ok PROVE zst'[s].recs = << >>
    BY DEF ZstReadable
  <1>1. ZstStep(s)
    BY FilesChange DEF FilesStep
  <1>2. CASE zst'[s] = zst[s]
    BY <1>2 DEF ZstReadable
  <1>3. CASE zst'[s] \in {Absent, Broken}
    BY <1>3 DEF Absent, Broken
  <1> QED BY <1>1, <1>2, <1>3 DEF ZstStep, Holding

\* The command that comes next is not a verify that has ended.
LEMMA VerifiedStep ==
  ASSUME Moves, VerifiedAtEnd
  PROVE  /\ VerifiedAtEnd'
         /\ verified' => Rebuild \/ (pc = "down" /\ verified /\ UNCHANGED <<files, past, pc>>)
  <1> USE DEF files, process, past, VerifiedAtEnd
  <1>1. CASE Rebuild
    BY <1>1 DEF Rebuild
  <1>2. CASE Tick \/ UNCHANGED vars
    BY <1>2 DEF Tick, vars
  <1>3. CASE \E m \in {"run", "verify"} : Start(m)
    BY <1>3 DEF Start
  <1>4. ASSUME pc # "down", verified' = verified
        PROVE  ~verified'
    BY <1>4
  <1>5. CASE \/ Recovered \/ Retained \/ SealLog \/ IndexFails \/ RemoveFails \/ OpenFails
             \/ StopDead \/ SealGone
    BY <1>4, <1>5 DEF Recovered, Retained, SealLog, IndexFails, RemoveFails, OpenFails, StopDead,
       SealGone
  <1>6. CASE SealWrite \/ SealWriteFails \/ SealRemove \/ OpenSegment \/ Stop \/ Crash
    BY <1>4, <1>6 DEF SealWrite, SealWriteFails, SealRemove, OpenSegment, Stop, Crash
  <1>7. ASSUME NEW s \in Starts, RecoverPart(s) \/ RemoveExpired(s) PROVE ~verified'
    BY <1>4, <1>7 DEF RecoverPart, RemoveExpired
  <1>8. ASSUME NEW utc \in now - Jitter .. now,
               Rotate(utc) \/ \E flush \in BOOLEAN : Sample(utc, flush)
        PROVE  ~verified'
    BY <1>4, <1>8 DEF Rotate, Sample
  <1> QED BY <1>1, <1>2, <1>3, <1>5, <1>6, <1>7, <1>8, NextKinds DEF Quiet

LEMMA FirstAlone ==
  ASSUME BInv, AInv, VerifyAloneRepairs, Moves, UNCHANGED visitor,
         alone' = IF pc = "down" /\ pc' = "recover" THEN step = "idle" ELSE alone
  PROVE  AInv' /\ VerifyAloneRepairs'
  <1> USE DEF files, past, visitor
  <1>1. ZstReadable' /\ VerifiedAtEnd'
    BY ZstReadableStep, VerifiedStep DEF BInv, AInv
  <1>2. AloneIdle'
    BY DEF AInv, AloneIdle
  <1>3. VerifyAloneRepairs'
    <2> SUFFICES ASSUME verified', alone', failed' = {}
                 PROVE  /\ \A r \in DOMAIN stamp' : OnDisk(r)' => TimesExported(r)' = 1
                        /\ \A s \in Starts : part'[s].exists => ~part'[s].ok
      BY DEF VerifyAloneRepairs
    <2>1. failed = {}
      BY PastGrows
    <2>2. CASE Rebuild
      <3>1. /\ \A r : OnDisk(r) => TimesExported(r)' = 1
            /\ \A s \in Starts : ~part[s].ok
            /\ UNCHANGED <<part, zst, stamp, flushed, retired>>
        BY <2>1, <2>2, RebuildRepairs DEF BInv, AInv
      <3>2. \A r : OnDisk(r)' <=> OnDisk(r)
        BY <3>1 DEF OnDisk
      <3> QED BY <3>1, <3>2
    <2>3. CASE pc = "down" /\ verified /\ UNCHANGED <<files, past, pc>>
      <3>1. alone' = alone /\ UNCHANGED <<part, zst, index, stamp>>
        BY <2>3
      <3>2. \A r : (OnDisk(r)' <=> OnDisk(r)) /\ TimesExported(r)' = TimesExported(r)
        BY <3>1, SameExport DEF OnDisk
      <3> QED BY <2>1, <2>3, <3>1, <3>2 DEF VerifyAloneRepairs
    <2> QED BY <2>2, <2>3, VerifiedStep DEF AInv
  <1> QED BY <1>1, <1>2, <1>3 DEF AInv

LEMMA SecondAlone ==
  ASSUME BInv, AInv, Second PROVE AInv' /\ VerifyAloneRepairs'
  <1> USE DEF process, past
  <1>1. UNCHANGED <<pc, todo, job, active, failed, verified>>
    BY SecondKeeps
  <1>2. ZstReadable'
    BY SecondFiles DEF BInv, AInv, ZstReadable, Holding
  <1>3. ~alone'
    BY DEF AInv, AloneIdle, Second, Visit, VisitorReads, VisitorWrites, VisitorLogs,
           VisitorRemoves, VisitorLoads, VisitorScans, VisitorCuts, VisitorRewrites
  <1> QED BY <1>1, <1>2, <1>3 DEF AInv, VerifiedAtEnd, AloneIdle, VerifyAloneRepairs

LEMMA KilledAlone ==
  ASSUME BInv, AInv, VisitorKilled PROVE AInv' /\ VerifyAloneRepairs'
  <1> USE DEF past
  <1>1. UNCHANGED <<pc, verified, alone>> /\ step # "idle" /\ step' = "idle"
    BY KilledKeeps DEF BInv
  <1>2. ZstReadable'
    BY KilledKeeps DEF BInv, AInv, ZstReadable, Broken
  <1> QED BY <1>1, <1>2 DEF AInv, VerifiedAtEnd, AloneIdle, VerifyAloneRepairs

\* Whatever a verify or an export beside a run, kills of either, and records lost have left:
\* after a verify with no other process all that is on disk is exported, once, and no part
\* that can be read is left, if no operation has failed (cli.cpp:137-140, index.cpp:72-101).
THEOREM AloneVerifyRepairs == BesideSpec => []VerifyAloneRepairs
  <1>1. BesideInit => BInv /\ AInv /\ VerifyAloneRepairs
    <2>1. BesideInit => VerifyAloneRepairs
      BY DEF BesideInit, Init, VerifyAloneRepairs
    <2> QED BY <2>1, InitBInv, InitAInv
  <1>2. BInv /\ AInv /\ VerifyAloneRepairs /\ [BesideNext]_BesideVars
          => (BInv /\ AInv /\ VerifyAloneRepairs)'
    BY BesideStep, BesideKinds, FirstAlone, SecondAlone, KilledAlone
  <1> QED BY <1>1, <1>2, PTL DEF BesideSpec, BesideVars

-----------------------------------------------------------------------------
(* The rows of the index beside a second process: while neither the writing of a  *)
(* .zst nor that of the index has failed, the rows of a segment reach as far as   *)
(* its records, or its part is still there to be sealed.                          *)

Intact == "zst" \notin failed /\ "index" \notin failed
Verifying == step \in {"recover", "write", "log", "remove", "scan"}
Rewriting == step \in {"cut", "rewrite"}

\* The rows that the second process is going to write.
Planned == Rows([exists |-> TRUE, lines |-> scanned])

\* The records the rows of a segment have to reach: those of its files, and those that the
\* second process is going to write.
InHeld(s) == IF step = "write" /\ s = held.start THEN ToSet(held.recs) ELSE {}
Owed(s) == (Records(s) \cup InHeld(s)) \ exposed

Has(R, s) == \E i \in DOMAIN R : R[i].start = s
Told(R, s) ==
  Has(R, s) => \A r \in Owed(s) :
    \E j \in DOMAIN R : R[j].start = s /\ stamp[r] <= R[j].end + Jitter

\* The part of a segment can be read, and is not about to be removed.
Coming(s) ==
  /\ part[s].ok
  /\ ~(pc = "remove" /\ s = job.start) /\ ~(step = "remove" /\ s = held.start)

\* Its .zst lacks records of its part; or will, as it is being written.
Stale(s) == zst[s].ok /\ ~(ToSet(part[s].recs) \ exposed \subseteq ToSet(zst[s].recs))
Due(s) == Stale(s) \/ (pc = "run" /\ s = active /\ zst[s].exists)

\* No segment is opened in its place any more.
Late(s) == Past(s + SegMs)
Settled(s) == zst[s].exists \/ Late(s)

\* The types, and the times, whatever fails.
RowTimes(R) == \A i \in DOMAIN R : R[i].start <= R[i].end + Jitter
RowTypes ==
  /\ index \in [exists : BOOLEAN, lines : Seq(Line)] /\ scanned \in Seq(Line)
  /\ ~index.exists => index.lines = << >>
  /\ job.end \in Nat /\ job.count \in Nat /\ last_utc \in Nat
ZstThere ==
  /\ \A s \in Starts : zst[s].ok => zst[s].exists
  /\ pc = "run" /\ zst[active].exists => zst[active].ok
VisitorLists ==
  /\ step \in {"write", "log", "remove"} => held.start \notin to_seal
  /\ step \in {"load", "scan"} => listed = {} /\ to_seal = {}
  /\ step \in {"write", "log"} => held.recs \in Seq(DOMAIN stamp)
JobTimes ==
  /\ pc = "log" => job.start <= job.end + Jitter
  /\ pc = "write" /\ job.end # 0 =>
       /\ job.start <= job.end + Jitter
       /\ \A r \in ToSet(part[job.start].recs) : stamp[r] <= job.end + Jitter
RunTimes ==
  pc = "run" =>
    /\ active <= last_utc + Jitter
    /\ \A r \in ToSet(part[active].recs) \cup ToSet(buf) : stamp[r] <= last_utc + Jitter
TodoPast == pc = "retain" => \A s \in todo : s + SegMs <= now

TInv ==
  /\ RowTypes /\ ZstThere /\ ZstReadable /\ VisitorLists /\ PastStamps
  /\ RowTimes(Rows(index)) /\ RowTimes(Planned)
  /\ JobTimes /\ RunTimes /\ TodoPast

\* Who seals, and what: parts are sealed whole, and their records have been read.
JobSealed ==
  pc \in {"log", "remove"} =>
    zst[job.start].ok /\ ToSet(part[job.start].recs) \ exposed \subseteq ToSet(zst[job.start].recs)
JobTold == pc = "log" => \A r \in Owed(job.start) : stamp[r] <= job.end + Jitter
StaleInCare == \A s \in Starts : Stale(s) => InCare(s)
PartNamed ==
  \A s \in Starts : part[s].ok =>
    (InCare(s) /\ ~(pc \in {"log", "remove"} /\ s = job.start)) \/ Settled(s)
HeldWhole ==
  step = "write" =>
    /\ part[held.start].ok => ToSet(held.recs) \subseteq ToSet(part[held.start].recs)
    /\ ToSet(part[held.start].recs) \ exposed \subseteq ToSet(held.recs)
    /\ ~part[held.start].ok /\ zst[held.start].ok =>
         ToSet(held.recs) \ exposed \subseteq ToSet(zst[held.start].recs)
HeldTold == step = "log" => Records(held.start) \ exposed \subseteq ToSet(held.recs)
Named ==
  \A s \in Starts :
    (step = "write" /\ s = held.start) \/ (Rewriting /\ Has(Planned, s)) =>
      part[s].ok \/ Settled(s)
SealInv ==
  JobSealed /\ JobTold /\ StaleInCare /\ PartNamed /\ HeldWhole /\ HeldTold /\ Named

\* Which segments have rows: a verify sees what is stale, and what is not listed is new.
StaleListed ==
  Verifying => \A s \in Starts : Stale(s) => s \in to_seal \/ (step = "write" /\ s = held.start)
ActiveNew ==
  (Verifying \/ Rewriting) /\ pc = "run" /\ active \notin listed =>
    ~zst[active].exists /\ (Rewriting => ~Has(Planned, active))
DueHasRow ==
  \A s \in Starts : Due(s) =>
    (step \in {"idle", "load"} => Has(Rows(index), s)) /\ (Rewriting => Has(Planned, s))
RowsTold == \A s \in Starts : Told(Rows(index), s) \/ Coming(s)
PlannedTold == Rewriting => \A s \in Starts : Told(Planned, s)
RowInv == StaleListed /\ ActiveNew /\ DueHasRow /\ RowsTold /\ PlannedTold

WInv == ~killed => TInv /\ (Intact => SealInv /\ RowInv)

-----------------------------------------------------------------------------
(* Beside a second process: how the first one comes to what it does *)

\* A rewrite of the index is cut short.
CutsIndex ==
  /\ pc = "rebuild" /\ pc' = "down" /\ UNCHANGED <<part, zst>>
  /\ \E n \in 0 .. Len(RebuiltLines) - 1 :
       index' = [exists |-> TRUE, lines |-> SubSeq(RebuiltLines, 1, n)]

\* index.csv has just been created, and has no header yet.
CutsHeader ==
  /\ pc = "log" /\ pc' = "down" /\ UNCHANGED <<part, zst>>
  /\ ~index.exists /\ index' = [exists |-> TRUE, lines |-> << >>]

\* The writer gives up its segment.
Closes ==
  /\ pc = "run" /\ pc' = "write" /\ Flush /\ zst' = zst
  /\ job'.start = active /\ job'.end = last_utc

Turns ==
  /\ pc' = "run" =>
       OpenSegment \/ (pc = "run" /\ UNCHANGED <<zst, active>>)
  /\ pc' = "log" => SealWrite \/ (pc = "log" /\ UNCHANGED <<part, zst, job>>)
  /\ pc' = "remove" =>
       SealLog \/ "index" \in failed' \/ (pc = "remove" /\ UNCHANGED <<part, zst, job>>)
  /\ pc' = "write" =>
       Closes \/ (\E s \in Starts : RecoverPart(s)) \/ (pc = "write" /\ UNCHANGED <<part, zst, job>>)
  /\ pc' = "retain" => Recovered \/ (pc = "retain" /\ todo' \subseteq todo)
  /\ index' = index \/ SealLog \/ Rebuild \/ CutsIndex \/ CutsHeader
  /\ now \in Nat /\ now' \in {now, now + 1}
  /\ stamp' = stamp \/ \E utc \in now - Jitter .. now : utc \in Starts /\ stamp' = Append(stamp, utc)

\* Every step of the first process keeps to that.
LEMMA TurnsStep == ASSUME CInv, Moves PROVE Turns
  <1> USE DEF files, process, past, Fails, Turns
  <1>0. now \in Nat /\ pc \in Steps /\ job.next \in {"recover", "open", "down"}
    BY StoreAssumption DEF CInv, Shape
  <1>1. CASE \/ \E m \in {"run", "verify"} : Start(m)
             \/ Recovered \/ Retained
    BY <1>0, <1>1 DEF Start, Recovered, Retained
  <1>2. CASE \E s \in Starts : RecoverPart(s)
    BY <1>0, <1>2 DEF RecoverPart
  <1>3. CASE Rebuild \/ SealLog \/ IndexFails \/ RemoveFails
    BY <1>0, <1>3 DEF Rebuild, SealLog, IndexFails, RemoveFails
  <1>4. CASE OpenFails \/ StopDead \/ Tick \/ SealGone \/ UNCHANGED vars
    BY <1>0, <1>4 DEF OpenFails, StopDead, Tick, SealGone, vars
  <1>5. CASE SealWrite \/ SealWriteFails \/ SealRemove \/ OpenSegment
    BY <1>0, <1>5 DEF SealWrite, SealWriteFails, SealRemove, OpenSegment
  <1>6. CASE Stop
    BY <1>0, <1>6 DEF Stop, Closes, SealedEnd
  <1>7. CASE Crash
    BY <1>0, <1>7 DEF Crash, CrashFiles, CutsIndex, CutsHeader
  <1>8. CASE \E s \in Starts : RemoveExpired(s)
    BY <1>0, <1>8 DEF RemoveExpired
  <1>9. \A utc \in now - Jitter .. now : utc \in Starts
    BY SampleTime DEF CInv, Shape
  <1>10. ASSUME NEW utc \in now - Jitter .. now, Rotate(utc) PROVE Turns
    BY <1>0, <1>9, <1>10 DEF Rotate, Closes, SealedEnd
  <1>11. ASSUME NEW utc \in now - Jitter .. now, NEW flush \in BOOLEAN, Sample(utc, flush)
         PROVE  Turns
    BY <1>0, <1>9, <1>11 DEF Sample
  <1> QED BY <1>1, <1>2, <1>3, <1>4, <1>5, <1>6, <1>7, <1>8, <1>10, <1>11, NextKinds DEF Quiet

\* The rows of rebuild(), of a rewrite that is cut short, and of those the second process
\* plans are those of readable segments.
SealedRows(R) == \A i \in DOMAIN R : \E s \in Starts : zst[s].ok /\ R[i] = RowOf(s)

\* rebuild() gives each readable segment a row, and no other.
LEMMA RebuiltSealed ==
  ASSUME CInv, OInv
  PROVE  /\ RebuiltLines \in Seq(Line)
         /\ Rows([exists |-> TRUE, lines |-> RebuiltLines]) = Tail(RebuiltLines)
         /\ SealedRows(Tail(RebuiltLines))
         /\ \A s \in Starts : zst[s].ok => Has(Tail(RebuiltLines), s)
  <1> PICK L \in Seq(Line) : L = RebuiltLines
    BY RebuiltIs DEF CInv
  <1>1. L # << >>
    BY RebuiltIs DEF CInv
  <1>2. Rows([exists |-> TRUE, lines |-> L]) = Tail(L)
    BY <1>1 DEF Rows
  <1>3. \A i \in DOMAIN Tail(L) : \E s \in Starts : zst[s].ok /\ Tail(L)[i] = RowOf(s)
    BY RebuiltIs DEF CInv
  <1>4. \A s \in Starts : zst[s].ok => \E i \in DOMAIN Tail(L) : Tail(L)[i] = RowOf(s)
    BY RebuiltIs DEF CInv
  <1>5. \A s : RowOf(s).start = s
    BY DEF RowOf
  <1>6. SealedRows(Tail(L))
    BY <1>3 DEF SealedRows
  <1>7. \A s \in Starts : zst[s].ok => Has(Tail(L), s)
    BY <1>4, <1>5 DEF Has
  <1> QED BY <1>2, <1>6, <1>7

\* What is left of a rewrite that is cut short is part of that.
LEMMA CutSealed ==
  ASSUME CInv, OInv, CutsIndex
  PROVE  SealedRows(Rows(index')) /\ index' \in [exists : BOOLEAN, lines : Seq(Line)] /\ index'.exists
  <1> PICK L \in Seq(Line) : L = RebuiltLines
    BY RebuiltIs DEF CInv
  <1>1. PICK n \in 0 .. Len(L) - 1 : index' = [exists |-> TRUE, lines |-> SubSeq(L, 1, n)]
    BY DEF CutsIndex
  <1>0. n \in 0 .. Len(L)
    BY <1>1
  <1> PICK p \in Seq(Line) : p = SubSeq(L, 1, n)
    BY <1>0, Beginning
  <1>2. \A i \in DOMAIN Rows(index') : i \in DOMAIN Tail(L) /\ Rows(index')[i] = Tail(L)[i]
    <2>1. CASE p = << >>
      <3>1. Rows(index') = << >>
        BY <1>1, <2>1 DEF Rows
      <3> QED BY <3>1
    <2>2. CASE p # << >>
      <3>1. Rows(index') = Tail(p)
        BY <1>1, <2>2 DEF Rows
      <3>2. \A i \in DOMAIN Tail(p) : i \in DOMAIN Tail(L) /\ Tail(p)[i] = Tail(L)[i]
        BY <2>2
      <3> QED BY <3>1, <3>2
    <2> QED BY <2>1, <2>2
  <1>3. SealedRows(Tail(L))
    BY RebuiltSealed
  <1>4. SealedRows(Rows(index'))
    BY <1>2, <1>3 DEF SealedRows
  <1> QED BY <1>1, <1>4

\* Such rows reach as far as the records of the segments.
LEMMA SealedRowTimes ==
  ASSUME CInv, OInv, NEW R, SealedRows(R)
  PROVE  /\ RowTimes(R)
         /\ \A s \in Starts : Has(R, s) =>
              zst[s].ok /\ \A r \in ToSet(zst[s].recs) :
                \E j \in DOMAIN R : R[j].start = s /\ stamp[r] <= R[j].end + Jitter
  <1>1. ASSUME NEW i \in DOMAIN R, NEW s \in Starts, zst[s].ok, R[i] = RowOf(s)
        PROVE  /\ R[i].start = s /\ R[i].start <= R[i].end + Jitter
               /\ \A r \in ToSet(zst[s].recs) : stamp[r] <= R[i].end + Jitter
    <2>1. zst[s].recs \in Seq(DOMAIN stamp) /\ stamp \in Seq(Starts)
      BY OnDiskIsStamped DEF CInv, Shape
    <2> PICK e : e = LatestTime(s, zst[s].recs)
      OBVIOUS
    <2>2. R[i].start = s /\ R[i].end = e
      BY <1>1 DEF RowOf
    <2>3. e \in Starts /\ s <= e /\ \A r \in ToSet(zst[s].recs) : stamp[r] <= e
      BY <2>1, LatestTimeIs
    <2>4. ASSUME NEW r \in ToSet(zst[s].recs) PROVE stamp[r] \in Nat
      BY StampsAre DEF CInv, Records
    <2>5. e \in Nat /\ s \in Nat /\ Jitter \in Nat
      BY <2>3, StartsAre, StoreAssumption
    <2>6. s <= e + Jitter
      BY <2>3, <2>5
    <2>7. \A r \in ToSet(zst[s].recs) : stamp[r] <= e + Jitter
      BY <2>3, <2>4, <2>5
    <2> QED BY <2>2, <2>6, <2>7
  <1>2. RowTimes(R)
    BY <1>1 DEF RowTimes, SealedRows
  <1>3. ASSUME NEW s \in Starts, Has(R, s)
        PROVE  zst[s].ok /\ \A r \in ToSet(zst[s].recs) :
                 \E j \in DOMAIN R : R[j].start = s /\ stamp[r] <= R[j].end + Jitter
    <2> PICK i \in DOMAIN R : R[i].start = s
      BY <1>3 DEF Has
    <2> PICK u \in Starts : zst[u].ok /\ R[i] = RowOf(u)
      BY DEF SealedRows
    <2>1. /\ R[i].start = u
          /\ \A r \in ToSet(zst[u].recs) : stamp[r] <= R[i].end + Jitter
      BY <1>1
    <2> QED BY <2>1
  <1> QED BY <1>2, <1>3

\* A row is appended, unless it is taken for the header.
LEMMA AppendedTells ==
  ASSUME RowTypes, NEW row \in Line, NEW ix, ix = AppendRow(index, row)
  PROVE  /\ ix \in [exists : BOOLEAN, lines : Seq(Line)] /\ ix.exists
         /\ Rows(index) \in Seq(Line)
         /\ \/ Rows(ix) = Append(Rows(index), row)
            \/ Rows(ix) = << >> /\ Rows(index) = << >>
  <1>1. index \in [exists : BOOLEAN, lines : Seq(Line)] /\ (~index.exists => index.lines = << >>)
    BY DEF RowTypes
  <1>2. ix \in [exists : BOOLEAN, lines : Seq(Line)] /\ ix.exists
    <2>1. CASE index.exists
      <3>1. Append(index.lines, row) \in Seq(Line)
        BY <1>1
      <3> QED BY <2>1, <3>1 DEF AppendRow
    <2>2. CASE ~index.exists
      <3>1. HeaderLine \in Line
        BY StartsAre DEF HeaderLine, Line
      <3>2. <<HeaderLine, row>> \in Seq(Line)
        BY <3>1
      <3> QED BY <2>2, <3>2 DEF AppendRow
    <2> QED BY <2>1, <2>2
  <1>3. index.lines = << >> => Rows(index) = << >>
    BY DEF Rows
  <1> QED BY <1>1, <1>2, <1>3, AppendedRow

-----------------------------------------------------------------------------
(* The types and the times, beside a second process *)

\* What has been stamped keeps its stamp.
LEMMA StampsStay ==
  ASSUME CInv, OInv, Moves
  PROVE  /\ \A r \in DOMAIN stamp : r \in DOMAIN stamp' /\ stamp'[r] = stamp[r]
         /\ \A s \in Starts : \A r \in Records(s) : stamp[r] \in Nat /\ stamp'[r] = stamp[r]
         /\ \A r \in ToSet(buf) : stamp[r] \in Nat /\ stamp'[r] = stamp[r]
         /\ DOMAIN stamp \subseteq Nat
  <1>1. stamp \in Seq(Starts) /\ Len(stamp) \in Nat /\ \A r \in DOMAIN stamp : stamp[r] \in Nat
    <2>1. stamp \in Seq(Starts)
      BY DEF CInv, Shape
    <2>2. \A r \in DOMAIN stamp : stamp[r] \in Starts
      BY <2>1
    <2>3. Len(stamp) \in Nat
      BY <2>1
    <2>4. \A r \in DOMAIN stamp : stamp[r] \in Nat
      BY <2>2, StartsAre
    <2> QED BY <2>1, <2>3, <2>4
  <1>2. stamp' = stamp \/ \E utc \in now - Jitter .. now : utc \in Starts /\ stamp' = Append(stamp, utc)
    BY TurnsStep DEF Turns
  <1>3. \A r \in DOMAIN stamp : r \in DOMAIN stamp' /\ stamp'[r] = stamp[r]
    BY <1>1, <1>2
  <1>4. \A s \in Starts : \A r \in Records(s) : r \in DOMAIN stamp
    BY OnDiskIsStamped DEF CInv
  <1>5. ASSUME NEW r \in ToSet(buf) PROVE r \in DOMAIN stamp
    <2>1. r <= Len(stamp) /\ r \in Record
      BY FilesHoldRecords, StartsAre DEF OInv, MemoryIsLater, CInv
    <2>2. r \in Nat /\ r >= 1
      BY <2>1, StoreAssumption DEF Record
    <2> QED BY <1>1, <2>1, <2>2
  <1> QED BY <1>1, <1>3, <1>4, <1>5

\* The numbers that the rows are made of.
LEMMA NumbersStep ==
  ASSUME CInv, OInv, RowTypes, Moves
  PROVE  job'.end \in Nat /\ job'.count \in Nat /\ last_utc' \in Nat
  <1> USE DEF files, process, past, Fails
  <1>0. /\ job.end \in Nat /\ job.count \in Nat /\ last_utc \in Nat /\ job.start \in Starts
        /\ job = [start |-> job.start, end |-> job.end, count |-> job.count, next |-> job.next]
    BY DEF RowTypes, CInv, Shape
  <1>1. ASSUME UNCHANGED <<job, last_utc>>
        PROVE  job'.end \in Nat /\ job'.count \in Nat /\ last_utc' \in Nat
    BY <1>0, <1>1
  <1>2. CASE \/ \E m \in {"run", "verify"} : Start(m)
             \/ Recovered \/ Retained \/ Rebuild \/ SealLog \/ IndexFails \/ RemoveFails
             \/ OpenFails \/ StopDead \/ Tick \/ SealGone \/ UNCHANGED vars
             \/ SealWriteFails \/ SealRemove \/ Crash
             \/ \E s \in Starts : RemoveExpired(s)
    <2>1. UNCHANGED <<job, last_utc>>
      BY <1>2 DEF Start, Recovered, Retained, Rebuild, SealLog, IndexFails, RemoveFails, OpenFails,
             StopDead, Tick, SealGone, vars, SealWriteFails, SealRemove, Crash, RemoveExpired
    <2> QED BY <1>1, <2>1
  <1>3. ASSUME NEW e \in Nat, NEW s, NEW n, UNCHANGED last_utc,
               job' = [start |-> s, end |-> e, count |-> 0, next |-> n]
        PROVE  job'.end \in Nat /\ job'.count \in Nat /\ last_utc' \in Nat
    BY <1>0, <1>3
  <1>4. ASSUME NEW s \in Starts, RecoverPart(s)
        PROVE  job'.end \in Nat /\ job'.count \in Nat /\ last_utc' \in Nat
    <2>1. last_utc' = last_utc
          /\ (job' = job \/ job' = [start |-> s, end |-> 0, count |-> 0, next |-> "recover"])
      BY <1>4 DEF RecoverPart
    <2> QED BY <1>1, <1>3, <2>1
  <1>5. ASSUME Stop \/ \E utc \in now - Jitter .. now : Rotate(utc)
        PROVE  job'.end \in Nat /\ job'.count \in Nat /\ last_utc' \in Nat
    <2>1. last_utc' = last_utc
          /\ \E n : job' = [start |-> active, end |-> last_utc, count |-> 0, next |-> n]
      BY <1>5 DEF Stop, Rotate, SealedEnd
    <2> QED BY <1>0, <1>3, <2>1
  <1>6. CASE SealWrite
    <2> PICK s \in Starts : s = job.start
      BY <1>0
    <2> PICK q : q = part[s].recs
      OBVIOUS
    <2> PICK e : e = LatestTime(s, q)
      OBVIOUS
    <2>1. q \in Seq(DOMAIN stamp) /\ stamp \in Seq(Starts)
      BY OnDiskIsStamped DEF CInv, Shape
    <2>2. e \in Nat /\ Len(q) \in Nat
      <3>1. e \in Starts
        BY <2>1, LatestTimeIs
      <3>2. Len(q) \in Nat
        BY <2>1
      <3> QED BY <3>1, <3>2, StartsAre
    <2>3. job' = [job EXCEPT !.end = IF @ = 0 THEN e ELSE @, !.count = Len(q)] /\ last_utc' = last_utc
      BY <1>6 DEF SealWrite
    <2> QED BY <1>0, <2>2, <2>3
  <1>7. CASE OpenSegment
    <2>1. /\ job' = job
          /\ last_utc' = IF hand = None THEN AlignedStart(OpenTime) ELSE stamp[hand]
      BY <1>7 DEF OpenSegment
    <2>2. AlignedStart(OpenTime) \in Nat
      BY <1>7, OpenedAt, StartsAre DEF OpenSegment
    <2>3. hand # None => stamp[hand] \in Nat
      <3>1. hand # None => stamp[hand] \in Starts
        BY DEF CInv, Shape
      <3> QED BY <3>1, StartsAre
    <2> QED BY <1>0, <2>1, <2>2, <2>3
  <1>8. ASSUME NEW utc \in now - Jitter .. now, NEW flush \in BOOLEAN, Sample(utc, flush)
        PROVE  job'.end \in Nat /\ job'.count \in Nat /\ last_utc' \in Nat
    <2>1. utc \in Nat
      BY SampleTime DEF CInv, Shape
    <2> QED BY <1>0, <1>8, <2>1 DEF Sample
  <1> QED BY <1>2, <1>4, <1>5, <1>6, <1>7, <1>8, NextKinds DEF Quiet

\* The rows after a step of the first process.
LEMMA RowsStep ==
  ASSUME CInv, OInv, TInv, Moves
  PROVE  /\ index' \in [exists : BOOLEAN, lines : Seq(Line)]
         /\ ~index'.exists => index'.lines = << >>
         /\ RowTimes(Rows(index'))
  <1>0. /\ index \in [exists : BOOLEAN, lines : Seq(Line)] /\ (~index.exists => index.lines = << >>)
        /\ RowTimes(Rows(index))
    BY DEF TInv, RowTypes
  <1>1. CASE index' = index
    BY <1>0, <1>1
  <1>2. CASE SealLog
    <2> PICK row \in Line : row = [start |-> job.start, end |-> job.end, count |-> job.count]
      BY DEF TInv, RowTypes, CInv, Shape, Line
    <2>1. index' = AppendRow(index, row) /\ row.start <= row.end + Jitter
      BY <1>2 DEF SealLog, TInv, JobTimes
    <2> PICK old \in Seq(Line) : old = Rows(index)
      BY AppendedTells DEF TInv
    <2> PICK new : new = Rows(index')
      OBVIOUS
    <2>2. new = Append(old, row) \/ new = << >>
      BY <2>1, AppendedTells DEF TInv
    <2>3. \A i \in DOMAIN new : (i \in DOMAIN old /\ new[i] = old[i]) \/ new[i] = row
      BY <2>2
    <2>4. RowTimes(new)
      BY <1>0, <2>1, <2>3 DEF RowTimes
    <2> QED BY <2>1, <2>4, AppendedTells DEF TInv
  <1>3. CASE Rebuild
    <2>1. index' = [exists |-> TRUE, lines |-> RebuiltLines]
      BY <1>3 DEF Rebuild, NewLines
    <2> QED BY <2>1, RebuiltSealed, SealedRowTimes
  <1>4. CASE CutsIndex
    BY <1>4, CutSealed, SealedRowTimes
  <1>5. CASE CutsHeader
    <2>1. index' \in [exists : BOOLEAN, lines : Seq(Line)] /\ index'.exists /\ Rows(index') = << >>
      BY <1>5 DEF CutsHeader, Rows
    <2> QED BY <2>1 DEF RowTimes
  <1> QED BY <1>1, <1>2, <1>3, <1>4, <1>5, TurnsStep DEF Turns

\* A .zst that can be read is there.
LEMMA ZstThereStep == ASSUME CInv, TInv, Moves PROVE ZstThere'
  <1>1. ASSUME NEW s \in Starts, zst'[s].ok PROVE zst'[s].exists
    <2>1. ZstStep(s)
      BY FilesChange DEF FilesStep
    <2> QED BY <1>1, <2>1 DEF ZstStep, TInv, ZstThere, Holding, Absent, Broken
  <1>2. ASSUME pc' = "run", zst'[active'].exists PROVE zst'[active'].ok
    <2>1. CASE OpenSegment
      <3>1. ~zst'[active'].exists
        BY <2>1, OpenedAt DEF OpenSegment
      <3> QED BY <1>2, <3>1
    <2>2. CASE pc = "run" /\ UNCHANGED <<zst, active>>
      BY <1>2, <2>2 DEF TInv, ZstThere
    <2> QED BY <1>2, <2>1, <2>2, TurnsStep DEF Turns
  <1> QED BY <1>1, <1>2 DEF ZstThere

\* No sample is from the future, and what retention goes through is past.
LEMMA PastStep == ASSUME LongRetention, CInv, OInv, TInv, Moves PROVE PastStamps' /\ TodoPast'
  <1>0. /\ now \in Nat /\ now' \in Nat /\ now <= now' /\ Jitter \in Nat /\ SegMs \in Nat
        /\ RetentionMs \in Nat /\ stamp \in Seq(Starts)
    BY TurnsStep, StoreAssumption DEF Turns, CInv, Shape
  <1>1. PastStamps'
    <2>1. \A r \in DOMAIN stamp : stamp'[r] <= now'
      <3>1. \A r \in DOMAIN stamp : stamp[r] \in Starts /\ stamp[r] <= now
        BY <1>0 DEF TInv, PastStamps
      <3>2. \A n \in Starts : n <= now => n <= now'
        BY <1>0, StartsAre
      <3> QED BY <3>1, <3>2, StampsStay
    <2>2. ASSUME NEW utc \in now - Jitter .. now, stamp' = Append(stamp, utc)
          PROVE  \A r \in DOMAIN stamp' : r \in DOMAIN stamp \/ stamp'[r] <= now'
      <3>1. utc \in Int /\ utc <= now'
        BY <1>0
      <3>2. \A r \in DOMAIN stamp' : r \in DOMAIN stamp \/ stamp'[r] = utc
        BY <1>0, <2>2
      <3> QED BY <3>1, <3>2
    <2> QED BY <2>1, <2>2, TurnsStep DEF Turns, PastStamps
  <1>2. ASSUME Recovered, pc' = "retain", NEW s \in todo' PROVE s + SegMs <= now'
    <2>1. s \in Expired /\ RetentionMs > 0 /\ now' = now
      BY <1>2 DEF Recovered
    <2> PICK R \in Seq(Line) : R = Rows(index)
      BY AppendedTells, RowsAreLines DEF TInv, RowTypes
    <2> PICK i \in DOMAIN R : R[i].start = s /\ R[i].end < now - RetentionMs
      BY <2>1 DEF Expired
    <2>2. R[i] \in Line
      OBVIOUS
    <2>3. R[i].end \in Nat /\ R[i].start \in Starts
      BY <2>2 DEF Line
    <2> PICK e \in Nat : e = R[i].end
      BY <2>3
    <2>4. s \in Nat /\ s <= e + Jitter
      BY <2>3, StartsAre DEF TInv, RowTimes
    <2>5. SegMs + Jitter <= RetentionMs
      BY <1>0, <2>1 DEF LongRetention
    <2> QED BY <1>0, <2>1, <2>4, <2>5
  <1>3. TodoPast'
    <2> SUFFICES ASSUME pc' = "retain", NEW s \in todo' PROVE s + SegMs <= now'
      BY DEF TodoPast
    <2>1. CASE pc = "retain" /\ todo' \subseteq todo
      <3>1. s + SegMs <= now /\ s \in Nat
        BY <2>1, StartsAre DEF TInv, TodoPast, CInv, Shape
      <3> QED BY <1>0, <3>1
    <2> QED BY <1>2, <2>1, TurnsStep DEF Turns
  <1> QED BY <1>1, <1>3

\* While a segment is written, its samples are out of order by no more than there is.
LEMMA RunTimesStep == ASSUME CInv, OInv, TInv, Moves PROVE RunTimes'
  <1> USE DEF files, process, past, Fails
  <1>0. /\ part \in [Starts -> File] /\ active \in Starts /\ stamp \in Seq(Starts) /\ now \in Nat
        /\ buf \in Seq(Record) /\ Jitter \in Nat /\ last_utc \in Nat /\ Len(stamp) \in Nat
    <2>1. now \in Nat
      BY TurnsStep DEF Turns
    <2>2. Len(stamp) \in Nat
      BY DEF CInv, Shape
    <2> QED BY <2>1, <2>2, StoreAssumption DEF CInv, Shape, TInv, RowTypes
  <1>1. pc' # "run" => RunTimes'
    BY DEF RunTimes
  <1>2. CASE UNCHANGED <<pc, part, active, last_utc, buf, stamp>>
    BY <1>2 DEF TInv, RunTimes
  <1>3. CASE OpenSegment
    <2> PICK start : start = AlignedStart(OpenTime)
      OBVIOUS
    <2> PICK e : e = last_utc'
      OBVIOUS
    <2>1. /\ UNCHANGED stamp /\ active' = start /\ part' = [part EXCEPT ![start] = Holding(<< >>)]
          /\ e = (IF hand = None THEN start ELSE stamp[hand]) /\ buf' = FirstRecs /\ pc = "open"
      BY <1>3 DEF OpenSegment
    <2>2. OpenTime \in Nat /\ start \in Starts /\ start <= OpenTime
      BY <2>1, OpenedAt
    <2>3. start \in Nat
      BY <2>2, StartsAre
    <2>4. e \in Nat /\ start <= e + Jitter
      BY <1>0, <2>1, <2>2, <2>3 DEF OpenTime
    <2>5. ToSet(part'[start].recs) = {}
      BY <1>0, <2>1, <2>2, NoRecords DEF Holding
    <2>6. \A r \in ToSet(buf') : stamp[r] <= e + Jitter
      <3>1. CASE hand = None
        BY <2>1, <3>1, NoRecords DEF FirstRecs
      <3>2. CASE hand # None
        <4>1. ToSet(buf') = {hand} /\ e = stamp[hand]
          BY <2>1, <3>2, FewAscend DEF FirstRecs
        <4> QED BY <1>0, <2>4, <4>1
      <3> QED BY <3>1, <3>2
    <2> QED BY <2>1, <2>4, <2>5, <2>6 DEF RunTimes
  <1>4. ASSUME NEW utc \in now - Jitter .. now, NEW flush \in BOOLEAN, Sample(utc, flush)
        PROVE  RunTimes'
    <2>1. utc \in Starts /\ utc \in Nat /\ utc <= now /\ now <= utc + Jitter
      BY SampleTime DEF CInv, Shape
    <2>2. /\ pc = "run" /\ active' = active /\ last_utc' = utc /\ stamp' = Append(stamp, utc)
      BY <1>4 DEF Sample
    <2> PICK n : n = Len(stamp) + 1
      OBVIOUS
    <2> PICK old : old = ToSet(part[active].recs) \cup ToSet(buf)
      OBVIOUS
    <2>3. ToSet(part'[active].recs) \cup ToSet(buf') \subseteq old \cup {n}
      <3>1. ToSet(Append(buf, n)) = ToSet(buf) \cup {n}
        BY <1>4, SampleAdds DEF CInv
      <3> PICK more \in Seq(Record) :
             /\ ToSet(more) \subseteq ToSet(buf) \cup {n}
             /\ part' = [part EXCEPT ![active].recs = @ \o more]
        BY <1>4, SampleAdds DEF CInv
      <3>2. zst' = zst
        BY <1>4 DEF Sample
      <3>3. ToSet(part'[active].recs) = ToSet(part[active].recs) \cup ToSet(more)
        BY <2>2, <3>2, Added DEF CInv
      <3>4. buf' = << >> \/ buf' = Append(buf, n)
        BY <1>4 DEF Sample
      <3> QED BY <3>1, <3>3, <3>4, NoRecords
    <2>4. \A r \in old : stamp'[r] = stamp[r] /\ stamp[r] \in Nat /\ r \in DOMAIN stamp
      <3>1. \A r \in old : r \in DOMAIN stamp
        <4>1. \A r \in ToSet(part[active].recs) : r \in DOMAIN stamp
          BY <1>0, OnDiskIsStamped DEF CInv, Records
        <4>2. ASSUME NEW r \in ToSet(buf) PROVE r \in DOMAIN stamp
          <5>1. r <= Len(stamp) /\ r \in Record
            BY <1>0, FilesHoldRecords DEF OInv, MemoryIsLater, CInv
          <5>2. r \in Nat /\ r >= 1
            BY <5>1, StoreAssumption DEF Record
          <5> QED BY <1>0, <5>1, <5>2
        <4> QED BY <4>1, <4>2
      <3>2. \A r \in DOMAIN stamp : stamp[r] \in Starts
        BY <1>0
      <3> QED BY <3>1, <3>2, StampsStay, StartsAre
    <2>5. ASSUME NEW r \in old \cup {n} PROVE stamp'[r] <= utc + Jitter
      <3>1. CASE r \in old
        <4> PICK a \in Nat : a = stamp[r]
          BY <2>4, <3>1
        <4>1. a <= now
          BY <2>4, <3>1 DEF TInv, PastStamps
        <4> QED BY <1>0, <2>1, <2>4, <3>1, <4>1
      <3>2. CASE r = n
        <4>1. stamp'[n] = utc
          BY <1>0, <2>1, <2>2
        <4> QED BY <1>0, <2>1, <3>2, <4>1
      <3> QED BY <3>1, <3>2
    <2>6. active <= utc + Jitter
      <3>1. Exists(active)
        BY <2>2 DEF Exists, CInv, Readable, Shape
      <3>2. active <= now /\ active \in Nat
        BY <1>0, <3>1, StartsAre DEF CInv, Times, Passed, PastBy
      <3> QED BY <1>0, <2>1, <3>2
    <2> QED BY <2>2, <2>3, <2>5, <2>6 DEF RunTimes
  <1>5. CASE Tick \/ UNCHANGED vars
    <2>1. UNCHANGED <<pc, part, active, last_utc, buf, stamp>>
      BY <1>5 DEF Tick, vars
    <2> QED BY <1>2, <2>1
  <1>6. CASE \/ \E m \in {"run", "verify"} : Start(m)
             \/ \E s \in Starts : RecoverPart(s) \/ RemoveExpired(s)
             \/ Recovered \/ Retained \/ Rebuild
    <2>1. pc' # "run"
      BY <1>6 DEF Start, RecoverPart, RemoveExpired, Recovered, Retained, Rebuild
    <2> QED BY <1>1, <2>1
  <1>7. CASE \/ SealLog \/ IndexFails \/ RemoveFails \/ OpenFails \/ StopDead \/ SealGone \/ Stop
             \/ SealWrite \/ SealWriteFails \/ SealRemove \/ Crash
             \/ \E utc \in now - Jitter .. now : Rotate(utc)
    <2>1. pc' # "run"
      BY <1>7 DEF SealLog, IndexFails, RemoveFails, OpenFails, StopDead, SealGone, SealWrite,
         SealWriteFails, SealRemove, Stop, Crash, Rotate, CInv, Shape
    <2> QED BY <1>1, <2>1
  <1> QED BY <1>3, <1>4, <1>5, <1>6, <1>7, NextKinds DEF Quiet

\* The end of the segment that is being sealed.
LEMMA JobTimesStep == ASSUME CInv, OInv, TInv, Moves PROVE JobTimes'
  <1>0. /\ job.start \in Starts /\ job'.start \in Starts /\ Jitter \in Nat
        /\ part \in [Starts -> File] /\ active \in Starts /\ buf \in Seq(Record)
        /\ last_utc \in Nat
    <2>1. CInv'
      BY NextCInv
    <2> QED BY <2>1, StoreAssumption DEF CInv, Shape, TInv, RowTypes
  <1>1. ASSUME pc' = "log" PROVE job'.start <= job'.end + Jitter
    <2>1. CASE pc = "log" /\ UNCHANGED <<part, zst, job>>
      BY <2>1 DEF TInv, JobTimes
    <2>2. CASE SealWrite
      <3> PICK s \in Starts : s = job.start
        BY <1>0
      <3> PICK e : e = LatestTime(s, part[s].recs)
        OBVIOUS
      <3>1. e \in Starts /\ s <= e
        BY OnDiskIsStamped, LatestTimeIs DEF CInv, Shape
      <3>2. job'.start = s /\ job'.end = IF job.end = 0 THEN e ELSE job.end
        BY <2>2 DEF SealWrite, CInv, Shape
      <3>3. s <= e + Jitter
        BY <1>0, <3>1, StartsAre
      <3> QED BY <2>2, <3>2, <3>3 DEF SealWrite, TInv, JobTimes
    <2> QED BY <1>1, <2>1, <2>2, TurnsStep DEF Turns
  <1>2. ASSUME pc' = "write", job'.end # 0
        PROVE  /\ job'.start <= job'.end + Jitter
               /\ \A r \in ToSet(part'[job'.start].recs) : stamp'[r] <= job'.end + Jitter
    <2>1. CASE pc = "write" /\ UNCHANGED <<part, zst, job>>
      <3>1. /\ job.start <= job.end + Jitter
            /\ \A r \in ToSet(part[job.start].recs) : stamp[r] <= job.end + Jitter
        BY <1>2, <2>1 DEF TInv, JobTimes
      <3> QED BY <1>0, <2>1, <3>1, StampsStay DEF Records
    <2>2. CASE Closes
      <3>1. ToSet(part'[active].recs) = ToSet(part[active].recs) \cup ToSet(buf)
        BY <1>0, <2>2, Added DEF Closes, Flush, CInv
      <3>2. active <= last_utc + Jitter
            /\ \A r \in ToSet(part[active].recs) \cup ToSet(buf) : stamp[r] <= last_utc + Jitter
        BY <2>2 DEF Closes, TInv, RunTimes
      <3>3. \A r \in ToSet(part[active].recs) \cup ToSet(buf) : stamp'[r] = stamp[r]
        BY <1>0, StampsStay DEF Records
      <3> QED BY <2>2, <3>1, <3>2, <3>3 DEF Closes
    <2>3. ASSUME NEW s \in Starts, RecoverPart(s) PROVE job'.end = 0
      BY <1>2, <2>3 DEF RecoverPart
    <2> QED BY <1>2, <2>1, <2>2, <2>3, TurnsStep DEF Turns
  <1> QED BY <1>1, <1>2 DEF JobTimes

\* Types and times after a step of the first process.
LEMMA FirstTInv ==
  ASSUME LongRetention, CInv, OInv, TInv, Moves, UNCHANGED visitor PROVE TInv'
  <1> USE DEF visitor
  <1>1. RowTypes' /\ RowTimes(Rows(index))'
    BY NumbersStep, RowsStep DEF TInv, RowTypes, RowTimes
  <1>2. VisitorLists' /\ RowTimes(Planned)'
    <2>1. DOMAIN stamp \subseteq DOMAIN stamp'
      BY StampsStay
    <2>2. \A q \in Seq(DOMAIN stamp) : q \in Seq(DOMAIN stamp')
      BY <2>1, SeqMonotonic
    <2> QED BY <2>2 DEF TInv, VisitorLists, RowTimes, Planned
  <1> QED BY <1>1, <1>2, ZstThereStep, ZstReadableStep, PastStep, RunTimesStep, JobTimesStep DEF TInv

\* The row that a verify writes of what it holds.
LEMMA HeldRow ==
  ASSUME CInv, VInv, TInv, VisitorLogs
  PROVE  \E row \in Line :
           /\ row.start = held.start /\ row.start <= row.end + Jitter
           /\ step = "log" /\ index' = AppendRow(index, row)
           /\ \A r \in ToSet(held.recs) : stamp[r] <= row.end + Jitter
  <1> PICK s \in Starts : s = held.start
    BY DEF VInv, VisitorShape
  <1> PICK q : q = held.recs
    OBVIOUS
  <1> PICK e : e = LatestTime(s, q)
    OBVIOUS
  <1> PICK n : n = Len(q)
    OBVIOUS
  <1>1. step = "log" /\ index' = AppendRow(index, [start |-> s, end |-> e, count |-> n])
    BY DEF VisitorLogs
  <1>2. q \in Seq(DOMAIN stamp) /\ stamp \in Seq(Starts)
    BY <1>1 DEF TInv, VisitorLists, CInv, Shape
  <1>3. e \in Starts /\ s <= e /\ \A r \in ToSet(q) : stamp[r] <= e
    BY <1>2, LatestTimeIs
  <1>4. e \in Nat /\ s \in Nat /\ Jitter \in Nat /\ n \in Nat
    BY <1>2, <1>3, StartsAre, StoreAssumption
  <1> PICK row \in Line : row = [start |-> s, end |-> e, count |-> n]
    BY <1>4 DEF Line
  <1>5. s <= e + Jitter
    BY <1>3, <1>4
  <1>6. \A r \in ToSet(q) : stamp[r] <= e + Jitter
    <2>1. \A r \in ToSet(q) : stamp[r] \in Starts
      BY <1>2 DEF ToSet
    <2>2. \A r \in ToSet(q) : stamp[r] \in Nat
      BY <2>1, StartsAre
    <2> QED BY <1>3, <1>4, <2>2
  <1> QED BY <1>1, <1>5, <1>6

\* What the second process does to the index, and what it plans to do.
VisitorTurns ==
  \/ UNCHANGED <<index, scanned>> /\ (Rewriting' => Rewriting)
  \/ VisitorLogs /\ scanned' = scanned
  \/ /\ VisitorScans /\ index' = index /\ scanned' = RebuiltLines
  \/ /\ VisitorCuts /\ index' = [exists |-> TRUE, lines |-> << >>] /\ scanned' = scanned
  \/ /\ VisitorRewrites /\ index' = [exists |-> TRUE, lines |-> scanned] /\ scanned' = << >>

\* Every step of the second process keeps to that.
LEMMA VisitorTurnsStep == ASSUME Second PROVE VisitorTurns
  <1> USE DEF files, VisitorTurns
  <1>1. CASE \/ \E command \in {"verify", "export"} : Visit(command)
             \/ \E s \in Starts : VisitorReads(s)
             \/ VisitorWrites \/ VisitorRemoves \/ VisitorLoads
    BY <1>1 DEF Visit, VisitorReads, VisitorWrites, VisitorRemoves, VisitorLoads, Rewriting
  <1>2. CASE VisitorLogs \/ VisitorScans \/ VisitorCuts \/ VisitorRewrites
    BY <1>2 DEF VisitorLogs, VisitorScans, VisitorCuts, VisitorRewrites, Rewritten
  <1> QED BY <1>1, <1>2 DEF Second

\* Types and times after a step of the second process.
LEMMA SecondTInv == ASSUME CInv, OInv, VInv, TInv, Second PROVE TInv'
  <1> USE DEF process, past
  <1>1. /\ UNCHANGED <<pc, job, stamp, buf, now, active, last_utc, todo, hand>>
        /\ part \in [Starts -> File] /\ zst \in [Starts -> File] /\ active \in Starts
    BY SecondKeeps DEF CInv, Shape
  <1>2. /\ index' \in [exists : BOOLEAN, lines : Seq(Line)] /\ scanned' \in Seq(Line)
        /\ ~index'.exists => index'.lines = << >>
        /\ RowTimes(Rows(index')) /\ RowTimes(Planned)'
    <2>0. /\ index \in [exists : BOOLEAN, lines : Seq(Line)] /\ scanned \in Seq(Line)
          /\ ~index.exists => index.lines = << >>
          /\ RowTimes(Rows(index)) /\ RowTimes(Planned)
      BY DEF TInv, RowTypes
    <2>1. << >> \in Seq(Line) /\ RowTimes(<< >>) /\ Rows([exists |-> TRUE, lines |-> << >>]) = << >>
      BY DEF RowTimes, Rows
    <2>2. scanned' = scanned => RowTimes(Planned)'
      BY <2>0 DEF RowTimes, Planned
    <2>3. scanned' = << >> => RowTimes(Planned)'
      <3>1. scanned' = << >> => Planned' = << >>
        BY <2>1 DEF Planned
      <3> QED BY <3>1 DEF RowTimes
    <2>4. CASE VisitorLogs /\ scanned' = scanned
      <3> PICK row \in Line : row.start <= row.end + Jitter /\ index' = AppendRow(index, row)
        BY <2>4, HeldRow
      <3> PICK old \in Seq(Line) : old = Rows(index)
        BY AppendedTells DEF TInv
      <3> PICK new : new = Rows(index')
        OBVIOUS
      <3>1. new = Append(old, row) \/ new = << >>
        BY AppendedTells DEF TInv
      <3>2. \A i \in DOMAIN new : (i \in DOMAIN old /\ new[i] = old[i]) \/ new[i] = row
        BY <3>1
      <3>3. RowTimes(new)
        BY <2>0, <3>2 DEF RowTimes
      <3>4. index' \in [exists : BOOLEAN, lines : Seq(Line)] /\ index'.exists
        BY AppendedTells DEF TInv
      <3> QED BY <2>0, <2>2, <2>4, <3>3, <3>4
    <2>5. CASE index' = index /\ scanned' = RebuiltLines
      <3>1. RowTimes(Tail(RebuiltLines)) /\ Planned' = Tail(RebuiltLines)
        BY <2>5, RebuiltSealed, SealedRowTimes DEF Planned
      <3>2. RowTimes(Planned)'
        BY <3>1 DEF RowTimes
      <3> QED BY <2>0, <2>5, <3>2, RebuiltSealed
    <2>6. CASE index' = [exists |-> TRUE, lines |-> << >>] /\ scanned' = scanned
      BY <2>0, <2>1, <2>2, <2>6
    <2>7. CASE index' = [exists |-> TRUE, lines |-> scanned] /\ scanned' = << >>
      <3>1. Rows(index') = Planned
        BY <2>7 DEF Planned
      <3> QED BY <2>0, <2>1, <2>3, <2>7, <3>1
    <2> QED BY <2>0, <2>2, <2>4, <2>5, <2>6, <2>7, VisitorTurnsStep DEF VisitorTurns
  <1>3. RowTypes'
    BY <1>1, <1>2 DEF RowTypes, TInv
  <1>4. ZstThere' /\ ZstReadable'
    BY <1>1, SecondFiles DEF TInv, ZstThere, ZstReadable, Holding
  <1>5. VisitorLists'
    <2>0. to_seal \subseteq Starts
      BY DEF VInv, VisitorShape
    <2>1. ASSUME NEW command \in {"verify", "export"}, Visit(command) PROVE VisitorLists'
      BY <2>1 DEF Visit, VisitorLists
    <2>2. ASSUME NEW s \in Starts, VisitorReads(s) PROVE VisitorLists'
      <3>1. part[s].recs \in Seq(DOMAIN stamp)
        BY OnDiskIsStamped DEF CInv
      <3> QED BY <1>1, <2>2, <3>1 DEF VisitorReads, VisitorLists
    <2>3. CASE VisitorWrites \/ VisitorLogs \/ VisitorRemoves \/ VisitorLoads
      BY <1>1, <2>3 DEF VisitorWrites, VisitorLogs, VisitorRemoves, VisitorLoads, VisitorLists, TInv
    <2>4. CASE VisitorScans \/ VisitorCuts \/ VisitorRewrites
      BY <2>4 DEF VisitorScans, VisitorCuts, VisitorRewrites, VisitorLists
    <2> QED BY <2>1, <2>2, <2>3, <2>4 DEF Second
  <1>6. JobTimes' /\ RunTimes'
    <2>1. \A s \in Starts : ToSet(part'[s].recs) \subseteq ToSet(part[s].recs)
      BY SecondFiles, NoRecords DEF Absent
    <2>2. job.start \in Starts
      BY DEF CInv, Shape
    <2> QED BY <1>1, <2>1, <2>2 DEF TInv, JobTimes, RunTimes
  <1>7. PastStamps' /\ TodoPast'
    BY <1>1 DEF TInv, PastStamps, TodoPast
  <1> QED BY <1>2, <1>3, <1>4, <1>5, <1>6, <1>7 DEF TInv

-----------------------------------------------------------------------------
(* The rows beside a second process: a step of the first one, if neither the      *)
(* writing of a .zst nor that of the index has failed.                            *)

FirstMoves == Moves /\ UNCHANGED visitor /\ exposed \subseteq exposed' /\ AtRisk \subseteq exposed'

\* The segment that is written gets records that are not at risk.
TakesNew(s) == pc = "run" /\ s = active /\ s \notin listed /\ part[s].ok /\ part'[s].ok

\* A segment is opened where nothing is, and nobody will write anything.
LEMMA OpensFresh ==
  ASSUME BInv, TInv, SealInv, pc = "open", NEW s, s = AlignedStart(OpenTime)
  PROVE  /\ s \in Starts /\ ~part[s].ok /\ ~zst[s].ok /\ ~zst[s].exists
         /\ Owed(s) = {} /\ ~(step = "write" /\ s = held.start) /\ ~(Rewriting /\ Has(Planned, s))
  <1>1. /\ OpenTime \in Nat /\ s \in Starts /\ s <= OpenTime /\ OpenTime < s + SegMs
        /\ ~zst[s].exists
    BY OpenedAt DEF BInv
  <1>2. ~Settled(s)
    <2>1. Late(s) => s + SegMs <= OpenTime
      BY DEF Late, Past, PastBy, ToOpen
    <2>2. s + SegMs \in Nat
      BY <1>1, StartsAre, StoreAssumption
    <2> QED BY <1>1, <2>1, <2>2 DEF Settled
  <1>3. ~InCare(s)
    BY DEF InCare, Sealing
  <1>4. ~part[s].ok
    BY <1>1, <1>2, <1>3 DEF SealInv, PartNamed
  <1>5. ~(step = "write" /\ s = held.start) /\ ~(Rewriting /\ Has(Planned, s))
    BY <1>1, <1>2, <1>4 DEF SealInv, Named
  <1>6. ~zst[s].ok /\ part[s].recs = << >> /\ zst[s].recs = << >>
    BY <1>1, <1>4 DEF TInv, ZstThere, BInv, CInv, Readable
  <1>7. Owed(s) = {}
    BY <1>5, <1>6, NoRecords DEF Owed, Records, InHeld
  <1> QED BY <1>1, <1>4, <1>5, <1>6, <1>7

\* What is to be reached has been stamped.
LEMMA OwedStamped ==
  ASSUME BInv, TInv, NEW s \in Starts
  PROVE  /\ \A r \in Owed(s) : r \in DOMAIN stamp /\ stamp[r] \in Nat
         /\ Moves => \A r \in Owed(s) : stamp'[r] = stamp[r]
  <1>1. Records(s) \subseteq DOMAIN stamp
    BY OnDiskIsStamped DEF BInv, CInv
  <1>2. InHeld(s) \subseteq DOMAIN stamp
    BY DEF InHeld, TInv, VisitorLists, ToSet
  <1>3. \A r \in DOMAIN stamp : stamp[r] \in Nat
    <2>1. \A r \in DOMAIN stamp : stamp[r] \in Starts
      BY DEF BInv, CInv, Shape
    <2> QED BY <2>1, StartsAre
  <1> QED BY <1>1, <1>2, <1>3, StampsStay DEF Owed, BInv

\* Rows go on to reach as far as they have to.
LEMMA ToldStays ==
  ASSUME NEW s, NEW R, Told(R, s), Owed(s)' \subseteq Owed(s),
         \A r \in Owed(s) : stamp'[r] = stamp[r]
  PROVE  Told(R, s)'
  <1> SUFFICES ASSUME Has(R, s)', NEW r \in Owed(s)'
               PROVE  \E j \in DOMAIN R : R[j].start = s /\ stamp'[r] <= R[j].end + Jitter
    BY DEF Told
  <1>1. Has(R, s)
    BY DEF Has
  <1> QED BY <1>1 DEF Told

\* Only the segment that is written gets records, and those it gets after a verify has found
\* its part are at risk.
LEMMA OwedStep ==
  ASSUME BInv, TInv, FirstMoves, NEW s \in Starts
  PROVE  TakesNew(s) \/ (ToSet(part'[s].recs) \ exposed' \subseteq ToSet(part[s].recs)
                         /\ Owed(s)' \subseteq Owed(s))
  <1>1. PartStep(s) /\ ZstStep(s)
    BY FilesChange DEF BInv, FirstMoves, FilesStep
  <1>2. pc = "run" /\ s = active => part[s].ok
    BY DEF BInv, CInv, Readable
  <1>3. ASSUME ~TakesNew(s) PROVE ToSet(part'[s].recs) \ exposed' \subseteq ToSet(part[s].recs)
    <2>1. CASE s \in listed
      <3>1. ToSet(part'[s].recs) \ ToSet(part[s].recs) \subseteq AtRisk
        BY <2>1 DEF AtRisk, Raced
      <3> QED BY <3>1 DEF FirstMoves
    <2>2. CASE s \notin listed
      BY <1>1, <1>2, <1>3, <2>2, NoRecords DEF PartStep, TakesNew, Absent, Broken, Holding
    <2> QED BY <2>1, <2>2
  <1>4. ToSet(zst'[s].recs) \subseteq Records(s)
    BY <1>1, NoRecords DEF ZstStep, Records, Absent, Broken, Holding
  <1>5. InHeld(s)' = InHeld(s) /\ exposed \subseteq exposed'
    BY DEF FirstMoves, visitor, InHeld
  <1>6. ToSet(part'[s].recs) \ exposed' \subseteq ToSet(part[s].recs) => Owed(s)' \subseteq Owed(s)
    BY <1>4, <1>5 DEF Owed, Records
  <1> QED BY <1>3, <1>6

\* Nothing becomes stale but the segment that is written.
LEMMA StaleStep ==
  ASSUME BInv, TInv, FirstMoves, NEW s \in Starts, Stale(s)'
  PROVE  part[s].ok /\ (Stale(s) \/ (TakesNew(s) /\ zst[s].ok))
  <1>1. ZstStep(s)
    BY FilesChange DEF BInv, FirstMoves, FilesStep
  <1>2. zst'[s] = zst[s]
    BY <1>1 DEF ZstStep, Stale, Holding, Broken, Absent
  <1>3. CASE TakesNew(s)
    BY <1>2, <1>3 DEF Stale, TakesNew
  <1>4. CASE ~TakesNew(s)
    <2>1. ToSet(part'[s].recs) \ exposed' \subseteq ToSet(part[s].recs) /\ exposed \subseteq exposed'
      BY <1>4, OwedStep DEF FirstMoves
    <2>2. Stale(s)
      BY <1>2, <2>1 DEF Stale
    <2>3. part[s].ok
      BY <2>2, NoRecords DEF Stale, BInv, CInv, Readable
    <2> QED BY <2>2, <2>3
  <1> QED BY <1>3, <1>4

\* A name that is settled stays so.
LEMMA SettledStays ==
  ASSUME BInv, TInv, FirstMoves, NEW s \in Starts, Settled(s) PROVE Settled(s)'
  <1>0. CInv /\ Moves /\ ZstStep(s)
    BY FilesChange DEF BInv, FirstMoves, FilesStep
  <1>1. s + SegMs \in Nat /\ now \in Nat
    BY <1>0, StartsAre, StoreAssumption DEF CInv, Shape
  <1>2. ASSUME Late(s) PROVE Late(s)'
    <2>1. \A x \in Nat : PastBy(x, x) => PastBy(x, x)'
      BY <1>0, PastStays
    <2>2. PastBy(s + SegMs, s + SegMs)'
      BY <1>1, <1>2, <2>1 DEF Late, Past
    <2> QED BY <2>2 DEF Late, Past
  <1>3. ASSUME zst[s].exists, ~zst'[s].exists PROVE Late(s)
    <2>1. pc = "retain" /\ s \in todo
      BY <1>0, <1>3 DEF ZstStep, Holding, Broken
    <2>2. s + SegMs <= now
      BY <2>1 DEF TInv, TodoPast
    <2>3. hand = None
      BY <2>1 DEF BInv, CInv, Times, Sealing
    <2> QED BY <2>1, <2>2, <2>3 DEF Late, Past, PastBy, OpenTime
  <1> QED BY <1>2, <1>3 DEF Settled

\* A part is sealed whole before its row is written and it is removed.
LEMMA JobSealedStep ==
  ASSUME BInv, TInv, SealInv, FirstMoves, Intact' PROVE JobSealed'
  <1>0. CInv /\ Moves /\ exposed \subseteq exposed'
    BY DEF BInv, FirstMoves
  <1>1. CASE UNCHANGED <<part, zst>> /\ job'.start = job.start /\ pc \in {"log", "remove"}
    BY <1>0, <1>1 DEF SealInv, JobSealed
  <1>2. CASE SealWrite
    <2>1. /\ job'.start = job.start /\ part' = part /\ job.start \in Starts
          /\ zst' = [zst EXCEPT ![job.start] = Holding(part[job.start].recs)]
      BY <1>0, <1>2 DEF SealWrite, OutFile, CInv, Shape
    <2>2. zst'[job.start] = Holding(part[job.start].recs)
      BY <1>0, <2>1 DEF CInv, Shape
    <2> QED BY <2>1, <2>2 DEF JobSealed, Holding
  <1>3. SealLog => UNCHANGED <<part, zst>> /\ job'.start = job.start /\ pc = "log"
    BY DEF SealLog, process
  <1>4. "index" \notin failed'
    BY DEF Intact
  <1>5. pc' \in {"log", "remove"} => SealWrite \/ (UNCHANGED <<part, zst>> /\ job'.start = job.start
                                                   /\ pc \in {"log", "remove"})
    BY <1>0, <1>3, <1>4, TurnsStep DEF Turns
  <1> QED BY <1>1, <1>2, <1>5 DEF JobSealed

\* The row of the first process reaches as far as it has to.
LEMMA JobToldStep ==
  ASSUME BInv, TInv, SealInv, FirstMoves PROVE JobTold'
  <1>0. /\ CInv /\ Moves /\ job.start \in Starts /\ job'.start \in Starts
        /\ Jitter \in Nat /\ part \in [Starts -> File]
    BY NextCInv, StoreAssumption DEF BInv, FirstMoves, CInv, Shape
  <1> PICK s \in Starts : s = job.start
    BY <1>0
  <1> PICK owed : owed = Owed(s)
    OBVIOUS
  <1>1. CASE pc = "log" /\ UNCHANGED <<part, zst, job>>
    <2>1. Owed(s)' \subseteq Owed(s)
      BY <1>1, OwedStep DEF TakesNew
    <2>2. \A r \in Owed(s) : stamp'[r] = stamp[r]
      BY <1>0, OwedStamped
    <2>3. Owed(job.start)' = Owed(s)'
      BY <1>1 DEF Owed, Records, InHeld
    <2> QED BY <1>1, <2>1, <2>2, <2>3 DEF SealInv, JobTold
  <1>2. CASE SealWrite
    <2> PICK q : q = part[s].recs
      OBVIOUS
    <2> PICK e : e = LatestTime(s, q)
      OBVIOUS
    <2>1. /\ pc = "write" /\ part' = part /\ zst'[s] = Holding(q) /\ part[s].ok /\ stamp' = stamp
          /\ job'.start = s /\ job'.end = IF job.end = 0 THEN e ELSE job.end
      BY <1>0, <1>2 DEF SealWrite, OutFile, CInv, Shape, past
    <2>2. Owed(job.start)' \subseteq ToSet(q)
      <3>1. InHeld(s) \subseteq ToSet(q)
        BY <2>1 DEF InHeld, SealInv, HeldWhole
      <3>2. InHeld(s)' = InHeld(s)
        BY DEF FirstMoves, visitor, InHeld
      <3>3. Owed(s)' \subseteq ToSet(q)
        BY <2>1, <3>1, <3>2 DEF Owed, Records, Holding
      <3>4. Owed(job.start)' = Owed(s)'
        BY <2>1 DEF Owed, Records, InHeld
      <3> QED BY <3>3, <3>4
    <2>3. CASE job.end # 0
      BY <2>1, <2>2, <2>3 DEF TInv, JobTimes, JobTold
    <2>4. CASE job.end = 0
      <3>1. e \in Starts /\ \A r \in ToSet(q) : stamp[r] <= e
        BY <1>0, OnDiskIsStamped, LatestTimeIs DEF BInv, CInv, Shape
      <3>2. e \in Nat /\ \A r \in ToSet(q) : stamp[r] \in Nat
        BY <1>0, <3>1, StartsAre, StampsAre DEF BInv, CInv, Records
      <3>3. \A r \in ToSet(q) : stamp[r] <= e + Jitter
        BY <1>0, <3>1, <3>2
      <3> QED BY <2>1, <2>2, <2>4, <3>3 DEF JobTold
    <2> QED BY <2>3, <2>4
  <1> QED BY <1>0, <1>1, <1>2, TurnsStep DEF Turns, JobTold

\* What is stale, or has a name that is not settled, has somebody who will come to it.
LEMMA InCareStays ==
  ASSUME BInv, TInv, SealInv, FirstMoves, Intact'
  PROVE  StaleInCare' /\ PartNamed'
  <1>0. CInv /\ Moves /\ "zst" \notin failed' /\ JobSealed'
    BY JobSealedStep DEF BInv, FirstMoves, Intact
  <1>1. ASSUME NEW s \in Starts, Stale(s)' PROVE InCare(s)'
    <2>1. part[s].ok /\ (Stale(s) \/ (TakesNew(s) /\ zst[s].ok))
      BY <1>1, StaleStep
    <2>2. InCare(s) /\ ~(pc \in {"log", "remove"} /\ s = job.start)
      <3>1. CASE Stale(s)
        BY <3>1 DEF SealInv, StaleInCare, JobSealed, Stale
      <3>2. CASE TakesNew(s)
        BY <3>2 DEF TakesNew, InCare
      <3> QED BY <2>1, <3>1, <3>2
    <2>3. ~(pc' = "log" /\ s = job'.start)
      BY <1>0, <1>1 DEF JobSealed, Stale
    <2> QED BY <1>0, <2>1, <2>2, <2>3, InCareStep
  <1>2. ASSUME NEW s \in Starts, part'[s].ok
        PROVE  (InCare(s) /\ ~(pc \in {"log", "remove"} /\ s = job.start))' \/ Settled(s)'
    <2>1. CASE part[s].ok /\ InCare(s) /\ ~(pc \in {"log", "remove"} /\ s = job.start)
      <3>1. zst'[s] = Holding(part[s].recs) => Settled(s)'
        BY DEF Holding, Settled
      <3> QED BY <1>0, <2>1, <3>1, InCareStep
    <2>2. CASE Settled(s)
      BY <2>2, SettledStays
    <2>3. CASE ~part[s].ok
      <3>1. PartStep(s)
        BY <1>0, FilesChange DEF FilesStep
      <3>2. /\ pc = "open" /\ s = AlignedStart(OpenTime)
            /\ pc' = "down" \/ pc' = "run"
        BY <1>0, <1>2, <2>3, <3>1 DEF PartStep, Absent, CInv, Readable
      <3>3. pc' = "run" => active' = s
        BY <1>0, <3>2, TurnsStep DEF Turns, OpenSegment
      <3> QED BY <3>2, <3>3 DEF InCare
    <2> QED BY <2>1, <2>2, <2>3 DEF SealInv, PartNamed
  <1> QED BY <1>1, <1>2 DEF StaleInCare, PartNamed

\* What becomes of the part of a segment that the second process will write.
LEMMA PartOfHeld ==
  ASSUME BInv, TInv, SealInv, FirstMoves, NEW s \in Starts,
         (step = "write" /\ s = held.start) \/ (Rewriting /\ Has(Planned, s))
  PROVE  \/ part'[s] = part[s]
         \/ /\ pc = "remove" /\ s = job.start /\ part'[s] = Absent /\ zst[s].ok /\ zst'[s] = zst[s]
            /\ ToSet(part[s].recs) \ exposed \subseteq ToSet(zst[s].recs)
         \/ part[s].ok /\ part'[s].ok /\ ToSet(part[s].recs) \subseteq ToSet(part'[s].recs)
            /\ zst'[s] = zst[s]
  <1>1. PartStep(s) /\ ZstStep(s)
    BY FilesChange DEF BInv, FirstMoves, FilesStep
  <1>2. ~(pc = "open" /\ s = AlignedStart(OpenTime))
    BY OpensFresh
  <1>3. pc \in {"remove", "run"} => zst'[s] = zst[s]
    BY <1>1 DEF ZstStep
  <1> QED BY <1>1, <1>2, <1>3 DEF PartStep, SealInv, JobSealed, BInv, CInv, Readable

\* What the second process holds is all there is, but for what is at risk.
LEMMA HeldStep ==
  ASSUME BInv, TInv, SealInv, FirstMoves PROVE HeldWhole' /\ HeldTold' /\ Named'
  <1> PICK h \in Starts : h = held.start
    BY DEF BInv, VInv, VisitorShape
  <1>0. UNCHANGED <<step, held>> /\ exposed \subseteq exposed'
    BY DEF FirstMoves, visitor
  <1>1. step \in {"write", "log"} => ~TakesNew(h)
    BY DEF BInv, VInv, HeldThere, TakesNew
  <1>2. ASSUME step = "write"
        PROVE  /\ part'[h].ok => ToSet(held.recs) \subseteq ToSet(part'[h].recs)
               /\ ToSet(part'[h].recs) \ exposed' \subseteq ToSet(held.recs)
               /\ ~part'[h].ok /\ zst'[h].ok => ToSet(held.recs) \ exposed' \subseteq ToSet(zst'[h].recs)
    <2>1. /\ part[h].ok => ToSet(held.recs) \subseteq ToSet(part[h].recs)
          /\ ToSet(part[h].recs) \ exposed \subseteq ToSet(held.recs)
          /\ ~part[h].ok /\ zst[h].ok => ToSet(held.recs) \ exposed \subseteq ToSet(zst[h].recs)
      BY <1>2 DEF SealInv, HeldWhole
    <2>2. \/ part'[h] = part[h]
          \/ /\ part'[h] = Absent /\ zst[h].ok /\ zst'[h] = zst[h]
             /\ ToSet(part[h].recs) \ exposed \subseteq ToSet(zst[h].recs)
          \/ part[h].ok /\ part'[h].ok /\ ToSet(part[h].recs) \subseteq ToSet(part'[h].recs)
      BY <1>2, PartOfHeld
    <2>3. ToSet(part'[h].recs) \ exposed' \subseteq ToSet(part[h].recs)
      BY <1>1, <1>2, OwedStep
    <2>4. zst'[h] = zst[h] \/ part[h].ok \/ ~zst'[h].ok
      <3>1. ZstStep(h)
        BY FilesChange DEF BInv, FirstMoves, FilesStep
      <3> QED BY <3>1 DEF ZstStep, Broken, Absent
    <2>5. part'[h].ok => ToSet(held.recs) \subseteq ToSet(part'[h].recs)
      BY <2>1, <2>2 DEF Absent
    <2>6. ToSet(part'[h].recs) \ exposed' \subseteq ToSet(held.recs)
      BY <1>0, <2>1, <2>3
    <2>7. ASSUME ~part'[h].ok, zst'[h].ok PROVE ToSet(held.recs) \ exposed' \subseteq ToSet(zst'[h].recs)
      BY <1>0, <2>1, <2>2, <2>4, <2>7
    <2> QED BY <2>5, <2>6, <2>7
  <1>3. ASSUME step = "log" PROVE Records(h)' \ exposed' \subseteq ToSet(held.recs)
    <2>1. Owed(h)' \subseteq Owed(h)
      BY <1>1, <1>3, OwedStep
    <2>2. InHeld(h) = {} /\ InHeld(h)' = {}
      BY <1>0, <1>3 DEF InHeld
    <2> QED BY <1>3, <2>1, <2>2 DEF Owed, SealInv, HeldTold
  <1>4. Named'
    <2>1. Planned' = Planned /\ (Rewriting' <=> Rewriting)
      BY DEF FirstMoves, visitor, Planned, Rewriting
    <2> SUFFICES ASSUME NEW s \in Starts,
                        (step = "write" /\ s = h) \/ (Rewriting /\ Has(Planned, s))
                 PROVE  part'[s].ok \/ Settled(s)'
      BY <1>0, <2>1 DEF Named, Has
    <2>2. part[s].ok \/ Settled(s)
      BY DEF SealInv, Named
    <2>3. zst[s].ok => Settled(s)
      BY DEF TInv, ZstThere, Settled
    <2> QED BY <2>2, <2>3, SettledStays, PartOfHeld
  <1> QED BY <1>0, <1>2, <1>3, <1>4 DEF HeldWhole, HeldTold

\* A step of the first process keeps the whole of it.
LEMMA FirstSealInv ==
  ASSUME BInv, TInv, SealInv, FirstMoves, Intact' PROVE SealInv'
  BY JobSealedStep, JobToldStep, InCareStays, HeldStep DEF SealInv

\* What is listed by whom, after a step of the first process.
LEMMA FirstListed ==
  ASSUME BInv, TInv, SealInv, RowInv, FirstMoves
  PROVE  StaleListed' /\ ActiveNew' /\ PlannedTold'
  <1>0. /\ UNCHANGED <<step, held, listed, to_seal>> /\ Planned' = Planned
        /\ (Rewriting' <=> Rewriting) /\ (Verifying' <=> Verifying) /\ CInv /\ Moves
    BY DEF FirstMoves, visitor, Planned, Rewriting, Verifying, BInv
  <1>1. ASSUME NEW s \in Starts, TakesNew(s), Verifying \/ Rewriting
        PROVE  ~zst[s].exists /\ (Rewriting => ~Has(Planned, s))
    BY <1>1 DEF RowInv, ActiveNew, TakesNew
  <1>2. ASSUME Verifying, NEW s \in Starts, Stale(s)'
        PROVE  s \in to_seal \/ (step = "write" /\ s = held.start)
    <2>1. Stale(s) \/ (TakesNew(s) /\ zst[s].ok)
      BY <1>2, StaleStep
    <2>2. ~(TakesNew(s) /\ zst[s].ok)
      BY <1>1, <1>2 DEF TInv, ZstThere
    <2> QED BY <1>2, <2>1, <2>2 DEF RowInv, StaleListed
  <1>3. ActiveNew'
    <2> SUFFICES ASSUME Verifying \/ Rewriting, pc' = "run", active' \notin listed
                 PROVE  ~zst'[active'].exists /\ (Rewriting => ~Has(Planned, active'))
      BY <1>0 DEF ActiveNew, Has
    <2>1. CASE OpenSegment
      <3>1. pc = "open" /\ active' = AlignedStart(OpenTime) /\ zst' = zst
        BY <2>1 DEF OpenSegment
      <3> PICK s : s = AlignedStart(OpenTime)
        OBVIOUS
      <3>2. ~zst[s].exists /\ ~(Rewriting /\ Has(Planned, s))
        BY <3>1, OpensFresh
      <3> QED BY <3>1, <3>2
    <2>2. CASE pc = "run" /\ UNCHANGED <<zst, active>>
      BY <2>2 DEF RowInv, ActiveNew
    <2> QED BY <1>0, <2>1, <2>2, TurnsStep DEF Turns
  <1>4. ASSUME Rewriting, NEW s \in Starts PROVE Told(Planned, s)'
    <2> PICK R : R = Planned
      OBVIOUS
    <2>1. Told(R, s)
      BY <1>4 DEF RowInv, PlannedTold
    <2>2. CASE TakesNew(s)
      <3>1. ~Has(R, s)
        BY <1>1, <1>4, <2>2
      <3>2. Told(R, s)'
        BY <3>1 DEF Told, Has
      <3> QED BY <1>0, <3>2 DEF Told, Has
    <2>3. CASE Owed(s)' \subseteq Owed(s)
      <3>1. \A r \in Owed(s) : stamp'[r] = stamp[r]
        BY <1>0, OwedStamped
      <3>2. Told(R, s)'
        BY <2>1, <2>3, <3>1, ToldStays
      <3> QED BY <1>0, <3>2 DEF Told, Has
    <2> QED BY <2>2, <2>3, OwedStep
  <1> QED BY <1>0, <1>2, <1>3, <1>4 DEF StaleListed, PlannedTold

\* A row that is appended is there, and the others stay.
LEMMA AppendedHas ==
  ASSUME NEW old \in Seq(Line), NEW row \in Line, NEW new,
         new = Append(old, row) \/ (new = << >> /\ old = << >>)
  PROVE  /\ \A s : Has(old, s) => Has(new, s)
         /\ \A s : s # row.start => (Has(new, s) => Has(old, s))
         /\ Has(new, row.start) => \E j \in DOMAIN new : new[j] = row
         /\ \A i \in DOMAIN old : i \in DOMAIN new /\ new[i] = old[i]
  <1>1. \A i \in DOMAIN old : i \in DOMAIN new /\ new[i] = old[i]
    OBVIOUS
  <1>2. \A i \in DOMAIN new : (i \in DOMAIN old /\ new[i] = old[i]) \/ new[i] = row
    OBVIOUS
  <1>3. CASE new = Append(old, row)
    <2>1. Len(old) + 1 \in DOMAIN new /\ new[Len(old) + 1] = row
      BY <1>3
    <2> QED BY <1>1, <1>2, <2>1 DEF Has
  <1>4. CASE new = << >> /\ old = << >>
    BY <1>4 DEF Has
  <1> QED BY <1>3, <1>4

\* With such a row, the rows reach as far as they have to.
LEMMA AppendedTold ==
  ASSUME NEW old \in Seq(Line), NEW row \in Line, NEW new,
         new = Append(old, row) \/ (new = << >> /\ old = << >>)
  PROVE  /\ \A s : s # row.start /\ Told(old, s) => Told(new, s)
         /\ (\A r \in Owed(row.start) : stamp[r] <= row.end + Jitter) => Told(new, row.start)
  <1>1. /\ \A s : s # row.start => (Has(new, s) => Has(old, s))
        /\ Has(new, row.start) => \E j \in DOMAIN new : new[j] = row
        /\ \A i \in DOMAIN old : i \in DOMAIN new /\ new[i] = old[i]
    BY AppendedHas
  <1>2. ASSUME NEW s, s # row.start, Told(old, s) PROVE Told(new, s)
    BY <1>1, <1>2 DEF Told
  <1>3. ASSUME \A r \in Owed(row.start) : stamp[r] <= row.end + Jitter PROVE Told(new, row.start)
    BY <1>1, <1>3 DEF Told
  <1> QED BY <1>2, <1>3

\* What is stale, or will be, goes on to have a row.
LEMMA FirstDue ==
  ASSUME BInv, TInv, SealInv, RowInv, FirstMoves PROVE DueHasRow'
  <1>0. /\ UNCHANGED step /\ Planned' = Planned /\ (Rewriting' <=> Rewriting) /\ CInv /\ OInv /\ Moves
    BY DEF FirstMoves, visitor, Planned, Rewriting, BInv
  <1>1. ASSUME NEW s \in Starts, Due(s)' PROVE Due(s)
    <2>1. CASE Stale(s)'
      <3>1. zst[s].ok => zst[s].exists
        BY DEF TInv, ZstThere
      <3> QED BY <2>1, <3>1, StaleStep DEF TakesNew, Due
    <2>2. CASE pc' = "run" /\ s = active' /\ zst'[s].exists
      <3>1. ~OpenSegment
        <4> SUFFICES ASSUME OpenSegment PROVE FALSE
          OBVIOUS
        <4>1. pc = "open" /\ s = AlignedStart(OpenTime) /\ zst' = zst
          BY <2>2 DEF OpenSegment
        <4> QED BY <2>2, <4>1, OpensFresh
      <3> QED BY <1>0, <2>2, <3>1, TurnsStep DEF Turns, Due
    <2> QED BY <1>1, <2>1, <2>2 DEF Due
  <1>2. ASSUME Rewriting, NEW s \in Starts, Due(s)' PROVE Has(Planned, s)'
    <2>1. Has(Planned, s)
      BY <1>1, <1>2 DEF RowInv, DueHasRow
    <2> QED BY <1>0, <2>1 DEF Has
  <1>3. ASSUME step \in {"idle", "load"}, NEW s \in Starts, Due(s)' PROVE Has(Rows(index'), s)
    <2>1. Has(Rows(index), s) /\ Due(s)
      BY <1>1, <1>3 DEF RowInv, DueHasRow
    <2>2. CASE index' = index
      BY <2>1, <2>2
    <2>3. CASE SealLog
      <3> PICK row \in Line : row = [start |-> job.start, end |-> job.end, count |-> job.count]
        BY <1>0 DEF TInv, RowTypes, CInv, Shape, Line
      <3>1. index' = AppendRow(index, row)
        BY <2>3 DEF SealLog
      <3> PICK old \in Seq(Line) : old = Rows(index)
        BY AppendedTells DEF TInv
      <3> PICK new : new = Rows(index')
        OBVIOUS
      <3>2. new = Append(old, row) \/ (new = << >> /\ old = << >>)
        BY <3>1, AppendedTells DEF TInv
      <3>3. Has(new, s)
        BY <2>1, <3>2, AppendedHas
      <3> QED BY <3>3
    <2>4. CASE Rebuild
      <3>1. /\ zst' = zst /\ pc' # "run"
            /\ index' = [exists |-> TRUE, lines |-> RebuiltLines]
        BY <2>4 DEF Rebuild, NewLines
      <3>2. zst[s].ok
        BY <1>3, <3>1 DEF Due, Stale
      <3> QED BY <1>0, <3>1, <3>2, RebuiltSealed
    <2>5. ~CutsIndex
      <3> SUFFICES ASSUME CutsIndex PROVE FALSE
        OBVIOUS
      <3>1. pc = "rebuild"
        BY DEF CutsIndex
      <3>2. Stale(s)
        BY <2>1, <3>1 DEF Due
      <3>3. InCare(s)
        BY <3>2 DEF SealInv, StaleInCare
      <3> QED BY <3>1, <3>3 DEF InCare, Sealing
    <2>6. ~CutsHeader
      <3>1. CutsHeader => Rows(index) = << >>
        BY DEF CutsHeader, TInv, RowTypes, Rows
      <3> QED BY <2>1, <3>1 DEF Has
    <2> QED BY <1>0, <2>2, <2>3, <2>4, <2>5, <2>6, TurnsStep DEF Turns
  <1> QED BY <1>0, <1>2, <1>3 DEF DueHasRow

\* Rows that rebuild() makes reach as far as the records of a segment, unless its part is
\* still to be sealed.
LEMMA SealedTold ==
  ASSUME BInv, TInv, SealInv, RowInv, NEW R, SealedRows(R), NEW s \in Starts, pc # "remove"
  PROVE  Told(R, s) \/ Coming(s)
  <1> SUFFICES ASSUME Has(R, s), ~Coming(s), NEW r \in Owed(s)
               PROVE  \E j \in DOMAIN R : R[j].start = s /\ stamp[r] <= R[j].end + Jitter
    BY DEF Told
  <1>1. zst[s].ok /\ \A d \in ToSet(zst[s].recs) :
          \E j \in DOMAIN R : R[j].start = s /\ stamp[d] <= R[j].end + Jitter
    BY SealedRowTimes DEF BInv
  <1>2. ToSet(part[s].recs) \ exposed \subseteq ToSet(zst[s].recs)
    <2>1. CASE ~part[s].ok
      BY <2>1, NoRecords DEF BInv, CInv, Readable
    <2>2. CASE part[s].ok
      <3>1. step = "remove" /\ s = held.start
        BY <2>2 DEF Coming
      <3>2. s \notin to_seal /\ Verifying
        BY <3>1 DEF TInv, VisitorLists, Verifying
      <3>3. ~Stale(s)
        BY <3>1, <3>2 DEF RowInv, StaleListed
      <3> QED BY <1>1, <3>3 DEF Stale
    <2> QED BY <2>1, <2>2
  <1>3. InHeld(s) \ exposed \subseteq ToSet(zst[s].recs)
    <2> SUFFICES ASSUME step = "write", s = held.start
                 PROVE  ToSet(held.recs) \ exposed \subseteq ToSet(zst[s].recs)
      BY DEF InHeld
    <2>1. ~part[s].ok
      BY DEF Coming
    <2> QED BY <1>1, <2>1 DEF SealInv, HeldWhole
  <1>4. r \in ToSet(zst[s].recs)
    BY <1>2, <1>3 DEF Owed, Records
  <1> QED BY <1>1, <1>4

\* A part that is to be sealed is still there, or nothing is left that a row has to reach.
LEMMA ComingStays ==
  ASSUME BInv, TInv, SealInv, FirstMoves, Intact', NEW s \in Starts, Coming(s), ~SealLog
  PROVE  Coming(s)' \/ Owed(s)' = {}
  <1>0. CInv /\ Moves /\ UNCHANGED <<step, held>> /\ PartStep(s)
    BY FilesChange DEF BInv, FirstMoves, visitor, FilesStep
  <1>1. ~(pc = "open" /\ s = AlignedStart(OpenTime))
    BY OpensFresh DEF Coming
  <1>2. part'[s].ok
    BY <1>0, <1>1 DEF PartStep, Coming
  <1>3. ~(pc' = "remove" /\ s = job'.start)
    <2>1. "index" \notin failed'
      BY DEF Intact
    <2> QED BY <1>0, <2>1, TurnsStep DEF Turns, Coming
  <1> QED BY <1>0, <1>2, <1>3 DEF Coming

\* Each row reaches as far as it has to, or the part is still to be sealed.
LEMMA FirstRowsTold ==
  ASSUME BInv, TInv, SealInv, RowInv, FirstMoves, Intact' PROVE RowsTold'
  <1> SUFFICES ASSUME NEW s \in Starts PROVE Told(Rows(index), s)' \/ Coming(s)'
    BY DEF RowsTold
  <1>0. CInv /\ OInv /\ Moves /\ UNCHANGED <<step, held>>
    BY DEF BInv, FirstMoves, visitor
  <1>1. Told(Rows(index), s) \/ Coming(s)
    BY DEF RowInv, RowsTold
  <1>2. \A r \in Owed(s) : stamp'[r] = stamp[r]
    BY <1>0, OwedStamped
  <1> PICK R \in Seq(Line) : R = Rows(index)
    BY RowsAreLines DEF TInv, RowTypes
  <1> PICK new : new = Rows(index')
    OBVIOUS
  <1>3. Told(new, s)' => Told(Rows(index), s)'
    BY DEF Told, Has
  <1>4. Owed(s)' = {} => Told(new, s)'
    BY DEF Told
  <1>5. CASE TakesNew(s)
    <2>1. pc = "run" /\ s \notin listed /\ part'[s].ok
      BY <1>5 DEF TakesNew
    <2>2. ~(step = "remove" /\ s = held.start)
      BY <2>1 DEF BInv, VInv, HeldThere
    <2>3. pc' # "remove"
      <3>1. ~SealLog
        BY <2>1 DEF SealLog
      <3> QED BY <1>0, <2>1, <3>1, TurnsStep DEF Turns, Intact
    <2> QED BY <1>0, <2>1, <2>2, <2>3 DEF Coming
  <1>6. CASE Owed(s)' \subseteq Owed(s)
    <2>0. ASSUME Told(new, s) PROVE Told(new, s)'
      BY <1>2, <1>6, <2>0, ToldStays
    <2>1. CASE index' = index /\ ~SealLog
      <3>1. CASE Coming(s)
        BY <1>3, <1>4, <2>1, <3>1, ComingStays
      <3>2. CASE Told(Rows(index), s)
        <4>1. new = R
          BY <2>1
        <4> QED BY <1>3, <2>0, <3>2, <4>1
      <3> QED BY <1>1, <3>1, <3>2
    <2>2. CASE SealLog
      <3> PICK row \in Line : row = [start |-> job.start, end |-> job.end, count |-> job.count]
        BY <1>0 DEF TInv, RowTypes, CInv, Shape, Line
      <3>1. /\ index' = AppendRow(index, row) /\ pc = "log" /\ row.start = job.start
            /\ row.end = job.end /\ UNCHANGED <<part, job>>
        BY <2>2 DEF SealLog, process
      <3>2. new = Append(R, row) \/ (new = << >> /\ R = << >>)
        BY <3>1, AppendedTells DEF TInv
      <3>3. CASE s = row.start
        <4>1. \A r \in Owed(row.start) : stamp[r] <= row.end + Jitter
          BY <3>1 DEF SealInv, JobTold
        <4>2. Told(new, s)
          BY <3>2, <3>3, <4>1, AppendedTold
        <4> QED BY <1>3, <2>0, <4>2
      <3>4. CASE s # row.start
        <4>1. Coming(s) => Coming(s)'
          BY <1>0, <3>1, <3>4 DEF Coming
        <4>2. Told(R, s) => Told(new, s)
          BY <3>2, <3>4, AppendedTold
        <4> QED BY <1>1, <1>3, <2>0, <4>1, <4>2
      <3> QED BY <3>3, <3>4
    <2>3. CASE Rebuild \/ CutsIndex
      <3>1. /\ pc = "rebuild" /\ pc' # "remove" /\ part' = part
            /\ SealedRows(new)
        <4>1. CASE Rebuild
          <5>1. /\ pc = "rebuild" /\ pc' # "remove" /\ part' = part
                /\ index' = [exists |-> TRUE, lines |-> RebuiltLines]
            BY <4>1 DEF Rebuild, NewLines
          <5> QED BY <1>0, <5>1, RebuiltSealed
        <4>2. CASE CutsIndex
          BY <1>0, <4>2, CutSealed DEF CutsIndex
        <4> QED BY <2>3, <4>1, <4>2
      <3>2. Told(new, s) \/ Coming(s)
        BY <3>1, SealedTold
      <3>3. Coming(s) => Coming(s)'
        BY <1>0, <3>1 DEF Coming
      <3> QED BY <1>3, <2>0, <3>2, <3>3
    <2>4. CASE CutsHeader
      <3>1. new = << >>
        BY <2>4 DEF CutsHeader, Rows
      <3> QED BY <1>3, <3>1 DEF Told, Has
    <2> QED BY <1>0, <2>1, <2>2, <2>3, <2>4, TurnsStep DEF Turns
  <1> QED BY <1>5, <1>6, OwedStep

\* A step of the first process keeps what is said of the rows.
LEMMA FirstRowInv ==
  ASSUME BInv, TInv, SealInv, RowInv, FirstMoves, Intact' PROVE RowInv'
  BY FirstListed, FirstDue, FirstRowsTold DEF RowInv

-----------------------------------------------------------------------------
(* The rows beside a second process: its own steps *)

\* It gives no segment a record that the rows do not have to reach already, and leaves none
\* stale.
LEMMA VisitorOwes ==
  ASSUME BInv, TInv, Second, NEW s \in Starts
  PROVE  /\ Owed(s)' \subseteq Owed(s) /\ (\A r \in Owed(s) : stamp'[r] = stamp[r])
         /\ ToSet(part'[s].recs) \subseteq ToSet(part[s].recs)
         /\ part'[s] = part[s] \/ (step = "remove" /\ step' = "recover" /\ s = held.start /\ ~OpenPart(s)
                                    /\ part'[s] = Absent /\ zst'[s] = zst[s])
         /\ zst'[s] = zst[s] \/ (step = "write" /\ step' = "log" /\ s = held.start /\ held' = held
                                   /\ zst'[s] = Holding(held.recs) /\ part' = part)
  <1>0. CInv /\ VInv /\ UNCHANGED <<stamp, exposed>>
    BY SecondKeeps DEF BInv, past
  <1>1. /\ part'[s] = part[s] \/ (step = "remove" /\ s = held.start /\ ~OpenPart(s) /\ part'[s] = Absent)
        /\ zst'[s] = zst[s] \/ (step = "write" /\ s = held.start /\ zst'[s] = Holding(held.recs)
                                  /\ part' = part)
    BY <1>0, SecondFiles
  <1>2. ToSet(part'[s].recs) \subseteq ToSet(part[s].recs)
    BY <1>1, NoRecords DEF Absent
  <1>3. \/ InHeld(s)' \subseteq Records(s) \cup InHeld(s)
    <2>1. CASE Idles
      BY <2>1 DEF Idles, InHeld
    <2>2. ASSUME NEW u \in Starts, Reads(u) PROVE InHeld(s)' \subseteq Records(s)
      BY <2>2 DEF Reads, InHeld, Records
    <2>3. CASE VisitorWrites \/ VisitorLogs \/ VisitorRemoves
      BY <2>3 DEF VisitorWrites, VisitorLogs, VisitorRemoves, InHeld
    <2> QED BY <1>0, <2>1, <2>2, <2>3, SecondKinds DEF VInv
  <1>4. Records(s)' \subseteq Records(s) \cup InHeld(s)
    BY <1>1, <1>2 DEF Records, InHeld, Holding
  <1>5. ASSUME part'[s] # part[s] PROVE step = "remove" /\ step' = "recover" /\ zst'[s] = zst[s]
    <2>1. VisitorRemoves
      BY <1>0, <1>1, <1>5, SecondKinds DEF VInv, Idles, Reads, VisitorWrites, VisitorLogs
    <2> QED BY <2>1 DEF VisitorRemoves
  <1>6. ASSUME zst'[s] # zst[s] PROVE step = "write" /\ step' = "log" /\ held' = held
    <2>1. VisitorWrites
      BY <1>0, <1>1, <1>6, SecondKinds DEF VInv, Idles, Reads, VisitorRemoves, VisitorLogs
    <2> QED BY <2>1 DEF VisitorWrites
  <1> QED BY <1>0, <1>1, <1>2, <1>3, <1>4, <1>5, <1>6 DEF Owed

\* It leaves nothing stale that was not.
LEMMA VisitorStale ==
  ASSUME BInv, TInv, SealInv, Second, NEW s \in Starts, Stale(s)' PROVE Stale(s) /\ zst'[s] = zst[s]
  <1>1. exposed' = exposed
    BY SecondKeeps
  <1>2. ToSet(part'[s].recs) \subseteq ToSet(part[s].recs)
    BY VisitorOwes
  <1>3. zst'[s] = zst[s]
    <2> SUFFICES ASSUME step = "write", s = held.start, zst'[s] = Holding(held.recs) PROVE FALSE
      BY VisitorOwes
    <2>1. ToSet(part[s].recs) \ exposed \subseteq ToSet(held.recs)
      BY DEF SealInv, HeldWhole
    <2> QED BY <1>1, <1>2, <2>1 DEF Stale, Holding
  <1> QED BY <1>1, <1>2, <1>3 DEF Stale

\* What it does not touch.
LEMMA VisitorLeaves ==
  ASSUME Second
  PROVE  /\ UNCHANGED <<pc, job, stamp, hand, now, cur_end, active, todo, exposed, failed>>
         /\ \A s : (InCare(s)' <=> InCare(s)) /\ (Late(s)' <=> Late(s))
  <1>1. UNCHANGED <<pc, job, stamp, hand, now, cur_end, active, todo, exposed, failed>>
    BY SecondKeeps DEF process, past
  <1> QED BY <1>1 DEF InCare, Sealing, Late, Past, PastBy, ToOpen, OpenTime

\* It spoils nothing for the job of the first process.
LEMMA SecondJob ==
  ASSUME BInv, TInv, SealInv, Second
  PROVE  JobSealed' /\ JobTold' /\ StaleInCare' /\ PartNamed'
  <1>0. /\ UNCHANGED <<pc, job, exposed>> /\ job.start \in Starts
    BY VisitorLeaves DEF BInv, CInv, Shape
  <1> PICK u \in Starts : u = job.start
    BY <1>0
  <1>1. JobSealed'
    <2> SUFFICES ASSUME pc \in {"log", "remove"}
                 PROVE  zst'[u].ok /\ ToSet(part'[u].recs) \ exposed \subseteq ToSet(zst'[u].recs)
      BY <1>0 DEF JobSealed
    <2>1. /\ zst[u].ok /\ ToSet(part[u].recs) \ exposed \subseteq ToSet(zst[u].recs)
          /\ step = "write" /\ u = held.start => ToSet(part[u].recs) \ exposed \subseteq ToSet(held.recs)
      BY DEF SealInv, JobSealed, HeldWhole
    <2>2. /\ ToSet(part'[u].recs) \subseteq ToSet(part[u].recs)
          /\ zst'[u] = zst[u] \/ (step = "write" /\ u = held.start /\ zst'[u] = Holding(held.recs))
      BY VisitorOwes
    <2> QED BY <2>1, <2>2 DEF Holding
  <1>2. JobTold'
    <2> SUFFICES ASSUME pc = "log", NEW r \in Owed(u)' PROVE stamp'[r] <= job.end + Jitter
      BY <1>0 DEF JobTold, Owed, Records, InHeld
    <2>1. r \in Owed(u) /\ stamp'[r] = stamp[r]
      BY VisitorOwes
    <2> QED BY <2>1 DEF SealInv, JobTold
  <1>3. StaleInCare'
    BY VisitorStale, VisitorLeaves DEF SealInv, StaleInCare
  <1>4. PartNamed'
    <2> SUFFICES ASSUME NEW s \in Starts, part'[s].ok
                 PROVE  (InCare(s) /\ ~(pc \in {"log", "remove"} /\ s = job.start)) \/ Settled(s)'
      BY <1>0, VisitorLeaves DEF PartNamed
    <2>1. part[s].ok /\ (zst[s].exists => zst'[s].exists)
      BY VisitorOwes DEF Absent, Holding
    <2> QED BY <2>1, VisitorLeaves DEF SealInv, PartNamed, Settled
  <1> QED BY <1>1, <1>2, <1>3, <1>4

\* What it holds, it holds whole, and in a segment that is named.
LEMMA SecondHeld ==
  ASSUME BInv, TInv, SealInv, Second PROVE HeldWhole' /\ HeldTold' /\ Named'
  <1> USE DEF files
  <1>0. exposed' = exposed /\ VisitorShape /\ held.start \in Starts
        /\ \A s \in Starts : Late(s)' <=> Late(s)
    BY VisitorLeaves DEF BInv, VInv, VisitorShape
  <1>1. step' = "write" => \E s \in Starts : Reads(s)
    BY <1>0, SecondKinds DEF Idles, VisitorWrites, VisitorLogs, VisitorRemoves
  <1>2. ASSUME NEW s \in Starts, Reads(s) PROVE HeldWhole' /\ HeldTold' /\ Named'
    <2>1. /\ held'.start = s /\ held'.recs = part[s].recs /\ part[s].ok /\ step' = "write"
          /\ UNCHANGED <<part, zst>>
      BY <1>2 DEF Reads
    <2>2. HeldWhole'
      BY <2>1 DEF HeldWhole
    <2> QED BY <2>1, <2>2 DEF HeldTold, Named, Rewriting
  <1>3. ASSUME step' # "write" PROVE HeldWhole' /\ HeldTold' /\ Named'
    <2>1. HeldTold'
      <3> SUFFICES ASSUME step' = "log" PROVE Records(held.start)' \ exposed' \subseteq ToSet(held'.recs)
        BY DEF HeldTold
      <3> PICK h \in Starts : h = held.start
        BY <1>0
      <3>1. VisitorWrites
        BY <1>0, SecondKinds DEF Idles, Reads, VisitorLogs, VisitorRemoves
      <3>2. step = "write" /\ held' = held /\ part' = part /\ zst'[h] = Holding(held.recs)
        BY <3>1 DEF VisitorWrites, HeldFile, BInv, CInv, Shape
      <3>3. ToSet(part[h].recs) \ exposed \subseteq ToSet(held.recs)
        BY <3>2 DEF SealInv, HeldWhole
      <3> QED BY <1>0, <3>2, <3>3 DEF Records, Holding
    <2>2. Named'
      <3> SUFFICES ASSUME Rewriting', NEW s \in Starts, Has(Planned, s)' PROVE part'[s].ok \/ Settled(s)'
        BY <1>3 DEF Named
      <3>1. step' \notin {"recover", "log"}
        BY DEF Rewriting
      <3>2. part'[s] = part[s] /\ zst'[s] = zst[s]
        BY <3>1, VisitorOwes
      <3>3. CASE Rewriting /\ scanned' = scanned
        <4>1. Planned' = Planned
          BY <3>3 DEF Planned
        <4>2. Has(Planned, s)
          BY <4>1 DEF Has
        <4> QED BY <1>0, <3>2, <3>3, <4>2 DEF SealInv, Named, Settled
      <3>4. CASE scanned' = RebuiltLines
        <4> PICK R : R = Tail(RebuiltLines)
          OBVIOUS
        <4>1. Planned' = R /\ SealedRows(R)
          BY <3>4, RebuiltSealed DEF Planned, BInv
        <4>2. Has(R, s)
          BY <4>1 DEF Has
        <4>3. zst[s].ok
          BY <4>1, <4>2, SealedRowTimes DEF BInv
        <4> QED BY <3>2, <4>3 DEF TInv, ZstThere, Settled
      <3>5. ~VisitorLogs /\ ~VisitorRewrites
        BY DEF VisitorLogs, VisitorRewrites, Rewriting
      <3>6. VisitorCuts => Rewriting
        BY DEF VisitorCuts, Rewriting
      <3> QED BY <3>3, <3>4, <3>5, <3>6, VisitorTurnsStep DEF VisitorTurns
    <2> QED BY <1>3, <2>1, <2>2 DEF HeldWhole
  <1> QED BY <1>1, <1>2, <1>3

\* A step of the second process keeps the whole of it.
LEMMA SecondSealInv == ASSUME BInv, TInv, SealInv, Second PROVE SealInv'
  BY SecondJob, SecondHeld DEF SealInv

\* A verify finds what is stale, and what it has not found is new.
LEMMA SecondStale ==
  ASSUME BInv, TInv, SealInv, RowInv, Second PROVE StaleListed'
  <1> USE DEF files
  <1>0. /\ \A s \in Starts : Stale(s) => part[s].ok /\ part[s].exists
        /\ \A s \in Starts : Stale(s)' => Stale(s)
    BY VisitorStale, NoRecords DEF Stale, BInv, CInv, Readable
  <1>1. ASSUME NEW command \in {"verify", "export"}, Visit(command) PROVE StaleListed'
    <2>1. (step' = "recover" /\ to_seal' = Leftover) \/ step' = "load"
      BY <1>1 DEF Visit
    <2> QED BY <1>0, <2>1 DEF StaleListed, Verifying, Leftover
  <1>2. ASSUME NEW u \in Starts, VisitorReads(u) PROVE StaleListed'
    <2>1. step = "recover" /\ to_seal' = to_seal \ {u}
          /\ (part[u].ok => step' = "write" /\ held'.start = u)
      BY <1>2 DEF VisitorReads
    <2>2. \A s \in Starts : Stale(s) => s \in to_seal
      BY <2>1 DEF RowInv, StaleListed, Verifying
    <2> QED BY <1>0, <2>1, <2>2 DEF StaleListed
  <1>3. CASE VisitorWrites
    <2>1. step = "write" /\ to_seal' = to_seal
      BY <1>3 DEF VisitorWrites
    <2>2. ~Stale(held.start)'
      <3> PICK h \in Starts : h = held.start
        BY DEF BInv, VInv, VisitorShape
      <3>1. zst'[h] = Holding(held.recs) /\ part' = part /\ exposed' = exposed
        BY <1>3, VisitorLeaves DEF VisitorWrites, HeldFile, BInv, CInv, Shape
      <3>2. ToSet(part[h].recs) \ exposed \subseteq ToSet(held.recs)
        BY <2>1 DEF SealInv, HeldWhole
      <3>3. ~Stale(h)'
        BY <3>1, <3>2 DEF Stale, Holding
      <3>4. held' = held
        BY <1>3 DEF VisitorWrites
      <3> QED BY <3>3, <3>4 DEF Stale
    <2>3. \A s \in Starts : Stale(s) => s \in to_seal \/ s = held.start
      BY <2>1 DEF RowInv, StaleListed, Verifying
    <2>4. ASSUME NEW s \in Starts, Stale(s)' PROVE s \in to_seal
      <3>1. s # held.start
        <4> SUFFICES ASSUME s = held.start PROVE FALSE
          OBVIOUS
        <4>1. held' = held
          BY <1>3 DEF VisitorWrites
        <4> QED BY <2>2, <2>4, <4>1 DEF Stale
      <3> QED BY <1>0, <2>3, <2>4, <3>1
    <2> QED BY <2>1, <2>4 DEF StaleListed
  <1>4. CASE VisitorLogs \/ VisitorRemoves
    <2>1. step \in {"log", "remove"} /\ to_seal' = to_seal
      BY <1>4 DEF VisitorLogs, VisitorRemoves
    <2> QED BY <1>0, <2>1 DEF RowInv, StaleListed, Verifying
  <1>5. CASE VisitorLoads
    <2>1. step = "load" /\ (step' = "idle" \/ Rows(index) = << >>)
      BY <1>5 DEF VisitorLoads
    <2>2. ~Has(<< >>, held.start) /\ \A s : ~Has(<< >>, s)
      BY DEF Has
    <2>3. Rows(index) = << >> => \A s \in Starts : ~Stale(s)
      BY <2>1, <2>2 DEF RowInv, DueHasRow, Due
    <2> QED BY <1>0, <2>1, <2>3 DEF StaleListed, Verifying
  <1>6. CASE VisitorScans \/ VisitorCuts \/ VisitorRewrites
    <2>1. step' \in {"cut", "rewrite", "idle"}
      BY <1>6 DEF VisitorScans, VisitorCuts, VisitorRewrites
    <2> QED BY <2>1 DEF StaleListed, Verifying
  <1> QED BY <1>1, <1>2, <1>3, <1>4, <1>5, <1>6 DEF Second

\* rebuild() lists no segment whose .zst lacks anything.
LEMMA ScanFinds ==
  ASSUME BInv, TInv, SealInv, RowInv, VisitorScans, Second
  PROVE  /\ \A s \in Starts : ~Stale(s)
         /\ UNCHANGED <<part, zst, index, listed>> /\ step' = "cut" /\ Verifying
         /\ Planned' = Tail(RebuiltLines)
  <1>1. (step = "scan" \/ (step = "recover" /\ to_seal = {})) /\ step' = "cut"
        /\ UNCHANGED <<part, zst, index, listed>> /\ scanned' = RebuiltLines
    BY DEF VisitorScans, files
  <1>2. to_seal = {} /\ Verifying
    BY <1>1 DEF TInv, VisitorLists, Verifying
  <1>3. \A s \in Starts : ~Stale(s)
    BY <1>1, <1>2 DEF RowInv, StaleListed
  <1>4. Planned' = Tail(RebuiltLines)
    BY <1>1, RebuiltSealed DEF Planned, BInv
  <1> QED BY <1>1, <1>2, <1>3, <1>4

\* A segment that a verify has not found, and that is still written, has no .zst.
LEMMA SecondNew ==
  ASSUME BInv, TInv, SealInv, RowInv, Second PROVE ActiveNew'
  <1> USE DEF files
  <1>0. UNCHANGED <<pc, active>> /\ active \in Starts
    BY VisitorLeaves DEF BInv, CInv, Shape
  <1> SUFFICES ASSUME Verifying' \/ Rewriting', pc = "run", active \notin listed'
               PROVE  ~zst'[active].exists /\ (Rewriting' => ~Has(Planned, active)')
    BY <1>0 DEF ActiveNew, Has
  <1> PICK a \in Starts : a = active
    BY <1>0
  <1>1. ASSUME NEW command \in {"verify", "export"}, Visit(command) PROVE FALSE
    <2>1. a \in Leftover
      BY DEF BInv, CInv, Readable, Leftover
    <2>2. step' = "recover" => listed' = Leftover
      BY <1>1 DEF Visit
    <2>3. step' \in {"recover", "load"}
      BY <1>1 DEF Visit
    <2> QED BY <2>1, <2>2, <2>3 DEF Verifying, Rewriting
  <1>2. CASE VisitorWrites \/ VisitorLogs \/ VisitorRemoves \/ \E s \in Starts : VisitorReads(s)
    <2>1. Verifying /\ listed' = listed /\ ~Rewriting'
      BY <1>2 DEF VisitorWrites, VisitorLogs, VisitorRemoves, VisitorReads, Verifying, Rewriting
    <2>2. ~zst[a].exists
      BY <2>1 DEF RowInv, ActiveNew
    <2>3. zst'[a] = zst[a]
      BY <2>1, VisitorOwes DEF BInv, VInv, HeldThere
    <2> QED BY <2>1, <2>2, <2>3
  <1>3. CASE VisitorLoads
    <2>1. step = "load" /\ zst' = zst /\ (step' = "idle" \/ (step' = "scan" /\ Rows(index) = << >>))
      BY <1>3 DEF VisitorLoads
    <2>2. Rows(index) = << >>
      BY <2>1 DEF Verifying, Rewriting
    <2>3. ~Due(a)
      BY <2>1, <2>2 DEF RowInv, DueHasRow, Has
    <2> QED BY <2>1, <2>3 DEF Due, Rewriting, Verifying
  <1>4. CASE VisitorScans
    <2> PICK R : R = Tail(RebuiltLines)
      OBVIOUS
    <2>1. zst' = zst /\ Verifying /\ Planned' = R /\ listed' = listed
      BY <1>4, ScanFinds
    <2>2. ~zst[a].exists
      BY <2>1 DEF RowInv, ActiveNew
    <2>3. ~zst[a].ok
      BY <2>2 DEF TInv, ZstThere
    <2>4. ~Has(R, a)
      BY <2>3, RebuiltSealed, SealedRowTimes DEF BInv
    <2>5. ~Has(Planned, active)'
      <3>1. Planned' = R /\ active' = a
        BY <1>0, <2>1
      <3> QED BY <2>4, <3>1 DEF Has
    <2> QED BY <2>1, <2>2, <2>5
  <1>5. CASE VisitorCuts
    <2>1. Rewriting /\ UNCHANGED <<zst, listed, scanned>>
      BY <1>5 DEF VisitorCuts, Rewriting
    <2>2. ~zst[a].exists /\ ~Has(Planned, a)
      BY <2>1 DEF RowInv, ActiveNew
    <2>3. ~Has(Planned, active)'
      <3> PICK R : R = Planned
        OBVIOUS
      <3>1. Planned' = R /\ active' = a
        BY <1>0, <2>1 DEF Planned
      <3> QED BY <2>2, <3>1 DEF Has
    <2> QED BY <2>1, <2>2, <2>3
  <1>6. ~VisitorRewrites
    BY DEF VisitorRewrites, Verifying, Rewriting
  <1> QED BY <1>1, <1>2, <1>3, <1>4, <1>5, <1>6 DEF Second

\* What is stale, or will be, has a row, or is going to have one.
LEMMA SecondDue ==
  ASSUME BInv, TInv, SealInv, RowInv, Second PROVE DueHasRow'
  <1> USE DEF files
  <1>0. UNCHANGED <<pc, active>>
    BY VisitorLeaves
  <1> SUFFICES ASSUME NEW s \in Starts, Due(s)'
               PROVE  /\ step' \in {"idle", "load"} => Has(Rows(index'), s)
                      /\ Rewriting' => Has(Planned, s)'
    BY DEF DueHasRow
  <1>1. step' # "log" => Due(s)
    <2>1. step' # "log" => zst'[s] = zst[s]
      BY VisitorOwes
    <2> QED BY <1>0, <2>1, VisitorStale DEF Due
  <1>2. CASE UNCHANGED <<index, scanned>> /\ (Rewriting' => Rewriting)
    <2>1. step' \in {"idle", "load"} => step \in {"idle", "load"} \/ VisitorRewrites
      BY DEF Second, Visit, VisitorReads, VisitorWrites, VisitorLogs, VisitorRemoves, VisitorLoads,
             VisitorScans, VisitorCuts
    <2>2. Planned' = Planned
      BY <1>2 DEF Planned
    <2>3. VisitorRewrites => Rewriting /\ Rows(index') = Planned
      BY DEF VisitorRewrites, Rewriting, Rewritten, Planned
    <2>4. Rewriting' => Has(Planned, s)'
      <3> SUFFICES ASSUME Rewriting' PROVE Has(Planned, s)'
        OBVIOUS
      <3>1. Has(Planned, s)
        BY <1>1, <1>2 DEF RowInv, DueHasRow, Rewriting
      <3> QED BY <2>2, <3>1 DEF Has
    <2>5. ASSUME step' \in {"idle", "load"} PROVE Has(Rows(index'), s)
      BY <1>1, <1>2, <2>1, <2>3, <2>5 DEF RowInv, DueHasRow
    <2> QED BY <2>4, <2>5
  <1>3. CASE VisitorLogs
    BY <1>3 DEF VisitorLogs, Rewriting
  <1>4. CASE VisitorScans
    <2> PICK R : R = Tail(RebuiltLines)
      OBVIOUS
    <2>1. zst' = zst /\ step' = "cut" /\ Planned' = R /\ ~Stale(s)
      BY <1>4, ScanFinds
    <2>2. zst[s].ok
      BY <1>1, <2>1 DEF Due, TInv, ZstThere
    <2>3. Has(R, s)
      BY <2>2, RebuiltSealed DEF BInv
    <2> QED BY <2>1, <2>3 DEF Has
  <1>5. CASE VisitorCuts
    <2>1. Rewriting /\ step' = "rewrite" /\ scanned' = scanned
      BY <1>5 DEF VisitorCuts, Rewriting
    <2>2. Has(Planned, s) /\ Planned' = Planned
      BY <1>1, <2>1 DEF RowInv, DueHasRow, Planned
    <2> QED BY <2>1, <2>2 DEF Has
  <1>6. CASE VisitorRewrites
    <2>1. Rewriting /\ step' = "idle" /\ Rows(index') = Planned
      BY <1>6 DEF VisitorRewrites, Rewriting, Rewritten, Planned
    <2> QED BY <1>1, <2>1 DEF RowInv, DueHasRow, Rewriting
  <1> QED BY <1>2, <1>3, <1>4, <1>5, <1>6, VisitorTurnsStep DEF VisitorTurns

\* Each row reaches as far as it has to, or the part is still to be sealed.
LEMMA SecondRowsTold ==
  ASSUME BInv, TInv, SealInv, RowInv, Second PROVE RowsTold'
  <1> USE DEF files
  <1> SUFFICES ASSUME NEW s \in Starts PROVE Told(Rows(index), s)' \/ Coming(s)'
    BY DEF RowsTold
  <1>0. UNCHANGED <<pc, job>> /\ CInv /\ OInv /\ VInv
    BY VisitorLeaves DEF BInv
  <1>1. Told(Rows(index), s) \/ Coming(s)
    BY DEF RowInv, RowsTold
  <1> PICK R \in Seq(Line) : R = Rows(index)
    BY RowsAreLines DEF TInv, RowTypes
  <1> PICK new : new = Rows(index')
    OBVIOUS
  <1>2. ASSUME Told(new, s) PROVE Told(Rows(index), s)'
    <2>1. Told(new, s)'
      BY <1>2, VisitorOwes, ToldStays
    <2> QED BY <2>1 DEF Told, Has
  <1>3. Coming(s) /\ ~(step' = "remove" /\ s = held'.start) => Coming(s)'
    BY <1>0, VisitorOwes DEF Coming
  <1>4. CASE index' = index /\ ~VisitorLogs
    <2>1. Coming(s) => Coming(s)'
      <3>1. step' # "remove"
        BY <1>0, <1>4, SecondKinds DEF VInv, Idles, Reads, VisitorWrites, VisitorRemoves
      <3> QED BY <1>3, <3>1
    <2>2. new = R
      BY <1>4
    <2> QED BY <1>1, <1>2, <2>1, <2>2
  <1>5. CASE VisitorLogs
    <2> PICK row \in Line :
          /\ row.start = held.start /\ step = "log" /\ index' = AppendRow(index, row)
          /\ \A r \in ToSet(held.recs) : stamp[r] <= row.end + Jitter
      BY <1>0, <1>5, HeldRow
    <2>1. new = Append(R, row) \/ (new = << >> /\ R = << >>)
      BY AppendedTells DEF TInv
    <2>2. CASE s = row.start
      <3>1. Owed(s) \subseteq ToSet(held.recs)
        BY <2>2 DEF SealInv, HeldTold, Owed, InHeld
      <3>2. Told(new, s)
        BY <2>1, <2>2, <3>1, AppendedTold
      <3> QED BY <1>2, <3>2
    <2>3. CASE s # row.start
      <3>1. held' = held
        BY <1>5 DEF VisitorLogs
      <3>2. Told(R, s) => Told(new, s)
        BY <2>1, <2>3, AppendedTold
      <3> QED BY <1>1, <1>2, <1>3, <2>3, <3>1, <3>2
    <2> QED BY <2>2, <2>3
  <1>6. CASE VisitorCuts
    <2>1. new = << >>
      BY <1>6 DEF VisitorCuts, Rows
    <2>2. Told(new, s)
      BY <2>1 DEF Told, Has
    <2> QED BY <1>2, <2>2
  <1>7. CASE VisitorRewrites
    <2>1. Rewriting /\ new = Planned
      BY <1>7 DEF VisitorRewrites, Rewriting, Rewritten, Planned
    <2> QED BY <1>2, <2>1 DEF RowInv, PlannedTold
  <1> QED BY <1>4, <1>5, <1>6, <1>7, VisitorTurnsStep DEF VisitorTurns

\* What it plans to write reaches as far.
LEMMA SecondPlanned ==
  ASSUME BInv, TInv, SealInv, RowInv, Second PROVE PlannedTold'
  <1> USE DEF files
  <1> SUFFICES ASSUME Rewriting', NEW s \in Starts PROVE Told(Planned, s)'
    BY DEF PlannedTold
  <1> PICK R : R = Planned'
    OBVIOUS
  <1>1. ASSUME Told(R, s)' PROVE Told(Planned, s)'
    BY <1>1 DEF Told, Has
  <1>2. CASE Rewriting /\ scanned' = scanned
    <2>1. R = Planned
      BY <1>2 DEF Planned
    <2>2. Told(R, s)
      BY <1>2, <2>1 DEF RowInv, PlannedTold
    <2> QED BY <1>1, <2>2, VisitorOwes, ToldStays
  <1>3. CASE VisitorScans
    <2>1. /\ ~Stale(s) /\ UNCHANGED <<part, zst>> /\ step' = "cut" /\ R = Tail(RebuiltLines)
      BY <1>3, ScanFinds
    <2>2. exposed' = exposed /\ stamp' = stamp
      BY VisitorLeaves
    <2>3. Has(R, s) => zst[s].ok /\ \A r \in ToSet(zst[s].recs) :
                         \E j \in DOMAIN R : R[j].start = s /\ stamp[r] <= R[j].end + Jitter
      <3>1. CInv /\ OInv /\ SealedRows(R)
        BY <2>1, RebuiltSealed DEF BInv
      <3> QED BY ONLY <3>1, SealedRowTimes, s \in Starts
    <2>4. Owed(s)' = Records(s) \ exposed
      BY <2>1, <2>2 DEF Owed, InHeld, Records
    <2>5. zst[s].ok => Records(s) \ exposed \subseteq ToSet(zst[s].recs)
      BY <2>1 DEF Stale, Records
    <2>6. Told(R, s)'
      BY <2>2, <2>3, <2>4, <2>5 DEF Told, Has
    <2> QED BY <1>1, <2>6
  <1>4. VisitorCuts => Rewriting
    BY DEF VisitorCuts, Rewriting
  <1>5. ~VisitorLogs /\ ~VisitorRewrites
    BY DEF VisitorLogs, VisitorRewrites, Rewriting
  <1> QED BY <1>2, <1>3, <1>4, <1>5, VisitorTurnsStep DEF VisitorTurns

\* A step of the second process keeps what is said of the rows.
LEMMA SecondRowInv ==
  ASSUME BInv, TInv, SealInv, RowInv, Second PROVE RowInv'
  BY SecondStale, SecondNew, SecondDue, SecondRowsTold, SecondPlanned DEF RowInv

-----------------------------------------------------------------------------
(* The rows beside a second process: the theorem *)

\* There is nothing on disk at first.
LEMMA InitWInv == ASSUME BesideInit PROVE WInv
  <1>1. /\ pc = "down" /\ step = "idle" /\ listed = {} /\ to_seal = {} /\ scanned = << >>
        /\ index = [exists |-> FALSE, lines |-> << >>] /\ stamp = << >>
        /\ job = [start |-> 0, end |-> 0, count |-> 0, next |-> "down"] /\ last_utc = 0
        /\ \A s \in Starts : part[s] = Absent /\ zst[s] = Absent
    BY DEF BesideInit, Init, NoJob
  <1>2. Rows(index) = << >> /\ Planned = << >>
    BY <1>1 DEF Rows, Planned
  <1>3. \A s \in Starts : ~part[s].ok /\ ~zst[s].ok /\ zst[s].recs = << >> /\ ~Has(<< >>, s)
    BY <1>1 DEF Absent, Has
  <1>4. TInv
    <2>1. RowTypes
      BY <1>1 DEF RowTypes
    <2> QED BY <1>1, <1>2, <1>3, <2>1 DEF TInv, ZstThere, ZstReadable, VisitorLists, PastStamps,
               RowTimes, JobTimes, RunTimes, TodoPast
  <1>5. SealInv
    BY <1>1, <1>3 DEF SealInv, JobSealed, JobTold, StaleInCare, Stale, PartNamed, HeldWhole,
       HeldTold, Named, Rewriting
  <1>6. RowInv
    BY <1>1, <1>2, <1>3 DEF RowInv, StaleListed, Verifying, Rewriting, ActiveNew, DueHasRow, Due,
       Stale, RowsTold, Told, PlannedTold
  <1> QED BY <1>4, <1>5, <1>6 DEF WInv

\* The invariant is kept by both processes.
LEMMA WInvStep ==
  ASSUME LongRetention, BInv, WInv, [BesideNext]_BesideVars PROVE WInv'
  <1> SUFFICES ASSUME ~killed' PROVE TInv' /\ (Intact' => SealInv' /\ RowInv')
    BY DEF WInv
  <1>3. ~VisitorKilled /\ ~killed
    <2>1. ~VisitorKilled
      BY Zenon DEF VisitorKilled
    <2>2. killed' = killed
      BY <2>1, BesideKinds
    <2> QED BY <2>1, <2>2
  <1>0. CInv /\ OInv /\ VInv /\ TInv
    BY <1>3 DEF BInv, WInv
  <1>1. CASE Second
    <2>1. TInv'
      BY <1>0, <1>1, SecondTInv
    <2>2. Intact' => Intact
      BY <1>1, VisitorLeaves DEF Intact
    <2> QED BY <1>1, <1>3, <2>1, <2>2, SecondSealInv, SecondRowInv DEF WInv
  <1>2. CASE FirstMoves
    <2>1. TInv'
      BY <1>0, <1>2, FirstTInv DEF FirstMoves
    <2>2. Intact' => Intact
      BY <1>2, PastGrows DEF Intact, FirstMoves
    <2> QED BY <1>2, <1>3, <2>1, <2>2, FirstSealInv, FirstRowInv DEF WInv
  <1> QED BY <1>1, <1>2, <1>3, BesideKinds DEF FirstMoves

\* The time the export takes a record to have is its own, or the start of its segment.
LEMMA ReadTimeIs ==
  ASSUME NEW s \in Nat, NEW r, stamp[r] \in Nat PROVE ReadTime(s, r) \in {s, stamp[r]}
  <1> PICK S : S = {s, stamp[r]}
    OBVIOUS
  <1>1. IsFiniteSet(S) /\ S \subseteq Nat /\ S # {}
    <2>1. IsFiniteSet({s}) /\ IsFiniteSet({stamp[r]})
      BY FS_Singleton
    <2>2. IsFiniteSet({s} \cup {stamp[r]})
      BY <2>1, FS_Union
    <2>3. S = {s} \cup {stamp[r]}
      OBVIOUS
    <2> QED BY <2>2, <2>3
  <1>2. Max(S) \in S
    BY <1>1, MaxOfSome
  <1> QED BY <1>2 DEF ReadTime

\* Where the part is gone, the invariant leaves no row short of its records.
LEMMA RowsReachAll == ASSUME BInv, WInv, ~killed, Intact PROVE WindowMissesLateOnly
  <1> PICK R \in Seq(Line) : R = Rows(index)
    BY RowsAreLines DEF WInv, TInv, RowTypes
  <1> SUFFICES ASSUME NEW i \in DOMAIN R, NEW s \in Starts, s = R[i].start, ~part[s].exists,
                      NEW r \in ToSet(zst[s].recs) \ exposed
               PROVE  \E j \in DOMAIN R : R[j].start = s /\ ReadTime(R[j].start, r) <= R[j].end + Jitter
    <2>1. \A k \in DOMAIN R : R[k].start \in Starts
      <3>1. \A k \in DOMAIN R : R[k] \in Line
        OBVIOUS
      <3> QED BY <3>1 DEF Line
    <2> QED BY <2>1 DEF WindowMissesLateOnly
  <1>1. r \in Owed(s) /\ stamp[r] \in Nat /\ s \in Nat
    BY OwedStamped, StartsAre DEF Owed, Records, WInv
  <1>2. ~Coming(s)
    BY DEF Coming, BInv, CInv, Readable
  <1>3. Told(R, s) /\ Has(R, s)
    BY <1>2 DEF WInv, RowInv, RowsTold, Has
  <1> PICK j \in DOMAIN R : R[j].start = s /\ stamp[r] <= R[j].end + Jitter
    BY <1>1, <1>3 DEF Told
  <1>4. s <= R[j].end + Jitter
    BY DEF WInv, TInv, RowTimes
  <1>5. ReadTime(s, r) \in {s, stamp[r]}
    BY <1>1, ReadTimeIs
  <1> QED BY <1>4, <1>5

\* An export of a window skips no segment with a record of the window, once its part is gone,
\* but for what samples are out of order and what a verify has raced: whatever the two
\* processes, kills of the first, and parts that cannot be removed or opened have done, while
\* no .zst and no index has failed to be written, no second process was killed, and if
\* retention spares the segment that is being written (exporter.cpp:57, seal.cpp:49-99,
\* index.cpp:72-101).
THEOREM WindowMissesOnlyLate ==
  LongRetention =>
    (BesideSpec => [](~killed /\ "zst" \notin failed /\ "index" \notin failed
                        => WindowMissesLateOnly))
  <1> SUFFICES ASSUME LongRetention
               PROVE  BesideSpec => [](~killed /\ "zst" \notin failed /\ "index" \notin failed
                                         => WindowMissesLateOnly)
    OBVIOUS
  <1>1. BesideInit => BInv /\ WInv
    BY InitBInv, InitWInv
  <1>2. BInv /\ WInv /\ [BesideNext]_BesideVars => (BInv /\ WInv)'
    BY BesideStep, WInvStep
  <1>3. BInv /\ WInv =>
          (~killed /\ "zst" \notin failed /\ "index" \notin failed => WindowMissesLateOnly)
    BY RowsReachAll DEF Intact
  <1> QED BY <1>1, <1>2, <1>3, PTL DEF BesideSpec, BesideVars
=============================================================================
