--------------------------- MODULE PipelineProofs ---------------------------
(* That no thread loses or repeats a job on its way from the scheduler to the  *)
(* segment, that the threads use the queue of samples and the detector as their *)
(* own modules have them, and that every outage is reported: for any number of  *)
(* targets, workers, jobs and suspensions.                                      *)
EXTENDS Pipeline, FiniteSetTheorems, TLAPS

-----------------------------------------------------------------------------
(* The inductive invariant *)

\* As much of the types as the argument needs.
Message == [id : Nat, target : Targets \cup {Monitor}, failed : BOOLEAN, utc : Nat, at : Nat]
Ticket  == [id : Nat \ {0}, target : Targets]
Shape ==
  /\ jobs \in Seq(Ticket) /\ samples \in Seq(Message) /\ taken \in Seq(Message)
  /\ worker \in [Workers -> [pc : {"starting", "idle", "probing", "stamped", "exited", "refused"},
                             result : Message]]
  /\ awake \in Nat /\ issued \in Nat /\ written \in Seq(Nat)

\* A worker has a job, of a target, exactly while it probes and pushes.
Busy(w) == worker[w].pc \in {"probing", "stamped"}
WorkersHoldJobs ==
  \A w \in Workers : /\ Busy(w) <=> worker[w].result.id # 0
                     /\ Busy(w) => worker[w].result.target # Monitor

\* Only the markers are without a job.
Marked(s) == \A i \in DOMAIN s : s[i].id = 0 <=> s[i].target = Monitor

\* No job is twice at one place.
Apart(s) == \A i, j \in DOMAIN s : i # j /\ s[i].id # 0 => s[i].id # s[j].id
WorkersApart ==
  \A v, w \in Workers : v # w /\ worker[v].result.id # 0 =>
    worker[v].result.id # worker[w].result.id

\* Nor at two, and none is missing.
Placed ==
  /\ Ids(jobs) \cup Held \cup Ids(samples) \cup Ids(taken) = 1 .. issued
  /\ Ids(jobs) \cap (Held \cup Ids(samples) \cup Ids(taken)) = {}
  /\ Held \cap (Ids(samples) \cup Ids(taken)) = {} /\ Ids(samples) \cap Ids(taken) = {}

\* What is written was taken from the queue, and once.
WrittenOnce ==
  /\ \A i \in DOMAIN written : written[i] \in Ids(taken)
  /\ \A i, j \in DOMAIN written : i # j => written[i] # written[j]

IInv ==
  /\ Shape /\ WorkersHoldJobs /\ Marked(samples) /\ Apart(jobs) /\ Apart(samples)
  /\ WorkersApart /\ Placed /\ WrittenOnce

-----------------------------------------------------------------------------
(* Ids in queues and at workers *)

\* A push adds the id, if there is one, and keeps the ids apart.
LEMMA PushedId ==
  ASSUME NEW S, \A x \in S : x.id \in Nat, NEW s \in Seq(S), NEW m \in S
  PROVE  /\ Append(s, m) \in Seq(S)
         /\ Ids(Append(s, m)) = Ids(s) \cup ({m.id} \ {0})
         /\ Apart(s) /\ m.id \notin Ids(s) => Apart(Append(s, m))
  <1>1. /\ DOMAIN Append(s, m) = DOMAIN s \cup {Len(s) + 1} /\ Append(s, m) \in Seq(S)
        /\ Append(s, m)[Len(s) + 1] = m /\ Len(s) + 1 \notin DOMAIN s
        /\ \A i \in DOMAIN s : Append(s, m)[i] = s[i]
    OBVIOUS
  <1>2. Ids(Append(s, m)) = Ids(s) \cup ({m.id} \ {0})
    BY <1>1 DEF Ids
  <1>3. ASSUME Apart(s), m.id \notin Ids(s)
        PROVE  Apart(Append(s, m))
    BY <1>1, <1>3 DEF Apart, Ids
  <1> QED BY <1>1, <1>2, <1>3

\* A pop takes the id of the head away.
LEMMA PoppedId ==
  ASSUME NEW S, \A x \in S : x.id \in Nat, NEW s \in Seq(S), s # << >>, Apart(s)
  PROVE  /\ Head(s) \in S /\ Tail(s) \in Seq(S)
         /\ Ids(s) = Ids(Tail(s)) \cup ({Head(s).id} \ {0})
         /\ Head(s).id \notin Ids(Tail(s))
         /\ Apart(Tail(s))
  <1>1. /\ Head(s) = s[1] /\ 1 \in DOMAIN s /\ Tail(s) \in Seq(S) /\ Head(s) \in S
        /\ \A i \in DOMAIN Tail(s) : i + 1 \in DOMAIN s /\ Tail(s)[i] = s[i + 1] /\ i + 1 # 1
    OBVIOUS
  <1>2. \A i \in DOMAIN s : i = 1 \/ \E j \in DOMAIN Tail(s) : i = j + 1
    <2> TAKE i \in DOMAIN s
    <2>1. CASE i # 1
      <3>1. i - 1 \in DOMAIN Tail(s) /\ i = (i - 1) + 1
        BY <2>1
      <3> QED BY <3>1
    <2> QED BY <2>1
  <1>3. Ids(s) = Ids(Tail(s)) \cup ({Head(s).id} \ {0})
    BY <1>1, <1>2 DEF Ids
  <1>4. Head(s).id \notin Ids(Tail(s))
    BY <1>1 DEF Ids, Apart
  <1>5. Apart(Tail(s))
    <2>1. \A i, j \in DOMAIN Tail(s) : i # j => i + 1 # j + 1
      OBVIOUS
    <2> QED BY <1>1, <2>1 DEF Apart
  <1> QED BY <1>1, <1>3, <1>4, <1>5

\* A worker that gets another result leaves its job and holds the new one.
LEMMA HeldId ==
  ASSUME NEW w \in Workers, WorkersApart, worker' \in [Workers -> [pc : {"starting", "idle", "probing", "stamped", "exited",
                                      "refused"}, result : Message]],
         \A v \in Workers : v # w => worker'[v] = worker[v],
         worker[w].result.id = worker'[w].result.id \/ worker'[w].result.id \notin Held
  PROVE  /\ Held' = (Held \ {worker[w].result.id}) \cup ({worker'[w].result.id} \ {0})
         /\ WorkersApart'
  <1>1. Held' = (Held \ {worker[w].result.id}) \cup ({worker'[w].result.id} \ {0})
    BY DEF Held, WorkersApart
  <1>2. WorkersApart'
    BY DEF Held, WorkersApart
  <1> QED BY <1>1, <1>2

-----------------------------------------------------------------------------
(* The steps *)

\* The invariant holds at the start.
LEMMA InitIInv == ASSUME Init PROVE IInv
  <1>1. Nothing \in Message
    BY PipelineAssumption DEF Nothing, Message
  <1>2. Shape
    BY <1>1 DEF Init, Shape
  <1>3. Ids(jobs) = {} /\ Ids(samples) = {} /\ Ids(taken) = {} /\ Held = {} /\ 1 .. issued = {}
    BY DEF Init, Ids, Held, Nothing
  <1>4. WorkersHoldJobs /\ WorkersApart
    <2>1. \A w \in Workers : worker[w].pc = "starting" /\ worker[w].result.id = 0
      BY DEF Init, Nothing
    <2> QED BY <2>1 DEF WorkersHoldJobs, WorkersApart, Busy
  <1>5. Marked(samples) /\ Apart(jobs) /\ Apart(samples) /\ WrittenOnce
    BY DEF Init, Marked, Apart, WrittenOnce
  <1> QED BY <1>2, <1>3, <1>4, <1>5 DEF IInv, Placed

\* The clock moves on, or nothing the jobs depend on changes.
LEMMA OtherStep ==
  ASSUME IInv, awake' \in Nat, UNCHANGED <<jobs, samples, taken, worker, issued, written>>
  PROVE  IInv'
  <1>1. Shape'
    BY DEF IInv, Shape
  <1>2. WorkersHoldJobs' /\ WorkersApart' /\ Held' = Held
    BY DEF IInv, WorkersHoldJobs, Busy, WorkersApart, Held
  <1>3. Marked(samples)' /\ Apart(jobs)' /\ Apart(samples)'
    BY DEF IInv, Marked, Apart
  <1>4. Ids(jobs)' = Ids(jobs) /\ Ids(samples)' = Ids(samples) /\ Ids(taken)' = Ids(taken)
    BY DEF Ids
  <1> QED BY <1>1, <1>2, <1>3, <1>4 DEF IInv, Placed, WrittenOnce

\* A target is due.
LEMMA PushJobStep ==
  ASSUME IInv, NEW t \in Targets, PushJob(t)
  PROVE  IInv'
  <1> DEFINE m == [id |-> issued + 1, target |-> t]
  <1>1. /\ m \in Ticket /\ m.id = issued + 1 /\ m.id \notin Ids(jobs) /\ m.id # 0
        /\ jobs \in Seq(Ticket) /\ \A x \in Ticket : x.id \in Nat
    BY DEF IInv, Shape, Placed, Ticket
  <1>2. jobs' = Append(jobs, m) /\ issued' = issued + 1
        /\ UNCHANGED <<samples, taken, worker, awake, written>>
    BY DEF PushJob
  <1> HIDE DEF m
  <1>3. jobs' \in Seq(Ticket) /\ Ids(jobs)' = Ids(jobs) \cup {m.id} /\ Apart(jobs)'
    BY <1>1, <1>2, PushedId DEF IInv
  <1>4. Shape'
    BY <1>2, <1>3 DEF IInv, Shape
  <1>5. Placed'
    <2>1. Held' = Held /\ Ids(samples)' = Ids(samples) /\ Ids(taken)' = Ids(taken)
      BY <1>2 DEF Held, Ids
    <2>2. 1 .. issued' = 1 .. issued \cup {m.id}
      BY <1>1, <1>2 DEF IInv, Shape
    <2>3. m.id \notin 1 .. issued
      BY <1>1 DEF IInv, Shape
    <2> QED BY <1>3, <2>1, <2>2, <2>3 DEF IInv, Placed
  <1> QED BY <1>2, <1>3, <1>4, <1>5
      DEF IInv, WorkersHoldJobs, Busy, Marked, Apart, WorkersApart, WrittenOnce, Ids

\* The clock shows natural numbers.
LEMMA ClockType == ASSUME IInv PROVE utc_now \in Nat /\ awake \in Nat
  <1>1. SuspendMs \in Nat /\ awake \in Nat
    BY PipelineAssumption DEF IInv, Shape
  <1>2. SuspendMs * awake \in Nat
    BY <1>1
  <1> QED BY <1>1, <1>2 DEF utc_now

\* A marker is pushed.
LEMMA PushGapStep ==
  ASSUME IInv, PushGap
  PROVE  IInv'
  <1> DEFINE m == [Nothing EXCEPT !.utc = utc_now, !.at = awake]
  <1>1. utc_now \in Nat /\ awake \in Nat
    BY ClockType
  <1>2. /\ m \in Message /\ m.id = 0 /\ m.target = Monitor
        /\ samples \in Seq(Message) /\ \A x \in Message : x.id \in Nat
    BY <1>1 DEF IInv, Shape, Message, Nothing
  <1>3. samples' = Append(samples, m) /\ UNCHANGED <<jobs, taken, worker, awake, issued, written>>
    BY DEF PushGap
  <1> HIDE DEF m
  <1>4. 0 \notin Ids(samples)
    BY DEF Ids
  <1>5. samples' \in Seq(Message) /\ Ids(samples)' = Ids(samples) /\ Apart(samples)'
    <2>1. /\ Append(samples, m) \in Seq(Message)
          /\ Ids(Append(samples, m)) = Ids(samples) \cup ({m.id} \ {0})
          /\ Apart(samples) /\ m.id \notin Ids(samples) => Apart(Append(samples, m))
      BY <1>2, PushedId
    <2> QED BY <1>2, <1>3, <1>4, <2>1 DEF IInv
  <1>6. Marked(samples)'
    BY <1>2, <1>3 DEF IInv, Marked
  <1>7. Shape'
    BY <1>3, <1>5 DEF IInv, Shape
  <1>8. WorkersHoldJobs' /\ WorkersApart' /\ Held' = Held
    BY <1>3 DEF IInv, WorkersHoldJobs, Busy, WorkersApart, Held
  <1>9. Ids(jobs)' = Ids(jobs) /\ Ids(taken)' = Ids(taken) /\ Apart(jobs)'
    BY <1>3 DEF IInv, Ids, Apart
  <1> QED BY <1>3, <1>5, <1>6, <1>7, <1>8, <1>9 DEF IInv, Placed, WrittenOnce

\* A worker starts, probes or returns, and keeps its job.
LEMMA KeepJobStep ==
  ASSUME IInv, NEW w \in Workers, OpenHandle(w) \/ FinishProbe(w) \/ WorkerReturns(w)
  PROVE  IInv'
  <1>1. UNCHANGED <<jobs, samples, taken, awake, issued, written>>
    BY DEF OpenHandle, FinishProbe, WorkerReturns, rest
  <1>2. utc_now \in Nat /\ awake \in Nat
    BY ClockType
  <1>3. /\ worker' \in [Workers -> [pc : {"starting", "idle", "probing", "stamped", "exited",
                                          "refused"}, result : Message]]
        /\ \A v \in Workers : v # w => worker'[v] = worker[v]
        /\ worker'[w].result.id = worker[w].result.id
        /\ worker'[w].result.target = worker[w].result.target
        /\ Busy(w)' <=> Busy(w)
    <2>1. CASE OpenHandle(w)
      BY <2>1 DEF OpenHandle, IInv, Shape, Busy
    <2>2. CASE FinishProbe(w)
      <3>1. PICK f \in BOOLEAN :
              worker' = [worker EXCEPT ![w] =
                [pc |-> "stamped",
                 result |-> [worker[w].result EXCEPT !.failed = f, !.utc = utc_now, !.at = awake]]]
        BY <2>2 DEF FinishProbe
      <3> DEFINE r == [worker[w].result EXCEPT !.failed = f, !.utc = utc_now, !.at = awake]
      <3>2. worker' = [worker EXCEPT ![w] = [pc |-> "stamped", result |-> r]]
        BY <3>1
      <3>3. worker[w].result \in Message
        BY DEF IInv, Shape
      <3>4. r \in Message /\ r.id = worker[w].result.id /\ r.target = worker[w].result.target
        BY <1>2, <3>3 DEF Message
      <3> HIDE DEF r
      <3> QED BY <2>2, <3>2, <3>4 DEF FinishProbe, IInv, Shape, Busy
    <2>3. CASE WorkerReturns(w)
      BY <2>3 DEF WorkerReturns, IInv, Shape, Busy
    <2> QED BY <2>1, <2>2, <2>3
  <1>4. \A v \in Workers : /\ worker'[v].result.id = worker[v].result.id
                           /\ worker'[v].result.target = worker[v].result.target
                           /\ Busy(v)' <=> Busy(v)
    BY <1>3 DEF Busy
  <1>5. Held' = Held /\ WorkersApart' /\ WorkersHoldJobs'
    BY <1>4 DEF IInv, Held, WorkersApart, WorkersHoldJobs
  <1>6. Shape'
    BY <1>1, <1>3 DEF IInv, Shape
  <1> QED BY <1>1, <1>5, <1>6 DEF IInv, Marked, Apart, Placed, WrittenOnce, Ids

\* A worker takes a job from the queue.
LEMMA TakeJobStep ==
  ASSUME IInv, NEW w \in Workers, TakeJob(w)
  PROVE  IInv'
  <1>1. /\ Head(jobs) \in Ticket /\ Tail(jobs) \in Seq(Ticket)
        /\ Ids(jobs) = Ids(Tail(jobs)) \cup ({Head(jobs).id} \ {0})
        /\ Head(jobs).id \notin Ids(Tail(jobs)) /\ Apart(Tail(jobs))
    <2>1. jobs \in Seq(Ticket) /\ jobs # << >> /\ Apart(jobs) /\ \A x \in Ticket : x.id \in Nat
      BY DEF TakeJob, IInv, Shape, Ticket
    <2> QED BY <2>1, PoppedId
  <1>2. PICK n \in Nat \ {0} : n = Head(jobs).id
    BY <1>1 DEF Ticket
  <1> DEFINE r == [Nothing EXCEPT !.id = Head(jobs).id, !.target = Head(jobs).target]
  <1>3. r \in Message /\ r.id = n /\ r.target # Monitor
    BY <1>1, <1>2, PipelineAssumption DEF Message, Nothing, Ticket, Monitor
  <1>4. /\ worker' = [worker EXCEPT ![w] = [pc |-> "probing", result |-> r]] /\ jobs' = Tail(jobs)
        /\ worker[w].pc = "idle" /\ UNCHANGED <<samples, taken, awake, issued, written>>
    BY DEF TakeJob, rest
  <1> HIDE DEF r
  <1>5. /\ worker' \in [Workers -> [pc : {"starting", "idle", "probing", "stamped", "exited",
                                          "refused"}, result : Message]]
        /\ worker'[w] = [pc |-> "probing", result |-> r]
        /\ \A v \in Workers : v # w => worker'[v] = worker[v]
    BY <1>3, <1>4 DEF IInv, Shape
  <1>6. worker[w].result.id = 0 /\ worker'[w].result.id = n /\ n \notin Held
    <2>1. n \in Ids(jobs)
      BY <1>1, <1>2
    <2>2. worker[w].result.id = 0
      BY <1>4 DEF IInv, WorkersHoldJobs, Busy
    <2> QED BY <1>3, <1>5, <2>1, <2>2 DEF IInv, Placed
  <1>7. Held' = Held \cup {n} /\ WorkersApart'
    <2>1. Held' = (Held \ {worker[w].result.id}) \cup ({worker'[w].result.id} \ {0})
          /\ WorkersApart'
      BY <1>5, <1>6, HeldId DEF IInv
    <2> QED BY <1>6, <2>1 DEF Held
  <1>8. WorkersHoldJobs'
    BY <1>3, <1>5, <1>6 DEF IInv, WorkersHoldJobs, Busy
  <1>9. Ids(jobs) = Ids(jobs)' \cup {n} /\ n \notin Ids(jobs)' /\ Apart(jobs)'
    BY <1>1, <1>2, <1>4
  <1>10. Placed'
    <2>1. Ids(samples)' = Ids(samples) /\ Ids(taken)' = Ids(taken) /\ issued' = issued
      BY <1>4 DEF Ids
    <2> QED BY <1>7, <1>9, <2>1 DEF IInv, Placed
  <1>11. Shape'
    BY <1>1, <1>4, <1>5 DEF IInv, Shape
  <1> QED BY <1>4, <1>7, <1>8, <1>9, <1>10, <1>11 DEF IInv, Marked, Apart, WrittenOnce, Ids

\* A worker pushes the result of its job.
LEMMA PushSampleStep ==
  ASSUME IInv, NEW w \in Workers, PushSample(w)
  PROVE  IInv'
  <1> DEFINE r == worker[w].result
  <1>1. /\ r \in Message /\ r.id # 0 /\ r.target # Monitor /\ r.id \in Held /\ Nothing \in Message /\ Nothing.id = 0
        /\ samples \in Seq(Message) /\ Apart(samples) /\ \A x \in Message : x.id \in Nat
    <2>1. r.id # 0 /\ r.target # Monitor
      BY DEF PushSample, IInv, WorkersHoldJobs, Busy
    <2>2. r \in Message /\ samples \in Seq(Message) /\ Apart(samples)
      BY DEF IInv, Shape
    <2>3. Nothing \in Message /\ Nothing.id = 0 /\ \A x \in Message : x.id \in Nat
      BY DEF Message, Nothing
    <2> QED BY <2>1, <2>2, <2>3 DEF Held
  <1>2. /\ samples' = Append(samples, r)
        /\ worker' = [worker EXCEPT ![w] = [pc |-> "idle", result |-> Nothing]]
        /\ UNCHANGED <<jobs, taken, awake, issued, written>>
    BY DEF PushSample, rest
  <1>3. /\ worker' \in [Workers -> [pc : {"starting", "idle", "probing", "stamped", "exited",
                                          "refused"}, result : Message]]
        /\ worker'[w] = [pc |-> "idle", result |-> Nothing]
        /\ \A v \in Workers : v # w => worker'[v] = worker[v]
    BY <1>1, <1>2 DEF IInv, Shape
  <1>4. Held' = Held \ {r.id} /\ WorkersApart'
    <2>1. worker'[w].result.id = 0 /\ 0 \notin Held
      BY <1>1, <1>3 DEF Held
    <2>2. Held' = (Held \ {worker[w].result.id}) \cup ({worker'[w].result.id} \ {0})
          /\ WorkersApart'
      BY <1>3, <2>1, HeldId DEF IInv
    <2> QED BY <2>1, <2>2
  <1>5. WorkersHoldJobs'
    <2>1. ~Busy(w)' /\ worker'[w].result.id = 0
      BY <1>1, <1>3 DEF Busy
    <2>2. \A v \in Workers : v # w => (Busy(v)' <=> Busy(v))
      BY <1>3 DEF Busy
    <2> QED BY <1>3, <2>1, <2>2 DEF IInv, WorkersHoldJobs
  <1> HIDE DEF r
  <1>6. r.id \notin Ids(samples)
    BY <1>1 DEF IInv, Placed
  <1>7. samples' \in Seq(Message) /\ Ids(samples)' = Ids(samples) \cup {r.id} /\ Apart(samples)'
    BY <1>1, <1>2, <1>6, PushedId
  <1>8. Marked(samples)'
    BY <1>1, <1>2 DEF IInv, Marked
  <1>9. Placed'
    <2>1. Ids(jobs)' = Ids(jobs) /\ Ids(taken)' = Ids(taken) /\ issued' = issued
      BY <1>2 DEF Ids
    <2> QED BY <1>1, <1>4, <1>7, <2>1 DEF IInv, Placed
  <1>10. Shape'
    BY <1>2, <1>3, <1>7 DEF IInv, Shape
  <1> QED BY <1>2, <1>4, <1>5, <1>7, <1>8, <1>9, <1>10 DEF IInv, Apart, WrittenOnce, Ids

\* What the writer takes from the queue goes to what was taken.
LEMMA TakeStep ==
  ASSUME IInv, Take, UNCHANGED <<jobs, worker, awake, issued>>
  PROVE  /\ jobs' \in Seq(Ticket) /\ samples' \in Seq(Message) /\ taken' \in Seq(Message)
         /\ worker' \in [Workers -> [pc : {"starting", "idle", "probing", "stamped", "exited",
                                           "refused"}, result : Message]]
         /\ awake' \in Nat /\ issued' \in Nat
         /\ WorkersHoldJobs' /\ WorkersApart' /\ Apart(jobs)' /\ Placed'
         /\ Marked(samples)' /\ Apart(samples)'
         /\ Head(samples) \in Message /\ Head(samples).id \notin Ids(taken)
         /\ Ids(taken)' = Ids(taken) \cup ({Head(samples).id} \ {0})
         /\ Head(samples).target # Monitor <=> Head(samples).id # 0
  <1>1. samples \in Seq(Message) /\ samples # << >> /\ Apart(samples)
        /\ \A x \in Message : x.id \in Nat
    BY DEF Take, IInv, Shape, Message
  <1>2. /\ Head(samples) \in Message /\ Tail(samples) \in Seq(Message)
        /\ Ids(samples) = Ids(Tail(samples)) \cup ({Head(samples).id} \ {0})
        /\ Head(samples).id \notin Ids(Tail(samples)) /\ Apart(Tail(samples))
    BY <1>1, PoppedId
  <1>3. taken \in Seq(Message) /\ samples' = Tail(samples) /\ taken' = Append(taken, Head(samples))
    BY DEF Take, IInv, Shape
  <1>4. /\ taken' \in Seq(Message)
        /\ Ids(taken)' = Ids(taken) \cup ({Head(samples).id} \ {0})
    BY <1>1, <1>2, <1>3, PushedId
  <1>5. Head(samples).id \notin Ids(taken)
    <2>1. 0 \notin Ids(taken)
      BY DEF Ids
    <2> QED BY <1>2, <2>1 DEF IInv, Placed
  <1>6. Marked(samples)' /\ (Head(samples).target # Monitor <=> Head(samples).id # 0)
    <2>1. /\ Head(samples) = samples[1] /\ 1 \in DOMAIN samples
          /\ \A i \in DOMAIN Tail(samples) :
               i + 1 \in DOMAIN samples /\ Tail(samples)[i] = samples[i + 1]
      BY <1>1
    <2> QED BY <1>3, <2>1 DEF IInv, Marked
  <1>7. Placed'
    <2>1. Ids(jobs)' = Ids(jobs) /\ Held' = Held /\ issued' = issued
      BY DEF Ids, Held
    <2>2. Ids(samples)' = Ids(Tail(samples))
      BY <1>3
    <2> QED BY <1>2, <1>4, <2>1, <2>2 DEF IInv, Placed
  <1>8. WorkersHoldJobs' /\ WorkersApart' /\ Apart(jobs)'
    BY DEF IInv, WorkersHoldJobs, Busy, WorkersApart, Apart
  <1> QED BY <1>2, <1>3, <1>4, <1>5, <1>6, <1>7, <1>8 DEF IInv, Shape

\* The writer takes a marker, or fails with something in hand.
LEMMA DropStep ==
  ASSUME IInv, Take, UNCHANGED <<jobs, worker, awake, issued, written>>
  PROVE  IInv'
  BY TakeStep DEF IInv, Shape, WrittenOnce

\* The writer takes a result and writes it.
LEMMA WriteSampleStep ==
  ASSUME IInv, WriteSample
  PROVE  IInv'
  <1> DEFINE n == Head(samples).id
  <1>1. /\ Take /\ UNCHANGED <<jobs, worker, awake, issued>> /\ written' = Append(written, n)
        /\ Head(samples).target # Monitor
    BY DEF WriteSample, writer_rest
  <1>2. n \in Nat /\ n # 0 /\ n \notin Ids(taken) /\ Ids(taken)' = Ids(taken) \cup {n}
    BY <1>1, TakeStep DEF Message
  <1>3. written' \in Seq(Nat) /\ WrittenOnce'
    <2> HIDE DEF n
    <2>1. /\ DOMAIN Append(written, n) = DOMAIN written \cup {Len(written) + 1}
          /\ Append(written, n)[Len(written) + 1] = n /\ Len(written) + 1 \notin DOMAIN written
          /\ \A i \in DOMAIN written : Append(written, n)[i] = written[i]
          /\ written' \in Seq(Nat)
      <3>1. written \in Seq(Nat) /\ n \in Nat /\ written' = Append(written, n)
        BY <1>1, <1>2 DEF IInv, Shape
      <3> QED BY ONLY <3>1
    <2>2. \A i \in DOMAIN written : written[i] # n
      BY <1>2 DEF IInv, WrittenOnce
    <2> QED BY <1>1, <1>2, <2>1, <2>2 DEF IInv, WrittenOnce
  <1> QED BY <1>1, <1>3, TakeStep DEF IInv, Shape

-----------------------------------------------------------------------------
(* The theorem *)

\* Every step keeps the invariant.
LEMMA NextIInv == ASSUME IInv, [Next]_vars PROVE IInv'
  <1>1. CASE \E t \in Targets : PushJob(t)
    BY <1>1, PushJobStep
  <1>2. CASE PushGap
    BY <1>2, PushGapStep
  <1>3. CASE \E w \in Workers : Work(w)
    BY <1>3, KeepJobStep, TakeJobStep, PushSampleStep DEF Work
  <1>4. CASE WriteSample
    BY <1>4, WriteSampleStep
  <1>5. CASE WriteGap
    BY <1>5, DropStep DEF WriteGap, writer_rest
  <1>6. CASE WriterDies
    <2>1. CASE Take
      BY <1>6, <2>1, DropStep DEF WriterDies, writer_rest
    <2>2. CASE UNCHANGED <<samples, taken>>
      BY <1>6, <2>2, OtherStep DEF WriterDies, writer_rest, IInv, Shape
    <2> QED BY <1>6, <2>1, <2>2 DEF WriterDies
  <1>7. CASE Suspend
    <2>1. awake' \in Nat
      BY <1>7 DEF Suspend, IInv, Shape
    <2> QED BY <1>7, <2>1, OtherStep DEF Suspend
  <1>8. CASE \/ Shut \/ JoinWorkers \/ JoinWriter \/ JoinTracer \/ WriterStops \/ WriterFinalizes
             \/ Tracer \/ Returned \/ UNCHANGED vars
    <2>1. UNCHANGED <<jobs, samples, taken, worker, awake, issued, written>>
      BY <1>8 DEF Shut, JoinWorkers, JoinWriter, JoinTracer, WriterStops, WriterFinalizes, Tracer,
         TakeTrace, FinishTrace, TracerReturns, Returned, vars, writer_rest, tracer_rest
    <2> QED BY <2>1, OtherStep DEF IInv, Shape
  <1> QED BY <1>1, <1>2, <1>3, <1>4, <1>5, <1>6, <1>7, <1>8 DEF Next, Main, Writer

\* At any time each job that was issued is in one place, the queue of jobs, a worker,
\* the queue of samples or the writer, and none is written twice (prober.cpp:73-131,
\* 344-398, 543-640).
THEOREM JobsAreKept == SafeSpec => []EachJobOnce
  <1>1. Init => IInv
    BY InitIInv
  <1>2. IInv /\ [Next]_vars => IInv'
    BY NextIInv
  <1>3. IInv => EachJobOnce
    <2> SUFFICES ASSUME IInv PROVE EachJobOnce
      OBVIOUS
    <2>1. {jobs[i].id : i \in DOMAIN jobs} = Ids(jobs)
      <3>1. \A i \in DOMAIN jobs : jobs[i] \in Ticket
        BY DEF IInv, Shape
      <3>2. \A x \in Ticket : x.id # 0
        BY DEF Ticket
      <3> QED BY <3>1, <3>2 DEF Ids
    <2> QED BY <2>1 DEF IInv, Placed, WrittenOnce, EachJobOnce
  <1> QED BY <1>1, <1>2, <1>3, PTL DEF SafeSpec

-----------------------------------------------------------------------------
(* Shutdown: the order of the closes and joins *)

Gone(w) == worker[w].pc \in {"exited", "refused"}

\* jobs is closed when the loop ends, and a worker has returned when it is drained.
JobsDrained ==
  /\ jobs_closed <=> main # "scheduling"
  /\ \A w \in Workers : worker[w].pc = "exited" => jobs_closed /\ jobs = << >>

\* samples is closed when the workers are gone, and the writer ends when it is drained.
SamplesDrained ==
  /\ samples_closed <=> main \in {"join writer", "join tracer", "returned"}
  /\ samples_closed => \A w \in Workers : Gone(w)
  /\ phase # "running" => samples_closed /\ samples = << >>
  /\ main \in {"join tracer", "returned"} => dead \/ phase = "stopped"

\* A writer that has not returned early has written what it took.
AllWritten == ~dead => Ids(taken) \subseteq {written[i] : i \in DOMAIN written}

SInv == JobsDrained /\ SamplesDrained /\ AllWritten

\* The order holds at the start.
LEMMA InitSInv == ASSUME Init PROVE SInv
  BY DEF Init, H!Init, SInv, JobsDrained, SamplesDrained, AllWritten, Ids

\* Nothing is taken or written.
LEMMA WrittenAsBefore ==
  ASSUME SInv, UNCHANGED <<taken, written>>, dead => dead'
  PROVE  AllWritten'
  BY DEF SInv, AllWritten, Ids

\* The main thread's steps keep the order.
LEMMA MainKeepsOrder ==
  ASSUME IInv, SInv,
         (\E t \in Targets : PushJob(t)) \/ Shut \/ Main \/ Suspend \/ Returned
  PROVE  SInv'
  <1>1. CASE \E t \in Targets : PushJob(t)
    <2>1. JobsDrained' /\ SamplesDrained'
      BY <1>1 DEF PushJob, SInv, JobsDrained, SamplesDrained, Gone, detector
    <2> QED BY <1>1, <2>1, WrittenAsBefore DEF PushJob, SInv
  <1>2. CASE Shut
    <2>1. JobsDrained' /\ SamplesDrained'
      BY <1>2 DEF Shut, SInv, JobsDrained, SamplesDrained, Gone, detector
    <2> QED BY <1>2, <2>1, WrittenAsBefore DEF Shut, SInv
  <1>3. CASE PushGap
    <2>1. JobsDrained' /\ SamplesDrained'
      BY <1>3 DEF PushGap, SInv, JobsDrained, SamplesDrained, Gone, detector
    <2> QED BY <1>3, <2>1, WrittenAsBefore DEF PushGap, SInv
  <1>4. CASE JoinWorkers
    <2>1. JobsDrained' /\ SamplesDrained'
      BY <1>4 DEF JoinWorkers, SInv, JobsDrained, SamplesDrained, Gone, detector
    <2> QED BY <1>4, <2>1, WrittenAsBefore DEF JoinWorkers, SInv
  <1>5. CASE JoinWriter
    <2>1. JobsDrained' /\ SamplesDrained'
      BY <1>5 DEF JoinWriter, SInv, JobsDrained, SamplesDrained, Gone, detector
    <2> QED BY <1>5, <2>1, WrittenAsBefore DEF JoinWriter, SInv
  <1>6. CASE JoinTracer
    <2>1. JobsDrained' /\ SamplesDrained'
      BY <1>6 DEF JoinTracer, SInv, JobsDrained, SamplesDrained, Gone, detector
    <2> QED BY <1>6, <2>1, WrittenAsBefore DEF JoinTracer, SInv
  <1>7. CASE Suspend \/ Returned
    <2>1. UNCHANGED <<main, jobs, jobs_closed, worker, samples, samples_closed, dead, phase>>
      BY <1>7 DEF Suspend, Returned, vars, detector
    <2>2. JobsDrained' /\ SamplesDrained'
      BY <2>1 DEF SInv, JobsDrained, SamplesDrained, Gone
    <2> QED BY <1>7, <2>2, WrittenAsBefore DEF Suspend, Returned, vars, SInv
  <1> QED BY <1>1, <1>2, <1>3, <1>4, <1>5, <1>6, <1>7 DEF Main

\* A worker's steps keep the order.
LEMMA WorkersKeepOrder ==
  ASSUME IInv, SInv, NEW w \in Workers, Work(w)
  PROVE  SInv'
  <1>1. /\ UNCHANGED <<main, jobs_closed, samples_closed, dead, phase, taken, written>>
        /\ ~Gone(w) /\ ~samples_closed
    BY DEF Work, OpenHandle, TakeJob, FinishProbe, PushSample, WorkerReturns, rest, detector,
           Gone, SInv, SamplesDrained
  <1>2. /\ \A v \in Workers : v # w => worker'[v] = worker[v]
        /\ worker'[w].pc = "exited" => jobs' = << >> /\ jobs_closed
        /\ jobs = << >> => jobs' = << >>
    <2>1. worker \in [Workers -> [pc : {"starting", "idle", "probing", "stamped", "exited",
                                        "refused"}, result : Message]]
      BY DEF IInv, Shape
    <2>2. CASE OpenHandle(w)
      BY <2>1, <2>2 DEF OpenHandle
    <2>3. CASE TakeJob(w)
      BY <2>1, <2>3 DEF TakeJob
    <2>4. CASE FinishProbe(w)
      BY <2>1, <2>4 DEF FinishProbe
    <2>5. CASE PushSample(w)
      BY <2>1, <2>5 DEF PushSample
    <2>6. CASE WorkerReturns(w)
      BY <2>1, <2>6 DEF WorkerReturns
    <2> QED BY <2>2, <2>3, <2>4, <2>5, <2>6 DEF Work
  <1>3. JobsDrained'
    BY <1>1, <1>2 DEF SInv, JobsDrained
  <1>4. SamplesDrained'
    BY <1>1 DEF SInv, SamplesDrained
  <1> QED BY <1>1, <1>3, <1>4, WrittenAsBefore DEF SInv

\* The writer's steps keep the order.
LEMMA WriterKeepsOrder ==
  ASSUME IInv, SInv, Writer \/ WriterDies
  PROVE  SInv'
  <1>1. CASE WriteSample
    <2> DEFINE n == Head(samples).id
    <2>1. /\ Take /\ written' = Append(written, n) /\ Head(samples).target # Monitor /\ ~dead
          /\ phase' = phase /\ phase = "running"
          /\ UNCHANGED <<main, jobs, jobs_closed, worker, samples_closed, dead, awake, issued>>
      BY <1>1 DEF WriteSample, writer_rest, H!Sample
    <2>2. n # 0 /\ n \in Nat /\ Ids(taken)' = Ids(taken) \cup {n}
      BY <2>1, TakeStep DEF Message
    <2> HIDE DEF n
    <2>3. AllWritten'
      <3>1. /\ Append(written, n)[Len(written) + 1] = n
            /\ DOMAIN Append(written, n) = DOMAIN written \cup {Len(written) + 1}
            /\ \A i \in DOMAIN written : Append(written, n)[i] = written[i]
        BY <2>2 DEF IInv, Shape
      <3> QED BY <2>1, <2>2, <3>1 DEF SInv, AllWritten
    <2> QED BY <2>1, <2>3 DEF SInv, JobsDrained, SamplesDrained, Gone
  <1>2. CASE WriteGap
    <2>1. /\ Take /\ written' = written /\ Head(samples).target = Monitor
          /\ phase' = phase /\ phase = "running"
          /\ UNCHANGED <<main, jobs, jobs_closed, worker, samples_closed, dead, awake, issued>>
      BY <1>2 DEF WriteGap, writer_rest, H!Gap
    <2>2. Ids(taken)' = Ids(taken)
      BY <2>1, TakeStep
    <2> QED BY <2>1, <2>2 DEF SInv, JobsDrained, SamplesDrained, AllWritten, Gone
  <1>3. CASE WriterDies
    BY <1>3 DEF WriterDies, writer_rest, detector, SInv, JobsDrained, SamplesDrained, AllWritten,
                Gone
  <1>4. CASE WriterStops
    <2>1. JobsDrained' /\ SamplesDrained'
      BY <1>4 DEF WriterStops, writer_rest, H!Stop, SInv, JobsDrained, SamplesDrained, Gone
    <2> QED BY <1>4, <2>1, WrittenAsBefore DEF WriterStops, SInv
  <1>5. CASE WriterFinalizes
    <2>1. phase # "running" /\ (phase' = phase \/ phase' = "stopped")
      BY <1>5 DEF WriterFinalizes, H!FinalizeOutage, H!Finalized
    <2>2. phase = "finalizing"
      BY <1>5 DEF WriterFinalizes, H!FinalizeOutage, H!Finalized
    <2>3. JobsDrained' /\ SamplesDrained'
      BY <1>5, <2>1, <2>2
         DEF WriterFinalizes, writer_rest, SInv, JobsDrained, SamplesDrained, Gone
    <2> QED BY <1>5, <2>3, WrittenAsBefore DEF WriterFinalizes, SInv
  <1> QED BY <1>1, <1>2, <1>3, <1>4, <1>5 DEF Writer

\* Every step keeps the order.
LEMMA NextSInv == ASSUME IInv, SInv, [Next]_vars PROVE SInv'
  <1>1. CASE Tracer \/ UNCHANGED vars
    <2>1. UNCHANGED <<main, jobs, jobs_closed, worker, samples, samples_closed, dead, taken,
                      written, phase>>
      BY <1>1 DEF Tracer, TakeTrace, FinishTrace, TracerReturns, tracer_rest, detector, vars
    <2> QED BY <2>1, WrittenAsBefore DEF SInv, JobsDrained, SamplesDrained, Gone
  <1> QED BY <1>1, MainKeepsOrder, WorkersKeepOrder, WriterKeepsOrder DEF Next

\* When run_prober returns, every job that was issued has its record, if the writer has
\* not returned early and one worker had its handle: nothing is left in a queue or in
\* a worker's hands by the order of closes and joins (prober.cpp:632-640).
THEOREM NothingIsLost == SafeSpec => []NothingLostIfHealthy
  <1>1. Init => IInv /\ SInv
    BY InitIInv, InitSInv
  <1>2. IInv /\ SInv /\ [Next]_vars => IInv' /\ SInv'
    BY NextIInv, NextSInv
  <1>3. IInv /\ SInv => NothingLostIfHealthy
    <2> SUFFICES ASSUME IInv, SInv, main = "returned", ~dead,
                        NEW v \in Workers, worker[v].pc = "exited"
                 PROVE  {written[i] : i \in DOMAIN written} = 1 .. issued
      BY DEF NothingLostIfHealthy
    <2>1. jobs = << >> /\ samples = << >> /\ \A w \in Workers : Gone(w)
      BY DEF SInv, JobsDrained, SamplesDrained
    <2>2. Ids(jobs) = {} /\ Ids(samples) = {}
      BY <2>1 DEF Ids
    <2>3. Held = {}
      <3>1. \A w \in Workers : worker[w].result.id = 0
        BY <2>1 DEF Gone, IInv, WorkersHoldJobs, Busy
      <3> QED BY <3>1 DEF Held
    <2>4. Ids(taken) = 1 .. issued
      BY <2>2, <2>3 DEF IInv, Placed
    <2> QED BY <2>4 DEF IInv, WrittenOnce, SInv, AllWritten
  <1> QED BY <1>1, <1>2, <1>3, PTL DEF SafeSpec

-----------------------------------------------------------------------------
(* The samples queue *)

LastUtc == 1 + SuspendMs * MaxSuspends

\* What a worker will push is an item of the queue.
InBounds ==
  /\ awake <= MaxSuspends /\ issued <= MaxJobs
  /\ \A w \in Workers : worker[w].result.utc <= LastUtc /\ worker[w].result.at <= MaxSuspends

\* The clock stays in its bounds.
LEMMA ClockInBounds ==
  ASSUME IInv, InBounds
  PROVE  utc_now \in 0 .. LastUtc /\ LastUtc \in Nat /\ awake \in 0 .. MaxSuspends
  <1>1. SuspendMs \in Nat /\ MaxSuspends \in Nat /\ awake \in 0 .. MaxSuspends
    BY PipelineAssumption DEF IInv, Shape, InBounds
  <1>2. SuspendMs * awake \in Nat /\ SuspendMs * MaxSuspends \in Nat
    BY <1>1
  <1>3. SuspendMs * awake <= SuspendMs * MaxSuspends
    BY <1>1
  <1> QED BY <1>1, <1>2, <1>3 DEF utc_now, LastUtc

\* The bounds hold at the start.
LEMMA InitInBounds == ASSUME Init PROVE InBounds
  <1>1. SuspendMs * MaxSuspends \in Nat /\ MaxSuspends \in Nat /\ MaxJobs \in Nat
    BY PipelineAssumption
  <1> QED BY <1>1 DEF Init, InBounds, Nothing, LastUtc

\* Every step keeps the bounds.
LEMMA NextInBounds == ASSUME IInv, InBounds, [Next]_vars PROVE InBounds'
  <1>1. utc_now \in 0 .. LastUtc /\ LastUtc \in Nat /\ awake \in 0 .. MaxSuspends
    BY ClockInBounds
  <1>2. worker \in [Workers -> [pc : {"starting", "idle", "probing", "stamped", "exited",
                                      "refused"}, result : Message]]
    BY DEF IInv, Shape
  <1>3. CASE \E w \in Workers : Work(w)
    <2>1. PICK w \in Workers : Work(w)
      BY <1>3
    <2>2. UNCHANGED <<awake, issued>>
      BY <2>1 DEF Work, OpenHandle, TakeJob, FinishProbe, PushSample, WorkerReturns, rest
    <2>3. Nothing.utc = 0 /\ Nothing.at = 0
      BY DEF Nothing
    <2>4. /\ \A v \in Workers : v # w => worker'[v] = worker[v]
          /\ worker'[w].result.utc <= LastUtc /\ worker'[w].result.at <= MaxSuspends
      <3>1. CASE OpenHandle(w) \/ WorkerReturns(w)
        <4>1. worker'[w].result = worker[w].result /\ \A v \in Workers : v # w => worker'[v] = worker[v]
          BY <1>2, <3>1 DEF OpenHandle, WorkerReturns
        <4> QED BY <4>1 DEF InBounds
      <3>2. CASE TakeJob(w)
        <4> DEFINE r == [Nothing EXCEPT !.id = Head(jobs).id, !.target = Head(jobs).target]
        <4>1. r.utc = 0 /\ r.at = 0
          BY DEF Nothing
        <4>2. worker' = [worker EXCEPT ![w] = [pc |-> "probing", result |-> r]]
          BY <3>2 DEF TakeJob
        <4> HIDE DEF r
        <4> QED BY <1>1, <1>2, <4>1, <4>2, PipelineAssumption
      <3>3. CASE FinishProbe(w)
        <4>1. PICK f \in BOOLEAN :
                worker' = [worker EXCEPT ![w] =
                  [pc |-> "stamped",
                   result |-> [worker[w].result EXCEPT !.failed = f, !.utc = utc_now, !.at = awake]]]
          BY <3>3 DEF FinishProbe
        <4> DEFINE r == [worker[w].result EXCEPT !.failed = f, !.utc = utc_now, !.at = awake]
        <4>2. r.utc = utc_now /\ r.at = awake
          BY <1>2 DEF Message
        <4>3. worker' = [worker EXCEPT ![w] = [pc |-> "stamped", result |-> r]]
          BY <4>1
        <4> HIDE DEF r
        <4> QED BY <1>1, <1>2, <4>2, <4>3
      <3>4. CASE PushSample(w)
        BY <1>1, <1>2, <2>3, <3>4, PipelineAssumption DEF PushSample
      <3> QED BY <2>1, <3>1, <3>2, <3>3, <3>4 DEF Work
    <2>5. LastUtc' = LastUtc
      BY DEF LastUtc
    <2> QED BY <2>2, <2>4, <2>5 DEF InBounds
  <1>4. CASE \E t \in Targets : PushJob(t)
    <2>1. issued' = issued + 1 /\ issued < MaxJobs /\ UNCHANGED <<awake, worker>>
      BY <1>4 DEF PushJob
    <2> QED BY <2>1, PipelineAssumption DEF IInv, Shape, InBounds, LastUtc
  <1>5. CASE Suspend
    <2>1. awake' = awake + 1 /\ awake < MaxSuspends /\ UNCHANGED <<issued, worker>>
      BY <1>5 DEF Suspend
    <2> QED BY <2>1, PipelineAssumption DEF IInv, Shape, InBounds, LastUtc
  <1>6. CASE \/ PushGap \/ Shut \/ JoinWorkers \/ JoinWriter \/ JoinTracer \/ Writer \/ WriterDies
             \/ Tracer \/ Returned \/ UNCHANGED vars
    <2>1. UNCHANGED <<awake, issued, worker>>
      BY <1>6 DEF PushGap, Shut, JoinWorkers, JoinWriter, JoinTracer, Writer, WriteSample, WriteGap,
         WriterStops, WriterFinalizes, WriterDies, Tracer, TakeTrace, FinishTrace, TracerReturns,
         Returned, vars, writer_rest, tracer_rest
    <2> QED BY <2>1 DEF InBounds, LastUtc
  <1> QED BY <1>3, <1>4, <1>5, <1>6 DEF Next, Main

\* A push comes before the close, and is one of the abstract queue.
LEMMA PushIsPush ==
  ASSUME SInv, ~samples_closed, NEW m \in Result, samples' = Append(samples, m),
         UNCHANGED <<samples_closed, taken, phase>>
  PROVE  SamplesQueue!Next
  BY DEF SamplesQueue!Next, SamplesQueue!Push

\* The writer takes before it is told that nothing more will come.
LEMMA TakeIsPop ==
  ASSUME Take, phase = "running", UNCHANGED <<samples_closed, phase>>
  PROVE  SamplesQueue!Next
  BY DEF Take, SamplesQueue!Next, SamplesQueue!Pop

\* Every step is one of the abstract queue, or none.
LEMMA QueueStep ==
  ASSUME IInv, SInv, InBounds, [Next]_vars
  PROVE  [SamplesQueue!Next]_(SamplesQueue!vars)
  <1>1. CASE PushGap
    <2> DEFINE m == [Nothing EXCEPT !.utc = utc_now, !.at = awake]
    <2>1. m \in Result
      <3>1. Result = [id : 0 .. MaxJobs, target : Targets \cup {Monitor}, failed : BOOLEAN,
                      utc : 0 .. LastUtc, at : 0 .. MaxSuspends]
        BY DEF Result, LastUtc
      <3>2. utc_now \in 0 .. LastUtc /\ awake \in 0 .. MaxSuspends /\ 0 \in 0 .. MaxJobs
        BY ClockInBounds, PipelineAssumption
      <3> QED BY <3>1, <3>2 DEF Nothing
    <2>2. samples' = Append(samples, m) /\ ~samples_closed
          /\ UNCHANGED <<samples_closed, taken, phase>>
      BY <1>1 DEF PushGap, detector, SInv, SamplesDrained
    <2> HIDE DEF m
    <2> QED BY <2>1, <2>2, PushIsPush
  <1>2. CASE \E w \in Workers : PushSample(w)
    <2>1. PICK w \in Workers : PushSample(w)
      BY <1>2
    <2> DEFINE r == worker[w].result
    <2>2. r \in Message
      BY DEF IInv, Shape
    <2>3. r.id \in 0 .. MaxJobs
      <3>1. r.id = 0 \/ r.id \in 1 .. issued
        BY DEF IInv, Placed, Held
      <3> QED BY <3>1, PipelineAssumption DEF IInv, Shape, InBounds
    <2>4. r.utc \in 0 .. LastUtc /\ r.at \in 0 .. MaxSuspends
      BY <2>2, ClockInBounds, PipelineAssumption DEF Message, InBounds
    <2>5. r \in Result
      <3> HIDE DEF r
      <3> QED BY <2>2, <2>3, <2>4 DEF Message, Result, LastUtc
    <2>6. samples' = Append(samples, r) /\ ~samples_closed
          /\ UNCHANGED <<samples_closed, taken, phase>>
      BY <2>1 DEF PushSample, rest, detector, SInv, SamplesDrained, Gone
    <2> HIDE DEF r
    <2> QED BY <2>5, <2>6, PushIsPush
  <1>3. CASE WriteSample \/ WriteGap
    BY <1>3, TakeIsPop DEF WriteSample, WriteGap, writer_rest, H!Sample, H!Gap
  <1>4. CASE WriterDies
    <2>1. phase = "running" /\ UNCHANGED <<samples_closed, phase>>
          /\ (Take \/ UNCHANGED <<samples, taken>>)
      BY <1>4 DEF WriterDies, writer_rest, detector
    <2> QED BY <2>1, TakeIsPop DEF SamplesQueue!vars
  <1>5. CASE JoinWorkers
    BY <1>5 DEF JoinWorkers, detector, SInv, SamplesDrained, SamplesQueue!Next, SamplesQueue!Close
  <1>6. CASE WriterStops
    BY <1>6 DEF WriterStops, writer_rest, H!Stop, SamplesQueue!Next, SamplesQueue!Finish
  <1>7. CASE WriterFinalizes
    <2>1. phase = "finalizing" /\ phase' \in {"finalizing", "stopped"}
          /\ UNCHANGED <<samples, samples_closed, taken>>
      BY <1>7 DEF WriterFinalizes, writer_rest, H!FinalizeOutage, H!Finalized
    <2> QED BY <2>1 DEF SamplesQueue!vars
  <1>8. CASE \/ \E t \in Targets : PushJob(t)
             \/ \E w \in Workers : OpenHandle(w) \/ TakeJob(w) \/ FinishProbe(w) \/ WorkerReturns(w)
             \/ Shut \/ JoinWriter \/ JoinTracer \/ Tracer \/ Suspend \/ Returned \/ UNCHANGED vars
    <2>1. UNCHANGED <<samples, samples_closed, taken, phase>>
      BY <1>8 DEF PushJob, OpenHandle, TakeJob, FinishProbe, WorkerReturns, Shut, JoinWriter,
         JoinTracer, Tracer, TakeTrace, FinishTrace, TracerReturns, Suspend, Returned, rest,
         tracer_rest, detector, vars
    <2> QED BY <2>1 DEF SamplesQueue!vars
  <1> QED BY <1>1, <1>2, <1>3, <1>4, <1>5, <1>6, <1>7, <1>8 DEF Next, Main, Work, Writer

\* The main thread, the workers and the writer use the queue of samples the way the
\* abstract queue allows: nobody pushes once it is closed, nobody closes it twice, and
\* the writer does not ask again once it was told that nothing more will come
\* (prober.cpp:73-131, 344-383, 605-637).
THEOREM SamplesAreAQueue == SafeSpec => UsesClosableQueue
  <1>1. Init => IInv /\ SInv /\ InBounds /\ SamplesQueue!Init
    BY InitIInv, InitSInv, InitInBounds DEF Init, H!Init, SamplesQueue!Init
  <1>2. IInv /\ SInv /\ InBounds /\ [Next]_vars => IInv' /\ SInv' /\ InBounds'
    BY NextIInv, NextSInv, NextInBounds
  <1>3. IInv /\ SInv /\ InBounds /\ [Next]_vars => [SamplesQueue!Next]_(SamplesQueue!vars)
    BY QueueStep
  <1> QED BY <1>1, <1>2, <1>3, PTL DEF SafeSpec, UsesClosableQueue, SamplesQueue!SafeSpec

-----------------------------------------------------------------------------
(* The detector *)

\* The detector as EventDetector has it, told any stamps.
D == INSTANCE EventDetectorProofs WITH Deltas <- Int

\* What is proved of it is proved of its configuration here.
LEMMA DetectorParameters ==
  /\ Targets \subseteq Nat \ {0} /\ D!IsFiniteSet(Targets)
  /\ FailThreshold \in Int
  /\ MinOutageMs \in Int
  /\ TriggerTraceroute \in BOOLEAN
  /\ AppendMayFail \in BOOLEAN
  /\ Int \subseteq Int
  /\ GapMs \subseteq Nat
  /\ MaxHist \in Nat
  <1>1. Cardinality(Targets) \in Nat
    BY PipelineAssumption, FS_CardinalityType
  <1>2. MaxHist \in Nat
    BY <1>1, PipelineAssumption DEF MaxHist
  <1>3. D!IsFiniteSet(Targets)
    BY PipelineAssumption DEF D!IsFiniteSet, IsFiniteSet
  <1> QED BY <1>2, <1>3, PipelineAssumption DEF AppendMayFail, GapMs

\* A step of the thread is one of the detector, or leaves it alone.
DetectorActs == [D!Next]_(D!vars)

\* A stamp is some way from the one before.
LEMMA AnyStamp ==
  ASSUME last_utc \in Nat, NEW utc \in Nat
  PROVE  utc \in D!Stamps
  <1>1. utc - last_utc \in Int /\ utc = last_utc + (utc - last_utc) /\ utc >= 0
    OBVIOUS
  <1> QED BY <1>1 DEF D!Stamps

\* The writer gives a result to the detector.
LEMMA SampleIsTold ==
  ASSUME NEW t \in Targets, NEW failed \in BOOLEAN, NEW utc \in Nat, last_utc \in Nat,
         H!Sample(t, failed, utc)
  PROVE  D!Next /\ last_utc' \in Nat
  <1>1. D!Sample(t, failed, utc)
    BY DEF H!Sample, D!Sample, H!Note, D!Note, H!log, D!log, H!LogEvent, D!LogEvent,
           H!CloseOutage, D!CloseOutage, H!LongEnough, D!LongEnough,
           H!AddFailureInOutage, D!AddFailureInOutage, H!AddSuccessInOutage,
           D!AddSuccessInOutage, H!AddSuccess, D!AddSuccess,
           H!AddFailureBelowThreshold, D!AddFailureBelowThreshold, H!OpenOutage,
           D!OpenOutage, H!CandStart, D!CandStart, H!Widespread, D!Widespread,
           H!count_failing, D!count_failing, H!Cardinality, D!Cardinality,
           H!IsFiniteSet, D!IsFiniteSet, H!NoTrace, D!NoTrace
  <1>2. utc \in D!Stamps /\ last_utc' = utc
    BY AnyStamp DEF H!Sample
  <1> QED BY <1>1, <1>2 DEF D!Next

\* Or a marker.
LEMMA GapIsTold ==
  ASSUME NEW utc \in Nat, last_utc \in Nat, H!Gap(SuspendMs, utc)
  PROVE  D!Next /\ last_utc' \in Nat
  <1>1. D!Gap(SuspendMs, utc)
    BY DEF H!Gap, D!Gap, H!Note, D!Note, H!LogEvent, D!LogEvent, H!GapStart, D!GapStart,
           H!ResetAfterGap, D!ResetAfterGap, H!NoTrace, D!NoTrace, H!Monitor, D!Monitor
  <1>2. utc \in D!Stamps /\ last_utc' = utc /\ SuspendMs \in GapMs
    BY AnyStamp DEF H!Gap, GapMs
  <1> QED BY <1>1, <1>2 DEF D!Next

\* Or ends it.
LEMMA EndIsTold ==
  ASSUME last_utc \in Nat,
         H!Stop \/ (\E t \in Targets : H!FinalizeOutage(t)) \/ H!Finalized
  PROVE  D!Next /\ last_utc' \in Nat
  <1>1. CASE H!Stop \/ H!Finalized
    <2>1. D!Stop \/ D!Finalized
      BY <1>1 DEF H!Stop, D!Stop, H!Finalized, D!Finalized, H!log, D!log
    <2>2. last_utc' = last_utc
      BY <1>1 DEF H!Stop, H!Finalized
    <2> QED BY <2>1, <2>2 DEF D!Next
  <1>2. ASSUME NEW t \in Targets, H!FinalizeOutage(t) PROVE D!Next /\ last_utc' \in Nat
    <2>1. D!FinalizeOutage(t)
      BY <1>2 DEF H!FinalizeOutage, D!FinalizeOutage, H!Note, D!Note, H!log, D!log,
                  H!LogEvent, D!LogEvent, H!CloseOutage, D!CloseOutage, H!LongEnough,
                  D!LongEnough
    <2>2. last_utc' = last_utc
      BY <1>2 DEF H!FinalizeOutage
    <2> QED BY <2>1, <2>2 DEF D!Next
  <1> QED BY <1>1, <1>2

\* The threads drive the detector, and nobody else touches it.
LEMMA DetectorStep ==
  ASSUME IInv, last_utc \in Nat, [Next]_vars
  PROVE  DetectorActs /\ last_utc' \in Nat
  <1>1. CASE WriteSample
    <2>1. samples \in Seq(Message) /\ samples # << >> /\ Head(samples).target # Monitor
      BY <1>1 DEF WriteSample, Take, IInv, Shape
    <2> PICK m \in Message : m = Head(samples)
      BY <2>1
    <2>2. H!Sample(m.target, m.failed, m.utc)
      BY <1>1 DEF WriteSample
    <2>3. m.target \in Targets /\ m.failed \in BOOLEAN /\ m.utc \in Nat
      BY <2>1 DEF Message
    <2> QED BY <2>2, <2>3, SampleIsTold DEF DetectorActs
  <1>2. CASE WriteGap
    <2>1. samples \in Seq(Message) /\ samples # << >>
      BY <1>2 DEF WriteGap, Take, IInv, Shape
    <2> PICK m \in Message : m = Head(samples)
      BY <2>1
    <2>2. H!Gap(SuspendMs, m.utc) /\ m.utc \in Nat
      BY <1>2 DEF WriteGap, Message
    <2> QED BY <2>2, GapIsTold DEF DetectorActs
  <1>3. CASE WriterStops \/ WriterFinalizes
    BY <1>3, EndIsTold DEF WriterStops, WriterFinalizes, DetectorActs
  <1>4. CASE \/ \E t \in Targets : PushJob(t)
             \/ \E w \in Workers : Work(w)
             \/ Shut \/ Main \/ WriterDies \/ Tracer \/ Suspend \/ Returned \/ UNCHANGED vars
    <2>1. UNCHANGED detector
      BY <1>4 DEF PushJob, Work, OpenHandle, TakeJob, FinishProbe, PushSample, WorkerReturns,
         Shut, Main, PushGap, JoinWorkers, JoinWriter, JoinTracer, WriterDies, Tracer,
         TakeTrace, FinishTrace, TracerReturns, Suspend, Returned, rest, tracer_rest, vars
    <2> QED BY <2>1 DEF detector, DetectorActs, D!vars, D!log
  <1> QED BY <1>1, <1>2, <1>3, <1>4 DEF Next, Writer

Clocked == IInv /\ last_utc \in Nat

\* The threads of run_prober use the detector as EventDetector has it, whatever the
\* workers' results overtake on their way: what is proved of it alone holds here
\* (prober.cpp:344-398, 493-505).
THEOREM DetectorIsDriven == SafeSpec => D!Spec
  <1>1. Init => Clocked /\ D!Init
    <2> SUFFICES ASSUME Init PROVE Clocked /\ D!Init
      OBVIOUS
    <2>1. D!Init /\ last_utc \in Nat
      BY DEF Init, H!Init, D!Init, H!Healthy, D!Healthy, H!NoTrace, D!NoTrace
    <2>2. IInv
      BY InitIInv
    <2> QED BY <2>1, <2>2 DEF Clocked
  <1>2. Clocked /\ [Next]_vars => Clocked' /\ [D!Next]_(D!vars)
    BY NextIInv, DetectorStep DEF DetectorActs, Clocked
  <1> QED BY <1>1, <1>2, PTL DEF SafeSpec, D!Spec

-----------------------------------------------------------------------------
(* The reports *)

\* The log is read here as it is in EventHistory.
LEMMA SameReading == D!LogMatchesHistory => H!LogMatchesHistory
  BY DEF D!LogMatchesHistory, H!LogMatchesHistory, D!InOrder, H!InOrder, D!OwnRows, H!OwnRows,
         D!Reported, H!Reported, D!Closed, H!Closed, D!Steps, H!Steps, D!Failures, H!Failures,
         D!Failure, H!Failure, D!Ends, H!Ends, D!Opens, H!Opens, D!RunReaches, H!RunReaches,
         D!RunFrom, H!RunFrom, D!Unbroken, H!Unbroken, D!Breaks, H!Breaks, D!EndOf, H!EndOf,
         D!LastProbe, H!LastProbe, D!Probe, H!Probe, D!RowOf, H!RowOf, D!WithoutId,
         H!WithoutId, D!Probes, H!Probes, D!SharedFault, H!SharedFault, D!FailingAt,
         H!FailingAt, D!NoTrace, H!NoTrace, D!Cardinality, H!Cardinality, D!IsFiniteSet,
         H!IsFiniteSet

\* The tracer ends when the writer is gone and no trace is left, and the writer when no
\* outage is open.
TracesDrained ==
  /\ traces_closed <=> main \in {"join tracer", "returned"}
  /\ tracer = "exited" => traces_closed /\ traced = Len(requests)
  /\ main = "returned" => tracer = "exited"
  /\ dead => phase = "running"
  /\ phase = "stopped" => \A t \in Targets : ~st[t].in_outage

\* The order of the ends holds at the start.
LEMMA InitTraces == ASSUME Init PROVE TracesDrained
  BY DEF Init, H!Init, TracesDrained

\* Every step keeps it.
LEMMA NextTraces ==
  ASSUME SInv, TracesDrained, [Next]_vars
  PROVE  TracesDrained'
  <1>1. traces_closed => dead \/ phase = "stopped"
    BY DEF SInv, SamplesDrained, TracesDrained
  <1>2. CASE WriteSample \/ WriteGap
    <2>1. ~dead /\ phase = "running" /\ ~traces_closed
      BY <1>1, <1>2 DEF WriteSample, WriteGap, H!Sample, H!Gap
    <2>2. UNCHANGED <<main, traced, traces_closed, tracer, dead, phase>>
      BY <1>2 DEF WriteSample, WriteGap, writer_rest, H!Sample, H!Gap
    <2> QED BY <2>1, <2>2 DEF TracesDrained
  <1>3. CASE WriterDies
    BY <1>3 DEF WriterDies, writer_rest, detector, TracesDrained
  <1>4. CASE WriterStops
    BY <1>4 DEF WriterStops, writer_rest, H!Stop, TracesDrained
  <1>5. CASE WriterFinalizes
    <2>1. phase = "finalizing" /\ phase' \in {"finalizing", "stopped"}
          /\ (phase' = "stopped" => st' = st /\ \A t \in Targets : ~st[t].in_outage)
          /\ UNCHANGED <<requests, main, traced, traces_closed, tracer, dead>>
      BY <1>5 DEF WriterFinalizes, writer_rest, H!FinalizeOutage, H!Finalized
    <2> QED BY <2>1 DEF TracesDrained
  <1>6. CASE Tracer
    <2>1. UNCHANGED <<st, requests, phase, main, dead, traces_closed>>
      BY <1>6 DEF Tracer, TakeTrace, FinishTrace, TracerReturns, tracer_rest, detector
    <2>2. tracer' = "exited" => traces_closed /\ traced' = Len(requests)
      BY <1>6 DEF Tracer, TakeTrace, FinishTrace, TracerReturns
    <2>3. tracer # "exited"
      BY <1>6 DEF Tracer, TakeTrace, FinishTrace, TracerReturns
    <2> QED BY <2>1, <2>2, <2>3 DEF TracesDrained
  <1>7. CASE JoinWriter
    BY <1>7 DEF JoinWriter, detector, TracesDrained
  <1>8. CASE JoinTracer
    BY <1>8 DEF JoinTracer, detector, TracesDrained
  <1>9. CASE \/ \E t \in Targets : PushJob(t)
             \/ Shut \/ PushGap \/ JoinWorkers
    <2>1. UNCHANGED <<st, requests, phase, dead, traced, traces_closed, tracer>>
          /\ main \notin {"join tracer", "returned"} /\ main' \notin {"join tracer", "returned"}
      BY <1>9 DEF PushJob, Shut, PushGap, JoinWorkers, detector
    <2> QED BY <2>1 DEF TracesDrained
  <1>10. CASE (\E w \in Workers : Work(w)) \/ Suspend \/ Returned \/ UNCHANGED vars
    <2>1. UNCHANGED <<st, requests, phase, dead, traced, traces_closed, tracer, main>>
      BY <1>10 DEF Work, OpenHandle, TakeJob, FinishProbe, PushSample, WorkerReturns, Suspend,
         Returned, rest, detector, vars
    <2> QED BY <2>1 DEF TracesDrained
  <1> QED BY <1>2, <1>3, <1>4, <1>5, <1>6, <1>7, <1>8, <1>9, <1>10 DEF Next, Main, Writer

\* Whatever overtakes what on the way to the writer, events.csv holds the outages of what
\* it was told; and when run_prober returns no outage is left open, unless the writer
\* returned early, and every trace asked for has been run (prober.cpp:344-398, 493-505,
\* 632-640).
THEOREM OutagesAreReported == SafeSpec => []AllOutagesReported
  <1>1. Init => IInv /\ SInv /\ TracesDrained
    BY InitIInv, InitSInv, InitTraces
  <1>2. IInv /\ SInv /\ TracesDrained /\ [Next]_vars => IInv' /\ SInv' /\ TracesDrained'
    BY NextIInv, NextSInv, NextTraces
  <1>3. SInv /\ TracesDrained /\ D!LogMatchesHistory => AllOutagesReported
    <2> SUFFICES ASSUME SInv, TracesDrained, D!LogMatchesHistory PROVE AllOutagesReported
      OBVIOUS
    <2>1. H!LogMatchesHistory
      BY SameReading
    <2>2. main = "returned" => traced = Len(requests) /\ (dead \/ phase = "stopped")
      BY DEF SInv, SamplesDrained, TracesDrained
    <2> QED BY <2>1, <2>2 DEF AllOutagesReported, TracesDrained
  <1>4. D!Spec => []D!LogMatchesHistory
    BY DetectorParameters, D!LogTellsHistory, PTL
  <1> QED BY <1>1, <1>2, <1>3, <1>4, DetectorIsDriven, PTL DEF SafeSpec

-----------------------------------------------------------------------------
(* The types *)

Pcs == {"starting", "idle", "probing", "stamped", "exited", "refused"}

\* What the bounds leave to the steps.
Flags ==
  /\ main \in {"scheduling", "join workers", "join writer", "join tracer", "returned"}
  /\ jobs_closed \in BOOLEAN /\ samples_closed \in BOOLEAN /\ traces_closed \in BOOLEAN
  /\ dead \in BOOLEAN /\ unseen \in BOOLEAN
  /\ traced \in Nat /\ tracer \in {"idle", "tracing", "exited"}
  /\ samples \in Seq(Result) /\ taken \in Seq(Result)

\* The flags are as declared at the start.
LEMMA InitFlags == ASSUME Init PROVE Flags
  <1>1. samples = << >> /\ taken = << >>
    BY DEF Init
  <1>2. samples \in Seq(Result) /\ taken \in Seq(Result)
    BY <1>1
  <1>3. /\ main = "scheduling" /\ tracer = "idle" /\ traced = 0
        /\ jobs_closed = FALSE /\ samples_closed = FALSE /\ traces_closed = FALSE
        /\ dead = FALSE /\ unseen = FALSE
    BY DEF Init
  <1> QED BY <1>2, <1>3 DEF Flags

\* Items pass through the queue as they are.
LEMMA QueueKeepsTypes ==
  ASSUME samples \in Seq(Result), taken \in Seq(Result),
         [SamplesQueue!Next]_(SamplesQueue!vars)
  PROVE  samples' \in Seq(Result) /\ taken' \in Seq(Result)
  <1>1. CASE SamplesQueue!Pop
    BY <1>1 DEF SamplesQueue!Pop
  <1>2. CASE \E x \in Result : SamplesQueue!Push(x)
    BY <1>2 DEF SamplesQueue!Push
  <1>3. CASE UNCHANGED <<samples, taken>>
    BY <1>3
  <1> QED BY <1>1, <1>2, <1>3
      DEF SamplesQueue!Next, SamplesQueue!Close, SamplesQueue!Finish, SamplesQueue!vars

\* Every step keeps them.
LEMMA NextFlags ==
  ASSUME IInv, SInv, InBounds, Flags, [Next]_vars
  PROVE  Flags'
  <1>1. samples' \in Seq(Result) /\ taken' \in Seq(Result)
    BY QueueStep, QueueKeepsTypes DEF Flags
  <1> USE <1>1 DEF Flags
  <1>2. CASE \/ \E t \in Targets : PushJob(t)
             \/ Shut \/ PushGap \/ JoinWorkers \/ JoinWriter \/ JoinTracer \/ Suspend
             \/ Returned \/ UNCHANGED vars
    <2>1. CASE (\E t \in Targets : PushJob(t)) \/ Shut \/ PushGap \/ JoinWorkers
      BY <2>1 DEF PushJob, Shut, PushGap, JoinWorkers
    <2>2. CASE JoinWriter \/ JoinTracer \/ Suspend \/ Returned \/ UNCHANGED vars
      BY <2>2 DEF JoinWriter, JoinTracer, Suspend, Returned, vars
    <2> QED BY <1>2, <2>1, <2>2
  <1>3. CASE \E w \in Workers : Work(w)
    BY <1>3 DEF Work, OpenHandle, TakeJob, FinishProbe, PushSample, WorkerReturns, rest
  <1>4. CASE Writer \/ WriterDies
    BY <1>4 DEF Writer, WriteSample, WriteGap, WriterStops, WriterFinalizes, WriterDies,
                writer_rest
  <1>5. CASE Tracer
    <2>1. UNCHANGED <<main, jobs_closed, samples_closed, traces_closed, dead, unseen>>
      BY <1>5 DEF Tracer, TakeTrace, FinishTrace, TracerReturns, tracer_rest
    <2>2. tracer' \in {"idle", "tracing", "exited"}
      BY <1>5 DEF Tracer, TakeTrace, FinishTrace, TracerReturns
    <2>3. traced' = traced \/ traced' = traced + 1
      BY <1>5 DEF Tracer, TakeTrace, FinishTrace, TracerReturns
    <2>4. traced \in Nat
      OBVIOUS
    <2>5. traced' \in Nat
      BY ONLY <2>3, <2>4
    <2>6. main' = main /\ jobs_closed' = jobs_closed /\ samples_closed' = samples_closed
          /\ traces_closed' = traces_closed /\ dead' = dead /\ unseen' = unseen
      BY <2>1
    <2>7. Flags
      OBVIOUS
    <2> QED BY ONLY <1>1, <2>2, <2>5, <2>6, <2>7 DEF Flags
  <1> QED BY <1>2, <1>3, <1>4, <1>5 DEF Next, Main

\* The jobs are as declared: their ids come from the counter.
LEMMA JobsTyped ==
  ASSUME IInv, InBounds
  PROVE  /\ issued \in 0 .. MaxJobs /\ awake \in 0 .. MaxSuspends
         /\ jobs \in Seq(Job) /\ written \in Seq(1 .. MaxJobs)
         /\ worker \in [Workers -> [pc : Pcs, result : Result]]
  <1>1. issued \in 0 .. MaxJobs /\ awake \in 0 .. MaxSuspends
    BY PipelineAssumption DEF IInv, Shape, InBounds
  <1>2. \A n \in 1 .. issued : n \in 1 .. MaxJobs
    BY <1>1, PipelineAssumption
  <1>3. jobs \in Seq(Job)
    <2>1. jobs \in Seq(Ticket)
      BY DEF IInv, Shape
    <2>2. \A i \in 1 .. Len(jobs) : jobs[i] \in Job
      <3> SUFFICES ASSUME NEW i \in 1 .. Len(jobs) PROVE jobs[i] \in Job
        OBVIOUS
      <3>1. jobs[i] \in Ticket /\ i \in DOMAIN jobs
        BY <2>1
      <3>2. jobs[i].id \in Ids(jobs)
        BY <3>1 DEF Ids, Ticket
      <3>3. jobs[i].id \in 1 .. MaxJobs
        BY <1>2, <3>2 DEF IInv, Placed
      <3> QED BY <3>1, <3>3 DEF Ticket, Job
    <2> QED BY <2>1, <2>2
  <1>4. written \in Seq(1 .. MaxJobs)
    <2>1. written \in Seq(Nat)
      BY DEF IInv, Shape
    <2>2. \A i \in 1 .. Len(written) : written[i] \in 1 .. MaxJobs
      <3> SUFFICES ASSUME NEW i \in 1 .. Len(written) PROVE written[i] \in 1 .. MaxJobs
        OBVIOUS
      <3>1. i \in DOMAIN written
        BY <2>1
      <3>2. written[i] \in Ids(taken)
        BY <3>1 DEF IInv, WrittenOnce
      <3>3. written[i] \in 1 .. issued
        BY <3>2 DEF IInv, Placed
      <3> QED BY <1>2, <3>3
    <2> PICK S : S = 1 .. MaxJobs
      OBVIOUS
    <2>3. \A i \in 1 .. Len(written) : written[i] \in S
      BY <2>2
    <2>4. written \in Seq(S)
      BY ONLY <2>1, <2>3
    <2> QED BY <2>4
  <1>5. worker \in [Workers -> [pc : Pcs, result : Result]]
    <2>1. worker \in [Workers -> [pc : Pcs, result : Message]]
      BY DEF IInv, Shape, Pcs
    <2>2. \A w \in Workers : worker[w] \in [pc : Pcs, result : Result]
      <3> SUFFICES ASSUME NEW w \in Workers PROVE worker[w] \in [pc : Pcs, result : Result]
        OBVIOUS
      <3> PICK r \in Message : r = worker[w].result
        BY <2>1
      <3>1. r.id \in 0 .. MaxJobs
        <4>1. r.id = 0 \/ r.id \in 1 .. issued
          BY DEF IInv, Placed, Held
        <4> QED BY <1>2, <4>1, PipelineAssumption
      <3>2. r.utc \in 0 .. LastUtc /\ r.at \in 0 .. MaxSuspends
        BY ClockInBounds, PipelineAssumption DEF Message, InBounds
      <3>3. r \in Result
        BY <3>1, <3>2 DEF Message, Result, LastUtc
      <3> QED BY <2>1, <3>3
    <2> QED BY <2>1, <2>2
  <1> QED BY <1>1, <1>3, <1>4, <1>5

\* The detector's types are read here as they are in EventDetector.
LEMMA SameTypes == D!TypeOK => H!TypeOK
  BY DEF D!TypeOK, H!TypeOK, D!OutageRow, H!OutageRow, D!GapRow, H!GapRow, D!TraceRef,
         H!TraceRef, D!NoTrace, H!NoTrace, D!Monitor, H!Monitor

\* Every variable of the threads stays of its type: no stamp, job number or suspension
\* count leaves its range on the way through the queues.
THEOREM PipelineTypes == SafeSpec => []TypeOK
  <1>1. Init => IInv /\ SInv /\ InBounds /\ Flags
    BY InitIInv, InitSInv, InitInBounds, InitFlags
  <1>2. IInv /\ SInv /\ InBounds /\ Flags /\ [Next]_vars
          => IInv' /\ SInv' /\ InBounds' /\ Flags'
    BY NextIInv, NextSInv, NextInBounds, NextFlags
  <1>3. IInv /\ InBounds /\ Flags /\ D!TypeOK => TypeOK
    BY JobsTyped, SameTypes DEF Flags, TypeOK, Pcs
  <1>4. D!Spec => []D!TypeOK
    BY DetectorParameters, D!TypeCorrect, PTL
  <1> QED BY <1>1, <1>2, <1>3, <1>4, DetectorIsDriven, PTL DEF SafeSpec
=============================================================================
