------------------------- MODULE BlockingQueueProofs -------------------------
(* Proofs about BlockingQueue, for any number of producers, consumers and      *)
(* items. The inductive invariant is TypeOK with three named parts: the        *)
(* relation between closed_ and the thread that closes, NoLostWakeup, and      *)
(* NulloptIsFinal. It also carries the refinement's safety part.               *)
EXTENDS BlockingQueue, SequenceTheorems, TLAPS

\* closed_ is set exactly while or after close() runs, when no producer is left.
CloserAgrees ==
  /\ closed <=> closer # "open"
  /\ closed => \A p \in Producers : pc[p] = "joined"

\* Once notify_all has run nobody can be asleep again.
NobodySleepsAfterClose ==
  closer = "closed" => \A c \in Consumers : pc[c] # "waiting"

IInv ==
  /\ TypeOK
  /\ CloserAgrees
  /\ NobodySleepsAfterClose
  /\ NoLostWakeup
  /\ NulloptIsFinal

\* The invariant holds at the start.
LEMMA InitInv == Init => IInv
<1> SUFFICES ASSUME Init PROVE IInv
  OBVIOUS
<1>1. /\ \A p \in Producers : pc[p] = "running"
      /\ \A c \in Consumers : pc[c] = "busy"
  BY QueueAssumption DEF Init
<1>2. TypeOK
  <2>1. q \in Seq(Item) /\ taken \in Seq(Item)
    BY DEF Init
  <2>2. sent \in [Producers -> 0 .. MaxPush]
    BY QueueAssumption DEF Init
  <2>3. pc \in [Producers \cup Consumers -> ProducerPc \cup ConsumerPc]
    BY DEF Init, ProducerPc, ConsumerPc
  <2> QED BY <1>1, <2>1, <2>2, <2>3 DEF Init, TypeOK, ProducerPc, ConsumerPc, CloserPc
<1>3. CloserAgrees /\ NobodySleepsAfterClose
  BY DEF Init, CloserAgrees, NobodySleepsAfterClose
<1>4. NoLostWakeup /\ NulloptIsFinal
  BY <1>1 DEF NoLostWakeup, NulloptIsFinal
<1> QED BY <1>2, <1>3, <1>4 DEF IInv

\* The type invariant is inductive by itself.
LEMMA TypeStep == TypeOK /\ [Next]_vars => TypeOK'
<1> SUFFICES ASSUME TypeOK, [Next]_vars PROVE TypeOK'
  OBVIOUS
<1> USE QueueAssumption DEF TypeOK, ProducerPc, ConsumerPc, CloserPc
<1>1. ASSUME NEW p \in Producers, Push(p) PROVE TypeOK'
  <2>1. sent[p] + 1 \in 1 .. MaxPush
    BY <1>1 DEF Push
  <2>2. <<p, sent[p] + 1>> \in Item
    BY <2>1 DEF Item
  <2>3. q' \in Seq(Item)
    BY <1>1, <2>2 DEF Push
  <2> QED BY <1>1, <2>1, <2>3 DEF Push
<1>2. ASSUME NEW p \in Producers, NotifyOne(p) PROVE TypeOK'
  BY <1>2 DEF NotifyOne
<1>3. ASSUME NEW p \in Producers, Join(p) PROVE TypeOK'
  BY <1>3 DEF Join
<1>4. ASSUME NEW c \in Consumers, PopItem(c) PROVE TypeOK'
  BY <1>4 DEF PopItem
<1>5. ASSUME NEW c \in Consumers, PopNullopt(c) PROVE TypeOK'
  BY <1>5 DEF PopNullopt
<1>6. ASSUME NEW c \in Consumers, Wait(c) PROVE TypeOK'
  BY <1>6 DEF Wait
<1>7. ASSUME NEW c \in Consumers, SpuriousWake(c) PROVE TypeOK'
  BY <1>7 DEF SpuriousWake
<1>8. CASE Close
  BY <1>8 DEF Close
<1>9. CASE NotifyAll
  BY <1>9 DEF NotifyAll
<1>10. CASE UNCHANGED vars
  BY <1>10 DEF vars
<1> QED BY <1>1, <1>2, <1>3, <1>4, <1>5, <1>6, <1>7, <1>8, <1>9, <1>10 DEF Next, Terminated

\* Every step keeps the invariant.
LEMMA InvStep == IInv /\ [Next]_vars => IInv'
<1> SUFFICES ASSUME IInv, [Next]_vars PROVE IInv'
  OBVIOUS
<1>0. TypeOK'
  BY TypeStep DEF IInv
<1> USE QueueAssumption DEF IInv, TypeOK, ProducerPc, ConsumerPc, CloserPc, CloserAgrees,
                        NobodySleepsAfterClose, NoLostWakeup, NulloptIsFinal, Awake
<1>1. ASSUME NEW p \in Producers, Push(p) PROVE IInv'
  BY <1>0, <1>1 DEF Push
<1>2. ASSUME NEW p \in Producers, NotifyOne(p) PROVE IInv'
  BY <1>0, <1>2 DEF NotifyOne
<1>3. ASSUME NEW p \in Producers, Join(p) PROVE IInv'
  BY <1>0, <1>3 DEF Join
<1>4. ASSUME NEW c \in Consumers, PopItem(c) PROVE IInv'
  BY <1>0, <1>4 DEF PopItem
<1>5. ASSUME NEW c \in Consumers, PopNullopt(c) PROVE IInv'
  BY <1>0, <1>5 DEF PopNullopt
<1>6. ASSUME NEW c \in Consumers, Wait(c) PROVE IInv'
  BY <1>0, <1>6 DEF Wait
<1>7. ASSUME NEW c \in Consumers, SpuriousWake(c) PROVE IInv'
  BY <1>0, <1>7 DEF SpuriousWake
<1>8. CASE Close
  BY <1>0, <1>8 DEF Close
<1>9. CASE NotifyAll
  BY <1>0, <1>9 DEF NotifyAll
<1>10. CASE UNCHANGED vars
  BY <1>0, <1>10 DEF vars
<1> QED BY <1>1, <1>2, <1>3, <1>4, <1>5, <1>6, <1>7, <1>8, <1>9, <1>10 DEF Next, Terminated

\* The invariant of every behaviour, fair or not.
LEMMA Invariant == SafeSpec => []IInv
  BY InitInv, InvStep, PTL DEF SafeSpec

\* Type correctness of the queue's state for every number of threads and items.
THEOREM TypeCorrect == SafeSpec => []TypeOK
  BY Invariant, PTL DEF IInv

\* notify_one and notify_all after the unlock never leave a consumer asleep
\* next to work, or next to a closed queue (queue.hpp:18-42).
THEOREM WakeupsAreNotLost == SafeSpec => []NoLostWakeup
  BY Invariant, PTL DEF IInv

\* pop() returns nullopt only when nothing is left and nothing will come.
THEOREM NulloptMeansDrained == SafeSpec => []NulloptIsFinal
  BY Invariant, PTL DEF IInv

-----------------------------------------------------------------------------
(* Delivery *)

\* A pop moves the boundary between what was taken and what is queued.
LEMMA PopKeepsAll ==
  ASSUME NEW S, NEW s \in Seq(S), NEW r \in Seq(S), r # << >>
  PROVE  Append(s, Head(r)) \o Tail(r) = s \o r
<1>1. Append(s, Head(r)) \o Tail(r) \in Seq(S) /\ s \o r \in Seq(S)
  OBVIOUS
<1>2. Len(Append(s, Head(r)) \o Tail(r)) = Len(s \o r)
  OBVIOUS
<1>3. \A i \in 1 .. Len(s \o r) : (Append(s, Head(r)) \o Tail(r))[i] = (s \o r)[i]
  OBVIOUS
<1> QED BY <1>1, <1>2, <1>3, SeqEqual

\* A push appends to what was taken and what is queued.
LEMMA PushExtendsAll ==
  ASSUME NEW S, NEW s \in Seq(S), NEW r \in Seq(S), NEW x \in S
  PROVE  s \o Append(r, x) = Append(s \o r, x)
<1>1. s \o Append(r, x) \in Seq(S) /\ Append(s \o r, x) \in Seq(S)
  OBVIOUS
<1>2. Len(s \o Append(r, x)) = Len(Append(s \o r, x))
  OBVIOUS
<1>3. \A i \in 1 .. Len(s \o Append(r, x)) : (s \o Append(r, x))[i] = Append(s \o r, x)[i]
  OBVIOUS
<1> QED BY <1>1, <1>2, <1>3, SeqEqual

\* Every step keeps the order of delivery.
LEMMA DeliveryStep == TypeOK /\ Delivery /\ [Next]_vars => Delivery'
<1> SUFFICES ASSUME TypeOK, Delivery, [Next]_vars PROVE Delivery'
  OBVIOUS
<1>0. q \in Seq(Item) /\ taken \in Seq(Item) /\ Passed \in Seq(Item)
  BY DEF TypeOK, Passed
<1>1. ASSUME NEW p \in Producers, Push(p) PROVE Delivery'
  <2> DEFINE x == <<p, sent[p] + 1>>
  <2>1. /\ sent[p] \in 0 .. MaxPush
        /\ sent[p] + 1 \in 1 .. MaxPush
        /\ x \in Item
    BY <1>1, QueueAssumption DEF Push, TypeOK, Item
  <2>2. Passed' = Append(Passed, x)
    BY <1>0, <1>1, <2>1, PushExtendsAll DEF Push, Passed
  <2>3. /\ Len(Passed') = Len(Passed) + 1
        /\ Passed'[Len(Passed) + 1] = x
        /\ \A i \in 1 .. Len(Passed) : Passed'[i] = Passed[i]
        /\ DOMAIN Passed = 1 .. Len(Passed)
        /\ DOMAIN Passed' = 1 .. Len(Passed) + 1
        /\ Len(Passed) \in Nat
    BY <1>0, <2>1, <2>2
  <2>4. sent' = [sent EXCEPT ![p] = @ + 1] /\ sent \in [Producers -> 0 .. MaxPush]
    BY <1>1 DEF Push, TypeOK
  <2> HIDE DEF x
  <2>5. ASSUME NEW o \in Producers, NEW k \in 1 .. MaxPush
        PROVE  (k <= sent'[o]) <=> \E i \in DOMAIN Passed' : Passed'[i] = <<o, k>>
    <3>1. (k <= sent[o]) <=> \E i \in DOMAIN Passed : Passed[i] = <<o, k>>
      BY DEF Delivery
    <3>2. CASE o = p /\ k = sent[p] + 1
      <4>1. sent'[o] = k
        BY <2>4, <3>2
      <4>2. k <= sent'[o]
        BY <2>1, <3>2, <4>1
      <4>3. Len(Passed) + 1 \in DOMAIN Passed' /\ Passed'[Len(Passed) + 1] = <<o, k>>
        BY <2>3, <3>2 DEF x
      <4> QED BY <4>2, <4>3
    <3>3. CASE ~(o = p /\ k = sent[p] + 1)
      <4>1. k <= sent'[o] <=> k <= sent[o]
        BY <2>1, <2>4, <3>3
      <4>2. x # <<o, k>>
        BY <3>3 DEF x
      <4>3. ASSUME NEW i \in DOMAIN Passed', Passed'[i] = <<o, k>>
            PROVE  i \in DOMAIN Passed /\ Passed[i] = <<o, k>>
        BY <2>3, <4>2, <4>3 DEF x
      <4>4. ASSUME NEW i \in DOMAIN Passed, Passed[i] = <<o, k>>
            PROVE  i \in DOMAIN Passed' /\ Passed'[i] = <<o, k>>
        BY <2>3, <4>4
      <4> QED BY <3>1, <4>1, <4>3, <4>4
    <3> QED BY <3>2, <3>3
  <2>6. ASSUME NEW i \in DOMAIN Passed', NEW j \in DOMAIN Passed', i < j, Passed'[i][1] = Passed'[j][1]
        PROVE  Passed'[i][2] < Passed'[j][2]
    <3>1. i \in 1 .. Len(Passed) /\ Passed'[i] = Passed[i] /\ Passed[i] \in Item
      BY <1>0, <2>3, <2>6
    <3>2. CASE j \in 1 .. Len(Passed)
      <4>1. Passed'[j] = Passed[j]
        BY <2>3, <3>2
      <4> QED BY <2>3, <2>6, <3>1, <3>2, <4>1 DEF Delivery
    <3>3. CASE j = Len(Passed) + 1
      <4>1. Passed'[j] = x
        BY <2>3, <3>3
      <4>2. PICK o \in Producers, k \in 1 .. MaxPush : Passed[i] = <<o, k>>
        BY <3>1 DEF Item
      <4>4. o = p
        BY <2>6, <3>1, <4>1, <4>2 DEF x
      <4>3. k <= sent[p]
        BY <2>3, <3>1, <4>2, <4>4 DEF Delivery
      <4> QED BY <2>1, <3>1, <4>1, <4>2, <4>3 DEF x
    <3> QED BY <2>3, <3>2, <3>3
  <2>7. \A o \in Producers, k \in 1 .. MaxPush :
          (k <= sent'[o]) <=> \E i \in DOMAIN Passed' : Passed'[i] = <<o, k>>
    BY <2>5
  <2>8. \A i, j \in DOMAIN Passed' :
          i < j /\ Passed'[i][1] = Passed'[j][1] => Passed'[i][2] < Passed'[j][2]
    BY <2>6
  <2> QED BY <2>7, <2>8 DEF Delivery
<1>2. ASSUME NEW c \in Consumers, PopItem(c) PROVE Delivery'
  <2>1. Passed' = Passed
    BY <1>0, <1>2, PopKeepsAll DEF PopItem, Passed
  <2>2. sent' = sent
    BY <1>2 DEF PopItem
  <2> QED BY <2>1, <2>2 DEF Delivery
<1>3. ASSUME UNCHANGED <<q, taken, sent>> PROVE Delivery'
  <2>1. Passed' = Passed /\ sent' = sent
    BY <1>3 DEF Passed
  <2> QED BY <2>1 DEF Delivery
<1>4. ASSUME NEW p \in Producers, NotifyOne(p) \/ Join(p) PROVE UNCHANGED <<q, taken, sent>>
  BY <1>4 DEF NotifyOne, Join
<1>5. ASSUME NEW c \in Consumers, PopNullopt(c) \/ Wait(c) \/ SpuriousWake(c)
      PROVE  UNCHANGED <<q, taken, sent>>
  BY <1>5 DEF PopNullopt, Wait, SpuriousWake
<1>6. ASSUME Close \/ NotifyAll \/ Terminated \/ UNCHANGED vars PROVE UNCHANGED <<q, taken, sent>>
  BY <1>6 DEF Close, NotifyAll, Terminated, vars
<1> QED BY <1>1, <1>2, <1>3, <1>4, <1>5, <1>6 DEF Next

\* Every item is delivered once, in its producer's order, for any number of
\* producers and consumers: no sample a worker pushes is dropped or doubled.
THEOREM EveryItemOnceInOrder == SafeSpec => []Delivery
<1>1. Init => Delivery
  BY QueueAssumption DEF Init, Delivery, Passed
<1> QED BY <1>1, TypeCorrect, DeliveryStep, PTL DEF SafeSpec

-----------------------------------------------------------------------------
(* Refinement *)

\* Every step is one of the abstract queue, or none.
LEMMA AbstractStep == IInv /\ [Next]_vars => [Abstract!Next]_(Abstract!vars)
<1> SUFFICES ASSUME IInv, [Next]_vars PROVE [Abstract!Next]_(Abstract!vars)
  OBVIOUS
<1> DEFINE fin == {c \in Consumers : pc[c] = "finished"}
<1> USE QueueAssumption DEF IInv, TypeOK
<1>1. ASSUME NEW p \in Producers, Push(p) PROVE Abstract!Next
  <2>1. fin' = fin
    BY <1>1 DEF Push
  <2>2. <<p, sent[p] + 1>> \in Item
    BY <1>1 DEF Push, Item
  <2>3. ~closed
    BY <1>1 DEF Push, CloserAgrees
  <2>4. Abstract!Push(<<p, sent[p] + 1>>)
    BY <1>1, <2>1, <2>3 DEF Push, Abstract!Push
  <2> QED BY <2>2, <2>4 DEF Abstract!Next
<1>2. ASSUME NEW c \in Consumers, PopItem(c) PROVE Abstract!Next
  <2>1. fin' = fin /\ fin # Consumers
    BY <1>2 DEF PopItem
  <2> QED BY <1>2, <2>1 DEF PopItem, Abstract!Pop, Abstract!Next
<1>3. ASSUME NEW c \in Consumers, PopNullopt(c) PROVE Abstract!Next
  <2>1. fin' = fin \cup {c}
    BY <1>3 DEF PopNullopt
  <2> QED BY <1>3, <2>1 DEF PopNullopt, Abstract!Finish, Abstract!Next
<1>4. ASSUME Close PROVE Abstract!Next
  BY <1>4 DEF Close, CloserAgrees, Abstract!Close, Abstract!Next
<1>5. ASSUME NEW p \in Producers, NotifyOne(p) \/ Join(p) PROVE UNCHANGED Abstract!vars
  <2>1. fin' = fin
    BY <1>5 DEF NotifyOne, Join
  <2> QED BY <1>5, <2>1 DEF NotifyOne, Join, Abstract!vars
<1>6. ASSUME NEW c \in Consumers, Wait(c) \/ SpuriousWake(c) PROVE UNCHANGED Abstract!vars
  <2>1. fin' = fin
    BY <1>6 DEF Wait, SpuriousWake
  <2> QED BY <1>6, <2>1 DEF Wait, SpuriousWake, Abstract!vars
<1>7. ASSUME NotifyAll PROVE UNCHANGED Abstract!vars
  <2>1. fin' = fin
    BY <1>7 DEF NotifyAll
  <2> QED BY <1>7, <2>1 DEF NotifyAll, Abstract!vars
<1>8. ASSUME Terminated \/ UNCHANGED vars PROVE UNCHANGED Abstract!vars
  BY <1>8 DEF Terminated, vars, Abstract!vars
<1> QED BY <1>1, <1>2, <1>3, <1>4, <1>5, <1>6, <1>7, <1>8 DEF Next

\* The queue with its condition variable implements the closable FIFO its users
\* rely on: every behaviour of the code is one of ClosableQueue.
THEOREM RefinesClosableQueue == SafeSpec => Abstract!SafeSpec
<1>1. Init => Abstract!Init
  BY QueueAssumption DEF Init, Abstract!Init
<1> QED BY <1>1, AbstractStep, Invariant, PTL DEF SafeSpec, Abstract!SafeSpec
=============================================================================
