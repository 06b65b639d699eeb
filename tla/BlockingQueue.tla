---------------------------- MODULE BlockingQueue ----------------------------
(* util/queue.hpp: the queue the prober's threads talk through, with its      *)
(* condition variable. Each critical section of the code (the blocks that     *)
(* hold m_) is one action, because the mutex admits nothing between its       *)
(* steps; what happens after the unlock (notify_one, notify_all) is an action *)
(* of its own, so other threads run between a push and its notification.      *)
(*                                                                            *)
(* The queue is used as run_prober uses it: close() is called once, after the *)
(* producers have been joined (prober.cpp:633-638).                           *)
EXTENDS Naturals, Sequences

CONSTANTS Producers,   \* threads that push
          Consumers,   \* threads that loop on pop() until it returns nullopt
          MaxPush      \* bound: items a producer pushes

ASSUME QueueAssumption ==
  /\ Producers \cap Consumers = {}
  /\ Consumers # {}
  /\ MaxPush \in Nat

VARIABLES q,        \* q_
          closed,   \* closed_
          pc,       \* where each thread is
          closer,   \* where the thread that calls close() is
          sent,     \* items each producer has pushed
          taken     \* history: items popped, in order

vars == <<q, closed, pc, closer, sent, taken>>

\* The k-th item a producer pushes.
Item == Producers \X (1 .. MaxPush)

ProducerPc == {"running", "notify", "joined"}
\* "busy": outside pop() or about to call it.  "waiting": blocked in cv_.wait.
\* "woken": taken off the condition variable, about to re-check the predicate.
ConsumerPc == {"busy", "waiting", "woken", "finished"}
CloserPc   == {"open", "notify", "closed"}

TypeOK ==
  /\ q \in Seq(Item)
  /\ closed \in BOOLEAN
  /\ pc \in [Producers \cup Consumers -> ProducerPc \cup ConsumerPc]
  /\ \A p \in Producers : pc[p] \in ProducerPc
  /\ \A c \in Consumers : pc[c] \in ConsumerPc
  /\ closer \in CloserPc
  /\ sent \in [Producers -> 0 .. MaxPush]
  /\ taken \in Seq(Item)

Init ==
  /\ q = << >>
  /\ closed = FALSE
  /\ pc = [t \in Producers \cup Consumers |->
             IF t \in Producers THEN "running" ELSE "busy"]
  /\ closer = "open"
  /\ sent = [p \in Producers |-> 0]
  /\ taken = << >>

-----------------------------------------------------------------------------
\* Slips the code could contain; each is checked to break a property below.

PushWithoutNotify(p) ==
  /\ pc[p] = "running"
  /\ sent[p] < MaxPush
  /\ q' = Append(q, <<p, sent[p] + 1>>)
  /\ sent' = [sent EXCEPT ![p] = @ + 1]
  /\ UNCHANGED <<closed, pc, closer, taken>>

PushMovedFrom(p) ==
  /\ pc[p] = "running"
  /\ sent[p] < MaxPush
  /\ q' = Append(q, <<p, 0>>)
  /\ sent' = [sent EXCEPT ![p] = @ + 1]
  /\ pc' = [pc EXCEPT ![p] = "notify"]
  /\ UNCHANGED <<closed, closer, taken>>

PopNewest(c) ==
  /\ pc[c] \in {"busy", "woken"}
  /\ q # << >>
  /\ taken' = Append(taken, q[Len(q)])
  /\ q' = SubSeq(q, 1, Len(q) - 1)
  /\ pc' = [pc EXCEPT ![c] = "busy"]
  /\ UNCHANGED <<closed, closer, sent>>

FinishWhenClosed(c) ==
  /\ pc[c] \in {"busy", "woken"}
  /\ closed
  /\ pc' = [pc EXCEPT ![c] = "finished"]
  /\ UNCHANGED <<q, closed, closer, sent, taken>>

NotifyOneOnClose ==
  /\ closer = "notify"
  /\ closer' = "closed"
  /\ \/ \E c \in Consumers :
          /\ pc[c] = "waiting"
          /\ pc' = [pc EXCEPT ![c] = "woken"]
     \/ /\ \A c \in Consumers : pc[c] # "waiting"
        /\ pc' = pc
  /\ UNCHANGED <<q, closed, sent, taken>>

-----------------------------------------------------------------------------
(* Producers *)

\* push(): lock, push_back, unlock.
Push(p) ==
  /\ pc[p] = "running"
  /\ sent[p] < MaxPush
  /\ q' = Append(q, <<p, sent[p] + 1>>)
  /\ sent' = [sent EXCEPT ![p] = @ + 1]
  /\ pc' = [pc EXCEPT ![p] = "notify"]
  /\ UNCHANGED <<closed, closer, taken>>

\* push(): cv_.notify_one(), after the unlock.
NotifyOne(p) ==
  /\ pc[p] = "notify"
  /\ \/ \E c \in Consumers :
          /\ pc[c] = "waiting"
          /\ pc' = [pc EXCEPT ![p] = "running", ![c] = "woken"]
     \/ /\ \A c \in Consumers : pc[c] # "waiting"
        /\ pc' = [pc EXCEPT ![p] = "running"]
  /\ UNCHANGED <<q, closed, closer, sent, taken>>

\* The producer's thread ends and is joined.
Join(p) ==
  /\ pc[p] = "running"
  /\ pc' = [pc EXCEPT ![p] = "joined"]
  /\ UNCHANGED <<q, closed, closer, sent, taken>>

-----------------------------------------------------------------------------
(* Consumers: the three outcomes of the critical section of pop() *)

\* The predicate holds and the queue is not empty: take the front.
PopItem(c) ==
  /\ pc[c] \in {"busy", "woken"}
  /\ q # << >>
  /\ taken' = Append(taken, Head(q))
  /\ q' = Tail(q)
  /\ pc' = [pc EXCEPT ![c] = "busy"]
  /\ UNCHANGED <<closed, closer, sent>>

\* The predicate holds because the queue is closed, and nothing is left.
PopNullopt(c) ==
  /\ pc[c] \in {"busy", "woken"}
  /\ q = << >>
  /\ closed
  /\ pc' = [pc EXCEPT ![c] = "finished"]
  /\ UNCHANGED <<q, closed, closer, sent, taken>>

\* The predicate is false: release m_ and block.
Wait(c) ==
  /\ pc[c] \in {"busy", "woken"}
  /\ q = << >>
  /\ ~closed
  /\ pc' = [pc EXCEPT ![c] = "waiting"]
  /\ UNCHANGED <<q, closed, closer, sent, taken>>

\* A condition variable may wake a thread for no reason.
SpuriousWake(c) ==
  /\ pc[c] = "waiting"
  /\ pc' = [pc EXCEPT ![c] = "woken"]
  /\ UNCHANGED <<q, closed, closer, sent, taken>>

-----------------------------------------------------------------------------
(* The thread that closes the queue *)

\* close(): lock, closed_ = true, unlock; the producers have been joined.
Close ==
  /\ closer = "open"
  /\ \A p \in Producers : pc[p] = "joined"
  /\ closed' = TRUE
  /\ closer' = "notify"
  /\ UNCHANGED <<q, pc, sent, taken>>

\* close(): cv_.notify_all(), after the unlock.
NotifyAll ==
  /\ closer = "notify"
  /\ closer' = "closed"
  /\ pc' = [t \in Producers \cup Consumers |->
              IF pc[t] = "waiting" THEN "woken" ELSE pc[t]]
  /\ UNCHANGED <<q, closed, sent, taken>>

\* Every thread has returned.
Terminated ==
  /\ closer = "closed"
  /\ \A c \in Consumers : pc[c] = "finished"
  /\ UNCHANGED vars

Next ==
  \/ \E p \in Producers : Push(p) \/ NotifyOne(p) \/ Join(p)
  \/ \E c \in Consumers : PopItem(c) \/ PopNullopt(c) \/ Wait(c) \/ SpuriousWake(c)
  \/ Close
  \/ NotifyAll
  \/ Terminated

\* A thread that has left a critical section or been woken runs on; a consumer
\* finishes what it does with an item and calls pop() again. Nothing obliges a
\* producer to push or a condition variable to wake spuriously.
Fairness ==
  /\ \A p \in Producers : WF_vars(NotifyOne(p))
  /\ \A c \in Consumers : WF_vars(PopItem(c) \/ PopNullopt(c) \/ Wait(c))
  /\ WF_vars(NotifyAll)

SafeSpec == Init /\ [][Next]_vars
Spec     == SafeSpec /\ Fairness

-----------------------------------------------------------------------------
(* Properties *)

Awake(c) == pc[c] \in {"busy", "woken"}

\* No wake-up is lost although the notification comes after the unlock: while
\* an item is queued and a consumer sleeps, a notification is still to come or
\* some consumer is awake and will look at the queue; and once the queue is
\* closed, a sleeping consumer still has notify_all coming.
NoLostWakeup ==
  \A c \in Consumers : pc[c] = "waiting" =>
    /\ q # << >> => \/ \E p \in Producers : pc[p] = "notify"
                    \/ \E d \in Consumers : Awake(d)
                    \/ closer = "notify"
    /\ closed => closer = "notify"

\* All items pushed so far, the popped ones first.
Passed == taken \o q

\* Everything pushed is in the queue or was popped, once, and items of one
\* producer leave in the order it pushed them, whatever consumer takes them.
Delivery ==
  /\ \A p \in Producers, k \in 1 .. MaxPush :
       (k <= sent[p]) <=> \E i \in DOMAIN Passed : Passed[i] = <<p, k>>
  /\ \A i, j \in DOMAIN Passed :
       i < j /\ Passed[i][1] = Passed[j][1] => Passed[i][2] < Passed[j][2]

\* "After close(), pop() returns remaining items then std::nullopt forever"
\* (queue.hpp:13): a consumer told nullopt never leaves an item behind.
NulloptIsFinal ==
  \A c \in Consumers : pc[c] = "finished" => closed /\ q = << >>

\* The queue with its condition variable implements the queue its users see, its
\* liveness included: an item is popped, and close() releases every consumer, which
\* run_prober relies on when it joins the threads.
Abstract == INSTANCE ClosableQueue
              WITH finished <- {c \in Consumers : pc[c] = "finished"}
ImplementsClosableQueue == Abstract!Spec
=============================================================================
