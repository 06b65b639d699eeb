---------------------------- MODULE ClosableQueue ----------------------------
(* What BlockingQueue<T> (util/queue.hpp) promises to the threads that share  *)
(* it, with the mutex and the condition variable hidden: a FIFO that is       *)
(* closed once its producers are done, that hands every item to exactly one   *)
(* consumer, and that then tells every consumer that nothing more will come.  *)
(* BlockingQueue implements this specification; Pipeline uses its queues the  *)
(* way this specification describes them.                                     *)
EXTENDS Sequences

CONSTANTS Consumers,  \* the threads that call pop()
          Item        \* what may be queued

VARIABLES q,          \* items pushed and not yet popped, oldest first
          closed,     \* close() has been called
          taken,      \* items popped so far, in the order they were popped
          finished    \* consumers whose pop() returned nullopt

vars == <<q, closed, taken, finished>>

Init ==
  /\ q = << >>
  /\ closed = FALSE
  /\ taken = << >>
  /\ finished = {}

Push(x) ==
  /\ ~closed
  /\ q' = Append(q, x)
  /\ UNCHANGED <<closed, taken, finished>>

\* Some consumer receives the oldest item.
Pop ==
  /\ q # << >>
  /\ finished # Consumers
  /\ taken' = Append(taken, Head(q))
  /\ q' = Tail(q)
  /\ UNCHANGED <<closed, finished>>

Close ==
  /\ ~closed
  /\ closed' = TRUE
  /\ UNCHANGED <<q, taken, finished>>

\* Consumer c learns that the queue is closed and drained.
Finish(c) ==
  /\ closed
  /\ q = << >>
  /\ finished' = finished \cup {c}
  /\ UNCHANGED <<q, closed, taken>>

Next ==
  \/ \E x \in Item : Push(x)
  \/ Pop
  \/ Close
  \/ \E c \in Consumers : Finish(c)

\* A queued item does not stay queued, and a closed and drained queue releases
\* every consumer.
Fairness ==
  /\ WF_vars(Pop)
  /\ \A c \in Consumers : WF_vars(Finish(c))

SafeSpec == Init /\ [][Next]_vars
Spec     == SafeSpec /\ Fairness
=============================================================================
