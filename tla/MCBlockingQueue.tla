--------------------------- MODULE MCBlockingQueue ---------------------------
(* Two producers and two consumers, two items each: enough for two             *)
(* notifications in flight, for a sleeping and a busy consumer, and for items  *)
(* left in the queue when it is closed.                                        *)
EXTENDS BlockingQueue
=============================================================================
