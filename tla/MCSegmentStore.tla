--------------------------- MODULE MCSegmentStore ---------------------------
(* Segments of two ticks. Time starts at 2, so that a sample stamped before the  *)
(* segment it falls in is possible, and runs over three slots: a segment can be  *)
(* left by a kill, recovered in its own slot or a later one, and followed by two *)
(* more. Three records and two kills or failures are the fewest that leave      *)
(* records of one slot in a .zst and in a part at once and stop their recovery.  *)
EXTENDS SegmentStore
=============================================================================
