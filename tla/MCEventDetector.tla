--------------------------- MODULE MCEventDetector ---------------------------
(* Three targets are the fewest for a shared fault, which takes all three of     *)
(* them. Histories are bounded by MaxHist: six steps hold two outages of one     *)
(* target with a gap, a shutdown or a crash within or between them, or one that  *)
(* opens while the two other targets fail.                                       *)
EXTENDS EventHistory
=============================================================================
