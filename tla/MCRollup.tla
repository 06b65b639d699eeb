------------------------------- MODULE MCRollup -------------------------------
(* Two targets, minutes of two ticks and two of them; three samples, so that a   *)
(* minute can hold two of one target in one row and a third in another, after a  *)
(* restart or because it is late.                                                *)
EXTENDS Rollup
=============================================================================
