---------------------------- MODULE MCStoreBeside ----------------------------
(* Segments of three ticks, samples that may be a little out of order, one      *)
(* verify or export beside whatever the first process does, and at most one     *)
(* kill, of either.                                                             *)
EXTENDS StoreBeside
=============================================================================
