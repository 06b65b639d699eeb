------------------------------ MODULE MCRecording ------------------------------
(* Three kinds of targets, the TCP one added by the user; a byte of eight        *)
(* values, so that a round trip of 6.3 ms is the end of the range; answers on    *)
(* both sides of every edge; two probes, which may be in a run each, and two     *)
(* edits or discovers before, between and after them.                           *)
EXTENDS Recording

Target(name, address, method) == [name |-> <<name>>, address |-> address, method |-> method]
FirstTwo == <<Target("gw", 7, "icmp"), Target("hop", 8, "hop")>>
OneMore  == {Target("web", 9, "tcp"), Target("aimless", 6, "rejected")}

Says(status, ms, addr, at) == [status |-> status, ms |-> ms, ttl |-> 5, addr |-> addr, at |-> at]
Silence == [status |-> "timed out", at |-> 9]
EchoAnswers ==
  {Says("success", 7, 3, 9), Says("expired", 0, 1, 9), Says("expired", 6, 2, -1),
   Says("unreachable", 3, 3, 9), Silence}
ConnectAnswers ==
  {[status |-> "connected", halves |-> h, at |-> 9] : h \in {1, 125, 126}}
  \cup {[status |-> "refused", halves |-> 4, at |-> -1], [status |-> "unreachable", at |-> 9]}

\* The second finds another router at a hop of the first: its name comes twice.
Routes == {<< <<Says("expired", 1, 1, 0), Says("expired", 1, 2, 0)>>, <<Says("success", 2, 7, 0)>> >>,
           << <<Says("expired", 1, 3, 0), Says("expired", 1, 1, 0)>>, <<Silence, Silence>>,
              <<Says("success", 2, 7, 0)>> >>}
=============================================================================
