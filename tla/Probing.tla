------------------------------- MODULE Probing -------------------------------
(* What becomes of an answer of the network: the result of a probe              *)
(* (prober/icmp_probe.cpp, tcp_probe.cpp), the hops of a traceroute             *)
(* (traceroute.cpp), and the twelve bytes a result is stored in                 *)
(* (storage/record_codec.cpp). A byte has Byte values, so that the edges of two *)
(* and of four bytes are within reach.                                          *)
EXTENDS Integers, SequencesExt

CONSTANT Byte

ASSUME ByteAssumption == Byte \in Nat /\ Byte >= 7

StatusNames == <<"Ok", "Timeout", "DestUnreach", "TtlExpired", "OtherIcmpErr", "SendErr">>
Code(status) == CHOOSE k \in 0 .. 5 : StatusNames[k + 1] = status

RttNa == Byte * Byte - 1

\* An answer to an ICMP echo is its IP status, with the sender and the time in ms
\* if there is one at all; else no reply came, or none could be asked for.
Silent == {"timed out", "call failed"}

-----------------------------------------------------------------------------
\* map_ip_status() of a reply; statuses that are treated alike are one.
map_ip_status == [success |-> "Ok", late |-> "Timeout", unreachable |-> "DestUnreach",
                  expired |-> "TtlExpired", other |-> "OtherIcmpErr"]

Without(status) == [status |-> status, reply_ttl |-> 0, rtt |-> RttNa, src |-> 0]

\* A round trip in tenths of a millisecond, kept clear of "not available".
RttTenths(tenths) == IF tenths >= RttNa THEN RttNa - 1 ELSE tenths

\* IcmpProbe::ping(): to a hop probe, the router where the TTL expires is the
\* one that is asked for.
Ping(answer, hop_probe) ==
  IF answer.status \in Silent
  THEN Without(IF answer.status = "timed out" THEN "Timeout" ELSE "SendErr")
  ELSE LET status == IF hop_probe /\ answer.status = "expired" THEN "Ok"
                     ELSE map_ip_status[answer.status]
       IN [status |-> status, reply_ttl |-> answer.ttl,
           rtt |-> IF status = "Ok" THEN RttTenths(answer.ms * 10) ELSE RttNa,
           src |-> IF status = "Ok" /\ ~hop_probe THEN 0 ELSE answer.addr]

\* tcp_ping(): a refusal is an answer. The time is measured in halves of a tenth.
TcpPing(answer) ==
  CASE answer.status = "immediate" -> [Without("Ok") EXCEPT !.rtt = 0]
    [] answer.status \in {"no socket", "cannot connect", "select failed"} -> Without("SendErr")
    [] answer.status \in {"connected", "refused"} ->
         [Without("Ok") EXCEPT !.rtt = IF answer.halves >= 2 * RttNa THEN RttNa - 1
                                       ELSE (answer.halves + 1) \div 2]
    [] answer.status = "unreachable" -> Without("DestUnreach")
    [] answer.status \in {"timed out", "other"} -> Without("Timeout")

-----------------------------------------------------------------------------
(* traceroute() *)

\* The responders of a hop, each once, in the order they were first heard, from
\* the answers to the probes with its TTL; the time of the fastest is left out.
Replies(answers) ==
  FoldLeft(LAMBDA seen, a : IF a.status \in Silent \/ Contains(seen, a.addr) THEN seen
                            ELSE Append(seen, a.addr), << >>, answers)

Reached(answers) == \E k \in DOMAIN answers : answers[k].status = "success"

\* The sweep ends with the hop where the destination answers.
Hops(path) ==
  LET last == {n \in DOMAIN path : Reached(path[n]) /\ \A k \in 1 .. n - 1 : ~Reached(path[k])}
  IN  [n \in 1 .. (IF last = {} THEN Len(path) ELSE CHOOSE l \in last : TRUE) |->
         Replies(path[n])]

-----------------------------------------------------------------------------
(* Values of 16 and of 32 bits, and a record, as bytes, the low one first *)

put_u16(v) == <<v % Byte, v \div Byte>>
put_u32(v) == put_u16(v % (Byte * Byte)) \o put_u16(v \div (Byte * Byte))
get_u16(bytes, at) == bytes[at] + Byte * bytes[at + 1]
get_u32(bytes, at) == get_u16(bytes, at) + Byte * Byte * get_u16(bytes, at + 2)

encode_record(r) ==
  put_u16(r.target_id) \o put_u32(r.t_offset) \o <<r.status, r.reply_ttl>>
  \o put_u16(r.rtt) \o put_u16(r.src_id)

decode_record(bytes) ==
  [target_id |-> get_u16(bytes, 1), t_offset |-> get_u32(bytes, 3),
   status |-> bytes[7], reply_ttl |-> bytes[8],
   rtt |-> get_u16(bytes, 9), src_id |-> get_u16(bytes, 11)]
=============================================================================
