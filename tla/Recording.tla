------------------------------ MODULE Recording ------------------------------
(* The way of the data: from config.json, which a user edits and discover       *)
(* extends, over the ids a run gives its targets, the results of their probes,  *)
(* the router ids of the registry and the stored bytes, to what export and      *)
(* analyze tell of a probe, possibly runs and edits later (config.cpp,          *)
(* discover.cpp, prober.cpp:250-262, 385-397, 508-541, exporter.cpp,            *)
(* analyzer.cpp). How files are kept is in SegmentStore, how rows are filled in *)
(* Rollup; here every run has one segment, every probe one row of the rollups,  *)
(* and nothing stored is lost.                                                  *)
EXTENDS AddressRegistry, Probing, FiniteSets

CONSTANTS FirstConfig,  \* the targets of config.json at the beginning
          UserTargets,  \* targets a user may add
          Dest,         \* the destination of a discover
          Paths,        \* what its traceroute may see: for each hop, the answers
          Answers,      \* answers to an ICMP echo; `at` is when the probe ends,
          TcpAnswers,   \* or that to a TCP connect, from the start of the segment
          MaxUnresolved,  \* bound: targets a run cannot resolve
          MaxProbes,    \* bound: probes
          MaxEdits      \* bound: changes of config.json

\* Both sorts of ICMP targets and TCP targets; a target that load_config() would
\* reject has no method.
Methods == {"icmp", "hop", "tcp"}

\* What may be answered to an echo, and to a connect.
Echo(addrs) ==
  [status : Silent, at : Int]
  \cup [status : DOMAIN map_ip_status, ms : Nat, ttl : 0 .. Byte - 1, addr : addrs, at : Int]
Connect ==
  [status : {"immediate", "no socket", "cannot connect", "select failed", "unreachable",
             "timed out", "other"}, at : Int]
  \cup [status : {"connected", "refused"}, halves : Nat, at : Int]

ASSUME RecordingAssumption ==
  /\ IdSpace <= Byte * Byte
  /\ MaxUnresolved \in Nat /\ MaxProbes \in Nat /\ MaxEdits \in Nat
  /\ FirstConfig \in Seq(ToSet(FirstConfig))
  /\ \A i \in DOMAIN FirstConfig : FirstConfig[i].method \in Methods
  /\ Answers \subseteq Echo(Addrs \cup {0}) /\ TcpAnswers \subseteq Connect
  /\ \A path \in Paths : path \in Seq(Seq(Echo(Nat))) /\ Len(path) > 0

VARIABLES config,   \* the targets in config.json
          loaded,   \* those the prober has loaded; a target's id is its position
          active,   \* the ids of those it probes
          stored,   \* the raw records: the names in their segment, and their bytes
          rollup,   \* the rows of the rollups, one for each probe
          probed,   \* history: the target of each probe and the answer
          edits,    \* changes of config.json so far
          edited    \* history: one of them was the user's

data == <<config, loaded, active, stored, rollup, probed, edits, edited>>

RecordingTypeOK ==
  /\ TypeOK
  /\ \A i \in DOMAIN loaded : loaded[i].method \in Methods
  /\ active \subseteq DOMAIN loaded /\ DOMAIN loaded \subseteq Ids \ {0}
  /\ \A k \in DOMAIN stored :
       Len(stored[k].bytes) = 12 /\ \A j \in 1 .. 12 : stored[k].bytes[j] \in 0 .. Byte - 1
  /\ \A k \in DOMAIN rollup : rollup[k].id \in Ids /\ rollup[k].lost \in BOOLEAN
  /\ Len(probed) <= MaxProbes /\ edits \in 0 .. MaxEdits /\ edited \in BOOLEAN

-----------------------------------------------------------------------------
\* Slips the code could contain; each is checked to break a property.
NameOfToday(k, id) == IF id \in DOMAIN config THEN config[id].name ELSE << >>
PlacedFirst(dest, path) ==
  [leg \in 1 .. Len(Hops(path)[1]) |->
     [name |-> <<dest, 1, leg>>, address |-> Hops(path)[1][leg], method |-> "icmp"]] \o config
-----------------------------------------------------------------------------
(* Starting the prober *)

\* load_config() takes the whole file or nothing; of its targets, those that can
\* be resolved are probed, and without one run_prober returns.
Load(targets) ==
  /\ targets # << >> /\ \A i \in DOMAIN targets : targets[i].method \in Methods
  /\ loaded' = targets
  /\ active' \in SUBSET DOMAIN targets \ {{}}
  /\ Cardinality(DOMAIN targets \ active') <= MaxUnresolved

RecordingInit ==
  /\ Init
  /\ config = FirstConfig /\ loaded = FirstConfig /\ active = DOMAIN FirstConfig
  /\ stored = << >> /\ rollup = << >> /\ probed = << >>
  /\ edits = 0 /\ edited = FALSE

StartRun ==
  /\ Restart \/ KilledCreating
  /\ Load(config)
  /\ UNCHANGED <<config, stored, rollup, probed, edits, edited>>

-----------------------------------------------------------------------------
(* A probe: a worker, then the writer *)

Result(target, answer) ==
  IF target.method = "tcp" THEN TcpPing(answer) ELSE Ping(answer, target.method = "hop")

\* The address table of the segment.
Table == [i \in active |-> loaded[i].name]

\* id_for() of the router that answered, 0 if it is the target itself or nobody.
SrcId(src) ==
  \/ src = 0 /\ UNCHANGED vars
  \/ src # 0 /\ (IdForKnown(src) \/ IdForNew(src))

\* The time since the start of the segment, in the range of the stored offset.
Offset(at) == Max({0, Min({at, Byte * Byte * Byte * Byte - 1})})

Probe(i, answer) ==
  LET result == Result(loaded[i], answer) IN
  /\ Len(probed) < MaxProbes
  /\ SrcId(result.src)
  /\ stored' = Append(stored,
       [table |-> Table,
        bytes |-> encode_record([target_id |-> i, t_offset |-> Offset(answer.at),
                          status |-> Code(result.status), reply_ttl |-> result.reply_ttl,
                          rtt |-> result.rtt,
                          src_id |-> IF result.src = 0 THEN 0 ELSE by_addr'[result.src]])])
  /\ rollup' = Append(rollup, [id |-> i, name |-> loaded[i].name,
                               lost |-> result.status # "Ok"])
  /\ probed' = Append(probed, [target |-> loaded[i], answer |-> answer])
  /\ UNCHANGED <<config, loaded, active, edits, edited>>

-----------------------------------------------------------------------------
(* Changes of config.json, which a prober that runs does not see *)

Addresses(targets) == {targets[i].address : i \in DOMAIN targets}

\* The responders of a hop that are not in the config yet, named by the destination
\* and the hop, with a letter if the hop has several responders.
Leg(dest, ttl, letter, address) ==
  [name |-> <<dest, ttl, letter>>, address |-> address, method |-> "icmp"]
NewLegs(dest, ttl, replies, known) ==
  FoldLeft(LAMBDA legs, a :
             IF a = 0 \/ a \in known THEN legs
             ELSE Append(legs, Leg(dest, ttl, IF Len(replies) > 1 THEN Len(legs) + 1 ELSE 0, a)),
           << >>, replies)

\* run_discover() with --add: the responders of all hops come at the end.
Discovered(dest, path) ==
  FoldLeftDomain(LAMBDA targets, ttl :
                   targets \o NewLegs(dest, ttl, Hops(path)[ttl], Addresses(targets)),
                 config, Hops(path))

Discover(path) ==
  /\ edits < MaxEdits
  /\ config' = Discovered(Dest, path)
  /\ edits' = edits + 1
  /\ UNCHANGED <<vars, loaded, active, stored, rollup, probed, edited>>

\* The user removes a target or puts one at the head.
Edit ==
  /\ edits < MaxEdits
  /\ \/ \E i \in DOMAIN config : config' = RemoveAt(config, i)
     \/ \E t \in UserTargets : config' = <<t>> \o config
  /\ edits' = edits + 1 /\ edited' = TRUE
  /\ UNCHANGED <<vars, loaded, active, stored, rollup, probed>>

RecordingNext ==
  \/ StartRun
  \/ \E i \in active :
       \E answer \in IF loaded[i].method = "tcp" THEN TcpAnswers ELSE Answers :
         Probe(i, answer)
  \/ \E path \in Paths : Discover(path)
  \/ Edit

RecordingSpec == RecordingInit /\ [][RecordingNext]_<<vars, data>>

-----------------------------------------------------------------------------
(* export: the row of raw record k *)

\* The name in the segment's own table.
ExportName(k, id) == IF id \in DOMAIN stored[k].table THEN stored[k].table[id] ELSE << >>

\* A round trip that is not available and a router that is not known are blank.
ExportRow(k) ==
  LET r == decode_record(stored[k].bytes) IN
  [utc |-> r.t_offset, name |-> ExportName(k, r.target_id),
   status |-> StatusNames[r.status + 1], rtt |-> r.rtt, reply_ttl |-> r.reply_ttl,
   src |-> IF r.src_id = 0 THEN 0 ELSE AddrFor(file, r.src_id)]

-----------------------------------------------------------------------------
(* analyze *)

RowsOf(id) == {k \in DOMAIN rollup : rollup[k].id = id}
Counts(S)  == [sent |-> Cardinality(S), lost |-> Cardinality({k \in S : rollup[k].lost})]

\* aggregate() goes by id, and names the sum by the last row; a ladder looks up a
\* target's sum by name, and finds that of the largest id.
Shown(name) ==
  LET ids == {id \in Ids : RowsOf(id) # {} /\ rollup[LastOf(RowsOf(id))].name = name} IN
  IF ids = {} THEN Counts({}) ELSE Counts(RowsOf(LastOf(ids)))

-----------------------------------------------------------------------------
(* Properties *)

Answered(p) ==
  \/ p.answer.status \in {"success", "connected", "refused", "immediate"}
  \/ p.target.method = "hop" /\ p.answer.status = "expired"

\* The time an answer took, in halves of a tenth of a millisecond.
Took(p) == CASE p.target.method # "tcp"       -> 20 * p.answer.ms
             [] p.answer.status = "immediate" -> 0
             [] OTHER -> p.answer.halves

\* The router that is to be named: who answered a hop probe, or answered for the
\* target of another (README.md:288-289).
Router(p) == IF p.target.method = "tcp" \/ p.answer.status \in Silent THEN 0
             ELSE IF p.target.method # "hop" /\ Answered(p) THEN 0 ELSE p.answer.addr

\* Whatever is edited, discovered and restarted later, export tells of each probe
\* which target it was for, by the name it had; when, and whether it was answered,
\* in what time to the nearest tenth, or the longest there is; and the router,
\* unless the row of its id was lost to a failed append or to an empty file. An
\* answer in the last half tenth before the end of the range may be shown without
\* a time (icmp_probe.cpp:80-141, tcp_probe.cpp:61-66, prober.cpp:385-393,
\* record_codec.cpp, address_registry.cpp, exporter.cpp:59-91).
ExportTellsProbe ==
  \A k \in DOMAIN stored :
    LET row == ExportRow(k)
        p   == probed[k]
    IN  /\ row.name = p.target.name
        /\ row.utc = IF p.answer.at < 0 THEN 0 ELSE p.answer.at
        /\ row.status = "Ok" <=> Answered(p)
        /\ ~Answered(p) => row.rtt = RttNa
        /\ Answered(p) => \/ 2 * row.rtt - Took(p) \in {0, 1}
                          \/ Took(p) >= 2 * (RttNa - 1) /\ row.rtt >= RttNa - 1
        /\ \/ row.src = Router(p)
           \/ [id |-> decode_record(stored[k].bytes).src_id, ip |-> Router(p)] \in unsaved

\* analyze --ladder shows for each target of the config what its own probes gave,
\* over any number of runs and discovers: discover leaves the ids of other targets
\* as they are. Two things break this: a user's edit that gives a target another
\* one's id, and two targets of one name (analyzer.cpp:100-166, discover.cpp:68-96).
OwnProbes(i) == {k \in DOMAIN probed : probed[k].target = config[i]}
NamedOnce(i) == \A j \in DOMAIN config : config[j].name = config[i].name => j = i
AnalyzeTellsApart ==
  ~edited => \A i \in DOMAIN config : NamedOnce(i) =>
    Shown(config[i].name) =
      [sent |-> Cardinality(OwnProbes(i)),
       lost |-> Cardinality({k \in OwnProbes(i) : ~Answered(probed[k])})]
=============================================================================
