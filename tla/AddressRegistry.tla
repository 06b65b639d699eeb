--------------------------- MODULE AddressRegistry ---------------------------
(* storage/address_registry.cpp: the ids under which raw records name the       *)
(* routers that answered, kept in addresses.csv across runs. The writer thread  *)
(* asks for an id for every sample (prober.cpp:392); export loads the file and  *)
(* resolves ids (exporter.cpp:42, 82-86). An append opens the file, which       *)
(* creates it, and flushes what it writes at the end: a kill in between leaves  *)
(* an empty file, which no later append gives a header (address_registry.cpp:   *)
(* 58-62), while load() skips the first line whatever it is (:32-35).           *)
EXTENDS Naturals, Sequences

CONSTANTS Addrs,          \* the routers; 0 is no address
          IdSpace,        \* how many uint16_t there are (65536)
          AppendMayFail,  \* whether opening addresses.csv for append may fail
          MaxBoots        \* bound: starts of the prober

ASSUME RegistryAssumption ==
  /\ Addrs \subseteq Nat \ {0}
  /\ IdSpace \in Nat /\ IdSpace > 1
  /\ AppendMayFail \in BOOLEAN
  /\ MaxBoots \in Nat \ {0}

VARIABLES created,   \* addresses.csv is absent, empty, or begun: it has a first line
          file,      \* its lines below the first, those load() takes for rows
          by_addr,   \* by_addr_; NoId for an address that is not in it
          next_id,   \* next_id_
          recorded,  \* history: the ids in raw records, with what they stood for
          unsaved,   \* history: rows that could not be appended or became a first line
          boots      \* starts so far

vars == <<created, file, by_addr, next_id, recorded, unsaved, boots>>

Ids     == 0 .. IdSpace - 1
NoId    == IdSpace
Row     == [id : Ids, ip : Addrs]

TypeOK ==
  /\ created \in {"absent", "empty", "begun"}
  /\ file \in Seq(Row)
  /\ by_addr \in [Addrs -> Ids \cup {NoId}]
  /\ next_id \in Ids
  /\ recorded \subseteq Row /\ unsaved \subseteq Row
  /\ boots \in 1 .. MaxBoots

Init ==
  /\ created = "absent" /\ file = << >>
  /\ by_addr = [a \in Addrs |-> NoId]
  /\ next_id = 1
  /\ recorded = {} /\ unsaved = {}
  /\ boots = 1

-----------------------------------------------------------------------------
\* Slips the code could contain; each is checked to break a property.
CountedRows(rows) == IF rows = << >> THEN 1 ELSE Len(rows)
SuccessorUnbounded(id) == id + 1 + IdSpace
-----------------------------------------------------------------------------
\* The id after id, in the width of next_id_.
Successor(id) == (id + 1) % IdSpace

\* load(): rows with id 0 are skipped, and of several rows of an address, or of
\* an id, the last one counts.
Valid(rows) == {i \in DOMAIN rows : rows[i].id # 0}
LastOf(S)   == CHOOSE i \in S : \A j \in S : j <= i

LoadByAddr(rows) ==
  [a \in Addrs |-> LET mine == {i \in Valid(rows) : rows[i].ip = a} IN
                   IF mine = {} THEN NoId ELSE rows[LastOf(mine)].id]

LoadNextId(rows) ==
  LET ids == {1} \cup {Successor(rows[i].id) : i \in Valid(rows)} IN
  CHOOSE n \in ids : \A m \in ids : m <= n

\* addr_for() of a reader that has loaded the file.
AddrFor(rows, id) ==
  LET mine == {i \in Valid(rows) : rows[i].id = id} IN
  IF mine = {} THEN 0 ELSE rows[LastOf(mine)].ip

\* id_for() of an address seen before in this run or an earlier one.
IdForKnown(a) ==
  /\ by_addr[a] # NoId
  /\ recorded' = recorded \cup {[id |-> by_addr[a], ip |-> a]}
  /\ UNCHANGED <<created, file, by_addr, next_id, unsaved, boots>>

\* The row goes below the first line, the header if the file is fresh; into an
\* empty file it goes as the first line.
Store(row) ==
  \/ /\ created \in {"absent", "begun"} /\ created' = "begun"
     /\ file' = Append(file, row) /\ unsaved' = unsaved
  \/ /\ created = "empty" /\ created' = "begun"
     /\ file' = file /\ unsaved' = unsaved \cup {row}
  \/ AppendMayFail /\ UNCHANGED <<created, file>> /\ unsaved' = unsaved \cup {row}

\* id_for() of a new address: an id is taken, and kept for this run even if the
\* file cannot be opened.
IdForNew(a) ==
  /\ by_addr[a] = NoId
  /\ by_addr' = [by_addr EXCEPT ![a] = next_id]
  /\ next_id' = Successor(next_id)
  /\ Store([id |-> next_id, ip |-> a])
  /\ recorded' = recorded \cup {[id |-> next_id, ip |-> a]}
  /\ UNCHANGED boots

Boot ==
  /\ boots < MaxBoots
  /\ boots' = boots + 1
  /\ by_addr' = LoadByAddr(file)
  /\ next_id' = LoadNextId(file)
  /\ UNCHANGED <<file, recorded, unsaved>>

\* The prober is started again, after a stop or a kill.
Restart == Boot /\ UNCHANGED created

\* It was killed in id_for() of a new address, between the creation of the file and
\* the flush of what goes into it.
KilledCreating ==
  /\ created = "absent" /\ \E a \in Addrs : by_addr[a] = NoId
  /\ created' = "empty"
  /\ Boot

Next == (\E a \in Addrs : IdForKnown(a) \/ IdForNew(a)) \/ Restart \/ KilledCreating

Spec == Init /\ [][Next]_vars

-----------------------------------------------------------------------------
(* Properties *)

\* "Ids are stable over time" (address_registry.hpp:12): after any number of
\* restarts, kills and failed appends, a reader resolves the id in every raw record
\* to the router it stood for when it was written, and a router has one id; unless
\* the row of the id could not be appended, or became the first line of a file that
\* a kill left empty, which load() takes for the header (address_registry.cpp:29-72).
IdsAreStable ==
  \A r \in recorded \ unsaved :
    /\ AddrFor(file, r.id) = r.ip
    /\ \A s \in recorded \ unsaved : s.ip = r.ip => s.id = r.id
=============================================================================
