---------------------------- MODULE RecordingProofs ----------------------------
(* For any routers, targets, answers, widths of an id and of a byte, and any     *)
(* number of starts and edits: while next_id_ does not wrap, a saved id resolves *)
(* to its router; export tells what each probe came to; and analyze tells the    *)
(* targets apart.                                                                *)
EXTENDS Recording, DataLemmas

\* Fewer routers than ids: next_id_ has not come back to 0.
NoWrap == next_id # 0

\* Rows come in the order of their ids, none of them 0, all of them given out.
RowsAscend ==
  /\ \A i \in DOMAIN file : file[i].id # 0 /\ file[i].id < next_id
  /\ \A i, j \in DOMAIN file : i < j => file[i].id < file[j].id

\* An address has one row, and this run knows it.
RowsAreKnown ==
  /\ \A i, j \in DOMAIN file : file[i].ip = file[j].ip => i = j
  /\ \A i \in DOMAIN file : by_addr[file[i].ip] = file[i].id

\* Whatever id is in use or in a raw record was saved for its address or is unsaved.
Saved(id, a) == [id |-> id, ip |-> a] \in unsaved \/ \E i \in DOMAIN file : file[i].id = id /\ file[i].ip = a
UsedAreSaved ==
  /\ \A a \in Addrs : by_addr[a] # NoId => Saved(by_addr[a], a)
  /\ \A r \in recorded : Saved(r.id, r.ip)

IInv == TypeOK /\ RowsAscend /\ RowsAreKnown /\ UsedAreSaved

-----------------------------------------------------------------------------
\* The rows of the file are numbered, and each is an id with an address.
LEMMA RowType ==
  ASSUME TypeOK, NEW i \in DOMAIN file
  PROVE  /\ i \in Nat /\ i <= Len(file) /\ Len(file) \in DOMAIN file /\ file # << >>
         /\ file[i].id \in Ids /\ file[i].ip \in Addrs
<1>1. file \in Seq(Row)
  BY DEF TypeOK
<1>2. DOMAIN file = 1 .. Len(file) /\ Len(file) \in Nat
  BY <1>1
<1>3. file[i] \in Row
  BY <1>1, <1>2
<1>4. file[i].id \in Ids /\ file[i].ip \in Addrs
  BY <1>3 DEF Row
<1> QED BY <1>2, <1>4

\* Short of the wrap, the id after id is the next number.
LEMMA NextNumber ==
  ASSUME NEW id \in Ids PROVE  /\ Successor(id) \in Ids
                               /\ id + 1 < IdSpace => Successor(id) = id + 1
                               /\ Successor(id) # 0 => Successor(id) = id + 1
<1> DEFINE n == IdSpace
<1>1. n \in Nat \ {0} /\ id \in Nat /\ id < n
  BY RegistryAssumption DEF Ids
<1>2. ASSUME id + 1 < n PROVE (id + 1) % n = id + 1
  BY <1>1, <1>2
<1>3. ASSUME id + 1 = n PROVE (id + 1) % n = 0
  BY <1>1, <1>3
<1>4. id + 1 < n \/ id + 1 = n
  BY <1>1
<1> QED BY <1>1, <1>2, <1>3, <1>4 DEF Successor, Ids

\* A set of one row has that row as its last.
LEMMA LastOfOne == ASSUME NEW i \in Nat PROVE LastOf({i}) = i
BY DEF LastOf

\* Some rows have a last one.
LEMMA LastOfSome ==
  ASSUME NEW S, IsFiniteSet(S), S \subseteq Nat, S # {} PROVE LastOf(S) \in S
<1>1. \E i \in S : \A j \in S : j <= i
  BY MaxOfSome
<1> QED BY <1>1 DEF LastOf

\* load() finds for an address the id of its row, if it has one.
LEMMA LoadsRows ==
  ASSUME TypeOK, RowsAscend, RowsAreKnown, NEW i \in DOMAIN file
  PROVE  LoadByAddr(file)[file[i].ip] = file[i].id
<1> DEFINE mine == {k \in Valid(file) : file[k].ip = file[i].ip}
<1>1. i \in Nat /\ file[i].ip \in Addrs
  BY RowType
<1>2. mine = {i}
  BY DEF Valid, RowsAscend, RowsAreKnown
<1>3. LastOf(mine) = i
  BY <1>1, <1>2, LastOfOne
<1> QED BY <1>1, <1>2, <1>3 DEF LoadByAddr

\* An address without a row is not known.
LEMMA LoadsNothingElse ==
  ASSUME TypeOK, NEW a \in Addrs, \A i \in DOMAIN file : file[i].ip # a
  PROVE  LoadByAddr(file)[a] = NoId
<1>1. {k \in Valid(file) : file[k].ip = a} = {}
  BY DEF Valid
<1> QED BY <1>1 DEF LoadByAddr

\* load() continues after the last row.
LEMMA LoadsNextId ==
  ASSUME TypeOK, RowsAscend
  PROVE  LoadNextId(file) = IF file = << >> THEN 1 ELSE file[Len(file)].id + 1
<1> DEFINE ids == {1} \cup {Successor(file[i].id) : i \in Valid(file)}
           n   == IF file = << >> THEN 1 ELSE file[Len(file)].id + 1
<1>1. \A i \in DOMAIN file : file[i].id \in Ids /\ file[i].id \in Nat \ {0}
                             /\ file[i].id + 1 < IdSpace /\ file[i].id + 1 <= n
  <2>1. ASSUME NEW i \in DOMAIN file
        PROVE  /\ file[i].id \in Ids /\ file[i].id \in Nat \ {0} /\ file[i].id + 1 < IdSpace
               /\ i \in Nat /\ i <= Len(file) /\ Len(file) \in DOMAIN file /\ file # << >>
    <3>1. next_id \in Ids
      BY DEF TypeOK
    <3> QED BY <3>1, RowType, RegistryAssumption DEF RowsAscend, Ids
  <2>2. ASSUME NEW i \in DOMAIN file PROVE file[i].id <= file[Len(file)].id
    <3>1. i < Len(file) \/ i = Len(file)
      BY <2>1
    <3>2. file[i].id \in Nat /\ file[Len(file)].id \in Nat
      BY <2>1
    <3> QED BY <2>1, <3>1, <3>2 DEF RowsAscend
  <2>3. ASSUME NEW i \in DOMAIN file PROVE file[i].id + 1 <= n
    <3>1. file[i].id \in Nat /\ file[Len(file)].id \in Nat /\ file # << >>
      BY <2>1
    <3> QED BY <3>1, <2>2
  <2> QED BY <2>1, <2>3
<1>2. \A i \in DOMAIN file : Successor(file[i].id) = file[i].id + 1
  BY <1>1, NextNumber
<1>3. Valid(file) = DOMAIN file
  BY <1>1 DEF Valid
<1>4. ids = {1} \cup {file[i].id + 1 : i \in DOMAIN file}
  BY <1>2, <1>3
<1>5. n \in ids /\ n \in Nat /\ \A m \in ids : m \in Nat /\ m <= n
  <2>1. CASE file = << >>
    BY <2>1, <1>4
  <2>2. CASE file # << >>
    <3>1. Len(file) \in DOMAIN file
      BY <2>2 DEF TypeOK
    <3>2. n = file[Len(file)].id + 1
      BY <2>2
    <3>3. file[Len(file)].id + 1 \in ids
      BY <3>1, <1>4
    <3>4. file[Len(file)].id \in Nat \ {0}
      BY <3>1, <1>1
    <3>5. n \in Nat /\ 1 <= n /\ n \in ids
      BY <3>2, <3>3, <3>4
    <3>6. \A i \in DOMAIN file : file[i].id + 1 \in Nat /\ file[i].id + 1 <= n
      BY <1>1
    <3> HIDE DEF n
    <3> QED BY <3>5, <3>6, <1>4
  <2> QED BY <2>1, <2>2
<1>6. \A m \in ids : (\A k \in ids : k <= m) => m = n
  BY <1>5
<1>7. (CHOOSE m \in ids : \A k \in ids : k <= m) = n
  BY <1>5, <1>6
<1> QED BY <1>7 DEF LoadNextId

-----------------------------------------------------------------------------
\* The invariant holds of an empty file.
LEMMA InitIInv == Init => IInv
BY RegistryAssumption DEF Init, IInv, TypeOK, Ids, NoId, Row, RowsAscend, RowsAreKnown, UsedAreSaved, Saved

\* An id that is known changes nothing in the file.
LEMMA KnownStep ==
  ASSUME IInv, NEW a \in Addrs, IdForKnown(a) PROVE IInv'
<1>1. by_addr[a] \in Ids
  BY DEF IInv, TypeOK, IdForKnown
<1>2. TypeOK'
  <2>1. recorded' \subseteq Row
    BY <1>1 DEF IInv, TypeOK, IdForKnown, Row
  <2> QED BY <1>1, <2>1 DEF IInv, TypeOK, IdForKnown
<1>3. RowsAscend' /\ RowsAreKnown'
  BY DEF IInv, RowsAscend, RowsAreKnown, IdForKnown
<1>4. UsedAreSaved'
  BY DEF IInv, UsedAreSaved, Saved, IdForKnown
<1> QED BY <1>2, <1>3, <1>4 DEF IInv

\* A new router gets the next number, saved or not.
LEMMA NewStep ==
  ASSUME IInv, NoWrap, NoWrap', NEW a \in Addrs, IdForNew(a) PROVE IInv'
<1>1. next_id \in Ids /\ next_id \in Nat \ {0} /\ next_id' \in Ids /\ next_id' = next_id + 1
  <2>1. next_id \in Ids /\ next_id' = Successor(next_id)
    BY DEF IInv, TypeOK, IdForNew
  <2> QED BY <2>1, NextNumber DEF NoWrap, Ids
<1>2. next_id # NoId
  BY <1>1, RegistryAssumption DEF Ids, NoId
<1>3. by_addr \in [Addrs -> Ids \cup {NoId}] /\ file \in Seq(Row) /\ by_addr[a] = NoId
      /\ by_addr' = [by_addr EXCEPT ![a] = next_id]
  BY DEF IInv, TypeOK, IdForNew
<1>4. \A i \in DOMAIN file : file[i].ip # a
  <2>1. \A i \in DOMAIN file : by_addr[file[i].ip] # NoId
    BY RowType, RegistryAssumption DEF IInv, RowsAreKnown, NoId, Ids
  <2> QED BY <1>3, <2>1
<1>5. \A i \in DOMAIN file : file[i].id \in Nat /\ file[i].ip \in Addrs /\ i \in Nat
  BY RowType DEF IInv, Ids
<1>8. recorded' \subseteq Row /\ created' \in {"absent", "empty", "begun"}
  <2>1. [id |-> next_id, ip |-> a] \in Row
    BY <1>1 DEF Row
  <2> QED BY <2>1 DEF IInv, TypeOK, IdForNew, Store
<1>6. CASE file' = Append(file, [id |-> next_id, ip |-> a]) /\ unsaved' = unsaved
  <2>1. /\ file' \in Seq(Row) /\ DOMAIN file' = DOMAIN file \cup {Len(file) + 1}
        /\ \A i \in DOMAIN file : file'[i] = file[i] /\ i <= Len(file)
        /\ file'[Len(file) + 1] = [id |-> next_id, ip |-> a] /\ Len(file) \in Nat
    BY <1>1, <1>3, <1>6 DEF Row
  <2>2. TypeOK'
    BY <1>1, <1>3, <1>6, <1>8, <2>1 DEF IInv, TypeOK, IdForNew
  <2>3. RowsAscend'
    BY <1>1, <1>5, <2>1 DEF IInv, RowsAscend
  <2>4. RowsAreKnown'
    BY <1>3, <1>4, <1>5, <2>1 DEF IInv, RowsAreKnown
  <2>5. \A id, b : Saved(id, b) => Saved(id, b)'
    <3>1. \A i \in DOMAIN file : i \in DOMAIN file' /\ file'[i] = file[i]
      BY ONLY <2>1
    <3> QED BY ONLY <1>6, <3>1 DEF Saved
  <2>6. \E i \in DOMAIN file' : file'[i] = [id |-> next_id, ip |-> a]
    BY <2>1
  <2>7. UsedAreSaved'
    <3>1. recorded' = recorded \cup {[id |-> next_id, ip |-> a]}
      BY DEF IdForNew
    <3>2. \A r \in recorded : Saved(r.id, r.ip)'
      BY <2>5 DEF IInv, UsedAreSaved
    <3>3. PICK w : w = [id |-> next_id, ip |-> a]
      OBVIOUS
    <3>4. Saved(w.id, w.ip)'
      BY ONLY <2>6, <3>3 DEF Saved
    <3>5. \A r \in recorded' : r \in recorded \/ r = w
      BY ONLY <3>1, <3>3
    <3>6. \A r \in recorded' : Saved(r.id, r.ip)'
      BY ONLY <3>2, <3>4, <3>5
    <3>7. \A b \in Addrs : by_addr'[b] # NoId => Saved(by_addr[b], b)' \/ (b = a /\ by_addr'[b] = w.id)
      BY <1>3, <2>5, <3>3 DEF IInv, UsedAreSaved
    <3>8. \A b \in Addrs : (by_addr[b] # NoId => Saved(by_addr[b], b))'
      BY ONLY <3>3, <3>4, <3>7
    <3> QED BY ONLY <3>6, <3>8 DEF UsedAreSaved
  <2> QED BY <2>2, <2>3, <2>4, <2>7 DEF IInv
<1>7. CASE file' = file /\ unsaved' = unsaved \cup {[id |-> next_id, ip |-> a]}
  <2>1. TypeOK'
    <3>1. [id |-> next_id, ip |-> a] \in Row
      BY <1>1 DEF Row
    <3> QED BY <1>1, <1>3, <1>7, <1>8, <3>1 DEF IInv, TypeOK, IdForNew
  <2>2. RowsAscend'
    BY <1>1, <1>5, <1>7 DEF IInv, RowsAscend
  <2>3. RowsAreKnown'
    BY <1>3, <1>4, <1>5, <1>7 DEF IInv, RowsAreKnown
  <2>4. UsedAreSaved'
    BY <1>3, <1>7 DEF IInv, UsedAreSaved, Saved, IdForNew
  <2> QED BY <2>1, <2>2, <2>3, <2>4 DEF IInv
<1> QED BY <1>6, <1>7 DEF IdForNew, Store

\* A start changes the file at most by creating it.
Starts == Restart \/ KilledCreating

\* It loads what was saved, and numbers on from the last row.
LEMMA RestartStep ==
  ASSUME IInv, NoWrap, Starts PROVE IInv'
<1>0. TypeOK /\ RowsAscend /\ RowsAreKnown /\ UsedAreSaved
  BY DEF IInv
<1>1. \A i \in DOMAIN file : file[i].id \in Ids /\ file[i].id \in Nat /\ file[i].ip \in Addrs
  BY <1>0, RowType DEF Ids
<1>2. by_addr' = LoadByAddr(file) /\ file' = file /\ unsaved' = unsaved /\ recorded' = recorded
      /\ next_id' = LoadNextId(file) /\ boots' \in 1 .. MaxBoots
      /\ created' \in {"absent", "empty", "begun"}
  BY <1>0, RegistryAssumption DEF Starts, Restart, KilledCreating, Boot, TypeOK
<1>3. \A i \in DOMAIN file : by_addr'[file[i].ip] = file[i].id
  BY <1>0, <1>2, LoadsRows
<1>4. \A a \in Addrs : (\A i \in DOMAIN file : file[i].ip # a) => by_addr'[a] = NoId
  BY <1>0, <1>2, LoadsNothingElse
<1>5. next_id' \in Ids /\ \A i \in DOMAIN file : file[i].id < next_id'
  <2>1. CASE file = << >>
    BY <2>1, <1>0, <1>2, LoadsNextId, RegistryAssumption DEF Ids
  <2>2. CASE file # << >>
    <3>1. Len(file) \in DOMAIN file /\ \A i \in DOMAIN file : i = Len(file) \/ i < Len(file)
      BY <2>2, <1>0 DEF TypeOK
    <3>2. next_id' = file[Len(file)].id + 1
      BY <2>2, <1>0, <1>2, LoadsNextId
    <3>3. file[Len(file)].id < next_id /\ next_id \in Ids
      BY <3>1, <1>0 DEF RowsAscend, TypeOK
    <3>4. next_id' \in Ids
      BY <3>1, <3>2, <3>3, <1>1, RegistryAssumption DEF Ids
    <3>5. \A i \in DOMAIN file : file[i].id <= file[Len(file)].id
      BY <3>1, <1>0, <1>1 DEF RowsAscend
    <3> QED BY <3>1, <3>2, <3>4, <3>5, <1>1
  <2> QED BY <2>1, <2>2
<1>6. by_addr' \in [Addrs -> Ids \cup {NoId}]
  <2>1. by_addr' = [a \in Addrs |-> by_addr'[a]]
    BY <1>2 DEF LoadByAddr
  <2>2. \A a \in Addrs : by_addr'[a] \in Ids \cup {NoId}
    BY <1>1, <1>3, <1>4
  <2> QED BY <2>1, <2>2
<1>7. TypeOK'
  BY <1>0, <1>2, <1>5, <1>6 DEF TypeOK
<1>8. RowsAscend'
  BY <1>0, <1>2, <1>5 DEF RowsAscend
<1>9. RowsAreKnown'
  BY <1>0, <1>2, <1>3 DEF RowsAreKnown
<1>10. UsedAreSaved'
  BY <1>0, <1>2, <1>3, <1>4 DEF UsedAreSaved, Saved
<1> QED BY <1>7, <1>8, <1>9, <1>10 DEF IInv

\* Every step keeps the invariant while the ids last.
LEMMA IInvStep == IInv /\ NoWrap /\ NoWrap' /\ [Next]_vars => IInv'
<1> SUFFICES ASSUME IInv, NoWrap, NoWrap', [Next]_vars PROVE IInv'
  OBVIOUS
<1>1. ASSUME NEW a \in Addrs, IdForKnown(a) PROVE IInv'
  BY <1>1, KnownStep
<1>2. ASSUME NEW a \in Addrs, IdForNew(a) PROVE IInv'
  BY <1>2, NewStep
<1>3. CASE Restart \/ KilledCreating
  BY <1>3, RestartStep DEF Starts
<1>4. CASE UNCHANGED vars
  BY <1>4 DEF vars, IInv, TypeOK, RowsAscend, RowsAreKnown, UsedAreSaved, Saved
<1> QED BY <1>1, <1>2, <1>3, <1>4 DEF Next

\* The file has finitely many rows.
LEMMA Rows ==
  ASSUME TypeOK
  PROVE  /\ file \in Seq(Row) /\ IsFiniteSet(DOMAIN file) /\ DOMAIN file \subseteq Nat
         /\ \A i \in DOMAIN file : file[i].id \in Ids
<1>1. file \in Seq(Row) /\ DOMAIN file = 1 .. Len(file) /\ Len(file) \in Nat
  BY DEF TypeOK
<1> QED BY <1>1, RowType, FS_Interval

\* Whatever is in the file, load() gives ids, and to no address 0.
LEMMA LoadedIds ==
  ASSUME TypeOK, NEW a \in Addrs PROVE LoadByAddr(file)[a] \in (Ids \ {0}) \cup {NoId}
<1> DEFINE mine == {i \in Valid(file) : file[i].ip = a}
<1>1. IsFiniteSet(mine) /\ mine \subseteq DOMAIN file /\ mine \subseteq Nat
  BY Rows, FS_Subset DEF Valid
<1>2. mine # {} => LastOf(mine) \in mine
  BY <1>1, LastOfSome
<1>3. mine # {} => file[LastOf(mine)].id \in Ids \ {0}
  BY <1>1, <1>2, Rows DEF Valid
<1> HIDE DEF mine
<1>4. LoadByAddr(file)[a] = IF mine = {} THEN NoId ELSE file[LastOf(mine)].id
  BY DEF LoadByAddr, mine
<1> QED BY <1>3, <1>4

\* A restart keeps the types, wrapping or not.
LEMMA RestartTypes == ASSUME TypeOK, Starts PROVE TypeOK'
<1>1. /\ file \in Seq(Row) /\ IsFiniteSet(DOMAIN file) /\ DOMAIN file \subseteq Nat
      /\ \A i \in DOMAIN file : file[i].id \in Ids
  BY Rows
<1>2. \A a \in Addrs : LoadByAddr(file)[a] \in Ids \cup {NoId}
  BY LoadedIds
<1>3. LoadNextId(file) \in Ids
  <2> DEFINE ids == {1} \cup {Successor(file[i].id) : i \in Valid(file)}
  <2>1. ids \subseteq Ids
    BY <1>1, NextNumber, RegistryAssumption DEF Valid, Ids
  <2>2. Ids \subseteq Nat /\ IsFiniteSet(Ids)
    BY RegistryAssumption, FS_Interval DEF Ids
  <2>3. IsFiniteSet(ids) /\ ids # {} /\ ids \subseteq Nat
    BY <2>1, <2>2, FS_Subset
  <2> HIDE DEF ids
  <2>4. \E n \in ids : \A m \in ids : m <= n
    BY <2>3, MaxOfSome
  <2>5. LoadNextId(file) \in ids
    BY <2>4 DEF LoadNextId, ids
  <2> QED BY <2>1, <2>5
<1>4. LoadByAddr(file) \in [Addrs -> Ids \cup {NoId}]
  BY <1>2 DEF LoadByAddr
<1>5. boots' \in 1 .. MaxBoots
  BY RegistryAssumption DEF Starts, Restart, KilledCreating, Boot, TypeOK
<1> QED BY <1>3, <1>4, <1>5 DEF Starts, Restart, KilledCreating, Boot, TypeOK

\* Every step keeps the types, wrapping or not.
LEMMA TypeStep == TypeOK /\ [Next]_vars => TypeOK'
<1> SUFFICES ASSUME TypeOK, [Next]_vars PROVE TypeOK'
  OBVIOUS
<1>1. ASSUME NEW a \in Addrs, IdForKnown(a) PROVE TypeOK'
  <2>1. by_addr[a] \in Ids
    BY <1>1 DEF TypeOK, IdForKnown
  <2>2. recorded' \subseteq Row
    BY <1>1, <2>1 DEF TypeOK, IdForKnown, Row
  <2> QED BY <1>1, <2>1, <2>2 DEF TypeOK, IdForKnown
<1>2. ASSUME NEW a \in Addrs, IdForNew(a) PROVE TypeOK'
  <2>1. next_id \in Ids /\ next_id' \in Ids
    BY <1>2, NextNumber DEF TypeOK, IdForNew
  <2>2. PICK row : row = [id |-> next_id, ip |-> a]
    OBVIOUS
  <2>3. row \in Row
    BY <2>1, <2>2 DEF Row
  <2>4. /\ file' \in Seq(Row) /\ unsaved' \subseteq Row
        /\ created' \in {"absent", "empty", "begun"}
    <3>1. Store(row)
      BY <1>2, <2>2 DEF IdForNew
    <3> QED BY <2>3, <3>1 DEF Store, TypeOK
  <2>5. recorded' \subseteq Row
    BY <1>2, <2>2, <2>3 DEF TypeOK, IdForNew
  <2> QED BY <1>2, <2>1, <2>4, <2>5 DEF TypeOK, IdForNew
<1>3. CASE Restart \/ KilledCreating
  BY <1>3, RestartTypes DEF Starts
<1>4. CASE UNCHANGED vars
  BY <1>4 DEF vars, TypeOK
<1> QED BY <1>1, <1>2, <1>3, <1>4 DEF Next

\* A saved id has one row, which a reader finds, and its address has no other.
LEMMA IInvImplies == IInv => IdsAreStable
<1> SUFFICES ASSUME IInv, NEW r \in recorded \ unsaved
             PROVE  /\ AddrFor(file, r.id) = r.ip
                    /\ \A s \in recorded \ unsaved : s.ip = r.ip => s.id = r.id
  BY DEF IdsAreStable
<1>0. TypeOK /\ RowsAscend /\ RowsAreKnown /\ UsedAreSaved
  BY DEF IInv
<1>10. \A s \in recorded : s = [id |-> s.id, ip |-> s.ip]
  BY <1>0 DEF TypeOK, Row
<1>1. PICK i \in DOMAIN file : file[i].id = r.id /\ file[i].ip = r.ip
  BY <1>0, <1>10 DEF UsedAreSaved, Saved
<1>2. i \in Nat /\ \A k \in DOMAIN file : k \in Nat /\ file[k].id \in Nat
  BY <1>0, RowType DEF Ids
<1>3. {k \in Valid(file) : file[k].id = r.id} = {i}
  <2>1. i \in Valid(file)
    BY <1>0 DEF RowsAscend, Valid
  <2>2. \A k \in DOMAIN file : file[k].id = file[i].id => k = i
    <3> SUFFICES ASSUME NEW k \in DOMAIN file, file[k].id = file[i].id PROVE k = i
      OBVIOUS
    <3>1. ~(k < i) /\ ~(i < k)
      BY <1>0, <1>2 DEF RowsAscend
    <3> QED BY <3>1, <1>2
  <2> QED BY <1>1, <2>1, <2>2 DEF Valid
<1>4. AddrFor(file, r.id) = r.ip
  BY <1>1, <1>2, <1>3, LastOfOne DEF AddrFor
<1>5. ASSUME NEW s \in recorded \ unsaved, s.ip = r.ip PROVE s.id = r.id
  BY <1>0, <1>1, <1>5, <1>10 DEF UsedAreSaved, Saved, RowsAreKnown
<1> QED BY <1>4, <1>5

\* For any routers, any appends that fail and kills at any point, also between the
\* creation of addresses.csv and its first flush, over any number of starts: unless
\* next_id_ wraps, an id whose row is below the first line of the file resolves to
\* its router for ever, and is its only one (address_registry.cpp:24-72).
THEOREM SavedIdsResolve == Spec /\ []NoWrap => [](TypeOK /\ IdsAreStable)
<1>1. Init => IInv
  BY InitIInv
<1>2. IInv /\ NoWrap /\ NoWrap' /\ [Next]_vars => IInv'
  BY IInvStep
<1>3. IInv => TypeOK /\ IdsAreStable
  BY IInvImplies DEF IInv
<1> QED BY <1>1, <1>2, <1>3, PTL DEF Spec
-----------------------------------------------------------------------------
(* The data that pass through: what they are *)

\* The numbers of two and of four bytes.
U16 == 0 .. Byte * Byte - 1
U32 == 0 .. Byte * Byte * Byte * Byte - 1

\* What a probe may come to: an answer to its method.
Heard(p) == p.answer \in IF p.target.method = "tcp" THEN Connect ELSE Echo(Addrs \cup {0})

\* The record of a probe of the target with id i, and of a router with number src_id.
RecordOf(p, i, src_id) ==
  LET result == Result(p.target, p.answer) IN
  [target_id |-> i, t_offset |-> Offset(p.answer.at), status |-> Code(result.status),
   reply_ttl |-> result.reply_ttl, rtt |-> result.rtt, src_id |-> src_id]

\* No more targets than there are ids for them.
TargetsFit == DOMAIN config \subseteq Ids \ {0}

\* A sequence, of whatever.
IsSequence(s) == s \in Seq(ToSet(s))

\* Sequences, of which each probe made three one longer; the prober has loaded targets it
\* can probe.
DataTypes ==
  /\ IsSequence(config) /\ IsSequence(loaded)
  /\ \A i \in DOMAIN loaded : loaded[i].method \in Methods
  /\ active \subseteq DOMAIN loaded /\ DOMAIN loaded \subseteq Ids \ {0}
  /\ IsSequence(stored) /\ IsSequence(rollup) /\ IsSequence(probed)
  /\ Len(stored) = Len(probed) /\ Len(rollup) = Len(probed) /\ Len(probed) <= MaxProbes
  /\ \A k \in DOMAIN stored :
       Len(stored[k].bytes) = 12 /\ \A j \in 1 .. 12 : stored[k].bytes[j] \in 0 .. Byte - 1
  /\ \A k \in DOMAIN rollup : rollup[k].id \in Ids /\ rollup[k].lost \in BOOLEAN
  /\ edits \in 0 .. MaxEdits /\ edited \in BOOLEAN

\* No router has the number that stands for none.
RoutersAreNumbered == \A a \in Addrs : by_addr[a] # 0

\* The values of a record are in the range of their bytes.
Fits(r) ==
  /\ r.target_id \in U16 /\ r.t_offset \in U32 /\ r.status \in 0 .. Byte - 1
  /\ r.reply_ttl \in 0 .. Byte - 1 /\ r.rtt \in U16 /\ r.src_id \in U16

\* A record was encoded from what its probe came to; its segment names the target, and
\* the registry has given the router a number.
RecordIsTrue(record, p, numbers) ==
  LET src == Result(p.target, p.answer).src IN
  /\ Heard(p) /\ p.answer \in Answers \cup TcpAnswers
  /\ \E i \in Ids \ {0}, src_id \in Ids :
       /\ i \in DOMAIN record.table /\ record.table[i] = p.target.name
       /\ Fits(RecordOf(p, i, src_id)) /\ record.bytes = encode_record(RecordOf(p, i, src_id))
       /\ IF src = 0 THEN src_id = 0 ELSE src_id # 0 /\ [id |-> src_id, ip |-> src] \in numbers
RecordsAreTrue == \A k \in DOMAIN stored : RecordIsTrue(stored[k], probed[k], recorded)

\* A row tells of its probe.
RowsAreTrue ==
  \A k \in DOMAIN rollup : /\ rollup[k].name = probed[k].target.name
                           /\ rollup[k].lost <=> ~Answered(probed[k])

\* Until the user edits the config, its targets stay where they are, those that are
\* loaded and those that were probed.
IdsAreKept ==
  ~edited =>
    /\ \A i \in DOMAIN loaded : i \in DOMAIN config /\ config[i] = loaded[i]
    /\ \A k \in DOMAIN rollup : /\ rollup[k].id \in DOMAIN config
                                /\ config[rollup[k].id] = probed[k].target


-----------------------------------------------------------------------------
(* Bytes *)

\* What division by a positive number gives.
LEMMA Divided ==
  ASSUME NEW v \in Nat, NEW b \in Nat \ {0}
  PROVE  /\ v \div b \in Nat /\ v % b \in 0 .. b - 1
         /\ v = b * (v \div b) + (v % b)
<1>1. v % b \in 0 .. b - 1
  OBVIOUS
<1>2. v % b = v - b * (v \div b)
  OBVIOUS
<1>3. v \div b \in Nat /\ b * (v \div b) <= v /\ v < b * (v \div b) + b
  OBVIOUS
<1> QED BY <1>1, <1>2, <1>3

\* A number below b * c, divided by b, is below c.
LEMMA HighPart ==
  ASSUME NEW b \in Nat \ {0}, NEW c \in Nat, NEW v \in 0 .. b * c - 1
  PROVE  v \div b \in 0 .. c - 1
<1> DEFINE q == v \div b
<1>0. b * c \in Nat /\ v \in Nat
  OBVIOUS
<1>1. q \in Nat /\ v % b \in Nat /\ v = b * q + (v % b)
  BY <1>0, Divided
<1>2. ASSUME q >= c PROVE FALSE
  <2>1. b * q >= b * c /\ b * q \in Nat
    BY ONLY <1>1, <1>2, b \in Nat, c \in Nat
  <2> QED BY <1>0, <1>1, <2>1
<1> QED BY <1>1, <1>2

\* Two bytes hold a number below Byte * Byte.
LEMMA TwoBytes ==
  ASSUME NEW v \in U16
  PROVE  /\ v % Byte \in 0 .. Byte - 1 /\ v \div Byte \in 0 .. Byte - 1
         /\ (v % Byte) + Byte * (v \div Byte) = v
<1>1. Byte \in Nat \ {0} /\ v \in Nat /\ v \in 0 .. Byte * Byte - 1
  BY ByteAssumption DEF U16
<1>2. v \div Byte \in 0 .. Byte - 1
  BY <1>1, HighPart
<1>3. v % Byte \in 0 .. Byte - 1 /\ v = Byte * (v \div Byte) + (v % Byte)
  BY <1>1, Divided
<1> QED BY ONLY <1>1, <1>2, <1>3

\* Four bytes hold a number below Byte * Byte * Byte * Byte.
LEMMA FourBytes ==
  ASSUME NEW v \in U32
  PROVE  LET w == Byte * Byte IN
         /\ v % w \in U16 /\ v \div w \in U16
         /\ (v % w) + w * (v \div w) = v
<1> DEFINE w == Byte * Byte
<1>1. w \in Nat \ {0} /\ v \in Nat /\ v \in 0 .. w * w - 1
  <2>1. \A b \in Nat : b * b * b * b = (b * b) * (b * b) /\ b * b \in Nat /\ (b > 0 => b * b > 0)
    OBVIOUS
  <2> QED BY <2>1, ByteAssumption DEF U32
<1> HIDE DEF w
<1>2. v \div w \in 0 .. w - 1
  BY <1>1, HighPart
<1>3. v % w \in 0 .. w - 1 /\ v = w * (v \div w) + (v % w)
  BY <1>1, Divided
<1>4. U16 = 0 .. w - 1
  BY DEF U16, w
<1>5. v % w \in U16 /\ v \div w \in U16 /\ (v % w) + w * (v \div w) = v
  BY ONLY <1>1, <1>2, <1>3, <1>4
<1> QED BY <1>5 DEF w

\* Bytes after bytes, and two after some.
LEMMA Joined ==
  ASSUME NEW S, NEW s \in Seq(S), NEW t \in Seq(S)
  PROVE  /\ s \o t \in Seq(S) /\ Len(s \o t) = Len(s) + Len(t)
         /\ \A i \in 1 .. Len(s) : (s \o t)[i] = s[i]
         /\ \A i \in 1 .. Len(t) : (s \o t)[Len(s) + i] = t[i]
  OBVIOUS

\* The elements of a sequence are those at its positions.
LEMMA Elements ==
  ASSUME NEW S, NEW s \in Seq(S)
  PROVE  DOMAIN s = 1 .. Len(s) /\ \A i \in 1 .. Len(s) : s[i] \in S
  OBVIOUS

\* A pair, its length and its elements.
LEMMA Pair ==
  ASSUME NEW S, NEW a \in S, NEW b \in S
  PROVE  <<a, b>> \in Seq(S) /\ Len(<<a, b>>) = 2 /\ <<a, b>>[1] = a /\ <<a, b>>[2] = b
  OBVIOUS

\* What is in a sequence of two after another.
LEMMA AndTwo ==
  ASSUME NEW S, NEW s \in Seq(S), NEW a \in S, NEW b \in S, NEW t, t = s \o <<a, b>>
  PROVE  /\ t \in Seq(S) /\ Len(t) = Len(s) + 2 /\ t[Len(s) + 1] = a /\ t[Len(s) + 2] = b
         /\ \A i \in 1 .. Len(s) : t[i] = s[i]
<1>1. PICK u : u = <<a, b>>
  OBVIOUS
<1>2. u \in Seq(S) /\ Len(u) = 2 /\ u[1] = a /\ u[2] = b
  BY <1>1, Pair
<1>3. t = s \o u
  BY <1>1
<1>4. /\ t \in Seq(S) /\ Len(t) = Len(s) + Len(u)
      /\ \A i \in 1 .. Len(s) : t[i] = s[i]
      /\ \A i \in 1 .. Len(u) : t[Len(s) + i] = u[i]
  BY <1>2, <1>3, Joined
<1>5. 1 \in 1 .. Len(u) /\ 2 \in 1 .. Len(u)
  BY <1>2
<1> QED BY <1>2, <1>4, <1>5

\* Two, four and three times two bytes are twelve.
LEMMA Twelve ==
  ASSUME NEW S, NEW b1 \in S, NEW b2 \in S, NEW b3 \in S, NEW b4 \in S, NEW b5 \in S,
         NEW b6 \in S, NEW b7 \in S, NEW b8 \in S, NEW b9 \in S, NEW b10 \in S,
         NEW b11 \in S, NEW b12 \in S, NEW s,
         s = <<b1, b2>> \o (<<b3, b4>> \o <<b5, b6>>) \o <<b7, b8>> \o <<b9, b10>> \o <<b11, b12>>
  PROVE  /\ s \in Seq(S) /\ Len(s) = 12
         /\ s[1] = b1 /\ s[2] = b2 /\ s[3] = b3 /\ s[4] = b4 /\ s[5] = b5 /\ s[6] = b6
         /\ s[7] = b7 /\ s[8] = b8 /\ s[9] = b9 /\ s[10] = b10 /\ s[11] = b11 /\ s[12] = b12
<1> PICK a : a = <<b1, b2>>
  OBVIOUS
<1>1. a = <<b1, b2>> /\ a \in Seq(S) /\ Len(a) = 2 /\ a[1] = b1 /\ a[2] = b2
  BY Pair
<1> PICK c : c = <<b3, b4>>
  OBVIOUS
<1>2. c = <<b3, b4>> /\ c \in Seq(S) /\ Len(c) = 2 /\ c[1] = b3 /\ c[2] = b4
  BY Pair
<1>3. PICK o : o = c \o <<b5, b6>>
  OBVIOUS
<1>4. o \in Seq(S) /\ Len(o) = 4 /\ o[1] = b3 /\ o[2] = b4 /\ o[3] = b5 /\ o[4] = b6
  <2>1. /\ o \in Seq(S) /\ Len(o) = Len(c) + 2
        /\ o[Len(c) + 1] = b5 /\ o[Len(c) + 2] = b6
        /\ \A i \in 1 .. Len(c) : o[i] = c[i]
    BY ONLY <1>2, <1>3, AndTwo, b5 \in S, b6 \in S
  <2> QED BY ONLY <1>2, <2>1
<1>5. PICK p : p = a \o o
  OBVIOUS
<1>6. /\ p \in Seq(S) /\ Len(p) = 6 /\ p[1] = b1 /\ p[2] = b2
      /\ p[3] = b3 /\ p[4] = b4 /\ p[5] = b5 /\ p[6] = b6
  <2>1. /\ p \in Seq(S) /\ Len(p) = Len(a) + Len(o)
        /\ \A i \in 1 .. Len(a) : p[i] = a[i]
        /\ \A i \in 1 .. Len(o) : p[Len(a) + i] = o[i]
    <3>1. a \in Seq(S) /\ o \in Seq(S)
      BY <1>1, <1>4
    <3> QED BY ONLY <3>1, <1>5, Joined
  <2>2. 1 \in 1 .. 2 /\ 2 \in 1 .. 2 /\ \A i \in 1 .. 4 : p[2 + i] = o[i]
    BY ONLY <1>1, <1>4, <2>1
  <2>3. p[2 + 1] = o[1] /\ p[2 + 2] = o[2] /\ p[2 + 3] = o[3] /\ p[2 + 4] = o[4]
    BY ONLY <2>2
  <2> QED BY ONLY <1>1, <1>4, <2>1, <2>2, <2>3
<1>7. PICK q : q = p \o <<b7, b8>>
  OBVIOUS
<1>8. q \in Seq(S) /\ Len(q) = 8 /\ q[7] = b7 /\ q[8] = b8 /\ \A i \in 1 .. 6 : q[i] = p[i]
  <2>0. p \in Seq(S)
    BY <1>6
  <2>1. /\ q \in Seq(S) /\ Len(q) = Len(p) + 2
        /\ q[Len(p) + 1] = b7 /\ q[Len(p) + 2] = b8
        /\ \A i \in 1 .. Len(p) : q[i] = p[i]
    BY ONLY <2>0, <1>7, AndTwo, b7 \in S, b8 \in S
  <2> QED BY ONLY <1>6, <2>1
<1>9. PICK t : t = q \o <<b9, b10>>
  OBVIOUS
<1>10. t \in Seq(S) /\ Len(t) = 10 /\ t[9] = b9 /\ t[10] = b10 /\ \A i \in 1 .. 8 : t[i] = q[i]
  <2>0. q \in Seq(S)
    BY <1>8
  <2>1. /\ t \in Seq(S) /\ Len(t) = Len(q) + 2
        /\ t[Len(q) + 1] = b9 /\ t[Len(q) + 2] = b10
        /\ \A i \in 1 .. Len(q) : t[i] = q[i]
    BY ONLY <2>0, <1>9, AndTwo, b9 \in S, b10 \in S
  <2> QED BY ONLY <1>8, <2>1
<1>11. s \in Seq(S) /\ Len(s) = 12 /\ s[11] = b11 /\ s[12] = b12 /\ \A i \in 1 .. 10 : s[i] = t[i]
  <2>2. s = t \o <<b11, b12>>
    BY <1>1, <1>2, <1>3, <1>5, <1>7, <1>9
  <2>0. t \in Seq(S)
    BY <1>10
  <2>1. /\ s \in Seq(S) /\ Len(s) = Len(t) + 2
        /\ s[Len(t) + 1] = b11 /\ s[Len(t) + 2] = b12
        /\ \A i \in 1 .. Len(t) : s[i] = t[i]
    BY ONLY <2>0, <2>2, AndTwo, b11 \in S, b12 \in S
  <2> QED BY ONLY <1>10, <2>1
<1> QED BY ONLY <1>6, <1>8, <1>10, <1>11

\* A record takes twelve bytes, and is read from them as it was written.
LEMMA RoundTrip ==
  ASSUME NEW r, Fits(r), NEW bytes, bytes = encode_record(r)
  PROVE  /\ Len(bytes) = 12 /\ DOMAIN bytes = 1 .. 12
         /\ \A j \in 1 .. 12 : bytes[j] \in 0 .. Byte - 1
         /\ decode_record(bytes) =
              [target_id |-> r.target_id, t_offset |-> r.t_offset, status |-> r.status,
               reply_ttl |-> r.reply_ttl, rtt |-> r.rtt, src_id |-> r.src_id]
<1> DEFINE w == Byte * Byte
           lo(v) == v % Byte
           hi(v) == v \div Byte
           low == r.t_offset % w
           high == r.t_offset \div w
<1>1. low \in U16 /\ high \in U16 /\ low + w * high = r.t_offset
  BY FourBytes DEF Fits
<1>2. \A v \in U16 : lo(v) \in 0 .. Byte - 1 /\ hi(v) \in 0 .. Byte - 1 /\ lo(v) + Byte * hi(v) = v
  BY TwoBytes
<1>3. bytes = << lo(r.target_id), hi(r.target_id) >> \o (<< lo(low), hi(low) >> \o << lo(high), hi(high) >>)
              \o << r.status, r.reply_ttl >> \o << lo(r.rtt), hi(r.rtt) >> \o << lo(r.src_id), hi(r.src_id) >>
  BY DEF encode_record, put_u16, put_u32
<1> HIDE DEF lo, hi, low, high, w
<1>4. \A v \in {r.target_id, low, high, r.rtt, r.src_id} : v \in U16
  BY <1>1 DEF Fits
<1>8. /\ bytes \in Seq(0 .. Byte - 1) /\ Len(bytes) = 12
      /\ bytes[1] = lo(r.target_id) /\ bytes[2] = hi(r.target_id)
      /\ bytes[3] = lo(low) /\ bytes[4] = hi(low) /\ bytes[5] = lo(high) /\ bytes[6] = hi(high)
      /\ bytes[7] = r.status /\ bytes[8] = r.reply_ttl
      /\ bytes[9] = lo(r.rtt) /\ bytes[10] = hi(r.rtt)
      /\ bytes[11] = lo(r.src_id) /\ bytes[12] = hi(r.src_id)
  <2>1. PICK S : S = 0 .. Byte - 1
    OBVIOUS
  <2>2. \A v \in {r.target_id, low, high, r.rtt, r.src_id} : lo(v) \in S /\ hi(v) \in S
    BY <1>2, <1>4, <2>1
  <2>3. r.status \in S /\ r.reply_ttl \in S
    BY <2>1 DEF Fits
  <2> QED BY ONLY <1>3, <2>1, <2>2, <2>3, Twelve
<1>5. Len(bytes) = 12 /\ DOMAIN bytes = 1 .. 12 /\ \A j \in 1 .. 12 : bytes[j] \in 0 .. Byte - 1
  <2>1. PICK S : S = 0 .. Byte - 1
    OBVIOUS
  <2>2. bytes \in Seq(S) /\ Len(bytes) = 12
    BY <1>8, <2>1
  <2>3. Len(bytes) = 12 /\ DOMAIN bytes = 1 .. 12 /\ \A j \in 1 .. 12 : bytes[j] \in S
    BY ONLY <2>2, Elements
  <2> QED BY <2>1, <2>3
<1>6. /\ get_u16(bytes, 1) = r.target_id /\ get_u16(bytes, 3) = low /\ get_u16(bytes, 5) = high
      /\ bytes[7] = r.status /\ bytes[8] = r.reply_ttl
      /\ get_u16(bytes, 9) = r.rtt /\ get_u16(bytes, 11) = r.src_id
  <2>1. /\ get_u16(bytes, 1) = lo(r.target_id) + Byte * hi(r.target_id)
        /\ get_u16(bytes, 3) = lo(low) + Byte * hi(low)
        /\ get_u16(bytes, 5) = lo(high) + Byte * hi(high)
        /\ get_u16(bytes, 9) = lo(r.rtt) + Byte * hi(r.rtt)
        /\ get_u16(bytes, 11) = lo(r.src_id) + Byte * hi(r.src_id)
    BY ONLY <1>8 DEF get_u16
  <2> QED BY ONLY <1>2, <1>4, <1>8, <2>1
<1>7. get_u32(bytes, 3) = r.t_offset
  BY <1>1, <1>6 DEF get_u32, w
<1> QED BY <1>5, <1>6, <1>7 DEF decode_record

-----------------------------------------------------------------------------
(* Answers *)

\* The names a status has.
Statuses == {"Ok", "Timeout", "DestUnreach", "TtlExpired", "OtherIcmpErr", "SendErr"}

\* A status is the name of its code.
LEMMA StatusCodes ==
  ASSUME NEW status \in Statuses
  PROVE  /\ Code(status) \in 0 .. 5 /\ StatusNames[Code(status) + 1] = status
         /\ Code(status) \in 0 .. Byte - 1
<1>1. \E k \in 0 .. 5 : StatusNames[k + 1] = status
  <2>1. /\ StatusNames[0 + 1] = "Ok" /\ StatusNames[1 + 1] = "Timeout"
        /\ StatusNames[2 + 1] = "DestUnreach" /\ StatusNames[3 + 1] = "TtlExpired"
        /\ StatusNames[4 + 1] = "OtherIcmpErr" /\ StatusNames[5 + 1] = "SendErr"
    BY DEF StatusNames
  <2>2. 0 \in 0 .. 5 /\ 1 \in 0 .. 5 /\ 2 \in 0 .. 5 /\ 3 \in 0 .. 5 /\ 4 \in 0 .. 5 /\ 5 \in 0 .. 5
    OBVIOUS
  <2> QED BY <2>1, <2>2 DEF Statuses
<1>2. Code(status) \in 0 .. 5 /\ StatusNames[Code(status) + 1] = status
  BY <1>1 DEF Code
<1> QED BY <1>2, ByteAssumption

\* A result tells of what a probe came to.
Told(r, p) ==
  /\ r.status \in Statuses /\ r.reply_ttl \in 0 .. Byte - 1 /\ r.rtt \in U16
  /\ r.src \in Addrs \cup {0} /\ r.src = Router(p)
  /\ r.status = "Ok" <=> Answered(p)
  /\ ~Answered(p) => r.rtt = RttNa
  /\ Answered(p) => \/ 2 * r.rtt - Took(p) \in {0, 1}
                    \/ Took(p) >= 2 * (RttNa - 1) /\ r.rtt >= RttNa - 1

\* The range of a round trip.
LEMMA RttRange == /\ RttNa \in Nat /\ RttNa > 0 /\ U16 = 0 .. RttNa /\ 0 \in 0 .. Byte - 1
                  /\ 0 \in U16 /\ RttNa \in U16
<1>1. \A b \in Nat : b >= 7 => b * b \in Nat /\ b * b > 1
  OBVIOUS
<1>2. Byte * Byte \in Nat /\ Byte * Byte > 1
  BY <1>1, ByteAssumption
<1>3. RttNa \in Nat /\ RttNa > 0 /\ U16 = 0 .. RttNa
  BY <1>2 DEF RttNa, U16
<1> QED BY <1>3, ByteAssumption

\* The result of a connect tells of it.
LEMMA ConnectIsTold ==
  ASSUME NEW p, Heard(p), p.target.method = "tcp"
  PROVE  Told(TcpPing(p.answer), p)
<1> DEFINE a == p.answer
           r == TcpPing(a)
<1>0. a \in Connect
  BY DEF Heard
<1>1. CASE a.status = "immediate"
  <2>1. r = [status |-> "Ok", reply_ttl |-> 0, rtt |-> 0, src |-> 0]
    BY <1>1 DEF TcpPing, Without
  <2>2. Answered(p) /\ Took(p) = 0 /\ Router(p) = 0
    <3>1. Answered(p) /\ Router(p) = 0
      BY <1>1 DEF Answered, Router
    <3>2. Took(p) = 0
      BY <1>1 DEF Took
    <3> QED BY <3>1, <3>2
  <2> QED BY <2>1, <2>2, RttRange DEF Told, Statuses
<1>2. CASE a.status \in {"connected", "refused"}
  <2>1. a.halves \in Nat
    BY <1>0, <1>2 DEF Connect
  <2>2. PICK t : t = IF a.halves >= 2 * RttNa THEN RttNa - 1 ELSE (a.halves + 1) \div 2
    OBVIOUS
  <2>3. r = [status |-> "Ok", reply_ttl |-> 0, rtt |-> t, src |-> 0]
    BY <1>2, <2>2 DEF TcpPing, Without
  <2>4. Answered(p) /\ Took(p) = a.halves /\ Router(p) = 0
    BY <1>2 DEF Answered, Took, Router
  <2>5. /\ t \in 0 .. RttNa
        /\ \/ 2 * t - a.halves \in {0, 1}
           \/ a.halves >= 2 * (RttNa - 1) /\ t >= RttNa - 1
    BY <2>1, <2>2, RttRange
  <2> QED BY <2>3, <2>4, <2>5, RttRange DEF Told, Statuses
<1>3. CASE a.status \in {"no socket", "cannot connect", "select failed", "unreachable",
                         "timed out", "other"}
  <2>1. \/ r = Without("SendErr") \/ r = Without("DestUnreach") \/ r = Without("Timeout")
    BY <1>3 DEF TcpPing
  <2>3. PICK st \in Statuses \ {"Ok"} : r = Without(st)
    BY <2>1 DEF Statuses
  <2>2. ~Answered(p) /\ Router(p) = 0
    BY <1>3 DEF Answered, Router
  <2> QED BY <2>2, <2>3, RttRange DEF Told, Without
<1>4. a.status \in {"immediate", "no socket", "cannot connect", "select failed", "unreachable",
                    "timed out", "other", "connected", "refused"}
  BY <1>0 DEF Connect
<1> QED BY <1>1, <1>2, <1>3, <1>4

\* The result of an echo tells of it.
LEMMA EchoIsTold ==
  ASSUME NEW p, Heard(p), p.target.method # "tcp"
  PROVE  Told(Ping(p.answer, p.target.method = "hop"), p)
<1> DEFINE a == p.answer
           hop == p.target.method = "hop"
           r == Ping(a, hop)
<1>0. a \in Echo(Addrs \cup {0})
  BY DEF Heard
<1>1. CASE a.status \in Silent
  <2>1. r = Without("Timeout") \/ r = Without("SendErr")
    BY <1>1 DEF Ping
  <2>3. PICK st \in Statuses \ {"Ok"} : r = Without(st)
    BY <2>1 DEF Statuses
  <2>2. ~Answered(p) /\ Router(p) = 0
    BY <1>1 DEF Answered, Router, Silent
  <2> QED BY <2>2, <2>3, RttRange DEF Told, Without
<1>2. CASE a.status \notin Silent
  <2>1. /\ a.status \in {"success", "late", "unreachable", "expired", "other"}
        /\ a.ms \in Nat /\ a.ttl \in 0 .. Byte - 1 /\ a.addr \in Addrs \cup {0}
    BY <1>0, <1>2 DEF Echo, map_ip_status
  <2>2. PICK st : st = IF hop /\ a.status = "expired" THEN "Ok" ELSE map_ip_status[a.status]
    OBVIOUS
  <2>3. /\ st \in Statuses /\ (st = "Ok" <=> Answered(p))
    BY <2>1, <2>2 DEF map_ip_status, Statuses, Answered
  <2>4. PICK t : t = IF st = "Ok" THEN RttTenths(a.ms * 10) ELSE RttNa
    OBVIOUS
  <2>5. r = [status |-> st, reply_ttl |-> a.ttl, rtt |-> t,
             src |-> IF st = "Ok" /\ ~hop THEN 0 ELSE a.addr]
    BY <1>2, <2>2, <2>4 DEF Ping
  <2>6. (IF st = "Ok" /\ ~hop THEN 0 ELSE a.addr) = Router(p)
    BY <1>2, <2>3 DEF Router
  <2>7. st # "Ok" => t = RttNa
    BY <2>4
  <2>8. t \in 0 .. RttNa /\ (st = "Ok" => \/ 2 * t - 20 * a.ms \in {0, 1}
                                          \/ 20 * a.ms >= 2 * (RttNa - 1) /\ t >= RttNa - 1)
    <3>1. CASE st = "Ok"
      <4>1. t = RttTenths(a.ms * 10)
        BY <2>4, <3>1
      <4>2. RttNa \in Nat /\ RttNa > 0 /\ a.ms * 10 \in Nat
        BY <2>1, RttRange
      <4> QED BY <2>1, <4>1, <4>2 DEF RttTenths
    <3>2. CASE st # "Ok"
      BY <2>7, <3>2, RttRange
    <3> QED BY <3>1, <3>2
  <2>9. st = "Ok" => Took(p) = 20 * a.ms
    BY <2>1 DEF Took
  <2> QED BY <2>1, <2>3, <2>5, <2>6, <2>7, <2>8, <2>9, RttRange DEF Told
<1> QED BY <1>1, <1>2

\* The result of a probe tells of it, whatever its method.
LEMMA ResultIsTold ==
  ASSUME NEW p, Heard(p) PROVE Told(Result(p.target, p.answer), p)
BY ConnectIsTold, EchoIsTold DEF Result

\* Time since the start of a segment, in the range there is.
LEMMA OffsetInRange ==
  ASSUME NEW at \in Int
  PROVE  /\ Offset(at) \in U32
         /\ at < 0 => Offset(at) = 0
         /\ at \in U32 => Offset(at) = at
<1>1. PICK n \in Nat : n = Byte * Byte * Byte * Byte - 1 /\ U32 = 0 .. n
  <2>1. \A b \in Nat : b >= 7 => b * b \in Nat /\ b * b >= 1
    OBVIOUS
  <2>2. \A b, c \in Nat : b * c \in Nat /\ (b >= 1 /\ c >= 1 => b * c >= 1)
    OBVIOUS
  <2>3. Byte * Byte * Byte * Byte \in Nat /\ Byte * Byte * Byte * Byte >= 1
    BY <2>1, <2>2, ByteAssumption
  <2> QED BY <2>3 DEF U32
<1>2. PICK m : m = Min({at, n})
  OBVIOUS
<1>3. m = IF at <= n THEN at ELSE n
  <2>1. \E x \in {at, n} : \A y \in {at, n} : x <= y
    BY <1>1
  <2>2. m \in {at, n} /\ \A y \in {at, n} : m <= y
    BY <1>2, <2>1 DEF Min
  <2> QED BY <2>2
<1>4. PICK o : o = Max({0, m})
  OBVIOUS
<1>5. o = IF m >= 0 THEN m ELSE 0
  <2>1. m \in Int
    BY <1>3
  <2>2. \E x \in {0, m} : \A y \in {0, m} : x >= y
    BY <2>1
  <2>3. o \in {0, m} /\ \A y \in {0, m} : o >= y
    BY <1>4, <2>2 DEF Max
  <2> QED BY <2>1, <2>3
<1>6. Offset(at) = o
  BY <1>1, <1>2, <1>4 DEF Offset
<1> QED BY <1>1, <1>3, <1>5, <1>6

-----------------------------------------------------------------------------
(* Discovered targets *)

\* The responders of a hop are addresses.
LEMMA RepliesType ==
  ASSUME NEW answers \in Seq(Echo(Nat)) PROVE Replies(answers) \in Seq(Nat)
<1> DEFINE S == DOMAIN answers
           next(x, y) == IF answers[x].status \in Silent \/ Contains(y, answers[x].addr) THEN y
                         ELSE Append(y, answers[x].addr)
           E(h) == h = [s \in SUBSET S |-> IF s = {} THEN << >>
                                           ELSE next(Max(s), h[s \ {Max(s)}])]
<1>1. Replies(answers) = (CHOOSE h : E(h))[S]
  BY DEF Replies, FoldLeft, MapThenFoldSet
<1>2. IsFiniteSet(S) /\ S \subseteq Nat
  <2>1. S = 1 .. Len(answers) /\ Len(answers) \in Nat
    OBVIOUS
  <2> QED BY <2>1, FS_Interval
<1>3. \A x \in S, y \in Seq(Nat) : next(x, y) \in Seq(Nat)
  <2> SUFFICES ASSUME NEW x \in S, NEW y \in Seq(Nat), answers[x].status \notin Silent
               PROVE  Append(y, answers[x].addr) \in Seq(Nat)
    OBVIOUS
  <2>1. answers[x] \in Echo(Nat)
    OBVIOUS
  <2>2. answers[x].addr \in Nat
    BY <2>1 DEF Echo
  <2> QED BY <2>2
<1> HIDE DEF S, next
<1>4. PICK g : g = [p \in S \X Seq(Nat) |-> next(p[1], p[2])]
  OBVIOUS
<1>5. \A x \in S, y \in Seq(Nat) : g[<<x, y>>] = next(x, y)
  BY <1>4
<1>6. PICK k : TakesGreatest(S, << >>, g, k) /\ \A s \in SUBSET S : k[s] \in Seq(Nat)
  <2>1. \A x \in S, y \in Seq(Nat) : g[<<x, y>>] \in Seq(Nat)
    BY ONLY <1>3, <1>5
  <2>2. << >> \in Seq(Nat)
    OBVIOUS
  <2> QED BY ONLY <1>2, <2>1, <2>2, FoldExists
<1>7. \A s \in SUBSET S : s # {} => Max(s) \in S /\ s \ {Max(s)} \in SUBSET S
  <2> SUFFICES ASSUME NEW s \in SUBSET S, s # {} PROVE Max(s) \in S
    OBVIOUS
  <2> QED BY <1>2, FS_Subset, MaxOfSome
<1>8. E(k)
  BY <1>5, <1>6, <1>7 DEF TakesGreatest
<1>9. PICK h : h = (CHOOSE j : E(j))
  OBVIOUS
<1>10. E(h)
  BY <1>8, <1>9
<1>11. \A s \in SUBSET S : (s # {} => h[s \ {Max(s)}] \in Seq(Nat)) => h[s] \in Seq(Nat)
  <2> SUFFICES ASSUME NEW s \in SUBSET S, s # {} => h[s \ {Max(s)}] \in Seq(Nat)
               PROVE  h[s] \in Seq(Nat)
    OBVIOUS
  <2>1. h[s] = IF s = {} THEN << >> ELSE next(Max(s), h[s \ {Max(s)}])
    BY <1>10
  <2>2. CASE s = {}
    BY <2>1, <2>2
  <2>3. CASE s # {}
    BY <1>3, <1>7, <2>1, <2>3
  <2> QED BY <2>2, <2>3
<1>12. \A s \in SUBSET S : h[s] \in Seq(Nat)
  BY <1>2, <1>11, FoldStays
<1> QED BY <1>1, <1>9, <1>12

\* Legs of a destination.
Legs(dest) == [name : {dest} \X Nat \X Nat, address : Nat, method : {"icmp"}]

\* What a hop adds are legs of its destination.
LEMMA NewLegsType ==
  ASSUME NEW dest, NEW ttl \in Nat, NEW replies \in Seq(Nat), NEW known
  PROVE  NewLegs(dest, ttl, replies, known) \in Seq(Legs(dest))
<1> DEFINE S == DOMAIN replies
           Y == Seq(Legs(dest))
           leg(x, y) == Leg(dest, ttl, IF Len(replies) > 1 THEN Len(y) + 1 ELSE 0, replies[x])
           next(x, y) == IF replies[x] = 0 \/ replies[x] \in known THEN y ELSE Append(y, leg(x, y))
           E(h) == h = [s \in SUBSET S |-> IF s = {} THEN << >>
                                           ELSE next(Max(s), h[s \ {Max(s)}])]
<1>1. NewLegs(dest, ttl, replies, known) = (CHOOSE h : E(h))[S]
  BY DEF NewLegs, FoldLeft, MapThenFoldSet
<1>2. IsFiniteSet(S) /\ S \subseteq Nat
  <2>1. S = 1 .. Len(replies) /\ Len(replies) \in Nat
    OBVIOUS
  <2> QED BY <2>1, FS_Interval
<1>3. \A x \in S, y \in Y : next(x, y) \in Y
  <2> SUFFICES ASSUME NEW x \in S, NEW y \in Y PROVE Append(y, leg(x, y)) \in Y
    OBVIOUS
  <2>1. replies[x] \in Nat /\ Len(y) + 1 \in Nat
    OBVIOUS
  <2>2. leg(x, y) \in Legs(dest)
    BY <2>1 DEF Leg, Legs
  <2> HIDE DEF leg
  <2> QED BY <2>2
<1> HIDE DEF S, leg, next
<1>4. PICK g : g = [p \in S \X Y |-> next(p[1], p[2])]
  OBVIOUS
<1>5. \A x \in S, y \in Y : g[<<x, y>>] = next(x, y)
  BY <1>4
<1>6. PICK k : TakesGreatest(S, << >>, g, k) /\ \A s \in SUBSET S : k[s] \in Y
  <2>1. \A x \in S, y \in Y : g[<<x, y>>] \in Y
    BY ONLY <1>3, <1>5
  <2>2. << >> \in Y
    OBVIOUS
  <2> QED BY ONLY <1>2, <2>1, <2>2, FoldExists
<1>7. \A s \in SUBSET S : s # {} => Max(s) \in S /\ s \ {Max(s)} \in SUBSET S
  <2> SUFFICES ASSUME NEW s \in SUBSET S, s # {} PROVE Max(s) \in S
    OBVIOUS
  <2> QED BY <1>2, FS_Subset, MaxOfSome
<1>8. E(k)
  BY <1>5, <1>6, <1>7 DEF TakesGreatest
<1>9. PICK h : h = (CHOOSE j : E(j))
  OBVIOUS
<1>10. E(h)
  BY <1>8, <1>9
<1>11. \A s \in SUBSET S : (s # {} => h[s \ {Max(s)}] \in Y) => h[s] \in Y
  <2> SUFFICES ASSUME NEW s \in SUBSET S, s # {} => h[s \ {Max(s)}] \in Y
               PROVE  h[s] \in Y
    OBVIOUS
  <2>1. h[s] = IF s = {} THEN << >> ELSE next(Max(s), h[s \ {Max(s)}])
    BY <1>10
  <2>2. CASE s = {}
    BY <1>6, <2>1, <2>2 DEF TakesGreatest
  <2>3. CASE s # {}
    BY <1>3, <1>7, <2>1, <2>3
  <2> QED BY <2>2, <2>3
<1>12. \A s \in SUBSET S : h[s] \in Y
  BY <1>2, <1>11, FoldStays
<1> QED BY <1>1, <1>9, <1>12

\* The sequences that begin with s.
Begins(s, S) == {q \in Seq(S) : Len(s) <= Len(q) /\ \A i \in 1 .. Len(s) : q[i] = s[i]}

\* A traceroute has hops, and their responders are addresses.
LEMMA HopsType ==
  ASSUME NEW path \in Paths
  PROVE  Hops(path) \in Seq(Seq(Nat))
<1> DEFINE last == {n \in DOMAIN path : Reached(path[n]) /\ \A k \in 1 .. n - 1 : ~Reached(path[k])}
<1>1. PICK m : m = IF last = {} THEN Len(path) ELSE CHOOSE l \in last : TRUE
  OBVIOUS
<1>2. path \in Seq(Seq(Echo(Nat)))
  BY RecordingAssumption
<1>3. m \in Nat /\ \A n \in 1 .. m : n \in DOMAIN path
  <2>1. Len(path) \in Nat /\ DOMAIN path = 1 .. Len(path)
    BY <1>2
  <2>2. last # {} => m \in DOMAIN path
    <3> HIDE DEF last
    <3>1. last # {} => m \in last
      BY <1>1
    <3> QED BY <3>1 DEF last
  <2>3. m = Len(path) \/ m \in DOMAIN path
    BY <1>1, <2>2
  <2> QED BY ONLY <2>1, <2>3
<1>4. Hops(path) = [n \in 1 .. m |-> Replies(path[n])]
  BY <1>1 DEF Hops
<1>5. ASSUME NEW n \in 1 .. m PROVE Replies(path[n]) \in Seq(Nat)
  <2>1. path[n] \in Seq(Echo(Nat))
    BY <1>2, <1>3
  <2> QED BY <2>1, RepliesType
<1> QED BY <1>3, <1>4, <1>5

\* A discover leaves what is configured where it is.
LEMMA DiscoverAppends ==
  ASSUME NEW path \in Paths, NEW T, config \in Seq(T)
  PROVE  Discovered(Dest, path) \in Begins(config, T \cup Legs(Dest))
<1> DEFINE hops == Hops(path)
           S == DOMAIN [i \in DOMAIN hops |-> i]
           Y == Begins(config, T \cup Legs(Dest))
           next(x, y) == y \o NewLegs(Dest, [i \in DOMAIN hops |-> i][x],
                                      hops[[i \in DOMAIN hops |-> i][x]], Addresses(y))
           E(h) == h = [s \in SUBSET S |-> IF s = {} THEN config
                                           ELSE next(Max(s), h[s \ {Max(s)}])]
<1>1. Discovered(Dest, path) = (CHOOSE h : E(h))[S]
  BY DEF Discovered, FoldLeftDomain, FoldLeft, MapThenFoldSet
<1>0. hops \in Seq(Seq(Nat))
  BY HopsType
<1>2. IsFiniteSet(S) /\ S \subseteq Nat
  <2>1. S = 1 .. Len(hops) /\ Len(hops) \in Nat
    BY <1>0
  <2> QED BY <2>1, FS_Interval
<1>3. \A x \in S, y \in Y : next(x, y) \in Y
  <2> SUFFICES ASSUME NEW x \in S, NEW y \in Y PROVE next(x, y) \in Y
    OBVIOUS
  <2>1. x \in Nat /\ hops[x] \in Seq(Nat) /\ [i \in DOMAIN hops |-> i][x] = x
    BY <1>0
  <2>2. PICK new : new = NewLegs(Dest, x, hops[x], Addresses(y))
    OBVIOUS
  <2>3. new \in Seq(Legs(Dest))
    BY <2>1, <2>2, NewLegsType
  <2>4. next(x, y) = y \o new
    BY <2>1, <2>2
  <2>5. PICK U : U = T \cup Legs(Dest)
    OBVIOUS
  <2>6. new \in Seq(U) /\ y \in Seq(U) /\ config \in Seq(U)
    BY <2>3, <2>5 DEF Begins
  <2>7. Len(config) <= Len(y) /\ \A i \in 1 .. Len(config) : y[i] = config[i]
    BY DEF Begins
  <2>8. /\ y \o new \in Seq(U) /\ Len(config) <= Len(y \o new)
        /\ \A i \in 1 .. Len(config) : (y \o new)[i] = config[i]
    BY <2>6, <2>7
  <2> QED BY <2>4, <2>5, <2>8 DEF Begins
<1> HIDE DEF S, next, hops
<1>4. PICK g : g = [p \in S \X Y |-> next(p[1], p[2])]
  OBVIOUS
<1>5. \A x \in S, y \in Y : g[<<x, y>>] = next(x, y)
  BY <1>4
<1>6. PICK k : TakesGreatest(S, config, g, k) /\ \A s \in SUBSET S : k[s] \in Y
  <2>1. \A x \in S, y \in Y : g[<<x, y>>] \in Y
    BY ONLY <1>3, <1>5
  <2>2. config \in Y
    BY DEF Begins
  <2> QED BY ONLY <1>2, <2>1, <2>2, FoldExists
<1>7. \A s \in SUBSET S : s # {} => Max(s) \in S /\ s \ {Max(s)} \in SUBSET S
  <2> SUFFICES ASSUME NEW s \in SUBSET S, s # {} PROVE Max(s) \in S
    OBVIOUS
  <2> QED BY <1>2, FS_Subset, MaxOfSome
<1>8. E(k)
  BY <1>5, <1>6, <1>7 DEF TakesGreatest
<1>9. PICK h : h = (CHOOSE j : E(j))
  OBVIOUS
<1>10. E(h)
  BY <1>8, <1>9
<1>11. \A s \in SUBSET S : (s # {} => h[s \ {Max(s)}] \in Y) => h[s] \in Y
  <2> SUFFICES ASSUME NEW s \in SUBSET S, s # {} => h[s \ {Max(s)}] \in Y
               PROVE  h[s] \in Y
    OBVIOUS
  <2>1. h[s] = IF s = {} THEN config ELSE next(Max(s), h[s \ {Max(s)}])
    BY <1>10
  <2>2. CASE s = {}
    BY <1>6, <2>1, <2>2 DEF TakesGreatest
  <2>3. CASE s # {}
    BY <1>3, <1>7, <2>1, <2>3
  <2> QED BY <2>2, <2>3
<1>12. \A s \in SUBSET S : h[s] \in Y
  BY <1>2, <1>11, FoldStays
<1> QED BY <1>1, <1>9, <1>12

-----------------------------------------------------------------------------
(* The registry is driven as it was made for *)

\* The answer to a probe of target i.
HeardFrom(i, answer) == answer \in IF loaded[i].method = "tcp" THEN TcpAnswers ELSE Answers

\* What is heard from a target can be told.
LEMMA ProbeIsTold ==
  ASSUME NEW i, NEW answer, HeardFrom(i, answer), NEW p, p = [target |-> loaded[i], answer |-> answer]
  PROVE  /\ Heard(p) /\ answer \in Answers \cup TcpAnswers /\ answer.at \in Int
         /\ Told(Result(loaded[i], answer), p)
<1>1. Heard(p)
  BY RecordingAssumption DEF HeardFrom, Heard
<1>2. answer.at \in Int
  BY <1>1 DEF Heard, Echo, Connect
<1>3. Told(Result(loaded[i], answer), p)
  BY <1>1, ResultIsTold
<1> QED BY <1>1, <1>2, <1>3 DEF HeardFrom

\* A probe asks for the id of a router, or of nobody; a run loads the file.
LEMMA RecordingStep ==
  ASSUME [RecordingNext]_<<vars, data>> PROVE [Next]_vars
<1>1. CASE StartRun
  BY <1>1 DEF StartRun, Next
<1>2. ASSUME NEW i \in active, NEW answer \in IF loaded[i].method = "tcp" THEN TcpAnswers ELSE Answers,
             Probe(i, answer)
      PROVE  [Next]_vars
  <2>1. PICK src : src = Result(loaded[i], answer).src
    OBVIOUS
  <2>2. src \in Addrs \cup {0}
    <3>1. PICK p : p = [target |-> loaded[i], answer |-> answer]
      OBVIOUS
    <3>2. HeardFrom(i, answer)
      BY <1>2 DEF HeardFrom
    <3> QED BY <2>1, <3>1, <3>2, ProbeIsTold DEF Told
  <2>3. SrcId(src)
    BY <1>2, <2>1 DEF Probe
  <2> QED BY <2>2, <2>3 DEF SrcId, Next
<1>3. ASSUME NEW path \in Paths, Discover(path) PROVE UNCHANGED vars
  BY <1>3 DEF Discover
<1>4. CASE Edit
  BY <1>4 DEF Edit
<1>5. CASE UNCHANGED <<vars, data>>
  BY <1>5
<1> QED BY <1>1, <1>2, <1>3, <1>4, <1>5 DEF RecordingNext

\* Probes and starts drive the registry as its own specification lets them, so that what
\* holds of the registry holds of the whole (prober.cpp:250-262, 385-397).
THEOREM RegistryIsDriven == RecordingSpec => Spec
<1>1. RecordingInit => Init
  BY DEF RecordingInit
<1>2. [RecordingNext]_<<vars, data>> => [Next]_vars
  BY RecordingStep
<1> QED BY <1>1, <1>2, PTL DEF RecordingSpec, Spec

\* Over any probes, starts, kills and edits: unless next_id_ wraps, the router of a raw
\* record is resolved for ever, if the row of its id is below the first line of
\* addresses.csv (address_registry.cpp:24-72).
THEOREM RoutersResolve == RecordingSpec /\ []NoWrap => []IdsAreStable
BY RegistryIsDriven, SavedIdsResolve, PTL

-----------------------------------------------------------------------------
(* Types *)

\* t is the sequence s with one more element.
OneLonger(s, e, t) ==
  /\ IsSequence(t) /\ Len(s) \in Nat /\ Len(t) = Len(s) + 1
  /\ DOMAIN s = 1 .. Len(s) /\ DOMAIN t = 1 .. Len(t)
  /\ t[Len(s) + 1] = e /\ \A i \in DOMAIN s : t[i] = s[i]
  /\ \A i \in DOMAIN t : i = Len(s) + 1 \/ i \in DOMAIN s

\* A sequence with one more element is a sequence, one longer.
LEMMA OneMore ==
  ASSUME NEW s, IsSequence(s), NEW e, NEW t, t = Append(s, e) PROVE OneLonger(s, e, t)
<1>1. PICK S : S = ToSet(s) \cup {e}
  OBVIOUS
<1>2. s \in Seq(S) /\ e \in S
  BY <1>1 DEF IsSequence
<1>3. /\ t \in Seq(S) /\ Len(s) \in Nat /\ Len(t) = Len(s) + 1
      /\ DOMAIN s = 1 .. Len(s) /\ DOMAIN t = 1 .. Len(t)
      /\ t[Len(s) + 1] = e /\ \A i \in DOMAIN s : t[i] = s[i]
  BY ONLY <1>2, t = Append(s, e)
<1>4. t \in Seq(ToSet(t))
  BY <1>3 DEF ToSet
<1> QED BY <1>3, <1>4 DEF IsSequence, OneLonger

\* A sequence over any set is a sequence.
LEMMA SequenceOver == ASSUME NEW S, NEW s \in Seq(S) PROVE IsSequence(s)
BY DEF IsSequence, ToSet

\* The types hold at the start.
LEMMA InitTypes == RecordingInit /\ TargetsFit => DataTypes
<1> SUFFICES ASSUME RecordingInit, TargetsFit PROVE DataTypes
  OBVIOUS
<1>1. IsSequence(config) /\ IsSequence(loaded)
  BY RecordingAssumption DEF RecordingInit, IsSequence
<1>2. IsSequence(stored) /\ IsSequence(rollup) /\ IsSequence(probed)
  BY DEF RecordingInit, IsSequence
<1>3. Len(stored) = 0 /\ Len(rollup) = 0 /\ Len(probed) = 0 /\ DOMAIN stored = {} /\ DOMAIN rollup = {}
  BY DEF RecordingInit
<1>4. MaxProbes \in Nat /\ MaxEdits \in Nat /\ 0 \in 0 .. MaxEdits
  BY RecordingAssumption
<1>5. \A i \in DOMAIN loaded : loaded[i].method \in Methods
  BY RecordingAssumption DEF RecordingInit
<1>6. active \subseteq DOMAIN loaded /\ DOMAIN loaded \subseteq Ids \ {0} /\ edits = 0 /\ edited = FALSE
  BY DEF RecordingInit, TargetsFit
<1>7. Len(stored) = Len(probed) /\ Len(rollup) = Len(probed) /\ Len(probed) <= MaxProbes
  BY <1>3, <1>4
<1>8. /\ \A k \in DOMAIN stored :
           Len(stored[k].bytes) = 12 /\ \A j \in 1 .. 12 : stored[k].bytes[j] \in 0 .. Byte - 1
      /\ \A k \in DOMAIN rollup : rollup[k].id \in Ids /\ rollup[k].lost \in BOOLEAN
  BY <1>3
<1> QED BY <1>1, <1>2, <1>4, <1>5, <1>6, <1>7, <1>8 DEF DataTypes

\* The number of the router that answered: one that is recorded, or 0 for nobody.
LEMMA RouterNumber ==
  ASSUME TypeOK, NEW src \in Addrs \cup {0}, SrcId(src),
         NEW id, id = IF src = 0 THEN 0 ELSE by_addr'[src]
  PROVE  /\ id \in Ids /\ recorded \subseteq recorded'
         /\ src # 0 => [id |-> id, ip |-> src] \in recorded'
<1>1. CASE src = 0
  BY <1>1, RegistryAssumption DEF SrcId, vars, Ids
<1>2. CASE src # 0 /\ IdForKnown(src)
  BY <1>2 DEF IdForKnown, TypeOK
<1>3. CASE src # 0 /\ IdForNew(src)
  BY <1>3 DEF IdForNew, TypeOK
<1> QED BY <1>1, <1>2, <1>3 DEF SrcId

\* A probe p of target i, with a router of number id, appends to three sequences.
Appends(p, i, id, bytes) ==
  /\ Fits(RecordOf(p, i, id)) /\ bytes = encode_record(RecordOf(p, i, id))
  /\ stored' = Append(stored, [table |-> Table, bytes |-> bytes])
  /\ rollup' = Append(rollup, [id |-> i, name |-> loaded[i].name, lost |-> ~Answered(p)])
  /\ probed' = Append(probed, p)
  /\ recorded \subseteq recorded'
  /\ LET src == Result(p.target, p.answer).src
     IN  IF src = 0 THEN id = 0 ELSE id = by_addr'[src] /\ [id |-> id, ip |-> src] \in recorded'

\* A probe appends its record, itself and its row.
LEMMA ProbeAppends ==
  ASSUME TypeOK, DataTypes, NEW i \in active, NEW answer, HeardFrom(i, answer), Probe(i, answer),
         NEW p, p = [target |-> loaded[i], answer |-> answer]
  PROVE  \E id \in Ids : \E bytes : Appends(p, i, id, bytes)
<1>1. PICK r : r = Result(loaded[i], answer)
  OBVIOUS
<1>2. Told(r, p) /\ answer.at \in Int
  BY <1>1, ProbeIsTold
<1>3. PICK id : id = IF r.src = 0 THEN 0 ELSE by_addr'[r.src]
  OBVIOUS
<1>4. SrcId(r.src) /\ r.src \in Addrs \cup {0}
  BY <1>1, <1>2 DEF Probe, Told
<1>5. /\ id \in Ids /\ recorded \subseteq recorded'
      /\ r.src # 0 => [id |-> id, ip |-> r.src] \in recorded'
  BY <1>3, <1>4, RouterNumber
<1>6. RecordOf(p, i, id) = [target_id |-> i, t_offset |-> Offset(answer.at), status |-> Code(r.status),
                            reply_ttl |-> r.reply_ttl, rtt |-> r.rtt, src_id |-> id]
  BY <1>1 DEF RecordOf
<1>7. Fits(RecordOf(p, i, id))
  <2>1. i \in Ids /\ Ids \subseteq U16
    <3>1. i \in Ids
      BY DEF DataTypes
    <3>2. \A n \in Ids : n \in U16
      <4>1. Byte * Byte \in Nat /\ IdSpace \in Nat /\ IdSpace <= Byte * Byte
        BY ByteAssumption, RegistryAssumption, RecordingAssumption
      <4> QED BY ONLY <4>1 DEF Ids, U16
    <3> QED BY <3>1, <3>2
  <2>2. Code(r.status) \in 0 .. Byte - 1
    BY <1>2, StatusCodes DEF Told
  <2>3. Offset(answer.at) \in U32
    BY <1>2, OffsetInRange
  <2> QED BY <1>2, <1>5, <1>6, <2>1, <2>2, <2>3 DEF Fits, Told
<1>8. PICK bytes : bytes = encode_record(RecordOf(p, i, id))
  OBVIOUS
<1>9. stored' = Append(stored, [table |-> Table, bytes |-> bytes])
  BY <1>1, <1>3, <1>6, <1>8 DEF Probe
<1>10. rollup' = Append(rollup, [id |-> i, name |-> loaded[i].name, lost |-> ~Answered(p)])
  <2>1. rollup' = Append(rollup, [id |-> i, name |-> loaded[i].name, lost |-> r.status # "Ok"])
    BY <1>1 DEF Probe
  <2>2. (r.status # "Ok") = ~Answered(p)
    BY <1>2 DEF Told
  <2> QED BY <2>1, <2>2
<1>11. probed' = Append(probed, p)
  BY DEF Probe
<1>12. Result(p.target, p.answer) = r
  BY <1>1
<1>13. Appends(p, i, id, bytes)
  BY <1>3, <1>5, <1>7, <1>8, <1>9, <1>10, <1>11, <1>12 DEF Appends
<1> QED BY <1>5, <1>13

\* So the types stay.
LEMMA ProbeTypes ==
  ASSUME TypeOK, DataTypes, NEW i \in active, NEW answer, HeardFrom(i, answer), Probe(i, answer)
  PROVE  DataTypes'
<1>1. PICK p : p = [target |-> loaded[i], answer |-> answer]
  OBVIOUS
<1>2. PICK id \in Ids : \E bytes : Appends(p, i, id, bytes)
  BY <1>1, ProbeAppends
<1>3. PICK bytes : Appends(p, i, id, bytes)
  BY <1>2
<1>4. IsSequence(stored) /\ IsSequence(rollup) /\ IsSequence(probed)
      /\ Len(stored) = Len(probed) /\ Len(rollup) = Len(probed)
  BY DEF DataTypes
<1> PICK record : record = [table |-> Table, bytes |-> bytes]
  OBVIOUS
<1> PICK row : row = [id |-> i, name |-> loaded[i].name, lost |-> ~Answered(p)]
  OBVIOUS
<1>5. /\ IsSequence(stored') /\ Len(stored') = Len(stored) + 1
      /\ \A k \in DOMAIN stored' : stored'[k] = record \/ (k \in DOMAIN stored /\ stored'[k] = stored[k])
  <2>1. stored' = Append(stored, record)
    BY <1>3 DEF Appends
  <2>2. OneLonger(stored, record, stored')
    BY ONLY <1>4, <2>1, OneMore
  <2> QED BY ONLY <2>2 DEF OneLonger
<1>6. /\ IsSequence(rollup') /\ Len(rollup') = Len(rollup) + 1
      /\ \A k \in DOMAIN rollup' : rollup'[k] = row \/ (k \in DOMAIN rollup /\ rollup'[k] = rollup[k])
  <2>1. rollup' = Append(rollup, row)
    BY <1>3 DEF Appends
  <2>2. OneLonger(rollup, row, rollup')
    BY ONLY <1>4, <2>1, OneMore
  <2> QED BY ONLY <2>2 DEF OneLonger
<1>7. IsSequence(probed') /\ Len(probed') = Len(probed) + 1 /\ Len(probed) \in Nat
  <2>1. probed' = Append(probed, p)
    BY <1>3 DEF Appends
  <2> QED BY ONLY <1>4, <2>1, OneMore DEF OneLonger
<1>8. Len(bytes) = 12 /\ \A j \in 1 .. 12 : bytes[j] \in 0 .. Byte - 1
  BY <1>3, RoundTrip DEF Appends
<1>9. \A k \in DOMAIN stored' :
        Len(stored'[k].bytes) = 12 /\ \A j \in 1 .. 12 : stored'[k].bytes[j] \in 0 .. Byte - 1
  <2> SUFFICES ASSUME NEW k \in DOMAIN stored'
               PROVE  /\ Len(stored'[k].bytes) = 12
                      /\ \A j \in 1 .. 12 : stored'[k].bytes[j] \in 0 .. Byte - 1
    OBVIOUS
  <2>1. CASE stored'[k] = record
    BY <1>8, <2>1
  <2>2. CASE k \in DOMAIN stored /\ stored'[k] = stored[k]
    BY <2>2 DEF DataTypes
  <2> QED BY <1>5, <2>1, <2>2
<1>10. \A k \in DOMAIN rollup' : rollup'[k].id \in Ids /\ rollup'[k].lost \in BOOLEAN
  <2>1. i \in Ids
    BY DEF DataTypes
  <2>2. \A k \in DOMAIN rollup : rollup[k].id \in Ids /\ rollup[k].lost \in BOOLEAN
    BY DEF DataTypes
  <2>3. (~Answered(p)) \in BOOLEAN
    OBVIOUS
  <2>4. row.id = i /\ row.lost = ~Answered(p)
    OBVIOUS
  <2> QED BY ONLY <1>6, <2>1, <2>2, <2>3, <2>4
<1>11. Len(probed') <= MaxProbes
  BY <1>7, RecordingAssumption DEF Probe
<1>12. Len(stored') = Len(probed') /\ Len(rollup') = Len(probed')
  BY <1>4, <1>5, <1>6, <1>7
<1>13. UNCHANGED <<config, loaded, active, edits, edited>>
  BY DEF Probe
<1>14. /\ IsSequence(config') /\ IsSequence(loaded')
       /\ \A j \in DOMAIN loaded' : loaded'[j].method \in Methods
       /\ active' \subseteq DOMAIN loaded' /\ DOMAIN loaded' \subseteq Ids \ {0}
       /\ edits' \in 0 .. MaxEdits /\ edited' \in BOOLEAN
  BY <1>13 DEF DataTypes
<1> QED BY <1>5, <1>6, <1>7, <1>9, <1>10, <1>11, <1>12, <1>14 DEF DataTypes, IsSequence

\* Discover lengthens the config.
LEMMA DiscoverKeeps ==
  ASSUME IsSequence(config), NEW path \in Paths, Discover(path)
  PROVE  /\ IsSequence(config')
         /\ \A i \in DOMAIN config : i \in DOMAIN config' /\ config'[i] = config[i]
<1>1. PICK T : T = ToSet(config)
  OBVIOUS
<1>2. config \in Seq(T)
  BY <1>1 DEF IsSequence
<1>3. config' \in Begins(config, T \cup Legs(Dest))
  BY <1>2, DiscoverAppends DEF Discover
<1>4. PICK U : U = T \cup Legs(Dest)
  OBVIOUS
<1>5. PICK c : c = config'
  OBVIOUS
<1>6. c \in Seq(U) /\ Len(config) <= Len(c) /\ \A i \in 1 .. Len(config) : c[i] = config[i]
  BY <1>3, <1>4, <1>5 DEF Begins
<1>7. \A i \in DOMAIN config : i \in DOMAIN c /\ c[i] = config[i]
  BY <1>2, <1>6
<1>8. IsSequence(c)
  BY <1>6, SequenceOver
<1> QED BY <1>5, <1>7, <1>8

\* So does the user, or makes it shorter.
LEMMA EditKeeps ==
  ASSUME IsSequence(config), Edit PROVE IsSequence(config') /\ edited'
<1>1. PICK T : T = ToSet(config)
  OBVIOUS
<1>2. config \in Seq(T) /\ DOMAIN config = 1 .. Len(config) /\ Len(config) \in Nat
  BY <1>1 DEF IsSequence
<1>3. PICK c : c = config'
  OBVIOUS
<1>4. CASE \E i \in DOMAIN config : config' = RemoveAt(config, i)
  <2>1. PICK i \in DOMAIN config : c = SubSeq(config, 1, i - 1) \o SubSeq(config, i + 1, Len(config))
    BY <1>3, <1>4 DEF RemoveAt
  <2>2. SubSeq(config, 1, i - 1) \in Seq(T) /\ SubSeq(config, i + 1, Len(config)) \in Seq(T)
    BY <1>2
  <2>3. c \in Seq(T)
    BY <2>1, <2>2
  <2> QED BY <1>3, <2>3, SequenceOver DEF Edit
<1>5. CASE \E t \in UserTargets : config' = <<t>> \o config
  <2>1. PICK t : c = <<t>> \o config
    BY <1>3, <1>5
  <2>2. PICK U : U = T \cup {t}
    OBVIOUS
  <2>3. <<t>> \in Seq(U) /\ config \in Seq(U)
    BY <1>2, <2>2
  <2>4. c \in Seq(U)
    BY <2>1, <2>3
  <2> QED BY <1>3, <2>4, SequenceOver DEF Edit
<1> QED BY <1>4, <1>5 DEF Edit

\* Every step keeps the types.
LEMMA DataTypesStep ==
  TypeOK /\ DataTypes /\ TargetsFit /\ [RecordingNext]_<<vars, data>> => DataTypes'
<1> SUFFICES ASSUME TypeOK, DataTypes, TargetsFit, [RecordingNext]_<<vars, data>> PROVE DataTypes'
  OBVIOUS
<1> USE DEF IsSequence
<1>1. CASE StartRun
  <2>1. /\ loaded' = config /\ config' = config /\ active' \subseteq DOMAIN config
        /\ \A i \in DOMAIN config : config[i].method \in Methods
        /\ UNCHANGED <<stored, rollup, probed, edits, edited>>
    BY <1>1 DEF StartRun, Load
  <2> QED BY <2>1 DEF DataTypes, TargetsFit
<1>2. ASSUME NEW i \in active, NEW answer \in IF loaded[i].method = "tcp" THEN TcpAnswers ELSE Answers,
             Probe(i, answer)
      PROVE  DataTypes'
  BY <1>2, ProbeTypes DEF HeardFrom
<1>3. ASSUME NEW path \in Paths, Discover(path) PROVE DataTypes'
  <2>1. IsSequence(config')
    BY <1>3, DiscoverKeeps DEF DataTypes
  <2>2. edits' \in 0 .. MaxEdits /\ UNCHANGED <<loaded, active, stored, rollup, probed, edited>>
    BY <1>3, RecordingAssumption DEF Discover, DataTypes
  <2> QED BY <2>1, <2>2 DEF DataTypes
<1>4. CASE Edit
  <2>1. IsSequence(config')
    BY <1>4, EditKeeps DEF DataTypes
  <2>2. /\ edits' \in 0 .. MaxEdits /\ edited' \in BOOLEAN
        /\ UNCHANGED <<loaded, active, stored, rollup, probed>>
    BY <1>4, RecordingAssumption DEF Edit, DataTypes
  <2> QED BY <2>1, <2>2 DEF DataTypes
<1>5. CASE UNCHANGED <<vars, data>>
  BY <1>5 DEF data, DataTypes
<1> QED BY <1>1, <1>2, <1>3, <1>4, <1>5 DEF RecordingNext

\* The state stays in its types as long as there are ids for the targets: records of
\* twelve bytes, rows with an id, ids of routers that wrap or not (record_codec.cpp).
THEOREM RecordingTypes == RecordingSpec /\ []TargetsFit => []RecordingTypeOK
<1>1. RecordingInit /\ TargetsFit => TypeOK /\ DataTypes
  BY InitTypes, InitIInv DEF RecordingInit, IInv
<1>2. TypeOK /\ DataTypes /\ TargetsFit /\ [RecordingNext]_<<vars, data>> => (TypeOK /\ DataTypes)'
  BY DataTypesStep, RecordingStep, TypeStep
<1>3. TypeOK /\ DataTypes => RecordingTypeOK
  BY DEF DataTypes, RecordingTypeOK
<1> QED BY <1>1, <1>2, <1>3, PTL DEF RecordingSpec

-----------------------------------------------------------------------------
(* Analyze *)

\* The sequences before a probe and after it.
LEMMA ProbeLengthens ==
  ASSUME TypeOK, DataTypes, NEW i \in active, NEW answer, HeardFrom(i, answer), Probe(i, answer),
         NEW p, p = [target |-> loaded[i], answer |-> answer],
         NEW row, row = [id |-> i, name |-> loaded[i].name, lost |-> ~Answered(p)]
  PROVE  \E id \in Ids : \E record :
           /\ Appends(p, i, id, record.bytes) /\ record.table = Table
           /\ OneLonger(stored, record, stored') /\ OneLonger(rollup, row, rollup')
           /\ OneLonger(probed, p, probed')
<1>1. PICK id \in Ids : \E bytes : Appends(p, i, id, bytes)
  BY ProbeAppends
<1>2. PICK bytes : Appends(p, i, id, bytes)
  BY <1>1
<1>3. PICK record : record = [table |-> Table, bytes |-> bytes]
  OBVIOUS
<1>4. IsSequence(stored) /\ IsSequence(rollup) /\ IsSequence(probed)
  BY DEF DataTypes
<1>5. stored' = Append(stored, record) /\ rollup' = Append(rollup, row) /\ probed' = Append(probed, p)
  BY <1>2, <1>3 DEF Appends
<1>6. OneLonger(stored, record, stored')
  BY ONLY <1>4, <1>5, OneMore
<1>7. OneLonger(rollup, row, rollup')
  BY ONLY <1>4, <1>5, OneMore
<1>8. OneLonger(probed, p, probed')
  BY ONLY <1>4, <1>5, OneMore
<1>9. record.bytes = bytes /\ record.table = Table
  BY <1>3
<1> QED BY <1>2, <1>6, <1>7, <1>8, <1>9

\* A probe adds a row that tells of it.
LEMMA ProbeRows ==
  ASSUME TypeOK, DataTypes, RowsAreTrue, IdsAreKept,
         NEW i \in active, NEW answer, HeardFrom(i, answer), Probe(i, answer)
  PROVE  RowsAreTrue' /\ IdsAreKept'
<1>1. PICK p : p = [target |-> loaded[i], answer |-> answer]
  OBVIOUS
<1>2. PICK row : row = [id |-> i, name |-> loaded[i].name, lost |-> ~Answered(p)]
  OBVIOUS
<1>3. OneLonger(rollup, row, rollup') /\ OneLonger(probed, p, probed') /\ Len(rollup) = Len(probed)
  BY <1>1, <1>2, ProbeLengthens DEF DataTypes
<1>4. ASSUME NEW k \in DOMAIN rollup'
      PROVE  \/ k \in DOMAIN rollup /\ rollup'[k] = rollup[k] /\ probed'[k] = probed[k]
             \/ rollup'[k] = row /\ probed'[k] = p
  <2>1. k = Len(rollup) + 1 \/ k \in DOMAIN rollup
    BY <1>3 DEF OneLonger
  <2>2. CASE k = Len(rollup) + 1
    BY <1>3, <2>2 DEF OneLonger
  <2>3. CASE k \in DOMAIN rollup
    <3>1. k \in DOMAIN probed
      BY <1>3, <2>3 DEF OneLonger
    <3> QED BY <1>3, <2>3, <3>1 DEF OneLonger
  <2> QED BY <2>1, <2>2, <2>3
<1>5. row.id = i /\ row.name = p.target.name /\ (row.lost <=> ~Answered(p)) /\ p.target = loaded[i]
  BY <1>1, <1>2
<1>6. RowsAreTrue'
  <2> SUFFICES ASSUME NEW k \in DOMAIN rollup'
               PROVE  /\ rollup'[k].name = probed'[k].target.name
                      /\ rollup'[k].lost <=> ~Answered(probed'[k])
    BY DEF RowsAreTrue, Answered
  <2>1. CASE k \in DOMAIN rollup /\ rollup'[k] = rollup[k] /\ probed'[k] = probed[k]
    BY <2>1 DEF RowsAreTrue
  <2>2. CASE rollup'[k] = row /\ probed'[k] = p
    BY <1>5, <2>2
  <2> QED BY <1>4, <2>1, <2>2
<1>7. IdsAreKept'
  <2>1. UNCHANGED <<config, loaded, edited>>
    BY DEF Probe
  <2>2. ASSUME ~edited, NEW k \in DOMAIN rollup'
        PROVE  rollup'[k].id \in DOMAIN config /\ config[rollup'[k].id] = probed'[k].target
    <3>1. CASE k \in DOMAIN rollup /\ rollup'[k] = rollup[k] /\ probed'[k] = probed[k]
      BY <2>2, <3>1 DEF IdsAreKept
    <3>2. CASE rollup'[k] = row /\ probed'[k] = p
      <4>1. i \in DOMAIN loaded
        BY DEF DataTypes
      <4> QED BY <1>5, <2>2, <3>2, <4>1 DEF IdsAreKept
    <3> QED BY <1>4, <3>1, <3>2
  <2> QED BY <2>1, <2>2 DEF IdsAreKept
<1> QED BY <1>6, <1>7

\* Every step keeps the rows true and, but for an edit of the user, the ids.
LEMMA RowsStep ==
  TypeOK /\ DataTypes /\ RowsAreTrue /\ IdsAreKept /\ [RecordingNext]_<<vars, data>>
    => RowsAreTrue' /\ IdsAreKept'
<1> SUFFICES ASSUME TypeOK, DataTypes, RowsAreTrue, IdsAreKept, [RecordingNext]_<<vars, data>>
             PROVE  RowsAreTrue' /\ IdsAreKept'
  OBVIOUS
<1>1. CASE StartRun
  <2>1. loaded' = config /\ UNCHANGED <<config, rollup, probed, edited>>
    BY <1>1 DEF StartRun, Load
  <2> QED BY <2>1 DEF RowsAreTrue, IdsAreKept, Answered
<1>2. ASSUME NEW i \in active, NEW answer \in IF loaded[i].method = "tcp" THEN TcpAnswers ELSE Answers,
             Probe(i, answer)
      PROVE  RowsAreTrue' /\ IdsAreKept'
  BY <1>2, ProbeRows DEF HeardFrom
<1>3. ASSUME NEW path \in Paths, Discover(path) PROVE RowsAreTrue' /\ IdsAreKept'
  <2>1. UNCHANGED <<loaded, rollup, probed, edited>>
    BY <1>3 DEF Discover
  <2>2. \A i \in DOMAIN config : i \in DOMAIN config' /\ config'[i] = config[i]
    BY <1>3, DiscoverKeeps DEF DataTypes
  <2>3. IdsAreKept'
    BY ONLY <2>1, <2>2, IdsAreKept DEF IdsAreKept
  <2>4. RowsAreTrue'
    BY <2>1 DEF RowsAreTrue, Answered
  <2> QED BY <2>3, <2>4
<1>4. CASE Edit
  <2>1. edited' /\ UNCHANGED <<rollup, probed>>
    BY <1>4 DEF Edit
  <2> QED BY <2>1 DEF RowsAreTrue, IdsAreKept, Answered
<1>5. CASE UNCHANGED <<vars, data>>
  BY <1>5 DEF data, RowsAreTrue, IdsAreKept, Answered
<1> QED BY <1>1, <1>2, <1>3, <1>4, <1>5 DEF RecordingNext

\* The rows of a target that is named once are those of its own probes, and their name is
\* the name of no other.
LEMMA OwnRows ==
  ASSUME DataTypes, RowsAreTrue, IdsAreKept, ~edited, NEW i \in DOMAIN config, NamedOnce(i)
  PROVE  Shown(config[i].name) =
           [sent |-> Cardinality(OwnProbes(i)),
            lost |-> Cardinality({k \in OwnProbes(i) : ~Answered(probed[k])})]
<1>1. DOMAIN rollup = 1 .. Len(rollup) /\ DOMAIN probed = DOMAIN rollup /\ Len(rollup) \in Nat
  BY DEF DataTypes, IsSequence
<1>2. \A k \in DOMAIN rollup :
        /\ rollup[k].id \in Ids /\ rollup[k].id \in DOMAIN config
        /\ config[rollup[k].id] = probed[k].target /\ rollup[k].name = config[rollup[k].id].name
        /\ rollup[k].lost <=> ~Answered(probed[k])
  BY DEF DataTypes, RowsAreTrue, IdsAreKept
<1>3. \A id \in DOMAIN config : config[id].name = config[i].name => id = i
  BY DEF NamedOnce
<1>4. OwnProbes(i) = RowsOf(i)
  BY <1>1, <1>2, <1>3 DEF OwnProbes, RowsOf
<1>5. {k \in OwnProbes(i) : ~Answered(probed[k])} = {k \in RowsOf(i) : rollup[k].lost}
  BY <1>2, <1>4 DEF RowsOf
<1>6. ASSUME NEW id, RowsOf(id) # {}
      PROVE  /\ id \in Ids /\ id \in DOMAIN config
             /\ rollup[LastOf(RowsOf(id))].name = config[id].name
  <2>1. IsFiniteSet(RowsOf(id)) /\ RowsOf(id) \subseteq Nat /\ RowsOf(id) \subseteq DOMAIN rollup
    <3>1. IsFiniteSet(DOMAIN rollup) /\ DOMAIN rollup \subseteq Nat
      BY <1>1, FS_Interval
    <3>2. RowsOf(id) \subseteq DOMAIN rollup
      BY DEF RowsOf
    <3> QED BY <3>1, <3>2, FS_Subset
  <2>2. LastOf(RowsOf(id)) \in RowsOf(id)
    BY <1>6, <2>1, LastOfSome
  <2> QED BY <1>2, <2>1, <2>2 DEF RowsOf
<1>7. PICK ids : ids = {id \in Ids : RowsOf(id) # {} /\ rollup[LastOf(RowsOf(id))].name = config[i].name}
  OBVIOUS
<1>8. Shown(config[i].name) = IF ids = {} THEN Counts({}) ELSE Counts(RowsOf(LastOf(ids)))
  BY <1>7 DEF Shown
<1>9. CASE RowsOf(i) = {}
  <2>1. ids = {}
    BY <1>3, <1>6, <1>7, <1>9
  <2> QED BY <1>4, <1>5, <1>8, <1>9, <2>1 DEF Counts
<1>10. CASE RowsOf(i) # {}
  <2>1. ids = {i}
    BY <1>3, <1>6, <1>7, <1>10
  <2>2. i \in Nat
    BY <1>6, <1>10, RegistryAssumption DEF Ids
  <2>3. LastOf(ids) = i
    BY <2>1, <2>2, LastOfOne
  <2> QED BY <1>4, <1>5, <1>8, <2>1, <2>3 DEF Counts
<1> QED BY <1>9, <1>10

\* Whatever is probed, started and discovered, in whatever order: until the user edits the
\* config, analyze shows for a target that no other shares its name with exactly what its
\* own probes gave (analyzer.cpp:100-166, discover.cpp:68-96).
THEOREM TargetsAreToldApart == RecordingSpec /\ []TargetsFit => []AnalyzeTellsApart
<1>1. RecordingInit /\ TargetsFit => TypeOK /\ DataTypes /\ RowsAreTrue /\ IdsAreKept
  <2>1. RecordingInit => RowsAreTrue /\ IdsAreKept
    BY DEF RecordingInit, RowsAreTrue, IdsAreKept
  <2> QED BY <2>1, InitTypes, InitIInv DEF RecordingInit, IInv
<1>2. TypeOK /\ DataTypes /\ RowsAreTrue /\ IdsAreKept /\ TargetsFit /\ [RecordingNext]_<<vars, data>>
        => (TypeOK /\ DataTypes /\ RowsAreTrue /\ IdsAreKept)'
  BY DataTypesStep, RowsStep, RecordingStep, TypeStep
<1>3. DataTypes /\ RowsAreTrue /\ IdsAreKept => AnalyzeTellsApart
  BY OwnRows DEF AnalyzeTellsApart
<1> QED BY <1>1, <1>2, <1>3, PTL DEF RecordingSpec

-----------------------------------------------------------------------------
(* Export *)

\* 0 is given to no router unless next_id_ wraps.
LEMMA NumberedStep ==
  TypeOK /\ NoWrap /\ RoutersAreNumbered /\ [Next]_vars => RoutersAreNumbered'
<1> SUFFICES ASSUME TypeOK, NoWrap, RoutersAreNumbered, [Next]_vars PROVE RoutersAreNumbered'
  OBVIOUS
<1>1. ASSUME NEW a \in Addrs, IdForKnown(a) PROVE RoutersAreNumbered'
  BY <1>1 DEF IdForKnown, RoutersAreNumbered
<1>2. ASSUME NEW a \in Addrs, IdForNew(a) PROVE RoutersAreNumbered'
  BY <1>2 DEF IdForNew, RoutersAreNumbered, NoWrap, TypeOK
<1>3. CASE Restart \/ KilledCreating
  <2>1. NoId # 0
    BY RegistryAssumption DEF NoId
  <2> QED BY <1>3, <2>1, LoadedIds DEF Restart, KilledCreating, Boot, RoutersAreNumbered
<1>4. CASE UNCHANGED vars
  BY <1>4 DEF vars, RoutersAreNumbered
<1> QED BY <1>1, <1>2, <1>3, <1>4 DEF Next

\* A record stays true when more routers get numbers.
LEMMA StaysTrue ==
  ASSUME NEW record, NEW p, NEW some, RecordIsTrue(record, p, some), NEW more, some \subseteq more
  PROVE  RecordIsTrue(record, p, more)
BY DEF RecordIsTrue

\* A probe adds a record that is true.
LEMMA ProbeRecords ==
  ASSUME TypeOK, DataTypes, RoutersAreNumbered', RecordsAreTrue,
         NEW i \in active, NEW answer, HeardFrom(i, answer), Probe(i, answer)
  PROVE  RecordsAreTrue'
<1>1. PICK p : p = [target |-> loaded[i], answer |-> answer]
  OBVIOUS
<1>2. PICK row : row = [id |-> i, name |-> loaded[i].name, lost |-> ~Answered(p)]
  OBVIOUS
<1>3. PICK id \in Ids : \E record :
        /\ Appends(p, i, id, record.bytes) /\ record.table = Table
        /\ OneLonger(stored, record, stored') /\ OneLonger(rollup, row, rollup')
        /\ OneLonger(probed, p, probed')
  BY <1>1, <1>2, ProbeLengthens
<1>4. PICK record :
        /\ Appends(p, i, id, record.bytes) /\ record.table = Table
        /\ OneLonger(stored, record, stored') /\ OneLonger(probed, p, probed')
  BY <1>3
<1>5. recorded \subseteq recorded'
  BY <1>4 DEF Appends
<1>6. RecordIsTrue(record, p, recorded')
  <2>1. Heard(p) /\ p.answer \in Answers \cup TcpAnswers /\ Told(Result(p.target, p.answer), p)
    BY <1>1, ProbeIsTold
  <2>2. PICK src : src = Result(p.target, p.answer).src
    OBVIOUS
  <2>3. IF src = 0 THEN id = 0 ELSE id = by_addr'[src] /\ [id |-> id, ip |-> src] \in recorded'
    BY <1>4, <2>2 DEF Appends
  <2>4. src \in Addrs \cup {0}
    BY <2>1, <2>2 DEF Told
  <2>5. src # 0 => id # 0
    BY <2>3, <2>4 DEF RoutersAreNumbered
  <2>6. Fits(RecordOf(p, i, id)) /\ record.bytes = encode_record(RecordOf(p, i, id))
    BY <1>4 DEF Appends
  <2>7. i \in DOMAIN record.table /\ record.table[i] = p.target.name
    BY <1>1, <1>4 DEF Table
  <2>8. i \in Ids \ {0}
    BY DEF DataTypes
  <2> QED BY <2>1, <2>2, <2>3, <2>5, <2>6, <2>7, <2>8 DEF RecordIsTrue
<1>7. ASSUME NEW k \in DOMAIN stored' PROVE RecordIsTrue(stored'[k], probed'[k], recorded')
  <2>1. k = Len(stored) + 1 \/ k \in DOMAIN stored
    BY <1>4 DEF OneLonger
  <2>2. Len(stored) = Len(probed)
    BY DEF DataTypes
  <2>3. CASE k = Len(stored) + 1
    <3>1. stored'[k] = record /\ probed'[k] = p
      BY <1>4, <2>2, <2>3 DEF OneLonger
    <3> QED BY <1>6, <3>1
  <2>4. CASE k \in DOMAIN stored
    <3>1. stored'[k] = stored[k] /\ probed'[k] = probed[k]
      BY <1>4, <2>2, <2>4 DEF OneLonger
    <3>2. RecordIsTrue(stored[k], probed[k], recorded)
      BY <2>4 DEF RecordsAreTrue
    <3> QED BY <1>5, <3>1, <3>2, StaysTrue
  <2> QED BY <2>1, <2>3, <2>4
<1> QED BY <1>7 DEF RecordsAreTrue

\* Every step keeps the records true.
LEMMA RecordsStep ==
  TypeOK /\ DataTypes /\ RoutersAreNumbered' /\ RecordsAreTrue /\ [RecordingNext]_<<vars, data>>
    => RecordsAreTrue'
<1> SUFFICES ASSUME TypeOK, DataTypes, RoutersAreNumbered', RecordsAreTrue,
                    [RecordingNext]_<<vars, data>>
             PROVE  RecordsAreTrue'
  OBVIOUS
<1>1. CASE UNCHANGED <<stored, probed, recorded>>
  BY <1>1 DEF RecordsAreTrue
<1>2. ASSUME NEW i \in active, NEW answer \in IF loaded[i].method = "tcp" THEN TcpAnswers ELSE Answers,
             Probe(i, answer)
      PROVE  RecordsAreTrue'
  BY <1>2, ProbeRecords DEF HeardFrom
<1>3. StartRun => UNCHANGED <<stored, probed, recorded>>
  BY DEF StartRun, Restart, KilledCreating, Boot
<1>4. \A path \in Paths : Discover(path) => UNCHANGED <<stored, probed, recorded>>
  BY DEF Discover, vars
<1>5. Edit \/ UNCHANGED <<vars, data>> => UNCHANGED <<stored, probed, recorded>>
  BY DEF Edit, vars, data
<1> QED BY <1>1, <1>2, <1>3, <1>4, <1>5 DEF RecordingNext

\* No probe ends later than the largest offset after its segment began.
OffsetsFit == \A a \in Answers \cup TcpAnswers : a.at < Byte * Byte * Byte * Byte

\* The row of a record that is true tells of its probe.
LEMMA RowTells ==
  ASSUME OffsetsFit, IdsAreStable, NEW k \in DOMAIN stored, NEW p, p = probed[k],
         RecordIsTrue(stored[k], p, recorded), NEW row, row = ExportRow(k)
  PROVE  /\ row.name = p.target.name
         /\ row.utc = IF p.answer.at < 0 THEN 0 ELSE p.answer.at
         /\ row.status = "Ok" <=> Answered(p)
         /\ ~Answered(p) => row.rtt = RttNa
         /\ Answered(p) => \/ 2 * row.rtt - Took(p) \in {0, 1}
                           \/ Took(p) >= 2 * (RttNa - 1) /\ row.rtt >= RttNa - 1
         /\ \/ row.src = Router(p)
            \/ [id |-> decode_record(stored[k].bytes).src_id, ip |-> Router(p)] \in unsaved
<1>1. PICK r : r = Result(p.target, p.answer)
  OBVIOUS
<1>2. Heard(p) /\ p.answer \in Answers \cup TcpAnswers
  BY DEF RecordIsTrue
<1>3. PICK i \in Ids \ {0}, id \in Ids :
        /\ i \in DOMAIN stored[k].table /\ stored[k].table[i] = p.target.name
        /\ Fits(RecordOf(p, i, id)) /\ stored[k].bytes = encode_record(RecordOf(p, i, id))
        /\ IF r.src = 0 THEN id = 0 ELSE id # 0 /\ [id |-> id, ip |-> r.src] \in recorded
  BY <1>1 DEF RecordIsTrue
<1>4. Told(r, p)
  BY <1>1, <1>2, ResultIsTold
<1>5. PICK d : d = decode_record(stored[k].bytes)
  OBVIOUS
<1>6. /\ d.target_id = i /\ d.t_offset = Offset(p.answer.at) /\ d.status = Code(r.status)
      /\ d.rtt = r.rtt /\ d.src_id = id
  <2>1. PICK q : q = RecordOf(p, i, id)
    OBVIOUS
  <2>2. d = [target_id |-> q.target_id, t_offset |-> q.t_offset, status |-> q.status,
             reply_ttl |-> q.reply_ttl, rtt |-> q.rtt, src_id |-> q.src_id]
    BY <1>3, <1>5, <2>1, RoundTrip
  <2>3. q = [target_id |-> i, t_offset |-> Offset(p.answer.at), status |-> Code(r.status),
             reply_ttl |-> r.reply_ttl, rtt |-> r.rtt, src_id |-> id]
    BY <1>1, <2>1 DEF RecordOf
  <2> QED BY <2>2, <2>3
<1>7. row = [utc |-> d.t_offset, name |-> ExportName(k, d.target_id),
             status |-> StatusNames[d.status + 1], rtt |-> d.rtt, reply_ttl |-> d.reply_ttl,
             src |-> IF d.src_id = 0 THEN 0 ELSE AddrFor(file, d.src_id)]
  BY <1>5 DEF ExportRow
<1>8. row.name = p.target.name
  BY <1>3, <1>6, <1>7 DEF ExportName
<1>9. row.utc = IF p.answer.at < 0 THEN 0 ELSE p.answer.at
  <2>1. p.answer.at \in Int
    BY <1>2 DEF Heard, Echo, Connect
  <2>2. p.answer.at < Byte * Byte * Byte * Byte
    BY <1>2 DEF OffsetsFit
  <2>3. p.answer.at < 0 \/ p.answer.at \in U32
    <3>1. Byte * Byte * Byte * Byte \in Int
      BY ByteAssumption
    <3> QED BY <2>1, <2>2, <3>1 DEF U32
  <2>4. Offset(p.answer.at) = IF p.answer.at < 0 THEN 0 ELSE p.answer.at
    <3>1. \A at \in U32 : ~(at < 0)
      BY DEF U32
    <3> QED BY <2>1, <2>3, <3>1, OffsetInRange
  <2> QED BY <1>6, <1>7, <2>4
<1>10. row.status = r.status /\ row.rtt = r.rtt
  BY <1>4, <1>6, <1>7, StatusCodes DEF Told
<1>11. row.src = Router(p) \/ [id |-> id, ip |-> Router(p)] \in unsaved
  <2>1. r.src = Router(p) /\ row.src = IF id = 0 THEN 0 ELSE AddrFor(file, id)
    BY <1>4, <1>6, <1>7 DEF Told
  <2>2. CASE r.src = 0
    BY <1>3, <2>1, <2>2
  <2>3. CASE r.src # 0
    <3>1. PICK n : n = [id |-> id, ip |-> r.src]
      OBVIOUS
    <3>2. n \in recorded /\ id # 0
      BY <1>3, <2>3, <3>1
    <3>3. n \notin unsaved => AddrFor(file, n.id) = n.ip
      BY <3>2 DEF IdsAreStable
    <3> QED BY <2>1, <3>1, <3>2, <3>3
  <2> QED BY <2>2, <2>3
<1> QED BY <1>4, <1>5, <1>6, <1>8, <1>9, <1>10, <1>11 DEF Told

\* Whatever is edited, discovered and started again later: export tells of each probe which
\* target it was for, when, whether it was answered and in what time, and, unless next_id_
\* wraps, which router answered, if the row of its id was saved (icmp_probe.cpp:80-141,
\* tcp_probe.cpp:61-66, prober.cpp:385-393, record_codec.cpp, exporter.cpp:59-91).
THEOREM ExportIsTrue ==
  OffsetsFit => (RecordingSpec /\ []NoWrap /\ []TargetsFit => []ExportTellsProbe)
<1> SUFFICES ASSUME OffsetsFit
             PROVE  RecordingSpec /\ []NoWrap /\ []TargetsFit => []ExportTellsProbe
  OBVIOUS
<1> DEFINE Inv == TypeOK /\ DataTypes /\ RoutersAreNumbered /\ RecordsAreTrue
<1>1. RecordingInit /\ TargetsFit => Inv
  <2>1. RecordingInit => RoutersAreNumbered /\ RecordsAreTrue
    <3>1. NoId # 0
      BY RegistryAssumption DEF NoId
    <3>2. Init => RoutersAreNumbered
      BY <3>1 DEF Init, RoutersAreNumbered
    <3>3. stored = << >> => RecordsAreTrue
      BY DEF RecordsAreTrue
    <3> QED BY <3>2, <3>3 DEF RecordingInit
  <2> QED BY <2>1, InitTypes, InitIInv DEF RecordingInit, IInv
<1>2. Inv /\ NoWrap /\ TargetsFit /\ [RecordingNext]_<<vars, data>> => Inv'
  <2> SUFFICES ASSUME Inv, NoWrap, TargetsFit, [RecordingNext]_<<vars, data>> PROVE Inv'
    OBVIOUS
  <2>1. [Next]_vars
    BY RecordingStep
  <2>2. TypeOK' /\ DataTypes'
    BY <2>1, TypeStep, DataTypesStep
  <2>3. RoutersAreNumbered'
    BY <2>1, NumberedStep
  <2>4. RecordsAreTrue'
    BY <2>3, RecordsStep
  <2> QED BY <2>2, <2>3, <2>4
<1>3. Inv /\ IdsAreStable => ExportTellsProbe
  BY RowTells DEF ExportTellsProbe, RecordsAreTrue
<1>4. RecordingSpec /\ []NoWrap => []IdsAreStable
  BY RoutersResolve
<1> HIDE DEF Inv
<1> QED BY <1>1, <1>2, <1>3, <1>4, PTL DEF RecordingSpec
=============================================================================
