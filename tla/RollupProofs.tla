----------------------------- MODULE RollupProofs -----------------------------
(* What a kill can cost the rollups, and what they tell of the samples, for any   *)
(* targets, any length of a minute and samples as late as may be.                 *)
EXTENDS Rollup, DataLemmas

-----------------------------------------------------------------------------
(* What the rows, a bucket and the samples have in common *)

\* The total of v over the rows of R that are in C.
Idx(C, R)      == {i \in DOMAIN R : R[i] \in C}
Total(v, C, R) == SumFunction([i \in Idx(C, R) |-> v[R[i]]])

RowsFor(t, m)  == {r \in Row : r.target = t /\ r.minute = m}
TimedFor(t, m) == {r \in RowsFor(t, m) : r.has_rtt}

SentOf == [r \in Row |-> r.sent]
LostOf == [r \in Row |-> r.lost]
OkOf   == [r \in Row |-> Weight(r)]
WsumOf == [r \in Row |-> Weight(r) * r.avg]

\* The samples g of a target and a minute, those lost, those timed, and their times.
Own(g, t, m)      == {i \in DOMAIN g : g[i].target = t /\ Minute(g[i].utc) = m}
LostOwn(g, t, m)  == {i \in Own(g, t, m) : g[i].result = Lost}
TimedOwn(g, t, m) == {i \in Own(g, t, m) : g[i].result \in Rtts}
TimeOf(g, t, m)   == SumFunction([i \in TimedOwn(g, t, m) |-> g[i].result])

\* Rows R and bucket k count every sample once.
Counted(R, k, g, t, m) ==
  /\ Total(SentOf, RowsFor(t, m), R) + k.sent = Cardinality(Own(g, t, m))
  /\ Total(LostOf, RowsFor(t, m), R) + k.lost = Cardinality(LostOwn(g, t, m))

\* Every round trip is in the bucket or between the extremes of rows, an extreme is a
\* round trip, and what is in the bucket is one.
Covered(R, q, g, t, m) ==
  \A i \in TimedOwn(g, t, m) :
    \/ \E n \in DOMAIN q : q[n] = g[i].result
    \/ /\ \E j \in Idx(TimedFor(t, m), R) : R[j].min <= g[i].result
       /\ \E j \in Idx(TimedFor(t, m), R) : g[i].result <= R[j].max
Attained(R, g, t, m) ==
  \A j \in Idx(TimedFor(t, m), R) : /\ \E i \in TimedOwn(g, t, m) : g[i].result = R[j].min
                                    /\ \E i \in TimedOwn(g, t, m) : g[i].result = R[j].max
Held(q, g, t, m) == \A n \in DOMAIN q : \E i \in TimedOwn(g, t, m) : g[i].result = q[n]

Bounded(R, k, g, t, m) ==
  Covered(R, k.rtt, g, t, m) /\ Attained(R, g, t, m) /\ Held(k.rtt, g, t, m)

\* If every round trip is available, their weighted sum is off by half a unit for each
\* that is in a row.
Averaged(R, k, g, t, m) ==
  LET ok    == Total(OkOf, TimedFor(t, m), R)
      error == Total(WsumOf, TimedFor(t, m), R) + SumFunction(k.rtt) - TimeOf(g, t, m)
  IN  (\A i \in Own(g, t, m) : g[i].result # RttNa) =>
        /\ ok + Len(k.rtt) = Cardinality(TimedOwn(g, t, m))
        /\ k.sent = k.lost + Len(k.rtt)
        /\ 2 * error <= ok /\ 2 * (-error) <= ok

Tally(R, k, g, t, m) ==
  Counted(R, k, g, t, m) /\ Bounded(R, k, g, t, m) /\ Averaged(R, k, g, t, m)

\* This holds of table b, but for what is spoilt.
Tallied(R, b, g, sp) ==
  \A m \in Minutes, t \in Targets : <<m, t>> \notin sp => Tally(R, b[m][t], g, t, m)

\* A bucket counts no more than the n samples there are.
Fair(k, n) == /\ k \in Bucket
              /\ k.lost + Len(k.rtt) <= k.sent /\ k.sent <= n

AllTallied == Tallied(rows, buckets, given, spoilt)
FairTable(b, n) == \A m \in Minutes, t \in Targets : Fair(b[m][t], n)
AllFair == FairTable(buckets, Len(given)) /\ Len(given) <= MaxSamples

-----------------------------------------------------------------------------
(* Minutes *)

\* A minute is a time.
LEMMA MinuteIsNat == ASSUME NEW utc \in Nat PROVE Minute(utc) \in Nat
<1>1. \A x \in Nat, d \in Nat \ {0} : x \div d \in Nat
  OBVIOUS
<1>2. utc \div MinuteMs \in Nat /\ MinuteMs \in Nat
  BY <1>1, RollupAssumption
<1>3. \A x, d \in Nat : x * d \in Nat
  OBVIOUS
<1> QED BY <1>2, <1>3 DEF Minute

\* There are finitely many.
LEMMA MinutesAreFinite ==
  /\ Minutes \subseteq Nat /\ IsFiniteSet(Minutes)
  /\ \A utc \in 0 .. MaxTime : Minute(utc) \in Minutes
<1> PICK T, f : T = 0 .. MaxTime /\ f = [utc \in T |-> Minute(utc)]
  OBVIOUS
<1>1. \A utc \in T : Minute(utc) \in Nat
  BY MinuteIsNat
<1>2. IsFiniteSet(T)
  BY FS_Interval, RollupAssumption
<1>3. Minutes = {f[utc] : utc \in T}
  BY DEF Minutes
<1>4. IsFiniteSet({f[utc] : utc \in T})
  <2>1. f \in Surjection(T, {f[utc] : utc \in T})
    BY DEF Surjection
  <2> QED BY <1>2, <2>1, FS_Surjection
<1> QED BY <1>1, <1>3, <1>4 DEF Minutes

-----------------------------------------------------------------------------
(* Totals *)

\* Sets of indices are finite.
LEMMA IdxIsFinite ==
  ASSUME NEW R \in Seq(Row), NEW C
  PROVE  IsFiniteSet(Idx(C, R)) /\ Idx(C, R) \subseteq 1 .. Len(R)
<1>1. DOMAIN R = 1 .. Len(R) /\ Len(R) \in Nat
  OBVIOUS
<1>2. IsFiniteSet(1 .. Len(R)) /\ Idx(C, R) \subseteq 1 .. Len(R)
  BY <1>1, FS_Interval DEF Idx
<1> QED BY <1>2, FS_Subset

\* A total of natural numbers is one.
LEMMA TotalIsNat ==
  ASSUME NEW R \in Seq(Row), NEW C, NEW v \in [Row -> Nat]
  PROVE  Total(v, C, R) \in Nat
<1> PICK f : f = [i \in Idx(C, R) |-> v[R[i]]]
  OBVIOUS
<1>1. IsFiniteSet(DOMAIN f) /\ \A i \in DOMAIN f : f[i] \in Nat
  BY IdxIsFinite DEF Idx
<1>2. SumFunction(f) \in Nat
  BY <1>1, NatsAdded
<1> QED BY <1>2 DEF Total

\* One sequence of rows follows another.
Follow(S, R, Q) ==
  /\ S \in Seq(Row)
  /\ DOMAIN R = 1 .. Len(R) /\ DOMAIN Q = 1 .. Len(Q) /\ DOMAIN S = 1 .. Len(R) + Len(Q)
  /\ Len(R) \in Nat /\ Len(Q) \in Nat
  /\ \A i \in 1 .. Len(R) : S[i] = R[i]
  /\ \A i \in 1 .. Len(R) + Len(Q) : i > Len(R) => S[i] = Q[i - Len(R)]
\* What a concatenation is.
LEMMA RowsFollow ==
  ASSUME NEW R \in Seq(Row), NEW Q \in Seq(Row), NEW S, S = R \o Q
  PROVE  Follow(S, R, Q)
<1>1. DOMAIN R = 1 .. Len(R) /\ Len(R) \in Nat
  OBVIOUS
<1>2. DOMAIN Q = 1 .. Len(Q) /\ Len(Q) \in Nat
  OBVIOUS
<1>3. Len(S) = Len(R) + Len(Q)
  OBVIOUS
<1>0. S \in Seq(Row)
  OBVIOUS
<1>4. DOMAIN S = 1 .. Len(S)
  BY <1>0
<1>5. \A i \in 1 .. Len(R) : S[i] = R[i]
  <2> SUFFICES ASSUME NEW i \in 1 .. Len(R) PROVE S[i] = R[i]
    OBVIOUS
  <2> QED BY <1>1, <1>2
<1>6. \A i \in 1 .. Len(R) + Len(Q) : i > Len(R) => S[i] = Q[i - Len(R)]
  <2> SUFFICES ASSUME NEW i \in 1 .. Len(R) + Len(Q), i > Len(R) PROVE S[i] = Q[i - Len(R)]
    OBVIOUS
  <2> QED BY <1>1, <1>2
<1> QED BY <1>0, <1>1, <1>2, <1>3, <1>4, <1>5, <1>6 DEF Follow

\* No total of rows that do not matter changes it.
NoneAdded(R, S, C) == /\ Idx(C, S) = Idx(C, R)
                      /\ \A i \in Idx(C, R) : S[i] = R[i]
                      /\ \A v : Total(v, C, S) = Total(v, C, R)

\* Rows that do not matter change no total.
LEMMA TotalOfOthers ==
  ASSUME NEW R \in Seq(Row), NEW Q \in Seq(Row), NEW C, \A j \in DOMAIN Q : Q[j] \notin C,
         NEW S, S = R \o Q
  PROVE  NoneAdded(R, S, C)
<1>1. /\ S \in Seq(Row)
      /\ DOMAIN R = 1 .. Len(R) /\ DOMAIN Q = 1 .. Len(Q) /\ DOMAIN S = 1 .. Len(R) + Len(Q)
      /\ Len(R) \in Nat /\ Len(Q) \in Nat
      /\ \A i \in 1 .. Len(R) : S[i] = R[i]
      /\ \A i \in 1 .. Len(R) + Len(Q) : i > Len(R) => S[i] = Q[i - Len(R)]
  BY RowsFollow DEF Follow
<1>2. ASSUME NEW i \in DOMAIN S, S[i] \in C PROVE i \in DOMAIN R
  <2> SUFFICES ASSUME i > Len(R) PROVE FALSE
    BY <1>1
  <2>1. i - Len(R) \in DOMAIN Q /\ S[i] = Q[i - Len(R)]
    BY <1>1
  <2> QED BY <1>2, <2>1
<1>3. Idx(C, S) = Idx(C, R) /\ \A i \in Idx(C, R) : S[i] = R[i]
  <2>1. \A i \in DOMAIN R : i \in DOMAIN S /\ S[i] = R[i]
    BY <1>1
  <2> QED BY <1>2, <2>1 DEF Idx
<1>4. ASSUME NEW v PROVE Total(v, C, S) = Total(v, C, R)
  <2>1. [i \in Idx(C, S) |-> v[S[i]]] = [i \in Idx(C, R) |-> v[R[i]]]
    BY <1>3
  <2> QED BY <2>1 DEF Total
<1> QED BY <1>3, <1>4 DEF NoneAdded

\* One that does is added.
OneAdded(R, S, C, y, r) == /\ Idx(C, S) = Idx(C, R) \cup {y}
                           /\ \A i \in Idx(C, R) : S[i] = R[i]
                           /\ S[y] = r
                           /\ \A v \in [Row -> Nat] : Total(v, C, S) = Total(v, C, R) + v[r]

\* One row that matters is added to every total.
LEMMA TotalOfOne ==
  ASSUME NEW R \in Seq(Row), NEW Q \in Seq(Row), NEW C,
         NEW n \in DOMAIN Q, Q[n] \in C, \A j \in DOMAIN Q : j # n => Q[j] \notin C,
         NEW S, S = R \o Q
  PROVE  OneAdded(R, S, C, Len(R) + n, Q[n])
<1>1. /\ S \in Seq(Row)
      /\ DOMAIN R = 1 .. Len(R) /\ DOMAIN Q = 1 .. Len(Q) /\ DOMAIN S = 1 .. Len(R) + Len(Q)
      /\ Len(R) \in Nat /\ Len(Q) \in Nat
      /\ \A i \in 1 .. Len(R) : S[i] = R[i]
      /\ \A i \in 1 .. Len(R) + Len(Q) : i > Len(R) => S[i] = Q[i - Len(R)]
  BY RowsFollow DEF Follow
<1>2. ASSUME NEW i \in DOMAIN S, S[i] \in C PROVE i \in DOMAIN R \/ i = Len(R) + n
  <2> SUFFICES ASSUME i > Len(R), i # Len(R) + n PROVE FALSE
    BY <1>1
  <2>1. i - Len(R) \in DOMAIN Q /\ S[i] = Q[i - Len(R)] /\ i - Len(R) # n
    BY <1>1
  <2> QED BY <1>2, <2>1
<1>3. Len(R) + n \in DOMAIN S /\ S[Len(R) + n] = Q[n] /\ Len(R) + n \notin DOMAIN R
  <2>1. Len(R) + n \in 1 .. Len(R) + Len(Q) /\ Len(R) + n > Len(R) /\ Len(R) + n - Len(R) = n
    BY <1>1
  <2> QED BY <1>1, <2>1
<1>4. \A i \in DOMAIN R : i \in DOMAIN S /\ S[i] = R[i]
  BY <1>1
<1>5. Idx(C, S) = Idx(C, R) \cup {Len(R) + n}
  BY <1>2, <1>3, <1>4 DEF Idx
<1>6. \A i \in Idx(C, R) : S[i] = R[i]
  BY <1>4 DEF Idx
<1>7. ASSUME NEW v \in [Row -> Nat] PROVE Total(v, C, S) = Total(v, C, R) + v[Q[n]]
  <2> PICK f, g, x : /\ f = [i \in Idx(C, R) |-> v[R[i]]] /\ g = [i \in Idx(C, S) |-> v[S[i]]]
                     /\ x = Len(R) + n
    OBVIOUS
  <2>1. IsFiniteSet(DOMAIN f) /\ x \notin DOMAIN f /\ DOMAIN g = DOMAIN f \cup {x}
    BY <1>3, <1>5, IdxIsFinite DEF Idx
  <2>2. \A y \in DOMAIN f : g[y] = f[y]
    BY <1>5, <1>6
  <2>3. \A y \in DOMAIN g : g[y] \in Int
    <3> SUFFICES ASSUME NEW y \in DOMAIN g PROVE g[y] \in Int
      OBVIOUS
    <3>1. y \in Idx(C, S) /\ g[y] = v[S[y]]
      OBVIOUS
    <3>2. S[y] \in Row
      <4>1. y \in DOMAIN S /\ S \in Seq(Row)
        BY ONLY <1>1, <3>1 DEF Idx
      <4> QED BY ONLY <4>1
    <3>3. v[S[y]] \in Nat
      BY <3>2
    <3> QED BY ONLY <3>1, <3>3
  <2>4. SumFunction(g) = SumFunction(f) + g[x]
    BY ONLY <2>1, <2>2, <2>3, OneMoreAdded
  <2>5. g[x] = v[Q[n]]
    BY <1>3, <1>5
  <2> QED BY <2>4, <2>5 DEF Total
<1> QED BY <1>3, <1>5, <1>6, <1>7 DEF OneAdded

-----------------------------------------------------------------------------
(* The row of a bucket *)

\* A division by n is off by less than n.
LEMMA Division ==
  ASSUME NEW a \in Nat, NEW n \in Nat \ {0}, NEW d, d = a \div n
  PROVE  d \in Nat /\ n * d <= a /\ a < n * d + n
OBVIOUS

\* So an average that is rounded is off by no more than half a unit.
LEMMA RoundedAverage ==
  ASSUME NEW sum \in Nat, NEW n \in Nat \ {0}, NEW avg, avg = (2 * sum + n) \div (2 * n)
  PROVE  /\ avg \in Nat /\ n * avg \in Nat
         /\ 2 * (n * avg - sum) <= n /\ 2 * (sum - n * avg) <= n
<1> PICK a \in Nat, d \in Nat \ {0} : a = 2 * sum + n /\ d = 2 * n
  OBVIOUS
<1>1. avg = a \div d
  OBVIOUS
<1>2. avg \in Nat /\ d * avg <= a /\ a < d * avg + d
  BY ONLY <1>1, a \in Nat, d \in Nat \ {0}, Division
<1> PICK p \in Nat : p = n * avg
  BY <1>2
<1>3. d * avg = 2 * p
  BY <1>2
<1>4. 2 * p <= 2 * sum + n /\ 2 * sum + n < 2 * p + 2 * n
  BY <1>2, <1>3
<1>5. 2 * (p - sum) <= n /\ 2 * (sum - p) <= n
  BY <1>4
<1> QED BY <1>2, <1>5

\* A sequence of numbers has a least and a greatest one.
LEMMA Extremes ==
  ASSUME NEW s, s \in Seq(Nat), s # << >>
  PROVE  /\ \E i \in DOMAIN s : Min(ToSet(s)) = s[i]
         /\ \A i \in DOMAIN s : Min(ToSet(s)) <= s[i]
         /\ \E i \in DOMAIN s : Max(ToSet(s)) = s[i]
         /\ \A i \in DOMAIN s : s[i] <= Max(ToSet(s))
<1> PICK D, S : D = 1 .. Len(s) /\ S = ToSet(s)
  OBVIOUS
<1>1. DOMAIN s = D /\ IsFiniteSet(D) /\ D # {} /\ Len(s) \in Nat
  <2>1. Len(s) \in Nat /\ Len(s) # 0 /\ DOMAIN s = 1 .. Len(s)
    OBVIOUS
  <2>2. IsFiniteSet(D)
    BY <2>1, FS_Interval
  <2>3. 1 \in D
    BY <2>1
  <2> QED BY <2>1, <2>2, <2>3
<1>2. S = {s[i] : i \in D}
  BY <1>1 DEF ToSet
<1>3. S \subseteq Nat /\ S # {}
  BY <1>1, <1>2
<1>4. PICK m \in S : \A x \in S : m <= x
  BY <1>3, LeastNat
<1>5. Min(S) \in S /\ \A x \in S : Min(S) <= x
  BY <1>4 DEF Min
<1>6. IsFiniteSet(S)
  <2> PICK f : f = [i \in D |-> s[i]]
    OBVIOUS
  <2>1. f \in Surjection(D, S)
    BY <1>2 DEF Surjection
  <2> QED BY <1>1, <2>1, FS_Surjection
<1>7. PICK h \in S : \A x \in S : x <= h
  <2> PICK O : O = {p \in S \X S : p[1] < p[2]}
    OBVIOUS
  <2>1. \A x, y \in S : <<x, y>> \in O <=> x < y
    OBVIOUS
  <2>2. \A x, y \in S : x = y \/ <<x, y>> \in O \/ <<y, x>> \in O
    <3>1. \A x, y \in S : x = y \/ x < y \/ y < x
      BY <1>3
    <3> QED BY <2>1, <3>1
  <2>3. \A x, y, z \in S : <<x, y>> \in O /\ <<y, z>> \in O => <<x, z>> \in O
    <3>1. \A x, y, z \in S : x < y /\ y < z => x < z
      BY <1>3
    <3> QED BY <2>1, <3>1
  <2>4. \A T \in SUBSET S : T # {} => \E x \in T : \A y \in T : y # x => <<y, x>> \in O
    BY ONLY <1>6, <2>2, <2>3, LastExists
  <2>5. S \in SUBSET S
    OBVIOUS
  <2>6. PICK h \in S : \A y \in S : y # h => <<y, h>> \in O
    BY ONLY <1>3, <2>4, <2>5
  <2>7. \A y \in S : y <= h
    <3> SUFFICES ASSUME NEW y \in S PROVE y <= h
      OBVIOUS
    <3>1. y \in Nat /\ h \in Nat
      BY <1>3
    <3>2. y = h \/ y < h
      BY <2>1, <2>6
    <3> QED BY <3>1, <3>2
  <2> QED BY <2>7
<1>8. Max(S) \in S /\ \A x \in S : x <= Max(S)
  <2>1. \E x \in S : \A y \in S : x >= y
    BY <1>3, <1>7
  <2>2. Max(S) \in S /\ \A x \in S : Max(S) >= x
    BY <2>1 DEF Max
  <2> QED BY <1>3, <2>2
<1>9. /\ \E i \in D : Min(S) = s[i]
      /\ \A i \in D : Min(S) <= s[i]
      /\ \E i \in D : Max(S) = s[i]
      /\ \A i \in D : s[i] <= Max(S)
  <2>1. (\E i \in D : Min(S) = s[i]) /\ \E i \in D : Max(S) = s[i]
    BY <1>2, <1>5, <1>8
  <2>2. \A i \in D : s[i] \in S
    BY <1>2
  <2> QED BY <1>5, <1>8, <2>1, <2>2
<1> QED BY <1>1, <1>9

\* What a row tells of its bucket.
Tells(r, m, t, k) ==
  /\ r.minute = m /\ r.target = t /\ r.sent = k.sent /\ r.lost = k.lost
  /\ r.has_rtt <=> Len(k.rtt) > 0
  /\ Weight(r) = k.sent - k.lost
  /\ Len(k.rtt) > 0 =>
       /\ \E i \in DOMAIN k.rtt : r.min = k.rtt[i]
       /\ \A i \in DOMAIN k.rtt : r.min <= k.rtt[i]
       /\ \E i \in DOMAIN k.rtt : r.max = k.rtt[i]
       /\ \A i \in DOMAIN k.rtt : k.rtt[i] <= r.max
       /\ 2 * (Len(k.rtt) * r.avg - SumFunction(k.rtt)) <= Len(k.rtt)
       /\ 2 * (SumFunction(k.rtt) - Len(k.rtt) * r.avg) <= Len(k.rtt)

\* A row that is filled tells its bucket.
LEMMA RowTells ==
  ASSUME NEW m \in Minutes, NEW t \in Targets, NEW k, NEW c \in Nat, c <= MaxSamples,
         Fair(k, c), k # NoBucket
  PROVE  Filled(m, t, k) \in Row /\ Tells(Filled(m, t, k), m, t, k)
<1> PICK q, n, sum, r : q = k.rtt /\ n = Len(k.rtt) /\ sum = SumFunction(k.rtt) /\ r = Filled(m, t, k)
  OBVIOUS
<1>1. /\ k.sent \in 0 .. MaxSamples /\ k.lost \in 0 .. MaxSamples /\ q \in Seq(Rtts)
      /\ n \in Nat /\ k.lost + n <= k.sent /\ Rtts \subseteq Nat /\ MaxSamples \in Nat
  BY RollupAssumption DEF Fair, Bucket
<1>2. q \in Seq(Nat) /\ DOMAIN q = 1 .. n /\ \A i \in DOMAIN q : q[i] \in Nat
  <2>1. DOMAIN q = 1 .. n
    <3>1. q \in Seq(Rtts) /\ n = Len(q)
      BY <1>1
    <3> QED BY ONLY <3>1
  <2>2. \A i \in DOMAIN q : q[i] \in Rtts
    <3>1. q \in Seq(Rtts)
      BY <1>1
    <3> QED BY ONLY <3>1
  <2>3. q \in Seq(Nat)
    <3>1. q \in Seq(Rtts)
      BY <1>1
    <3>2. q = [i \in 1 .. Len(q) |-> q[i]] /\ Len(q) \in Nat
      BY ONLY <3>1
    <3>3. \A i \in 1 .. Len(q) : q[i] \in Nat
      BY <1>1, <2>1, <2>2
    <3> QED BY ONLY <3>2, <3>3
  <2> QED BY <1>1, <2>1, <2>2, <2>3
<1>3. sum \in Nat
  <2>1. IsFiniteSet(DOMAIN q)
    BY <1>1, <1>2, FS_Interval
  <2> QED BY <1>2, <2>1, NatsAdded
<1>4. k.sent \in 1 .. MaxSamples
  <2> SUFFICES ASSUME k.sent = 0 PROVE FALSE
    BY <1>1
  <2>1. k.lost = 0 /\ n = 0
    BY <1>1
  <2>2. q = << >>
    <3>1. q \in Seq(Rtts) /\ Len(q) = 0
      BY <1>1, <2>1
    <3> QED BY ONLY <3>1
  <2>3. k = NoBucket
    BY <2>1, <2>2 DEF NoBucket, Fair, Bucket
  <2> QED BY <2>3
<1>5. r = [minute |-> m, target |-> t, sent |-> k.sent, lost |-> k.lost,
           has_rtt |-> n > 0,
           min |-> IF n = 0 THEN 0 ELSE Min(ToSet(q)),
           avg |-> IF n = 0 THEN 0 ELSE (2 * sum + n) \div (2 * n),
           max |-> IF n = 0 THEN 0 ELSE Max(ToSet(q))]
  BY DEF Filled
<1>6. /\ r.minute = m /\ r.target = t /\ r.sent = k.sent /\ r.lost = k.lost
      /\ r.has_rtt <=> n > 0
  <2>1. r.minute = m /\ r.target = t /\ r.sent = k.sent /\ r.lost = k.lost
    BY <1>5
  <2>2. r.has_rtt <=> n > 0
    <3>1. r.has_rtt = (n > 0)
      BY <1>5
    <3> QED BY <3>1
  <2> QED BY <2>1, <2>2
<1>7. Weight(r) = k.sent - k.lost
  BY <1>1, <1>6 DEF Weight
<1>8. CASE n = 0
  <2>1. r \in Row
    BY <1>1, <1>4, <1>5, <1>8 DEF Row
  <2> QED BY <1>6, <1>7, <1>8, <2>1 DEF Tells
<1>9. CASE n > 0
  <2>1. q # << >>
    BY <1>9
  <2>2. r.min = Min(ToSet(q)) /\ r.max = Max(ToSet(q)) /\ r.avg = (2 * sum + n) \div (2 * n)
    BY <1>5, <1>9
  <2>3. /\ \E i \in DOMAIN q : r.min = q[i]
        /\ \A i \in DOMAIN q : r.min <= q[i]
        /\ \E i \in DOMAIN q : r.max = q[i]
        /\ \A i \in DOMAIN q : q[i] <= r.max
    BY <1>2, <2>1, <2>2, Extremes
  <2>4. r.avg \in Nat /\ 2 * (n * r.avg - sum) <= n /\ 2 * (sum - n * r.avg) <= n
    <3>1. n \in Nat \ {0} /\ sum \in Nat /\ r.avg = (2 * sum + n) \div (2 * n)
      BY <1>1, <1>3, <1>9, <2>2
    <3> PICK avg : avg = r.avg
      OBVIOUS
    <3>2. avg \in Nat /\ 2 * (n * avg - sum) <= n /\ 2 * (sum - n * avg) <= n
      BY ONLY <3>1, avg = r.avg, RoundedAverage
    <3> QED BY <3>2
  <2>5. r.min \in Nat /\ r.max \in Nat
    BY <1>2, <2>3
  <2> PICK lo \in Nat, hi \in Nat, av \in Nat : lo = r.min /\ hi = r.max /\ av = r.avg
    BY <2>4, <2>5
  <2>6. r = [minute |-> m, target |-> t, sent |-> k.sent, lost |-> k.lost,
             has_rtt |-> n > 0, min |-> lo, avg |-> av, max |-> hi]
    <3>1. /\ lo = IF n = 0 THEN 0 ELSE Min(ToSet(q))
          /\ av = IF n = 0 THEN 0 ELSE (2 * sum + n) \div (2 * n)
          /\ hi = IF n = 0 THEN 0 ELSE Max(ToSet(q))
      BY <1>9, <2>2
    <3> QED BY <1>5, <3>1
  <2>7. r \in Row
    BY <1>1, <1>4, <2>6 DEF Row
  <2> QED BY <1>6, <1>7, <1>9, <2>3, <2>4, <2>7 DEF Tells
<1> QED BY <1>1, <1>8, <1>9

-----------------------------------------------------------------------------
(* The rows of a target in a minute *)

\* A row is for a minute and a target.
IsFor(r, m, t) == r.minute = m /\ r.target = t

-----------------------------------------------------------------------------
(* A sample comes *)

Sampled == [target : Targets, utc : 0 .. MaxTime, result : Results]

\* What a sequence becomes with one more sample.
LEMMA OneMoreSample ==
  ASSUME NEW g \in Seq(Sampled), NEW s \in Sampled, NEW h, h = Append(g, s)
  PROVE  /\ h \in Seq(Sampled) /\ Len(g) \in Nat /\ Len(h) = Len(g) + 1
         /\ DOMAIN g = 1 .. Len(g) /\ DOMAIN h = DOMAIN g \cup {Len(g) + 1}
         /\ Len(g) + 1 \notin DOMAIN g
         /\ h[Len(g) + 1] = s /\ \A i \in DOMAIN g : h[i] = g[i]
<1>1. h \in Seq(Sampled) /\ Len(h) = Len(g) + 1
  OBVIOUS
<1>2. Len(g) \in Nat /\ DOMAIN g = 1 .. Len(g)
  OBVIOUS
<1>3. DOMAIN h = 1 .. Len(g) + 1
  BY <1>1
<1>4. h[Len(g) + 1] = s
  OBVIOUS
<1>5. \A i \in DOMAIN g : h[i] = g[i]
  <2> SUFFICES ASSUME NEW i \in DOMAIN g PROVE h[i] = g[i]
    OBVIOUS
  <2> QED BY <1>2
<1>6. DOMAIN h = DOMAIN g \cup {Len(g) + 1} /\ Len(g) + 1 \notin DOMAIN g
  BY <1>2, <1>3
<1> QED BY <1>1, <1>2, <1>4, <1>5, <1>6

\* The sets of samples are finite.
LEMMA OwnIsFinite ==
  ASSUME NEW g \in Seq(Sampled), NEW t, NEW m
  PROVE  /\ IsFiniteSet(Own(g, t, m)) /\ IsFiniteSet(LostOwn(g, t, m))
         /\ IsFiniteSet(TimedOwn(g, t, m))
         /\ Own(g, t, m) \subseteq DOMAIN g
         /\ LostOwn(g, t, m) \subseteq Own(g, t, m) /\ TimedOwn(g, t, m) \subseteq Own(g, t, m)
<1>1. DOMAIN g = 1 .. Len(g) /\ Len(g) \in Nat
  OBVIOUS
<1>2. IsFiniteSet(DOMAIN g)
  BY <1>1, FS_Interval
<1>3. /\ Own(g, t, m) \subseteq DOMAIN g
      /\ LostOwn(g, t, m) \subseteq Own(g, t, m) /\ TimedOwn(g, t, m) \subseteq Own(g, t, m)
  BY DEF Own, LostOwn, TimedOwn
<1>4. IsFiniteSet(Own(g, t, m))
  BY <1>2, <1>3, FS_Subset
<1>5. IsFiniteSet(LostOwn(g, t, m)) /\ IsFiniteSet(TimedOwn(g, t, m))
  BY <1>3, <1>4, FS_Subset
<1> QED BY <1>3, <1>4, <1>5

\* A sample of another target or minute tells nothing.
AsBefore(g, h, t, m) ==
  /\ Own(h, t, m) = Own(g, t, m) /\ LostOwn(h, t, m) = LostOwn(g, t, m)
  /\ TimedOwn(h, t, m) = TimedOwn(g, t, m) /\ TimeOf(h, t, m) = TimeOf(g, t, m)
  /\ \A i \in Own(g, t, m) : h[i] = g[i]

\* A sample of another target or another minute leaves those of t and m.
LEMMA SampleOfOther ==
  ASSUME NEW g \in Seq(Sampled), NEW s \in Sampled, NEW h, h = Append(g, s), NEW t, NEW m,
         ~(s.target = t /\ Minute(s.utc) = m)
  PROVE  AsBefore(g, h, t, m)
<1>1. /\ DOMAIN h = DOMAIN g \cup {Len(g) + 1}
      /\ h[Len(g) + 1] = s /\ \A i \in DOMAIN g : h[i] = g[i]
  BY OneMoreSample
<1>2. Own(h, t, m) = Own(g, t, m)
  BY <1>1 DEF Own
<1>3. \A i \in Own(g, t, m) : h[i] = g[i]
  BY <1>1 DEF Own
<1>4. LostOwn(h, t, m) = LostOwn(g, t, m) /\ TimedOwn(h, t, m) = TimedOwn(g, t, m)
  BY <1>2, <1>3 DEF LostOwn, TimedOwn
<1>5. TimeOf(h, t, m) = TimeOf(g, t, m)
  <2>1. \A i \in TimedOwn(g, t, m) : h[i].result = g[i].result
    BY <1>3 DEF TimedOwn
  <2>2. [i \in TimedOwn(h, t, m) |-> h[i].result] = [i \in TimedOwn(g, t, m) |-> g[i].result]
    BY <1>4, <2>1
  <2> QED BY <2>2 DEF TimeOf
<1> QED BY <1>2, <1>3, <1>4, <1>5 DEF AsBefore

\* One of them is one more.
OneMore(g, h, t, m, s) ==
  /\ Own(h, t, m) = Own(g, t, m) \cup {Len(g) + 1}
  /\ h[Len(g) + 1] = s /\ \A i \in Own(g, t, m) : h[i] = g[i]
  /\ Cardinality(Own(h, t, m)) = Cardinality(Own(g, t, m)) + 1
  /\ s.result = Lost => Cardinality(LostOwn(h, t, m)) = Cardinality(LostOwn(g, t, m)) + 1
  /\ s.result # Lost => LostOwn(h, t, m) = LostOwn(g, t, m)
  /\ s.result \in Rtts =>
       /\ TimedOwn(h, t, m) = TimedOwn(g, t, m) \cup {Len(g) + 1}
       /\ Cardinality(TimedOwn(h, t, m)) = Cardinality(TimedOwn(g, t, m)) + 1
       /\ TimeOf(h, t, m) = TimeOf(g, t, m) + s.result
  /\ s.result \notin Rtts =>
       TimedOwn(h, t, m) = TimedOwn(g, t, m) /\ TimeOf(h, t, m) = TimeOf(g, t, m)

\* A sample of target t and minute m is one more.
LEMMA SampleOfOne ==
  ASSUME NEW g \in Seq(Sampled), NEW s \in Sampled, NEW h, h = Append(g, s), NEW t, NEW m,
         s.target = t /\ Minute(s.utc) = m
  PROVE  OneMore(g, h, t, m, s)
<1> PICK n : n = Len(g) + 1
  OBVIOUS
<1>1. /\ DOMAIN h = DOMAIN g \cup {n} /\ n \notin DOMAIN g
      /\ h[n] = s /\ \A i \in DOMAIN g : h[i] = g[i]
  BY OneMoreSample
<1>2. Own(h, t, m) = Own(g, t, m) \cup {n} /\ n \notin Own(g, t, m)
  BY <1>1 DEF Own
<1>3. \A i \in Own(g, t, m) : h[i] = g[i]
  BY <1>1 DEF Own
<1>4. Cardinality(Own(h, t, m)) = Cardinality(Own(g, t, m)) + 1
  <2>1. IsFiniteSet(Own(g, t, m))
    BY OwnIsFinite
  <2> QED BY ONLY <1>2, <2>1, FS_AddElement
<1>5. ASSUME s.result = Lost
      PROVE  Cardinality(LostOwn(h, t, m)) = Cardinality(LostOwn(g, t, m)) + 1
  <2>1. LostOwn(h, t, m) = LostOwn(g, t, m) \cup {n} /\ n \notin LostOwn(g, t, m)
    <3>1. h[n].result = Lost
      BY <1>1, <1>5
    <3> QED BY ONLY <1>2, <1>3, <3>1 DEF LostOwn
  <2>2. IsFiniteSet(LostOwn(g, t, m))
    BY OwnIsFinite
  <2> QED BY ONLY <2>1, <2>2, FS_AddElement
<1>6. ASSUME s.result # Lost PROVE LostOwn(h, t, m) = LostOwn(g, t, m)
  BY <1>1, <1>2, <1>3, <1>6 DEF LostOwn
<1>7. \A i \in TimedOwn(g, t, m) : h[i].result = g[i].result
  BY <1>3 DEF TimedOwn
<1>8. ASSUME s.result \in Rtts
      PROVE  /\ TimedOwn(h, t, m) = TimedOwn(g, t, m) \cup {n}
             /\ Cardinality(TimedOwn(h, t, m)) = Cardinality(TimedOwn(g, t, m)) + 1
             /\ TimeOf(h, t, m) = TimeOf(g, t, m) + s.result
  <2>1. TimedOwn(h, t, m) = TimedOwn(g, t, m) \cup {n} /\ n \notin TimedOwn(g, t, m)
    BY <1>1, <1>2, <1>3, <1>8 DEF TimedOwn
  <2>0. IsFiniteSet(TimedOwn(g, t, m))
    BY OwnIsFinite
  <2>2. Cardinality(TimedOwn(h, t, m)) = Cardinality(TimedOwn(g, t, m)) + 1
    BY ONLY <2>0, <2>1, FS_AddElement
  <2> PICK p, q : /\ p = [i \in TimedOwn(g, t, m) |-> g[i].result]
                  /\ q = [i \in TimedOwn(h, t, m) |-> h[i].result]
    OBVIOUS
  <2>3. /\ IsFiniteSet(DOMAIN p) /\ n \notin DOMAIN p /\ DOMAIN q = DOMAIN p \cup {n}
        /\ \A i \in DOMAIN p : q[i] = p[i]
    BY <1>7, <2>1, OwnIsFinite
  <2>4. \A i \in DOMAIN q : q[i] \in Int
    <3>1. \A i \in TimedOwn(h, t, m) : h[i].result \in Rtts
      BY DEF TimedOwn
    <3>2. \A x \in Rtts : x \in Int
      BY RollupAssumption
    <3> QED BY <3>1, <3>2
  <2>5. SumFunction(q) = SumFunction(p) + q[n]
    BY ONLY <2>3, <2>4, OneMoreAdded
  <2>6. q[n] = s.result
    BY <1>1, <2>1
  <2> QED BY <2>1, <2>2, <2>5, <2>6 DEF TimeOf
<1>9. ASSUME s.result \notin Rtts
      PROVE  TimedOwn(h, t, m) = TimedOwn(g, t, m) /\ TimeOf(h, t, m) = TimeOf(g, t, m)
  <2>1. TimedOwn(h, t, m) = TimedOwn(g, t, m)
    BY <1>1, <1>2, <1>3, <1>9 DEF TimedOwn
  <2>2. [i \in TimedOwn(h, t, m) |-> h[i].result] = [i \in TimedOwn(g, t, m) |-> g[i].result]
    BY <1>7, <2>1
  <2> QED BY <2>1, <2>2 DEF TimeOf
<1> QED BY <1>1, <1>2, <1>3, <1>4, <1>5, <1>6, <1>8, <1>9 DEF OneMore

\* A round trip is added to the bucket's.
RttGrows(q, x, p) ==
  /\ p \in Seq(Rtts) /\ Len(q) \in Nat /\ Len(p) = Len(q) + 1
  /\ DOMAIN p = DOMAIN q \cup {Len(q) + 1}
  /\ p[Len(q) + 1] = x /\ \A i \in DOMAIN q : p[i] = q[i]
  /\ SumFunction(q) \in Int /\ SumFunction(p) = SumFunction(q) + x

\* A bucket's round trips with one more.
LEMMA OneMoreRtt ==
  ASSUME NEW q \in Seq(Rtts), NEW x \in Rtts, NEW p, p = Append(q, x)
  PROVE  RttGrows(q, x, p)
<1>1. p \in Seq(Rtts) /\ Len(p) = Len(q) + 1
  OBVIOUS
<1>2. Len(q) \in Nat /\ DOMAIN q = 1 .. Len(q)
  OBVIOUS
<1>3. DOMAIN p = 1 .. Len(q) + 1
  BY <1>1
<1>4. p[Len(q) + 1] = x
  OBVIOUS
<1>5. \A i \in DOMAIN q : p[i] = q[i]
  <2> SUFFICES ASSUME NEW i \in DOMAIN q PROVE p[i] = q[i]
    OBVIOUS
  <2> QED BY <1>2
<1> PICK n : n = Len(q) + 1
  OBVIOUS
<1>6. DOMAIN p = DOMAIN q \cup {n} /\ n \notin DOMAIN q
  BY <1>2, <1>3
<1>7. \A i \in DOMAIN p : p[i] \in Int
  <2>1. \A i \in DOMAIN p : p[i] \in Rtts
    BY <1>1
  <2>2. \A y \in Rtts : y \in Int
    BY RollupAssumption
  <2> QED BY <2>1, <2>2
<1>8. IsFiniteSet(DOMAIN q)
  BY <1>2, FS_Interval
<1>9. SumFunction(p) = SumFunction(q) + p[n] /\ SumFunction(q) \in Int
  BY ONLY <1>5, <1>6, <1>7, <1>8, OneMoreAdded
<1> QED BY <1>1, <1>2, <1>4, <1>5, <1>6, <1>9 DEF RttGrows

\* Weights and times are numbers.
\* The weights of rows are numbers.
LEMMA WeightsAreNat == OkOf \in [Row -> Nat] /\ WsumOf \in [Row -> Nat]
<1> SUFFICES ASSUME NEW r \in Row PROVE Weight(r) \in Nat /\ Weight(r) * r.avg \in Nat
  BY DEF OkOf, WsumOf
<1>1. r.sent \in Nat /\ r.lost \in Nat /\ r.avg \in Nat
  BY RollupAssumption DEF Row
<1>2. Weight(r) \in Nat
  BY <1>1 DEF Weight
<1>3. \A a, b \in Nat : a * b \in Nat
  OBVIOUS
<1> QED BY <1>1, <1>2, <1>3

\* The sum of the times is a number.
LEMMA TimeIsInt == ASSUME NEW g \in Seq(Sampled), NEW t, NEW m PROVE TimeOf(g, t, m) \in Int
<1> PICK f : f = [i \in TimedOwn(g, t, m) |-> g[i].result]
  OBVIOUS
<1>1. IsFiniteSet(DOMAIN f)
  BY OwnIsFinite
<1>2. \A i \in DOMAIN f : f[i] \in Nat
  <2>1. \A i \in DOMAIN f : f[i] \in Rtts
    BY DEF TimedOwn
  <2>2. \A y \in Rtts : y \in Nat
    BY RollupAssumption
  <2> QED BY <2>1, <2>2
<1>3. SumFunction(f) \in Nat
  BY <1>1, <1>2, NatsAdded
<1> QED BY <1>3 DEF TimeOf

\* What a bucket becomes.
Grown(k, result) ==
  [sent |-> k.sent + 1,
   lost |-> IF result = Lost THEN k.lost + 1 ELSE k.lost,
   rtt  |-> IF result \in {Lost, RttNa} THEN k.rtt ELSE Append(k.rtt, result)]

\* The kinds of results are apart.
LEMMA Kinds == Lost \notin Rtts /\ RttNa \notin Rtts /\ Lost # RttNa
BY RollupAssumption DEF Lost

\* It counts the sample, and no more than there are.
LEMMA GrownIsFair ==
  ASSUME NEW k, NEW c \in Nat, c < MaxSamples, Fair(k, c), NEW result \in Results
  PROVE  Fair(Grown(k, result), c + 1)
<1> PICK q : q = k.rtt
  OBVIOUS
<1>1. /\ k.sent \in 0 .. MaxSamples /\ k.lost \in 0 .. MaxSamples /\ q \in Seq(Rtts)
      /\ MaxSamples \in Nat /\ k.lost + Len(q) <= k.sent /\ k.sent <= c
  BY RollupAssumption DEF Fair, Bucket
<1>2. Len(q) \in Nat
  BY <1>1
<1>3. k.sent + 1 \in 0 .. MaxSamples /\ k.lost + 1 \in 0 .. MaxSamples
  BY <1>1, <1>2
<1>4. CASE result = Lost
  <2>1. Grown(k, result) = [sent |-> k.sent + 1, lost |-> k.lost + 1, rtt |-> q]
    BY <1>4 DEF Grown
  <2> QED BY <1>1, <1>2, <1>3, <2>1 DEF Fair, Bucket
<1>5. CASE result = RttNa
  <2>1. Grown(k, result) = [sent |-> k.sent + 1, lost |-> k.lost, rtt |-> q]
    BY <1>5, Kinds DEF Grown
  <2> QED BY <1>1, <1>2, <1>3, <2>1 DEF Fair, Bucket
<1>6. CASE result \in Rtts
  <2> PICK p : p = Append(q, result)
    OBVIOUS
  <2>1. p \in Seq(Rtts) /\ Len(p) = Len(q) + 1
    BY <1>1, <1>6, OneMoreRtt DEF RttGrows
  <2>2. Grown(k, result) = [sent |-> k.sent + 1, lost |-> k.lost, rtt |-> p]
    BY <1>6, Kinds DEF Grown
  <2> QED BY <1>1, <1>2, <1>3, <2>1, <2>2 DEF Fair, Bucket
<1> QED BY <1>4, <1>5, <1>6 DEF Results

\* What the rows and a bucket tell of round trips depends on these alone.
LEMMA SameTimes ==
  ASSUME NEW R, NEW k, NEW g, NEW h, NEW t, NEW m, Bounded(R, k, g, t, m),
         TimedOwn(h, t, m) = TimedOwn(g, t, m), \A i \in TimedOwn(g, t, m) : h[i] = g[i],
         NEW l, l.rtt = k.rtt
  PROVE  Bounded(R, l, h, t, m)
<1> PICK T, q, I : T = TimedOwn(g, t, m) /\ q = k.rtt /\ I = Idx(TimedFor(t, m), R)
  OBVIOUS
<1>0. Covered(R, q, g, t, m) /\ Attained(R, g, t, m) /\ Held(q, g, t, m)
  BY DEF Bounded
<1>1. \A i \in T : \/ \E n \in DOMAIN q : q[n] = g[i].result
                   \/ /\ \E j \in I : R[j].min <= g[i].result
                      /\ \E j \in I : g[i].result <= R[j].max
  BY <1>0 DEF Covered
<1>2. \A j \in I : /\ \E i \in T : g[i].result = R[j].min
                   /\ \E i \in T : g[i].result = R[j].max
  BY <1>0 DEF Attained
<1>3. \A n \in DOMAIN q : \E i \in T : g[i].result = q[n]
  BY <1>0 DEF Held
<1>4. TimedOwn(h, t, m) = T /\ \A i \in T : h[i] = g[i]
  OBVIOUS
<1>5. Covered(R, q, h, t, m)
  <2>1. \A i \in T : \/ \E n \in DOMAIN q : q[n] = h[i].result
                     \/ /\ \E j \in I : R[j].min <= h[i].result
                        /\ \E j \in I : h[i].result <= R[j].max
    BY ONLY <1>1, <1>4
  <2> QED BY <2>1 DEF Covered
<1>6. Attained(R, h, t, m)
  <2>1. \A j \in I : /\ \E i \in T : h[i].result = R[j].min
                     /\ \E i \in T : h[i].result = R[j].max
    BY ONLY <1>2, <1>4
  <2> QED BY <2>1 DEF Attained
<1>7. Held(q, h, t, m)
  <2>1. \A n \in DOMAIN q : \E i \in T : h[i].result = q[n]
    BY ONLY <1>3, <1>4
  <2> QED BY <2>1 DEF Held
<1> QED BY <1>5, <1>6, <1>7 DEF Bounded

\* A sample that is not for t and m changes nothing for them.
LEMMA OthersTally ==
  ASSUME NEW g \in Seq(Sampled), NEW s \in Sampled, NEW h, h = Append(g, s), NEW t, NEW m,
         ~(s.target = t /\ Minute(s.utc) = m), NEW R, NEW k, Tally(R, k, g, t, m)
  PROVE  Tally(R, k, h, t, m)
<1>1. /\ Own(h, t, m) = Own(g, t, m) /\ LostOwn(h, t, m) = LostOwn(g, t, m)
      /\ TimedOwn(h, t, m) = TimedOwn(g, t, m) /\ TimeOf(h, t, m) = TimeOf(g, t, m)
      /\ \A i \in Own(g, t, m) : h[i] = g[i]
  <2>1. AsBefore(g, h, t, m)
    BY SampleOfOther
  <2> QED BY <2>1 DEF AsBefore
<1>2. \A i \in TimedOwn(g, t, m) : h[i] = g[i]
  BY <1>1 DEF TimedOwn
<1>3. Counted(R, k, h, t, m)
  BY <1>1 DEF Tally, Counted
<1>4. Bounded(R, k, h, t, m)
  BY <1>1, <1>2, SameTimes DEF Tally
<1>5. Averaged(R, k, h, t, m)
  BY <1>1 DEF Tally, Averaged
<1> QED BY <1>3, <1>4, <1>5 DEF Tally

\* Which rows count for t and m.
LEMMA RowsThatCount ==
  ASSUME NEW r \in Row, NEW t, NEW m
  PROVE  /\ r \in RowsFor(t, m) <=> IsFor(r, m, t)
         /\ r \in TimedFor(t, m) <=> IsFor(r, m, t) /\ r.has_rtt
BY DEF RowsFor, TimedFor, IsFor

\* The counts of rows are numbers.
LEMMA CountsAreNat == SentOf \in [Row -> Nat] /\ LostOf \in [Row -> Nat]
BY RollupAssumption DEF SentOf, LostOf, Row

\* One that is, is told of by the bucket.
LEMMA OwnTally ==
  ASSUME NEW g \in Seq(Sampled), NEW s \in Sampled, NEW h, h = Append(g, s), NEW t, NEW m,
         s.target = t /\ Minute(s.utc) = m, NEW R \in Seq(Row), NEW k, NEW c \in Nat, Fair(k, c),
         Tally(R, k, g, t, m)
  PROVE  Tally(R, Grown(k, s.result), h, t, m)
<1> PICK n, x, q, l : n = Len(g) + 1 /\ x = s.result /\ q = k.rtt /\ l = Grown(k, x)
  OBVIOUS
<1>0. /\ k.sent \in Nat /\ k.lost \in Nat /\ q \in Seq(Rtts) /\ x \in Results
      /\ l.sent = k.sent + 1
      /\ x = Lost => l.lost = k.lost + 1
      /\ x # Lost => l.lost = k.lost
      /\ x \in {Lost, RttNa} => l.rtt = q
      /\ x \in Rtts => l.rtt = Append(q, x)
  <2>1. k \in Bucket /\ x \in Results
    BY DEF Fair, Sampled
  <2>2. k.sent \in Nat /\ k.lost \in Nat /\ q \in Seq(Rtts)
    BY <2>1, RollupAssumption DEF Bucket
  <2>3. /\ l.sent = k.sent + 1
        /\ l.lost = IF x = Lost THEN k.lost + 1 ELSE k.lost
        /\ l.rtt = IF x \in {Lost, RttNa} THEN q ELSE Append(q, x)
    BY DEF Grown
  <2> QED BY ONLY <2>1, <2>2, <2>3, Kinds
<1>a. OneMore(g, h, t, m, s)
  <2>1. /\ g \in Seq(Sampled) /\ s \in Sampled /\ h = Append(g, s)
        /\ s.target = t /\ Minute(s.utc) = m
    OBVIOUS
  <2> QED BY ONLY <2>1, SampleOfOne
<1>1. /\ Own(h, t, m) = Own(g, t, m) \cup {n}
      /\ h[n] = s /\ \A i \in Own(g, t, m) : h[i] = g[i]
      /\ Cardinality(Own(h, t, m)) = Cardinality(Own(g, t, m)) + 1
  BY <1>a DEF OneMore
<1>b. /\ x = Lost => Cardinality(LostOwn(h, t, m)) = Cardinality(LostOwn(g, t, m)) + 1
      /\ x # Lost => LostOwn(h, t, m) = LostOwn(g, t, m)
  BY <1>a DEF OneMore
<1>c. /\ x \in Rtts => /\ TimedOwn(h, t, m) = TimedOwn(g, t, m) \cup {n}
                       /\ Cardinality(TimedOwn(h, t, m)) = Cardinality(TimedOwn(g, t, m)) + 1
                       /\ TimeOf(h, t, m) = TimeOf(g, t, m) + x
      /\ x \notin Rtts => /\ TimedOwn(h, t, m) = TimedOwn(g, t, m)
                          /\ TimeOf(h, t, m) = TimeOf(g, t, m)
  BY <1>a DEF OneMore
<1>2. \A i \in TimedOwn(g, t, m) : h[i] = g[i]
  BY <1>1 DEF TimedOwn
<1>3. Counted(R, l, h, t, m)
  <2> PICK a, b, o, p : /\ a = Total(SentOf, RowsFor(t, m), R) /\ b = Total(LostOf, RowsFor(t, m), R)
                        /\ o = Cardinality(Own(g, t, m)) /\ p = Cardinality(LostOwn(g, t, m))
    OBVIOUS
  <2>1. a + k.sent = o /\ b + k.lost = p
    BY DEF Tally, Counted
  <2>2. SentOf \in [Row -> Nat] /\ LostOf \in [Row -> Nat]
    BY CountsAreNat
  <2>3. a \in Nat /\ b \in Nat
    BY <2>2, TotalIsNat
  <2>4. a + l.sent = o + 1
    BY <1>0, <2>1, <2>3
  <2>5. b + l.lost = Cardinality(LostOwn(h, t, m))
    <3>1. CASE x = Lost
      <4>1. Cardinality(LostOwn(h, t, m)) = p + 1 /\ l.lost = k.lost + 1 /\ k.lost \in Nat
        BY <1>0, <1>b, <3>1
      <4> QED BY ONLY <2>1, <2>3, <4>1
    <3>2. CASE x # Lost
      BY <1>0, <1>b, <2>1, <3>2
    <3> QED BY <3>1, <3>2
  <2> QED BY <1>1, <2>4, <2>5 DEF Counted
<1>4. CASE x \in Rtts
  <2> PICK y, p : y = Len(q) + 1 /\ p = Append(q, x)
    OBVIOUS
  <2>1. /\ p \in Seq(Rtts) /\ Len(q) \in Nat /\ Len(p) = Len(q) + 1
        /\ DOMAIN p = DOMAIN q \cup {y}
        /\ p[y] = x /\ \A i \in DOMAIN q : p[i] = q[i]
        /\ SumFunction(q) \in Int /\ SumFunction(p) = SumFunction(q) + x
    <3>1. RttGrows(q, x, p)
      BY <1>0, <1>4, OneMoreRtt
    <3> QED BY <3>1 DEF RttGrows
  <2>2. l.rtt = p /\ TimedOwn(h, t, m) = TimedOwn(g, t, m) \cup {n} /\ h[n].result = x
    BY <1>0, <1>1, <1>4, <1>c
  <2>3. Bounded(R, l, h, t, m)
    <3>1. Covered(R, q, g, t, m) /\ Attained(R, g, t, m) /\ Held(q, g, t, m)
      BY DEF Tally, Bounded
    <3>2. ASSUME NEW i \in TimedOwn(h, t, m)
          PROVE  \/ \E j \in DOMAIN p : p[j] = h[i].result
                 \/ /\ \E j \in Idx(TimedFor(t, m), R) : R[j].min <= h[i].result
                    /\ \E j \in Idx(TimedFor(t, m), R) : h[i].result <= R[j].max
      <4>1. CASE i = n
        BY <2>1, <2>2, <4>1
      <4>2. CASE i # n
        <5>1. i \in TimedOwn(g, t, m) /\ h[i] = g[i]
          BY <1>2, <2>2, <4>2
        <5>2. \/ \E j \in DOMAIN q : q[j] = g[i].result
              \/ /\ \E j \in Idx(TimedFor(t, m), R) : R[j].min <= g[i].result
                 /\ \E j \in Idx(TimedFor(t, m), R) : g[i].result <= R[j].max
          BY <3>1, <5>1 DEF Covered
        <5> QED BY <2>1, <5>1, <5>2
      <4> QED BY <4>1, <4>2
    <3>3. ASSUME NEW j \in Idx(TimedFor(t, m), R)
          PROVE  /\ \E i \in TimedOwn(h, t, m) : h[i].result = R[j].min
                 /\ \E i \in TimedOwn(h, t, m) : h[i].result = R[j].max
      <4>1. /\ \E i \in TimedOwn(g, t, m) : g[i].result = R[j].min
            /\ \E i \in TimedOwn(g, t, m) : g[i].result = R[j].max
        BY <3>1 DEF Attained
      <4> QED BY <1>2, <2>2, <4>1
    <3>4. ASSUME NEW j \in DOMAIN p PROVE \E i \in TimedOwn(h, t, m) : h[i].result = p[j]
      <4>1. CASE j = y
        BY <2>1, <2>2, <4>1
      <4>2. CASE j # y
        <5>1. j \in DOMAIN q /\ p[j] = q[j]
          BY <2>1, <4>2
        <5>2. \E i \in TimedOwn(g, t, m) : g[i].result = q[j]
          BY <3>1, <5>1 DEF Held
        <5> QED BY <1>2, <2>2, <5>1, <5>2
      <4> QED BY <4>1, <4>2
    <3>5. Covered(R, p, h, t, m)
      BY ONLY <3>2 DEF Covered
    <3>6. Attained(R, h, t, m)
      BY ONLY <3>3 DEF Attained
    <3>7. Held(p, h, t, m)
      BY ONLY <3>4 DEF Held
    <3> QED BY <2>2, <3>5, <3>6, <3>7 DEF Bounded
  <2>4. Averaged(R, l, h, t, m)
    <3> SUFFICES ASSUME \A i \in Own(h, t, m) : h[i].result # RttNa
                 PROVE  LET ok    == Total(OkOf, TimedFor(t, m), R)
                            error == Total(WsumOf, TimedFor(t, m), R) + SumFunction(p) - TimeOf(h, t, m)
                        IN  /\ ok + Len(p) = Cardinality(TimedOwn(h, t, m))
                            /\ l.sent = l.lost + Len(p)
                            /\ 2 * error <= ok /\ 2 * (-error) <= ok
      BY <2>2 DEF Averaged
    <3> PICK ok, ws, ti, card, z : /\ ok = Total(OkOf, TimedFor(t, m), R)
                                   /\ ws = Total(WsumOf, TimedFor(t, m), R)
                                   /\ ti = TimeOf(g, t, m) /\ card = Cardinality(TimedOwn(g, t, m))
                                   /\ z = SumFunction(q)
      OBVIOUS
    <3>1. \A i \in Own(g, t, m) : g[i].result # RttNa
      BY <1>1
    <3>2. /\ ok + Len(q) = card /\ k.sent = k.lost + Len(q)
          /\ 2 * (ws + z - ti) <= ok /\ 2 * (-(ws + z - ti)) <= ok
      BY <3>1 DEF Tally, Averaged
    <3>3. ok \in Nat /\ ws \in Nat
      BY WeightsAreNat, TotalIsNat
    <3>4. ti \in Int /\ x \in Int /\ z \in Int
      BY <1>4, <2>1, RollupAssumption, TimeIsInt
    <3>5. TimeOf(h, t, m) = ti + x /\ Cardinality(TimedOwn(h, t, m)) = card + 1 /\ SumFunction(p) = z + x
      BY <1>c, <1>4, <2>1
    <3>6. ws + (z + x) - (ti + x) = ws + z - ti
      BY ONLY <3>3, <3>4
    <3>7. ok + Len(p) = card + 1 /\ l.sent = l.lost + Len(p)
      <4>1. l.lost = k.lost /\ l.sent = k.sent + 1 /\ k.lost \in Nat /\ k.sent \in Nat
        BY <1>0, <1>4, Kinds
      <4>2. Len(p) = Len(q) + 1 /\ Len(q) \in Nat
        BY <2>1
      <4>3. ok + Len(q) = card /\ k.sent = k.lost + Len(q)
        BY <3>2
      <4> PICK e, f : e = Len(q) /\ f = Len(p)
        BY <4>2
      <4>4. e \in Nat /\ f = e + 1 /\ ok + e = card /\ k.sent = k.lost + e
        BY <4>2, <4>3
      <4>5. ok + f = card + 1
        BY ONLY <3>3, <4>4
      <4>6. k.sent + 1 = k.lost + f
        BY ONLY <4>1, <4>4
      <4> QED BY <4>1, <4>5, <4>6
    <3> QED BY <3>2, <3>5, <3>6, <3>7
  <2> QED BY <1>3, <2>3, <2>4 DEF Tally
<1>5. CASE x \in {Lost, RttNa}
  <2>1. l.rtt = q /\ x \notin Rtts
    BY <1>0, <1>5, Kinds
  <2>2. Bounded(R, l, h, t, m)
    <3>1. Bounded(R, k, g, t, m) /\ TimedOwn(h, t, m) = TimedOwn(g, t, m) /\ l.rtt = k.rtt
      BY <1>c, <2>1 DEF Tally
    <3> QED BY <1>2, <3>1, SameTimes
  <2>3. Averaged(R, l, h, t, m)
    <3> SUFFICES ASSUME \A i \in Own(h, t, m) : h[i].result # RttNa PROVE Averaged(R, l, h, t, m)
      BY DEF Averaged
    <3>1. (\A i \in Own(g, t, m) : g[i].result # RttNa) /\ x # RttNa
      BY <1>1
    <3>2. k.sent = k.lost + Len(q)
      BY <3>1 DEF Tally, Averaged
    <3>3. l.sent = l.lost + Len(q)
      <4>1. Len(q) \in Nat
        BY <1>0
      <4> QED BY <1>0, <1>5, <3>1, <3>2, <4>1
    <3> QED BY <1>c, <2>1, <3>1, <3>3 DEF Tally, Averaged
  <2> QED BY <1>3, <2>2, <2>3 DEF Tally
<1> QED BY <1>0, <1>4, <1>5 DEF Results

-----------------------------------------------------------------------------
(* A flush *)

\* Rows of other targets and minutes change nothing.
LEMMA OthersFlush ==
  ASSUME NEW R \in Seq(Row), NEW Q \in Seq(Row), NEW t, NEW m,
         \A j \in DOMAIN Q : ~IsFor(Q[j], m, t),
         NEW k, NEW g, Tally(R, k, g, t, m)
  PROVE  Tally(R \o Q, k, g, t, m)
<1> PICK S, C, D : S = R \o Q /\ C = RowsFor(t, m) /\ D = TimedFor(t, m)
  OBVIOUS
<1>1. \A j \in DOMAIN Q : Q[j] \notin C /\ Q[j] \notin D
  BY RowsThatCount
<1>a. NoneAdded(R, S, C) /\ NoneAdded(R, S, D)
  BY <1>1, TotalOfOthers
<1>2. \A v : Total(v, C, S) = Total(v, C, R)
  BY <1>a DEF NoneAdded
<1>3. /\ Idx(D, S) = Idx(D, R)
      /\ \A i \in Idx(D, R) : S[i] = R[i]
      /\ \A v : Total(v, D, S) = Total(v, D, R)
  BY <1>a DEF NoneAdded
<1>4. Counted(S, k, g, t, m)
  BY <1>2 DEF Tally, Counted
<1>5. Averaged(S, k, g, t, m)
  BY <1>3 DEF Tally, Averaged
<1>6. Bounded(S, k, g, t, m)
  <2> PICK T, q, I : T = TimedOwn(g, t, m) /\ q = k.rtt /\ I = Idx(D, R)
    OBVIOUS
  <2>1. Covered(R, q, g, t, m) /\ Attained(R, g, t, m) /\ Held(q, g, t, m)
    BY DEF Tally, Bounded
  <2>2. Covered(S, q, g, t, m)
    <3>0. \A j \in I : S[j] = R[j]
      BY <1>3
    <3>1. \A i \in T : \/ \E n \in DOMAIN q : q[n] = g[i].result
                       \/ /\ \E j \in I : R[j].min <= g[i].result
                          /\ \E j \in I : g[i].result <= R[j].max
      BY <2>1 DEF Covered
    <3>2. \A i \in T : \/ \E n \in DOMAIN q : q[n] = g[i].result
                       \/ /\ \E j \in I : S[j].min <= g[i].result
                          /\ \E j \in I : g[i].result <= S[j].max
      BY ONLY <3>0, <3>1
    <3> QED BY <1>3, <3>2 DEF Covered
  <2>3. Attained(S, g, t, m)
    <3>0. \A j \in I : S[j] = R[j]
      BY <1>3
    <3>1. \A j \in I : /\ \E i \in T : g[i].result = R[j].min
                       /\ \E i \in T : g[i].result = R[j].max
      BY <2>1 DEF Attained
    <3>2. \A j \in I : /\ \E i \in T : g[i].result = S[j].min
                       /\ \E i \in T : g[i].result = S[j].max
      BY ONLY <3>0, <3>1
    <3> QED BY <1>3, <3>2 DEF Attained
  <2> QED BY <2>1, <2>2, <2>3 DEF Bounded
<1> QED BY <1>4, <1>5, <1>6 DEF Tally

\* The row of a bucket takes its place.
LEMMA OwnFlush ==
  ASSUME NEW R \in Seq(Row), NEW Q \in Seq(Row), NEW t, NEW m, NEW n \in DOMAIN Q,
         NEW k, NEW c, Fair(k, c), Tells(Q[n], m, t, k),
         \A j \in DOMAIN Q : j # n => ~IsFor(Q[j], m, t),
         NEW g \in Seq(Sampled), Tally(R, k, g, t, m)
  PROVE  Tally(R \o Q, NoBucket, g, t, m)
<1> PICK S, C, D, r, q, y : /\ S = R \o Q /\ C = RowsFor(t, m) /\ D = TimedFor(t, m)
                            /\ r = Q[n] /\ q = k.rtt /\ y = Len(R) + n
  OBVIOUS
<1>0. /\ r \in Row /\ k.sent \in Nat /\ k.lost \in Nat /\ q \in Seq(Rtts) /\ Len(q) \in Nat
      /\ r.sent = k.sent /\ r.lost = k.lost
      /\ r.has_rtt <=> Len(q) > 0
      /\ Weight(r) = k.sent - k.lost
  <2>1. r \in Row
    OBVIOUS
  <2>2. k.sent \in Nat /\ k.lost \in Nat /\ q \in Seq(Rtts)
    BY RollupAssumption DEF Fair, Bucket
  <2>3. Len(q) \in Nat
    BY <2>2
  <2> QED BY <2>1, <2>2, <2>3 DEF Tells
<1>1. \A j \in DOMAIN Q : j # n => Q[j] \notin C /\ Q[j] \notin D
  BY RowsThatCount
<1>2. r \in C /\ (r \in D <=> Len(q) > 0)
  BY <1>0, RowsThatCount DEF Tells, IsFor
<1>3. \A v \in [Row -> Nat] : Total(v, C, S) = Total(v, C, R) + v[r]
  <2>1. OneAdded(R, S, C, y, r)
    BY <1>1, <1>2, TotalOfOne
  <2> QED BY <2>1 DEF OneAdded
<1>4. NoBucket.sent = 0 /\ NoBucket.lost = 0 /\ NoBucket.rtt = << >>
  BY DEF NoBucket
<1>5. Counted(S, NoBucket, g, t, m)
  <2>1. /\ Total(SentOf, C, S) = Total(SentOf, C, R) + k.sent
        /\ Total(LostOf, C, S) = Total(LostOf, C, R) + k.lost
    <3>1. SentOf[r] = k.sent /\ LostOf[r] = k.lost
      <4>1. r \in Row /\ r.sent = k.sent /\ r.lost = k.lost
        BY <1>0
      <4> QED BY ONLY <4>1 DEF SentOf, LostOf
    <3> QED BY <1>3, <3>1, CountsAreNat
  <2>2. Total(SentOf, C, R) \in Nat /\ Total(LostOf, C, R) \in Nat
    BY CountsAreNat, TotalIsNat
  <2>3. /\ Total(SentOf, C, R) + k.sent = Cardinality(Own(g, t, m))
        /\ Total(LostOf, C, R) + k.lost = Cardinality(LostOwn(g, t, m))
    BY DEF Tally, Counted
  <2>4. /\ Total(SentOf, C, S) + 0 = Cardinality(Own(g, t, m))
        /\ Total(LostOf, C, S) + 0 = Cardinality(LostOwn(g, t, m))
    BY ONLY <1>0, <2>1, <2>2, <2>3
  <2> QED BY <1>4, <2>4 DEF Counted
<1>6. Covered(R, q, g, t, m) /\ Attained(R, g, t, m) /\ Held(q, g, t, m)
  BY DEF Tally, Bounded
<1>7. Held(<< >>, g, t, m)
  BY DEF Held
<1>8. SumFunction(<< >>) = 0 /\ Len(<< >>) = 0
  <2>1. DOMAIN << >> = {}
    OBVIOUS
  <2> QED BY <2>1, NothingAdded
<1>9. CASE Len(q) = 0
  <2>1. \A j \in DOMAIN Q : Q[j] \notin D
    BY <1>1, <1>2, <1>9
  <2>2. /\ Idx(D, S) = Idx(D, R)
        /\ \A i \in Idx(D, R) : S[i] = R[i]
        /\ \A v : Total(v, D, S) = Total(v, D, R)
    <3>1. NoneAdded(R, S, D)
      BY <2>1, TotalOfOthers
    <3> QED BY <3>1 DEF NoneAdded
  <2>3. q = << >>
    BY ONLY <1>0, <1>9
  <2>4. Covered(S, << >>, g, t, m)
    <3> PICK T, I : T = TimedOwn(g, t, m) /\ I = Idx(D, R)
      OBVIOUS
    <3>1. \A i \in T : /\ \E j \in I : R[j].min <= g[i].result
                       /\ \E j \in I : g[i].result <= R[j].max
      <4>1. ~ \E e \in DOMAIN q : TRUE
        BY <2>3
      <4> QED BY <1>6, <4>1 DEF Covered
    <3>2. \A i \in T : /\ \E j \in I : S[j].min <= g[i].result
                       /\ \E j \in I : g[i].result <= S[j].max
      <4>1. \A j \in I : S[j] = R[j]
        BY <2>2
      <4> QED BY ONLY <3>1, <4>1
    <3> QED BY <2>2, <3>2 DEF Covered
  <2>5. Attained(S, g, t, m)
    BY <1>6, <2>2 DEF Attained
  <2>6. Averaged(S, NoBucket, g, t, m)
    BY <1>4, <1>8, <2>2, <2>3 DEF Tally, Averaged
  <2> QED BY <1>4, <1>5, <1>7, <2>4, <2>5, <2>6 DEF Tally, Bounded
<1>10. CASE Len(q) > 0
  <2>1. /\ Idx(D, S) = Idx(D, R) \cup {y}
        /\ \A i \in Idx(D, R) : S[i] = R[i]
        /\ S[y] = r
        /\ \A v \in [Row -> Nat] : Total(v, D, S) = Total(v, D, R) + v[r]
    <3>1. OneAdded(R, S, D, y, r)
      BY <1>1, <1>2, <1>10, TotalOfOne
    <3> QED BY <3>1 DEF OneAdded
  <2>2. /\ \E i \in DOMAIN q : r.min = q[i]
        /\ \A i \in DOMAIN q : r.min <= q[i]
        /\ \E i \in DOMAIN q : r.max = q[i]
        /\ \A i \in DOMAIN q : q[i] <= r.max
    BY <1>10 DEF Tells
  <2> PICK T, I : T = TimedOwn(g, t, m) /\ I = Idx(D, R)
    OBVIOUS
  <2>3. Covered(S, << >>, g, t, m)
    <3>1. ASSUME NEW i \in T
          PROVE  /\ \E j \in Idx(D, S) : S[j].min <= g[i].result
                 /\ \E j \in Idx(D, S) : g[i].result <= S[j].max
      <4>1. CASE \E e \in DOMAIN q : q[e] = g[i].result
        <5>1. S[y].min <= g[i].result /\ g[i].result <= S[y].max
          BY <2>1, <2>2, <4>1
        <5> QED BY <2>1, <5>1
      <4>2. CASE /\ \E j \in I : R[j].min <= g[i].result
                 /\ \E j \in I : g[i].result <= R[j].max
        <5>1. PICK j \in I : R[j].min <= g[i].result
          BY <4>2
        <5>2. PICK e \in I : g[i].result <= R[e].max
          BY <4>2
        <5> QED BY <2>1, <5>1, <5>2
      <4> QED BY <1>6, <4>1, <4>2 DEF Covered
    <3> QED BY <3>1 DEF Covered
  <2>4. Attained(S, g, t, m)
    <3>1. ASSUME NEW j \in Idx(D, S)
          PROVE  /\ \E i \in T : g[i].result = S[j].min
                 /\ \E i \in T : g[i].result = S[j].max
      <4>1. CASE j = y
        <5>1. \A e \in DOMAIN q : \E i \in T : g[i].result = q[e]
          BY <1>6 DEF Held
        <5> QED BY <2>1, <2>2, <4>1, <5>1
      <4>2. CASE j # y
        <5>1. j \in I /\ S[j] = R[j]
          BY <2>1, <4>2
        <5> QED BY <1>6, <5>1 DEF Attained
      <4> QED BY <4>1, <4>2
    <3> QED BY <3>1 DEF Attained
  <2>5. Averaged(S, NoBucket, g, t, m)
    <3> SUFFICES ASSUME \A i \in Own(g, t, m) : g[i].result # RttNa
                 PROVE  LET ok    == Total(OkOf, D, S)
                            error == Total(WsumOf, D, S) + 0 - TimeOf(g, t, m)
                        IN  /\ ok + 0 = Cardinality(TimedOwn(g, t, m))
                            /\ 0 = 0 + 0
                            /\ 2 * error <= ok /\ 2 * (-error) <= ok
      BY <1>4, <1>8 DEF Averaged
    <3> PICK ok, ws, ti, z, e, p : /\ ok = Total(OkOf, D, R) /\ ws = Total(WsumOf, D, R)
                                   /\ ti = TimeOf(g, t, m) /\ z = SumFunction(q) /\ e = Len(q)
                                   /\ p = e * r.avg
      OBVIOUS
    <3>1. /\ ok + e = Cardinality(TimedOwn(g, t, m)) /\ k.sent = k.lost + e
          /\ 2 * (ws + z - ti) <= ok /\ 2 * (-(ws + z - ti)) <= ok
      BY DEF Tally, Averaged
    <3>2. ok \in Nat /\ ws \in Nat /\ ti \in Int /\ e \in Nat /\ z \in Int
      <4>1. z \in Nat
        <5>1. DOMAIN q = 1 .. Len(q)
          BY <1>0
        <5>2. IsFiniteSet(DOMAIN q)
          <6> PICK w \in Nat : w = Len(q)
            BY <1>0
          <6>1. IsFiniteSet(1 .. w)
            BY ONLY w \in Nat, FS_Interval
          <6> QED BY <5>1, <6>1
        <5>3. \A i \in DOMAIN q : q[i] \in Rtts
          BY <1>0
        <5>4. \A x \in Rtts : x \in Nat
          BY RollupAssumption
        <5> QED BY <5>2, <5>3, <5>4, NatsAdded
      <4>2. ok \in Nat /\ ws \in Nat
        BY WeightsAreNat, TotalIsNat
      <4>3. ti \in Int
        BY TimeIsInt
      <4> QED BY <1>0, <4>1, <4>2, <4>3
    <3>3. Weight(r) = e
      BY ONLY <1>0, <3>1, <3>2
    <3>4. OkOf[r] = e /\ WsumOf[r] = p
      BY <1>0, <3>3 DEF OkOf, WsumOf
    <3>5. Total(OkOf, D, S) = ok + e /\ Total(WsumOf, D, S) = ws + p
      BY <2>1, <3>4, WeightsAreNat
    <3>6. p \in Nat /\ 2 * (p - z) <= e /\ 2 * (z - p) <= e
      <4>1. r.avg \in Nat
        BY <1>0 DEF Row
      <4>2. p \in Nat
        <5>1. \A a, b \in Nat : a * b \in Nat
          OBVIOUS
        <5>2. e \in Nat /\ p = e * r.avg
          BY <3>2
        <5> QED BY ONLY <4>1, <5>1, <5>2
      <4> QED BY <1>10, <4>2 DEF Tells
    <3>7. 2 * (ws + p - ti) <= ok + e /\ 2 * (-(ws + p - ti)) <= ok + e
      BY ONLY <3>1, <3>2, <3>6
    <3>8. ok + e + 0 = ok + e /\ ws + p + 0 - ti = ws + p - ti
      BY ONLY <3>2, <3>6
    <3> QED BY <3>1, <3>5, <3>7, <3>8
  <2> QED BY <1>4, <1>5, <1>7, <2>3, <2>4, <2>5 DEF Tally, Bounded
<1> QED BY <1>0, <1>9, <1>10

\* Table left is b without the bucket of minute o and target u.
Emptied(left, b, o, u) ==
  \A m \in Minutes, t \in Targets : left[m][t] = IF m = o /\ t = u THEN NoBucket ELSE b[m][t]

\* A row that is written takes the place of its bucket.
LEMMA RowTallies ==
  ASSUME NEW b, NEW o \in Minutes, NEW u \in Targets, b[o][u] # NoBucket,
         NEW R \in Seq(Row), NEW g \in Seq(Sampled), NEW c \in Nat, c <= MaxSamples,
         FairTable(b, c),
         NEW sp, Tallied(R, b, g, sp),
         NEW left, Emptied(left, b, o, u),
         NEW S, S = Append(R, Filled(o, u, b[o][u]))
  PROVE  S \in Seq(Row) /\ Tallied(S, left, g, sp)
<1> PICK k, r, Q : k = b[o][u] /\ r = Filled(o, u, k) /\ Q = <<r>>
  OBVIOUS
<1>1. Fair(k, c) /\ r \in Row /\ Tells(r, o, u, k)
  <2>1. Fair(k, c) /\ k # NoBucket
    BY DEF FairTable
  <2> QED BY <2>1, RowTells
<1>2. Q \in Seq(Row) /\ DOMAIN Q = {1} /\ Q[1] = r
  BY <1>1
<1>3. S = R \o Q /\ S \in Seq(Row)
  <2>1. S = Append(R, r) /\ R \in Seq(Row) /\ r \in Row /\ Q = <<r>>
    BY <1>1
  <2> QED BY ONLY <2>1
<1>0. \A m \in Minutes, t \in Targets :
        left[m][t] = IF m = o /\ t = u THEN NoBucket ELSE b[m][t]
  BY DEF Emptied
<1>4. ASSUME NEW m \in Minutes, NEW t \in Targets, <<m, t>> \notin sp
      PROVE  Tally(S, left[m][t], g, t, m)
  <2>1. Tally(R, b[m][t], g, t, m)
    BY <1>4 DEF Tallied
  <2>2. CASE m = o /\ t = u
    <3>1. /\ 1 \in DOMAIN Q /\ Tells(Q[1], m, t, k) /\ Tally(R, k, g, t, m)
          /\ \A j \in DOMAIN Q : j # 1 => ~IsFor(Q[j], m, t)
      BY <1>1, <1>2, <2>1, <2>2
    <3>2. Tally(R \o Q, NoBucket, g, t, m)
      BY ONLY <1>1, <1>2, <3>1, R \in Seq(Row), g \in Seq(Sampled), OwnFlush
    <3> QED BY <1>0, <1>3, <2>2, <3>2
  <2>3. CASE ~(m = o /\ t = u)
    <3>1. \A j \in DOMAIN Q : ~IsFor(Q[j], m, t)
      BY <1>1, <1>2, <2>3 DEF IsFor, Tells
    <3>2. Tally(R \o Q, b[m][t], g, t, m)
      BY ONLY <1>2, <2>1, <3>1, R \in Seq(Row), OthersFlush
    <3> QED BY <1>0, <1>3, <2>3, <3>2
  <2> QED BY <2>2, <2>3
<1> QED BY <1>3, <1>4 DEF Tallied

-----------------------------------------------------------------------------
(* What the rows and the buckets tell *)

TInv == TypeOK /\ AllFair /\ AllTallied

\* An empty table: nothing is counted and nothing came.
LEMMA EmptyTells ==
  /\ Fair(NoBucket, 0)
  /\ \A t, m : Tally(<< >>, NoBucket, << >>, t, m)
<1>1. NoBucket.sent = 0 /\ NoBucket.lost = 0 /\ NoBucket.rtt = << >>
  BY DEF NoBucket
<1>2. Fair(NoBucket, 0)
  <2>1. NoBucket \in Bucket
    BY RollupAssumption DEF NoBucket, Bucket
  <2> QED BY <1>1, <2>1 DEF Fair
<1>3. ASSUME NEW t, NEW m PROVE Tally(<< >>, NoBucket, << >>, t, m)
  <2> PICK e : e = << >>
    OBVIOUS
  <2>1. DOMAIN e = {} /\ Len(e) = 0
    OBVIOUS
  <2>2. Own(e, t, m) = {} /\ LostOwn(e, t, m) = {} /\ TimedOwn(e, t, m) = {}
    BY <2>1 DEF Own, LostOwn, TimedOwn
  <2>3. \A C : Idx(C, e) = {}
    BY <2>1 DEF Idx
  <2>4. \A v, C : Total(v, C, e) = 0
    <3> SUFFICES ASSUME NEW v, NEW C PROVE Total(v, C, e) = 0
      OBVIOUS
    <3> PICK f : f = [i \in Idx(C, e) |-> v[e[i]]]
      OBVIOUS
    <3>1. DOMAIN f = {}
      BY <2>3
    <3>2. SumFunction(f) = 0
      BY <3>1, NothingAdded
    <3> QED BY <3>2 DEF Total
  <2>5. TimeOf(e, t, m) = 0
    <3> PICK f : f = [i \in TimedOwn(e, t, m) |-> e[i].result]
      OBVIOUS
    <3>1. DOMAIN f = {}
      BY <2>2
    <3>2. SumFunction(f) = 0
      BY <3>1, NothingAdded
    <3> QED BY <3>2 DEF TimeOf
  <2>6. SumFunction(e) = 0
    BY <2>1, NothingAdded
  <2>7. Cardinality({}) = 0
    BY FS_EmptySet
  <2>8. Counted(e, NoBucket, e, t, m)
    <3>1. /\ Total(SentOf, RowsFor(t, m), e) = 0 /\ Total(LostOf, RowsFor(t, m), e) = 0
          /\ Cardinality(Own(e, t, m)) = 0 /\ Cardinality(LostOwn(e, t, m)) = 0
      BY <2>2, <2>4, <2>7
    <3> QED BY <1>1, <3>1 DEF Counted
  <2>9. Bounded(e, NoBucket, e, t, m)
    BY <1>1, <2>1, <2>2, <2>3 DEF Bounded, Covered, Attained, Held
  <2>10. Averaged(e, NoBucket, e, t, m)
    BY <1>1, <2>1, <2>2, <2>4, <2>5, <2>6, <2>7 DEF Averaged
  <2> QED BY <2>8, <2>9, <2>10 DEF Tally
<1> QED BY <1>2, <1>3

\* The invariant holds of no samples and no rows.
LEMMA TInvInit == Init => TInv
<1> SUFFICES ASSUME Init PROVE TInv
  OBVIOUS
<1> USE DEF Init
<1>1. NoBucket \in Bucket
  BY EmptyTells DEF Fair
<1>2. TypeOK
  <2>1. buckets \in [Minutes -> [Targets -> Bucket]]
    BY <1>1 DEF Empty
  <2>2. files \in [{Date(m) : m \in Minutes} -> {"absent", "empty", "begun"}]
    OBVIOUS
  <2> QED BY <2>1, <2>2, RollupAssumption DEF TypeOK
<1>3. \A m \in Minutes, t \in Targets : buckets[m][t] = NoBucket
  BY DEF Empty
<1>4. AllFair
  <2>1. Len(given) = 0
    OBVIOUS
  <2> QED BY <1>3, <2>1, EmptyTells, RollupAssumption DEF AllFair, FairTable
<1>5. AllTallied
  BY <1>3, EmptyTells DEF AllTallied, Tallied
<1> QED BY <1>2, <1>4, <1>5 DEF TInv

\* A bucket that is written, or is not, keeps it.
LEMMA WriteKeeps ==
  ASSUME TInv, NEW k \in Keys(buckets, writing), WriteMinute(k) PROVE TInv'
<1> PICK R, b, g, c, sp, o, u : /\ R = rows /\ b = buckets /\ g = given /\ c = Len(given)
                                /\ sp = spoilt /\ o = k[1] /\ u = k[2]
  OBVIOUS
<1>0. /\ TypeOK /\ FairTable(b, c) /\ c <= MaxSamples /\ Tallied(R, b, g, sp)
      /\ g \in Seq(Sampled) /\ R \in Seq(Row) /\ sp \subseteq Minutes \X Targets
      /\ b \in [Minutes -> [Targets -> Bucket]] /\ writing \subseteq Minutes
      /\ files \in [{Date(m) : m \in Minutes} -> {"absent", "empty", "begun"}]
  BY DEF TInv, AllFair, AllTallied, TypeOK, Sampled
<1>1. o \in Minutes /\ u \in Targets /\ k = <<o, u>> /\ b[o][u] # NoBucket /\ c \in Nat
  BY <1>0 DEF Keys
<1>2. /\ buckets' = [b EXCEPT ![o][u] = NoBucket]
      /\ writing' = writing \cap Pending(buckets')
      /\ UNCHANGED <<running, now, given, crashes>>
  BY DEF WriteMinute, Erased
<1> PICK left : left = buckets'
  OBVIOUS
<1>3. \A m \in Minutes, t \in Targets :
        left[m][t] = IF m = o /\ t = u THEN NoBucket ELSE b[m][t]
  BY <1>0, <1>1, <1>2
<1>4. Fair(NoBucket, c)
  <2>1. NoBucket \in Bucket /\ NoBucket.sent = 0 /\ NoBucket.lost + Len(NoBucket.rtt) <= 0
    BY EmptyTells DEF Fair, NoBucket
  <2> QED BY <1>1, <2>1 DEF Fair
<1>5. FairTable(left, c)
  BY <1>0, <1>3, <1>4 DEF FairTable
<1>6. left \in [Minutes -> [Targets -> Bucket]]
  BY <1>0, <1>1, <1>2, <1>4 DEF Fair
<1>7. files' \in [{Date(m) : m \in Minutes} -> {"absent", "empty", "begun"}]
  <2>1. files' = files \/ files' = [files EXCEPT ![Date(o)] = "begun"]
    BY DEF WriteMinute
  <2> QED BY <1>0, <2>1
<1>8. /\ rows' \in Seq(Row) /\ spoilt' \subseteq Minutes \X Targets
      /\ Tallied(rows', left, g, spoilt')
  <2>1. CASE rows' = Append(R, Filled(o, u, b[o][u])) /\ spoilt' = sp
    <3> PICK S : S = rows'
      OBVIOUS
    <3>0. S = Append(R, Filled(o, u, b[o][u]))
      BY <2>1
    <3>1. S \in Seq(Row) /\ Tallied(S, left, g, sp)
      <4>1. /\ o \in Minutes /\ u \in Targets /\ b[o][u] # NoBucket
            /\ R \in Seq(Row) /\ g \in Seq(Sampled) /\ c \in Nat /\ c <= MaxSamples
            /\ FairTable(b, c) /\ Tallied(R, b, g, sp)
        BY ONLY <1>0, <1>1
      <4>2. Emptied(left, b, o, u)
        BY <1>3 DEF Emptied
      <4> QED BY ONLY <3>0, <4>1, <4>2, RowTallies
    <3> QED BY <1>0, <2>1, <3>1
  <2>2. CASE rows' = R /\ spoilt' = sp \cup {k}
    <3>1. spoilt' \subseteq Minutes \X Targets
      BY <1>0, <1>1, <2>2
    <3>2. Tallied(R, left, g, sp \cup {k})
      <4> SUFFICES ASSUME NEW m \in Minutes, NEW t \in Targets, <<m, t>> \notin sp \cup {k}
                   PROVE  Tally(R, left[m][t], g, t, m)
        BY DEF Tallied
      <4>1. <<m, t>> \notin sp /\ ~(m = o /\ t = u)
        BY <1>1
      <4>2. left[m][t] = b[m][t]
        BY <1>3, <4>1
      <4> QED BY <1>0, <4>1, <4>2 DEF Tallied
    <3> QED BY <1>0, <2>2, <3>1, <3>2
  <2> QED BY <2>1, <2>2 DEF WriteMinute
<1>9. TypeOK'
  <2>1. writing' \subseteq Minutes
    BY <1>0, <1>2
  <2> QED BY <1>0, <1>2, <1>6, <1>7, <1>8, <2>1 DEF TypeOK
<1>10. AllFair' /\ AllTallied'
  <2>1. FairTable(buckets', Len(given')) /\ Tallied(rows', buckets', given', spoilt')
    BY <1>2, <1>5, <1>8
  <2>2. Len(given') <= MaxSamples
    BY <1>0, <1>2
  <2> QED BY <2>1, <2>2 DEF AllFair, AllTallied, FairTable, Tallied
<1> QED BY <1>9, <1>10 DEF TInv

\* A sample keeps it.
LEMMA SampleKeeps ==
  ASSUME TInv, NEW t \in Targets, NEW result \in Results, NEW utc \in 0 .. MaxTime,
         Sample(t, result, utc)
  PROVE  TInv'
<1> PICK b, s, g, o, d : /\ b = Added(buckets, t, result, utc)
                         /\ s = [target |-> t, utc |-> utc, result |-> result]
                         /\ g = Append(given, s) /\ o = Minute(utc) /\ d = given
  OBVIOUS
<1>1. /\ Len(given) < MaxSamples /\ given' = g /\ buckets' = b
      /\ writing' = Completed(buckets', utc)
      /\ UNCHANGED <<files, rows, running, now, spoilt, crashes>>
  BY DEF Sample
<1>2. /\ d \in Seq(Sampled) /\ s \in Sampled /\ rows \in Seq(Row)
      /\ buckets \in [Minutes -> [Targets -> Bucket]]
  BY DEF TInv, TypeOK, Sampled
<1>3. g \in Seq(Sampled) /\ Len(d) \in Nat /\ Len(g) = Len(d) + 1
  BY <1>2, OneMoreSample
<1>4. Len(g) <= MaxSamples
  BY <1>1, <1>3, RollupAssumption
<1>5. o \in Minutes
  BY MinutesAreFinite
<1>6. /\ b = [buckets EXCEPT ![o][t] = Grown(buckets[o][t], result)]
      /\ \A m \in Minutes, u \in Targets :
           b[m][u] = IF m = o /\ u = t THEN Grown(buckets[m][u], result) ELSE buckets[m][u]
  <2>1. b = [buckets EXCEPT ![o][t] = Grown(buckets[o][t], result)]
    BY DEF Added, Grown
  <2> QED BY <1>2, <1>5, <2>1
<1>7. FairTable(buckets, Len(d)) /\ Tallied(rows, buckets, d, spoilt)
  BY DEF TInv, AllFair, AllTallied
<1>8. FairTable(b, Len(g))
  <2> SUFFICES ASSUME NEW m \in Minutes, NEW u \in Targets PROVE Fair(b[m][u], Len(g))
    BY DEF FairTable
  <2> PICK k, c : k = buckets[m][u] /\ c = Len(d)
    OBVIOUS
  <2>1. Fair(k, c) /\ c \in Nat /\ c < MaxSamples /\ Len(g) = c + 1
    BY <1>1, <1>3, <1>7 DEF FairTable
  <2>2. Fair(Grown(k, result), c + 1)
    BY ONLY <2>1, result \in Results, GrownIsFair
  <2>3. Fair(k, c + 1)
    <3>1. k.sent \in Nat
      BY <2>1, RollupAssumption DEF Fair, Bucket
    <3> QED BY <2>1, <3>1 DEF Fair
  <2> QED BY <1>6, <2>1, <2>2, <2>3
<1>9. Tallied(rows, b, g, spoilt)
  <2> SUFFICES ASSUME NEW m \in Minutes, NEW u \in Targets, <<m, u>> \notin spoilt
               PROVE  Tally(rows, b[m][u], g, u, m)
    BY DEF Tallied
  <2> PICK k, c, R : k = buckets[m][u] /\ c = Len(d) /\ R = rows
    OBVIOUS
  <2>1. Fair(k, c) /\ Tally(R, k, d, u, m) /\ c \in Nat /\ R \in Seq(Row)
    BY <1>2, <1>3, <1>7 DEF FairTable, Tallied
  <2>2. s.target = t /\ Minute(s.utc) = o /\ s.result = result /\ g = Append(d, s)
    OBVIOUS
  <2>3. CASE m = o /\ u = t
    <3>1. s.target = u /\ Minute(s.utc) = m
      BY <2>2, <2>3
    <3>2. Tally(R, Grown(k, s.result), g, u, m)
      BY ONLY <1>2, <2>1, <2>2, <3>1, OwnTally
    <3> QED BY <1>6, <2>2, <2>3, <3>2
  <2>4. CASE ~(m = o /\ u = t)
    <3>1. ~(s.target = u /\ Minute(s.utc) = m)
      BY <2>2, <2>4
    <3>2. Tally(R, k, g, u, m)
      BY ONLY <1>2, <2>1, <2>2, <3>1, OthersTally
    <3> QED BY <1>6, <2>4, <3>2
  <2> QED BY <2>3, <2>4
<1>10. writing' \subseteq Minutes
  BY <1>1 DEF Completed, Pending
<1>11. b \in [Minutes -> [Targets -> Bucket]]
  <2>1. Grown(buckets[o][t], result) \in Bucket
    BY <1>5, <1>6, <1>8 DEF FairTable, Fair
  <2> QED BY <1>2, <1>5, <1>6, <2>1
<1>12. TypeOK'
  <2>1. given' \in Seq([target : Targets, utc : 0 .. MaxTime, result : Results])
    BY <1>1, <1>3 DEF Sampled
  <2> QED BY <1>1, <1>10, <1>11, <2>1 DEF TInv, TypeOK
<1>13. AllFair' /\ AllTallied'
  <2>1. FairTable(buckets', Len(given')) /\ Tallied(rows', buckets', given', spoilt')
    BY <1>1, <1>8, <1>9
  <2>2. Len(given') <= MaxSamples
    BY <1>1, <1>4
  <2> QED BY <2>1, <2>2 DEF AllFair, AllTallied, FairTable, Tallied
<1> QED BY <1>12, <1>13 DEF TInv

\* Every step keeps it.
LEMMA TInvStep == TInv /\ [Next]_vars => TInv'
<1> SUFFICES ASSUME TInv, [Next]_vars PROVE TInv'
  OBVIOUS
<1>0. /\ TypeOK /\ FairTable(buckets, Len(given)) /\ Len(given) <= MaxSamples
      /\ Tallied(rows, buckets, given, spoilt)
      /\ given \in Seq(Sampled) /\ rows \in Seq(Row) /\ spoilt \subseteq Minutes \X Targets
      /\ buckets \in [Minutes -> [Targets -> Bucket]] /\ writing \subseteq Minutes
      /\ files \in [{Date(m) : m \in Minutes} -> {"absent", "empty", "begun"}]
  BY DEF TInv, AllFair, AllTallied, TypeOK, Sampled
<1>a. Len(given) \in Nat
  BY <1>0
<1>b. Empty \in [Minutes -> [Targets -> Bucket]] /\ FairTable(Empty, Len(given))
  <2>1. NoBucket \in Bucket /\ NoBucket.sent = 0 /\ NoBucket.lost + Len(NoBucket.rtt) <= 0
    BY EmptyTells DEF Fair, NoBucket
  <2>2. Fair(NoBucket, Len(given))
    BY <1>a, <2>1 DEF Fair
  <2> QED BY <2>1, <2>2 DEF Empty, FairTable
<1>1. ASSUME NEW t \in Targets, NEW result \in Results, NEW utc \in now - Jitter .. now,
             utc >= 0, Sample(t, result, utc)
      PROVE  TInv'
  <2>1. utc \in 0 .. MaxTime
    BY <1>0, <1>1, RollupAssumption DEF TypeOK
  <2> QED BY <1>1, <2>1, SampleKeeps
<1>2. ASSUME NEW k \in Keys(buckets, writing), WriteMinute(k) PROVE TInv'
  BY <1>2, WriteKeeps
<1>3. CASE Crash \/ CrashCreating
  <2> PICK lost : lost = Keys(buckets, Minutes)
    OBVIOUS
  <2>0. lost \subseteq Minutes \X Targets
        /\ \A m \in Minutes, t \in Targets : <<m, t>> \notin lost => buckets[m][t] = NoBucket
    BY DEF Keys
  <2>1. /\ running' = FALSE /\ crashes' = crashes + 1 /\ crashes < MaxCrashes
        /\ spoilt' = spoilt \cup lost /\ buckets' = Empty /\ writing' = {}
        /\ UNCHANGED <<rows, now, given>>
    BY <1>3 DEF Crash, CrashCreating, Killed
  <2>2. TypeOK'
    <3>1. spoilt' \subseteq Minutes \X Targets
      BY <1>0, <2>0, <2>1
    <3>2. crashes' \in 0 .. MaxCrashes
      BY <1>0, <2>1, RollupAssumption DEF TypeOK
    <3>3. files' \in [{Date(m) : m \in Minutes} -> {"absent", "empty", "begun"}]
      BY <1>0, <1>3 DEF Crash, CrashCreating
    <3> QED BY <1>0, <1>b, <2>1, <3>1, <3>2, <3>3 DEF TypeOK
  <2>3. Tallied(rows, Empty, given, spoilt \cup lost)
    <3> SUFFICES ASSUME NEW m \in Minutes, NEW t \in Targets, <<m, t>> \notin spoilt \cup lost
                 PROVE  Tally(rows, Empty[m][t], given, t, m)
      BY DEF Tallied
    <3>1. Empty[m][t] = buckets[m][t]
      BY <2>0 DEF Empty
    <3>2. Tally(rows, buckets[m][t], given, t, m)
      BY <1>0 DEF Tallied
    <3> QED BY <3>1, <3>2
  <2>4. FairTable(buckets', Len(given')) /\ Tallied(rows', buckets', given', spoilt')
    BY <1>b, <2>1, <2>3
  <2>5. Len(given') <= MaxSamples
    BY <1>0, <2>1
  <2> QED BY <2>2, <2>4, <2>5 DEF TInv, AllFair, AllTallied, FairTable, Tallied
<1>4. CASE /\ UNCHANGED <<buckets, files, rows, given, spoilt, crashes>>
           /\ writing' \subseteq Minutes /\ running' \in BOOLEAN /\ now' \in 0 .. MaxTime
  <2>1. TypeOK'
    BY <1>0, <1>4 DEF TypeOK
  <2>2. AllFair' /\ AllTallied'
    BY <1>0, <1>4 DEF AllFair, AllTallied, FairTable, Tallied
  <2> QED BY <2>1, <2>2 DEF TInv
<1>5. CASE Finalize \/ Start \/ Tick \/ UNCHANGED vars
  <2>1. UNCHANGED <<buckets, files, rows, given, spoilt, crashes>>
    BY <1>5 DEF Finalize, Start, Tick, vars
  <2>2. writing' \subseteq Minutes
    BY <1>0, <1>5 DEF Finalize, Start, Tick, vars, Pending
  <2>3. running' \in BOOLEAN
    BY <1>0, <1>5 DEF Finalize, Start, Tick, vars, TypeOK
  <2>4. now' \in 0 .. MaxTime
    <3>1. now' = now \/ (now < MaxTime /\ now' = now + 1)
      BY <1>5 DEF Finalize, Start, Tick, vars
    <3>2. now \in 0 .. MaxTime
      BY <1>0 DEF TypeOK
    <3> QED BY <3>1, <3>2, RollupAssumption
  <2> QED BY <1>4, <2>1, <2>2, <2>3, <2>4
<1> QED BY <1>1, <1>2, <1>3, <1>5 DEF Next, Exhausted

-----------------------------------------------------------------------------
(* What analyze sums up *)

\* Its sums are totals.
LEMMA AggregateTotals ==
  ASSUME rows \in Seq(Row), NEW m \in Minutes, NEW t \in Targets,
         NEW agg, agg = Aggregate(t, m, m)
  PROVE  /\ agg.sent = Total(SentOf, RowsFor(t, m), rows)
         /\ agg.lost = Total(LostOf, RowsFor(t, m), rows)
         /\ agg.ok = Total(OkOf, TimedFor(t, m), rows)
         /\ agg.wsum = Total(WsumOf, TimedFor(t, m), rows)
         /\ agg.mins = {rows[i].min : i \in Idx(TimedFor(t, m), rows)}
         /\ agg.maxs = {rows[i].max : i \in Idx(TimedFor(t, m), rows)}
<1> PICK R : R = rows
  OBVIOUS
<1> PICK mine : mine = {i \in DOMAIN R : /\ R[i].target = t
                                        /\ m <= R[i].minute /\ R[i].minute <= m}
  OBVIOUS
<1> PICK timed : timed = {i \in mine : R[i].has_rtt}
  OBVIOUS
<1>1. agg = [sent |-> SumFunction([i \in mine |-> R[i].sent]),
             lost |-> SumFunction([i \in mine |-> R[i].lost]),
             ok   |-> SumFunction([i \in timed |-> Weight(R[i])]),
             wsum |-> SumFunction([i \in timed |-> Weight(R[i]) * R[i].avg]),
             mins |-> {R[i].min : i \in timed}, maxs |-> {R[i].max : i \in timed}]
  BY DEF Aggregate
<1>2. \A i \in DOMAIN R : R[i] \in Row
  OBVIOUS
<1>3. \A n \in Minutes : m <= n /\ n <= m <=> n = m
  BY MinutesAreFinite
<1>4. \A i \in DOMAIN R : R[i].minute \in Minutes
  BY <1>2 DEF Row
<1>5. mine = Idx(RowsFor(t, m), R)
  <2>1. \A i \in DOMAIN R : R[i] \in RowsFor(t, m) <=> R[i].target = t /\ R[i].minute = m
    BY <1>2 DEF RowsFor
  <2> QED BY <1>3, <1>4, <2>1 DEF Idx
<1>6. timed = Idx(TimedFor(t, m), R)
  <2>1. \A i \in DOMAIN R : R[i] \in TimedFor(t, m) <=> R[i] \in RowsFor(t, m) /\ R[i].has_rtt
    BY DEF TimedFor
  <2> QED BY <1>5, <2>1 DEF Idx
<1>7. /\ [i \in mine |-> R[i].sent] = [i \in mine |-> SentOf[R[i]]]
      /\ [i \in mine |-> R[i].lost] = [i \in mine |-> LostOf[R[i]]]
  BY <1>2 DEF SentOf, LostOf
<1>8. /\ [i \in timed |-> Weight(R[i])] = [i \in timed |-> OkOf[R[i]]]
      /\ [i \in timed |-> Weight(R[i]) * R[i].avg] = [i \in timed |-> WsumOf[R[i]]]
  BY <1>2 DEF OkOf, WsumOf
<1>9. agg.sent = Total(SentOf, RowsFor(t, m), R) /\ agg.lost = Total(LostOf, RowsFor(t, m), R)
  <2>1. /\ Total(SentOf, RowsFor(t, m), R) = SumFunction([i \in mine |-> SentOf[R[i]]])
        /\ Total(LostOf, RowsFor(t, m), R) = SumFunction([i \in mine |-> LostOf[R[i]]])
    BY ONLY <1>5 DEF Total
  <2>2. /\ agg.sent = SumFunction([i \in mine |-> R[i].sent])
        /\ agg.lost = SumFunction([i \in mine |-> R[i].lost])
    BY ONLY <1>1
  <2> QED BY ONLY <1>7, <2>1, <2>2
<1>10. agg.ok = Total(OkOf, TimedFor(t, m), R) /\ agg.wsum = Total(WsumOf, TimedFor(t, m), R)
  <2>1. /\ Total(OkOf, TimedFor(t, m), R) = SumFunction([i \in timed |-> OkOf[R[i]]])
        /\ Total(WsumOf, TimedFor(t, m), R) = SumFunction([i \in timed |-> WsumOf[R[i]]])
    BY ONLY <1>6 DEF Total
  <2>2. /\ agg.ok = SumFunction([i \in timed |-> Weight(R[i])])
        /\ agg.wsum = SumFunction([i \in timed |-> Weight(R[i]) * R[i].avg])
    BY ONLY <1>1
  <2> QED BY ONLY <1>8, <2>1, <2>2
<1>11. /\ agg.mins = {R[i].min : i \in Idx(TimedFor(t, m), R)}
       /\ agg.maxs = {R[i].max : i \in Idx(TimedFor(t, m), R)}
  <2>1. agg.mins = {R[i].min : i \in timed} /\ agg.maxs = {R[i].max : i \in timed}
    BY ONLY <1>1
  <2> QED BY ONLY <1>6, <2>1
<1> QED BY <1>9, <1>10, <1>11

\* Two sets have the same least, or greatest, number if one is part of the other and
\* reaches as far.
LEMMA SameMin ==
  ASSUME NEW A, NEW B, B \subseteq Nat, B # {}, A \subseteq B, \A y \in B : \E x \in A : x <= y
  PROVE  Min(A) = Min(B)
<1>1. PICK b \in B : \A y \in B : b <= y
  BY LeastNat
<1>2. b \in A
  <2>1. PICK x \in A : x <= b
    BY <1>1
  <2>2. b <= x /\ x \in Nat /\ b \in Nat
    BY <1>1
  <2>3. x = b
    BY <2>1, <2>2
  <2> QED BY <2>3
<1>3. Min(B) \in B /\ \A y \in B : Min(B) <= y
  BY <1>1 DEF Min
<1>4. Min(A) \in A /\ \A y \in A : Min(A) <= y
  <2>1. \A y \in A : b <= y
    BY <1>1
  <2> QED BY <1>2, <2>1 DEF Min
<1>5. Min(A) = b
  <2>1. Min(A) <= b /\ b <= Min(A) /\ Min(A) \in Nat /\ b \in Nat
    BY <1>1, <1>2, <1>4
  <2> QED BY <2>1
<1>6. Min(B) = b
  <2>1. Min(B) <= b /\ b <= Min(B) /\ Min(B) \in Nat /\ b \in Nat
    BY <1>1, <1>3
  <2> QED BY <2>1
<1> QED BY <1>5, <1>6

\* The same for the greatest.
LEMMA SameMax ==
  ASSUME NEW A, NEW B, B \subseteq Nat, B # {}, A \subseteq B, \A y \in B : \E x \in A : y <= x,
         NEW u \in Nat, \A y \in B : y <= u
  PROVE  Max(A) = Max(B)
<1>1. PICK b \in B : \A y \in B : y <= b
  <2>1. B \subseteq Int /\ B # {} /\ u \in Int /\ \A y \in B : y <= u
    OBVIOUS
  <2>2. \E b \in B : \A y \in B : y <= b
    BY ONLY <2>1, GreatestInt
  <2> QED BY <2>2
<1>2. b \in A
  <2>1. PICK x \in A : b <= x
    BY <1>1
  <2>2. x <= b /\ x \in Nat /\ b \in Nat
    BY <1>1
  <2>3. x = b
    BY <2>1, <2>2
  <2> QED BY <2>3
<1>3. Max(B) \in B /\ \A y \in B : Max(B) >= y
  <2>1. \A y \in B : b >= y
    BY <1>1
  <2> QED BY <2>1 DEF Max
<1>4. Max(A) \in A /\ \A y \in A : Max(A) >= y
  <2>1. \A y \in A : b >= y
    BY <1>1
  <2> QED BY <1>2, <2>1 DEF Max
<1>5. Max(A) = b
  <2>1. Max(A) >= b /\ b >= Max(A) /\ Max(A) \in Nat /\ b \in Nat
    BY <1>1, <1>2, <1>4
  <2> QED BY <2>1
<1>6. Max(B) = b
  <2>1. Max(B) >= b /\ b >= Max(B) /\ Max(B) \in Nat /\ b \in Nat
    BY <1>1, <1>3
  <2> QED BY <2>1
<1> QED BY <1>5, <1>6

\* The larger of two numbers is one of them.
LEMMA MaxOfTwo == ASSUME NEW a \in Int, NEW b \in Int PROVE Max({a, b}) = a \/ Max({a, b}) = b
<1>1. \E x \in {a, b} : \A y \in {a, b} : x >= y
  <2>1. a >= b \/ b >= a
    OBVIOUS
  <2> QED BY <2>1
<1>2. Max({a, b}) \in {a, b}
  BY <1>1 DEF Max
<1> QED BY <1>2

\* The samples of a target and a minute, as the properties have them.
LEMMA SamplesAreOwn == ASSUME NEW t, NEW m PROVE SamplesOf(t, m) = Own(given, t, m)
BY DEF SamplesOf, Own

\* The sums are of all samples.
LEMMA TInvCounts == TInv => EverySampleCounted
<1> SUFFICES ASSUME TInv, NEW m \in Minutes, NEW t \in Targets, <<m, t>> \notin spoilt
             PROVE  /\ Aggregate(t, m, m).sent + buckets[m][t].sent = Cardinality(SamplesOf(t, m))
                    /\ Aggregate(t, m, m).lost + buckets[m][t].lost
                         = Cardinality({i \in SamplesOf(t, m) : given[i].result = Lost})
  BY DEF EverySampleCounted
<1>1. rows \in Seq(Row) /\ Tally(rows, buckets[m][t], given, t, m)
  BY DEF TInv, TypeOK, AllTallied, Tallied
<1> PICK agg : agg = Aggregate(t, m, m)
  OBVIOUS
<1>2. /\ agg.sent = Total(SentOf, RowsFor(t, m), rows)
      /\ agg.lost = Total(LostOf, RowsFor(t, m), rows)
  BY <1>1, AggregateTotals
<1>3. {i \in SamplesOf(t, m) : given[i].result = Lost} = LostOwn(given, t, m)
  BY SamplesAreOwn DEF LostOwn
<1> QED BY <1>1, <1>2, <1>3, SamplesAreOwn DEF Tally, Counted

\* A finite set of numbers has a bound.
LEMMA FiniteIsBounded ==
  ASSUME NEW S, S \subseteq Nat, IsFiniteSet(S)
  PROVE  \E u \in Nat : \A y \in S : y <= u
<1> PICK G : G = {s \in SUBSET S : \E u \in Nat : \A y \in s : y <= u}
  OBVIOUS
<1>1. \A s \in SUBSET S : (\A x \in s : s \ {x} \in G) => s \in G
  <2> SUFFICES ASSUME NEW s \in SUBSET S, \A x \in s : s \ {x} \in G
               PROVE  \E u \in Nat : \A y \in s : y <= u
    OBVIOUS
  <2>1. CASE s = {}
    BY <2>1
  <2>2. ASSUME NEW x \in s PROVE \E u \in Nat : \A y \in s : y <= u
    <3>1. PICK v \in Nat : \A y \in s \ {x} : y <= v
      OBVIOUS
    <3>2. PICK w \in Nat : v <= w /\ x <= w
      <4>1. v + x \in Nat /\ v <= v + x /\ x <= v + x
        BY x \in Nat
      <4> QED BY <4>1
    <3>3. \A y \in s : y \in Nat /\ y <= w
      BY <3>1, <3>2
    <3> QED BY <3>3
  <2> QED BY <2>1, <2>2
<1>2. S \in SUBSET S
  OBVIOUS
<1>3. \A s \in SUBSET S : s \in G
  BY ONLY <1>1, IsFiniteSet(S), SubsetInduction
<1> QED BY <1>2, <1>3

\* The summary is true.
LEMMA TInvTells == TInv => SummaryIsTrue
<1> SUFFICES ASSUME TInv, NEW m \in Minutes, NEW t \in Targets,
                    <<m, t>> \notin spoilt, buckets[m][t] = NoBucket,
                    {i \in SamplesOf(t, m) : given[i].result \in Rtts} # {}
             PROVE
       LET own   == SamplesOf(t, m)
           timed == {i \in own : given[i].result \in Rtts}
           sum   == SumFunction([i \in timed |-> given[i].result])
           agg   == Aggregate(t, m, m)
           error == Cardinality(timed) * agg.wsum - sum * agg.ok
       IN  /\ Min(agg.mins) = Min({given[i].result : i \in timed})
           /\ Max(agg.maxs) = Max({given[i].result : i \in timed})
           /\ (\A i \in own : given[i].result # RttNa) =>
                2 * Max({error, -error}) <= Cardinality(timed) * agg.ok
  BY DEF SummaryIsTrue
<1> PICK own, timed, sum, agg, R, I, n, ws, ok :
      /\ own = SamplesOf(t, m) /\ timed = TimedOwn(given, t, m) /\ sum = TimeOf(given, t, m)
      /\ agg = Aggregate(t, m, m) /\ R = rows /\ I = Idx(TimedFor(t, m), R)
      /\ n = Cardinality(timed) /\ ws = agg.wsum /\ ok = agg.ok
  OBVIOUS
<1>1. /\ R \in Seq(Row) /\ given \in Seq(Sampled)
      /\ Tally(R, NoBucket, given, t, m)
  <2>1. buckets[m][t] = NoBucket
    OBVIOUS
  <2>2. Tally(rows, buckets[m][t], given, t, m)
    BY DEF TInv, AllTallied, Tallied
  <2> QED BY <2>1, <2>2 DEF TInv, TypeOK, Sampled
<1>2. /\ own = Own(given, t, m) /\ timed = {i \in own : given[i].result \in Rtts} /\ timed # {}
      /\ sum = SumFunction([i \in timed |-> given[i].result])
  BY SamplesAreOwn DEF TimedOwn, TimeOf
<1>3. /\ ok = Total(OkOf, TimedFor(t, m), R) /\ ws = Total(WsumOf, TimedFor(t, m), R)
      /\ agg.mins = {R[i].min : i \in I} /\ agg.maxs = {R[i].max : i \in I}
  BY <1>1, AggregateTotals
<1>4. NoBucket.rtt = << >> /\ DOMAIN << >> = {} /\ Len(<< >>) = 0 /\ SumFunction(<< >>) = 0
  <2>1. DOMAIN << >> = {}
    OBVIOUS
  <2> QED BY <2>1, NothingAdded DEF NoBucket
<1>5. /\ \A i \in timed : /\ \E j \in I : R[j].min <= given[i].result
                          /\ \E j \in I : given[i].result <= R[j].max
      /\ \A j \in I : /\ \E i \in timed : given[i].result = R[j].min
                      /\ \E i \in timed : given[i].result = R[j].max
  <2>1. Covered(R, << >>, given, t, m) /\ Attained(R, given, t, m)
    BY <1>1, <1>4 DEF Tally, Bounded
  <2>2. \A i \in timed : \/ \E e \in {} : <<>>[e] = given[i].result
                         \/ /\ \E j \in I : R[j].min <= given[i].result
                            /\ \E j \in I : given[i].result <= R[j].max
    BY <1>4, <2>1 DEF Covered
  <2> QED BY <2>1, <2>2 DEF Attained
<1> PICK B : B = {given[i].result : i \in timed}
  OBVIOUS
<1>6. B \subseteq Nat /\ B # {}
  <2>1. \A x \in Rtts : x \in Nat
    BY RollupAssumption
  <2> QED BY <1>2, <2>1
<1>7. Min(agg.mins) = Min(B)
  <2>1. agg.mins \subseteq B
    BY ONLY <1>3, <1>5, B = {given[i].result : i \in timed}
  <2>2. \A y \in B : \E x \in agg.mins : x <= y
    <3> SUFFICES ASSUME NEW i \in timed PROVE \E x \in agg.mins : x <= given[i].result
      OBVIOUS
    <3>1. PICK j \in I : R[j].min <= given[i].result
      BY <1>5
    <3> QED BY ONLY <1>3, <3>1
  <2> QED BY <1>6, <2>1, <2>2, SameMin
<1>8. Max(agg.maxs) = Max(B)
  <2>1. agg.maxs \subseteq B
    BY ONLY <1>3, <1>5, B = {given[i].result : i \in timed}
  <2>2. \A y \in B : \E x \in agg.maxs : y <= x
    <3> SUFFICES ASSUME NEW i \in timed PROVE \E x \in agg.maxs : given[i].result <= x
      OBVIOUS
    <3>1. PICK j \in I : given[i].result <= R[j].max
      BY <1>5
    <3> QED BY ONLY <1>3, <3>1
  <2>3. PICK u \in Nat : \A y \in B : y <= u
    <3>1. IsFiniteSet(timed)
      BY <1>1, OwnIsFinite
    <3>2. IsFiniteSet(B)
      <4> PICK f : f = [i \in timed |-> given[i].result]
        OBVIOUS
      <4>1. f \in Surjection(timed, B)
        BY DEF Surjection
      <4> QED BY <3>1, <4>1, FS_Surjection
    <3> QED BY <1>6, <3>2, FiniteIsBounded
  <2> QED BY <1>6, <2>1, <2>2, <2>3, SameMax
<1>9. ASSUME \A i \in own : given[i].result # RttNa
      PROVE  2 * Max({n * ws - sum * ok, -(n * ws - sum * ok)}) <= n * ok
  <2>1. /\ ok + 0 = n
        /\ 2 * (ws + 0 - sum) <= ok /\ 2 * (-(ws + 0 - sum)) <= ok
    BY <1>1, <1>2, <1>3, <1>4, <1>9 DEF Tally, Averaged
  <2>2. ok \in Nat /\ ws \in Nat /\ sum \in Int
    BY <1>1, <1>3, WeightsAreNat, TotalIsNat, TimeIsInt
  <2>3. n = ok /\ 2 * (ws - sum) <= n /\ 2 * (sum - ws) <= n
    BY ONLY <2>1, <2>2
  <2> PICK e \in Int : e = ws - sum
    BY <2>2
  <2>4. n * ws - sum * ok = n * e /\ n \in Nat
    BY ONLY <2>2, <2>3, e = ws - sum
  <2>5. 2 * (n * e) <= n * n /\ 2 * (-(n * e)) <= n * n
    <3>1. 2 * e <= n /\ 2 * (-e) <= n
      BY <2>2, <2>3
    <3>2. \A a, x, y \in Int : a >= 0 /\ x <= y => a * x <= a * y
      OBVIOUS
    <3>3. n * (2 * e) <= n * n /\ n * (2 * (-e)) <= n * n
      BY ONLY <2>4, <3>1, <3>2, e \in Int
    <3> QED BY ONLY <2>4, <3>3, e \in Int
  <2> PICK d \in Int : d = n * e
    BY <2>4
  <2>6. 2 * Max({d, -d}) <= n * n
    <3>1. Max({d, -d}) = d \/ Max({d, -d}) = -d
      BY MaxOfTwo
    <3> QED BY <2>5, <3>1
  <2> QED BY <2>3, <2>4, <2>6
<1> QED BY <1>2, <1>7, <1>8, <1>9

-----------------------------------------------------------------------------
(* The rollups and their summary *)

\* Rows stay well formed, and counts within what there are samples
\* (rollup.cpp:30-90).
THEOREM RollupTypes == Spec => []TypeOK
<1>1. Init => TInv
  BY TInvInit
<1>2. TInv /\ [Next]_vars => TInv'
  BY TInvStep
<1>3. TInv => TypeOK
  BY DEF TInv
<1> QED BY <1>1, <1>2, <1>3, PTL DEF Spec

\* However late samples come, however many rows a minute is spread over and wherever
\* the prober was stopped or killed, in the midst of a flush or before a file had its
\* header too: the sums of analyze and the pending counts are of every sample once, but
\* for the minutes and targets spoilt (rollup.cpp:30-72, analyzer.cpp:58-116).
THEOREM EverySampleIsCounted == Spec => []EverySampleCounted
<1>1. Init => TInv
  BY TInvInit
<1>2. TInv /\ [Next]_vars => TInv'
  BY TInvStep
<1>3. TInv => EverySampleCounted
  BY TInvCounts
<1> QED BY <1>1, <1>2, <1>3, PTL DEF Spec

\* Of what is written and not spoilt, the least and the greatest round trip that analyze
\* tells are exact, and its mean is off by no more than the rounding of rows
\* (rollup.cpp:30-90, analyzer.cpp:58-116).
THEOREM SummaryIsTold == Spec => []SummaryIsTrue
<1>1. Init => TInv
  BY TInvInit
<1>2. TInv /\ [Next]_vars => TInv'
  BY TInvStep
<1>3. TInv => SummaryIsTrue
  BY TInvTells
<1> QED BY <1>1, <1>2, <1>3, PTL DEF Spec

-----------------------------------------------------------------------------
(* What is pending *)

\* A sample came no later than the clock, and no more than Jitter after any that
\* came later.
OnTime ==
  /\ \A i \in DOMAIN given : given[i].utc <= now
  /\ \A i, j \in DOMAIN given : i < j => given[i].utc <= given[j].utc + Jitter

\* A pending minute is that of a sample.
Known == \A m \in Pending(buckets) : \E i \in DOMAIN given : m = Minute(given[i].utc)

\* It is no older than the minute of the latest sample, or of the one before as long
\* as it is to be written.
Young ==
  LET n == Len(given) IN
  \A m \in Pending(buckets) :
    \/ m >= Minute(given[n].utc)
    \/ m \in writing /\ n > 1 /\ m >= Minute(given[n - 1].utc)

PInv == OnTime /\ Known /\ Young

\* A minute begins no later than what is in it.
LEMMA MinuteBegins == ASSUME NEW utc \in Nat PROVE Minute(utc) \in Nat /\ Minute(utc) <= utc
<1> PICK n \in Nat \ {0} : n = MinuteMs
  BY RollupAssumption
<1> PICK d : d = utc \div n
  OBVIOUS
<1>1. d \in Nat /\ n * d <= utc
  BY ONLY utc \in Nat, n \in Nat \ {0}, d = utc \div n, Division
<1>2. Minute(utc) = d * n
  BY DEF Minute
<1>3. d * n = n * d
  BY <1>1
<1> QED BY <1>1, <1>2, <1>3, MinuteIsNat

\* What is pending, known and young is recent.
LEMMA YoungIsRecent == TypeOK /\ PInv => OnlyRecentPending
<1> SUFFICES ASSUME TypeOK, PInv, given # << >>, NEW m \in Pending(buckets)
             PROVE  \/ m \in Recent(Len(given))
                    \/ writing # {} /\ Len(given) > 1 /\ m \in Recent(Len(given) - 1)
  BY DEF OnlyRecentPending
<1> PICK n, J : n = Len(given) /\ J = Jitter
  OBVIOUS
<1>1. given \in Seq(Sampled)
  BY DEF TypeOK, Sampled
<1>2. n \in Nat /\ n > 0 /\ DOMAIN given = 1 .. n /\ J \in Nat
  BY <1>1, RollupAssumption
<1>3. \A i \in 1 .. n : given[i].utc \in Nat
  <2> SUFFICES ASSUME NEW i \in 1 .. n PROVE given[i].utc \in Nat
    OBVIOUS
  <2>1. given[i] \in Sampled
    BY <1>1, <1>2
  <2> QED BY <2>1, RollupAssumption DEF Sampled
<1>4. PICK i \in 1 .. n : m = Minute(given[i].utc)
  BY <1>2 DEF PInv, Known
<1>5. m \in Minutes /\ m \in Nat /\ m <= given[i].utc
  BY <1>3, <1>4, MinuteBegins DEF Pending
<1>6. \A j \in 1 .. n : i <= j => m <= given[j].utc + J
  <2> SUFFICES ASSUME NEW j \in 1 .. n, i <= j PROVE m <= given[j].utc + J
    OBVIOUS
  <2>1. given[i].utc \in Nat /\ given[j].utc \in Nat
    BY <1>3
  <2>2. i = j \/ given[i].utc <= given[j].utc + J
    BY <1>2 DEF PInv, OnTime
  <2> QED BY <1>2, <1>5, <2>1, <2>2
<1>7. CASE m >= Minute(given[n].utc)
  <2>0. n \in 1 .. n /\ i <= n
    BY <1>2
  <2>1. Minute(given[n].utc) \in Nat
    BY <1>3, <2>0, MinuteIsNat
  <2> QED BY <1>5, <1>6, <1>7, <2>0, <2>1 DEF Recent
<1>8. ASSUME m \in writing, n > 1, m >= Minute(given[n - 1].utc), ~(m >= Minute(given[n].utc))
      PROVE  m \in Recent(n - 1)
  <2>1. i # n
    BY <1>4, <1>5, <1>8
  <2>2. n - 1 \in 1 .. n /\ i <= n - 1
    BY <1>2, <1>8, <2>1
  <2>3. Minute(given[n - 1].utc) \in Nat
    BY <1>3, <2>2, MinuteIsNat
  <2> QED BY <1>5, <1>6, <1>8, <2>2, <2>3 DEF Recent
<1>9. m >= Minute(given[n].utc) \/ (m \in writing /\ n > 1 /\ m >= Minute(given[n - 1].utc))
  BY DEF PInv, Young
<1> QED BY <1>7, <1>8, <1>9

\* A sample keeps it so.
LEMMA SampleStaysYoung ==
  ASSUME TypeOK, PInv, NEW t \in Targets, NEW result \in Results, NEW utc \in Int,
         utc >= 0, utc <= now, now <= utc + Jitter, Sample(t, result, utc)
  PROVE  PInv'
<1> PICK s, g, G, n :
      /\ s = [target |-> t, utc |-> utc, result |-> result]
      /\ g = given /\ G = given' /\ n = Len(given)
  OBVIOUS
<1>1. g \in Seq(Sampled) /\ now \in 0 .. MaxTime /\ Jitter \in Nat /\ MaxTime \in Nat
  BY RollupAssumption DEF TypeOK, Sampled
<1>2. s \in Sampled /\ s.utc = utc
  BY <1>1 DEF Sampled
<1>3. G = Append(g, s)
  BY DEF Sample
<1>4. /\ n \in Nat /\ DOMAIN g = 1 .. n /\ DOMAIN G = 1 .. n + 1 /\ Len(G) = n + 1
      /\ \A i \in 1 .. n : G[i] = g[i]
      /\ G[n + 1] = s
  BY <1>1, <1>2, <1>3
<1>5. \A i \in 1 .. n : g[i].utc \in Nat /\ g[i].utc <= now
  <2> SUFFICES ASSUME NEW i \in 1 .. n PROVE g[i].utc \in Nat /\ g[i].utc <= now
    OBVIOUS
  <2>1. g[i] \in Sampled
    BY <1>1, <1>4
  <2> QED BY <1>1, <1>4, <2>1 DEF Sampled, PInv, OnTime
<1>6. now' = now /\ writing = {}
  BY DEF Sample
<1>7. OnTime'
  <2>1. \A i \in 1 .. n + 1 : G[i].utc <= now
    <3>1. \A i \in 1 .. n + 1 : i \in 1 .. n \/ i = n + 1
      BY <1>4
    <3> QED BY <1>2, <1>4, <1>5, <3>1
  <2>2. ASSUME NEW i \in 1 .. n + 1, NEW j \in 1 .. n + 1, i < j
        PROVE  G[i].utc <= G[j].utc + Jitter
    <3>1. i \in 1 .. n
      BY <1>4, <2>2
    <3>2. CASE j = n + 1
      <4>1. G[i].utc <= now /\ G[i].utc \in Nat /\ G[j].utc = utc
        BY <1>2, <1>4, <1>5, <3>1, <3>2
      <4> QED BY <1>1, <4>1
    <3>3. CASE j # n + 1
      <4>1. j \in 1 .. n
        BY <1>4, <3>3
      <4> QED BY <1>4, <2>2, <3>1, <4>1 DEF PInv, OnTime
    <3> QED BY <3>2, <3>3
  <2> QED BY <1>4, <1>6, <2>1, <2>2 DEF OnTime
<1>8. ASSUME NEW m \in Pending(buckets') PROVE m \in Pending(buckets) \/ m = Minute(utc)
  <2> SUFFICES ASSUME m # Minute(utc) PROVE m \in Pending(buckets)
    OBVIOUS
  <2>1. buckets' = Added(buckets, t, result, utc) /\ buckets \in [Minutes -> [Targets -> Bucket]]
    BY DEF Sample, TypeOK
  <2>2. m \in Minutes /\ \E u \in Targets : buckets'[m][u] # NoBucket
    BY <1>8 DEF Pending
  <2>3. buckets'[m] = buckets[m]
    BY <2>1, <2>2 DEF Added
  <2> QED BY <2>2, <2>3 DEF Pending
<1>9. Known'
  <2> SUFFICES ASSUME NEW m \in Pending(buckets') PROVE \E i \in 1 .. n + 1 : m = Minute(G[i].utc)
    BY <1>4 DEF Known
  <2>1. CASE m = Minute(utc)
    <3>1. n + 1 \in 1 .. n + 1
      BY <1>4
    <3> QED BY <1>2, <1>4, <2>1, <3>1
  <2>2. CASE m \in Pending(buckets)
    <3>1. PICK i \in 1 .. n : m = Minute(g[i].utc)
      BY <1>4, <2>2 DEF PInv, Known
    <3>2. i \in 1 .. n + 1 /\ G[i] = g[i]
      BY <1>4
    <3> QED BY <3>1, <3>2
  <2> QED BY <1>8, <2>1, <2>2
<1>10. Young'
  <2> SUFFICES ASSUME NEW m \in Pending(buckets')
               PROVE  \/ m >= Minute(G[n + 1].utc)
                      \/ m \in writing' /\ n + 1 > 1 /\ m >= Minute(G[n + 1 - 1].utc)
    BY <1>4 DEF Young
  <2>1. m \in Minutes /\ m \in Int /\ Minute(utc) \in Int
    BY MinutesAreFinite, MinuteIsNat DEF Pending
  <2>2. CASE m >= Minute(utc)
    BY <1>2, <1>4, <2>2
  <2>3. CASE ~(m >= Minute(utc))
    <3>1. m < Minute(utc) /\ m # Minute(utc)
      BY <2>1, <2>3
    <3>2. m \in writing'
      BY <3>1 DEF Sample, Completed
    <3>3. m \in Pending(buckets)
      BY <1>8, <3>1
    <3>4. m >= Minute(g[n].utc)
      BY <1>6, <3>3 DEF PInv, Young
    <3>5. n # 0
      <4>1. PICK i \in 1 .. n : m = Minute(g[i].utc)
        BY <1>4, <3>3 DEF PInv, Known
      <4> QED BY <1>4, <4>1
    <3>6. n \in 1 .. n /\ n + 1 > 1 /\ n + 1 - 1 = n
      BY <1>4, <3>5
    <3> QED BY <1>4, <3>2, <3>4, <3>6
  <2> QED BY <2>2, <2>3
<1> QED BY <1>7, <1>9, <1>10 DEF PInv

\* So does any step that leaves no more pending, nothing of it without its turn, and
\* does not set the clock back.
LEMMA FewerStayYoung ==
  ASSUME TypeOK, PInv, given' = given, now' \in Int, now <= now',
         Pending(buckets') \subseteq Pending(buckets),
         \A m \in Pending(buckets') : m \in writing => m \in writing'
  PROVE  PInv'
<1>1. OnTime'
  <2> SUFFICES ASSUME NEW i \in DOMAIN given PROVE given[i].utc <= now'
    BY DEF PInv, OnTime
  <2>1. given[i] \in Sampled /\ now \in Int
    <3>1. given \in Seq(Sampled)
      BY DEF TypeOK, Sampled
    <3> QED BY <3>1, RollupAssumption DEF TypeOK
  <2>2. given[i].utc \in Int /\ given[i].utc <= now
    BY <2>1, RollupAssumption DEF Sampled, PInv, OnTime
  <2> QED BY <2>1, <2>2
<1>2. Known'
  BY DEF PInv, Known
<1>3. Young'
  BY DEF PInv, Young
<1> QED BY <1>1, <1>2, <1>3 DEF PInv

\* No minute is pending in a table without buckets.
LEMMA NothingIsPending == Pending(Empty) = {}
BY DEF Pending, Empty

\* Every step keeps it so.
LEMMA PInvStep == TypeOK /\ PInv /\ [Next]_vars => PInv'
<1> SUFFICES ASSUME TypeOK, PInv, [Next]_vars PROVE PInv'
  OBVIOUS
<1>0. now \in Nat /\ Jitter \in Nat
  BY RollupAssumption DEF TypeOK
<1>1. ASSUME NEW t \in Targets, NEW result \in Results, NEW utc \in now - Jitter .. now,
             utc >= 0, Sample(t, result, utc)
      PROVE  PInv'
  <2>1. utc \in Int /\ utc <= now /\ now <= utc + Jitter
    BY <1>0
  <2> QED BY <1>1, <2>1, SampleStaysYoung
<1>2. ASSUME NEW k \in Keys(buckets, writing), WriteMinute(k) PROVE PInv'
  <2>1. /\ buckets' = Erased(buckets, k) /\ writing' = writing \cap Pending(buckets')
        /\ given' = given /\ now' = now
    BY <1>2 DEF WriteMinute
  <2>2. ASSUME NEW m \in Pending(buckets') PROVE m \in Pending(buckets)
    <3>1. buckets \in [Minutes -> [Targets -> Bucket]]
      BY DEF TypeOK
    <3>2. PICK t \in Targets : m \in Minutes /\ buckets'[m][t] # NoBucket
      BY DEF Pending
    <3>3. buckets[m][t] # NoBucket
      BY <2>1, <3>1, <3>2 DEF Erased
    <3> QED BY <3>2, <3>3 DEF Pending
  <2> QED BY <1>0, <2>1, <2>2, FewerStayYoung
<1>3. CASE Finalize
  BY <1>0, <1>3, FewerStayYoung DEF Finalize
<1>4. ASSUME Killed PROVE PInv'
  <2>1. given' = given /\ now' = now /\ Pending(buckets') = {}
    BY <1>4, NothingIsPending DEF Killed
  <2> QED BY <1>0, <2>1, FewerStayYoung
<1>5. CASE Start
  BY <1>0, <1>5, FewerStayYoung DEF Start
<1>6. CASE Tick
  BY <1>0, <1>6, FewerStayYoung DEF Tick
<1>7. CASE UNCHANGED vars
  BY <1>0, <1>7, FewerStayYoung DEF vars
<1> QED BY <1>1, <1>2, <1>3, <1>4, <1>5, <1>6, <1>7 DEF Next, Crash, CrashCreating, Exhausted

\* However samples overtake one another, wherever the prober is stopped or killed and
\* whatever failed before: what a kill can cost is of the minute of the latest sample or
\* of one that began at most Jitter after its stamp, or, in the midst of a flush, of those
\* of the sample before (rollup.cpp:30-54, prober.cpp:396-397).
THEOREM OnlyRecentMinutesAtRisk == Spec => []OnlyRecentPending
<1>1. Init => TInv /\ PInv
  <2>1. Init => PInv
    BY NothingIsPending DEF Init, PInv, OnTime, Known, Young
  <2> QED BY <2>1, TInvInit
<1>2. TInv /\ PInv /\ [Next]_vars => TInv' /\ PInv'
  BY TInvStep, PInvStep DEF TInv
<1>3. TInv /\ PInv => OnlyRecentPending
  BY YoungIsRecent DEF TInv
<1> QED BY <1>1, <1>2, <1>3, PTL DEF Spec
=============================================================================
