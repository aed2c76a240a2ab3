------------------------- MODULE DeviceReports_proof -------------------------
(* Theorems about DeviceReports, for every set of threads, devices and     *)
(* requests, whichever requests overlap, fail or are cut short by a        *)
(* restart, unless a theorem says which may not overlap.                   *)
EXTENDS DeviceReports, FiniteSetTheorems, FunctionTheorems, SequenceTheorems, TLAPS

-----------------------------------------------------------------------------
(* What every thread owns.  A thread has a request while it is busy, of the *)
(* kind its step belongs to, and a report has a stamp from the moment it   *)
(* is received.                                                            *)
Busy(t) == pc[t] # "idle"
Reporting(t) == pc[t] \in {"lookup", "index"} \/ (Busy(t) /\ req[t] \in Reports)
Deciding == {"read", "persist", "commit", "publish"}

Serving ==
  \A t \in Threads :
    /\ Busy(t) => req[t] \in Requests
    /\ pc[t] \in {"lookup", "index"} => req[t] \in Reports
    /\ pc[t] \in {"acquire", "read"} => req[t] \in Requests \ Reports
    /\ Reporting(t) => mine[t] \in 1 .. clock
    /\ pc[t] \notin {"idle", "acquire", "read"} => mine[t] \in Nat

(* The stamps in the tables and dictionaries are of requests begun.        *)
Begun ==
  \A r \in Reports :
    {working.rows[r], durable.rows[r], registry.known[r]} \subseteq (1 .. clock) \union {None}

(* The lock is held from the reading of a revision to its publication.     *)
LockHeld ==
  \A t \in Threads : (lock = t) <=> (pc[t] \in Deciding /\ req[t] \in Requests \ Reports)

(* What is not committed was written by a thread that is about to commit   *)
(* it: as long as no transaction is torn, a thread that rolls back takes   *)
(* its own write and nobody else's.                                        *)
Unsaved(u) ==
  \/ /\ pc[u] = "commit" /\ req[u] \in Reports
     /\ durable.rows[req[u]] # mine[u]
  \/ /\ pc[u] = "commit" /\ req[u] \notin Reports
     /\ durable.desired[req[u].device] # mine[u]
  \/ /\ pc[u] = "announce"
     /\ durable.feed[req[u]] # working.feed[req[u]]

OpenExplained ==
  /\ \A r \in Requests : durable.feed[r] <= working.feed[r]
  /\ ~torn /\ working # durable => \E u \in Threads : Unsaved(u)

(* Of the revisions of a device, the dictionary, the tables and the thread *)
(* that holds the lock differ by at most the one it is writing.            *)
Reminding(t, d) == Busy(t) /\ req[t] \notin Reports /\ req[t].device = d
Writing(t, d) == Reminding(t, d) /\ pc[t] \in {"commit", "publish"}
Told(t, d) == Reminding(t, d) /\ pc[t] \in {"notify", "announce"}

Stored(n, d) == n = registry.desired[d] \/ \E t \in Threads : Writing(t, d) /\ n = mine[t]

Turn(t, d) ==
  /\ pc[t] \in {"persist", "commit", "publish"} => mine[t] = registry.desired[d] + 1
  /\ pc[t] \in {"commit", "publish"} => working.desired[d] = mine[t]
  /\ pc[t] = "publish" => durable.desired[d] = mine[t]

RevisionOf(d) ==
  /\ Stored(durable.desired[d], d) /\ Stored(working.desired[d], d)
  /\ \A t \in Threads : Reminding(t, d) => Turn(t, d)

Revisions == ~torn => \A d \in Devices : RevisionOf(d)

(* The revisions told to the owner, or about to be, are different and not  *)
(* ahead of the dictionary.                                                *)
NumberedOf(d) ==
  /\ IsInjective(reminders[d])
  /\ \A i \in 1 .. Len(reminders[d]) : reminders[d][i] <= registry.desired[d]
  /\ \A t \in Threads : Told(t, d) =>
       /\ mine[t] <= registry.desired[d]
       /\ \A i \in 1 .. Len(reminders[d]) : reminders[d][i] # mine[t]
       /\ \A u \in Threads : Told(u, d) /\ u # t => mine[t] # mine[u]

Numbered ==
  ~torn => \A d \in Devices : NumberedOf(d)

(* Requests under way at the same time are allowed to overlap.             *)
Apart ==
  \A t, u \in Threads : Busy(t) /\ Busy(u) /\ t # u =>
    <<req[t], req[u]>> \in Overlaps \/ <<req[u], req[t]>> \in Overlaps

(* A client sends a report again only after the answer to it is there or   *)
(* has failed.                                                             *)
OneDelivery == \A r \in Reports : <<r, r>> \notin Overlaps

(* The row of a report and its entry in the dictionary are the same except *)
(* while one thread is between its statement and the dictionary.           *)
InStep(t, r) ==
  /\ pc[t] \in {"persist", "commit", "publish", "index"} => registry.known[r] = None
  /\ pc[t] \in {"commit", "publish", "index"} => working.rows[r] = mine[t]
  /\ pc[t] = "commit" => durable.rows[r] \in {None, mine[t]}
  /\ pc[t] \in {"publish", "index"} => durable.rows[r] = mine[t]
  /\ pc[t] \in {"notify", "announce"} => registry.known[r] = mine[t]

RecordedOf(r) ==
  /\ answers[r] \subseteq {registry.known[r]} \ {None}
  /\ \A t \in Threads : Busy(t) /\ req[t] = r => InStep(t, r)
  /\ \/ \E t \in Threads : pc[t] \in {"commit", "publish", "index"} /\ req[t] = r
     \/ working.rows[r] = registry.known[r] /\ durable.rows[r] = registry.known[r]

Recorded == ~torn => \A r \in Reports : RecordedOf(r)

(* A report is announced at most once, after it is known.                  *)
AnnouncedOf(r) ==
  /\ working.feed[r] <= 1
  /\ registry.known[r] = None => working.feed[r] = 0
  /\ \A t \in Threads : pc[t] = "notify" /\ req[t] = r => working.feed[r] = 0

Announced == ~torn => \A r \in Reports : AnnouncedOf(r)

(* A device sends one heartbeat and one event at a time.                   *)
OneAtATime ==
  \A r, s \in Reports :
    r.kind = s.kind /\ r.device = s.device => <<r, s>> \notin Overlaps

(* What a device's lists are made of: the reports that are known, and the  *)
(* one whose thread is about to say so.  A report under way is younger.    *)
Published(kind, d) ==
  ({registry.known[r] : r \in ReportsOf(kind, d)} \ {None})
    \union {mine[t] : t \in {u \in Threads : pc[u] = "index" /\ req[u] \in ReportsOf(kind, d)}}

YoungerOf(t) ==
  pc[t] \in {"lookup", "persist", "commit", "publish"} =>
    \A kind \in {"heartbeat", "event"}, d \in Devices :
      req[t] \in ReportsOf(kind, d) => \A x \in Published(kind, d) : x < mine[t]

Younger == ~torn => \A t \in Threads : YoungerOf(t)

ListedOf(d) ==
  /\ registry.latest[d] = Newest(Published("heartbeat", d))
  /\ registry.events[d] = InOrder(Published("event", d))

Listed == ~torn => \A d \in Devices : ListedOf(d)
-----------------------------------------------------------------------------
(* The number of members of a set up to one of them: it grows with the     *)
(* member, and numbers the members from 1 without a gap.                   *)
UpTo(S, x) == {y \in S : y <= x}
Rank(S) == [x \in S |-> Cardinality(UpTo(S, x))]

LEMMA RankGrows ==
  ASSUME NEW S \in SUBSET Nat, IsFiniteSet(S), NEW x \in S, NEW z \in S, x < z
  PROVE  Rank(S)[x] < Rank(S)[z]
<1>1. UpTo(S, x) \subseteq UpTo(S, z) /\ UpTo(S, x) # UpTo(S, z)
  <2>1. \A y \in S : y \in Nat
    OBVIOUS
  <2>2. \A y \in S : y <= x => y <= z
    BY <2>1
  <2>3. z \in UpTo(S, z) /\ z \notin UpTo(S, x)
    BY <2>1 DEF UpTo
  <2>4. QED
    BY <2>2, <2>3 DEF UpTo
<1>2. IsFiniteSet(UpTo(S, x)) /\ IsFiniteSet(UpTo(S, z))
  BY FS_Subset, UpTo(S, x) \in SUBSET S, UpTo(S, z) \in SUBSET S DEF UpTo
<1>3. /\ Cardinality(UpTo(S, x)) \in Nat /\ Cardinality(UpTo(S, z)) \in Nat
      /\ Cardinality(UpTo(S, x)) <= Cardinality(UpTo(S, z))
      /\ Cardinality(UpTo(S, x)) # Cardinality(UpTo(S, z))
  BY <1>1, <1>2, FS_Subset, FS_CardinalityType, UpTo(S, x) \in SUBSET UpTo(S, z)
<1>4. QED
  BY <1>3 DEF Rank

LEMMA RankNumbers ==
  ASSUME NEW S \in SUBSET Nat, IsFiniteSet(S)
  PROVE  /\ Rank(S) \in [S -> 1 .. Cardinality(S)]
         /\ \A i \in 1 .. Cardinality(S) : \E x \in S : Rank(S)[x] = i
<1> DEFINE n == Cardinality(S)
<1>1. n \in Nat
  BY FS_CardinalityType
<1>2. ASSUME NEW x \in S PROVE Cardinality(UpTo(S, x)) \in 1 .. n
  <2>1. UpTo(S, x) \in SUBSET S /\ x \in UpTo(S, x)
    BY DEF UpTo
  <2>2. /\ IsFiniteSet(UpTo(S, x)) /\ Cardinality(UpTo(S, x)) <= n
        /\ Cardinality(UpTo(S, x)) \in Nat
    BY <2>1, FS_Subset, FS_CardinalityType
  <2>3. Cardinality(UpTo(S, x)) # 0
    BY <2>1, <2>2, FS_EmptySet
  <2>4. QED
    BY <1>1, <2>2, <2>3
<1>3. Rank(S) \in [S -> 1 .. n]
  BY <1>2 DEF Rank
<1>4. ASSUME NEW x \in S, NEW z \in S, Rank(S)[x] = Rank(S)[z] PROVE x = z
  <2>1. Rank(S)[x] \in Nat /\ Rank(S)[z] \in Nat
    BY <1>1, <1>3
  <2>2. ~(x < z) /\ ~(z < x)
    BY <1>4, <2>1, RankGrows
  <2>3. QED
    BY <2>2
<1>5. Rank(S) \in Injection(S, 1 .. n)
  BY <1>3, <1>4, Fun_IsInj
<1>6. IsFiniteSet(1 .. n) /\ Cardinality(1 .. n) = n
  BY <1>1, FS_Interval
<1>7. Rank(S) \in Surjection(S, 1 .. n)
  BY <1>5, <1>6, FS_Injection
<1>8. QED
  BY <1>3, <1>7, Fun_IsSurj DEF Surjection

(* A sequence that increases and has as many places as S has members has   *)
(* each of them at the place of its rank.                                  *)
Increasing(S, s) ==
  /\ s \in [1 .. Cardinality(S) -> S]
  /\ \A i, j \in 1 .. Cardinality(S) : i < j => s[i] < s[j]

LEMMA IncreasingByRank ==
  ASSUME NEW S \in SUBSET Nat, IsFiniteSet(S), NEW s, Increasing(S, s),
         NEW i \in 1 .. Cardinality(S)
  PROVE  Rank(S)[s[i]] = i
<1> DEFINE n == Cardinality(S)
           f == [j \in 1 .. i |-> s[j]]
<1>1. n \in Nat /\ s \in [1 .. n -> S]
  BY FS_CardinalityType DEF Increasing
<1>2. \A j, k \in 1 .. n : (j < k => s[j] < s[k]) /\ s[j] \in Nat
  BY <1>1 DEF Increasing
<1> HIDE DEF n
<1>3. ASSUME NEW j \in 1 .. n, NEW k \in 1 .. n
      PROVE  /\ s[j] <= s[k] => j <= k
             /\ j <= k => s[j] <= s[k]
             /\ s[j] = s[k] => j = k
  <2>1. j \in Int /\ k \in Int /\ s[j] \in Nat /\ s[k] \in Nat
    BY <1>1, <1>2
  <2>2. (j < k => s[j] < s[k]) /\ (k < j => s[k] < s[j])
    BY <1>2
  <2>3. QED
    BY <2>1, <2>2
<1>4. s \in Injection(1 .. n, S)
  <2>1. \A j, k \in 1 .. n : s[j] = s[k] => j = k
    BY <1>3
  <2>2. QED
    BY <1>1, <2>1, Fun_IsInj
<1>5. IsFiniteSet(1 .. n) /\ Cardinality(1 .. n) = n
  BY <1>1, FS_Interval
<1>6. s \in Surjection(1 .. n, S)
  BY <1>4, <1>5, FS_Injection DEF n
<1>7. \A y \in S : \E j \in 1 .. n : s[j] = y
  BY <1>6, Fun_IsSurj DEF Surjection
<1>8. i \in 1 .. n /\ i \in Nat /\ 1 .. i \subseteq 1 .. n
  BY <1>1 DEF n
<1>9. f \in [1 .. i -> UpTo(S, s[i])]
  <2>1. ASSUME NEW j \in 1 .. i PROVE s[j] \in S /\ s[j] <= s[i]
    <3>1. j \in 1 .. n /\ j <= i
      BY <1>8
    <3>2. s[j] <= s[i]
      BY <1>3, <1>8, <3>1
    <3>3. QED
      BY <1>1, <3>1, <3>2
  <2>2. QED
    BY <2>1 DEF UpTo
<1>10. ASSUME NEW y \in UpTo(S, s[i]) PROVE \E j \in 1 .. i : f[j] = y
  <2>1. PICK j \in 1 .. n : s[j] = y
    BY <1>7 DEF UpTo
  <2>2. j <= i
    <3>1. s[j] <= s[i]
      BY <2>1 DEF UpTo
    <3>2. QED
      BY <2>1, <3>1, <1>3, <1>8
  <2>3. QED
    BY <2>1, <2>2, <1>1
<1>11. f \in Bijection(1 .. i, UpTo(S, s[i]))
  <2>1. ASSUME NEW j \in 1 .. i, NEW k \in 1 .. i, f[j] = f[k] PROVE j = k
    <3>1. s[j] = s[k] /\ j \in 1 .. n /\ k \in 1 .. n
      BY <2>1, <1>8
    <3>2. QED
      BY <3>1, <1>3
  <2>2. f \in Injection(1 .. i, UpTo(S, s[i]))
    BY <1>9, <2>1, Fun_IsInj
  <2>3. f \in Surjection(1 .. i, UpTo(S, s[i]))
    BY <1>9, <1>10, Fun_IsSurj
  <2>4. QED
    BY <2>2, <2>3 DEF Bijection
<1>12. Cardinality(UpTo(S, s[i])) = i
  BY <1>8, <1>11, FS_CountingElements DEF ExistsBijection
<1>13. s[i] \in S
  BY <1>1, <1>8
<1>14. QED
  BY <1>12, <1>13 DEF Rank

LEMMA IncreasingUnique ==
  ASSUME NEW S \in SUBSET Nat, IsFiniteSet(S), NEW s, Increasing(S, s),
         NEW q, Increasing(S, q)
  PROVE  s = q
<1> DEFINE n == Cardinality(S)
<1>1. s \in [1 .. n -> S] /\ q \in [1 .. n -> S]
  BY DEF Increasing
<1> HIDE DEF n
<1>2. ASSUME NEW i \in 1 .. n PROVE s[i] = q[i]
  <2>1. s[i] \in S /\ q[i] \in S
    BY <1>1
  <2>2. Rank(S)[s[i]] = i /\ Rank(S)[q[i]] = i
    BY IncreasingByRank DEF n
  <2>3. i \in Nat
    BY FS_CardinalityType DEF n
  <2>4. ~(s[i] < q[i]) /\ ~(q[i] < s[i])
    <3>1. ~(i < i)
      BY <2>3
    <3>2. QED
      BY <2>1, <2>2, <3>1, RankGrows
  <2>5. s[i] \in Nat /\ q[i] \in Nat
    BY <2>1
  <2>6. QED
    BY <2>4, <2>5
<1>3. s = [i \in 1 .. n |-> s[i]] /\ q = [i \in 1 .. n |-> q[i]]
  BY <1>1
<1>4. QED
  BY <1>2, <1>3

(* What InOrder and Newest give of any finite set of stamps.               *)
LEMMA InOrderIncreases ==
  ASSUME NEW S \in SUBSET Nat, IsFiniteSet(S)
  PROVE  Increasing(S, InOrder(S))
<1> DEFINE n == Cardinality(S)
           s == [i \in 1 .. n |-> CHOOSE x \in S : Rank(S)[x] = i]
<1>1. n \in Nat
  BY FS_CardinalityType
<1>2. ASSUME NEW i \in 1 .. n PROVE s[i] \in S /\ Rank(S)[s[i]] = i
  BY RankNumbers
<1>3. s \in [1 .. n -> S]
  BY <1>2
<1>4. ASSUME NEW i \in 1 .. n, NEW j \in 1 .. n, i < j PROVE s[i] < s[j]
  <2> DEFINE x == s[i]
             z == s[j]
  <2>1. x \in S /\ z \in S /\ Rank(S)[x] = i /\ Rank(S)[z] = j
    BY <1>2
  <2>2. i \in Int /\ j \in Int
    BY <1>1
  <2> HIDE DEF x, z, s
  <2>3. ~(z < x) /\ z # x
    BY <2>1, <2>2, <1>4, RankGrows
  <2>4. x \in Nat /\ z \in Nat
    BY <2>1
  <2>5. x < z
    BY <2>3, <2>4
  <2>6. QED
    BY <2>5 DEF x, z
<1>5. \E q \in [1 .. n -> S] : \A i, j \in 1 .. n : i < j => q[i] < q[j]
  <2> HIDE DEF s
  <2>1. QED
    BY <1>3, <1>4
<1>6. QED
  BY <1>5 DEF InOrder, Increasing

LEMMA NewestIsLast ==
  ASSUME NEW S \in SUBSET Nat, IsFiniteSet(S), S # {}
  PROVE  /\ Newest(S) \in S
         /\ \A x \in S : x <= Newest(S)
<1>1. Cardinality(S) \in Nat /\ Cardinality(S) # 0
  BY FS_CardinalityType, FS_EmptySet
<1>2. PICK m \in S : Rank(S)[m] = Cardinality(S)
  BY <1>1, RankNumbers
<1>3. ASSUME NEW x \in S PROVE m >= x
  <2>1. Rank(S)[x] \in 1 .. Cardinality(S)
    BY RankNumbers
  <2>2. ~(m < x)
    BY <1>1, <1>2, <2>1, RankGrows
  <2>3. QED
    BY <2>2
<1>4. /\ Max(S) \in S
      /\ \A x \in S : Max(S) >= x
  BY <1>3 DEF Max
<1>5. QED
  BY <1>4 DEF Newest

LEMMA AppendDef ==
  ASSUME NEW S, NEW s \in Seq(S), NEW m
  PROVE  Append(s, m) = [i \in 1 .. Len(s) + 1 |-> IF i = Len(s) + 1 THEN m ELSE s[i]]
<1>1. s \in Seq(S \union {m}) /\ m \in S \union {m}
  OBVIOUS
<1> DEFINE q == Append(s, m)
<1>2. /\ q \in Seq(S \union {m}) /\ Len(q) = Len(s) + 1 /\ Len(s) \in Nat
      /\ \A i \in 1 .. Len(s) : q[i] = s[i]
      /\ q[Len(s) + 1] = m
  BY <1>1, AppendProperties
<1>3. q = [i \in 1 .. Len(s) + 1 |-> q[i]]
  <2> HIDE DEF q
  <2>1. QED
    BY <1>2
<1> HIDE DEF q
<1>4. \A i \in 1 .. Len(s) + 1 : q[i] = IF i = Len(s) + 1 THEN m ELSE s[i]
  BY <1>2
<1>5. q = [i \in 1 .. Len(s) + 1 |-> IF i = Len(s) + 1 THEN m ELSE s[i]]
  BY <1>3, <1>4
<1>6. QED
  BY <1>5 DEF q

(* A stamp younger than all becomes the last.                              *)
LEMMA YoungerIsLast ==
  ASSUME NEW S \in SUBSET Nat, IsFiniteSet(S), NEW m \in Nat, \A x \in S : x < m
  PROVE  /\ InOrder(S \union {m}) = Append(InOrder(S), m)
         /\ Newest(S \union {m}) = m
<1> DEFINE n == Cardinality(S)
           T == S \union {m}
           s == InOrder(S)
           q == Append(s, m)
<1>1. /\ n \in Nat /\ m \notin S
      /\ T \in SUBSET Nat /\ IsFiniteSet(T) /\ Cardinality(T) = n + 1
  BY FS_CardinalityType, FS_AddElement
<1>2. s \in [1 .. n -> S] /\ \A i, j \in 1 .. n : i < j => s[i] < s[j]
  BY InOrderIncreases DEF Increasing
<1>3. s \in Seq(S) /\ Len(s) = n
  BY <1>1, <1>2
<1>4. q = [i \in 1 .. n + 1 |-> IF i = n + 1 THEN m ELSE s[i]]
  <2>1. Append(s, m) = [i \in 1 .. Len(s) + 1 |-> IF i = Len(s) + 1 THEN m ELSE s[i]]
    BY <1>3, AppendDef
  <2>2. QED
    BY <1>3, <2>1
<1>5. Increasing(T, q)
  <2> HIDE DEF s
  <2>1. \A i \in 1 .. n : s[i] \in S /\ s[i] < m
    BY <1>2
  <2>2. q \in [1 .. n + 1 -> T]
    BY <1>1, <1>4, <2>1
  <2>3. ASSUME NEW i \in 1 .. n + 1, NEW j \in 1 .. n + 1, i < j PROVE q[i] < q[j]
    <3>1. i \in 1 .. n /\ q[i] = s[i]
      BY <1>1, <1>4, <2>3
    <3>2. CASE j = n + 1
      BY <1>1, <1>4, <2>1, <3>1, <3>2
    <3>3. CASE j # n + 1
      BY <1>1, <1>2, <1>4, <2>3, <3>1, <3>3
    <3>4. QED
      BY <3>2, <3>3
  <2>4. QED
    BY <1>1, <2>2, <2>3 DEF Increasing
<1>6. InOrder(T) = q
  BY <1>1, <1>5, InOrderIncreases, IncreasingUnique
<1>7. Newest(T) \in T /\ m <= Newest(T)
  BY <1>1, NewestIsLast
<1>8. Newest(T) = m
  <2>1. Newest(T) \in Nat /\ (Newest(T) = m \/ Newest(T) < m)
    BY <1>1, <1>7
  <2>2. QED
    BY <1>7, <2>1
<1>9. QED
  BY <1>6, <1>8
-----------------------------------------------------------------------------
LEMMA RequestFields ==
  ASSUME NEW r \in Requests
  PROVE  /\ r.device \in Devices
         /\ r \in Reports <=> r.kind # "reminder"
         /\ r \in Reports <=> r.kind \in {"heartbeat", "event"}
         /\ r \in Reports => r \in ReportsOf(r.kind, r.device)
BY ReportAssumption DEF Reports, ReportsOf

LEMMA StampsFinite ==
  ASSUME NEW S \in SUBSET Stamp
  PROVE  S \in SUBSET Nat /\ IsFiniteSet(S)
<1>1. IsFiniteSet(Stamp)
  BY ReportAssumption, FS_Interval DEF Stamp
<1>2. Stamp \subseteq Nat
  BY ReportAssumption DEF Stamp
<1>3. QED
  BY <1>1, <1>2, FS_Subset

LEMMA ListType ==
  ASSUME NEW S \in SUBSET Stamp
  PROVE  /\ Newest(S) \in Stamp \union {None}
         /\ InOrder(S) \in Seq(Stamp)
<1>1. S \in SUBSET Nat /\ IsFiniteSet(S)
  BY StampsFinite
<1>2. Newest(S) \in Stamp \union {None}
  <2>1. S = {} => Newest(S) = None
    BY DEF Newest
  <2>2. S # {} => Newest(S) \in S
    BY <1>1, NewestIsLast
  <2>3. QED
    BY <2>1, <2>2
<1>3. InOrder(S) \in [1 .. Cardinality(S) -> S]
  BY <1>1, InOrderIncreases DEF Increasing
<1>4. InOrder(S) \in Seq(Stamp)
  <2> DEFINE n == Cardinality(S)
  <2>1. n \in Nat /\ InOrder(S) \in [1 .. n -> S]
    BY <1>1, <1>3, FS_CardinalityType
  <2> HIDE DEF n
  <2>2. InOrder(S) \in [1 .. n -> Stamp]
    BY <2>1
  <2>3. QED
    BY <2>1, <2>2
<1>5. QED
  BY <1>2, <1>4

LEMMA LoadType ==
  ASSUME NEW db \in Database
  PROVE  /\ Load(db) \in Registry
         /\ Load(db).known = db.rows /\ Load(db).desired = db.desired
         /\ \A d \in Devices : /\ Load(db).latest[d] = Newest(StampsOf(db, "heartbeat", d))
                               /\ Load(db).events[d] = InOrder(StampsOf(db, "event", d))
<1>1. \A kind, d : StampsOf(db, kind, d) \in SUBSET Stamp
  BY DEF StampsOf, ReportsOf, Database
<1>2. [d \in Devices |-> Newest(StampsOf(db, "heartbeat", d))] \in [Devices -> Stamp \union {None}]
  BY <1>1, ListType
<1>3. [d \in Devices |-> InOrder(StampsOf(db, "event", d))] \in [Devices -> Seq(Stamp)]
  BY <1>1, ListType
<1>4. QED
  BY <1>2, <1>3 DEF Load, Registry, Database

LEMMA EmptyType == EmptyDatabase \in Database
BY DEF EmptyDatabase, Database

(* Where a step leaves its own thread, and that it leaves the others alone. *)
Moves(t, step, r, m) ==
  /\ pc'[t] = step /\ req'[t] = r /\ mine'[t] = m
  /\ \A u \in Threads \ {t} : pc'[u] = pc[u] /\ req'[u] = req[u] /\ mine'[u] = mine[u]

LEMMA ServeMoves ==
  ASSUME TypeOK, NEW t \in Threads
  PROVE  /\ \A r \in Requests : Receive(t, r) =>
              IF r.kind = "reminder" THEN Moves(t, "acquire", r, None)
                                     ELSE Moves(t, "lookup", r, clock + 1)
         /\ Lookup(t) => IF registry.known[req[t]] = None
                         THEN Moves(t, "persist", req[t], mine[t]) ELSE Moves(t, "idle", None, None)
         /\ AcquireLock(t) => Moves(t, "read", req[t], mine[t])
         /\ ReadRevision(t) => Moves(t, "persist", req[t], registry.desired[req[t].device] + 1)
         /\ Persist(t) => Moves(t, "commit", req[t], mine[t])
         /\ CommitReport(t) => Moves(t, "publish", req[t], mine[t])
         /\ Publish(t) => Moves(t, IF req[t].kind = "reminder" THEN "notify" ELSE "index", req[t], mine[t])
         /\ IndexReport(t) => Moves(t, "notify", req[t], mine[t])
         /\ AppendEvent(t) => Moves(t, "announce", req[t], mine[t])
         /\ CommitEvent(t) => Moves(t, "idle", None, None)
         /\ WriteFails(t) => Moves(t, "idle", None, None)
<1>1. pc \in [Threads -> Steps] /\ req \in [Threads -> Requests \union {None}]
      /\ mine \in [Threads -> Nat \union {None}]
  BY DEF TypeOK
<1> USE <1>1 DEF Moves, Goto, Finish
<1>2. ASSUME NEW r \in Requests, Receive(t, r)
      PROVE  IF r.kind = "reminder" THEN Moves(t, "acquire", r, None)
                                     ELSE Moves(t, "lookup", r, clock + 1)
  BY <1>2 DEF Receive
<1>3. ASSUME Lookup(t)
      PROVE  IF registry.known[req[t]] = None
             THEN Moves(t, "persist", req[t], mine[t]) ELSE Moves(t, "idle", None, None)
  BY <1>3 DEF Lookup
<1>4. AcquireLock(t) => Moves(t, "read", req[t], mine[t])
  BY DEF AcquireLock
<1>5. ReadRevision(t) => Moves(t, "persist", req[t], registry.desired[req[t].device] + 1)
  BY DEF ReadRevision
<1>6. Persist(t) => Moves(t, "commit", req[t], mine[t])
  BY DEF Persist
<1>7. CommitReport(t) => Moves(t, "publish", req[t], mine[t])
  BY DEF CommitReport
<1>8. Publish(t) => Moves(t, IF req[t].kind = "reminder" THEN "notify" ELSE "index", req[t], mine[t])
  BY DEF Publish
<1>9. IndexReport(t) => Moves(t, "notify", req[t], mine[t])
  BY DEF IndexReport
<1>10. AppendEvent(t) => Moves(t, "announce", req[t], mine[t])
  BY DEF AppendEvent
<1>11. CommitEvent(t) => Moves(t, "idle", None, None)
  BY DEF CommitEvent
<1>12. WriteFails(t) => Moves(t, "idle", None, None)
  BY DEF WriteFails
<1>13. QED
  BY <1>2, <1>3, <1>4, <1>5, <1>6, <1>7, <1>8, <1>9, <1>10, <1>11, <1>12

-----------------------------------------------------------------------------
(* Type correctness.                                                       *)
TypeInv == TypeOK /\ Serving /\ Begun

LEMMA DatabaseUpdates ==
  ASSUME NEW db \in Database
  PROVE  /\ \A r \in Reports, x \in Stamp :
              LET new == [db EXCEPT !.rows[r] = x] IN
              /\ new \in Database /\ new.rows = [db.rows EXCEPT ![r] = x]
              /\ new.desired = db.desired /\ new.feed = db.feed
         /\ \A d \in Devices, n \in Nat :
              LET new == [db EXCEPT !.desired[d] = n] IN
              /\ new \in Database /\ new.desired = [db.desired EXCEPT ![d] = n]
              /\ new.rows = db.rows /\ new.feed = db.feed
         /\ \A r \in Requests :
              LET new == [db EXCEPT !.feed[r] = @ + 1] IN
              /\ new \in Database /\ new.feed = [db.feed EXCEPT ![r] = db.feed[r] + 1]
              /\ new.rows = db.rows /\ new.desired = db.desired
BY DEF Database

LEMMA RegistryUpdates ==
  ASSUME registry \in Registry, NEW d \in Devices
  PROVE  /\ \A x \in Stamp :
              LET new == [registry EXCEPT !.latest[d] = x] IN
              /\ new \in Registry /\ new.latest = [registry.latest EXCEPT ![d] = x]
              /\ new.known = registry.known /\ new.events = registry.events
              /\ new.desired = registry.desired
         /\ \A x \in Stamp :
              LET new == [registry EXCEPT !.events[d] = Append(@, x)] IN
              /\ new \in Registry
              /\ new.events = [registry.events EXCEPT ![d] = Append(registry.events[d], x)]
              /\ new.known = registry.known /\ new.latest = registry.latest
              /\ new.desired = registry.desired
         /\ \A n \in Nat :
              LET new == [registry EXCEPT !.desired[d] = n] IN
              /\ new \in Registry /\ new.desired = [registry.desired EXCEPT ![d] = n]
              /\ new.known = registry.known /\ new.latest = registry.latest
              /\ new.events = registry.events
         /\ \A r \in Reports, x \in Stamp :
              LET new == [registry EXCEPT !.known[r] = x] IN
              /\ new \in Registry /\ new.known = [registry.known EXCEPT ![r] = x]
              /\ new.latest = registry.latest /\ new.events = registry.events
              /\ new.desired = registry.desired
<1>1. /\ registry = [known |-> registry.known, latest |-> registry.latest,
                     events |-> registry.events, desired |-> registry.desired]
      /\ registry.known \in [Reports -> Stamp \union {None}]
      /\ registry.latest \in [Devices -> Stamp \union {None}]
      /\ registry.events \in [Devices -> Seq(Stamp)]
      /\ registry.desired \in [Devices -> Nat]
  BY DEF Registry
<1>2. ASSUME NEW x \in Stamp
      PROVE  LET new == [registry EXCEPT !.events[d] = Append(@, x)] IN
             /\ new \in Registry
             /\ new.events = [registry.events EXCEPT ![d] = Append(registry.events[d], x)]
             /\ new.known = registry.known /\ new.latest = registry.latest
             /\ new.desired = registry.desired
  <2>1. PICK q : q = Append(registry.events[d], x)
    OBVIOUS
  <2>2. q \in Seq(Stamp)
    BY <1>1, <2>1, AppendProperties
  <2>3. [registry EXCEPT !.events[d] = Append(@, x)] = [registry EXCEPT !.events[d] = q]
    BY <2>1, Zenon
  <2>4. [registry.events EXCEPT ![d] = q] \in [Devices -> Seq(Stamp)]
    BY <1>1, <2>2
  <2>5. QED
    BY <1>1, <2>1, <2>3, <2>4 DEF Registry
<1>3. QED
  BY <1>1, <1>2 DEF Registry

LEMMA ServingMoves ==
  ASSUME TypeOK, Serving, NEW t \in Threads, NEW step, NEW r, NEW m, Moves(t, step, r, m),
         clock' \in Nat, clock' >= clock,
         step # "idle" => r \in Requests,
         step \in {"lookup", "index"} => r \in Reports,
         step \in {"acquire", "read"} => r \in Requests \ Reports,
         step # "idle" /\ r \in Reports => m \in 1 .. clock',
         step \notin {"idle", "acquire", "read"} => m \in Nat
  PROVE  Serving'
<1>1. clock \in Nat
  BY DEF TypeOK
<1>2. \A u \in Threads \ {t} : pc'[u] = pc[u] /\ req'[u] = req[u] /\ mine'[u] = mine[u]
  BY DEF Moves
<1>3. pc'[t] = step /\ req'[t] = r /\ mine'[t] = m
  BY DEF Moves
<1>4. ASSUME NEW u \in Threads, u # t
      PROVE  /\ Busy(u)' => req'[u] \in Requests
             /\ pc'[u] \in {"lookup", "index"} => req'[u] \in Reports
             /\ pc'[u] \in {"acquire", "read"} => req'[u] \in Requests \ Reports
             /\ Reporting(u)' => mine'[u] \in 1 .. clock'
             /\ pc'[u] \notin {"idle", "acquire", "read"} => mine'[u] \in Nat
  <2>1. pc'[u] = pc[u] /\ req'[u] = req[u] /\ mine'[u] = mine[u]
    BY <1>2, <1>4
  <2>2. Reporting(u)' => mine'[u] \in 1 .. clock'
    BY <1>1, <2>1 DEF Serving, Reporting, Busy
  <2>3. QED
    BY <2>1, <2>2 DEF Serving, Busy
<1>5. /\ Busy(t)' => req'[t] \in Requests
      /\ pc'[t] \in {"lookup", "index"} => req'[t] \in Reports
      /\ pc'[t] \in {"acquire", "read"} => req'[t] \in Requests \ Reports
      /\ Reporting(t)' => mine'[t] \in 1 .. clock'
      /\ pc'[t] \notin {"idle", "acquire", "read"} => mine'[t] \in Nat
  BY <1>3 DEF Busy, Reporting
<1>6. QED
  BY <1>4, <1>5 DEF Serving

(* A busy thread has a request; the stamp of a report is one of the bound. *)
LEMMA Serves ==
  ASSUME TypeInv, NEW t \in Threads, Busy(t)
  PROVE  /\ req[t] \in Requests /\ req[t].device \in Devices
         /\ req[t] \in Reports <=> req[t].kind # "reminder"
         /\ pc[t] \in {"lookup", "index"} => req[t] \in Reports
         /\ pc[t] \in {"acquire", "read"} => req[t] \notin Reports
         /\ req[t] \in Reports => mine[t] \in 1 .. clock /\ mine[t] \in Stamp
         /\ pc[t] \notin {"idle", "acquire", "read"} => mine[t] \in Nat
<1>1. req[t] \in Requests /\ (pc[t] \notin {"idle", "acquire", "read"} => mine[t] \in Nat)
      /\ (pc[t] \in {"acquire", "read"} => req[t] \notin Reports)
      /\ (pc[t] \in {"lookup", "index"} => req[t] \in Reports)
  BY DEF TypeInv, Serving, Busy
<1>2. req[t] \in Reports => mine[t] \in 1 .. clock
  BY DEF TypeInv, Serving, Reporting, Busy
<1>3. 1 .. clock \subseteq Stamp
  BY ReportAssumption DEF TypeInv, TypeOK, Stamp
<1>4. QED
  BY <1>1, <1>2, <1>3, RequestFields

LEMMA ServingInductive ==
  ASSUME TypeInv, NEW t \in Threads, Serve(t)
  PROVE  Serving'
<1>1. TypeOK /\ Serving /\ clock \in Nat
  BY DEF TypeInv, TypeOK
<1> USE DEF Busy
<1>2. ASSUME NEW r \in Requests, Receive(t, r) PROVE Serving'
  <2>1. clock' = clock + 1 /\ (r \in Reports <=> r.kind # "reminder")
    BY <1>2, RequestFields DEF Receive
  <2>2. CASE r.kind = "reminder"
    <3>1. Moves(t, "acquire", r, None)
      BY <1>1, <1>2, <2>2, ServeMoves
    <3>2. QED
      BY <1>1, <2>1, <2>2, <3>1, ServingMoves
  <2>3. CASE r.kind # "reminder"
    <3>1. Moves(t, "lookup", r, clock + 1)
      BY <1>1, <1>2, <2>3, ServeMoves
    <3>2. QED
      BY <1>1, <2>1, <2>3, <3>1, ServingMoves
  <2>4. QED
    BY <2>2, <2>3
<1>3. CASE Lookup(t)
  <2>1. clock' = clock /\ pc[t] = "lookup"
    BY <1>3 DEF Lookup
  <2>2. Moves(t, "persist", req[t], mine[t]) \/ Moves(t, "idle", None, None)
    BY <1>1, <1>3, ServeMoves
  <2>3. QED
    BY <1>1, <2>1, <2>2, Serves, ServingMoves
<1>4. CASE AcquireLock(t)
  <2>1. clock' = clock /\ pc[t] = "acquire" /\ Moves(t, "read", req[t], mine[t])
    BY <1>1, <1>4, ServeMoves DEF AcquireLock
  <2>2. QED
    BY <1>1, <2>1, Serves, ServingMoves
<1>5. CASE ReadRevision(t)
  <2>1. clock' = clock /\ pc[t] = "read"
        /\ Moves(t, "persist", req[t], registry.desired[req[t].device] + 1)
    BY <1>1, <1>5, ServeMoves DEF ReadRevision
  <2>2. req[t] \in Requests \ Reports /\ req[t].device \in Devices
    BY <2>1, Serves
  <2>3. registry.desired[req[t].device] \in Nat
    BY <1>1, <2>2 DEF TypeOK, Registry
  <2>4. QED
    BY <1>1, <2>1, <2>2, <2>3, ServingMoves
<1>6. CASE Persist(t)
  <2>1. clock' = clock /\ pc[t] = "persist" /\ Moves(t, "commit", req[t], mine[t])
    BY <1>1, <1>6, ServeMoves DEF Persist
  <2>2. QED
    BY <1>1, <2>1, Serves, ServingMoves
<1>7. CASE CommitReport(t)
  <2>1. clock' = clock /\ pc[t] = "commit" /\ Moves(t, "publish", req[t], mine[t])
    BY <1>1, <1>7, ServeMoves DEF CommitReport
  <2>2. QED
    BY <1>1, <2>1, Serves, ServingMoves
<1>8. CASE Publish(t)
  <2>1. clock' = clock /\ pc[t] = "publish"
        /\ Moves(t, IF req[t].kind = "reminder" THEN "notify" ELSE "index", req[t], mine[t])
    BY <1>1, <1>8, ServeMoves DEF Publish
  <2>2. \/ req[t] \in Reports /\ Moves(t, "index", req[t], mine[t])
        \/ Moves(t, "notify", req[t], mine[t])
    BY <2>1, Serves
  <2>3. QED
    BY <1>1, <2>1, <2>2, Serves, ServingMoves
<1>9. CASE IndexReport(t)
  <2>1. clock' = clock /\ pc[t] = "index" /\ Moves(t, "notify", req[t], mine[t])
    BY <1>1, <1>9, ServeMoves DEF IndexReport
  <2>2. QED
    BY <1>1, <2>1, Serves, ServingMoves
<1>10. CASE AppendEvent(t)
  <2>1. clock' = clock /\ pc[t] = "notify" /\ Moves(t, "announce", req[t], mine[t])
    BY <1>1, <1>10, ServeMoves DEF AppendEvent
  <2>2. QED
    BY <1>1, <2>1, Serves, ServingMoves
<1>11. CASE CommitEvent(t) \/ WriteFails(t)
  <2>1. clock' = clock /\ Moves(t, "idle", None, None)
    BY <1>1, <1>11, ServeMoves DEF CommitEvent, WriteFails
  <2>2. QED
    BY <1>1, <2>1, ServingMoves
<1>12. QED
  BY <1>2, <1>3, <1>4, <1>5, <1>6, <1>7, <1>8, <1>9, <1>10, <1>11 DEF Serve

(* What the writing steps do to the tables and the dictionaries.           *)
LEMMA PersistWrites ==
  ASSUME TypeInv, NEW t \in Threads, Persist(t)
  PROVE  /\ working' \in Database /\ durable' = durable /\ working'.feed = working.feed
         /\ req[t] \in Reports =>
              /\ working'.rows = [working.rows EXCEPT ![req[t]] = mine[t]]
              /\ working'.desired = working.desired
         /\ req[t] \notin Reports =>
              /\ working'.rows = working.rows
              /\ working'.desired = [working.desired EXCEPT ![req[t].device] = mine[t]]
<1>1. pc[t] = "persist" /\ working \in Database
  BY DEF Persist, TypeInv, TypeOK
<1>2. /\ req[t].device \in Devices /\ (req[t] \in Reports <=> req[t].kind # "reminder")
      /\ (req[t] \in Reports => mine[t] \in Stamp) /\ mine[t] \in Nat
  BY <1>1, Serves DEF Busy
<1>3. CASE req[t] \in Reports
  <2>1. working' = [working EXCEPT !.rows[req[t]] = mine[t]] /\ durable' = durable
    BY <1>2, <1>3 DEF Persist, Execute
  <2>2. QED
    BY <1>1, <1>2, <1>3, <2>1, DatabaseUpdates
<1>4. CASE req[t] \notin Reports
  <2>1. working' = [working EXCEPT !.desired[req[t].device] = mine[t]] /\ durable' = durable
    BY <1>2, <1>4 DEF Persist, Execute
  <2>2. QED
    BY <1>1, <1>2, <1>4, <2>1, DatabaseUpdates
<1>5. QED
  BY <1>3, <1>4

LEMMA AppendEventWrites ==
  ASSUME TypeInv, NEW t \in Threads, AppendEvent(t)
  PROVE  /\ working' \in Database /\ durable' = durable
         /\ working'.feed = [working.feed EXCEPT ![req[t]] = working.feed[req[t]] + 1]
         /\ working'.rows = working.rows /\ working'.desired = working.desired
<1>1. pc[t] = "notify" /\ working \in Database
  BY DEF AppendEvent, TypeInv, TypeOK
<1>2. req[t] \in Requests
  BY <1>1, Serves DEF Busy
<1>3. working' = [working EXCEPT !.feed[req[t]] = @ + 1] /\ durable' = durable
  BY DEF AppendEvent, Execute
<1>4. QED
  BY <1>1, <1>2, <1>3, DatabaseUpdates

LEMMA PublishWrites ==
  ASSUME TypeInv, NEW t \in Threads, Publish(t)
  PROVE  /\ registry' \in Registry /\ registry'.known = registry.known
         /\ req[t] \in Reports => registry'.desired = registry.desired
         /\ req[t] \notin Reports =>
              /\ registry'.desired = [registry.desired EXCEPT ![req[t].device] = mine[t]]
              /\ registry'.latest = registry.latest /\ registry'.events = registry.events
         /\ req[t].kind = "heartbeat" =>
              /\ registry'.latest = [registry.latest EXCEPT ![req[t].device] = mine[t]]
              /\ registry'.events = registry.events
         /\ req[t].kind = "event" =>
              /\ registry'.latest = registry.latest
              /\ registry'.events = [registry.events EXCEPT ![req[t].device] =
                                      Append(registry.events[req[t].device], mine[t])]
<1>1. pc[t] = "publish" /\ registry \in Registry
  BY DEF Publish, TypeInv, TypeOK
<1>2. /\ req[t] \in Requests /\ req[t].device \in Devices
      /\ req[t] \in Reports <=> req[t].kind # "reminder"
      /\ req[t] \in Reports <=> req[t].kind \in {"heartbeat", "event"}
      /\ req[t] \in Reports => mine[t] \in Stamp
      /\ mine[t] \in Nat
  BY <1>1, Serves, RequestFields DEF Busy
<1>3. CASE req[t].kind = "heartbeat"
  <2>1. registry' = [registry EXCEPT !.latest[req[t].device] = mine[t]]
    BY <1>3 DEF Publish
  <2>2. QED
    BY <1>1, <1>2, <1>3, <2>1, RegistryUpdates
<1>4. CASE req[t].kind = "event"
  <2>1. registry' = [registry EXCEPT !.events[req[t].device] = Append(@, mine[t])]
    BY <1>4 DEF Publish
  <2>2. QED
    BY <1>1, <1>2, <1>4, <2>1, RegistryUpdates
<1>5. CASE req[t].kind = "reminder"
  <2>1. registry' = [registry EXCEPT !.desired[req[t].device] = mine[t]]
    BY <1>5 DEF Publish
  <2>2. QED
    BY <1>1, <1>2, <1>5, <2>1, RegistryUpdates
<1>6. QED
  BY <1>2, <1>3, <1>4, <1>5

LEMMA IndexWrites ==
  ASSUME TypeInv, NEW t \in Threads, IndexReport(t)
  PROVE  /\ req[t] \in Reports /\ registry' \in Registry
         /\ registry'.known = [registry.known EXCEPT ![req[t]] = mine[t]]
         /\ registry'.latest = registry.latest /\ registry'.events = registry.events
         /\ registry'.desired = registry.desired
<1>1. pc[t] = "index" /\ registry \in Registry
  BY DEF IndexReport, TypeInv, TypeOK
<1>2. req[t] \in Reports /\ mine[t] \in Stamp /\ req[t].device \in Devices
  BY <1>1, Serves DEF Busy
<1>3. registry' = [registry EXCEPT !.known[req[t]] = mine[t]]
  BY DEF IndexReport
<1>4. QED
  BY <1>1, <1>2, <1>3, RegistryUpdates

LEMMA RestartLoads ==
  ASSUME TypeInv, Restart
  PROVE  /\ working' = durable /\ durable' = durable /\ registry' \in Registry
         /\ registry'.known = durable.rows /\ registry'.desired = durable.desired
         /\ \A t \in Threads : ~Busy(t)'
BY LoadType DEF Restart, Rollback, TypeInv, TypeOK, Busy

LEMMA AnswerType ==
  ASSUME TypeInv, NEW r \in Requests, NEW x \in Nat, r \in Reports => x \in Stamp, Answer(r, x)
  PROVE  /\ answers' \in [Reports -> SUBSET Stamp]
         /\ reminders' \in [Devices -> Seq(Nat)]
<1>1. /\ answers \in [Reports -> SUBSET Stamp] /\ reminders \in [Devices -> Seq(Nat)]
      /\ r.device \in Devices /\ (r \in Reports <=> r.kind # "reminder")
  BY RequestFields DEF TypeInv, TypeOK
<1>2. CASE r.kind = "reminder"
  <2>1. Append(reminders[r.device], x) \in Seq(Nat)
    BY <1>1, AppendProperties
  <2>2. QED
    BY <1>1, <1>2, <2>1 DEF Answer
<1>3. CASE r.kind # "reminder"
  <2>1. answers' = [answers EXCEPT ![r] = @ \union {x}] /\ reminders' = reminders
    BY <1>3 DEF Answer
  <2>2. QED
    BY <1>1, <1>3, <2>1
<1>4. QED
  BY <1>2, <1>3

LEMMA TypeStep ==
  ASSUME TypeInv, NEW t \in Threads, Serve(t)
  PROVE  TypeOK' /\ Begun'
<1>1. /\ working \in Database /\ durable \in Database /\ registry \in Registry
      /\ lock \in Threads \union {None}
      /\ pc \in [Threads -> Steps] /\ req \in [Threads -> Requests \union {None}]
      /\ mine \in [Threads -> Nat \union {None}]
      /\ clock \in 0 .. MaxRequests /\ clock \in Nat
      /\ answers \in [Reports -> SUBSET Stamp] /\ reminders \in [Devices -> Seq(Nat)]
      /\ torn \in BOOLEAN
  BY DEF TypeInv, TypeOK
<1>2. \A r \in Reports : /\ working.rows[r] \in (1 .. clock) \union {None}
                         /\ durable.rows[r] \in (1 .. clock) \union {None}
                         /\ registry.known[r] \in (1 .. clock) \union {None}
  BY DEF TypeInv, Begun
<1>3. /\ working.rows \in [Reports -> Stamp \union {None}]
      /\ durable.rows \in [Reports -> Stamp \union {None}]
      /\ registry.known \in [Reports -> Stamp \union {None}]
  BY <1>1 DEF Database, Registry
<1> USE DEF Goto, Finish, Steps, Uncommitted, connectionVars, historyVars
<1>4. ASSUME NEW r \in Requests, Receive(t, r) PROVE TypeOK' /\ Begun'
  <2>1. clock' = clock + 1 /\ clock' \in 0 .. MaxRequests
    BY <1>1, <1>4, ReportAssumption DEF Receive, Allowed
  <2>2. TypeOK'
    BY <1>1, <1>4, <2>1 DEF Receive, TypeOK
  <2>3. 1 .. clock \subseteq 1 .. clock'
    BY <1>1, <2>1
  <2>4. working' = working /\ durable' = durable /\ registry' = registry
    BY <1>4 DEF Receive
  <2>5. QED
    BY <1>2, <2>2, <2>3, <2>4 DEF Begun
<1>5. CASE Lookup(t)
  <2>1. pc[t] = "lookup" /\ req[t] \in Reports
    BY <1>5, Serves DEF Lookup, Busy
  <2>2. registry.known[req[t]] \in Stamp \union {None}
    BY <1>3, <2>1
  <2>3. answers' \in [Reports -> SUBSET Stamp] /\ reminders' \in [Devices -> Seq(Nat)]
    <3>1. CASE registry.known[req[t]] = None
      BY <1>1, <1>5, <3>1 DEF Lookup
    <3>2. CASE registry.known[req[t]] # None
      <4>1. Answer(req[t], registry.known[req[t]])
        BY <1>5, <3>2 DEF Lookup
      <4>2. registry.known[req[t]] \in Stamp /\ registry.known[req[t]] \in Nat
        BY <2>2, <3>2 DEF Stamp
      <4>3. QED
        BY <2>1, <4>1, <4>2, AnswerType DEF Reports
    <3>3. QED
      BY <3>1, <3>2
  <2>4. /\ working' = working /\ durable' = durable /\ registry' = registry /\ lock' = lock
        /\ clock' = clock /\ torn' = torn
    BY <1>5 DEF Lookup
  <2>5. /\ pc' \in [Threads -> Steps] /\ req' \in [Threads -> Requests \union {None}]
        /\ mine' \in [Threads -> Nat \union {None}]
    BY <1>1, <1>5 DEF Lookup
  <2>6. QED
    BY <1>1, <1>2, <2>3, <2>4, <2>5 DEF TypeOK, Begun
<1>6. CASE AcquireLock(t)
  BY <1>1, <1>2, <1>6 DEF AcquireLock, TypeOK, Begun
<1>7. CASE ReadRevision(t)
  <2>1. req[t].device \in Devices
    BY <1>7, Serves DEF ReadRevision, Busy
  <2>2. registry.desired[req[t].device] + 1 \in Nat
    BY <1>1, <2>1 DEF Registry
  <2>3. QED
    BY <1>1, <1>2, <1>7, <2>2 DEF ReadRevision, TypeOK, Begun
<1>8. CASE Persist(t)
  <2>1. pc[t] = "persist" /\ (req[t] \in Reports => mine[t] \in 1 .. clock)
    BY <1>8, Serves DEF Persist, Busy
  <2>2. working' \in Database /\ durable' = durable
    BY <1>8, PersistWrites
  <2>3. \A r \in Reports : working'.rows[r] \in (1 .. clock) \union {None}
    BY <1>2, <1>3, <1>8, <2>1, PersistWrites
  <2>4. TypeOK'
    <3>1. UNCHANGED <<registry, lock, req, mine, clock, answers, reminders, torn>>
      BY <1>8 DEF Persist
    <3>2. pc' \in [Threads -> Steps]
      BY <1>1, <1>8 DEF Persist
    <3>3. QED
      BY <1>1, <2>2, <3>1, <3>2 DEF TypeOK
  <2>5. QED
    BY <1>2, <1>8, <2>2, <2>3, <2>4 DEF Persist, Begun
<1>9. CASE CommitReport(t)
  BY <1>1, <1>2, <1>9 DEF CommitReport, Commit, TypeOK, Begun
<1>10. CASE Publish(t)
  <2>1. registry' \in Registry /\ registry'.known = registry.known
    BY <1>10, PublishWrites
  <2>2. TypeOK'
    BY <1>1, <1>10, <2>1 DEF Publish, TypeOK
  <2>3. QED
    BY <1>2, <1>10, <2>1, <2>2 DEF Publish, Begun
<1>11. CASE IndexReport(t)
  <2>1. /\ req[t] \in Reports /\ registry' \in Registry
        /\ registry'.known = [registry.known EXCEPT ![req[t]] = mine[t]]
    BY <1>11, IndexWrites
  <2>2. mine[t] \in 1 .. clock
    BY <1>11, <2>1, Serves DEF IndexReport, Busy
  <2>3. \A r \in Reports : registry'.known[r] \in (1 .. clock) \union {None}
    BY <1>2, <1>3, <2>1, <2>2
  <2>4. TypeOK'
    <3>1. UNCHANGED <<working, durable, lock, req, mine, clock, answers, reminders, torn>>
      BY <1>11 DEF IndexReport
    <3>2. pc' \in [Threads -> Steps]
      BY <1>1, <1>11 DEF IndexReport
    <3>3. QED
      BY <1>1, <2>1, <3>1, <3>2 DEF TypeOK
  <2>5. QED
    BY <1>2, <1>11, <2>3, <2>4 DEF IndexReport, Begun
<1>12. CASE AppendEvent(t)
  <2>1. working' \in Database /\ durable' = durable /\ working'.rows = working.rows
    BY <1>12, AppendEventWrites
  <2>2. TypeOK'
    <3>1. UNCHANGED <<registry, lock, req, mine, clock, answers, reminders, torn>>
      BY <1>12 DEF AppendEvent
    <3>2. pc' \in [Threads -> Steps]
      BY <1>1, <1>12 DEF AppendEvent
    <3>3. QED
      BY <1>1, <2>1, <3>1, <3>2 DEF TypeOK
  <2>3. QED
    BY <1>2, <1>12, <2>1, <2>2 DEF AppendEvent, Begun
<1>13. CASE CommitEvent(t)
  <2>1. pc[t] = "announce"
    BY <1>13 DEF CommitEvent
  <2>2. req[t] \in Requests /\ mine[t] \in Nat /\ (req[t] \in Reports => mine[t] \in Stamp)
    BY <2>1, Serves DEF Busy
  <2>3. answers' \in [Reports -> SUBSET Stamp] /\ reminders' \in [Devices -> Seq(Nat)]
    BY <1>13, <2>2, AnswerType DEF CommitEvent
  <2>4. QED
    BY <1>1, <1>2, <1>13, <2>3 DEF CommitEvent, Commit, TypeOK, Begun
<1>14. CASE WriteFails(t)
  BY <1>1, <1>2, <1>14 DEF WriteFails, Rollback, TypeOK, Begun
<1>15. QED
  BY <1>4, <1>5, <1>6, <1>7, <1>8, <1>9, <1>10, <1>11, <1>12, <1>13, <1>14 DEF Serve

LEMMA TypeInductive == TypeInv /\ [Next]_vars => TypeInv'
<1> SUFFICES ASSUME TypeInv, [Next]_vars PROVE TypeInv'
  OBVIOUS
<1>1. CASE Restart
  <2>1. TypeOK'
    BY <1>1, RestartLoads DEF Restart, TypeInv, TypeOK, Steps, historyVars
  <2>2. Begun'
    BY <1>1, RestartLoads DEF Restart, TypeInv, Begun
  <2>3. Serving'
    BY <1>1 DEF Restart, Serving, Busy, Reporting
  <2>4. QED
    BY <2>1, <2>2, <2>3 DEF TypeInv
<1>2. ASSUME NEW t \in Threads, Serve(t) PROVE TypeInv'
  BY <1>2, TypeStep, ServingInductive DEF TypeInv
<1>3. CASE UNCHANGED vars
  BY <1>3 DEF vars, connectionVars, threadVars, historyVars, TypeInv, TypeOK, Serving, Begun,
     Busy, Reporting
<1>4. QED
  BY <1>1, <1>2, <1>3 DEF Next

LEMMA TypeInit == Init => TypeInv
<1> SUFFICES ASSUME Init PROVE TypeInv
  OBVIOUS
<1>1. TypeOK
  <2>1. working \in Database /\ durable \in Database /\ registry \in Registry
    BY EmptyType, LoadType DEF Init
  <2>2. clock \in 0 .. MaxRequests
    BY ReportAssumption DEF Init
  <2>3. reminders \in [Devices -> Seq(Nat)]
    BY DEF Init
  <2>4. QED
    BY <2>1, <2>2, <2>3 DEF Init, TypeOK, Steps
<1>2. Serving
  BY DEF Init, Serving, Busy, Reporting
<1>3. Begun
  BY EmptyType, LoadType DEF Init, Begun, EmptyDatabase
<1>4. QED
  BY <1>1, <1>2, <1>3 DEF TypeInv

LEMMA TypeInvHolds == Spec => []TypeInv
BY TypeInit, TypeInductive, PTL DEF Spec

(* The tables, the dictionaries and the threads stay well formed, whatever *)
(* overlaps, fails or restarts: every report that is stored, listed or     *)
(* answered has the stamp of a request that was made.                      *)
THEOREM TypeCorrect == Spec => []TypeOK
BY TypeInvHolds, PTL DEF TypeInv

-----------------------------------------------------------------------------
(* The lock of the desired states, and the open transaction.               *)
LEMMA LockInductive == TypeInv /\ LockHeld /\ [Next]_vars => LockHeld'
<1> SUFFICES ASSUME TypeInv, LockHeld, [Next]_vars PROVE LockHeld'
  OBVIOUS
<1>1. TypeOK /\ None \notin Threads
  BY ReportAssumption DEF TypeInv
<1>2. CASE Restart
  BY <1>1, <1>2 DEF Restart, LockHeld, Deciding
<1>3. CASE UNCHANGED vars
  BY <1>3 DEF vars, threadVars, LockHeld
<1>4. ASSUME NEW t \in Threads, Serve(t) PROVE LockHeld'
  <2> USE DEF Moves, LockHeld, Deciding
  <2>1. ASSUME NEW r \in Requests, Receive(t, r) PROVE LockHeld'
    <3>1. \/ Moves(t, "acquire", r, None)
          \/ Moves(t, "lookup", r, clock + 1)
      BY <1>1, <2>1, ServeMoves
    <3>2. lock' = lock /\ pc[t] = "idle"
      BY <2>1 DEF Receive, Allowed
    <3>3. QED
      BY <3>1, <3>2
  <2>2. CASE Lookup(t)
    <3>1. Moves(t, "persist", req[t], mine[t]) \/ Moves(t, "idle", None, None)
      BY <1>1, <2>2, ServeMoves
    <3>2. lock' = lock /\ pc[t] = "lookup" /\ req[t] \in Reports
      BY <2>2, Serves DEF Lookup, Busy
    <3>3. QED
      BY <3>1, <3>2
  <2>3. CASE AcquireLock(t)
    <3>1. Moves(t, "read", req[t], mine[t])
      BY <1>1, <2>3, ServeMoves
    <3>2. /\ lock' = t /\ lock = None /\ pc[t] = "acquire"
          /\ req[t] \in Requests \ Reports
      BY <2>3, Serves DEF AcquireLock, Busy
    <3>3. QED
      BY <1>1, <3>1, <3>2
  <2>4. CASE ReadRevision(t)
    <3>1. Moves(t, "persist", req[t], registry.desired[req[t].device] + 1)
      BY <1>1, <2>4, ServeMoves
    <3>2. lock' = lock /\ pc[t] = "read"
      BY <2>4 DEF ReadRevision
    <3>3. QED
      BY <3>1, <3>2
  <2>5. CASE Persist(t)
    <3>1. Moves(t, "commit", req[t], mine[t]) /\ lock' = lock /\ pc[t] = "persist"
      BY <1>1, <2>5, ServeMoves DEF Persist
    <3>2. QED
      BY <3>1
  <2>6. CASE CommitReport(t)
    <3>1. Moves(t, "publish", req[t], mine[t]) /\ lock' = lock /\ pc[t] = "commit"
      BY <1>1, <2>6, ServeMoves DEF CommitReport
    <3>2. QED
      BY <3>1
  <2>7. CASE Publish(t)
    <3>1. /\ Moves(t, IF req[t].kind = "reminder" THEN "notify" ELSE "index", req[t], mine[t])
          /\ lock' = (IF lock = t THEN None ELSE lock) /\ pc[t] = "publish"
      BY <1>1, <2>7, ServeMoves DEF Publish
    <3>2. QED
      BY <1>1, <3>1
  <2>8. CASE IndexReport(t)
    <3>1. Moves(t, "notify", req[t], mine[t]) /\ lock' = lock /\ pc[t] = "index"
      BY <1>1, <2>8, ServeMoves DEF IndexReport
    <3>2. QED
      BY <3>1
  <2>9. CASE AppendEvent(t)
    <3>1. Moves(t, "announce", req[t], mine[t]) /\ lock' = lock /\ pc[t] = "notify"
      BY <1>1, <2>9, ServeMoves DEF AppendEvent
    <3>2. QED
      BY <3>1
  <2>10. CASE CommitEvent(t)
    <3>1. Moves(t, "idle", None, None) /\ lock' = lock /\ pc[t] = "announce"
      BY <1>1, <2>10, ServeMoves DEF CommitEvent
    <3>2. QED
      BY <3>1
  <2>11. CASE WriteFails(t)
    <3>1. Moves(t, "idle", None, None) /\ lock' = (IF lock = t THEN None ELSE lock)
      BY <1>1, <2>11, ServeMoves DEF WriteFails
    <3>2. QED
      BY <1>1, <3>1
  <2>12. QED
    BY <1>4, <2>1, <2>2, <2>3, <2>4, <2>5, <2>6, <2>7, <2>8, <2>9, <2>10, <2>11 DEF Serve
<1>5. QED
  BY <1>2, <1>3, <1>4 DEF Next

LEMMA DatabaseFields ==
  ASSUME NEW db \in Database, NEW other \in Database,
         db.rows = other.rows, db.desired = other.desired, db.feed = other.feed
  PROVE  db = other
BY DEF Database

(* A thread that did not move still explains what it explained.            *)
LEMMA UnsavedStays ==
  ASSUME NEW u \in Threads, Unsaved(u), durable' = durable,
         pc'[u] = pc[u], req'[u] = req[u], mine'[u] = mine[u],
         working'.feed[req[u]] = working.feed[req[u]]
  PROVE  Unsaved(u)'
BY DEF Unsaved

LEMMA FailureTakesOwn ==
  ASSUME TypeInv, OpenExplained, NEW t \in Threads, WriteFails(t), ~torn'
  PROVE  /\ ~torn /\ working' = durable /\ durable' = durable
         /\ \A u \in Threads \ {t} : pc[u] \notin Uncommitted
         /\ working = durable \/ Unsaved(t)
<1>1. /\ ~torn /\ working' = durable /\ durable' = durable
      /\ \A u \in Threads \ {t} : pc[u] \notin Uncommitted
  BY DEF WriteFails, Rollback, TypeInv, TypeOK
<1>2. \A u \in Threads \ {t} : ~Unsaved(u)
  BY <1>1 DEF Unsaved, Uncommitted
<1>3. QED
  BY <1>1, <1>2 DEF OpenExplained

LEMMA OpenInductive == TypeInv /\ OpenExplained /\ [Next]_vars => OpenExplained'
<1> SUFFICES ASSUME TypeInv, OpenExplained, [Next]_vars PROVE OpenExplained'
  OBVIOUS
<1>1. /\ TypeOK /\ working \in Database /\ durable \in Database
      /\ working.feed \in [Requests -> Nat] /\ durable.feed \in [Requests -> Nat]
      /\ working.rows \in [Reports -> Stamp \union {None}]
      /\ working.desired \in [Devices -> Nat]
      /\ \A r \in Requests : durable.feed[r] <= working.feed[r]
  BY DEF TypeInv, TypeOK, Database, OpenExplained
<1>2. ASSUME working' = durable' /\ durable' \in {working, durable} PROVE OpenExplained'
  BY <1>1, <1>2 DEF OpenExplained
<1>3. CASE Restart
  BY <1>2, <1>3, RestartLoads
<1>4. CASE UNCHANGED vars
  BY <1>4 DEF vars, connectionVars, threadVars, historyVars, OpenExplained, Unsaved
<1>5. ASSUME NEW t \in Threads, Serve(t) PROVE OpenExplained'
  <2>1. ASSUME NEW step, NEW r, NEW m, Moves(t, step, r, m), working' = working,
               durable' = durable, torn' = torn, ~Unsaved(t)
        PROVE  OpenExplained'
    <3>1. ~torn /\ working # durable => \E u \in Threads \ {t} : Unsaved(u)
      BY <2>1 DEF OpenExplained
    <3>2. \A u \in Threads \ {t} : Unsaved(u) => Unsaved(u)'
      BY <2>1, UnsavedStays DEF Moves
    <3>3. QED
      BY <1>1, <2>1, <3>1, <3>2 DEF OpenExplained
  <2>2. ASSUME NEW r \in Requests, Receive(t, r) PROVE OpenExplained'
    <3>1. Moves(t, "acquire", r, None) \/ Moves(t, "lookup", r, clock + 1)
      BY <1>1, <2>2, ServeMoves
    <3>2. working' = working /\ durable' = durable /\ torn' = torn /\ pc[t] = "idle"
      BY <2>2 DEF Receive, Allowed, connectionVars, historyVars
    <3>3. QED
      BY <2>1, <3>1, <3>2 DEF Unsaved
  <2>3. CASE Lookup(t)
    <3>1. Moves(t, "persist", req[t], mine[t]) \/ Moves(t, "idle", None, None)
      BY <1>1, <2>3, ServeMoves
    <3>2. working' = working /\ durable' = durable /\ torn' = torn /\ pc[t] = "lookup"
      BY <2>3 DEF Lookup, connectionVars
    <3>3. QED
      BY <2>1, <3>1, <3>2 DEF Unsaved
  <2>4. CASE AcquireLock(t)
    <3>1. Moves(t, "read", req[t], mine[t])
      BY <1>1, <2>4, ServeMoves
    <3>2. working' = working /\ durable' = durable /\ torn' = torn /\ pc[t] = "acquire"
      BY <2>4 DEF AcquireLock, connectionVars, historyVars
    <3>3. QED
      BY <2>1, <3>1, <3>2 DEF Unsaved
  <2>5. CASE ReadRevision(t)
    <3>1. Moves(t, "persist", req[t], registry.desired[req[t].device] + 1)
      BY <1>1, <2>5, ServeMoves
    <3>2. working' = working /\ durable' = durable /\ torn' = torn /\ pc[t] = "read"
      BY <2>5 DEF ReadRevision, connectionVars, historyVars
    <3>3. QED
      BY <2>1, <3>1, <3>2 DEF Unsaved
  <2>6. CASE Persist(t)
    <3>1. Moves(t, "commit", req[t], mine[t]) /\ pc[t] = "persist" /\ torn' = torn
      BY <1>1, <2>6, ServeMoves DEF Persist, historyVars
    <3>2. /\ working' \in Database /\ durable' = durable /\ working'.feed = working.feed
          /\ req[t] \in Reports =>
               /\ working'.rows = [working.rows EXCEPT ![req[t]] = mine[t]]
               /\ working'.desired = working.desired
          /\ req[t] \notin Reports =>
               /\ working'.rows = working.rows
               /\ working'.desired = [working.desired EXCEPT ![req[t].device] = mine[t]]
      BY <2>6, PersistWrites
    <3>3. \A u \in Threads \ {t} : Unsaved(u) => Unsaved(u)'
      BY <3>1, <3>2, UnsavedStays DEF Moves
    <3>4. ~Unsaved(t)
      BY <3>1 DEF Unsaved
    <3>5. pc'[t] = "commit" /\ req'[t] = req[t] /\ mine'[t] = mine[t]
      BY <3>1 DEF Moves
    <3>6. Unsaved(t)' \/ working' = working \/ working # durable
      <4>1. CASE req[t] \in Reports
        <5>1. Unsaved(t)' \/ durable.rows[req[t]] = mine[t]
          BY <3>2, <3>5, <4>1 DEF Unsaved
        <5>2. durable.rows[req[t]] = mine[t] /\ working = durable => working'.rows = working.rows
          BY <1>1, <3>2, <4>1
        <5>3. QED
          BY <1>1, <3>2, <4>1, <5>1, <5>2, DatabaseFields
      <4>2. CASE req[t] \notin Reports
        <5>1. Unsaved(t)' \/ durable.desired[req[t].device] = mine[t]
          BY <3>2, <3>5, <4>2 DEF Unsaved
        <5>2. durable.desired[req[t].device] = mine[t] /\ working = durable
                => working'.desired = working.desired
          BY <1>1, <3>2, <4>2
        <5>3. QED
          BY <1>1, <3>2, <4>2, <5>1, <5>2, DatabaseFields
      <4>3. QED
        BY <4>1, <4>2
    <3>7. ~torn' /\ working' # durable' => \E u \in Threads : Unsaved(u)'
      BY <3>1, <3>2, <3>3, <3>4, <3>6 DEF OpenExplained
    <3>8. QED
      BY <1>1, <3>2, <3>7 DEF OpenExplained
  <2>7. CASE CommitReport(t)
    BY <1>2, <2>7 DEF CommitReport, Commit
  <2>8. CASE Publish(t)
    <3>1. \E step : Moves(t, step, req[t], mine[t])
      BY <1>1, <2>8, ServeMoves
    <3>2. working' = working /\ durable' = durable /\ torn' = torn /\ pc[t] = "publish"
      BY <2>8 DEF Publish, connectionVars, historyVars
    <3>3. QED
      BY <2>1, <3>1, <3>2 DEF Unsaved
  <2>9. CASE IndexReport(t)
    <3>1. Moves(t, "notify", req[t], mine[t])
      BY <1>1, <2>9, ServeMoves
    <3>2. working' = working /\ durable' = durable /\ torn' = torn /\ pc[t] = "index"
      BY <2>9 DEF IndexReport, connectionVars, historyVars
    <3>3. QED
      BY <2>1, <3>1, <3>2 DEF Unsaved
  <2>10. CASE AppendEvent(t)
    <3>1. Moves(t, "announce", req[t], mine[t]) /\ pc[t] = "notify" /\ torn' = torn
      BY <1>1, <2>10, ServeMoves DEF AppendEvent, historyVars
    <3>2. /\ working' \in Database /\ durable' = durable
          /\ working'.feed = [working.feed EXCEPT ![req[t]] = working.feed[req[t]] + 1]
      BY <2>10, AppendEventWrites
    <3>3. req[t] \in Requests
      BY <3>1, Serves DEF Busy
    <3>4. pc'[t] = "announce" /\ req'[t] = req[t]
      BY <3>1 DEF Moves
    <3>5. working'.feed[req[t]] # durable'.feed[req[t]]
      BY <1>1, <3>2, <3>3
    <3>6. Unsaved(t)'
      BY <3>4, <3>5 DEF Unsaved
    <3>7. \A r \in Requests : durable'.feed[r] <= working'.feed[r]
      BY <1>1, <3>2, <3>3
    <3>8. QED
      BY <3>6, <3>7 DEF OpenExplained
  <2>11. CASE CommitEvent(t)
    BY <1>2, <2>11 DEF CommitEvent, Commit
  <2>12. CASE WriteFails(t)
    BY <1>2, <2>12 DEF WriteFails, Rollback
  <2>13. QED
    BY <1>5, <2>2, <2>3, <2>4, <2>5, <2>6, <2>7, <2>8, <2>9, <2>10, <2>11, <2>12 DEF Serve
<1>6. QED
  BY <1>3, <1>4, <1>5 DEF Next

-----------------------------------------------------------------------------
(* The revisions of the desired states.                                    *)
LEMMA OneDecides ==
  ASSUME LockHeld, NEW t \in Threads, NEW u \in Threads,
         pc[t] \in Deciding, req[t] \in Requests \ Reports,
         pc[u] \in Deciding, req[u] \in Requests \ Reports
  PROVE  t = u
BY DEF LockHeld

(* Steps that leave all revisions alone, of a thread that has none to write. *)
LEMMA RevisionsStay ==
  ASSUME Revisions, NEW t \in Threads, NEW step, NEW r, NEW m, Moves(t, step, r, m),
         torn' = torn, registry'.desired = registry.desired,
         working'.desired = working.desired, durable'.desired = durable.desired,
         pc[t] \in {"commit", "publish"} => req[t] \in Reports,
         step = "persist" /\ r \notin Reports => m = registry.desired[r.device] + 1,
         step \in {"commit", "publish"} => r \in Reports
  PROVE  Revisions'
<1> SUFFICES ASSUME ~torn, NEW d \in Devices PROVE RevisionOf(d)'
  BY DEF Revisions
<1>1. RevisionOf(d)
  BY DEF Revisions
<1>2. \A u \in Threads \ {t} : pc'[u] = pc[u] /\ req'[u] = req[u] /\ mine'[u] = mine[u]
  BY DEF Moves
<1>3. pc'[t] = step /\ req'[t] = r /\ mine'[t] = m
  BY DEF Moves
<1>4. ~Writing(t, d)
  BY DEF Writing, Reminding
<1>5. ASSUME NEW n, Stored(n, d) PROVE Stored(n, d)'
  BY <1>2, <1>4, <1>5 DEF Stored, Writing, Reminding, Busy
<1>6. Stored(durable.desired[d], d)' /\ Stored(working.desired[d], d)'
  BY <1>1, <1>2, <1>4 DEF RevisionOf, Stored, Writing, Reminding, Busy
<1>7. ASSUME NEW u \in Threads, Reminding(u, d)' PROVE Turn(u, d)'
  <2>1. CASE u = t
    BY <1>3, <1>7, <2>1 DEF Reminding, Turn
  <2>2. CASE u # t
    <3>1. pc'[u] = pc[u] /\ req'[u] = req[u] /\ mine'[u] = mine[u]
      BY <1>2, <2>2
    <3>2. Reminding(u, d)
      BY <1>7, <3>1 DEF Reminding, Busy
    <3>3. Turn(u, d)
      BY <1>1, <3>2 DEF RevisionOf
    <3>4. QED
      BY <3>1, <3>3 DEF Turn
  <2>3. QED
    BY <2>1, <2>2
<1>8. QED
  BY <1>6, <1>7 DEF RevisionOf

(* A commit makes durable what was working.                                *)
LEMMA RevisionsCommit ==
  ASSUME Revisions, NEW t \in Threads,
         torn' = torn, registry' = registry, working' = working, durable' = working,
         \/ pc[t] = "commit" /\ Moves(t, "publish", req[t], mine[t])
         \/ pc[t] = "announce" /\ Moves(t, "idle", None, None)
  PROVE  Revisions'
<1> SUFFICES ASSUME ~torn, NEW d \in Devices PROVE RevisionOf(d)'
  BY DEF Revisions
<1>1. RevisionOf(d)
  BY DEF Revisions
<1>2. \A u \in Threads \ {t} : pc'[u] = pc[u] /\ req'[u] = req[u] /\ mine'[u] = mine[u]
  BY DEF Moves
<1>3. \/ pc[t] = "commit" /\ pc'[t] = "publish" /\ req'[t] = req[t] /\ mine'[t] = mine[t]
      \/ pc[t] = "announce" /\ pc'[t] = "idle"
  BY DEF Moves
<1>4. \A u \in Threads : Writing(u, d) => Writing(u, d)' /\ mine'[u] = mine[u]
  BY <1>2, <1>3 DEF Writing, Reminding, Busy
<1>5. Stored(durable.desired[d], d)' /\ Stored(working.desired[d], d)'
  BY <1>1, <1>4 DEF RevisionOf, Stored
<1>6. ASSUME NEW u \in Threads, Reminding(u, d)' PROVE Turn(u, d)'
  <2>1. /\ Reminding(u, d) /\ mine'[u] = mine[u]
        /\ pc'[u] = pc[u] \/ (pc[u] = "commit" /\ pc'[u] = "publish")
    BY <1>2, <1>3, <1>6 DEF Reminding, Busy
  <2>2. Turn(u, d)
    BY <1>1, <2>1 DEF RevisionOf
  <2>3. QED
    BY <2>1, <2>2 DEF Turn
<1>7. QED
  BY <1>5, <1>6 DEF RevisionOf

LEMMA RevisionsPersist ==
  ASSUME TypeInv, LockHeld, Revisions, NEW t \in Threads, Persist(t)
  PROVE  Revisions'
<1>1. /\ pc[t] = "persist" /\ torn' = torn /\ registry' = registry
      /\ Moves(t, "commit", req[t], mine[t])
  BY ServeMoves DEF Persist, historyVars, TypeInv
<1>2. /\ req[t] \in Requests /\ req[t].device \in Devices
  BY <1>1, Serves DEF Busy
<1>3. CASE req[t] \in Reports
  <2>1. working'.desired = working.desired /\ durable' = durable
    BY <1>3, PersistWrites
  <2>2. QED
    BY <1>1, <1>3, <2>1, RevisionsStay
<1>4. CASE req[t] \notin Reports
  <2> SUFFICES ASSUME ~torn, NEW d \in Devices PROVE RevisionOf(d)'
    BY <1>1 DEF Revisions
  <2>1. RevisionOf(d)
    BY DEF Revisions
  <2>2. /\ durable' = durable /\ working.desired \in [Devices -> Nat]
        /\ working'.desired = [working.desired EXCEPT ![req[t].device] = mine[t]]
    BY <1>4, PersistWrites DEF TypeInv, TypeOK, Database
  <2>3. /\ pc'[t] = "commit" /\ req'[t] = req[t] /\ mine'[t] = mine[t]
        /\ \A u \in Threads \ {t} : pc'[u] = pc[u] /\ req'[u] = req[u] /\ mine'[u] = mine[u]
    BY <1>1 DEF Moves
  <2>4. CASE req[t].device = d
    <3>1. Reminding(t, d) /\ Reminding(t, d)' /\ Writing(t, d)'
      BY <1>1, <1>4, <2>3, <2>4 DEF Reminding, Writing, Busy
    <3>2. mine[t] = registry.desired[d] + 1 /\ working'.desired[d] = mine[t]
      BY <1>1, <2>1, <2>2, <2>4, <3>1 DEF RevisionOf, Turn
    <3>3. ASSUME NEW u \in Threads, u # t, pc[u] \in {"persist", "commit", "publish"}
          PROVE  ~Reminding(u, d)
      <4>1. Reminding(u, d) => req[u] \in Requests \ Reports
        BY Serves DEF Reminding
      <4>2. QED
        BY <1>1, <1>2, <1>4, <3>3, <4>1, OneDecides DEF Deciding, Reminding
    <3>4. Stored(durable.desired[d], d)' /\ Stored(working.desired[d], d)'
      <4>1. durable.desired[d] = registry.desired[d]
        <5>1. \A u \in Threads : ~Writing(u, d)
          BY <1>1, <3>3 DEF Writing
        <5>2. QED
          BY <2>1, <5>1 DEF RevisionOf, Stored
      <4>2. QED
        BY <1>1, <2>2, <2>3, <3>1, <3>2, <4>1 DEF Stored
    <3>5. ASSUME NEW u \in Threads, Reminding(u, d)' PROVE Turn(u, d)'
      <4>1. CASE u = t
        BY <1>1, <2>3, <3>2, <4>1 DEF Turn
      <4>2. CASE u # t
        <5>1. pc'[u] = pc[u] /\ req'[u] = req[u]
          BY <2>3, <4>2
        <5>2. Reminding(u, d)
          BY <3>5, <5>1 DEF Reminding, Busy
        <5>3. QED
          BY <3>3, <4>2, <5>1, <5>2 DEF Turn
      <4>3. QED
        BY <4>1, <4>2
    <3>6. QED
      BY <3>4, <3>5 DEF RevisionOf
  <2>5. CASE req[t].device # d
    <3>1. working'.desired[d] = working.desired[d]
      BY <2>2, <2>5
    <3>2. \A u \in Threads :
            /\ Reminding(u, d)' <=> Reminding(u, d)
            /\ Reminding(u, d) => pc'[u] = pc[u] /\ mine'[u] = mine[u]
      BY <1>1, <2>3, <2>5 DEF Reminding, Busy
    <3>3. Stored(durable.desired[d], d)' /\ Stored(working.desired[d], d)'
      BY <1>1, <2>1, <2>2, <3>1, <3>2 DEF RevisionOf, Stored, Writing
    <3>4. ASSUME NEW u \in Threads, Reminding(u, d)' PROVE Turn(u, d)'
      <4>1. Turn(u, d) /\ pc'[u] = pc[u] /\ mine'[u] = mine[u]
        BY <2>1, <3>2, <3>4 DEF RevisionOf
      <4>2. QED
        BY <1>1, <2>2, <3>1, <4>1 DEF Turn
    <3>5. QED
      BY <3>3, <3>4 DEF RevisionOf
  <2>6. QED
    BY <2>4, <2>5
<1>5. QED
  BY <1>3, <1>4

LEMMA RevisionsPublish ==
  ASSUME TypeInv, LockHeld, Revisions, NEW t \in Threads, Publish(t)
  PROVE  Revisions'
<1>1. /\ pc[t] = "publish" /\ torn' = torn /\ working' = working /\ durable' = durable
      /\ Moves(t, IF req[t].kind = "reminder" THEN "notify" ELSE "index", req[t], mine[t])
  BY ServeMoves DEF Publish, historyVars, connectionVars, TypeInv
<1>2. /\ req[t] \in Requests /\ req[t].device \in Devices
      /\ req[t] \in Reports <=> req[t].kind # "reminder"
  BY <1>1, Serves DEF Busy
<1>3. CASE req[t] \in Reports
  <2>1. registry'.desired = registry.desired /\ Moves(t, "index", req[t], mine[t])
    BY <1>1, <1>2, <1>3, PublishWrites
  <2>2. QED
    BY <1>1, <1>3, <2>1, RevisionsStay
<1>4. CASE req[t] \notin Reports
  <2> SUFFICES ASSUME ~torn, NEW d \in Devices PROVE RevisionOf(d)'
    BY <1>1 DEF Revisions
  <2>1. RevisionOf(d)
    BY DEF Revisions
  <2>2. /\ registry.desired \in [Devices -> Nat]
        /\ registry'.desired = [registry.desired EXCEPT ![req[t].device] = mine[t]]
    BY <1>4, PublishWrites DEF TypeInv, TypeOK, Registry
  <2>3. /\ pc'[t] = "notify" /\ req'[t] = req[t]
        /\ \A u \in Threads \ {t} : pc'[u] = pc[u] /\ req'[u] = req[u] /\ mine'[u] = mine[u]
    BY <1>1, <1>2, <1>4 DEF Moves
  <2>4. CASE req[t].device = d
    <3>1. durable.desired[d] = mine[t] /\ working.desired[d] = mine[t]
      BY <1>1, <1>4, <2>1, <2>4 DEF RevisionOf, Turn, Reminding, Busy
    <3>2. registry'.desired[d] = mine[t]
      BY <2>2, <2>4
    <3>3. Stored(durable.desired[d], d)' /\ Stored(working.desired[d], d)'
      BY <1>1, <3>1, <3>2 DEF Stored
    <3>4. ASSUME NEW u \in Threads, Reminding(u, d)' PROVE Turn(u, d)'
      <4>1. CASE u = t
        BY <2>3, <4>1 DEF Turn
      <4>2. CASE u # t
        <5>1. pc'[u] = pc[u] /\ req'[u] = req[u]
          BY <2>3, <4>2
        <5>2. Busy(u) /\ req[u] \notin Reports
          BY <3>4, <5>1 DEF Reminding, Busy
        <5>3. pc[u] \notin {"persist", "commit", "publish"}
          BY <1>1, <1>2, <1>4, <4>2, <5>2, Serves, OneDecides DEF Deciding
        <5>4. QED
          BY <5>1, <5>3 DEF Turn
      <4>3. QED
        BY <4>1, <4>2
    <3>5. QED
      BY <3>3, <3>4 DEF RevisionOf
  <2>5. CASE req[t].device # d
    <3>1. registry'.desired[d] = registry.desired[d]
      BY <2>2, <2>5
    <3>2. \A u \in Threads :
            /\ Reminding(u, d)' <=> Reminding(u, d)
            /\ Reminding(u, d) => pc'[u] = pc[u] /\ mine'[u] = mine[u]
      BY <1>1, <2>3, <2>5 DEF Reminding, Busy
    <3>3. Stored(durable.desired[d], d)' /\ Stored(working.desired[d], d)'
      BY <1>1, <2>1, <3>1, <3>2 DEF RevisionOf, Stored, Writing
    <3>4. ASSUME NEW u \in Threads, Reminding(u, d)' PROVE Turn(u, d)'
      <4>1. Turn(u, d) /\ pc'[u] = pc[u] /\ mine'[u] = mine[u]
        BY <2>1, <3>2, <3>4 DEF RevisionOf
      <4>2. QED
        BY <1>1, <3>1, <4>1 DEF Turn
    <3>5. QED
      BY <3>3, <3>4 DEF RevisionOf
  <2>6. QED
    BY <2>4, <2>5
<1>5. QED
  BY <1>3, <1>4

LEMMA RevisionsFail ==
  ASSUME TypeInv, LockHeld, OpenExplained, Revisions, NEW t \in Threads, WriteFails(t)
  PROVE  Revisions'
<1> SUFFICES ASSUME ~torn', NEW d \in Devices PROVE RevisionOf(d)'
  BY DEF Revisions
<1>1. /\ ~torn /\ working' = durable /\ durable' = durable /\ registry' = registry
      /\ \A u \in Threads \ {t} : pc[u] \notin Uncommitted
      /\ working = durable \/ Unsaved(t)
  BY FailureTakesOwn DEF WriteFails
<1>2. /\ pc'[t] = "idle"
      /\ \A u \in Threads \ {t} : pc'[u] = pc[u] /\ req'[u] = req[u] /\ mine'[u] = mine[u]
  BY ServeMoves DEF Moves, TypeInv
<1>3. RevisionOf(d)
  BY <1>1 DEF Revisions
<1>4. \A u \in Threads \ {t} : Reminding(u, d)' <=> Reminding(u, d)
  BY <1>2 DEF Reminding, Busy
<1>5. ~Reminding(t, d)'
  BY <1>2 DEF Reminding, Busy
<1>6. ~(Writing(t, d) /\ durable.desired[d] = mine[t])
  <2>1. SUFFICES ASSUME Writing(t, d) PROVE durable.desired[d] # mine[t]
    OBVIOUS
  <2>2. pc[t] = "commit" /\ working # durable
    BY <2>1 DEF WriteFails, Writing, Uncommitted
  <2>3. QED
    BY <1>1, <2>1, <2>2 DEF Unsaved, Writing, Reminding
<1>7. PICK n : n = durable.desired[d]
  OBVIOUS
<1>8. Stored(n, d)'
  <2>1. Stored(n, d)
    BY <1>3, <1>7 DEF RevisionOf
  <2>2. \A u \in Threads \ {t} : Writing(u, d) => Writing(u, d)'
    BY <1>2, <1>4 DEF Writing
  <2>3. QED
    BY <1>1, <1>2, <1>6, <1>7, <2>1, <2>2 DEF Stored
<1>9. durable'.desired[d] = n /\ working'.desired[d] = n
  BY <1>1, <1>7
<1>10. Stored(durable.desired[d], d)' /\ Stored(working.desired[d], d)'
  BY <1>8, <1>9 DEF Stored
<1>11. ASSUME NEW u \in Threads, Reminding(u, d)' PROVE Turn(u, d)'
  <2>1. u # t
    BY <1>5, <1>11
  <2>2. /\ pc'[u] = pc[u] /\ mine'[u] = mine[u] /\ Turn(u, d) /\ pc[u] # "commit"
    BY <1>1, <1>2, <1>3, <1>4, <1>11, <2>1 DEF RevisionOf, Uncommitted
  <2>3. QED
    BY <1>1, <2>2 DEF Turn
<1>12. QED
  BY <1>10, <1>11 DEF RevisionOf

LEMMA RevisionsInductive ==
  TypeInv /\ LockHeld /\ OpenExplained /\ Revisions /\ [Next]_vars => Revisions'
<1> SUFFICES ASSUME TypeInv, LockHeld, OpenExplained, Revisions, [Next]_vars PROVE Revisions'
  OBVIOUS
<1>1. TypeOK
  BY DEF TypeInv
<1>2. CASE Restart
  BY <1>2, RestartLoads DEF Revisions, RevisionOf, Stored, Reminding
<1>3. CASE UNCHANGED vars
  BY <1>3 DEF vars, connectionVars, threadVars, historyVars, Revisions, RevisionOf, Stored,
     Reminding, Writing, Turn, Busy
<1>4. ASSUME NEW t \in Threads, Serve(t) PROVE Revisions'
  <2> USE DEF connectionVars, historyVars
  <2>1. ASSUME NEW r \in Requests, Receive(t, r) PROVE Revisions'
    <3>1. Moves(t, "acquire", r, None) \/ Moves(t, "lookup", r, clock + 1)
      BY <1>1, <2>1, ServeMoves
    <3>2. working' = working /\ durable' = durable /\ registry' = registry /\ torn' = torn
          /\ pc[t] = "idle"
      BY <2>1 DEF Receive, Allowed
    <3>3. QED
      BY <3>1, <3>2, RevisionsStay
  <2>2. CASE Lookup(t)
    <3>1. Moves(t, "persist", req[t], mine[t]) \/ Moves(t, "idle", None, None)
      BY <1>1, <2>2, ServeMoves
    <3>2. working' = working /\ durable' = durable /\ registry' = registry /\ torn' = torn
          /\ pc[t] = "lookup" /\ req[t] \in Reports
      BY <2>2, Serves DEF Lookup, Busy
    <3>3. QED
      BY <3>1, <3>2, RevisionsStay
  <2>3. CASE AcquireLock(t)
    <3>1. Moves(t, "read", req[t], mine[t])
      BY <1>1, <2>3, ServeMoves
    <3>2. working' = working /\ durable' = durable /\ registry' = registry /\ torn' = torn
          /\ pc[t] = "acquire"
      BY <2>3 DEF AcquireLock
    <3>3. QED
      BY <3>1, <3>2, RevisionsStay
  <2>4. CASE ReadRevision(t)
    <3>1. Moves(t, "persist", req[t], registry.desired[req[t].device] + 1)
      BY <1>1, <2>4, ServeMoves
    <3>2. working' = working /\ durable' = durable /\ registry' = registry /\ torn' = torn
          /\ pc[t] = "read"
      BY <2>4 DEF ReadRevision
    <3>3. QED
      BY <3>1, <3>2, RevisionsStay
  <2>5. CASE Persist(t)
    BY <2>5, RevisionsPersist
  <2>6. CASE CommitReport(t)
    <3>1. Moves(t, "publish", req[t], mine[t]) /\ pc[t] = "commit"
      BY <1>1, <2>6, ServeMoves DEF CommitReport
    <3>2. QED
      BY <2>6, <3>1, RevisionsCommit DEF CommitReport, Commit
  <2>7. CASE Publish(t)
    BY <2>7, RevisionsPublish
  <2>8. CASE IndexReport(t)
    <3>1. Moves(t, "notify", req[t], mine[t])
      BY <1>1, <2>8, ServeMoves
    <3>2. working' = working /\ durable' = durable /\ registry'.desired = registry.desired
          /\ torn' = torn /\ pc[t] = "index"
      BY <2>8, IndexWrites DEF IndexReport
    <3>3. QED
      BY <3>1, <3>2, RevisionsStay
  <2>9. CASE AppendEvent(t)
    <3>1. Moves(t, "announce", req[t], mine[t])
      BY <1>1, <2>9, ServeMoves
    <3>2. working'.desired = working.desired /\ durable' = durable /\ registry' = registry
          /\ torn' = torn /\ pc[t] = "notify"
      BY <2>9, AppendEventWrites DEF AppendEvent
    <3>3. QED
      BY <3>1, <3>2, RevisionsStay
  <2>10. CASE CommitEvent(t)
    <3>1. Moves(t, "idle", None, None) /\ pc[t] = "announce"
      BY <1>1, <2>10, ServeMoves DEF CommitEvent
    <3>2. QED
      BY <2>10, <3>1, RevisionsCommit DEF CommitEvent, Commit
  <2>11. CASE WriteFails(t)
    BY <2>11, RevisionsFail
  <2>12. QED
    BY <1>4, <2>1, <2>2, <2>3, <2>4, <2>5, <2>6, <2>7, <2>8, <2>9, <2>10, <2>11 DEF Serve
<1>5. QED
  BY <1>2, <1>3, <1>4 DEF Next

-----------------------------------------------------------------------------
(* The revisions that the owner is told.                                   *)
LEMMA DurableAhead ==
  ASSUME TypeInv, Revisions, ~torn, NEW d \in Devices
  PROVE  durable.desired[d] >= registry.desired[d]
<1>1. registry.desired[d] \in Nat
  BY DEF TypeInv, TypeOK, Registry
<1>2. RevisionOf(d)
  BY DEF Revisions
<1>3. CASE durable.desired[d] = registry.desired[d]
  BY <1>1, <1>3
<1>4. ASSUME NEW t \in Threads, Writing(t, d), durable.desired[d] = mine[t]
      PROVE  durable.desired[d] >= registry.desired[d]
  <2>1. mine[t] = registry.desired[d] + 1
    BY <1>2, <1>4 DEF RevisionOf, Turn, Writing
  <2>2. QED
    BY <1>1, <1>4, <2>1
<1>5. QED
  BY <1>2, <1>3, <1>4 DEF RevisionOf, Stored

TablesAhead == ~torn => \A d \in Devices : durable.desired[d] >= registry.desired[d]

(* Steps that tell nobody anything.                                        *)
LEMMA NumberedStay ==
  ASSUME Numbered, NEW t \in Threads, NEW step, NEW r, NEW m, Moves(t, step, r, m),
         torn => torn', reminders' = reminders, registry'.desired = registry.desired,
         \/ step \notin {"notify", "announce"} \/ r \in Reports
         \/ pc[t] \in {"notify", "announce"} /\ r = req[t] /\ m = mine[t]
  PROVE  Numbered'
<1> SUFFICES ASSUME ~torn', NEW d \in Devices PROVE NumberedOf(d)'
  BY DEF Numbered
<1>1. NumberedOf(d)
  BY DEF Numbered
<1>2. \A u \in Threads : Told(u, d)' => Told(u, d) /\ mine'[u] = mine[u]
  BY DEF Moves, Told, Reminding, Busy
<1>3. QED
  BY <1>1, <1>2 DEF NumberedOf

LEMMA NumberedPublish ==
  ASSUME TypeInv, Revisions, Numbered, NEW t \in Threads, Publish(t), req[t] \notin Reports
  PROVE  Numbered'
<1>1. /\ pc[t] = "publish" /\ torn' = torn /\ reminders' = reminders
      /\ Moves(t, IF req[t].kind = "reminder" THEN "notify" ELSE "index", req[t], mine[t])
  BY ServeMoves DEF Publish, historyVars, TypeInv
<1>2. /\ req[t].device \in Devices /\ (req[t] \in Reports <=> req[t].kind # "reminder")
      /\ mine[t] \in Nat
  BY <1>1, Serves DEF Busy
<1>3. /\ pc'[t] = "notify" /\ req'[t] = req[t] /\ mine'[t] = mine[t]
      /\ \A u \in Threads \ {t} : pc'[u] = pc[u] /\ req'[u] = req[u] /\ mine'[u] = mine[u]
  BY <1>1, <1>2 DEF Moves
<1>4. /\ registry.desired \in [Devices -> Nat]
      /\ registry'.desired = [registry.desired EXCEPT ![req[t].device] = mine[t]]
  BY PublishWrites DEF TypeInv, TypeOK, Registry
<1> SUFFICES ASSUME ~torn, NEW d \in Devices PROVE NumberedOf(d)'
  BY <1>1 DEF Numbered
<1>5. NumberedOf(d) /\ RevisionOf(d) /\ registry.desired[d] \in Nat
  BY <1>4 DEF Numbered, Revisions
<1>6. CASE req[t].device # d
  <2>1. registry'.desired[d] = registry.desired[d]
    BY <1>4, <1>6
  <2>2. \A u \in Threads : Told(u, d)' => Told(u, d) /\ mine'[u] = mine[u]
    BY <1>3, <1>6 DEF Told, Reminding, Busy
  <2>3. QED
    BY <1>1, <1>5, <2>1, <2>2 DEF NumberedOf
<1>7. CASE req[t].device = d
  <2>1. mine[t] = registry.desired[d] + 1
    BY <1>1, <1>5, <1>7 DEF RevisionOf, Turn, Reminding, Busy
  <2>2. registry'.desired[d] = mine[t]
    BY <1>4, <1>7
  <2>3. \A i \in 1 .. Len(reminders[d]) :
          reminders[d][i] \in Nat /\ reminders[d][i] <= registry.desired[d]
    <3>1. reminders[d] \in Seq(Nat)
      BY DEF TypeInv, TypeOK
    <3>2. QED
      BY <1>5, <3>1 DEF NumberedOf
  <2>4. \A i \in 1 .. Len(reminders[d]) : reminders[d][i] < mine[t]
    BY <1>5, <2>1, <2>3
  <2>5. ASSUME NEW u \in Threads, u # t, Told(u, d)'
        PROVE  /\ Told(u, d) /\ mine'[u] = mine[u] /\ mine[u] < mine[t] /\ mine[u] \in Nat
    <3>1. Told(u, d) /\ mine'[u] = mine[u]
      BY <1>3, <2>5 DEF Told, Reminding, Busy
    <3>2. mine[u] \in Nat
      BY <3>1, Serves DEF Told, Reminding
    <3>3. mine[u] <= registry.desired[d]
      BY <1>5, <3>1 DEF NumberedOf
    <3>4. QED
      BY <1>5, <2>1, <3>1, <3>2, <3>3
  <2>6. IsInjective(reminders'[d])
    BY <1>1, <1>5 DEF NumberedOf
  <2>7. \A i \in 1 .. Len(reminders'[d]) : reminders'[d][i] <= registry'.desired[d]
    BY <1>1, <1>2, <2>2, <2>3, <2>4
  <2>8. ASSUME NEW u \in Threads, Told(u, d)'
        PROVE  /\ mine'[u] <= registry'.desired[d]
               /\ \A i \in 1 .. Len(reminders'[d]) : reminders'[d][i] # mine'[u]
               /\ \A v \in Threads : Told(v, d)' /\ v # u => mine'[u] # mine'[v]
    <3>1. CASE u = t
      <4>1. mine'[u] = mine[t]
        BY <1>3, <3>1
      <4>2. \A i \in 1 .. Len(reminders'[d]) : reminders'[d][i] # mine'[u]
        BY <1>1, <1>2, <2>3, <2>4, <4>1
      <4>3. \A v \in Threads : Told(v, d)' /\ v # u => mine'[u] # mine'[v]
        BY <1>2, <2>5, <3>1, <4>1
      <4>4. QED
        BY <1>2, <2>2, <4>1, <4>2, <4>3
    <3>2. CASE u # t
      <4>1. Told(u, d) /\ mine'[u] = mine[u] /\ mine[u] < mine[t] /\ mine[u] \in Nat
        BY <2>5, <2>8, <3>2
      <4>2. \A i \in 1 .. Len(reminders'[d]) : reminders'[d][i] # mine'[u]
        BY <1>1, <1>5, <4>1 DEF NumberedOf
      <4>3. ASSUME NEW v \in Threads, Told(v, d)', v # u PROVE mine'[u] # mine'[v]
        <5>1. CASE v = t
          BY <1>2, <1>3, <4>1, <5>1
        <5>2. CASE v # t
          BY <1>5, <2>5, <4>1, <4>3, <5>2 DEF NumberedOf
        <5>3. QED
          BY <5>1, <5>2
      <4>4. QED
        BY <1>2, <2>2, <4>1, <4>2, <4>3
    <3>3. QED
      BY <3>1, <3>2
  <2>9. QED
    BY <2>6, <2>7, <2>8 DEF NumberedOf
<1>8. QED
  BY <1>6, <1>7

LEMMA NumberedAnswer ==
  ASSUME TypeInv, Numbered, NEW t \in Threads, CommitEvent(t), req[t] \notin Reports
  PROVE  Numbered'
<1>1. /\ pc[t] = "announce" /\ torn' = torn /\ registry' = registry
      /\ Moves(t, "idle", None, None) /\ Answer(req[t], mine[t])
  BY ServeMoves DEF CommitEvent, TypeInv
<1>2. /\ req[t].device \in Devices /\ req[t].kind = "reminder" /\ mine[t] \in Nat
  BY <1>1, Serves DEF Busy
<1>3. \A u \in Threads : Told(u, req[t].device)' => u # t
  BY <1>1 DEF Moves, Told, Reminding, Busy
<1>4. \A u \in Threads : u # t => pc'[u] = pc[u] /\ req'[u] = req[u] /\ mine'[u] = mine[u]
  BY <1>1 DEF Moves
<1>5. pc'[t] = "idle"
  BY <1>1 DEF Moves
<1>6. reminders' = [reminders EXCEPT ![req[t].device] = Append(@, mine[t])]
  BY <1>1, <1>2 DEF Answer
<1>7. reminders \in [Devices -> Seq(Nat)]
  BY DEF TypeInv, TypeOK
<1> SUFFICES ASSUME ~torn, NEW d \in Devices PROVE NumberedOf(d)'
  BY <1>1 DEF Numbered
<1>8. NumberedOf(d)
  BY DEF Numbered
<1>9. \A u \in Threads : Told(u, d)' => Told(u, d) /\ u # t /\ mine'[u] = mine[u]
  BY <1>4, <1>5 DEF Told, Reminding, Busy
<1>10. CASE req[t].device # d
  <2>1. reminders'[d] = reminders[d]
    BY <1>6, <1>7, <1>10
  <2>2. QED
    BY <1>1, <1>8, <1>9, <2>1 DEF NumberedOf
<1>11. CASE req[t].device = d
  <2>1. PICK old : old = reminders[d]
    OBVIOUS
  <2>2. PICK new : new = Append(old, mine[t])
    OBVIOUS
  <2>3. old \in Seq(Nat) /\ Len(old) \in Nat
    BY <1>7, <2>1
  <2>4. /\ new \in Seq(Nat) /\ Len(new) = Len(old) + 1
        /\ \A i \in 1 .. Len(old) : new[i] = old[i]
        /\ new[Len(old) + 1] = mine[t]
    BY <1>2, <2>2, <2>3, AppendProperties
  <2>5. reminders'[d] = new
    BY <1>6, <1>7, <1>11, <2>1, <2>2
  <2>6. Told(t, d)
    BY <1>1, <1>2, <1>11 DEF Told, Reminding, Busy
  <2>7. /\ \A i, j \in 1 .. Len(old) : old[i] = old[j] => i = j
        /\ \A i \in 1 .. Len(old) : old[i] <= registry.desired[d] /\ old[i] # mine[t]
        /\ mine[t] <= registry.desired[d]
    BY <1>8, <2>1, <2>3, <2>6 DEF NumberedOf, IsInjective
  <2>8. \A i \in 1 .. Len(new) : i \in 1 .. Len(old) \/ i = Len(old) + 1
    BY <2>3, <2>4
  <2>9. IsInjective(new)
    <3>1. DOMAIN new = 1 .. Len(new)
      BY <2>4
    <3> SUFFICES ASSUME NEW i \in 1 .. Len(new), NEW j \in 1 .. Len(new), new[i] = new[j]
                 PROVE  i = j
      BY <3>1 DEF IsInjective
    <3>2. CASE i \in 1 .. Len(old) /\ j \in 1 .. Len(old)
      <4>1. old[i] = old[j]
        BY <2>4, <3>2
      <4>2. QED
        BY <2>7, <3>2, <4>1
    <3>3. CASE i \in 1 .. Len(old) /\ j = Len(old) + 1
      <4>1. old[i] = mine[t]
        BY <2>4, <3>3
      <4>2. QED
        BY <2>7, <3>3, <4>1
    <3>4. CASE j \in 1 .. Len(old) /\ i = Len(old) + 1
      <4>1. old[j] = mine[t]
        BY <2>4, <3>4
      <4>2. QED
        BY <2>7, <3>4, <4>1
    <3>5. QED
      BY <2>8, <3>2, <3>3, <3>4
  <2>10. \A i \in 1 .. Len(new) : new[i] <= registry.desired[d]
    BY <2>4, <2>7, <2>8
  <2>11. ASSUME NEW u \in Threads, Told(u, d)'
         PROVE  /\ mine'[u] <= registry.desired[d]
                /\ \A i \in 1 .. Len(new) : new[i] # mine'[u]
                /\ \A v \in Threads : Told(v, d)' /\ v # u => mine'[u] # mine'[v]
    <3>1. Told(u, d) /\ u # t /\ mine'[u] = mine[u] /\ mine[u] # mine[t]
      BY <1>8, <1>9, <2>6, <2>11 DEF NumberedOf
    <3>2. \A i \in 1 .. Len(old) : old[i] # mine[u]
      BY <1>8, <2>1, <3>1 DEF NumberedOf
    <3>3. \A i \in 1 .. Len(new) : new[i] # mine'[u]
      BY <2>4, <2>8, <3>1, <3>2
    <3>4. QED
      BY <1>8, <1>9, <3>1, <3>3 DEF NumberedOf
  <2>12. QED
    BY <1>1, <2>5, <2>9, <2>10, <2>11 DEF NumberedOf
<1>12. QED
  BY <1>10, <1>11

LEMMA NumberedInductive ==
  TypeInv /\ Revisions /\ Numbered /\ [Next]_vars => Numbered'
<1> SUFFICES ASSUME TypeInv, Revisions, Numbered, [Next]_vars PROVE Numbered'
  OBVIOUS
<1>1. TypeOK
  BY DEF TypeInv
<1>2. CASE Restart
  <2> SUFFICES ASSUME ~torn', NEW d \in Devices PROVE NumberedOf(d)'
    BY DEF Numbered
  <2>1. reminders' = reminders /\ ~torn /\ registry'.desired = durable.desired
        /\ \A t \in Threads : ~Told(t, d)'
    BY <1>2, RestartLoads DEF Restart, historyVars, Told, Reminding
  <2>2. NumberedOf(d) /\ durable.desired[d] >= registry.desired[d]
    BY <2>1, DurableAhead DEF Numbered
  <2>3. /\ reminders[d] \in Seq(Nat) /\ registry.desired[d] \in Nat
        /\ durable.desired[d] \in Nat
    BY DEF TypeInv, TypeOK, Database, Registry
  <2>4. \A i \in 1 .. Len(reminders[d]) : reminders[d][i] <= durable.desired[d]
    <3> SUFFICES ASSUME NEW i \in 1 .. Len(reminders[d])
                 PROVE  reminders[d][i] <= durable.desired[d]
      OBVIOUS
    <3>1. reminders[d][i] \in Nat /\ reminders[d][i] <= registry.desired[d]
      BY <2>2, <2>3 DEF NumberedOf
    <3>2. QED
      BY <2>2, <2>3, <3>1
  <2>5. QED
    BY <2>1, <2>2, <2>4 DEF NumberedOf
<1>3. CASE UNCHANGED vars
  BY <1>3 DEF vars, threadVars, historyVars, Numbered, NumberedOf, Told, Reminding, Busy
<1>4. ASSUME NEW t \in Threads, Serve(t) PROVE Numbered'
  <2> USE DEF historyVars
  <2>1. ASSUME NEW r \in Requests, Receive(t, r) PROVE Numbered'
    <3>1. Moves(t, "acquire", r, None) \/ Moves(t, "lookup", r, clock + 1)
      BY <1>1, <2>1, ServeMoves
    <3>2. reminders' = reminders /\ registry' = registry /\ torn' = torn
      BY <2>1 DEF Receive
    <3>3. QED
      BY <3>1, <3>2, NumberedStay
  <2>2. CASE Lookup(t)
    <3>1. Moves(t, "persist", req[t], mine[t]) \/ Moves(t, "idle", None, None)
      BY <1>1, <2>2, ServeMoves
    <3>2. registry' = registry /\ torn' = torn /\ pc[t] = "lookup"
      BY <2>2 DEF Lookup
    <3>3. req[t].kind # "reminder"
      BY <3>2, Serves DEF Busy
    <3>4. reminders' = reminders
      BY <2>2, <3>3 DEF Lookup, Answer
    <3>5. QED
      BY <3>1, <3>2, <3>4, NumberedStay
  <2>3. CASE AcquireLock(t)
    <3>1. Moves(t, "read", req[t], mine[t])
      BY <1>1, <2>3, ServeMoves
    <3>2. QED
      BY <2>3, <3>1, NumberedStay DEF AcquireLock
  <2>4. CASE ReadRevision(t)
    <3>1. Moves(t, "persist", req[t], registry.desired[req[t].device] + 1)
      BY <1>1, <2>4, ServeMoves
    <3>2. reminders' = reminders /\ registry' = registry /\ torn' = torn
      BY <2>4 DEF ReadRevision
    <3>3. QED
      BY <3>1, <3>2, NumberedStay
  <2>5. CASE Persist(t)
    <3>1. Moves(t, "commit", req[t], mine[t])
      BY <1>1, <2>5, ServeMoves
    <3>2. reminders' = reminders /\ registry' = registry /\ torn' = torn
      BY <2>5 DEF Persist
    <3>3. QED
      BY <3>1, <3>2, NumberedStay
  <2>6. CASE CommitReport(t)
    <3>1. Moves(t, "publish", req[t], mine[t])
      BY <1>1, <2>6, ServeMoves
    <3>2. QED
      BY <2>6, <3>1, NumberedStay DEF CommitReport
  <2>7. CASE Publish(t)
    <3>1. CASE req[t] \in Reports
      <4>1. registry'.desired = registry.desired
        BY <2>7, <3>1, PublishWrites
      <4>2. \E step : Moves(t, step, req[t], mine[t])
        BY <1>1, <2>7, ServeMoves
      <4>3. reminders' = reminders /\ torn' = torn
        BY <2>7 DEF Publish
      <4>4. QED
        BY <3>1, <4>1, <4>2, <4>3, NumberedStay
    <3>2. QED
      BY <2>7, <3>1, NumberedPublish
  <2>8. CASE IndexReport(t)
    <3>1. Moves(t, "notify", req[t], mine[t])
      BY <1>1, <2>8, ServeMoves
    <3>2. req[t] \in Reports /\ registry'.desired = registry.desired
      BY <2>8, IndexWrites
    <3>3. reminders' = reminders /\ torn' = torn
      BY <2>8 DEF IndexReport
    <3>4. QED
      BY <3>1, <3>2, <3>3, NumberedStay
  <2>9. CASE AppendEvent(t)
    <3>1. Moves(t, "announce", req[t], mine[t])
      BY <1>1, <2>9, ServeMoves
    <3>2. reminders' = reminders /\ registry' = registry /\ torn' = torn /\ pc[t] = "notify"
      BY <2>9 DEF AppendEvent
    <3>3. QED
      BY <3>1, <3>2, NumberedStay
  <2>10. CASE CommitEvent(t)
    <3>1. CASE req[t] \in Reports
      <4>1. Moves(t, "idle", None, None)
        BY <1>1, <2>10, ServeMoves
      <4>2. registry' = registry /\ torn' = torn /\ reminders' = reminders
        BY <2>10, <3>1 DEF CommitEvent, Answer, Reports
      <4>3. QED
        BY <4>1, <4>2, NumberedStay
    <3>2. QED
      BY <2>10, <3>1, NumberedAnswer
  <2>11. CASE WriteFails(t)
    <3>1. Moves(t, "idle", None, None)
      BY <1>1, <2>11, ServeMoves
    <3>2. reminders' = reminders /\ registry' = registry /\ (torn => torn')
      BY <2>11 DEF WriteFails
    <3>3. QED
      BY <3>1, <3>2, NumberedStay
  <2>12. QED
    BY <1>4, <2>1, <2>2, <2>3, <2>4, <2>5, <2>6, <2>7, <2>8, <2>9, <2>10, <2>11 DEF Serve
<1>5. QED
  BY <1>2, <1>3, <1>4 DEF Next

(* What holds however requests overlap.                                    *)
ReportsInv == TypeInv /\ LockHeld /\ OpenExplained /\ Revisions /\ Numbered

LEMMA ReportsInit == Init => ReportsInv
<1> SUFFICES ASSUME Init PROVE ReportsInv
  OBVIOUS
<1>1. TypeInv
  BY TypeInit
<1>2. /\ working = EmptyDatabase /\ durable = EmptyDatabase
      /\ \A d \in Devices : registry.desired[d] = 0 /\ working.desired[d] = 0
      /\ \A t \in Threads : pc[t] = "idle"
  BY EmptyType, LoadType DEF Init, EmptyDatabase
<1>3. LockHeld
  BY <1>2, ReportAssumption DEF Init, LockHeld, Deciding
<1>4. OpenExplained
  BY <1>2 DEF OpenExplained, EmptyDatabase
<1>5. Revisions
  BY <1>2 DEF Revisions, RevisionOf, Stored, Reminding, Busy
<1>6. Numbered
  <2> SUFFICES ASSUME NEW d \in Devices PROVE NumberedOf(d)
    BY DEF Numbered
  <2>1. reminders[d] = <<>> /\ \A t \in Threads : ~Told(t, d)
    BY <1>2 DEF Init, Told
  <2>2. QED
    BY <2>1 DEF NumberedOf, IsInjective
<1>7. QED
  BY <1>1, <1>3, <1>4, <1>5, <1>6 DEF ReportsInv

LEMMA ReportsInvHolds == Spec => []ReportsInv
<1>1. ReportsInv /\ [Next]_vars => ReportsInv'
  BY TypeInductive, LockInductive, OpenInductive, RevisionsInductive, NumberedInductive DEF ReportsInv
<1>2. QED
  BY <1>1, ReportsInit, PTL DEF Spec

(* No two reminders of a device are answered with one revision, however    *)
(* many the owner sends at once, up to a torn transaction.                 *)
THEOREM RevisionsDistinctCorrect == Spec => []RevisionsDistinct
<1>1. ReportsInv => RevisionsDistinct
  BY DEF ReportsInv, Numbered, NumberedOf, RevisionsDistinct
<1>2. QED
  BY <1>1, ReportsInvHolds, PTL

(* The revision that a device polls never goes back, not even when the     *)
(* process restarts, and is never ahead of the tables.                     *)
THEOREM RevisionsGrowCorrect == Spec => RevisionsGrow
<1>1. ReportsInv => TablesAhead
  BY DurableAhead DEF TablesAhead, ReportsInv
<1>2. ASSUME ReportsInv, TablesAhead', [Next]_vars, NEW d \in Devices, ~torn'
      PROVE  /\ registry'.desired[d] >= registry.desired[d]
             /\ durable'.desired[d] >= registry'.desired[d]
  <2>1. /\ TypeInv /\ LockHeld /\ Revisions /\ registry.desired \in [Devices -> Nat]
        /\ registry.desired[d] \in Nat
    BY <1>2 DEF ReportsInv, TypeInv, TypeOK, Registry
  <2>2. CASE registry'.desired = registry.desired
    BY <1>2, <2>1, <2>2 DEF TablesAhead
  <2>3. CASE Restart
    <3>1. ~torn /\ registry'.desired = durable.desired
      BY <1>2, <2>1, <2>3, RestartLoads DEF Restart, historyVars
    <3>2. durable.desired[d] >= registry.desired[d]
      BY <2>1, <3>1, DurableAhead
    <3>3. QED
      BY <1>2, <3>1, <3>2 DEF TablesAhead
  <2>4. ASSUME NEW t \in Threads, Publish(t), req[t] \notin Reports
        PROVE  registry'.desired[d] >= registry.desired[d]
    <3>1. pc[t] = "publish" /\ ~torn
      BY <1>2, <2>4 DEF Publish, historyVars
    <3>2. registry'.desired = [registry.desired EXCEPT ![req[t].device] = mine[t]]
      BY <2>1, <2>4, PublishWrites
    <3>3. req[t].device = d => mine[t] = registry.desired[d] + 1
      BY <2>1, <2>4, <3>1 DEF Revisions, RevisionOf, Turn, Reminding, Busy
    <3>4. QED
      BY <2>1, <3>2, <3>3
  <2>5. ASSUME NEW t \in Threads, Serve(t), ~Publish(t) \/ req[t] \in Reports
        PROVE  registry'.desired = registry.desired
    BY <2>1, <2>5, PublishWrites, IndexWrites
       DEF Serve, Receive, Lookup, AcquireLock, ReadRevision, Persist, CommitReport,
           AppendEvent, CommitEvent, WriteFails
  <2>6. QED
    BY <1>2, <2>2, <2>3, <2>4, <2>5 DEF Next, vars, TablesAhead
<1>3. ASSUME ReportsInv, TablesAhead', [Next]_vars
      PROVE  [\A d \in Devices : ~torn' =>
                /\ registry'.desired[d] >= registry.desired[d]
                /\ durable'.desired[d] >= registry'.desired[d]]_vars
  BY <1>2, <1>3
<1>4. QED
  BY <1>1, <1>3, ReportsInvHolds, PTL DEF RevisionsGrow, Spec

-----------------------------------------------------------------------------
(* Reports that are delivered one at a time.                               *)
LEMMA ApartInductive == TypeInv /\ Apart /\ [Next]_vars => Apart'
<1> SUFFICES ASSUME TypeInv, Apart, [Next]_vars PROVE Apart'
  OBVIOUS
<1>1. TypeOK
  BY DEF TypeInv
<1>2. CASE Restart
  BY <1>2, RestartLoads DEF Apart
<1>3. CASE UNCHANGED vars
  BY <1>3 DEF vars, threadVars, Apart, Busy
<1>4. ASSUME NEW t \in Threads, Serve(t) PROVE Apart'
  <2>1. ASSUME NEW step, NEW m, Busy(t), Moves(t, step, req[t], m) \/ Moves(t, "idle", None, m)
        PROVE  Apart'
    BY <2>1 DEF Moves, Apart, Busy
  <2>2. ASSUME NEW r \in Requests, Receive(t, r) PROVE Apart'
    <3>1. \E step, m : Moves(t, step, r, m)
      BY <1>1, <2>2, ServeMoves
    <3>2. \A u \in Threads : Busy(u) => <<req[u], r>> \in Overlaps
      BY <2>2 DEF Receive, Allowed, Busy
    <3>3. QED
      BY <3>1, <3>2 DEF Moves, Apart, Busy
  <2>3. CASE Busy(t) /\ \A r \in Requests : ~Receive(t, r)
    <3>1. \E step, m : Moves(t, step, req[t], m) \/ Moves(t, "idle", None, m)
      BY <1>1, <1>4, <2>3, ServeMoves DEF Serve
    <3>2. QED
      BY <2>1, <2>3, <3>1
  <2>4. Busy(t) \/ \E r \in Requests : Receive(t, r)
    BY <1>4 DEF Serve, Lookup, AcquireLock, ReadRevision, Persist, CommitReport, Publish,
       IndexReport, AppendEvent, CommitEvent, WriteFails, Busy, Uncommitted
  <2>5. QED
    BY <2>2, <2>3, <2>4
<1>5. QED
  BY <1>2, <1>3, <1>4 DEF Next

LEMMA OneServer ==
  ASSUME OneDelivery, Apart, NEW t \in Threads, NEW u \in Threads, Busy(t), Busy(u),
         req[t] = req[u], req[t] \in Reports
  PROVE  t = u
BY DEF OneDelivery, Apart

(* Steps of a thread that does not serve the report, but may commit.       *)
LEMMA RecordedElsewhere ==
  ASSUME NEW r \in Reports, RecordedOf(r), NEW t \in Threads, req[t] # r \/ ~Busy(t),
         NEW step, NEW q, NEW m, Moves(t, step, q, m), q # r \/ step = "lookup",
         answers'[r] = answers[r], registry'.known[r] = registry.known[r],
         working'.rows[r] = working.rows[r],
         durable'.rows[r] \in {durable.rows[r], working.rows[r]}
  PROVE  RecordedOf(r)'
<1>1. \A u \in Threads \ {t} : pc'[u] = pc[u] /\ req'[u] = req[u] /\ mine'[u] = mine[u]
  BY DEF Moves
<1>2. pc'[t] = step /\ req'[t] = q
  BY DEF Moves
<1>3. ASSUME NEW u \in Threads, Busy(u)', req'[u] = r PROVE InStep(u, r)'
  <2>1. CASE u = t
    BY <1>2, <1>3, <2>1 DEF InStep
  <2>2. CASE u # t
    <3>1. pc'[u] = pc[u] /\ mine'[u] = mine[u] /\ InStep(u, r)
      BY <1>1, <1>3, <2>2 DEF RecordedOf, Busy
    <3>2. QED
      BY <3>1 DEF InStep
  <2>3. QED
    BY <2>1, <2>2
<1>4. (\E u \in Threads : pc[u] \in {"commit", "publish", "index"} /\ req[u] = r) =>
        \E u \in Threads : pc'[u] \in {"commit", "publish", "index"} /\ req'[u] = r
  BY <1>1 DEF Busy
<1>5. QED
  BY <1>3, <1>4 DEF RecordedOf

LEMMA RecordedFail ==
  ASSUME TypeInv, OpenExplained, Apart, OneDelivery, Recorded,
         NEW t \in Threads, WriteFails(t)
  PROVE  Recorded'
<1> SUFFICES ASSUME ~torn', NEW r \in Reports PROVE RecordedOf(r)'
  BY DEF Recorded
<1>1. /\ ~torn /\ working' = durable /\ durable' = durable /\ registry' = registry
      /\ answers' = answers
      /\ \A u \in Threads \ {t} : pc[u] \notin Uncommitted
      /\ working = durable \/ Unsaved(t)
  BY FailureTakesOwn DEF WriteFails
<1>2. Moves(t, "idle", None, None) /\ RecordedOf(r)
  BY <1>1, ServeMoves DEF TypeInv, Recorded
<1>3. r # None
  BY ReportAssumption DEF Reports
<1>4. CASE req[t] # r \/ ~Busy(t)
  <2>1. working.rows[r] = durable.rows[r]
    <3>1. ASSUME NEW u \in Threads, pc[u] \in {"commit", "publish", "index"}, req[u] = r
          PROVE  working.rows[r] = durable.rows[r]
      <4>1. Busy(u) /\ u # t
        BY <1>4, <3>1 DEF Busy
      <4>2. pc[u] \in {"publish", "index"}
        BY <1>1, <3>1, <4>1 DEF Uncommitted
      <4>3. QED
        BY <1>2, <3>1, <4>1, <4>2 DEF RecordedOf, InStep
    <3>2. QED
      BY <1>2, <3>1 DEF RecordedOf
  <2>2. QED
    BY <1>1, <1>2, <1>3, <1>4, <2>1, RecordedElsewhere
<1>5. CASE req[t] = r /\ Busy(t)
  <2>1. durable.rows[r] = registry.known[r]
    <3>1. CASE pc[t] = "commit"
      <4>1. working # durable
        BY <3>1 DEF WriteFails, Uncommitted
      <4>2. durable.rows[r] # mine[t]
        BY <1>1, <1>5, <3>1, <4>1 DEF Unsaved
      <4>3. QED
        BY <1>2, <1>5, <3>1, <4>2 DEF RecordedOf, InStep
    <3>2. CASE pc[t] # "commit"
      <4>1. pc[t] \notin {"commit", "publish", "index"}
        BY <3>2 DEF WriteFails, Uncommitted
      <4>2. ~\E u \in Threads : pc[u] \in {"commit", "publish", "index"} /\ req[u] = r
        BY <1>5, <4>1, OneServer DEF Busy
      <4>3. QED
        BY <1>2, <4>2 DEF RecordedOf
    <3>3. QED
      BY <3>1, <3>2
  <2>2. \A u \in Threads : Busy(u)' => req'[u] # r
    BY <1>2, <1>5, OneServer DEF Moves, Busy
  <2>3. QED
    BY <1>1, <1>2, <2>1, <2>2 DEF RecordedOf
<1>6. QED
  BY <1>4, <1>5

(* Steps of the thread that serves the report.                             *)
LEMMA RecordedServed ==
  ASSUME TypeInv, Apart, OneDelivery, NEW t \in Threads, Serve(t), ~WriteFails(t), Busy(t),
         req[t] \in Reports, RecordedOf(req[t])
  PROVE  \A r \in Reports : r = req[t] => RecordedOf(r)'
<1> SUFFICES ASSUME NEW r \in Reports, r = req[t] PROVE RecordedOf(r)'
  OBVIOUS
<1>1. /\ TypeOK /\ mine[t] \in Stamp /\ mine[t] # None /\ req[t].kind # "reminder" /\ r # None
      /\ pc[t] \notin {"acquire", "read"}
  BY Serves, ReportAssumption DEF TypeInv, Stamp, Reports
<1>2. /\ working.rows \in [Reports -> Stamp \union {None}]
      /\ durable.rows \in [Reports -> Stamp \union {None}]
      /\ registry.known \in [Reports -> Stamp \union {None}]
      /\ answers \in [Reports -> SUBSET Stamp]
  BY <1>1 DEF TypeOK, Database, Registry
<1>3. \A u \in Threads \ {t} : ~(Busy(u) /\ req[u] = r)
  BY OneServer
<1>4. ASSUME NEW step, NEW q, NEW m, Moves(t, step, q, m)
      PROVE  /\ \A u \in Threads \ {t} : ~(Busy(u)' /\ req'[u] = r)
             /\ pc'[t] = step /\ req'[t] = q /\ mine'[t] = m
  BY <1>3, <1>4 DEF Moves, Busy
<1>5. /\ answers[r] \subseteq {registry.known[r]} \ {None}
      /\ InStep(t, r)
      /\ \/ pc[t] \in {"commit", "publish", "index"}
         \/ working.rows[r] = registry.known[r] /\ durable.rows[r] = registry.known[r]
  BY <1>3 DEF RecordedOf, Busy
<1>6. SUFFICES ASSUME ~RecordedOf(r)' PROVE FALSE
  OBVIOUS
<1>7. CASE Lookup(t)
  <2>1. /\ pc[t] = "lookup" /\ working' = working /\ durable' = durable /\ registry' = registry
    BY <1>7 DEF Lookup, connectionVars
  <2>2. CASE registry.known[r] = None
    <3>1. Moves(t, "persist", r, mine[t]) /\ answers' = answers
      BY <1>1, <1>7, <2>2, ServeMoves DEF Lookup
    <3>2. QED
      BY <1>4, <1>5, <1>6, <2>1, <2>2, <3>1 DEF RecordedOf, InStep
  <2>3. CASE registry.known[r] # None
    <3>1. Moves(t, "idle", None, None)
          /\ answers' = [answers EXCEPT ![r] = @ \union {registry.known[r]}]
      BY <1>1, <1>7, <2>3, ServeMoves DEF Lookup, Answer
    <3>2. answers'[r] = answers[r] \union {registry.known[r]}
      BY <1>2, <3>1
    <3>3. QED
      BY <1>1, <1>4, <1>5, <1>6, <2>1, <2>3, <3>1, <3>2 DEF RecordedOf, Busy
  <2>4. QED
    BY <2>2, <2>3
<1>8. CASE Persist(t)
  <2>1. /\ pc[t] = "persist" /\ Moves(t, "commit", r, mine[t]) /\ registry' = registry
        /\ answers' = answers
    BY <1>1, <1>8, ServeMoves DEF Persist, historyVars
  <2>2. durable' = durable /\ working'.rows[r] = mine[t]
    BY <1>2, <1>8, PersistWrites
  <2>3. registry.known[r] = None /\ durable.rows[r] = None
    BY <1>5, <2>1 DEF InStep
  <2>4. InStep(t, r)'
    BY <1>4, <2>1, <2>2, <2>3 DEF InStep
  <2>5. QED
    BY <1>4, <1>5, <1>6, <2>1, <2>4 DEF RecordedOf
<1>9. CASE CommitReport(t)
  <2>1. /\ pc[t] = "commit" /\ Moves(t, "publish", r, mine[t]) /\ registry' = registry
        /\ answers' = answers /\ working' = working /\ durable' = working
    BY <1>1, <1>9, ServeMoves DEF CommitReport, Commit, historyVars
  <2>2. InStep(t, r)'
    BY <1>4, <1>5, <2>1 DEF InStep
  <2>3. QED
    BY <1>4, <1>5, <1>6, <2>1, <2>2 DEF RecordedOf
<1>10. CASE Publish(t)
  <2>1. /\ pc[t] = "publish" /\ Moves(t, "index", r, mine[t])
        /\ answers' = answers /\ working' = working /\ durable' = durable
    BY <1>1, <1>10, ServeMoves DEF Publish, connectionVars, historyVars
  <2>2. registry'.known = registry.known
    BY <1>10, PublishWrites
  <2>3. InStep(t, r)'
    BY <1>4, <1>5, <2>1, <2>2 DEF InStep
  <2>4. QED
    BY <1>4, <1>5, <1>6, <2>1, <2>2, <2>3 DEF RecordedOf
<1>11. CASE IndexReport(t)
  <2>1. /\ pc[t] = "index" /\ Moves(t, "notify", r, mine[t])
        /\ answers' = answers /\ working' = working /\ durable' = durable
    BY <1>1, <1>11, ServeMoves DEF IndexReport, connectionVars, historyVars
  <2>2. registry'.known[r] = mine[t]
    BY <1>2, <1>11, IndexWrites
  <2>3. working.rows[r] = mine[t] /\ durable.rows[r] = mine[t] /\ registry.known[r] = None
    BY <1>5, <2>1 DEF InStep
  <2>4. InStep(t, r)'
    BY <1>4, <2>1, <2>2 DEF InStep
  <2>5. QED
    BY <1>4, <1>5, <1>6, <2>1, <2>2, <2>3, <2>4 DEF RecordedOf
<1>12. CASE AppendEvent(t)
  <2>1. /\ pc[t] = "notify" /\ Moves(t, "announce", r, mine[t])
        /\ answers' = answers /\ registry' = registry
    BY <1>1, <1>12, ServeMoves DEF AppendEvent, historyVars
  <2>2. working'.rows = working.rows /\ durable' = durable
    BY <1>12, AppendEventWrites
  <2>3. InStep(t, r)'
    BY <1>4, <1>5, <2>1, <2>2 DEF InStep
  <2>4. QED
    BY <1>4, <1>5, <1>6, <2>1, <2>2, <2>3 DEF RecordedOf
<1>13. CASE CommitEvent(t)
  <2>1. /\ pc[t] = "announce" /\ Moves(t, "idle", None, None) /\ registry' = registry
        /\ working' = working /\ durable' = working
        /\ answers' = [answers EXCEPT ![r] = @ \union {mine[t]}]
    BY <1>1, <1>13, ServeMoves DEF CommitEvent, Commit, Answer
  <2>2. answers'[r] = answers[r] \union {mine[t]} /\ registry.known[r] = mine[t]
    BY <1>2, <1>5, <2>1 DEF InStep
  <2>3. QED
    BY <1>1, <1>4, <1>5, <1>6, <2>1, <2>2 DEF RecordedOf, Busy
<1>14. QED
  <2>1. \A q \in Requests : ~Receive(t, q)
    BY DEF Receive, Allowed, Busy
  <2>2. ~AcquireLock(t) /\ ~ReadRevision(t)
    BY <1>1 DEF AcquireLock, ReadRevision
  <2>3. QED
    BY <1>7, <1>8, <1>9, <1>10, <1>11, <1>12, <1>13, <2>1, <2>2 DEF Serve

(* What a step does to a report that its thread does not serve.            *)
LEMMA ElsewhereEffects ==
  ASSUME TypeInv, NEW t \in Threads, Serve(t), ~WriteFails(t), NEW r \in Reports,
         req[t] # r \/ ~Busy(t)
  PROVE  /\ torn' = torn /\ answers'[r] = answers[r] /\ registry'.known[r] = registry.known[r]
         /\ working'.rows[r] = working.rows[r] /\ working'.feed[r] = working.feed[r]
         /\ durable'.rows[r] \in {durable.rows[r], working.rows[r]}
         /\ \E step, q, m : Moves(t, step, q, m) /\ (q # r \/ step = "lookup")
<1>1. TypeOK /\ r # None /\ r.kind # "reminder"
  BY ReportAssumption DEF TypeInv, Reports
<1>2. /\ working.rows \in [Reports -> Stamp \union {None}]
      /\ working.feed \in [Requests -> Nat]
      /\ registry.known \in [Reports -> Stamp \union {None}]
      /\ answers \in [Reports -> SUBSET Stamp]
  BY <1>1 DEF TypeOK, Database, Registry
<1>3. ASSUME NEW q, NEW x, q # r, Answer(q, x) PROVE answers'[r] = answers[r]
  BY <1>2, <1>3 DEF Answer
<1> USE DEF connectionVars, historyVars
<1>4. ASSUME NEW q \in Requests, Receive(t, q)
      PROVE  \E step, p, m : Moves(t, step, p, m) /\ (p # r \/ step = "lookup")
  <2>1. CASE q = r
    BY <1>1, <1>4, <2>1, ServeMoves
  <2>2. CASE q # r
    <3>1. Moves(t, "acquire", q, None) \/ Moves(t, "lookup", q, clock + 1)
      BY <1>1, <1>4, ServeMoves
    <3>2. QED
      BY <2>2, <3>1
  <2>3. QED
    BY <2>1, <2>2
<1>5. CASE \E q \in Requests : Receive(t, q)
  <2>1. UNCHANGED <<working, durable, registry, answers, torn>>
    BY <1>5 DEF Receive
  <2>2. QED
    BY <1>4, <1>5, <2>1
<1>6. ASSUME Busy(t), NEW step, NEW m, Moves(t, step, req[t], m) \/ Moves(t, step, None, m)
      PROVE  \E s, p, n : Moves(t, s, p, n) /\ (p # r \/ s = "lookup")
  BY <1>1, <1>6
<1>7. CASE Lookup(t)
  <2>1. UNCHANGED <<working, durable, registry, torn>> /\ Busy(t)
    BY <1>7 DEF Lookup, Busy
  <2>2. Moves(t, "persist", req[t], mine[t]) \/ Moves(t, "idle", None, None)
    BY <1>1, <1>7, ServeMoves
  <2>3. answers'[r] = answers[r]
    BY <1>3, <1>7, <2>1 DEF Lookup
  <2>4. \E step, q, m : Moves(t, step, q, m) /\ (q # r \/ step = "lookup")
    BY <1>6, <2>1, <2>2
  <2>5. QED
    BY <2>1, <2>3, <2>4
<1>8. CASE AcquireLock(t)
  <2>1. UNCHANGED <<working, durable, registry, answers, torn>> /\ Busy(t)
    BY <1>8 DEF AcquireLock, Busy
  <2>2. QED
    BY <1>1, <1>6, <1>8, <2>1, ServeMoves
<1>9. CASE ReadRevision(t)
  <2>1. UNCHANGED <<working, durable, registry, answers, torn>> /\ Busy(t)
    BY <1>9 DEF ReadRevision, Busy
  <2>2. QED
    BY <1>1, <1>6, <1>9, <2>1, ServeMoves
<1>10. CASE Persist(t)
  <2>1. UNCHANGED <<registry, answers, torn>> /\ Busy(t)
    BY <1>10 DEF Persist, Busy
  <2>2. /\ working'.rows[r] = working.rows[r] /\ working'.feed[r] = working.feed[r]
        /\ durable' = durable
    BY <1>2, <1>10, <2>1, PersistWrites
  <2>3. Moves(t, "commit", req[t], mine[t])
    BY <1>1, <1>10, ServeMoves
  <2>4. QED
    BY <1>6, <2>1, <2>2, <2>3
<1>11. CASE CommitReport(t)
  <2>1. UNCHANGED <<registry, answers, torn, working>> /\ durable' = working /\ Busy(t)
    BY <1>11 DEF CommitReport, Commit, Busy
  <2>2. QED
    BY <1>1, <1>6, <1>11, <2>1, ServeMoves
<1>12. CASE Publish(t)
  <2>1. UNCHANGED <<working, durable, answers, torn>> /\ Busy(t)
    BY <1>12 DEF Publish, Busy
  <2>2. registry'.known = registry.known
    BY <1>12, PublishWrites
  <2>3. QED
    BY <1>1, <1>6, <1>12, <2>1, <2>2, ServeMoves
<1>13. CASE IndexReport(t)
  <2>1. UNCHANGED <<working, durable, answers, torn>> /\ Busy(t)
    BY <1>13 DEF IndexReport, Busy
  <2>2. registry'.known[r] = registry.known[r]
    BY <1>2, <1>13, <2>1, IndexWrites
  <2>3. QED
    BY <1>1, <1>6, <1>13, <2>1, <2>2, ServeMoves
<1>14. CASE AppendEvent(t)
  <2>1. UNCHANGED <<registry, answers, torn>> /\ Busy(t)
    BY <1>14 DEF AppendEvent, Busy
  <2>2. /\ working'.rows[r] = working.rows[r] /\ durable' = durable
        /\ working'.feed[r] = working.feed[r]
    BY <1>2, <1>14, <2>1, AppendEventWrites DEF Reports
  <2>3. Moves(t, "announce", req[t], mine[t])
    BY <1>1, <1>14, ServeMoves
  <2>4. QED
    BY <1>6, <2>1, <2>2, <2>3
<1>15. CASE CommitEvent(t)
  <2>1. UNCHANGED <<registry, torn, working>> /\ durable' = working /\ Busy(t)
    BY <1>15 DEF CommitEvent, Commit, Busy
  <2>2. answers'[r] = answers[r]
    BY <1>3, <1>15, <2>1 DEF CommitEvent
  <2>3. Moves(t, "idle", None, None)
    BY <1>1, <1>15, ServeMoves
  <2>4. QED
    BY <1>6, <2>1, <2>2, <2>3
<1>16. QED
  BY <1>5, <1>7, <1>8, <1>9, <1>10, <1>11, <1>12, <1>13, <1>14, <1>15 DEF Serve

LEMMA ServedTorn ==
  ASSUME NEW t \in Threads, Serve(t), ~WriteFails(t)
  PROVE  torn' = torn
BY DEF Serve, Receive, Lookup, AcquireLock, ReadRevision, Persist, CommitReport, Publish,
   IndexReport, AppendEvent, CommitEvent, historyVars

LEMMA RecordedInductive ==
  OneDelivery /\ TypeInv /\ OpenExplained /\ Apart /\ Recorded /\ [Next]_vars => Recorded'
<1> SUFFICES ASSUME OneDelivery, TypeInv, OpenExplained, Apart, Recorded, [Next]_vars
             PROVE  Recorded'
  OBVIOUS
<1>1. CASE Restart
  <2> SUFFICES ASSUME ~torn', NEW r \in Reports PROVE RecordedOf(r)'
    BY DEF Recorded
  <2>1. /\ ~torn /\ answers' = answers /\ working' = durable /\ durable' = durable
        /\ registry'.known = durable.rows /\ \A t \in Threads : ~Busy(t)'
    BY <1>1, RestartLoads DEF Restart, historyVars
  <2>2. RecordedOf(r)
    BY <2>1 DEF Recorded
  <2>3. registry.known[r] # None => durable.rows[r] = registry.known[r]
    BY <2>2 DEF RecordedOf, InStep, Busy
  <2>4. answers[r] \subseteq {durable.rows[r]} \ {None}
    BY <2>2, <2>3 DEF RecordedOf
  <2>5. QED
    BY <2>1, <2>4 DEF RecordedOf
<1>2. CASE UNCHANGED vars
  BY <1>2 DEF vars, connectionVars, threadVars, historyVars, Recorded, RecordedOf, InStep, Busy
<1>3. ASSUME NEW t \in Threads, Serve(t) PROVE Recorded'
  <2>1. CASE WriteFails(t)
    BY <2>1, RecordedFail
  <2>2. CASE ~WriteFails(t)
    <3> SUFFICES ASSUME ~torn', NEW r \in Reports PROVE RecordedOf(r)'
      BY DEF Recorded
    <3>1. RecordedOf(r)
      BY <1>3, <2>2, ServedTorn DEF Recorded
    <3>2. CASE Busy(t) /\ req[t] = r
      BY <1>3, <2>2, <3>1, <3>2, RecordedServed
    <3>3. CASE req[t] # r \/ ~Busy(t)
      BY <1>3, <2>2, <3>1, <3>3, ElsewhereEffects, RecordedElsewhere
    <3>4. QED
      BY <3>2, <3>3
  <2>3. QED
    BY <2>1, <2>2
<1>4. QED
  BY <1>1, <1>2, <1>3 DEF Next

LEMMA AnnouncedInductive ==
  OneDelivery /\ TypeInv /\ OpenExplained /\ Apart /\ Recorded /\ Announced /\ [Next]_vars
    => Announced'
<1> SUFFICES ASSUME OneDelivery, TypeInv, OpenExplained, Apart, Recorded, Announced, [Next]_vars
             PROVE  Announced'
  OBVIOUS
<1>1. /\ TypeOK /\ working.feed \in [Requests -> Nat] /\ durable.feed \in [Requests -> Nat]
      /\ \A r \in Requests : durable.feed[r] <= working.feed[r]
  BY DEF TypeInv, TypeOK, Database, OpenExplained
<1>2. CASE Restart
  <2> SUFFICES ASSUME ~torn', NEW r \in Reports PROVE AnnouncedOf(r)'
    BY DEF Announced
  <2>1. /\ ~torn /\ working' = durable /\ registry'.known = durable.rows
        /\ \A t \in Threads : ~Busy(t)'
    BY <1>2, RestartLoads DEF Restart, historyVars
  <2>2. RecordedOf(r) /\ AnnouncedOf(r) /\ r \in Requests
    BY <2>1 DEF Recorded, Announced, Reports
  <2>3. durable.rows[r] = None => registry.known[r] = None
    BY <2>2 DEF RecordedOf, InStep, Busy
  <2>4. /\ working.feed[r] \in Nat /\ durable.feed[r] \in Nat
        /\ durable.feed[r] <= working.feed[r]
    BY <1>1, <2>2
  <2>5. durable.feed[r] <= 1 /\ (durable.rows[r] = None => durable.feed[r] = 0)
    BY <2>2, <2>3, <2>4 DEF AnnouncedOf
  <2>6. QED
    BY <2>1, <2>5 DEF AnnouncedOf, Busy
<1>3. CASE UNCHANGED vars
  BY <1>3 DEF vars, connectionVars, threadVars, historyVars, Announced, AnnouncedOf
<1>4. ASSUME NEW t \in Threads, Serve(t) PROVE Announced'
  <2> SUFFICES ASSUME ~torn', NEW r \in Reports PROVE AnnouncedOf(r)'
    BY DEF Announced
  <2>1. CASE WriteFails(t)
    <3>1. ~torn /\ working' = durable /\ registry' = registry /\ Moves(t, "idle", None, None)
      BY <1>1, <2>1, FailureTakesOwn, ServeMoves DEF WriteFails
    <3>2. AnnouncedOf(r) /\ r \in Requests
      BY <3>1 DEF Announced, Reports
    <3>3. /\ working.feed[r] \in Nat /\ durable.feed[r] \in Nat
          /\ durable.feed[r] <= working.feed[r]
      BY <1>1, <3>2
    <3>4. \A u \in Threads : pc'[u] = "notify" /\ req'[u] = r => pc[u] = "notify" /\ req[u] = r
      BY <3>1 DEF Moves
    <3>5. QED
      BY <3>1, <3>2, <3>3, <3>4 DEF AnnouncedOf
  <2>2. CASE ~WriteFails(t)
    <3>1. AnnouncedOf(r) /\ RecordedOf(r) /\ r \in Requests
      BY <1>4, <2>2, ServedTorn DEF Announced, Recorded, Reports
    <3>2. CASE req[t] # r \/ ~Busy(t)
      <4>1. /\ registry'.known[r] = registry.known[r] /\ working'.feed[r] = working.feed[r]
            /\ \E step, q, m : Moves(t, step, q, m) /\ (q # r \/ step = "lookup")
        BY <1>4, <2>2, <3>2, ElsewhereEffects
      <4>2. \A u \in Threads : pc'[u] = "notify" /\ req'[u] = r => pc[u] = "notify" /\ req[u] = r
        BY <4>1 DEF Moves
      <4>3. QED
        BY <3>1, <4>1, <4>2 DEF AnnouncedOf
    <3>3. CASE req[t] = r /\ Busy(t)
      <4>1. req[t] \in Reports /\ req[t].kind # "reminder" /\ pc[t] \notin {"acquire", "read"}
            /\ mine[t] # None
        BY <3>3, Serves, ReportAssumption DEF Stamp
      <4>2. \A u \in Threads \ {t} : ~(Busy(u) /\ req[u] = r)
        BY <3>3, <4>1, OneServer
      <4>3. CASE AppendEvent(t)
        <5>1. pc[t] = "notify" /\ Moves(t, "announce", r, mine[t]) /\ registry' = registry
          BY <1>1, <3>3, <4>3, ServeMoves DEF AppendEvent
        <5>2. registry.known[r] = mine[t] /\ working.feed[r] = 0
          BY <3>1, <3>3, <5>1 DEF RecordedOf, InStep, AnnouncedOf
        <5>3. working'.feed[r] = 1
          <6>1. working'.feed = [working.feed EXCEPT ![r] = working.feed[r] + 1]
            BY <3>3, <4>3, AppendEventWrites
          <6>2. QED
            BY <1>1, <3>1, <5>2, <6>1
        <5>4. \A u \in Threads : ~(pc'[u] = "notify" /\ req'[u] = r)
          BY <4>2, <5>1 DEF Moves, Busy
        <5>5. QED
          BY <4>1, <5>1, <5>2, <5>3, <5>4 DEF AnnouncedOf
      <4>4. CASE IndexReport(t)
        <5>1. pc[t] = "index" /\ working' = working
          BY <4>4 DEF IndexReport, connectionVars
        <5>2. registry.known[r] = None /\ working.feed[r] = 0
          BY <3>1, <3>3, <5>1 DEF RecordedOf, InStep, AnnouncedOf
        <5>3. QED
          BY <5>1, <5>2 DEF AnnouncedOf
      <4>5. ASSUME working'.feed = working.feed, registry'.known = registry.known,
                   NEW step, NEW q, NEW m, Moves(t, step, q, m), step # "notify"
            PROVE  AnnouncedOf(r)'
        BY <3>1, <4>5 DEF AnnouncedOf, Moves
      <4>6. CASE Lookup(t)
        BY <1>1, <4>5, <4>6, ServeMoves DEF Lookup, connectionVars
      <4>7. CASE Persist(t)
        <5>1. registry' = registry /\ working'.feed = working.feed
              /\ Moves(t, "commit", req[t], mine[t])
          BY <1>1, <4>7, PersistWrites, ServeMoves DEF Persist
        <5>2. QED
          BY <4>5, <5>1
      <4>8. CASE CommitReport(t)
        BY <1>1, <4>5, <4>8, ServeMoves DEF CommitReport, Commit
      <4>9. CASE Publish(t)
        <5>1. registry'.known = registry.known /\ working' = working
              /\ Moves(t, "index", req[t], mine[t])
          BY <1>1, <4>1, <4>9, PublishWrites, ServeMoves DEF Publish, connectionVars
        <5>2. QED
          BY <4>5, <5>1
      <4>10. CASE CommitEvent(t)
        BY <1>1, <4>5, <4>10, ServeMoves DEF CommitEvent, Commit
      <4>11. ~AcquireLock(t) /\ ~ReadRevision(t) /\ \A q \in Requests : ~Receive(t, q)
        BY <3>3, <4>1 DEF AcquireLock, ReadRevision, Receive, Allowed, Busy
      <4>12. QED
        BY <1>4, <2>2, <4>3, <4>4, <4>6, <4>7, <4>8, <4>9, <4>10, <4>11 DEF Serve
    <3>4. QED
      BY <3>2, <3>3
  <2>3. QED
    BY <2>1, <2>2
<1>5. QED
  BY <1>2, <1>3, <1>4 DEF Next

DeliveryInv == Apart /\ Recorded /\ Announced

LEMMA DeliveryInit == Init => DeliveryInv
<1> SUFFICES ASSUME Init PROVE DeliveryInv
  OBVIOUS
<1>1. /\ \A r \in Reports : /\ working.rows[r] = None /\ durable.rows[r] = None
                            /\ registry.known[r] = None /\ working.feed[r] = 0
                            /\ answers[r] = {}
      /\ \A t \in Threads : pc[t] = "idle"
  BY EmptyType, LoadType DEF Init, EmptyDatabase, Reports
<1>2. QED
  BY <1>1 DEF DeliveryInv, Apart, Recorded, RecordedOf, Announced, AnnouncedOf, Busy

(* However often a report is delivered, with whatever contents, across     *)
(* failures and restarts: if no report is delivered twice at once, every   *)
(* answer gives the same report, it is the one in the tables, and the feed *)
(* announces it at most once.                                              *)
THEOREM DeliveredOnceCorrect ==
  ASSUME OneDelivery
  PROVE  Spec => []DeliveredOnce
<1>1. ReportsInv /\ DeliveryInv /\ [Next]_vars => DeliveryInv'
  BY ApartInductive, RecordedInductive, AnnouncedInductive DEF ReportsInv, DeliveryInv
<1>2. ReportsInv /\ DeliveryInv => DeliveredOnce
  <2> SUFFICES ASSUME ReportsInv, DeliveryInv, ~torn, NEW r \in Reports
               PROVE  /\ durable.feed[r] <= 1
                      /\ \A x \in answers[r] : durable.rows[r] = x
    BY DEF DeliveredOnce
  <2>1. RecordedOf(r) /\ AnnouncedOf(r) /\ r \in Requests
    BY DEF DeliveryInv, Recorded, Announced, Reports
  <2>2. working.feed[r] \in Nat /\ durable.feed[r] \in Nat /\ durable.feed[r] <= working.feed[r]
    BY <2>1 DEF ReportsInv, TypeInv, TypeOK, Database, OpenExplained
  <2>3. durable.feed[r] <= 1
    BY <2>1, <2>2 DEF AnnouncedOf
  <2>4. registry.known[r] # None => durable.rows[r] = registry.known[r]
    BY <2>1 DEF RecordedOf, InStep, Busy
  <2>5. QED
    BY <2>1, <2>3, <2>4 DEF RecordedOf
<1>3. QED
  BY <1>1, <1>2, DeliveryInit, ReportsInvHolds, PTL DEF Spec

-----------------------------------------------------------------------------
(* The lists of the devices, and what a restart makes of the tables.       *)
LEMMA AtATimeDelivers == OneAtATime => OneDelivery
BY DEF OneAtATime, OneDelivery

LEMMA OneOfKind ==
  ASSUME OneAtATime, Apart, NEW t \in Threads, NEW u \in Threads, Busy(t), Busy(u),
         req[t] \in Reports, req[u] \in Reports,
         req[t].kind = req[u].kind, req[t].device = req[u].device
  PROVE  t = u
BY DEF OneAtATime, Apart

LEMMA PublishedType ==
  ASSUME TypeInv, NEW kind, NEW d
  PROVE  /\ Published(kind, d) \in SUBSET Stamp
         /\ Published(kind, d) \in SUBSET Nat /\ IsFiniteSet(Published(kind, d))
         /\ \A x \in Published(kind, d) : x \in Nat /\ x <= clock
<1>1. \A r \in ReportsOf(kind, d) : registry.known[r] \in (1 .. clock) \union {None}
  BY DEF TypeInv, Begun, ReportsOf
<1>2. ASSUME NEW t \in Threads, pc[t] = "index" PROVE mine[t] \in 1 .. clock
  BY <1>2, Serves DEF Busy
<1>3. clock \in Nat /\ 1 .. clock \subseteq Stamp
  BY ReportAssumption DEF TypeInv, TypeOK, Stamp
<1>4. Published(kind, d) \subseteq 1 .. clock
  BY <1>1, <1>2 DEF Published
<1>5. QED
  BY <1>3, <1>4, StampsFinite

(* Published changes only where a report is listed.                        *)
LEMMA PublishedStays ==
  ASSUME TypeInv, NEW t \in Threads, NEW step, NEW q, NEW m, Moves(t, step, q, m),
         registry'.known = registry.known, pc[t] # "index", step # "index"
  PROVE  \A kind, d : Published(kind, d)' = Published(kind, d)
<1> SUFFICES ASSUME NEW kind, NEW d PROVE Published(kind, d)' = Published(kind, d)
  OBVIOUS
<1>1. \A u \in Threads : /\ pc'[u] = "index" <=> pc[u] = "index"
                         /\ pc[u] = "index" => req'[u] = req[u] /\ mine'[u] = mine[u]
  BY DEF Moves
<1>2. QED
  BY <1>1 DEF Published

LEMMA PublishAdds ==
  ASSUME TypeInv, NEW t \in Threads, Publish(t)
  PROVE  \A kind, d : Published(kind, d)' =
           IF req[t] \in ReportsOf(kind, d) THEN Published(kind, d) \union {mine[t]}
                                           ELSE Published(kind, d)
<1>1. /\ pc[t] = "publish" /\ registry'.known = registry.known
      /\ Moves(t, IF req[t].kind = "reminder" THEN "notify" ELSE "index", req[t], mine[t])
  BY PublishWrites, ServeMoves DEF Publish, TypeInv
<1>2. \A kind, d : req[t] \in ReportsOf(kind, d) => req[t].kind # "reminder"
  BY DEF ReportsOf, Reports
<1>3. \A kind, d : req[t] \in ReportsOf(kind, d) => pc'[t] = "index"
  BY <1>1, <1>2 DEF Moves
<1>4. req'[t] = req[t] /\ mine'[t] = mine[t]
      /\ \A u \in Threads \ {t} : pc'[u] = pc[u] /\ req'[u] = req[u] /\ mine'[u] = mine[u]
  BY <1>1 DEF Moves
<1> SUFFICES ASSUME NEW kind, NEW d
             PROVE  Published(kind, d)' =
                      IF req[t] \in ReportsOf(kind, d) THEN Published(kind, d) \union {mine[t]}
                                                      ELSE Published(kind, d)
  OBVIOUS
<1> DEFINE At == {u \in Threads : pc[u] = "index" /\ req[u] \in ReportsOf(kind, d)}
<1>5. CASE req[t] \in ReportsOf(kind, d)
  <2>1. At' = At \union {t} /\ t \notin At
    BY <1>1, <1>3, <1>4, <1>5
  <2>2. {mine'[u] : u \in At'} = {mine[u] : u \in At} \union {mine[t]}
    BY <1>4, <2>1
  <2>3. QED
    BY <1>1, <1>5, <2>2 DEF Published
<1>6. CASE req[t] \notin ReportsOf(kind, d)
  <2>1. At' = At /\ t \notin At
    BY <1>1, <1>4, <1>6
  <2>2. {mine'[u] : u \in At'} = {mine[u] : u \in At}
    BY <1>4, <2>1
  <2>3. QED
    BY <1>1, <1>6, <2>2 DEF Published
<1>7. QED
  BY <1>5, <1>6

LEMMA IndexKeeps ==
  ASSUME TypeInv, NEW t \in Threads, IndexReport(t), registry.known[req[t]] = None
  PROVE  \A kind, d : Published(kind, d)' = Published(kind, d)
<1>1. /\ pc[t] = "index" /\ req[t] \in Reports
      /\ registry'.known = [registry.known EXCEPT ![req[t]] = mine[t]]
      /\ registry.known \in [Reports -> Stamp \union {None}]
      /\ Moves(t, "notify", req[t], mine[t])
  BY IndexWrites, ServeMoves DEF IndexReport, TypeInv, TypeOK, Registry
<1>2. mine[t] \in Stamp /\ mine[t] # None
  BY <1>1, Serves, ReportAssumption DEF Busy, Stamp
<1>3. pc'[t] = "notify"
      /\ \A u \in Threads \ {t} : pc'[u] = pc[u] /\ req'[u] = req[u] /\ mine'[u] = mine[u]
  BY <1>1 DEF Moves
<1> SUFFICES ASSUME NEW kind, NEW d PROVE Published(kind, d)' = Published(kind, d)
  OBVIOUS
<1> DEFINE At == {u \in Threads : pc[u] = "index" /\ req[u] \in ReportsOf(kind, d)}
           Known == {registry.known[r] : r \in ReportsOf(kind, d)} \ {None}
<1>4. ReportsOf(kind, d) \subseteq Reports
  BY DEF ReportsOf
<1>5. CASE req[t] \in ReportsOf(kind, d)
  <2>1. At' = At \ {t} /\ t \in At
    BY <1>1, <1>3, <1>5
  <2>2. {mine[u] : u \in At} = {mine'[u] : u \in At'} \union {mine[t]}
    BY <1>3, <2>1
  <2>3. Known' = Known \union {mine[t]}
    <3>1. \A r \in ReportsOf(kind, d) : registry'.known[r] =
            IF r = req[t] THEN mine[t] ELSE registry.known[r]
      BY <1>1, <1>4
    <3>2. QED
      BY <1>2, <1>5, <3>1
  <2>4. QED
    BY <2>2, <2>3 DEF Published
<1>6. CASE req[t] \notin ReportsOf(kind, d)
  <2>1. At' = At /\ t \notin At
    BY <1>1, <1>3, <1>6
  <2>2. {mine'[u] : u \in At'} = {mine[u] : u \in At}
    BY <1>3, <2>1
  <2>3. Known' = Known
    <3>1. \A r \in ReportsOf(kind, d) : registry'.known[r] = registry.known[r]
      BY <1>1, <1>4, <1>6
    <3>2. QED
      BY <3>1
  <2>4. QED
    BY <2>2, <2>3 DEF Published
<1>7. QED
  BY <1>5, <1>6

(* Steps that list nothing.                                                *)
LEMMA ListsStay ==
  ASSUME TypeInv, Younger, Listed, NEW t \in Threads,
         NEW step, NEW q, NEW m, Moves(t, step, q, m), torn => torn',
         \A kind, d : Published(kind, d)' = Published(kind, d),
         registry'.latest = registry.latest, registry'.events = registry.events,
         \/ step \notin {"lookup", "persist", "commit", "publish"} \/ q \notin Reports
         \/ step = "lookup" /\ m = clock + 1
         \/ pc[t] \in {"lookup", "persist", "commit"} /\ q = req[t] /\ m = mine[t]
  PROVE  Younger' /\ Listed'
<1> SUFFICES ASSUME ~torn' PROVE Younger' /\ Listed'
  BY DEF Younger, Listed
<1>1. Listed'
  BY DEF Listed, ListedOf
<1>2. ASSUME NEW u \in Threads PROVE YoungerOf(u)'
  <2>1. YoungerOf(u)
    BY DEF Younger
  <2> SUFFICES ASSUME pc'[u] \in {"lookup", "persist", "commit", "publish"},
                      NEW kind \in {"heartbeat", "event"}, NEW d \in Devices,
                      req'[u] \in ReportsOf(kind, d), NEW x \in Published(kind, d)'
               PROVE  x < mine'[u]
    BY DEF YoungerOf
  <2>2. x \in Published(kind, d) /\ req'[u] \in Reports
    BY DEF ReportsOf
  <2>3. CASE pc[u] \in {"lookup", "persist", "commit", "publish"} /\ req'[u] = req[u]
             /\ mine'[u] = mine[u]
    BY <2>1, <2>2, <2>3 DEF YoungerOf
  <2>4. CASE u = t /\ step = "lookup" /\ m = clock + 1
    <3>1. mine'[u] = clock + 1 /\ x \in Nat /\ x <= clock /\ clock \in Nat
      BY <2>2, <2>4, PublishedType DEF Moves, TypeInv, TypeOK
    <3>2. QED
      BY <3>1
  <2>5. CASE u = t
    <3>1. pc'[u] = step /\ req'[u] = q /\ mine'[u] = m
      BY <2>5 DEF Moves
    <3>2. QED
      BY <2>2, <2>3, <2>4, <2>5, <3>1
  <2>6. CASE u # t
    BY <2>3, <2>6 DEF Moves
  <2>7. QED
    BY <2>5, <2>6
<1>3. QED
  BY <1>1, <1>2 DEF Younger

LEMMA ListsPublish ==
  ASSUME OneAtATime, TypeInv, Apart, Younger, Listed, ~torn, NEW t \in Threads, Publish(t)
  PROVE  Younger' /\ Listed'
<1>1. /\ pc[t] = "publish" /\ Busy(t) /\ req[t] \in Requests /\ req[t].device \in Devices
      /\ req[t] \in Reports <=> req[t].kind # "reminder"
      /\ req[t] \in Reports => req[t].kind \in {"heartbeat", "event"}
      /\ req[t] \in Reports => mine[t] \in Nat
  BY Serves, RequestFields DEF Publish, Busy, Stamp
<1>2. Moves(t, IF req[t].kind = "reminder" THEN "notify" ELSE "index", req[t], mine[t])
  BY ServeMoves DEF TypeInv
<1>3. CASE req[t] \notin Reports
  <2>1. /\ registry'.latest = registry.latest /\ registry'.events = registry.events
        /\ registry'.known = registry.known
    BY <1>3, PublishWrites
  <2>2. Moves(t, "notify", req[t], mine[t])
    BY <1>1, <1>2, <1>3
  <2>3. \A kind, d : Published(kind, d)' = Published(kind, d)
    BY <1>1, <2>1, <2>2, PublishedStays
  <2>4. QED
    BY <2>1, <2>2, <2>3, ListsStay
<1>4. CASE req[t] \in Reports
  <2> DEFINE k == req[t].kind
             e == req[t].device
  <2>1. \A kind, d : Published(kind, d)' =
          IF kind = k /\ d = e THEN Published(kind, d) \union {mine[t]} ELSE Published(kind, d)
    BY <1>4, PublishAdds DEF ReportsOf
  <2>2. \A x \in Published(k, e) : x < mine[t]
    BY <1>1, <1>4, RequestFields DEF Younger, YoungerOf
  <2>3. Published(k, e) \in SUBSET Nat /\ IsFiniteSet(Published(k, e))
    BY PublishedType
  <2>4. /\ InOrder(Published(k, e) \union {mine[t]}) = Append(InOrder(Published(k, e)), mine[t])
        /\ Newest(Published(k, e) \union {mine[t]}) = mine[t]
    BY <1>1, <1>4, <2>2, <2>3, YoungerIsLast
  <2>5. Younger'
    <3> SUFFICES ASSUME NEW u \in Threads, pc'[u] \in {"lookup", "persist", "commit", "publish"},
                        NEW kind \in {"heartbeat", "event"}, NEW d \in Devices,
                        req'[u] \in ReportsOf(kind, d), NEW x \in Published(kind, d)'
                 PROVE  x < mine'[u]
      BY DEF Younger, YoungerOf
    <3>1. /\ u # t /\ pc[u] \in {"lookup", "persist", "commit", "publish"}
          /\ req'[u] = req[u] /\ mine'[u] = mine[u]
          /\ req[u] \in Reports /\ req[u].kind = kind /\ req[u].device = d
      BY <1>1, <1>2, <1>4 DEF Moves, ReportsOf
    <3>2. ~(kind = k /\ d = e)
      BY <1>1, <1>4, <3>1, OneOfKind DEF Busy
    <3>3. x \in Published(kind, d)
      BY <2>1, <3>1, <3>2
    <3>4. QED
      BY <3>1, <3>3 DEF Younger, YoungerOf
  <2>6. ASSUME NEW d \in Devices PROVE ListedOf(d)'
    <3>1. ListedOf(d)
      BY DEF Listed
    <3>2. /\ registry.latest \in [Devices -> Stamp \union {None}]
          /\ registry.events \in [Devices -> Seq(Stamp)]
      BY DEF TypeInv, TypeOK, Registry
    <3>3. CASE k = "heartbeat"
      <4>1. /\ registry'.latest = [registry.latest EXCEPT ![e] = mine[t]]
            /\ registry'.events = registry.events
        BY <3>3, PublishWrites
      <4>2. Published("event", d)' = Published("event", d)
        BY <2>1, <3>3
      <4>3. CASE d = e
        <5>1. Published("heartbeat", d)' = Published(k, e) \union {mine[t]}
          BY <2>1, <3>3, <4>3
        <5>2. registry'.latest[d] = mine[t]
          BY <1>1, <3>2, <4>1, <4>3
        <5>3. QED
          BY <2>4, <3>1, <4>1, <4>2, <5>1, <5>2 DEF ListedOf
      <4>4. CASE d # e
        <5>1. Published("heartbeat", d)' = Published("heartbeat", d)
          BY <2>1, <4>4
        <5>2. registry'.latest[d] = registry.latest[d]
          BY <3>2, <4>1, <4>4
        <5>3. QED
          BY <3>1, <4>1, <4>2, <5>1, <5>2 DEF ListedOf
      <4>5. QED
        BY <4>3, <4>4
    <3>4. CASE k = "event"
      <4>1. /\ registry'.events = [registry.events EXCEPT ![e] = Append(registry.events[e], mine[t])]
            /\ registry'.latest = registry.latest
        BY <3>4, PublishWrites
      <4>2. Published("heartbeat", d)' = Published("heartbeat", d)
        BY <2>1, <3>4
      <4>3. CASE d = e
        <5>1. Published("event", d)' = Published(k, e) \union {mine[t]}
          BY <2>1, <3>4, <4>3
        <5>2. registry'.events[d] = Append(registry.events[d], mine[t])
          BY <1>1, <3>2, <4>1, <4>3
        <5>3. registry.events[d] = InOrder(Published(k, e))
          BY <3>1, <3>4, <4>3 DEF ListedOf
        <5>4. QED
          BY <2>4, <3>1, <4>1, <4>2, <5>1, <5>2, <5>3 DEF ListedOf
      <4>4. CASE d # e
        <5>1. Published("event", d)' = Published("event", d)
          BY <2>1, <4>4
        <5>2. registry'.events[d] = registry.events[d]
          BY <3>2, <4>1, <4>4
        <5>3. QED
          BY <3>1, <4>1, <4>2, <5>1, <5>2 DEF ListedOf
      <4>5. QED
        BY <4>3, <4>4
    <3>5. QED
      BY <1>1, <1>4, <3>3, <3>4
  <2>7. QED
    BY <2>5, <2>6 DEF Listed
<1>5. QED
  BY <1>3, <1>4

(* A restart loads the lists anew.                                         *)
LEMMA ListsLoaded ==
  ASSUME TypeInv, Restart
  PROVE  Younger' /\ Listed'
<1>1. /\ \A u \in Threads : pc'[u] = "idle"
      /\ registry' = Load(durable) /\ registry'.known = durable.rows
  BY RestartLoads DEF Restart
<1>2. \A kind, d : Published(kind, d)' = StampsOf(durable, kind, d)
  <2> SUFFICES ASSUME NEW kind, NEW d PROVE Published(kind, d)' = StampsOf(durable, kind, d)
    OBVIOUS
  <2>1. {u \in Threads : pc'[u] = "index" /\ req'[u] \in ReportsOf(kind, d)} = {}
    BY <1>1
  <2>2. QED
    BY <1>1, <2>1 DEF Published, StampsOf
<1>3. ASSUME NEW d \in Devices PROVE ListedOf(d)'
  BY <1>1, <1>2, <1>3 DEF ListedOf, Load
<1>4. QED
  BY <1>1, <1>3 DEF Younger, YoungerOf, Listed

LEMMA ListsInductive ==
  OneAtATime /\ TypeInv /\ Apart /\ Recorded /\ Younger /\ Listed /\ [Next]_vars
    => Younger' /\ Listed'
<1> SUFFICES ASSUME OneAtATime, TypeInv, Apart, Recorded, Younger, Listed, [Next]_vars
             PROVE  Younger' /\ Listed'
  OBVIOUS
<1>1. CASE UNCHANGED vars
  <2>1. UNCHANGED <<registry, pc, req, mine, torn>>
    BY <1>1 DEF vars, threadVars, historyVars
  <2>2. \A kind, d : Published(kind, d)' = Published(kind, d)
    BY <2>1 DEF Published
  <2>3. \A u \in Threads : YoungerOf(u) => YoungerOf(u)'
    BY <2>1, <2>2 DEF YoungerOf
  <2>4. \A d \in Devices : ListedOf(d) => ListedOf(d)'
    BY <2>1, <2>2 DEF ListedOf
  <2>5. QED
    BY <2>1, <2>3, <2>4 DEF Younger, Listed
<1>2. ASSUME NEW t \in Threads, Serve(t) PROVE Younger' /\ Listed'
  <2>1. CASE torn'
    BY <2>1 DEF Younger, Listed
  <2>2. CASE ~torn'
    <3>1. ~torn
      BY <1>2, <2>2, ServedTorn DEF WriteFails
    <3>2. TypeOK
      BY DEF TypeInv
    <3>3. CASE Publish(t)
      BY <3>1, <3>3, ListsPublish
    <3>4. CASE IndexReport(t)
      <4>1. pc[t] = "index" /\ req[t] \in Reports /\ registry'.latest = registry.latest
            /\ registry'.events = registry.events /\ Moves(t, "notify", req[t], mine[t])
        BY <3>2, <3>4, IndexWrites, ServeMoves DEF IndexReport
      <4>2. registry.known[req[t]] = None
        BY <3>1, <4>1 DEF Recorded, RecordedOf, InStep, Busy
      <4>3. \A kind, d : Published(kind, d)' = Published(kind, d)
        BY <3>4, <4>2, IndexKeeps
      <4>4. QED
        BY <3>1, <4>1, <4>3, ListsStay
    <3>5. CASE ~Publish(t) /\ ~IndexReport(t)
      <4>1. registry' = registry
        BY <1>2, <3>5 DEF Serve, Receive, Lookup, AcquireLock, ReadRevision, Persist,
           CommitReport, AppendEvent, CommitEvent, WriteFails
      <4>2. PICK step, q, m :
              /\ Moves(t, step, q, m) /\ pc[t] # "index" /\ step # "index"
              /\ \/ step \notin {"lookup", "persist", "commit", "publish"} \/ q \notin Reports
                 \/ step = "lookup" /\ m = clock + 1
                 \/ pc[t] \in {"lookup", "persist", "commit"} /\ q = req[t] /\ m = mine[t]
        <5> DEFINE Moved(step, q, m) ==
                     /\ Moves(t, step, q, m) /\ pc[t] # "index" /\ step # "index"
                     /\ \/ step \notin {"lookup", "persist", "commit", "publish"} \/ q \notin Reports
                        \/ step = "lookup" /\ m = clock + 1
                        \/ pc[t] \in {"lookup", "persist", "commit"} /\ q = req[t] /\ m = mine[t]
        <5> SUFFICES \E step, q, m : Moved(step, q, m)
          OBVIOUS
        <5>1. ASSUME NEW r \in Requests, Receive(t, r) PROVE \E step, q, m : Moved(step, q, m)
          <6>1. pc[t] = "idle"
            BY <5>1 DEF Receive, Allowed
          <6>2. CASE r.kind = "reminder"
            <7>1. Moved("acquire", r, None)
              BY <3>2, <5>1, <6>1, <6>2, ServeMoves
            <7>2. QED
              BY <7>1
          <6>3. CASE r.kind # "reminder"
            <7>1. Moved("lookup", r, clock + 1)
              BY <3>2, <5>1, <6>1, <6>3, ServeMoves
            <7>2. QED
              BY <7>1
          <6>4. QED
            BY <6>2, <6>3
        <5>2. CASE Lookup(t)
          <6>1. pc[t] = "lookup"
            BY <5>2 DEF Lookup
          <6>2. Moved("persist", req[t], mine[t]) \/ Moved("idle", None, None)
            BY <3>2, <5>2, <6>1, ServeMoves
          <6>3. QED
            BY <6>2
        <5>3. CASE AcquireLock(t)
          <6>1. Moved("read", req[t], mine[t])
            BY <3>2, <5>3, ServeMoves DEF AcquireLock
          <6>2. QED
            BY <6>1
        <5>4. CASE ReadRevision(t)
          <6>1. pc[t] = "read" /\ req[t] \notin Reports
            BY <5>4, Serves DEF ReadRevision, Busy
          <6>2. Moved("persist", req[t], registry.desired[req[t].device] + 1)
            BY <3>2, <5>4, <6>1, ServeMoves
          <6>3. QED
            BY <6>2
        <5>5. CASE Persist(t)
          <6>1. Moved("commit", req[t], mine[t])
            BY <3>2, <5>5, ServeMoves DEF Persist
          <6>2. QED
            BY <6>1
        <5>6. CASE CommitReport(t)
          <6>1. Moved("publish", req[t], mine[t])
            BY <3>2, <5>6, ServeMoves DEF CommitReport
          <6>2. QED
            BY <6>1
        <5>7. CASE AppendEvent(t)
          <6>1. Moved("announce", req[t], mine[t])
            BY <3>2, <5>7, ServeMoves DEF AppendEvent
          <6>2. QED
            BY <6>1
        <5>8. CASE CommitEvent(t)
          <6>1. Moved("idle", None, None)
            BY <3>2, <5>8, ServeMoves DEF CommitEvent
          <6>2. QED
            BY <6>1
        <5>9. CASE WriteFails(t)
          <6>1. Moved("idle", None, None)
            BY <3>2, <5>9, ServeMoves DEF WriteFails, Uncommitted
          <6>2. QED
            BY <6>1
        <5> HIDE DEF Moved
        <5>10. \E step, q, m : Moved(step, q, m)
          <6>1. CASE \E r \in Requests : Receive(t, r)
            BY <5>1, <6>1
          <6>2. CASE ~\E r \in Requests : Receive(t, r)
            BY <1>2, <3>5, <5>2, <5>3, <5>4, <5>5, <5>6, <5>7, <5>8, <5>9, <6>2, Zenon DEF Serve
          <6>3. QED
            BY <6>1, <6>2
        <5>11. QED
          BY <5>10
      <4>3. \A kind, d : Published(kind, d)' = Published(kind, d)
        BY <4>1, <4>2, PublishedStays
      <4>4. QED
        BY <3>1, <4>1, <4>2, <4>3, ListsStay
    <3>6. QED
      BY <3>3, <3>4, <3>5
  <2>3. QED
    BY <2>1, <2>2
<1>3. QED
  BY <1>1, <1>2, ListsLoaded DEF Next

LEMMA ListsInit == Init => Younger /\ Listed
<1> SUFFICES ASSUME Init PROVE Younger /\ Listed
  OBVIOUS
<1>1. /\ \A u \in Threads : pc[u] = "idle"
      /\ registry = Load(EmptyDatabase) /\ registry.known = EmptyDatabase.rows
  BY DEF Init, Load
<1>2. \A kind, d : Published(kind, d) = StampsOf(EmptyDatabase, kind, d)
  BY <1>1 DEF Published, StampsOf
<1>3. ASSUME NEW d \in Devices PROVE ListedOf(d)
  BY <1>1, <1>2 DEF ListedOf, Load
<1>4. QED
  BY <1>1, <1>3 DEF Younger, YoungerOf, Listed

(* Between requests the dictionaries hold what a restart would load: the   *)
(* reports that are known, the latest heartbeat and the order of the       *)
(* events of a device, and the revision of its desired state; if a device  *)
(* sends one report of a kind at a time.                                   *)
THEOREM RestartAgreesCorrect ==
  ASSUME OneAtATime
  PROVE  Spec => []RestartAgrees
<1>1. OneDelivery
  BY AtATimeDelivers
<1>2. ReportsInv /\ DeliveryInv /\ Younger /\ Listed /\ [Next]_vars
        => DeliveryInv' /\ Younger' /\ Listed'
  BY <1>1, ApartInductive, RecordedInductive, AnnouncedInductive, ListsInductive
     DEF ReportsInv, DeliveryInv
<1>3. ReportsInv /\ DeliveryInv /\ Listed => RestartAgrees
  <2> SUFFICES ASSUME ReportsInv, DeliveryInv, Listed, ~torn, \A t \in Threads : pc[t] = "idle"
               PROVE  registry = Load(durable)
    BY DEF RestartAgrees, Quiescent
  <2>1. registry \in Registry /\ durable \in Database
    BY DEF ReportsInv, TypeInv, TypeOK
  <2>2. registry.known = durable.rows
    <3>1. \A r \in Reports : durable.rows[r] = registry.known[r]
      BY DEF DeliveryInv, Recorded, RecordedOf
    <3>2. QED
      BY <2>1, <3>1 DEF Registry, Database
  <2>3. registry.desired = durable.desired
    <3>1. \A d \in Devices : durable.desired[d] = registry.desired[d]
      BY DEF ReportsInv, Revisions, RevisionOf, Stored, Writing, Reminding, Busy
    <3>2. QED
      BY <2>1, <3>1 DEF Registry, Database
  <2>4. \A kind, d : Published(kind, d) = StampsOf(durable, kind, d)
    <3> SUFFICES ASSUME NEW kind, NEW d PROVE Published(kind, d) = StampsOf(durable, kind, d)
      OBVIOUS
    <3>1. {u \in Threads : pc[u] = "index" /\ req[u] \in ReportsOf(kind, d)} = {}
      OBVIOUS
    <3>2. QED
      BY <2>2, <3>1 DEF Published, StampsOf
  <2>5. /\ registry.latest = [d \in Devices |-> Newest(StampsOf(durable, "heartbeat", d))]
        /\ registry.events = [d \in Devices |-> InOrder(StampsOf(durable, "event", d))]
    BY <2>1, <2>4 DEF Listed, ListedOf, Registry
  <2>6. registry = [known |-> registry.known, latest |-> registry.latest,
                    events |-> registry.events, desired |-> registry.desired]
    BY <2>1 DEF Registry
  <2>7. QED
    BY <2>2, <2>3, <2>5, <2>6 DEF Load
<1>4. QED
  BY <1>2, <1>3, DeliveryInit, ListsInit, ReportsInvHolds, PTL DEF Spec
=============================================================================
