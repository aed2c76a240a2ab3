--------------------------- MODULE SyncFeed_proof ---------------------------
(* Theorems about SyncFeed, for every set of threads, of audiences and of  *)
(* changes, however many changes are made, whatever fails, and wherever    *)
(* the process restarts.                                                   *)
EXTENDS SyncFeed, FiniteSetTheorems, FunctionTheorems, SequenceTheorems, TLAPS

(* The revision that is announced last is the index of an event.           *)
LEMMA MaxOfIndices ==
  ASSUME NEW n \in Nat, NEW S \in SUBSET (1 .. n), S # {}
  PROVE  Max(S) \in S
<1> DEFINE From(i) == i .. n
           Above == {From(i) : i \in S}
           Subsets == FiniteSubsetsOf(1 .. n)
           Smaller == StrictSubsetOrdering(1 .. n)
<1>1. IsFiniteSet(1 .. n)
  BY FS_Interval
<1>2. SUBSET (1 .. n) = Subsets
  BY <1>1, FS_FiniteSubsetsOfFinite
<1>3. \A i \in S : From(i) \in SUBSET (1 .. n)
  OBVIOUS
<1>4. Above \subseteq Subsets /\ Above # {}
  <2>1. Above \subseteq SUBSET (1 .. n)
    BY <1>3, Zenon
  <2>2. Above # {}
    BY Zenon
  <2>3. QED
    BY <2>1, <2>2, <1>2, Zenon
<1>5. PICK x \in Above : \A y \in Above : <<y, x>> \notin Smaller
  <2>1. IsWellFoundedOn(Smaller, Subsets)
    BY FS_StrictSubsetOrderingWellFounded
  <2> HIDE DEF Above, Subsets, Smaller
  <2>2. QED
    BY <2>1, <1>4, WFMin
<1>6. PICK i \in S : x = From(i)
  BY <1>5
<1>7. ASSUME NEW j \in S PROVE i >= j
  <2>1. SUFFICES ASSUME j > i PROVE FALSE
    OBVIOUS
  <2>2. From(j) \subseteq From(i) /\ From(j) # From(i)
    BY <2>1
  <2>3. <<From(j), From(i)>> \in Smaller
    BY <2>2, <1>3 DEF StrictSubsetOrdering
  <2>4. QED
    BY <2>3, <1>5, <1>6
<1>8. QED
  BY <1>7 DEF Max

-----------------------------------------------------------------------------
(* The lists that a request goes through, and the sections in them.        *)
LEMMA WritesAre ==
  /\ Range(Writes("buddy")) = {"buddies"}
  /\ Range(Writes("pair")) = {"devices", "agent_machines", "bindings"}
  /\ Range(Writes("message")) = {"plan_usage", "costs", "traces"}
  /\ Range(Writes("heartbeat")) = {"heartbeats"}
  /\ Range(Writes("memory")) = {"state_memory"}
  /\ Range(Writes("reminder")) = {"desired_states"}
  /\ Range(Writes("agent")) = {"agents"}
BY DEF Writes, Range

LEMMA SectionsAre ==
  /\ Sections = {"buddies", "devices", "agent_machines", "bindings", "plan_usage", "costs",
                 "traces", "heartbeats", "state_memory", "desired_states", "agents"}
  /\ LateSections \subseteq Sections /\ Paired \subseteq Sections
  /\ Kept = {"devices", "agent_machines", "bindings", "heartbeats", "desired_states"}
  /\ Visible = {"visible_devices", "visible_machines"}
  /\ Viewed = Sections \union Visible /\ Visible \intersect Sections = {}
<1>1. Sections = {"buddies", "devices", "agent_machines", "bindings", "plan_usage", "costs",
                  "traces", "heartbeats", "state_memory", "desired_states", "agents"}
  BY WritesAre DEF Sections, Kinds
<1>2. QED
  BY <1>1 DEF LateSections, Paired, Kept, Visible, Viewed

(* What is committed together is one section or those of a pairing.        *)
LEMMA TogetherIs ==
  ASSUME NEW s \in Sections
  PROVE  /\ s \in Together(s) /\ Together(s) \subseteq Sections
         /\ \A x \in Together(s) : Together(x) = Together(s)
         /\ s \notin Paired => Together(s) = {s}
         /\ s \in Paired => Together(s) = Paired
BY SectionsAre DEF Together

LEMMA NotEmpty ==
  ASSUME NEW S, NEW s \in Seq(S), s # <<>>
  PROVE  Len(s) \in Nat /\ Len(s) # 0
OBVIOUS

LEMMA EmptyLength == ASSUME NEW s, s = <<>> PROVE Len(s) = 0
OBVIOUS

LEMMA HeadAndTail ==
  ASSUME NEW S, NEW s \in Seq(S), s # <<>>
  PROVE  /\ Len(s) \in Nat \ {0} /\ Head(s) = s[1] /\ s[1] \in S
         /\ Tail(s) \in Seq(S) /\ Len(Tail(s)) = Len(s) - 1
         /\ \A i \in 1 .. Len(s) - 1 : Tail(s)[i] = s[i + 1]
OBVIOUS

LEMMA RangeOf ==
  ASSUME NEW S, NEW s \in Seq(S)
  PROVE  /\ Range(s) = {s[i] : i \in 1 .. Len(s)}
         /\ Range(s) \subseteq S
BY DEF Range

LEMMA RangeOfTail ==
  ASSUME NEW S, NEW s \in Seq(S), s # <<>>
  PROVE  Range(s) = {s[1]} \union Range(Tail(s))
<1>0. Tail(s) \in Seq(S)
  BY HeadAndTail
<1>1. /\ Range(s) = {s[i] : i \in 1 .. Len(s)}
      /\ Range(Tail(s)) = {Tail(s)[i] : i \in 1 .. Len(Tail(s))}
  BY <1>0, RangeOf, Zenon
<1>2. ASSUME NEW x \in Range(s), x # s[1] PROVE x \in Range(Tail(s))
  <2>1. PICK i \in 1 .. Len(s) : x = s[i]
    BY <1>1, <1>2
  <2>2. i - 1 \in 1 .. Len(Tail(s)) /\ Tail(s)[i - 1] = x
    BY <1>2, <2>1, HeadAndTail
  <2>3. QED
    BY <1>1, <2>2
<1>3. ASSUME NEW x \in Range(Tail(s)) PROVE x \in Range(s)
  <2>1. PICK i \in 1 .. Len(Tail(s)) : x = Tail(s)[i]
    BY <1>1, <1>3
  <2>2. i + 1 \in 1 .. Len(s) /\ s[i + 1] = x
    BY <2>1, HeadAndTail
  <2>3. QED
    BY <1>1, <2>2
<1>4. s[1] \in Range(s)
  BY <1>1, HeadAndTail
<1>5. QED
  BY <1>2, <1>3, <1>4

LEMMA OneMore ==
  ASSUME NEW S, NEW s \in Seq(S), NEW x \in S, NEW n \in Nat, NEW k, k = n + 1, Len(s) = n
  PROVE  /\ Append(s, x) \in Seq(S) /\ Len(Append(s, x)) = k
         /\ \A i \in 1 .. n : Append(s, x)[i] = s[i]
         /\ Append(s, x)[k] = x
OBVIOUS

LEMMA WritesType ==
  ASSUME NEW kind \in Kinds
  PROVE  Writes(kind) \in Seq(Sections) /\ Writes(kind) # <<>>
<1>1. CASE kind \in {"message", "pair"}
  <2>1. \E r, s, x \in Sections : Writes(kind) = <<r, s, x>>
    BY <1>1, SectionsAre DEF Writes
  <2>2. QED
    BY <2>1
<1>2. CASE kind \in {"buddy", "heartbeat", "memory", "reminder", "agent"}
  <2>1. \E s \in Sections : Writes(kind) = <<s>>
    BY <1>2, SectionsAre DEF Writes
  <2>2. QED
    BY <2>1
<1>3. QED
  BY <1>1, <1>2 DEF Kinds

-----------------------------------------------------------------------------
(* What a client has still to read is the end of the one list or of the    *)
(* other.                                                                  *)
SnapshotPlan == Append(SnapshotReads, "snapshot")
PollPlan == Append(PollReads, "poll")
IsEnd(s, plan) ==
  /\ Len(s) <= Len(plan)
  /\ \A i \in 1 .. Len(s) : s[i] = plan[Len(plan) - Len(s) + i]
Planned == \A c \in Clients : IsEnd(left[c], SnapshotPlan) \/ IsEnd(left[c], PollPlan)

Marks == Viewed \union Answers

LEMMA PlansAre ==
  /\ SnapshotPlan \in Seq(Marks) /\ Len(SnapshotPlan) = 15
  /\ SnapshotPlan[1] = "traces" /\ SnapshotPlan[2] = "costs" /\ SnapshotPlan[3] = "buddies"
  /\ SnapshotPlan[4] = "visible_devices" /\ SnapshotPlan[5] = "visible_machines"
  /\ SnapshotPlan[6] = "state_memory" /\ SnapshotPlan[7] = "desired_states"
  /\ SnapshotPlan[8] = "revision" /\ SnapshotPlan[9] = "devices"
  /\ SnapshotPlan[10] = "agent_machines" /\ SnapshotPlan[11] = "bindings"
  /\ SnapshotPlan[12] = "heartbeats" /\ SnapshotPlan[13] = "plan_usage"
  /\ SnapshotPlan[14] = "agents" /\ SnapshotPlan[15] = "snapshot"
  /\ PollPlan \in Seq(Marks) /\ Len(PollPlan) = 3
  /\ PollPlan[1] = "revision" /\ PollPlan[2] = "events" /\ PollPlan[3] = "poll"
<1>1. Viewed \union {"revision", "snapshot", "events", "poll"} \subseteq Marks
  BY SectionsAre DEF Marks, Answers
<1>2. SnapshotReads \in Seq(Marks) /\ Len(SnapshotReads) = 14
  BY <1>1, SectionsAre DEF SnapshotReads
<1>3. PollReads \in Seq(Marks) /\ Len(PollReads) = 2
  BY <1>1 DEF PollReads
<1>4. /\ SnapshotPlan \in Seq(Marks) /\ Len(SnapshotPlan) = 15
      /\ \A i \in 1 .. 14 : SnapshotPlan[i] = SnapshotReads[i]
      /\ SnapshotPlan[15] = "snapshot"
  <2>1. PICK x, n, k : x = "snapshot" /\ n = 14 /\ k = 15
    OBVIOUS
  <2>2. n \in Nat /\ k = n + 1 /\ Len(SnapshotReads) = n /\ x \in Marks
    BY <1>1, <1>2, <2>1
  <2>3. SnapshotReads \in Seq(Marks)
    BY <1>2
  <2>4. /\ Append(SnapshotReads, x) \in Seq(Marks) /\ Len(Append(SnapshotReads, x)) = k
        /\ \A i \in 1 .. n : Append(SnapshotReads, x)[i] = SnapshotReads[i]
        /\ Append(SnapshotReads, x)[k] = x
    BY <2>2, <2>3, OneMore
  <2>5. QED
    BY <2>1, <2>4 DEF SnapshotPlan
<1>5. /\ PollPlan \in Seq(Marks) /\ Len(PollPlan) = 3
      /\ \A i \in 1 .. 2 : PollPlan[i] = PollReads[i]
      /\ PollPlan[3] = "poll"
  <2>1. PICK x, n, k : x = "poll" /\ n = 2 /\ k = 3
    OBVIOUS
  <2>2. n \in Nat /\ k = n + 1 /\ Len(PollReads) = n /\ x \in Marks
    BY <1>1, <1>3, <2>1
  <2>3. PollReads \in Seq(Marks)
    BY <1>3
  <2>4. /\ Append(PollReads, x) \in Seq(Marks) /\ Len(Append(PollReads, x)) = k
        /\ \A i \in 1 .. n : Append(PollReads, x)[i] = PollReads[i]
        /\ Append(PollReads, x)[k] = x
    BY <2>2, <2>3, OneMore
  <2>5. QED
    BY <2>1, <2>4 DEF PollPlan
<1>6. /\ SnapshotReads[1] = "traces" /\ SnapshotReads[2] = "costs" /\ SnapshotReads[3] = "buddies"
      /\ SnapshotReads[4] = "visible_devices" /\ SnapshotReads[5] = "visible_machines"
      /\ SnapshotReads[6] = "state_memory" /\ SnapshotReads[7] = "desired_states"
      /\ SnapshotReads[8] = "revision" /\ SnapshotReads[9] = "devices"
      /\ SnapshotReads[10] = "agent_machines" /\ SnapshotReads[11] = "bindings"
      /\ SnapshotReads[12] = "heartbeats" /\ SnapshotReads[13] = "plan_usage"
      /\ SnapshotReads[14] = "agents"
      /\ PollReads[1] = "revision" /\ PollReads[2] = "events"
  BY DEF SnapshotReads, PollReads
<1>7. {1, 2, 3, 4, 5, 6, 7, 8, 9, 10, 11, 12, 13, 14} \subseteq 1 .. 14 /\ {1, 2} \subseteq 1 .. 2
  OBVIOUS
<1>8. \A i \in {1, 2, 3, 4, 5, 6, 7, 8, 9, 10, 11, 12, 13, 14} : SnapshotPlan[i] = SnapshotReads[i]
  BY <1>4, <1>7
<1>9. PollPlan[1] = PollReads[1] /\ PollPlan[2] = PollReads[2]
  BY <1>5, <1>7
<1>10. QED
  BY <1>4, <1>5, <1>6, <1>8, <1>9

(* Where in a snapshot something is read.                                  *)
Order(mark) ==
  CASE mark = "traces" -> 1 [] mark = "costs" -> 2 [] mark = "buddies" -> 3
    [] mark = "visible_devices" -> 4 [] mark = "visible_machines" -> 5
    [] mark = "state_memory" -> 6 [] mark = "desired_states" -> 7 [] mark = "revision" -> 8
    [] mark = "devices" -> 9 [] mark = "agent_machines" -> 10 [] mark = "bindings" -> 11
    [] mark = "heartbeats" -> 12 [] mark = "plan_usage" -> 13 [] mark = "agents" -> 14
    [] mark = "snapshot" -> 15

LEMMA SnapshotAt ==
  /\ \A n \in 1 .. 15 :
       /\ SnapshotPlan[n] \in Viewed \union {"revision", "snapshot"}
       /\ Order(SnapshotPlan[n]) = n
  /\ \A mark \in Viewed \union {"revision", "snapshot"} :
       Order(mark) \in 1 .. 15 /\ SnapshotPlan[Order(mark)] = mark
<1>1. ASSUME NEW n \in 1 .. 15
      PROVE  /\ SnapshotPlan[n] \in Viewed \union {"revision", "snapshot"}
             /\ Order(SnapshotPlan[n]) = n
  <2>1. n \in {1, 2, 3, 4, 5, 6, 7, 8, 9, 10, 11, 12, 13, 14, 15}
    OBVIOUS
  <2>2. QED
    BY <2>1, PlansAre, SectionsAre DEF Order
<1>2. ASSUME NEW mark \in Viewed \union {"revision", "snapshot"}
      PROVE  Order(mark) \in 1 .. 15 /\ SnapshotPlan[Order(mark)] = mark
  BY PlansAre, SectionsAre DEF Order
<1>3. QED
  BY <1>1, <1>2

LEMMA PollAt ==
  ASSUME NEW n \in 1 .. 3
  PROVE  /\ PollPlan[n] = "revision" <=> n = 1
         /\ PollPlan[n] = "poll" <=> n = 3
         /\ PollPlan[n] \in {"revision", "events", "poll"}
<1>1. n \in {1, 2, 3}
  OBVIOUS
<1>2. QED
  BY <1>1, PlansAre

(* One read further in a list.                                             *)
LEMMA EndOfTail ==
  ASSUME NEW s \in Seq(Marks), s # <<>>, NEW plan \in Seq(Marks), IsEnd(s, plan)
  PROVE  IsEnd(Tail(s), plan) /\ s[1] = plan[Len(plan) - Len(s) + 1]
<1>1. Len(s) \in Nat \ {0} /\ Len(Tail(s)) = Len(s) - 1 /\ Len(plan) \in Nat
  BY HeadAndTail
<1>2. ASSUME NEW i \in 1 .. Len(Tail(s))
      PROVE  Tail(s)[i] = plan[Len(plan) - Len(Tail(s)) + i]
  <2>1. i + 1 \in 1 .. Len(s) /\ Tail(s)[i] = s[i + 1]
    BY <1>1, HeadAndTail
  <2>2. s[i + 1] = plan[Len(plan) - Len(s) + (i + 1)]
    BY <2>1 DEF IsEnd
  <2>3. QED
    BY <1>1, <2>1, <2>2
<1>3. QED
  BY <1>1, <1>2 DEF IsEnd

(* What is next in a snapshot, and what is read before and after it.       *)
LEMMA SnapshotEnds ==
  ASSUME NEW s \in Seq(Marks), s # <<>>, IsEnd(s, SnapshotPlan)
  PROVE  /\ s[1] \in Viewed \union {"revision", "snapshot"} /\ IsEnd(Tail(s), SnapshotPlan)
         /\ "snapshot" \in Range(s) /\ (s[1] = "snapshot" <=> Tail(s) = <<>>)
         /\ \A mark \in Viewed \union {"revision", "snapshot"} :
              /\ mark \in Range(s) <=> Order(mark) >= Order(s[1])
              /\ mark \in Range(Tail(s)) <=> Order(mark) > Order(s[1])
         /\ Range(s) \subseteq Viewed \union {"revision", "snapshot"}
<1> DEFINE n == Len(s)
<1>0. SnapshotPlan \in Seq(Marks) /\ Len(SnapshotPlan) = 15
  BY PlansAre
<1>1. /\ n \in 1 .. 15
      /\ \A i \in 1 .. n : s[i] = SnapshotPlan[15 - n + i]
  <2>1. n \in Nat /\ n # 0
    BY NotEmpty
  <2>2. n <= 15
    BY <1>0 DEF IsEnd
  <2>3. \A i \in 1 .. n : s[i] = SnapshotPlan[15 - n + i]
    BY <1>0 DEF IsEnd
  <2> HIDE DEF n
  <2>4. n \in 1 .. 15
    BY <2>1, <2>2
  <2>5. QED
    BY <2>3, <2>4
<1>2. PICK t : t = Tail(s)
  OBVIOUS
<1>3. /\ t \in Seq(Marks) /\ Len(t) = n - 1
      /\ \A i \in 1 .. n - 1 : t[i] = s[i + 1]
  BY <1>2, HeadAndTail
<1>4. Range(s) = {s[i] : i \in 1 .. n} /\ Range(t) = {t[i] : i \in 1 .. n - 1}
  BY <1>3, RangeOf
<1>i. IsEnd(t, SnapshotPlan)
  BY <1>0, <1>2, EndOfTail
<1> HIDE DEF n
<1>5. s[1] = SnapshotPlan[16 - n] /\ 16 - n \in 1 .. 15
  BY <1>1
<1>6. Order(s[1]) = 16 - n /\ s[1] \in Viewed \union {"revision", "snapshot"}
  BY <1>5, SnapshotAt
<1>7. ASSUME NEW mark \in Viewed \union {"revision", "snapshot"}
      PROVE  /\ mark \in Range(s) <=> Order(mark) >= 16 - n
             /\ mark \in Range(t) <=> Order(mark) > 16 - n
  <2>1. PICK k \in 1 .. 15 : k = Order(mark) /\ SnapshotPlan[k] = mark
    BY SnapshotAt
  <2>2. ASSUME k >= 16 - n PROVE mark \in Range(s)
    <3>1. k - 15 + n \in 1 .. n
      BY <1>1, <2>1, <2>2
    <3>2. s[k - 15 + n] = SnapshotPlan[15 - n + (k - 15 + n)]
      BY <1>1, <3>1
    <3>3. QED
      BY <1>1, <1>4, <2>1, <3>1, <3>2
  <2>3. ASSUME mark \in Range(s) PROVE k >= 16 - n
    <3>1. PICK i \in 1 .. n : mark = s[i]
      BY <1>4, <2>3
    <3>2. 15 - n + i \in 1 .. 15 /\ mark = SnapshotPlan[15 - n + i]
      BY <1>1, <3>1
    <3>3. k = 15 - n + i
      BY <2>1, <3>2, SnapshotAt
    <3>4. QED
      BY <1>1, <3>1, <3>3
  <2>4. ASSUME k > 16 - n PROVE mark \in Range(t)
    <3>0. k \in 1 .. 15 /\ n \in 1 .. 15 /\ k > 16 - n
      BY <1>1, <2>1, <2>4
    <3>1. /\ k - 16 + n \in 1 .. n - 1 /\ k - 15 + n \in 1 .. n
          /\ (k - 16 + n) + 1 = k - 15 + n
      BY <3>0
    <3>2. s[k - 15 + n] = SnapshotPlan[15 - n + (k - 15 + n)]
      BY <1>1, <3>1
    <3>3. t[k - 16 + n] = s[k - 15 + n]
      <4>1. t[k - 16 + n] = s[(k - 16 + n) + 1]
        BY <1>3, <3>1
      <4>2. QED
        BY <3>1, <4>1
    <3>4. 15 - n + (k - 15 + n) = k
      BY <3>0
    <3>5. t[k - 16 + n] = mark
      BY <2>1, <3>2, <3>3, <3>4
    <3>6. QED
      BY <1>4, <3>1, <3>5
  <2>5. ASSUME mark \in Range(t) PROVE k > 16 - n
    <3>1. PICK i \in 1 .. n - 1 : mark = t[i]
      BY <1>4, <2>5
    <3>2. i + 1 \in 1 .. n /\ mark = s[i + 1]
      BY <1>1, <1>3, <3>1
    <3>3. 15 - n + (i + 1) \in 1 .. 15 /\ mark = SnapshotPlan[15 - n + (i + 1)]
      BY <1>1, <3>2
    <3>4. k = 15 - n + (i + 1)
      BY <2>1, <3>3, SnapshotAt
    <3>5. QED
      BY <1>1, <3>1, <3>4
  <2>6. QED
    BY <2>1, <2>2, <2>3, <2>4, <2>5
<1>8. "snapshot" \in Range(s)
  BY <1>1, <1>7 DEF Order
<1>9. s[1] = "snapshot" <=> t = <<>>
  <2>1. s[1] = "snapshot" <=> n = 1
    <3>1. Order("snapshot") = 15
      BY DEF Order
    <3>2. SnapshotPlan[15] = "snapshot"
      BY PlansAre
    <3>3. QED
      BY <1>1, <1>5, <1>6, <3>1, <3>2
  <2>2. t = <<>> <=> Len(t) = 0
    BY <1>3, NotEmpty, EmptyLength
  <2>3. QED
    BY <1>1, <1>3, <2>1, <2>2
<1>10. Range(s) \subseteq Viewed \union {"revision", "snapshot"}
  <2> SUFFICES ASSUME NEW i \in 1 .. n PROVE s[i] \in Viewed \union {"revision", "snapshot"}
    BY <1>4
  <2>1. 15 - n + i \in 1 .. 15 /\ s[i] = SnapshotPlan[15 - n + i]
    BY <1>1
  <2>2. QED
    BY <2>1, SnapshotAt
<1>11. QED
  BY <1>2, <1>6, <1>7, <1>8, <1>9, <1>10, <1>i

LEMMA PollEnds ==
  ASSUME NEW s \in Seq(Marks), s # <<>>, IsEnd(s, PollPlan)
  PROVE  /\ Range(s) \subseteq {"revision", "events", "poll"}
         /\ IsEnd(Tail(s), PollPlan)
         /\ s[1] = "poll" => Range(s) = {"poll"} /\ Tail(s) = <<>>
         /\ s[1] = "revision" => "events" \in Range(Tail(s))
<1> DEFINE n == Len(s)
<1>0. PollPlan \in Seq(Marks) /\ Len(PollPlan) = 3
  BY PlansAre
<1>1. /\ n \in 1 .. 3
      /\ \A i \in 1 .. n : s[i] = PollPlan[3 - n + i]
  <2>1. n \in Nat /\ n # 0
    BY NotEmpty
  <2>2. n <= 3
    BY <1>0 DEF IsEnd
  <2>3. \A i \in 1 .. n : s[i] = PollPlan[3 - n + i]
    BY <1>0 DEF IsEnd
  <2> HIDE DEF n
  <2>4. n \in 1 .. 3
    BY <2>1, <2>2
  <2>5. QED
    BY <2>3, <2>4
<1>2. /\ Len(Tail(s)) = n - 1 /\ Tail(s) \in Seq(Marks)
      /\ \A i \in 1 .. n - 1 : Tail(s)[i] = s[i + 1]
  BY HeadAndTail
<1>3. /\ Range(s) = {s[i] : i \in 1 .. n}
      /\ Range(Tail(s)) = {Tail(s)[i] : i \in 1 .. n - 1}
  BY <1>2, RangeOf
<1>t. PICK t : t = Tail(s)
  OBVIOUS
<1> HIDE DEF n
<1>4. PICK m \in 1 .. 3 : m = 4 - n /\ s[1] = PollPlan[m]
  BY <1>1
<1>n. n \in 1 .. 3
  BY <1>1
<1>5. Range(s) \subseteq {"revision", "events", "poll"}
  <2> SUFFICES ASSUME NEW i \in 1 .. n PROVE s[i] \in {"revision", "events", "poll"}
    BY <1>3
  <2>1. 3 - n + i \in 1 .. 3 /\ s[i] = PollPlan[3 - n + i]
    BY <1>1
  <2>2. QED
    BY <2>1, PollAt
<1>6. ASSUME s[1] = "poll" PROVE Range(s) = {"poll"} /\ Tail(s) = <<>>
  <2>1. m = 3
    BY <1>4, <1>6, PollAt
  <2>2. n = 1
    BY <1>n, <1>4, <2>1
  <2>3. Range(s) = {s[1]}
    BY <1>3, <2>2
  <2>4. Len(Tail(s)) = 0
    BY <1>2, <2>2
  <2>5. QED
    BY <1>2, <1>6, <2>3, <2>4, NotEmpty
<1>7. ASSUME s[1] = "revision" PROVE "events" \in Range(Tail(s))
  <2>1. m = 1
    BY <1>4, <1>7, PollAt
  <2>2. n = 3
    BY <1>n, <1>4, <2>1
  <2>3. n - 1 = 2 /\ 1 \in 1 .. 2
    BY <2>2
  <2>4. s[2] = PollPlan[2]
    BY <1>1, <2>2
  <2>5. Tail(s)[1] = s[2]
    <3>1. \A i \in 1 .. 2 : t[i] = s[i + 1]
      BY <1>2, <1>t, <2>3
    <3>2. t[1] = s[2]
      BY <2>3, <3>1
    <3>3. QED
      BY <1>t, <3>2
  <2>6. Range(Tail(s)) = {Tail(s)[i] : i \in 1 .. 2}
    BY <1>3, <2>3
  <2>7. QED
    BY <2>3, <2>4, <2>5, <2>6, PlansAre
<1>8. IsEnd(Tail(s), PollPlan)
  BY <1>0, EndOfTail
<1>9. QED
  BY <1>5, <1>6, <1>7, <1>8

LEMMA PlansBegin ==
  /\ IsEnd(SnapshotPlan, SnapshotPlan) /\ IsEnd(PollPlan, PollPlan)
  /\ Viewed \union {"snapshot"} \subseteq Range(SnapshotPlan)
  /\ "events" \in Range(PollPlan) /\ Range(PollPlan) = {"revision", "events", "poll"}
  /\ "poll" \notin Range(SnapshotPlan)
<1>1. /\ Range(SnapshotPlan) = {SnapshotPlan[i] : i \in 1 .. 15}
      /\ Range(PollPlan) = {PollPlan[i] : i \in 1 .. 3}
  BY PlansAre, RangeOf
<1>2. Range(PollPlan) = {"revision", "events", "poll"}
  <2>1. \A i \in 1 .. 3 : PollPlan[i] \in {"revision", "events", "poll"}
    BY PollAt
  <2>2. 1 \in 1 .. 3 /\ 2 \in 1 .. 3 /\ 3 \in 1 .. 3
    OBVIOUS
  <2>3. {PollPlan[1], PollPlan[2], PollPlan[3]} \subseteq Range(PollPlan)
    BY <1>1, <2>2
  <2>4. QED
    BY <1>1, <2>1, <2>3, PlansAre
<1>3. IsEnd(SnapshotPlan, SnapshotPlan) /\ IsEnd(PollPlan, PollPlan)
  BY PlansAre DEF IsEnd
<1>4. Viewed \union {"snapshot"} \subseteq Range(SnapshotPlan)
  BY <1>1, SnapshotAt
<1>5. "poll" \notin Range(SnapshotPlan)
  <2>1. \A i \in 1 .. 15 : SnapshotPlan[i] # "poll"
    BY SnapshotAt, SectionsAre
  <2>2. QED
    BY <1>1, <2>1
<1>6. QED
  BY <1>2, <1>3, <1>4, <1>5

-----------------------------------------------------------------------------
(* What a thread has to write is of the change it serves; of a message the *)
(* usage comes before the costs, of a pairing the device comes first.      *)
Busy(t) == pc[t] # "idle"
Writing == {"write", "commit", "publish"}
InOrder(sections) ==
  \A i, j \in 1 .. Len(sections) :
    <<sections[j], sections[i]>> \in {<<"plan_usage", "costs">>, <<"devices", "bindings">>}
      => j < i

Serving ==
  \A t \in Threads :
    /\ Busy(t) => entity[t] \in Entities
    /\ pc[t] \in Writing <=> todo[t] # <<>>
    /\ Busy(t) => Range(todo[t]) \subseteq Range(Writes(entity[t].kind))
    /\ InOrder(todo[t])

TypeInv == TypeOK /\ Serving /\ Planned

LEMMA WritesOrdered ==
  ASSUME NEW kind \in Kinds
  PROVE  InOrder(Writes(kind))
<1>1. CASE kind = "message"
  <2>1. Writes(kind) = <<"plan_usage", "costs", "traces">>
    BY <1>1 DEF Writes
  <2>2. QED
    BY <2>1 DEF InOrder
<1>2. CASE kind = "pair"
  <2>1. Writes(kind) = <<"devices", "agent_machines", "bindings">>
    BY <1>2 DEF Writes
  <2>2. QED
    BY <2>1 DEF InOrder
<1>3. CASE kind \in {"buddy", "heartbeat", "memory", "reminder", "agent"}
  <2>1. PICK s : Writes(kind) = <<s>>
    BY <1>3 DEF Writes
  <2>2. QED
    BY <2>1 DEF InOrder
<1>4. QED
  BY <1>1, <1>2, <1>3 DEF Kinds

LEMMA TailOrdered ==
  ASSUME NEW S, NEW s \in Seq(S), s # <<>>, InOrder(s)
  PROVE  /\ InOrder(Tail(s))
         /\ s[1] = "costs" => "plan_usage" \notin Range(s)
         /\ s[1] = "bindings" => "devices" \notin Range(s)
<1>1. /\ Len(s) \in Nat /\ Len(s) # 0 /\ Len(Tail(s)) = Len(s) - 1
      /\ \A i \in 1 .. Len(s) - 1 : Tail(s)[i] = s[i + 1]
  BY NotEmpty, HeadAndTail
<1> DEFINE Pairs == {<<"plan_usage", "costs">>, <<"devices", "bindings">>}
<1>2. ASSUME NEW i \in 1 .. Len(Tail(s)), NEW j \in 1 .. Len(Tail(s)),
             <<Tail(s)[j], Tail(s)[i]>> \in Pairs
      PROVE  j < i
  <2>1. i + 1 \in 1 .. Len(s) /\ j + 1 \in 1 .. Len(s) /\ i \in Nat /\ j \in Nat
    BY <1>1
  <2>2. <<s[j + 1], s[i + 1]>> \in Pairs
    BY <1>1, <1>2
  <2>3. j + 1 < i + 1
    BY <2>1, <2>2 DEF InOrder
  <2>4. QED
    BY <2>1, <2>3
<1>3. ASSUME NEW x \in Range(s), <<x, s[1]>> \in Pairs PROVE FALSE
  <2>1. PICK j \in 1 .. Len(s) : s[j] = x
    BY <1>3, RangeOf
  <2>2. 1 \in 1 .. Len(s)
    BY <1>1
  <2>3. j < 1
    BY <1>3, <2>1, <2>2 DEF InOrder
  <2>4. QED
    BY <2>3
<1>4. QED
  BY <1>2, <1>3 DEF InOrder

LEMMA RevisionIs ==
  ASSUME TypeOK, NEW c \in Clients
  PROVE  VisibleRevision(c) \in Nat /\ VisibleRevision(c) <= Len(working.events)
<1>1. working.events \in Seq(Entities)
  BY DEF TypeOK, Database
<1>2. Len(working.events) \in Nat /\ DOMAIN working.events = 1 .. Len(working.events)
  BY <1>1
<1>3. Since(c, 0) \in SUBSET (1 .. Len(working.events))
  BY <1>2 DEF Since
<1>4. CASE Since(c, 0) = {}
  BY <1>2, <1>4 DEF VisibleRevision
<1>5. CASE Since(c, 0) # {}
  <2>1. Max(Since(c, 0)) \in 1 .. Len(working.events)
    BY <1>2, <1>3, <1>5, MaxOfIndices
  <2>2. QED
    BY <1>2, <1>5, <2>1 DEF VisibleRevision
<1>6. QED
  BY <1>4, <1>5

-----------------------------------------------------------------------------
(* What the steps of a thread do.                                          *)
Moves(t, step, e, rest) ==
  /\ pc' = [pc EXCEPT ![t] = step]
  /\ entity' = [entity EXCEPT ![t] = e]
  /\ todo' = [todo EXCEPT ![t] = rest]

(* The tables that a section's row is added to.                            *)
Adds(t) ==
  /\ working'.events = working.events
  /\ \A s \in Sections : working'.rows[s] =
       IF s \in Together(Head(todo[t])) THEN working.rows[s] \union {entity[t]} ELSE working.rows[s]

LEMMA InDatabase ==
  ASSUME NEW db \in Database
  PROVE  /\ db = [rows |-> db.rows, events |-> db.events]
         /\ db.rows \in Rows /\ db.events \in Seq(Entities)
         /\ \A s \in Sections : db.rows[s] \in SUBSET Entities
BY DEF Database, Rows

LEMMA TodoHead ==
  ASSUME TypeInv, NEW t \in Threads, pc[t] \in Writing
  PROVE  /\ todo[t] \in Seq(Sections) /\ todo[t] # <<>>
         /\ entity[t] \in Entities /\ entity[t].kind \in Kinds
         /\ Head(todo[t]) = todo[t][1] /\ Head(todo[t]) \in Sections
         /\ Head(todo[t]) \in Range(Writes(entity[t].kind))
         /\ Range(todo[t]) = {Head(todo[t])} \union Range(Tail(todo[t]))
         /\ Range(todo[t]) \subseteq Range(Writes(entity[t].kind))
<1>1. todo[t] \in Seq(Sections) /\ todo[t] # <<>> /\ entity[t] \in Entities
  BY DEF TypeInv, TypeOK, Serving, Busy, Writing
<1>2. entity[t].kind \in Kinds /\ Range(todo[t]) \subseteq Range(Writes(entity[t].kind))
  BY <1>1 DEF TypeInv, Serving, Busy, Writing, Entities
<1>3. Head(todo[t]) = todo[t][1] /\ Head(todo[t]) \in Sections
  BY <1>1, HeadAndTail
<1>4. QED
  BY <1>1, <1>2, <1>3, RangeOfTail

LEMMA ReceiveDoes ==
  ASSUME TypeInv, NEW t \in Threads, NEW change \in Changes, Receive(t, change)
  PROVE  /\ pc[t] = "idle" /\ clock < MaxChanges /\ clock' = clock + 1
         /\ \E e \in Entities :
              /\ Moves(t, "write", e, Writes(e.kind)) /\ Belongs(e)
              /\ e.kind \in {"pair", "message", "memory"} => lock = None
         /\ UNCHANGED <<working, durable, kept, lock, past, torn, clientVars>>
<1>1. PICK e \in Entities : /\ entity' = [entity EXCEPT ![t] = e] /\ Belongs(e)
                            /\ e.kind = change.kind
  BY DEF Receive
<1>2. Moves(t, "write", e, Writes(e.kind))
  BY <1>1 DEF Receive, Moves, Goto
<1>3. e.kind \in {"pair", "message", "memory"} => lock = None
  BY <1>1 DEF Receive
<1>4. QED
  BY <1>1, <1>2, <1>3 DEF Receive, connectionVars

LEMMA WriteSectionDoes ==
  ASSUME TypeInv, NEW t \in Threads, WriteSection(t)
  PROVE  /\ pc[t] = "write" /\ Moves(t, "commit", entity[t], todo[t])
         /\ working' \in Database /\ Adds(t)
         /\ Head(todo[t]) \in Guarded => lock = None
         /\ lock' = (IF Head(todo[t]) \in Guarded THEN t ELSE lock)
         /\ UNCHANGED <<durable, kept, torn, clock, past, clientVars>>
<1>1. working \in Database /\ pc[t] \in Writing
  BY DEF WriteSection, Writing, TypeInv, TypeOK
<1>2. Head(todo[t]) \in Sections /\ entity[t] \in Entities
  BY <1>1, TodoHead
<1>3. PICK rows : /\ rows = [x \in Sections |-> IF x \in Together(Head(todo[t]))
                                THEN working.rows[x] \union {entity[t]} ELSE working.rows[x]]
                  /\ working' = [working EXCEPT !.rows = rows]
  BY DEF WriteSection, Execute
<1>4. working'.rows = rows /\ working'.events = working.events
  BY <1>1, <1>3, InDatabase
<1>5. \A x \in Sections : working.rows[x] \in SUBSET Entities
  BY <1>1, InDatabase
<1>6. rows \in Rows
  BY <1>2, <1>3, <1>5 DEF Rows
<1>7. working' \in Database
  BY <1>1, <1>3, <1>6 DEF Database
<1>8. Adds(t)
  BY <1>3, <1>4 DEF Adds
<1>9. Moves(t, "commit", entity[t], todo[t])
  BY DEF WriteSection, Goto, Moves, TypeInv, TypeOK
<1>10. QED
  BY <1>7, <1>8, <1>9 DEF WriteSection, Execute

LEMMA CommitSectionDoes ==
  ASSUME TypeInv, NEW t \in Threads, CommitSection(t)
  PROVE  /\ pc[t] = "commit" /\ Moves(t, "publish", entity[t], todo[t])
         /\ durable' = working /\ lock' = (IF lock = t THEN None ELSE lock)
         /\ UNCHANGED <<working, kept, torn, clock, past, clientVars>>
BY DEF CommitSection, Commit, Goto, Moves, TypeInv, TypeOK

(* Where a thread goes on: another section that was committed with the     *)
(* one that is published, another section, or the event.                   *)
AfterPublish(t, step) ==
  /\ step = "append" <=> Len(todo[t]) = 1
  /\ step # "append" => Tail(todo[t]) # <<>>
  /\ step = "publish" => Head(Tail(todo[t])) \in Together(Head(todo[t]))
  /\ step \in {"append", "publish", "write"}

LEMMA PublishDoes ==
  ASSUME TypeInv, NEW t \in Threads, Publish(t)
  PROVE  /\ pc[t] = "publish"
         /\ \E step : Moves(t, step, entity[t], Tail(todo[t])) /\ AfterPublish(t, step)
         /\ kept' = IF Head(todo[t]) \in Kept
                    THEN [kept EXCEPT ![Head(todo[t])] = @ \union {entity[t]}] ELSE kept
         /\ UNCHANGED <<working, durable, lock, torn, clock, past, clientVars>>
<1>1. PICK step : step = IF Len(todo[t]) = 1 THEN "append"
                         ELSE IF todo[t][2] \in Together(Head(todo[t])) THEN "publish" ELSE "write"
  OBVIOUS
<1>2. Moves(t, step, entity[t], Tail(todo[t]))
  BY <1>1 DEF Publish, Goto, Moves, TypeInv, TypeOK
<1>3. todo[t] \in Seq(Sections) /\ todo[t] # <<>>
  BY TodoHead DEF Publish, Writing
<1>4. /\ Tail(todo[t]) \in Seq(Sections) /\ Len(Tail(todo[t])) = Len(todo[t]) - 1
      /\ Len(todo[t]) \in Nat \ {0}
      /\ \A i \in 1 .. Len(todo[t]) - 1 : Tail(todo[t])[i] = todo[t][i + 1]
  BY <1>3, HeadAndTail
<1>5. ASSUME Len(todo[t]) # 1
      PROVE  Tail(todo[t]) # <<>> /\ Head(Tail(todo[t])) = todo[t][2]
  <2>0. PICK n \in Nat \ {0} : n = Len(todo[t]) /\ Len(Tail(todo[t])) = n - 1 /\ n # 1
    BY <1>4, <1>5
  <2>1. Len(Tail(todo[t])) # 0 /\ 1 \in 1 .. Len(todo[t]) - 1
    <3>0. \A k \in Nat \ {0} : k # 1 => k - 1 # 0 /\ 1 \in 1 .. k - 1
      OBVIOUS
    <3>1. n - 1 # 0 /\ 1 \in 1 .. n - 1
      BY <2>0, <3>0
    <3>2. QED
      BY <2>0, <3>1
  <2>2. Tail(todo[t]) # <<>>
    BY <2>1, EmptyLength
  <2>3. Head(Tail(todo[t])) = Tail(todo[t])[1]
    BY <1>4, <2>2, HeadAndTail
  <2>4. Tail(todo[t])[1] = todo[t][1 + 1] /\ 1 + 1 = 2
    BY <1>4, <2>1
  <2>5. QED
    BY <2>2, <2>3, <2>4
<1>6. AfterPublish(t, step)
  BY <1>1, <1>5 DEF AfterPublish
<1>7. QED
  BY <1>2, <1>6 DEF Publish, connectionVars

LEMMA AppendEventDoes ==
  ASSUME TypeInv, NEW t \in Threads, AppendEvent(t)
  PROVE  /\ pc[t] = "append" /\ entity[t] \in Entities /\ todo[t] = <<>>
         /\ Moves(t, "announce", entity[t], <<>>)
         /\ lock = None /\ lock' = t
         /\ working' \in Database /\ working'.rows = working.rows
         /\ working'.events = Append(working.events, entity[t])
         /\ UNCHANGED <<durable, kept, torn, clock, past, clientVars>>
<1>1. working \in Database
  BY DEF TypeInv, TypeOK
<1>2. pc[t] = "append" /\ entity[t] \in Entities /\ todo[t] = <<>>
  BY DEF AppendEvent, TypeInv, Serving, Busy, Writing
<1>3. working' = [working EXCEPT !.events = Append(@, entity[t])]
  BY DEF AppendEvent, Execute
<1>4. working'.rows = working.rows /\ working'.events = Append(working.events, entity[t])
  BY <1>1, <1>3, InDatabase
<1>5. working' \in Database
  <2>1. working.events \in Seq(Entities) /\ working.rows \in Rows
    BY <1>1, InDatabase
  <2>2. Append(working.events, entity[t]) \in Seq(Entities)
    BY <1>2, <2>1
  <2>3. PICK events : events = Append(working.events, entity[t])
    OBVIOUS
  <2>4. working' = [working EXCEPT !.events = events]
    BY <1>3, <2>3
  <2>5. events \in Seq(Entities)
    BY <2>2, <2>3
  <2>6. QED
    BY <1>1, <2>4, <2>5 DEF Database
<1>6. Moves(t, "announce", entity[t], <<>>)
  BY <1>2 DEF AppendEvent, Goto, Moves, TypeInv, TypeOK
<1>7. QED
  BY <1>2, <1>4, <1>5, <1>6 DEF AppendEvent, Execute

LEMMA CommitEventDoes ==
  ASSUME TypeInv, NEW t \in Threads, CommitEvent(t)
  PROVE  /\ pc[t] = "announce" /\ Moves(t, "idle", None, <<>>)
         /\ durable' = working /\ lock' = (IF lock = t THEN None ELSE lock)
         /\ UNCHANGED <<working, kept, torn, clock, past, clientVars>>
BY DEF CommitEvent, Commit, Finish, Goto, Moves

LEMMA WriteFailsDoes ==
  ASSUME TypeInv, NEW t \in Threads, WriteFails(t)
  PROVE  /\ pc[t] \in {"write", "append", "commit", "announce"}
         /\ Moves(t, "idle", None, <<>>)
         /\ working' = durable /\ lock' = (IF lock = t THEN None ELSE lock)
         /\ torn' = (torn \/ \E u \in Threads \ {t} : pc[u] \in Uncommitted)
         /\ UNCHANGED <<durable, kept, clock, past, clientVars>>
BY DEF WriteFails, Rollback, Finish, Goto, Moves, Uncommitted

-----------------------------------------------------------------------------
(* What the steps of a client do.                                          *)
serverVars == <<working, durable, kept, lock, pc, entity, todo, clock, past, torn>>

LEMMA LeftType ==
  ASSUME TypeInv, NEW c \in Clients
  PROVE  /\ left[c] \in Seq(Marks)
         /\ IsEnd(left[c], SnapshotPlan) \/ IsEnd(left[c], PollPlan)
BY DEF TypeInv, TypeOK, Planned, Marks

LEMMA BeginDoes ==
  ASSUME NEW c \in Clients, NEW reads, NEW answer, Begin(c, reads, answer)
  PROVE  /\ left[c] = <<>> /\ left' = [left EXCEPT ![c] = Append(reads, answer)]
         /\ UNCHANGED <<serverVars, view, base, since, given, polled>>
BY DEF Begin, serverVars, threadVars, connectionVars

LEMMA ReadDoes ==
  ASSUME TypeInv, NEW c \in Clients, NEW what, Read(c, what)
  PROVE  /\ left[c] \in Seq(Marks) /\ left[c] # <<>>
         /\ Head(left[c]) = left[c][1] /\ left[c][1] \in what
         /\ left' = [left EXCEPT ![c] = Tail(left[c])]
         /\ Tail(left[c]) \in Seq(Marks)
         /\ Range(left[c]) = {left[c][1]} \union Range(Tail(left[c]))
         /\ IsEnd(left[c], SnapshotPlan) \/ IsEnd(left[c], PollPlan)
         /\ UNCHANGED <<serverVars, asked>>
<1>1. left[c] \in Seq(Marks) /\ left[c] # <<>>
  BY LeftType DEF Read
<1>2. /\ Head(left[c]) = left[c][1] /\ Tail(left[c]) \in Seq(Marks)
  BY <1>1, HeadAndTail
<1>3. Range(left[c]) = {left[c][1]} \union Range(Tail(left[c]))
  BY <1>1, RangeOfTail
<1>4. QED
  BY <1>1, <1>2, <1>3, LeftType DEF Read, serverVars, connectionVars, threadVars

LEMMA ReadSectionDoes ==
  ASSUME TypeInv, NEW c \in Clients, ReadSection(c)
  PROVE  LET s == left[c][1] IN
         /\ s \in Viewed /\ Read(c, Viewed) /\ (s \in Guarded => lock = None)
         /\ IsEnd(left[c], SnapshotPlan)
         /\ view' = [view EXCEPT ![c] = [@ EXCEPT ![s] =
              {e \in Source(s) : IF s = "plan_usage" THEN Counted(c, e) ELSE Selected(c, s, e)}]]
         /\ UNCHANGED <<base, since, given, polled>>
<1>1. Read(c, Viewed)
  BY DEF ReadSection
<1>2. left[c] \in Seq(Marks) /\ left[c] # <<>> /\ Head(left[c]) = left[c][1] /\ left[c][1] \in Viewed
  BY <1>1, ReadDoes
<1>3. IsEnd(left[c], SnapshotPlan)
  <2> SUFFICES ASSUME IsEnd(left[c], PollPlan) PROVE FALSE
    BY LeftType
  <2>1. left[c][1] \in {"revision", "events", "poll"}
    BY <1>2, PollEnds, RangeOfTail
  <2>2. QED
    BY <1>2, <2>1, SectionsAre
<1>4. QED
  BY <1>1, <1>2, <1>3 DEF ReadSection

LEMMA ReadRevisionDoes ==
  ASSUME TypeInv, NEW c \in Clients, ReadRevision(c)
  PROVE  /\ Read(c, {"revision"}) /\ lock = None
         /\ given' = [given EXCEPT ![c] = VisibleRevision(c)]
         /\ VisibleRevision(c) \in Nat /\ VisibleRevision(c) <= Len(working.events)
         /\ UNCHANGED <<view, base, since, polled>>
BY RevisionIs DEF ReadRevision, TypeInv

LEMMA ReadEventsDoes ==
  ASSUME TypeInv, NEW c \in Clients, ReadEvents(c)
  PROVE  /\ Read(c, {"events"}) /\ lock = None
         /\ polled' = [polled EXCEPT ![c] =
              @ \union {<<i, working.events[i]>> : i \in Since(c, since[c])}]
         /\ UNCHANGED <<view, base, since, given>>
BY DEF ReadEvents

LEMMA AnswerSnapshotDoes ==
  ASSUME TypeInv, NEW c \in Clients, AnswerSnapshot(c)
  PROVE  /\ Read(c, {"snapshot"}) /\ IsEnd(left[c], SnapshotPlan) /\ Tail(left[c]) = <<>>
         /\ base' = [base EXCEPT ![c] = given[c]] /\ since' = [since EXCEPT ![c] = given[c]]
         /\ polled' = [polled EXCEPT ![c] = {}]
         /\ UNCHANGED <<view, given>>
<1>1. Read(c, {"snapshot"})
  BY DEF AnswerSnapshot
<1>2. left[c] \in Seq(Marks) /\ left[c] # <<>> /\ left[c][1] = "snapshot"
  BY <1>1, ReadDoes
<1>3. IsEnd(left[c], SnapshotPlan)
  <2> SUFFICES ASSUME IsEnd(left[c], PollPlan) PROVE FALSE
    BY LeftType
  <2>1. left[c][1] \in {"revision", "events", "poll"}
    BY <1>2, PollEnds, RangeOfTail
  <2>2. QED
    BY <1>2, <2>1
<1>4. Tail(left[c]) = <<>>
  BY <1>2, <1>3, SnapshotEnds
<1>5. QED
  BY <1>1, <1>3, <1>4 DEF AnswerSnapshot

LEMMA AnswerPollDoes ==
  ASSUME TypeInv, NEW c \in Clients, AnswerPoll(c)
  PROVE  /\ Read(c, {"poll"}) /\ Range(left[c]) = {"poll"} /\ Tail(left[c]) = <<>>
         /\ since' = [since EXCEPT ![c] = given[c]]
         /\ UNCHANGED <<view, base, given, polled>>
<1>1. Read(c, {"poll"})
  BY DEF AnswerPoll
<1>2. left[c] \in Seq(Marks) /\ left[c] # <<>> /\ left[c][1] = "poll"
  BY <1>1, ReadDoes
<1>3. IsEnd(left[c], PollPlan)
  <2> SUFFICES ASSUME IsEnd(left[c], SnapshotPlan) PROVE FALSE
    BY LeftType
  <2>1. "poll" \notin Range(left[c])
    BY <1>2, SnapshotEnds, SectionsAre
  <2>2. QED
    BY <1>2, <2>1, RangeOfTail
<1>4. Tail(left[c]) = <<>> /\ Range(left[c]) = {"poll"}
  BY <1>2, <1>3, PollEnds
<1>5. QED
  BY <1>1, <1>4 DEF AnswerPoll

-----------------------------------------------------------------------------
(* The type invariant.                                                     *)
LEMMA ServeTypes ==
  ASSUME TypeInv, NEW t \in Threads, Serve(t)
  PROVE  TypeInv' /\ UNCHANGED <<past, clientVars>>
<1> DEFINE Fits(step, e, rest) ==
             /\ step \in Steps /\ rest \in Seq(Sections)
             /\ step # "idle" => e \in Entities /\ Range(rest) \subseteq Range(Writes(e.kind))
             /\ step = "idle" => e = None
             /\ step \in Writing <=> rest # <<>>
             /\ InOrder(rest)
<1>0. /\ pc \in [Threads -> Steps] /\ entity \in [Threads -> Entities \union {None}]
      /\ todo \in [Threads -> Seq(Sections)]
  BY DEF TypeInv, TypeOK
<1>f. ASSUME NEW step, NEW e, NEW rest, Moves(t, step, e, rest), Fits(step, e, rest)
      PROVE  /\ pc' \in [Threads -> Steps] /\ entity' \in [Threads -> Entities \union {None}]
             /\ todo' \in [Threads -> Seq(Sections)]
             /\ Serving'
  <2>1. /\ pc' \in [Threads -> Steps] /\ entity' \in [Threads -> Entities \union {None}]
        /\ todo' \in [Threads -> Seq(Sections)]
    BY <1>0, <1>f DEF Moves
  <2>2. /\ pc'[t] = step /\ entity'[t] = e /\ todo'[t] = rest
        /\ \A u \in Threads \ {t} : pc'[u] = pc[u] /\ entity'[u] = entity[u] /\ todo'[u] = todo[u]
    BY <1>0, <1>f DEF Moves
  <2>3. Serving'
    BY <1>f, <2>2 DEF Serving, Busy, TypeInv, Writing
  <2>4. QED
    BY <2>1, <2>3
<1>g. ASSUME working' \in Database, durable' \in Database, kept' \in Rows,
             lock' \in Threads \union {None}, clock' \in 0 .. MaxChanges, torn' \in BOOLEAN,
             UNCHANGED <<past, clientVars>>,
             NEW step, NEW e, NEW rest, Moves(t, step, e, rest), Fits(step, e, rest)
      PROVE  TypeInv' /\ UNCHANGED <<past, clientVars>>
  <2>1. UNCHANGED <<left, view, base, since, given, polled, asked>>
    BY <1>g DEF clientVars
  <2>2. TypeOK'
    BY <1>f, <1>g, <2>1 DEF TypeInv, TypeOK
  <2>3. Planned'
    BY <2>1 DEF TypeInv, Planned
  <2>4. QED
    BY <1>f, <1>g, <2>2, <2>3 DEF TypeInv
<1> HIDE DEF Fits
<1>k. /\ working \in Database /\ durable \in Database /\ kept \in Rows
      /\ lock \in Threads \union {None} /\ clock \in 0 .. MaxChanges /\ torn \in BOOLEAN
  BY DEF TypeInv, TypeOK
<1>e. Fits("idle", None, <<>>)
  BY DEF Fits, Steps, Writing, InOrder
<1>1. ASSUME NEW change \in Changes, Receive(t, change)
      PROVE  TypeInv' /\ UNCHANGED <<past, clientVars>>
  <2>1. PICK e \in Entities : Moves(t, "write", e, Writes(e.kind))
    BY <1>1, ReceiveDoes
  <2>2. e.kind \in Kinds
    BY DEF Entities
  <2>3. Fits("write", e, Writes(e.kind))
    BY <2>2, WritesType, WritesOrdered DEF Fits, Steps, Writing
  <2>4. clock' \in 0 .. MaxChanges
    BY <1>1, <1>k, FeedAssumption, ReceiveDoes
  <2>5. UNCHANGED <<working, durable, kept, lock, past, torn, clientVars>>
    BY <1>1, ReceiveDoes
  <2>6. QED
    BY <1>g, <1>k, <2>1, <2>3, <2>4, <2>5
<1>2. CASE WriteSection(t)
  <2>1. Fits("commit", entity[t], todo[t])
    BY <1>2, WriteSectionDoes, TodoHead DEF Fits, Steps, Writing, Uncommitted, TypeInv, Serving
  <2>2. QED
    BY <1>2, <1>g, <1>k, <2>1, WriteSectionDoes
<1>3. CASE CommitSection(t)
  <2>1. Fits("publish", entity[t], todo[t])
    BY <1>3, CommitSectionDoes, TodoHead DEF Fits, Steps, Writing, Uncommitted, TypeInv, Serving
  <2>2. QED
    BY <1>3, <1>g, <1>k, <2>1, CommitSectionDoes
<1>4. CASE Publish(t)
  <2>1. pc[t] = "publish"
    BY <1>4, PublishDoes
  <2>2. /\ todo[t] \in Seq(Sections) /\ todo[t] # <<>> /\ entity[t] \in Entities
        /\ Head(todo[t]) \in Sections /\ InOrder(todo[t])
        /\ Range(Tail(todo[t])) \subseteq Range(Writes(entity[t].kind))
    BY <2>1, TodoHead DEF Writing, TypeInv, Serving
  <2>3. /\ Tail(todo[t]) \in Seq(Sections) /\ InOrder(Tail(todo[t]))
        /\ Tail(todo[t]) = <<>> <=> Len(todo[t]) = 1
    <3>1. Tail(todo[t]) \in Seq(Sections) /\ InOrder(Tail(todo[t]))
      BY <2>2, HeadAndTail, TailOrdered
    <3>2. Len(Tail(todo[t])) = Len(todo[t]) - 1 /\ Len(todo[t]) \in Nat
      BY <2>2, HeadAndTail
    <3>3. Tail(todo[t]) = <<>> <=> Len(Tail(todo[t])) = 0
      <4>1. Tail(todo[t]) = <<>> => Len(Tail(todo[t])) = 0
        BY EmptyLength
      <4>2. Len(Tail(todo[t])) = 0 => Tail(todo[t]) = <<>>
        BY <3>1, NotEmpty
      <4>3. QED
        BY <4>1, <4>2
    <3>4. QED
      BY <3>1, <3>2, <3>3
  <2>6. PICK step : Moves(t, step, entity[t], Tail(todo[t])) /\ AfterPublish(t, step)
    BY <1>4, PublishDoes
  <2>4. Fits(step, entity[t], Tail(todo[t]))
    BY <2>2, <2>3, <2>6 DEF Fits, Steps, Writing, AfterPublish
  <2>5. kept' \in Rows
    BY <1>4, <1>k, <2>2, PublishDoes DEF Rows
  <2>7. UNCHANGED <<working, durable, lock, torn, clock, past, clientVars>>
    BY <1>4, PublishDoes
  <2>8. QED
    BY <1>g, <1>k, <2>4, <2>5, <2>6, <2>7
<1>5. CASE AppendEvent(t)
  <2>1. Fits("announce", entity[t], <<>>)
    BY <1>5, AppendEventDoes DEF Fits, Steps, Writing, Uncommitted, InOrder, Range
  <2>2. QED
    BY <1>5, <1>g, <1>k, <2>1, AppendEventDoes
<1>6. CASE CommitEvent(t)
  BY <1>6, <1>g, <1>k, <1>e, CommitEventDoes
<1>7. CASE WriteFails(t)
  BY <1>7, <1>g, <1>k, <1>e, WriteFailsDoes
<1>8. QED
  BY <1>1, <1>2, <1>3, <1>4, <1>5, <1>6, <1>7 DEF Serve

LEMMA FollowTypes ==
  ASSUME TypeInv, NEW c \in Clients, Follow(c)
  PROVE  TypeInv' /\ UNCHANGED serverVars
<1>0. /\ left \in [Clients -> Seq(Marks)] /\ view \in [Clients -> Views]
      /\ base \in [Clients -> Nat] /\ since \in [Clients -> Nat] /\ given \in [Clients -> Nat]
      /\ polled \in [Clients -> SUBSET (Nat \X Entities)] /\ asked \in [Clients -> Nat]
      /\ working \in Database /\ durable \in Database /\ kept \in Rows
  BY DEF TypeInv, TypeOK, Marks
<1>f. ASSUME NEW rest \in Seq(Marks), IsEnd(rest, SnapshotPlan) \/ IsEnd(rest, PollPlan),
             left' = [left EXCEPT ![c] = rest], UNCHANGED serverVars,
             view' \in [Clients -> Views], base' \in [Clients -> Nat], since' \in [Clients -> Nat],
             given' \in [Clients -> Nat], polled' \in [Clients -> SUBSET (Nat \X Entities)],
             asked' \in [Clients -> Nat]
      PROVE  TypeInv' /\ UNCHANGED serverVars
  <2>1. UNCHANGED <<working, durable, kept, lock, pc, entity, todo, clock, past, torn>>
    BY <1>f DEF serverVars
  <2>2. left' \in [Clients -> Seq(Marks)]
    BY <1>0, <1>f
  <2>3. TypeOK'
    BY <1>f, <2>1, <2>2 DEF TypeInv, TypeOK, Marks
  <2>4. Planned'
    BY <1>0, <1>f DEF TypeInv, Planned
  <2>5. Serving'
    BY <2>1 DEF TypeInv, Serving, Busy
  <2>6. QED
    BY <1>f, <2>3, <2>4, <2>5 DEF TypeInv
<1>r. ASSUME NEW what, Read(c, what),
             view' \in [Clients -> Views], base' \in [Clients -> Nat], since' \in [Clients -> Nat],
             given' \in [Clients -> Nat], polled' \in [Clients -> SUBSET (Nat \X Entities)]
      PROVE  TypeInv' /\ UNCHANGED serverVars
  <2>1. /\ left[c] \in Seq(Marks) /\ left[c] # <<>> /\ Tail(left[c]) \in Seq(Marks)
        /\ left' = [left EXCEPT ![c] = Tail(left[c])] /\ UNCHANGED <<serverVars, asked>>
        /\ IsEnd(left[c], SnapshotPlan) \/ IsEnd(left[c], PollPlan)
    BY <1>r, ReadDoes
  <2>2. IsEnd(Tail(left[c]), SnapshotPlan) \/ IsEnd(Tail(left[c]), PollPlan)
    BY <2>1, EndOfTail, PlansAre
  <2>3. QED
    BY <1>0, <1>f, <1>r, <2>1, <2>2
<1>1. CASE GetSnapshot(c)
  <2>1. Begin(c, SnapshotReads, "snapshot")
    BY <1>1 DEF GetSnapshot
  <2>2. /\ left' = [left EXCEPT ![c] = SnapshotPlan]
        /\ UNCHANGED <<serverVars, view, base, since, given, polled>>
    BY <2>1, BeginDoes DEF SnapshotPlan
  <2>3. asked' \in [Clients -> Nat]
    <3>1. durable.events \in Seq(Entities)
      BY <1>0, InDatabase
    <3>2. Len(durable.events) \in Nat
      BY <3>1
    <3>3. QED
      BY <1>0, <1>1, <3>2 DEF GetSnapshot
  <2>4. QED
    BY <1>0, <1>f, <2>2, <2>3, PlansAre, PlansBegin
<1>2. CASE GetEvents(c)
  <2>1. Begin(c, PollReads, "poll")
    BY <1>2 DEF GetEvents
  <2>2. /\ left' = [left EXCEPT ![c] = PollPlan]
        /\ UNCHANGED <<serverVars, view, base, since, given, polled, asked>>
    BY <1>2, <2>1, BeginDoes DEF PollPlan, GetEvents
  <2>3. QED
    BY <1>0, <1>f, <2>2, PlansAre, PlansBegin
<1>3. CASE ReadSection(c)
  <2> DEFINE s == left[c][1]
             shown == {e \in Source(s) : IF s = "plan_usage" THEN Counted(c, e)
                                        ELSE Selected(c, s, e)}
  <2>1. /\ Read(c, Viewed) /\ s \in Viewed
        /\ view' = [view EXCEPT ![c] = [@ EXCEPT ![s] = shown]]
        /\ UNCHANGED <<base, since, given, polled>>
    BY <1>3, ReadSectionDoes
  <2>2. shown \in SUBSET Entities
    <3>1. Source(s) \in SUBSET Entities
      BY <1>0, <2>1, InDatabase, SectionsAre DEF Source, Rows
    <3>2. QED
      BY <3>1
  <2> HIDE DEF s, shown
  <2>3. view' \in [Clients -> Views]
    BY <1>0, <2>1, <2>2 DEF Views
  <2>4. QED
    BY <1>0, <1>r, <2>1, <2>3
<1>4. CASE ReadRevision(c)
  BY <1>0, <1>4, <1>r, ReadRevisionDoes
<1>5. CASE ReadEvents(c)
  <2>1. working.events \in Seq(Entities)
    BY <1>0, InDatabase
  <2>2. {<<i, working.events[i]>> : i \in Since(c, since[c])} \subseteq Nat \X Entities
    BY <2>1 DEF Since
  <2>3. polled' \in [Clients -> SUBSET (Nat \X Entities)]
    BY <1>0, <1>5, <2>2, ReadEventsDoes
  <2>4. QED
    BY <1>0, <1>5, <1>r, <2>3, ReadEventsDoes
<1>6. CASE AnswerSnapshot(c)
  BY <1>0, <1>6, <1>r, AnswerSnapshotDoes
<1>7. CASE AnswerPoll(c)
  BY <1>0, <1>7, <1>r, AnswerPollDoes
<1>8. QED
  BY <1>1, <1>2, <1>3, <1>4, <1>5, <1>6, <1>7 DEF Follow

LEMMA EmptyEnds == IsEnd(<<>>, SnapshotPlan) /\ IsEnd(<<>>, PollPlan) /\ Range(<<>>) = {}
BY PlansAre DEF IsEnd, Range

LEMMA TypeInductive == TypeInv /\ [Next]_vars => TypeInv'
<1> SUFFICES ASSUME TypeInv, [Next]_vars PROVE TypeInv'
  OBVIOUS
<1>1. CASE Restart
  <2>1. working \in Database /\ durable \in Database
    BY DEF TypeInv, TypeOK
  <2>2. TypeOK'
    <3>1. NoView \in Views
      BY DEF NoView, Views
    <3>2. working' \in Database /\ durable' \in Database
      BY <1>1, <2>1 DEF Restart, Rollback
    <3>3. kept' \in Rows
      <4>1. kept' = [s \in Sections |-> IF s \in Kept THEN durable.rows[s] ELSE {}]
        BY <1>1 DEF Restart
      <4>2. QED
        BY <2>1, <4>1, InDatabase DEF Rows
    <3>4. left' \in [Clients -> Seq(Viewed \union Answers)]
      BY <1>1 DEF Restart
    <3>5. /\ todo' \in [Threads -> Seq(Sections)] /\ pc' \in [Threads -> Steps]
          /\ entity' \in [Threads -> Entities \union {None}] /\ lock' \in Threads \union {None}
      BY <1>1 DEF Restart, Steps
    <3>6. /\ clock' \in 0 .. MaxChanges /\ past' \subseteq Entities /\ torn' \in BOOLEAN
          /\ given' \in [Clients -> Nat]
      BY <1>1 DEF Restart, TypeInv, TypeOK
    <3>7. /\ view' \in [Clients -> Views] /\ base' \in [Clients -> Nat] /\ since' \in [Clients -> Nat]
          /\ polled' \in [Clients -> SUBSET (Nat \X Entities)] /\ asked' \in [Clients -> Nat]
      BY <1>1, <3>1 DEF Restart, TypeInv, TypeOK
    <3>8. QED
      BY <3>2, <3>3, <3>4, <3>5, <3>6, <3>7 DEF TypeOK
  <2>3. Serving'
    BY <1>1, EmptyEnds DEF Restart, Serving, Busy, Writing, InOrder
  <2>4. Planned'
    BY <1>1, EmptyEnds DEF Restart, Planned
  <2>5. QED
    BY <2>2, <2>3, <2>4 DEF TypeInv
<1>2. ASSUME NEW t \in Threads, Serve(t) PROVE TypeInv'
  BY <1>2, ServeTypes
<1>3. ASSUME NEW c \in Clients, Follow(c) PROVE TypeInv'
  BY <1>3, FollowTypes
<1>4. CASE UNCHANGED vars
  BY <1>4 DEF vars, connectionVars, threadVars, clientVars, TypeInv, TypeOK, Serving, Busy, Planned
<1>5. CASE NextMonth
  <2>1. UNCHANGED <<working, durable, kept, lock, pc, entity, todo, clock, left, view, base, since,
                    given, polled, asked, torn>>
    BY <1>5 DEF NextMonth, connectionVars, threadVars, clientVars
  <2>2. past' \subseteq Entities
    <3>1. PICK dated \in SUBSET {t \in Threads : pc[t] = "write" /\ Head(todo[t]) = "plan_usage"} :
            past' = past \union working.rows["plan_usage"] \union {entity[t] : t \in dated}
      BY <1>5 DEF NextMonth
    <3>2. past \subseteq Entities /\ working.rows["plan_usage"] \in SUBSET Entities
      BY InDatabase, SectionsAre DEF TypeInv, TypeOK
    <3>3. \A t \in dated : entity[t] \in Entities
      BY DEF TypeInv, Serving, Busy
    <3>4. QED
      BY <3>1, <3>2, <3>3
  <2>3. QED
    BY <2>1, <2>2 DEF TypeInv, TypeOK, Serving, Busy, Planned
<1>6. QED
  BY <1>1, <1>2, <1>3, <1>4, <1>5 DEF Next

LEMMA TypeInit == Init => TypeInv
<1> SUFFICES ASSUME Init PROVE TypeInv
  OBVIOUS
<1>1. EmptyDatabase \in Database /\ NoRows \in Rows
  BY DEF EmptyDatabase, Database, NoRows, Rows
<1>2. TypeOK
  <2>1. working \in Database /\ durable \in Database /\ kept \in Rows
    BY <1>1 DEF Init
  <2>2. clock \in 0 .. MaxChanges
    BY FeedAssumption DEF Init
  <2>3. /\ todo \in [Threads -> Seq(Sections)]
        /\ left \in [Clients -> Seq(Viewed \union Answers)]
    BY DEF Init
  <2>4. view \in [Clients -> Views]
    BY DEF Init, NoView, Views
  <2>5. QED
    BY <2>1, <2>2, <2>3, <2>4 DEF Init, TypeOK, Steps
<1>3. Serving
  BY EmptyEnds DEF Init, Serving, Busy, Writing, InOrder
<1>4. Planned
  BY EmptyEnds DEF Init, Planned
<1>5. QED
  BY <1>2, <1>3, <1>4 DEF TypeInv

LEMMA TypeInvHolds == Spec => []TypeInv
BY TypeInit, TypeInductive, PTL DEF Spec

(* The tables, the dictionaries, the threads and what the clients hold     *)
(* stay well formed, whatever overlaps, fails or restarts: in particular a *)
(* revision that is answered is a number also when there is no event.      *)
THEOREM TypeCorrect == Spec => []TypeOK
BY TypeInvHolds, PTL DEF TypeInv

-----------------------------------------------------------------------------
(* Only the thread that holds the lock has an event that is not committed, *)
(* and the events that are committed stay where they are.                  *)
Holding(t) == pc[t] = "announce" \/ (pc[t] = "commit" /\ Head(todo[t]) \in Guarded)
LockHeld == \A t \in Threads : lock = t <=> Holding(t)
OneEventAhead ==
  \/ working.events = durable.events
  \/ lock \in Threads /\ working.events = Append(durable.events, entity[lock])

(* A revision that a client has is one of an event that is committed.      *)
RevisionsStored ==
  \A c \in Clients :
    \A revision \in {base[c], since[c], given[c]} : revision <= Len(durable.events)

(* A client was told of the events of its audience, up to a revision.      *)
Told(c, revision) ==
  \A i \in DOMAIN durable.events :
    base[c] < i /\ i <= revision /\ durable.events[i].audience = c
      => <<i, durable.events[i]>> \in polled[c]
PollDone(c) == "poll" \in Range(left[c]) /\ "events" \notin Range(left[c])
Polled ==
  \A c \in Clients :
    /\ polled[c] \subseteq {<<i, durable.events[i]>> : i \in DOMAIN durable.events}
    /\ Told(c, since[c])
    /\ PollDone(c) => Told(c, given[c])

FeedInv == LockHeld /\ OneEventAhead /\ RevisionsStored /\ Polled

LEMMA EventsType ==
  ASSUME TypeInv
  PROVE  /\ working.events \in Seq(Entities) /\ durable.events \in Seq(Entities)
         /\ Len(working.events) \in Nat /\ Len(durable.events) \in Nat
         /\ DOMAIN working.events = 1 .. Len(working.events)
         /\ DOMAIN durable.events = 1 .. Len(durable.events)
<1>1. working.events \in Seq(Entities) /\ durable.events \in Seq(Entities)
  BY DEF TypeInv, TypeOK, Database
<1>2. QED
  BY <1>1

(* The committed events only grow.                                         *)
Grows(old, new) ==
  Len(old) <= Len(new) /\ \A i \in 1 .. Len(old) : new[i] = old[i]

LEMMA WorkingGrown ==
  ASSUME TypeInv, FeedInv
  PROVE  Grows(durable.events, working.events)
<1>1. CASE working.events = durable.events
  BY <1>1, EventsType DEF Grows
<1>2. CASE lock \in Threads /\ working.events = Append(durable.events, entity[lock])
  <2>1. pc[lock] \in {"announce", "commit"}
    BY <1>2 DEF FeedInv, LockHeld, Holding
  <2>2. entity[lock] \in Entities
    BY <1>2, <2>1 DEF TypeInv, Serving, Busy
  <2>3. QED
    BY <1>2, <2>2, EventsType DEF Grows
<1>3. QED
  BY <1>1, <1>2 DEF FeedInv, OneEventAhead

(* What clients were told stays true while events are added.               *)
LEMMA PolledKept ==
  ASSUME TypeInv, TypeInv', FeedInv, UNCHANGED clientVars,
         Grows(durable.events, durable'.events)
  PROVE  RevisionsStored' /\ Polled'
<1>0. UNCHANGED <<left, base, since, given, polled>>
  BY DEF clientVars
<1>1. /\ DOMAIN durable.events = 1 .. Len(durable.events) /\ Len(durable.events) \in Nat
      /\ DOMAIN durable'.events = 1 .. Len(durable'.events) /\ Len(durable'.events) \in Nat
      /\ Len(durable.events) <= Len(durable'.events)
  <2>1. /\ durable.events \in Seq(Entities) /\ durable'.events \in Seq(Entities)
    BY DEF TypeInv, TypeOK, Database
  <2>2. QED
    BY <2>1 DEF Grows
<1>2. \A i \in DOMAIN durable.events : i \in DOMAIN durable'.events /\ durable'.events[i] = durable.events[i]
  BY <1>1 DEF Grows
<1>3. \A c \in Clients : base[c] \in Nat /\ since[c] \in Nat /\ given[c] \in Nat
  BY DEF TypeInv, TypeOK
<1>4. RevisionsStored'
  BY <1>0, <1>1, <1>3 DEF FeedInv, RevisionsStored
<1>5. ASSUME NEW c \in Clients, NEW revision \in Nat, revision <= Len(durable.events),
             Told(c, revision), NEW i \in DOMAIN durable'.events,
             base[c] < i, i <= revision, durable'.events[i].audience = c
      PROVE  <<i, durable'.events[i]>> \in polled[c]
  <2>1. i \in DOMAIN durable.events
    BY <1>1, <1>3, <1>5
  <2>2. QED
    BY <1>2, <1>5, <2>1 DEF Told
<1>6. ASSUME NEW c \in Clients
      PROVE  /\ polled[c] \subseteq {<<i, durable'.events[i]>> : i \in DOMAIN durable'.events}
             /\ Told(c, since[c])'
             /\ PollDone(c) => Told(c, given[c])'
  <2>1. polled[c] \subseteq {<<i, durable.events[i]>> : i \in DOMAIN durable.events}
    BY DEF FeedInv, Polled
  <2>2. polled[c] \subseteq {<<i, durable'.events[i]>> : i \in DOMAIN durable'.events}
    BY <1>2, <2>1
  <2>3. since[c] <= Len(durable.events) /\ given[c] <= Len(durable.events)
    BY DEF FeedInv, RevisionsStored
  <2>4. Told(c, since[c]) /\ (PollDone(c) => Told(c, given[c]))
    BY DEF FeedInv, Polled
  <2>5. Told(c, since[c])'
    BY <1>0, <1>3, <1>5, <2>3, <2>4 DEF Told
  <2>6. PollDone(c) => Told(c, given[c])'
    BY <1>0, <1>3, <1>5, <2>3, <2>4 DEF Told
  <2>7. QED
    BY <2>2, <2>5, <2>6
<1>7. Polled'
  BY <1>0, <1>6 DEF Polled, PollDone
<1>8. QED
  BY <1>4, <1>7

LEMMA FeedServe ==
  ASSUME TypeInv, TypeInv', FeedInv, NEW t \in Threads, Serve(t)
  PROVE  FeedInv' /\ Grows(durable.events, durable'.events)
<1>0. /\ pc \in [Threads -> Steps] /\ entity \in [Threads -> Entities \union {None}]
      /\ todo \in [Threads -> Seq(Sections)]
      /\ None \notin Threads /\ LockHeld /\ OneEventAhead /\ UNCHANGED clientVars
  BY FeedAssumption, ServeTypes DEF TypeInv, TypeOK, FeedInv
<1>g. Grows(durable.events, durable.events) /\ Grows(durable.events, working.events)
  BY EventsType, WorkingGrown DEF Grows
(* Steps of threads that do not hold the lock.                             *)
<1>a. ASSUME NEW step, NEW e, NEW rest, Moves(t, step, e, rest), lock' = lock,
             ~Holding(t), step # "announce", step # "commit" \/ Head(rest) \notin Guarded,
             \/ working'.events = working.events /\ durable'.events = durable.events
             \/ working'.events = durable'.events /\ Grows(durable.events, durable'.events)
      PROVE  FeedInv' /\ Grows(durable.events, durable'.events)
  <2>0. /\ pc'[t] = step /\ todo'[t] = rest
        /\ \A u \in Threads \ {t} : pc'[u] = pc[u] /\ entity'[u] = entity[u] /\ todo'[u] = todo[u]
    BY <1>0, <1>a DEF Moves
  <2>1. LockHeld'
    BY <1>0, <1>a, <2>0 DEF LockHeld, Holding
  <2>2. Grows(durable.events, durable'.events)
    BY <1>a, <1>g
  <2>3. RevisionsStored' /\ Polled'
    BY <1>0, <2>2, PolledKept
  <2>4. OneEventAhead'
    <3>1. CASE working.events = durable.events \/ working'.events = durable'.events
      BY <1>a, <3>1 DEF OneEventAhead
    <3>2. CASE lock \in Threads /\ working.events = Append(durable.events, entity[lock])
      <4>1. entity'[lock] = entity[lock]
        BY <1>0, <1>a, <2>0, <3>2 DEF LockHeld
      <4>2. QED
        BY <1>a, <3>2, <4>1 DEF OneEventAhead
    <3>3. QED
      BY <1>0, <3>1, <3>2 DEF OneEventAhead
  <2>5. QED
    BY <2>1, <2>2, <2>3, <2>4 DEF FeedInv
<1>1. ASSUME NEW change \in Changes, Receive(t, change)
      PROVE  FeedInv' /\ Grows(durable.events, durable'.events)
  <2>1. PICK e \in Entities : Moves(t, "write", e, Writes(e.kind))
    BY <1>1, ReceiveDoes
  <2>2. pc[t] = "idle" /\ UNCHANGED <<working, durable, lock>>
    BY <1>1, ReceiveDoes
  <2>3. ~Holding(t)
    BY <2>2 DEF Holding
  <2>4. QED
    BY <1>a, <2>1, <2>2, <2>3
<1>2. CASE WriteSection(t)
  <2>1. /\ pc[t] = "write" /\ Moves(t, "commit", entity[t], todo[t])
        /\ working'.events = working.events /\ UNCHANGED durable
        /\ Head(todo[t]) \in Guarded => lock = None
        /\ lock' = (IF Head(todo[t]) \in Guarded THEN t ELSE lock)
    BY <1>2, WriteSectionDoes DEF Adds
  <2>2. CASE Head(todo[t]) \notin Guarded
    <3>1. ~Holding(t) /\ lock' = lock
      BY <2>1, <2>2 DEF Holding
    <3>2. QED
      BY <1>a, <2>1, <2>2, <3>1
  <2>3. CASE Head(todo[t]) \in Guarded
    <3>1. LockHeld'
      BY <1>0, <2>1, <2>3 DEF Moves, LockHeld, Holding
    <3>2. working.events = durable.events
      BY <1>0, <2>1, <2>3 DEF OneEventAhead
    <3>3. OneEventAhead'
      BY <2>1, <3>2 DEF OneEventAhead
    <3>4. RevisionsStored' /\ Polled'
      BY <1>0, <1>g, <2>1, PolledKept
    <3>5. QED
      BY <1>g, <2>1, <3>1, <3>3, <3>4 DEF FeedInv
  <2>4. QED
    BY <2>2, <2>3
<1>3. CASE CommitSection(t)
  <2>1. /\ pc[t] = "commit" /\ Moves(t, "publish", entity[t], todo[t])
        /\ durable' = working /\ lock' = (IF lock = t THEN None ELSE lock) /\ UNCHANGED working
    BY <1>3, CommitSectionDoes
  <2>2. LockHeld'
    BY <1>0, <2>1 DEF Moves, LockHeld, Holding
  <2>3. OneEventAhead'
    BY <2>1 DEF OneEventAhead
  <2>4. RevisionsStored' /\ Polled'
    BY <1>0, <1>g, <2>1, PolledKept
  <2>5. QED
    BY <1>g, <2>1, <2>2, <2>3, <2>4 DEF FeedInv
<1>4. CASE Publish(t)
  <2>1. PICK step : /\ Moves(t, step, entity[t], Tail(todo[t]))
                    /\ step \in {"append", "publish", "write"}
    BY <1>4, PublishDoes DEF AfterPublish
  <2>2. pc[t] = "publish" /\ UNCHANGED <<working, durable, lock>>
    BY <1>4, PublishDoes
  <2>3. ~Holding(t)
    BY <2>2 DEF Holding
  <2>4. QED
    BY <1>a, <2>1, <2>2, <2>3
<1>5. CASE AppendEvent(t)
  <2>1. /\ Moves(t, "announce", entity[t], <<>>) /\ pc[t] = "append"
        /\ lock = None /\ lock' = t /\ UNCHANGED durable
        /\ working'.events = Append(working.events, entity[t])
    BY <1>5, AppendEventDoes
  <2>2. LockHeld'
    BY <1>0, <2>1 DEF Moves, LockHeld, Holding
  <2>3. working.events = durable.events
    BY <1>0, <2>1 DEF OneEventAhead
  <2>4. OneEventAhead'
    BY <1>0, <2>1, <2>3 DEF OneEventAhead, Moves
  <2>5. RevisionsStored' /\ Polled'
    BY <1>0, <1>g, <2>1, PolledKept
  <2>6. QED
    BY <1>g, <2>1, <2>2, <2>4, <2>5 DEF FeedInv
<1>6. CASE CommitEvent(t)
  <2>1. /\ Moves(t, "idle", None, <<>>) /\ pc[t] = "announce"
        /\ durable' = working /\ lock' = (IF lock = t THEN None ELSE lock) /\ UNCHANGED working
    BY <1>6, CommitEventDoes
  <2>2. LockHeld'
    BY <1>0, <2>1 DEF Moves, LockHeld, Holding
  <2>3. OneEventAhead'
    BY <2>1 DEF OneEventAhead
  <2>4. RevisionsStored' /\ Polled'
    BY <1>0, <1>g, <2>1, PolledKept
  <2>5. QED
    BY <1>g, <2>1, <2>2, <2>3, <2>4 DEF FeedInv
<1>7. CASE WriteFails(t)
  <2>1. /\ Moves(t, "idle", None, <<>>)
        /\ working' = durable /\ lock' = (IF lock = t THEN None ELSE lock) /\ UNCHANGED durable
    BY <1>7, WriteFailsDoes
  <2>2. LockHeld'
    BY <1>0, <2>1 DEF Moves, LockHeld, Holding
  <2>3. OneEventAhead'
    BY <2>1 DEF OneEventAhead
  <2>4. RevisionsStored' /\ Polled'
    BY <1>0, <1>g, <2>1, PolledKept
  <2>5. QED
    BY <1>g, <2>1, <2>2, <2>3, <2>4 DEF FeedInv
<1>8. QED
  BY <1>1, <1>2, <1>3, <1>4, <1>5, <1>6, <1>7 DEF Serve

LEMMA FeedFollow ==
  ASSUME TypeInv, FeedInv, NEW c \in Clients, Follow(c)
  PROVE  FeedInv'
<1>0. /\ UNCHANGED <<working, durable, lock, pc, entity, todo>>
      /\ LockHeld /\ OneEventAhead /\ Polled
  BY FollowTypes DEF serverVars, FeedInv
<1>1. LockHeld' /\ OneEventAhead'
  BY <1>0 DEF LockHeld, Holding, OneEventAhead
<1>t. /\ left \in [Clients -> Seq(Marks)]
      /\ base \in [Clients -> Nat] /\ since \in [Clients -> Nat] /\ given \in [Clients -> Nat]
      /\ polled \in [Clients -> SUBSET (Nat \X Entities)]
  BY DEF TypeInv, TypeOK, Marks
<1>s. base[c] <= Len(durable.events) /\ since[c] <= Len(durable.events) /\ given[c] <= Len(durable.events)
  BY DEF FeedInv, RevisionsStored
<1> DEFINE Events == {<<i, durable.events[i]>> : i \in DOMAIN durable.events}
           Knows(b, g, set) ==
             \A i \in DOMAIN durable.events :
               b < i /\ i <= g /\ durable.events[i].audience = c => <<i, durable.events[i]>> \in set
(* What the client c has after the step.                                   *)
<1>2. ASSUME NEW rest, NEW b, NEW s, NEW g, NEW set,
             b <= Len(durable.events), s <= Len(durable.events), g <= Len(durable.events),
             left' = [left EXCEPT ![c] = rest], base' = [base EXCEPT ![c] = b],
             since' = [since EXCEPT ![c] = s], given' = [given EXCEPT ![c] = g],
             polled' = [polled EXCEPT ![c] = set],
             set \subseteq Events, Knows(b, s, set),
             "poll" \in Range(rest) /\ "events" \notin Range(rest) => Knows(b, g, set)
      PROVE  FeedInv'
  <2>1. /\ left'[c] = rest /\ base'[c] = b /\ since'[c] = s /\ given'[c] = g /\ polled'[c] = set
        /\ \A d \in Clients \ {c} : /\ left'[d] = left[d] /\ base'[d] = base[d]
             /\ since'[d] = since[d] /\ given'[d] = given[d] /\ polled'[d] = polled[d]
    BY <1>2, <1>t
  <2>2. RevisionsStored'
    BY <1>0, <1>2, <2>1 DEF FeedInv, RevisionsStored
  <2>3. ASSUME NEW d \in Clients \ {c}
        PROVE  /\ (polled[d] \subseteq {<<i, durable.events[i]>> : i \in DOMAIN durable.events})'
               /\ Told(d, since[d])' /\ (PollDone(d) => Told(d, given[d]))'
    BY <1>0, <2>1 DEF Polled, Told, PollDone
  <2>4. /\ (polled[c] \subseteq {<<i, durable.events[i]>> : i \in DOMAIN durable.events})'
        /\ Told(c, since[c])' /\ (PollDone(c) => Told(c, given[c]))'
    BY <1>0, <1>2, <2>1 DEF Told, PollDone
  <2>5. Polled'
    BY <2>3, <2>4 DEF Polled
  <2>6. QED
    BY <1>1, <2>2, <2>5 DEF FeedInv
<1>k. /\ polled[c] \subseteq Events /\ Knows(base[c], since[c], polled[c])
      /\ PollDone(c) => Knows(base[c], given[c], polled[c])
  BY <1>0 DEF Polled, Told
<1>i. /\ base = [base EXCEPT ![c] = base[c]] /\ since = [since EXCEPT ![c] = since[c]]
      /\ given = [given EXCEPT ![c] = given[c]] /\ polled = [polled EXCEPT ![c] = polled[c]]
  BY <1>t
<1> HIDE DEF Events, Knows
<1>3. CASE GetSnapshot(c)
  <2>1. Begin(c, SnapshotReads, "snapshot")
    BY <1>3 DEF GetSnapshot
  <2>2. left' = [left EXCEPT ![c] = SnapshotPlan] /\ UNCHANGED <<base, since, given, polled>>
    BY <2>1, BeginDoes DEF SnapshotPlan
  <2>3. QED
    BY <1>2, <1>i, <1>k, <1>s, <2>2, PlansBegin
<1>4. CASE GetEvents(c)
  <2>1. Begin(c, PollReads, "poll")
    BY <1>4 DEF GetEvents
  <2>2. left' = [left EXCEPT ![c] = PollPlan] /\ UNCHANGED <<base, since, given, polled>>
    BY <2>1, BeginDoes DEF PollPlan
  <2>3. QED
    BY <1>2, <1>i, <1>k, <1>s, <2>2, PlansBegin
<1>5. CASE ReadSection(c)
  <2>1. /\ Read(c, Viewed) /\ UNCHANGED <<base, since, given, polled>>
        /\ IsEnd(left[c], SnapshotPlan)
    BY <1>5, ReadSectionDoes
  <2>2. /\ left[c] \in Seq(Marks) /\ left[c] # <<>>
        /\ left' = [left EXCEPT ![c] = Tail(left[c])]
        /\ Range(left[c]) = {left[c][1]} \union Range(Tail(left[c]))
    BY <2>1, ReadDoes
  <2>3. "poll" \notin Range(Tail(left[c]))
    BY <2>1, <2>2, SnapshotEnds, SectionsAre
  <2>4. QED
    BY <1>2, <1>i, <1>k, <1>s, <2>1, <2>2, <2>3
<1>6. CASE ReadRevision(c)
  <2>1. PICK revision :
          /\ Read(c, {"revision"}) /\ UNCHANGED <<base, since, polled>> /\ lock = None
          /\ given' = [given EXCEPT ![c] = revision] /\ revision <= Len(working.events)
    BY <1>6, ReadRevisionDoes
  <2>2. /\ left[c] \in Seq(Marks) /\ left[c] # <<>> /\ left[c][1] \in {"revision"}
        /\ left' = [left EXCEPT ![c] = Tail(left[c])]
        /\ Range(left[c]) = {left[c][1]} \union Range(Tail(left[c]))
        /\ IsEnd(left[c], SnapshotPlan) \/ IsEnd(left[c], PollPlan)
    BY <2>1, ReadDoes
  <2>3. ~("poll" \in Range(Tail(left[c])) /\ "events" \notin Range(Tail(left[c])))
    BY <2>2, SnapshotEnds, PollEnds, SectionsAre
  <2>4. revision <= Len(durable.events)
    BY <1>0, <2>1, FeedAssumption DEF OneEventAhead
  <2>5. QED
    BY <1>2, <1>i, <1>k, <1>s, <2>1, <2>2, <2>3, <2>4
<1>7. CASE ReadEvents(c)
  <2> DEFINE more == {<<i, working.events[i]>> : i \in Since(c, since[c])}
  <2>1. /\ Read(c, {"events"}) /\ UNCHANGED <<base, since, given>> /\ lock = None
        /\ polled' = [polled EXCEPT ![c] = polled[c] \union more]
    BY <1>7, ReadEventsDoes
  <2>2. left' = [left EXCEPT ![c] = Tail(left[c])]
    BY <2>1, ReadDoes
  <2>3. working.events = durable.events
    BY <1>0, <2>1, FeedAssumption DEF OneEventAhead
  <2>4. polled[c] \union more \subseteq Events
    BY <1>k, <2>3 DEF Events, Since
  <2>5. Knows(base[c], since[c], polled[c] \union more)
    BY <1>k DEF Knows
  <2>6. Knows(base[c], given[c], polled[c] \union more)
    <3> SUFFICES ASSUME NEW i \in DOMAIN durable.events, base[c] < i, i <= given[c],
                        durable.events[i].audience = c
                 PROVE  <<i, durable.events[i]>> \in polled[c] \union more
      BY DEF Knows
    <3>1. i \in Nat /\ since[c] \in Nat
      BY <1>t, EventsType
    <3>2. CASE i <= since[c]
      BY <1>k, <3>2 DEF Knows
    <3>3. CASE i > since[c]
      BY <2>3, <3>3 DEF Since
    <3>4. QED
      BY <3>1, <3>2, <3>3
  <2>7. QED
    <3> HIDE DEF more
    <3>1. QED
      BY <1>2, <1>i, <1>s, <2>1, <2>2, <2>4, <2>5, <2>6
<1>8. CASE AnswerSnapshot(c)
  <2>1. /\ Read(c, {"snapshot"}) /\ Tail(left[c]) = <<>> /\ UNCHANGED given
        /\ base' = [base EXCEPT ![c] = given[c]] /\ since' = [since EXCEPT ![c] = given[c]]
        /\ polled' = [polled EXCEPT ![c] = {}]
    BY <1>8, AnswerSnapshotDoes
  <2>2. PICK rest : left' = [left EXCEPT ![c] = rest] /\ "poll" \notin Range(rest)
    BY <2>1, ReadDoes, EmptyEnds
  <2>3. PICK set : polled' = [polled EXCEPT ![c] = set] /\ set = {}
    BY <2>1
  <2>4. Knows(given[c], given[c], set)
    <3> SUFFICES ASSUME NEW i \in DOMAIN durable.events, given[c] < i, i <= given[c] PROVE FALSE
      BY DEF Knows
    <3>1. i \in Nat /\ given[c] \in Nat
      BY <1>t, EventsType
    <3>2. QED
      BY <3>1
  <2>5. set \subseteq Events /\ given' = [given EXCEPT ![c] = given[c]]
    BY <1>i, <2>1, <2>3
  <2>6. polled' = [polled EXCEPT ![c] = set]
    BY <2>3
  <2>7. QED
    BY <1>2, <1>s, <2>1, <2>2, <2>4, <2>5, <2>6
<1>9. CASE AnswerPoll(c)
  <2>1. /\ Read(c, {"poll"}) /\ Range(left[c]) = {"poll"} /\ Tail(left[c]) = <<>>
        /\ since' = [since EXCEPT ![c] = given[c]] /\ UNCHANGED <<base, given, polled>>
    BY <1>9, AnswerPollDoes
  <2>2. left' = [left EXCEPT ![c] = <<>>]
    BY <2>1, ReadDoes
  <2>3. Knows(base[c], given[c], polled[c])
    BY <1>k, <2>1 DEF PollDone
  <2>4. "poll" \notin Range(<<>>)
    BY EmptyEnds
  <2>5. QED
    BY <1>2, <1>i, <1>k, <1>s, <2>1, <2>2, <2>3, <2>4
<1>10. QED
  BY <1>3, <1>4, <1>5, <1>6, <1>7, <1>8, <1>9 DEF Follow

LEMMA FeedInductive == TypeInv /\ TypeInv' /\ FeedInv /\ [Next]_vars => FeedInv'
<1> SUFFICES ASSUME TypeInv, TypeInv', FeedInv, [Next]_vars PROVE FeedInv'
  OBVIOUS
<1>1. CASE Restart
  <2> DEFINE lost == {c \in Clients : "snapshot" \in Range(left[c])}
  <2>1. /\ working' = durable /\ durable' = durable /\ lock' = None /\ given' = given
        /\ pc' = [t \in Threads |-> "idle"] /\ left' = [c \in Clients |-> <<>>]
        /\ base' = [c \in Clients |-> IF c \in lost THEN 0 ELSE base[c]]
        /\ since' = [c \in Clients |-> IF c \in lost THEN 0 ELSE since[c]]
        /\ polled' = [c \in Clients |-> IF c \in lost THEN {} ELSE polled[c]]
    BY <1>1 DEF Restart, Rollback
  <2>2. LockHeld' /\ OneEventAhead'
    BY <2>1, FeedAssumption DEF LockHeld, Holding, OneEventAhead
  <2>3. RevisionsStored'
    BY <2>1, EventsType DEF FeedInv, RevisionsStored
  <2>4. Polled'
    <3> SUFFICES ASSUME NEW c \in Clients
                 PROVE  /\ (polled[c] \subseteq {<<i, durable.events[i]>> : i \in DOMAIN durable.events})'
                        /\ Told(c, since[c])'
                        /\ ~PollDone(c)'
      BY DEF Polled
    <3>1. ~PollDone(c)'
      BY <2>1, EmptyEnds DEF PollDone
    <3>2. CASE c \in lost
      <4>1. \A i \in DOMAIN durable.events : i \in Nat /\ ~(0 < i /\ i <= 0)
        BY EventsType
      <4>2. base'[c] = 0 /\ since'[c] = 0 /\ polled'[c] = {}
        BY <2>1, <3>2
      <4>3. QED
        BY <2>1, <3>1, <4>1, <4>2 DEF Told
    <3>3. CASE c \notin lost
      <4>1. base'[c] = base[c] /\ since'[c] = since[c] /\ polled'[c] = polled[c]
        BY <2>1, <3>3
      <4>2. QED
        BY <2>1, <3>1, <4>1 DEF FeedInv, Polled, Told
    <3>4. QED
      BY <3>2, <3>3
  <2>5. QED
    BY <2>2, <2>3, <2>4 DEF FeedInv
<1>2. ASSUME NEW t \in Threads, Serve(t) PROVE FeedInv'
  BY <1>2, FeedServe
<1>3. ASSUME NEW c \in Clients, Follow(c) PROVE FeedInv'
  BY <1>3, FeedFollow
<1>4. CASE UNCHANGED vars
  BY <1>4 DEF vars, connectionVars, threadVars, clientVars, FeedInv, LockHeld, Holding,
     OneEventAhead, RevisionsStored, Polled, Told, PollDone
<1>5. CASE NextMonth
  BY <1>5 DEF NextMonth, connectionVars, threadVars, clientVars, FeedInv, LockHeld, Holding,
     OneEventAhead, RevisionsStored, Polled, Told, PollDone
<1>6. QED
  BY <1>1, <1>2, <1>3, <1>4, <1>5 DEF Next

LEMMA FeedInit == Init => FeedInv
<1> SUFFICES ASSUME Init PROVE FeedInv
  OBVIOUS
<1>1. durable.events = <<>> /\ working.events = <<>>
  BY DEF Init, EmptyDatabase
<1>2. LockHeld /\ OneEventAhead
  BY <1>1, FeedAssumption DEF Init, LockHeld, Holding, OneEventAhead
<1>3. RevisionsStored
  BY <1>1 DEF Init, RevisionsStored
<1>4. DOMAIN durable.events = {}
  BY <1>1
<1>5. Polled
  BY <1>4 DEF Init, Polled, Told
<1>6. QED
  BY <1>2, <1>3, <1>5 DEF FeedInv

LEMMA FeedInvHolds == Spec => []FeedInv
BY FeedInit, FeedInductive, TypeInvHolds, PTL DEF Spec

(* However many clients poll, whichever audience they have, and wherever   *)
(* requests overlap, fail or are cut short by a restart, no client misses  *)
(* an event of its audience, and none was given one that is taken back.    *)
THEOREM PollsMissNothingCorrect == Spec => []PollsMissNothing
<1>1. TypeInv /\ FeedInv => PollsMissNothing
  <2> SUFFICES ASSUME TypeInv, FeedInv, NEW c \in Following
               PROVE  LET events == {<<i, durable.events[i]>> : i \in DOMAIN durable.events} IN
                      /\ polled[c] \subseteq events
                      /\ \A e \in events : e[1] \in base[c] + 1 .. since[c] /\ e[2].audience = c
                           => e \in polled[c]
    BY DEF PollsMissNothing
  <2>1. c \in Clients /\ base[c] \in Nat /\ since[c] \in Nat
    BY DEF Following, TypeInv, TypeOK
  <2>2. polled[c] \subseteq {<<i, durable.events[i]>> : i \in DOMAIN durable.events}
    BY <2>1 DEF FeedInv, Polled
  <2>3. ASSUME NEW i \in DOMAIN durable.events, i \in base[c] + 1 .. since[c],
               durable.events[i].audience = c
        PROVE  <<i, durable.events[i]>> \in polled[c]
    <3>1. base[c] < i /\ i <= since[c]
      BY <2>1, <2>3
    <3>2. QED
      BY <2>1, <2>3, <3>1 DEF FeedInv, Polled, Told
  <2>4. QED
    BY <2>2, <2>3
<1>2. QED
  BY <1>1, TypeInvHolds, FeedInvHolds, PTL

-----------------------------------------------------------------------------
(* What is committed stays.  A thread that has written a section finds its *)
(* row there, and if there is a dictionary, in the dictionary.             *)
RowsKept == \A s \in Sections : durable.rows[s] \subseteq working.rows[s]

Shown(e, s) == e \in durable.rows[s] /\ (s \in Kept => e \in kept[s])
Progress(t) ==
  /\ \A s \in Range(Writes(entity[t].kind)) : s \notin Range(todo[t]) => Shown(entity[t], s)
  /\ \A s \in Together(Head(todo[t])) :
       /\ pc[t] = "commit" => entity[t] \in working.rows[s]
       /\ pc[t] = "publish" => entity[t] \in durable.rows[s]
Progressing == \A t \in Threads : Busy(t) => Progress(t)

(* An event is of a change whose sections are all written, and no cost is  *)
(* written before the usage is committed.                                  *)
Announced ==
  \A i \in DOMAIN working.events :
    \A s \in Range(Writes(working.events[i].kind)) : Shown(working.events[i], s)
UsageWritten == working.rows["costs"] \subseteq durable.rows["plan_usage"]

RowsInv == RowsKept /\ (torn \/ (Progressing /\ Announced /\ UsageWritten))

LEMMA SectionsOf ==
  ASSUME NEW e \in Entities
  PROVE  e.kind \in Kinds /\ Range(Writes(e.kind)) \subseteq Sections
BY DEF Entities, Sections

LEMMA RowsType ==
  ASSUME TypeInv
  PROVE  /\ \A s \in Sections : /\ working.rows[s] \in SUBSET Entities
              /\ durable.rows[s] \in SUBSET Entities /\ kept[s] \in SUBSET Entities
         /\ working.rows \in Rows /\ durable.rows \in Rows /\ kept \in Rows
BY DEF TypeInv, TypeOK, Database, Rows

LEMMA Covered ==
  ASSUME TypeInv, FeedInv, RowsInv, ~torn, NEW i \in DOMAIN durable.events,
         NEW s \in Range(Writes(durable.events[i].kind))
  PROVE  Shown(durable.events[i], s)
<1>1. i \in DOMAIN working.events /\ working.events[i] = durable.events[i]
  BY WorkingGrown, EventsType DEF Grows
<1>2. QED
  BY <1>1 DEF RowsInv, Announced

LEMMA RowsServe ==
  ASSUME TypeInv, TypeInv', FeedInv, RowsInv, NEW t \in Threads, Serve(t)
  PROVE  /\ RowsInv' /\ (torn => torn')
         /\ \A s \in Sections : durable.rows[s] \subseteq durable'.rows[s] /\ kept[s] \subseteq kept'[s]
<1>0. /\ pc \in [Threads -> Steps] /\ entity \in [Threads -> Entities \union {None}]
      /\ todo \in [Threads -> Seq(Sections)] /\ RowsKept
      /\ torn \/ (Progressing /\ Announced /\ UsageWritten)
      /\ "costs" \in Sections /\ "plan_usage" \in Sections
  BY SectionsAre DEF TypeInv, TypeOK, RowsInv
(* What was shown is shown as long as the tables and dictionaries grow.    *)
<1>s. ASSUME \A s \in Sections : durable.rows[s] \subseteq durable'.rows[s] /\ kept[s] \subseteq kept'[s],
             NEW e \in Entities, NEW s \in Range(Writes(e.kind)), Shown(e, s)
      PROVE  e \in durable'.rows[s] /\ (s \in Kept => e \in kept'[s])
  BY <1>s, SectionsOf DEF Shown
<1>p. ASSUME ~torn, NEW step, NEW e, NEW rest, Moves(t, step, e, rest),
             \A s \in Sections : durable.rows[s] \subseteq durable'.rows[s] /\ kept[s] \subseteq kept'[s],
             \A u \in Threads \ {t} : pc[u] = "commit" =>
               \A s \in Sections : working.rows[s] \subseteq working'.rows[s],
             step # "idle" =>
               /\ \A s \in Range(Writes(e.kind)) :
                    s \notin Range(rest) => e \in durable'.rows[s] /\ (s \in Kept => e \in kept'[s])
               /\ \A s \in Together(Head(rest)) :
                    /\ step = "commit" => e \in working'.rows[s]
                    /\ step = "publish" => e \in durable'.rows[s]
      PROVE  Progressing'
  <2>1. /\ pc'[t] = step /\ entity'[t] = e /\ todo'[t] = rest
        /\ \A u \in Threads \ {t} : pc'[u] = pc[u] /\ entity'[u] = entity[u] /\ todo'[u] = todo[u]
    BY <1>0, <1>p DEF Moves
  <2>2. Busy(t)' => Progress(t)'
    BY <1>p, <2>1 DEF Busy, Progress, Shown
  <2>3. ASSUME NEW u \in Threads \ {t}, Busy(u)' PROVE Progress(u)'
    <3>1. Busy(u) /\ Progress(u) /\ entity[u] \in Entities
      BY <1>0, <1>p, <2>1, <2>3 DEF Progressing, Busy, TypeInv, Serving
    <3>2. \A s \in Range(Writes(entity[u].kind)) : s \notin Range(todo[u]) =>
            entity[u] \in durable'.rows[s] /\ (s \in Kept => entity[u] \in kept'[s])
      BY <1>p, <1>s, <3>1 DEF Progress
    <3>3. pc[u] \in {"commit", "publish"} => Together(Head(todo[u])) \subseteq Sections
      BY TodoHead, TogetherIs DEF Writing
    <3>4. \A s \in Together(Head(todo[u])) : pc[u] = "commit" => entity[u] \in working'.rows[s]
      BY <1>p, <3>1, <3>3 DEF Progress
    <3>5. \A s \in Together(Head(todo[u])) : pc[u] = "publish" => entity[u] \in durable'.rows[s]
      BY <1>p, <3>1, <3>3 DEF Progress
    <3>6. QED
      BY <2>1, <3>2, <3>4, <3>5 DEF Progress, Shown
  <2>4. QED
    BY <2>2, <2>3 DEF Progressing
<1>e. ASSUME Announced, \A s \in Sections : durable.rows[s] \subseteq durable'.rows[s] /\ kept[s] \subseteq kept'[s],
             \A i \in DOMAIN working'.events :
               i \in DOMAIN working.events /\ working'.events[i] = working.events[i]
      PROVE  Announced'
  <2> SUFFICES ASSUME NEW i \in DOMAIN working'.events, NEW s \in Range(Writes(working'.events[i].kind))
               PROVE  Shown(working.events[i], s)'
    BY DEF Announced
  <2>1. i \in DOMAIN working.events /\ working'.events[i] = working.events[i]
    BY <1>e
  <2>2. PICK e : e = working.events[i]
    OBVIOUS
  <2>3. e \in Entities /\ s \in Range(Writes(e.kind))
    BY <2>1, <2>2, EventsType
  <2>4. Shown(e, s)
    BY <1>e, <2>1, <2>2, <2>3 DEF Announced
  <2>5. e \in durable'.rows[s] /\ (s \in Kept => e \in kept'[s])
    BY <1>e, <1>s, <2>3, <2>4
  <2>6. QED
    BY <2>1, <2>2, <2>5 DEF Shown
<1>k. \A s \in Sections : /\ durable.rows[s] \subseteq durable.rows[s] /\ kept[s] \subseteq kept[s]
        /\ durable.rows[s] \subseteq working.rows[s]
  BY <1>0 DEF RowsKept
<1>b. ASSUME pc[t] # "idle", ~torn PROVE Progress(t) /\ entity[t] \in Entities
  BY <1>0, <1>b DEF Progressing, Busy, TypeInv, Serving
<1>1. ASSUME NEW change \in Changes, Receive(t, change)
      PROVE  /\ RowsInv' /\ (torn => torn')
             /\ \A s \in Sections : durable.rows[s] \subseteq durable'.rows[s] /\ kept[s] \subseteq kept'[s]
  <2>1. PICK e \in Entities : Moves(t, "write", e, Writes(e.kind))
    BY <1>1, ReceiveDoes
  <2>2. UNCHANGED <<working, durable, kept, torn>>
    BY <1>1, ReceiveDoes
  <2>3. ASSUME ~torn PROVE Progressing'
    BY <1>k, <1>p, <2>1, <2>2, <2>3
  <2>4. ASSUME ~torn PROVE Announced'
    BY <1>0, <1>e, <1>k, <2>2, <2>4
  <2>5. QED
    BY <1>0, <1>k, <2>2, <2>3, <2>4 DEF RowsInv, RowsKept, UsageWritten
<1>2. CASE WriteSection(t)
  <2> DEFINE h == Head(todo[t])
  <2>1. /\ pc[t] = "write" /\ Moves(t, "commit", entity[t], todo[t]) /\ UNCHANGED <<durable, kept, torn>>
        /\ working'.events = working.events
        /\ \A s \in Sections : working'.rows[s] =
             IF s \in Together(h) THEN working.rows[s] \union {entity[t]} ELSE working.rows[s]
    BY <1>2, WriteSectionDoes DEF Adds
  <2>2. /\ h \in Sections /\ h = todo[t][1] /\ todo[t] \in Seq(Sections) /\ todo[t] # <<>>
        /\ entity[t] \in Entities /\ h \in Range(Writes(entity[t].kind)) /\ entity[t].kind \in Kinds
    BY <2>1, TodoHead DEF Writing
  <2>3. Together(h) \subseteq Sections /\ ("costs" \in Together(h) => h = "costs")
    BY <2>2, TogetherIs DEF Paired
  <2> HIDE DEF h
  <2>4. ASSUME ~torn PROVE Progressing'
    <3>1. Progress(t)
      BY <1>b, <2>1, <2>4
    <3>2. \A s \in Together(Head(todo[t])) : entity[t] \in working'.rows[s]
      BY <2>1, <2>3 DEF h
    <3>3. \A s \in Range(Writes(entity[t].kind)) : s \notin Range(todo[t]) =>
            entity[t] \in durable'.rows[s] /\ (s \in Kept => entity[t] \in kept'[s])
      BY <2>1, <3>1 DEF Progress, Shown
    <3>4. \A s \in Sections : working.rows[s] \subseteq working'.rows[s]
      BY <2>1
    <3>5. \A s \in Sections : durable.rows[s] \subseteq durable'.rows[s] /\ kept[s] \subseteq kept'[s]
      BY <2>1
    <3>6. QED
      BY <1>p, <2>1, <2>4, <3>2, <3>3, <3>4, <3>5
  <2>5. ASSUME ~torn PROVE Announced'
    BY <1>0, <1>e, <1>k, <2>1, <2>5
  <2>6. ASSUME ~torn PROVE UsageWritten'
    <3>1. CASE h # "costs"
      BY <1>0, <2>1, <2>3, <2>6, <3>1 DEF UsageWritten
    <3>2. CASE h = "costs"
      <4>1. entity[t].kind = "message"
        BY <2>2, <3>2, WritesAre DEF Kinds
      <4>2. "plan_usage" \in Range(Writes(entity[t].kind))
        BY <4>1, WritesAre
      <4>3. "plan_usage" \notin Range(todo[t])
        BY <2>2, <3>2, TailOrdered DEF TypeInv, Serving
      <4>4. entity[t] \in durable.rows["plan_usage"]
        BY <1>b, <2>1, <2>6, <4>2, <4>3 DEF Progress, Shown
      <4>5. QED
        BY <1>0, <2>1, <2>3, <2>6, <3>2, <4>4 DEF UsageWritten
    <3>3. QED
      BY <3>1, <3>2
  <2>7. RowsKept'
    BY <1>0, <2>1, <2>3 DEF RowsKept
  <2>8. QED
    BY <2>1, <2>4, <2>5, <2>6, <2>7 DEF RowsInv
<1>3. CASE CommitSection(t)
  <2>1. /\ pc[t] = "commit" /\ Moves(t, "publish", entity[t], todo[t])
        /\ durable' = working /\ UNCHANGED <<working, kept, torn>>
    BY <1>3, CommitSectionDoes
  <2>2. \A s \in Sections : durable.rows[s] \subseteq durable'.rows[s] /\ kept[s] \subseteq kept'[s]
    BY <1>k, <2>1
  <2>3. ASSUME ~torn PROVE Progressing'
    <3>1. Progress(t) /\ entity[t] \in Entities
      BY <1>b, <2>1, <2>3
    <3>2. \A s \in Range(Writes(entity[t].kind)) : s \notin Range(todo[t]) =>
            entity[t] \in durable'.rows[s] /\ (s \in Kept => entity[t] \in kept'[s])
      BY <1>s, <2>2, <3>1 DEF Progress
    <3>3. \A s \in Together(Head(todo[t])) : entity[t] \in durable'.rows[s]
      BY <2>1, <3>1 DEF Progress
    <3>4. QED
      BY <1>p, <2>1, <2>2, <2>3, <3>2, <3>3
  <2>4. ASSUME ~torn PROVE Announced'
    BY <1>0, <1>e, <2>1, <2>2, <2>4
  <2>5. ASSUME ~torn PROVE UsageWritten'
    BY <1>0, <1>k, <2>1, <2>5 DEF UsageWritten
  <2>6. RowsKept'
    BY <2>1 DEF RowsKept
  <2>7. QED
    BY <2>1, <2>2, <2>3, <2>4, <2>5, <2>6 DEF RowsInv
<1>4. CASE Publish(t)
  <2> DEFINE h == Head(todo[t])
  <2>1. /\ pc[t] = "publish" /\ UNCHANGED <<working, durable, torn>>
        /\ kept' = IF h \in Kept THEN [kept EXCEPT ![h] = @ \union {entity[t]}] ELSE kept
    BY <1>4, PublishDoes
  <2>2. PICK step : Moves(t, step, entity[t], Tail(todo[t])) /\ AfterPublish(t, step)
    BY <1>4, PublishDoes
  <2>3. /\ h \in Sections /\ entity[t] \in Entities /\ h \in Together(h)
        /\ Range(todo[t]) = {h} \union Range(Tail(todo[t]))
    BY <2>1, TodoHead, TogetherIs DEF Writing
  <2>4. /\ \A s \in Sections : kept[s] \subseteq kept'[s]
        /\ h \in Kept => entity[t] \in kept'[h]
    BY <2>1, <2>3, RowsType DEF Rows
  <2>5. \A s \in Sections : durable.rows[s] \subseteq durable'.rows[s] /\ kept[s] \subseteq kept'[s]
    BY <2>1, <2>4
  <2>6. ASSUME ~torn PROVE Progressing'
    <3>1. Progress(t)
      BY <1>b, <2>1, <2>6
    <3>2. ASSUME NEW s \in Range(Writes(entity[t].kind)), s \notin Range(Tail(todo[t]))
          PROVE  entity[t] \in durable'.rows[s] /\ (s \in Kept => entity[t] \in kept'[s])
      <4>1. CASE s = h
        <5>1. entity[t] \in durable.rows[h]
          BY <2>1, <2>3, <3>1 DEF Progress
        <5>2. QED
          BY <2>1, <2>4, <4>1, <5>1
      <4>2. CASE s # h
        <5>1. Shown(entity[t], s)
          BY <2>3, <3>1, <3>2, <4>2 DEF Progress
        <5>2. QED
          BY <1>s, <2>3, <2>5, <5>1
      <4>3. QED
        BY <4>1, <4>2
    <3>3. \A s \in Sections : working.rows[s] \subseteq working'.rows[s]
      BY <2>1
    <3>4. step \in {"append", "publish", "write"}
      BY <2>2 DEF AfterPublish
    <3>5. ASSUME step = "publish", NEW s \in Together(Head(Tail(todo[t])))
          PROVE  entity[t] \in durable'.rows[s]
      <4>1. Together(Head(Tail(todo[t]))) = Together(h)
        BY <2>2, <2>3, <3>5, TogetherIs DEF AfterPublish
      <4>2. QED
        BY <2>1, <3>1, <3>5, <4>1 DEF Progress
    <3>6. QED
      BY <1>p, <2>2, <2>5, <2>6, <3>2, <3>3, <3>4, <3>5
  <2>7. ASSUME ~torn PROVE Announced'
    BY <1>0, <1>e, <2>1, <2>5, <2>7
  <2>8. QED
    BY <1>0, <2>1, <2>5, <2>6, <2>7 DEF RowsInv, RowsKept, UsageWritten
<1>5. CASE AppendEvent(t)
  <2>1. /\ pc[t] = "append" /\ entity[t] \in Entities /\ todo[t] = <<>>
        /\ Moves(t, "announce", entity[t], <<>>) /\ UNCHANGED <<durable, kept, torn>>
        /\ working'.rows = working.rows /\ working'.events = Append(working.events, entity[t])
    BY <1>5, AppendEventDoes
  <2>2. ASSUME ~torn, NEW s \in Range(Writes(entity[t].kind)) PROVE Shown(entity[t], s)
    BY <1>b, <2>1, <2>2, EmptyEnds DEF Progress
  <2>3. ASSUME ~torn PROVE Progressing'
    BY <1>k, <1>p, <2>1, <2>2, <2>3 DEF Shown
  <2>4. ASSUME ~torn PROVE Announced'
    <3> SUFFICES ASSUME NEW i \in DOMAIN working'.events, NEW s \in Range(Writes(working'.events[i].kind))
                 PROVE  Shown(working'.events[i], s)
      BY <2>1 DEF Announced, Shown
    <3>1. /\ DOMAIN working'.events = 1 .. Len(working.events) + 1
          /\ \A j \in 1 .. Len(working.events) : working'.events[j] = working.events[j]
          /\ working'.events[Len(working.events) + 1] = entity[t]
      BY <2>1, EventsType
    <3>2. CASE i \in 1 .. Len(working.events)
      BY <1>0, <2>4, <3>1, <3>2, EventsType DEF Announced
    <3>3. CASE i = Len(working.events) + 1
      BY <2>2, <2>4, <3>1, <3>3
    <3>4. QED
      BY <3>1, <3>2, <3>3, EventsType
  <2>5. QED
    BY <1>0, <2>1, <2>3, <2>4 DEF RowsInv, RowsKept, UsageWritten
<1>6. CASE CommitEvent(t)
  <2>1. /\ Moves(t, "idle", None, <<>>) /\ durable' = working /\ UNCHANGED <<working, kept, torn>>
    BY <1>6, CommitEventDoes
  <2>2. \A s \in Sections : durable.rows[s] \subseteq durable'.rows[s] /\ kept[s] \subseteq kept'[s]
    BY <1>k, <2>1
  <2>3. ASSUME ~torn PROVE Progressing'
    BY <1>p, <2>1, <2>2, <2>3
  <2>4. ASSUME ~torn PROVE Announced'
    BY <1>0, <1>e, <2>1, <2>2, <2>4
  <2>5. ASSUME ~torn PROVE UsageWritten'
    BY <1>0, <1>k, <2>1, <2>5 DEF UsageWritten
  <2>6. QED
    BY <2>1, <2>2, <2>3, <2>4, <2>5 DEF RowsInv, RowsKept
<1>7. CASE WriteFails(t)
  <2>1. /\ Moves(t, "idle", None, <<>>) /\ working' = durable /\ UNCHANGED <<durable, kept>>
        /\ torn' = (torn \/ \E u \in Threads \ {t} : pc[u] \in Uncommitted)
    BY <1>7, WriteFailsDoes
  <2>2. \A s \in Sections : durable.rows[s] \subseteq durable'.rows[s] /\ kept[s] \subseteq kept'[s]
    BY <2>1
  <2>3. ASSUME ~torn' PROVE ~torn /\ \A u \in Threads \ {t} : pc[u] # "commit"
    BY <2>1, <2>3 DEF Uncommitted
  <2>4. ASSUME ~torn' PROVE Progressing'
    BY <1>p, <2>1, <2>2, <2>3, <2>4
  <2>5. ASSUME ~torn' PROVE Announced'
    <3>1. \A i \in DOMAIN working'.events :
            i \in DOMAIN working.events /\ working'.events[i] = working.events[i]
      BY <2>1, WorkingGrown, EventsType DEF Grows
    <3>2. QED
      BY <1>0, <1>e, <2>2, <2>3, <2>5, <3>1
  <2>6. ASSUME ~torn' PROVE UsageWritten'
    BY <1>0, <1>k, <2>1, <2>3, <2>6 DEF UsageWritten
  <2>7. QED
    BY <2>1, <2>2, <2>4, <2>5, <2>6 DEF RowsInv, RowsKept
<1>8. QED
  BY <1>1, <1>2, <1>3, <1>4, <1>5, <1>6, <1>7 DEF Serve

LEMMA RowsInductive ==
  TypeInv /\ TypeInv' /\ FeedInv /\ RowsInv /\ [Next]_vars => RowsInv'
<1> SUFFICES ASSUME TypeInv, TypeInv', FeedInv, RowsInv, [Next]_vars PROVE RowsInv'
  OBVIOUS
<1>1. CASE Restart
  <2>1. /\ working' = durable /\ UNCHANGED <<durable, torn>>
        /\ kept' = [s \in Sections |-> IF s \in Kept THEN durable.rows[s] ELSE {}]
        /\ \A t \in Threads : pc'[t] = "idle"
    BY <1>1 DEF Restart, Rollback
  <2>2. RowsKept'
    BY <2>1 DEF RowsKept
  <2>3. Progressing'
    BY <2>1 DEF Progressing, Busy
  <2>4. ASSUME ~torn PROVE Announced'
    <3> SUFFICES ASSUME NEW i \in DOMAIN durable.events, NEW s \in Range(Writes(durable.events[i].kind))
                 PROVE  durable.events[i] \in durable.rows[s] /\ (s \in Kept => durable.events[i] \in kept'[s])
      BY <2>1 DEF Announced, Shown
    <3>1. Shown(durable.events[i], s)
      BY <2>4, Covered
    <3>2. s \in Sections
      BY EventsType, SectionsOf
    <3>3. QED
      BY <2>1, <3>1, <3>2 DEF Shown
  <2>5. ASSUME ~torn PROVE UsageWritten'
    BY <2>1, <2>5, SectionsAre DEF RowsInv, RowsKept, UsageWritten
  <2>6. QED
    BY <2>1, <2>2, <2>3, <2>4, <2>5 DEF RowsInv
<1>2. ASSUME NEW t \in Threads, Serve(t) PROVE RowsInv'
  BY <1>2, RowsServe
<1>3. ASSUME UNCHANGED <<working, durable, kept, pc, entity, todo, torn>> PROVE RowsInv'
  BY <1>3 DEF RowsInv, RowsKept, Progressing, Progress, Busy, Announced, Shown, UsageWritten
<1>4. ASSUME NEW c \in Clients, Follow(c) PROVE RowsInv'
  BY <1>3, <1>4, FollowTypes DEF serverVars
<1>5. CASE UNCHANGED vars \/ NextMonth
  BY <1>3, <1>5 DEF vars, connectionVars, threadVars, NextMonth
<1>6. QED
  BY <1>1, <1>2, <1>4, <1>5 DEF Next

LEMMA RowsInit == Init => RowsInv
<1> SUFFICES ASSUME Init PROVE RowsInv
  OBVIOUS
<1>1. /\ durable.rows = NoRows /\ working.rows = NoRows /\ working.events = <<>>
  BY DEF Init, EmptyDatabase
<1>2. DOMAIN working.events = {}
  BY <1>1
<1>3. RowsKept /\ UsageWritten
  BY <1>1, SectionsAre DEF RowsKept, UsageWritten, NoRows
<1>4. Progressing /\ Announced
  BY <1>2 DEF Init, Progressing, Busy, Announced
<1>5. QED
  BY <1>3, <1>4 DEF RowsInv

LEMMA RowsInvHolds == Spec => []RowsInv
BY RowsInit, RowsInductive, FeedInvHolds, TypeInvHolds, PTL DEF Spec

-----------------------------------------------------------------------------
(* What belongs to a buddy or to a device was received after it: the buddy *)
(* is committed, the device is committed and published.                    *)
HasBuddy(e) ==
  e.of = 0 \/ \E b \in durable.rows["buddies"] : b.id = e.of /\ b.audience = e.audience
HasDevice(e) ==
  e.of = 0 \/ \E d \in kept["devices"] : d.id = e.of /\ d.audience = e.audience /\ HasBuddy(d)
Rooted(e) ==
  /\ e.kind \in {"pair", "message", "memory"} => HasBuddy(e)
  /\ e.kind \in {"heartbeat", "reminder"} => HasDevice(e)
AllRooted ==
  /\ \A t \in Threads : Busy(t) => Rooted(entity[t])
  /\ \A i \in DOMAIN working.events : Rooted(working.events[i])
  /\ \A d \in working.rows["devices"] : HasBuddy(d)

(* A thread without the lock sees no buddy that is not committed; what is  *)
(* published is committed, and a binding comes with its device.            *)
BuddiesCommitted == lock # None \/ working.rows["buddies"] = durable.rows["buddies"]
KeptStored == \A s \in Kept : kept[s] \subseteq durable.rows[s]
BindingsPaired ==
  \A rows \in {working.rows, durable.rows, kept} : rows["bindings"] \subseteq rows["devices"]

RootsInv == BuddiesCommitted /\ (torn \/ (AllRooted /\ KeptStored /\ BindingsPaired))

LEMMA StillRooted ==
  ASSUME durable.rows["buddies"] \subseteq durable'.rows["buddies"],
         kept["devices"] \subseteq kept'["devices"], NEW e
  PROVE  /\ HasBuddy(e) => HasBuddy(e)'
         /\ HasDevice(e) => HasDevice(e)'
         /\ Rooted(e) => Rooted(e)'
<1>1. ASSUME NEW x PROVE HasBuddy(x) => HasBuddy(x)'
  BY DEF HasBuddy
<1>2. HasDevice(e) => HasDevice(e)'
  BY <1>1 DEF HasDevice
<1>3. QED
  BY <1>1, <1>2 DEF Rooted

(* What is received belongs to what is there.                              *)
LEMMA ReceivedRooted ==
  ASSUME TypeInv, RowsKept, RootsInv, ~torn, NEW e \in Entities, Belongs(e),
         e.kind \in {"pair", "message", "memory"} => lock = None
  PROVE  Rooted(e)
<1>1. CASE e.of = 0
  BY <1>1 DEF Rooted, HasBuddy, HasDevice
<1>2. CASE e.of # 0
  <2>1. PICK o \in Owners(e.kind) : e.of = o.id /\ e.audience = o.audience
    BY <1>2 DEF Belongs
  <2>2. CASE e.kind \in {"pair", "message", "memory"}
    <3>1. o \in durable.rows["buddies"]
      BY <2>1, <2>2 DEF Owners, RootsInv, BuddiesCommitted
    <3>2. QED
      BY <2>1, <2>2, <3>1 DEF Rooted, HasBuddy
  <2>3. CASE e.kind \in {"heartbeat", "reminder"}
    <3>1. o \in kept["devices"]
      BY <2>1, <2>3 DEF Owners, RootsInv, BindingsPaired
    <3>2. o \in working.rows["devices"]
      BY <3>1, SectionsAre DEF RootsInv, KeptStored, RowsKept
    <3>3. HasBuddy(o)
      BY <3>2 DEF RootsInv, AllRooted
    <3>4. QED
      BY <2>1, <2>3, <3>1, <3>3 DEF Rooted, HasDevice
  <2>4. CASE e.kind \notin {"pair", "message", "memory", "heartbeat", "reminder"}
    BY <2>4 DEF Rooted
  <2>5. QED
    BY <2>2, <2>3, <2>4
<1>3. QED
  BY <1>1, <1>2

(* The tables of a pairing change together.                                *)
LEMMA PairsTogether ==
  ASSUME NEW h \in Sections
  PROVE  /\ "devices" \in Together(h) <=> h \in Paired
         /\ "bindings" \in Together(h) <=> h \in Paired
         /\ "buddies" \in Together(h) <=> h = "buddies"
         /\ \A kind \in Kinds : h \in Range(Writes(kind)) /\ h \in Paired
              => kind = "pair" /\ "devices" \in Range(Writes(kind))
<1>1. /\ "devices" \in Together(h) <=> h \in Paired
      /\ "bindings" \in Together(h) <=> h \in Paired
      /\ "buddies" \in Together(h) <=> h = "buddies"
  BY DEF Together, Paired
<1>2. ASSUME NEW kind \in Kinds, h \in Range(Writes(kind)), h \in Paired
      PROVE  kind = "pair" /\ "devices" \in Range(Writes(kind))
  BY <1>2, WritesAre DEF Kinds, Paired
<1>3. QED
  BY <1>1, <1>2

LEMMA RootsServe ==
  ASSUME TypeInv, TypeInv', FeedInv, RowsInv, RootsInv, NEW t \in Threads, Serve(t)
  PROVE  RootsInv'
<1>0. /\ pc \in [Threads -> Steps] /\ entity \in [Threads -> Entities \union {None}]
      /\ todo \in [Threads -> Seq(Sections)] /\ None \notin Threads
      /\ {"buddies", "devices", "bindings"} \subseteq Sections
      /\ "devices" \in Kept /\ "bindings" \in Kept /\ Kept \subseteq Sections
  BY FeedAssumption, SectionsAre DEF TypeInv, TypeOK
<1>g. /\ torn => torn'
      /\ \A s \in Sections : durable.rows[s] \subseteq durable'.rows[s] /\ kept[s] \subseteq kept'[s]
  BY RowsServe
<1>r. \A e : /\ HasBuddy(e) => HasBuddy(e)'
             /\ Rooted(e) => Rooted(e)'
  BY <1>0, <1>g, StillRooted
<1>i. ASSUME ~torn PROVE AllRooted /\ KeptStored /\ BindingsPaired /\ RowsKept
  BY <1>i DEF RootsInv, RowsInv
<1>k. RowsKept
  BY DEF RowsInv
(* The threads and the events keep what they belong to.                    *)
<1>t. ASSUME ~torn, NEW step, NEW e, NEW rest, Moves(t, step, e, rest),
             step = "idle" \/ Rooted(e),
             \A i \in DOMAIN working'.events : Rooted(working'.events[i]),
             \A d \in working'.rows["devices"] : HasBuddy(d)
      PROVE  AllRooted'
  <2>1. /\ pc'[t] = step /\ entity'[t] = e
        /\ \A u \in Threads \ {t} : pc'[u] = pc[u] /\ entity'[u] = entity[u]
    BY <1>0, <1>t DEF Moves
  <2>2. ASSUME NEW u \in Threads, Busy(u)' PROVE Rooted(entity'[u])
    BY <1>i, <1>t, <2>1, <2>2 DEF Busy, AllRooted
  <2>3. ASSUME NEW u \in Threads, Busy(u)' PROVE Rooted(entity[u])'
    <3>1. PICK x : x = entity'[u]
      OBVIOUS
    <3>2. Rooted(x)'
      BY <1>r, <2>2, <2>3, <3>1
    <3>3. QED
      BY <3>1, <3>2 DEF Rooted, HasBuddy, HasDevice
  <2>4. ASSUME NEW i \in DOMAIN working'.events PROVE Rooted(working.events[i])'
    <3>1. PICK x : x = working'.events[i]
      OBVIOUS
    <3>2. Rooted(x)'
      BY <1>r, <1>t, <3>1
    <3>3. QED
      BY <3>1, <3>2 DEF Rooted, HasBuddy, HasDevice
  <2>5. \A d \in working'.rows["devices"] : HasBuddy(d)'
    BY <1>r, <1>t
  <2>6. QED
    BY <2>3, <2>4, <2>5 DEF AllRooted
<1>e. ASSUME ~torn PROVE /\ pc[t] # "idle" => Rooted(entity[t])
                         /\ \A i \in DOMAIN working.events : Rooted(working.events[i])
                         /\ \A d \in working.rows["devices"] : HasBuddy(d)
  BY <1>e, <1>i DEF AllRooted, Busy
<1>d. ASSUME ~torn PROVE /\ \A i \in DOMAIN durable.events : Rooted(durable.events[i])
                         /\ \A d \in durable.rows["devices"] : HasBuddy(d)
  <2>1. ASSUME NEW i \in DOMAIN durable.events PROVE Rooted(durable.events[i])
    <3>1. i \in DOMAIN working.events /\ working.events[i] = durable.events[i]
      BY WorkingGrown, EventsType DEF Grows
    <3>2. QED
      BY <1>d, <1>e, <3>1
  <2>2. \A d \in durable.rows["devices"] : HasBuddy(d)
    BY <1>0, <1>d, <1>e, <1>k DEF RowsKept
  <2>3. QED
    BY <2>1, <2>2
<1>1. ASSUME NEW change \in Changes, Receive(t, change) PROVE RootsInv'
  <2>1. PICK e \in Entities : /\ Moves(t, "write", e, Writes(e.kind)) /\ Belongs(e)
                              /\ e.kind \in {"pair", "message", "memory"} => lock = None
    BY <1>1, ReceiveDoes
  <2>2. UNCHANGED <<working, durable, kept, lock, torn>>
    BY <1>1, ReceiveDoes
  <2>3. ASSUME ~torn PROVE AllRooted'
    <3>1. Rooted(e)
      BY <1>k, <2>1, <2>3, ReceivedRooted
    <3>2. QED
      BY <1>e, <1>t, <2>1, <2>2, <2>3, <3>1
  <2>4. QED
    BY <1>i, <2>2, <2>3 DEF RootsInv, BuddiesCommitted, KeptStored, BindingsPaired
<1>2. CASE WriteSection(t)
  <2> DEFINE h == Head(todo[t])
  <2>1. /\ pc[t] = "write" /\ Moves(t, "commit", entity[t], todo[t]) /\ UNCHANGED <<durable, kept, torn>>
        /\ working'.events = working.events
        /\ \A s \in Sections : working'.rows[s] =
             IF s \in Together(h) THEN working.rows[s] \union {entity[t]} ELSE working.rows[s]
        /\ lock' = (IF h \in Guarded THEN t ELSE lock)
    BY <1>2, WriteSectionDoes DEF Adds
  <2>2. h \in Sections /\ h \in Range(Writes(entity[t].kind)) /\ entity[t].kind \in Kinds
    BY <2>1, TodoHead DEF Writing
  <2> HIDE DEF h
  <2>3. BuddiesCommitted'
    <3>1. CASE h = "buddies"
      BY <1>0, <2>1, <3>1 DEF BuddiesCommitted, Guarded
    <3>2. CASE h # "buddies"
      <4>1. working'.rows["buddies"] = working.rows["buddies"] /\ lock' = lock
        BY <1>0, <2>1, <2>2, <3>2, PairsTogether DEF Guarded
      <4>2. QED
        BY <2>1, <4>1 DEF RootsInv, BuddiesCommitted
    <3>3. QED
      BY <3>1, <3>2
  <2>4. ASSUME ~torn PROVE AllRooted'
    <3>1. Rooted(entity[t])
      BY <1>e, <2>1, <2>4
    <3>2. ASSUME NEW d \in working'.rows["devices"] PROVE HasBuddy(d)
      <4>1. CASE d \in working.rows["devices"]
        BY <1>e, <2>4, <4>1
      <4>2. CASE d \notin working.rows["devices"]
        <5>1. "devices" \in Together(h) /\ d = entity[t]
          BY <1>0, <2>1, <3>2, <4>2
        <5>2. entity[t].kind = "pair"
          BY <2>2, <5>1, PairsTogether
        <5>3. QED
          BY <3>1, <5>1, <5>2 DEF Rooted
      <4>3. QED
        BY <4>1, <4>2
    <3>3. QED
      BY <1>e, <1>t, <2>1, <2>4, <3>1, <3>2
  <2>5. ASSUME ~torn PROVE BindingsPaired'
    <3>1. working'.rows["bindings"] \subseteq working'.rows["devices"]
      <4>1. working.rows["bindings"] \subseteq working.rows["devices"]
        BY <1>i, <2>5 DEF BindingsPaired
      <4>2. "bindings" \in Together(h) <=> "devices" \in Together(h)
        BY <2>2, PairsTogether
      <4>3. QED
        BY <1>0, <2>1, <4>1, <4>2
    <3>2. QED
      BY <1>i, <2>1, <2>5, <3>1 DEF BindingsPaired
  <2>6. QED
    BY <1>i, <2>1, <2>3, <2>4, <2>5 DEF RootsInv, KeptStored
<1>3. CASE CommitSection(t) \/ CommitEvent(t)
  <2>1. PICK step, e, rest :
          /\ pc[t] # "idle" /\ Moves(t, step, e, rest) /\ (step = "idle" \/ e = entity[t])
          /\ durable' = working /\ UNCHANGED <<working, kept, torn>>
    BY <1>3, CommitSectionDoes, CommitEventDoes
  <2>2. ASSUME ~torn PROVE AllRooted'
    BY <1>e, <1>t, <2>1, <2>2
  <2>3. ASSUME ~torn PROVE KeptStored' /\ BindingsPaired'
    BY <1>0, <1>i, <2>1, <2>3 DEF KeptStored, BindingsPaired, RowsKept
  <2>4. QED
    BY <2>1, <2>2, <2>3 DEF RootsInv, BuddiesCommitted
<1>4. CASE Publish(t)
  <2> DEFINE h == Head(todo[t])
  <2>1. /\ pc[t] = "publish" /\ UNCHANGED <<working, durable, lock, torn>>
        /\ kept' = IF h \in Kept THEN [kept EXCEPT ![h] = @ \union {entity[t]}] ELSE kept
    BY <1>4, PublishDoes
  <2>2. PICK step : Moves(t, step, entity[t], Tail(todo[t]))
    BY <1>4, PublishDoes
  <2>3. /\ h \in Sections /\ h \in Together(h) /\ h = todo[t][1]
        /\ todo[t] \in Seq(Sections) /\ todo[t] # <<>>
        /\ h \in Range(Writes(entity[t].kind)) /\ entity[t].kind \in Kinds
    BY <2>1, TodoHead, TogetherIs DEF Writing
  <2>4. \A s \in Sections :
          kept'[s] = IF s = h /\ h \in Kept THEN kept[s] \union {entity[t]} ELSE kept[s]
    BY <2>1, <2>3, RowsType DEF Rows
  <2>5. ASSUME ~torn PROVE Progress(t)
    BY <2>1, <2>5 DEF RowsInv, Progressing, Busy
  <2>6. ASSUME ~torn PROVE AllRooted'
    BY <1>e, <1>t, <2>1, <2>2, <2>6
  <2>7. ASSUME ~torn PROVE KeptStored'
    <3>1. entity[t] \in durable.rows[h]
      BY <2>1, <2>3, <2>5, <2>7 DEF Progress
    <3> HIDE DEF h
    <3>2. QED
      BY <1>0, <1>i, <2>1, <2>4, <2>7, <3>1 DEF KeptStored
  <2>8. ASSUME ~torn PROVE BindingsPaired'
    <3>1. ASSUME h = "bindings" PROVE entity[t] \in kept["devices"]
      <4>1. "devices" \notin Range(todo[t])
        BY <2>3, <3>1, TailOrdered DEF TypeInv, Serving
      <4>2. "devices" \in Range(Writes(entity[t].kind))
        BY <2>3, <3>1, PairsTogether DEF Paired
      <4>3. Shown(entity[t], "devices")
        BY <2>5, <2>8, <4>1, <4>2 DEF Progress
      <4>4. QED
        BY <1>0, <4>3 DEF Shown
    <3> HIDE DEF h
    <3>2. kept'["bindings"] \subseteq kept'["devices"]
      BY <1>0, <1>i, <2>4, <2>8, <3>1 DEF BindingsPaired
    <3>3. QED
      BY <1>i, <2>1, <2>8, <3>2 DEF BindingsPaired
  <2>9. QED
    BY <2>1, <2>6, <2>7, <2>8 DEF RootsInv, BuddiesCommitted
<1>5. CASE AppendEvent(t)
  <2>1. /\ pc[t] = "append" /\ Moves(t, "announce", entity[t], <<>>)
        /\ UNCHANGED <<durable, kept, torn>> /\ lock' = t /\ entity[t] \in Entities
        /\ working'.rows = working.rows /\ working'.events = Append(working.events, entity[t])
    BY <1>5, AppendEventDoes
  <2>2. ASSUME ~torn PROVE AllRooted'
    <3>1. /\ DOMAIN working'.events = 1 .. Len(working.events) + 1
          /\ \A j \in 1 .. Len(working.events) : working'.events[j] = working.events[j]
          /\ working'.events[Len(working.events) + 1] = entity[t]
      BY <2>1, EventsType
    <3>2. Rooted(entity[t])
      BY <1>e, <2>1, <2>2
    <3>3. ASSUME NEW i \in DOMAIN working'.events PROVE Rooted(working'.events[i])
      <4>1. CASE i \in 1 .. Len(working.events)
        BY <1>e, <2>2, <3>1, <4>1, EventsType
      <4>2. CASE i = Len(working.events) + 1
        BY <3>1, <3>2, <4>2
      <4>3. QED
        BY <3>1, <3>3, <4>1, <4>2, EventsType
    <3>4. QED
      BY <1>e, <1>t, <2>1, <2>2, <3>2, <3>3
  <2>3. QED
    BY <1>0, <1>i, <2>1, <2>2 DEF RootsInv, BuddiesCommitted, KeptStored, BindingsPaired
<1>6. CASE WriteFails(t)
  <2>1. /\ Moves(t, "idle", None, <<>>) /\ working' = durable /\ UNCHANGED <<durable, kept>>
    BY <1>6, WriteFailsDoes
  <2>2. ASSUME ~torn' PROVE ~torn
    BY <1>g, <2>2
  <2>3. ASSUME ~torn' PROVE AllRooted'
    BY <1>d, <1>t, <2>1, <2>2, <2>3
  <2>4. ASSUME ~torn' PROVE KeptStored' /\ BindingsPaired'
    BY <1>i, <2>1, <2>2, <2>4 DEF KeptStored, BindingsPaired
  <2>5. QED
    BY <2>1, <2>3, <2>4 DEF RootsInv, BuddiesCommitted
<1>7. QED
  BY <1>1, <1>2, <1>3, <1>4, <1>5, <1>6 DEF Serve

(* What was committed, and what is published, survives a restart.          *)
LEMMA KeptThroughRestart ==
  ASSUME TypeInv, RootsInv, ~torn, Restart
  PROVE  kept["devices"] \subseteq kept'["devices"]
BY SectionsAre DEF Restart, RootsInv, KeptStored

LEMMA CoveredRooted ==
  ASSUME TypeInv, FeedInv, RootsInv, ~torn, NEW i \in DOMAIN durable.events
  PROVE  Rooted(durable.events[i])
<1>1. i \in DOMAIN working.events /\ working.events[i] = durable.events[i]
  BY WorkingGrown, EventsType DEF Grows
<1>2. QED
  BY <1>1 DEF RootsInv, AllRooted

LEMMA RootsInductive ==
  TypeInv /\ TypeInv' /\ FeedInv /\ RowsInv /\ RootsInv /\ [Next]_vars => RootsInv'
<1> SUFFICES ASSUME TypeInv, TypeInv', FeedInv, RowsInv, RootsInv, [Next]_vars PROVE RootsInv'
  OBVIOUS
<1>1. CASE Restart
  <2>1. /\ working' = durable /\ UNCHANGED <<durable, torn>>
        /\ \A s \in Sections : kept'[s] = IF s \in Kept THEN durable.rows[s] ELSE {}
        /\ \A t \in Threads : pc'[t] = "idle"
    BY <1>1 DEF Restart, Rollback
  <2>2. BuddiesCommitted'
    BY <2>1 DEF BuddiesCommitted
  <2>3. ASSUME ~torn PROVE AllRooted'
    <3>r. \A e : (HasBuddy(e) => HasBuddy(e)') /\ (Rooted(e) => Rooted(e)')
      BY <1>1, <2>1, <2>3, KeptThroughRestart, StillRooted
    <3>1. ASSUME NEW i \in DOMAIN durable.events PROVE Rooted(working.events[i])'
      <4>1. PICK x : x = durable.events[i] /\ x = working'.events[i]
        BY <2>1
      <4>2. Rooted(x)'
        BY <2>3, <3>r, <4>1, CoveredRooted
      <4>3. QED
        BY <4>1, <4>2 DEF Rooted, HasBuddy, HasDevice
    <3>2. \A d \in durable.rows["devices"] : HasBuddy(d)'
      BY <2>3, <3>r, SectionsAre DEF RootsInv, AllRooted, RowsInv, RowsKept
    <3>3. QED
      BY <2>1, <3>1, <3>2 DEF AllRooted, Busy
  <2>4. ASSUME ~torn PROVE KeptStored' /\ BindingsPaired'
    BY <2>1, <2>4, SectionsAre DEF RootsInv, KeptStored, BindingsPaired
  <2>5. QED
    BY <2>1, <2>2, <2>3, <2>4 DEF RootsInv
<1>2. ASSUME NEW t \in Threads, Serve(t) PROVE RootsInv'
  BY <1>2, RootsServe
<1>3. ASSUME UNCHANGED <<working, durable, kept, lock, pc, entity, torn>> PROVE RootsInv'
  BY <1>3 DEF RootsInv, BuddiesCommitted, AllRooted, KeptStored, BindingsPaired, Busy, Rooted,
     HasBuddy, HasDevice
<1>4. ASSUME NEW c \in Clients, Follow(c) PROVE RootsInv'
  BY <1>3, <1>4, FollowTypes DEF serverVars
<1>5. CASE UNCHANGED vars \/ NextMonth
  BY <1>3, <1>5 DEF vars, connectionVars, threadVars, NextMonth
<1>6. QED
  BY <1>1, <1>2, <1>4, <1>5 DEF Next

LEMMA RootsInit == Init => RootsInv
<1> SUFFICES ASSUME Init PROVE RootsInv
  OBVIOUS
<1>1. durable = EmptyDatabase /\ working = EmptyDatabase /\ kept = NoRows /\ working.events = <<>>
  BY DEF Init, EmptyDatabase
<1>2. \A s \in Sections : working.rows[s] = {} /\ durable.rows[s] = {} /\ kept[s] = {}
  BY <1>1 DEF EmptyDatabase, NoRows
<1>3. DOMAIN working.events = {}
  BY <1>1
<1>4. AllRooted
  BY <1>2, <1>3, SectionsAre DEF Init, AllRooted, Busy
<1>5. KeptStored /\ BindingsPaired
  BY <1>2, SectionsAre DEF KeptStored, BindingsPaired
<1>6. QED
  BY <1>1, <1>4, <1>5 DEF RootsInv, BuddiesCommitted

LEMMA RootsInvHolds == Spec => []RootsInv
BY RootsInit, RootsInductive, RowsInvHolds, FeedInvHolds, TypeInvHolds, PTL DEF Spec

-----------------------------------------------------------------------------
(* What a client is shown, as a function of what it was given.             *)
SeesIn(v, what, id) == id = 0 \/ \E o \in v[what] : o.id = id
SelectedIn(c, v, s, e) ==
  /\ e.audience = c
  /\ s \in Visible \union {"state_memory", "bindings"} => SeesIn(v, "buddies", e.of)
  /\ s \in {"heartbeats", "desired_states"} => SeesIn(v, "visible_devices", e.of)
  /\ s = "devices" => SeesIn(v, "visible_devices", e.id)
  /\ s = "agent_machines" => SeesIn(v, "visible_machines", e.id)
CountedIn(c, v, p, e) ==
  e \notin p /\ {b.user : b \in v["buddies"]} \union {e.user} \subseteq {Owner[c]}
ShowsIn(c, v, p, s, e) == e \in v[s] \/ (s = "plan_usage" /\ ~CountedIn(c, v, p, e))

LEMMA InView ==
  ASSUME NEW c, NEW s, NEW e
  PROVE  /\ Selected(c, s, e) <=> SelectedIn(c, view[c], s, e)
         /\ Counted(c, e) <=> CountedIn(c, view[c], past, e)
         /\ Shows(c, s, e) <=> ShowsIn(c, view[c], past, s, e)
BY DEF Selected, SelectedIn, Sees, SeesIn, Counted, CountedIn, Shows, ShowsIn

(* The buddy or the device that e belongs to is seen in a section.         *)
RootSeen(c, v, devices, s, e) ==
  /\ s = "buddies" =>
       /\ e.kind \in {"pair", "message", "memory"} => SeesIn(v, "buddies", e.of)
       /\ e.kind \in {"heartbeat", "reminder"} =>
            e.of = 0 \/ \E d \in devices : d.id = e.of /\ d.audience = c /\ SeesIn(v, "buddies", d.of)
  /\ s = "visible_devices" =>
       /\ e.kind = "pair" => SeesIn(v, "visible_devices", e.id)
       /\ e.kind \in {"heartbeat", "reminder"} => SeesIn(v, "visible_devices", e.of)
  /\ s = "visible_machines" => (e.kind = "pair" => SeesIn(v, "visible_machines", e.id))

(* A section shows what was announced up to a revision: all of it, or what *)
(* belongs to what it selects.                                             *)
OldShown(c, v, p, events, devices, a, s) ==
  \A i \in DOMAIN events : i <= a /\ events[i].audience = c =>
    /\ s \in Range(Writes(events[i].kind)) => ShowsIn(c, v, p, s, events[i])
    /\ RootSeen(c, v, devices, s, events[i])
CoveredTo(c, v, p, events, r, s) ==
  \A i \in DOMAIN events :
    (/\ i <= r /\ events[i].audience = c /\ s \in Range(Writes(events[i].kind))
     /\ SelectedIn(c, v, s, events[i])) => ShowsIn(c, v, p, s, events[i])

(* What holds of a client: marks are the reads that are left to it, a and  *)
(* r the revisions before which all is shown, or all that is selected.     *)
ClientView(c, marks, v, r, a, p, db, devices) ==
  /\ a <= Len(db.events) /\ r <= Len(db.events)
  /\ \A s \in Viewed \ marks : OldShown(c, v, p, db.events, devices, a, s)
  /\ \A s \in LateSections \ marks : CoveredTo(c, v, p, db.events, r, s)
  /\ v["costs"] \subseteq db.rows["plan_usage"]
  /\ "plan_usage" \notin marks => \A e \in v["costs"] : ShowsIn(c, v, p, "plan_usage", e)

UpTo(c) == IF "snapshot" \in Range(left[c]) THEN given[c] ELSE base[c]
HasView(c) ==
  ClientView(c, Range(left[c]), view[c], UpTo(c), asked[c], past, durable, kept["devices"])

ViewInv == torn \/ \A c \in Clients : HasView(c)

(* More is committed and published, more usage is of a month gone by.      *)
LEMMA ViewGrows ==
  ASSUME NEW c \in Clients, NEW marks, NEW v, NEW r \in Nat, NEW a \in Nat, NEW p, NEW q,
         NEW db \in Database, NEW new \in Database, NEW devices, NEW more,
         ClientView(c, marks, v, r, a, p, db, devices),
         Grows(db.events, new.events), db.rows["plan_usage"] \subseteq new.rows["plan_usage"],
         devices \subseteq more, p \subseteq q
  PROVE  ClientView(c, marks, v, r, a, q, new, more)
<1>1. /\ Len(db.events) \in Nat /\ DOMAIN db.events = 1 .. Len(db.events)
      /\ Len(new.events) \in Nat /\ DOMAIN new.events = 1 .. Len(new.events)
  <2>1. db.events \in Seq(Entities) /\ new.events \in Seq(Entities)
    BY InDatabase
  <2>2. QED
    BY <2>1
<1>2. a <= Len(db.events) /\ r <= Len(db.events) /\ Len(db.events) <= Len(new.events)
  BY DEF ClientView, Grows
<1>3. ASSUME NEW i \in DOMAIN new.events, NEW n \in Nat, n <= Len(db.events), i <= n
      PROVE  i \in DOMAIN db.events /\ new.events[i] = db.events[i]
  BY <1>1, <1>3 DEF Grows
<1>4. ASSUME NEW s, NEW e, ShowsIn(c, v, p, s, e) PROVE ShowsIn(c, v, q, s, e)
  BY <1>4 DEF ShowsIn, CountedIn
<1>5. ASSUME NEW s, NEW e, RootSeen(c, v, devices, s, e) PROVE RootSeen(c, v, more, s, e)
  BY <1>5 DEF RootSeen
<1>6. ASSUME NEW s \in Viewed \ marks PROVE OldShown(c, v, q, new.events, more, a, s)
  <2>1. OldShown(c, v, p, db.events, devices, a, s)
    BY DEF ClientView
  <2>2. QED
    BY <1>2, <1>3, <1>4, <1>5, <2>1 DEF OldShown
<1>7. ASSUME NEW s \in LateSections \ marks PROVE CoveredTo(c, v, q, new.events, r, s)
  <2>1. CoveredTo(c, v, p, db.events, r, s)
    BY DEF ClientView
  <2>2. QED
    BY <1>2, <1>3, <1>4, <2>1 DEF CoveredTo
<1>8. v["costs"] \subseteq new.rows["plan_usage"]
  BY DEF ClientView
<1>9. "plan_usage" \notin marks => \A e \in v["costs"] : ShowsIn(c, v, q, "plan_usage", e)
  BY <1>4 DEF ClientView
<1>10. a <= Len(new.events) /\ r <= Len(new.events)
  BY <1>1, <1>2
<1>11. QED
  BY <1>6, <1>7, <1>8, <1>9, <1>10 DEF ClientView

LEMMA ClientTypes ==
  ASSUME TypeInv, NEW c \in Clients
  PROVE  /\ UpTo(c) \in Nat /\ asked[c] \in Nat /\ durable \in Database
         /\ base[c] \in Nat /\ given[c] \in Nat
BY DEF TypeInv, TypeOK, UpTo

LEMMA ViewServe ==
  ASSUME TypeInv, TypeInv', FeedInv, RowsInv, ViewInv, NEW t \in Threads, Serve(t)
  PROVE  ViewInv'
<1> SUFFICES ASSUME ~torn, NEW c \in Clients, HasView(c) PROVE HasView(c)'
  BY RowsServe DEF ViewInv
<1>1. UNCHANGED <<left, view, base, given, asked, past>>
  BY ServeTypes DEF clientVars
<1>2. UpTo(c)' = UpTo(c)
  BY <1>1 DEF UpTo
<1>3. /\ Grows(durable.events, durable'.events)
      /\ durable.rows["plan_usage"] \subseteq durable'.rows["plan_usage"]
      /\ kept["devices"] \subseteq kept'["devices"]
  BY RowsServe, FeedServe, SectionsAre
<1>4. durable \in Database /\ durable' \in Database
  BY DEF TypeInv, TypeOK
<1>5. ClientView(c, Range(left[c]), view[c], UpTo(c), asked[c], past, durable', kept'["devices"])
  BY <1>3, <1>4, ClientTypes, ViewGrows DEF HasView
<1>6. QED
  BY <1>1, <1>2, <1>5 DEF HasView

LEMMA ViewNextMonth ==
  ASSUME TypeInv, TypeInv', ViewInv, NextMonth
  PROVE  ViewInv'
<1>1. /\ UNCHANGED <<durable, kept, left, view, base, given, asked, torn>>
      /\ past \subseteq past'
  BY DEF NextMonth, connectionVars, clientVars
<1> SUFFICES ASSUME ~torn, NEW c \in Clients, HasView(c) PROVE HasView(c)'
  BY <1>1 DEF ViewInv
<1>2. UpTo(c)' = UpTo(c)
  BY <1>1 DEF UpTo
<1>3. Grows(durable.events, durable.events)
  BY EventsType DEF Grows
<1>4. ClientView(c, Range(left[c]), view[c], UpTo(c), asked[c], past', durable, kept["devices"])
  BY <1>1, <1>3, ClientTypes, ViewGrows DEF HasView
<1>5. QED
  BY <1>1, <1>2, <1>4 DEF HasView

(* What one read of a section changes of what is seen and selected.        *)
LEMMA ReadSame ==
  ASSUME NEW c, NEW p, NEW old, NEW v, NEW s \in Viewed, NEW shown,
         \A x \in Viewed : v[x] = IF x = s THEN shown ELSE old[x]
  PROVE  /\ \A x \in Viewed \ {s} : \A devices, e :
              RootSeen(c, v, devices, x, e) <=> RootSeen(c, old, devices, x, e)
         /\ \A x \in Viewed \ {s} : (x = "plan_usage" => s # "buddies") =>
              \A e : ShowsIn(c, v, p, x, e) <=> ShowsIn(c, old, p, x, e)
         /\ s \notin Visible \union {"buddies"} =>
              \A x, e : SelectedIn(c, v, x, e) <=> SelectedIn(c, old, x, e)
<1>0. "buddies" \in Viewed /\ "visible_devices" \in Viewed /\ "visible_machines" \in Viewed
  BY SectionsAre
<1>1. \A x \in Viewed \ {s} : \A id : SeesIn(v, x, id) <=> SeesIn(old, x, id)
  BY DEF SeesIn
<1>3. ASSUME NEW x \in Viewed \ {s}, NEW devices, NEW e
      PROVE  RootSeen(c, v, devices, x, e) <=> RootSeen(c, old, devices, x, e)
  BY <1>1 DEF RootSeen
<1>4. ASSUME s # "buddies" PROVE \A e : CountedIn(c, v, p, e) <=> CountedIn(c, old, p, e)
  <2>1. v["buddies"] = old["buddies"]
    BY <1>0, <1>4
  <2>2. QED
    BY <2>1 DEF CountedIn
<1>5. ASSUME NEW x \in Viewed \ {s}, x = "plan_usage" => s # "buddies", NEW e
      PROVE  ShowsIn(c, v, p, x, e) <=> ShowsIn(c, old, p, x, e)
  <2>1. v[x] = old[x]
    OBVIOUS
  <2>2. QED
    BY <1>4, <1>5, <2>1 DEF ShowsIn
<1>6. ASSUME s \notin Visible \union {"buddies"}, NEW x, NEW e
      PROVE  SelectedIn(c, v, x, e) <=> SelectedIn(c, old, x, e)
  BY <1>0, <1>1, <1>6 DEF SelectedIn, Visible
<1>7. QED
  BY <1>3, <1>5, <1>6

(* What the client has when the section is read.                           *)
ReadNow(c) == {e \in Source(left[c][1]) :
                 IF left[c][1] = "plan_usage" THEN CountedIn(c, view[c], past, e)
                                              ELSE SelectedIn(c, view[c], left[c][1], e)}
ViewNow(c) == [view[c] EXCEPT ![left[c][1]] = ReadNow(c)]

LEMMA ViewNowIs ==
  ASSUME TypeInv, NEW c \in Clients, ReadSection(c)
  PROVE  /\ \A x \in Viewed : ViewNow(c)[x] = IF x = left[c][1] THEN ReadNow(c) ELSE view[c][x]
         /\ view' = [view EXCEPT ![c] = ViewNow(c)]
<1>1. view[c] \in Views
  BY DEF TypeInv, TypeOK
<1>2. \A x \in Viewed : ViewNow(c)[x] = IF x = left[c][1] THEN ReadNow(c) ELSE view[c][x]
  BY <1>1 DEF ViewNow, Views
<1>3. view' = [view EXCEPT ![c] = ViewNow(c)]
  <2> DEFINE s == left[c][1]
  <2>1. view' = [view EXCEPT ![c] = [@ EXCEPT ![s] =
          {e \in Source(s) : IF s = "plan_usage" THEN Counted(c, e) ELSE Selected(c, s, e)}]]
    BY ReadSectionDoes
  <2>2. ReadNow(c) = {e \in Source(s) : IF s = "plan_usage" THEN Counted(c, e) ELSE Selected(c, s, e)}
    BY InView DEF ReadNow
  <2>3. QED
    BY <2>1, <2>2 DEF ViewNow
<1>4. QED
  BY <1>2, <1>3

(* The section that is read shows what was announced before the snapshot   *)
(* was asked for, and all that it selects.                                 *)
LEMMA ReadShows ==
  ASSUME TypeInv, FeedInv, RowsInv, RootsInv, ~torn, NEW c \in Clients, HasView(c),
         ReadSection(c), NEW s, s = left[c][1], NEW v, v = ViewNow(c)
  PROVE  /\ \A e \in Source(s) : s = "plan_usage" \/ SelectedIn(c, v, s, e) => ShowsIn(c, v, past, s, e)
         /\ OldShown(c, v, past, durable.events, kept["devices"], asked[c], s)
         /\ CoveredTo(c, v, past, durable.events, given[c], s)
<1>o. PICK old, shown : old = view[c] /\ shown = ReadNow(c)
  OBVIOUS
<1>1. /\ s \in Viewed /\ (s \in Guarded => lock = None)
      /\ left[c] \in Seq(Marks) /\ left[c] # <<>> /\ IsEnd(left[c], SnapshotPlan)
  BY ReadSectionDoes, ReadDoes
<1>v. \A x \in Viewed : v[x] = IF x = s THEN shown ELSE old[x]
  BY <1>o, ViewNowIs
<1>w. shown = {e \in Source(s) : IF s = "plan_usage" THEN CountedIn(c, old, past, e)
                                                      ELSE SelectedIn(c, old, s, e)}
  BY <1>o DEF ReadNow
<1>2. /\ \A e : SelectedIn(c, v, s, e) <=> SelectedIn(c, old, s, e)
      /\ s # "buddies" => \A e : CountedIn(c, v, past, e) <=> CountedIn(c, old, past, e)
  <2>0. s \in Viewed /\ {"buddies", "visible_devices", "visible_machines"} \subseteq Viewed
    BY <1>1, SectionsAre
  <2>1. \A x \in Viewed \ {s} : v[x] = old[x]
    BY <1>v
  <2>2. \A e : SelectedIn(c, v, s, e) <=> SelectedIn(c, old, s, e)
    BY <2>0, <2>1 DEF SelectedIn, SeesIn, Visible
  <2>3. ASSUME s # "buddies" PROVE \A e : CountedIn(c, v, past, e) <=> CountedIn(c, old, past, e)
    <3>1. v["buddies"] = old["buddies"]
      BY <2>0, <2>1, <2>3
    <3>2. QED
      BY <3>1 DEF CountedIn
  <2>4. QED
    BY <2>2, <2>3
<1>3. v[s] = {e \in Source(s) : IF s = "plan_usage" THEN CountedIn(c, old, past, e)
                                                     ELSE SelectedIn(c, old, s, e)}
  BY <1>1, <1>v, <1>w
<1>4. ASSUME NEW e \in Source(s), s = "plan_usage" \/ SelectedIn(c, v, s, e)
      PROVE  ShowsIn(c, v, past, s, e)
  <2>1. CASE s = "plan_usage"
    BY <1>2, <1>3, <2>1 DEF ShowsIn
  <2>2. CASE s # "plan_usage"
    <3>1. SelectedIn(c, old, s, e)
      BY <1>2, <1>4, <2>2
    <3>2. QED
      BY <1>3, <2>2, <3>1 DEF ShowsIn
  <2>3. QED
    BY <2>1, <2>2
<1>5. ASSUME NEW i \in DOMAIN durable.events, s \in Range(Writes(durable.events[i].kind))
      PROVE  durable.events[i] \in Source(s)
  <2>1. Shown(durable.events[i], s)
    BY <1>5, Covered
  <2>2. s \in Sections
    BY <1>5, EventsType, SectionsOf
  <2>3. durable.rows[s] \subseteq working.rows[s] /\ s \notin Visible
    BY <2>2, SectionsAre DEF RowsInv, RowsKept
  <2>4. QED
    BY <2>1, <2>3 DEF Shown, Source, Visible
<1>6. CoveredTo(c, v, past, durable.events, given[c], s)
  BY <1>4, <1>5 DEF CoveredTo
(* What was read before.                                                   *)
<1>7. ASSUME NEW x \in Viewed, Order(x) < Order(s), NEW i \in DOMAIN durable.events,
             i <= asked[c], durable.events[i].audience = c
      PROVE  RootSeen(c, old, kept["devices"], x, durable.events[i])
  <2>1. Order(x) \in 1 .. 15 /\ Order(s) \in 1 .. 15
    BY <1>1, SnapshotAt
  <2>a. ~(Order(x) >= Order(left[c][1]))
    <3>1. \A m, n \in 1 .. 15 : m < n => ~(m >= n)
      OBVIOUS
    <3>2. QED
      BY <1>7, <2>1, <3>1
  <2>2. x \notin Range(left[c])
    BY <1>1, <2>a, SnapshotEnds
  <2>3. QED
    BY <1>o, <1>7, <2>2 DEF HasView, ClientView, OldShown
<1>8. ASSUME NEW i \in DOMAIN durable.events, i <= asked[c], durable.events[i].audience = c
      PROVE  /\ s \in Range(Writes(durable.events[i].kind)) => ShowsIn(c, v, past, s, durable.events[i])
             /\ RootSeen(c, v, kept["devices"], s, durable.events[i])
  <2>0. PICK e : e = durable.events[i]
    OBVIOUS
  <2>1. e \in Entities /\ e.kind \in Kinds /\ Rooted(e) /\ e.audience = c
    BY <1>8, <2>0, CoveredRooted, EventsType, SectionsOf
  <2>b. ASSUME Order("buddies") < Order(s) PROVE RootSeen(c, old, kept["devices"], "buddies", e)
    BY <1>7, <1>8, <2>0, <2>b, SectionsAre
  <2>d. ASSUME Order("visible_devices") < Order(s)
        PROVE  RootSeen(c, old, kept["devices"], "visible_devices", e)
    BY <1>7, <1>8, <2>0, <2>d, SectionsAre
  <2>m. ASSUME Order("visible_machines") < Order(s)
        PROVE  RootSeen(c, old, kept["devices"], "visible_machines", e)
    BY <1>7, <1>8, <2>0, <2>m, SectionsAre
  <2>2. ASSUME s \in Range(Writes(e.kind)) PROVE SelectedIn(c, old, s, e)
    <3>1. CASE s \in {"traces", "costs", "buddies", "plan_usage", "agents"}
      BY <2>1, <3>1 DEF SelectedIn, Visible
    <3>2. CASE s \in {"state_memory", "bindings"}
      <4>1. e.kind \in {"pair", "memory"}
        BY <2>1, <2>2, <3>2, WritesAre DEF Kinds
      <4>2. Order("buddies") < Order(s)
        BY <3>2 DEF Order
      <4>3. SeesIn(old, "buddies", e.of)
        BY <2>b, <4>1, <4>2 DEF RootSeen
      <4>4. QED
        BY <2>1, <3>2, <4>3 DEF SelectedIn, Visible
    <3>3. CASE s \in {"heartbeats", "desired_states"}
      <4>1. e.kind \in {"heartbeat", "reminder"}
        BY <2>1, <2>2, <3>3, WritesAre DEF Kinds
      <4>2. Order("visible_devices") < Order(s)
        BY <3>3 DEF Order
      <4>3. SeesIn(old, "visible_devices", e.of)
        BY <2>d, <4>1, <4>2 DEF RootSeen
      <4>4. QED
        BY <2>1, <3>3, <4>3 DEF SelectedIn, Visible
    <3>4. CASE s = "devices"
      <4>1. e.kind = "pair"
        BY <2>1, <2>2, <3>4, WritesAre DEF Kinds
      <4>2. Order("visible_devices") < Order(s)
        BY <3>4 DEF Order
      <4>3. SeesIn(old, "visible_devices", e.id)
        BY <2>d, <4>1, <4>2 DEF RootSeen
      <4>4. QED
        BY <2>1, <3>4, <4>3 DEF SelectedIn, Visible
    <3>5. CASE s = "agent_machines"
      <4>1. e.kind = "pair"
        BY <2>1, <2>2, <3>5, WritesAre DEF Kinds
      <4>2. Order("visible_machines") < Order(s)
        BY <3>5 DEF Order
      <4>3. SeesIn(old, "visible_machines", e.id)
        BY <2>m, <4>1, <4>2 DEF RootSeen
      <4>4. QED
        BY <2>1, <3>5, <4>3 DEF SelectedIn, Visible
    <3>6. s \in Sections
      BY <2>1, <2>2, SectionsOf
    <3>7. QED
      BY <3>1, <3>2, <3>3, <3>4, <3>5, <3>6, SectionsAre
  <2>3. s \in Range(Writes(e.kind)) => ShowsIn(c, v, past, s, e)
    BY <1>2, <1>4, <1>5, <2>0, <2>2
  <2>4. RootSeen(c, v, kept["devices"], s, e)
    <3>1. CASE s = "buddies"
      <4>1. working.rows["buddies"] = durable.rows["buddies"]
        BY <1>1, <3>1 DEF Guarded, RootsInv, BuddiesCommitted
      <4>2. \A b \in durable.rows["buddies"] : b.audience = c => b \in v["buddies"]
        BY <1>3, <3>1, <4>1 DEF Source, Kept, Paired, SelectedIn, Visible
      <4>3. \A x : HasBuddy(x) /\ x.audience = c => SeesIn(v, "buddies", x.of)
        BY <4>2 DEF HasBuddy, SeesIn
      <4>4. e.kind \in {"pair", "message", "memory"} => SeesIn(v, "buddies", e.of)
        BY <2>1, <4>3 DEF Rooted
      <4>5. e.kind \in {"heartbeat", "reminder"} =>
              e.of = 0 \/ \E d \in kept["devices"] :
                d.id = e.of /\ d.audience = c /\ SeesIn(v, "buddies", d.of)
        BY <2>1, <4>3 DEF Rooted, HasDevice
      <4>6. QED
        BY <3>1, <4>4, <4>5 DEF RootSeen
    <3>2. CASE s = "visible_devices"
      <4>1. RootSeen(c, old, kept["devices"], "buddies", e)
        BY <2>b, <3>2 DEF Order
      <4>2. \A d \in kept["devices"] : d.audience = c /\ SeesIn(old, "buddies", d.of)
              => d \in v["visible_devices"]
        BY <1>3, <3>2 DEF Source, SelectedIn, Visible
      <4>3. ASSUME e.kind = "pair" PROVE SeesIn(v, "visible_devices", e.id)
        <5>1. Shown(e, "devices")
          BY <1>8, <2>0, <4>3, Covered, WritesAre
        <5>2. e \in kept["devices"]
          BY <5>1, SectionsAre DEF Shown
        <5>3. SeesIn(old, "buddies", e.of)
          BY <4>1, <4>3 DEF RootSeen
        <5>4. QED
          BY <2>1, <4>2, <5>2, <5>3 DEF SeesIn
      <4>4. ASSUME e.kind \in {"heartbeat", "reminder"} PROVE SeesIn(v, "visible_devices", e.of)
        BY <4>1, <4>2, <4>4 DEF RootSeen, SeesIn
      <4>5. QED
        BY <3>2, <4>3, <4>4 DEF RootSeen
    <3>3. CASE s = "visible_machines"
      <4>1. ASSUME e.kind = "pair" PROVE SeesIn(v, "visible_machines", e.id)
        <5>1. Shown(e, "bindings")
          BY <1>8, <2>0, <4>1, Covered, WritesAre
        <5>2. e \in kept["bindings"]
          BY <5>1, SectionsAre DEF Shown
        <5>3. RootSeen(c, old, kept["devices"], "buddies", e)
          BY <2>b, <3>3 DEF Order
        <5>4. SeesIn(old, "buddies", e.of)
          BY <4>1, <5>3 DEF RootSeen
        <5>5. e \in v["visible_machines"]
          BY <1>3, <2>1, <3>3, <5>2, <5>4 DEF Source, SelectedIn, Visible
        <5>6. QED
          BY <5>5 DEF SeesIn
      <4>2. QED
        BY <3>3, <4>1 DEF RootSeen
    <3>4. CASE s \notin {"buddies", "visible_devices", "visible_machines"}
      BY <3>4 DEF RootSeen
    <3>5. QED
      BY <3>1, <3>2, <3>3, <3>4
  <2>5. QED
    BY <2>0, <2>3, <2>4
<1>9. OldShown(c, v, past, durable.events, kept["devices"], asked[c], s)
  BY <1>8 DEF OldShown
<1>10. QED
  BY <1>4, <1>6, <1>9

(* After the read of a section, the client has a view still.               *)
LEMMA ViewRead ==
  ASSUME TypeInv, FeedInv, RowsInv, RootsInv, ~torn, NEW c \in Clients, HasView(c), ReadSection(c)
  PROVE  HasView(c)'
<1>u. /\ UNCHANGED <<durable, kept, past, asked, base, given>>
      /\ left' = [left EXCEPT ![c] = Tail(left[c])]
      /\ left[c] \in Seq(Marks) /\ left[c] # <<>> /\ IsEnd(left[c], SnapshotPlan)
      /\ Range(left[c]) = {left[c][1]} \union Range(Tail(left[c]))
      /\ left[c][1] \in Viewed
  BY ReadSectionDoes, ReadDoes DEF serverVars
<1>1. PICK old, s, marks, rest : old = view[c] /\ s = left[c][1] /\ marks = Range(left[c]) /\ rest = Range(Tail(left[c]))
  OBVIOUS
<1>2. PICK shown : shown = ReadNow(c)
  OBVIOUS
<1>3. PICK v : v = ViewNow(c)
  OBVIOUS
<1>4. \A x \in Viewed : v[x] = IF x = s THEN shown ELSE old[x]
  BY <1>1, <1>2, <1>3, ViewNowIs
<1>5. view' = [view EXCEPT ![c] = v]
  BY <1>3, ViewNowIs
<1>6. view'[c] = v /\ Range(left'[c]) = rest
  BY <1>u, <1>1, <1>5 DEF TypeInv, TypeOK
<1>7. s \in Viewed /\ "snapshot" \in marks /\ "snapshot" \in rest /\ marks = {s} \union rest
  BY <1>u, <1>1, SnapshotEnds, SectionsAre
<1>8. UpTo(c) = given[c] /\ UpTo(c)' = given[c]
  BY <1>u, <1>1, <1>6, <1>7 DEF UpTo
<1>9. \A x \in Viewed \ rest : x # s => x \notin marks /\ Order(x) < Order(s)
  <2> SUFFICES ASSUME NEW x \in Viewed \ rest, x # s PROVE x \notin marks /\ Order(x) < Order(s)
    OBVIOUS
  <2>1. x \notin marks
    BY <1>7
  <2>2. Order(x) \in 1 .. 15 /\ Order(s) \in 1 .. 15
    BY <1>7, SnapshotAt
  <2>3. ~(Order(x) >= Order(s))
    BY <1>u, <1>1, <2>1, SnapshotEnds
  <2>4. QED
    BY <2>1, <2>2, <2>3
<1>c. ClientView(c, marks, old, given[c], asked[c], past, durable, kept["devices"])
  BY <1>1, <1>8 DEF HasView
<1>10. /\ \A e \in Source(s) : s = "plan_usage" \/ SelectedIn(c, v, s, e) => ShowsIn(c, v, past, s, e)
       /\ OldShown(c, v, past, durable.events, kept["devices"], asked[c], s)
       /\ CoveredTo(c, v, past, durable.events, given[c], s)
  BY <1>1, <1>3, ReadShows
<1>s. /\ \A x \in Viewed \ {s} : \A devices, e :
           RootSeen(c, v, devices, x, e) <=> RootSeen(c, old, devices, x, e)
      /\ \A x \in Viewed \ {s} : (x = "plan_usage" => s # "buddies") =>
           \A e : ShowsIn(c, v, past, x, e) <=> ShowsIn(c, old, past, x, e)
      /\ s \notin Visible \union {"buddies"} =>
           \A x, e : SelectedIn(c, v, x, e) <=> SelectedIn(c, old, x, e)
  BY <1>4, <1>7, ReadSame
<1>o. /\ Order("buddies") = 3 /\ Order("visible_devices") = 4 /\ Order("visible_machines") = 5
      /\ Order("plan_usage") = 13 /\ Order("costs") = 2
      /\ \A x \in LateSections : Order(x) \in 9 .. 14
  BY DEF Order, LateSections
<1>11. ASSUME NEW x \in Viewed \ rest
       PROVE  OldShown(c, v, past, durable.events, kept["devices"], asked[c], x)
  <2>1. CASE x = s
    BY <1>10, <2>1
  <2>2. CASE x # s
    <3>1. x \notin marks /\ Order(x) < Order(s)
      BY <1>9, <2>2
    <3>2. x = "plan_usage" => s # "buddies"
      BY <1>o, <3>1
    <3>3. OldShown(c, old, past, durable.events, kept["devices"], asked[c], x)
      BY <1>c, <3>1 DEF ClientView
    <3>4. QED
      BY <1>s, <2>2, <3>2, <3>3 DEF OldShown
  <2>3. QED
    BY <2>1, <2>2
<1>12. ASSUME NEW x \in LateSections \ rest
       PROVE  CoveredTo(c, v, past, durable.events, given[c], x)
  <2>0. x \in Viewed
    BY SectionsAre
  <2>1. CASE x = s
    BY <1>10, <2>1
  <2>2. CASE x # s
    <3>1. x \notin marks /\ Order(x) < Order(s)
      BY <1>9, <2>0, <2>2
    <3>2. s \notin Visible \union {"buddies"}
      <4>1. PICK k \in 9 .. 14 : k = Order(x)
        BY <1>o
      <4>2. k < Order(s)
        BY <3>1, <4>1
      <4>3. Order(s) # 3 /\ Order(s) # 4 /\ Order(s) # 5
        BY <4>1, <4>2
      <4>4. QED
        BY <1>o, <4>3, SectionsAre
    <3>3. CoveredTo(c, old, past, durable.events, given[c], x)
      BY <1>c, <3>1 DEF ClientView
    <3>4. QED
      BY <1>s, <2>0, <2>2, <3>2, <3>3 DEF CoveredTo
  <2>3. QED
    BY <2>1, <2>2
<1>13. v["costs"] \subseteq durable.rows["plan_usage"]
  <2>0. "costs" \in Viewed
    BY SectionsAre
  <2>1. CASE s = "costs"
    <3>1. v["costs"] \subseteq working.rows["costs"]
      BY <1>1, <1>2, <1>4, <2>0, <2>1 DEF ReadNow, Source, Kept, Paired
    <3>2. QED
      BY <3>1 DEF RowsInv, UsageWritten
  <2>2. CASE s # "costs"
    BY <1>4, <1>c, <2>0, <2>2 DEF ClientView
  <2>3. QED
    BY <2>1, <2>2
<1>14. ASSUME "plan_usage" \notin rest, NEW e \in v["costs"]
       PROVE  ShowsIn(c, v, past, "plan_usage", e)
  <2>0. "costs" \in Viewed /\ "plan_usage" \in Viewed
    BY SectionsAre
  <2>1. CASE s = "plan_usage"
    <3>1. e \in durable.rows["plan_usage"]
      BY <1>13, <1>14
    <3>2. e \in Source(s)
      BY <2>1, <3>1, SectionsAre DEF Source, Kept, Paired, RowsInv, RowsKept
    <3>3. QED
      BY <1>10, <2>1, <3>2
  <2>2. CASE s # "plan_usage"
    <3>1. "plan_usage" \notin marks /\ Order("plan_usage") < Order(s)
      BY <1>9, <1>14, <2>0, <2>2
    <3>2. s # "buddies" /\ s # "costs"
      BY <1>o, <3>1
    <3>3. e \in old["costs"]
      BY <1>4, <1>14, <2>0, <3>2
    <3>4. ShowsIn(c, old, past, "plan_usage", e)
      BY <1>c, <3>1, <3>3 DEF ClientView
    <3>5. QED
      BY <1>s, <2>0, <2>2, <3>2, <3>4
  <2>3. QED
    BY <2>1, <2>2
<1>15. ClientView(c, rest, v, given[c], asked[c], past, durable, kept["devices"])
  BY <1>c, <1>11, <1>12, <1>13, <1>14 DEF ClientView
<1>16. QED
  BY <1>u, <1>6, <1>8, <1>15 DEF HasView

LEMMA ViewFollow ==
  ASSUME TypeInv, FeedInv, RowsInv, RootsInv, ViewInv, NEW c \in Clients, Follow(c)
  PROVE  ViewInv'
<1>u. UNCHANGED <<working, durable, kept, past, torn>>
  BY FollowTypes DEF serverVars
<1> SUFFICES ASSUME ~torn, \A d \in Clients : HasView(d) PROVE \A d \in Clients : HasView(d)'
  BY <1>u DEF ViewInv
<1>t. /\ left \in [Clients -> Seq(Marks)] /\ view \in [Clients -> Views]
      /\ base \in [Clients -> Nat] /\ given \in [Clients -> Nat] /\ asked \in [Clients -> Nat]
  BY DEF TypeInv, TypeOK, Marks
<1> DEFINE Holds(marks, b, g, a) ==
             ClientView(c, marks, view[c], IF "snapshot" \in marks THEN g ELSE b, a, past, durable,
                        kept["devices"])
(* What the client c has after the step; the others keep what they have.   *)
<1>2. ASSUME NEW rest, NEW v, NEW b, NEW g, NEW a,
             left' = [left EXCEPT ![c] = rest], view' = [view EXCEPT ![c] = v],
             base' = [base EXCEPT ![c] = b], given' = [given EXCEPT ![c] = g],
             asked' = [asked EXCEPT ![c] = a], HasView(c)'
      PROVE  \A d \in Clients : HasView(d)'
  <2> SUFFICES ASSUME NEW d \in Clients, d # c PROVE HasView(d)'
    BY <1>2
  <2>1. /\ left'[d] = left[d] /\ view'[d] = view[d] /\ base'[d] = base[d]
        /\ given'[d] = given[d] /\ asked'[d] = asked[d]
    BY <1>2, <1>t
  <2>2. UpTo(d)' = UpTo(d)
    BY <2>1 DEF UpTo
  <2>3. QED
    BY <1>u, <2>1, <2>2 DEF HasView
<1>3. ASSUME NEW rest, NEW b, NEW g, NEW a,
             left' = [left EXCEPT ![c] = rest], UNCHANGED view,
             base' = [base EXCEPT ![c] = b], given' = [given EXCEPT ![c] = g],
             asked' = [asked EXCEPT ![c] = a], Holds(Range(rest), b, g, a)
      PROVE  \A d \in Clients : HasView(d)'
  <2>1. /\ left'[c] = rest /\ base'[c] = b /\ given'[c] = g /\ asked'[c] = a
        /\ view' = [view EXCEPT ![c] = view[c]] /\ view'[c] = view[c]
    BY <1>3, <1>t
  <2>2. UpTo(c)' = IF "snapshot" \in Range(rest) THEN g ELSE b
    BY <2>1 DEF UpTo
  <2>3. HasView(c)'
    BY <1>u, <1>3, <2>1, <2>2 DEF HasView
  <2>4. QED
    BY <1>2, <1>3, <2>1, <2>3
<1>i. /\ base = [base EXCEPT ![c] = base[c]] /\ given = [given EXCEPT ![c] = given[c]]
      /\ asked = [asked EXCEPT ![c] = asked[c]]
  BY <1>t
<1>k. Holds(Range(left[c]), base[c], given[c], asked[c])
  BY DEF HasView, UpTo
<1>s. base[c] <= Len(durable.events) /\ given[c] <= Len(durable.events)
  BY DEF FeedInv, RevisionsStored
(* What is left to read matters only as far as a section or the answer of  *)
(* a snapshot is in it.                                                    *)
<1>m. ASSUME NEW marks, NEW rest, NEW b, NEW g, NEW a, Holds(marks, b, g, a),
             \A x \in Viewed \union {"snapshot"} : x \in rest <=> x \in marks
      PROVE  Holds(rest, b, g, a)
  <2>1. {"plan_usage"} \union LateSections \subseteq Viewed
    BY SectionsAre
  <2>2. QED
    BY <1>m, <2>1 DEF ClientView
<1>n. ASSUME NEW rest, NEW b, NEW g, NEW a, Viewed \union {"snapshot"} \subseteq rest,
             a <= Len(durable.events), g <= Len(durable.events)
      PROVE  Holds(rest, b, g, a)
  <2>1. {"plan_usage"} \union LateSections \subseteq Viewed
    BY SectionsAre
  <2>2. view[c]["costs"] \subseteq durable.rows["plan_usage"]
    BY <1>k DEF ClientView
  <2>3. QED
    BY <1>n, <2>1, <2>2 DEF ClientView
<1> HIDE DEF Holds
(* Reads of anything but a section, the revision or the whole answer.      *)
<1>r. ASSUME NEW what, Read(c, what), UNCHANGED <<view, base, given>>,
             left[c][1] \notin Viewed \union {"snapshot"}
      PROVE  \A d \in Clients : HasView(d)'
  <2>1. /\ left' = [left EXCEPT ![c] = Tail(left[c])] /\ UNCHANGED asked
        /\ Range(left[c]) = {left[c][1]} \union Range(Tail(left[c]))
    BY <1>r, ReadDoes
  <2>2. PICK rest : rest = Tail(left[c])
    OBVIOUS
  <2>3. Holds(Range(rest), base[c], given[c], asked[c])
    BY <1>k, <1>m, <1>r, <2>1, <2>2
  <2>4. QED
    BY <1>3, <1>i, <1>r, <2>1, <2>2, <2>3
<1>4. CASE GetSnapshot(c)
  <2>1. Begin(c, SnapshotReads, "snapshot")
    BY <1>4 DEF GetSnapshot
  <2>2. /\ left' = [left EXCEPT ![c] = SnapshotPlan] /\ UNCHANGED <<view, base, given>>
    BY <2>1, BeginDoes DEF SnapshotPlan
  <2>3. PICK a : a = Len(durable.events) /\ asked' = [asked EXCEPT ![c] = a]
    BY <1>4 DEF GetSnapshot
  <2>4. a <= Len(durable.events)
    BY <2>3, EventsType
  <2>5. Holds(Range(SnapshotPlan), base[c], given[c], a)
    BY <1>n, <1>s, <2>4, PlansBegin
  <2>6. QED
    BY <1>3, <1>i, <2>2, <2>3, <2>5
<1>5. CASE GetEvents(c)
  <2>1. Begin(c, PollReads, "poll")
    BY <1>5 DEF GetEvents
  <2>2. /\ left' = [left EXCEPT ![c] = PollPlan] /\ UNCHANGED <<view, base, given, asked>>
        /\ left[c] = <<>>
    BY <1>5, <2>1, BeginDoes DEF PollPlan, GetEvents
  <2>3. \A x \in Viewed \union {"snapshot"} : x \in Range(PollPlan) <=> x \in Range(left[c])
    BY <2>2, EmptyEnds, PlansBegin, SectionsAre
  <2>4. Holds(Range(PollPlan), base[c], given[c], asked[c])
    BY <1>k, <1>m, <2>3
  <2>5. QED
    BY <1>3, <1>i, <2>2, <2>4
<1>6. CASE ReadSection(c)
  <2>1. HasView(c)'
    BY <1>6, ViewRead
  <2>2. /\ left' = [left EXCEPT ![c] = Tail(left[c])]
        /\ view' = [view EXCEPT ![c] = ViewNow(c)] /\ UNCHANGED <<base, given, asked>>
    BY <1>6, ReadSectionDoes, ReadDoes, ViewNowIs
  <2>3. PICK v, rest : v = ViewNow(c) /\ rest = Tail(left[c])
    OBVIOUS
  <2>4. QED
    BY <1>2, <1>i, <2>1, <2>2, <2>3
<1>7. CASE ReadRevision(c)
  <2>1. PICK revision : /\ Read(c, {"revision"}) /\ UNCHANGED <<view, base>> /\ lock = None
                        /\ given' = [given EXCEPT ![c] = revision]
                        /\ revision <= Len(working.events)
    BY <1>7, ReadRevisionDoes
  <2>2. /\ left[c] \in Seq(Marks) /\ left[c] # <<>> /\ left[c][1] \in {"revision"}
        /\ UNCHANGED asked /\ left' = [left EXCEPT ![c] = Tail(left[c])]
        /\ Range(left[c]) = {left[c][1]} \union Range(Tail(left[c]))
        /\ IsEnd(left[c], SnapshotPlan) \/ IsEnd(left[c], PollPlan)
    BY <2>1, ReadDoes
  <2>3. \A x \in Viewed \union {"snapshot"} : x \in Range(Tail(left[c])) <=> x \in Range(left[c])
    BY <2>2, SectionsAre
  <2>4. revision <= Len(durable.events)
    BY <2>1, FeedAssumption DEF FeedInv, OneEventAhead
  <2>5. PICK rest : rest = Tail(left[c])
    OBVIOUS
  <2>6. Holds(Range(rest), base[c], given[c], asked[c])
    BY <1>k, <1>m, <2>3, <2>5
  <2>7. Holds(Range(rest), base[c], revision, asked[c])
    <3>1. CASE "snapshot" \notin Range(rest)
      BY <2>6, <3>1 DEF Holds
    <3>2. CASE "snapshot" \in Range(rest)
      <4>1. "snapshot" \in Range(left[c])
        BY <2>3, <2>5, <3>2
      <4>2. IsEnd(left[c], SnapshotPlan)
        BY <2>2, <4>1, PollEnds
      <4>3. LateSections \subseteq Range(rest)
        <5>1. \A x \in LateSections : Order(x) > Order(left[c][1]) /\ x \in Viewed
          BY <2>2, SectionsAre DEF Order, LateSections
        <5>2. QED
          BY <2>2, <2>5, <4>2, <5>1, SnapshotEnds
      <4>4. QED
        BY <2>4, <2>6, <3>2, <4>3 DEF Holds, ClientView
    <3>3. QED
      BY <3>1, <3>2
  <2>8. QED
    BY <1>3, <1>i, <2>1, <2>2, <2>5, <2>7
<1>8. CASE ReadEvents(c)
  <2>1. Read(c, {"events"}) /\ UNCHANGED <<view, base, given>>
    BY <1>8, ReadEventsDoes
  <2>2. left[c][1] \in {"events"}
    BY <2>1, ReadDoes
  <2>3. left[c][1] \notin Viewed \union {"snapshot"}
    BY <2>2, SectionsAre
  <2>4. QED
    BY <1>r, <2>1, <2>3
<1>9. CASE AnswerSnapshot(c)
  <2>1. /\ Read(c, {"snapshot"}) /\ Tail(left[c]) = <<>> /\ UNCHANGED <<view, given>>
        /\ base' = [base EXCEPT ![c] = given[c]]
    BY <1>9, AnswerSnapshotDoes
  <2>2. /\ left[c][1] \in {"snapshot"} /\ Range(left[c]) = {left[c][1]} \union Range(Tail(left[c]))
        /\ left' = [left EXCEPT ![c] = Tail(left[c])] /\ UNCHANGED asked
    BY <2>1, ReadDoes
  <2>3. Range(left[c]) = {"snapshot"}
    BY <2>1, <2>2, EmptyEnds
  <2>4. PICK rest : left' = [left EXCEPT ![c] = rest] /\ Range(rest) = {}
    BY <2>1, <2>2, EmptyEnds
  <2>5. Holds(Range(rest), given[c], given[c], asked[c])
    <3>1. Holds({"snapshot"}, base[c], given[c], asked[c])
      BY <1>k, <2>3
    <3>2. "snapshot" \notin Viewed /\ "plan_usage" # "snapshot" /\ LateSections \subseteq Viewed
      BY SectionsAre
    <3>3. QED
      BY <2>4, <3>1, <3>2 DEF Holds, ClientView
  <2>6. QED
    BY <1>3, <1>i, <2>1, <2>2, <2>4, <2>5
<1>10. CASE AnswerPoll(c)
  <2>1. Read(c, {"poll"}) /\ UNCHANGED <<view, base, given>>
    BY <1>10, AnswerPollDoes
  <2>2. left[c][1] \in {"poll"}
    BY <2>1, ReadDoes
  <2>3. left[c][1] \notin Viewed \union {"snapshot"}
    BY <2>2, SectionsAre
  <2>4. QED
    BY <1>r, <2>1, <2>3
<1>11. QED
  BY <1>4, <1>5, <1>6, <1>7, <1>8, <1>9, <1>10 DEF Follow

(* A client that has nothing was shown nothing that is missing.            *)
LEMMA NothingShown ==
  ASSUME TypeInv, NEW c, NEW marks, NEW r, r = 0, NEW p, NEW devices
  PROVE  ClientView(c, marks, NoView, r, r, p, durable, devices)
<1>1. \A i \in DOMAIN durable.events : ~(i <= r)
  BY EventsType
<1>2. r <= Len(durable.events)
  BY EventsType
<1>3. NoView["costs"] = {}
  BY SectionsAre DEF NoView
<1>4. QED
  BY <1>1, <1>2, <1>3 DEF ClientView, OldShown, CoveredTo

LEMMA ViewRestart ==
  ASSUME TypeInv, TypeInv', RootsInv, ViewInv, Restart
  PROVE  ViewInv'
<1>1. /\ UNCHANGED <<durable, torn, given, past>> /\ left' = [c \in Clients |-> <<>>]
      /\ \A c \in Clients :
           /\ "snapshot" \in Range(left[c]) => view'[c] = NoView /\ base'[c] = 0 /\ asked'[c] = 0
           /\ "snapshot" \notin Range(left[c]) =>
                view'[c] = view[c] /\ base'[c] = base[c] /\ asked'[c] = asked[c]
  BY DEF Restart, Rollback
<1> SUFFICES ASSUME ~torn, NEW c \in Clients, HasView(c) PROVE HasView(c)'
  BY <1>1 DEF ViewInv
<1>2. Range(left'[c]) = {}
  BY <1>1, EmptyEnds
<1>3. UpTo(c)' = base'[c]
  BY <1>2 DEF UpTo
<1>4. CASE "snapshot" \in Range(left[c])
  <2>1. PICK z : z = 0
    OBVIOUS
  <2>2. ClientView(c, {}, NoView, z, z, past, durable, kept'["devices"])
    BY <2>1, NothingShown
  <2>3. QED
    BY <1>1, <1>2, <1>3, <1>4, <2>1, <2>2 DEF HasView
<1>5. CASE "snapshot" \notin Range(left[c])
  <2>1. \A x \in Viewed : x \notin Range(left[c])
    <3>1. CASE left[c] = <<>>
      BY <3>1, EmptyEnds
    <3>2. CASE left[c] # <<>>
      <4>1. IsEnd(left[c], PollPlan)
        BY <1>5, <3>2, LeftType, SnapshotEnds
      <4>2. QED
        BY <3>2, <4>1, LeftType, PollEnds, SectionsAre
    <3>3. QED
      BY <3>1, <3>2
  <2>2. ClientView(c, Range(left[c]), view[c], base[c], asked[c], past, durable, kept["devices"])
    BY <1>5 DEF HasView, UpTo
  <2>3. ClientView(c, {}, view[c], base[c], asked[c], past, durable, kept["devices"])
    BY <2>1, <2>2, SectionsAre DEF ClientView
  <2>4. ClientView(c, {}, view[c], base[c], asked[c], past, durable, kept'["devices"])
    <3>1. Grows(durable.events, durable.events)
      BY EventsType DEF Grows
    <3>2. QED
      BY <2>3, <3>1, ClientTypes, KeptThroughRestart, ViewGrows
  <2>5. QED
    BY <1>1, <1>2, <1>3, <1>5, <2>4 DEF HasView
<1>6. QED
  BY <1>4, <1>5

LEMMA ViewInductive ==
  TypeInv /\ TypeInv' /\ FeedInv /\ RowsInv /\ RootsInv /\ ViewInv /\ [Next]_vars => ViewInv'
<1> SUFFICES ASSUME TypeInv, TypeInv', FeedInv, RowsInv, RootsInv, ViewInv, [Next]_vars PROVE ViewInv'
  OBVIOUS
<1>1. ASSUME NEW t \in Threads, Serve(t) PROVE ViewInv'
  BY <1>1, ViewServe
<1>2. ASSUME NEW c \in Clients, Follow(c) PROVE ViewInv'
  BY <1>2, ViewFollow
<1>3. CASE UNCHANGED vars
  BY <1>3 DEF vars, connectionVars, clientVars, ViewInv, HasView, UpTo
<1>4. QED
  BY <1>1, <1>2, <1>3, ViewRestart, ViewNextMonth DEF Next

LEMMA ViewInit == Init => ViewInv
<1> SUFFICES ASSUME Init, NEW c \in Clients PROVE HasView(c)
  BY DEF ViewInv
<1>1. /\ left[c] = <<>> /\ view[c] = NoView /\ base[c] = 0 /\ asked[c] = 0
  BY DEF Init
<1>2. PICK z : z = 0
  OBVIOUS
<1>3. ClientView(c, {}, NoView, z, z, past, durable, kept["devices"])
  BY <1>2, TypeInit, NothingShown
<1>4. QED
  BY <1>1, <1>2, <1>3, EmptyEnds DEF HasView, UpTo

LEMMA ViewInvHolds == Spec => []ViewInv
BY ViewInit, ViewInductive, RootsInvHolds, RowsInvHolds, FeedInvHolds, TypeInvHolds, PTL DEF Spec

(* Unless a rollback has taken the write of another thread with it, a      *)
(* snapshot shows all that was announced before it was asked for: every    *)
(* buddy and device that a later section is selected by was committed and  *)
(* published before the event.  What its late sections select they show up *)
(* to its revision, so a client that polls from there on misses nothing of *)
(* what belongs to the buddies and devices that it was shown.              *)
THEOREM SnapshotCoversCorrect == Spec => []SnapshotCovers
<1>1. TypeInv /\ ViewInv => SnapshotCovers
  <2> SUFFICES ASSUME TypeInv, ~torn, \A d \in Clients : HasView(d), NEW c \in Following,
                      NEW i \in DOMAIN durable.events, durable.events[i].audience = c,
                      NEW s \in Range(Writes(durable.events[i].kind)),
                      \/ i <= asked[c]
                      \/ i <= base[c] /\ s \in LateSections /\ Selected(c, s, durable.events[i])
               PROVE  Shows(c, s, durable.events[i])
    BY DEF ViewInv, SnapshotCovers
  <2>1. c \in Clients /\ Range(left[c]) = {} /\ UpTo(c) = base[c]
    BY EmptyEnds DEF Following, UpTo
  <2>2. s \in Viewed
    <3>1. durable.events[i] \in Entities
      BY EventsType
    <3>2. s \in Sections
      BY <3>1, SectionsOf
    <3>3. QED
      BY <3>2, SectionsAre
  <2>3. ClientView(c, {}, view[c], base[c], asked[c], past, durable, kept["devices"])
    BY <2>1 DEF HasView
  <2>4. CASE i <= asked[c]
    <3>1. ShowsIn(c, view[c], past, s, durable.events[i])
      BY <2>2, <2>3, <2>4 DEF ClientView, OldShown
    <3>2. QED
      BY <3>1, InView
  <2>5. CASE i <= base[c] /\ s \in LateSections /\ Selected(c, s, durable.events[i])
    <3>1. SelectedIn(c, view[c], s, durable.events[i])
      BY <2>5, InView
    <3>2. ShowsIn(c, view[c], past, s, durable.events[i])
      BY <2>3, <2>5, <3>1 DEF ClientView, CoveredTo
    <3>3. QED
      BY <3>2, InView
  <2>6. QED
    BY <2>4, <2>5
<1>2. QED
  BY <1>1, TypeInvHolds, ViewInvHolds, PTL

(* Under the same condition no snapshot has the cost of a call of this     *)
(* month without the usage that the call was counted as, whatever is       *)
(* written while the server puts it together, and whenever the month ends. *)
THEOREM UsageCoversCostsCorrect == Spec => []UsageCoversCosts
<1>1. ViewInv => UsageCoversCosts
  <2> SUFFICES ASSUME \A d \in Clients : HasView(d), NEW c \in Following, NEW e \in view[c]["costs"]
               PROVE  Shows(c, "plan_usage", e)
    BY DEF ViewInv, UsageCoversCosts
  <2>1. c \in Clients /\ Range(left[c]) = {}
    BY EmptyEnds DEF Following
  <2>2. ShowsIn(c, view[c], past, "plan_usage", e)
    BY <2>1 DEF HasView, ClientView
  <2>3. QED
    BY <2>2, InView
<1>2. QED
  BY <1>1, ViewInvHolds, PTL
=============================================================================
