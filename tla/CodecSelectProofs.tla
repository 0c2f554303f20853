------------------------- MODULE CodecSelectProofs -------------------------
(***************************************************************************)
(* The choice of a codec does not depend on the schedule, and is never     *)
(* worse than the baseline: for every list of candidates, every outcome of *)
(* each and every shape of the parallel reduction.                         *)
(***************************************************************************)
EXTENDS CodecSelect, TLAPS

Given0 == Sizes \cup {None, StoreSize}

\* What the constants are.
LEMMA Constants ==
  /\ Sizes \subseteq Nat \ {0} /\ StoreSize \in Nat \ {0}
  /\ Given0 \subseteq Nat
BY SelectAssumption DEF SelectAssumption, Given0, None

\* The candidates form a list of one or more codecs, the baseline first.
LEMMA CandidateList ==
  ASSUME NEW m
  PROVE  /\ Candidates(m) \in Seq(Codecs)
         /\ Len(Candidates(m)) >= 1
         /\ Candidates(m)[1] = "lz77huf"
<1> DEFINE A == Only(Classify(m) # "lzma", Classify(m))
           B == Only(TryBwt(m), "bwt")
           C == Only(m.ascii <= 85 /\ m.len >= 256, "stride-cm")
           D == Only(m.ascii > 80 /\ m.entropy < 55 /\ m.len >= 256, "ppm")
<1>0. ASSUME NEW p, NEW c \in Codecs
      PROVE  Only(p, c) \in Seq(Codecs)
  <2>1. CASE p
    <3>1. Only(p, c) = <<c>>
      BY <2>1, Zenon DEF Only
    <3> QED BY <1>0, <3>1
  <2>2. CASE ~p
    <3>1. Only(p, c) = <<>>
      BY <2>2, Zenon DEF Only
    <3> QED BY <3>1
  <2> QED BY <2>1, <2>2
<1>1. A \in Seq(Codecs)
  <2>1. Classify(m) \in Codecs
    BY DEF Classify, Codecs
  <2> QED BY <1>0, <2>1, Zenon
<1>2. B \in Seq(Codecs) /\ C \in Seq(Codecs) /\ D \in Seq(Codecs)
  <2>1. "bwt" \in Codecs /\ "stride-cm" \in Codecs /\ "ppm" \in Codecs
    BY DEF Codecs
  <2> QED BY <1>0, <2>1, Zenon
<1>3. <<"lz77huf">> \in Seq(Codecs) /\ <<"lzma">> \in Seq(Codecs)
  BY DEF Codecs
<1>4. Candidates(m) = <<"lz77huf">> \o A \o <<"lzma">> \o B \o C \o D
  BY DEF Candidates
<1> HIDE DEF A, B, C, D
<1>5. <<"lz77huf">> \o A \in Seq(Codecs) /\ (<<"lz77huf">> \o A)[1] = "lz77huf"
      /\ Len(<<"lz77huf">> \o A) >= 1
  BY <1>1, <1>3
<1>6. ASSUME NEW s \in Seq(Codecs), NEW t \in Seq(Codecs), s[1] = "lz77huf", Len(s) >= 1
      PROVE  s \o t \in Seq(Codecs) /\ (s \o t)[1] = "lz77huf" /\ Len(s \o t) >= 1
  BY <1>6
<1> DEFINE s1 == <<"lz77huf">> \o A
           s2 == s1 \o <<"lzma">>
           s3 == s2 \o B
           s4 == s3 \o C
           s5 == s4 \o D
<1>7. Candidates(m) = s5
  BY <1>4
<1> HIDE DEF s1
<1>8. s2 \in Seq(Codecs) /\ s2[1] = "lz77huf" /\ Len(s2) >= 1
  BY <1>3, <1>5, <1>6 DEF s1
<1> HIDE DEF s2
<1>9. s3 \in Seq(Codecs) /\ s3[1] = "lz77huf" /\ Len(s3) >= 1
  BY <1>2, <1>6, <1>8
<1> HIDE DEF s3
<1>10. s4 \in Seq(Codecs) /\ s4[1] = "lz77huf" /\ Len(s4) >= 1
  BY <1>2, <1>6, <1>9
<1> HIDE DEF s4
<1>11. s5 \in Seq(Codecs) /\ s5[1] = "lz77huf" /\ Len(s5) >= 1
  BY <1>2, <1>6, <1>10
<1> QED BY <1>7, <1>11

\* Reducing two neighbouring runs keeps the earliest of the smallest outputs.
LEMMA BetterIsBest ==
  ASSUME NEW n \in Nat, NEW g \in [1..n -> Nat],
         NEW lo \in 1..n, NEW mid \in 1..n, NEW hi \in 1..n, lo <= mid, mid < hi,
         NEW a \in 1..n \cup {None}, NEW b \in 1..n \cup {None},
         EarliestBest(g, lo, mid, a), EarliestBest(g, mid + 1, hi, b)
  PROVE  /\ EarliestBest(g, lo, hi, Better(g, a, b))
         /\ Better(g, a, b) \in 1..n \cup {None}
<1>1. \A i \in lo..hi : i \in lo..mid \/ i \in mid+1..hi
  OBVIOUS
<1>2. \A i \in 1..n : g[i] \in Nat /\ i # None
  BY DEF None
<1>3. \A i \in lo..hi : i \in 1..n
  OBVIOUS
<1>4. (\A i \in lo..mid : i \in lo..hi) /\ (\A i \in mid+1..hi : i \in lo..hi)
  OBVIOUS
<1>5. CASE a = None
  <2>1. Better(g, a, b) = b
    BY <1>5 DEF Better
  <2>2. \A i \in lo..mid : g[i] = None
    BY <1>5 DEF EarliestBest
  <2>3. CASE b = None
    BY <1>1, <2>1, <2>2, <2>3 DEF EarliestBest
  <2>4. CASE b # None
    <3>1. b \in mid+1..hi /\ g[b] # None
          /\ \A i \in mid+1..hi : g[i] # None => g[b] <= g[i] /\ (i < b => g[b] < g[i])
      BY <2>4 DEF EarliestBest
    <3> QED BY <1>1, <1>4, <2>1, <2>2, <2>4, <3>1 DEF EarliestBest
  <2> QED BY <2>3, <2>4
<1>6. CASE a # None /\ b = None
  <2>1. Better(g, a, b) = a
    BY <1>6 DEF Better
  <2>2. \A i \in mid+1..hi : g[i] = None
    BY <1>6 DEF EarliestBest
  <2>3. a \in lo..mid /\ g[a] # None
        /\ \A i \in lo..mid : g[i] # None => g[a] <= g[i] /\ (i < a => g[a] < g[i])
    BY <1>6 DEF EarliestBest
  <2> QED BY <1>1, <1>4, <1>6, <2>1, <2>2, <2>3 DEF EarliestBest
<1>7. CASE a # None /\ b # None
  <2>1. a \in lo..mid /\ g[a] # None
        /\ \A i \in lo..mid : g[i] # None => g[a] <= g[i] /\ (i < a => g[a] < g[i])
    BY <1>7 DEF EarliestBest
  <2>2. b \in mid+1..hi /\ g[b] # None
        /\ \A i \in mid+1..hi : g[i] # None => g[b] <= g[i] /\ (i < b => g[b] < g[i])
    BY <1>7 DEF EarliestBest
  <2>3. a \in lo..hi /\ b \in lo..hi
    BY <1>4, <2>1, <2>2
  <2>4. g[a] \in Nat /\ g[b] \in Nat
    BY <1>2, <1>3, <2>3
  <2>5. \A i \in lo..hi : g[i] \in Nat
    BY <1>2, <1>3
  <2>6. CASE g[b] < g[a]
    <3>1. Better(g, a, b) = b
      BY <1>7, <2>6 DEF Better
    <3>2. ASSUME NEW i \in lo..hi, g[i] # None
          PROVE  g[b] <= g[i] /\ (i < b => g[b] < g[i])
      <4>1. g[i] \in Nat
        BY <2>5
      <4>2. CASE i \in lo..mid
        <5>1. g[a] <= g[i]
          BY <2>1, <3>2, <4>2
        <5>2. \A u, v, w \in Nat : u < v /\ v <= w => u < w /\ u <= w
          OBVIOUS
        <5>3. g[b] < g[i] /\ g[b] <= g[i]
          BY <2>4, <2>6, <4>1, <5>1, <5>2, Zenon
        <5> QED BY <5>3, Zenon
      <4>3. CASE i \in mid+1..hi
        BY <2>2, <3>2, <4>3
      <4> QED BY <1>1, <4>2, <4>3
    <3> QED BY <1>7, <2>2, <2>3, <3>1, <3>2 DEF EarliestBest
  <2>7. CASE ~(g[b] < g[a])
    <3>1. Better(g, a, b) = a
      BY <1>7, <2>7 DEF Better
    <3>2. ASSUME NEW i \in lo..hi, g[i] # None
          PROVE  g[a] <= g[i] /\ (i < a => g[a] < g[i])
      <4>1. g[i] \in Nat
        BY <2>5
      <4>2. CASE i \in lo..mid
        BY <2>1, <3>2, <4>2
      <4>3. CASE i \in mid+1..hi
        <5>1. g[b] <= g[i]
          BY <2>2, <3>2, <4>3
        <5>2. ~(i < a)
          BY <2>1, <4>3
        <5>3. \A u, v, w \in Nat : ~(u < v) /\ u <= w => v <= w
          OBVIOUS
        <5>4. g[a] <= g[i]
          BY <2>4, <2>7, <4>1, <5>1, <5>3, Zenon
        <5> QED BY <5>2, <5>4, Zenon
      <4> QED BY <1>1, <4>2, <4>3
    <3> QED BY <1>7, <2>1, <2>3, <3>1, <3>2 DEF EarliestBest
  <2> QED BY <2>6, <2>7
<1> QED BY <1>5, <1>6, <1>7

\* What the steps keep: the lists, one segment per run of candidates with its
\* best, and the result that follows from the whole lists.
Lists ==
  /\ block \in BlockSet
  /\ \A j \in Jobs : gives[j] \in Seq(Given0)
  /\ Len(gives["plain"]) >= 1
  /\ ~TryBcj(block) => gives["bcj"] = <<>>

SegmentTypes ==
  \A j \in Jobs : \A s \in segments[j] :
    /\ s \in [lo : Positions(j), hi : Positions(j), best : Positions(j) \cup {None}]
    /\ s.lo <= s.hi

IInv ==
  /\ Lists
  /\ segments = [j \in Jobs |-> segments[j]]
  /\ SegmentTypes /\ SegmentsHoldBest /\ ScheduleFree

\* Nothing is encoded at first, and no segment is there.
LEMMA InitInv == Init => IInv
<1> SUFFICES ASSUME Init PROVE IInv
  OBVIOUS
<1>1. PICK p \in Given(block, "plain"), f \in Given(block, "bcj") :
        gives = [j \in Jobs |-> IF j = "plain" THEN p ELSE f]
  BY DEF Init
<1>2. gives["plain"] = p /\ gives["bcj"] = f
  BY <1>1 DEF Jobs
<1>3. ASSUME NEW j \in Jobs, NEW g \in Given(block, j)
      PROVE  g \in Seq(Given0) /\ (j \in JobsOf(block) => Len(g) >= 1)
  <2> DEFINE list == Candidates(MetricsOf(block, j))
  <2>1. list \in Seq(Codecs) /\ Len(list) >= 1
    BY CandidateList
  <2>2. CASE j \in JobsOf(block)
    <3>1. g \in [DOMAIN list -> Given0]
      BY <1>3, <2>2 DEF Given, Given0
    <3> HIDE DEF list
    <3>2. DOMAIN list = 1..Len(list) /\ Len(list) \in Nat
      BY <2>1
    <3> QED BY <2>1, <3>1, <3>2
  <2>3. CASE j \notin JobsOf(block)
    <3>1. g = <<>>
      BY <1>3, <2>3 DEF Given
    <3> QED BY <2>3, <3>1
  <2> QED BY <2>2, <2>3
<1>4. "plain" \in JobsOf(block) /\ (~TryBcj(block) => "bcj" \notin JobsOf(block))
  BY DEF JobsOf, Jobs
<1>5. p \in Seq(Given0) /\ Len(p) >= 1 /\ f \in Seq(Given0)
  BY <1>3, <1>4 DEF Jobs
<1>6. ~TryBcj(block) => f = <<>>
  BY <1>4 DEF Given
<1>7. Lists
  BY <1>2, <1>5, <1>6 DEF Lists, Init, Jobs
<1>8. segments = [j \in Jobs |-> {}] /\ pc = "start"
  BY DEF Init
<1> QED BY <1>7, <1>8 DEF IInv, SegmentTypes, SegmentsHoldBest, ScheduleFree

\* In a list of candidates the positions are those of a function into Nat.
LEMMA ListFacts ==
  ASSUME Lists, NEW j \in Jobs
  PROVE  /\ Len(gives[j]) \in Nat
         /\ gives[j] \in [1..Len(gives[j]) -> Nat]
         /\ Positions(j) = 1..Len(gives[j])
<1>1. gives[j] \in Seq(Given0)
  BY DEF Lists
<1>2. Len(gives[j]) \in Nat /\ gives[j] \in [1..Len(gives[j]) -> Given0]
  BY <1>1
<1>3. gives[j] \in [1..Len(gives[j]) -> Nat]
  BY <1>2, Constants
<1> QED BY <1>2, <1>3 DEF Positions

\* A step changes nothing the list of candidates depends on.
LEMMA ListsStay == ASSUME Lists, UNCHANGED <<block, gives>> PROVE Lists'
BY DEF Lists, TryBcj

\* The result stays what it was while pc, the block and the lists do.
LEMMA ResultStays ==
  ASSUME ScheduleFree, UNCHANGED <<block, gives, pc, result>>
  PROVE  ScheduleFree'
BY DEF ScheduleFree, Positions, EarliestBest, Winner, AdaptiveResult, JobsOf, TryBcj,
       List, MetricsOf, Stored

\* Encoding a candidate adds a run of one.
LEMMA EncodeKeeps ==
  ASSUME IInv, NEW j \in Jobs, NEW i \in Positions(j), Encode(j, i)
  PROVE  IInv'
<1> DEFINE new == Segment(i, i, IF gives[j][i] = None THEN None ELSE i)
<1>1. UNCHANGED <<block, gives, pc, result>> /\ Lists'
      /\ segments' = [segments EXCEPT ![j] = @ \cup {new}]
  BY ListsStay DEF Encode, IInv
<1>2. Lists /\ SegmentTypes /\ SegmentsHoldBest /\ ScheduleFree
      /\ segments = [k \in Jobs |-> segments[k]]
  BY DEF IInv
<1>3. \A k \in Jobs : Positions(k)' = Positions(k) /\ gives'[k] = gives[k]
      /\ Positions(k) \subseteq Nat
  BY <1>1, <1>2, ListFacts DEF Positions
<1>4. /\ new.lo = i /\ new.hi = i
      /\ new.best \in Positions(j) \cup {None}
      /\ new \in [lo : Positions(j), hi : Positions(j), best : Positions(j) \cup {None}]
  BY DEF Segment
<1>5. EarliestBest(gives[j], i, i, new.best)
  <2>1. \A k \in i..i : k = i
    BY <1>3
  <2>2. i \in i..i /\ i # None
    BY <1>2, <1>3, ListFacts DEF None
  <2>3. gives[j][i] \in Nat
    BY <1>2, ListFacts
  <2>4. new.best = IF gives[j][i] = None THEN None ELSE i
    BY DEF Segment
  <2> QED BY <1>3, <2>1, <2>2, <2>3, <2>4 DEF EarliestBest
<1>6. \A s \in segments[j] : s.hi < i \/ i < s.lo
  <2> SUFFICES ASSUME NEW s \in segments[j] PROVE s.hi < i \/ i < s.lo
    OBVIOUS
  <2>1. i \notin s.lo .. s.hi
    BY DEF Encode
  <2>2. s.lo \in Nat /\ s.hi \in Nat /\ i \in Nat
    BY <1>2, <1>3 DEF SegmentTypes
  <2> QED BY <2>1, <2>2
<1>7. \A k \in Jobs : segments'[k] = IF k = j THEN segments[j] \cup {new} ELSE segments[k]
  BY <1>1, <1>2
<1> HIDE DEF new
<1>8. SegmentTypes'
  <2> SUFFICES ASSUME NEW k \in Jobs, NEW s \in segments'[k]
               PROVE  /\ s \in [lo : Positions(k), hi : Positions(k), best : Positions(k) \cup {None}]
                      /\ s.lo <= s.hi
    BY <1>3 DEF SegmentTypes
  <2>1. CASE s \in segments[k]
    BY <1>2, <2>1 DEF SegmentTypes
  <2>2. CASE s = new /\ k = j
    BY <1>3, <1>4, <2>2
  <2> QED BY <1>7, <2>1, <2>2
<1>9. SegmentsHoldBest'
  <2> SUFFICES ASSUME NEW k \in Jobs, NEW s \in segments'[k]
               PROVE  /\ EarliestBest(gives[k], s.lo, s.hi, s.best)
                      /\ \A t \in segments'[k] : s = t \/ s.hi < t.lo \/ t.hi < s.lo
    BY <1>1 DEF SegmentsHoldBest
  <2>1. CASE k # j
    BY <1>2, <1>7, <2>1 DEF SegmentsHoldBest
  <2>2. CASE k = j /\ s = new
    BY <1>4, <1>5, <1>6, <1>7, <2>2 DEF SegmentsHoldBest
  <2>3. CASE k = j /\ s \in segments[j]
    BY <1>2, <1>4, <1>6, <1>7, <2>3 DEF SegmentsHoldBest
  <2> QED BY <1>7, <2>1, <2>2, <2>3
<1>10. segments' = [k \in Jobs |-> segments'[k]]
  BY <1>1, <1>2
<1> QED BY <1>1, <1>2, <1>8, <1>9, <1>10, ResultStays DEF IInv

\* Reducing two neighbouring runs gives one, with the best of both.
LEMMA ReduceKeeps ==
  ASSUME IInv, NEW j \in Jobs, NEW a \in segments[j], NEW b \in segments[j], Reduce(j, a, b)
  PROVE  IInv'
<1> DEFINE new == Segment(a.lo, b.hi, Better(gives[j], a.best, b.best))
<1>1. UNCHANGED <<block, gives, pc, result>> /\ Lists'
      /\ segments' = [segments EXCEPT ![j] = (@ \ {a, b}) \cup {new}]
      /\ b.lo = a.hi + 1
  BY ListsStay DEF Reduce, IInv
<1>2. Lists /\ SegmentTypes /\ SegmentsHoldBest /\ ScheduleFree
      /\ segments = [k \in Jobs |-> segments[k]]
  BY DEF IInv
<1>3. \A k \in Jobs : Positions(k)' = Positions(k) /\ gives'[k] = gives[k]
  BY <1>1 DEF Positions
<1> DEFINE n == Len(gives[j])
<1>4. n \in Nat /\ gives[j] \in [1..n -> Nat] /\ Positions(j) = 1..n
  BY <1>2, ListFacts
<1>5. \A s \in segments[j] : s.lo \in 1..n /\ s.hi \in 1..n /\ s.best \in 1..n \cup {None} /\ s.lo <= s.hi
  BY <1>2, <1>4 DEF SegmentTypes
<1> HIDE DEF n
<1>6. EarliestBest(gives[j], a.lo, a.hi, a.best) /\ EarliestBest(gives[j], a.hi + 1, b.hi, b.best)
  BY <1>1, <1>2 DEF SegmentsHoldBest
<1>7. a.hi < b.hi
  BY <1>1, <1>5
<1>8. /\ EarliestBest(gives[j], a.lo, b.hi, Better(gives[j], a.best, b.best))
      /\ Better(gives[j], a.best, b.best) \in 1..n \cup {None}
  BY <1>4, <1>5, <1>6, <1>7, BetterIsBest
<1>9. /\ new.lo = a.lo /\ new.hi = b.hi /\ new.best = Better(gives[j], a.best, b.best)
      /\ new \in [lo : Positions(j), hi : Positions(j), best : Positions(j) \cup {None}]
      /\ new.lo <= new.hi
  <2>1. a.lo \in 1..n /\ b.hi \in 1..n /\ a.lo <= b.hi
    BY <1>5, <1>7
  <2> QED BY <1>4, <1>8, <2>1 DEF Segment
<1>10. \A k \in Jobs : segments'[k] = IF k = j THEN (segments[j] \ {a, b}) \cup {new} ELSE segments[k]
  BY <1>1, <1>2
<1> HIDE DEF new
<1>11. \A t \in segments[j] \ {a, b} : t.hi < new.lo \/ new.hi < t.lo
  <2> SUFFICES ASSUME NEW t \in segments[j], t # a, t # b PROVE t.hi < new.lo \/ new.hi < t.lo
    OBVIOUS
  <2>1. (t.hi < a.lo \/ a.hi < t.lo) /\ (t.hi < b.lo \/ b.hi < t.lo)
    BY <1>2 DEF SegmentsHoldBest
  <2>2. t.lo <= t.hi /\ t.lo \in Nat /\ t.hi \in Nat /\ a.hi \in Nat /\ a.lo \in Nat /\ b.hi \in Nat
    BY <1>5
  <2> QED BY <1>1, <1>9, <2>1, <2>2
<1>12. SegmentTypes'
  <2> SUFFICES ASSUME NEW k \in Jobs, NEW s \in segments'[k]
               PROVE  /\ s \in [lo : Positions(k), hi : Positions(k), best : Positions(k) \cup {None}]
                      /\ s.lo <= s.hi
    BY <1>3 DEF SegmentTypes
  <2>1. CASE s \in segments[k]
    BY <1>2, <2>1 DEF SegmentTypes
  <2>2. CASE s = new /\ k = j
    BY <1>9, <2>2
  <2> QED BY <1>10, <2>1, <2>2
<1>13. SegmentsHoldBest'
  <2> SUFFICES ASSUME NEW k \in Jobs, NEW s \in segments'[k]
               PROVE  /\ EarliestBest(gives[k], s.lo, s.hi, s.best)
                      /\ \A t \in segments'[k] : s = t \/ s.hi < t.lo \/ t.hi < s.lo
    BY <1>1 DEF SegmentsHoldBest
  <2>1. CASE k # j
    BY <1>2, <1>10, <2>1 DEF SegmentsHoldBest
  <2>2. CASE k = j /\ s = new
    BY <1>8, <1>9, <1>10, <1>11, <2>2
  <2>3. CASE k = j /\ s \in segments[j] \ {a, b}
    BY <1>2, <1>10, <1>11, <2>3 DEF SegmentsHoldBest
  <2> QED BY <1>10, <2>1, <2>2, <2>3
<1>14. segments' = [k \in Jobs |-> segments'[k]]
  BY <1>1, <1>2
<1> QED BY <1>1, <1>2, <1>12, <1>13, <1>14, ResultStays DEF IInv

\* An empty block is done; any other starts with nothing reduced.
LEMMA StartKeeps == ASSUME IInv, Start PROVE IInv'
<1>1. UNCHANGED <<block, gives, segments>> /\ Lists'
  BY ListsStay DEF Start, IInv
<1>2. SegmentTypes' /\ SegmentsHoldBest' /\ segments' = [j \in Jobs |-> segments'[j]]
  BY <1>1 DEF IInv, SegmentTypes, SegmentsHoldBest, Positions
<1>3. ScheduleFree'
  <2>1. block.plain.len = 0 => ~(block.plain.len > 0)
    OBVIOUS
  <2>2. pc' = "done" => block.plain.len = 0
    BY DEF Start
  <2> QED BY <1>1, <2>1, <2>2 DEF ScheduleFree
<1> QED BY <1>1, <1>2, <1>3 DEF IInv

\* What is kept is the best of the whole lists.
LEMMA JoinKeeps == ASSUME IInv, Join PROVE IInv'
<1>1. UNCHANGED <<block, gives, segments>> /\ Lists' /\ Lists
  BY ListsStay DEF Join, IInv
<1>2. SegmentTypes' /\ SegmentsHoldBest' /\ segments' = [j \in Jobs |-> segments'[j]]
  BY <1>1 DEF IInv, SegmentTypes, SegmentsHoldBest, Positions
<1>3. ASSUME NEW j \in Jobs, NEW k, Reduced(j, k)
      PROVE  EarliestBest(gives[j], 1, Len(gives[j]), k)
  <2>1. Segment(1, Len(gives[j]), k) \in segments[j]
    BY <1>3 DEF Reduced
  <2> QED BY <2>1 DEF IInv, SegmentsHoldBest, Segment
<1>4. PICK p \in Positions("plain") \cup {None}, f \in Positions("bcj") \cup {None} :
        /\ Reduced("plain", p)
        /\ TryBcj(block) => Reduced("bcj", f)
        /\ result' = IF TryBcj(block) /\ Winner("bcj", f).size < Winner("plain", p).size
                     THEN AdaptiveResult(Winner("bcj", f), TRUE)
                     ELSE AdaptiveResult(Winner("plain", p), FALSE)
  BY DEF Join
<1>5. EarliestBest(gives["plain"], 1, Len(gives["plain"]), p)
  BY <1>3, <1>4 DEF Jobs
<1> DEFINE e == IF TryBcj(block) THEN f ELSE None
<1>6. /\ e \in Positions("bcj") \cup {None}
      /\ EarliestBest(gives["bcj"], 1, Len(gives["bcj"]), e)
  <2>1. CASE TryBcj(block)
    BY <1>3, <1>4, <2>1 DEF Jobs
  <2>2. CASE ~TryBcj(block)
    <3>1. Len(gives["bcj"]) = 0
      BY <1>1, <2>2 DEF Lists
    <3> QED BY <2>2, <3>1 DEF EarliestBest
  <2> QED BY <2>1, <2>2
<1>7. "bcj" \in JobsOf(block) <=> TryBcj(block)
  BY DEF JobsOf, Jobs
<1>8. result' = IF "bcj" \in JobsOf(block) /\ Winner("bcj", e).size < Winner("plain", p).size
               THEN AdaptiveResult(Winner("bcj", e), TRUE) ELSE AdaptiveResult(Winner("plain", p), FALSE)
  BY <1>4, <1>7
<1> HIDE DEF e
<1> DEFINE Free(r) ==
      \E pp \in Positions("plain") \cup {None}, ff \in Positions("bcj") \cup {None} :
        /\ EarliestBest(gives["plain"], 1, Len(gives["plain"]), pp)
        /\ EarliestBest(gives["bcj"], 1, Len(gives["bcj"]), ff)
        /\ r = IF "bcj" \in JobsOf(block) /\ Winner("bcj", ff).size < Winner("plain", pp).size
               THEN AdaptiveResult(Winner("bcj", ff), TRUE) ELSE AdaptiveResult(Winner("plain", pp), FALSE)
<1>9. Free(result')
  BY <1>4, <1>5, <1>6, <1>8
<1>10. ScheduleFree'
  <2>1. Free(result') <=> Free(result)'
    BY <1>1 DEF Positions, EarliestBest, JobsOf, TryBcj, Winner, AdaptiveResult, List, MetricsOf, Stored
  <2>2. ScheduleFree <=> (pc = "done" /\ block.plain.len > 0 => Free(result))
    BY DEF ScheduleFree
  <2>3. ScheduleFree' <=> ((pc = "done" /\ block.plain.len > 0) => Free(result))'
    BY DEF ScheduleFree
  <2> QED BY <1>9, <2>1, <2>3
<1> QED BY <1>1, <1>2, <1>10 DEF IInv

\* The invariant is inductive.
LEMMA StepInv == IInv /\ [Next]_vars => IInv'
<1> SUFFICES ASSUME IInv, [Next]_vars PROVE IInv'
  OBVIOUS
<1>1. CASE Start
  BY <1>1, StartKeeps
<1>2. ASSUME NEW j \in Jobs, NEW i \in Positions(j), Encode(j, i) PROVE IInv'
  BY <1>2, EncodeKeeps
<1>3. ASSUME NEW j \in Jobs, NEW a \in segments[j], NEW b \in segments[j], Reduce(j, a, b) PROVE IInv'
  BY <1>3, ReduceKeeps
<1>4. CASE Join
  BY <1>4, JoinKeeps
<1>5. CASE UNCHANGED vars
  <2>1. UNCHANGED <<block, gives, pc, segments, result>>
    BY <1>5 DEF vars
  <2>2. SegmentTypes' /\ SegmentsHoldBest' /\ segments' = [j \in Jobs |-> segments'[j]]
    BY <2>1 DEF IInv, SegmentTypes, SegmentsHoldBest, Positions
  <2> QED BY <2>1, <2>2, ListsStay, ResultStays DEF IInv
<1> QED BY <1>1, <1>2, <1>3, <1>4, <1>5 DEF Next, Work

\* In every reachable state the reduced runs hold their best, and the result is
\* that of the whole lists (select_best_codec, compress_block_adaptive).
THEOREM Inductive == Spec => []IInv
BY InitInv, StepInv, PTL DEF Spec

\* However rayon splits and orders the work, a reduced run of candidates holds
\* the earliest of its smallest outputs.
THEOREM ReductionHoldsBest == Spec => []SegmentsHoldBest
<1>1. IInv => SegmentsHoldBest
  BY DEF IInv
<1> QED BY <1>1, Inductive, PTL

\* The same block is always compressed to the same bytes: the number of threads
\* and their speed do not show in a file.
THEOREM CompressionIsDeterministic == Spec => []ScheduleFree
<1>1. IInv => ScheduleFree
  BY DEF IInv
<1> QED BY <1>1, Inductive, PTL

\* A block is never larger than LZ77 with Huffman makes it, if that works at all:
\* the no-regression guarantee of the selector.
THEOREM NeverWorseThanBaseline == Spec => []NoRegression
<1>1. IInv => NoRegression
  <2> SUFFICES ASSUME IInv, pc = "done", block.plain.len > 0
               PROVE  /\ List("plain")[1] = "lz77huf"
                      /\ gives["plain"][1] # None => result.size <= gives["plain"][1]
    BY DEF NoRegression
  <2>1. List("plain")[1] = "lz77huf"
    BY CandidateList DEF List
  <2>2. PICK p \in Positions("plain") \cup {None}, f \in Positions("bcj") \cup {None} :
          /\ EarliestBest(gives["plain"], 1, Len(gives["plain"]), p)
          /\ result = IF "bcj" \in JobsOf(block) /\ Winner("bcj", f).size < Winner("plain", p).size
                      THEN AdaptiveResult(Winner("bcj", f), TRUE) ELSE AdaptiveResult(Winner("plain", p), FALSE)
    BY DEF IInv, ScheduleFree
  <2>3. Lists /\ "plain" \in Jobs /\ "bcj" \in Jobs
    BY DEF IInv, Jobs
  <2>4. 1 \in 1..Len(gives["plain"])
    BY <2>3, ListFacts DEF Lists
  <2>5. ASSUME gives["plain"][1] # None
        PROVE  result.size <= gives["plain"][1]
    <3>1. p # None /\ gives["plain"][p] <= gives["plain"][1]
      BY <2>2, <2>4, <2>5 DEF EarliestBest
    <3>2. Winner("plain", p).size = gives["plain"][p]
      BY <3>1 DEF Winner
    <3>3. gives["plain"][p] \in Nat /\ gives["plain"][1] \in Nat
      BY <2>2, <2>3, <2>4, <3>1, ListFacts
    <3>4. Winner("bcj", f).size \in Nat
      BY <2>2, <2>3, ListFacts, Constants DEF Winner, Stored
    <3>5. \A w, x : AdaptiveResult(w, x).size = w.size
      BY DEF AdaptiveResult
    <3> DEFINE w == Winner("plain", p)
               x == Winner("bcj", f)
    <3>6. x.size \in Nat /\ w.size \in Nat /\ w.size <= gives["plain"][1]
      BY <3>1, <3>2, <3>3, <3>4
    <3>7. \/ result = AdaptiveResult(w, FALSE)
          \/ result = AdaptiveResult(x, TRUE) /\ x.size < w.size
      BY <2>2
    <3> HIDE DEF w, x
    <3>8. result.size = w.size \/ (result.size = x.size /\ x.size < w.size)
      BY <3>5, <3>7
    <3> QED BY <3>3, <3>6, <3>8
  <2> QED BY <2>1, <2>5
<1> QED BY <1>1, Inductive, PTL

---------------------------------------------------------------------------
(* Types.                                                                  *)

Results == [codec : Codecs, size : Sizes \cup {StoreSize}, bcj : BOOLEAN]
           \cup {Nothing, [codec |-> "store", size |-> 0, bcj |-> FALSE]}

Typed ==
  /\ pc \in {"start", "encode", "done"} /\ result \in Results
  /\ pc = "encode" => block.plain.len > 0
  /\ \A j \in JobsOf(block) : DOMAIN gives[j] = DOMAIN List(j)
  /\ block.plain.len > 0 /\ pc = "done" => result.size > 0

\* What a reduced job gives is one of its codecs with its output, or the block.
LEMMA WinnerTyped ==
  ASSUME IInv, Typed, NEW j \in JobsOf(block), NEW best, Reduced(j, best)
  PROVE  Winner(j, best).codec \in Codecs /\ Winner(j, best).size \in Sizes \cup {StoreSize}
<1>1. CASE best = None
  BY <1>1 DEF Winner, Stored, Codecs
<1>2. CASE best # None
  <2>0. j \in Jobs
    BY DEF JobsOf, Jobs
  <2>1. EarliestBest(gives[j], 1, Len(gives[j]), best)
    <3>1. Segment(1, Len(gives[j]), best) \in segments[j]
      BY DEF Reduced
    <3> QED
      BY <2>0, <3>1 DEF IInv, SegmentsHoldBest, Segment
  <2>2. best \in 1..Len(gives[j]) /\ gives[j][best] # None
    BY <1>2, <2>1 DEF EarliestBest
  <2>3. gives[j] \in Seq(Given0) /\ List(j) \in Seq(Codecs)
    BY <2>0, CandidateList DEF IInv, Lists, List
  <2>4. gives[j][best] \in Sizes \cup {StoreSize}
    BY <2>2, <2>3 DEF Given0
  <2>5. List(j)[best] \in Codecs
    <3>1. best \in DOMAIN List(j)
      BY <2>2, <2>3 DEF Typed
    <3> QED
      BY <2>3, <3>1
  <2> QED
    BY <1>2, <2>4, <2>5 DEF Winner
<1> QED
  BY <1>1, <1>2

\* The first state is well typed.
LEMMA TypedInit == Init => Typed
<1> SUFFICES ASSUME Init PROVE Typed
  OBVIOUS
<1>1. PICK p \in Given(block, "plain"), f \in Given(block, "bcj") :
        gives = [j \in Jobs |-> IF j = "plain" THEN p ELSE f]
  BY DEF Init
<1>2. ASSUME NEW j \in JobsOf(block) PROVE DOMAIN gives[j] = DOMAIN List(j)
  <2>1. j \in Jobs /\ gives[j] \in Given(block, j)
    BY <1>1 DEF JobsOf, Jobs
  <2> QED
    BY <2>1 DEF Given, List
<1> QED
  BY <1>2 DEF Init, Typed, Results

\* Every step keeps the types, given what the invariant says of segments.
LEMMA TypedStep == ASSUME IInv, Typed, [Next]_vars PROVE Typed'
<1>1. CASE UNCHANGED vars
  BY <1>1 DEF vars, Typed, List
<1>2. CASE Start
  <2>1. UNCHANGED <<block, gives>>
    BY <1>2 DEF Start
  <2>2. block.plain.len \in Nat
    BY SelectAssumption DEF SelectAssumption, Metrics, IInv, Lists
  <2> QED
    BY <1>2, <2>1, <2>2 DEF Start, Typed, List, Results
<1>3. ASSUME NEW j \in Jobs, Work(j) PROVE Typed'
  BY <1>3 DEF Work, Encode, Reduce, Typed, List
<1>4. CASE Join
  <2>1. PICK p \in Positions("plain") \cup {None}, f \in Positions("bcj") \cup {None} :
          /\ Reduced("plain", p)
          /\ TryBcj(block) => Reduced("bcj", f)
          /\ result' = IF TryBcj(block) /\ Winner("bcj", f).size < Winner("plain", p).size
                       THEN AdaptiveResult(Winner("bcj", f), TRUE)
                       ELSE AdaptiveResult(Winner("plain", p), FALSE)
    BY <1>4 DEF Join
  <2>2. "plain" \in JobsOf(block) /\ (TryBcj(block) => "bcj" \in JobsOf(block))
    BY DEF JobsOf, Jobs
  <2> DEFINE w == Winner("plain", p)
             x == Winner("bcj", f)
  <2>3. w.codec \in Codecs /\ w.size \in Sizes \cup {StoreSize}
    BY <2>1, <2>2, WinnerTyped
  <2>4. TryBcj(block) => x.codec \in Codecs /\ x.size \in Sizes \cup {StoreSize}
    BY <2>1, <2>2, WinnerTyped
  <2> HIDE DEF w, x
  <2>5. \E v, b : /\ v.codec \in Codecs /\ v.size \in Sizes \cup {StoreSize} /\ b \in BOOLEAN
                  /\ result' = AdaptiveResult(v, b)
    BY <2>1, <2>3, <2>4 DEF w, x
  <2>6. result' \in Results /\ result'.size > 0
    <3>1. PICK v, b : /\ v.codec \in Codecs /\ v.size \in Sizes \cup {StoreSize} /\ b \in BOOLEAN
                      /\ result' = AdaptiveResult(v, b)
      BY <2>5
    <3>2. v.size \in Nat \ {0}
      BY <3>1, Constants
    <3>3. result' = [codec |-> v.codec, size |-> v.size, bcj |-> b]
      BY <3>1 DEF AdaptiveResult
    <3> HIDE DEF Results
    <3>4. result' \in [codec : Codecs, size : Sizes \cup {StoreSize}, bcj : BOOLEAN]
      BY <3>1, <3>3
    <3>5. result'.size = v.size
      BY <3>3
    <3> QED
      BY <3>2, <3>4, <3>5 DEF Results
  <2>7. UNCHANGED <<block, gives>> /\ pc' = "done"
    BY <1>4 DEF Join
  <2> QED
    BY <2>6, <2>7 DEF Typed, List
<1> QED
  BY <1>1, <1>2, <1>3, <1>4 DEF Next

\* Every reachable state is well typed, and no block that holds anything has
\* an empty result.
THEOREM TypeCorrect == Spec => []TypeOK
<1>1. IInv /\ Typed => TypeOK
  BY DEF IInv, Lists, SegmentTypes, Typed, TypeOK, Results, Given0
<1> QED
  BY <1>1, TypedInit, TypedStep, Inductive, PTL DEF Spec
=============================================================================
