---------------------------- MODULE CodecSelect ----------------------------
(***************************************************************************)
(* Choosing the codec of a block (src/adaptive.rs, classifier_v2.rs).      *)
(*                                                                         *)
(* compress_block_adaptive looks at a block, and encodes it, and for code  *)
(* also its BCJ-filtered form, with several candidate codecs.  All of them *)
(* run on a pool of threads, in any order; rayon reduces neighbouring      *)
(* results pairwise in whatever shape the pool happens to split the list.  *)
(*                                                                         *)
(* Abstractions.  A codec is a function, so what each candidate gives (the *)
(* size of its output, or nothing: rejected, panicked, empty) is fixed with*)
(* the block.  Metrics are integers: shares in hundredths, bits per byte   *)
(* in tenths.                                                              *)
(***************************************************************************)
EXTENDS Integers, Sequences, FiniteSets

CONSTANTS
  BlockSet,   \* blocks: [plain, bcj : metrics of the data and of its filtered form, x86]
  Sizes,      \* sizes a codec's output may have
  StoreSize   \* size of the block itself, in the same units

None == 0     \* nothing; no candidate

Codecs  == {"lz77huf", "lzma", "delta", "rlehuf", "store", "bwt", "ppm", "stride-cm"}
Jobs    == {"plain", "bcj"}
Metrics == [len : Nat, entropy : Nat, ascii : Nat, unique : Nat, run : Nat,
            corr : Int, var : Nat]

ASSUME SelectAssumption ==
  /\ \A b \in BlockSet : b.plain \in Metrics /\ b.bcj \in Metrics /\ b.x86 \in BOOLEAN
  /\ Sizes \subseteq Nat \ {0} /\ StoreSize \in Nat \ {0}

VARIABLES
  block,     \* the block
  gives,     \* what each candidate of each job gives
  pc,        \* "start", "encode", "done"
  segments,  \* of each job, the runs of candidates reduced so far
  result     \* the AdaptiveResult, and the size of its data

vars == <<block, gives, pc, segments, result>>

---------------------------------------------------------------------------
(* Which candidates a block has.                                           *)

\* classify: the codec the metrics suggest besides the baseline and LZMA.
Classify(m) ==
  IF m.entropy > 75 THEN "store"
  ELSE IF m.unique <= 8 /\ m.run > 20 /\ m.corr > 85 THEN "rlehuf"
  ELSE IF m.ascii > 70 THEN "lzma"
  ELSE IF \/ m.corr > 60 /\ m.ascii < 30 /\ m.unique > 20
          \/ m.var > 3000 /\ m.unique > 200 /\ m.ascii < 40 THEN "delta"
  ELSE "lzma"

TryBwt(m) ==
  IF m.len >= 32768 THEN m.ascii > 90 /\ m.entropy <= 55
  ELSE m.len >= 4096 /\ m.ascii > 96 /\ m.entropy <= 50

Only(condition, codec) == IF condition THEN <<codec>> ELSE <<>>

\* The candidates in the order that breaks ties.
Candidates(m) ==
  <<"lz77huf">>
  \o Only(Classify(m) # "lzma", Classify(m))
  \o <<"lzma">>
  \o Only(TryBwt(m), "bwt")
  \o Only(m.ascii <= 85 /\ m.len >= 256, "stride-cm")
  \o Only(m.ascii > 80 /\ m.entropy < 55 /\ m.len >= 256, "ppm")

TryBcj(b) == b.plain.ascii <= 70 /\ b.x86

MetricsOf(b, j) == IF j = "plain" THEN b.plain ELSE b.bcj
JobsOf(b)       == IF TryBcj(b) THEN Jobs ELSE {"plain"}
List(j)         == Candidates(MetricsOf(block, j))
Positions(j)    == DOMAIN gives[j]

\* encode_candidate: an output, or nothing; storing always gives the block.
Encodings(c) == IF c = "store" THEN {StoreSize} ELSE Sizes \cup {None}

---------------------------------------------------------------------------
(* The reduction.  best is the position of a candidate, or None.           *)

Segment(lo, hi, best) == [lo |-> lo, hi |-> hi, best |-> best]

\* Mutants: a tie goes to the later; a candidate that gives nothing takes the
\* best so far with it.
BetterOrEqual(g, best, other) ==
  IF best = None THEN other
  ELSE IF other # None /\ g[other] <= g[best] THEN other
  ELSE best
BetterForgets(g, best, other) ==
  IF other = None \/ best = None THEN other
  ELSE IF g[other] < g[best] THEN other
  ELSE best

\* The closure given to reduce_with, where either side may have nothing.
Better(g, best, other) ==
  IF best = None THEN other
  ELSE IF other # None /\ g[other] < g[best] THEN other
  ELSE best

Stored == [codec |-> "store", size |-> StoreSize]

\* A mutant: the fallback holds no data.
WinnerEmpty(j, best) ==
  IF best = None THEN [codec |-> "store", size |-> 0]
  ELSE [codec |-> List(j)[best], size |-> gives[j][best]]

\* unwrap_or_else: the block itself, when no candidate gave anything.
Winner(j, best) ==
  IF best = None THEN Stored ELSE [codec |-> List(j)[best], size |-> gives[j][best]]

AdaptiveResult(w, bcj) == [codec |-> w.codec, size |-> w.size, bcj |-> bcj]
Nothing == [codec |-> "none", size |-> 0, bcj |-> FALSE]

---------------------------------------------------------------------------
(* compress_block_adaptive.                                                *)

\* What the candidates of job j may give.
Given(b, j) ==
  IF j \in JobsOf(b)
  THEN LET list == Candidates(MetricsOf(b, j))
       IN  {g \in [DOMAIN list -> Sizes \cup {None, StoreSize}] :
              \A i \in DOMAIN list : g[i] \in Encodings(list[i])}
  ELSE {<<>>}

Init ==
  /\ block \in BlockSet
  /\ gives \in {[j \in Jobs |-> IF j = "plain" THEN p ELSE f] :
                 p \in Given(block, "plain"), f \in Given(block, "bcj")}
  /\ pc = "start"
  /\ segments = [j \in Jobs |-> {}]
  /\ result = Nothing

\* An empty block is stored; any other goes to the pool.
Start ==
  /\ pc = "start"
  /\ IF block.plain.len = 0
     THEN pc' = "done" /\ result' = [codec |-> "store", size |-> 0, bcj |-> FALSE]
     ELSE pc' = "encode" /\ UNCHANGED result
  /\ UNCHANGED <<block, gives, segments>>

\* A thread of the pool encodes one candidate.
Encode(j, i) ==
  /\ pc = "encode"
  /\ \A s \in segments[j] : i \notin s.lo .. s.hi
  /\ segments' = [segments EXCEPT ![j] = @ \cup
                    {Segment(i, i, IF gives[j][i] = None THEN None ELSE i)}]
  /\ UNCHANGED <<block, gives, pc, result>>

\* Two neighbouring runs are reduced to one, the left one first.
Reduce(j, a, b) ==
  /\ pc = "encode"
  /\ b.lo = a.hi + 1
  /\ segments' = [segments EXCEPT ![j] = (@ \ {a, b}) \cup
                    {Segment(a.lo, b.hi, Better(gives[j], a.best, b.best))}]
  /\ UNCHANGED <<block, gives, pc, result>>

\* The whole list of job j is reduced, and this is its best.
Reduced(j, best) == segments[j] = {Segment(1, Len(gives[j]), best)}

\* A mutant: without an output there is no result (unwrap, not unwrap_or_else).
JoinNoFallback ==
  /\ pc = "encode"
  /\ \E p \in Positions("plain"), f \in Positions("bcj") \cup {None} :
       /\ Reduced("plain", p)
       /\ TryBcj(block) => Reduced("bcj", f)
       /\ result' = AdaptiveResult(Winner("plain", p), FALSE)
  /\ pc' = "done"
  /\ UNCHANGED <<block, gives, segments>>

\* A mutant: the filtered form is kept whenever the data looks like code.
JoinPrefersBcj ==
  /\ pc = "encode"
  /\ \E p \in Positions("plain") \cup {None}, f \in Positions("bcj") \cup {None} :
       /\ Reduced("plain", p)
       /\ TryBcj(block) => Reduced("bcj", f)
       /\ result' = IF TryBcj(block) THEN AdaptiveResult(Winner("bcj", f), TRUE)
                    ELSE AdaptiveResult(Winner("plain", p), FALSE)
  /\ pc' = "done"
  /\ UNCHANGED <<block, gives, segments>>

\* rayon::join: the filtered form is kept only if it is strictly smaller.
Join ==
  /\ pc = "encode"
  /\ \E p \in Positions("plain") \cup {None}, f \in Positions("bcj") \cup {None} :
       /\ Reduced("plain", p)
       /\ TryBcj(block) => Reduced("bcj", f)
       /\ result' = IF TryBcj(block) /\ Winner("bcj", f).size < Winner("plain", p).size
                    THEN AdaptiveResult(Winner("bcj", f), TRUE)
                    ELSE AdaptiveResult(Winner("plain", p), FALSE)
  /\ pc' = "done"
  /\ UNCHANGED <<block, gives, segments>>

Work(j) ==
  \/ \E i \in Positions(j) : Encode(j, i)
  \/ \E a, b \in segments[j] : Reduce(j, a, b)

Next == Start \/ (\E j \in Jobs : Work(j)) \/ Join

\* The caller runs, and the pool works on what it was given.
Fairness == WF_vars(Start) /\ WF_vars(Join) /\ \A j \in Jobs : WF_vars(Work(j))

Spec == Init /\ [][Next]_vars /\ Fairness
---------------------------------------------------------------------------
(* Properties.                                                             *)

\* Types of the variables.
TypeOK ==
  /\ block \in BlockSet
  /\ \A j \in Jobs : gives[j] \in Seq(Sizes \cup {None, StoreSize})
  /\ pc \in {"start", "encode", "done"}
  /\ \A j \in Jobs : segments[j] \subseteq
       [lo : Positions(j), hi : Positions(j), best : Positions(j) \cup {None}]
  /\ result \in [codec : Codecs, size : Sizes \cup {StoreSize}, bcj : BOOLEAN]
       \cup {Nothing, [codec |-> "store", size |-> 0, bcj |-> FALSE]}
  /\ block.plain.len > 0 /\ pc = "done" => result.size > 0

\* k is the earliest of the smallest outputs among lo..hi, None if none has one.
EarliestBest(g, lo, hi, k) ==
  IF k = None THEN \A i \in lo..hi : g[i] = None
  ELSE /\ k \in lo..hi /\ g[k] # None
       /\ \A i \in lo..hi : g[i] # None => g[k] <= g[i] /\ (i < k => g[k] < g[i])

\* However the pool splits and orders the work, a run of candidates reduced so
\* far holds the earliest of its smallest outputs, and no candidate is in two.
SegmentsHoldBest ==
  \A j \in Jobs : \A s \in segments[j] :
    /\ EarliestBest(gives[j], s.lo, s.hi, s.best)
    /\ \A t \in segments[j] : s = t \/ s.hi < t.lo \/ t.hi < s.lo

\* The same block is always compressed to the same bytes: the earliest of the
\* smallest outputs, the plain ones before the filtered ones, the block itself
\* where a job has no output.  Files do not depend on the number of threads.
ScheduleFree ==
  pc = "done" /\ block.plain.len > 0 =>
    \E p \in Positions("plain") \cup {None}, f \in Positions("bcj") \cup {None} :
      /\ EarliestBest(gives["plain"], 1, Len(gives["plain"]), p)
      /\ EarliestBest(gives["bcj"], 1, Len(gives["bcj"]), f)
      /\ LET plain == Winner("plain", p)
             bcj   == Winner("bcj", f)
         IN  result = IF "bcj" \in JobsOf(block) /\ bcj.size < plain.size
                      THEN AdaptiveResult(bcj, TRUE) ELSE AdaptiveResult(plain, FALSE)

\* The no-regression guarantee: a block is never larger than what LZ77 with
\* Huffman, always the first candidate, makes of it.
NoRegression ==
  pc = "done" /\ block.plain.len > 0 =>
    /\ List("plain")[1] = "lz77huf"
    /\ gives["plain"][1] # None => result.size <= gives["plain"][1]

\* Every block gets a result, whatever its candidates do: one that panics costs
\* ratio, never the compression.
Terminates == <>(pc = "done")
=============================================================================
