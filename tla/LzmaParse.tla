----------------------------- MODULE LzmaParse -----------------------------
(***************************************************************************)
(* How the LZMA-style codec cuts a block into tokens                       *)
(* (src/codecs/lzma_style.rs): a binary tree finds the matches, and a      *)
(* cheapest path over literals, repeated distances and matches is searched *)
(* with prices from the parse before.  Prices are any numbers here.        *)
(* Positions count from 0.                                                 *)
(***************************************************************************)
EXTENDS Integers, Sequences, FiniteSets

CONSTANTS
  Blocks,      \* what is parsed: rows of bytes
  PriceLists,  \* [literal, shortRep, rep, repLen, matchLen, dist]
  MinMatch,    \* MIN_MATCH: 3
  MaxMatch,    \* MAX_MATCH
  MaxWindow,   \* MAX_WINDOW
  NiceLen,     \* NICE_LEN
  TreeDepth,   \* TREE_DEPTH
  Hash(_)      \* hash3, of three bytes

VARIABLES
  data,    \* the block
  prices,  \* the list the search goes by
  tree,    \* [head, son]
  path,    \* cost, from and reps of every position
  at,      \* the next position, and the matches found at the last one
  tokens   \* the parse: [status, row of [len, dist]]

vars == <<data, prices, tree, path, at, tokens>>

N == Len(data)
Text(p) == data[p + 1]
Least2(a, b) == IF a < b THEN a ELSE b

Repeats(p, dist, len) == \A k \in 0 .. len - 1 : Text(p - dist + k) = Text(p + k)

\* How far p repeats what is dist before it, counted on from a length.
MatchFrom(p, dist, least, limit) ==
  CHOOSE n \in least .. limit :
    /\ \A k \in least .. n - 1 : Text(p - dist + k) = Text(p + k)
    /\ n < limit => Text(p - dist + n) # Text(p + n)

\* match_len_at
MatchLenAt(p, dist, limit) == MatchFrom(p, dist, 0, limit)

---------------------------------------------------------------------------
(* MatchTree                                                               *)

Empty == -1
Bucket(p) == Hash(<<Text(p), Text(p + 1), Text(p + 2)>>)

\* MUTANT: the longer of the two prefixes is taken for shared.
SharedLong(w) == IF w.smallerLen > w.greaterLen THEN w.smallerLen ELSE w.greaterLen

\* What the nodes left are trusted to share with the position, uncompared.
Shared(w) == Least2(w.smallerLen, w.greaterLen)

\* One node: it is hung below the smaller or the greater place, and the walk
\* goes on in its other subtree; a node that p repeats as far as one looks
\* leaves p its children.
Walked(p, limit, w) ==
  LET c    == w.cand
      len  == MatchFrom(p, p - c, Shared(w), limit)
      out  == IF len > w.best THEN Append(w.out, [dist |-> p - c, len |-> len]) ELSE w.out
      best == IF len > w.best THEN len ELSE w.best
  IN  IF len = limit
      THEN [w EXCEPT !.out = out, !.done = TRUE,
                     !.son = [@ EXCEPT ![w.smaller] = w.son[2 * c], ![w.greater] = w.son[2 * c + 1]]]
      ELSE IF Text(c + len) < Text(p + len)
      THEN [w EXCEPT !.out = out, !.best = best, !.son[w.smaller] = c, !.smaller = 2 * c + 1,
                     !.smallerLen = len, !.cand = w.son[2 * c + 1]]
      ELSE [w EXCEPT !.out = out, !.best = best, !.son[w.greater] = c, !.greater = 2 * c,
                     !.greaterLen = len, !.cand = w.son[2 * c]]

Begun(t, p) ==
  [cand |-> t.head[Bucket(p)], son |-> t.son, smaller |-> 2 * p, greater |-> 2 * p + 1,
   smallerLen |-> 0, greaterLen |-> 0, best |-> MinMatch - 1, out |-> << >>, done |-> FALSE]

\* insert: the tree with p as the root of its bucket, and the matches met.
Inserted(t, p) ==
  LET limit == Least2(NiceLen, N - p)
      over(w) == w.done \/ w.cand = Empty \/ p - w.cand > MaxWindow
      r[k \in 0..TreeDepth] ==
        IF k = 0 THEN Begun(t, p)
        ELSE LET w == r[k - 1] IN IF over(w) THEN w ELSE Walked(p, limit, w)
      end(w) == [head |-> [t.head EXCEPT ![Bucket(p)] = p],
                 son |-> IF w.done THEN w.son
                         ELSE [w.son EXCEPT ![w.smaller] = Empty, ![w.greater] = Empty],
                 out |-> w.out]
  IN  end(r[TreeDepth])

---------------------------------------------------------------------------
(* optimal_parse                                                           *)

NoCost == 1000000   \* infinity
RepsAtStart == <<1, 2, 3, 4>>

\* move_rep_to_front
MovedToFront(reps, i) ==
  [j \in 1..4 |-> IF j = 1 THEN reps[i] ELSE IF j <= i THEN reps[j - 1] ELSE reps[j]]
Entered(reps, dist) == <<dist, reps[1], reps[2], reps[3]>>

RepIndex(reps, dist) == {i \in 1..4 : reps[i] = dist}
RepPrice(i, len) == prices.rep[i] + prices.repLen[len]
MatchPrice(dist, len) == prices.matchLen[len] + prices.dist[dist]

Edge(len, dist, price, reps) == [len |-> len, dist |-> dist, price |-> price, reps |-> reps]

\* Edges of one repeated distance that is not past the start.
RepEdges(i, len, r) ==
  (IF i = 1 /\ len >= 1 THEN <<Edge(1, r[1], prices.shortRep, r)>> ELSE << >>)
  \o IF len >= 2 /\ len < NiceLen
     THEN [k \in 1 .. len - 1 |-> Edge(k + 1, r[i], RepPrice(i, k + 1), MovedToFront(r, i))]
     ELSE << >>

\* MUTANT: the distance of a match is not entered.
MatchEdgesForget(m, least, r) ==
  IF RepIndex(r, m.dist) # {} \/ m.len >= NiceLen THEN << >>
  ELSE [k \in 1 .. m.len - least |-> Edge(least + k, m.dist, MatchPrice(m.dist, least + k), r)]

\* Edges of a match that is not among them, longer than the match before.
MatchEdges(m, least, r) ==
  IF RepIndex(r, m.dist) # {} \/ m.len >= NiceLen THEN << >>
  ELSE [k \in 1 .. m.len - least |-> Edge(least + k, m.dist, MatchPrice(m.dist, least + k), Entered(r, m.dist))]

\* The longest match is extended past what the tree looks at.
Extended(p, found) ==
  [k \in DOMAIN found |->
     IF k = Len(found) /\ found[k].len = NiceLen
     THEN [found[k] EXCEPT !.len = MatchLenAt(p, found[k].dist, Least2(N - p, MaxMatch))]
     ELSE found[k]]

Flat(rows) == LET f[k \in 0..Len(rows)] == IF k = 0 THEN << >> ELSE f[k - 1] \o rows[k] IN f[Len(rows)]

\* Repeated distances, then other matches, as [dist, len]; the first of the
\* longest is what a long match commits to.
Longest(p, r, repLen, found) ==
  LET reps == [i \in 1..4 |-> IF repLen[i] >= 2 THEN <<[dist |-> r[i], len |-> repLen[i]]>> ELSE << >>]
      others == [k \in DOMAIN found |-> IF RepIndex(r, found[k].dist) = {} THEN <<found[k]>> ELSE << >>]
      all == Flat(reps \o others)
      first == CHOOSE k \in DOMAIN all : \A j \in DOMAIN all :
                 all[k].len > all[j].len \/ (all[k].len = all[j].len /\ k <= j)
  IN  IF all = << >> THEN [dist |-> 0, len |-> 0] ELSE all[first]

CommitEdge(m, r) ==
  LET i == CHOOSE i \in RepIndex(r, m.dist) : \A j \in RepIndex(r, m.dist) : i <= j
  IN  IF RepIndex(r, m.dist) # {} THEN Edge(m.len, m.dist, RepPrice(i, m.len), MovedToFront(r, i))
      ELSE Edge(m.len, m.dist, MatchPrice(m.dist, m.len), Entered(r, m.dist))

\* All edges from p in the order they are relaxed.
Edges(p, r, repLen, found, longest) ==
  <<Edge(1, 0, prices.literal, r)>>
  \o Flat([i \in 1..4 |-> RepEdges(i, repLen[i], r)])
  \o Flat([k \in DOMAIN found |-> MatchEdges(found[k], IF k = 1 THEN MinMatch - 1 ELSE found[k - 1].len, r)])
  \o IF longest.len >= NiceLen THEN <<CommitEdge(longest, r)>> ELSE << >>

\* relax, for one edge after the other.
Relaxed(p, edges) ==
  LET r[k \in 0..Len(edges)] ==
        IF k = 0 THEN path
        ELSE LET s  == r[k - 1]
                 e  == edges[k]
                 c  == path.cost[p] + e.price
             IN  IF c >= s.cost[p + e.len] THEN s
                 ELSE [s EXCEPT !.cost[p + e.len] = c, !.from[p + e.len] = [len |-> e.len, dist |-> e.dist],
                                !.reps[p + e.len] = e.reps]
  IN  r[Len(edges)]

\* Positions a long match covers are inserted, and their matches let go.
Covered(t, p, len) ==
  LET r[k \in 0 .. len - 1] ==
        IF k = 0 THEN t
        ELSE LET s == r[k - 1] IN IF p + k + MinMatch <= N THEN Inserted(s, p + k) ELSE s
  IN  r[len - 1]

Found(p) == IF p + MinMatch <= N THEN Inserted(tree, p) ELSE [head |-> tree.head, son |-> tree.son, out |-> << >>]

\* One position: its matches, its edges, and the next position.
Step ==
  LET p == at.next
      r == path.reps[p]
      repLen == [i \in 1..4 |-> IF r[i] > p THEN 0 ELSE MatchLenAt(p, r[i], Least2(N - p, MaxMatch))]
      with(t, found, longest) ==
        LET long == longest.len >= NiceLen
            after == IF long THEN Covered(t, p, longest.len) ELSE t
        IN  /\ path' = Relaxed(p, Edges(p, r, repLen, found, longest))
            /\ tree' = [head |-> after.head, son |-> after.son]
            /\ at' = [next |-> IF long THEN p + longest.len ELSE p + 1, last |-> p, found |-> found]
      found(t, m) == with(t, m, Longest(p, r, repLen, m))
      of(t) == found(t, Extended(p, t.out))
  IN  /\ at.next < N
      /\ of(Found(p))
      /\ UNCHANGED <<data, prices, tokens>>

\* The path back from the end, and the tokens in their order.
Trace ==
  /\ at.next = N /\ tokens.status = "none"
  /\ LET r[k \in 0..N] ==
           IF k = 0 THEN [pos |-> N, row |-> << >>]
           ELSE LET s == r[k - 1]
                IN  IF s.pos = 0 THEN s
                    ELSE [pos |-> s.pos - path.from[s.pos].len, row |-> <<path.from[s.pos]>> \o s.row]
     IN  tokens' = [status |-> "done", row |-> r[N].row]
  /\ UNCHANGED <<data, prices, tree, path, at>>

Init ==
  /\ data \in Blocks /\ prices \in PriceLists
  /\ tree = [head |-> [h \in {Hash(<<Text(p), Text(p + 1), Text(p + 2)>>) : p \in 0 .. N - 3} |-> Empty],
             son |-> [k \in 0 .. 2 * N - 1 |-> Empty]]
  /\ path = [cost |-> [p \in 0..N |-> IF p = 0 THEN 0 ELSE NoCost],
             from |-> [p \in 0..N |-> [len |-> 0, dist |-> 0]],
             reps |-> [p \in 0..N |-> RepsAtStart]]
  /\ at = [next |-> 0, last |-> 0, found |-> << >>]
  /\ tokens = [status |-> "none", row |-> << >>]

Next == Step \/ Trace
Spec == Init /\ [][Next]_vars

---------------------------------------------------------------------------
\* Whatever a walk was cut by, depth or window, and whatever subtrees were taken
\* over: below each node are older positions only, in order as far as its own
\* insertion looked, so that what both sides of a walk share with the position
\* all nodes between them share too (insert: "Every node left in this subtree
\* shares this prefix with `pos`").
TreeSorted ==
  LET sons(c) == {tree.son[2 * c], tree.son[2 * c + 1]} \ {Empty}
      below[c \in Empty .. N - 1] ==
        IF c = Empty THEN {} ELSE {c} \cup UNION {below[d] : d \in {e \in sons(c) : e < c}}
      inTree == UNION {below[tree.head[h]] : h \in DOMAIN tree.head}
      limit(c) == Least2(NiceLen, N - c)
      notAfter(a, b, n) ==
        \E k \in 0..n : (\A j \in 0 .. k - 1 : Text(a + j) = Text(b + j)) /\ (k = n \/ Text(a + k) < Text(b + k))
  IN  \A c \in inTree :
        /\ \A d \in sons(c) : d < c
        /\ \A d \in below[tree.son[2 * c]] : notAfter(d, c, limit(c))
        /\ \A d \in below[tree.son[2 * c + 1]] : notAfter(c, d, limit(c))

\* A walk may lose matches but reports none that is not there: each is within
\* the window and repeats just as far as it says, though the walk compared only
\* a part of it, and each is farther and longer than the one before (insert).
MatchesTrue ==
  \A k \in DOMAIN at.found :
    LET p == at.last
        m == at.found[k]
    IN  /\ m.dist \in 1 .. Least2(p, MaxWindow)
        /\ m.len = MatchLenAt(p, m.dist, Least2(N - p, MaxMatch)) /\ m.len >= MinMatch
        /\ k > 1 => m.dist > at.found[k - 1].dist /\ m.len > at.found[k - 1].len

\* For every length, the first match the tree reports that is at least that
\* long is at the nearest place that repeats so much, and there is one if any
\* place does (insert), where no walk in the bucket can have been cut: it holds
\* no more positions than a walk may visit.
NearestFound ==
  LET p == at.last
      limit == Least2(NiceLen, N - p)
      places(len) == {d \in 1 .. Least2(p, MaxWindow) : Repeats(p, d, len)}
      reported(len) == {k \in DOMAIN at.found : at.found[k].len >= len}
      inBucket == {c \in 0 .. p - 1 : Bucket(c) = Bucket(p)}
  IN  at.next > 0 /\ limit >= MinMatch /\ Cardinality(inBucket) <= TreeDepth =>
        \A len \in MinMatch .. limit :
          IF places(len) = {} THEN reported(len) = {}
          ELSE \E k \in reported(len) :
                 /\ \A j \in reported(len) : k <= j
                 /\ \A d \in places(len) : at.found[k].dist <= d
                 /\ at.found[k].dist \in places(len)

\* Recent distances after a token.
After(reps, token) ==
  IF token.dist = 0 \/ (token.len = 1 /\ token.dist = reps[1]) THEN reps
  ELSE IF RepIndex(reps, token.dist) = {} THEN Entered(reps, token.dist)
  ELSE MovedToFront(reps, CHOOSE i \in RepIndex(reps, token.dist) : TRUE)

\* What is remembered with a position is what an encoder has there that takes
\* the cheapest path: its recent distances, and its bits in the prices given.
PathKept ==
  \A p \in 1..N :
    path.cost[p] # NoCost =>
      LET f == path.from[p]
          o == p - f.len
          r == path.reps[o]
          i == CHOOSE i \in RepIndex(r, f.dist) : TRUE
      IN  /\ f.len \in 1..p /\ path.cost[o] # NoCost
          /\ f.dist = 0 \/ (f.dist \in 1..o /\ Repeats(o, f.dist, f.len))
          /\ path.reps[p] = After(r, f)
          /\ path.cost[p] = path.cost[o] +
               (IF f.dist = 0 THEN prices.literal
                ELSE IF f.len = 1 THEN prices.shortRep
                ELSE IF RepIndex(r, f.dist) # {} THEN RepPrice(i, f.len)
                ELSE MatchPrice(f.dist, f.len))

\* The tokens give the block, one after the other, and each is of a kind the
\* codec has: one byte only at the last distance, two only at a recent one.
ParseCodable ==
  tokens.status = "done" =>
    LET end[k \in 0..Len(tokens.row)] ==
          IF k = 0 THEN [pos |-> 0, reps |-> RepsAtStart, ok |-> TRUE]
          ELSE LET s == end[k - 1]
                   t == tokens.row[k]
                   known == RepIndex(s.reps, t.dist)
               IN  [pos |-> s.pos + t.len, reps |-> After(s.reps, t),
                    ok |-> /\ s.ok /\ t.len <= MaxMatch
                           /\ IF t.dist = 0 THEN t.len = 1
                              ELSE /\ t.dist <= s.pos /\ Repeats(s.pos, t.dist, t.len)
                                   /\ t.len = 1 => t.dist = s.reps[1]
                                   /\ t.len = 2 => known # {}]
    IN  end[Len(tokens.row)].pos = N /\ end[Len(tokens.row)].ok
=============================================================================
