----------------------------- MODULE Lz77Proofs -----------------------------
(***************************************************************************)
(* What the encoder emits stands for the block, and the decoder gives the  *)
(* block back, for every alphabet, hash function, window, chain length and *)
(* filter.  For that nothing is assumed about what the chains hold: a      *)
(* candidate is compared with the data before it becomes a match.  The     *)
(* second part is about the chains: they join positions of one hash, and   *)
(* the third about what a second search finds along them.                  *)
(***************************************************************************)
EXTENDS Lz77, TLAPS

\* What the constants are.
LEMMA Constants ==
  /\ MaxLen \in Nat /\ Window \in Nat /\ Window >= 4 /\ MinMatch = 3
  /\ MaxMatch \in Nat /\ MaxMatch >= 3 /\ MaxChain \in Nat \ {0}
  /\ Hash \in [Byte \X Byte \X Byte -> Hashes]
BY Lz77Assumption DEF Lz77Assumption, MinMatch

\* There is a first place of the greatest length, where lengths are bounded.
LEMMA FirstLongestIsIn ==
  ASSUME NEW length, DOMAIN length \subseteq Nat, DOMAIN length # {},
         NEW bound \in Nat, \A k \in DOMAIN length : length[k] \in 0..bound
  PROVE  /\ FirstLongest(length) \in DOMAIN length
         /\ \A j \in DOMAIN length :
              length[j] < length[FirstLongest(length)]
              \/ (length[j] = length[FirstLongest(length)] /\ FirstLongest(length) <= j)
<1> DEFINE K     == DOMAIN length
           slack == {bound - length[k] : k \in K}
           best  == bound - Least(slack)
           ties  == {k \in K : length[k] = best}
<1>1. slack \subseteq Nat /\ slack # {}
  OBVIOUS
<1>2. Least(slack) \in slack /\ \A y \in slack : Least(slack) <= y
  BY <1>1, LeastIsLeast
<1> HIDE DEF slack
<1>3. \A k \in K : length[k] <= best
  <2> SUFFICES ASSUME NEW k \in K PROVE length[k] <= best
    OBVIOUS
  <2>1. bound - length[k] \in slack
    BY DEF slack
  <2>2. Least(slack) \in Nat /\ Least(slack) <= bound - length[k]
    BY <2>1, <1>1, <1>2
  <2>3. length[k] \in Nat
    OBVIOUS
  <2> HIDE DEF K
  <2> QED
    BY <2>2, <2>3
<1>4. ties \subseteq Nat /\ ties # {}
  <2>1. PICK k \in K : Least(slack) = bound - length[k]
    BY <1>2 DEF slack
  <2> QED
    BY <2>1
<1>5. Least(ties) \in ties /\ \A y \in ties : Least(ties) <= y
  BY <1>4, LeastIsLeast
<1> DEFINE k == Least(ties)
<1>6. k \in K /\ length[k] = best /\ \A j \in K : length[j] = best => k <= j
  BY <1>5
<1> HIDE DEF k, ties
<1>7. \A j \in K : length[j] < length[k] \/ (length[j] = length[k] /\ k <= j)
  <2> SUFFICES ASSUME NEW j \in K
               PROVE  length[j] < length[k] \/ (length[j] = length[k] /\ k <= j)
    OBVIOUS
  <2>1. Least(slack) \in Nat
    BY <1>1, <1>2
  <2>2. length[j] \in Nat /\ length[j] <= best
    BY <1>3
  <2>3. best \in Int
    BY <2>1
  <2> HIDE DEF best
  <2> QED
    BY <2>2, <2>3, <1>6
<1> QED
  BY <1>6, <1>7 DEF FirstLongest

\* A block, and a length that matches may have at each of its positions.
Block == N \in Nat /\ data \in [1..N -> Byte]

\* Common says how far two places agree.
LEMMA CommonAgrees ==
  ASSUME Block, NEW p \in 0..N, NEW q \in 0..p-1
  PROVE  /\ Common(q, p) \in 0..LongestAt(p)
         /\ \A l \in 0 .. Common(q, p) - 1 : At(q + l) = At(p + l)
<1> DEFINE differ == {l \in 0 .. LongestAt(p) - 1 : At(q + l) # At(p + l)}
<1>1. LongestAt(p) \in Nat
  BY Constants DEF LongestAt, Block
<1>2. CASE differ = {}
  <2>1. Common(q, p) = LongestAt(p)
    BY <1>2 DEF Common
  <2> QED
    BY <1>1, <1>2, <2>1
<1>3. CASE differ # {}
  <2>1. Common(q, p) = Least(differ)
    BY <1>3 DEF Common
  <2>2. differ \subseteq Nat
    BY <1>1
  <2>3. Least(differ) \in differ /\ \A y \in differ : Least(differ) <= y
    BY <2>2, <1>3, LeastIsLeast
  <2> DEFINE m == Least(differ)
  <2>4. m \in 0 .. LongestAt(p) - 1
    BY <2>3
  <2>5. \A l \in 0 .. m - 1 : l \in 0 .. LongestAt(p) - 1 /\ l \notin differ
    BY <2>3, <2>4, <1>1
  <2> HIDE DEF m
  <2> QED
    BY <2>1, <2>4, <2>5, <1>1 DEF m
<1> QED
  BY <1>2, <1>3

\* A match at p: within the window and the block, long enough and true.
Agrees(m, p) ==
  /\ m.offset \in 1..p /\ m.offset <= Window
  /\ m.length \in MinMatch..MaxMatch /\ p + m.length <= N
  /\ \A l \in 0 .. m.length - 1 : At(p - m.offset + l) = At(p + l)
Sound(m, p) == m = NoMatch \/ Agrees(m, p)

\* No match has no length.
LEMMA NoMatchEmpty == NoMatch.length = 0 /\ NoMatch.offset = 0
BY DEF NoMatch

\* Whatever a candidate was found by, its common length makes it a match.
LEMMA CandidateAgrees ==
  ASSUME Block, NEW p \in 0..N, NEW q \in 0..p-1, p - q <= Window,
         Common(q, p) >= MinMatch, NEW m, m.offset = p - q, m.length = Common(q, p)
  PROVE  Agrees(m, p)
<1>1. Common(q, p) \in 0..LongestAt(p) /\ \A l \in 0 .. Common(q, p) - 1 : At(q + l) = At(p + l)
  BY CommonAgrees
<1>2. LongestAt(p) \in Nat /\ LongestAt(p) <= MaxMatch /\ p + LongestAt(p) <= N
  BY Constants DEF LongestAt, Block
<1>3. p - m.offset = q
  OBVIOUS
<1>4. Common(q, p) \in MinMatch..MaxMatch /\ p + Common(q, p) <= N
  BY <1>1, <1>2, Constants DEF Block
<1>5. \A l \in 0 .. m.length - 1 : At(p - m.offset + l) = At(p + l)
  BY <1>1, <1>3
<1> QED
  BY <1>4, <1>5 DEF Agrees

\* A search through the chains, whatever they hold, finds a match or none.
LEMMA HashMatchSound ==
  ASSUME Block, NEW c, NEW p \in 0..N
  PROVE  Sound(HashMatch(c, p), p)
<1> DEFINE w        == Walk(c, p)
           found    == {k \in 0..MaxChain-1 :
                         /\ w[k] \in 0..p-1 /\ Common(w[k], p) >= MinMatch
                         /\ \A j \in 0..k : ~Beyond(w[j], p)}
           k        == FirstLongest([j \in found |-> Common(w[j], p)])
           m        == [offset |-> p - w[k], length |-> Common(w[k], p), rep |-> FALSE]
<1>1. HashMatch(c, p) = NoMatch \/ (found # {} /\ HashMatch(c, p) = m)
  BY Zenon DEF HashMatch
<1> SUFFICES ASSUME found # {} PROVE Agrees(m, p)
  BY <1>1 DEF Sound
<1>2. k \in found
  <2> DEFINE f == [j \in found |-> Common(w[j], p)]
  <2>1. LongestAt(p) \in Nat
    BY Constants DEF LongestAt, Block
  <2>2. \A j \in found : Common(w[j], p) \in 0..LongestAt(p)
    BY CommonAgrees
  <2>3. DOMAIN f = found /\ found \subseteq Nat /\ \A j \in DOMAIN f : f[j] \in 0..LongestAt(p)
    BY <2>2, Constants
  <2> HIDE DEF found, f
  <2>4. FirstLongest(f) \in DOMAIN f
    BY <2>1, <2>3, FirstLongestIsIn
  <2> QED
    BY <2>3, <2>4 DEF f
<1> HIDE DEF k, w
<1>3. w[k] \in 0..p-1 /\ Common(w[k], p) >= MinMatch /\ ~Beyond(w[k], p)
  BY <1>2, Constants
<1>4. p - w[k] <= Window
  BY <1>3, Constants DEF Beyond
<1> QED
  BY <1>3, <1>4, CandidateAgrees

\* So does a look at the recent offsets.
LEMMA RepMatchSound ==
  ASSUME Block, recent \in [1..4 -> 1..Window], NEW p \in 0..N
  PROVE  Sound(RepMatch(p), p)
<1> DEFINE found == {i \in 1..4 : recent[i] \in 1..p /\ Common(p - recent[i], p) >= MinMatch}
           k     == FirstLongest([j \in found |-> Common(p - recent[j], p)])
           m     == [offset |-> recent[k], length |-> Common(p - recent[k], p), rep |-> TRUE]
<1>1. RepMatch(p) = NoMatch \/ (found # {} /\ RepMatch(p) = m)
  BY Zenon DEF RepMatch
<1> SUFFICES ASSUME found # {} PROVE Agrees(m, p)
  BY <1>1 DEF Sound
<1>2. k \in found
  <2> DEFINE f == [j \in found |-> Common(p - recent[j], p)]
  <2>1. LongestAt(p) \in Nat
    BY Constants DEF LongestAt, Block
  <2>2. \A j \in found : p - recent[j] \in 0..p-1
    BY DEF Block
  <2>3. \A j \in found : Common(p - recent[j], p) \in 0..LongestAt(p)
    BY <2>2, CommonAgrees
  <2>4. DOMAIN f = found /\ found \subseteq Nat /\ \A j \in DOMAIN f : f[j] \in 0..LongestAt(p)
    BY <2>3
  <2> HIDE DEF found, f
  <2>5. FirstLongest(f) \in DOMAIN f
    BY <2>1, <2>4, FirstLongestIsIn
  <2> QED
    BY <2>4, <2>5 DEF f
<1> HIDE DEF k
<1>3. recent[k] \in 1..p /\ recent[k] <= Window /\ Common(p - recent[k], p) >= MinMatch
  BY <1>2, Constants
<1>4. p - recent[k] \in 0..p-1 /\ p - (p - recent[k]) = recent[k]
  BY <1>3 DEF Block
<1> QED
  BY <1>3, <1>4, CandidateAgrees

\* And so does a position, which takes one of the two.
LEMMA MatchAtSound ==
  ASSUME Block, recent \in [1..4 -> 1..Window], NEW c, NEW p \in 0..N
  PROVE  Sound(MatchAt(c, p), p)
<1>1. MatchAt(c, p) \in {RepMatch(p), HashMatch(c, p), NoMatch}
  BY Zenon DEF MatchAt, Merge
<1> QED
  BY <1>1, HashMatchSound, RepMatchSound DEF Sound

---------------------------------------------------------------------------
(* The inductive invariant.                                                *)

\* A token stands for the bytes at p; token k for those at its place.
Stands(token, p) ==
  IF IsMatch(token) THEN Agrees(token, p)
  ELSE token.length = 1 /\ p \in 0..N-1 /\ token.byte = At(p)
TokenTrue(k) == Stands(tokens[k], starts[k])

\* The encoder: its tokens lie end to end and are true, its offsets usable.
EncoderInv ==
  /\ TokensTile
  /\ \A k \in 1..Len(tokens) : TokenTrue(k)
  /\ recent \in [1..4 -> 1..Window] /\ RecentDistinct

\* The decoder: idle until all is encoded, then where its output ends.
DecoderInv ==
  /\ ~Encoded => next = 1 /\ copied = 0 /\ output = <<>> /\ status = "running"
  /\ copied > 0 => next <= Len(tokens) /\ IsMatch(tokens[next]) /\ copied < tokens[next].length
  /\ Len(output) = End(next - 1) + copied
  /\ \A i \in 1..Len(output) : output[i] = data[i]
  /\ status \in {"running", "ok"}
  /\ status = "ok" => Encoded /\ next = Len(tokens) + 1

IInv == TypeOK /\ EncoderInv /\ DecoderInv

Tokens == [offset : Nat, length : Nat, byte : Byte \cup {Nil}]
ChainOK(c) ==
  /\ c.head \in [Hashes -> 0..N \cup {Nil}]
  /\ c.prev \in [0..Window-1 -> 0..N \cup {Nil}]

\* The block is one, in every state of the invariant.
LEMMA IsBlock ==
  ASSUME data \in Seq(Byte)
  PROVE  Block
BY DEF Block, N

\* Inserting a position keeps chains chains.
LEMMA InsertedOK ==
  ASSUME Block, NEW c, ChainOK(c), NEW p \in 0..N, CanHash(p)
  PROVE  ChainOK(Inserted(c, p))
<1>1. At(p) \in Byte /\ At(p + 1) \in Byte /\ At(p + 2) \in Byte
  BY DEF At, CanHash, Block
<1>2. HashAt(p) \in Hashes
  BY <1>1 DEF HashAt, Hashes
<1>3. c.head[HashAt(p)] \in 0..N \cup {Nil}
  BY <1>2 DEF ChainOK
<1> QED
  BY <1>2, <1>3 DEF ChainOK, Inserted

\* Using an offset keeps the recent offsets in range and distinct.
LEMMA UsedOK ==
  ASSUME recent \in [1..4 -> 1..Window], RecentDistinct, NEW o \in 1..Window
  PROVE  /\ Used(o) \in [1..4 -> 1..Window]
         /\ \A i, j \in 1..4 : Used(o)[i] = Used(o)[j] => i = j
<1>1. CASE \E i \in 1..4 : recent[i] = o
  <2> DEFINE at == {j \in 1..4 : recent[j] = o}
             i  == Least(at)
  <2>1. at \subseteq Nat /\ at # {}
    BY <1>1
  <2>2. i \in at
    BY <2>1, LeastIsLeast
  <2>3. Used(o) = [j \in 1..4 |-> IF j = 1 THEN o ELSE IF j <= i THEN recent[j - 1] ELSE recent[j]]
    BY <1>1, Zenon DEF Used
  <2> HIDE DEF i
  <2>4. i \in 1..4 /\ recent[i] = o
    BY <2>2
  <2> QED
    BY <2>3, <2>4 DEF RecentDistinct
<1>2. CASE ~\E i \in 1..4 : recent[i] = o
  <2>1. Used(o) = [j \in 1..4 |-> IF j = 1 THEN o ELSE recent[j - 1]]
    BY <1>2, Zenon DEF Used
  <2> QED
    BY <1>2, <2>1 DEF RecentDistinct
<1> QED
  BY <1>1, <1>2

\* What a sequence of S holds.
LEMMA Elements ==
  ASSUME NEW S, NEW a \in Seq(S)
  PROVE  Len(a) \in Nat /\ \A i \in 1..Len(a) : a[i] \in S
OBVIOUS

\* Sequences that agree at every place are one.
LEMMA SameElements ==
  ASSUME NEW S, NEW a \in Seq(S), NEW b \in Seq(S), Len(a) = Len(b),
         \A i \in 1..Len(a) : a[i] = b[i]
  PROVE  a = b
OBVIOUS

\* All that was emitted lies within the block.
LEMMA EndInBlock ==
  ASSUME IInv, NEW k \in 0..Len(tokens)
  PROVE  End(k) \in 0..N
<1> Block
  BY IsBlock DEF IInv, TypeOK
<1>1. CASE k = 0
  BY <1>1 DEF End, Block
<1>2. CASE k # 0
  <2>a. tokens \in Seq(Tokens)
    BY DEF IInv, TypeOK, Tokens
  <2>b. Len(tokens) \in Nat
    BY <2>a
  <2>c. k \in 1..Len(tokens)
    BY <2>b, <1>2
  <2>d. TokenTrue(k)
    BY <2>c DEF IInv, EncoderInv
  <2>1. TokenTrue(k) /\ End(k) = starts[k] + tokens[k].length
    BY <2>d, <1>2 DEF End
  <2>e. starts \in Seq(0..N) /\ Len(starts) = Len(tokens)
    <3>1. starts \in Seq(0..N)
      BY DEF IInv, TypeOK
    <3>2. Len(starts) = Len(tokens)
      BY DEF IInv, EncoderInv, TokensTile
    <3> QED
      BY <3>1, <3>2
  <2>f. \A i \in 1..Len(starts) : starts[i] \in 0..N
    BY <2>e, Elements
  <2>2. starts[k] \in 0..N
    BY <2>c, <2>e, <2>f, Zenon
  <2> QED
    BY <2>1, <2>2, Constants DEF TokenTrue, Stands, Agrees, Block
<1> QED
  BY <1>1, <1>2

\* The encoder starts with no token and the decoder with no output.
LEMMA InitInv == Init => IInv
<1> SUFFICES ASSUME Init PROVE IInv
  OBVIOUS
<1>0. data \in Seq(Byte) /\ Block
  <2>1. PICK n \in 0..MaxLen : data \in [1..n -> Byte]
    BY DEF Init
  <2>2. data \in Seq(Byte)
    BY <2>1, Constants
  <2> QED
    BY <2>2, IsBlock
<1>1. TypeOK
  BY <1>0, Constants DEF Init, TypeOK, Block, Nil
<1>2. EncoderInv
  <2>1. TokensTile
    BY DEF Init, TokensTile, End
  <2>2. \A k \in 1..Len(tokens) : TokenTrue(k)
    BY DEF Init
  <2>3. recent \in [1..4 -> 1..Window] /\ RecentDistinct
    BY Constants DEF Init, RecentDistinct
  <2> QED
    BY <2>1, <2>2, <2>3 DEF EncoderInv
<1>3. DecoderInv
  BY DEF Init, DecoderInv, End
<1> QED
  BY <1>1, <1>2, <1>3 DEF IInv

---------------------------------------------------------------------------
(* The encoder's steps.                                                    *)

\* A state of the invariant in which the encoder searches: what is so there.
LEMMA WhileSearching ==
  ASSUME IInv, Searching
  PROVE  /\ Block /\ pos \in 0..N-1 /\ covered = pos
         /\ recent \in [1..4 -> 1..Window] /\ ChainOK(Chains)
         /\ next = 1 /\ copied = 0 /\ output = <<>> /\ status = "running"
         /\ tokens \in Seq(Tokens) /\ starts \in Seq(0..N) /\ Len(starts) = Len(tokens)
<1>1. Block
  BY IsBlock DEF IInv, TypeOK
<1>2. pos \in 0..N-1 /\ covered = pos /\ ~Encoded
  <2>1. N \in Nat /\ pos \in 0..N
    BY <1>1 DEF IInv, TypeOK, Block
  <2> QED
    BY <2>1 DEF Searching, Encoded
<1>3. ChainOK(Chains)
  BY DEF IInv, TypeOK, ChainOK, Chains
<1>4. recent \in [1..4 -> 1..Window] /\ Len(starts) = Len(tokens)
  BY DEF IInv, EncoderInv, TokensTile
<1>5. tokens \in Seq(Tokens) /\ starts \in Seq(0..N)
  BY DEF IInv, TypeOK, Tokens
<1> QED
  BY <1>1, <1>2, <1>3, <1>4, <1>5 DEF IInv, DecoderInv

\* An idle decoder has not moved when the encoder emitted.
LEMMA DecoderIdles ==
  ASSUME next = 1, copied = 0, output = <<>>, status = "running", UNCHANGED decVars
  PROVE  DecoderInv'
BY DEF DecoderInv, decVars, End

\* Tokens t, for the places s, follow those there are, up to the next pos.
Continues(t, s) ==
  /\ t \in Seq(Tokens) /\ s \in Seq(0..N) /\ Len(t) = Len(s) /\ Len(t) >= 1
  /\ tokens' = tokens \o t /\ starts' = starts \o s
  /\ s[1] = pos /\ \A i \in 2..Len(t) : s[i] = s[i - 1] + t[i - 1].length
  /\ pos' = s[Len(t)] + t[Len(t)].length
  /\ \A i \in 1..Len(t) : Stands(t[i], s[i])

\* A sequence behind another.
LEMMA Concatenated ==
  ASSUME NEW S, NEW a \in Seq(S), NEW b \in Seq(S)
  PROVE  /\ Len(a) \in Nat /\ Len(b) \in Nat /\ Len(a \o b) = Len(a) + Len(b)
         /\ \A k \in 1..Len(a) : (a \o b)[k] = a[k]
         /\ \A k \in Len(a) + 1 .. Len(a) + Len(b) : (a \o b)[k] = b[k - Len(a)]
OBVIOUS

\* Tokens that go on where the others end, and are true, keep the tiling.
LEMMA TilingGrows ==
  ASSUME IInv, Block, data' = data, tokens \in Seq(Tokens), starts \in Seq(0..N),
         NEW t, NEW s, Continues(t, s)
  PROVE  TokensTile' /\ \A k \in 1..Len(tokens') : TokenTrue(k)'
<1> DEFINE m == Len(tokens)
           n == Len(t)
<1>0. /\ t \in Seq(Tokens) /\ s \in Seq(0..N) /\ Len(s) = n
      /\ tokens' = tokens \o t /\ starts' = starts \o s
  BY Zenon DEF Continues
<1>1. m \in Nat /\ n \in Nat /\ Len(starts) = m /\ Len(tokens') = m + n /\ Len(starts') = m + n
  <2>1. Len(starts) = m
    BY DEF IInv, EncoderInv, TokensTile
  <2> QED
    BY <2>1, <1>0, Concatenated
<1>2. \A k \in 1..m : tokens'[k] = tokens[k] /\ starts'[k] = starts[k]
  BY <1>0, <1>1, Concatenated
<1>3. \A k \in m+1..m+n : tokens'[k] = t[k - m] /\ starts'[k] = s[k - m]
  BY <1>0, <1>1, Concatenated
<1>a. n >= 1 /\ s[1] = pos /\ \A i \in 2..n : s[i] = s[i - 1] + t[i - 1].length
  BY Zenon DEF Continues
<1>b. pos' = s[n] + t[n].length /\ \A i \in 1..n : Stands(t[i], s[i])
  BY Zenon DEF Continues
<1>4. \A k \in 1..m : TokenTrue(k) /\ starts[k] = End(k - 1)
  BY DEF IInv, EncoderInv, TokensTile
<1>5. End(m) = pos
  BY DEF IInv, EncoderInv, TokensTile
<1> HIDE DEF m, n
<1>6. \A k \in 0..m : End(k)' = End(k)
  BY <1>1, <1>2 DEF End
<1>7. \A k \in 1..m+n : TokenTrue(k)'
  <2> SUFFICES ASSUME NEW k \in 1..m+n PROVE TokenTrue(k)'
    OBVIOUS
  <2>1. CASE k \in 1..m
    <3>1. tokens'[k] = tokens[k] /\ starts'[k] = starts[k] /\ TokenTrue(k)
      BY <2>1, <1>2, <1>4
    <3>2. N' = N
      BY DEF N
    <3> QED
      BY <3>1, <3>2 DEF TokenTrue, Stands, Agrees, IsMatch, At
  <2>2. CASE k \in m+1..m+n
    <3>1. tokens'[k] = t[k - m] /\ starts'[k] = s[k - m] /\ k - m \in 1..n
      BY <2>2, <1>1, <1>3
    <3>2. N' = N
      BY DEF N
    <3>3. Stands(t[k - m], s[k - m])
      BY <3>1, <1>b
    <3> QED
      BY <3>1, <3>2, <3>3 DEF TokenTrue, Stands, Agrees, IsMatch, At
  <2> QED
    BY <2>1, <2>2, <1>1
<1>8. \A k \in 1..m+n : starts'[k] = End(k - 1)'
  <2> SUFFICES ASSUME NEW k \in 1..m+n PROVE starts'[k] = End(k - 1)'
    OBVIOUS
  <2>1. CASE k \in 1..m
    BY <2>1, <1>1, <1>2, <1>4, <1>6
  <2>2. CASE k = m + 1
    BY <2>2, <1>1, <1>3, <1>5, <1>6, <1>a
  <2>3. CASE k \in m+2..m+n
    <3>1. k - 1 \in m+1..m+n /\ k \in m+1..m+n /\ k - m \in 2..n /\ k - 1 # 0
      BY <2>3, <1>1
    <3>2. starts'[k] = s[k - m] /\ starts'[k - 1] = s[k - 1 - m] /\ tokens'[k - 1] = t[k - 1 - m]
      BY <3>1, <1>3
    <3>3. s[k - m] = s[k - m - 1] + t[k - m - 1].length
      BY <3>1, <1>a
    <3>4. k - 1 - m = k - m - 1
      BY <1>1
    <3> QED
      BY <3>1, <3>2, <3>3, <3>4 DEF End
  <2> QED
    BY <2>1, <2>2, <2>3, <1>1
<1>9. End(Len(tokens))' = pos'
  <2>1. PICK k \in m+1..m+n : k = m + n
    BY <1>1, <1>a
  <2>2. starts'[k] = s[k - m] /\ tokens'[k] = t[k - m] /\ k - m = n
    BY <2>1, <1>1, <1>3
  <2>3. k # 0 /\ k = Len(tokens')
    BY <2>1, <1>1
  <2> QED
    BY <2>2, <2>3, <1>b DEF End
<1>c. \A k \in 1..Len(tokens') : starts'[k] = End(k - 1)'
  BY <1>1, <1>8
<1>e. TokensTile'
  BY <1>1, <1>c, <1>9, Zenon DEF TokensTile
<1> QED
  BY <1>1, <1>7, <1>e, Zenon

\* What every step that emits has in common.
LEMMA EmittingKeepsInv ==
  ASSUME IInv, Searching, data' = data, UNCHANGED decVars, NEW t, NEW s, Continues(t, s),
         pos' \in 0..N, covered' \in 0..pos',
         ChainOK([head |-> head', prev |-> prev']),
         recent' \in [1..4 -> 1..Window], RecentDistinct', promised' \in 0..MaxMatch
  PROVE  IInv'
<1>1. /\ Block /\ next = 1 /\ copied = 0 /\ output = <<>> /\ status = "running"
      /\ tokens \in Seq(Tokens) /\ starts \in Seq(0..N)
  BY WhileSearching
<1>2. TokensTile' /\ \A k \in 1..Len(tokens') : TokenTrue(k)'
  BY <1>1, TilingGrows
<1>3. EncoderInv'
  BY <1>2, Zenon DEF EncoderInv
<1>4. DecoderInv'
  BY <1>1, DecoderIdles
<1>5. N' = N
  BY DEF N
<1>6. tokens' \in Seq(Tokens) /\ starts' \in Seq(0..N)
  <2>1. /\ t \in Seq(Tokens) /\ s \in Seq(0..N)
        /\ tokens' = tokens \o t /\ starts' = starts \o s
    BY Zenon DEF Continues
  <2> QED
    BY <2>1, <1>1
<1>7. head' \in [Hashes -> 0..N \cup {Nil}] /\ prev' \in [0..Window-1 -> 0..N \cup {Nil}]
  BY DEF ChainOK
<1>8. recent' \in [1..4 -> Nat]
  BY Constants
<1>9. next' \in 1..Len(tokens') + 1 /\ copied' \in 0..N
  <2>1. Len(tokens') \in Nat
    BY <1>6, Elements
  <2> QED
    BY <1>1, <2>1 DEF decVars, Block
<1>10. output' \in Seq(Byte) /\ status' \in {"running", "ok", "too large", "invalid match"}
  BY <1>1 DEF decVars
<1>11. data' \in Seq(Byte)
  BY DEF IInv, TypeOK
<1>12. TypeOK'
  BY <1>5, <1>6, <1>7, <1>8, <1>9, <1>10, <1>11, Zenon DEF TypeOK, Tokens
<1> QED
  BY <1>3, <1>4, <1>12 DEF IInv

\* Literals stand for the bytes from pos on.
LEMMA LiteralsContinue ==
  ASSUME IInv, Searching, NEW k \in 1..N-pos, EmitLiterals(k)
  PROVE  /\ Continues([i \in 1..k |-> Literal(At(pos + i - 1))], [i \in 1..k |-> pos + i - 1])
         /\ pos' = pos + k /\ covered' = pos + k
<1> DEFINE t == [i \in 1..k |-> Literal(At(pos + i - 1))]
           s == [i \in 1..k |-> pos + i - 1]
<1>1. Block /\ pos \in 0..N-1 /\ N \in Nat
  BY WhileSearching DEF Block
<1>2. \A i \in 1..k : pos + i - 1 \in 0..N-1
  BY <1>1
<1>3. \A i \in 1..k : At(pos + i - 1) \in Byte
  <2>1. \A i \in 1..k : pos + i - 1 + 1 \in 1..N
    BY <1>1
  <2> QED
    BY <2>1, <1>1 DEF At, Block
<1>4. \A i \in 1..k : Literal(At(pos + i - 1)) \in Tokens
  BY <1>3 DEF Literal, Tokens
<1>5. t \in Seq(Tokens) /\ s \in Seq(0..N)
  BY <1>1, <1>2, <1>4
<1>6. Len(t) = k /\ Len(s) = k
  BY <1>1
<1>7. \A i \in 1..k : t[i].length = 1 /\ t[i].offset = 0 /\ t[i].byte = At(s[i])
  BY DEF Literal
<1>8. \A i \in 1..k : s[i] = pos + i - 1 /\ s[i] \in 0..N-1
  BY <1>2
<1>9. \A i \in 1..k : Stands(t[i], s[i])
  BY <1>7, <1>8 DEF Stands, IsMatch
<1> HIDE DEF t, s
<1>10. s[1] = pos /\ \A i \in 2..k : s[i] = s[i - 1] + t[i - 1].length
  <2>1. s[1] = pos
    BY <1>1, <1>8
  <2>2. ASSUME NEW i \in 2..k PROVE s[i] = s[i - 1] + t[i - 1].length
    <3>1. i \in 1..k /\ i - 1 \in 1..k
      BY <1>1
    <3>2. s[i] = pos + i - 1 /\ s[i - 1] = pos + (i - 1) - 1 /\ t[i - 1].length = 1
      BY <3>1, <1>7, <1>8
    <3> QED
      BY <3>2, <1>1
  <2> QED
    BY <2>1, <2>2
<1>11. pos' = pos + k /\ covered' = pos + k
  BY DEF EmitLiterals
<1>12. pos' = s[k] + t[k].length
  <2>1. k \in 1..k
    BY <1>1
  <2>2. s[k] = pos + k - 1 /\ t[k].length = 1
    BY <2>1, <1>7, <1>8
  <2> QED
    BY <2>2, <1>11, <1>1
<1>13. tokens' = tokens \o t /\ starts' = starts \o s
  BY Zenon DEF EmitLiterals, t, s
<1>14. Len(t) >= 1
  BY <1>6
<1>15. Continues(t, s)
  BY <1>5, <1>6, <1>9, <1>10, <1>12, <1>13, <1>14, Zenon DEF Continues
<1> QED
  BY <1>11, <1>15 DEF t, s

\* One more is a sequence of one behind.
LEMMA Appended ==
  ASSUME NEW S, NEW q \in Seq(S), NEW e \in S
  PROVE  Append(q, e) = q \o <<e>>
OBVIOUS

\* A match that is sound stands for the bytes at pos.
LEMMA MatchContinues ==
  ASSUME IInv, Searching, NEW m, Agrees(m, pos),
         tokens' = Append(tokens, Match(m)), starts' = Append(starts, pos),
         pos' = pos + m.length
  PROVE  Continues(<<Match(m)>>, <<pos>>)
<1>1. Block /\ pos \in 0..N-1 /\ N \in Nat /\ tokens \in Seq(Tokens) /\ starts \in Seq(0..N)
  BY WhileSearching DEF Block
<1>2. m.offset \in Nat \ {0} /\ m.length \in Nat
  BY <1>1, Constants, SMTT(30) DEF Agrees
<1>3. Match(m) \in Tokens
  BY <1>2 DEF Match, Tokens
<1>4. Match(m).offset = m.offset /\ Match(m).length = m.length
  BY DEF Match
<1>5. Stands(Match(m), pos)
  BY <1>2, <1>4 DEF Stands, IsMatch, Agrees
<1> DEFINE a == Match(m)
<1> HIDE DEF a
<1>6. tokens' = tokens \o <<a>> /\ starts' = starts \o <<pos>>
  <2>1. tokens' = Append(tokens, a) /\ a \in Tokens
    BY <1>3 DEF a
  <2> QED
    BY <2>1, <1>1, Appended
<1>7. <<a>> \in Seq(Tokens) /\ <<pos>> \in Seq(0..N) /\ Len(<<a>>) = 1 /\ Len(<<pos>>) = 1
      /\ <<a>>[1] = a /\ <<pos>>[1] = pos
  BY <1>1, <1>3 DEF a
<1>8. a.length = m.length
  BY <1>4 DEF a
<1>9. \A i \in 1..1 : Stands(<<a>>[i], <<pos>>[i])
  BY <1>5, <1>7 DEF a
<1>10. \A i \in 2..1 : <<pos>>[i] = <<pos>>[i - 1] + <<a>>[i - 1].length
  OBVIOUS
<1>11. pos' = <<pos>>[1] + <<a>>[1].length
  BY <1>7, <1>8
<1>12. Continues(<<a>>, <<pos>>)
  <2>1. Len(<<a>>) >= 1
    BY <1>7
  <2> QED
    BY <1>6, <1>7, <1>9, <1>10, <1>11, <2>1, Zenon DEF Continues
<1> QED
  BY <1>12 DEF a

\* The last bytes, too few to hash, keep the invariant.
LEMMA TailKeepsInv == IInv /\ EncodeTail => IInv'
<1> SUFFICES ASSUME IInv, EncodeTail PROVE IInv'
  OBVIOUS
<1>1. Searching /\ EmitLiterals(N - pos) /\ data' = data /\ UNCHANGED <<head, prev, recent, decVars>>
      /\ promised' = 0
  BY DEF EncodeTail
<1>2. /\ Block /\ pos \in 0..N-1 /\ N \in Nat /\ ChainOK(Chains)
      /\ recent \in [1..4 -> 1..Window]
  BY <1>1, WhileSearching DEF Block
<1>3. N - pos \in 1..N-pos
  BY <1>2
<1>4. PICK t, s : Continues(t, s) /\ pos' = pos + (N - pos) /\ covered' = pos + (N - pos)
  BY <1>1, <1>3, LiteralsContinue
<1>5. pos' \in 0..N /\ covered' \in 0..pos'
  BY <1>2, <1>4
<1>6. ChainOK([head |-> head', prev |-> prev'])
  BY <1>1, <1>2 DEF ChainOK, Chains
<1>7. recent' \in [1..4 -> 1..Window] /\ RecentDistinct' /\ promised' \in 0..MaxMatch
  BY <1>1, <1>2, Constants DEF IInv, EncoderInv, RecentDistinct
<1>8. UNCHANGED decVars
  BY <1>1
<1> QED
  BY <1>1, <1>4, <1>5, <1>6, <1>7, <1>8, EmittingKeepsInv

\* So does a literal,
LEMMA LiteralKeepsInv == IInv /\ EncodeLiteral => IInv'
<1> SUFFICES ASSUME IInv, EncodeLiteral PROVE IInv'
  OBVIOUS
<1>1. Searching /\ CanHash(pos) /\ Keep(Inserted(Chains, pos)) /\ EmitLiterals(1)
      /\ data' = data /\ recent' = recent /\ UNCHANGED decVars /\ promised' = 0
  BY DEF EncodeLiteral
<1>2. /\ Block /\ pos \in 0..N-1 /\ N \in Nat /\ ChainOK(Chains)
      /\ recent \in [1..4 -> 1..Window]
  BY <1>1, WhileSearching DEF Block
<1>3. 1 \in 1..N-pos /\ pos \in 0..N
  BY <1>2
<1>4. PICK t, s : Continues(t, s) /\ pos' = pos + 1 /\ covered' = pos + 1
  BY <1>1, <1>3, LiteralsContinue
<1>5. pos' \in 0..N /\ covered' \in 0..pos'
  BY <1>2, <1>4
<1>6. ChainOK([head |-> head', prev |-> prev'])
  <2>1. ChainOK(Inserted(Chains, pos))
    BY <1>1, <1>2, <1>3, InsertedOK
  <2> QED
    BY <2>1, <1>1 DEF Keep, ChainOK
<1>7. recent' \in [1..4 -> 1..Window] /\ RecentDistinct' /\ promised' \in 0..MaxMatch
  BY <1>1, <1>2, Constants DEF IInv, EncoderInv, RecentDistinct
<1> QED
  BY <1>1, <1>4, <1>5, <1>6, <1>7, EmittingKeepsInv

\* a match given up for a longer one, of which the literals are within the block,
LEMMA LazilyKeepsInv == IInv /\ EncodeLazily => IInv'
<1> SUFFICES ASSUME IInv, EncodeLazily PROVE IInv'
  OBVIOUS
<1> DEFINE here  == MatchAt(Chains, pos)
           c1    == Inserted(Chains, pos)
           next1 == MatchAt(c1, pos + 1)
           c2    == Inserted(c1, pos + 1)
           next2 == MatchAt(c2, pos + 2)
           skip  == IF next2.length > next1.length THEN 2 ELSE 1
<1>1. /\ Searching /\ CanHash(pos) /\ here # NoMatch /\ next1.length > here.length
      /\ Keep(c2) /\ EmitLiterals(skip)
      /\ promised' = IF skip = 2 THEN next2.length ELSE next1.length
      /\ data' = data /\ recent' = recent /\ UNCHANGED decVars
  BY Zenon DEF EncodeLazily
<1>2. /\ Block /\ pos \in 0..N-1 /\ N \in Nat /\ ChainOK(Chains)
      /\ recent \in [1..4 -> 1..Window]
  BY <1>1, WhileSearching DEF Block
<1>a. Sound(here, pos) /\ Sound(next1, pos + 1)
  <2>1. pos \in 0..N /\ pos + 1 \in 0..N
    BY <1>2
  <2> QED
    BY <2>1, <1>2, MatchAtSound
<1>b. Agrees(here, pos) /\ here.length >= 3
  BY <1>1, <1>a, Constants DEF Sound, Agrees
<1>c. Agrees(next1, pos + 1)
  BY <1>1, <1>b, <1>a, NoMatchEmpty DEF Sound, Agrees
<1> HIDE DEF next1, here
<1>d. pos + 4 <= N /\ next1.length \in 0..MaxMatch
  BY <1>c, <1>2, Constants DEF Agrees
<1>e. Sound(next2, pos + 2)
  <2>1. pos + 2 \in 0..N
    BY <1>2, <1>d
  <2> QED
    BY <2>1, <1>2, MatchAtSound
<1>f. next2.length \in 0..MaxMatch
  BY <1>e, NoMatchEmpty, Constants DEF Sound, Agrees
<1> HIDE DEF next2
<1>3. skip \in 1..N-pos /\ skip \in 1..2
  BY <1>2, <1>d
<1> HIDE DEF skip
<1>4. PICK t, s : Continues(t, s) /\ pos' = pos + skip /\ covered' = pos + skip
  BY <1>1, <1>3, LiteralsContinue
<1>5. pos' \in 0..N /\ covered' \in 0..pos'
  BY <1>2, <1>3, <1>4
<1>6. ChainOK([head |-> head', prev |-> prev'])
  <2>0. pos \in 0..N /\ pos + 1 \in 0..N /\ CanHash(pos + 1)
    BY <1>2, <1>d DEF CanHash
  <2>1. ChainOK(c1)
    BY <1>1, <1>2, <2>0, InsertedOK
  <2> HIDE DEF c1
  <2>2. ChainOK(c2)
    BY <1>2, <2>0, <2>1, InsertedOK
  <2> HIDE DEF c2
  <2> QED
    BY <2>2, <1>1 DEF Keep, ChainOK
<1>7. recent' \in [1..4 -> 1..Window] /\ RecentDistinct'
  BY <1>1, <1>2 DEF IInv, EncoderInv, RecentDistinct
<1>8. promised' \in 0..MaxMatch
  BY <1>1, <1>d, <1>f
<1> QED
  BY <1>1, <1>4, <1>5, <1>6, <1>7, <1>8, EmittingKeepsInv

\* and a match that is taken.
LEMMA MatchKeepsInv == IInv /\ EncodeMatch => IInv'
<1> SUFFICES ASSUME IInv, EncodeMatch PROVE IInv'
  OBVIOUS
<1> DEFINE here == MatchAt(Chains, pos)
           c1   == Inserted(Chains, pos)
<1>1. /\ Searching /\ CanHash(pos) /\ here # NoMatch /\ Keep(c1)
      /\ tokens' = Append(tokens, Match(here)) /\ starts' = Append(starts, pos)
      /\ recent' = Used(here.offset)
      /\ covered' = pos + 1 /\ pos' = pos + here.length /\ promised' = 0
      /\ data' = data /\ UNCHANGED decVars
  BY Zenon DEF EncodeMatch
<1>2. /\ Block /\ pos \in 0..N-1 /\ N \in Nat /\ ChainOK(Chains)
      /\ recent \in [1..4 -> 1..Window]
  BY <1>1, WhileSearching DEF Block
<1>3. pos \in 0..N
  BY <1>2
<1>4. Agrees(here, pos)
  <2>1. Sound(here, pos)
    BY <1>2, <1>3, MatchAtSound
  <2> HIDE DEF here
  <2> QED
    BY <2>1, <1>1 DEF Sound
<1> HIDE DEF here
<1>5. pos' \in 0..N /\ covered' \in 0..pos'
  <2>1. pos + here.length <= N /\ here.length \in 3..MaxMatch
    BY <1>4, Constants DEF Agrees
  <2>2. pos' = pos + here.length /\ covered' = pos + 1
    BY <1>1, Zenon
  <2>3. pos \in 0..N-1 /\ N \in Nat
    BY <1>2, Zenon
  <2> QED
    BY <2>1, <2>2, <2>3, Constants
<1>6. Continues(<<Match(here)>>, <<pos>>)
  BY <1>1, <1>4, MatchContinues
<1>7. ChainOK([head |-> head', prev |-> prev'])
  <2>1. ChainOK(c1)
    BY <1>1, <1>2, <1>3, InsertedOK
  <2> HIDE DEF c1
  <2> QED
    BY <2>1, <1>1 DEF Keep, ChainOK
<1>8. recent' \in [1..4 -> 1..Window] /\ RecentDistinct'
  <2>1. here.offset \in 1..Window
    BY <1>4, <1>2, Constants DEF Agrees
  <2>2. RecentDistinct
    BY DEF IInv, EncoderInv
  <2> QED
    BY <2>1, <2>2, <1>1, <1>2, UsedOK DEF RecentDistinct
<1>9. promised' \in 0..MaxMatch
  BY <1>1, Constants
<1> QED
  BY <1>1, <1>5, <1>6, <1>7, <1>8, <1>9, EmittingKeepsInv

\* Inserting the rest of a match emits nothing.
LEMMA CoverKeepsInv == IInv /\ Cover => IInv'
<1> SUFFICES ASSUME IInv, Cover PROVE IInv'
  OBVIOUS
<1>1. /\ covered < pos /\ covered' = covered + 1
      /\ UNCHANGED <<data, pos, recent, tokens, starts, promised, decVars>>
  BY Zenon DEF Cover
<1>2. Block /\ ChainOK(Chains) /\ N' = N /\ N \in Nat /\ pos \in 0..N /\ covered \in 0..pos
  <2>1. Block /\ pos \in 0..N /\ covered \in 0..pos
    BY IsBlock DEF IInv, TypeOK
  <2>2. ChainOK(Chains)
    BY DEF IInv, TypeOK, ChainOK, Chains
  <2>3. N' = N
    BY <1>1 DEF N
  <2> QED
    BY <2>1, <2>2, <2>3 DEF Block
<1>3. ChainOK([head |-> head', prev |-> prev'])
  <2>1. CASE CanHash(covered)
    <3>1. Keep(Inserted(Chains, covered))
      BY <2>1, Zenon DEF Cover
    <3>2. covered \in 0..N
      BY <1>2
    <3>3. ChainOK(Inserted(Chains, covered))
      BY <2>1, <3>2, <1>2, InsertedOK
    <3> QED
      BY <3>1, <3>3 DEF Keep, ChainOK
  <2>2. CASE ~CanHash(covered)
    <3>1. UNCHANGED <<head, prev>>
      BY <2>2, Zenon DEF Cover
    <3> QED
      BY <3>1, <1>2 DEF ChainOK, Chains
  <2> QED
    BY <2>1, <2>2
<1>4. TypeOK'
  <2>1. head' \in [Hashes -> 0..N \cup {Nil}] /\ prev' \in [0..Window-1 -> 0..N \cup {Nil}]
    BY <1>3 DEF ChainOK
  <2>2. pos' \in 0..N /\ covered' \in 0..pos'
    BY <1>1, <1>2
  <2>3. TypeOK
    BY DEF IInv
  <2> QED
    BY <1>1, <1>2, <2>1, <2>2, <2>3, Zenon DEF TypeOK, decVars
<1>5. EncoderInv'
  BY <1>1, <1>2 DEF IInv, EncoderInv, TokensTile, End, TokenTrue, Stands, Agrees, IsMatch, At, RecentDistinct
<1>6. DecoderInv'
  <2>1. ~Encoded
    BY <1>1, <1>2 DEF Encoded
  <2>2. next = 1 /\ copied = 0 /\ output = <<>> /\ status = "running"
    BY <2>1 DEF IInv, DecoderInv
  <2> QED
    BY <2>2, <1>1, DecoderIdles
<1> QED
  BY <1>4, <1>5, <1>6 DEF IInv

---------------------------------------------------------------------------
(* The decoder's steps.                                                    *)

\* While it decodes, the output ends inside the token it is at.
LEMMA WhileDecoding ==
  ASSUME IInv, Decoding
  PROVE  /\ Block /\ N \in Nat /\ N' = Len(data') /\ next \in 1..Len(tokens) /\ Len(tokens) \in Nat
         /\ Stands(tokens[next], starts[next]) /\ starts[next] \in 0..N
         /\ tokens[next] \in Tokens
         /\ output \in Seq(Byte) /\ Len(output) = starts[next] + copied /\ copied \in Nat
         /\ copied > 0 => IsMatch(tokens[next]) /\ copied < tokens[next].length
         /\ \A i \in 1..Len(output) : output[i] = data[i]
         /\ End(next) = starts[next] + tokens[next].length
<1>1. Block /\ N \in Nat /\ output \in Seq(Byte) /\ copied \in Nat
  <2>1. Block /\ output \in Seq(Byte) /\ copied \in 0..N
    BY IsBlock DEF IInv, TypeOK
  <2>2. N \in Nat
    BY <2>1 DEF Block
  <2> QED
    BY <2>1, <2>2
<1>2. tokens \in Seq(Tokens) /\ starts \in Seq(0..N) /\ next \in 1..Len(tokens) + 1
  BY DEF IInv, TypeOK, Tokens
<1>3. Len(tokens) \in Nat /\ \A i \in 1..Len(tokens) : tokens[i] \in Tokens
  BY <1>2, Elements
<1>4. next \in 1..Len(tokens) /\ next # 0
  BY <1>2, <1>3 DEF Decoding
<1>5. Len(starts) = Len(tokens) /\ starts[next] = End(next - 1) /\ TokenTrue(next)
  BY <1>4 DEF IInv, EncoderInv, TokensTile
<1>6. \A i \in 1..Len(starts) : starts[i] \in 0..N
  BY <1>2, Elements
<1>7. starts[next] \in 0..N
  BY <1>4, <1>5, <1>6, Zenon
<1>8. /\ Len(output) = End(next - 1) + copied
      /\ copied > 0 => IsMatch(tokens[next]) /\ copied < tokens[next].length
      /\ \A i \in 1..Len(output) : output[i] = data[i]
  BY DEF IInv, DecoderInv
<1>9. End(next) = starts[next] + tokens[next].length
  BY <1>4 DEF End
<1>10. tokens[next] \in Tokens /\ Stands(tokens[next], starts[next])
  BY <1>3, <1>4, <1>5, Zenon DEF TokenTrue
<1> QED
  BY <1>1, <1>3, <1>4, <1>5, <1>7, <1>8, <1>9, <1>10, Zenon DEF N

\* The next byte of the block keeps the output a prefix of it.
LEMMA OutputGrows ==
  ASSUME IInv, Encoded, UNCHANGED <<data, encVars>>, status = "running", status' = status,
         Len(output) < N, output' = Append(output, data[Len(output) + 1]),
         next' \in 1..Len(tokens) + 1, copied' \in 0..N,
         Len(output) + 1 = End(next' - 1) + copied',
         copied' > 0 => next' <= Len(tokens) /\ IsMatch(tokens[next']) /\ copied' < tokens[next'].length
  PROVE  IInv'
<1>1. Block /\ N \in Nat /\ output \in Seq(Byte)
  <2>1. Block
    BY IsBlock DEF IInv, TypeOK
  <2> QED
    BY <2>1 DEF IInv, TypeOK, Block
<1>2. Len(output) \in Nat /\ data[Len(output) + 1] \in Byte
  BY <1>1 DEF Block
<1>3. /\ output' \in Seq(Byte) /\ Len(output') = Len(output) + 1
      /\ \A i \in 1..Len(output') : output'[i] = data[i]
  <2>1. \A i \in 1..Len(output) : output[i] = data[i]
    BY DEF IInv, DecoderInv
  <2> QED
    BY <2>1, <1>1, <1>2
<1>4. N' = N /\ tokens' = tokens /\ starts' = starts /\ pos' = pos /\ covered' = covered
      /\ data' = data /\ status' = "running"
  BY DEF N, encVars
<1>5. TypeOK'
  <2>1. TypeOK
    BY DEF IInv
  <2> QED
    BY <1>3, <1>4, <2>1, Zenon DEF TypeOK, encVars
<1>6. EncoderInv'
  BY <1>4, ZenonT(60) DEF IInv, EncoderInv, TokensTile, End, TokenTrue, Stands, Agrees, IsMatch, At,
       RecentDistinct, encVars
<1>7. DecoderInv'
  <2>1. End(next - 1)' = End(next' - 1)
    BY <1>4 DEF End
  <2>2. Encoded'
    BY <1>4 DEF Encoded
  <2>3. (copied > 0 => next <= Len(tokens) /\ IsMatch(tokens[next]) /\ copied < tokens[next].length)'
    BY <1>4 DEF IsMatch
  <2>4. Len(output') = End(next - 1)' + copied'
    BY <1>3, <2>1
  <2>5. \A i \in 1..Len(output') : output'[i] = data'[i]
    BY <1>3, <1>4
  <2> QED
    BY <1>4, <2>2, <2>3, <2>4, <2>5 DEF DecoderInv
<1> QED
  BY <1>5, <1>6, <1>7 DEF IInv

\* A literal is the next byte of the block, and there is room for it.
LEMMA DecodeLiteralKeepsInv == IInv /\ DecodeLiteral => IInv'
<1> SUFFICES ASSUME IInv, DecodeLiteral PROVE IInv'
  OBVIOUS
<1>1. Decoding /\ ~IsMatch(tokens[next]) /\ UNCHANGED <<data, encVars, copied>>
  BY DEF DecodeLiteral, Token
<1>2. /\ Block /\ N \in Nat /\ next \in 1..Len(tokens) /\ Len(tokens) \in Nat
      /\ Stands(tokens[next], starts[next])
      /\ output \in Seq(Byte) /\ Len(output) = starts[next] + copied /\ copied \in Nat
      /\ copied > 0 => IsMatch(tokens[next])
      /\ End(next) = starts[next] + tokens[next].length
  BY <1>1, WhileDecoding
<1>3. copied = 0
  BY <1>1, <1>2
<1>4. tokens[next].length = 1 /\ starts[next] \in 0..N-1 /\ tokens[next].byte = At(starts[next])
  BY <1>1, <1>2 DEF Stands
<1>5. Len(output) = starts[next] /\ Len(output) < N
  BY <1>2, <1>3, <1>4
<1>6. ~(Len(output) >= N)
  BY <1>2, <1>5
<1>7. output' = Append(output, tokens[next].byte) /\ next' = next + 1 /\ status' = status
  BY <1>6, Zenon DEF DecodeLiteral, Token
<1>8. tokens[next].byte = data[Len(output) + 1]
  BY <1>4, <1>5 DEF At
<1>9. Len(output) + 1 = End(next' - 1) + copied'
  <2>1. next' - 1 = next
    BY <1>2, <1>7
  <2>2. End(next' - 1) = Len(output) + 1
    BY <2>1, <1>2, <1>4, <1>5
  <2> QED
    BY <2>2, <1>1, <1>2, <1>3
<1>10. next' \in 1..Len(tokens) + 1 /\ copied' \in 0..N /\ ~(copied' > 0)
  BY <1>1, <1>2, <1>3, <1>7
<1>11. Encoded /\ status = "running" /\ UNCHANGED <<data, encVars>>
  BY <1>1 DEF Decoding
<1> QED
  BY <1>5, <1>7, <1>8, <1>9, <1>10, <1>11, OutputGrows

\* A match fits and reaches back no further than the output; its next byte,
\* possibly one it has just copied, is the next of the block.
LEMMA DecodeMatchKeepsInv == IInv /\ DecodeMatch => IInv'
<1> SUFFICES ASSUME IInv, DecodeMatch PROVE IInv'
  OBVIOUS
<1> DEFINE t == tokens[next]
           p == starts[next]
           o == t.offset
           n == t.length
           L == Len(output)
<1>1. Decoding /\ IsMatch(t) /\ UNCHANGED <<data, encVars>>
  BY DEF DecodeMatch, Token
<1>2. /\ Block /\ N \in Nat /\ next \in 1..Len(tokens) /\ Len(tokens) \in Nat
      /\ Stands(t, p) /\ p \in 0..N
      /\ L = p + copied /\ copied \in Nat /\ (copied > 0 => copied < n)
      /\ \A i \in 1..L : output[i] = data[i]
      /\ End(next) = p + n
  BY <1>1, WhileDecoding
<1>3. p = End(next - 1)
  BY <1>2 DEF IInv, EncoderInv, TokensTile
<1>4. /\ o \in 1..p /\ n \in 3..MaxMatch /\ p + n <= N
      /\ \A l \in 0..n-1 : At(p - o + l) = At(p + l)
  BY <1>1, <1>2, Constants DEF Stands, Agrees
<1>a. Token.offset = o /\ Token.length = n
  BY DEF Token
<1> HIDE DEF p, o, n, L
<1>b. /\ N \in Nat /\ p \in 0..N /\ L = p + copied /\ copied \in Nat /\ (copied > 0 => copied < n)
      /\ next \in 1..Len(tokens) /\ Len(tokens) \in Nat
  BY <1>2, Zenon
<1>c. o \in 1..p /\ n \in 3..MaxMatch /\ p + n <= N
  BY <1>4, Zenon
<1>5. copied \in 0..n-1 /\ n \in Nat
  BY <1>b, <1>c, Constants
<1>6. ~(copied = 0 /\ BadMatch # "no")
  <2>1. ASSUME copied = 0 PROVE BadMatch = "no"
    <3>1. L = p
      BY <2>1, <1>b
    <3>2. ~(L + n > N) /\ ~(o > L)
      BY <3>1, <1>b, <1>c, Constants
    <3> QED
      BY <3>2, <1>a DEF BadMatch, L
  <2> QED
    BY <2>1
<1>7. /\ output' = Append(output, output[L - o + 1])
      /\ copied' = (copied + 1) % n
      /\ next' = IF copied + 1 = n THEN next + 1 ELSE next
      /\ status' = status
  BY <1>6, <1>a, Zenon DEF DecodeMatch, L
<1>8. L < N /\ L \in Nat
  BY <1>b, <1>c, <1>5
<1>9. output[L - o + 1] = data[L + 1]
  <2>1. L - o + 1 \in 1..L
    BY <1>b, <1>c
  <2>2. At(p - o + copied) = At(p + copied)
    BY <1>4, <1>5
  <2>3. p - o + copied + 1 = L - o + 1 /\ p + copied + 1 = L + 1
    BY <1>b, <1>c
  <2>4. output[L - o + 1] = data[L - o + 1]
    BY <2>1, <1>2
  <2>5. At(p - o + copied) = data[L - o + 1] /\ At(p + copied) = data[L + 1]
    BY <2>3 DEF At
  <2> QED
    BY <2>2, <2>4, <2>5
<1>10. /\ next' \in 1..Len(tokens) + 1 /\ copied' \in 0..N
       /\ L + 1 = End(next' - 1) + copied'
       /\ copied' > 0 => next' <= Len(tokens) /\ IsMatch(tokens[next']) /\ copied' < tokens[next'].length
  <2>1. CASE copied + 1 = n
    <3>1. copied' = 0
      <4>1. n \in Nat /\ n > 0
        BY <1>c, Constants
      <4>2. n % n = 0
        BY <4>1
      <4> QED
        BY <2>1, <4>2, <1>7
    <3>2. next' = next + 1 /\ next' - 1 = next
      BY <2>1, <1>b, <1>7
    <3>3. L + 1 = p + n /\ End(next) = p + n
      BY <2>1, <1>2, <1>b, <1>c
    <3> QED
      BY <3>1, <3>2, <3>3, <1>b, <1>c
  <2>2. CASE copied + 1 # n
    <3>1. copied + 1 \in 1..n-1
      BY <2>2, <1>5
    <3>2. copied' = copied + 1
      BY <3>1, <1>5, <1>7
    <3>3. next' = next
      BY <2>2, <1>7, Zenon
    <3>4. L + 1 = p + (copied + 1)
      BY <1>b
    <3>5. copied + 1 \in 0..N /\ copied + 1 < n
      BY <3>1, <1>b, <1>c
    <3>6. tokens[next'].length = n
      BY <3>3 DEF n
    <3> QED
      BY <3>2, <3>3, <3>4, <3>5, <3>6, <1>1, <1>2, <1>3
  <2> QED
    BY <2>1, <2>2
<1>11. Encoded /\ status = "running" /\ UNCHANGED <<data, encVars>>
  BY <1>1 DEF Decoding
<1> QED
  BY <1>7, <1>8, <1>9, <1>10, <1>11, OutputGrows DEF L

\* The end comes behind the last token.
LEMMA DecodeEndKeepsInv == IInv /\ DecodeEnd => IInv'
<1> SUFFICES ASSUME IInv, DecodeEnd PROVE IInv'
  OBVIOUS
<1>1. /\ Encoded /\ status = "running" /\ next > Len(tokens) /\ status' = "ok"
      /\ UNCHANGED <<data, encVars, next, copied, output>>
  BY DEF DecodeEnd
<1>2. N' = N
  BY <1>1 DEF N
<1>3. TypeOK'
  <2>1. TypeOK
    BY DEF IInv
  <2> QED
    BY <1>1, <1>2, <2>1, Zenon DEF TypeOK, encVars
<1>4. EncoderInv'
  BY <1>1, <1>2 DEF IInv, EncoderInv, TokensTile, End, TokenTrue, Stands, Agrees, IsMatch, At,
       RecentDistinct, encVars
<1>5. next = Len(tokens) + 1
  <2>1. tokens \in Seq(Tokens) /\ next \in 1..Len(tokens) + 1
    BY DEF IInv, TypeOK, Tokens
  <2>2. Len(tokens) \in Nat
    BY <2>1, Elements
  <2> QED
    BY <2>1, <2>2, <1>1
<1>6. DecoderInv'
  <2>1. Encoded'
    BY <1>1, <1>2 DEF Encoded, encVars
  <2> QED
    BY <1>1, <1>5, <2>1 DEF IInv, DecoderInv, End, IsMatch, encVars
<1> QED
  BY <1>3, <1>4, <1>6 DEF IInv

---------------------------------------------------------------------------
(* The theorems.                                                           *)

\* Every step keeps the invariant.
LEMMA NextKeepsInv == IInv /\ [Next]_vars => IInv'
<1> SUFFICES ASSUME IInv, [Next]_vars PROVE IInv'
  OBVIOUS
<1>1. CASE Encode
  BY <1>1, TailKeepsInv, LiteralKeepsInv, LazilyKeepsInv, MatchKeepsInv, CoverKeepsInv DEF Encode
<1>2. CASE Decode
  BY <1>2, DecodeLiteralKeepsInv, DecodeMatchKeepsInv, DecodeEndKeepsInv DEF Decode
<1>3. CASE UNCHANGED vars
  <2>1. /\ data' = data /\ pos' = pos /\ covered' = covered /\ head' = head /\ prev' = prev
        /\ recent' = recent /\ tokens' = tokens /\ starts' = starts /\ promised' = promised
        /\ next' = next /\ copied' = copied /\ output' = output /\ status' = status
    BY <1>3 DEF vars, encVars, decVars
  <2>2. N' = N
    BY <2>1 DEF N
  <2>3. TypeOK'
    BY <2>1, <2>2, Zenon DEF IInv, TypeOK
  <2>4. EncoderInv'
    BY <2>1, <2>2 DEF IInv, EncoderInv, TokensTile, End, TokenTrue, Stands, Agrees, IsMatch, At,
         RecentDistinct
  <2>5. DecoderInv'
    BY <2>1, <2>2 DEF IInv, DecoderInv, Encoded, End, IsMatch
  <2> QED
    BY <2>3, <2>4, <2>5 DEF IInv
<1> QED
  BY <1>1, <1>2, <1>3 DEF Next

\* The invariant holds throughout.
THEOREM Inductive == Spec => []IInv
<1>1. Init => IInv
  BY InitInv
<1>2. IInv /\ [Next]_vars => IInv'
  BY NextKeepsInv
<1> QED
  BY <1>1, <1>2, PTL DEF Spec

\* The variables keep their types.
THEOREM TypeCorrect == Spec => []TypeOK
<1>1. IInv => TypeOK
  BY DEF IInv
<1> QED
  BY <1>1, Inductive, PTL

\* Every block is given back by the decoder (encoder.rs, decoder.rs): no token
\* is refused, the output never leaves the block and at the end is all of it,
\* for every hash function, window and chain length.
THEOREM DecodesWhatWasEncoded == Spec => []RoundTrip
<1>1. IInv => RoundTrip
  <2> SUFFICES ASSUME IInv PROVE RoundTrip
    OBVIOUS
  <2>1. /\ Len(output) = End(next - 1) + copied /\ \A i \in 1..Len(output) : output[i] = data[i]
        /\ status \in {"running", "ok"}
        /\ (status = "ok" => Encoded /\ next = Len(tokens) + 1)
        /\ (copied > 0 => next <= Len(tokens) /\ IsMatch(tokens[next]) /\ copied < tokens[next].length)
        /\ (~Encoded => copied = 0 /\ next = 1)
    BY DEF IInv, DecoderInv
  <2>2. Block /\ data \in Seq(Byte) /\ output \in Seq(Byte) /\ copied \in 0..N /\ next \in 1..Len(tokens) + 1
    BY IsBlock DEF IInv, TypeOK
  <2>3. N \in Nat /\ Len(tokens) \in Nat
    <3>1. tokens \in Seq(Tokens)
      BY DEF IInv, TypeOK, Tokens
    <3> QED
      BY <3>1, <2>2, Elements DEF Block
  <2>4. CASE copied = 0
    <3>1. next - 1 \in 0..Len(tokens)
      BY <2>2, <2>3
    <3>2. End(next - 1) \in 0..N
      BY <3>1, EndInBlock
    <3>3. Len(output) <= N
      BY <3>2, <2>1, <2>3, <2>4
    <3>4. ASSUME status = "ok" PROVE output = data
      <4>1. next - 1 = Len(tokens) /\ Encoded
        BY <3>4, <2>1, <2>3
      <4>2. Len(output) = N
        BY <4>1, <2>1, <2>3, <2>4 DEF IInv, EncoderInv, TokensTile, Encoded
      <4> QED
        BY <4>2, <2>1, <2>2, SameElements DEF N
    <3> QED
      BY <3>3, <3>4, <2>1 DEF RoundTrip
  <2>5. CASE copied # 0
    <3>1. copied > 0
      BY <2>5, <2>2, <2>3
    <3>2. next \in 1..Len(tokens) /\ Encoded
      BY <3>1, <2>1, <2>2, <2>3
    <3>3. status = "running"
      BY <3>2, <2>1, <2>3
    <3>4. Decoding
      BY <3>2, <3>3, <2>3 DEF Decoding
    <3>5. /\ Len(output) = starts[next] + copied /\ copied < tokens[next].length
          /\ Stands(tokens[next], starts[next]) /\ IsMatch(tokens[next]) /\ starts[next] \in 0..N
      BY <3>1, <3>4, WhileDecoding
    <3>6. starts[next] + tokens[next].length <= N /\ tokens[next].length \in Nat
      BY <3>5, Constants DEF Stands, Agrees
    <3>7. Len(output) <= N
      BY <3>5, <3>6, <2>2, <2>3
    <3> QED
      BY <3>3, <3>7, <2>1 DEF RoundTrip
  <2> QED
    BY <2>4, <2>5
<1> QED
  BY <1>1, Inductive, PTL

\* Offsets and lengths stay in the ranges of types.rs, however slots of the
\* chains were reused and whatever the recent offsets were.
THEOREM TokensStayInRange == Spec => []TokensInRange
<1>1. IInv => TokensInRange
  <2> SUFFICES ASSUME IInv, NEW k \in 1..Len(tokens), IsMatch(tokens[k])
               PROVE  tokens[k].offset \in 1..Window /\ tokens[k].length \in MinMatch..MaxMatch
    BY DEF TokensInRange
  <2>1. Agrees(tokens[k], starts[k])
    BY DEF IInv, EncoderInv, TokenTrue, Stands
  <2> QED
    BY <2>1, Constants DEF Agrees
<1> QED
  BY <1>1, Inductive, PTL

\* The tokens cover the block from its start without gap or overlap, also where
\* a match was given up for a later one.
THEOREM TokensAlwaysTile == Spec => []TokensTile
<1>1. IInv => TokensTile
  BY DEF IInv, EncoderInv
<1> QED
  BY <1>1, Inductive, PTL

\* The recent offsets (MruCache) stay distinct.
THEOREM RecentStaysDistinct == Spec => []RecentDistinct
<1>1. IInv => RecentDistinct
  BY DEF IInv, EncoderInv
<1> QED
  BY <1>1, Inductive, PTL

---------------------------------------------------------------------------
(* What the hash chains hold: in every slot that is still its position's,  *)
(* a position of the same hash, not a later one.  A slot is reused after   *)
(* Window positions, and positions enter in order, one of them twice where *)
(* the lazy search stopped: that is all the argument rests on.             *)

\* Chains whose newest position is m (Nil while they are empty).
LinkOK(c, m) ==
  /\ m \in 0..N \cup {Nil}
  /\ \A h \in Hashes : c.head[h] # Nil => c.head[h] <= m /\ HashAt(c.head[h]) = h
  /\ m # Nil => \E h \in Hashes : c.head[h] = m
  /\ \A p \in 0..m : p > m - Window /\ c.prev[p % Window] # Nil =>
       c.prev[p % Window] <= p /\ HashAt(c.prev[p % Window]) = HashAt(p)

\* The next position to enter is the newest again, or the one after it.
Linked == \E m : LinkOK(Chains, m) /\ (CanHash(covered) => covered \in {m, m + 1})

\* Two positions less than a window apart have slots of their own.
LEMMA SlotsApart ==
  ASSUME NEW p \in Nat, NEW q \in Nat, q < p, p - q < Window
  PROVE  p % Window # q % Window
<1>1. Window \in Nat /\ Window > 0
  BY Constants
<1>2. PICK a \in Int, r \in 0..Window-1 : p = Window * a + r /\ p % Window = r
  BY <1>1
<1>3. PICK b \in Int, s \in 0..Window-1 : q = Window * b + s /\ q % Window = s
  BY <1>1
<1>4. SUFFICES ASSUME r = s PROVE FALSE
  BY <1>2, <1>3
<1>5. p - q = Window * (a - b)
  BY <1>1, <1>2, <1>3, <1>4
<1>6. a - b < 1
  BY <1>1, <1>5
<1>7. a - b > 0
  BY <1>1, <1>5
<1> QED
  BY <1>6, <1>7

\* A position that enters in its turn keeps the chains linked.
LEMMA InsertLinks ==
  ASSUME Block, NEW c, ChainOK(c), NEW m, LinkOK(c, m),
         NEW p \in 0..N, p \in {m, m + 1}, CanHash(p)
  PROVE  LinkOK(Inserted(c, p), p)
<1> DEFINE d == Inserted(c, p)
           h == HashAt(p)
<1>1. h \in Hashes
  <2>1. At(p) \in Byte /\ At(p + 1) \in Byte /\ At(p + 2) \in Byte
    BY DEF At, CanHash, Block
  <2> QED
    BY <2>1 DEF HashAt, Hashes
<1>2. /\ Window \in Nat /\ Window >= 4 /\ N \in Nat /\ m \in Int /\ m <= p /\ p <= m + 1
      /\ p % Window \in 0..Window-1
  BY Constants DEF Block, LinkOK, Nil
<1> HIDE DEF h
<1>3. /\ d.head = [c.head EXCEPT ![h] = p]
      /\ d.prev = [c.prev EXCEPT ![p % Window] = c.head[h]]
  BY DEF Inserted, h
<1>4. d.head[h] = p /\ \A g \in Hashes : g # h => d.head[g] = c.head[g]
  BY <1>1, <1>3 DEF ChainOK
<1>5. \A g \in Hashes : d.head[g] # Nil => d.head[g] <= p /\ HashAt(d.head[g]) = g
  <2> SUFFICES ASSUME NEW g \in Hashes, d.head[g] # Nil
               PROVE  d.head[g] <= p /\ HashAt(d.head[g]) = g
    OBVIOUS
  <2>1. CASE g = h
    BY <2>1, <1>4, <1>2 DEF h
  <2>2. CASE g # h
    <3>1. d.head[g] = c.head[g] /\ c.head[g] \in 0..N \cup {Nil}
      BY <2>2, <1>4 DEF ChainOK
    <3>2. c.head[g] <= m /\ HashAt(c.head[g]) = g
      BY <3>1 DEF LinkOK
    <3> QED
      BY <3>1, <3>2, <1>2
  <2> QED
    BY <2>1, <2>2
<1>6. \A q \in 0..p : q > p - Window /\ d.prev[q % Window] # Nil =>
        d.prev[q % Window] <= q /\ HashAt(d.prev[q % Window]) = HashAt(q)
  <2> SUFFICES ASSUME NEW q \in 0..p, q > p - Window, d.prev[q % Window] # Nil
               PROVE  d.prev[q % Window] <= q /\ HashAt(d.prev[q % Window]) = HashAt(q)
    OBVIOUS
  <2>1. CASE q = p
    <3>1. d.prev[q % Window] = c.head[h]
      BY <2>1, <1>2, <1>3 DEF ChainOK
    <3>2. c.head[h] \in 0..N \cup {Nil} /\ c.head[h] <= m /\ HashAt(c.head[h]) = h
      BY <3>1, <1>1 DEF LinkOK, ChainOK
    <3> QED
      BY <3>1, <3>2, <2>1, <1>2 DEF h
  <2>2. CASE q # p
    <3>1. q \in Nat /\ p \in Nat /\ q < p /\ p - q < Window
      BY <2>2, <1>2
    <3>2. q % Window # p % Window
      BY <3>1, SlotsApart
    <3>a. q % Window \in 0..Window-1
      BY <3>1, <1>2
    <3>3. d.prev[q % Window] = c.prev[q % Window]
      BY <3>2, <3>a, <1>2, <1>3 DEF ChainOK
    <3>4. q \in 0..m /\ q > m - Window
      BY <3>1, <1>2
    <3> QED
      BY <3>3, <3>4 DEF LinkOK
  <2> QED
    BY <2>1, <2>2
<1>7. p # Nil => \E g \in Hashes : d.head[g] = p
  BY <1>1, <1>4
<1> HIDE DEF d
<1> QED
  BY <1>5, <1>6, <1>7 DEF LinkOK, d

\* What is linked has its newest position at the head of a chain.
LEMMA LinkedByHash ==
  ASSUME Block, ChainOK(Chains), NEW m, LinkOK(Chains, m)
  PROVE  ChainsByHash
<1>1. Newest = m
  <2>1. m \in Int /\ \A h \in Hashes : head[h] \in Int /\ head[h] <= m
    BY DEF LinkOK, ChainOK, Chains, Nil, Block
  <2>2. m \in {Nil} \cup {head[h] : h \in Hashes}
    BY DEF LinkOK, Chains
  <2>3. \A q \in {Nil} \cup {head[h] : h \in Hashes} :
          (\A h \in Hashes : head[h] <= q) => q = m \/ m = Nil
    <3> SUFFICES ASSUME NEW q \in {Nil} \cup {head[h] : h \in Hashes},
                        \A h \in Hashes : head[h] <= q, m # Nil
                 PROVE  q = m
      OBVIOUS
    <3>1. PICK h \in Hashes : head[h] = m
      BY DEF LinkOK, Chains
    <3>2. m <= q /\ q \in Int
      BY <3>1, <2>1 DEF Nil
    <3>3. m >= 0
      BY DEF LinkOK
    <3>4. q <= m
      BY <3>2, <3>3, <2>1 DEF Nil
    <3> QED
      BY <3>2, <3>4, <2>1
  <2>4. m = Nil => \A q \in {Nil} \cup {head[h] : h \in Hashes} : q = m
    BY <2>1 DEF LinkOK, ChainOK, Chains, Nil, Block
  <2> QED
    BY <2>1, <2>2, <2>3, <2>4 DEF Newest
<1>2. \A p \in Chained : p \in 0..m /\ p > m - Window
  BY <1>1 DEF Chained
<1> QED
  BY <1>2 DEF LinkOK, Chains, ChainsByHash

\* A step that leaves block and chains alone, and hashes nothing new.
LEMMA UnmovedLinks ==
  ASSUME Linked, data' = data, head' = head, prev' = prev,
         CanHash(covered)' => covered' = covered
  PROVE  Linked'
<1>1. PICK m : LinkOK(Chains, m) /\ (CanHash(covered) => covered \in {m, m + 1})
  BY DEF Linked
<1>2. LinkOK(Chains, m)'
  BY <1>1 DEF LinkOK, Chains, HashAt, At, N
<1>3. CanHash(covered)' => covered' \in {m, m + 1}
  BY <1>1 DEF CanHash, N
<1> QED
  BY <1>2, <1>3 DEF Linked

\* A step whose chains end up linked, with the position to come in its turn.
LEMMA MovedLinks ==
  ASSUME NEW c, NEW m, LinkOK(c, m), Keep(c), data' = data, covered' \in {m, m + 1}
  PROVE  Linked'
<1>1. LinkOK(Chains, m)'
  BY DEF LinkOK, Chains, HashAt, At, N, Keep
<1> QED
  BY <1>1 DEF Linked

---------------------------------------------------------------------------
(* The steps of the encoder.                                               *)

\* One position enters where the encoder is.
LEMMA OneEnters ==
  ASSUME IInv, Linked, CanHash(covered), NEW m, LinkOK(Chains, m), covered \in {m, m + 1},
         Keep(Inserted(Chains, covered)), data' = data, covered' = covered + 1
  PROVE  Linked'
<1>1. Block /\ ChainOK(Chains) /\ covered \in 0..N
  <2>1. Block
    BY IsBlock DEF IInv, TypeOK
  <2>2. ChainOK(Chains)
    BY DEF IInv, TypeOK, ChainOK, Chains
  <2>3. covered \in 0..pos /\ pos \in 0..N /\ N \in Nat
    BY <2>1 DEF IInv, TypeOK, Block
  <2> QED
    BY <2>1, <2>2, <2>3
<1>2. LinkOK(Inserted(Chains, covered), covered)
  BY <1>1, InsertLinks
<1> QED
  BY <1>2, MovedLinks

\* The lazy search enters two, and the second again if it stops there.
LEMMA LazilyLinks == IInv /\ Linked /\ EncodeLazily => Linked'
<1> SUFFICES ASSUME IInv, Linked, EncodeLazily PROVE Linked'
  OBVIOUS
<1> DEFINE here  == MatchAt(Chains, pos)
           c1    == Inserted(Chains, pos)
           next1 == MatchAt(c1, pos + 1)
           c2    == Inserted(c1, pos + 1)
           next2 == MatchAt(c2, pos + 2)
           skip  == IF next2.length > next1.length THEN 2 ELSE 1
<1>1. /\ Searching /\ CanHash(pos) /\ here # NoMatch /\ next1.length > here.length
      /\ Keep(c2) /\ EmitLiterals(skip) /\ data' = data
  BY Zenon DEF EncodeLazily
<1>2. /\ Block /\ pos \in 0..N-1 /\ N \in Nat /\ ChainOK(Chains) /\ covered = pos
      /\ recent \in [1..4 -> 1..Window]
  BY <1>1, WhileSearching DEF Block
<1>3. Sound(here, pos) /\ Sound(next1, pos + 1)
  <2>1. pos \in 0..N /\ pos + 1 \in 0..N
    BY <1>2
  <2> QED
    BY <2>1, <1>2, MatchAtSound
<1>4. Agrees(here, pos) /\ here.length >= 3
  BY <1>1, <1>3, Constants DEF Sound, Agrees
<1>5. Agrees(next1, pos + 1)
  BY <1>1, <1>4, <1>3, NoMatchEmpty DEF Sound, Agrees
<1> HIDE DEF next1, here
<1>6. pos + 4 <= N
  BY <1>5, <1>2, Constants DEF Agrees
<1>7. covered' \in {pos + 1, (pos + 1) + 1}
  <2>1. skip \in 1..2
    OBVIOUS
  <2> HIDE DEF skip
  <2> QED
    BY <2>1, <1>1, <1>2 DEF EmitLiterals
<1>8. PICK m : LinkOK(Chains, m) /\ pos \in {m, m + 1}
  BY <1>1, <1>2 DEF Linked
<1>9. ChainOK(c1) /\ LinkOK(c1, pos)
  BY <1>1, <1>2, <1>8, InsertedOK, InsertLinks
<1>10. LinkOK(c2, pos + 1)
  <2>1. pos + 1 \in 0..N /\ CanHash(pos + 1)
    BY <1>2, <1>6 DEF CanHash
  <2> HIDE DEF c1
  <2> QED
    BY <2>1, <1>2, <1>9, InsertLinks
<1> HIDE DEF c2
<1> QED
  BY <1>1, <1>7, <1>10, MovedLinks

\* Every other step enters the position it is at, or none.
LEMMA NextLinks == IInv /\ Linked /\ [Next]_vars => Linked'
<1> SUFFICES ASSUME IInv, Linked, [Next]_vars PROVE Linked'
  OBVIOUS
<1>1. PICK m : LinkOK(Chains, m) /\ (CanHash(covered) => covered \in {m, m + 1})
  BY DEF Linked
<1>2. N \in Nat /\ pos \in 0..N /\ covered \in 0..pos
  BY IsBlock DEF IInv, TypeOK, Block
<1>3. CASE EncodeTail
  <2>1. covered = pos /\ covered' = pos + (N - pos) /\ data' = data /\ head' = head /\ prev' = prev
    BY <1>3 DEF EncodeTail, Searching, EmitLiterals
  <2>2. ~CanHash(covered)'
    BY <2>1, <1>2 DEF CanHash, N
  <2> QED
    BY <2>1, <2>2, UnmovedLinks
<1>4. CASE EncodeLiteral
  <2>1. /\ CanHash(covered) /\ Keep(Inserted(Chains, covered)) /\ data' = data
        /\ covered' = covered + 1
    BY <1>4 DEF EncodeLiteral, Searching, EmitLiterals
  <2> QED
    BY <2>1, <1>1, OneEnters
<1>5. CASE EncodeLazily
  BY <1>5, LazilyLinks
<1>6. CASE EncodeMatch
  <2>1. /\ CanHash(covered) /\ Keep(Inserted(Chains, covered)) /\ data' = data
        /\ covered' = covered + 1
    BY <1>6, Zenon DEF EncodeMatch, Searching
  <2> QED
    BY <2>1, <1>1, OneEnters
<1>7. CASE Cover
  <2>1. data' = data /\ covered' = covered + 1
    BY <1>7 DEF Cover
  <2>2. CASE CanHash(covered)
    BY <1>1, <1>7, <2>1, <2>2, OneEnters DEF Cover
  <2>3. CASE ~CanHash(covered)
    <3>1. head' = head /\ prev' = prev
      BY <1>7, <2>3 DEF Cover
    <3>2. ~CanHash(covered)'
      BY <2>1, <2>3, <1>2 DEF CanHash, N
    <3> QED
      BY <2>1, <3>1, <3>2, UnmovedLinks
  <2> QED
    BY <2>2, <2>3
<1>8. CASE Decode
  <2>1. data' = data /\ head' = head /\ prev' = prev /\ covered' = covered
    BY <1>8 DEF Decode, DecodeLiteral, DecodeMatch, DecodeEnd, encVars
  <2> QED
    BY <2>1, UnmovedLinks
<1>9. CASE UNCHANGED vars
  <2>1. data' = data /\ head' = head /\ prev' = prev /\ covered' = covered
    BY <1>9 DEF vars, encVars
  <2> QED
    BY <2>1, UnmovedLinks
<1> QED
  BY <1>3, <1>4, <1>5, <1>6, <1>7, <1>8, <1>9 DEF Next, Encode

\* The chains are linked in every state.
LEMMA StaysLinked == Spec => []Linked
<1>1. Init => Linked
  <2> SUFFICES ASSUME Init PROVE Linked
    OBVIOUS
  <2>1. LinkOK(Chains, Nil)
    BY DEF Init, LinkOK, Chains, Nil
  <2>2. covered = Nil + 1
    BY DEF Init, Nil
  <2> QED
    BY <2>1, <2>2 DEF Linked
<1> QED
  BY <1>1, NextLinks, Inductive, PTL DEF Spec

\* A chain joins positions of one hash (hash.rs), reused slots and positions
\* that a match covers or the lazy search enters twice included.
THEOREM ChainsStayByHash == Spec => []ChainsByHash
<1>1. IInv /\ Linked => ChainsByHash
  <2> SUFFICES ASSUME IInv, Linked PROVE ChainsByHash
    OBVIOUS
  <2>1. Block /\ ChainOK(Chains)
    BY IsBlock DEF IInv, TypeOK, ChainOK, Chains
  <2> QED
    BY <2>1, LinkedByHash DEF Linked
<1> QED
  BY <1>1, StaysLinked, Inductive, PTL

---------------------------------------------------------------------------
(* What a search finds again.  A literal is given up for a longer match at *)
(* one of the next two positions; that match is not kept but searched for  *)
(* once more, after its own position has entered the chains.               *)

\* The positions a search looks at are those the chains give, one by one.
LEMMA WalkIs ==
  ASSUME Block, NEW c, ChainOK(c), NEW p \in 0..N, CanHash(p)
  PROVE  /\ Walk(c, p) \in [0..MaxChain-1 -> 0..N \cup {Nil}]
         /\ Walk(c, p)[0] = c.head[HashAt(p)]
         /\ \A k \in 1..MaxChain-1 :
              Walk(c, p)[k] = IF Walk(c, p)[k - 1] = Nil THEN Nil ELSE c.prev[Walk(c, p)[k - 1] % Window]
<1> DEFINE after(q) == IF q = Nil THEN Nil ELSE c.prev[q % Window]
           S == 0..N \cup {Nil}
           first == c.head[HashAt(p)]
           g == [q \in S |-> after(q)]
           n == MaxChain - 1
           Walks(w) == w = [k \in 0..MaxChain-1 |-> IF k = 0 THEN first ELSE after(w[k - 1])]
           walk == CHOOSE w : Walks(w)
<1>1. n \in Nat /\ Window \in Nat /\ Window >= 4 /\ N \in Nat
  BY Constants DEF Block
<1>2. HashAt(p) \in Hashes
  <2>1. At(p) \in Byte /\ At(p + 1) \in Byte /\ At(p + 2) \in Byte
    BY DEF At, CanHash, Block
  <2> QED BY <2>1 DEF HashAt, Hashes
<1>3. first \in S
  BY <1>2 DEF ChainOK
<1>4. ASSUME NEW q \in S PROVE after(q) \in S
  <2>1. CASE q = Nil
    BY <2>1
  <2>2. CASE q # Nil
    <3>1. q \in Nat
      BY <1>1, <2>2
    <3>2. q % Window \in 0..Window-1
      BY <1>1, <3>1
    <3>3. c.prev[q % Window] \in S
      BY <3>2 DEF ChainOK
    <3> QED BY <2>2, <3>3
  <2> QED BY <2>1, <2>2
<1>5. g \in [S -> S]
  BY <1>4
<1> HIDE DEF S, first, n
<1>6. HasIterates(n, S, first, g)
  <2> HIDE DEF g
  <2>1. n \in Nat
    BY <1>1
  <2>2. first \in S /\ g \in [S -> S]
    BY <1>3, <1>5
  <2> QED BY <2>1, <2>2, Iterates, Zenon
<1>f. PICK f \in [0..n -> S] : f[0] = first /\ \A k \in 1..n : f[k] = g[f[k - 1]]
  BY <1>6, Zenon DEF HasIterates
<1> HIDE DEF after
<1>7. ASSUME NEW k \in 1..n PROVE f[k] = after(f[k - 1])
  <2>1. k - 1 \in 0..n /\ f[k - 1] \in S
    BY <1>1, <1>f
  <2> QED BY <1>f, <2>1
<1>8. Walks(f)
  <2>1. ASSUME NEW k \in 0..n PROVE f[k] = IF k = 0 THEN first ELSE after(f[k - 1])
    <3>1. k = 0 \/ k \in 1..n
      BY <1>1
    <3> QED BY <1>f, <1>7, <3>1
  <2>2. f = [k \in 0..n |-> f[k]]
    BY <1>f
  <2>3. f = [k \in 0..n |-> IF k = 0 THEN first ELSE after(f[k - 1])]
    BY <2>1, <2>2, Zenon
  <2> QED BY <2>3 DEF n
<1>9. Walks(walk)
  <2> HIDE DEF Walks
  <2> QED BY <1>8
<1>10. Walk(c, p) = walk
  BY DEF Walk, first, after
<1> HIDE DEF walk
<1> DEFINE P == {k \in 0..n : walk[k] = f[k]}
<1>11. \A k \in 0..n : walk[k] = IF k = 0 THEN first ELSE after(walk[k - 1])
  BY <1>9, Zenon DEF n
<1>12. 0 \in P
  BY <1>1, <1>f, <1>11
<1>13. \A k \in 1..n : k - 1 \in P => k \in P
  <2> SUFFICES ASSUME NEW k \in 1..n, k - 1 \in P PROVE k \in P
    OBVIOUS
  <2>1. walk[k - 1] = f[k - 1] /\ k \in 0..n /\ k # 0
    BY <1>1
  <2>2. walk[k] = after(walk[k - 1])
    BY <1>11, <2>1, Zenon
  <2>3. walk[k] = f[k]
    BY <1>7, <2>1, <2>2
  <2> QED BY <2>1, <2>3
<1>14. 0..n \subseteq P
  <2> HIDE DEF P
  <2> QED BY <1>1, <1>12, <1>13, UpTo
<1>15. walk \in [0..n -> S]
  <2>1. walk = [k \in 0..n |-> IF k = 0 THEN first ELSE after(walk[k - 1])]
    BY <1>9 DEF n
  <2>2. \A k \in 0..n : walk[k] = f[k] /\ f[k] \in S
    BY <1>f, <1>14
  <2> QED BY <2>1, <2>2
<1>16. walk[0] = first /\ \A k \in 1..n : walk[k] = after(walk[k - 1])
  <2>1. 0 \in 0..n /\ \A k \in 1..n : k \in 0..n /\ k # 0
    BY <1>1
  <2> QED BY <1>11, <2>1, Zenon
<1> QED BY <1>10, <1>15, <1>16, Zenon DEF S, first, n, after

\* A position that leads to itself, or none, is all that a search sees from
\* there on.
LEMMA FixedStays ==
  ASSUME Block, NEW c, ChainOK(c), NEW p \in 0..N, CanHash(p), NEW i \in 0..MaxChain-1,
         Walk(c, p)[i] = Nil \/ c.prev[Walk(c, p)[i] % Window] = Walk(c, p)[i]
  PROVE  \A j \in i..MaxChain-1 : Walk(c, p)[j] = Walk(c, p)[i]
<1> DEFINE w == Walk(c, p)
           n == MaxChain - 1
           Same == {j \in 0..n : j >= i => w[j] = w[i]}
<1>1. n \in Nat /\ i \in Nat
  BY Constants
<1>2. \A k \in 1..n : w[k] = IF w[k - 1] = Nil THEN Nil ELSE c.prev[w[k - 1] % Window]
  BY WalkIs
<1> HIDE DEF w
<1>3. 0 \in Same
  BY <1>1
<1>4. ASSUME NEW k \in 1..n, k - 1 \in Same PROVE k \in Same
  <2>1. CASE k <= i
    BY <1>1, <2>1
  <2>2. CASE k > i
    <3>1. w[k - 1] = w[i]
      BY <1>1, <1>4, <2>2
    <3>2. w[k] = w[i]
      BY <1>2, <3>1 DEF w
    <3> QED BY <3>2
  <2> QED BY <1>1, <2>1, <2>2
<1>5. 0..n \subseteq Same
  <2> HIDE DEF Same
  <2> QED BY <1>1, <1>3, <1>4, UpTo
<1> QED BY <1>1, <1>5 DEF w

\* The positions of a search up to one in the window go down, or stay.
LEMMA Downwards ==
  ASSUME Block, NEW c, ChainOK(c), NEW p \in 1..N, LinkOK(c, p - 1), CanHash(p),
         NEW k \in 0..MaxChain-1, Walk(c, p)[k] \in 0..p-1,
         \A j \in 0..k : ~Beyond(Walk(c, p)[j], p)
  PROVE  \A j \in 0..k : /\ Walk(c, p)[j] \in 0..p-1 /\ p - Walk(c, p)[j] <= Window
                         /\ \A i \in 0..j : Walk(c, p)[j] <= Walk(c, p)[i]
<1> DEFINE w == Walk(c, p)
           Inside(q) == q \in 0..p-1 /\ p - q <= Window
           Down == {j \in 0..k : Inside(w[j]) /\ \A i \in 0..j : w[j] <= w[i]}
<1>1. k \in Nat /\ MaxChain - 1 \in Nat /\ Window \in Nat /\ Window >= 4 /\ p \in Nat /\ p \in 0..N
  BY Constants DEF Block
<1>2. /\ w \in [0..MaxChain-1 -> 0..N \cup {Nil}]
      /\ w[0] = c.head[HashAt(p)]
      /\ \A j \in 1..MaxChain-1 : w[j] = IF w[j - 1] = Nil THEN Nil ELSE c.prev[w[j - 1] % Window]
  BY <1>1, WalkIs
<1>3. \A j \in 0..k : w[j] # Nil
  <2> SUFFICES ASSUME NEW j \in 0..k, w[j] = Nil PROVE FALSE
    OBVIOUS
  <2>1. j \in 0..MaxChain-1 /\ k \in j..MaxChain-1
    BY <1>1
  <2>2. \A l \in j..MaxChain-1 : w[l] = w[j]
    BY <1>1, <2>1, FixedStays
  <2> QED BY <2>1, <2>2 DEF Nil
<1>4. \A j \in 0..k : ~Beyond(w[j], p)
  OBVIOUS
<1>5. ASSUME NEW j \in 0..k, w[j] <= p - 1 PROVE Inside(w[j])
  <2>1. w[j] \in 0..p-1
    <3>1. j \in 0..MaxChain-1
      BY <1>1
    <3>2. w[j] \in 0..N \cup {Nil} /\ w[j] # Nil
      BY <1>2, <1>3, <3>1
    <3> HIDE DEF w
    <3> QED BY <1>1, <1>5, <3>2 DEF Block
  <2>2. ~Beyond(w[j], p)
    BY <1>4
  <2> HIDE DEF w
  <2> QED BY <1>1, <2>1, <2>2 DEF Beyond
<1>6. 0 \in Down
  <2>1. HashAt(p) \in Hashes
    <3>1. At(p) \in Byte /\ At(p + 1) \in Byte /\ At(p + 2) \in Byte
      BY DEF At, CanHash, Block
    <3> QED BY <3>1 DEF HashAt, Hashes
  <2>2. w[0] <= p - 1
    <3>1. 0 \in 0..k /\ w[0] # Nil /\ w[0] = c.head[HashAt(p)]
      BY <1>1, <1>2, <1>3
    <3> HIDE DEF w
    <3>2. \A h \in Hashes : c.head[h] # Nil => c.head[h] <= p - 1
      BY Zenon DEF LinkOK
    <3> QED BY <2>1, <3>1, <3>2, Zenon
  <2>3. 0 \in 0..k /\ w[0] \in Int
    <3>1. 0 \in 0..k /\ 0 \in 0..MaxChain-1
      BY <1>1
    <3>2. w[0] \in 0..N \cup {Nil}
      BY <1>2, <3>1
    <3> HIDE DEF w
    <3> QED BY <3>1, <3>2 DEF Nil, Block
  <2> HIDE DEF w
  <2>4. \A i \in 0..0 : w[0] <= w[i]
    BY <2>3
  <2> QED BY <1>5, <2>2, <2>3, <2>4
<1> HIDE DEF w
<1>7. ASSUME NEW j \in 1..k, j - 1 \in Down PROVE j \in Down
  <2>1. Inside(w[j - 1]) /\ \A i \in 0..j - 1 : w[j - 1] <= w[i]
    BY <1>7
  <2>2. w[j] = c.prev[w[j - 1] % Window] /\ w[j] # Nil
    <3>1. j \in 1..MaxChain-1 /\ j - 1 \in 0..k /\ j \in 0..k
      BY <1>1
    <3> QED BY <1>2, <1>3, <3>1
  <2>3. w[j - 1] \in 0..p - 1 /\ w[j - 1] > p - 1 - Window
    BY <1>1, <2>1
  <2>4. w[j] <= w[j - 1]
    BY <2>2, <2>3 DEF LinkOK
  <2>5. j \in 0..k /\ w[j] \in Int
    <3>1. j \in 0..MaxChain-1
      BY <1>1
    <3>2. w[j] \in 0..N \cup {Nil}
      BY <1>2, <3>1
    <3> QED BY <1>1, <3>2 DEF Nil, Block
  <2>6. w[j] <= p - 1
    BY <1>1, <2>3, <2>4, <2>5
  <2>7. Inside(w[j])
    BY <1>5, <2>5, <2>6
  <2>8. \A i \in 0..j : w[j] <= w[i]
    <3> SUFFICES ASSUME NEW i \in 0..j PROVE w[j] <= w[i]
      OBVIOUS
    <3>1. CASE i = j
      BY <2>5, <3>1
    <3>2. CASE i # j
      <4>1. i \in 0..j - 1 /\ i \in 0..MaxChain-1
        BY <1>1, <3>2
      <4>2. w[j - 1] <= w[i] /\ w[i] \in 0..N \cup {Nil}
        BY <1>2, <2>1, <4>1
      <4> QED BY <2>3, <2>4, <2>5, <4>2 DEF Nil, Block
    <3> QED BY <3>1, <3>2
  <2> QED BY <2>5, <2>7, <2>8
<1>8. 0..k \subseteq Down
  <2> HIDE DEF Down
  <2> QED BY <1>1, <1>6, <1>7, UpTo
<1> QED BY <1>8 DEF w

\* Once a position has entered, a search for it sees itself, and then what the
\* search before saw, up to the first place that one stopped at for good.
LEMMA SearchAgain ==
  ASSUME Block, NEW c, ChainOK(c), NEW p \in 1..N, LinkOK(c, p - 1), CanHash(p),
         NEW k \in 0..MaxChain-1, Walk(c, p)[k] \in 0..p-1,
         \A j \in 0..k : ~Beyond(Walk(c, p)[j], p),
         \A j \in 0..k-1 : Walk(c, p)[j] # Walk(c, p)[k]
  PROVE  /\ Walk(Inserted(c, p), p)[0] = p
         /\ \A j \in 0..k : j + 1 <= MaxChain - 1 =>
              Walk(Inserted(c, p), p)[j + 1] = Walk(c, p)[j]
<1> DEFINE w == Walk(c, p)
           d == Inserted(c, p)
           v == Walk(d, p)
           h == HashAt(p)
           n == MaxChain - 1
           Again == {j \in 0..k : j + 1 <= n => v[j + 1] = w[j]}
<1>1. k \in Nat /\ n \in Nat /\ Window \in Nat /\ Window >= 4 /\ p \in Nat /\ p \in 0..N /\ k <= n
  BY Constants DEF Block
<1>2. h \in Hashes
  <2>1. At(p) \in Byte /\ At(p + 1) \in Byte /\ At(p + 2) \in Byte
    BY DEF At, CanHash, Block
  <2> QED BY <2>1 DEF HashAt, Hashes
<1>3. /\ w[0] = c.head[h]
      /\ \A j \in 1..n : w[j] = IF w[j - 1] = Nil THEN Nil ELSE c.prev[w[j - 1] % Window]
  BY <1>1, WalkIs
<1>4. ChainOK(d)
  BY <1>1, InsertedOK
<1>5. /\ v[0] = d.head[h]
      /\ \A j \in 1..n : v[j] = IF v[j - 1] = Nil THEN Nil ELSE d.prev[v[j - 1] % Window]
  <2> HIDE DEF d
  <2> QED BY <1>1, <1>4, WalkIs
<1>6. \A j \in 0..k : /\ w[j] \in 0..p-1 /\ p - w[j] <= Window
                      /\ \A i \in 0..j : w[j] <= w[i]
  BY Downwards
<1>7. \A j \in 0..k-1 : w[j] # w[k]
  OBVIOUS
<1> HIDE DEF v, w
<1>8. /\ d.head = [c.head EXCEPT ![h] = p]
      /\ d.prev = [c.prev EXCEPT ![p % Window] = c.head[h]]
  BY DEF Inserted
<1> HIDE DEF d, h
<1>9. p % Window \in 0..Window-1 /\ d.head[h] = p /\ d.prev[p % Window] = c.head[h]
  <2>1. p % Window \in 0..Window-1
    BY <1>1
  <2> QED BY <1>2, <1>8, <2>1 DEF ChainOK
<1>10. v[0] = p
  BY <1>5, <1>9
<1>11. 0 \in Again
  <2> SUFFICES ASSUME 0 + 1 <= n PROVE v[0 + 1] = w[0]
    BY <1>1
  <2>1. 1 \in 1..n /\ p # Nil /\ 1 - 1 = 0
    BY <1>1 DEF Nil
  <2>2. v[1] = d.prev[p % Window]
    BY <1>5, <1>10, <2>1
  <2> QED BY <1>3, <1>9, <2>2
<1>12. ASSUME NEW j \in 1..k, j - 1 \in Again PROVE j \in Again
  <2> SUFFICES ASSUME j + 1 <= n PROVE v[j + 1] = w[j]
    BY <1>1
  <2> DEFINE q == w[j - 1]
  <2>1. j - 1 \in 0..k-1 /\ j - 1 \in 0..k /\ j \in 1..n /\ j + 1 \in 1..n /\ (j + 1) - 1 = j /\ (j - 1) + 1 = j
    BY <1>1
  <2>2. v[j] = q
    BY <1>12, <2>1
  <2>3. q \in 0..p-1 /\ p - q <= Window /\ q # w[k] /\ w[k] <= q /\ w[k] \in 0..p-1 /\ p - w[k] <= Window
    <3>1. k \in 0..k /\ j - 1 \in 0..k
      BY <1>1
    <3> QED BY <1>6, <1>7, <2>1, <3>1
  <2> HIDE DEF q
  <2>4. q \in Nat /\ q < p /\ p - q < Window /\ q # Nil
    BY <1>1, <2>3 DEF Nil
  <2>5. p % Window # q % Window
    BY <1>1, <2>4, SlotsApart
  <2>6. q % Window \in 0..Window-1
    BY <1>1, <2>4
  <2>7. d.prev[q % Window] = c.prev[q % Window]
    BY <1>8, <2>5, <2>6 DEF ChainOK
  <2>8. w[j] = c.prev[q % Window]
    BY <1>3, <2>1, <2>4 DEF q
  <2>9. v[j + 1] = d.prev[q % Window]
    BY <1>5, <2>1, <2>2, <2>4
  <2> QED BY <2>7, <2>8, <2>9
<1>13. 0..k \subseteq Again
  <2> HIDE DEF Again
  <2> QED BY <1>1, <1>11, <1>12, UpTo
<1> QED BY <1>10, <1>13 DEF v, w, d

\* MaxChain steps are enough: the chain ends, leaves the window or turns round.
SearchEnds(w, p) ==
  \E k \in 0..MaxChain-1 : w[k] = Nil \/ Beyond(w[k], p) \/ \E j \in 0..k-1 : w[j] = w[k]

\* If they are, the place where a search stopped for good was not its last step.
LEMMA SearchGoesOn ==
  ASSUME Block, NEW c, ChainOK(c), NEW p \in 1..N, LinkOK(c, p - 1), CanHash(p),
         NEW k \in 0..MaxChain-1, Walk(c, p)[k] \in 0..p-1,
         \A j \in 0..k : ~Beyond(Walk(c, p)[j], p),
         \A j \in 0..k-1 : Walk(c, p)[j] # Walk(c, p)[k],
         SearchEnds(Walk(Inserted(c, p), p), p)
  PROVE  k + 1 <= MaxChain - 1
<1> DEFINE w == Walk(c, p)
           v == Walk(Inserted(c, p), p)
           n == MaxChain - 1
<1>1. k \in Nat /\ n \in Nat /\ Window \in Nat /\ p \in Nat /\ p \in 0..N /\ k <= n
  BY Constants DEF Block
<1> SUFFICES ASSUME k = n PROVE FALSE
  BY <1>1
<1>2. v[0] = p /\ \A j \in 0..k : j + 1 <= n => v[j + 1] = w[j]
  BY SearchAgain
<1>3. \A j \in 0..k : /\ w[j] \in 0..p-1 /\ p - w[j] <= Window
                      /\ \A i \in 0..j : w[j] <= w[i]
  BY Downwards
<1>4. \A j \in 0..k-1 : w[j] # w[k]
  OBVIOUS
<1>5. \A j \in 1..n : w[j] = IF w[j - 1] = Nil THEN Nil ELSE c.prev[w[j - 1] % Window]
  BY <1>1, WalkIs
<1>6. PICK j \in 0..n : v[j] = Nil \/ Beyond(v[j], p) \/ \E i \in 0..j-1 : v[i] = v[j]
  BY DEF SearchEnds
<1> HIDE DEF v
<1>7. ASSUME NEW l \in 1..n PROVE v[l] = w[l - 1] /\ l - 1 \in 0..k-1
  <2>1. l - 1 \in 0..k /\ (l - 1) + 1 = l /\ l - 1 \in 0..k-1 /\ l <= n
    BY <1>1
  <2>2. v[(l - 1) + 1] = w[l - 1]
    BY <1>2, <2>1
  <2> QED BY <2>1, <2>2
<1>8. j # 0
  <2> HIDE DEF w
  <2>1. p # Nil /\ ~Beyond(p, p)
    BY <1>1 DEF Nil, Beyond
  <2> QED BY <1>1, <1>2, <1>6, <2>1
<1> DEFINE b == j - 1
<1>9. v[j] = w[b] /\ b \in 0..k-1 /\ b \in 0..k
  BY <1>1, <1>7, <1>8
<1> HIDE DEF b
<1>10. PICK i \in 0..j-1 : v[i] = v[j]
  <2>1. w[b] \in 0..p-1 /\ p - w[b] <= Window
    BY <1>3, <1>9
  <2> HIDE DEF w
  <2>2. w[b] # Nil /\ ~Beyond(w[b], p)
    BY <1>1, <2>1 DEF Nil, Beyond
  <2> QED BY <1>6, <1>9, <2>2
<1>11. i # 0
  <2>1. w[b] \in 0..p-1
    BY <1>3, <1>9
  <2> HIDE DEF w
  <2> QED BY <1>1, <1>2, <1>9, <1>10, <2>1
<1> DEFINE a == i - 1
<1>12. a \in 0..k-1 /\ a < b /\ v[i] = w[a] /\ a \in 0..k /\ a + 1 \in 0..k /\ a + 1 \in 1..n /\ (a + 1) - 1 = a /\ a + 1 \in 0..b /\ a \in 0..a + 1
  BY <1>1, <1>7, <1>9, <1>11 DEF b
<1> HIDE DEF a
<1>13. w[a + 1] = w[a] /\ w[a] \in 0..p-1
  <2>1. w[b] <= w[a + 1] /\ w[a + 1] <= w[a] /\ w[a] = w[b]
    BY <1>3, <1>9, <1>10, <1>12
  <2>2. w[a + 1] \in 0..p-1 /\ w[a] \in 0..p-1 /\ w[b] \in 0..p-1
    BY <1>3, <1>9, <1>12
  <2> HIDE DEF w
  <2> QED BY <1>1, <2>1, <2>2
<1>14. c.prev[w[a] % Window] = w[a]
  <2>1. w[a] # Nil
    BY <1>1, <1>13 DEF Nil
  <2> HIDE DEF w
  <2> QED BY <1>5, <1>12, <1>13, <2>1
<1>15. \A l \in a..n : w[l] = w[a]
  <2>1. a \in 0..n
    BY <1>1, <1>12
  <2> QED BY <1>1, <1>14, <2>1, FixedStays
<1>16. k \in a..n
  BY <1>1, <1>12
<1> HIDE DEF w
<1> QED BY <1>4, <1>12, <1>15, <1>16

\* The steps of a search at which there is a candidate, and the one it takes.
FoundBy(c, p) ==
  {k \in 0..MaxChain-1 : /\ Walk(c, p)[k] \in 0..p-1 /\ Common(Walk(c, p)[k], p) >= MinMatch
                         /\ \A j \in 0..k : ~Beyond(Walk(c, p)[j], p)}
TakenBy(c, p) == FirstLongest([j \in FoundBy(c, p) |-> Common(Walk(c, p)[j], p)])
LengthBy(c, p) == Common(Walk(c, p)[TakenBy(c, p)], p)

\* It takes a candidate, the first of the longest.
LEMMA TakesFirstLongest ==
  ASSUME Block, NEW c, NEW p \in 0..N, FoundBy(c, p) # {}
  PROVE  /\ TakenBy(c, p) \in FoundBy(c, p) /\ LengthBy(c, p) \in Nat
         /\ \A j \in FoundBy(c, p) :
              \/ Common(Walk(c, p)[j], p) < LengthBy(c, p)
              \/ Common(Walk(c, p)[j], p) = LengthBy(c, p) /\ TakenBy(c, p) <= j
<1> DEFINE w == Walk(c, p)
           found == FoundBy(c, p)
           f == [j \in found |-> Common(w[j], p)]
<1>1. LongestAt(p) \in Nat
  BY Constants DEF LongestAt, Block
<1>2. \A j \in found : j \in Nat /\ w[j] \in 0..p-1
  BY Constants DEF FoundBy
<1> HIDE DEF found, w
<1>3. \A j \in found : Common(w[j], p) \in 0..LongestAt(p)
  BY <1>2, CommonAgrees
<1>4. DOMAIN f = found /\ found \subseteq Nat /\ found # {} /\ \A j \in found : f[j] = Common(w[j], p)
  BY <1>2 DEF found
<1>5. \A j \in DOMAIN f : f[j] \in 0..LongestAt(p)
  BY <1>3, <1>4
<1>6. TakenBy(c, p) = FirstLongest(f)
  BY DEF TakenBy, found, w
<1> HIDE DEF f
<1>7. FirstLongest(f) \in DOMAIN f
      /\ \A j \in DOMAIN f : f[j] < f[FirstLongest(f)]
                            \/ (f[j] = f[FirstLongest(f)] /\ FirstLongest(f) <= j)
  BY <1>1, <1>4, <1>5, FirstLongestIsIn
<1> DEFINE k == TakenBy(c, p)
<1> HIDE DEF k
<1>8. k \in found /\ \A j \in found : f[j] < f[k] \/ (f[j] = f[k] /\ k <= j)
  BY <1>4, <1>6, <1>7 DEF k
<1>9. LengthBy(c, p) = f[k] /\ f[k] \in Nat
  <2>1. f[k] = Common(w[k], p) /\ Common(w[k], p) \in 0..LongestAt(p)
    BY <1>3, <1>4, <1>8
  <2>2. LengthBy(c, p) = Common(w[k], p)
    BY DEF LengthBy, w, k
  <2> QED BY <1>1, <2>1, <2>2
<1>10. \A j \in found : Common(w[j], p) < LengthBy(c, p) \/ (Common(w[j], p) = LengthBy(c, p) /\ k <= j)
  BY <1>4, <1>8, <1>9
<1> QED BY <1>8, <1>9, <1>10 DEF k, found, w

\* What comes of it: nothing, or a match of that length.
LEMMA HashMatchIs ==
  ASSUME NEW c, NEW p
  PROVE  /\ HashMatch(c, p) = NoMatch \/ (FoundBy(c, p) # {} /\ HashMatch(c, p).length = LengthBy(c, p))
         /\ FoundBy(c, p) # {} /\ LengthBy(c, p) # 3 => HashMatch(c, p).length = LengthBy(c, p)
<1> DEFINE k == TakenBy(c, p)
           length == LengthBy(c, p)
           offset == p - Walk(c, p)[k]
           doubtful == length = 3 /\ (offset > Far \/ (offset > Near /\ k >= Steps))
           m == [offset |-> offset, length |-> length, rep |-> FALSE]
<1>1. HashMatch(c, p) = IF FoundBy(c, p) = {} \/ doubtful THEN NoMatch ELSE m
  BY Zenon DEF HashMatch, FoundBy, TakenBy, LengthBy
<1>2. m.length = length
  OBVIOUS
<1> HIDE DEF m, length
<1> QED BY <1>1, <1>2, Zenon DEF length

\* A match of four or more is found again, or a longer one, once the position
\* itself has entered.
LEMMA HashMatchAgain ==
  ASSUME Block, NEW c, ChainOK(c), NEW p \in 1..N, LinkOK(c, p - 1), CanHash(p),
         SearchEnds(Walk(Inserted(c, p), p), p), HashMatch(c, p).length >= 4
  PROVE  HashMatch(Inserted(c, p), p).length >= HashMatch(c, p).length
<1> DEFINE w == Walk(c, p)
           d == Inserted(c, p)
           v == Walk(d, p)
           k == TakenBy(c, p)
<1>1. p \in 0..N /\ p \in Nat /\ MaxChain \in Nat /\ MinMatch = 3
  BY Constants DEF Block
<1>2. FoundBy(c, p) # {} /\ HashMatch(c, p).length = LengthBy(c, p)
  BY HashMatchIs, NoMatchEmpty
<1>3. k \in FoundBy(c, p) /\ LengthBy(c, p) \in Nat
      /\ \A j \in FoundBy(c, p) : \/ Common(w[j], p) < LengthBy(c, p)
                                  \/ Common(w[j], p) = LengthBy(c, p) /\ k <= j
  BY <1>1, <1>2, TakesFirstLongest
<1>4. LengthBy(c, p) = Common(w[k], p)
  BY DEF LengthBy
<1> HIDE DEF k
<1>5. /\ k \in 0..MaxChain-1 /\ w[k] \in 0..p-1 /\ Common(w[k], p) >= MinMatch
      /\ \A j \in 0..k : ~Beyond(w[j], p)
  BY <1>3 DEF FoundBy
<1>6. \A j \in 0..k-1 : w[j] # w[k]
  <2> SUFFICES ASSUME NEW j \in 0..k-1, w[j] = w[k] PROVE FALSE
    OBVIOUS
  <2>1. j \in 0..MaxChain-1 /\ ~(k <= j) /\ \A i \in 0..j : i \in 0..k
    BY <1>1, <1>5
  <2>2. j \in FoundBy(c, p)
    BY <1>5, <2>1 DEF FoundBy
  <2> QED BY <1>3, <1>4, <2>1, <2>2
<1>7. k + 1 \in 0..MaxChain-1
  <2>1. k + 1 <= MaxChain - 1
    BY <1>5, <1>6, SearchGoesOn
  <2> QED BY <1>1, <1>5, <2>1
<1>8. v[0] = p /\ \A j \in 0..k : j + 1 <= MaxChain - 1 => v[j + 1] = w[j]
  BY <1>5, <1>6, SearchAgain
<1>9. v[k + 1] = w[k]
  BY <1>1, <1>5, <1>7, <1>8
<1> HIDE DEF v, w, d
<1>10. \A j \in 0..k+1 : ~Beyond(v[j], p)
  <2> SUFFICES ASSUME NEW j \in 0..k+1 PROVE ~Beyond(v[j], p)
    OBVIOUS
  <2>1. CASE j = 0
    BY <1>1, <1>8, <2>1 DEF Beyond
  <2>2. CASE j # 0
    <3>1. j - 1 \in 0..k /\ (j - 1) + 1 = j /\ j <= MaxChain - 1
      BY <1>1, <1>5, <1>7, <2>2
    <3>2. v[(j - 1) + 1] = w[j - 1]
      BY <1>8, <3>1
    <3> QED BY <1>5, <3>1, <3>2
  <2> QED BY <2>1, <2>2
<1>11. k + 1 \in FoundBy(d, p)
  BY <1>5, <1>7, <1>9, <1>10 DEF FoundBy, v
<1>12. LengthBy(d, p) \in Nat /\ Common(v[k + 1], p) <= LengthBy(d, p)
  <2>1. /\ LengthBy(d, p) \in Nat
        /\ \/ Common(v[k + 1], p) < LengthBy(d, p)
           \/ Common(v[k + 1], p) = LengthBy(d, p)
    BY <1>1, <1>11, TakesFirstLongest DEF v
  <2>2. Common(v[k + 1], p) \in Nat
    BY <1>3, <1>4, <1>9
  <2> QED BY <2>1, <2>2
<1>13. LengthBy(d, p) >= LengthBy(c, p) /\ LengthBy(d, p) # 3
  BY <1>2, <1>3, <1>4, <1>9, <1>12
<1>14. HashMatch(d, p).length = LengthBy(d, p)
  BY <1>11, <1>13, HashMatchIs
<1> QED BY <1>2, <1>13, <1>14 DEF d

\* HashMatch, of the positions a search sees and of how far they agree.
AgreeAt(p) == [q \in 0..p-1 |-> Common(q, p)]
BestOf(w, agree, p) ==
  LET found    == {k \in 0..MaxChain-1 :
                     /\ w[k] \in 0..p-1 /\ agree[w[k]] >= MinMatch
                     /\ \A j \in 0..k : ~Beyond(w[j], p)}
      k        == FirstLongest([j \in found |-> agree[w[j]]])
      offset   == p - w[k]
      length   == agree[w[k]]
      doubtful == length = 3 /\ (offset > Far \/ (offset > Near /\ k >= Steps))
  IN  IF found = {} \/ doubtful THEN NoMatch
      ELSE [offset |-> offset, length |-> length, rep |-> FALSE]

\* RepMatch, of the recent offsets.
RepOf(offsets, agree, p) ==
  LET found == {i \in 1..4 : offsets[i] \in 1..p /\ agree[p - offsets[i]] >= MinMatch}
      i     == FirstLongest([j \in found |-> agree[p - offsets[j]]])
  IN  IF found = {} THEN NoMatch
      ELSE [offset |-> offsets[i], length |-> agree[p - offsets[i]], rep |-> TRUE]

\* RepMatch is that.
LEMMA RepIs ==
  ASSUME Block, NEW p \in 0..N
  PROVE  RepMatch(p) = RepOf(recent, AgreeAt(p), p)
<1> DEFINE agree == AgreeAt(p)
           found == {i \in 1..4 : recent[i] \in 1..p /\ Common(p - recent[i], p) >= MinMatch}
           found2 == {i \in 1..4 : recent[i] \in 1..p /\ agree[p - recent[i]] >= MinMatch}
           f == [j \in found |-> Common(p - recent[j], p)]
           f2 == [j \in found2 |-> agree[p - recent[j]]]
           k == FirstLongest(f)
           Taken(l) == [offset |-> recent[k], length |-> l, rep |-> TRUE]
<1>1. \A i \in 1..4 : recent[i] \in 1..p => p - recent[i] \in 0..p-1 /\ agree[p - recent[i]] = Common(p - recent[i], p)
  BY DEF AgreeAt, Block
<1> HIDE DEF agree
<1>2. found = found2
  BY <1>1
<1>3. f = f2
  <2>1. \A j \in found : Common(p - recent[j], p) = agree[p - recent[j]]
    BY <1>1
  <2> HIDE DEF found, found2
  <2> QED BY <1>2, <2>1
<1>4. RepMatch(p) = IF found = {} THEN NoMatch ELSE Taken(Common(p - recent[k], p))
  BY Zenon DEF RepMatch
<1>5. RepOf(recent, agree, p) = IF found = {} THEN NoMatch ELSE Taken(agree[p - recent[k]])
  <2>1. k = FirstLongest(f2)
    BY <1>3, Zenon
  <2> QED BY <1>2, <2>1, Zenon DEF RepOf
<1>6. found # {} => Common(p - recent[k], p) = agree[p - recent[k]]
  <2> SUFFICES ASSUME found # {} PROVE Common(p - recent[k], p) = agree[p - recent[k]]
    OBVIOUS
  <2>1. LongestAt(p) \in Nat
    BY Constants DEF LongestAt, Block
  <2>2. \A j \in found : p - recent[j] \in 0..p-1
    BY DEF Block
  <2>3. \A j \in found : Common(p - recent[j], p) \in 0..LongestAt(p)
    BY <2>2, CommonAgrees
  <2>4. DOMAIN f = found /\ found \subseteq Nat /\ \A j \in DOMAIN f : f[j] \in 0..LongestAt(p)
    BY <2>3
  <2> HIDE DEF found, f
  <2>5. k \in found
    BY <2>1, <2>4, FirstLongestIsIn
  <2> HIDE DEF k
  <2> QED BY <1>1, <2>5 DEF found
<1> QED BY <1>4, <1>5, <1>6, Zenon DEF agree

\* So is HashMatch.
LEMMA BestIs ==
  ASSUME Block, NEW c, NEW p \in 0..N
  PROVE  HashMatch(c, p) = BestOf(Walk(c, p), AgreeAt(p), p)
<1> DEFINE w == Walk(c, p)
           agree == AgreeAt(p)
           found == FoundBy(c, p)
           found2 == {k \in 0..MaxChain-1 : /\ w[k] \in 0..p-1 /\ agree[w[k]] >= MinMatch
                                           /\ \A j \in 0..k : ~Beyond(w[j], p)}
           f == [j \in found |-> Common(w[j], p)]
           f2 == [j \in found2 |-> agree[w[j]]]
           k == TakenBy(c, p)
           Taken(l) == LET doubtful == l = 3 /\ (p - w[k] > Far \/ (p - w[k] > Near /\ k >= Steps))
                       IN  IF doubtful THEN NoMatch ELSE [offset |-> p - w[k], length |-> l, rep |-> FALSE]
<1>1. \A q \in 0..p-1 : agree[q] = Common(q, p)
  BY DEF AgreeAt
<1> HIDE DEF w, agree
<1>2. found = found2
  BY <1>1 DEF FoundBy, w
<1>3. f = f2
  <2>1. \A j \in found : Common(w[j], p) = agree[w[j]]
    BY <1>1 DEF FoundBy, w
  <2> HIDE DEF found, found2
  <2> QED BY <1>2, <2>1
<1>4. FirstLongest(f) = k
  BY DEF TakenBy, w
<1>5. HashMatch(c, p) = IF found = {} THEN NoMatch ELSE Taken(Common(w[k], p))
  <2> QED BY Zenon DEF HashMatch, FoundBy, TakenBy, w
<1>6. BestOf(w, agree, p) = IF found = {} THEN NoMatch ELSE Taken(agree[w[k]])
  <2>1. k = FirstLongest(f2)
    BY <1>3, <1>4, Zenon
  <2> QED BY <1>2, <2>1, Zenon DEF BestOf
<1>7. found # {} => Common(w[k], p) = agree[w[k]]
  BY <1>1, TakesFirstLongest DEF FoundBy, w
<1> QED BY <1>5, <1>6, <1>7, Zenon DEF w, agree

\* What the state the encoder is in shows it.
SeenHere  == Walk(Chains, pos)
AgreeHere == AgreeAt(pos)
HashHere  == HashMatch(Chains, pos)
RepHere   == RepMatch(pos)

\* The state's own matches are functions of these.
LEMMA Here ==
  Block /\ pos \in 0..N => /\ HashHere = BestOf(SeenHere, AgreeHere, pos)
                           /\ RepHere = RepOf(recent, AgreeHere, pos)
BY BestIs, RepIs DEF HashHere, RepHere, SeenHere, AgreeHere

\* So a search after a step is the search over the chains that step leaves.
LEMMA SameSearch ==
  ASSUME Block, data' = data, recent' = recent, NEW c, Chains' = c, NEW p \in 0..N, pos' = p
  PROVE  /\ Walk(Chains, pos)' = Walk(c, p)
         /\ MatchAt(Chains, pos)' = MatchAt(c, p)
<1>1. SeenHere' = Walk(c, p)
  BY Zenon DEF SeenHere, Walk, HashAt, At
<1>2. AgreeHere' = AgreeAt(p)
  BY Zenon DEF AgreeHere, AgreeAt, Common, LongestAt, At, N
<1>3. (Block /\ pos \in 0..N => /\ HashHere = BestOf(SeenHere, AgreeHere, pos)
                              /\ RepHere = RepOf(recent, AgreeHere, pos))'
  BY Here, PTL
<1>4. (Block /\ pos \in 0..N)'
  BY DEF Block, N
<1>5. RepHere' = RepMatch(p)
  BY <1>2, <1>3, <1>4, RepIs
<1>6. HashHere' = HashMatch(c, p)
  BY <1>1, <1>2, <1>3, <1>4, BestIs
<1>7. MatchAt(Chains, pos)' = MatchAt(c, p)
  <2>1. CanHash(pos)' = CanHash(p)
    BY Zenon DEF CanHash, N
  <2> QED BY <1>5, <1>6, <2>1, Zenon DEF MatchAt, HashHere, RepHere
<1> QED BY <1>1, <1>7, Zenon DEF SeenHere

\* So is what a position takes, with the recent offsets: they are the same.
LEMMA MatchAtAgain ==
  ASSUME Block, recent \in [1..4 -> 1..Window], NEW c, ChainOK(c), NEW p \in 1..N, LinkOK(c, p - 1), CanHash(p),
         SearchEnds(Walk(Inserted(c, p), p), p), MatchAt(c, p).length >= 4
  PROVE  MatchAt(Inserted(c, p), p).length >= MatchAt(c, p).length
<1> DEFINE d == Inserted(c, p)
           rep == RepMatch(p)
           first == HashMatch(c, p)
           again == HashMatch(d, p)
<1>1. /\ MatchAt(c, p) = IF rep.length > 0 /\ (first.length > 0 => rep.length >= first.length - 1) THEN rep ELSE first
      /\ MatchAt(d, p) = IF rep.length > 0 /\ (again.length > 0 => rep.length >= again.length - 1) THEN rep ELSE again
  BY Zenon DEF MatchAt, Merge
<1>2. rep.length \in Nat /\ first.length \in Nat /\ again.length \in Nat
  <2>1. p \in 0..N
    BY DEF Block
  <2>2. Sound(rep, p) /\ Sound(first, p) /\ Sound(again, p)
    BY <2>1, RepMatchSound, HashMatchSound
  <2> HIDE DEF rep, first, again
  <2> QED BY <2>2, NoMatchEmpty, Constants DEF Sound, Agrees
<1>3. first.length >= 4 => again.length >= first.length
  BY HashMatchAgain
<1> HIDE DEF rep, first, again, d
<1> DEFINE r == rep.length
           f == first.length
           a == again.length
           m == MatchAt(c, p).length
           l == MatchAt(d, p).length
<1>4. /\ (r > 0 /\ (f > 0 => r >= f - 1)) => m = r
      /\ ~(r > 0 /\ (f > 0 => r >= f - 1)) => m = f
      /\ (r > 0 /\ (a > 0 => r >= a - 1)) => l = r
      /\ ~(r > 0 /\ (a > 0 => r >= a - 1)) => l = a
  BY <1>1, Zenon
<1>5. l >= m
  <2>1. m >= 4
    OBVIOUS
  <2> HIDE DEF r, f, a, m, l
  <2>2. r \in Nat /\ f \in Nat /\ a \in Nat /\ (f >= 4 => a >= f)
    BY <1>2, <1>3 DEF r, f, a
  <2> QED BY <1>4, <2>1, <2>2
<1> QED BY <1>5 DEF d

---------------------------------------------------------------------------
(* The promise of the lazy search.                                         *)

\* What was promised is there, where the search is not cut short.
LazyInv ==
  /\ covered < pos => promised = 0
  /\ promised > 0 => CanHash(pos)
  /\ Searching /\ SearchEnds(Walk(Chains, pos), pos) => MatchAt(Chains, pos).length >= promised

\* Nothing was promised.
LEMMA NothingPromised == IInv /\ promised = 0 => LazyInv
<1> SUFFICES ASSUME IInv, promised = 0 PROVE LazyInv
  OBVIOUS
<1>1. Searching => MatchAt(Chains, pos).length >= promised
  <2> SUFFICES ASSUME Searching PROVE MatchAt(Chains, pos).length >= promised
    OBVIOUS
  <2>1. Block /\ pos \in 0..N /\ recent \in [1..4 -> 1..Window]
    BY WhileSearching DEF Block
  <2>2. Sound(MatchAt(Chains, pos), pos)
    BY <2>1, MatchAtSound
  <2> QED BY <2>2, NoMatchEmpty, Constants DEF Sound, Agrees
<1> QED BY <1>1 DEF LazyInv

\* The lazy search promises a match, and it is found again.
LEMMA LazyKeepsPromise == IInv /\ Linked /\ EncodeLazily => LazyInv'
<1> SUFFICES ASSUME IInv, Linked, EncodeLazily PROVE LazyInv'
  OBVIOUS
<1> DEFINE here  == MatchAt(Chains, pos)
           c1    == Inserted(Chains, pos)
           next1 == MatchAt(c1, pos + 1)
           c2    == Inserted(c1, pos + 1)
           next2 == MatchAt(c2, pos + 2)
           skip  == IF next2.length > next1.length THEN 2 ELSE 1
<1>1. /\ Searching /\ CanHash(pos) /\ here # NoMatch /\ next1.length > here.length
      /\ Keep(c2) /\ EmitLiterals(skip) /\ UNCHANGED <<data, recent>>
      /\ promised' = IF skip = 2 THEN next2.length ELSE next1.length
  BY Zenon DEF EncodeLazily
<1>2. /\ Block /\ pos \in 0..N-1 /\ N \in Nat /\ ChainOK(Chains) /\ covered = pos
      /\ recent \in [1..4 -> 1..Window]
  BY <1>1, WhileSearching DEF Block
<1>3. Sound(here, pos) /\ Sound(next1, pos + 1)
  <2>1. pos \in 0..N /\ pos + 1 \in 0..N
    BY <1>2
  <2> QED BY <2>1, <1>2, MatchAtSound
<1>4. Agrees(here, pos) /\ here.length >= 3 /\ here.length \in Nat
  BY <1>1, <1>3, Constants DEF Sound, Agrees
<1>5. Agrees(next1, pos + 1) /\ next1.length \in Nat /\ next1.length >= 4
  <2>1. Agrees(next1, pos + 1)
    BY <1>1, <1>4, <1>3, NoMatchEmpty DEF Sound, Agrees
  <2>2. next1.length \in Nat
    BY <2>1, Constants DEF Agrees
  <2> HIDE DEF next1, here
  <2> QED BY <1>1, <1>4, <2>1, <2>2
<1> HIDE DEF here
<1>6. pos + 5 <= N /\ pos + 1 \in 1..N /\ pos + 2 \in 0..N /\ CanHash(pos + 1) /\ CanHash(pos + 2)
  <2>1. pos + 1 + next1.length <= N
    BY <1>5 DEF Agrees
  <2> HIDE DEF next1
  <2> QED BY <2>1, <1>2, <1>5 DEF CanHash
<1>7. Sound(next2, pos + 2) /\ next2.length \in Nat
  <2>1. Sound(next2, pos + 2)
    BY <1>2, <1>6, MatchAtSound
  <2> QED BY <2>1, NoMatchEmpty, Constants DEF Sound, Agrees
<1>8. ChainOK(c1) /\ LinkOK(c1, pos)
  <2>1. PICK m : LinkOK(Chains, m) /\ pos \in {m, m + 1}
    BY <1>1, <1>2 DEF Linked
  <2> QED BY <1>1, <1>2, <2>1, InsertedOK, InsertLinks
<1>9. Chains' = c2 /\ N' = N
  <2>1. Inserted(c1, pos + 1) = [head |-> Inserted(c1, pos + 1).head, prev |-> Inserted(c1, pos + 1).prev]
    BY DEF Inserted
  <2> HIDE DEF c1
  <2> QED BY <1>1, <2>1 DEF Keep, Chains, N
<1>10. CASE skip = 2
  <2>1. pos' = pos + 2 /\ covered' = pos + 2 /\ promised' = next2.length
    <3> HIDE DEF skip
    <3> QED BY <1>1, <1>10 DEF EmitLiterals
  <2>2. MatchAt(Chains, pos)' = next2
    <3> HIDE DEF c2
    <3>1. pos + 2 \in 0..N
      BY <1>6
    <3> QED BY <1>1, <1>2, <1>9, <2>1, <3>1, SameSearch
  <2>3. next2.length >= next2.length
    <3> HIDE DEF next2
    <3> QED BY <1>7
  <2>4. CanHash(pos)'
    BY <1>2, <1>6, <1>9, <2>1 DEF CanHash
  <2>5. (MatchAt(Chains, pos).length >= promised)'
    BY <2>1, <2>2, <2>3, Zenon
  <2>6. ~(covered < pos)'
    BY <1>2, <2>1
  <2> QED BY <2>4, <2>5, <2>6 DEF LazyInv
<1>11. CASE skip = 1
  <2>1. pos' = pos + 1 /\ covered' = pos + 1 /\ promised' = next1.length
    <3> HIDE DEF skip
    <3> QED BY <1>1, <1>11 DEF EmitLiterals
  <2> DEFINE again == MatchAt(c2, pos + 1)
             seen == Walk(c2, pos + 1)
  <2>2. MatchAt(Chains, pos)' = again /\ Walk(Chains, pos)' = seen
    <3> HIDE DEF c2
    <3>1. pos + 1 \in 0..N
      BY <1>2
    <3> QED BY <1>1, <1>2, <1>9, <2>1, <3>1, SameSearch
  <2>3. SearchEnds(seen, pos + 1) => again.length >= next1.length
    <3> HIDE DEF c1
    <3>1. (pos + 1) - 1 = pos
      BY <1>2
    <3>2. LinkOK(c1, (pos + 1) - 1)
      BY <1>8, <3>1
    <3> QED BY <1>2, <1>5, <1>6, <1>8, <3>2, MatchAtAgain
  <2> HIDE DEF again, seen, next1
  <2>4. SearchEnds(Walk(Chains, pos), pos)' => SearchEnds(seen, pos + 1)
    BY <2>1, <2>2, Zenon DEF SearchEnds, Beyond
  <2>5. (SearchEnds(Walk(Chains, pos), pos) => MatchAt(Chains, pos).length >= promised)'
    BY <2>1, <2>2, <2>3, <2>4, Zenon
  <2>6. CanHash(pos)'
    BY <1>2, <1>6, <1>9, <2>1 DEF CanHash
  <2>7. ~(covered < pos)'
    BY <1>2, <2>1
  <2> QED BY <2>5, <2>6, <2>7 DEF LazyInv
<1>12. skip = 2 \/ skip = 1
  OBVIOUS
<1> QED BY <1>10, <1>11, <1>12

\* A step that leaves the encoder alone keeps it.
LEMMA IdleKeepsPromise ==
  ASSUME IInv, LazyInv, UNCHANGED <<data, pos, covered, head, prev, recent, promised>>
  PROVE  LazyInv'
<1>1. Block /\ pos \in 0..N
  BY IsBlock DEF IInv, TypeOK
<1>2. Chains' = Chains /\ N' = N
  BY DEF Chains, N
<1> DEFINE c == Chains
           match == MatchAt(c, pos)
           seen == Walk(c, pos)
<1>3. MatchAt(Chains, pos)' = match /\ Walk(Chains, pos)' = seen
  <2>1. Chains' = c /\ pos' = pos
    BY <1>2
  <2> HIDE DEF c
  <2> QED BY <1>1, <2>1, SameSearch
<1>4. Searching /\ SearchEnds(seen, pos) => match.length >= promised
  BY DEF LazyInv
<1> HIDE DEF match, seen
<1>5. SearchEnds(Walk(Chains, pos), pos)' => SearchEnds(seen, pos)
  BY <1>3, Zenon DEF SearchEnds, Beyond
<1>6. Searching' => Searching
  BY <1>2 DEF Searching
<1>7. (Searching /\ SearchEnds(Walk(Chains, pos), pos) => MatchAt(Chains, pos).length >= promised)'
  BY <1>3, <1>4, <1>5, <1>6, Zenon
<1>8. (covered < pos => promised = 0)' /\ (promised > 0 => CanHash(pos))'
  BY <1>2 DEF LazyInv, CanHash
<1> QED BY <1>7, <1>8 DEF LazyInv

\* Every other step promises nothing, or moves nothing the promise is about.
LEMMA NextKeepsPromise == IInv /\ IInv' /\ Linked /\ LazyInv /\ [Next]_vars => LazyInv'
<1> SUFFICES ASSUME IInv, IInv', Linked, LazyInv, [Next]_vars PROVE LazyInv'
  OBVIOUS
<1>1. (IInv /\ promised = 0 => LazyInv)'
  BY NothingPromised, PTL
<1>2. CASE EncodeTail \/ EncodeLiteral \/ EncodeMatch
  <2>1. promised' = 0
    BY <1>2, Zenon DEF EncodeTail, EncodeLiteral, EncodeMatch
  <2> QED BY <1>1, <2>1
<1>3. CASE EncodeLazily
  BY <1>3, LazyKeepsPromise
<1>4. CASE Cover
  <2>1. promised' = 0
    BY <1>4 DEF Cover, LazyInv
  <2> QED BY <1>1, <2>1
<1>5. CASE Decode \/ UNCHANGED vars
  <2>1. UNCHANGED <<data, pos, covered, head, prev, recent, promised>>
    BY <1>5 DEF Decode, DecodeLiteral, DecodeMatch, DecodeEnd, encVars, vars
  <2> QED BY <2>1, IdleKeepsPromise
<1> QED BY <1>2, <1>3, <1>4, <1>5 DEF Next, Encode

\* The match a literal was spent to reach is found when it is searched for
\* again (encoder.rs: encode), or a longer one, for any hash function, window
\* and recent offsets, wherever MaxChain lets the search come to its end.
THEOREM LazyReachesWhatItSaw ==
  Spec => [](SearchEnds(Walk(Chains, pos), pos) => LazyReachesBest)
<1>1. Init => LazyInv
  <2>1. Init => promised = 0
    BY DEF Init
  <2> QED BY <2>1, InitInv, NothingPromised
<1>2. IInv /\ IInv' /\ Linked /\ LazyInv /\ [Next]_vars => LazyInv'
  BY NextKeepsPromise
<1>3. LazyInv => (SearchEnds(Walk(Chains, pos), pos) => LazyReachesBest)
  BY DEF LazyInv, LazyReachesBest
<1> QED
  BY <1>1, <1>2, <1>3, Inductive, StaysLinked, PTL DEF Spec
=============================================================================
