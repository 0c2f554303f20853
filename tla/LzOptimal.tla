------------------------------ MODULE LzOptimal ------------------------------
(***************************************************************************)
(* The optimal parse of a block into LZ77 tokens (src/lz77/optimal.rs): a  *)
(* shortest path from its first byte to its end, over edges priced by the  *)
(* codes that the parse before would have had; and the tokens as bytes     *)
(* (src/lz77/serial.rs).  One action is one position of one parse.         *)
(***************************************************************************)
EXTENDS Integers, Sequences, FiniteSets, SequencesExt

CONSTANTS
  Blocks,        \* what is parsed, none empty
  Hostile,       \* serialized tokens that no encoder made
  Parses,        \* n_iterations, 1 at least
  Literals,      \* values of a byte: 256
  LengthTable,   \* LENGTH_TABLE: rows <<base, extra bits>>
  DistTable,     \* DIST_TABLE
  Cap,           \* most bits of a code: 15
  Window,        \* MAX_WINDOW: 2^22
  MaxMatch,      \* MAX_MATCH
  MaxChain,      \* MAX_CHAIN
  Dense,         \* matches up to this length are tried at every length: 10
  Sparse,        \* lengths that are tried of longer ones: 4, 6, 8, 12, ...
  Hash(_, _, _), \* hash3
  LenBits        \* bits of a length in a serialized token: 10

VARIABLES
  data,  \* [kind, bytes]
  enc,   \* [parse, at, cost, from, head, prev, price, tokens, last, status]
  dec    \* what is made of the serialized tokens: [ready, tokens, out, error]

vars == <<data, enc, dec>>

Huff == INSTANCE Huffman WITH Inputs <- {}, Hostile <- {}, Group <- << >>, LenBits <- 0, ClBits <- 0, ClOrder <- << >>,
                              BlockSize <- 1, InitialBlock <- 1, MinBlock <- 1

MinMatch == 3
Nil      == -1
Inf      == 100000              \* COST_INF: more than any path of real edges costs
N        == Len(data.bytes)
At(p)    == data.bytes[p + 1]   \* positions count from 0
LeastOf2(a, b) == IF a < b THEN a ELSE b

---------------------------------------------------------------------------
(* PriceModel, in whole bits                                               *)

\* initial: the extra bits of an edge are in here and in MatchCost.
InitialPrice ==
  [lit  |-> [s \in Huff!LitLen |-> IF s <= Literals THEN 8 ELSE 7 + LengthTable[s - Literals][2]],
   dist |-> [s \in Huff!Dist |-> IF s < Huff!RepOffset0 THEN 5 + DistTable[s + 1][2] ELSE 2]]

PriceOf(freqs) ==
  LET lengths == Huff!Codes!CodeLengths(freqs)
  IN  [s \in DOMAIN freqs |-> IF lengths[s] > 0 THEN lengths[s] ELSE Inf]

\* No recent offsets here: each token's own symbols are counted.
OwnSymbols(tokens) ==
  [k \in DOMAIN tokens |->
     IF tokens[k].match
     THEN [main |-> Huff!EncodeLength(tokens[k].length), dist |-> Huff!EncodeOffset(tokens[k].offset)]
     ELSE [main |-> [symbol |-> tokens[k].byte], dist |-> [symbol |-> Nil]]]

\* MUTANT: only the tokens that are matches are counted.
NextPriceOfMatches(tokens) ==
  LET symbols == OwnSymbols(SelectSeq(tokens, LAMBDA t : t.match))
  IN  [lit |-> PriceOf(Huff!LitLenFreq(symbols)), dist |-> PriceOf(Huff!DistFreq(symbols))]

\* from_code_lengths: what does not occur in the parse before cannot occur.
NextPrice(tokens) ==
  LET symbols == OwnSymbols(tokens)
  IN  [lit |-> PriceOf(Huff!LitLenFreq(symbols)), dist |-> PriceOf(Huff!DistFreq(symbols))]

MatchCost(price, length, offset) ==
  LET l == Huff!EncodeLength(length)
      d == Huff!EncodeOffset(offset)
  IN  IF price.lit[l.symbol] >= Inf \/ price.dist[d.symbol] >= Inf THEN Inf
      ELSE price.lit[l.symbol] + l.extra + price.dist[d.symbol] + d.extra

---------------------------------------------------------------------------
(* HashChain, find_all_matches                                             *)

CanHash(p) == p + 3 <= N
HashAt(p)  == Hash(At(p), At(p + 1), At(p + 2))
InsertedAt(chain, p) ==
  IF ~CanHash(p) THEN chain
  ELSE [head |-> [chain.head EXCEPT ![HashAt(p)] = p], prev |-> [chain.prev EXCEPT ![p % Window] = chain.head[HashAt(p)]]]

\* How many bytes are the same at c and p.
Common(c, p) ==
  LET most == LeastOf2(MaxMatch, N - p)
      same[k \in 0..most] == IF k < most /\ At(c + k) = At(p + k) THEN 1 + same[k + 1] ELSE 0
  IN  same[0]

\* Along the chain, each match that is longer than those before it; a position
\* that is not before p is passed, one outside the window ends the search, as
\* does a match that can be no longer.
Found(chain, p) ==
  LET walk[k \in 0..MaxChain] ==
        IF k = 0 THEN [at |-> IF CanHash(p) THEN chain.head[HashAt(p)] ELSE Nil, best |-> MinMatch - 1, found |-> << >>]
        ELSE LET w    == walk[k - 1]
                 next == chain.prev[w.at % Window]
                 len  == IF w.at \in 0 .. p - 1 THEN Common(w.at, p) ELSE 0
             IN  IF w.at = Nil THEN w
                 ELSE IF p - w.at > Window THEN [w EXCEPT !.at = Nil]
                 ELSE IF len > w.best
                 THEN [at |-> IF len = LeastOf2(MaxMatch, N - p) THEN Nil ELSE next, best |-> len,
                       found |-> Append(w.found, [offset |-> p - w.at, length |-> len])]
                 ELSE [w EXCEPT !.at = next]
  IN  walk[MaxChain].found

---------------------------------------------------------------------------
(* optimal_parse                                                           *)

\* The lengths tried of a match, the shorter first.
Tried(length) ==
  SetToSortSeq(IF length <= Dense THEN MinMatch..length
               ELSE {MinMatch, length} \cup {l \in Sparse : MinMatch < l /\ l < length}, LAMBDA a, b : a < b)

\* The edges out of p in the order they are tried: a literal has length 0.
Edges(chain, price, p) ==
  LET found == Found(chain, p)
      of(m) == LET tried == Tried(m.length)
               IN  [k \in DOMAIN tried |-> [length |-> tried[k], offset |-> m.offset,
                                            end |-> p + tried[k], cost |-> MatchCost(price, tried[k], m.offset)]]
  IN  <<[length |-> 0, offset |-> 0, end |-> p + 1, cost |-> price.lit[At(p)]]>>
      \o FlattenSeq([k \in DOMAIN found |-> of(found[k])])

\* MUTANT: a path that is longer than the one known takes its place.
RelaxedAlways(e, edge, base) ==
  IF base + edge.cost >= Inf THEN e
  ELSE [e EXCEPT !.cost[edge.end] = base + edge.cost, !.from[edge.end] = [length |-> edge.length, offset |-> edge.offset]]

\* The end of an edge remembers it if it is the cheapest so far.
Relaxed(e, edge, base) ==
  IF base + edge.cost >= e.cost[edge.end] THEN e
  ELSE [e EXCEPT !.cost[edge.end] = base + edge.cost, !.from[edge.end] = [length |-> edge.length, offset |-> edge.offset]]

ChainOf(e) == [head |-> e.head, prev |-> e.prev]

EmptyChain ==
  [head |-> [h \in {Hash(At(p), At(p + 1), At(p + 2)) : p \in 0 .. N - 3} |-> Nil], prev |-> [p \in 0 .. Window - 1 |-> Nil]]

\* A parse before its first position.
NewParse(parse, price, tokens) ==
  [parse |-> parse, at |-> 0, cost |-> [p \in 0..N |-> IF p = 0 THEN 0 ELSE Inf],
   from |-> [p \in 0..N |-> [length |-> 0, offset |-> 0]], head |-> EmptyChain.head, prev |-> EmptyChain.prev,
   price |-> price, tokens |-> << >>, last |-> tokens, status |-> "forward"]

\* A position no path reaches is passed, and not put on the chain.
Forward ==
  /\ enc.status = "forward" /\ enc.at < N
  /\ enc' = IF enc.cost[enc.at] >= Inf THEN [enc EXCEPT !.at = @ + 1]
            ELSE LET chain == InsertedAt(ChainOf(enc), enc.at)
                     e == [enc EXCEPT !.head = chain.head, !.prev = chain.prev]
                 IN  [FoldLeft(LAMBDA f, edge : Relaxed(f, edge, enc.cost[enc.at]), e, Edges(chain, enc.price, enc.at))
                        EXCEPT !.at = enc.at + 1]
  /\ UNCHANGED <<data, dec>>

\* From the end back to the start, each position by what it remembers.
Path(from) ==
  LET path[p \in 0..N] ==
        IF p = 0 THEN << >>
        ELSE IF from[p].length = 0 THEN Append(path[p - 1], Huff!Literal(At(p - 1)))
        ELSE Append(path[p - from[p].length], Huff!Match(from[p].offset, from[p].length))
  IN  path[N]

Trace ==
  /\ enc.status = "forward" /\ enc.at = N
  /\ enc' = [enc EXCEPT !.tokens = Path(enc.from), !.status = "traced"]
  /\ UNCHANGED <<data, dec>>

Again ==
  /\ enc.status = "traced" /\ enc.parse < Parses /\ ~dec.ready
  /\ enc' = NewParse(enc.parse + 1, NextPrice(enc.tokens), enc.tokens)
  /\ UNCHANGED <<data, dec>>

---------------------------------------------------------------------------
(* serialize, deserialize, lz77_decode                                     *)

\* MUTANT: a length is written whole.
TokenBytesWhole(token) ==
  LET packed == (token.offset * 2^LenBits + token.length) % Literals^4
  IN  IF ~token.match THEN <<0, token.byte>>
      ELSE <<1>> \o [k \in 1..4 |-> (packed \div Literals^(4 - k)) % Literals]

\* A literal is two bytes, a match five: four of them hold the offset above
\* the length, and what does not fit in them is lost.
TokenBytes(token) ==
  LET packed == (token.offset * 2^LenBits + ((token.length - MinMatch) % 2^LenBits)) % Literals^4
  IN  IF ~token.match THEN <<0, token.byte>>
      ELSE <<1>> \o [k \in 1..4 |-> (packed \div Literals^(4 - k)) % Literals]

Serialize(tokens) == FlattenSeq([k \in DOMAIN tokens |-> TokenBytes(tokens[k])])

\* Tokens up to the end, or to one that is cut short or of no known kind.
Deserialize(bytes) ==
  LET packed(p) == FoldLeft(LAMBDA sum, b : sum * Literals + b, 0, SubSeq(bytes, p + 1, p + 4))
      n == Len(bytes)
      read[p \in 1 .. n + 1] ==
        IF p = n + 1 THEN [ok |-> TRUE, tokens |-> << >>]
        ELSE LET size == IF bytes[p] = 0 THEN 2 ELSE IF bytes[p] = 1 THEN 5 ELSE n + 1
                 token == IF bytes[p] = 0 THEN Huff!Literal(bytes[p + 1])
                          ELSE Huff!Match(packed(p) \div 2^LenBits, (packed(p) % 2^LenBits) + MinMatch)
             IN  IF p + size - 1 > n THEN [ok |-> FALSE, tokens |-> << >>]
                 ELSE [ok |-> read[p + size].ok, tokens |-> <<token>> \o read[p + size].tokens]
  IN  read[1]

\* A copy may run into the bytes it makes; an offset of 0 or before the first
\* byte ends it.
Decoded(tokens) ==
  LET copied(out, offset, length) == out \o [k \in 1..length |-> out[Len(out) - offset + 1 + ((k - 1) % offset)]]
  IN  FoldLeft(LAMBDA s, t :
        IF ~s.ok THEN s
        ELSE IF ~t.match THEN [s EXCEPT !.out = Append(@, t.byte)]
        ELSE IF t.offset = 0 \/ t.offset > Len(s.out) THEN [s EXCEPT !.ok = FALSE]
        ELSE [s EXCEPT !.out = copied(@, t.offset, t.length)], [ok |-> TRUE, out |-> << >>], tokens)

\* decompress
Decompress ==
  /\ ~dec.ready /\ (data.kind = "hostile" \/ enc.status = "traced")
  /\ LET read == Deserialize(IF data.kind = "hostile" THEN data.bytes ELSE Serialize(enc.tokens))
         made == Decoded(read.tokens)
     IN  dec' = [ready |-> TRUE, tokens |-> IF read.ok THEN read.tokens ELSE << >>,
                 ok |-> read.ok /\ made.ok, out |-> IF read.ok /\ made.ok THEN made.out ELSE << >>]
  /\ UNCHANGED <<data, enc>>

Init ==
  /\ data \in [kind : {"block"}, bytes : Blocks] \cup [kind : {"hostile"}, bytes : Hostile]
  /\ enc = IF data.kind = "block" THEN NewParse(1, InitialPrice, << >>) ELSE [status |-> "none"]
  /\ dec = [ready |-> FALSE, tokens |-> << >>, ok |-> TRUE, out |-> << >>]

Next == Forward \/ Trace \/ Again \/ Decompress
Spec == Init /\ [][Next]_vars

---------------------------------------------------------------------------
PathCost(price, tokens) ==
  LET cost(t) == IF t.match THEN MatchCost(price, t.length, t.offset) ELSE price.lit[t.byte]
  IN  FoldLeft(LAMBDA sum, t : LeastOf2(sum + cost(t), Inf), 0, tokens)

\* Every position can be reached in every parse, although a byte or a length
\* the parse before did not use has no price: the first of each byte is always
\* a literal.  So every position is on the chain (optimal_parse's two skips).
AllReached ==
  data.kind = "block" /\ enc.status = "forward" => \A p \in 0..enc.at : enc.cost[p] < Inf

\* The tokens traced are the block, and cost what its end was reached for: no
\* more than the parse before would at these prices, nor than any other path
\* over edges that are tried.
ParseIsShortest ==
  data.kind = "block" /\ enc.status = "traced" =>
    LET chain[p \in 0..N] == IF p = 0 THEN EmptyChain ELSE InsertedAt(chain[p - 1], p - 1)
        edges == [p \in 0 .. N - 1 |-> Edges(chain[p + 1], enc.price, p)]
        toEnd[p \in 0..N] ==
          IF p = N THEN 0
          ELSE FoldLeft(LAMBDA least, e : LeastOf2(least, e.cost + toEnd[e.end]), Inf, edges[p])
    IN  /\ Decoded(enc.tokens) = [ok |-> TRUE, out |-> data.bytes]
        /\ PathCost(enc.price, enc.tokens) = enc.cost[N]
        /\ enc.cost[N] = toEnd[0]
        /\ enc.parse > 1 => enc.cost[N] <= PathCost(enc.price, enc.last)

\* Tokens whose offsets are less than the window, the most 22 bits hold, come
\* back from their bytes, and bytes that are tokens at all from those; one
\* offset of the whole window becomes 0 and the payload is refused, never
\* misread (serialize, deserialize).
SerialExact ==
  dec.ready =>
    LET whole == \A k \in DOMAIN enc.tokens : enc.tokens[k].match => enc.tokens[k].offset < Window
    IN  IF data.kind = "block"
        THEN IF whole THEN dec.ok /\ dec.out = data.bytes /\ dec.tokens = enc.tokens ELSE ~dec.ok
        ELSE dec.tokens # << >> => Serialize(dec.tokens) = data.bytes
=============================================================================
