-------------------------------- MODULE Lz77 --------------------------------
(***************************************************************************)
(* The LZ77 stage of the baseline codec (src/lz77/{hash,encoder,decoder}): *)
(* hash chains over a sliding window, lazy matching that looks two         *)
(* positions ahead, four recent offsets, and the decoder that is given the *)
(* tokens and the length of the block.                                     *)
(*                                                                         *)
(* Positions count from 0, as in the code.  One action is one turn of the  *)
(* encoder's loop, one insertion of a covered position, or one byte of the *)
(* decoder.  The numbers of the code are CONSTANTS, so that small windows  *)
(* and chains wrap and end.                                                *)
(***************************************************************************)
EXTENDS Integers, Sequences, LeastOf

CONSTANTS
  Byte,       \* byte values
  MaxLen,     \* bound on the length of the input
  Window,     \* MAX_WINDOW
  MaxMatch,   \* MAX_MATCH
  MaxChain,   \* MAX_CHAIN
  Near, Far,  \* offsets above which a match of three is doubtful, or refused
  Steps,      \* chain steps after which a doubtful one is refused
  Hash        \* hash3: a function of three bytes

MinMatch == 3
Nil      == -1                  \* u32::MAX: no position
Hashes   == {Hash[t] : t \in Byte \X Byte \X Byte}

ASSUME Lz77Assumption ==
  /\ MaxLen \in Nat /\ Window \in Nat /\ Window >= 4
  /\ MaxMatch \in Nat /\ MaxMatch >= MinMatch
  /\ MaxChain \in Nat \ {0} /\ Near \in Nat /\ Far \in Nat /\ Steps \in Nat
  /\ Hash \in [Byte \X Byte \X Byte -> Hashes]

VARIABLES
  data,      \* the block
  pos,       \* encoder: where it is
  covered,   \*   position of the last match to insert next; pos when all are
  head, prev,\*   the hash chains
  recent,    \*   MruCache
  tokens,    \*   what it has emitted
  starts,    \* history: the position each token stands for
  promised,  \* history: the length of the match that made it skip to pos
  next,      \* decoder: the token it is at
  copied,    \*   bytes of it copied
  output, status

encVars == <<pos, covered, head, prev, recent, tokens, starts, promised>>
decVars == <<next, copied, output, status>>
vars == <<data, encVars, decVars>>

At(p) == data[p + 1]
N     == Len(data)

---------------------------------------------------------------------------
(* hash.rs                                                                 *)

\* There are three bytes to hash at p.
CanHash(p) == p + 3 <= N
HashAt(p)  == Hash[<<At(p), At(p + 1), At(p + 2)>>]

\* MUTANT: a slot is one too far.
InsertedNextSlot(c, p) ==
  [head |-> [c.head EXCEPT ![HashAt(p)] = p],
   prev |-> [c.prev EXCEPT ![(p + 1) % Window] = c.head[HashAt(p)]]]

\* The chains with position p in front of those with its hash.
Inserted(c, p) ==
  [head |-> [c.head EXCEPT ![HashAt(p)] = p],
   prev |-> [c.prev EXCEPT ![p % Window] = c.head[HashAt(p)]]]

Chains == [head |-> head, prev |-> prev]

\* MUTANT: a position not before p ends the search.
WalkStops(c, p) ==
  LET after(q) == IF q = Nil \/ q >= p THEN Nil ELSE c.prev[q % Window]
      w[k \in 0..MaxChain-1] == IF k = 0 THEN c.head[HashAt(p)] ELSE after(w[k - 1])
  IN  w

\* The positions a search for p looks at, in order: at most MaxChain of the
\* chain of its hash, a slot that was reused leading to younger ones.
Walk(c, p) ==
  LET after(q) == IF q = Nil THEN Nil ELSE c.prev[q % Window]
      w[k \in 0..MaxChain-1] == IF k = 0 THEN c.head[HashAt(p)] ELSE after(w[k - 1])
  IN  w

NoMatch == [offset |-> 0, length |-> 0, rep |-> FALSE]
LongestAt(p) == IF N - p < MaxMatch THEN N - p ELSE MaxMatch

\* How many bytes at p repeat those at q, at most LongestAt(p).
Common(q, p) ==
  LET differ == {l \in 0 .. LongestAt(p) - 1 : At(q + l) # At(p + l)}
  IN  IF differ = {} THEN LongestAt(p) ELSE Least(differ)

\* The first place of the greatest length.
FirstLongest(length) ==
  CHOOSE k \in DOMAIN length :
    \A j \in DOMAIN length : length[j] < length[k] \/ (length[j] = length[k] /\ k <= j)

\* MUTANT: the window is one position too long.
BeyondByOne(q, p) == q \in 0..p-1 /\ p - q > Window + 1
\* A candidate before p, and too far before it.
Beyond(q, p) == q \in 0..p-1 /\ p - q > Window

\* find_best_match_with_steps and filter_hash_match: candidates not before p
\* are passed over, the first one beyond the window ends the search; a match of
\* three far back, or not found at once, is not worth its bits.
HashMatch(c, p) ==
  LET w        == Walk(c, p)
      found    == {k \in 0..MaxChain-1 :
                     /\ w[k] \in 0..p-1 /\ Common(w[k], p) >= MinMatch
                     /\ \A j \in 0..k : ~Beyond(w[j], p)}
      k        == FirstLongest([j \in found |-> Common(w[j], p)])
      offset   == p - w[k]
      length   == Common(w[k], p)
      doubtful == length = 3 /\ (offset > Far \/ (offset > Near /\ k >= Steps))
  IN  IF found = {} \/ doubtful THEN NoMatch
      ELSE [offset |-> offset, length |-> length, rep |-> FALSE]

---------------------------------------------------------------------------
(* encoder.rs                                                              *)

\* try_rep_match: the first longest of the recent offsets.
RepMatch(p) ==
  LET found == {i \in 1..4 : recent[i] \in 1..p /\ Common(p - recent[i], p) >= MinMatch}
      i     == FirstLongest([j \in found |-> Common(p - recent[j], p)])
  IN  IF found = {} THEN NoMatch
      ELSE [offset |-> recent[i], length |-> Common(p - recent[i], p), rep |-> TRUE]

\* MUTANT: the longer length with the recent offset.
MergeMixed(rep, hash) ==
  IF rep.length > 0 /\ (hash.length > 0 => rep.length >= hash.length - 1)
  THEN [rep EXCEPT !.length = IF hash.length > rep.length THEN hash.length ELSE rep.length]
  ELSE hash

\* merge_rep_and_hash: a recent offset may be one byte shorter.
Merge(rep, hash) ==
  IF rep.length > 0 /\ (hash.length > 0 => rep.length >= hash.length - 1) THEN rep ELSE hash

MatchAt(c, p) == IF CanHash(p) THEN Merge(RepMatch(p), HashMatch(c, p)) ELSE NoMatch

\* MUTANT: an offset is entered again.
UsedTwice(offset) == [j \in 1..4 |-> IF j = 1 THEN offset ELSE recent[j - 1]]

\* MruCache: the offset moves to the front, the last goes if it is a new one.
Used(offset) ==
  IF \E i \in 1..4 : recent[i] = offset
  THEN LET i == Least({j \in 1..4 : recent[j] = offset})
       IN  [j \in 1..4 |-> IF j = 1 THEN offset ELSE IF j <= i THEN recent[j - 1] ELSE recent[j]]
  ELSE [j \in 1..4 |-> IF j = 1 THEN offset ELSE recent[j - 1]]

Literal(b)     == [offset |-> 0, length |-> 1, byte |-> b]
Match(m)       == [offset |-> m.offset, length |-> m.length, byte |-> Nil]
IsMatch(token) == token.offset > 0

\* MUTANT: only the first of them goes out.
EmitOne(k) ==
  /\ tokens' = Append(tokens, Literal(At(pos))) /\ starts' = Append(starts, pos)
  /\ pos' = pos + k /\ covered' = pos + k

\* The next k positions go out as literals.
EmitLiterals(k) ==
  /\ tokens' = tokens \o [i \in 1..k |-> Literal(At(pos + i - 1))]
  /\ starts' = starts \o [i \in 1..k |-> pos + i - 1]
  /\ pos' = pos + k /\ covered' = pos + k

Keep(c) == head' = c.head /\ prev' = c.prev

Init ==
  /\ data \in UNION {[1..n -> Byte] : n \in 0..MaxLen}
  /\ pos = 0 /\ covered = 0
  /\ head = [h \in Hashes |-> Nil] /\ prev = [s \in 0..Window-1 |-> Nil]
  /\ recent = [i \in 1..4 |-> i]
  /\ tokens = <<>> /\ starts = <<>> /\ promised = 0
  /\ next = 1 /\ copied = 0 /\ output = <<>> /\ status = "running"

Searching == covered = pos /\ pos < N

\* Fewer than three bytes are left.
EncodeTail ==
  /\ Searching /\ ~CanHash(pos)
  /\ EmitLiterals(N - pos)
  /\ promised' = 0
  /\ UNCHANGED <<data, head, prev, recent, decVars>>

EncodeLiteral ==
  /\ Searching /\ CanHash(pos)
  /\ MatchAt(Chains, pos) = NoMatch
  /\ Keep(Inserted(Chains, pos))
  /\ EmitLiterals(1)
  /\ promised' = 0
  /\ UNCHANGED <<data, recent, decVars>>

\* A longer match one position on: the one here is given up, and a position is
\* skipped, or two if the match there is longer again.
EncodeLazily ==
  LET here  == MatchAt(Chains, pos)
      c1    == Inserted(Chains, pos)
      next1 == MatchAt(c1, pos + 1)
      c2    == Inserted(c1, pos + 1)
      next2 == MatchAt(c2, pos + 2)
      skip  == IF next2.length > next1.length THEN 2 ELSE 1
  IN
  /\ Searching /\ CanHash(pos)
  /\ here # NoMatch /\ next1.length > here.length
  /\ Keep(c2)
  /\ EmitLiterals(skip)
  /\ promised' = IF skip = 2 THEN next2.length ELSE next1.length
  /\ UNCHANGED <<data, recent, decVars>>

EncodeMatch ==
  LET here == MatchAt(Chains, pos)
      c1   == Inserted(Chains, pos)
  IN
  /\ Searching /\ CanHash(pos)
  /\ here # NoMatch /\ ~(MatchAt(c1, pos + 1).length > here.length)
  /\ Keep(c1)
  /\ tokens' = Append(tokens, Match(here)) /\ starts' = Append(starts, pos)
  /\ recent' = Used(here.offset)
  /\ covered' = pos + 1 /\ pos' = pos + here.length
  /\ promised' = 0
  /\ UNCHANGED <<data, decVars>>

\* MUTANT: one position too many.
CoverPast ==
  /\ covered <= pos
  /\ IF CanHash(covered) THEN Keep(Inserted(Chains, covered)) ELSE UNCHANGED <<head, prev>>
  /\ covered' = covered + 1
  /\ UNCHANGED <<data, pos, recent, tokens, starts, promised, decVars>>

\* The positions a match covers enter the chains too.
Cover ==
  /\ covered < pos
  /\ IF CanHash(covered) THEN Keep(Inserted(Chains, covered)) ELSE UNCHANGED <<head, prev>>
  /\ covered' = covered + 1
  /\ UNCHANGED <<data, pos, recent, tokens, starts, promised, decVars>>

---------------------------------------------------------------------------
(* decoder.rs, with the length of the block as its limit.                  *)

Encoded  == pos = N /\ covered = pos
Decoding == Encoded /\ status = "running" /\ next <= Len(tokens)
Token    == tokens[next]

DecodeLiteral ==
  /\ Decoding /\ ~IsMatch(Token)
  /\ IF Len(output) >= N
     THEN status' = "too large" /\ UNCHANGED <<next, output>>
     ELSE output' = Append(output, Token.byte) /\ next' = next + 1 /\ UNCHANGED status
  /\ UNCHANGED <<data, encVars, copied>>

BadMatch ==
  IF Len(output) + Token.length > N THEN "too large"
  ELSE IF Token.offset > Len(output) THEN "invalid match"
  ELSE "no"

\* A match is checked before its first byte; a byte may be one just copied.
DecodeMatch ==
  /\ Decoding /\ IsMatch(Token)
  /\ IF copied = 0 /\ BadMatch # "no"
     THEN status' = BadMatch /\ UNCHANGED <<next, copied, output>>
     ELSE /\ output' = Append(output, output[Len(output) - Token.offset + 1])
          /\ copied' = (copied + 1) % Token.length
          /\ next' = IF copied + 1 = Token.length THEN next + 1 ELSE next
          /\ UNCHANGED status
  /\ UNCHANGED <<data, encVars>>

DecodeEnd ==
  /\ Encoded /\ status = "running" /\ next > Len(tokens)
  /\ status' = "ok"
  /\ UNCHANGED <<data, encVars, next, copied, output>>

Encode == EncodeTail \/ EncodeLiteral \/ EncodeLazily \/ EncodeMatch \/ Cover
Decode == DecodeLiteral \/ DecodeMatch \/ DecodeEnd
Next   == Encode \/ Decode

Spec == Init /\ [][Next]_vars
---------------------------------------------------------------------------
(* Properties.                                                             *)

\* Types of the variables.
TypeOK ==
  /\ data \in Seq(Byte) /\ pos \in 0..N /\ covered \in 0..pos
  /\ head \in [Hashes -> 0..N \cup {Nil}] /\ prev \in [0..Window-1 -> 0..N \cup {Nil}]
  /\ recent \in [1..4 -> Nat]
  /\ tokens \in Seq([offset : Nat, length : Nat, byte : Byte \cup {Nil}])
  /\ starts \in Seq(0..N) /\ promised \in 0..MaxMatch
  /\ next \in 1..Len(tokens)+1 /\ copied \in 0..N
  /\ output \in Seq(Byte)
  /\ status \in {"running", "ok", "too large", "invalid match"}

\* What was encoded is decoded, byte by byte, within the length of the block
\* and with no token refused, and all of it: overlapping matches, recent
\* offsets, reused slots and chains that lead astray included.
RoundTrip ==
  /\ status \in {"running", "ok"}
  /\ Len(output) <= N /\ \A i \in 1..Len(output) : output[i] = data[i]
  /\ status = "ok" => output = data

\* types.rs: offsets are 1..=MAX_WINDOW, lengths MIN_MATCH..=MAX_MATCH, whatever
\* the recent offsets were and however slots were reused.
TokensInRange ==
  \A k \in 1..Len(tokens) : IsMatch(tokens[k]) =>
    tokens[k].offset \in 1..Window /\ tokens[k].length \in MinMatch..MaxMatch

\* The position after the first k tokens.
End(k) == IF k = 0 THEN 0 ELSE starts[k] + tokens[k].length

\* The tokens cover the block once, from its start, without gap or overlap, also
\* where the encoder gave up a match it had found for one further on.
TokensTile ==
  /\ Len(starts) = Len(tokens)
  /\ \A k \in 1..Len(tokens) : starts[k] = End(k - 1)
  /\ End(Len(tokens)) = pos

\* The four recent offsets stay different from each other: an offset that is
\* there already is moved, not entered twice.
RecentDistinct == \A i, j \in 1..4 : recent[i] = recent[j] => i = j

\* Positions that are in the chains and whose slot is still theirs.
Newest    == CHOOSE p \in {Nil} \cup {head[h] : h \in Hashes} : \A h \in Hashes : head[h] <= p
Chained   == {p \in 0..Newest : p > Newest - Window}

\* A chain joins positions of one hash only, so the search of one hash never
\* spends its steps on another, covered and skipped positions included.
ChainsByHash ==
  /\ \A h \in Hashes : head[h] # Nil => HashAt(head[h]) = h
  /\ \A p \in Chained : prev[p % Window] # Nil =>
       prev[p % Window] <= p /\ HashAt(prev[p % Window]) = HashAt(p)

\* "prev[pos % MAX_WINDOW] = previous position with same hash" (hash.rs).
ChainsGoBack ==
  \A p \in Chained : prev[p % Window] # Nil => prev[p % Window] < p

\* "Pick the best among {pos, pos+1, pos+2}, emitting literals to reach it"
\* (encoder.rs): the match a literal was spent to reach is searched for again
\* there, with the positions inserted since, and found (if MaxChain is enough).
LazyReachesBest == Searching => MatchAt(Chains, pos).length >= promised
=============================================================================
