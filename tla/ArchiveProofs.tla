---------------------------- MODULE ArchiveProofs ----------------------------
(***************************************************************************)
(* The archive, for every size of block, every file and every length that  *)
(* is declared in it.                                                      *)
(*                                                                         *)
(* A container is read whole or refused.  What a sealed file holds comes   *)
(* back for its password and for no other, and passwords and keys are      *)
(* asked for and derived in their order: for every source of a password,   *)
(* every input and every file that another release or an accident leaves   *)
(* on the disk.                                                            *)
(***************************************************************************)
EXTENDS Command, Container, LeastOf, SequenceTheorems

---------------------------------------------------------------------------
(* Sums                                                                    *)

\* The sum of a row is the last of the sums of its first numbers.
LEMMA SumOfIsLast ==
  ASSUME NEW n \in Nat, NEW row \in [1..n -> Nat],
         NEW f \in [0..n -> Nat], f[0] = 0, \A k \in 1..n : f[k] = f[k - 1] + row[k]
  PROVE  SumOf(row) = f[n]
<1> DEFINE Adds(s) == s = [k \in 0..n |-> IF k = 0 THEN 0 ELSE s[k - 1] + row[k]]
           sum == CHOOSE s : Adds(s)
           P == {k \in 0..n : sum[k] = f[k]}
<1>0. Len(row) = n
  OBVIOUS
<1>1. Adds(f)
  OBVIOUS
<1>2. Adds(sum)
  <2> HIDE DEF Adds
  <2> QED BY <1>1
<1>3. SumOf(row) = sum[n]
  BY <1>0 DEF SumOf
<1> HIDE DEF sum
<1>4. 0 \in P
  BY <1>2
<1>5. \A k \in 1..n : k - 1 \in P => k \in P
  <2> SUFFICES ASSUME NEW k \in 1..n, sum[k - 1] = f[k - 1] PROVE sum[k] = f[k]
    OBVIOUS
  <2>1. sum[k] = sum[k - 1] + row[k]
    BY <1>2
  <2> QED BY <2>1
<1>6. n \in P
  <2>1. n \in 0..n
    OBVIOUS
  <2> HIDE DEF P
  <2> QED BY <2>1, <1>4, <1>5, UpTo
<1> QED BY <1>3, <1>6

\* An empty row adds up to nothing.
LEMMA SumOfNone == SumOf(<< >>) = 0
<1>1. << >> \in [1..0 -> Nat] /\ [k \in 0..0 |-> 0] \in [0..0 -> Nat]
  OBVIOUS
<1> DEFINE f == [k \in 0..0 |-> 0]
<1>2. f[0] = 0 /\ \A k \in 1..0 : f[k] = f[k - 1] + << >>[k]
  OBVIOUS
<1> HIDE DEF f
<1> QED BY <1>1, <1>2, SumOfIsLast DEF f

\* A row of numbers adds up to a number.
LEMMA SumOfType ==
  ASSUME NEW row \in Seq(Nat)
  PROVE  SumOf(row) \in Nat
<1> DEFINE n == Len(row)
<1>1. n \in Nat /\ row \in [1..n -> Nat]
  BY LenProperties
<1> HIDE DEF n
<1>2. PICK f \in [0..n -> Nat] : f[0] = 0 /\ \A k \in 1..n : f[k] = f[k - 1] + row[k]
  BY <1>1, Sums
<1>3. SumOf(row) = f[n]
  BY <1>1, <1>2, SumOfIsLast
<1>4. f[n] \in Nat
  BY <1>1
<1> QED BY <1>3, <1>4

\* One more number adds itself.
LEMMA SumOfMore ==
  ASSUME NEW row \in Seq(Nat), NEW x \in Nat
  PROVE  SumOf(Append(row, x)) = SumOf(row) + x
<1> DEFINE n == Len(row)
           m == n + 1
           more == Append(row, x)
<1>1. n \in Nat /\ row \in [1..n -> Nat]
  BY LenProperties
<1>2. /\ m \in Nat /\ m - 1 = n /\ m > n /\ n \in 0..m /\ m \in 1..m
      /\ 1..n = (1..m) \ {m} /\ 0..n = (0..m) \ {m}
  BY <1>1
<1>3. more \in Seq(Nat) /\ Len(more) = m /\ more[m] = x /\ \A k \in 1..n : more[k] = row[k]
  BY <1>1, AppendProperties
<1>4. more \in [1..m -> Nat]
  BY <1>3, LenProperties
<1> HIDE DEF n, m, more
<1>5. PICK f \in [0..m -> Nat] : f[0] = 0 /\ \A k \in 1..m : f[k] = f[k - 1] + more[k]
  BY <1>2, <1>4, Sums
<1>6. SumOf(more) = f[m]
  BY <1>2, <1>4, <1>5, SumOfIsLast
<1>7. SumOf(row) = f[n]
  <2> DEFINE g == [k \in 0..n |-> f[k]]
  <2>1. g \in [0..n -> Nat] /\ g[0] = 0 /\ g[n] = f[n]
    BY <1>1, <1>2, <1>5
  <2>2. ASSUME NEW k \in 1..n PROVE g[k] = g[k - 1] + row[k]
    <3>1. k \in 1..m /\ k \in 0..n /\ k - 1 \in 0..n
      BY <1>1, <1>2
    <3>2. f[k] = f[k - 1] + more[k] /\ more[k] = row[k]
      BY <1>3, <1>5, <3>1
    <3> QED BY <3>1, <3>2
  <2> HIDE DEF g
  <2>3. SumOf(row) = g[n]
    BY <1>1, <2>1, <2>2, SumOfIsLast
  <2> QED BY <2>1, <2>3
<1>8. f[m] = f[n] + x
  BY <1>2, <1>3, <1>5
<1> QED BY <1>6, <1>7, <1>8 DEF more

\* The sum of the first numbers of a row grows by the next one.
LEMMA SumOfFirst ==
  ASSUME NEW row \in Seq(Nat), NEW k \in 1..Len(row)
  PROVE  /\ SumOf(SubSeq(row, 1, k)) = SumOf(SubSeq(row, 1, k - 1)) + row[k]
         /\ SubSeq(row, 1, k) \in Seq(Nat) /\ SubSeq(row, 1, k - 1) \in Seq(Nat)
<1>1. Len(row) \in Nat /\ row[k] \in Nat /\ k - 1 \in Nat
  BY LenProperties, ElementOfSeq
<1>2. SubSeq(row, 1, k) \in Seq(Nat) /\ SubSeq(row, 1, k - 1) \in Seq(Nat)
  BY <1>1, SubSeqProperties
<1>3. SubSeq(row, 1, k) = Append(SubSeq(row, 1, k - 1), row[k])
  BY <1>1
<1> QED BY <1>1, <1>2, <1>3, SumOfMore

\* The sum of its first numbers is no more than that of the row.
LEMMA SumOfFewer ==
  ASSUME NEW row \in Seq(Nat), NEW k \in 0..Len(row)
  PROVE  SumOf(SubSeq(row, 1, k)) \in Nat /\ SumOf(SubSeq(row, 1, k)) <= SumOf(row)
<1> DEFINE n == Len(row)
           P == {j \in 0..n : SumOf(SubSeq(row, 1, n - j)) <= SumOf(row)}
<1>1. n \in Nat /\ SubSeq(row, 1, n) = row
  BY LenProperties
<1>2. 0 \in P
  <2>1. n - 0 = n /\ SumOf(row) \in Nat /\ 0 \in 0..n
    BY <1>1, SumOfType
  <2> HIDE DEF n
  <2>2. SubSeq(row, 1, n - 0) = row
    BY <1>1, <2>1
  <2>3. SumOf(SubSeq(row, 1, n - 0)) = SumOf(row)
    BY <2>2, Zenon
  <2> QED BY <2>1, <2>3
<1>3. \A j \in 1..n : j - 1 \in P => j \in P
  <2> SUFFICES ASSUME NEW j \in 1..n, SumOf(SubSeq(row, 1, n - (j - 1))) <= SumOf(row)
               PROVE  SumOf(SubSeq(row, 1, n - j)) <= SumOf(row)
    BY <1>1
  <2> DEFINE i == n - (j - 1)
  <2>1. i \in 1..Len(row) /\ n - j = i - 1 /\ row[i] \in Nat
    BY <1>1, ElementOfSeq
  <2> HIDE DEF i
  <2>2. SumOf(SubSeq(row, 1, i)) = SumOf(SubSeq(row, 1, i - 1)) + row[i]
        /\ SubSeq(row, 1, i - 1) \in Seq(Nat)
    BY <2>1, SumOfFirst
  <2>3. SumOf(SubSeq(row, 1, i - 1)) \in Nat /\ SumOf(row) \in Nat
    BY <2>2, SumOfType
  <2>4. SumOf(SubSeq(row, 1, i)) <= SumOf(row)
    BY DEF i
  <2> QED BY <2>1, <2>2, <2>3, <2>4, SMTT(30)
<1>4. 0..n \subseteq P
  <2> HIDE DEF P, n
  <2> QED BY <1>1, <1>2, <1>3, UpTo
<1>5. n - k \in P /\ n - (n - k) = k
  <2>1. n - k \in 0..n /\ n - (n - k) = k
    BY <1>1
  <2> HIDE DEF n, P
  <2> QED BY <1>4, <2>1
<1>6. SubSeq(row, 1, k) \in Seq(Nat)
  BY <1>1, SubSeqProperties, ElementOfSeq
<1> QED BY <1>5, <1>6, SumOfType

---------------------------------------------------------------------------
(* Lengths of blocks and lanes                                             *)

\* A quotient rounded up is the least number of parts that are enough.
LEMMA DivUpIs ==
  ASSUME NEW a \in Nat, NEW b \in Nat \ {0}
  PROVE  /\ DivUp(a, b) \in Nat /\ a <= DivUp(a, b) * b
         /\ \A m \in Nat : m < DivUp(a, b) => m * b < a
<1> DEFINE q == (a + b - 1) \div b
<1>1. q \in Nat /\ b * q <= a + b - 1 /\ a + b - 1 < b * q + b
  BY Z3
<1> HIDE DEF q
<1>2. b * q = q * b /\ a <= q * b
  BY <1>1
<1>3. ASSUME NEW m \in Nat, m < q PROVE m * b < a
  <2>1. PICK d \in Nat : q = m + 1 + d
    <3>1. q - m - 1 \in Nat /\ q = m + 1 + (q - m - 1)
      BY <1>1, <1>3
    <3> QED BY <3>1
  <2>2. q * b = m * b + b + d * b /\ d * b \in Nat /\ m * b \in Nat
    BY <2>1
  <2> QED BY <1>1, <1>2, <2>2
<1> QED BY <1>1, <1>2, <1>3 DEF DivUp, q

\* The blocks so far are the first bytes of the whole, a block's length each,
\* and the next one is what is left of it, or a whole block.
LEMMA NextBlock ==
  ASSUME NEW a \in Nat, NEW m \in Nat, BlockSize \in Nat \ {0}, m < DivUp(a, BlockSize)
  PROVE  /\ BlockLen(a, m) \in Nat
         /\ Least2(m * BlockSize, a) + BlockLen(a, m) = Least2((m + 1) * BlockSize, a)
<1>1. m * BlockSize < a /\ m * BlockSize \in Nat /\ (m + 1) * BlockSize = m * BlockSize + BlockSize
  BY DivUpIs
<1> DEFINE done == m * BlockSize
           next == (m + 1) * BlockSize
<1> HIDE DEF done, next
<1>2. done < a /\ done \in Nat /\ next = done + BlockSize
  BY <1>1 DEF done, next
<1>3. Least2(BlockSize, a - done) \in Nat /\ Least2(done, a) + Least2(BlockSize, a - done) = Least2(next, a)
  BY <1>2 DEF Least2
<1> QED BY <1>3 DEF BlockLen, done, next

\* The lanes that the bytes are dealt to: all of them get the quotient, the
\* first ones one more.
LEMMA LaneLenIs ==
  ASSUME NEW e \in Nat, NEW n \in Nat \ {0}, NEW j \in 0..n - 1
  PROVE  LaneLen(e, n, j) = e \div n + (IF j < e % n THEN 1 ELSE 0)
<1>1. e \div n \in Nat /\ e % n \in 0..n - 1
  BY Z3
<1>2. e = n * (e \div n) + (e % n)
  BY Quotient
<1> DEFINE a == e \div n
           b == e % n
<1> HIDE DEF a, b
<1>20. e = n * a + b /\ b \in 0..n - 1 /\ a \in Nat /\ n * a \in Nat
  BY <1>1, <1>2 DEF a, b
<1> DEFINE q == (e + n - 1 - j) \div n
<1>3. q \in Int /\ n * q <= e + n - 1 - j /\ e + n - 1 - j < n * q + n
  <2>1. e + n - 1 - j \in Nat
    OBVIOUS
  <2> DEFINE x == e + n - 1 - j
  <2> HIDE DEF x
  <2>2. x \in Nat => x \div n \in Int /\ n * (x \div n) <= x /\ x < n * (x \div n) + n
    BY Z3
  <2> QED BY <2>1, <2>2 DEF x
<1> HIDE DEF q
<1> DEFINE c == IF j < b THEN 1 ELSE 0
<1>4. a + c \in Int /\ n * (a + c) \in Int /\ n * (a + c) <= e + n - 1 - j /\ e + n - 1 - j < n * (a + c) + n
  BY <1>20
<1>5. ~(q < a + c)
  <2> SUFFICES ASSUME q < a + c PROVE FALSE
    OBVIOUS
  <2>1. n * q + n <= n * (a + c)
    BY <1>3, <1>4, Multiples
  <2> QED BY <1>3, <1>4, <2>1
<1>6. ~(a + c < q)
  <2> SUFFICES ASSUME a + c < q PROVE FALSE
    OBVIOUS
  <2>1. n * (a + c) + n <= n * q
    BY <1>3, <1>4, Multiples
  <2> QED BY <1>3, <1>4, <2>1
<1>7. q = a + c
  BY <1>3, <1>4, <1>5, <1>6
<1> QED BY <1>7 DEF LaneLen, q, a, b

\* Each byte has its place in the lane it is dealt to.
LEMMA LaneHolds ==
  ASSUME NEW e \in Nat, NEW n \in Nat \ {0}, NEW i \in 0..e - 1
  PROVE  i % n \in 0..n - 1 /\ i \div n < LaneLen(e, n, i % n)
<1> DEFINE x == i \div n
           r == i % n
           a == e \div n
           b == e % n
<1>1. x \in Nat /\ r \in 0..n - 1 /\ a \in Nat /\ b \in 0..n - 1
  BY Z3
<1>2. i = n * x + r /\ e = n * a + b
  BY Quotient
<1>3. LaneLen(e, n, r) = a + (IF r < b THEN 1 ELSE 0)
  BY <1>1, LaneLenIs
<1> HIDE DEF x, r, a, b
<1>4. n * x \in Nat /\ n * a \in Nat
  BY <1>1
<1>5. x <= a
  <2> SUFFICES ASSUME a < x PROVE FALSE
    BY <1>1
  <2>1. n * a + n <= n * x
    BY <1>1, Multiples
  <2> QED BY <1>1, <1>2, <1>4, <2>1
<1>6. r < b \/ x # a
  <2> SUFFICES ASSUME x = a, r >= b PROVE FALSE
    BY <1>1
  <2>1. n * x = n * a
    OBVIOUS
  <2> QED BY <1>1, <1>2, <1>4, <2>1
<1>7. x < a + (IF r < b THEN 1 ELSE 0)
  BY <1>1, <1>5, <1>6
<1>8. r \in 0..n - 1 /\ x < LaneLen(e, n, r)
  BY <1>1, <1>3, <1>7
<1> QED BY <1>8 DEF x, r

\* The lanes together are what was dealt.
LEMMA LanesAddUp ==
  ASSUME NEW e \in Nat, NEW n \in Nat \ {0}, NEW row \in [1..n -> Nat],
         \A k \in 1..n : row[k] = LaneLen(e, n, k - 1)
  PROVE  SumOf(row) = e
<1> DEFINE a == e \div n
           b == e % n
<1>1. a \in Nat /\ b \in 0..n - 1
  BY QuotientType
<1>2. e = n * a + b
  <2>1. n > 0
    OBVIOUS
  <2> QED BY <2>1, Quotient
<1>3. ASSUME NEW k \in 1..n PROVE row[k] = a + (IF k - 1 < b THEN 1 ELSE 0)
  <2>1. k - 1 \in 0..n - 1
    OBVIOUS
  <2> QED BY <2>1, LaneLenIs
<1> HIDE DEF a, b
<1>4. PICK f \in [0..n -> Nat] : f[0] = 0 /\ \A k \in 1..n : f[k] = f[k - 1] + row[k]
  BY Sums
<1> DEFINE P == {k \in 0..n : f[k] = k * a + Least2(k, b)}
<1>5. 0 \in P
  BY <1>1, <1>4 DEF Least2
<1>6. ASSUME NEW k \in 1..n, k - 1 \in P PROVE k \in P
  <2>1. f[k - 1] = (k - 1) * a + Least2(k - 1, b)
    BY <1>6
  <2>2. k * a = (k - 1) * a + a /\ (k - 1) * a \in Int
    BY <1>1
  <2>3. f[k] = f[k - 1] + a + (IF k - 1 < b THEN 1 ELSE 0)
    BY <1>1, <1>3, <1>4, SMTT(30)
  <2>4. CASE k - 1 < b
    <3>1. Least2(k - 1, b) = k - 1 /\ Least2(k, b) = k
      BY <1>1, <2>4 DEF Least2
    <3>2. f[k] = ((k - 1) * a + (k - 1)) + a + 1
      BY <2>1, <2>3, <2>4, <3>1
    <3>3. f[k] = k * a + k
      BY <1>1, <2>2, <3>2
    <3> QED BY <3>1, <3>3
  <2>5. CASE ~(k - 1 < b)
    <3>1. Least2(k - 1, b) = b /\ Least2(k, b) = b
      BY <1>1, <2>5 DEF Least2
    <3>2. f[k] = ((k - 1) * a + b) + a + 0
      BY <2>1, <2>3, <2>5, <3>1
    <3>3. f[k] = k * a + b
      BY <1>1, <2>2, <3>2
    <3> QED BY <3>1, <3>3
  <2>6. f[k] = k * a + Least2(k, b)
    BY <2>4, <2>5
  <2> QED BY <2>6
<1>7. n \in P
  <2>1. n \in 0..n
    OBVIOUS
  <2> HIDE DEF P
  <2> QED BY <1>5, <1>6, <2>1, UpTo
<1>8. f[n] = e
  <2>1. Least2(n, b) = b
    BY <1>1 DEF Least2
  <2> QED BY <1>1, <1>2, <1>7, <2>1
<1> QED BY <1>4, <1>8, SumOfIsLast

\* Parts end where the sizes before them add up to, with their heads.
LEMMA EndsOfSums ==
  ASSUME NEW n \in Nat, NEW sizes \in [1..n -> Nat], NEW start \in Nat, NEW head \in Nat,
         NEW f \in [0..n -> Nat], f[0] = 0, \A k \in 1..n : f[k] = f[k - 1] + (head + sizes[k])
  PROVE  \A k \in 0..n : EndsOf(start, head, sizes)[k] = start + f[k]
<1> DEFINE Ends(s) == s = [k \in 0..n |-> IF k = 0 THEN start ELSE s[k - 1] + head + sizes[k]]
           end == CHOOSE s : Ends(s)
           g == [k \in 0..n |-> start + f[k]]
           P == {k \in 0..n : end[k] = start + f[k]}
<1>0. Len(sizes) = n
  OBVIOUS
<1>1. Ends(g)
  <2>0. g[0] = start
    OBVIOUS
  <2>1. ASSUME NEW k \in 1..n PROVE g[k] = g[k - 1] + head + sizes[k]
    <3>1. k \in 0..n /\ k - 1 \in 0..n /\ f[k] = f[k - 1] + (head + sizes[k])
      OBVIOUS
    <3>2. sizes[k] \in Nat /\ f[k - 1] \in Nat /\ f[k] \in Nat
      BY <3>1
    <3>3. g[k] = start + f[k] /\ g[k - 1] = start + f[k - 1]
      BY <3>1
    <3> HIDE DEF g
    <3> QED BY <3>1, <3>2, <3>3
  <2>2. g = [k \in 0..n |-> g[k]]
    OBVIOUS
  <2> HIDE DEF g
  <2>4. ASSUME NEW k \in 0..n PROVE g[k] = IF k = 0 THEN start ELSE g[k - 1] + head + sizes[k]
    <3>1. k = 0 \/ k \in 1..n
      OBVIOUS
    <3> QED BY <2>0, <2>1, <3>1
  <2>3. g = [k \in 0..n |-> IF k = 0 THEN start ELSE g[k - 1] + head + sizes[k]]
    BY <2>2, <2>4, Zenon
  <2> QED BY <2>3
<1> HIDE DEF g
<1>2. Ends(end)
  <2> HIDE DEF Ends
  <2> QED BY <1>1
<1>3. EndsOf(start, head, sizes) = end
  BY <1>0 DEF EndsOf
<1> HIDE DEF end
<1>4. 0 \in P
  BY <1>2
<1>5. \A k \in 1..n : k - 1 \in P => k \in P
  <2> SUFFICES ASSUME NEW k \in 1..n, end[k - 1] = start + f[k - 1] PROVE end[k] = start + f[k]
    OBVIOUS
  <2>0. k \in 0..n /\ k # 0
    OBVIOUS
  <2>1. end[k] = end[k - 1] + head + sizes[k]
    BY <1>2, <2>0, Zenon
  <2>2. f[k] = f[k - 1] + (head + sizes[k]) /\ sizes[k] \in Nat /\ f[k - 1] \in Nat
    BY SMTT(30)
  <2> QED BY <2>1, <2>2
<1>6. 0..n \subseteq P
  <2> HIDE DEF P
  <2> QED BY <1>4, <1>5, UpTo
<1> QED BY <1>3, <1>6

---------------------------------------------------------------------------
(* The lengths in a payload                                                *)

\* f sums the heads and the sizes of n parts, and tells where each one ends.
Measures(f, n, start, head, sizes) ==
  /\ f[0] = 0 /\ \A k \in 1..n : f[k] = f[k - 1] + (head + sizes[k])
  /\ \A k \in 0..n : EndsOf(start, head, sizes)[k] = start + f[k]
  /\ \A k \in 0..n : head * k <= f[k]

\* The places where parts end exist as a function: start, and each part after
\* the last.
LEMMA EndsAre ==
  ASSUME NEW n \in Nat, NEW sizes \in [1..n -> Nat], NEW start \in Nat, NEW head \in Nat
  PROVE  \E f \in [0..n -> Nat] : Measures(f, n, start, head, sizes)
<1> DEFINE row == [k \in 1..n |-> head + sizes[k]]
<1>1. row \in [1..n -> Nat] /\ \A k \in 1..n : row[k] = head + sizes[k]
  OBVIOUS
<1> HIDE DEF row
<1>2. PICK f \in [0..n -> Nat] : f[0] = 0 /\ \A k \in 1..n : f[k] = f[k - 1] + row[k]
  BY <1>1, Sums
<1>3. \A k \in 1..n : f[k] = f[k - 1] + (head + sizes[k])
  BY <1>1, <1>2
<1>4. \A k \in 0..n : EndsOf(start, head, sizes)[k] = start + f[k]
  BY <1>2, <1>3, EndsOfSums
<1> DEFINE P == {k \in 0..n : head * k <= f[k]}
<1>5. 0 \in P
  BY <1>2
<1>6. ASSUME NEW k \in 1..n, k - 1 \in P PROVE k \in P
  <2>1. head * k = head * (k - 1) + head /\ head * (k - 1) \in Int
    OBVIOUS
  <2>2. f[k] = f[k - 1] + (head + sizes[k]) /\ f[k - 1] \in Nat /\ sizes[k] \in Nat /\ f[k] \in Nat
    BY <1>3
  <2>3. head * (k - 1) <= f[k - 1]
    BY <1>6
  <2>4. head * k <= f[k] /\ k \in 0..n
    BY <2>1, <2>2, <2>3
  <2> QED BY <2>4
<1>7. 0..n \subseteq P
  <2> HIDE DEF P
  <2> QED BY <1>5, <1>6, UpTo
<1>8. Measures(f, n, start, head, sizes)
  BY <1>2, <1>3, <1>4, <1>7 DEF Measures
<1> QED BY <1>8

\* Each byte has its place in a lane, the lanes are all there is, and inside
\* the payload.
LanesFit(p, e) ==
  /\ \A i \in 0 .. e - 1 : i \div Len(p.lanes) < p.lanes[(i % Len(p.lanes)) + 1].symbols
  /\ SumOf([k \in DOMAIN p.lanes |-> p.lanes[k].symbols]) = e
  /\ \A k \in DOMAIN p.lanes : p.lanes[k].symbols > 0 => p.lanes[k].coded <= p.len - 6 - 1032 * k

\* A payload of lanes that passes the check has lanes that fit its bytes and
\* its block.
LEMMA DeltaAgrees ==
  ASSUME NEW p, NEW e \in Nat, p.lanes \in Seq([symbols : Nat, coded : Nat]), p.len \in Nat,
         DeltaVerdict(p, e, DeltaEnds(p)) = "ok"
  PROVE  LanesFit(p, e)
<1> DEFINE n == Len(p.lanes)
           end == DeltaEnds(p)
           sizes == [k \in 1..n |-> IF p.lanes[k].symbols > 0 THEN p.lanes[k].coded ELSE 0]
           row == [k \in 1..n |-> p.lanes[k].symbols]
           head == 1032
<1>0. n \in Nat /\ DOMAIN p.lanes = 1..n /\ \A k \in 1..n : p.lanes[k] \in [symbols : Nat, coded : Nat]
  <2> DEFINE row2 == p.lanes
  <2>1. row2 \in Seq([symbols : Nat, coded : Nat])
    OBVIOUS
  <2> HIDE DEF row2
  <2>2. Len(row2) \in Nat /\ DOMAIN row2 = 1..Len(row2)
        /\ \A k \in 1..Len(row2) : row2[k] \in [symbols : Nat, coded : Nat]
    BY <2>1, LenProperties, ElementOfSeq
  <2> QED BY <2>2 DEF row2
<1>1. n \in Nat /\ DOMAIN p.lanes = 1..n /\ \A k \in 1..n : p.lanes[k].symbols \in Nat /\ p.lanes[k].coded \in Nat
  BY <1>0
<1>2. end = EndsOf(6, 1032, sizes)
  BY <1>1 DEF DeltaEnds
<1>3. /\ ~(\E k \in 1..n : end[k - 1] + 1032 > p.len \/ end[k] > p.len)
      /\ n > 0 /\ \A k \in 1..n : p.lanes[k].symbols = LaneLen(e, n, k - 1)
  BY DEF DeltaVerdict, Verdict
<1>4. sizes \in [1..n -> Nat] /\ row \in [1..n -> Nat]
  BY <1>1
<1>5. n \in Nat \ {0} /\ \A k \in 1..n : row[k] = LaneLen(e, n, k - 1)
  BY <1>1, <1>3
<1>6. SumOf([k \in DOMAIN p.lanes |-> p.lanes[k].symbols]) = SumOf(row)
  BY <1>1, Zenon
<1>7. ASSUME NEW k \in DOMAIN p.lanes, p.lanes[k].symbols > 0
      PROVE  p.lanes[k].coded <= p.len - 6 - 1032 * k
  <2>0. k \in 1..n
    BY <1>1
  <2> DEFINE size == p.lanes[k].coded
  <2>1. sizes[k] = size /\ size \in Nat
    BY <1>1, <1>7, <2>0
  <2>2. ~(end[k] > p.len)
    BY <1>3, <2>0
  <2>8. 6 \in Nat /\ head \in Nat
    OBVIOUS
  <2> HIDE DEF end, sizes, n, size, head
  <2>3. PICK f \in [0..n -> Nat] : Measures(f, n, 6, head, sizes)
    <3>1. n \in Nat /\ sizes \in [1..n -> Nat]
      BY <1>1, <1>4
    <3> QED BY <2>8, <3>1, EndsAre, Zenon
  <2>4. k \in 1..n /\ k - 1 \in 0..n /\ k \in 0..n /\ f[k - 1] \in Nat /\ f[k] \in Nat
    BY <1>1, <2>0, SMTT(30)
  <2>5. end[k] = 6 + f[k] /\ f[k] = f[k - 1] + (head + size) /\ head * (k - 1) <= f[k - 1]
    <3>1. EndsOf(6, head, sizes)[k] = 6 + f[k] /\ f[k] = f[k - 1] + (head + sizes[k]) /\ head * (k - 1) <= f[k - 1]
      BY <2>3, <2>4 DEF Measures
    <3>2. end = EndsOf(6, head, sizes)
      BY <1>2 DEF head
    <3> QED BY <2>1, <3>1, <3>2
  <2>6. k \in Int /\ p.len \in Int
    BY <1>1, <2>0
  <2>7. size <= p.len - 6 - 1032 * k
    BY <2>1, <2>2, <2>4, <2>5, <2>6, SMTT(30) DEF head
  <2> QED BY <2>7 DEF size
<1>8. ASSUME NEW i \in 0 .. e - 1 PROVE i \div n < p.lanes[(i % n) + 1].symbols
  <2> HIDE DEF n
  <2>1. n \in Nat \ {0}
    BY <1>5
  <2>2. i % n \in 0..n - 1 /\ i \div n < LaneLen(e, n, i % n)
    BY <2>1, LaneHolds
  <2>3. (i % n) + 1 \in 1..n /\ ((i % n) + 1) - 1 = i % n
    BY <2>1, <2>2
  <2> QED BY <1>3, <2>2, <2>3
<1>9. SumOf(row) = e
  <2> HIDE DEF n, row
  <2>1. n \in Nat \ {0} /\ row \in [1..n -> Nat]
    BY <1>4, <1>5
  <2> QED BY <1>5, <2>1, LanesAddUp
<1> HIDE DEF row
<1>11. SumOf([k \in DOMAIN p.lanes |-> p.lanes[k].symbols]) = e
  BY <1>6, <1>9, Zenon
<1> QED BY <1>7, <1>8, <1>11 DEF LanesFit

\* A payload of token blocks that passes the check has no more tokens than
\* bytes to restore, nor more bytes than it is long.
LEMMA Lz77Agrees ==
  ASSUME NEW p, NEW e \in Nat, p.blocks \in Seq([tokens : Nat, bytes : Nat]), p.tokens \in Nat, p.len \in Nat,
         Lz77Verdict(p, e, Lz77Ends(p)) = "ok"
  PROVE  /\ SumOf([k \in DOMAIN p.blocks |-> p.blocks[k].tokens]) <= e
         /\ SumOf([k \in DOMAIN p.blocks |-> 8 + p.blocks[k].bytes]) + 8 <= p.len
<1> DEFINE n == Len(p.blocks)
           end == Lz77Ends(p)
           sizes == [k \in 1..n |-> p.blocks[k].bytes]
           row == [k \in 1..n |-> 8 + p.blocks[k].bytes]
<1>0. n \in Nat /\ DOMAIN p.blocks = 1..n /\ \A k \in 1..n : p.blocks[k] \in [tokens : Nat, bytes : Nat]
  <2> DEFINE row2 == p.blocks
  <2>1. row2 \in Seq([tokens : Nat, bytes : Nat])
    OBVIOUS
  <2> HIDE DEF row2
  <2>2. Len(row2) \in Nat /\ DOMAIN row2 = 1..Len(row2)
        /\ \A k \in 1..Len(row2) : row2[k] \in [tokens : Nat, bytes : Nat]
    BY <2>1, LenProperties, ElementOfSeq
  <2> QED BY <2>2 DEF row2
<1>1. n \in Nat /\ DOMAIN p.blocks = 1..n /\ \A k \in 1..n : p.blocks[k].bytes \in Nat
  BY <1>0
<1>2. end = EndsOf(8, 8, sizes)
  BY <1>1 DEF Lz77Ends
<1>3. /\ ~(p.len < 8) /\ ~(\E k \in 1..n : end[k - 1] + 8 > p.len \/ end[k] > p.len)
      /\ p.tokens <= e /\ SumOf([k \in 1..n |-> p.blocks[k].tokens]) = p.tokens
  BY DEF Lz77Verdict, Verdict
<1>4. sizes \in [1..n -> Nat] /\ row \in [1..n -> Nat] /\ \A k \in 1..n : row[k] = 8 + sizes[k]
  <2>1. \A k \in 1..n : p.blocks[k].bytes \in Nat /\ 8 + p.blocks[k].bytes \in Nat
    BY <1>1, SMTT(30)
  <2> QED BY <2>1
<1>5. SumOf([k \in DOMAIN p.blocks |-> 8 + p.blocks[k].bytes]) = SumOf(row)
      /\ SumOf([k \in DOMAIN p.blocks |-> p.blocks[k].tokens]) = p.tokens
  BY <1>1, <1>3, Zenon
<1> HIDE DEF n, end, sizes, row
<1>6. PICK f \in [0..n -> Nat] : Measures(f, n, 8, 8, sizes)
  <2>1. 8 \in Nat
    OBVIOUS
  <2> QED BY <1>1, <1>4, <2>1, EndsAre, Zenon
<1>7. f[0] = 0 /\ \A j \in 1..n : f[j] = f[j - 1] + row[j]
  BY <1>4, <1>6 DEF Measures
<1>8. SumOf(row) = f[n]
  BY <1>1, <1>4, <1>7, SumOfIsLast
<1>9. f[n] \in Nat /\ f[n] + 8 <= p.len
  <2>1. n \in 0..n /\ end[n] = 8 + f[n] /\ f[n] \in Nat
    BY <1>1, <1>2, <1>6 DEF Measures
  <2>2. CASE n = 0
    BY <1>3, <1>7, <2>2
  <2>3. CASE n # 0
    <3>1. n \in 1..n
      BY <1>1, <2>3
    <3> QED BY <1>3, <2>1, <3>1
  <2> QED BY <2>1, <2>2, <2>3
<1> QED BY <1>3, <1>5, <1>8, <1>9

---------------------------------------------------------------------------
(* The invariant                                                           *)

ReadBlock == [codec : Codecs, orig : Nat, at : Nat, comp : Nat]

\* The bytes that blocks hold, and those they take in the file.
Origs(blocks) == [k \in 1..Len(blocks) |-> blocks[k].orig]
Spans(blocks) == [k \in 1..Len(blocks) |-> BlockHeader + blocks[k].comp]

\* Nothing is read before there is a file, what was read lies in it, and room
\* was made for what it has headers for.
ReadInside ==
  /\ read = [status |-> read.status, pos |-> read.pos, blocks |-> read.blocks, reserved |-> read.reserved]
  /\ read.pos \in Nat /\ read.reserved \in Nat /\ read.blocks \in Seq(ReadBlock)
  /\ file = << >> => read.status = "start" /\ honest = << >>
  /\ file # << >> => IsContainer(file)
  /\ read.status = "start" => read.blocks = << >> /\ read.reserved = 0
  /\ read.reserved # 0 => FileHeader + read.reserved * BlockHeader <= file.len
  /\ \A k \in 1..Len(read.blocks) : read.blocks[k].at + read.blocks[k].comp <= file.len

\* While blocks are read, the position is the bytes they took, and they hold
\* the first bytes of the declared length.
ReadAddsUp ==
  read.status \in {"blocks", "ok"} =>
    /\ file.magic \in Formats /\ file.count = DivUp(file.declared, BlockSize)
    /\ FileHeader + file.count * BlockHeader <= file.len
    /\ Len(read.blocks) <= file.count
    /\ read.pos = FileHeader + SumOf(Spans(read.blocks))
    /\ SumOf(Origs(read.blocks)) = Least2(Len(read.blocks) * BlockSize, file.declared)
    /\ read.status = "ok" => Len(read.blocks) = file.count /\ read.pos + Footer(file.magic) = file.len

LaidLen(packed) == FileHeader + Len(packed) * BlockHeader + SumOf(packed) + Digest

\* A file that a writer made has the blocks it was given; only its length may
\* not be what it was laid out with.
AsLaid ==
  honest # << >> =>
    /\ honest = [len |-> honest.len, packed |-> honest.packed, whole |-> honest.whole]
    /\ honest.len \in Nat /\ honest.packed \in Seq(Nat) /\ honest.whole \in BOOLEAN
    /\ file # << >> /\ file.magic = "NX15" /\ file.declared = honest.len
    /\ file.count = Len(honest.packed) /\ file.count = DivUp(honest.len, BlockSize)
    /\ \A k \in 1..file.count :
         /\ file.heads[k] \in [codec : Codecs, orig : Nat, comp : Nat]
         /\ file.heads[k].orig = BlockLen(honest.len, k - 1) /\ file.heads[k].comp = honest.packed[k]
    /\ LaidLen(honest.packed) <= MaxUsize
    /\ honest.whole <=> file.len = LaidLen(honest.packed)

\* Its blocks are read from where they were put, and a whole one is not refused.
ReadAsLaid ==
  honest # << >> =>
    /\ read.status \in {"blocks", "ok"} =>
         /\ read.pos = FileHeader + Len(read.blocks) * BlockHeader + SumOf(SubSeq(honest.packed, 1, Len(read.blocks)))
         /\ \A k \in 1..Len(read.blocks) :
              /\ read.blocks[k].comp = honest.packed[k]
              /\ read.blocks[k].at = FileHeader + k * BlockHeader + SumOf(SubSeq(honest.packed, 1, k - 1))
    /\ honest.whole => /\ read.status \in {"start", "blocks", "ok", "too large"}
                       /\ read.status = "too large" => honest.len > MaxUsize

\* A verdict is that of the check.
VerdictGiven ==
  \/ block.verdict = "no block"
  \/ /\ block = [payload |-> block.payload, expected |-> block.expected, verdict |-> block.verdict]
     /\ block.expected \in Nat /\ IsPayload(block.payload)
     /\ block.verdict = "none" \/ block.verdict = Checked(block.payload, block.expected)

ContainerInv == ReadInside /\ ReadAddsUp /\ AsLaid /\ ReadAsLaid /\ VerdictGiven

---------------------------------------------------------------------------
(* It holds at the start and is kept                                       *)

\* A row of one number for each of n members is a sequence.
LEMMA RowIsSeq ==
  ASSUME NEW S, NEW n \in Nat, NEW row \in [1..n -> S]
  PROVE  row \in Seq(S) /\ Len(row) = n
BY IsASeq

\* A row with one more number, place by place.
LEMMA AppendIs ==
  ASSUME NEW row \in Seq(Nat), NEW x \in Nat
  PROVE  Append(row, x) = [k \in 1..Len(row) + 1 |-> IF k = Len(row) + 1 THEN x ELSE row[k]]
<1> DEFINE n == Len(row)
           more == Append(row, x)
<1>1. n \in Nat
  BY LenProperties
<1>2. more \in Seq(Nat) /\ Len(more) = n + 1 /\ more[n + 1] = x /\ \A k \in 1..n : more[k] = row[k]
  BY <1>1, AppendProperties
<1> HIDE DEF n, more
<1>3. more = [k \in 1..n + 1 |-> more[k]]
  <2>1. more \in [1..Len(more) -> Nat]
    BY <1>2, LenProperties
  <2> QED BY <1>2, <2>1
<1>4. ASSUME NEW k \in 1..n + 1 PROVE more[k] = IF k = n + 1 THEN x ELSE row[k]
  <2>1. k = n + 1 \/ k \in 1..n
    BY <1>1
  <2> QED BY <1>1, <1>2, <2>1
<1>5. more = [k \in 1..n + 1 |-> IF k = n + 1 THEN x ELSE row[k]]
  BY <1>3, <1>4, Zenon
<1> QED BY <1>5 DEF n, more

\* One more block is one more number for each row.
LEMMA RowsGrow ==
  ASSUME NEW blocks \in Seq(ReadBlock), NEW b \in ReadBlock
  PROVE  /\ Origs(blocks) \in Seq(Nat) /\ Spans(blocks) \in Seq(Nat)
         /\ Origs(Append(blocks, b)) = Append(Origs(blocks), b.orig)
         /\ Spans(Append(blocks, b)) = Append(Spans(blocks), BlockHeader + b.comp)
<1> DEFINE n == Len(blocks)
           more == Append(blocks, b)
<1>1. n \in Nat /\ \A k \in 1..n : blocks[k] \in ReadBlock
  BY LenProperties, ElementOfSeq
<1>2. /\ Len(more) = n + 1 /\ more[n + 1] = b
      /\ \A k \in 1..n : more[k] = blocks[k]
  BY <1>1, AppendProperties
<1>3. \A k \in 1..n : blocks[k].orig \in Nat /\ BlockHeader + blocks[k].comp \in Nat
  BY <1>1, SMTT(30) DEF ReadBlock, BlockHeader
<1>4. Origs(blocks) \in [1..n -> Nat] /\ Spans(blocks) \in [1..n -> Nat]
  BY <1>3 DEF Origs, Spans
<1>5. /\ Origs(blocks) \in Seq(Nat) /\ Len(Origs(blocks)) = n
      /\ Spans(blocks) \in Seq(Nat) /\ Len(Spans(blocks)) = n
  BY <1>1, <1>4, RowIsSeq
<1>6. Origs(more) = Append(Origs(blocks), b.orig)
  <2> DEFINE s == Origs(blocks)
  <2>1. \A k \in 1..n : s[k] = blocks[k].orig
    BY DEF Origs
  <2>2. Origs(more) = [k \in 1..n + 1 |-> more[k].orig]
    BY <1>2 DEF Origs
  <2> HIDE DEF s, more, n
  <2>3. Append(s, b.orig) = [k \in 1..n + 1 |-> IF k = n + 1 THEN b.orig ELSE s[k]]
    BY <1>5, AppendIs DEF s, ReadBlock
  <2>4. \A k \in 1..n + 1 : more[k].orig = IF k = n + 1 THEN b.orig ELSE s[k]
    BY <1>1, <1>2, <2>1
  <2> QED BY <2>2, <2>3, <2>4 DEF s
<1>7. Spans(more) = Append(Spans(blocks), BlockHeader + b.comp)
  <2> DEFINE s == Spans(blocks)
             x == BlockHeader + b.comp
  <2>1. \A k \in 1..n : s[k] = BlockHeader + blocks[k].comp
    BY DEF Spans
  <2>2. Spans(more) = [k \in 1..n + 1 |-> BlockHeader + more[k].comp]
    BY <1>2 DEF Spans
  <2>0. x \in Nat
    BY DEF ReadBlock, BlockHeader
  <2> HIDE DEF s, more, n, x
  <2>3. Append(s, x) = [k \in 1..n + 1 |-> IF k = n + 1 THEN x ELSE s[k]]
    BY <1>5, <2>0, AppendIs DEF s
  <2>4. \A k \in 1..n + 1 : BlockHeader + more[k].comp = IF k = n + 1 THEN x ELSE s[k]
    BY <1>1, <1>2, <2>1 DEF x
  <2> QED BY <2>2, <2>3, <2>4 DEF s, x
<1> QED BY <1>5, <1>6, <1>7

\* What there is at the start.
LEMMA ContainerInit1 == ContainerInit => ContainerInv
<1> SUFFICES ASSUME ContainerInit PROVE ContainerInv
  OBVIOUS
<1> USE DEF ContainerInit
<1>1. ReadInside
  <2>1. \A f \in Strange : IsContainer(f)
    BY ContainerAssumption
  <2>2. << >> \in Seq(ReadBlock) /\ 1..Len(<< >>) = {}
    <3>1. << >> \in Seq(ReadBlock) /\ Len(<< >>) = 0
      BY EmptySeq, Zenon
    <3>2. 1..0 = {}
      OBVIOUS
    <3> QED BY <3>1, <3>2, Zenon
  <2>3. file # << >> => IsContainer(file)
    BY <2>1
  <2>4. /\ read = [status |-> read.status, pos |-> read.pos, blocks |-> read.blocks, reserved |-> read.reserved]
        /\ read.status = "start" /\ read.pos = 0 /\ read.blocks = << >> /\ read.reserved = 0 /\ honest = << >>
    OBVIOUS
  <2> QED BY <2>2, <2>3, <2>4 DEF ReadInside
<1>2. ReadAddsUp
  BY DEF ReadAddsUp
<1>3. AsLaid /\ ReadAsLaid
  BY DEF AsLaid, ReadAsLaid
<1>4. VerdictGiven
  <2>1. CASE block.verdict = "no block"
    BY <2>1 DEF VerdictGiven
  <2>2. CASE \E b \in Payloads : block = [payload |-> b.payload, expected |-> b.expected, verdict |-> "none"]
    <3>1. PICK b \in Payloads : block = [payload |-> b.payload, expected |-> b.expected, verdict |-> "none"]
      BY <2>2
    <3>2. b.expected \in Nat /\ IsPayload(b.payload)
      BY ContainerAssumption
    <3>3. /\ block.payload = b.payload /\ block.expected = b.expected /\ block.verdict = "none"
          /\ block = [payload |-> block.payload, expected |-> block.expected, verdict |-> block.verdict]
      BY <3>1
    <3> QED BY <3>2, <3>3 DEF VerdictGiven
  <2>3. block = NoBlock => block.verdict = "no block"
    <3>1. \A p : [payload |-> p, expected |-> 0, verdict |-> "no block"].verdict = "no block"
      OBVIOUS
    <3>2. NoBlock.verdict = "no block"
      BY <3>1, Zenon DEF NoBlock
    <3> QED BY <3>2
  <2> QED BY <2>1, <2>2, <2>3
<1> QED BY <1>1, <1>2, <1>3, <1>4 DEF ContainerInv

\* The writer lays a file out.
LEMMA WriteKeeps ==
  ASSUME ContainerInv, Write
  PROVE  ContainerInv'
<1>1. /\ file = << >> /\ UNCHANGED read /\ read.status = "start" /\ read.blocks = << >> /\ read.reserved = 0
      /\ UNCHANGED block
  BY DEF Write, ContainerInv, ReadInside
<1>0. PICK len \in Lengths : \E packed \in [1..DivUp(len, BlockSize) -> Packed],
                                 codecs \in [1..DivUp(len, BlockSize) -> {0, 7}] :
        /\ file' = Laid(len, codecs, packed)
        /\ honest' = [len |-> len, packed |-> packed, whole |-> TRUE]
  BY DEF Write
<1>2. PICK packed \in [1..DivUp(len, BlockSize) -> Packed], codecs \in [1..DivUp(len, BlockSize) -> {0, 7}] :
        /\ file' = Laid(len, codecs, packed)
        /\ honest' = [len |-> len, packed |-> packed, whole |-> TRUE]
  BY <1>0
<1> DEFINE n == DivUp(len, BlockSize)
<1>3. BlockSize \in Nat \ {0} /\ MaxUsize \in Nat /\ len \in Nat /\ Packed \subseteq Nat
  BY ContainerAssumption
<1>4. n \in Nat /\ \A m \in Nat : m < n => BlockLen(len, m) \in Nat
  BY <1>3, DivUpIs, NextBlock
<1>5. packed \in [1..n -> Nat] /\ codecs \in [1..n -> {0, 7}]
  BY <1>3
<1>6. LaidLen(packed) <= MaxUsize
  BY ContainerAssumption DEF LaidLen
<1> HIDE DEF n
<1>7. packed \in Seq(Nat) /\ Len(packed) = n /\ DOMAIN packed = 1..n
  BY <1>4, <1>5, RowIsSeq
<1>8. SumOf(packed) \in Nat
  BY <1>7, SumOfType
<1>9. /\ file'.magic = "NX15" /\ file'.declared = len /\ file'.count = n
      /\ file'.len = LaidLen(packed) /\ file' # << >>
      /\ file' = [magic |-> file'.magic, declared |-> file'.declared, count |-> file'.count,
                  len |-> file'.len, heads |-> file'.heads]
      /\ file'.heads = [k \in 1..n |-> [codec |-> codecs[k], orig |-> BlockLen(len, k - 1), comp |-> packed[k]]]
  BY <1>2, <1>7 DEF Laid, LaidLen
<1>10. ASSUME NEW k \in 1..n
       PROVE  BlockLen(len, k - 1) \in Nat /\ packed[k] \in Nat /\ codecs[k] \in {0, 7}
  <2>1. k - 1 \in Nat /\ k - 1 < n
    BY <1>4
  <2>2. packed[k] \in Nat /\ codecs[k] \in {0, 7}
    BY <1>5 DEF n
  <2> QED BY <1>4, <2>1, <2>2
<1>11. ASSUME NEW k \in 1..n
       PROVE  /\ file'.heads[k] \in [codec : Codecs, orig : Nat, comp : Nat]
              /\ file'.heads[k].orig = BlockLen(len, k - 1) /\ file'.heads[k].comp = packed[k]
  BY <1>9, <1>10 DEF Codecs
<1>12. LaidLen(packed) \in Nat
  BY <1>4, <1>7, <1>8 DEF LaidLen, FileHeader, BlockHeader, Digest
<1>13. IsContainer(file')
  <2>1. \A k \in 1..n : file'.heads[k] \in [codec : Nat, orig : Nat, comp : Nat]
    BY <1>11 DEF Codecs
  <2> QED BY <1>3, <1>4, <1>9, <1>12, <2>1 DEF IsContainer
<1>14. ReadInside'
  BY <1>1, <1>9, <1>13 DEF ContainerInv, ReadInside
<1>15. ReadAddsUp'
  BY <1>1 DEF ReadAddsUp
<1>16. AsLaid'
  BY <1>2, <1>3, <1>6, <1>7, <1>9, <1>11 DEF AsLaid, n
<1>17. ReadAsLaid'
  BY <1>1 DEF ReadAsLaid
<1>18. VerdictGiven'
  BY <1>1 DEF ContainerInv, VerdictGiven
<1> QED BY <1>14, <1>15, <1>16, <1>17, <1>18 DEF ContainerInv

\* A file loses bytes, or wins some, before it is read.
LEMMA DamageKeeps ==
  ASSUME ContainerInv, DamageFile
  PROVE  ContainerInv'
<1> USE DEF ContainerInv
<1>1. /\ file # << >> /\ honest # << >> /\ honest.whole = TRUE /\ UNCHANGED <<read, block>>
      /\ read.status = "start" /\ read.blocks = << >> /\ read.reserved = 0
  BY DEF DamageFile, ReadInside, AsLaid
<1>2. PICK n \in Cuts : n # 0 /\ file.len + n >= 0 /\ file' = [file EXCEPT !.len = @ + n]
  BY DEF DamageFile
<1>3. honest' = [honest EXCEPT !.whole = FALSE]
  BY DEF DamageFile
<1>4. n \in Int /\ file.len \in Nat /\ IsContainer(file)
  BY <1>1, ContainerAssumption DEF ReadInside, IsContainer
<1>5. file = [magic |-> file.magic, declared |-> file.declared, count |-> file.count, len |-> file.len, heads |-> file.heads]
  BY <1>4 DEF IsContainer
<1>6. /\ file'.magic = file.magic /\ file'.declared = file.declared /\ file'.count = file.count
      /\ file'.heads = file.heads /\ file'.len = file.len + n /\ file' # << >>
      /\ file' = [magic |-> file'.magic, declared |-> file'.declared, count |-> file'.count,
                  len |-> file'.len, heads |-> file'.heads]
  BY <1>2, <1>5
<1>7. honest = [len |-> honest.len, packed |-> honest.packed, whole |-> honest.whole]
  BY <1>1 DEF AsLaid
<1>8. /\ honest'.len = honest.len /\ honest'.packed = honest.packed /\ honest'.whole = FALSE
      /\ honest' = [len |-> honest'.len, packed |-> honest'.packed, whole |-> honest'.whole] /\ honest' # << >>
  <2>1. honest' = [len |-> honest.len, packed |-> honest.packed, whole |-> FALSE]
    BY <1>3, <1>7
  <2>2. honest'.len = honest.len /\ honest'.packed = honest.packed /\ honest' # << >>
    BY <2>1
  <2>3. honest'.whole = FALSE
    BY <2>1
  <2> QED BY <2>1, <2>2, <2>3
<1>9. file.len = LaidLen(honest.packed)
  BY <1>1, Zenon DEF AsLaid
<1>10. \A k \in 1..file.count : file.heads[k] \in [codec : Nat, orig : Nat, comp : Nat]
  <2>1. \A k \in 1..file.count : file.heads[k] \in [codec : Codecs, orig : Nat, comp : Nat]
    BY <1>1, Zenon DEF AsLaid
  <2> QED BY <2>1 DEF Codecs
<1>11. file'.len \in Nat /\ file'.len # file.len
  BY <1>2, <1>4, <1>6
<1>12. IsContainer(file')
  BY <1>4, <1>6, <1>10, <1>11 DEF IsContainer
<1>13. ReadInside'
  BY <1>1, <1>6, <1>12 DEF ReadInside
<1>14. ReadAddsUp'
  BY <1>1 DEF ReadAddsUp
<1>15. AsLaid'
  <2>1. ~(file'.len = LaidLen(honest'.packed))
    BY <1>8, <1>9, <1>11
  <2>2. honest'.whole <=> file'.len = LaidLen(honest'.packed)
    BY <1>8, <2>1, Zenon
  <2>3. /\ honest.len \in Nat /\ honest.packed \in Seq(Nat)
        /\ file.magic = "NX15" /\ file.declared = honest.len
        /\ file.count = Len(honest.packed) /\ file.count = DivUp(honest.len, BlockSize)
        /\ \A k \in 1..file.count :
             /\ file.heads[k] \in [codec : Codecs, orig : Nat, comp : Nat]
             /\ file.heads[k].orig = BlockLen(honest.len, k - 1) /\ file.heads[k].comp = honest.packed[k]
        /\ LaidLen(honest.packed) <= MaxUsize
    BY <1>1, Zenon DEF AsLaid
  <2>4. /\ honest'.len \in Nat /\ honest'.packed \in Seq(Nat) /\ honest'.whole \in BOOLEAN
        /\ file'.magic = "NX15" /\ file'.declared = honest'.len
        /\ file'.count = Len(honest'.packed) /\ file'.count = DivUp(honest'.len, BlockSize)
        /\ \A k \in 1..file'.count :
             /\ file'.heads[k] \in [codec : Codecs, orig : Nat, comp : Nat]
             /\ file'.heads[k].orig = BlockLen(honest'.len, k - 1) /\ file'.heads[k].comp = honest'.packed[k]
        /\ LaidLen(honest'.packed) <= MaxUsize
    BY <1>6, <1>8, <2>3
  <2> QED BY <1>6, <1>8, <2>2, <2>4, Zenon DEF AsLaid
<1>16. ReadAsLaid'
  BY <1>1, <1>8 DEF ReadAsLaid
<1>17. VerdictGiven'
  BY <1>1 DEF VerdictGiven
<1> QED BY <1>13, <1>14, <1>15, <1>16, <1>17

\* A refusal keeps what was read so far, and is none of a whole file's.
LEMMA RefusalKeeps ==
  ASSUME ContainerInv, file # << >>, UNCHANGED <<file, honest, block>>,
         NEW why, why \notin {"start", "blocks", "ok"}, read' = Fail(why),
         honest # << >> /\ honest.whole => why = "too large" /\ honest.len > MaxUsize
  PROVE  ContainerInv'
<1> USE DEF ContainerInv
<1>1. read = [status |-> read.status, pos |-> read.pos, blocks |-> read.blocks, reserved |-> read.reserved]
  BY DEF ReadInside
<1>2. /\ read'.status = why /\ read'.pos = read.pos /\ read'.blocks = read.blocks /\ read'.reserved = read.reserved
      /\ read' = [status |-> read'.status, pos |-> read'.pos, blocks |-> read'.blocks, reserved |-> read'.reserved]
  BY <1>1 DEF Fail
<1>3. ReadInside'
  BY <1>2 DEF ReadInside
<1>4. ReadAddsUp'
  BY <1>2 DEF ReadAddsUp
<1>5. AsLaid'
  BY DEF AsLaid
<1>6. ReadAsLaid'
  BY <1>2 DEF ReadAsLaid
<1>7. VerdictGiven'
  BY DEF VerdictGiven
<1> QED BY <1>3, <1>4, <1>5, <1>6, <1>7

\* The check of a payload gives its verdict.
LEMMA CheckKeeps ==
  ASSUME ContainerInv, CheckLengths
  PROVE  ContainerInv'
<1> USE DEF ContainerInv
<1>1. /\ block = [payload |-> block.payload, expected |-> block.expected, verdict |-> block.verdict]
      /\ block.expected \in Nat /\ IsPayload(block.payload) /\ UNCHANGED <<file, honest, read>>
      /\ block' = [block EXCEPT !.verdict = Checked(block.payload, block.expected)]
  BY DEF CheckLengths, VerdictGiven
<1>2. /\ block'.payload = block.payload /\ block'.expected = block.expected
      /\ block'.verdict = Checked(block.payload, block.expected)
      /\ block' = [payload |-> block'.payload, expected |-> block'.expected, verdict |-> block'.verdict]
  BY <1>1
<1>3. VerdictGiven'
  BY <1>1, <1>2 DEF VerdictGiven
<1>4. ReadInside' /\ ReadAddsUp' /\ AsLaid' /\ ReadAsLaid'
  BY <1>1 DEF ReadInside, ReadAddsUp, AsLaid, ReadAsLaid
<1> QED BY <1>3, <1>4

\* The footer ends the file, or it is refused.
LEMMA EndKeeps ==
  ASSUME ContainerInv, ParseEnd
  PROVE  ContainerInv'
<1> USE DEF ContainerInv
<1> DEFINE end == read.pos + Footer(file.magic)
<1>0. Footer(file.magic) \in Nat
  BY DEF Footer, Digest
<1>1. /\ read.status = "blocks" /\ Len(read.blocks) = file.count /\ UNCHANGED <<file, honest, block>>
      /\ read' = IF end > file.len THEN Fail("truncated")
                 ELSE IF end < file.len THEN Fail("trailing bytes")
                 ELSE [read EXCEPT !.status = "ok"]
  BY DEF ParseEnd
<1>2. file # << >> /\ file.len \in Nat /\ read.pos \in Nat /\ end \in Nat
  <2>1. file # << >> /\ IsContainer(file) /\ read.pos \in Nat
    BY <1>1 DEF ReadInside
  <2>2. file.len \in Nat
    BY <2>1 DEF IsContainer
  <2> QED BY <1>0, <2>1, <2>2
<1>3. honest # << >> /\ honest.whole => end = file.len
  <2> SUFFICES ASSUME honest # << >>, honest.whole PROVE end = file.len
    OBVIOUS
  <2> DEFINE packed == honest.packed
  <2>1. packed \in Seq(Nat) /\ file.count = Len(packed) /\ file.len = LaidLen(packed) /\ file.magic = "NX15"
        /\ read.pos = FileHeader + Len(packed) * BlockHeader + SumOf(SubSeq(packed, 1, Len(packed)))
    BY <1>1 DEF AsLaid, ReadAsLaid
  <2> HIDE DEF packed
  <2>2. SubSeq(packed, 1, Len(packed)) = packed /\ SumOf(packed) \in Nat /\ Len(packed) \in Nat
    BY <2>1, SumOfType, LenProperties
  <2> QED BY <2>1, <2>2 DEF LaidLen, FileHeader, BlockHeader, Digest, Footer
<1>4. CASE end > file.len \/ end < file.len
  <2>1. ~(honest # << >> /\ honest.whole)
    BY <1>2, <1>3, <1>4
  <2>2. read' = Fail("truncated") \/ read' = Fail("trailing bytes")
    BY <1>1, <1>4
  <2>3. "truncated" \notin {"start", "blocks", "ok"} /\ "trailing bytes" \notin {"start", "blocks", "ok"}
    OBVIOUS
  <2> HIDE DEF ContainerInv
  <2> QED BY <1>1, <1>2, <2>1, <2>2, <2>3, RefusalKeeps
<1>5. CASE end = file.len
  <2>1. read = [status |-> read.status, pos |-> read.pos, blocks |-> read.blocks, reserved |-> read.reserved]
    BY DEF ReadInside
  <2>2. read' = [read EXCEPT !.status = "ok"]
    <3>1. ~(end > file.len) /\ ~(end < file.len)
      BY <1>2, <1>5
    <3> HIDE DEF end
    <3> QED BY <1>1, <3>1, Zenon
  <2>3. /\ read'.status = "ok" /\ read'.pos = read.pos /\ read'.blocks = read.blocks /\ read'.reserved = read.reserved
        /\ read' = [status |-> read'.status, pos |-> read'.pos, blocks |-> read'.blocks, reserved |-> read'.reserved]
    BY <2>1, <2>2
  <2>4. ReadInside'
    BY <1>1, <1>2, <2>3 DEF ReadInside
  <2>5. ReadAddsUp'
    BY <1>1, <1>5, <2>3 DEF ReadAddsUp
  <2>6. AsLaid' /\ VerdictGiven'
    BY <1>1 DEF AsLaid, VerdictGiven
  <2>7. ReadAsLaid'
    <3>1. /\ honest' = honest /\ read.status = "blocks" /\ read'.status = "ok" /\ read'.pos = read.pos
          /\ read'.blocks = read.blocks /\ ReadAsLaid
      BY <1>1, <2>3
    <3> QED BY <3>1 DEF ReadAsLaid
  <2> QED BY <2>4, <2>5, <2>6, <2>7
<1> QED BY <1>2, <1>4, <1>5

\* What is known of a file that is whole: its length and that of its footer.
LEMMA WholeFile ==
  ASSUME AsLaid, honest # << >>, honest.whole
  PROVE  /\ honest.packed \in Seq(Nat) /\ file.count = Len(honest.packed) /\ file.count \in Nat
         /\ file.magic = "NX15" /\ Footer(file.magic) = Digest /\ SumOf(honest.packed) \in Nat
         /\ file.len = LaidLen(honest.packed) /\ file.len <= MaxUsize /\ file.declared = honest.len
         /\ file.count = DivUp(file.declared, BlockSize)
<1>1. /\ honest.packed \in Seq(Nat) /\ file.magic = "NX15" /\ file.declared = honest.len
      /\ file.count = Len(honest.packed) /\ file.count = DivUp(honest.len, BlockSize)
      /\ LaidLen(honest.packed) <= MaxUsize /\ file.len = LaidLen(honest.packed)
  BY Zenon DEF AsLaid
<1>2. SumOf(honest.packed) \in Nat
  BY <1>1, SumOfType
<1>3. Len(honest.packed) \in Nat
  BY <1>1, LenProperties
<1>4. Footer(file.magic) = Digest
  BY <1>1 DEF Footer
<1> QED BY <1>1, <1>2, <1>3, <1>4

\* The file's header starts the reading of its blocks, or it is refused.
LEMMA HeaderKeeps ==
  ASSUME ContainerInv, ParseHeader
  PROVE  ContainerInv'
<1> DEFINE footer == Footer(file.magic)
           fits == (file.len - FileHeader - footer) \div BlockHeader
<1>0. footer \in Nat
  BY DEF Footer, Digest
<1>1. /\ file # << >> /\ read.status = "start" /\ UNCHANGED <<file, honest, block>>
      /\ read' = IF file.len < 4 \/ file.magic \notin Formats THEN Fail("bad magic")
                 ELSE IF file.len < FileHeader + footer THEN Fail("truncated")
                 ELSE IF file.declared > MaxUsize THEN Fail("too large")
                 ELSE IF file.count > fits THEN Fail("truncated")
                 ELSE IF file.count # DivUp(file.declared, BlockSize) THEN Fail("bad layout")
                 ELSE [read EXCEPT !.status = "blocks", !.pos = FileHeader, !.reserved = file.count]
  BY DEF ParseHeader
<1>2. IsContainer(file) /\ file.len \in Nat /\ file.count \in Nat /\ file.declared \in Nat
  BY <1>1 DEF ContainerInv, ReadInside, IsContainer
<1>3. honest # << >> /\ honest.whole =>
        /\ ~(file.len < 4 \/ file.magic \notin Formats) /\ ~(file.len < FileHeader + footer)
        /\ file.declared > MaxUsize => honest.len > MaxUsize
        /\ ~(file.count > fits) /\ file.count = DivUp(file.declared, BlockSize)
  <2> SUFFICES ASSUME honest # << >>, honest.whole
               PROVE  /\ ~(file.len < 4 \/ file.magic \notin Formats) /\ ~(file.len < FileHeader + footer)
                      /\ file.declared > MaxUsize => honest.len > MaxUsize
                      /\ ~(file.count > fits) /\ file.count = DivUp(file.declared, BlockSize)
    OBVIOUS
  <2> DEFINE sum == SumOf(honest.packed)
             n == file.count
  <2>1. /\ n \in Nat /\ sum \in Nat /\ file.magic = "NX15" /\ footer = 32 /\ file.declared = honest.len
        /\ file.len = 16 + n * 14 + sum + 32 /\ n = DivUp(file.declared, BlockSize)
    BY WholeFile DEF ContainerInv, LaidLen, FileHeader, BlockHeader, Digest
  <2>2. fits = (n * 14 + sum) \div 14
    <3> HIDE DEF sum, n, footer
    <3>1. file.len - 16 - footer = n * 14 + sum
      BY <2>1
    <3> QED BY <3>1 DEF FileHeader, BlockHeader
  <2> HIDE DEF sum, n, fits, footer
  <2>3. n <= (n * 14 + sum) \div 14
    BY <2>1
  <2>4. (n * 14 + sum) \div 14 \in Int
    BY <2>1
  <2>5. ~(n > fits)
    BY <2>1, <2>2, <2>3, <2>4
  <2>6. ~(file.len < 4 \/ file.magic \notin Formats) /\ ~(file.len < FileHeader + footer)
    BY <2>1 DEF Formats, FileHeader
  <2> QED BY <2>1, <2>5, <2>6 DEF n
<1> HIDE DEF fits, footer
<1> DEFINE passes == /\ ~(file.len < 4 \/ file.magic \notin Formats) /\ ~(file.len < FileHeader + footer)
                     /\ ~(file.declared > MaxUsize) /\ ~(file.count > fits)
                     /\ file.count = DivUp(file.declared, BlockSize)
<1>4. CASE ~passes
  <2>1. PICK why \in {"bad magic", "truncated", "too large", "bad layout"} :
           /\ read' = Fail(why)
           /\ honest # << >> /\ honest.whole => why = "too large" /\ honest.len > MaxUsize
    <3>1. CASE file.len < 4 \/ file.magic \notin Formats
      BY <1>1, <1>3, <3>1
    <3>2. CASE ~(file.len < 4 \/ file.magic \notin Formats) /\ file.len < FileHeader + footer
      BY <1>1, <1>3, <3>2
    <3>3. CASE ~(file.len < 4 \/ file.magic \notin Formats) /\ ~(file.len < FileHeader + footer) /\ file.declared > MaxUsize
      BY <1>1, <1>3, <3>3
    <3>4. CASE /\ ~(file.len < 4 \/ file.magic \notin Formats) /\ ~(file.len < FileHeader + footer)
               /\ ~(file.declared > MaxUsize) /\ file.count > fits
      BY <1>1, <1>3, <3>4
    <3>5. CASE /\ ~(file.len < 4 \/ file.magic \notin Formats) /\ ~(file.len < FileHeader + footer)
               /\ ~(file.declared > MaxUsize) /\ ~(file.count > fits) /\ file.count # DivUp(file.declared, BlockSize)
      BY <1>1, <1>3, <3>5
    <3> QED BY <1>4, <3>1, <3>2, <3>3, <3>4, <3>5
  <2>2. why \notin {"start", "blocks", "ok"}
    OBVIOUS
  <2> QED BY <1>1, <2>1, <2>2, RefusalKeeps
<1>5. CASE passes
  <2>0. read' = [read EXCEPT !.status = "blocks", !.pos = FileHeader, !.reserved = file.count]
    BY <1>1, <1>5
  <2>1. /\ read = [status |-> read.status, pos |-> read.pos, blocks |-> read.blocks, reserved |-> read.reserved]
        /\ read.blocks = << >>
    BY <1>1 DEF ContainerInv, ReadInside
  <2>2. /\ read'.status = "blocks" /\ read'.pos = FileHeader /\ read'.blocks = << >> /\ read'.reserved = file.count
        /\ read' = [status |-> read'.status, pos |-> read'.pos, blocks |-> read'.blocks, reserved |-> read'.reserved]
    BY <2>0, <2>1
  <2>3. FileHeader + file.count * BlockHeader <= file.len
    <3> DEFINE rest == file.len - FileHeader - footer
    <3>1. rest \in Nat /\ rest <= file.len - 16
      BY <1>0, <1>2, <1>5 DEF FileHeader
    <3> HIDE DEF rest
    <3>2. rest \div 14 \in Int /\ (rest \div 14) * 14 <= rest
      BY <3>1
    <3>3. file.count <= rest \div 14
      BY <1>2, <1>5, <3>2 DEF fits, rest, BlockHeader
    <3>4. file.count * 14 <= (rest \div 14) * 14
      BY <1>2, <3>2, <3>3
    <3> QED BY <1>2, <3>1, <3>2, <3>4 DEF FileHeader, BlockHeader
  <2>4. << >> \in Seq(ReadBlock) /\ Len(<< >>) = 0
    BY EmptySeq, Zenon
  <2>5. ReadInside'
    <3>1. 1..Len(<< >>) = {} /\ FileHeader \in Nat
      BY <2>4 DEF FileHeader
    <3>2. file' = file /\ honest' = honest
      BY <1>1
    <3> QED BY <1>1, <1>2, <2>2, <2>3, <2>4, <3>1, <3>2, Zenon DEF ReadInside
  <2>6. Spans(<< >>) = << >> /\ Origs(<< >>) = << >>
    BY DEF Spans, Origs
  <2>7. ReadAddsUp'
    <3>1. SumOf(Spans(read'.blocks)) = 0 /\ SumOf(Origs(read'.blocks)) = 0 /\ Len(read'.blocks) = 0
      BY <2>2, <2>4, <2>6, SumOfNone, Zenon
    <3>2. Least2(0 * BlockSize, file.declared) = 0
      <4>1. BlockSize \in Nat /\ 0 * BlockSize = 0
        BY ContainerAssumption
      <4> QED BY <1>2, <4>1 DEF Least2
    <3>3. FileHeader = FileHeader + 0 /\ 0 <= file.count
      BY <1>2 DEF FileHeader
    <3>4. /\ file.magic \in Formats /\ file.count = DivUp(file.declared, BlockSize)
          /\ read'.status # "ok" /\ file' = file
      BY <1>1, <1>5, <2>2
    <3> QED BY <2>2, <2>3, <3>1, <3>2, <3>3, <3>4, Zenon DEF ReadAddsUp
  <2>8. AsLaid' /\ VerdictGiven'
    BY <1>1 DEF ContainerInv, AsLaid, VerdictGiven
  <2>9. ReadAsLaid'
    <3>1. SumOf(SubSeq(honest.packed, 1, 0)) = 0
      <4>1. SubSeq(honest.packed, 1, 0) = << >>
        OBVIOUS
      <4> QED BY <4>1, SumOfNone, Zenon
    <3>2. FileHeader = FileHeader + 0 * BlockHeader + 0 /\ 1..0 = {}
      BY DEF FileHeader, BlockHeader
    <3>3. read'.status = "blocks" /\ read'.pos = FileHeader /\ Len(read'.blocks) = 0 /\ honest' = honest
      BY <1>1, <2>2, <2>4
    <3> QED BY <3>1, <3>2, <3>3, Zenon DEF ReadAsLaid
  <2> QED BY <2>5, <2>7, <2>8, <2>9 DEF ContainerInv
<1> QED BY <1>4, <1>5

\* The next block of a file that was written is where it was put.
LEMMA NextAsLaid ==
  ASSUME ContainerInv, honest # << >>, read.status = "blocks", Len(read.blocks) < file.count
  PROVE  LET m == Len(read.blocks)
             h == file.heads[m + 1]
             sum == SumOf(SubSeq(honest.packed, 1, m))
         IN  /\ h.codec \in Codecs /\ h.orig = BlockLen(file.declared, m) /\ h.comp = honest.packed[m + 1]
             /\ sum \in Nat /\ read.pos = FileHeader + m * BlockHeader + sum
             /\ SumOf(SubSeq(honest.packed, 1, m + 1)) = sum + h.comp
             /\ sum + h.comp <= SumOf(honest.packed)
<1> DEFINE m == Len(read.blocks)
           h == file.heads[m + 1]
           packed == honest.packed
           sum == SumOf(SubSeq(packed, 1, m))
           next == SumOf(SubSeq(packed, 1, m + 1))
<1>1. /\ packed \in Seq(Nat) /\ file.count = Len(packed) /\ file.declared = honest.len
      /\ \A k \in 1..file.count :
           /\ file.heads[k] \in [codec : Codecs, orig : Nat, comp : Nat]
           /\ file.heads[k].orig = BlockLen(honest.len, k - 1) /\ file.heads[k].comp = packed[k]
  BY Zenon DEF ContainerInv, AsLaid
<1>2. m \in Nat
  BY LenProperties DEF ContainerInv, ReadInside
<1>3. read.pos = FileHeader + m * BlockHeader + sum
  BY Zenon DEF ContainerInv, ReadAsLaid
<1>4. file.count \in Nat
  BY <1>1, LenProperties
<1>5. m < file.count
  OBVIOUS
<1> HIDE DEF m
<1>6. m + 1 \in 1..file.count /\ m \in 0..file.count /\ m + 1 \in 0..file.count /\ (m + 1) - 1 = m
  BY <1>2, <1>4, <1>5
<1>7. h \in [codec : Codecs, orig : Nat, comp : Nat] /\ h.orig = BlockLen(honest.len, (m + 1) - 1) /\ h.comp = packed[m + 1]
  BY <1>1, <1>6
<1> HIDE DEF packed
<1>8. sum \in Nat
  BY <1>1, <1>6, SumOfFewer
<1>9. next <= SumOf(packed)
  BY <1>1, <1>6, SumOfFewer
<1>10. next = sum + packed[m + 1]
  <2> DEFINE i == m + 1
  <2>1. i \in 1..Len(packed) /\ i - 1 = m
    BY <1>1, <1>6
  <2> HIDE DEF i
  <2>2. SumOf(SubSeq(packed, 1, i)) = SumOf(SubSeq(packed, 1, i - 1)) + packed[i]
    BY <1>1, <2>1, SumOfFirst
  <2>3. SumOf(SubSeq(packed, 1, i)) = sum + packed[i]
    BY <2>1, <2>2
  <2> QED BY <2>3 DEF i
<1>11. h.orig = BlockLen(file.declared, m)
  BY <1>1, <1>6, <1>7
<1>12. next = sum + h.comp
  BY <1>7, <1>10
<1> HIDE DEF h, sum, next
<1>13. sum + h.comp <= SumOf(packed)
  BY <1>9, <1>12
<1>14. h.codec \in Codecs
  BY <1>7
<1> QED BY <1>3, <1>7, <1>8, <1>11, <1>12, <1>13, <1>14, Zenon DEF m, h, sum, next, packed

\* One block is read, or it is refused.
LEMMA BlockKeeps ==
  ASSUME ContainerInv, ParseBlock
  PROVE  ContainerInv'
<1> DEFINE m == Len(read.blocks)
           h == file.heads[m + 1]
           pos == read.pos + BlockHeader
           b == [codec |-> h.codec, orig |-> h.orig, at |-> pos, comp |-> h.comp]
<1>1. /\ read.status = "blocks" /\ m < file.count /\ UNCHANGED <<file, honest, block>>
      /\ read' = IF ~Within(read.pos, 2) THEN Fail("truncated")
                 ELSE IF h.codec \notin Codecs THEN Fail("unknown codec")
                 ELSE IF ~Within(read.pos, BlockHeader) THEN Fail("truncated")
                 ELSE IF h.orig # BlockLen(file.declared, m) THEN Fail("bad layout")
                 ELSE IF ~Within(pos, h.comp) THEN Fail("truncated")
                 ELSE [read EXCEPT !.pos = pos + h.comp, !.blocks = Append(@, b)]
  BY DEF ParseBlock
<1>2. file # << >> /\ IsContainer(file) /\ read.pos \in Nat /\ read.blocks \in Seq(ReadBlock)
  BY <1>1 DEF ContainerInv, ReadInside
<1>3. file.len \in Nat /\ file.count \in Nat /\ file.declared \in Nat /\ MaxUsize \in Nat /\ BlockSize \in Nat \ {0}
  BY <1>2, ContainerAssumption DEF IsContainer
<1>4. m \in Nat
  BY <1>2, LenProperties
<1>5. m + 1 \in 1..file.count /\ m + 1 <= file.count
  <2>1. m < file.count
    BY <1>1
  <2> HIDE DEF m
  <2> QED BY <1>3, <1>4, <2>1
<1>6. /\ FileHeader + file.count * BlockHeader <= file.len /\ file.count = DivUp(file.declared, BlockSize)
      /\ file.magic \in Formats /\ read.pos = FileHeader + SumOf(Spans(read.blocks))
      /\ SumOf(Origs(read.blocks)) = Least2(m * BlockSize, file.declared)
  BY <1>1 DEF ContainerInv, ReadAddsUp
<1>7. h \in [codec : Nat, orig : Nat, comp : Nat]
  <2>1. m + 1 \in 1..file.count
    BY <1>5
  <2> HIDE DEF m
  <2> QED BY <1>2, <1>6, <2>1 DEF IsContainer
<1>8. pos \in Nat /\ h.comp \in Nat /\ h.orig \in Nat
  BY <1>2, <1>7 DEF BlockHeader
<1> DEFINE passes == /\ Within(read.pos, 2) /\ h.codec \in Codecs /\ Within(read.pos, BlockHeader)
                     /\ h.orig = BlockLen(file.declared, m) /\ Within(pos, h.comp)
<1>9. honest # << >> /\ honest.whole => passes
  <2> SUFFICES ASSUME honest # << >>, honest.whole PROVE passes
    OBVIOUS
  <2> DEFINE sum == SumOf(SubSeq(honest.packed, 1, m))
             all == SumOf(honest.packed)
             n == file.count
  <2>1. /\ h.codec \in Codecs /\ h.orig = BlockLen(file.declared, m)
        /\ sum \in Nat /\ read.pos = FileHeader + m * BlockHeader + sum
        /\ sum + h.comp <= all
    BY <1>1, NextAsLaid
  <2>2. /\ all \in Nat /\ file.len = 16 + n * 14 + all + 32 /\ file.len <= MaxUsize
    BY WholeFile DEF ContainerInv, LaidLen, FileHeader, BlockHeader, Digest
  <2> DEFINE comp == h.comp
             at == read.pos
             len == file.len
  <2>3. comp \in Nat /\ m \in Nat /\ n \in Nat /\ m < n /\ len \in Nat
    BY <1>1, <1>3, <1>4, <1>8
  <2>4. at = 16 + m * 14 + sum /\ sum \in Nat /\ sum + comp <= all /\ all \in Nat /\ len = 16 + n * 14 + all + 32 /\ len <= MaxUsize
    BY <2>1, <2>2 DEF FileHeader, BlockHeader
  <2>5. Within(at, 2) /\ Within(at, 14) /\ Within(at + 14, comp)
    <3> HIDE DEF m, n, sum, all, comp, at
    <3>1. at + 14 + comp <= len /\ at + 14 <= len /\ at + 2 <= len /\ at \in Nat
      BY <2>3, <2>4
    <3> QED BY <1>3, <2>3, <2>4, <3>1 DEF Within
  <2> QED BY <2>1, <2>5 DEF BlockHeader
<1>10. CASE ~passes
  <2>1. \E why \in {"truncated", "unknown codec", "bad layout"} : read' = Fail(why)
    <3> HIDE DEF m, h, pos, b
    <3>1. CASE ~Within(read.pos, 2)
      BY <1>1, <3>1
    <3>2. CASE Within(read.pos, 2) /\ h.codec \notin Codecs
      BY <1>1, <3>2
    <3>3. CASE Within(read.pos, 2) /\ h.codec \in Codecs /\ ~Within(read.pos, BlockHeader)
      BY <1>1, <3>3
    <3>4. CASE Within(read.pos, 2) /\ h.codec \in Codecs /\ Within(read.pos, BlockHeader) /\ h.orig # BlockLen(file.declared, m)
      BY <1>1, <3>4
    <3>5. CASE Within(read.pos, 2) /\ h.codec \in Codecs /\ Within(read.pos, BlockHeader) /\ h.orig = BlockLen(file.declared, m) /\ ~Within(pos, h.comp)
      BY <1>1, <3>5
    <3> QED BY <1>10, <3>1, <3>2, <3>3, <3>4, <3>5
  <2>2. PICK why \in {"truncated", "unknown codec", "bad layout"} : read' = Fail(why)
    BY <2>1
  <2>3. why \notin {"start", "blocks", "ok"}
    OBVIOUS
  <2>4. ~(honest # << >> /\ honest.whole)
    BY <1>9, <1>10
  <2> QED BY <1>1, <1>2, <2>2, <2>3, <2>4, RefusalKeeps
<1>11. CASE passes
  <2>1. read' = [read EXCEPT !.pos = pos + h.comp, !.blocks = Append(@, b)]
    BY <1>1, <1>11, Zenon
  <2>2. read = [status |-> read.status, pos |-> read.pos, blocks |-> read.blocks, reserved |-> read.reserved]
    BY DEF ContainerInv, ReadInside
  <2> DEFINE more == Append(read.blocks, b)
  <2>3. /\ read'.status = "blocks" /\ read'.pos = pos + h.comp /\ read'.blocks = more /\ read'.reserved = read.reserved
        /\ read' = [status |-> read'.status, pos |-> read'.pos, blocks |-> read'.blocks, reserved |-> read'.reserved]
    <3> HIDE DEF b, h, pos
    <3> QED BY <1>1, <2>1, <2>2
  <2>4. b \in ReadBlock /\ b.orig = h.orig /\ b.comp = h.comp /\ b.at = pos
    <3> HIDE DEF h, pos
    <3> QED BY <1>8, <1>11 DEF ReadBlock
  <2>5. pos + h.comp <= file.len
    BY <1>11 DEF Within
  <2> HIDE DEF b
  <2>6. more \in Seq(ReadBlock) /\ Len(more) = m + 1 /\ more[m + 1] = b /\ \A k \in 1..m : more[k] = read.blocks[k]
    BY <1>2, <2>4, AppendProperties
  <2> HIDE DEF more, m, h, pos
  <2>7. \A k \in 1..m + 1 : k \in 1..m \/ k = m + 1
    BY <1>4
  <2>8. ReadInside'
    <3>1. \A k \in 1..m : read.blocks[k].at + read.blocks[k].comp <= file.len
      BY DEF ContainerInv, ReadInside, m
    <3>2. \A k \in 1..m + 1 : more[k].at + more[k].comp <= file.len
      BY <2>4, <2>5, <2>6, <2>7, <3>1
    <3>3. pos + h.comp \in Nat
      BY <1>8
    <3>4. read.reserved \in Nat /\ (read.reserved # 0 => FileHeader + read.reserved * BlockHeader <= file.len)
      BY DEF ContainerInv, ReadInside
    <3> QED BY <1>1, <1>2, <2>3, <2>6, <3>2, <3>3, <3>4 DEF ReadInside
  <2>9. ReadAddsUp'
    <3> DEFINE done == Least2(m * BlockSize, file.declared)
    <3>1. /\ Spans(read.blocks) \in Seq(Nat) /\ Origs(read.blocks) \in Seq(Nat)
          /\ Spans(more) = Append(Spans(read.blocks), BlockHeader + h.comp)
          /\ Origs(more) = Append(Origs(read.blocks), h.orig)
      BY <1>2, <2>4, RowsGrow DEF more
    <3>2. BlockHeader + h.comp \in Nat
      BY <1>8 DEF BlockHeader
    <3>3. SumOf(Spans(more)) = SumOf(Spans(read.blocks)) + (BlockHeader + h.comp) /\ SumOf(Spans(read.blocks)) \in Nat
      BY <3>1, <3>2, SumOfMore, SumOfType
    <3>4. SumOf(Origs(more)) = done + h.orig
      BY <1>6, <1>8, <3>1, SumOfMore
    <3>5. done + BlockLen(file.declared, m) = Least2((m + 1) * BlockSize, file.declared)
      BY <1>1, <1>3, <1>4, <1>6, NextBlock
    <3>6. SumOf(Origs(more)) = Least2((m + 1) * BlockSize, file.declared)
      BY <1>11, <3>4, <3>5
    <3>7. pos + h.comp = FileHeader + SumOf(Spans(more))
      BY <1>6, <1>8, <3>3 DEF pos, FileHeader, BlockHeader
    <3>8. m + 1 <= file.count
      BY <1>5
    <3> QED BY <1>1, <1>6, <2>3, <2>6, <3>6, <3>7, <3>8 DEF ReadAddsUp
  <2>10. AsLaid' /\ VerdictGiven'
    BY <1>1 DEF ContainerInv, AsLaid, VerdictGiven
  <2>11. ReadAsLaid'
    <3> SUFFICES ASSUME honest # << >>
                 PROVE  /\ read'.pos = FileHeader + (m + 1) * BlockHeader + SumOf(SubSeq(honest.packed, 1, m + 1))
                        /\ \A k \in 1..m + 1 :
                             /\ more[k].comp = honest.packed[k]
                             /\ more[k].at = FileHeader + k * BlockHeader + SumOf(SubSeq(honest.packed, 1, k - 1))
      <4>1. /\ honest' = honest /\ read'.status = "blocks" /\ read'.blocks = more /\ Len(more) = m + 1
        BY <1>1, <2>3, <2>6
      <4> HIDE DEF more, m
      <4> QED BY <4>1 DEF ReadAsLaid
    <3> DEFINE sum == SumOf(SubSeq(honest.packed, 1, m))
    <3>1. /\ h.comp = honest.packed[m + 1] /\ sum \in Nat /\ read.pos = FileHeader + m * BlockHeader + sum
          /\ SumOf(SubSeq(honest.packed, 1, m + 1)) = sum + h.comp
      BY <1>1, NextAsLaid DEF m, h
    <3>2. pos = FileHeader + (m + 1) * BlockHeader + sum
      <4> HIDE DEF sum
      <4> QED BY <1>4, <3>1 DEF pos, FileHeader, BlockHeader
    <3>3. read'.pos = FileHeader + (m + 1) * BlockHeader + SumOf(SubSeq(honest.packed, 1, m + 1))
      <4> HIDE DEF sum
      <4> QED BY <1>4, <1>8, <2>3, <3>1, <3>2 DEF FileHeader, BlockHeader
    <3>4. \A k \in 1..m : /\ read.blocks[k].comp = honest.packed[k]
                          /\ read.blocks[k].at = FileHeader + k * BlockHeader + SumOf(SubSeq(honest.packed, 1, k - 1))
      BY <1>1, Zenon DEF ContainerInv, ReadAsLaid, m
    <3>5. more[m + 1].at = FileHeader + (m + 1) * BlockHeader + SumOf(SubSeq(honest.packed, 1, (m + 1) - 1))
      <4>1. (m + 1) - 1 = m
        BY <1>4
      <4> QED BY <2>4, <2>6, <3>2, <4>1
    <3>6. ASSUME NEW k \in 1..m + 1
          PROVE  /\ more[k].comp = honest.packed[k]
                 /\ more[k].at = FileHeader + k * BlockHeader + SumOf(SubSeq(honest.packed, 1, k - 1))
      <4>1. CASE k \in 1..m
        BY <2>6, <3>4, <4>1
      <4>2. CASE k = m + 1
        <5>1. more[m + 1].comp = honest.packed[m + 1]
          BY <2>4, <2>6, <3>1
        <5> QED BY <3>5, <4>2, <5>1
      <4> QED BY <2>7, <4>1, <4>2
    <3> QED BY <3>3, <3>6
  <2> QED BY <2>8, <2>9, <2>10, <2>11 DEF ContainerInv
<1> QED BY <1>10, <1>11

\* Every step keeps it.
LEMMA ContainerStep == ContainerInv /\ [ContainerNext]_containerVars => ContainerInv'
<1> SUFFICES ASSUME ContainerInv, [ContainerNext]_containerVars PROVE ContainerInv'
  OBVIOUS
<1>1. CASE Write
  BY <1>1, WriteKeeps
<1>2. CASE DamageFile
  BY <1>2, DamageKeeps
<1>3. CASE ParseHeader
  BY <1>3, HeaderKeeps
<1>4. CASE ParseBlock
  BY <1>4, BlockKeeps
<1>5. CASE ParseEnd
  BY <1>5, EndKeeps
<1>6. CASE CheckLengths
  BY <1>6, CheckKeeps
<1>7. CASE UNCHANGED containerVars
  BY <1>7 DEF containerVars, ContainerInv, ReadInside, ReadAddsUp, AsLaid, ReadAsLaid, VerdictGiven
<1> QED BY <1>1, <1>2, <1>3, <1>4, <1>5, <1>6, <1>7 DEF ContainerNext

---------------------------------------------------------------------------
(* What it says of a file that was read                                    *)

\* The rows that the properties sum are those of the invariant.
LEMMA SameRows ==
  ASSUME ContainerInv
  PROVE  /\ DOMAIN read.blocks = 1..Len(read.blocks)
         /\ [k \in DOMAIN read.blocks |-> read.blocks[k].orig] = Origs(read.blocks)
         /\ [k \in DOMAIN read.blocks |-> BlockHeader + read.blocks[k].comp] = Spans(read.blocks)
<1>1. DOMAIN read.blocks = 1..Len(read.blocks)
  BY LenProperties DEF ContainerInv, ReadInside
<1> QED BY <1>1, Zenon DEF Origs, Spans

\* All the blocks together are the declared length.
LEMMA AllIsRead ==
  ASSUME ContainerInv, read.status = "ok"
  PROVE  SumOf(Origs(read.blocks)) = file.declared
<1>1. /\ Len(read.blocks) = DivUp(file.declared, BlockSize)
      /\ SumOf(Origs(read.blocks)) = Least2(Len(read.blocks) * BlockSize, file.declared)
  BY DEF ContainerInv, ReadAddsUp
<1>2. file.declared \in Nat /\ BlockSize \in Nat \ {0}
  BY ContainerAssumption DEF ContainerInv, ReadInside, IsContainer
<1>3. file.declared <= DivUp(file.declared, BlockSize) * BlockSize /\ DivUp(file.declared, BlockSize) \in Nat
  BY <1>2, DivUpIs
<1> DEFINE a == DivUp(file.declared, BlockSize) * BlockSize
<1>4. a \in Nat
  BY <1>2, <1>3
<1>5. SumOf(Origs(read.blocks)) = Least2(a, file.declared)
  BY <1>1
<1> HIDE DEF a
<1> QED BY <1>2, <1>3, <1>4, <1>5 DEF Least2, a

\* What was written is read back, or refused.
LEMMA WholeHolds == ContainerInv => WholeOrRefused
<1> SUFFICES ASSUME ContainerInv, honest # << >>
             PROVE  /\ honest.whole => /\ read.status \in {"start", "blocks", "ok", "too large"}
                                       /\ (read.status = "too large" => honest.len > MaxUsize)
                    /\ read.status = "ok" =>
                         /\ honest.whole /\ Len(read.blocks) = Len(honest.packed)
                         /\ SumOf([k \in DOMAIN read.blocks |-> read.blocks[k].orig]) = honest.len
                         /\ \A k \in DOMAIN read.blocks :
                              /\ read.blocks[k].comp = honest.packed[k]
                              /\ read.blocks[k].at = FileHeader + k * BlockHeader + SumOf(SubSeq(honest.packed, 1, k - 1))
  BY Zenon DEF WholeOrRefused
<1>1. honest.whole => /\ read.status \in {"start", "blocks", "ok", "too large"}
                      /\ (read.status = "too large" => honest.len > MaxUsize)
  BY Zenon DEF ContainerInv, ReadAsLaid
<1>2. ASSUME read.status = "ok"
      PROVE  /\ honest.whole /\ Len(read.blocks) = Len(honest.packed)
             /\ SumOf([k \in DOMAIN read.blocks |-> read.blocks[k].orig]) = honest.len
             /\ \A k \in DOMAIN read.blocks :
                  /\ read.blocks[k].comp = honest.packed[k]
                  /\ read.blocks[k].at = FileHeader + k * BlockHeader + SumOf(SubSeq(honest.packed, 1, k - 1))
  <2> DEFINE packed == honest.packed
             n == Len(packed)
  <2>1. /\ packed \in Seq(Nat) /\ file.count = n /\ file.declared = honest.len /\ file.magic = "NX15"
        /\ (honest.whole <=> file.len = LaidLen(packed))
    BY Zenon DEF ContainerInv, AsLaid
  <2>2. Len(read.blocks) = n /\ read.pos + Footer(file.magic) = file.len
    BY <1>2, <2>1 DEF ContainerInv, ReadAddsUp
  <2>3. /\ read.pos = FileHeader + Len(read.blocks) * BlockHeader + SumOf(SubSeq(packed, 1, Len(read.blocks)))
        /\ \A k \in 1..Len(read.blocks) :
             /\ read.blocks[k].comp = packed[k]
             /\ read.blocks[k].at = FileHeader + k * BlockHeader + SumOf(SubSeq(packed, 1, k - 1))
    BY <1>2, Zenon DEF ContainerInv, ReadAsLaid
  <2> HIDE DEF packed
  <2>4. SubSeq(packed, 1, n) = packed
    BY <2>1, LenProperties
  <2>5. read.pos = FileHeader + n * BlockHeader + SumOf(packed)
    BY <2>2, <2>3, <2>4
  <2>6. file.len = LaidLen(packed)
    BY <2>1, <2>2, <2>5 DEF LaidLen, Footer
  <2>7. honest.whole
    BY <2>1, <2>6, Zenon
  <2>8. SumOf([k \in DOMAIN read.blocks |-> read.blocks[k].orig]) = honest.len
    BY <1>2, <2>1, SameRows, AllIsRead
  <2> QED BY <2>2, <2>3, <2>7, <2>8, SameRows, Zenon DEF packed
<1> QED BY <1>1, <1>2, Zenon

\* Whatever the file says, it is accounted for.
LEMMA HostileHolds == ContainerInv => HostileAccounted
<1> SUFFICES ASSUME ContainerInv PROVE HostileAccounted
  OBVIOUS
<1>1. read.reserved * BlockHeader <= (IF file = << >> THEN 0 ELSE file.len)
  <2>1. CASE file = << >>
    BY <2>1 DEF ContainerInv, ReadInside, BlockHeader
  <2>2. CASE file # << >>
    <3>1. file.len \in Nat /\ read.reserved \in Nat
      BY <2>2 DEF ContainerInv, ReadInside, IsContainer
    <3>2. read.reserved # 0 => FileHeader + read.reserved * BlockHeader <= file.len
      BY DEF ContainerInv, ReadInside
    <3> QED BY <2>2, <3>1, <3>2 DEF FileHeader, BlockHeader
  <2> QED BY <2>1, <2>2
<1>2. \A k \in DOMAIN read.blocks : read.blocks[k].at + read.blocks[k].comp <= file.len
  BY SameRows DEF ContainerInv, ReadInside
<1>3. ASSUME read.status = "ok"
      PROVE  /\ FileHeader + SumOf([k \in DOMAIN read.blocks |-> BlockHeader + read.blocks[k].comp])
                  + Footer(file.magic) = file.len
             /\ SumOf([k \in DOMAIN read.blocks |-> read.blocks[k].orig]) = file.declared
  <2>1. read.pos = FileHeader + SumOf(Spans(read.blocks)) /\ read.pos + Footer(file.magic) = file.len
    BY <1>3 DEF ContainerInv, ReadAddsUp
  <2>2. FileHeader + SumOf(Spans(read.blocks)) + Footer(file.magic) = file.len
    BY <2>1
  <2> QED BY <1>3, <2>2, SameRows, AllIsRead
<1> QED BY <1>1, <1>2, <1>3 DEF HostileAccounted

\* Lengths that pass leave a decoder nothing to run past.
LEMMA LengthsHold == ContainerInv => LengthsAgree
<1> SUFFICES ASSUME ContainerInv, block.verdict = "ok" PROVE LengthsAgree
  BY DEF LengthsAgree
<1> DEFINE p == block.payload
           n == block.expected
<1>1. n \in Nat /\ IsPayload(p) /\ Checked(p, n) = "ok"
  BY DEF ContainerInv, VerdictGiven
<1> HIDE DEF p, n
<1>2. CASE p.kind = "delta"
  <2>1. p.lanes \in Seq([symbols : Nat, coded : Nat]) /\ p.len \in Nat /\ DeltaVerdict(p, n, DeltaEnds(p)) = "ok"
    BY <1>1, <1>2 DEF IsPayload, Checked
  <2>2. LanesFit(p, n)
    BY <1>1, <2>1, DeltaAgrees
  <2> QED BY <1>2, <2>2 DEF LengthsAgree, LanesFit, p, n
<1>3. CASE p.kind = "lz77"
  <2>1. /\ p.blocks \in Seq([tokens : Nat, bytes : Nat]) /\ p.tokens \in Nat /\ p.len \in Nat
        /\ Lz77Verdict(p, n, Lz77Ends(p)) = "ok"
    BY <1>1, <1>3 DEF IsPayload, Checked
  <2>2. /\ SumOf([k \in DOMAIN p.blocks |-> p.blocks[k].tokens]) <= n
        /\ SumOf([k \in DOMAIN p.blocks |-> 8 + p.blocks[k].bytes]) + 8 <= p.len
    BY <1>1, <2>1, Lz77Agrees
  <2> QED BY <1>3, <2>2 DEF LengthsAgree, p, n
<1>4. CASE p.kind = "runs"
  <2>1. p.len > 9 /\ p.mode = 1 => p.runs <= n
    BY <1>1, <1>4 DEF Checked, Verdict
  <2> QED BY <1>4, <2>1 DEF LengthsAgree, p, n
<1>5. CASE p.kind \notin {"delta", "lz77", "runs"}
  BY <1>5 DEF LengthsAgree, p
<1> QED BY <1>2, <1>3, <1>4, <1>5

---------------------------------------------------------------------------
(* The theorems                                                            *)

\* The reader's position, its blocks and the room it made agree with the file,
\* and with what a writer laid out (parse_container, adaptive_compress).
THEOREM ContainerInvariant == ContainerSpec => []ContainerInv
<1>1. ContainerInit => ContainerInv
  BY ContainerInit1
<1>2. ContainerInv /\ [ContainerNext]_containerVars => ContainerInv'
  BY ContainerStep
<1> QED BY <1>1, <1>2, PTL DEF ContainerSpec

\* A container is read whole or refused, whatever it lost or declares, and
\* lengths that pass the check leave no decoder a byte, lane or run too many
\* (parse_container, check_declared_lengths).
THEOREM ReadWholeOrRefused == ContainerSpec => []ContainerFaithful
<1>1. ContainerInv => ContainerFaithful
  BY WholeHolds, HostileHolds, LengthsHold DEF ContainerFaithful
<1> QED BY <1>1, ContainerInvariant, PTL

---------------------------------------------------------------------------
(* The command line and the sealed file.                                   *)

Steps == {"idle", "ask", "work", "seal", "write", "peel", "open", "restore", "ok", "err"}

Errors == {"none", "no password", "mismatch", "not unicode", "io", "key too short", "random source",
           "truncated header", "unknown kdf", "too short", "kdf out of range", "decryption failed",
           "pre-release", "unknown format"}

RunType == [op : {"none", "compress", "decompress", "inspect"}, pc : Steps, sealing : BOOLEAN,
            input : Nat, pw : Passwords, payload : Payload, error : Errors]
LogType == [asked : {0, 1, 2}, worked : BOOLEAN, derived : SUBSET KdfType, result : Seq(Int)]

CommandTypeOK ==
  /\ IsFile(archive)
  /\ origin \in [len : Int, pw : Passwords, whole : BOOLEAN]
  /\ given \in Given
  /\ run \in RunType
  /\ left \in Int
  /\ log \in LogType

\* The file holds what it was made of, or it opens for nobody.
FileSound ==
  /\ origin.whole => Holds(archive, origin.len, origin.pw)
  /\ ~origin.whole => archive.wrapper # "none" /\ ~(OpenError(archive) = "none" /\ Opens(archive, archive.frame.pw))

\* The terminal was used only because nothing else names a password.
OnlyTerminal == given.argv = Absent /\ given.file = Absent /\ given.env = Absent

\* What a run that seals has established on its way.
Sealing ==
  run.op = "compress" =>
    /\ run.pc \in {"ask", "work", "seal", "write", "ok", "err"} /\ log.result = << >>
    /\ run.pc = "ask" => run.sealing /\ log = Quiet /\ run.pw = Absent
    /\ run.pc = "seal" => run.sealing
    /\ run.pc \in {"seal", "write"} => run.payload = Bytes("NX15", run.input)
    /\ (run.pc \in {"work", "seal", "write", "ok"} \/ log.worked) => (run.sealing <=> run.pw # Absent)
    /\ log.asked > 0 => run.sealing /\ OnlyTerminal
    /\ (log.asked > 0 /\ run.pc \in {"work", "seal", "write", "ok"}) => given.tty = given.again /\ run.pw = given.tty
    /\ (run.pc = "ok" /\ run.sealing) => archive.frame.pw = run.pw

\* What a run that opens has established on its way.
Unsealing ==
  Opening =>
    /\ run.pc \in {"peel", "open", "restore", "ok", "err"} /\ ~log.worked
    /\ run.pc = "peel" => log = Quiet /\ run.pw = Absent
    /\ run.pc = "open" => archive.wrapper # "none" /\ log.derived = {}
    /\ log.asked > 0 => OnlyTerminal /\ archive.wrapper # "none"
    /\ log.derived # {} => archive.cut = "no" /\ (archive.wrapper = "NXE3" => archive.id = Argon2id)
    /\ run.pc = "restore" =>
         IF archive.wrapper = "none" THEN run.payload = archive.bytes
         ELSE run.payload = archive.frame.holds /\ OpenError(archive) = "none" /\ Opens(archive, run.pw)
    /\ run.pc # "ok" => log.result = << >>
    /\ run.pc = "ok" => /\ log.result = <<origin.len>>
                        /\ archive.wrapper # "none" => origin.whole /\ run.pw = origin.pw
                        /\ archive.wrapper = "none" => archive.bytes.magic = "NX15"
    /\ run.pc = "err" => ~(origin.whole /\ archive.wrapper # "none" /\ run.pw = origin.pw /\ origin.len >= 0)

CommandInv ==
  /\ CommandTypeOK /\ FileSound /\ Sealing /\ Unsealing
  /\ run.op = "none" => run.pc = "idle" /\ log = Quiet
  /\ run.sealing => run.op = "compress"
  /\ \A kdf \in log.derived : WithinLimits(kdf)
---------------------------------------------------------------------------
(* Passwords                                                               *)

\* Without its line ends what was typed is such a text, and not the mark.
LEMMA TrimmedIsText ==
  ASSUME NEW pw \in Typed
  PROVE  Trimmed(pw) \in Typed /\ Trimmed(pw) # Absent
<1> DEFINE kept == {0} \cup {k \in DOMAIN pw : pw[k] # "newline"}
           last == CHOOSE k \in kept : \A j \in kept : j <= k
           back == {Len(pw) - k : k \in kept}
<1>1. Len(pw) \in Nat /\ DOMAIN pw = 1..Len(pw)
  BY DEF Typed
<1>2. kept \subseteq 0..Len(pw) /\ 0 \in kept
  BY <1>1
<1>3. last \in kept
  <2>1. back \subseteq Nat /\ back # {}
    BY <1>1, <1>2
  <2>2. Least(back) \in back /\ \A y \in back : Least(back) <= y
    BY <2>1, LeastIsLeast
  <2>3. PICK k \in kept : Least(back) = Len(pw) - k
    BY <2>2
  <2>4. \A j \in kept : j <= k
    <3> SUFFICES ASSUME NEW j \in kept PROVE j <= k
      OBVIOUS
    <3>1. Len(pw) - k <= Len(pw) - j
      BY <2>2, <2>3
    <3> QED BY <3>1, <1>1, <1>2
  <2> QED BY <2>4
<1>4. Trimmed(pw) = SubSeq(pw, 1, last)
  BY DEF Trimmed
<1>5. last \in 0..Len(pw)
  BY <1>2, <1>3
<1> HIDE DEF kept, last
<1>6. SubSeq(pw, 1, last) \in Typed
  BY <1>1, <1>5 DEF Typed
<1>7. Absent \notin Typed
  <2> SUFFICES ASSUME Absent \in Typed PROVE FALSE
    OBVIOUS
  <2> DEFINE S == STRING \ {"absent"}
  <2>3. "absent" \notin S /\ Absent \in Seq(S)
    BY DEF Typed
  <2> HIDE DEF S
  <2>1. Len(Absent) = 1 /\ Absent[1] = "absent"
    BY DEF Absent
  <2> QED BY <2>1, <2>3
<1> QED BY <1>4, <1>6, <1>7

\* What is asked for and what comes of it.
Answered(answer, confirm) ==
  /\ answer \in [error : Errors, pw : Passwords, asked : {0, 1, 2}]
  /\ answer.error = "none" => answer.pw # Absent
  /\ answer.asked > 0 => OnlyTerminal
  /\ (answer.asked > 0 /\ answer.error = "none") => answer.pw = given.tty /\ (confirm => given.tty = given.again)

\* The sources are asked in the order of the code, and give an answer or an
\* error.
LEMMA PasswordAnswer ==
  ASSUME NEW confirm \in BOOLEAN, given \in Given
  PROVE  Answered(Password(confirm), confirm)
<1>1. /\ given.argv \in Passwords /\ given.tty \in Passwords /\ given.again \in Passwords
      /\ given.file \in Passwords \cup {Unreadable} /\ given.env \in Passwords \cup {NotUnicode}
      /\ Absent \in Passwords
  BY CommandAssumption DEF CommandAssumption, Passwords
<1>2. /\ (given.file # Absent /\ given.file # Unreadable) => Trimmed(given.file) \in Passwords /\ Trimmed(given.file) # Absent
      /\ (given.env # Absent /\ given.env # NotUnicode) => given.env \in Passwords
  BY <1>1, TrimmedIsText DEF Passwords
<1> HIDE DEF Passwords
<1>3. ASSUME NEW pw \in Passwords, pw # Absent
      PROVE  Answered(Got(pw, 0), confirm)
  BY <1>3 DEF Answered, Got, Errors
<1>4. /\ Answered(Denied("io", 0), confirm)
      /\ Answered(Denied("not unicode", 0), confirm)
      /\ Answered(Denied("no password", 0), confirm)
  <2>1. Answered(Denied("io", 0), confirm)
    BY <1>1 DEF Answered, Denied, Errors
  <2>2. Answered(Denied("not unicode", 0), confirm)
    BY <1>1 DEF Answered, Denied, Errors
  <2>3. Answered(Denied("no password", 0), confirm)
    BY <1>1 DEF Answered, Denied, Errors
  <2> QED BY <2>1, <2>2, <2>3
<1>5. CASE given.argv # Absent
  <2>1. Password(confirm) = Got(given.argv, 0)
    BY <1>5 DEF Password
  <2> QED BY <2>1, <1>1, <1>3, <1>5
<1>6. CASE given.argv = Absent /\ given.file # Absent
  <2>1. CASE given.file = Unreadable
    <3>1. Password(confirm) = Denied("io", 0)
      BY <1>6, <2>1 DEF Password
    <3> QED BY <3>1, <1>4
  <2>2. CASE given.file # Unreadable
    <3>1. Password(confirm) = Got(Trimmed(given.file), 0)
      BY <1>6, <2>2 DEF Password
    <3> QED BY <3>1, <1>2, <1>3, <1>6, <2>2
  <2> QED BY <2>1, <2>2
<1>7. CASE given.argv = Absent /\ given.file = Absent /\ given.env # Absent
  <2>1. CASE given.env = NotUnicode
    <3>1. Password(confirm) = Denied("not unicode", 0)
      BY <1>7, <2>1 DEF Password, Environment
    <3> QED BY <3>1, <1>4
  <2>2. CASE given.env # NotUnicode
    <3>1. Password(confirm) = Got(given.env, 0)
      BY <1>7, <2>2 DEF Password, Environment
    <3> QED BY <3>1, <1>2, <1>3, <1>7, <2>2
  <2> QED BY <2>1, <2>2
<1>8. CASE OnlyTerminal
  <2>1. Password(confirm) = Prompt(confirm)
    BY <1>8 DEF Password, Environment, OnlyTerminal
  <2>2. Answered(Denied("mismatch", 2), confirm)
    BY <1>1, <1>8 DEF Answered, Denied, Errors
  <2>3. (~confirm /\ given.tty # Absent) => Answered(Got(given.tty, 1), confirm)
    BY <1>1, <1>8 DEF Answered, Got, Errors
  <2>4. (given.again = given.tty /\ given.tty # Absent) => Answered(Got(given.tty, 2), confirm)
    BY <1>1, <1>8 DEF Answered, Got, Errors
  <2> QED BY <2>1, <2>2, <2>3, <2>4, <1>4 DEF Prompt
<1> QED BY <1>5, <1>6, <1>7, <1>8 DEF OnlyTerminal

---------------------------------------------------------------------------
(* Files                                                                   *)

\* What the assumption says of the constants.
LEMMA ConstantTypes ==
  /\ Inputs \subseteq Nat /\ MaxRuns \in Nat /\ Costs \subseteq KdfType
  /\ Nxe2Kdf \in KdfType /\ DefaultKdf \in KdfType /\ MaxKdf \in KdfType
BY CommandAssumption DEF CommandAssumption

\* What a compression writes is a file that holds its input.
LEMMA WrittenHolds ==
  ASSUME NEW len \in Nat, NEW pw \in Passwords, NEW payload, payload = Bytes("NX15", len)
  PROVE  /\ IsFile(Plain(payload)) /\ Holds(Plain(payload), len, pw)
         /\ IsFile(Sealed(payload, pw, len)) /\ Sealed(payload, pw, len).frame.pw = pw
         /\ pw # Absent => Holds(Sealed(payload, pw, len), len, pw)
<1> DEFINE aFile == Sealed(payload, pw, len)
           header == <<"NXE3", Argon2id, DefaultKdf, len>>
<1>1. payload \in Payload /\ payload.magic = "NX15" /\ payload.len = len
      /\ Bytes("empty", 0) \in Payload /\ Bytes("sealed", 0) \in Payload
  BY DEF Payload, Bytes
<1>2. IsFile(Plain(payload)) /\ Holds(Plain(payload), len, pw)
  BY <1>1, ConstantTypes DEF IsFile, Holds, Plain, NoFrame
<1>3. aFile = [wrapper |-> "NXE3", id |-> Argon2id, kdf |-> DefaultKdf, declared |-> len, cut |-> "no",
              frame |-> [pw |-> pw, kdf |-> DefaultKdf, header |-> header, holds |-> payload],
              bytes |-> Bytes("sealed", 0)]
  <2> DEFINE bare == [wrapper |-> "NXE3", id |-> Argon2id, kdf |-> DefaultKdf, declared |-> len, cut |-> "no",
                      frame |-> NoFrame, bytes |-> Bytes("sealed", 0)]
  <2>2. Header(bare) = header
    BY DEF Header
  <2>3. aFile = [bare EXCEPT !.frame = [pw |-> pw, kdf |-> DefaultKdf, header |-> Header(bare), holds |-> payload]]
    BY DEF Sealed
  <2> QED BY <2>2, <2>3
<1>4. Header(aFile) = header /\ FileKdf(aFile) = DefaultKdf
  BY <1>3 DEF Header, FileKdf
<1>5. IsFile(aFile) /\ aFile.frame.pw = pw
  BY <1>1, <1>3, ConstantTypes DEF IsFile
<1>6. OpenError(aFile) = "none"
  BY <1>3, <1>4, CommandAssumption DEF OpenError, CommandAssumption
<1>7. pw # Absent => Holds(aFile, len, pw)
  BY <1>1, <1>3, <1>4, <1>6 DEF Holds
<1> QED BY <1>2, <1>5, <1>7

\* Whatever happens to the bytes of a sealed file, it opens for nobody.
LEMMA DamagedOpensForNobody ==
  ASSUME NEW aFile, IsFile(aFile), aFile.wrapper # "none", NEW len, NEW pw, Holds(aFile, len, pw),
         NEW after \in Damaged(aFile), after # aFile
  PROVE  /\ IsFile(after) /\ after.wrapper # "none"
         /\ ~(OpenError(after) = "none" /\ Opens(after, after.frame.pw))
<1>1. aFile = [wrapper |-> aFile.wrapper, id |-> aFile.id, kdf |-> aFile.kdf, declared |-> aFile.declared,
              cut |-> aFile.cut, frame |-> aFile.frame, bytes |-> aFile.bytes]
      /\ aFile.cut = "no" /\ aFile.frame.header = Header(aFile) /\ aFile.wrapper \in {"NXE2", "NXE3"}
      /\ aFile.kdf \in KdfType /\ aFile.bytes \in Payload /\ aFile.frame.holds \in Payload
  BY DEF IsFile, Holds
<1>2. NoFrame.header = << >> /\ NoFrame.holds \in Payload
  BY DEF NoFrame, Payload, Bytes
<1>3. ASSUME NEW f PROVE Header(f) # << >>
  BY DEF Header
<1>4. CASE \E c \in {"header", "frame"} : after = [aFile EXCEPT !.cut = c]
  BY <1>1, <1>4 DEF IsFile, OpenError
<1>5. CASE after = [aFile EXCEPT !.frame = NoFrame]
  BY <1>1, <1>2, <1>3, <1>5 DEF IsFile, Opens
<1>6. CASE after = [aFile EXCEPT !.wrapper = IF @ = "NXE3" THEN "NXE2" ELSE "NXE3", !.frame = NoFrame]
  BY <1>1, <1>2, <1>3, <1>6 DEF IsFile, Opens
<1>7. CASE \E n : after = [aFile EXCEPT !.declared = n]
  <2>1. PICK n : after = [aFile EXCEPT !.declared = n]
    BY <1>7
  <2>2. n # aFile.declared
    BY <1>1, <2>1
  <2>3. Header(after) # Header(aFile)
    BY <1>1, <2>1, <2>2 DEF Header
  <2> QED BY <1>1, <2>1, <2>3 DEF IsFile, Opens
<1>8. CASE aFile.wrapper = "NXE3" /\ after = [aFile EXCEPT !.id = 2]
  BY <1>1, <1>8 DEF IsFile, OpenError, Argon2id
<1>9. CASE aFile.wrapper = "NXE3" /\ \E c \in Costs : after = [aFile EXCEPT !.kdf = c]
  <2>1. PICK c \in Costs : after = [aFile EXCEPT !.kdf = c]
    BY <1>9
  <2>2. c # aFile.kdf /\ c \in KdfType
    BY <1>1, <2>1, ConstantTypes
  <2>3. Header(after) # Header(aFile)
    BY <1>1, <1>9, <2>1, <2>2 DEF Header
  <2> QED BY <1>1, <2>1, <2>2, <2>3 DEF IsFile, Opens
<1> QED BY <1>1, <1>4, <1>5, <1>6, <1>7, <1>8, <1>9 DEF Damaged

---------------------------------------------------------------------------
(* The invariant                                                           *)

\* What a run and a log are when nothing has happened.
LEMMA Beginnings ==
  /\ Idle \in RunType /\ Quiet \in LogType /\ Absent \in Passwords
  /\ Idle.op = "none" /\ Idle.pc = "idle" /\ Idle.sealing = FALSE /\ Idle.pw = Absent
  /\ Quiet.asked = 0 /\ Quiet.worked = FALSE /\ Quiet.derived = {} /\ Quiet.result = << >>
BY DEF Idle, Quiet, RunType, LogType, Steps, Errors, Payload, Bytes, Passwords

\* A file nobody writes is the file it was.
LEMMA FileUntouched == IsFile(archive) /\ FileSound /\ UNCHANGED <<archive, origin>> => IsFile(archive)' /\ FileSound'
BY DEF IsFile, FileSound, Holds, OpenError, Opens, Header, FileKdf, WithinLimits, Derivable

\* It holds before the first run, of a file that another release left.
LEMMA CommandInit1 == CommandInit => CommandInv
<1> SUFFICES ASSUME CommandInit PROVE CommandInv
  OBVIOUS
<1>1. PICK l \in Legacy : archive = l.file /\ origin = [len |-> l.len, pw |-> l.pw, whole |-> TRUE]
  BY DEF CommandInit
<1>2. IsFile(l.file) /\ l.len \in Int /\ l.pw \in Passwords /\ Holds(l.file, l.len, l.pw)
  BY CommandAssumption DEF CommandAssumption
<1>3. given \in Given /\ run = Idle /\ left = MaxRuns /\ log = Quiet
  BY DEF CommandInit
<1>4. CommandTypeOK
  BY <1>1, <1>2, <1>3, Beginnings, ConstantTypes DEF CommandTypeOK
<1>5. FileSound
  BY <1>1, <1>2 DEF FileSound
<1>6. Sealing /\ Unsealing
  BY <1>3, Beginnings DEF Sealing, Unsealing, Opening
<1> QED BY <1>3, <1>4, <1>5, <1>6, Beginnings DEF CommandInv

\* A new compression asks first, if it is to seal.
LEMMA StartCompressKeeps == CommandInv /\ StartCompress => CommandInv'
<1> SUFFICES ASSUME CommandInv, StartCompress PROVE CommandInv'
  OBVIOUS
<1>1. PICK g \in Given, len \in Inputs, sealing \in BOOLEAN :
        /\ given' = g
        /\ run' = [Idle EXCEPT !.op = "compress", !.pc = IF sealing THEN "ask" ELSE "work", !.sealing = sealing, !.input = len]
  BY DEF StartCompress
<1>2. /\ run' \in RunType /\ run'.op = "compress" /\ run'.pc = (IF sealing THEN "ask" ELSE "work")
      /\ run'.sealing = sealing /\ run'.pw = Absent
  BY <1>1, Beginnings, ConstantTypes DEF RunType, Steps
<1>3. archive' = archive /\ origin' = origin /\ log' = Quiet /\ left' = left - 1
  BY DEF StartCompress
<1>4. CommandTypeOK'
  BY <1>1, <1>2, <1>3, Beginnings, FileUntouched DEF CommandInv, CommandTypeOK
<1>5. FileSound'
  BY <1>3, FileUntouched DEF CommandInv, CommandTypeOK
<1>6. Sealing' /\ Unsealing'
  BY <1>2, <1>3, Beginnings DEF Sealing, Unsealing, Opening
<1> QED BY <1>2, <1>3, <1>4, <1>5, <1>6, Beginnings DEF CommandInv

\* Asking: the run goes on with a password, or is refused.
LEMMA AskAnswers ==
  ASSUME CommandTypeOK, NEW confirm \in BOOLEAN, NEW next \in Steps, Ask(confirm, next)
  PROVE  /\ run' \in RunType /\ log' \in LogType
         /\ run'.op = run.op /\ run'.sealing = run.sealing /\ run'.payload = run.payload /\ run'.input = run.input
         /\ log'.worked = log.worked /\ log'.derived = log.derived /\ log'.result = log.result
         /\ \/ run'.pc = "err" /\ run'.pw = run.pw
            \/ run'.pc = next /\ run'.pw # Absent
         /\ log'.asked > 0 => OnlyTerminal
         /\ (log'.asked > 0 /\ run'.pc # "err") => run'.pw = given.tty /\ (confirm => given.tty = given.again)
<1> DEFINE answer == Password(confirm)
<1>1. Answered(answer, confirm)
  BY PasswordAnswer DEF CommandTypeOK
<1>2. log' = [log EXCEPT !.asked = answer.asked]
      /\ IF answer.error # "none" THEN run' = [run EXCEPT !.pc = "err", !.error = answer.error]
         ELSE run' = [run EXCEPT !.pc = next, !.pw = answer.pw]
  BY DEF Ask, Refuse
<1> HIDE DEF answer
<1>3. run \in RunType /\ log \in LogType /\ "err" \in Steps
  BY DEF CommandTypeOK, Steps
<1>4. answer.error \in Errors /\ answer.pw \in Passwords /\ answer.asked \in {0, 1, 2}
  BY <1>1 DEF Answered
<1>5. log' \in LogType /\ log'.worked = log.worked /\ log'.derived = log.derived /\ log'.result = log.result
      /\ log'.asked = answer.asked
  BY <1>2, <1>3, <1>4 DEF LogType
<1>6. CASE answer.error # "none"
  <2>1. run' = [run EXCEPT !.pc = "err", !.error = answer.error]
    BY <1>2, <1>6
  <2>2. /\ run' \in RunType /\ run'.pc = "err" /\ run'.pw = run.pw
        /\ run'.op = run.op /\ run'.sealing = run.sealing /\ run'.payload = run.payload /\ run'.input = run.input
    BY <2>1, <1>3, <1>4 DEF RunType
  <2>3. log'.asked > 0 => OnlyTerminal
    BY <1>1, <1>5 DEF Answered
  <2> QED BY <2>2, <2>3, <1>5
<1>7. CASE answer.error = "none"
  BY <1>1, <1>2, <1>3, <1>4, <1>5, <1>7 DEF RunType, Answered
<1> QED BY <1>6, <1>7

\* The password is there before the work begins.
LEMMA AskToSealKeeps == CommandInv /\ AskToSeal => CommandInv'
<1> SUFFICES ASSUME CommandInv, AskToSeal PROVE CommandInv'
  OBVIOUS
<1>1. /\ run.pc = "ask" /\ run.op = "compress" /\ Ask(TRUE, "work")
      /\ UNCHANGED <<archive, origin, given, left>>
  BY DEF AskToSeal
<1>2. CommandTypeOK /\ "work" \in Steps /\ run.sealing /\ log = Quiet /\ run.pw = Absent
  BY <1>1 DEF CommandInv, Sealing, Steps
<1>3. /\ run' \in RunType /\ log' \in LogType /\ run'.op = "compress" /\ run'.sealing
      /\ ~log'.worked /\ log'.derived = {} /\ log'.result = << >>
      /\ \/ run'.pc = "err" /\ run'.pw = Absent
         \/ run'.pc = "work" /\ run'.pw # Absent
      /\ log'.asked > 0 => OnlyTerminal
      /\ (log'.asked > 0 /\ run'.pc # "err") => run'.pw = given.tty /\ given.tty = given.again
  BY <1>1, <1>2, AskAnswers, Beginnings
<1>4. CommandTypeOK' /\ FileSound'
  BY <1>1, <1>2, <1>3, FileUntouched DEF CommandInv, CommandTypeOK
<1>5. Sealing' /\ Unsealing'
  BY <1>1, <1>3 DEF Sealing, Unsealing, Opening, OnlyTerminal
<1> QED BY <1>3, <1>4, <1>5 DEF CommandInv

\* The container holds the input.
LEMMA CompressKeeps == CommandInv /\ Compress => CommandInv'
<1> SUFFICES ASSUME CommandInv, Compress PROVE CommandInv'
  OBVIOUS
<1>1. /\ run.pc = "work"
      /\ run' = [run EXCEPT !.pc = IF run.sealing THEN "seal" ELSE "write", !.payload = Bytes("NX15", run.input)]
      /\ log' = [log EXCEPT !.worked = TRUE]
      /\ UNCHANGED <<archive, origin, given, left>>
  BY DEF Compress
<1>2. CommandTypeOK /\ run.op = "compress" /\ run \in RunType /\ log \in LogType
  BY <1>1 DEF CommandInv, CommandTypeOK, RunType, Unsealing, Opening
<1>3. Bytes("NX15", run.input) \in Payload /\ {"seal", "write"} \subseteq Steps
  BY <1>2 DEF Bytes, Payload, RunType, Steps
<1>4. /\ run' \in RunType /\ log' \in LogType /\ run'.op = "compress" /\ run'.sealing = run.sealing
      /\ run'.pw = run.pw /\ run'.input = run.input /\ run'.payload = Bytes("NX15", run.input)
      /\ run'.pc = IF run.sealing THEN "seal" ELSE "write"
      /\ log'.asked = log.asked /\ log'.derived = log.derived /\ log'.result = log.result /\ log'.worked
  BY <1>1, <1>2, <1>3 DEF RunType, LogType
<1>5. CommandTypeOK' /\ FileSound'
  BY <1>1, <1>2, <1>4, FileUntouched DEF CommandInv, CommandTypeOK
<1>6. Sealing' /\ Unsealing'
  BY <1>1, <1>2, <1>4 DEF CommandInv, Sealing, Unsealing, Opening, OnlyTerminal, Bytes
<1> QED BY <1>1, <1>2, <1>4, <1>5, <1>6 DEF CommandInv, WithinLimits

\* What is sealed is that container, for the password of this run.
LEMMA SealKeeps == CommandInv /\ Seal => CommandInv'
<1> SUFFICES ASSUME CommandInv, Seal PROVE CommandInv'
  OBVIOUS
<1>1. /\ run.pc = "seal" /\ UNCHANGED <<archive, origin, given, left>>
      /\ \/ Refuse("key too short") /\ log' = log
         \/ Refuse("random source") /\ log' = log
         \/ Goto("write") /\ log' = [log EXCEPT !.derived = @ \cup {DefaultKdf}]
  BY DEF Seal
<1>2. CommandTypeOK /\ run.op = "compress" /\ run \in RunType /\ log \in LogType
  BY <1>1 DEF CommandInv, CommandTypeOK, RunType, Unsealing, Opening
<1>3. WithinLimits(DefaultKdf) /\ DefaultKdf \in KdfType /\ {"err", "write"} \subseteq Steps
      /\ {"key too short", "random source"} \subseteq Errors
  BY CommandAssumption, ConstantTypes DEF CommandAssumption, Steps, Errors
<1>4. /\ run' \in RunType /\ run'.op = "compress" /\ run'.sealing = run.sealing
      /\ run'.pw = run.pw /\ run'.input = run.input /\ run'.payload = run.payload
      /\ run'.pc \in {"err", "write"}
  BY <1>1, <1>2, <1>3 DEF RunType, Refuse, Goto
<1>5. /\ log' \in LogType /\ log'.asked = log.asked /\ log'.result = log.result /\ log'.worked = log.worked
      /\ log'.derived \subseteq log.derived \cup {DefaultKdf}
  <2>1. CASE log' = log
    BY <2>1, <1>2
  <2>2. CASE log' = [log EXCEPT !.derived = @ \cup {DefaultKdf}]
    <3>1. log.derived \cup {DefaultKdf} \in SUBSET KdfType
      BY <1>2, <1>3 DEF LogType
    <3> QED BY <2>2, <3>1, <1>2 DEF LogType
  <2> QED BY <1>1, <2>1, <2>2
<1>6. CommandTypeOK' /\ FileSound'
  BY <1>1, <1>2, <1>4, <1>5, FileUntouched DEF CommandInv, CommandTypeOK
<1>7. Sealing' /\ Unsealing'
  BY <1>1, <1>2, <1>4, <1>5 DEF CommandInv, Sealing, Unsealing, Opening, OnlyTerminal, Bytes
<1> QED BY <1>1, <1>2, <1>3, <1>4, <1>5, <1>6, <1>7 DEF CommandInv, WithinLimits

\* What is written is what was made, and it is sound from then on.
LEMMA WriteArchiveKeeps == CommandInv /\ WriteArchive => CommandInv'
<1> SUFFICES ASSUME CommandInv, WriteArchive PROVE CommandInv'
  OBVIOUS
<1>1. /\ run.pc = "write" /\ Goto("ok") /\ UNCHANGED <<given, left, log>>
      /\ archive' = IF run.sealing THEN Sealed(run.payload, run.pw, run.input) ELSE Plain(run.payload)
      /\ origin' = [len |-> run.input, pw |-> run.pw, whole |-> TRUE]
  BY DEF WriteArchive
<1>2. CommandTypeOK /\ run.op = "compress" /\ run \in RunType
  BY <1>1 DEF CommandInv, CommandTypeOK, RunType, Unsealing, Opening
<1>3. run.input \in Nat /\ run.pw \in Passwords /\ run.payload = Bytes("NX15", run.input)
      /\ (run.sealing <=> run.pw # Absent)
  BY <1>1, <1>2 DEF CommandInv, Sealing, RunType
<1>4. /\ run' \in RunType /\ run'.op = "compress" /\ run'.pc = "ok" /\ run'.sealing = run.sealing /\ run'.pw = run.pw
  BY <1>1, <1>2 DEF RunType, Goto, Steps
<1>5. IsFile(archive') /\ Holds(archive', origin'.len, origin'.pw) /\ (run.sealing => archive'.frame.pw = run.pw)
  BY <1>1, <1>3, WrittenHolds
<1>6. CommandTypeOK'
  BY <1>1, <1>2, <1>3, <1>4, <1>5 DEF CommandTypeOK, IsFile
<1>7. FileSound'
  BY <1>1, <1>5 DEF FileSound, Holds, OpenError, Opens, Header, FileKdf, WithinLimits, Derivable
<1>8. Sealing' /\ Unsealing'
  BY <1>1, <1>2, <1>4, <1>5 DEF CommandInv, Sealing, Unsealing, Opening, OnlyTerminal
<1> QED BY <1>1, <1>2, <1>4, <1>6, <1>7, <1>8 DEF CommandInv, WithinLimits

\* An opening begins with nothing asked and nothing derived.
LEMMA StartOpenKeeps == CommandInv /\ StartOpen => CommandInv'
<1> SUFFICES ASSUME CommandInv, StartOpen PROVE CommandInv'
  OBVIOUS
<1>1. PICK g \in Given, op \in {"decompress", "inspect"} :
        given' = g /\ run' = [Idle EXCEPT !.op = op, !.pc = "peel"]
  BY DEF StartOpen
<1>2. /\ run' \in RunType /\ run'.op \in {"decompress", "inspect"} /\ run'.pc = "peel"
      /\ run'.sealing = FALSE /\ run'.pw = Absent
  BY <1>1, Beginnings DEF RunType, Steps
<1>3. archive' = archive /\ origin' = origin /\ log' = Quiet /\ left' = left - 1
  BY DEF StartOpen
<1>4. CommandTypeOK' /\ FileSound'
  BY <1>1, <1>2, <1>3, Beginnings, FileUntouched DEF CommandInv, CommandTypeOK
<1>5. Sealing' /\ Unsealing'
  BY <1>2, <1>3, Beginnings DEF Sealing, Unsealing, Opening
<1> QED BY <1>2, <1>3, <1>4, <1>5, Beginnings DEF CommandInv

\* Peeling decides by the magic alone, and asks only for a sealed file.
LEMMA PeelKeeps == CommandInv /\ Peel => CommandInv'
<1> SUFFICES ASSUME CommandInv, Peel PROVE CommandInv'
  OBVIOUS
<1>1. /\ run.pc = "peel" /\ UNCHANGED <<archive, origin, given, left>>
      /\ IF archive.wrapper = "none"
           THEN run' = [run EXCEPT !.pc = "restore", !.payload = archive.bytes] /\ log' = log
           ELSE Ask(FALSE, "open")
  BY DEF Peel
<1>2. CommandTypeOK /\ Opening /\ run \in RunType /\ ~run.sealing /\ log = Quiet /\ run.pw = Absent
      /\ archive.bytes \in Payload
  BY <1>1 DEF CommandInv, CommandTypeOK, RunType, Sealing, Unsealing, Opening, IsFile
<1>3. CASE archive.wrapper = "none"
  <2>1. /\ run' \in RunType /\ run'.op = run.op /\ run'.sealing = run.sealing
        /\ run'.pc = "restore" /\ run'.payload = archive.bytes /\ log' = Quiet
    BY <1>1, <1>2, <1>3 DEF RunType, Steps
  <2>2. CommandTypeOK' /\ FileSound'
    BY <1>1, <1>2, <2>1, Beginnings, FileUntouched DEF CommandInv, CommandTypeOK
  <2>3. Sealing' /\ Unsealing'
    BY <1>1, <1>2, <1>3, <2>1, Beginnings DEF Sealing, Unsealing, Opening
  <2> QED BY <1>2, <2>1, <2>2, <2>3, Beginnings DEF CommandInv, Opening
<1>4. CASE archive.wrapper # "none"
  <2>1. /\ run' \in RunType /\ log' \in LogType /\ run'.op = run.op /\ run'.sealing = run.sealing
        /\ ~log'.worked /\ log'.derived = {} /\ log'.result = << >>
        /\ \/ run'.pc = "err" /\ run'.pw = Absent
           \/ run'.pc = "open"
        /\ log'.asked > 0 => OnlyTerminal
    <3>1. FALSE \in BOOLEAN /\ "open" \in Steps /\ Ask(FALSE, "open")
      BY <1>1, <1>4 DEF Steps
    <3> QED BY <1>2, <3>1, AskAnswers, Beginnings
  <2>2. CommandTypeOK' /\ FileSound'
    BY <1>1, <1>2, <2>1, FileUntouched DEF CommandInv, CommandTypeOK
  <2>3. origin.whole => origin.pw # Absent
    BY <1>4 DEF CommandInv, FileSound, Holds
  <2>4. Sealing' /\ Unsealing'
    BY <1>1, <1>2, <1>4, <2>1, <2>3 DEF Sealing, Unsealing, Opening, OnlyTerminal
  <2> QED BY <1>2, <2>1, <2>2, <2>4 DEF CommandInv, Opening
<1> QED BY <1>3, <1>4

\* Opening checks the header, then derives, then compares.
LEMMA OpenKeeps == CommandInv /\ Open => CommandInv'
<1> SUFFICES ASSUME CommandInv, Open PROVE CommandInv'
  OBVIOUS
<1>1. /\ run.pc = "open" /\ UNCHANGED <<archive, origin, given, left>>
      /\ IF OpenError(archive) # "none" THEN Refuse(OpenError(archive)) /\ log' = log
         ELSE /\ log' = [log EXCEPT !.derived = @ \cup {FileKdf(archive)}]
              /\ IF Opens(archive, run.pw) THEN run' = [run EXCEPT !.pc = "restore", !.payload = archive.frame.holds]
                 ELSE Refuse("decryption failed")
  BY DEF Open
<1>2. CommandTypeOK /\ Opening /\ run \in RunType /\ log \in LogType /\ ~run.sealing
      /\ archive.wrapper # "none" /\ log.derived = {} /\ archive.frame.holds \in Payload /\ FileKdf(archive) \in KdfType
      /\ log.result = << >> /\ ~log.worked /\ (log.asked > 0 => OnlyTerminal)
  BY <1>1, ConstantTypes DEF CommandInv, CommandTypeOK, RunType, Sealing, Unsealing, Opening, IsFile, FileKdf
<1>3. {"err", "restore"} \subseteq Steps /\ OpenError(archive) \in Errors /\ "decryption failed" \in Errors
  BY DEF Steps, Errors, OpenError
<1>4. CASE OpenError(archive) # "none"
  <2>1. /\ run' \in RunType /\ run'.op = run.op /\ run'.sealing = run.sealing /\ run'.pc = "err" /\ log' = log
    BY <1>1, <1>2, <1>3, <1>4 DEF RunType, Refuse
  <2>2. CommandTypeOK' /\ FileSound'
    BY <1>1, <1>2, <2>1, FileUntouched DEF CommandInv, CommandTypeOK
  <2>3. ~(origin.whole /\ origin.len >= 0)
    BY <1>2, <1>4 DEF CommandInv, FileSound, Holds
  <2>4. Sealing' /\ Unsealing'
    BY <1>1, <1>2, <2>1, <2>3 DEF Sealing, Unsealing, Opening, OnlyTerminal
  <2> QED BY <1>2, <2>1, <2>2, <2>4 DEF CommandInv, Opening
<1>5. CASE OpenError(archive) = "none"
  <2>1. archive.cut = "no" /\ (archive.wrapper = "NXE3" => archive.id = Argon2id) /\ WithinLimits(FileKdf(archive))
    BY <1>2, <1>5 DEF OpenError, CommandTypeOK, IsFile
  <2>a. /\ log' = [log EXCEPT !.derived = @ \cup {FileKdf(archive)}]
        /\ Opens(archive, run.pw) => run' = [run EXCEPT !.pc = "restore", !.payload = archive.frame.holds]
        /\ ~Opens(archive, run.pw) => Refuse("decryption failed")
    BY <1>1, <1>5, Zenon
  <2>2. /\ log' \in LogType /\ log'.asked = log.asked /\ log'.result = << >> /\ ~log'.worked
        /\ log'.derived = {FileKdf(archive)}
    <3>1. log.derived \cup {FileKdf(archive)} = {FileKdf(archive)}
      BY <1>2
    <3>2. /\ log' = [log EXCEPT !.derived = {FileKdf(archive)}] /\ log \in LogType /\ FileKdf(archive) \in KdfType
          /\ log.result = << >> /\ ~log.worked
      BY <1>2, <2>a, <3>1
    <3> QED BY <3>2 DEF LogType
  <2>3. CASE Opens(archive, run.pw)
    <3>1. /\ run' \in RunType /\ run'.op = run.op /\ run'.sealing = run.sealing /\ run'.pc = "restore"
          /\ run'.pw = run.pw /\ run'.payload = archive.frame.holds
      BY <1>2, <1>3, <2>a, <2>3 DEF RunType
    <3>2. CommandTypeOK' /\ FileSound'
      BY <1>1, <1>2, <2>2, <3>1, FileUntouched DEF CommandInv, CommandTypeOK
    <3>3. (OpenError(archive) = "none" /\ Opens(archive, run.pw))'
      BY <1>1, <1>5, <2>3, <3>1 DEF OpenError, Opens, Header, FileKdf, WithinLimits, Derivable
    <3>4. Sealing' /\ Unsealing'
      BY <1>1, <1>2, <2>1, <2>2, <3>1, <3>3 DEF Sealing, Unsealing, Opening, OnlyTerminal
    <3> QED BY <1>2, <2>1, <2>2, <3>1, <3>2, <3>4 DEF CommandInv, Opening, WithinLimits
  <2>4. CASE ~Opens(archive, run.pw)
    <3>1. /\ run' \in RunType /\ run'.op = run.op /\ run'.sealing = run.sealing /\ run'.pc = "err" /\ run'.pw = run.pw
      BY <1>2, <1>3, <2>a, <2>4 DEF RunType, Refuse
    <3>2. CommandTypeOK' /\ FileSound'
      BY <1>1, <1>2, <2>2, <3>1, FileUntouched DEF CommandInv, CommandTypeOK
    <3>3. ~(origin.whole /\ run.pw = origin.pw /\ origin.len >= 0)
      BY <1>2, <2>4 DEF CommandInv, FileSound, Holds, Opens
    <3>4. Sealing' /\ Unsealing'
      BY <1>1, <1>2, <2>1, <2>2, <3>1, <3>3 DEF Sealing, Unsealing, Opening, OnlyTerminal
    <3> QED BY <1>2, <2>1, <2>2, <3>1, <3>2, <3>4 DEF CommandInv, Opening, WithinLimits
  <2> QED BY <2>3, <2>4
<1> QED BY <1>4, <1>5

\* What is restored is what the file was made of.
LEMMA RestoreKeeps == CommandInv /\ Restore => CommandInv'
<1> SUFFICES ASSUME CommandInv, Restore PROVE CommandInv'
  OBVIOUS
<1>1. /\ run.pc = "restore" /\ UNCHANGED <<archive, origin, given, left>>
      /\ \/ IsSealedEmpty /\ Goto("ok") /\ log' = [log EXCEPT !.result = <<0>>]
         \/ ~IsSealedEmpty /\ run.payload.magic = "NX15" /\ Goto("ok") /\ log' = [log EXCEPT !.result = <<run.payload.len>>]
         \/ /\ ~IsSealedEmpty /\ run.payload.magic # "NX15" /\ log' = log
            /\ Refuse(IF run.payload.magic = "NXC1" THEN "pre-release" ELSE "unknown format")
  BY DEF Restore
<1>2. CommandTypeOK /\ Opening /\ run \in RunType /\ log \in LogType /\ ~run.sealing /\ ~log.worked /\ log.result = << >>
      /\ (log.asked > 0 => OnlyTerminal /\ archive.wrapper # "none")
      /\ (log.derived # {} => archive.cut = "no" /\ (archive.wrapper = "NXE3" => archive.id = Argon2id))
  BY <1>1 DEF CommandInv, CommandTypeOK, RunType, Sealing, Unsealing, Opening
<1>3. IF archive.wrapper = "none" THEN run.payload = archive.bytes
      ELSE run.payload = archive.frame.holds /\ OpenError(archive) = "none" /\ Opens(archive, run.pw)
  BY <1>1, <1>2 DEF CommandInv, Unsealing
<1>4. origin.whole /\ origin.len \in Int /\ Holds(archive, origin.len, origin.pw)
      /\ (archive.wrapper # "none" => run.pw = origin.pw)
  <2>1. archive.wrapper # "none" => run.pw = archive.frame.pw
    BY <1>3 DEF Opens
  <2>2. origin.whole
    BY <1>3, <2>1 DEF CommandInv, FileSound
  <2>3. Holds(archive, origin.len, origin.pw)
    BY <2>2 DEF CommandInv, FileSound
  <2> QED BY <1>2, <2>1, <2>2, <2>3 DEF Holds, CommandTypeOK
<1>5. IsSealedEmpty => archive.wrapper # "none" /\ origin.len = 0
  BY <1>3, <1>4 DEF IsSealedEmpty, Holds, Bytes
<1>6. run.payload.magic = "NX15" => run.payload.len = origin.len /\ run.payload.len \in Int
  BY <1>2, <1>3, <1>4 DEF Holds, Bytes
<1>7. (archive.wrapper # "none" /\ origin.len >= 0) => IsSealedEmpty \/ run.payload.magic = "NX15"
  BY <1>3, <1>4 DEF IsSealedEmpty, Holds, Bytes
<1>8. CASE IsSealedEmpty \/ run.payload.magic = "NX15"
  <2>1. Goto("ok") /\ log' = [log EXCEPT !.result = <<origin.len>>]
    BY <1>1, <1>5, <1>6, <1>8
  <2>2. /\ run' \in RunType /\ run'.op = run.op /\ run'.sealing = run.sealing /\ run'.pc = "ok" /\ run'.pw = run.pw
    BY <1>2, <2>1 DEF RunType, Goto, Steps
  <2>3. /\ log' \in LogType /\ log'.asked = log.asked /\ log'.derived = log.derived /\ ~log'.worked
        /\ log'.result = <<origin.len>>
    <3>1. <<origin.len>> \in Seq(Int)
      BY <1>4
    <3> QED BY <1>2, <2>1, <3>1 DEF LogType
  <2>4. CommandTypeOK' /\ FileSound'
    BY <1>1, <1>2, <2>2, <2>3, FileUntouched DEF CommandInv, CommandTypeOK
  <2>5. archive.wrapper = "none" => archive.bytes.magic = "NX15"
    BY <1>3, <1>5, <1>8
  <2>6. Sealing' /\ Unsealing'
    BY <1>1, <1>2, <1>4, <2>2, <2>3, <2>5 DEF Sealing, Unsealing, Opening, OnlyTerminal
  <2> QED BY <1>2, <2>2, <2>3, <2>4, <2>6 DEF CommandInv, Opening, WithinLimits
<1>9. CASE ~IsSealedEmpty /\ run.payload.magic # "NX15"
  <2>1. \E why \in Errors : Refuse(why) /\ log' = log
    BY <1>1, <1>9 DEF Errors
  <2>2. /\ run' \in RunType /\ run'.op = run.op /\ run'.sealing = run.sealing /\ run'.pc = "err" /\ run'.pw = run.pw
    BY <1>2, <2>1 DEF RunType, Refuse, Steps
  <2>3. CommandTypeOK' /\ FileSound'
    BY <1>1, <1>2, <2>1, <2>2, FileUntouched DEF CommandInv, CommandTypeOK
  <2>4. Sealing' /\ Unsealing'
    BY <1>1, <1>2, <1>7, <1>9, <2>1, <2>2 DEF Sealing, Unsealing, Opening, OnlyTerminal
  <2> QED BY <1>2, <2>1, <2>2, <2>3, <2>4 DEF CommandInv, Opening, WithinLimits
<1> QED BY <1>8, <1>9

\* A sealed file that is cut or altered opens for nobody from then on.
LEMMA SealDamageKeeps == CommandInv /\ DamageSealed => CommandInv'
<1> SUFFICES ASSUME CommandInv, DamageSealed PROVE CommandInv'
  OBVIOUS
<1>1. /\ archive.wrapper # "none" /\ origin.whole /\ archive' \in Damaged(archive) /\ archive' # archive
      /\ origin' = [origin EXCEPT !.whole = FALSE] /\ run' = Idle /\ log' = Quiet /\ UNCHANGED <<given, left>>
  BY DEF DamageSealed
<1>2. CommandTypeOK /\ Holds(archive, origin.len, origin.pw)
  BY <1>1 DEF CommandInv, FileSound
<1>3. IsFile(archive') /\ archive'.wrapper # "none" /\ ~(OpenError(archive') = "none" /\ Opens(archive', archive'.frame.pw))
  BY <1>1, <1>2, DamagedOpensForNobody DEF CommandTypeOK
<1>4. CommandTypeOK'
  BY <1>1, <1>2, <1>3, Beginnings DEF CommandTypeOK, IsFile
<1>5. FileSound'
  BY <1>1, <1>2, <1>3 DEF CommandTypeOK, FileSound, Holds, OpenError, Opens, Header, FileKdf, WithinLimits, Derivable
<1>6. Sealing' /\ Unsealing'
  BY <1>1, Beginnings DEF Sealing, Unsealing, Opening
<1> QED BY <1>1, <1>4, <1>5, <1>6, Beginnings DEF CommandInv

\* Nothing changes, nothing breaks.
LEMMA StutterKeeps == CommandInv /\ UNCHANGED commandVars => CommandInv'
<1> SUFFICES ASSUME CommandInv, UNCHANGED commandVars PROVE CommandInv'
  OBVIOUS
<1>1. UNCHANGED <<archive, origin, given, run, left, log>>
  BY DEF commandVars
<1>2. CommandTypeOK' /\ FileSound'
  BY <1>1, FileUntouched DEF CommandInv, CommandTypeOK
<1>3. Sealing'
  BY <1>1 DEF CommandInv, Sealing, OnlyTerminal
<1>4. Unsealing'
  BY <1>1 DEF CommandInv, Unsealing, Opening, OnlyTerminal, OpenError, Opens, Header, FileKdf, WithinLimits, Derivable
<1> QED BY <1>1, <1>2, <1>3, <1>4 DEF CommandInv, WithinLimits

\* Every run of the program keeps the invariant, one step after another.
THEOREM CommandInvariant == CommandSpec => []CommandInv
<1>1. CommandInit => CommandInv
  BY CommandInit1
<1>2. CommandInv /\ [CommandNext]_commandVars => CommandInv'
  BY StartCompressKeeps, AskToSealKeeps, CompressKeeps, SealKeeps, WriteArchiveKeeps,
     StartOpenKeeps, PeelKeeps, OpenKeeps, RestoreKeeps, SealDamageKeeps, StutterKeeps DEF CommandNext
<1> QED BY <1>1, <1>2, PTL DEF CommandSpec

---------------------------------------------------------------------------
(* What it means                                                           *)

\* A sealed file comes back for the password it was sealed with, whoever
\* sealed it and wherever the password came from, and nothing is restored of
\* one with a byte changed or for another password (open_payload, open).
THEOREM SealedComesBack == CommandSpec => []OpensForItsPassword
<1>1. CommandInv => OpensForItsPassword
  <2> SUFFICES ASSUME CommandInv PROVE OpensForItsPassword
    OBVIOUS
  <2>1. CASE Opening
    BY <2>1 DEF CommandInv, Unsealing, OpensForItsPassword, Over
  <2>2. CASE ~Opening
    BY <2>2 DEF OpensForItsPassword
  <2> QED BY <2>1, <2>2
<1> QED BY <1>1, CommandInvariant, PTL

\* No file buys key derivation above the limit, the terminal is used only when
\* nothing else names a password and one is needed, and a password is settled
\* before the slow work and before anything is sealed (derive_key, password, run).
THEOREM AskedInOrder == CommandSpec => []AsksAndWorksInOrder
<1>1. CommandInv => AsksAndWorksInOrder
  <2> SUFFICES ASSUME CommandInv PROVE AsksAndWorksInOrder
    OBVIOUS
  <2>1. run.op = "none" \/ run.op = "compress" \/ Opening
    BY DEF CommandInv, CommandTypeOK, RunType, Opening
  <2>2. CASE run.op = "none"
    BY <2>2, Beginnings DEF CommandInv, AsksAndWorksInOrder, Opening
  <2>3. CASE run.op = "compress"
    BY <2>3 DEF CommandInv, Sealing, AsksAndWorksInOrder, Opening, OnlyTerminal, WithinLimits
  <2>4. CASE Opening
    BY <2>4 DEF CommandInv, Unsealing, AsksAndWorksInOrder, Opening, OnlyTerminal, WithinLimits
  <2> QED BY <2>1, <2>2, <2>3, <2>4
<1> QED BY <1>1, CommandInvariant, PTL
==============================================================================
