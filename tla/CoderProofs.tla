----------------------------- MODULE CoderProofs -----------------------------
(***************************************************************************)
(* Both coders of bits and the mixing model over one of them, for bytes    *)
(* and probabilities of any size.                                          *)
(*                                                                         *)
(* The range coder: what was written, what waits and low are the low end   *)
(* of the interval to the last bit; a row of marks, one after each         *)
(* operation, is what both sides follow, and what finish writes lies in    *)
(* the interval of every one of them.                                      *)
(*                                                                         *)
(* The coder without a carry: the bounds never close, and the decoder      *)
(* gives back the bits that were coded from the bytes that were written.   *)
(*                                                                         *)
(* The mixing model: a text has a story, the row of models at the ends of  *)
(* its bytes, and both sides are on it.                                    *)
(***************************************************************************)
EXTENDS Coders, LeastOf, SequenceTheorems

---------------------------------------------------------------------------
(* Powers and words.                                                       *)

\* The powers, one by one.
LEMMA Powers ==
  ASSUME B \in Nat \ {0}
  PROVE  /\ Pow[0] = 1 /\ \A k \in 1..4 : Pow[k] = B * Pow[k - 1]
         /\ \A k \in 0..4 : Pow[k] \in Nat \ {0}
<1> DEFINE b2 == B * B
           b3 == B * B * B
           b4 == B * B * B * B
<1>1. b2 \in Nat \ {0} /\ b2 = B * B
  BY SMT
<1>2. b3 \in Nat \ {0} /\ b3 = B * b2
  <2>1. b3 = b2 * B
    OBVIOUS
  <2> HIDE DEF b2, b3
  <2> QED BY <1>1, <2>1
<1>3. b4 \in Nat \ {0} /\ b4 = B * b3
  <2>1. b4 = b3 * B
    OBVIOUS
  <2> HIDE DEF b3, b4
  <2> QED BY <1>2, <2>1
<1>4. Pow = [k \in 0..4 |-> <<1, B, b2, b3, b4>>[k + 1]]
  BY Zenon DEF Pow
<1> HIDE DEF b2, b3, b4
<1>5. Pow[0] = 1 /\ Pow[1] = B /\ Pow[2] = b2 /\ Pow[3] = b3 /\ Pow[4] = b4
  BY <1>4
<1>6. Pow[1] = B * Pow[0]
  BY <1>5
<1>7. ASSUME NEW k \in 1..4 PROVE Pow[k] = B * Pow[k - 1]
  <2>1. k = 1 \/ k = 2 \/ k = 3 \/ k = 4
    OBVIOUS
  <2>2. 1 - 1 = 0 /\ 2 - 1 = 1 /\ 3 - 1 = 2 /\ 4 - 1 = 3
    OBVIOUS
  <2> QED BY <1>1, <1>2, <1>3, <1>5, <1>6, <2>1, <2>2, Zenon
<1>8. ASSUME NEW k \in 0..4 PROVE Pow[k] \in Nat \ {0}
  <2>1. k = 0 \/ k = 1 \/ k = 2 \/ k = 3 \/ k = 4
    OBVIOUS
  <2> QED BY <1>1, <1>2, <1>3, <1>5, <2>1
<1> QED BY <1>5, <1>7, <1>8

\* What a word holds.
LEMMA Words ==
  ASSUME B \in Nat \ {0, 1}
  PROVE  /\ Top \in Nat \ {0} /\ Max \in Nat \ {0} /\ Pow[4] = Max + 1 /\ Pow[4] \in Nat \ {0}
         /\ Max + 1 = B * Top /\ Max + 1 = Top * B /\ Top <= Max
<1>1. Pow[4] = B * Pow[4 - 1] /\ Pow[4] \in Nat \ {0} /\ Pow[3] \in Nat \ {0}
  BY Powers
<1> DEFINE t == Pow[3]
<1>2. Pow[4] = B * t /\ t \in Nat \ {0} /\ Top = t
  BY <1>1 DEF Top
<1> HIDE DEF t
<1>3. t * 1 + t <= t * B /\ t * B = B * t /\ B * t \in Nat /\ t * 1 = t
  BY <1>2, Multiples
<1>4. t = 1 => B * t = B
  BY <1>2
<1> DEFINE bt == B * t
<1>5. bt \in Nat /\ t + t <= bt /\ t * B = bt /\ Pow[4] = bt
  BY <1>2, <1>3
<1> HIDE DEF bt
<1>6. Max = bt - 1
  BY <1>5 DEF Max
<1>7. t <= Max
  BY <1>2, <1>5, <1>6
<1> QED BY <1>1, <1>2, <1>5, <1>6, <1>7 DEF bt

---------------------------------------------------------------------------
(* The number a row of bytes writes.                                       *)

\* It is read from the first byte on.
LEMMA ReadsIs ==
  ASSUME B \in Nat \ {0}, NEW bytes \in Seq(Nat)
  PROVE  /\ Reads(bytes) \in [0..Len(bytes) -> Nat] /\ Reads(bytes)[0] = 0
         /\ \A i \in 1..Len(bytes) : Reads(bytes)[i] = Reads(bytes)[i - 1] * B + bytes[i]
<1> DEFINE N == Len(bytes)
           g == [i \in 1..N |-> [x \in Nat |-> x * B + bytes[i]]]
           Counts(n) == n = [i \in 0..N |-> IF i = 0 THEN 0 ELSE n[i - 1] * B + bytes[i]]
<1>1. N \in Nat /\ \A i \in 1..N : bytes[i] \in Nat
  OBVIOUS
<1>2. g \in [1..N -> [Nat -> Nat]] /\ \A i \in 1..N : \A x \in Nat : g[i][x] = x * B + bytes[i]
  <2>1. \A i \in 1..N : \A x \in Nat : x * B + bytes[i] \in Nat
    BY <1>1
  <2> QED BY <2>1
<1> HIDE DEF N, g
<1>3. PICK f \in [0..N -> Nat] : f[0] = 0 /\ \A i \in 1..N : f[i] = g[i][f[i - 1]]
  <2>1. HasCourse(N, Nat, 0, g)
    BY <1>1, <1>2, Courses
  <2> QED BY <2>1, Zenon DEF HasCourse
<1>4. \A i \in 1..N : f[i - 1] \in Nat /\ f[i] = f[i - 1] * B + bytes[i]
  <2> SUFFICES ASSUME NEW i \in 1..N PROVE f[i - 1] \in Nat /\ f[i] = f[i - 1] * B + bytes[i]
    OBVIOUS
  <2>1. i - 1 \in 0..N
    BY <1>1
  <2>2. f[i - 1] \in Nat
    BY <2>1
  <2> QED BY <1>2, <1>3, <2>2
<1>5. Counts(f)
  <2>1. \A i \in 0..N : f[i] = IF i = 0 THEN 0 ELSE f[i - 1] * B + bytes[i]
    <3>1. \A i \in 0..N : i = 0 \/ i \in 1..N
      BY <1>1
    <3> QED BY <1>3, <1>4, <3>1, Zenon
  <2>2. f = [i \in 0..N |-> f[i]]
    OBVIOUS
  <2> QED BY <2>1, <2>2, Zenon
<1> DEFINE n == Reads(bytes)
<1>6. n = CHOOSE m : Counts(m)
  BY Zenon DEF Reads, N
<1>7. Counts(n)
  <2> HIDE DEF Counts, n
  <2> QED BY <1>5, <1>6
<1> HIDE DEF n
<1>8. n[0] = 0 /\ \A i \in 1..N : n[i] = n[i - 1] * B + bytes[i]
  <2>1. \A i \in 0..N : n[i] = IF i = 0 THEN 0 ELSE n[i - 1] * B + bytes[i]
    BY <1>7, Zenon
  <2>2. 0 \in 0..N /\ \A i \in 1..N : i \in 0..N /\ i # 0
    BY <1>1
  <2> QED BY <2>1, <2>2, Zenon
<1>9. \A i \in 0..N : n[i] = f[i]
  <2> DEFINE P == {i \in 0..N : n[i] = f[i]}
  <2>1. 0 \in P
    BY <1>1, <1>3, <1>8
  <2>2. \A i \in 1..N : i - 1 \in P => i \in P
    <3> SUFFICES ASSUME NEW i \in 1..N, i - 1 \in P PROVE n[i] = f[i] /\ i \in 0..N
      OBVIOUS
    <3>1. n[i - 1] = f[i - 1]
      OBVIOUS
    <3> QED BY <1>1, <1>4, <1>8, <3>1
  <2>3. 0..N \subseteq P
    <3> HIDE DEF P
    <3> QED BY <1>1, <2>1, <2>2, UpTo
  <2> QED BY <2>3
<1>10. n \in [0..N -> Nat]
  <2>1. \A i \in 0..N : n[i] \in Nat
    BY <1>9
  <2>2. DOMAIN n = 0..N /\ n = [i \in 0..N |-> n[i]]
    BY <1>7
  <2> QED BY <2>1, <2>2
<1> QED BY <1>8, <1>10 DEF n, N

\* A row is another with a byte more.
Longer(more, bytes, b) ==
  /\ Len(more) = Len(bytes) + 1 /\ more[Len(more)] = b
  /\ \A i \in 1..Len(bytes) : more[i] = bytes[i]

\* What begins a row is read alike.
LEMMA ReadsAgree ==
  ASSUME B \in Nat \ {0}, NEW bytes \in Seq(Nat), NEW more \in Seq(Nat), NEW n \in Nat,
         n <= Len(bytes), n <= Len(more), \A i \in 1..n : more[i] = bytes[i]
  PROVE  Reads(more)[n] = Reads(bytes)[n]
<1> DEFINE P == {k \in 0..n : Reads(more)[k] = Reads(bytes)[k]}
<1>1. 0 \in P
  BY ReadsIs
<1>2. ASSUME NEW k \in 1..n, k - 1 \in P PROVE k \in P
  <2>1. k \in 1..Len(bytes) /\ k \in 1..Len(more) /\ k \in 0..n
    OBVIOUS
  <2>2. /\ Reads(more)[k] = Reads(more)[k - 1] * B + more[k]
        /\ Reads(bytes)[k] = Reads(bytes)[k - 1] * B + bytes[k]
    BY <2>1, ReadsIs
  <2>3. Reads(more)[k - 1] = Reads(bytes)[k - 1] /\ more[k] = bytes[k]
    BY <1>2
  <2> QED BY <2>1, <2>2, <2>3, Zenon
<1>3. 0..n \subseteq P
  <2> HIDE DEF P
  <2> QED BY <1>1, <1>2, UpTo
<1> QED BY <1>3

\* A byte more makes the number so much greater.
LEMMA NumberGrows ==
  ASSUME B \in Nat \ {0}, NEW bytes \in Seq(Nat), NEW more \in Seq(Nat), NEW b, Longer(more, bytes, b)
  PROVE  Number(bytes) \in Nat /\ Number(more) \in Nat /\ Number(more) = Number(bytes) * B + b
<1> DEFINE n == Len(bytes)
<1>1. n \in Nat /\ Len(more) = n + 1 /\ Len(more) \in 1..Len(more) /\ n \in 0..n /\ n + 1 \in 0..Len(more)
  BY DEF Longer
<1>2. Reads(more)[n + 1] = Reads(more)[(n + 1) - 1] * B + more[n + 1]
  BY <1>1, ReadsIs
<1>3. Reads(more)[n] = Reads(bytes)[n]
  <2>1. n <= Len(bytes) /\ n <= Len(more) /\ \A i \in 1..n : more[i] = bytes[i]
    BY <1>1 DEF Longer
  <2> HIDE DEF n
  <2> QED BY <1>1, <2>1, ReadsAgree
<1>4. Reads(more)[n + 1] \in Nat /\ Reads(bytes)[n] \in Nat
  BY <1>1, ReadsIs
<1>5. (n + 1) - 1 = n /\ more[n + 1] = b
  BY <1>1 DEF Longer
<1> QED BY <1>1, <1>2, <1>3, <1>4, <1>5 DEF Number

\* What was written, what waits in the cache and the bytes behind it.
Row(out, c, k, b) == out \o <<c>> \o Run(k, b)

\* Its bytes.
IsRow(row, out, c, k, b) ==
  /\ row \in Seq(0..B - 1) /\ Len(row) = Len(out) + 1 + k
  /\ \A i \in 1..Len(out) : row[i] = out[i]
  /\ row[Len(out) + 1] = c
  /\ \A i \in 1..k : row[Len(out) + 1 + i] = b

LEMMA RowIs ==
  ASSUME B \in Nat \ {0}, NEW out \in Seq(0..B - 1), NEW c \in 0..B - 1, NEW b \in 0..B - 1, NEW k \in Nat
  PROVE  IsRow(Row(out, c, k, b), out, c, k, b)
<1> DEFINE S == 0..B - 1
           run == Run(k, b)
           head == out \o <<c>>
           row == head \o run
<1>1. run \in Seq(S) /\ Len(run) = k /\ \A i \in 1..k : run[i] = b
  BY DEF Run
<1> HIDE DEF run
<1>2. head \in Seq(S) /\ Len(head) = Len(out) + 1 /\ head[Len(out) + 1] = c /\ \A i \in 1..Len(out) : head[i] = out[i]
  OBVIOUS
<1> HIDE DEF head
<1>3. Row(out, c, k, b) = row
  BY DEF Row, head, run
<1>4. /\ row \in Seq(S) /\ Len(row) = Len(head) + Len(run)
      /\ \A i \in 1 .. Len(head) + Len(run) : row[i] = IF i <= Len(head) THEN head[i] ELSE run[i - Len(head)]
  <2> HIDE DEF S
  <2> QED BY <1>1, <1>2, ConcatProperties
<1> HIDE DEF row
<1>5. Len(out) \in Nat
  OBVIOUS
<1>6. \A i \in 1..Len(out) : row[i] = out[i]
  BY <1>1, <1>2, <1>4, <1>5
<1>7. row[Len(out) + 1] = c
  BY <1>1, <1>2, <1>4, <1>5
<1>8. ASSUME NEW i \in 1..k PROVE row[Len(out) + 1 + i] = b
  <2> DEFINE j == Len(out) + 1 + i
  <2>1. j \in 1 .. Len(head) + Len(run) /\ ~(j <= Len(head)) /\ j - Len(head) = i
    BY <1>1, <1>2, <1>5
  <2> HIDE DEF j
  <2>2. row[j] = run[i]
    BY <1>4, <2>1
  <2> QED BY <1>1, <2>2 DEF j
<1> QED BY <1>1, <1>2, <1>3, <1>4, <1>6, <1>7, <1>8 DEF IsRow, S

\* Bytes are numbers.
LEMMA BytesAreNumbers ==
  ASSUME B \in Nat \ {0}, NEW out \in Seq(0..B - 1)
  PROVE  out \in Seq(Nat)
OBVIOUS

\* Its number, byte by byte.
Counted(out, c, k, b) ==
  /\ Number(out) \in Nat /\ Number(Row(out, c, k, b)) \in Nat
  /\ Number(Row(out, c, 0, b)) = Number(out) * B + c
  /\ k > 0 => Number(Row(out, c, k, b)) = Number(Row(out, c, k - 1, b)) * B + b

LEMMA RowNumber ==
  ASSUME B \in Nat \ {0}, NEW out \in Seq(0..B - 1), NEW c \in 0..B - 1, NEW b \in 0..B - 1, NEW k \in Nat
  PROVE  Counted(out, c, k, b)
<1> DEFINE r(j) == Row(out, c, j, b)
<1>1. \A j \in Nat : IsRow(r(j), out, c, j, b)
  BY RowIs, Zenon
<1> HIDE DEF r
<1>2. out \in Seq(Nat) /\ Len(out) \in Nat /\ \A j \in Nat : r(j) \in Seq(Nat)
  <2>1. \A j \in Nat : r(j) \in Seq(0..B - 1)
    BY <1>1, Zenon DEF IsRow
  <2>2. out \in Seq(Nat)
    BY BytesAreNumbers
  <2>3. \A j \in Nat : r(j) \in Seq(Nat)
    <3> SUFFICES ASSUME NEW j \in Nat PROVE r(j) \in Seq(Nat)
      OBVIOUS
    <3>1. r(j) \in Seq(0..B - 1)
      BY <2>1, Zenon
    <3> DEFINE row == r(j)
    <3> HIDE DEF row
    <3>2. row \in Seq(0..B - 1)
      BY <3>1 DEF row
    <3>3. row \in Seq(Nat)
      BY <3>2, BytesAreNumbers
    <3> QED BY <3>3 DEF row
  <2> QED BY <2>2, <2>3
<1>3. Longer(r(0), out, c)
  <2>1. 0 \in Nat
    OBVIOUS
  <2>2. IsRow(r(0), out, c, 0, b)
    BY <1>1, <2>1, Zenon
  <2>3. Len(r(0)) = Len(out) + 1
    BY <1>2, <2>2 DEF IsRow
  <2> QED BY <2>2, <2>3 DEF Longer, IsRow
<1>4. ASSUME k > 0 PROVE Longer(r(k), r(k - 1), b)
  <2>1. k - 1 \in Nat /\ k \in 1..k
    BY <1>4
  <2> DEFINE more == r(k)
             row == r(k - 1)
             n == Len(out) + 1
  <2>2. IsRow(more, out, c, k, b) /\ IsRow(row, out, c, k - 1, b)
    BY <1>1, <2>1, Zenon
  <2> HIDE DEF more, row
  <2>3. /\ Len(more) = n + k /\ Len(row) = n + (k - 1) /\ n \in Nat /\ more[n] = c /\ row[n] = c
        /\ \A i \in 1..n - 1 : more[i] = out[i] /\ row[i] = out[i]
        /\ \A i \in 1..k : more[n + i] = b
        /\ \A i \in 1..k - 1 : row[n + i] = b
    <3>1. n - 1 = Len(out) /\ n \in Nat /\ Len(out) + 1 + k = n + k /\ Len(out) + 1 + (k - 1) = n + (k - 1)
      BY <1>2, <2>1
    <3> QED BY <2>2, <3>1, Zenon DEF IsRow
  <2> HIDE DEF n
  <2>4. Len(more) = Len(row) + 1 /\ more[Len(more)] = b
    BY <2>1, <2>3
  <2>5. ASSUME NEW i \in 1..Len(row) PROVE more[i] = row[i]
    <3>1. CASE i < n
      BY <2>3, <3>1
    <3>2. CASE i = n
      BY <2>3, <3>2
    <3>3. CASE i > n
      <4> DEFINE j == i - n
      <4>1. j \in 1..k /\ j \in 1..k - 1 /\ i = n + j
        BY <2>1, <2>3, <3>3
      <4> HIDE DEF j
      <4>2. more[n + j] = b /\ row[n + j] = b
        BY <2>3, <4>1
      <4> QED BY <4>1, <4>2
    <3> QED BY <2>3, <3>1, <3>2, <3>3
  <2> QED BY <2>4, <2>5 DEF Longer, more, row
<1>5. Number(out) \in Nat /\ Number(r(0)) = Number(out) * B + c
  BY <1>2, <1>3, NumberGrows
<1>6. ASSUME k > 0 PROVE Number(r(k)) = Number(r(k - 1)) * B + b /\ Number(r(k)) \in Nat
  <2>1. k - 1 \in Nat /\ r(k) \in Seq(Nat) /\ r(k - 1) \in Seq(Nat) /\ Longer(r(k), r(k - 1), b)
    BY <1>2, <1>4, <1>6
  <2> QED BY <2>1, NumberGrows
<1>7. Number(r(k)) \in Nat
  <2>1. CASE k = 0
    BY <1>2, <1>3, <2>1, NumberGrows
  <2>2. CASE k # 0
    BY <1>6, <2>2
  <2> QED BY <2>1, <2>2
<1> QED BY <1>5, <1>6, <1>7 DEF r, Counted

\* A carry turns a run of the greatest byte into zeros, and is added.
LEMMA CarryRuns ==
  ASSUME B \in Nat \ {0}, NEW out \in Seq(0..B - 1), NEW c \in 0..B - 1, c + 1 \in 0..B - 1, NEW k \in Nat
  PROVE  Number(Row(out, c + 1, k, 0)) = Number(Row(out, c, k, B - 1)) + 1
<1> DEFINE m == B - 1
           d == c + 1
           zeros(j) == Number(Row(out, d, j, 0))
           nines(j) == Number(Row(out, c, j, m))
           P == {j \in 0..k : zeros(j) = nines(j) + 1}
<1>1. m \in 0..B - 1 /\ 0 \in 0..B - 1 /\ d \in 0..B - 1 /\ m + 1 = B
  OBVIOUS
<1> HIDE DEF m, d
<1>2. \A j \in Nat : Counted(out, d, j, 0) /\ Counted(out, c, j, m)
  BY <1>1, RowNumber, Zenon
<1>3. \A j \in Nat : /\ zeros(j) \in Nat /\ zeros(0) = Number(out) * B + d
                     /\ j > 0 => zeros(j) = zeros(j - 1) * B + 0
                     /\ nines(j) \in Nat /\ nines(0) = Number(out) * B + c
                     /\ j > 0 => nines(j) = nines(j - 1) * B + m
                     /\ Number(out) \in Nat
  BY <1>2, Zenon DEF Counted
<1> HIDE DEF zeros, nines
<1>4. 0 \in P
  <2>1. Number(out) * B \in Int
    <3>1. Number(out) \in Nat
      BY <1>3
    <3> QED BY <3>1
  <2>2. zeros(0) = nines(0) + 1
    BY <1>3, <2>1 DEF d
  <2> QED BY <2>2
<1>5. ASSUME NEW j \in 1..k, j - 1 \in P PROVE j \in P
  <2>1. zeros(j - 1) = nines(j - 1) + 1 /\ j \in Nat /\ j > 0 /\ j - 1 \in Nat
    BY <1>5
  <2>2. zeros(j) = zeros(j - 1) * B + 0 /\ nines(j) = nines(j - 1) * B + m /\ nines(j - 1) \in Nat
    BY <1>3, <2>1
  <2> DEFINE n == nines(j - 1)
             nb == n * B
  <2>3. (n + 1) * B = nb + B /\ nb \in Nat
    BY <2>2
  <2>4. zeros(j) = (n + 1) * B /\ nines(j) = nb + m
    <3>1. (n + 1) * B \in Nat
      BY <2>3
    <3> HIDE DEF nb
    <3>2. zeros(j) = zeros(j - 1) * B + 0 /\ zeros(j - 1) = n + 1
      BY <2>1, <2>2
    <3> HIDE DEF n
    <3> QED BY <2>2, <3>1, <3>2 DEF n, nb
  <2> HIDE DEF n, nb
  <2>5. zeros(j) = nines(j) + 1
    <3> DEFINE z == zeros(j)
               q == nines(j)
    <3>1. z = nb + B /\ q = nb + m /\ nb \in Nat
      BY <2>3, <2>4
    <3>2. m + 1 = B /\ m \in Nat
      BY <1>1
    <3> HIDE DEF z, q
    <3>3. z = q + 1
      BY <3>1, <3>2
    <3> QED BY <3>3 DEF z, q
  <2> QED BY <2>5
<1>6. 0..k \subseteq P
  <2> HIDE DEF P
  <2> QED BY <1>4, <1>5, UpTo
<1>7. zeros(k) = nines(k) + 1
  BY <1>6
<1> QED BY <1>7 DEF zeros, nines, m, d
---------------------------------------------------------------------------
(* The encoder's low and its bytes.                                        *)

\* A greater number has no smaller multiple.
LEMMA Grows ==
  ASSUME NEW n \in Nat, NEW x \in Nat, NEW y \in Nat, x <= y
  PROVE  x * n <= y * n /\ x * n \in Nat /\ y * n \in Nat
<1>1. CASE x = y
  BY <1>1
<1>2. CASE x < y
  BY <1>2, MultiplesRight
<1> QED BY <1>1, <1>2

\* What is in low but the carry and the byte at the top.
Rest(low) == low % Top

LowParted(low) ==
  /\ Carry(low) \in {0, 1} /\ TopOf(low) \in 0..B - 1 /\ Rest(low) \in 0..Top - 1
  /\ low = Carry(low) * (Max + 1) + TopOf(low) * Top + Rest(low)
  /\ (low < (B - 1) * Top \/ Carry(low) # 0) <=> ~(Carry(low) = 0 /\ TopOf(low) = B - 1)

LEMMA LowParts ==
  ASSUME B \in Nat \ {0, 1}, NEW low \in Nat, low < 2 * (Max + 1)
  PROVE  LowParted(low)
<1> DEFINE w == Max + 1
           t == Top
           q == low \div t
           rest == low % t
           carry == q \div B
           byte == q % B
<1>1. w \in Nat \ {0} /\ t \in Nat \ {0} /\ w = B * t /\ w = t * B
  BY Words
<1> HIDE DEF t, w
<1>2. q \in Nat /\ rest \in 0..t - 1 /\ low = t * q + rest
  BY <1>1, Parts
<1>3. low \div w = carry
  <2>1. low \div (B * t) = (low \div t) \div B
    <3>1. low \in Nat /\ t \in Nat \ {0} /\ B \in Nat \ {0}
      BY <1>1
    <3> QED BY <3>1, QuotientTwice, Zenon
  <2>2. w = B * t
    BY <1>1
  <2> QED BY <2>1, <2>2, Zenon
<1> HIDE DEF q, rest
<1>4. carry \in Nat /\ byte \in 0..B - 1 /\ q = B * carry + byte
  BY <1>2, Parts
<1> HIDE DEF carry, byte
<1>5. low = carry * w + byte * t + rest /\ carry * w \in Nat /\ byte * t \in Nat
  <2>1. t * (B * carry + byte) = carry * (B * t) + byte * t
    BY <1>1, <1>4
  <2>2. carry * w \in Nat /\ byte * t \in Nat
    BY <1>1, <1>4
  <2> QED BY <1>1, <1>2, <1>4, <2>1, <2>2
<1> DEFINE cw == carry * w
           bt == byte * t
           nines == (B - 1) * t
<1>6. carry \in {0, 1}
  <2>1. low < 2 * w
    BY DEF w
  <2>2. ~(2 <= carry)
    <3> SUFFICES ASSUME 2 <= carry PROVE FALSE
      OBVIOUS
    <3>1. 2 * w <= carry * w
      BY <1>1, <1>4, Grows
    <3>2. low = cw + bt + rest /\ cw \in Nat /\ bt \in Nat /\ 2 * w <= cw
      BY <1>5, <3>1
    <3> HIDE DEF cw, bt
    <3> QED BY <1>1, <1>2, <2>1, <3>2
  <2> QED BY <1>4, <2>2
<1>7. (low < nines \/ carry # 0) <=> ~(carry = 0 /\ byte = B - 1)
  <2>1. CASE carry # 0
    BY <2>1
  <2>2. CASE carry = 0 /\ byte = B - 1
    <3>1. low = nines + rest /\ nines \in Nat
      BY <1>1, <1>5, <2>2
    <3> HIDE DEF nines
    <3> QED BY <1>1, <1>2, <2>2, <3>1
  <2>3. CASE carry = 0 /\ byte # B - 1
    <3>1. byte < B - 1 /\ B - 1 \in Int /\ byte \in Int
      BY <1>4, <2>3
    <3>2. byte * t + t <= nines /\ nines \in Int
      BY <1>1, <3>1, MultiplesRight
    <3>3. low = bt + rest /\ bt \in Nat /\ bt + t <= nines
      <4>1. carry * w = 0
        BY <1>1, <2>3
      <4> QED BY <1>2, <1>5, <3>2, <4>1
    <3> HIDE DEF nines, bt
    <3> QED BY <1>1, <1>2, <2>3, <3>2, <3>3
  <2> QED BY <2>1, <2>2, <2>3
<1>8. Carry(low) = carry /\ TopOf(low) = byte /\ Rest(low) = rest
  BY <1>3 DEF Carry, TopOf, Rest, w, t, q, rest, byte
<1> QED BY <1>2, <1>4, <1>5, <1>6, <1>7, <1>8 DEF LowParted, w, t

\* A state of the encoder.
EncType ==
  [low : Nat, range : Nat, cache : 0..B - 1, cacheSize : Nat \ {0}, prob : [Contexts -> Nat],
   out : Seq(0..B - 1), exact : Nat, status : {"coding", "finished"}]

\* The number of what was written and waits.
Waiting(e) == Number(Row(e.out, e.cache, e.cacheSize - 1, B - 1))

\* It and low are the low end of an interval of r, which a carry into the
\* cache leaves where it is.
Sound(e, r) ==
  /\ e.low + r <= 2 * (Max + 1)
  /\ e.cache = B - 1 => e.low + r <= Max + 1
  /\ Waiting(e) * (Max + 1) + e.low = e.exact

\* Bytes written and waiting.
Held(e) == Len(e.out) + e.cacheSize

\* What a shift leaves.
ShiftedFrom(s, e) ==
  /\ s \in EncType
  /\ s.low = Rest(e.low) * B /\ s.exact = e.exact * B /\ Held(s) = Held(e) + 1
  /\ s.range = e.range /\ s.prob = e.prob /\ s.status = e.status

\* Its sum.
LEMMA ShiftSum ==
  ASSUME NEW n \in Nat, NEW carry \in Nat, NEW byte \in Nat, NEW rest \in Nat, NEW b \in Nat, NEW t \in Nat
  PROVE  ((n + carry) * b + byte) * (t * b) + rest * b = (n * (t * b) + (carry * (t * b) + byte * t + rest)) * b
<1>1. ((n + carry) * b + byte) * (t * b) = n * b * t * b + carry * b * t * b + byte * t * b
  OBVIOUS
<1>2. (n * (t * b) + (carry * (t * b) + byte * t + rest)) * b = n * b * t * b + carry * b * t * b + byte * t * b + rest * b
  OBVIOUS
<1> QED BY <1>1, <1>2
\* A shift keeps the low end of the interval, to the last bit.
LEMMA ShiftKeeps ==
  ASSUME B \in Nat \ {0, 1}, NEW e \in EncType, NEW r \in 1..Top, Sound(e, r)
  PROVE  ShiftedFrom(Shifted(e), e) /\ Sound(Shifted(e), r * B)
<1> DEFINE w == Max + 1
           t == Top
           low == e.low
           carry == Carry(low)
           byte == TopOf(low)
           rest == Rest(low)
           n == e.cacheSize - 1
           s == Shifted(e)
           moved == Moved(e)
           emits == low < (B - 1) * Top \/ carry # 0
<1>1. /\ w \in Nat \ {0} /\ t \in Nat \ {0} /\ w = t * B /\ B \in Nat \ {0} /\ B - 1 \in 0..B - 1 /\ 0 \in 0..B - 1
      /\ r \in Nat /\ r >= 1 /\ r <= t
  BY Words
<1>2. /\ low \in Nat /\ low < 2 * w /\ low + r <= 2 * w /\ (e.cache = B - 1 => low + r <= w)
      /\ Waiting(e) * w + low = e.exact
  BY <1>1 DEF Sound, EncType
<1>3. /\ carry \in {0, 1} /\ byte \in 0..B - 1 /\ rest \in 0..t - 1
      /\ low = carry * w + byte * t + rest
      /\ emits <=> ~(carry = 0 /\ byte = B - 1)
  <2>1. LowParted(e.low)
    BY <1>2, LowParts
  <2> QED BY <2>1, Zenon DEF LowParted
<1>4. s = IF emits
          THEN [moved EXCEPT !.out = @ \o <<(e.cache + carry) % B>> \o Run(e.cacheSize - 1, (B - 1 + carry) % B),
                             !.cache = byte, !.cacheSize = 1]
          ELSE [moved EXCEPT !.cacheSize = @ + 1]
  <2> DEFINE after == Emitted(e)
             held == Delayed(e)
  <2>1. s = IF emits THEN after ELSE held
    BY Zenon DEF Shifted
  <2>2. after = [moved EXCEPT !.out = @ \o <<(e.cache + carry) % B>> \o Run(e.cacheSize - 1, (B - 1 + carry) % B),
                              !.cache = byte, !.cacheSize = 1]
    BY Zenon DEF Emitted
  <2>3. held = [moved EXCEPT !.cacheSize = @ + 1]
    BY Zenon DEF Delayed
  <2> HIDE DEF s, moved, emits, carry, byte, after, held
  <2> QED BY <2>1, <2>2, <2>3, Zenon
<1>5. /\ e.cache \in 0..B - 1 /\ e.cacheSize \in Nat \ {0} /\ n \in Nat /\ e.out \in Seq(0..B - 1) /\ e.exact \in Nat
      /\ e.range \in Nat /\ e.prob \in [Contexts -> Nat] /\ e.status \in {"coding", "finished"}
  BY DEF EncType
<1>6. rest * B \in Nat /\ e.exact * B \in Nat
  <2>1. \A x \in Nat : x * B \in Nat
    BY <1>1
  <2>2. rest \in Nat
    BY <1>1, <1>3
  <2> QED BY <1>5, <2>1, <2>2
<1>7. Waiting(e) \in Nat
  BY <1>1, <1>5, RowNumber DEF Waiting, Counted
<1> DEFINE now == (Waiting(e) + carry) * B + byte
<1>8. now * w + rest * B = e.exact * B
  <2> DEFINE N == Waiting(e)
  <2>1. ((N + carry) * B + byte) * (t * B) + rest * B = (N * (t * B) + (carry * (t * B) + byte * t + rest)) * B
    <3> HIDE DEF N, carry, byte, rest, t
    <3> QED BY <1>1, <1>3, <1>7, ShiftSum DEF N
  <2>2. carry * w + byte * t + rest = low /\ N * w + low = e.exact
    BY <1>2, <1>3
  <2> HIDE DEF N, carry, byte, rest, t, w, low
  <2> QED BY <1>1, <2>1, <2>2, Zenon DEF N
<1>9. (rest + r) * B <= 2 * w /\ rest * B + r * B = (rest + r) * B /\ (rest + r <= t => (rest + r) * B <= w)
  <2> HIDE DEF w, t, rest
  <2>1. (rest + r) * B <= (2 * t) * B
    BY <1>1, <1>3, Grows
  <2>2. (2 * t) * B = 2 * w
    BY <1>1
  <2>3. rest * B + r * B = (rest + r) * B
    BY <1>1, <1>3
  <2>4. ASSUME rest + r <= t PROVE (rest + r) * B <= w
    BY <1>1, <1>3, <2>4, Grows
  <2> QED BY <2>1, <2>2, <2>3, <2>4
\* Where a carry could still be needed there is room for none.
<1>10. ASSUME byte = B - 1, carry = 0 => low + r <= w PROVE rest + r <= t
  <2> DEFINE cw == carry * w
  <2>1. cw + w = (cw + byte * t) + t /\ cw \in Nat
    <3>1. byte * t + t = w
      <4>1. (B - 1) * t + t = t * B
        BY <1>1
      <4> QED BY <1>1, <1>10, <4>1
    <3>2. cw \in Nat
      BY <1>1, <1>3
    <3> DEFINE bt == byte * t
    <3>3. bt \in Nat /\ bt + t = w
      BY <1>1, <1>3, <3>1
    <3> HIDE DEF bt, cw, w, t
    <3> QED BY <1>1, <3>2, <3>3 DEF bt
  <2>2. low + r <= cw + w
    <3>1. CASE carry = 0
      BY <1>1, <1>10, <3>1
    <3>2. CASE carry = 1
      BY <1>1, <1>2, <3>2
    <3> QED BY <1>3, <3>1, <3>2
  <2> DEFINE bt == byte * t
  <2>3. low = cw + bt + rest /\ bt \in Nat /\ cw + w = cw + bt + t
    BY <1>1, <1>3, <2>1
  <2> HIDE DEF bt, cw, w, t, low, rest
  <2> QED BY <1>1, <1>2, <1>3, <2>1, <2>2, <2>3
<1> HIDE DEF w, t, low, carry, byte, rest, emits, now
<1>11. CASE emits
  <2> DEFINE c == (e.cache + carry) % B
             b == (B - 1 + carry) % B
             out == e.out \o <<c>> \o Run(e.cacheSize - 1, b)
  <2>1. s = [moved EXCEPT !.out = out, !.cache = byte, !.cacheSize = 1]
    <3>1. moved.out = e.out
      BY DEF Moved, EncType
    <3> HIDE DEF moved, s
    <3> QED BY <1>4, <1>11, <3>1, Zenon
  <2>2. carry = 1 => e.cache + 1 \in 0..B - 1
    <3>1. ASSUME carry = 1, e.cache = B - 1 PROVE FALSE
      <4> DEFINE bt == byte * t
      <4>1. bt \in Nat /\ 1 * w = w
        BY <1>1, <1>3
      <4> HIDE DEF bt
      <4>2. low = w + bt + rest /\ bt \in Nat
        BY <1>3, <3>1, <4>1 DEF bt
      <4>3. w \in Nat /\ r \in Nat /\ r >= 1 /\ rest \in Nat
        BY <1>1, <1>3
      <4>4. low + r <= w
        BY <1>2, <3>1
      <4> QED BY <4>2, <4>3, <4>4
    <3>2. B \in Nat \ {0} /\ e.cache \in 0..B - 1
      BY <1>1, <1>5
    <3> QED BY <3>1, <3>2
  <2>3. c = e.cache + carry /\ c \in 0..B - 1 /\ b \in 0..B - 1 /\ b = IF carry = 0 THEN B - 1 ELSE 0
    <3>1. \A x \in 0..B - 1 : x % B = x
      <4> SUFFICES ASSUME NEW x \in 0..B - 1 PROVE x % B = x
        OBVIOUS
      <4>1. x = B * 0 + x /\ x \in Nat
        BY <1>1
      <4> QED BY <1>1, <4>1, PartedOnce
    <3>2. B % B = 0
      <4>1. B = B * 1 + 0 /\ B \in Nat
        BY <1>1
      <4> QED BY <1>1, <4>1, PartedOnce
    <3> DEFINE x == e.cache + carry
               y == B - 1 + carry
    <3>3. x \in 0..B - 1
      BY <1>1, <1>3, <1>5, <2>2
    <3>4. x % B = x
      <4> HIDE DEF x
      <4> QED BY <3>1, <3>3
    <3>5. y % B = IF carry = 0 THEN B - 1 ELSE 0
      <4>1. carry = 0 => y = B - 1
        BY <1>1
      <4>2. carry # 0 => y = B
        BY <1>1, <1>3
      <4> HIDE DEF y
      <4> QED BY <1>1, <3>1, <3>2, <4>1, <4>2
    <3> QED BY <1>1, <3>3, <3>4, <3>5
  <2>4. out = Row(e.out, c, n, b)
    BY DEF Row
  <2> HIDE DEF c, b
  <2>5. IsRow(out, e.out, c, n, b)
    <3>1. IsRow(Row(e.out, c, n, b), e.out, c, n, b)
      BY <1>1, <1>5, <2>3, RowIs
    <3> QED BY <2>4, <3>1, Zenon
  <2>6. Number(out) = Waiting(e) + carry
    <3>1. CASE carry = 0
      <4>1. c = e.cache /\ b = B - 1 /\ Waiting(e) + carry = Waiting(e)
        BY <1>5, <1>7, <2>3, <3>1
      <4> HIDE DEF out
      <4> QED BY <2>4, <4>1, Zenon DEF Waiting
    <3>2. CASE carry = 1
      <4>1. Number(Row(e.out, e.cache + 1, n, 0)) = Number(Row(e.out, e.cache, n, B - 1)) + 1
        <5> HIDE DEF n
        <5> QED BY <1>1, <1>5, <2>2, <3>2, CarryRuns
      <4>2. c = e.cache + 1 /\ b = 0
        BY <2>3, <3>2
      <4> HIDE DEF out
      <4> QED BY <2>4, <3>2, <4>1, <4>2, Zenon DEF Waiting
    <3> QED BY <1>3, <3>1, <3>2
  <2> HIDE DEF out, n
  <2>7. out \in Seq(0..B - 1) /\ Len(out) = Len(e.out) + 1 + n /\ Len(e.out) \in Nat
    BY <1>5, <2>5 DEF IsRow
  <2>8. /\ s.low = rest * B /\ s.exact = e.exact * B /\ s.out = out /\ s.cache = byte /\ s.cacheSize = 1
        /\ s.range = e.range /\ s.prob = e.prob /\ s.status = e.status /\ s \in EncType
    <3> DEFINE z == rest * B
               y == e.exact * B
    <3>1. s = [e EXCEPT !.low = z, !.exact = y, !.out = out, !.cache = byte, !.cacheSize = 1]
      BY <2>1 DEF EncType, Moved, Rest, rest, low
    <3>2. z \in Nat /\ y \in Nat
      BY <1>6
    <3> HIDE DEF z, y, s
    <3>3. /\ s.low = z /\ s.exact = y /\ s.out = out /\ s.cache = byte /\ s.cacheSize = 1
          /\ s.range = e.range /\ s.prob = e.prob /\ s.status = e.status
      BY <3>1 DEF EncType
    <3>4. s \in EncType
      <4>1. s = [low |-> z, range |-> e.range, cache |-> byte, cacheSize |-> 1, prob |-> e.prob, out |-> out,
                 exact |-> y, status |-> e.status]
        BY <3>1 DEF EncType
      <4> QED BY <1>3, <1>5, <2>7, <3>2, <4>1 DEF EncType
    <3> QED BY <3>3, <3>4 DEF z, y
  <2> HIDE DEF s
  <2>9. Held(s) = Held(e) + 1
    <3>1. Held(s) = Len(out) + 1 /\ Held(e) = Len(e.out) + e.cacheSize
      BY <2>8 DEF Held
    <3>2. n + 1 = e.cacheSize /\ n \in Nat
      BY <1>5 DEF n
    <3>3. Len(out) = Len(e.out) + 1 + n /\ Len(e.out) \in Nat
      BY <2>7
    <3> QED BY <3>1, <3>2, <3>3
  <2>10. Waiting(s) = now
    <3>1. Waiting(s) = Number(Row(out, byte, 0, B - 1))
      BY <2>8 DEF Waiting
    <3>2. Number(Row(out, byte, 0, B - 1)) = Number(out) * B + byte
      <4>1. Counted(out, byte, 0, B - 1)
        BY <1>1, <1>3, <2>7, RowNumber
      <4> QED BY <4>1 DEF Counted
    <3> QED BY <2>6, <3>1, <3>2 DEF now
  <2>11. s.cache = B - 1 => rest + r <= t
    <3> SUFFICES ASSUME byte = B - 1 PROVE rest + r <= t
      BY <2>8
    <3>1. carry # 0
      BY <1>3, <1>11
    <3> QED BY <1>10, <3>1
  <2>12. Sound(s, r * B)
    <3> DEFINE z == rest * B
               rb == r * B
               zb == (rest + r) * B
    <3>1. z \in Nat /\ rb \in Nat /\ z + rb = zb /\ zb <= 2 * w /\ (rest + r <= t => zb <= w)
      BY <1>1, <1>6, <1>9
    <3>2. now * w + z = s.exact
      BY <1>8, <2>8
    <3>3. s.low = z
      BY <2>8
    <3> HIDE DEF z, rb, zb
    <3>4. Sound(s, rb)
      BY <2>10, <2>11, <3>1, <3>2, <3>3 DEF Sound, w
    <3> QED BY <3>4 DEF rb
  <2>13. ShiftedFrom(s, e)
    BY <2>8, <2>9 DEF ShiftedFrom, rest, low
  <2> QED BY <2>12, <2>13 DEF s
<1>12. CASE ~emits
  <2>1. s = [moved EXCEPT !.cacheSize = @ + 1] /\ carry = 0 /\ byte = B - 1
    BY <1>3, <1>4, <1>12
  <2>2. /\ s.low = rest * B /\ s.exact = e.exact * B /\ s.out = e.out /\ s.cache = e.cache /\ s.cacheSize = e.cacheSize + 1
        /\ s.range = e.range /\ s.prob = e.prob /\ s.status = e.status /\ s \in EncType
    <3> DEFINE z == rest * B
               y == e.exact * B
    <3>1. s = [e EXCEPT !.low = z, !.exact = y, !.cacheSize = @ + 1]
      BY <2>1 DEF EncType, Moved, Rest, rest, low
    <3>2. z \in Nat /\ y \in Nat
      BY <1>6
    <3> HIDE DEF z, y, s
    <3>3. /\ s.low = z /\ s.exact = y /\ s.out = e.out /\ s.cache = e.cache /\ s.cacheSize = e.cacheSize + 1
          /\ s.range = e.range /\ s.prob = e.prob /\ s.status = e.status
      BY <3>1 DEF EncType
    <3>4. s \in EncType
      <4> DEFINE m == e.cacheSize + 1
      <4>1. s = [low |-> z, range |-> e.range, cache |-> e.cache, cacheSize |-> m, prob |-> e.prob,
                 out |-> e.out, exact |-> y, status |-> e.status]
        BY <3>1 DEF EncType
      <4>2. m \in Nat \ {0}
        BY <1>5
      <4> HIDE DEF m
      <4> QED BY <1>5, <3>2, <4>1, <4>2 DEF EncType
    <3> QED BY <3>3, <3>4 DEF z, y
  <2> HIDE DEF s
  <2>3. Held(s) = Held(e) + 1
    <3>1. Held(s) = Len(e.out) + (e.cacheSize + 1) /\ Held(e) = Len(e.out) + e.cacheSize
      BY <2>2 DEF Held
    <3>2. Len(e.out) \in Nat
      BY <1>5
    <3> QED BY <1>5, <3>1, <3>2
  <2>4. Waiting(s) = now
    <3>1. Waiting(s) = Number(Row(e.out, e.cache, n + 1, B - 1))
      BY <1>5, <2>2 DEF Waiting
    <3>2. Number(Row(e.out, e.cache, n + 1, B - 1)) = Number(Row(e.out, e.cache, (n + 1) - 1, B - 1)) * B + (B - 1)
      <4>1. Counted(e.out, e.cache, n + 1, B - 1)
        <5>1. n + 1 \in Nat
          BY <1>5
        <5>2. B \in Nat \ {0} /\ e.out \in Seq(0..B - 1) /\ e.cache \in 0..B - 1 /\ B - 1 \in 0..B - 1
          BY <1>1, <1>5, Zenon
        <5> QED BY <5>1, <5>2, RowNumber, Zenon
      <4>2. n + 1 > 0
        BY <1>5
      <4> QED BY <4>1, <4>2 DEF Counted
    <3>3. (n + 1) - 1 = n
      BY <1>5
    <3>4. Waiting(s) = Waiting(e) * B + (B - 1)
      BY <3>1, <3>2, <3>3 DEF Waiting
    <3>5. Waiting(e) + carry = Waiting(e)
      BY <1>7, <2>1
    <3> QED BY <2>1, <3>4, <3>5 DEF now
  <2>5. s.cache = B - 1 => rest + r <= t
    <3> SUFFICES ASSUME e.cache = B - 1 PROVE rest + r <= t
      BY <2>2
    <3> QED BY <1>2, <1>10, <2>1
  <2>6. Sound(s, r * B)
    <3> DEFINE z == rest * B
               rb == r * B
               zb == (rest + r) * B
    <3>1. z \in Nat /\ rb \in Nat /\ z + rb = zb /\ zb <= 2 * w /\ (rest + r <= t => zb <= w)
      BY <1>1, <1>6, <1>9
    <3>2. now * w + z = s.exact
      BY <1>8, <2>2
    <3>3. s.low = z
      BY <2>2
    <3> HIDE DEF z, rb, zb
    <3>4. Sound(s, rb)
      BY <2>4, <2>5, <3>1, <3>2, <3>3 DEF Sound, w
    <3> QED BY <3>4 DEF rb
  <2>7. ShiftedFrom(s, e)
    BY <2>2, <2>3 DEF ShiftedFrom, rest, low
  <2> QED BY <2>6, <2>7 DEF s
<1> QED BY <1>11, <1>12
---------------------------------------------------------------------------
(* What an operation makes of the interval, for both sides.                *)

\* What may be coded.
Ops ==
  [op : {"bit"}, of : Contexts, value : {0, 1}] \cup [op : {"direct"}, value : {0, 1}]
    \cup {[op |-> "share", of |-> s.table, value |-> s] : s \in Shares}

\* The interval between two operations: its low end, never cut, its width, the
\* probabilities and how many bytes it was shifted by.
Mark == [exact : Nat, range : Nat, prob : [Contexts -> Nat], shifts : Nat]

\* How far an operation raises the low end, what width it leaves and what it
\* makes of the probabilities.
Bound(a, op) == (a.range \div ProbTotal) * a.prob[op.of]
Part(a, op)  == a.range \div op.value.total
By(a, op) ==
  IF op.op = "bit" THEN IF op.value = 0 THEN 0 ELSE Bound(a, op)
  ELSE IF op.op = "direct" THEN op.value * (a.range \div 2)
  ELSE op.value.cum * Part(a, op)
Width(a, op) ==
  IF op.op = "bit" THEN IF op.value = 0 THEN Bound(a, op) ELSE a.range - Bound(a, op)
  ELSE IF op.op = "direct" THEN a.range \div 2
  ELSE IF op.value.cum + op.value.freq = op.value.total THEN a.range - Part(a, op) * op.value.cum
  ELSE Part(a, op) * op.value.freq
Learnt(a, op) ==
  IF op.op = "bit" THEN [a.prob EXCEPT ![op.of] = Adapted(@, op.value)] ELSE a.prob

Narrowed(a, op) ==
  [exact |-> a.exact + By(a, op), range |-> Width(a, op), prob |-> Learnt(a, op), shifts |-> a.shifts]
Grown(a) ==
  IF a.range < Top
  THEN [exact |-> a.exact * B, range |-> a.range * B, prob |-> a.prob, shifts |-> a.shifts + 1]
  ELSE a
After(a, op) ==
  IF op.op = "share" THEN Grown(Grown(Grown(Narrowed(a, op)))) ELSE Grown(Narrowed(a, op))

\* The adaptation stops short of certainty.
Likely(prob) == \A c \in Contexts : prob[c] \in Divisor - 1 .. ProbTotal - (Divisor - 1)

\* Between operations there is room for every symbol.
Room(a) == a \in Mark /\ a.range \in Top..Max /\ Likely(a.prob)

\* A probability that adapts stays short of certainty.
LEMMA AdaptedLikely ==
  ASSUME RangeCoderAssumption, NEW p \in Divisor - 1 .. ProbTotal - (Divisor - 1), NEW bit \in {0, 1}
  PROVE  Adapted(p, bit) \in Divisor - 1 .. ProbTotal - (Divisor - 1)
<1>1. Divisor \in Nat \ {0} /\ Divisor >= 2 /\ ProbTotal \in Nat /\ p \in Nat /\ ProbTotal - p \in Nat
  BY DEF RangeCoderAssumption
\* What is left of a number after its Divisor-th part is taken away.
<1>2. ASSUME NEW x \in Nat, x >= Divisor - 1
      PROVE  x \div Divisor \in Nat /\ x - x \div Divisor >= Divisor - 1 /\ x \div Divisor <= x
  <2> DEFINE q == x \div Divisor
             s == x % Divisor
  <2>1. q \in Nat /\ s \in 0..Divisor - 1 /\ x = Divisor * q + s
    BY <1>1, Parts
  <2> HIDE DEF q, s
  <2>2. CASE q = 0
    <3>1. Divisor * q = 0
      BY <1>1, <2>2
    <3> QED BY <1>1, <1>2, <2>1, <2>2, <3>1 DEF q
  <2>3. CASE q # 0
    <3> DEFINE d == Divisor - 1
               k == q - 1
    <3>1. Divisor * q = q + d * q /\ d * q = d + d * k /\ d * k \in Nat /\ d \in Nat
      BY <1>1, <2>1, <2>3
    <3> DEFINE sq == Divisor * q
               dq == d * q
               dk == d * k
    <3>2. sq = q + dq /\ dq = d + dk /\ dk \in Nat /\ d \in Nat /\ x = sq + s
      BY <2>1, <3>1
    <3>3. d = Divisor - 1
      OBVIOUS
    <3> HIDE DEF sq, dq, dk, d, k
    <3>4. x - q >= d /\ q <= x
      BY <1>1, <2>1, <3>2, <3>3
    <3> QED BY <2>1, <3>3, <3>4 DEF q
  <2> QED BY <2>2, <2>3
<1>3. CASE bit = 0
  <2> DEFINE x == ProbTotal - p
             q == x \div Divisor
  <2>1. x \in Nat /\ x >= Divisor - 1
    BY <1>1
  <2> HIDE DEF x
  <2>2. q \in Nat /\ x - q >= Divisor - 1 /\ q <= x
    BY <1>2, <2>1
  <2>3. Adapted(p, bit) = p + q
    BY <1>3 DEF Adapted, x
  <2> HIDE DEF q
  <2> QED BY <1>1, <2>2, <2>3 DEF x
<1>4. CASE bit = 1
  <2> DEFINE q == p \div Divisor
  <2>1. q \in Nat /\ p - q >= Divisor - 1 /\ q <= p
    BY <1>1, <1>2
  <2>2. Adapted(p, bit) = p - q
    BY <1>4 DEF Adapted
  <2> HIDE DEF q
  <2> QED BY <1>1, <2>1, <2>2
<1> QED BY <1>3, <1>4

\* A bit takes a part of the range that one byte more makes up for.
LEMMA BoundIs ==
  ASSUME RangeCoderAssumption, NEW range \in Top..Max, NEW p \in Divisor - 1 .. ProbTotal - (Divisor - 1)
  PROVE  /\ (range \div ProbTotal) * p \in 1..range - 1
         /\ Top <= ((range \div ProbTotal) * p) * B
         /\ Top <= (range - (range \div ProbTotal) * p) * B
<1> DEFINE u == range \div ProbTotal
           k == Top \div ProbTotal
           d == Divisor - 1
           T == ProbTotal
<1>1. /\ B \in Nat \ {0, 1} /\ B \in Nat \ {0} /\ d \in Nat \ {0} /\ T \in Nat \ {0} /\ p \in Nat \ {0} /\ T - p \in Nat \ {0}
      /\ d <= p /\ d <= T - p /\ T <= d * B /\ Top % T = 0
  BY DEF RangeCoderAssumption
<1>2. Top \in Nat \ {0} /\ Max \in Nat /\ range \in Nat /\ Top <= range
  BY <1>1, Words
<1> HIDE DEF d, T
<1>3. k \in Nat /\ Top = T * k /\ u \in Nat /\ k <= u /\ T * u <= range /\ T * u \in Nat
  <2>1. k \in Nat /\ Top = T * k + (Top % T)
    BY <1>1, <1>2, Parts DEF T
  <2>2. u \in Nat /\ (range % T) \in 0..T - 1 /\ range = T * u + (range % T)
    BY <1>1, <1>2, Parts DEF T
  <2>3. k <= u
    BY <1>1, <1>2, QuotientGrows DEF T
  <2> DEFINE s == range % T
             tu == T * u
             tk == T * k
  <2> HIDE DEF k, u
  <2>4. tu \in Nat /\ tk \in Nat
    BY <1>1, <2>1, <2>2
  <2> HIDE DEF tu, tk, s
  <2>5. Top = tk /\ tu <= range
    <3>1. Top = tk + 0 /\ range = tu + s /\ s \in 0..T - 1
      BY <1>1, <2>1, <2>2 DEF tu, tk, s
    <3> QED BY <1>1, <2>4, <3>1
  <2> QED BY <2>1, <2>2, <2>3, <2>4, <2>5 DEF tu, tk
<1>4. k # 0
  BY <1>1, <1>2, <1>3
<1> HIDE DEF k, u
\* A part of at least d of the T parts.
<1>5. ASSUME NEW q \in Nat, d <= q PROVE u * q \in Nat \ {0} /\ Top <= (u * q) * B
  <2>1. T * k <= (d * B) * k
    BY <1>1, <1>3, Grows
  <2>2. (d * B) * k <= (q * B) * k
    <3>1. d * B <= q * B /\ d * B \in Nat /\ q * B \in Nat
      BY <1>1, <1>5, Grows
    <3> QED BY <1>3, <3>1, Grows
  <2>3. k * (q * B) <= u * (q * B)
    <3>1. q * B \in Nat
      BY <1>1
    <3> QED BY <1>3, <3>1, Grows
  <2>4. (q * B) * k = k * (q * B) /\ u * (q * B) = (u * q) * B
    BY <1>1, <1>3
  <2>5. (d * B) * k \in Nat /\ k * (q * B) \in Nat /\ u * (q * B) \in Nat /\ T * k \in Nat
    BY <1>1, <1>3
  <2>6. u * q \in Nat \ {0}
    <3>1. 1 * q <= u * q
      BY <1>3, <1>4, Grows
    <3>2. q \in Nat \ {0} /\ u * q \in Nat /\ 1 * q = q
      BY <1>1, <1>3, <1>5
    <3> HIDE DEF d
    <3> DEFINE uq == u * q
    <3>3. uq \in Nat /\ q <= uq
      BY <3>1, <3>2
    <3> HIDE DEF uq
    <3>4. uq # 0
      BY <3>2, <3>3
    <3> QED BY <3>3, <3>4 DEF uq
  <2> DEFINE a1 == T * k
             a2 == (d * B) * k
             a3 == k * (q * B)
             a4 == u * (q * B)
  <2>7. a1 <= a2 /\ a2 <= a3 /\ a3 <= a4 /\ a1 \in Nat /\ a2 \in Nat /\ a3 \in Nat /\ a4 \in Nat
    BY <2>1, <2>2, <2>3, <2>4, <2>5
  <2>8. Top = a1 /\ (u * q) * B = a4
    BY <1>3, <2>4
  <2> HIDE DEF a1, a2, a3, a4
  <2>9. a1 <= a4
    BY <2>7
  <2> QED BY <2>6, <2>8, <2>9
<1> DEFINE bound == u * p
           over == u * (T - p)
<1>6. bound \in Nat \ {0} /\ Top <= bound * B /\ over \in Nat \ {0} /\ Top <= over * B
  BY <1>1, <1>5
<1>7. T * u = bound + over
  BY <1>1, <1>3
<1> HIDE DEF bound, over
<1>8. bound \in 1..range - 1 /\ over <= range - bound /\ range - bound \in Nat
  <2> DEFINE tu == T * u
  <2>1. tu \in Nat /\ tu <= range /\ tu = bound + over
    BY <1>3, <1>7
  <2> HIDE DEF tu
  <2> QED BY <1>2, <1>6, <2>1
<1>9. over * B <= (range - bound) * B /\ over * B \in Nat /\ (range - bound) * B \in Nat
  <2> DEFINE z == range - bound
  <2>1. over \in Nat /\ z \in Nat /\ over <= z
    BY <1>6, <1>8
  <2> HIDE DEF z
  <2>2. over * B <= z * B /\ over * B \in Nat /\ z * B \in Nat
    BY <1>1, <2>1, Grows
  <2> QED BY <2>2 DEF z
<1>10. Top <= (range - bound) * B
  <2> DEFINE o == over * B
             z == (range - bound) * B
  <2>1. Top <= o /\ o <= z /\ o \in Nat /\ z \in Nat
    BY <1>6, <1>9
  <2> HIDE DEF o, z
  <2>2. Top <= z
    BY <1>2, <2>1
  <2> QED BY <2>2 DEF z
<1> QED BY <1>6, <1>8, <1>10 DEF bound, u
\* Half of the range is a part one byte more makes up for.
LEMMA HalfIs ==
  ASSUME B \in Nat \ {0, 1}, NEW range \in Top..Max
  PROVE  /\ range \div 2 \in 1..range - 1 /\ 2 * (range \div 2) <= range
         /\ Top <= (range \div 2) * B
<1> DEFINE t == Pow[2]
           h == range \div 2
<1>1. Top = B * t /\ t \in Nat \ {0} /\ B \in Nat \ {0} /\ B >= 2
  <2>1. Pow[3] = B * Pow[3 - 1] /\ Pow[2] \in Nat \ {0}
    BY Powers
  <2> QED BY <2>1 DEF Top
<1> HIDE DEF t
<1>2. Top \in Nat \ {0} /\ Max \in Nat /\ range \in Nat /\ Top <= range
  BY Words
<1>3. 2 * t <= Top /\ 2 * t \in Nat /\ t * B = Top
  <2>1. 2 * t <= B * t
    BY <1>1, Grows
  <2> QED BY <1>1, <2>1
<1>4. (2 * t) \div 2 = t
  <2>1. 2 * t \in Nat /\ t \in Nat /\ 0 \in 0..2 - 1 /\ 2 * t = 2 * t + 0
    BY <1>1
  <2> QED BY <2>1, PartedOnce
<1>5. t <= h
  BY <1>2, <1>3, <1>4, QuotientGrows
<1>6. h \in Nat /\ (range % 2) \in 0..1 /\ range = 2 * h + (range % 2)
  BY <1>2, Parts
<1> HIDE DEF h
<1>7. t * B <= h * B /\ h * B \in Nat
  BY <1>1, <1>5, <1>6, Grows
<1>8. h \in 1..range - 1 /\ 2 * h <= range
  BY <1>1, <1>2, <1>5, <1>6
<1> QED BY <1>3, <1>7, <1>8 DEF h

\* Every share of a table gets a part of the range.
LEMMA ShareIs ==
  ASSUME RangeCoderAssumption, NEW s \in Shares, NEW range \in Top..Max
  PROVE  /\ range \div s.total \in Nat \ {0} /\ s.cum \in Nat /\ s.freq \in Nat \ {0} /\ s.total \in Nat \ {0}
         /\ s.cum * (range \div s.total) \in Nat /\ (range \div s.total) * s.freq \in Nat \ {0}
         /\ s.cum * (range \div s.total) + (range \div s.total) * s.freq <= range
         /\ (range \div s.total) * s.cum = s.cum * (range \div s.total)
<1> DEFINE c == s.cum
           f == s.freq
           n == s.total
           r == range \div n
<1>1. B \in Nat \ {0, 1} /\ n \in 1..Top /\ f \in 1..n /\ c \in 0..n - f
  BY DEF RangeCoderAssumption
<1>2. Top \in Nat \ {0} /\ Max \in Nat /\ range \in Nat /\ Top <= range
  BY <1>1, Words
<1>3. n \in Nat \ {0} /\ f \in Nat \ {0} /\ c \in Nat /\ c + f <= n /\ n <= range
  BY <1>1, <1>2
<1> HIDE DEF n, f, c
<1>4. r \in Nat /\ (range % n) \in 0..n - 1 /\ range = n * r + (range % n)
  BY <1>2, <1>3, Parts
<1> HIDE DEF r
<1>5. r # 0
  <2> SUFFICES ASSUME r = 0 PROVE FALSE
    OBVIOUS
  <2>1. n * r = 0
    BY <1>3
  <2> QED BY <1>3, <1>4, <2>1
<1>6. (c + f) * r <= n * r /\ (c + f) * r = c * r + r * f /\ c * r \in Nat /\ r * f \in Nat /\ r * c = c * r /\ n * r \in Nat
  <2>1. (c + f) * r <= n * r
    BY <1>3, <1>4, Grows
  <2>2. (c + f) * r = c * r + r * f /\ c * r \in Nat /\ r * f \in Nat /\ r * c = c * r /\ n * r \in Nat
    BY <1>3, <1>4
  <2> QED BY <2>1, <2>2
<1>7. 1 * f <= r * f
  BY <1>3, <1>4, <1>5, Grows
<1> DEFINE cr == c * r
           rf == r * f
           nr == n * r
<1>8. cr + rf <= nr /\ nr <= range /\ cr \in Nat /\ rf \in Nat /\ f <= rf /\ nr \in Nat
  <2>1. nr + (range % n) = range /\ (range % n) \in Nat
    BY <1>3, <1>4
  <2>2. f <= rf
    BY <1>3, <1>7
  <2>3. nr \in Nat
    BY <1>6
  <2> DEFINE m == range % n
  <2>4. nr + m = range /\ m \in Nat
    BY <2>1
  <2> HIDE DEF nr, m
  <2>5. nr <= range
    BY <1>2, <2>3, <2>4
  <2> QED BY <1>6, <2>2, <2>3, <2>5 DEF nr
<1> HIDE DEF cr, rf, nr
<1>9. cr + rf <= range /\ rf \in Nat \ {0}
  BY <1>2, <1>3, <1>8
<1> QED BY <1>3, <1>4, <1>5, <1>6, <1>8, <1>9 DEF cr, rf, r, n, f, c

\* An operation leaves a part of the interval, which is a byte short at most
\* when it is a bit's.
NarrowedOk(a, op) ==
  /\ By(a, op) \in Nat /\ Width(a, op) \in 1..Max /\ By(a, op) + Width(a, op) <= a.range
  /\ Learnt(a, op) \in [Contexts -> Nat] /\ Likely(Learnt(a, op))
  /\ op.op = "share" \/ Top <= Width(a, op) * B

LEMMA NarrowedIs ==
  ASSUME RangeCoderAssumption, NEW a, Room(a), NEW op \in Ops
  PROVE  NarrowedOk(a, op)
<1>1. a.range \in Top..Max /\ Likely(a.prob) /\ a.prob \in [Contexts -> Nat] /\ B \in Nat \ {0, 1}
  BY DEF Room, Mark, RangeCoderAssumption
<1>2. Top \in Nat \ {0} /\ Max \in Nat /\ a.range \in Nat
  BY <1>1, Words
<1>3. CASE op.op = "bit"
  <2>1. op.of \in Contexts /\ op.value \in {0, 1}
    BY <1>3 DEF Ops
  <2> DEFINE p == a.prob[op.of]
             b == Bound(a, op)
  <2>2. p \in Divisor - 1 .. ProbTotal - (Divisor - 1)
    BY <1>1, <2>1 DEF Likely
  <2>3. b \in 1..a.range - 1 /\ Top <= b * B /\ Top <= (a.range - b) * B
    BY <1>1, <2>2, BoundIs DEF Bound
  <2> HIDE DEF b
  <2>4. Learnt(a, op) \in [Contexts -> Nat] /\ Likely(Learnt(a, op))
    <3>1. Adapted(p, op.value) \in Divisor - 1 .. ProbTotal - (Divisor - 1)
      BY <2>1, <2>2, AdaptedLikely
    <3> DEFINE q == Adapted(p, op.value)
    <3>2. q \in Nat
      <4>1. Divisor \in Nat \ {0} /\ ProbTotal \in Nat
        BY DEF RangeCoderAssumption
      <4> HIDE DEF q
      <4> QED BY <3>1, <4>1 DEF q
    <3>3. Learnt(a, op) = [a.prob EXCEPT ![op.of] = q]
      BY <1>3 DEF Learnt
    <3> HIDE DEF q
    <3>4. Learnt(a, op) \in [Contexts -> Nat]
      BY <1>1, <3>2, <3>3
    <3>5. Likely(Learnt(a, op))
      BY <1>1, <2>1, <3>1, <3>3 DEF Likely, q
    <3> QED BY <3>4, <3>5
  <2>5. CASE op.value = 0
    <3>1. By(a, op) = 0 /\ Width(a, op) = b
      BY <1>3, <2>5 DEF By, Width, b
    <3> QED BY <1>1, <1>2, <2>3, <2>4, <3>1 DEF NarrowedOk
  <2>6. CASE op.value = 1
    <3>1. By(a, op) = b /\ Width(a, op) = a.range - b
      BY <1>3, <2>6 DEF By, Width, b
    <3> QED BY <1>1, <1>2, <2>3, <2>4, <3>1 DEF NarrowedOk
  <2> QED BY <2>1, <2>5, <2>6
<1>4. CASE op.op = "direct"
  <2> DEFINE h == a.range \div 2
  <2>1. h \in 1..a.range - 1 /\ 2 * h <= a.range /\ Top <= h * B
    BY <1>1, HalfIs
  <2>2. op.value \in {0, 1} /\ Learnt(a, op) = a.prob
    BY <1>4 DEF Ops, Learnt
  <2>3. By(a, op) = op.value * h /\ Width(a, op) = h
    BY <1>4 DEF By, Width
  <2> HIDE DEF h
  <2>4. op.value * h \in Nat /\ op.value * h + h <= a.range
    <3>1. CASE op.value = 0
      BY <1>2, <2>1, <3>1
    <3>2. CASE op.value = 1
      BY <1>2, <2>1, <3>2
    <3> QED BY <2>2, <3>1, <3>2
  <2> DEFINE vh == op.value * h
  <2> HIDE DEF vh
  <2>5. h \in 1..Max
    BY <1>1, <1>2, <2>1
  <2> QED BY <1>1, <2>1, <2>2, <2>3, <2>4, <2>5 DEF NarrowedOk
<1>5. CASE op.op = "share"
  <2>1. op.value \in Shares /\ Learnt(a, op) = a.prob
    BY <1>5 DEF Ops, Learnt
  <2> DEFINE s == op.value
             r == a.range \div s.total
  <2>2. /\ r \in Nat \ {0} /\ s.cum \in Nat /\ s.freq \in Nat \ {0}
        /\ s.cum * r \in Nat /\ r * s.freq \in Nat \ {0} /\ s.cum * r + r * s.freq <= a.range
        /\ r * s.cum = s.cum * r
    BY <1>1, <2>1, ShareIs
  <2>3. /\ By(a, op) = s.cum * r
        /\ Width(a, op) = IF s.cum + s.freq = s.total THEN a.range - r * s.cum ELSE r * s.freq
    BY <1>5 DEF By, Width, Part
  <2> DEFINE cr == s.cum * r
             rf == r * s.freq
  <2>4. /\ cr \in Nat /\ rf \in Nat \ {0} /\ cr + rf <= a.range
        /\ By(a, op) = cr /\ (Width(a, op) = a.range - cr \/ Width(a, op) = rf)
    <3>1. By(a, op) = cr /\ (Width(a, op) = a.range - cr \/ Width(a, op) = rf)
      BY <2>2, <2>3, Zenon
    <3> QED BY <2>2, <3>1
  <2> HIDE DEF cr, rf
  <2>5. By(a, op) \in Nat /\ Width(a, op) \in 1..Max /\ By(a, op) + Width(a, op) <= a.range
    BY <1>1, <1>2, <2>4
  <2> QED BY <1>1, <1>5, <2>1, <2>5 DEF NarrowedOk
<1> QED BY <1>3, <1>4, <1>5 DEF Ops

\* Growing makes up for one byte.
LEMMA GrownIs ==
  ASSUME B \in Nat \ {0, 1}, NEW a \in Mark, a.range \in 1..Max
  PROVE  /\ Grown(a) \in Mark /\ Grown(a).range \in 1..Max /\ Grown(a).prob = a.prob
         /\ a.shifts <= Grown(a).shifts
         /\ \A k \in 0..2 : Pow[k] <= a.range => Pow[k + 1] <= Grown(a).range
         /\ Top <= a.range => Grown(a) = a
         /\ Top <= a.range * B => Top <= Grown(a).range
<1> DEFINE w == Max + 1
<1>1. /\ w \in Nat \ {0} /\ Top \in Nat \ {0} /\ w = Top * B /\ B \in Nat \ {0} /\ B >= 2
      /\ a.range \in Nat /\ a.range >= 1 /\ a.range < w /\ Max \in Nat
      /\ a.exact \in Nat /\ a.prob \in [Contexts -> Nat] /\ a.shifts \in Nat
  BY Words DEF Mark
<1> HIDE DEF w
<1>2. \A k \in 0..2 : Pow[k + 1] = Pow[k] * B /\ Pow[k] \in Nat \ {0} /\ Pow[k + 1] \in Nat \ {0} /\ Pow[k + 1] <= Top
  <2>1. Pow[1] = B * Pow[1 - 1] /\ Pow[2] = B * Pow[2 - 1] /\ Pow[3] = B * Pow[3 - 1] /\ \A k \in 0..4 : Pow[k] \in Nat \ {0}
    BY Powers
  <2> DEFINE p0 == Pow[0]
             p1 == Pow[1]
             p2 == Pow[2]
             p3 == Pow[3]
  <2>2. p1 = p0 * B /\ p2 = p1 * B /\ p3 = p2 * B /\ p0 \in Nat \ {0} /\ p1 \in Nat \ {0} /\ p2 \in Nat \ {0} /\ p3 \in Nat \ {0} /\ Top = p3
    BY <1>1, <2>1 DEF Top
  <2> HIDE DEF p0, p1, p2, p3
  <2>3. \A x \in Nat : x <= x * B
    <3> SUFFICES ASSUME NEW x \in Nat PROVE x <= x * B
      OBVIOUS
    <3>1. 1 * x <= B * x /\ 1 * x = x /\ B * x = x * B
      BY <1>1, Grows
    <3> QED BY <3>1
  <2>4. p2 <= p3 /\ p1 <= p2
    BY <2>2, <2>3
  <2>5. p1 <= p3
    BY <2>2, <2>4
  <2>6. \A k \in 0..2 : k = 0 \/ k = 1 \/ k = 2
    OBVIOUS
  <2>7. 0 + 1 = 1 /\ 1 + 1 = 2 /\ 2 + 1 = 3
    OBVIOUS
  <2>8. p3 <= p3
    BY <2>2
  <2> QED BY <2>2, <2>4, <2>5, <2>6, <2>7, <2>8, Zenon DEF p0, p1, p2, p3
<1>3. CASE a.range < Top
  <2> DEFINE g == Grown(a)
             rb == a.range * B
             xb == a.exact * B
  <2>1. g = [exact |-> xb, range |-> rb, prob |-> a.prob, shifts |-> a.shifts + 1]
    BY <1>3 DEF Grown
  <2>2. rb + B <= w /\ rb \in Nat /\ B <= rb /\ xb \in Nat
    <3>1. a.range * B + B <= Top * B
      BY <1>1, <1>3, MultiplesRight
    <3>2. 1 * B <= a.range * B
      BY <1>1, Grows
    <3>3. xb \in Nat /\ rb \in Nat
      BY <1>1
    <3> QED BY <1>1, <3>1, <3>2, <3>3
  <2>3. \A k \in 0..2 : Pow[k] <= a.range => Pow[k + 1] <= rb
    <3> SUFFICES ASSUME NEW k \in 0..2, Pow[k] <= a.range PROVE Pow[k + 1] <= rb
      OBVIOUS
    <3>1. Pow[k] * B <= a.range * B
      BY <1>1, <1>2, Grows
    <3> QED BY <1>2, <3>1
  <2> HIDE DEF rb, xb, g
  <2>4. g \in Mark /\ g.range = rb /\ g.prob = a.prob /\ g.shifts = a.shifts + 1
    BY <1>1, <2>1, <2>2 DEF Mark
  <2>5. rb \in 1..Max
    BY <1>1, <2>2 DEF w
  <2>6. ~(Top <= a.range)
    BY <1>1, <1>3
  <2> QED BY <1>1, <2>3, <2>4, <2>5, <2>6 DEF g, rb
<1>4. CASE ~(a.range < Top)
  <2>1. Grown(a) = a
    BY <1>4 DEF Grown
  <2>2. Top <= a.range
    BY <1>1, <1>4
  <2>3. \A k \in 0..2 : Pow[k + 1] <= a.range
    BY <1>1, <1>2, <2>2
  <2>4. a.shifts <= a.shifts
    BY <1>1
  <2> QED BY <2>1, <2>2, <2>3, <2>4
<1> QED BY <1>3, <1>4
\* The width a narrowing leaves grows back to a word's top byte.
LEMMA AfterRoom ==
  ASSUME RangeCoderAssumption, NEW a, Room(a), NEW op \in Ops
  PROVE  Room(After(a, op)) /\ a.shifts <= After(a, op).shifts
<1> DEFINE m == Narrowed(a, op)
<1>1. NarrowedOk(a, op) /\ B \in Nat \ {0, 1} /\ a \in Mark
  BY NarrowedIs DEF Room, RangeCoderAssumption
<1>2. m \in Mark /\ m.range \in 1..Max /\ Likely(m.prob) /\ m.shifts = a.shifts /\ m.range = Width(a, op)
  <2> DEFINE x == a.exact + By(a, op)
  <2>1. x \in Nat /\ Max \in Nat
    BY <1>1, Words DEF NarrowedOk, Mark
  <2>2. m = [exact |-> x, range |-> Width(a, op), prob |-> Learnt(a, op), shifts |-> a.shifts]
    BY DEF Narrowed
  <2> HIDE DEF x, m
  <2> QED BY <1>1, <2>1, <2>2 DEF NarrowedOk, Mark
<1> HIDE DEF m
<1>3. Max \in Nat /\ Top \in Nat /\ a.shifts \in Nat
  BY <1>1, Words DEF Mark
<1> DEFINE g == Grown(m)
<1>4. /\ g \in Mark /\ g.range \in 1..Max /\ g.prob = m.prob /\ m.shifts <= g.shifts
      /\ \A k \in 0..2 : Pow[k] <= m.range => Pow[k + 1] <= g.range
      /\ Top <= m.range * B => Top <= g.range
  BY <1>1, <1>2, GrownIs
<1> HIDE DEF g
<1>5. CASE op.op # "share"
  <2>1. After(a, op) = g /\ Top <= g.range
    BY <1>1, <1>2, <1>4, <1>5 DEF After, NarrowedOk, g, m
  <2> QED BY <1>2, <1>3, <1>4, <2>1 DEF Room
<1>6. CASE op.op = "share"
  <2> DEFINE h == Grown(g)
             k == Grown(h)
  <2>1. h \in Mark /\ h.range \in 1..Max /\ h.prob = g.prob /\ g.shifts <= h.shifts /\ \A i \in 0..2 : Pow[i] <= g.range => Pow[i + 1] <= h.range
    BY <1>1, <1>4, GrownIs
  <2> HIDE DEF h
  <2>2. k \in Mark /\ k.range \in 1..Max /\ k.prob = h.prob /\ h.shifts <= k.shifts /\ \A i \in 0..2 : Pow[i] <= h.range => Pow[i + 1] <= k.range
    BY <1>1, <2>1, GrownIs
  <2> HIDE DEF k
  <2>3. After(a, op) = k
    BY <1>6 DEF After, k, h, g, m
  <2>4. Pow[0] <= m.range
    <3>1. Pow[0] = 1
      BY <1>1, Powers
    <3> QED BY <1>2, <1>3, <3>1
  <2>5. Pow[1] <= g.range /\ Pow[2] <= h.range /\ Top <= k.range
    BY <1>4, <2>1, <2>2, <2>4 DEF Top
  <2>6. m.shifts \in Nat /\ g.shifts \in Nat /\ h.shifts \in Nat /\ k.shifts \in Nat
    BY <1>2, <1>4, <2>1, <2>2 DEF Mark
  <2> QED BY <1>2, <1>3, <1>4, <2>1, <2>2, <2>3, <2>5, <2>6 DEF Room
<1> QED BY <1>5, <1>6
\* What the encoder holds is the interval.
Views(e, a) ==
  /\ e \in EncType /\ Sound(e, e.range) /\ e.status = "coding"
  /\ e.exact = a.exact /\ e.range = a.range /\ e.prob = a.prob /\ Held(e) = a.shifts + 1

\* A shift is the interval's growth.
LEMMA OnceViews ==
  ASSUME B \in Nat \ {0, 1}, NEW e, NEW a \in Mark, a.range \in 1..Max, Views(e, a)
  PROVE  Views(ShiftedOnce(e), Grown(a))
<1>1. e \in EncType /\ Sound(e, e.range) /\ e.range = a.range /\ Top \in Nat /\ Max \in Nat
  BY Words DEF Views
<1>2. CASE e.range < Top
  <2> DEFINE s == Shifted(e)
             rb == e.range * B
             t == [s EXCEPT !.range = rb]
             xb == a.exact * B
             g == [exact |-> xb, range |-> rb, prob |-> a.prob, shifts |-> a.shifts + 1]
  <2>1. ShiftedFrom(s, e) /\ Sound(s, rb)
    <3>1. e.range \in 1..Top
      BY <1>1, <1>2
    <3> QED BY <1>1, <3>1, ShiftKeeps
  <2>2. s.range = e.range /\ s \in EncType /\ e.range \in Nat /\ a.exact \in Nat
    BY <1>1, <2>1 DEF ShiftedFrom, EncType, Mark
  <2>3. rb \in Nat /\ s.exact = xb
    <3>1. rb \in Nat
      BY <2>2
    <3> QED BY <2>1, <3>1 DEF ShiftedFrom, Views
  <2>4. Grown(a) = g
    BY <1>1, <1>2 DEF Grown
  <2>5. ShiftedOnce(e) = t
    BY <1>2, <2>2 DEF ShiftedOnce, EncType
  <2> HIDE DEF s, rb, xb
  <2>6. t \in EncType /\ t.range = rb /\ t.low = s.low /\ t.cache = s.cache /\ t.exact = s.exact
        /\ t.out = s.out /\ t.cacheSize = s.cacheSize /\ t.prob = s.prob /\ t.status = s.status
    BY <2>2, <2>3 DEF EncType
  <2> HIDE DEF t
  <2>7. Sound(t, rb) /\ Held(t) = Held(s)
    <3>1. Waiting(t) = Waiting(s)
      BY <2>6 DEF Waiting
    <3> QED BY <2>1, <2>6, <3>1 DEF Sound, Held
  <2>8. a.shifts + 1 + 1 = (a.shifts + 1) + 1 /\ Held(s) = a.shifts + 1 + 1
    BY <2>1 DEF ShiftedFrom, Views
  <2>9. Views(t, g)
    <3> HIDE DEF g
    <3>1. g.exact = xb /\ g.range = rb /\ g.prob = a.prob /\ g.shifts = a.shifts + 1
      BY DEF g
    <3>2. t.prob = a.prob /\ t.status = "coding"
      BY <2>1, <2>6 DEF ShiftedFrom, Views
    <3> QED BY <2>3, <2>6, <2>7, <2>8, <3>1, <3>2 DEF Views
  <2> QED BY <2>4, <2>5, <2>9
<1>3. CASE ~(e.range < Top)
  BY <1>1, <1>3 DEF ShiftedOnce, Grown
<1> QED BY <1>2, <1>3

\* A part of the interval is where its low end and its range say.
LEMMA NarrowedViews ==
  ASSUME RangeCoderAssumption, NEW e, NEW a, Room(a), Views(e, a), NEW op \in Ops,
         NEW n, n = [e EXCEPT !.low = @ + By(a, op), !.exact = @ + By(a, op), !.range = Width(a, op),
                              !.prob = Learnt(a, op)]
  PROVE  Views(n, Narrowed(a, op))
<1> DEFINE by == By(a, op)
           width == Width(a, op)
           learnt == Learnt(a, op)
           low == e.low + by
           exact == e.exact + by
<1>1. by \in Nat /\ width \in 1..Max /\ by + width <= a.range /\ learnt \in [Contexts -> Nat] /\ Max \in Nat
  BY NarrowedIs, Words DEF NarrowedOk, RangeCoderAssumption
<1> HIDE DEF by, width, learnt
<1>2. e \in EncType /\ Sound(e, e.range) /\ e.range = a.range /\ e.low \in Nat /\ e.range \in Nat /\ e.exact \in Nat
      /\ e.exact = a.exact
  BY DEF Views, EncType
<1>3. n = [low |-> low, range |-> width, cache |-> e.cache, cacheSize |-> e.cacheSize, prob |-> learnt, out |-> e.out,
           exact |-> exact, status |-> e.status]
  BY <1>2 DEF EncType, by, width, learnt
<1>4. low \in Nat /\ exact \in Nat
  BY <1>1, <1>2
<1>5. low + width <= e.low + e.range
  BY <1>1, <1>2
<1> DEFINE N == Waiting(e)
           nw == N * (Max + 1)
<1>6. nw \in Nat
  <2>1. Waiting(e) \in Nat
    <3>1. Counted(e.out, e.cache, e.cacheSize - 1, B - 1)
      <4>1. B \in Nat \ {0} /\ B - 1 \in 0..B - 1
        BY DEF RangeCoderAssumption
      <4>2. e.out \in Seq(0..B - 1) /\ e.cache \in 0..B - 1 /\ e.cacheSize \in Nat \ {0}
        BY <1>2 DEF EncType
      <4>3. e.cacheSize - 1 \in Nat
        BY <4>2
      <4> QED BY <4>1, <4>2, <4>3, RowNumber, Zenon
    <3> QED BY <3>1 DEF Counted, Waiting
  <2> QED BY <1>1, <2>1
<1> HIDE DEF N
<1>7. nw + e.low = e.exact
  BY <1>2 DEF Sound, N
<1> HIDE DEF nw
<1>8. nw + low = exact
  BY <1>1, <1>2, <1>6, <1>7
<1> HIDE DEF low, exact
<1>14. /\ e.cache \in 0..B - 1 /\ e.cacheSize \in Nat \ {0} /\ e.out \in Seq(0..B - 1)
       /\ e.status \in {"coding", "finished"} /\ width \in Nat
  BY <1>1, <1>2 DEF EncType
<1>9. n \in EncType /\ n.low = low /\ n.range = width /\ n.cache = e.cache /\ n.cacheSize = e.cacheSize /\ n.prob = learnt
      /\ n.out = e.out /\ n.exact = exact /\ n.status = e.status
  <2> DEFINE m == [low |-> low, range |-> width, cache |-> e.cache, cacheSize |-> e.cacheSize, prob |-> learnt,
                   out |-> e.out, exact |-> exact, status |-> e.status]
  <2>1. m \in EncType
    BY <1>1, <1>4, <1>14 DEF EncType
  <2>2. m.low = low /\ m.range = width /\ m.cache = e.cache /\ m.cacheSize = e.cacheSize /\ m.prob = learnt
        /\ m.out = e.out /\ m.exact = exact /\ m.status = e.status
    OBVIOUS
  <2>3. n = m
    BY <1>3
  <2> HIDE DEF m
  <2> QED BY <2>1, <2>2, <2>3
<1>10. Waiting(n) = N /\ Held(n) = Held(e)
  BY <1>9 DEF Waiting, Held, N
<1>11. Sound(n, width)
  <2>1. low + width <= 2 * (Max + 1)
    BY <1>1, <1>2, <1>4, <1>5 DEF Sound
  <2>2. n.cache = B - 1 => low + width <= Max + 1
    BY <1>1, <1>2, <1>4, <1>5, <1>9 DEF Sound
  <2> QED BY <1>8, <1>9, <1>10, <2>1, <2>2 DEF Sound, nw
<1> DEFINE m == Narrowed(a, op)
<1>12. m.exact = exact /\ m.range = width /\ m.prob = learnt /\ m.shifts = a.shifts
  BY <1>2 DEF Narrowed, exact, by, width, learnt
<1> HIDE DEF m
<1>13. n.status = "coding" /\ Held(n) = a.shifts + 1
  BY <1>9, <1>10 DEF Views
<1>15. Views(n, m)
  BY <1>9, <1>11, <1>12, <1>13 DEF Views
<1> QED BY <1>15 DEF m
\* Raising moves the low end alone.
LEMMA RaisedIs ==
  ASSUME NEW e, NEW low, NEW range, NEW cache, NEW size, NEW prob, NEW out, NEW exact, NEW status, NEW by,
         e = [low |-> low, range |-> range, cache |-> cache, cacheSize |-> size, prob |-> prob,
              out |-> out, exact |-> exact, status |-> status]
  PROVE  Raised(e, by) =
           [low |-> low + by, range |-> range, cache |-> cache, cacheSize |-> size, prob |-> prob,
            out |-> out, exact |-> exact + by, status |-> status]
<1> DEFINE x == low + by
           y == exact + by
           z == Raised(e, by)
<1>1. e.low + by = x /\ e.exact + by = y
  OBVIOUS
<1>2. z = [e EXCEPT !.low = x, !.exact = y]
  BY <1>1, Zenon DEF Raised
<1> HIDE DEF x, y, z
<1>3. z = [low |-> x, range |-> range, cache |-> cache, cacheSize |-> size, prob |-> prob,
           out |-> out, exact |-> y, status |-> status]
  BY <1>2
<1> QED BY <1>3 DEF x, y, z

\* What the encoder makes of an operation.
EncodedOp(e, op) ==
  IF op.op = "bit" THEN EncodedBit(e, op.of, op.value)
  ELSE IF op.op = "direct" THEN EncodedDirect(e, op.value)
  ELSE EncodedShare(e, op.value)

\* It is what becomes of the interval.
LEMMA EncodedViews ==
  ASSUME RangeCoderAssumption, NEW e, NEW a, Room(a), Views(e, a), NEW op \in Ops
  PROVE  Views(EncodedOp(e, op), After(a, op))
<1> DEFINE n == [e EXCEPT !.low = @ + By(a, op), !.exact = @ + By(a, op), !.range = Width(a, op), !.prob = Learnt(a, op)]
           m == Narrowed(a, op)
<1>1. Views(n, m)
  BY NarrowedViews
<1>2. m \in Mark /\ m.range \in 1..Max /\ B \in Nat \ {0, 1}
  <2> DEFINE x == a.exact + By(a, op)
  <2>1. NarrowedOk(a, op) /\ a \in Mark /\ B \in Nat \ {0, 1}
    BY NarrowedIs DEF Room, RangeCoderAssumption
  <2>2. x \in Nat /\ Max \in Nat /\ Width(a, op) \in Nat
    BY <2>1, Words DEF NarrowedOk, Mark
  <2>3. m = [exact |-> x, range |-> Width(a, op), prob |-> Learnt(a, op), shifts |-> a.shifts]
    BY DEF Narrowed
  <2> HIDE DEF x, m
  <2> QED BY <2>1, <2>2, <2>3 DEF NarrowedOk, Mark
<1>3. e \in EncType /\ e.range = a.range /\ e.prob = a.prob /\ e.low \in Nat /\ e.exact \in Nat /\ e.range \in Nat
  BY DEF Views, EncType
<1>4. e = [low |-> e.low, range |-> e.range, cache |-> e.cache, cacheSize |-> e.cacheSize, prob |-> e.prob,
           out |-> e.out, exact |-> e.exact, status |-> e.status]
  BY <1>3 DEF EncType
<1> DEFINE R(low, range, prob, exact) ==
             [low |-> low, range |-> range, cache |-> e.cache, cacheSize |-> e.cacheSize, prob |-> prob,
              out |-> e.out, exact |-> exact, status |-> e.status]
<1>9. By(a, op) \in Nat
  BY NarrowedIs DEF NarrowedOk
<1>5. n = R(e.low + By(a, op), Width(a, op), Learnt(a, op), e.exact + By(a, op))
  <2> DEFINE z == n
             by == By(a, op)
             x == e.low + by
             y == e.exact + by
  <2>1. z = [e EXCEPT !.low = x, !.exact = y, !.range = Width(a, op), !.prob = Learnt(a, op)]
    BY Zenon
  <2> HIDE DEF z, x, y, by
  <2>2. z = R(x, Width(a, op), Learnt(a, op), y)
    BY <1>4, <2>1
  <2> QED BY <2>2 DEF z, x, y, by
<1> HIDE DEF n, m
<1>6. CASE op.op = "bit"
  <2> DEFINE b == Bound(a, op)
             prob == [e.prob EXCEPT ![op.of] = Adapted(@, op.value)]
             adapted == [e EXCEPT !.prob[op.of] = Adapted(@, op.value)]
  <2>1. Learnt(a, op) = prob /\ b = (e.range \div ProbTotal) * e.prob[op.of]
    BY <1>3, <1>6 DEF Learnt, Bound
  <2>2. adapted = R(e.low, e.range, prob, e.exact)
    BY <1>4
  <2>3. op.value \in {0, 1}
    BY <1>6 DEF Ops
  <2> HIDE DEF prob, adapted, b
  <2>4. CASE op.value = 0
    <3>1. By(a, op) = 0 /\ Width(a, op) = b
      BY <1>6, <2>4 DEF By, Width, b
    <3>2. [adapted EXCEPT !.range = b] = R(e.low, b, prob, e.exact)
      BY <2>2
    <3>3. n = [adapted EXCEPT !.range = b]
      <4>1. e.low + 0 = e.low /\ e.exact + 0 = e.exact
        BY <1>3
      <4> QED BY <1>5, <2>1, <3>1, <3>2, <4>1
    <3>4. EncodedOp(e, op) = ShiftedOnce([adapted EXCEPT !.range = b])
      BY <1>6, <2>1, <2>4 DEF EncodedOp, EncodedBit, adapted
    <3>5. EncodedOp(e, op) = ShiftedOnce(n) /\ After(a, op) = Grown(m)
      BY <1>6, <3>3, <3>4 DEF After, m
    <3> QED BY <1>1, <1>2, <3>5, OnceViews
  <2>5. CASE op.value = 1
    <3> DEFINE z == [adapted EXCEPT !.range = @ - b]
    <3>1. By(a, op) = b /\ Width(a, op) = a.range - b
      BY <1>6, <2>5 DEF By, Width, b
    <3>2. z = R(e.low, e.range - b, prob, e.exact)
      BY <2>2
    <3> HIDE DEF z
    <3>3. Raised(z, b) = R(e.low + b, e.range - b, prob, e.exact + b)
      BY <1>3, <1>9, <3>1, <3>2, RaisedIs
    <3>4. n = Raised(z, b)
      BY <1>3, <1>5, <2>1, <3>1, <3>3
    <3>5. EncodedOp(e, op) = ShiftedOnce(Raised(z, b))
      BY <1>6, <2>1, <2>5 DEF EncodedOp, EncodedBit, adapted, z
    <3>6. EncodedOp(e, op) = ShiftedOnce(n) /\ After(a, op) = Grown(m)
      BY <1>6, <3>4, <3>5 DEF After, m
    <3> QED BY <1>1, <1>2, <3>6, OnceViews
  <2> QED BY <2>3, <2>4, <2>5
<1>7. CASE op.op = "direct"
  <2> DEFINE h == e.range \div 2
             z == [e EXCEPT !.range = h]
             by == op.value * h
  <2>1. By(a, op) = by /\ Width(a, op) = h /\ Learnt(a, op) = e.prob
    BY <1>3, <1>7 DEF By, Width, Learnt
  <2>2. z = R(e.low, h, e.prob, e.exact)
    BY <1>4
  <2>3. EncodedOp(e, op) = ShiftedOnce(Raised(z, by))
    BY <1>7 DEF EncodedOp, EncodedDirect
  <2> HIDE DEF z, h, by
  <2>4. Raised(z, by) = R(e.low + by, h, e.prob, e.exact + by)
    BY <1>3, <1>9, <2>1, <2>2, RaisedIs
  <2>5. EncodedOp(e, op) = ShiftedOnce(n) /\ After(a, op) = Grown(m)
    BY <1>5, <1>7, <2>1, <2>3, <2>4 DEF After, m
  <2> QED BY <1>1, <1>2, <2>5, OnceViews
<1>8. CASE op.op = "share"
  <2> DEFINE s == op.value
             r == e.range \div s.total
             width == IF s.cum + s.freq = s.total THEN e.range - r * s.cum ELSE r * s.freq
             z == [e EXCEPT !.range = width]
             by == s.cum * r
  <2>1. By(a, op) = by /\ Width(a, op) = width /\ Learnt(a, op) = e.prob
    BY <1>3, <1>8 DEF By, Width, Learnt, Part
  <2>2. z = R(e.low, width, e.prob, e.exact)
    BY <1>4
  <2>3. z = [e EXCEPT !.range = IF s.cum + s.freq = s.total THEN @ - r * s.cum ELSE r * s.freq]
    BY <1>3
  <2>4. EncodedOp(e, op) = ShiftedUp(Raised(z, by))
    BY <1>8, <2>3 DEF EncodedOp, EncodedShare
  <2> HIDE DEF z, width, by
  <2>5. Raised(z, by) = R(e.low + by, width, e.prob, e.exact + by)
    BY <1>3, <1>9, <2>1, <2>2, RaisedIs
  <2>6. n = Raised(z, by)
    BY <1>5, <2>1, <2>5
  <2>7. EncodedOp(e, op) = ShiftedOnce(ShiftedOnce(ShiftedOnce(n))) /\ After(a, op) = Grown(Grown(Grown(m)))
    BY <1>8, <2>4, <2>6 DEF After, m, ShiftedUp
  <2> DEFINE g == Grown(m)
             h == Grown(g)
  <2>8. Views(ShiftedOnce(n), g) /\ g \in Mark /\ g.range \in 1..Max
    BY <1>1, <1>2, OnceViews, GrownIs
  <2> HIDE DEF g
  <2>9. Views(ShiftedOnce(ShiftedOnce(n)), h) /\ h \in Mark /\ h.range \in 1..Max
    BY <1>2, <2>8, OnceViews, GrownIs
  <2> HIDE DEF h
  <2>10. Views(ShiftedOnce(ShiftedOnce(ShiftedOnce(n))), Grown(h))
    BY <1>2, <2>9, OnceViews
  <2> QED BY <2>7, <2>10 DEF g, h
<1> QED BY <1>6, <1>7, <1>8 DEF Ops
\* What finish leaves: the low end of the interval, written out.
Written(f, a) ==
  /\ f \in EncType /\ Sound(f, 1) /\ f.range = a.range /\ f.prob = a.prob
  /\ Number(f.out) = a.exact /\ Len(f.out) = a.shifts + 5

\* A wider interval is a sound one, too.
LEMMA SoundShrinks ==
  ASSUME B \in Nat \ {0, 1}, NEW e \in EncType, NEW r \in Nat \ {0}, Sound(e, r)
  PROVE  Sound(e, 1)
<1>1. e.low \in Nat /\ r >= 1 /\ r \in Nat /\ Max \in Nat
  BY Words DEF EncType
<1> QED BY <1>1 DEF Sound

\* One shift of it.
LEMMA FinishShift ==
  ASSUME B \in Nat \ {0, 1}, NEW e \in EncType, Sound(e, 1)
  PROVE  Sound(Shifted(e), 1) /\ ShiftedFrom(Shifted(e), e) /\ Shifted(e).low < Max + 1
<1>1. 1 \in 1..Top /\ Top \in Nat \ {0} /\ Max + 1 = Top * B /\ Max \in Nat /\ e.low \in Nat
  BY Words DEF EncType
<1>2. ShiftedFrom(Shifted(e), e) /\ Sound(Shifted(e), 1 * B)
  BY <1>1, ShiftKeeps
<1>3. Sound(Shifted(e), 1)
  <2>1. 1 * B \in Nat \ {0}
    OBVIOUS
  <2>2. Shifted(e) \in EncType
    BY <1>2 DEF ShiftedFrom
  <2> QED BY <1>2, <2>1, <2>2, SoundShrinks
<1>4. Shifted(e).low < Max + 1
  <2> DEFINE z == Rest(e.low)
  <2>1. z \in Nat /\ z < Top
    <3>1. e.low % Top \in 0..Top - 1
      BY <1>1, QuotientType
    <3> QED BY <1>1, <3>1 DEF Rest
  <2>2. Shifted(e).low = z * B
    BY <1>2 DEF ShiftedFrom
  <2> HIDE DEF z
  <2>3. z * B + B <= Top * B /\ z * B \in Int /\ Top * B \in Int
    BY <1>1, <2>1, MultiplesRight
  <2> DEFINE zb == z * B
             tb == Top * B
  <2>4. zb + B <= tb /\ zb \in Int /\ tb = Max + 1
    BY <1>1, <2>3
  <2> HIDE DEF zb
  <2>5. zb < Max + 1
    BY <1>1, <2>4
  <2> QED BY <2>2, <2>5 DEF zb
<1> QED BY <1>2, <1>3, <1>4

\* Five shifts write all of it.
LEMMA FinishedIs ==
  ASSUME B \in Nat \ {0, 1}, NEW e, NEW a \in Mark, a.range \in Nat \ {0}, Views(e, a)
  PROVE  Written(Finished(e), a)
<1> DEFINE s1 == Shifted(e)
           s2 == Shifted(s1)
           s3 == Shifted(s2)
           s4 == Shifted(s3)
           s5 == Shifted(s4)
           W == Max + 1
<1>1. /\ Top \in Nat \ {0} /\ Max \in Nat /\ W = Top * B /\ W = B * Top /\ B \in Nat /\ W \in Nat \ {0}
      /\ a.shifts \in Nat /\ a.exact \in Nat
  BY Words DEF Mark
<1>2. e \in EncType /\ Sound(e, 1) /\ e.exact = a.exact /\ Held(e) = a.shifts + 1
  BY SoundShrinks DEF Views
<1>3. Finished(e) = s5
  BY DEF Finished
<1>4. Sound(s1, 1) /\ ShiftedFrom(s1, e)
  BY <1>2, FinishShift
<1> HIDE DEF s1
<1>5. Sound(s2, 1) /\ ShiftedFrom(s2, s1)
  BY <1>4, FinishShift DEF ShiftedFrom
<1> HIDE DEF s2
<1>6. Sound(s3, 1) /\ ShiftedFrom(s3, s2)
  BY <1>5, FinishShift DEF ShiftedFrom
<1> HIDE DEF s3
<1>7. Sound(s4, 1) /\ ShiftedFrom(s4, s3) /\ s4.low < W
  BY <1>6, FinishShift DEF ShiftedFrom
<1> HIDE DEF s4
<1>8. Sound(s5, 1) /\ ShiftedFrom(s5, s4)
  BY <1>7, FinishShift DEF ShiftedFrom
<1>9. s4 \in EncType /\ s4.low \in Nat
  BY <1>7 DEF ShiftedFrom, EncType
\* The four shifts before the last leave nothing in low.
<1>10. s4.exact = W * e.exact
  <2>1. s4.exact = e.exact * B * B * B * B
    <3>1. s1.exact = e.exact * B /\ s2.exact = s1.exact * B /\ s3.exact = s2.exact * B /\ s4.exact = s3.exact * B
      BY <1>4, <1>5, <1>6, <1>7 DEF ShiftedFrom
    <3> QED BY <3>1
  <2>2. Top = B * (B * B)
    <3>1. Pow[0] = 1 /\ Pow[1] = B * Pow[1 - 1] /\ Pow[2] = B * Pow[2 - 1] /\ Pow[3] = B * Pow[3 - 1]
      BY Powers
    <3>2. 1 - 1 = 0 /\ 2 - 1 = 1 /\ 3 - 1 = 2 /\ B * 1 = B
      OBVIOUS
    <3> QED BY <3>1, <3>2 DEF Top
  <2>3. e.exact * B * B * B * B = (B * (B * (B * B))) * e.exact
    <3>1. e.exact \in Nat
      BY <1>2 DEF EncType
    <3> QED BY <1>1, <3>1
  <2> QED BY <1>1, <2>1, <2>2, <2>3
<1> DEFINE N == Waiting(s4)
<1>11. N \in Nat
  <2>1. Counted(s4.out, s4.cache, s4.cacheSize - 1, B - 1)
    <3>1. B \in Nat \ {0} /\ s4.out \in Seq(0..B - 1) /\ s4.cache \in 0..B - 1 /\ B - 1 \in 0..B - 1 /\ s4.cacheSize - 1 \in Nat
      BY <1>9 DEF EncType
    <3> QED BY <3>1, RowNumber
  <2> QED BY <2>1 DEF Counted, Waiting
<1>12. N = e.exact /\ s4.low = 0
  <2>1. N * W + s4.low = s4.exact
    BY <1>7 DEF Sound
  <2> HIDE DEF N, W
  <2> DEFINE x == W * e.exact
  <2>2. e.exact \in Nat /\ s4.low \in 0..W - 1 /\ x \in Nat /\ N * W = W * N
    <3>1. e.exact \in Nat
      BY <1>2 DEF EncType
    <3> QED BY <1>1, <1>7, <1>9, <1>11, <3>1
  <2>3. x = W * N + s4.low /\ x = W * e.exact + 0
    <3>1. x = x + 0
      BY <2>2
    <3> QED BY <1>10, <2>1, <2>2, <3>1
  <2> HIDE DEF x
  <2>4. x \div W = N /\ x % W = s4.low
    <3>1. W \in Nat \ {0} /\ x \in Nat /\ N \in Nat /\ s4.low \in 0..W - 1 /\ x = W * N + s4.low
      BY <1>1, <1>11, <2>2, <2>3, Zenon
    <3> QED BY <3>1, PartedOnce, Zenon
  <2>5. x \div W = e.exact /\ x % W = 0
    <3>1. 0 \in 0..W - 1
      BY <1>1
    <3>2. W \in Nat \ {0} /\ x \in Nat /\ e.exact \in Nat /\ 0 \in 0..W - 1 /\ x = W * e.exact + 0
      BY <1>1, <2>2, <2>3, <3>1, Zenon
    <3> QED BY <3>2, PartedOnce, Zenon
  <2> QED BY <2>4, <2>5
\* The last one writes what was waiting.
<1>13. s5.out = Row(s4.out, s4.cache, s4.cacheSize - 1, B - 1) /\ s5.cacheSize = 1
  <2>1. Carry(s4.low) = 0
    <3>1. 0 = W * 0 + 0 /\ 0 \in 0..W - 1
      BY <1>1
    <3>2. 0 \div W = 0
      BY <1>1, <3>1, PartedOnce
    <3> QED BY <1>12, <3>2 DEF Carry
  <2>2. s4.low < (B - 1) * Top
    <3>1. 1 * Top <= (B - 1) * Top
      BY <1>1, Grows
    <3> DEFINE y == (B - 1) * Top
    <3>2. y \in Nat /\ Top <= y
      BY <1>1, <3>1
    <3> HIDE DEF y
    <3>3. 0 < y
      BY <1>1, <3>2
    <3> QED BY <1>12, <3>3 DEF y
  <2> DEFINE c == (s4.cache + 0) % B
             b == (B - 1 + 0) % B
             moved == Moved(s4)
             out == s4.out \o <<c>> \o Run(s4.cacheSize - 1, b)
  <2>3. s5 = [moved EXCEPT !.out = @ \o <<c>> \o Run(s4.cacheSize - 1, b), !.cache = TopOf(s4.low), !.cacheSize = 1]
    <3> DEFINE after == Emitted(s4)
    <3>1. s5 = after
      <4>1. Shifted(s4) = after
        BY <2>2, Zenon DEF Shifted
      <4> QED BY <4>1
    <3> DEFINE ca == Carry(s4.low)
    <3>2. after = [moved EXCEPT !.out = @ \o <<(s4.cache + ca) % B>> \o Run(s4.cacheSize - 1, (B - 1 + ca) % B),
                                !.cache = TopOf(s4.low), !.cacheSize = 1]
      BY Zenon DEF Emitted
    <3>3. ca = 0
      BY <2>1
    <3> HIDE DEF s5, after, ca, moved
    <3> QED BY <3>1, <3>2, <3>3, Zenon
  <2>4. c = s4.cache /\ b = B - 1
    <3>1. \A x \in 0..B - 1 : x % B = x
      <4> SUFFICES ASSUME NEW x \in 0..B - 1 PROVE x % B = x
        OBVIOUS
      <4>1. x = B * 0 + x /\ x \in Nat
        BY <1>1
      <4> QED BY <1>1, <4>1, PartedOnce
    <3>2. s4.cache \in 0..B - 1 /\ B - 1 \in 0..B - 1 /\ s4.cache + 0 = s4.cache /\ B - 1 + 0 = B - 1
      BY <1>1, <1>9 DEF EncType
    <3> QED BY <3>1, <3>2
  <2> HIDE DEF c, b
  <2>5. moved.out = s4.out /\ DOMAIN moved = DOMAIN s4
    BY <1>9 DEF Moved, EncType
  <2>6. "out" \in DOMAIN moved /\ "cacheSize" \in DOMAIN moved
    BY <1>9, <2>5 DEF EncType
  <2> HIDE DEF moved
  <2>7. s5.out = out /\ s5.cacheSize = 1
    BY <2>3, <2>5, <2>6
  <2> QED BY <2>4, <2>7 DEF Row
<1> HIDE DEF s5
<1>14. Number(s5.out) = N
  BY <1>13 DEF Waiting
<1>15. Held(s5) = a.shifts + 6
  <2>1. Held(s1) = Held(e) + 1 /\ Held(s2) = Held(s1) + 1 /\ Held(s3) = Held(s2) + 1 /\ Held(s4) = Held(s3) + 1 /\ Held(s5) = Held(s4) + 1
    BY <1>4, <1>5, <1>6, <1>7, <1>8 DEF ShiftedFrom
  <2> QED BY <1>1, <1>2, <2>1
<1>16. Len(s5.out) = a.shifts + 5
  <2>1. Held(s5) = Len(s5.out) + 1 /\ Len(s5.out) \in Nat
    <3>1. s5.out \in Seq(0..B - 1)
      BY <1>8 DEF ShiftedFrom, EncType
    <3> QED BY <1>13, <3>1 DEF Held
  <2> QED BY <1>1, <1>15, <2>1
<1>17. s5.range = a.range /\ s5.prob = a.prob /\ s5 \in EncType
  BY <1>4, <1>5, <1>6, <1>7, <1>8 DEF ShiftedFrom, Views
<1> QED BY <1>2, <1>3, <1>8, <1>12, <1>14, <1>16, <1>17 DEF Written
---------------------------------------------------------------------------
(* Where what was written lies.                                            *)

\* How far the bytes read at a mark are above its low end.
Above(out, a) == Reads(out)[a.shifts + 5] - a.exact

\* They are in the interval.
Inside(out, a) == a.shifts + 5 <= Len(out) /\ Above(out, a) \in 0..a.range - 1

\* A byte more is read.
LEMMA ByteRead ==
  ASSUME B \in Nat \ {0}, NEW out \in Seq(0..B - 1), NEW k \in Nat, k + 1 <= Len(out)
  PROVE  /\ Reads(out)[k] \in Nat /\ out[k + 1] \in 0..B - 1 /\ Reads(out)[k + 1] \in Nat
         /\ Reads(out)[k + 1] = Reads(out)[k] * B + out[k + 1]
<1>1. out \in Seq(Nat) /\ Len(out) \in Nat
  BY BytesAreNumbers
<1>2. k + 1 \in 1..Len(out) /\ k \in 0..Len(out) /\ k + 1 \in 0..Len(out) /\ (k + 1) - 1 = k
  BY <1>1
<1>3. Reads(out) \in [0..Len(out) -> Nat] /\ Reads(out)[k + 1] = Reads(out)[(k + 1) - 1] * B + out[k + 1]
  BY <1>1, <1>2, ReadsIs
<1>4. out[k + 1] \in 0..B - 1
  BY <1>2
<1> QED BY <1>2, <1>3, <1>4

\* What is inside after growing was inside before.
LEMMA InsideGrown ==
  ASSUME B \in Nat \ {0, 1}, NEW out \in Seq(0..B - 1), NEW m \in Mark, Inside(out, Grown(m))
  PROVE  Inside(out, m)
<1>1. m.shifts \in Nat /\ m.exact \in Nat /\ m.range \in Nat /\ B \in Nat \ {0} /\ B \in Nat /\ Len(out) \in Nat
  BY DEF Mark
<1>2. CASE ~(m.range < Top)
  BY <1>2 DEF Grown
<1>3. CASE m.range < Top
  <2> DEFINE g == Grown(m)
             k == m.shifts + 5
             x == Reads(out)[k]
             d == x - m.exact
             b == out[k + 1]
  <2>1. g.shifts = m.shifts + 1 /\ g.exact = m.exact * B /\ g.range = m.range * B
    BY <1>3 DEF Grown
  <2>2. m.shifts + 1 + 5 = k + 1 /\ k \in Nat
    BY <1>1
  <2>3. k + 1 <= Len(out) /\ Reads(out)[k + 1] - m.exact * B \in 0..m.range * B - 1
    BY <2>1, <2>2 DEF Inside, Above
  <2> HIDE DEF k
  <2>4. x \in Nat /\ b \in 0..B - 1 /\ Reads(out)[k + 1] = x * B + b
    BY <1>1, <2>2, <2>3, ByteRead
  <2> HIDE DEF x, b
  <2>5. d \in Int /\ x * B - m.exact * B = d * B
    BY <1>1, <2>4
  <2> HIDE DEF d
  <2> DEFINE db == d * B
             rb == m.range * B
             xb == x * B
             eb == m.exact * B
  <2>6. db \in Int /\ rb \in Nat /\ xb \in Nat /\ eb \in Nat
    <3>1. \A p \in Int : p * B \in Int
      BY <1>1
    <3>2. \A p \in Nat : p * B \in Nat
      BY <1>1
    <3> QED BY <1>1, <2>4, <2>5, <3>1, <3>2, Zenon
  <2> HIDE DEF db, rb, xb, eb
  <2>7. xb - eb = db /\ (xb + b) - eb \in 0..rb - 1
    <3>1. xb - eb = db
      BY <2>5 DEF xb, eb, db
    <3>2. Reads(out)[k + 1] = xb + b /\ Reads(out)[k + 1] - eb \in 0..rb - 1
      BY <2>3, <2>4 DEF xb, eb, rb
    <3> QED BY <3>1, <3>2, Zenon
  <2>8. db + b >= 0 /\ db + b < rb
    BY <2>4, <2>6, <2>7
  <2>9. ~(d < 0)
    <3> SUFFICES ASSUME d < 0 PROVE FALSE
      OBVIOUS
    <3>1. d * B + B <= 0 * B /\ 0 * B = 0
      BY <1>1, <2>5, MultiplesRight
    <3> QED BY <1>1, <2>4, <2>6, <2>8, <3>1 DEF db
  <2>10. d < m.range
    <3> SUFFICES ASSUME m.range <= d PROVE FALSE
      BY <1>1, <2>5
    <3>1. m.range * B <= d * B
      <4>1. d \in Nat
        BY <2>5, <2>9
      <4> QED BY <1>1, <4>1, Grows
    <3>2. rb <= db
      BY <3>1 DEF rb, db
    <3> QED BY <2>4, <2>6, <2>8, <3>2
  <2>11. d \in 0..m.range - 1 /\ k <= Len(out)
    <3>1. d \in 0..m.range - 1
      BY <1>1, <2>5, <2>9, <2>10
    <3> QED BY <1>1, <2>2, <2>3, <3>1
  <2> QED BY <2>11 DEF Inside, Above, d, x, k
<1> QED BY <1>2, <1>3

\* What is inside the part was inside the whole, as far above its low end.
LEMMA InsideNarrowed ==
  ASSUME RangeCoderAssumption, NEW out \in Seq(0..B - 1), NEW a, Room(a), NEW op \in Ops,
         Inside(out, Narrowed(a, op))
  PROVE  /\ Inside(out, a) /\ Above(out, a) \in Nat
         /\ Above(out, Narrowed(a, op)) = Above(out, a) - By(a, op)
         /\ By(a, op) <= Above(out, a) /\ Above(out, a) < By(a, op) + Width(a, op)
<1> DEFINE by == By(a, op)
           width == Width(a, op)
           k == a.shifts + 5
           x == Reads(out)[k]
           n == Narrowed(a, op)
<1>1. by \in Nat /\ width \in Nat /\ by + width <= a.range /\ a.range \in Nat /\ a.exact \in Nat /\ a.shifts \in Nat
  <2>1. B \in Nat \ {0, 1} /\ NarrowedOk(a, op) /\ a \in Mark
    BY NarrowedIs DEF RangeCoderAssumption, Room
  <2>2. Max \in Nat
    BY <2>1, Words
  <2> QED BY <2>1, <2>2 DEF NarrowedOk, Mark
<1> HIDE DEF by, width
<1>2. n.shifts = a.shifts /\ n.exact = a.exact + by /\ n.range = width
  BY DEF Narrowed, by, width
<1>3. k <= Len(out) /\ x - (a.exact + by) \in 0..width - 1
  BY <1>2 DEF Inside, Above
<1>4. x \in Nat
  <2>1. out \in Seq(Nat) /\ k \in 0..Len(out) /\ B \in Nat \ {0}
    <3>1. B \in Nat \ {0}
      BY DEF RangeCoderAssumption
    <3>2. Len(out) \in Nat /\ k \in Nat
      BY <1>1
    <3> HIDE DEF k
    <3>3. k \in 0..Len(out)
      BY <1>3, <3>2
    <3> QED BY <3>1, <3>3, BytesAreNumbers
  <2> QED BY <2>1, ReadsIs
<1>5. Above(out, a) = x - a.exact /\ Above(out, n) = x - (a.exact + by)
  BY <1>2 DEF Above
<1> HIDE DEF x, k, n
<1> DEFINE y == x - a.exact
<1>6. /\ y \in 0..a.range - 1 /\ y \in Nat /\ x - (a.exact + by) = y - by
      /\ by <= y /\ y < by + width
  <2>1. x - (a.exact + by) \in 0..width - 1
    BY <1>3
  <2> DEFINE exact == a.exact
             range == a.range
  <2>2. exact \in Nat /\ range \in Nat /\ by + width <= range /\ x - (exact + by) \in 0..width - 1
    BY <1>1, <2>1
  <2> HIDE DEF exact, range
  <2>3. /\ x - exact \in 0..range - 1 /\ x - exact \in Nat /\ x - (exact + by) = (x - exact) - by
        /\ by <= x - exact /\ x - exact < by + width
    BY <1>1, <1>4, <2>2
  <2> QED BY <2>3 DEF exact, range
<1> HIDE DEF y
<1>7. k <= Len(out) /\ Above(out, a) = y /\ Above(out, n) = y - by
  BY <1>3, <1>5, <1>6 DEF y
<1> QED BY <1>6, <1>7 DEF Inside, by, width, n, k
\* What a word takes.
LEMMA WideIs ==
  ASSUME B \in Nat \ {0, 1}, NEW x \in 0..Max
  PROVE  Wide(x) = x /\ Wide(x + Max + 1) = x
<1> DEFINE w == Max + 1
<1>1. w \in Nat \ {0} /\ x \in 0..w - 1 /\ x \in Nat /\ x + w \in Nat /\ 0 \in Nat /\ 1 \in Nat /\ Max \in Nat
  BY Words
<1>2. x + Max + 1 = x + w
  BY <1>1
<1> HIDE DEF w
<1>3. x = w * 0 + x /\ x + w = w * 1 + x
  BY <1>1
<1>4. x % w = x /\ (x + w) % w = x
  <2>1. x % w = x
    BY <1>1, <1>3, PartedOnce
  <2> DEFINE y == x + w
  <2>2. y \in Nat /\ y = w * 1 + x
    BY <1>1, <1>3
  <2> HIDE DEF y
  <2>3. y % w = x
    BY <1>1, <2>2, PartedOnce
  <2> QED BY <2>1, <2>3 DEF y
<1> QED BY <1>2, <1>4 DEF Wide, w

\* A state of the decoder.
DecType ==
  [range : Nat, code : Nat, pos : Nat, prob : [Contexts -> Nat], seen : Seq(Ops), status : {"new", "decoding"}]

\* The decoder is at a mark.
Follows(out, d, a, seen) ==
  /\ d \in DecType /\ d.range = a.range /\ d.prob = a.prob /\ d.pos = a.shifts + 6 /\ d.code = Above(out, a)
  /\ d.seen = seen /\ d.status = "decoding"

\* A byte it reads is the interval's growth.
LEMMA OnceFollows ==
  ASSUME B \in Nat \ {0, 1}, enc.out \in Seq(0..B - 1), NEW m \in Mark, m.range \in 1..Max,
         Inside(enc.out, Grown(m)), NEW d, NEW seen, Follows(enc.out, d, m, seen)
  PROVE  Follows(enc.out, RefilledOnce(d), Grown(m), seen)
<1> DEFINE out == enc.out
<1>1. d \in DecType /\ d.range = m.range /\ d.code = Above(out, m) /\ d.pos = m.shifts + 6
  BY DEF Follows
<1>2. CASE ~(m.range < Top)
  <2>1. RefilledOnce(d) = d /\ Grown(m) = m
    BY <1>1, <1>2 DEF RefilledOnce, Grown
  <2> QED BY <2>1
<1>3. CASE m.range < Top
  <2> DEFINE g == Grown(m)
             k == m.shifts + 5
             x == Reads(out)[k]
             b == out[k + 1]
             code == x - m.exact
             rb == m.range * B
             cb == code * B
             y == cb + b
             next == [d EXCEPT !.range = rb, !.code = y, !.pos = k + 2]
  <2>1. m.shifts \in Nat /\ m.exact \in Nat /\ m.range \in Nat /\ B \in Nat /\ Len(out) \in Nat /\ Top \in Nat \ {0}
        /\ Max \in Nat /\ Max + 1 = Top * B /\ B >= 2 /\ B \in Nat \ {0}
    BY Words DEF Mark
  <2>2. g.shifts = m.shifts + 1 /\ g.exact = m.exact * B /\ g.range = rb /\ g.prob = m.prob
    BY <1>3 DEF Grown
  <2>3. k + 1 <= Len(out) /\ k \in Nat /\ m.shifts + 1 + 5 = k + 1 /\ m.shifts + 6 = k + 1 /\ m.shifts + 1 + 6 = k + 2
    <3>1. m.shifts + 1 + 5 <= Len(out)
      BY <2>2 DEF Inside
    <3> DEFINE n == m.shifts
               l == Len(out)
    <3>2. n \in Nat /\ l \in Nat /\ n + 1 + 5 <= l
      BY <2>1, <3>1
    <3> HIDE DEF n, l
    <3>3. /\ n + 5 + 1 <= l /\ n + 5 \in Nat /\ n + 1 + 5 = n + 5 + 1 /\ n + 6 = n + 5 + 1
          /\ n + 1 + 6 = n + 5 + 2
      BY <3>2
    <3> QED BY <3>3 DEF n, l
  <2> HIDE DEF k
  <2>4. x \in Nat /\ b \in 0..B - 1 /\ Reads(out)[k + 1] = x * B + b
    BY <2>1, <2>3, ByteRead
  <2>5. code \in 0..m.range - 1 /\ code \in Nat
    <3>1. Inside(out, m)
      BY InsideGrown
    <3>2. code \in 0..m.range - 1
      BY <3>1 DEF Inside, Above, code, x, k
    <3> QED BY <2>1, <3>2
  <2>6. Above(out, g) = y
    <3>1. Above(out, g) = Reads(out)[k + 1] - m.exact * B
      BY <2>2, <2>3 DEF Above
    <3> HIDE DEF x, b
    <3>2. Above(out, g) = (x * B + b) - m.exact * B
      BY <2>4, <3>1, Zenon
    <3>3. (x - m.exact) * B = x * B - m.exact * B /\ x * B \in Nat /\ m.exact * B \in Nat
      BY <2>1, <2>4
    <3> DEFINE xb == x * B
               eb == m.exact * B
    <3>4. cb = xb - eb /\ xb \in Nat /\ eb \in Nat /\ Above(out, g) = (xb + b) - eb
      BY <3>2, <3>3
    <3> HIDE DEF xb, eb, cb
    <3> QED BY <2>4, <3>4
  <2> HIDE DEF x, b
  <2>7. rb \in 0..Max /\ cb \in 0..Max /\ rb \in Nat /\ cb \in Nat
    <3>1. m.range * B + B <= Top * B /\ code * B + B <= Top * B
      <4>1. code \in Int /\ code < Top /\ m.range \in Int /\ Top \in Int
        BY <1>3, <2>1, <2>5
      <4> HIDE DEF code
      <4> QED BY <1>3, <2>1, <4>1, MultiplesRight
    <3>2. rb \in Nat /\ cb \in Nat
      <4> HIDE DEF code
      <4> QED BY <2>1, <2>5
    <3> DEFINE tb == Top * B
    <3>3. rb + B <= tb /\ cb + B <= tb /\ tb = Max + 1
      BY <2>1, <3>1
    <3> HIDE DEF rb, cb, tb
    <3> QED BY <2>1, <3>2, <3>3
  <2>8. d.code = code
    BY <1>1 DEF Above, code, x, k
  <2>9. y \in Nat
    <3> HIDE DEF cb
    <3> QED BY <2>4, <2>7
  <2>10. Wide(d.range * B) = rb /\ Wide(d.code * B) = cb
    <3>1. d.range * B = rb /\ d.code * B = cb
      BY <1>1, <2>8
    <3> HIDE DEF rb, cb
    <3> QED BY <2>7, <3>1, WideIs
  <2>11. RefilledOnce(d) = next
    <3>1. d.range < Top /\ d.pos = k + 1 /\ d.pos <= Len(out)
      BY <1>1, <1>3, <2>3
    <3>2. ByteAt(d.pos) = b
      BY <3>1 DEF ByteAt, b
    <3>3. d.pos + 1 = k + 2
      BY <2>3, <3>1
    <3>4. RefilledOnce(d) = [d EXCEPT !.range = Wide(@ * B), !.code = Wide(@ * B) + ByteAt(d.pos),
                                      !.pos = IF @ <= Len(enc.out) THEN @ + 1 ELSE @]
      BY <3>1, Zenon DEF RefilledOnce
    <3> DEFINE z == RefilledOnce(d)
    <3>5. DOMAIN d = {"range", "code", "pos", "prob", "seen", "status"}
      BY <1>1 DEF DecType
    <3> HIDE DEF z, rb, cb, y
    <3>6. Wide(d.code * B) + ByteAt(d.pos) = y /\ (IF d.pos <= Len(enc.out) THEN d.pos + 1 ELSE d.pos) = k + 2
      BY <2>10, <3>1, <3>2, <3>3 DEF y
    <3>7. z = next
      BY <2>10, <3>4, <3>6 DEF z
    <3> QED BY <3>7 DEF z
  <2> HIDE DEF y, rb, next
  <2>12. next \in DecType /\ next.range = rb /\ next.code = y /\ next.pos = k + 2 /\ next.prob = d.prob /\ next.seen = d.seen
         /\ next.status = d.status
    <3>1. k + 2 \in Nat
      BY <2>3
    <3> DEFINE p == k + 2
    <3>5. next = [d EXCEPT !.range = rb, !.code = y, !.pos = p]
      BY DEF next
    <3> HIDE DEF p
    <3>2. next = [range |-> rb, code |-> y, pos |-> p, prob |-> d.prob, seen |-> d.seen, status |-> d.status]
      BY <1>1, <3>5 DEF DecType
    <3>3. d.prob \in [Contexts -> Nat] /\ d.seen \in Seq(Ops) /\ d.status \in {"new", "decoding"} /\ p \in Nat
      BY <1>1, <3>1 DEF DecType, p
    <3>4. next \in DecType
      BY <2>7, <2>9, <3>2, <3>3 DEF DecType
    <3> QED BY <3>2, <3>4 DEF p
  <2> HIDE DEF g
  <2>13. Follows(out, next, g, seen)
    BY <2>2, <2>3, <2>6, <2>12 DEF Follows
  <2> QED BY <2>11, <2>13 DEF g
<1> QED BY <1>2, <1>3
\* A narrowed interval is a mark.
LEMMA NarrowedMark ==
  ASSUME RangeCoderAssumption, NEW a, Room(a), NEW op \in Ops
  PROVE  Narrowed(a, op) \in Mark /\ Narrowed(a, op).range = Width(a, op) /\ Narrowed(a, op).range \in 1..Max
<1> DEFINE x == a.exact + By(a, op)
           m == Narrowed(a, op)
<1>1. NarrowedOk(a, op) /\ a \in Mark /\ B \in Nat \ {0, 1}
  BY NarrowedIs DEF Room, RangeCoderAssumption
<1>2. x \in Nat /\ Max \in Nat /\ Width(a, op) \in Nat
  BY <1>1, Words DEF NarrowedOk, Mark
<1>3. m = [exact |-> x, range |-> Width(a, op), prob |-> Learnt(a, op), shifts |-> a.shifts]
  BY DEF Narrowed
<1> HIDE DEF x, m
<1>4. m \in Mark /\ m.range = Width(a, op) /\ m.range \in 1..Max
  BY <1>1, <1>2, <1>3 DEF NarrowedOk, Mark
<1> QED BY <1>4 DEF m

\* The decoder narrows as the encoder did.
LEMMA NarrowedFollows ==
  ASSUME RangeCoderAssumption, NEW out \in Seq(0..B - 1), NEW a, Room(a), NEW op \in Ops,
         Inside(out, Narrowed(a, op)), NEW d, NEW seen, Follows(out, d, a, seen), NEW n,
         n = [d EXCEPT !.range = Width(a, op), !.code = @ - By(a, op), !.prob = Learnt(a, op)]
  PROVE  Follows(out, n, Narrowed(a, op), seen)
<1> DEFINE m == Narrowed(a, op)
           code == d.code - By(a, op)
           range == Width(a, op)
           prob == Learnt(a, op)
<1>1. d \in DecType /\ d.code = Above(out, a) /\ d.pos = a.shifts + 6 /\ d.seen = seen /\ d.status = "decoding"
  BY DEF Follows
<1>2. code \in Nat /\ Above(out, m) = code
  <2>1. By(a, op) \in Nat
    BY NarrowedIs DEF NarrowedOk
  <2>2. Above(out, a) \in Nat /\ Above(out, m) = Above(out, a) - By(a, op) /\ By(a, op) <= Above(out, a)
    BY InsideNarrowed
  <2> QED BY <1>1, <2>1, <2>2
<1>3. range \in Nat /\ prob \in [Contexts -> Nat]
  <2>1. NarrowedOk(a, op) /\ Narrowed(a, op) \in Mark /\ Narrowed(a, op).range = range
    BY NarrowedIs, NarrowedMark
  <2> QED BY <2>1 DEF NarrowedOk, Mark
<1>4. m.range = range /\ m.prob = prob /\ m.shifts = a.shifts
  BY DEF Narrowed
<1>5. n = [d EXCEPT !.range = range, !.code = code, !.prob = prob]
  BY Zenon
<1> HIDE DEF m, code, range, prob
<1>6. n = [range |-> range, code |-> code, pos |-> d.pos, prob |-> prob, seen |-> d.seen, status |-> d.status]
  BY <1>1, <1>5 DEF DecType
<1>7. n \in DecType
  <2> DEFINE r == [range |-> range, code |-> code, pos |-> d.pos, prob |-> prob, seen |-> d.seen, status |-> d.status]
  <2>1. r \in DecType
    BY <1>1, <1>2, <1>3 DEF DecType
  <2> QED BY <1>6, <2>1
<1>8. n.range = range /\ n.code = code /\ n.pos = d.pos /\ n.prob = prob /\ n.seen = d.seen /\ n.status = d.status
  <2> DEFINE r == [range |-> range, code |-> code, pos |-> d.pos, prob |-> prob, seen |-> d.seen, status |-> d.status]
  <2>1. /\ r.range = range /\ r.code = code /\ r.pos = d.pos /\ r.prob = prob /\ r.seen = d.seen
        /\ r.status = d.status
    OBVIOUS
  <2>2. n = r
    BY <1>6
  <2> HIDE DEF r
  <2> QED BY <2>1, <2>2
<1>9. Follows(out, n, m, seen)
  BY <1>1, <1>2, <1>4, <1>7, <1>8 DEF Follows
<1> QED BY <1>9 DEF m

\* What is inside after an operation was inside all along.
LEMMA InsideAfter ==
  ASSUME RangeCoderAssumption, NEW out \in Seq(0..B - 1), NEW a, Room(a), NEW op \in Ops, Inside(out, After(a, op))
  PROVE  Inside(out, Narrowed(a, op)) /\ Inside(out, a)
<1> DEFINE m == Narrowed(a, op)
           g == Grown(m)
           h == Grown(g)
<1>1. B \in Nat \ {0, 1} /\ m \in Mark /\ m.range \in 1..Max
  BY NarrowedMark DEF RangeCoderAssumption
<1>2. g \in Mark /\ g.range \in 1..Max
  BY <1>1, GrownIs
<1>3. h \in Mark
  BY <1>1, <1>2, GrownIs
<1>4. CASE op.op # "share"
  <2>1. After(a, op) = Grown(m)
    BY <1>4 DEF After
  <2>2. Inside(out, m)
    BY <1>1, <2>1, InsideGrown
  <2> QED BY <2>2, InsideNarrowed
<1>5. CASE op.op = "share"
  <2>1. After(a, op) = Grown(h)
    BY <1>5 DEF After
  <2>2. Inside(out, h)
    BY <1>1, <1>3, <2>1, InsideGrown
  <2>3. Inside(out, g)
    BY <1>1, <1>2, <2>2, InsideGrown
  <2>4. Inside(out, m)
    BY <1>1, <2>3, InsideGrown
  <2> QED BY <2>4, InsideNarrowed
<1> QED BY <1>4, <1>5

\* What the decoder makes of an operation.
DecodedOp(d, op) ==
  IF op.op = "bit" THEN DecodedBit(d, op.of)
  ELSE IF op.op = "direct" THEN DecodedDirect(d)
  ELSE [next |-> DecodedShare(d, op.value), value |-> op.value]

\* The bit that was coded.
LEMMA BitFollows ==
  ASSUME RangeCoderAssumption, enc.out \in Seq(0..B - 1), NEW a, Room(a), NEW op \in Ops, op.op = "bit",
         Inside(enc.out, After(a, op)), NEW d, NEW seen, Follows(enc.out, d, a, seen)
  PROVE  DecodedOp(d, op).value = op.value /\ Follows(enc.out, DecodedOp(d, op).next, After(a, op), seen)
<1> DEFINE b == Bound(a, op)
           m == Narrowed(a, op)
           code == d.code
           bit == op.value
           prob == Learnt(a, op)
           width == Width(a, op)
           by == By(a, op)
           n == [d EXCEPT !.range = width, !.code = @ - by, !.prob = prob]
<1>1. Inside(enc.out, m) /\ Follows(enc.out, n, m, seen)
  <2>1. Inside(enc.out, m)
    BY InsideAfter
  <2> QED BY <2>1, NarrowedFollows
<1>2. /\ d \in DecType /\ d.range = a.range /\ d.prob = a.prob /\ code = Above(enc.out, a)
      /\ op.of \in Contexts /\ bit \in {0, 1}
  BY DEF Follows, Ops
<1>3. b \in Nat /\ a.range \in Nat /\ code \in Nat /\ by <= code /\ code < by + width /\ code < a.range
  <2>1. NarrowedOk(a, op) /\ Inside(enc.out, a) /\ B \in Nat \ {0, 1}
    BY <1>1, NarrowedIs, InsideNarrowed DEF RangeCoderAssumption
  <2>2. a.range \in Nat /\ code \in Nat /\ by <= code /\ code < by + width /\ code < a.range
    <3>1. by <= code /\ code < by + width /\ a.range \in Nat /\ code \in Nat
      BY <1>1, <1>2, InsideNarrowed DEF Room, Mark
    <3>2. code \in 0..a.range - 1
      BY <1>2, <2>1 DEF Inside
    <3> QED BY <3>1, <3>2
  <2>3. a.range \in Top..Max /\ a.prob[op.of] \in Divisor - 1 .. ProbTotal - (Divisor - 1)
    BY <1>2 DEF Room, Likely
  <2>4. b \in 1..a.range - 1
    BY <2>3, BoundIs DEF Bound
  <2> QED BY <2>2, <2>4
<1>4. (d.range \div ProbTotal) * d.prob[op.of] = b
  BY <1>2 DEF Bound
<1> DEFINE found == IF code < b THEN 0 ELSE 1
           z == [d EXCEPT !.range = IF found = 0 THEN b ELSE @ - b, !.code = @ - found * b,
                          !.prob[op.of] = Adapted(@, found)]
<1>5. DecodedOp(d, op) = [next |-> RefilledOnce(z), value |-> found]
  BY <1>4 DEF DecodedOp, DecodedBit
<1> HIDE DEF b
<1>6. found = bit /\ by = bit * b /\ width = IF bit = 0 THEN b ELSE a.range - b
  <2>1. CASE bit = 0
    <3>1. by = 0 /\ width = b
      BY <2>1 DEF By, Width, b
    <3> QED BY <1>3, <2>1, <3>1
  <2>2. CASE bit = 1
    <3>1. by = b /\ width = a.range - b
      BY <2>2 DEF By, Width, b
    <3> QED BY <1>3, <2>2, <3>1
  <2> QED BY <1>2, <2>1, <2>2
<1> HIDE DEF found
<1>7. z = n
  <2> DEFINE x == d.code - by
             p == [d.prob EXCEPT ![op.of] = Adapted(@, bit)]
             R(range, c, pr) == [range |-> range, code |-> c, pos |-> d.pos, prob |-> pr, seen |-> d.seen, status |-> d.status]
             y == n
             v == z
  <2>1. d = R(d.range, d.code, d.prob)
    BY <1>2 DEF DecType
  <2>2. prob = p
    BY <1>2 DEF Learnt
  <2>3. (IF found = 0 THEN b ELSE d.range - b) = width /\ d.code - found * b = x
    BY <1>2, <1>6
  <2>4. y = [d EXCEPT !.range = width, !.code = x, !.prob = prob]
    BY Zenon
  <2>5. v = [d EXCEPT !.range = width, !.code = x, !.prob[op.of] = Adapted(@, found)]
    BY <2>3, Zenon
  <2> HIDE DEF x, y, v, p, width, prob
  <2>6. y = R(width, x, p)
    BY <2>1, <2>2, <2>4
  <2>7. v = [d EXCEPT !.range = width, !.code = x, !.prob = p]
    BY <1>2, <1>6, <2>5 DEF p, DecType
  <2>8. v = R(width, x, p)
    BY <2>1, <2>7
  <2> QED BY <2>6, <2>8 DEF y, v
<1> HIDE DEF z, n
<1>8. DecodedOp(d, op).value = bit /\ DecodedOp(d, op).next = RefilledOnce(n)
  BY <1>5, <1>6, <1>7
<1>9. Follows(enc.out, RefilledOnce(n), Grown(m), seen)
  <2>1. After(a, op) = Grown(m)
    BY DEF After
  <2>2. m \in Mark /\ m.range \in 1..Max /\ B \in Nat \ {0, 1}
    BY NarrowedMark DEF RangeCoderAssumption
  <2>3. Inside(enc.out, Grown(m))
    BY <2>1
  <2> HIDE DEF m
  <2> QED BY <1>1, <2>2, <2>3, OnceFollows
<1>10. After(a, op) = Grown(m)
  BY DEF After
<1> QED BY <1>8, <1>9, <1>10
\* Where the code lies before an operation is decoded.
LEMMA CodeLies ==
  ASSUME RangeCoderAssumption, NEW out \in Seq(0..B - 1), NEW a, Room(a), NEW op \in Ops,
         Inside(out, Narrowed(a, op)), NEW d, NEW seen, Follows(out, d, a, seen)
  PROVE  /\ d \in DecType /\ d.range = a.range /\ d.prob = a.prob /\ a.range \in Top..Max
         /\ d.code \in Nat /\ By(a, op) <= d.code /\ d.code < By(a, op) + Width(a, op)
         /\ d.code < a.range
<1>1. d \in DecType /\ d.range = a.range /\ d.prob = a.prob /\ d.code = Above(out, a) /\ a.range \in Top..Max /\ a.range \in Nat
  BY DEF Follows, Room, Mark
<1>2. Inside(out, a) /\ Above(out, a) \in Nat /\ By(a, op) <= Above(out, a) /\ Above(out, a) < By(a, op) + Width(a, op)
  BY InsideNarrowed
<1>3. Above(out, a) \in 0..a.range - 1
  BY <1>2 DEF Inside
<1>4. Above(out, a) < a.range
  BY <1>1, <1>2, <1>3
<1> QED BY <1>1, <1>2, <1>4

\* Half of a number.
LEMMA HalfOf ==
  ASSUME NEW x \in Nat
  PROVE  x \div 2 \in Nat /\ 2 * (x \div 2) <= x
<1> DEFINE q == x \div 2
           r == x % 2
<1>1. 2 \in Nat \ {0}
  OBVIOUS
<1>2. q \in Nat /\ r \in 0..2 - 1 /\ x = 2 * q + r
  BY <1>1, Parts, Zenon
<1> HIDE DEF q, r
<1>3. 2 * q <= x
  BY <1>2
<1> QED BY <1>2, <1>3 DEF q

\* The sign of the difference tells the bit that was coded.
LEMMA DirectFollows ==
  ASSUME RangeCoderAssumption, enc.out \in Seq(0..B - 1), NEW a, Room(a), NEW op \in Ops, op.op = "direct",
         Inside(enc.out, After(a, op)), NEW d, NEW seen, Follows(enc.out, d, a, seen)
  PROVE  DecodedOp(d, op).value = op.value /\ Follows(enc.out, DecodedOp(d, op).next, After(a, op), seen)
<1> DEFINE h == d.range \div 2
           m == Narrowed(a, op)
           code == d.code
           bit == op.value
           by == By(a, op)
           width == Width(a, op)
           prob == Learnt(a, op)
           n == [d EXCEPT !.range = width, !.code = @ - by, !.prob = prob]
           diff == Wide(d.code - h)
           found == IF diff > Max \div 2 THEN 0 ELSE 1
           z == [d EXCEPT !.range = h, !.code = IF found = 0 THEN Wide(diff + h) ELSE diff]
<1>1. Inside(enc.out, m) /\ Follows(enc.out, n, m, seen)
  <2>1. Inside(enc.out, m)
    BY InsideAfter
  <2> QED BY <2>1, NarrowedFollows
<1>2. /\ d \in DecType /\ d.range = a.range /\ d.prob = a.prob /\ a.range \in Top..Max
      /\ code \in Nat /\ by <= code /\ code < by + width /\ code < a.range /\ bit \in {0, 1}
  BY <1>1, CodeLies DEF Ops
<1>3. B \in Nat \ {0, 1} /\ Top \in Nat \ {0} /\ Max \in Nat /\ a.range \in Nat /\ a.range <= Max
  <2>1. B \in Nat \ {0, 1}
    BY DEF RangeCoderAssumption
  <2>2. Top \in Nat \ {0} /\ Max \in Nat
    BY <2>1, Words
  <2> QED BY <1>2, <2>1, <2>2
<1>4. DecodedOp(d, op) = [next |-> RefilledOnce(z), value |-> found]
  BY DEF DecodedOp, DecodedDirect
<1>5. by = bit * h /\ width = h /\ prob = d.prob
  BY <1>2 DEF By, Width, Learnt
<1>6. h \in Nat /\ h <= Max \div 2 /\ 2 * (Max \div 2) <= Max /\ Max \div 2 \in Nat
  <2>1. d.range \in Nat /\ d.range <= Max /\ 2 \in Nat \ {0}
    BY <1>2, <1>3
  <2>2. h <= Max \div 2
    BY <1>3, <2>1, QuotientGrows, Zenon
  <2> QED BY <1>3, <2>1, <2>2, HalfOf, Zenon
<1> HIDE DEF h, by, width, prob
<1> DEFINE c == code - by
           half == Max \div 2
<1>7. found = bit /\ (IF found = 0 THEN Wide(diff + h) ELSE diff) = c
  <2> HIDE DEF half
  <2>1. CASE bit = 0
    <3>1. by = 0 /\ code < h
      BY <1>2, <1>5, <1>6, <2>1
    <3> DEFINE x == code - h + Max + 1
               y == code - h
    <3>2. x \in 0..Max /\ x > half /\ c = code
      <4>1. h \in Nat /\ h <= half /\ 2 * half <= Max /\ half \in Nat
        BY <1>6 DEF half
      <4>2. code \in Nat /\ Max \in Nat /\ h <= Max
        BY <1>2, <1>3, <4>1
      <4> HIDE DEF code
      <4>3. x = Max + 1 - (h - code) /\ h - code \in 1..h
        BY <3>1, <4>1, <4>2
      <4>4. c = code
        BY <3>1, <4>2
      <4> QED BY <4>1, <4>2, <4>3, <4>4
    <3>3. diff = x
      <4>1. y \in Int /\ x = y + (Max + 1) /\ Max + 1 \in Nat \ {0}
        <5>1. code \in Nat /\ h \in Nat /\ Max \in Nat
          BY <1>2, <1>3, <1>6
        <5> HIDE DEF code
        <5> QED BY <5>1
      <4> HIDE DEF y, x
      <4>2. Wide(y) = x
        <5> DEFINE w == Max + 1
        <5>1. w \in Nat \ {0} /\ x \in 0..w - 1 /\ x = y + w
          BY <1>3, <3>2, <4>1
        <5>2. y % w = x
          <6> HIDE DEF w
          <6> QED BY <4>1, <5>1, Z3
        <5> QED BY <5>2 DEF Wide, w
      <4> QED BY <4>2 DEF y
    <3> HIDE DEF x
    <3>4. found = 0
      BY <3>2, <3>3 DEF half
    <3>5. Wide(diff + h) = code
      <4>1. x + h = code + Max + 1
        BY <1>2, <1>3, <1>6 DEF x
      <4>2. code \in 0..Max
        BY <1>2, <1>3
      <4> HIDE DEF diff
      <4>3. diff + h = code + Max + 1
        BY <3>3, <4>1
      <4> QED BY <1>3, <4>2, <4>3, WideIs
    <3> QED BY <2>1, <3>2, <3>4, <3>5
  <2>2. CASE bit = 1
    <3>1. by = h /\ c \in Nat /\ c < h
      BY <1>2, <1>5, <1>6, <2>2
    <3>2. c \in 0..Max /\ c <= half
      BY <1>3, <1>6, <3>1 DEF half
    <3>3. diff = c
      <4>1. d.code - h = c
        BY <3>1
      <4> HIDE DEF c
      <4> QED BY <1>3, <3>2, <4>1, WideIs
    <3>4. found = 1
      <4> HIDE DEF diff, c
      <4>1. ~(diff > half)
        BY <1>6, <3>1, <3>2, <3>3 DEF half
      <4> QED BY <4>1 DEF half
    <3> HIDE DEF diff
    <3> QED BY <2>2, <3>3, <3>4
  <2> QED BY <1>2, <2>1, <2>2
<1> HIDE DEF found, diff
<1>8. z = n
  <2> DEFINE y == n
             v == z
  <2>1. y = [d EXCEPT !.range = width, !.code = c, !.prob = prob]
    BY Zenon
  <2>2. v = [d EXCEPT !.range = width, !.code = c]
    BY <1>5, <1>7, Zenon
  <2> HIDE DEF y, v, c
  <2>3. y = [range |-> width, code |-> c, pos |-> d.pos, prob |-> prob, seen |-> d.seen, status |-> d.status]
    BY <1>2, <2>1 DEF DecType
  <2>4. v = [range |-> width, code |-> c, pos |-> d.pos, prob |-> d.prob, seen |-> d.seen, status |-> d.status]
    BY <1>2, <2>2 DEF DecType
  <2> QED BY <1>5, <2>3, <2>4 DEF y, v
<1> HIDE DEF z, n
<1>9. DecodedOp(d, op).value = bit /\ DecodedOp(d, op).next = RefilledOnce(n)
  BY <1>4, <1>7, <1>8
<1>10. After(a, op) = Grown(m)
  BY DEF After
<1>11. Follows(enc.out, RefilledOnce(n), Grown(m), seen)
  <2>1. m \in Mark /\ m.range \in 1..Max
    BY NarrowedMark
  <2>2. Inside(enc.out, Grown(m))
    BY <1>10
  <2> HIDE DEF m
  <2> QED BY <1>1, <1>3, <2>1, <2>2, OnceFollows
<1> QED BY <1>9, <1>10, <1>11
\* The target is in the share that was coded.
LEMMA ShareFound ==
  ASSUME RangeCoderAssumption, NEW out \in Seq(0..B - 1), NEW a, Room(a), NEW op \in Ops, op.op = "share",
         Inside(out, Narrowed(a, op)), NEW d, NEW seen, Follows(out, d, a, seen)
  PROVE  Found(op.value, op.of, Target(d, op.value.total))
<1> DEFINE s == op.value
           r == d.range \div s.total
           c == s.cum
           f == s.freq
           n == s.total
           by == By(a, op)
           width == Width(a, op)
           code == d.code
           t == code \div r
<1>1. /\ d.range = a.range /\ a.range \in Top..Max /\ code \in Nat /\ by <= code /\ code < by + width
      /\ s \in Shares /\ s.table = op.of
  <2>1. s \in Shares /\ s.table = op.of
    BY DEF Ops
  <2> QED BY <2>1, CodeLies
<1>2. n \in Nat \ {0} /\ f \in Nat \ {0} /\ c \in Nat /\ c + f <= n
  <2>1. n \in 1..Top /\ f \in 1..n /\ c \in 0..n - f /\ Top \in Nat
    <3>1. B \in Nat \ {0, 1} /\ n \in 1..Top /\ f \in 1..n /\ c \in 0..n - f
      BY <1>1 DEF RangeCoderAssumption
    <3> QED BY <3>1, Words
  <2> HIDE DEF n, f, c
  <2> QED BY <2>1
<1>3. r \in Nat \ {0} /\ c * r \in Nat /\ r * f \in Nat
  <2>1. a.range \div s.total \in Nat \ {0} /\ s.cum * (a.range \div s.total) \in Nat
        /\ (a.range \div s.total) * s.freq \in Nat \ {0}
    BY <1>1, ShareIs
  <2> QED BY <1>1, <2>1
<1>4. by = c * r /\ (c + f # n => width = r * f)
  BY <1>1 DEF By, Width, Part
<1>5. Target(d, n) = IF t < n THEN t ELSE n - 1
  BY DEF Target
<1> HIDE DEF by, width, r, c, f, n, code
<1>6. t \in Nat /\ t * r <= code
  <2>1. t \in Nat /\ (code % r) \in 0..r - 1 /\ code = r * t + (code % r)
    BY <1>1, <1>3, Parts
  <2> DEFINE m == code % r
  <2> HIDE DEF t
  <2>2. t * r \in Nat /\ r * t = t * r
    BY <1>3, <2>1
  <2> DEFINE tr == t * r
  <2>3. m \in Nat /\ tr \in Nat /\ code = tr + m
    BY <1>3, <2>1, <2>2
  <2> HIDE DEF m, tr
  <2>4. tr <= code
    BY <2>3
  <2> QED BY <2>1, <2>4 DEF tr
<1>7. c <= t
  <2> DEFINE x == c * r
  <2>1. x = r * c + 0 /\ x \in Nat /\ 0 \in 0..r - 1
    BY <1>2, <1>3
  <2>2. x <= code
    BY <1>1, <1>4
  <2> HIDE DEF x
  <2>3. x \div r = c
    BY <1>2, <1>3, <2>1, PartedOnce
  <2>4. x \div r <= code \div r
    BY <1>1, <1>3, <2>1, <2>2, QuotientGrows
  <2> QED BY <2>3, <2>4
<1>8. c + f # n => t < c + f
  <2> SUFFICES ASSUME c + f # n, c + f <= t PROVE FALSE
    BY <1>2, <1>6
  <2>1. (c + f) * r <= t * r /\ t * r \in Nat /\ (c + f) * r \in Nat
    <3>1. c + f \in Nat
      BY <1>2
    <3> DEFINE cf == c + f
    <3> HIDE DEF cf, t
    <3>2. cf * r <= t * r /\ cf * r \in Nat /\ t * r \in Nat
      BY <1>3, <1>6, <3>1, Grows DEF cf
    <3> QED BY <3>2 DEF cf
  <2>2. (c + f) * r = c * r + r * f
    BY <1>2, <1>3
  <2> DEFINE cr == c * r
             rf == r * f
             tr == t * r
  <2>3. cr + rf <= tr /\ tr <= code /\ code < cr + rf /\ cr \in Nat /\ rf \in Nat /\ tr \in Nat
    BY <1>1, <1>3, <1>4, <1>6, <2>1, <2>2
  <2> HIDE DEF cr, rf, tr
  <2> QED BY <1>1, <2>3
<1> HIDE DEF t
<1>9. c <= Target(d, n) /\ Target(d, n) < c + f
  BY <1>2, <1>5, <1>6, <1>7, <1>8
<1> QED BY <1>1, <1>9 DEF Found, n, c, f

\* No other share holds it.
LEMMA FoundOnce ==
  ASSUME RangeCoderAssumption, NEW s \in Shares, NEW u \in Shares, NEW table, NEW t \in Int,
         Found(s, table, t), Found(u, table, t)
  PROVE  s = u
<1>1. s.table = u.table /\ s.cum <= t /\ t < s.cum + s.freq /\ u.cum <= t /\ t < u.cum + u.freq
  BY DEF Found
<1>2. s = u \/ s.cum + s.freq <= u.cum \/ u.cum + u.freq <= s.cum
  BY <1>1 DEF RangeCoderAssumption
<1>3. s.cum \in Int /\ s.freq \in Int /\ u.cum \in Int /\ u.freq \in Int
  <2>1. B \in Nat \ {0, 1}
    BY DEF RangeCoderAssumption
  <2>2. Top \in Nat
    BY <2>1, Words
  <2>3. \A v \in Shares : v.total \in 1..Top /\ v.freq \in 1..v.total /\ v.cum \in 0..v.total - v.freq
    BY DEF RangeCoderAssumption
  <2>4. \A v \in Shares : v.cum \in Int /\ v.freq \in Int
    <3> SUFFICES ASSUME NEW v \in Shares PROVE v.cum \in Int /\ v.freq \in Int
      OBVIOUS
    <3> DEFINE n == v.total
               f == v.freq
               c == v.cum
    <3>1. n \in 1..Top /\ f \in 1..n /\ c \in 0..n - f
      BY <2>3
    <3> HIDE DEF n, f, c
    <3>2. c \in Int /\ f \in Int
      BY <2>2, <3>1
    <3> QED BY <3>2 DEF f, c
  <2> QED BY <2>4
<1> QED BY <1>1, <1>2, <1>3

\* Its share of the range is what the encoder took.
LEMMA ShareFollows ==
  ASSUME RangeCoderAssumption, enc.out \in Seq(0..B - 1), NEW a, Room(a), NEW op \in Ops, op.op = "share",
         Inside(enc.out, After(a, op)), NEW d, NEW seen, Follows(enc.out, d, a, seen)
  PROVE  DecodedOp(d, op).value = op.value /\ Follows(enc.out, DecodedOp(d, op).next, After(a, op), seen)
<1> DEFINE s == op.value
           r == d.range \div s.total
           m == Narrowed(a, op)
           g == Grown(m)
           h == Grown(g)
           by == By(a, op)
           width == Width(a, op)
           prob == Learnt(a, op)
           n == [d EXCEPT !.range = width, !.code = @ - by, !.prob = prob]
           z == [d EXCEPT !.code = @ - s.cum * r,
                          !.range = IF s.cum + s.freq = s.total THEN @ - r * s.cum ELSE r * s.freq]
<1>1. Inside(enc.out, m) /\ Follows(enc.out, n, m, seen)
  <2>1. Inside(enc.out, m)
    BY InsideAfter
  <2> QED BY <2>1, NarrowedFollows
<1>2. d \in DecType /\ d.range = a.range /\ d.prob = a.prob
  BY <1>1, CodeLies
<1>3. DecodedOp(d, op) = [next |-> Refilled(z), value |-> s]
  BY DEF DecodedOp, DecodedShare
<1>4. /\ by = s.cum * r /\ prob = d.prob
      /\ width = IF s.cum + s.freq = s.total THEN d.range - r * s.cum ELSE r * s.freq
  BY <1>2 DEF By, Width, Part, Learnt
<1>5. z = n
  <2> DEFINE y == n
             v == z
             c == d.code - by
  <2>1. y = [d EXCEPT !.range = width, !.code = c, !.prob = prob]
    BY Zenon
  <2>2. v = [d EXCEPT !.code = c, !.range = width]
    BY <1>4, Zenon
  <2> HIDE DEF y, v, c, width, prob, by
  <2>3. y = [range |-> width, code |-> c, pos |-> d.pos, prob |-> prob, seen |-> d.seen, status |-> d.status]
    BY <1>2, <2>1 DEF DecType
  <2>4. v = [range |-> width, code |-> c, pos |-> d.pos, prob |-> d.prob, seen |-> d.seen, status |-> d.status]
    BY <1>2, <2>2 DEF DecType
  <2> QED BY <1>4, <2>3, <2>4 DEF y, v
<1> HIDE DEF z, n
<1>6. DecodedOp(d, op).value = s /\ DecodedOp(d, op).next = RefilledOnce(RefilledOnce(RefilledOnce(n)))
  BY <1>3, <1>5 DEF Refilled
<1>7. After(a, op) = Grown(h)
  BY DEF After
<1>8. B \in Nat \ {0, 1} /\ m \in Mark /\ m.range \in 1..Max
  BY NarrowedMark DEF RangeCoderAssumption
<1>9. g \in Mark /\ g.range \in 1..Max
  BY <1>8, GrownIs
<1>10. h \in Mark /\ h.range \in 1..Max
  BY <1>8, <1>9, GrownIs
<1> HIDE DEF m
<1>11. Inside(enc.out, Grown(h))
  BY <1>7
<1>12. Inside(enc.out, Grown(g))
  BY <1>8, <1>10, <1>11, InsideGrown
<1>13. Inside(enc.out, Grown(m))
  BY <1>8, <1>9, <1>12, InsideGrown
<1>14. Follows(enc.out, RefilledOnce(n), g, seen)
  BY <1>1, <1>8, <1>13, OnceFollows
<1> HIDE DEF g
<1>15. Follows(enc.out, RefilledOnce(RefilledOnce(n)), h, seen)
  BY <1>8, <1>9, <1>12, <1>14, OnceFollows
<1> HIDE DEF h
<1>16. Follows(enc.out, RefilledOnce(RefilledOnce(RefilledOnce(n))), Grown(h), seen)
  BY <1>8, <1>10, <1>11, <1>15, OnceFollows
<1> QED BY <1>6, <1>7, <1>16

\* In one word.
LEMMA DecodedFollows ==
  ASSUME RangeCoderAssumption, enc.out \in Seq(0..B - 1), NEW a, Room(a), NEW op \in Ops,
         Inside(enc.out, After(a, op)), NEW d, NEW seen, Follows(enc.out, d, a, seen)
  PROVE  DecodedOp(d, op).value = op.value /\ Follows(enc.out, DecodedOp(d, op).next, After(a, op), seen)
<1>1. op.op = "bit" \/ op.op = "direct" \/ op.op = "share"
  BY DEF Ops
<1> QED BY <1>1, BitFollows, DirectFollows, ShareFollows
---------------------------------------------------------------------------
(* The marks of all the operations.                                        *)

Begin == [exact |-> 0, range |-> Max, prob |-> [c \in Contexts |-> ProbInit], shifts |-> 0]

Marks(row, ops) ==
  /\ row \in [0..Len(ops) -> Mark] /\ row[0] = Begin
  /\ \A n \in 1..Len(ops) : row[n] = After(row[n - 1], ops[n])

\* The first.
LEMMA BeginRoom ==
  ASSUME RangeCoderAssumption
  PROVE  Room(Begin)
<1> DEFINE q == ProbTotal \div 2
<1>1. B \in Nat \ {0, 1} /\ Divisor \in Nat \ {0, 1} /\ ProbTotal \in Nat /\ 2 * Divisor <= ProbTotal
  BY DEF RangeCoderAssumption
<1>2. Top \in Nat /\ Max \in Nat /\ Top <= Max
  BY <1>1, Words
<1>3. q \in Nat /\ 2 * q <= ProbTotal
  BY <1>1, HalfOf, Zenon
<1>4. Divisor <= q
  <2>1. Divisor = (2 * Divisor) \div 2
    <3>1. 2 * Divisor \in Nat /\ Divisor \in Nat /\ 2 \in Nat \ {0} /\ 0 \in 0..2 - 1 /\ 2 * Divisor = 2 * Divisor + 0
      BY <1>1
    <3> QED BY <3>1, PartedOnce
  <2>2. (2 * Divisor) \div 2 <= q
    <3>1. 2 * Divisor \in Nat /\ 2 \in Nat \ {0}
      BY <1>1
    <3> QED BY <1>1, <3>1, QuotientGrows, Zenon
  <2> HIDE DEF q
  <2> QED BY <1>1, <2>1, <2>2
<1> HIDE DEF q
<1>5. q \in Divisor - 1 .. ProbTotal - (Divisor - 1)
  BY <1>1, <1>3, <1>4
<1>6. Begin.prob = [c \in Contexts |-> q] /\ Begin.range = Max
  BY DEF Begin, ProbInit, q
<1>7. Begin \in Mark
  <2>1. Begin = [exact |-> 0, range |-> Max, prob |-> [c \in Contexts |-> q], shifts |-> 0]
    BY DEF Begin, ProbInit, q
  <2> QED BY <1>2, <1>3, <2>1 DEF Mark
<1>8. Likely(Begin.prob)
  BY <1>5, <1>6 DEF Likely
<1> QED BY <1>2, <1>6, <1>7, <1>8 DEF Room

\* All of them have room.
LEMMA MarksRoom ==
  ASSUME RangeCoderAssumption, NEW ops \in Seq(Ops), NEW row, Marks(row, ops)
  PROVE  \A n \in 0..Len(ops) : Room(row[n])
<1> DEFINE N == Len(ops)
           P == {n \in 0..N : Room(row[n])}
<1>1. N \in Nat /\ \A n \in 1..N : ops[n] \in Ops
  OBVIOUS
<1>2. row[0] = Begin /\ \A n \in 1..N : row[n] = After(row[n - 1], ops[n])
  BY DEF Marks
<1> HIDE DEF N
<1>3. 0 \in P
  BY <1>1, <1>2, BeginRoom
<1>4. ASSUME NEW n \in 1..N, n - 1 \in P PROVE n \in P
  <2>1. Room(row[n - 1]) /\ ops[n] \in Ops /\ n \in 0..N
    BY <1>1, <1>4
  <2>2. Room(After(row[n - 1], ops[n]))
    BY <2>1, AfterRoom
  <2> QED BY <1>2, <2>1, <2>2
<1>5. 0..N \subseteq P
  <2> HIDE DEF P
  <2> QED BY <1>1, <1>3, <1>4, UpTo
<1> QED BY <1>5 DEF N

\* One more.
LEMMA MarksGrow ==
  ASSUME RangeCoderAssumption, NEW ops \in Seq(Ops), NEW row, Marks(row, ops), NEW op \in Ops
  PROVE  \E more : Marks(more, Append(ops, op)) /\ more[Len(ops) + 1] = After(row[Len(ops)], op)
<1> DEFINE N == Len(ops)
           all == Append(ops, op)
           last == After(row[N], op)
           more == [n \in 0..N + 1 |-> IF n = N + 1 THEN last ELSE row[n]]
<1>1. N \in Nat /\ Len(all) = N + 1 /\ all[N + 1] = op /\ \A n \in 1..N : all[n] = ops[n]
  OBVIOUS
<1>2. row \in [0..N -> Mark] /\ row[0] = Begin /\ \A n \in 1..N : row[n] = After(row[n - 1], ops[n])
  BY DEF Marks
<1>3. last \in Mark
  <2>1. Room(row[N])
    BY <1>1, MarksRoom
  <2>2. Room(After(row[N], op))
    BY <2>1, AfterRoom
  <2> QED BY <2>2 DEF Room
<1> HIDE DEF all, last, N
<1>4. more \in [0..N + 1 -> Mark]
  BY <1>1, <1>2, <1>3
<1>5. more[0] = Begin /\ more[N + 1] = last
  BY <1>1, <1>2
<1>6. ASSUME NEW n \in 1..N + 1 PROVE more[n] = After(more[n - 1], all[n])
  <2>1. CASE n = N + 1
    <3>1. more[n] = last /\ more[n - 1] = row[N]
      BY <1>1, <2>1
    <3> QED BY <1>1, <2>1, <3>1 DEF last
  <2>2. CASE n # N + 1
    <3>1. n \in 1..N /\ n \in 0..N + 1 /\ n - 1 \in 0..N + 1 /\ n - 1 # N + 1
      BY <1>1, <2>2
    <3>2. more[n] = row[n] /\ more[n - 1] = row[n - 1] /\ all[n] = ops[n]
      BY <1>1, <2>2, <3>1
    <3> HIDE DEF more
    <3> QED BY <1>2, <3>1, <3>2
  <2> QED BY <2>1, <2>2
<1> HIDE DEF more
<1>7. Marks(more, all)
  BY <1>1, <1>4, <1>5, <1>6 DEF Marks
<1>8. more[N + 1] = After(row[N], op)
  BY <1>5 DEF last
<1> QED BY <1>7, <1>8 DEF all, N

\* What was written is inside all of them.
LEMMA AllInside ==
  ASSUME RangeCoderAssumption, NEW ops \in Seq(Ops), NEW row, Marks(row, ops), NEW f, Written(f, row[Len(ops)])
  PROVE  \A n \in 0..Len(ops) : Inside(f.out, row[n])
<1> DEFINE N == Len(ops)
           out == f.out
           P == {k \in 0..N : Inside(out, row[N - k])}
<1>1. N \in Nat /\ (\A n \in 1..N : ops[n] \in Ops) /\ \A n \in 0..N : Room(row[n])
  BY MarksRoom
<1>2. \A n \in 1..N : row[n] = After(row[n - 1], ops[n])
  BY DEF Marks
<1>3. out \in Seq(0..B - 1) /\ Number(out) = row[N].exact /\ Len(out) = row[N].shifts + 5
  BY DEF Written, EncType
<1>4. 0 \in P
  <2>1. Above(out, row[N]) = row[N].exact - row[N].exact
    BY <1>3 DEF Above, Number
  <2>2. row[N].exact \in Nat /\ row[N].range \in Top..Max /\ row[N].shifts \in Nat
    BY <1>1 DEF Room, Mark
  <2>3. Top \in Nat \ {0} /\ Max \in Nat
    <3>1. B \in Nat \ {0, 1}
      BY DEF RangeCoderAssumption
    <3> QED BY <3>1, Words
  <2>4. 0 \in 0..row[N].range - 1 /\ Above(out, row[N]) = 0
    <3> DEFINE x == row[N].exact
               r == row[N].range
    <3>1. x \in Nat /\ r \in Top..Max /\ Above(out, row[N]) = x - x
      BY <2>1, <2>2
    <3> HIDE DEF x, r
    <3>2. 0 \in 0..r - 1 /\ x - x = 0
      BY <2>3, <3>1
    <3> QED BY <3>1, <3>2 DEF r
  <2>5. row[N].shifts + 5 <= Len(out)
    BY <1>3, <2>2
  <2>6. N - 0 = N /\ 0 \in 0..N
    BY <1>1
  <2> QED BY <2>4, <2>5, <2>6 DEF Inside
<1> HIDE DEF N, out
<1>5. ASSUME NEW k \in 1..N, k - 1 \in P PROVE k \in P
  <2> DEFINE n == N - (k - 1)
  <2>1. n \in 1..N /\ n - 1 = N - k /\ n - 1 \in 0..N /\ k \in 0..N
    BY <1>1
  <2>2. Inside(out, row[n])
    BY <1>5
  <2> HIDE DEF n
  <2>3. Inside(out, After(row[n - 1], ops[n]))
    BY <1>2, <2>1, <2>2
  <2>4. Room(row[n - 1]) /\ ops[n] \in Ops
    BY <1>1, <2>1
  <2>5. Inside(out, row[n - 1])
    BY <1>3, <2>3, <2>4, InsideAfter
  <2> QED BY <2>1, <2>5
<1>6. 0..N \subseteq P
  <2> HIDE DEF P
  <2> QED BY <1>1, <1>4, <1>5, UpTo
<1>7. ASSUME NEW n \in 0..N PROVE Inside(out, row[n])
  <2>1. N - n \in 0..N /\ N - (N - n) = n
    BY <1>1
  <2>2. N - n \in P
    BY <1>6, <2>1
  <2>3. Inside(out, row[N - (N - n)])
    BY <2>2
  <2> QED BY <2>1, <2>3
<1> QED BY <1>7 DEF N, out
---------------------------------------------------------------------------
(* The coder's invariant.                                                  *)

\* The decoder before it starts.
Fresh(d) ==
  /\ d \in DecType /\ d.status = "new" /\ d.range = Max /\ d.prob = Begin.prob /\ d.seen = << >>

\* The encoder is at the last mark or has written it; the decoder is at the
\* mark of as many operations as it has decoded.
Kept(ops, e, d, row) ==
  /\ ops \in Seq(Ops) /\ Marks(row, ops)
  /\ \/ Views(e, row[Len(ops)]) /\ Fresh(d)
     \/ /\ e.status = "finished" /\ Written(e, row[Len(ops)])
        /\ \/ Fresh(d)
           \/ Len(d.seen) <= Len(ops) /\ Follows(e.out, d, row[Len(d.seen)], SubSeq(ops, 1, Len(d.seen)))
RangeInv == \E row : Kept(data, enc, dec, row)

\* It holds at first.
LEMMA RangeStarts ==
  ASSUME RangeCoderAssumption, RangeInit
  PROVE  RangeInv
<1> DEFINE row == [n \in 0..0 |-> Begin]
           probs == [c \in Contexts |-> ProbInit]
<1>1. B \in Nat \ {0, 1} /\ B \in Nat \ {0} /\ B \in Nat /\ B - 1 \in Nat /\ 0 \in 0..B - 1 /\ B - 1 \in 0..B - 1
      /\ B - 1 # 0
  BY DEF RangeCoderAssumption
<1>2. Max \in Nat /\ Top \in Nat /\ Max >= 1
  BY <1>1, Words
<1>3. Begin \in Mark /\ probs \in [Contexts -> Nat] /\ Begin.prob = probs /\ Begin.range = Max /\ Begin.exact = 0 /\ Begin.shifts = 0
  <2>1. Begin \in Mark
    BY BeginRoom DEF Room
  <2>2. Begin.prob = probs /\ Begin.range = Max /\ Begin.exact = 0 /\ Begin.shifts = 0
    BY DEF Begin
  <2>3. Begin.prob \in [Contexts -> Nat]
    BY <2>1 DEF Mark
  <2> QED BY <2>1, <2>2, <2>3
<1> HIDE DEF probs
<1>4. Len(data) = 0 /\ data \in Seq(Ops)
  BY DEF RangeInit
<1>5. Marks(row, data) /\ row[Len(data)] = Begin
  <2>1. row \in [0..0 -> Mark] /\ row[0] = Begin
    BY <1>3
  <2> HIDE DEF row
  <2> QED BY <1>4, <2>1 DEF Marks
<1>6. Fresh(dec)
  <2>1. dec = [range |-> Max, code |-> 0, pos |-> 1, prob |-> probs, seen |-> << >>, status |-> "new"]
    BY DEF RangeInit, probs
  <2>2. << >> \in Seq(Ops)
    OBVIOUS
  <2>3. dec \in DecType
    BY <1>2, <1>3, <2>1, <2>2 DEF DecType
  <2> QED BY <1>3, <2>1, <2>3 DEF Fresh
<1>7. Views(enc, Begin)
  <2>1. enc = [low |-> 0, range |-> Max, cache |-> 0, cacheSize |-> 1, prob |-> probs, out |-> << >>,
               exact |-> 0, status |-> "coding"]
    BY DEF RangeInit, probs
  <2>2. << >> \in Seq(0..B - 1)
    OBVIOUS
  <2>3. enc \in EncType
    BY <1>1, <1>2, <1>3, <2>1, <2>2 DEF EncType
  <2>4. enc.low = 0 /\ enc.range = Max /\ enc.cache = 0 /\ enc.cacheSize = 1 /\ enc.prob = probs /\ enc.out = << >>
        /\ enc.exact = 0 /\ enc.status = "coding"
    BY <2>1
  <2>5. Waiting(enc) = 0
    <3>1. Counted(<< >>, 0, 0, B - 1)
      BY <1>1, <2>2, RowNumber
    <3>2. Number(<< >>) = 0
      <4> DEFINE none == << >>
      <4>1. none \in Seq(Nat) /\ Len(none) = 0
        OBVIOUS
      <4> HIDE DEF none
      <4>2. Reads(none)[0] = 0
        BY <1>1, <4>1, ReadsIs
      <4>3. Number(none) = 0
        BY <4>1, <4>2 DEF Number
      <4> QED BY <4>3 DEF none
    <3>3. Number(Row(<< >>, 0, 0, B - 1)) = 0
      BY <1>1, <3>1, <3>2 DEF Counted
    <3>4. enc.cacheSize - 1 = 0
      BY <2>4
    <3> QED BY <2>4, <3>3, <3>4, Zenon DEF Waiting
  <2>6. Sound(enc, enc.range)
    <3>1. 0 * (Max + 1) + 0 = 0 /\ 0 + Max <= 2 * (Max + 1) /\ 0 + Max <= Max + 1
      BY <1>2
    <3> QED BY <2>4, <2>5, <3>1 DEF Sound
  <2>7. Held(enc) = 1
    BY <2>4 DEF Held
  <2> QED BY <1>3, <2>3, <2>4, <2>6, <2>7 DEF Views
<1>8. Kept(data, enc, dec, row)
  BY <1>4, <1>5, <1>6, <1>7 DEF Kept
<1> QED BY <1>8, Zenon DEF RangeInv

\* An operation is coded.
LEMMA EncodeKeeps ==
  ASSUME RangeCoderAssumption, NEW row, Kept(data, enc, dec, row), enc.status = "coding",
         NEW op \in Ops, enc' = EncodedOp(enc, op), data' = Append(data, op), dec' = dec
  PROVE  RangeInv'
<1> DEFINE a == row[Len(data)]
<1>1. data \in Seq(Ops) /\ Marks(row, data) /\ Views(enc, a) /\ Fresh(dec)
  BY DEF Kept
<1>2. Room(a)
  <2>1. Len(data) \in 0..Len(data)
    BY <1>1
  <2> QED BY <1>1, <2>1, MarksRoom
<1>3. Views(enc', After(a, op))
  BY <1>1, <1>2, EncodedViews
<1>4. PICK more : Marks(more, data') /\ more[Len(data) + 1] = After(a, op)
  BY <1>1, MarksGrow
<1>5. data' \in Seq(Ops) /\ Len(data') = Len(data) + 1
  BY <1>1
<1>6. Kept(data', enc', dec', more)
  BY <1>1, <1>3, <1>4, <1>5 DEF Kept
<1> QED BY <1>6, Zenon DEF RangeInv

\* The rest is written.
LEMMA FinishKeeps ==
  ASSUME RangeCoderAssumption, NEW row, Kept(data, enc, dec, row), Finish
  PROVE  RangeInv'
<1> DEFINE a == row[Len(data)]
           f == Finished(enc)
           g == [f EXCEPT !.status = "finished"]
<1>1. data \in Seq(Ops) /\ Marks(row, data) /\ Views(enc, a) /\ Fresh(dec) /\ enc' = g /\ data' = data /\ dec' = dec
  BY DEF Kept, Finish
<1>2. Room(a) /\ B \in Nat \ {0, 1}
  <2>1. Len(data) \in 0..Len(data)
    BY <1>1
  <2> QED BY <1>1, <2>1, MarksRoom DEF RangeCoderAssumption
<1>3. Written(f, a)
  <2>1. a \in Mark /\ a.range \in Nat \ {0}
    <3>1. Top \in Nat \ {0} /\ Max \in Nat
      BY <1>2, Words
    <3> QED BY <1>2, <3>1 DEF Room
  <2> HIDE DEF a
  <2> QED BY <1>1, <1>2, <2>1, FinishedIs
<1> HIDE DEF a, f
<1>4. f \in EncType
  BY <1>3 DEF Written
<1>5. g \in EncType /\ g.status = "finished" /\ g.low = f.low /\ g.range = f.range /\ g.cache = f.cache
      /\ g.cacheSize = f.cacheSize /\ g.prob = f.prob /\ g.out = f.out /\ g.exact = f.exact
  BY <1>4 DEF EncType
<1> HIDE DEF g
<1>6. Written(g, a)
  <2>1. Waiting(g) = Waiting(f)
    BY <1>5 DEF Waiting
  <2>2. Sound(g, 1)
    BY <1>3, <1>5, <2>1 DEF Sound, Written
  <2> QED BY <1>3, <1>5, <2>2 DEF Written
<1>7. Kept(data', enc', dec', row)
  BY <1>1, <1>5, <1>6 DEF Kept, a
<1> QED BY <1>7, Zenon DEF RangeInv

\* The number of the first bytes is the code.
LEMMA StartKeeps ==
  ASSUME RangeCoderAssumption, NEW row, Kept(data, enc, dec, row), Start
  PROVE  RangeInv'
<1> DEFINE out == enc.out
           a == row[0]
           b(i) == out[i]
           code == ((ByteAt(2) * B + ByteAt(3)) * B + ByteAt(4)) * B + ByteAt(5)
           d == [dec EXCEPT !.status = "decoding", !.pos = 6, !.code = code]
<1>1. /\ data \in Seq(Ops) /\ Marks(row, data) /\ enc.status = "finished" /\ Written(enc, row[Len(data)]) /\ dec.status = "new"
      /\ dec' = d /\ data' = data /\ enc' = enc
  BY DEF Kept, Start, Views
<1>2. Fresh(dec)
  BY <1>1 DEF Kept, Follows
<1>3. B \in Nat \ {0, 1} /\ B \in Nat \ {0} /\ Max \in Nat /\ Len(data) \in Nat /\ out \in Seq(0..B - 1) /\ Len(out) \in Nat
      /\ Top \in Nat /\ Max + 1 = B * Top
  <2>1. B \in Nat \ {0, 1}
    BY DEF RangeCoderAssumption
  <2>2. Max \in Nat /\ Top \in Nat /\ Max + 1 = B * Top
    BY <2>1, Words
  <2>3. out \in Seq(0..B - 1)
    BY <1>1 DEF Written, EncType
  <2> QED BY <1>1, <2>1, <2>2, <2>3
<1>4. a = Begin /\ a.exact = 0 /\ a.shifts = 0 /\ a.range = Max /\ a.prob = Begin.prob
  BY <1>1 DEF Marks, Begin
<1>5. Inside(out, a)
  <2>1. 0 \in 0..Len(data)
    BY <1>3
  <2> HIDE DEF a
  <2>2. \A n \in 0..Len(data) : Inside(enc.out, row[n])
    BY <1>1, AllInside
  <2> QED BY <2>1, <2>2 DEF a
<1> DEFINE five == Reads(out)[5]
<1>6. 5 <= Len(out) /\ five - 0 \in 0..Max - 1 /\ Above(out, a) = five - 0
  <2>1. 0 + 5 = 5
    OBVIOUS
  <2> QED BY <1>4, <1>5, <2>1 DEF Inside, Above
<1>7. five = code /\ code \in Nat
  <2>1. /\ Reads(out)[0] = 0
        /\ \A k \in 0..4 : Reads(out)[k] \in Nat /\ b(k + 1) \in 0..B - 1 /\ Reads(out)[k + 1] = Reads(out)[k] * B + b(k + 1)
    <3>1. \A k \in 0..4 : k \in Nat /\ k + 1 <= Len(out)
      BY <1>3, <1>6
    <3>2. out \in Seq(Nat)
      BY <1>3, BytesAreNumbers
    <3>3. Reads(out)[0] = 0
      BY <1>3, <3>2, ReadsIs
    <3> HIDE DEF out
    <3> QED BY <1>3, <3>1, <3>3, ByteRead
  <2> DEFINE r1 == Reads(out)[1]
             r2 == Reads(out)[2]
             r3 == Reads(out)[3]
             r4 == Reads(out)[4]
             b1 == b(1)
             b2 == b(2)
             b3 == b(3)
             b4 == b(4)
             b5 == b(5)
  <2>2. /\ r1 = 0 * B + b1 /\ r2 = r1 * B + b2 /\ r3 = r2 * B + b3 /\ r4 = r3 * B + b4 /\ five = r4 * B + b5
        /\ b1 \in Nat /\ b2 \in Nat /\ b3 \in Nat /\ b4 \in Nat /\ b5 \in Nat
    <3>1. 0 \in 0..4 /\ 1 \in 0..4 /\ 2 \in 0..4 /\ 3 \in 0..4 /\ 4 \in 0..4
          /\ 0 + 1 = 1 /\ 1 + 1 = 2 /\ 2 + 1 = 3 /\ 3 + 1 = 4 /\ 4 + 1 = 5
      OBVIOUS
    <3>2. \A x \in 0..B - 1 : x \in Nat
      BY <1>3
    <3> HIDE DEF b
    <3> QED BY <2>1, <3>1, <3>2, Zenon
  <2>3. code = ((b2 * B + b3) * B + b4) * B + b5
    <3>1. 2 <= Len(out) /\ 3 <= Len(out) /\ 4 <= Len(out) /\ 5 <= Len(out)
      BY <1>3, <1>6
    <3>2. ByteAt(2) = b2 /\ ByteAt(3) = b3 /\ ByteAt(4) = b4 /\ ByteAt(5) = b5
      BY <3>1, Zenon DEF ByteAt
    <3> QED BY <3>2, Zenon
  <2>4. Top = B * (B * B)
    <3>1. Pow[0] = 1 /\ Pow[1] = B * Pow[1 - 1] /\ Pow[2] = B * Pow[2 - 1] /\ Pow[3] = B * Pow[3 - 1]
      BY <1>3, Powers
    <3>2. 1 - 1 = 0 /\ 2 - 1 = 1 /\ 3 - 1 = 2 /\ B * 1 = B
      BY <1>3
    <3> QED BY <3>1, <3>2 DEF Top
  <2> HIDE DEF b, out, b1, b2, b3, b4, b5, r1, r2, r3, r4, code, five
  <2>5. code \in Nat
    BY <1>3, <2>2, <2>3
  <2>6. five = b1 * (Max + 1) + code
    <3>1. r1 = b1
      BY <1>3, <2>2
    <3>2. r2 = b1 * B + b2 /\ r3 = r2 * B + b3 /\ r4 = r3 * B + b4 /\ five = r4 * B + b5
      BY <2>2, <3>1
    <3>3. five = (((b1 * B + b2) * B + b3) * B + b4) * B + b5
      BY <3>2
    <3>4. (((b1 * B + b2) * B + b3) * B + b4) * B + b5 = b1 * (B * (B * (B * B))) + (((b2 * B + b3) * B + b4) * B + b5)
      BY <1>3, <2>2
    <3> QED BY <1>3, <2>3, <2>4, <3>3, <3>4
  <2>7. b1 = 0
    <3> SUFFICES ASSUME b1 # 0 PROVE FALSE
      OBVIOUS
    <3> DEFINE w == Max + 1
               bw == b1 * w
    <3>1. w \in Nat /\ 1 <= b1
      BY <1>3, <2>2
    <3>2. 1 * w <= bw /\ bw \in Nat /\ 1 * w = w
      BY <2>2, <3>1, Grows
    <3>3. five = bw + code
      BY <2>6
    <3> HIDE DEF bw
    <3>4. five - 0 < Max
      BY <1>3, <1>6, <2>5, <3>2, <3>3
    <3> QED BY <1>3, <2>5, <3>2, <3>3, <3>4
  <2>8. five = code
    <3>1. 0 * (Max + 1) = 0
      BY <1>3
    <3> QED BY <2>5, <2>6, <2>7, <3>1
  <2> QED BY <2>5, <2>8
<1> HIDE DEF code, five
<1>8. /\ d \in DecType /\ d.range = Max /\ d.prob = Begin.prob /\ d.pos = 6 /\ d.code = code /\ d.seen = << >>
      /\ d.status = "decoding"
  <2>1. dec \in DecType /\ dec.range = Max /\ dec.prob = Begin.prob /\ dec.seen = << >>
    BY <1>2 DEF Fresh
  <2> QED BY <1>7, <2>1 DEF DecType
<1> HIDE DEF d
<1>9. Follows(out, d, a, SubSeq(data, 1, 0))
  <2>1. SubSeq(data, 1, 0) = << >>
    OBVIOUS
  <2>2. Above(out, a) = code
    BY <1>6, <1>7
  <2>3. a.shifts + 6 = 6 /\ a.range = Max /\ a.prob = Begin.prob
    BY <1>4
  <2> HIDE DEF a, out
  <2> QED BY <1>8, <2>1, <2>2, <2>3 DEF Follows
<1>10. Len(d.seen) = 0 /\ 0 <= Len(data)
  BY <1>3, <1>8
<1>11. Kept(data', enc', dec', row)
  BY <1>1, <1>9, <1>10 DEF Kept
<1> QED BY <1>11, Zenon DEF RangeInv

\* An operation is decoded.
LEMMA DecodeKeeps ==
  ASSUME RangeCoderAssumption, NEW row, Kept(data, enc, dec, row), Decoding, NEW r,
         r = DecodedOp(dec, Op), Decoded(r)
  PROVE  RangeInv'
<1> DEFINE n == Len(dec.seen)
           a == row[n]
           op == Op
           seen == SubSeq(data, 1, n)
           d == [r.next EXCEPT !.seen = Append(@, [op EXCEPT !.value = r.value])]
<1>1. /\ data \in Seq(Ops) /\ Marks(row, data) /\ enc.status = "finished" /\ Written(enc, row[Len(data)])
      /\ n <= Len(data) /\ Follows(enc.out, dec, a, seen) /\ dec.status = "decoding"
      /\ dec' = d /\ data' = data /\ enc' = enc /\ n < Len(data)
  BY DEF Kept, Decoding, Decoded, Views, Fresh
<1>2. n \in Nat /\ n \in 0..Len(data) /\ n + 1 \in 0..Len(data) /\ n + 1 \in 1..Len(data) /\ (n + 1) - 1 = n /\ op = data[n + 1]
      /\ op \in Ops
  <2>1. dec.seen \in Seq(Ops)
    BY <1>1 DEF Follows, DecType
  <2>2. n \in Nat /\ Len(data) \in Nat
    BY <1>1, <2>1
  <2>3. n + 1 \in 1..Len(data)
    BY <1>1, <2>2
  <2>4. op = data[n + 1]
    BY DEF Op
  <2>5. op \in Ops
    BY <1>1, <2>3, <2>4
  <2> QED BY <1>1, <2>2, <2>3, <2>4, <2>5
<1>3. Room(a) /\ Inside(enc.out, row[n + 1]) /\ row[n + 1] = After(a, op) /\ enc.out \in Seq(0..B - 1)
  <2>1. Room(a) /\ Inside(enc.out, row[n + 1])
    <3> HIDE DEF n
    <3> QED BY <1>1, <1>2, MarksRoom, AllInside
  <2>2. row[n + 1] = After(row[(n + 1) - 1], data[n + 1])
    BY <1>1, <1>2 DEF Marks
  <2>3. enc.out \in Seq(0..B - 1)
    BY <1>1 DEF Written, EncType
  <2> QED BY <1>2, <2>1, <2>2, <2>3
<1> HIDE DEF n, a, op, seen
<1>4. r.value = op.value /\ Follows(enc.out, r.next, row[n + 1], seen)
  BY <1>1, <1>2, <1>3, DecodedFollows DEF op
<1>5. [op EXCEPT !.value = r.value] = op
  <2>1. DOMAIN op = {"op", "of", "value"} \/ DOMAIN op = {"op", "value"}
    BY <1>2 DEF Ops
  <2>2. op = [i \in DOMAIN op |-> op[i]]
    BY <1>2 DEF Ops
  <2> QED BY <1>4, <2>1, <2>2
<1> DEFINE x == r.next
           more == Append(seen, op)
<1>6. x \in DecType /\ x.seen = seen /\ x.status = "decoding"
  BY <1>4 DEF Follows
<1>7. d = [x EXCEPT !.seen = more]
  BY <1>5, <1>6
<1>8. more = SubSeq(data, 1, n + 1) /\ Len(more) = n + 1 /\ more \in Seq(Ops)
  <2>1. SubSeq(data, 1, n + 1) = Append(SubSeq(data, 1, n), data[n + 1])
    BY <1>1, <1>2
  <2>2. seen \in Seq(Ops) /\ Len(seen) = n
    BY <1>1, <1>2 DEF seen
  <2> QED BY <1>2, <2>1, <2>2 DEF seen
<1> HIDE DEF x, more, d
<1>9. /\ d \in DecType /\ d.seen = more /\ d.range = x.range /\ d.code = x.code /\ d.pos = x.pos /\ d.prob = x.prob
      /\ d.status = x.status
  BY <1>6, <1>7, <1>8 DEF DecType
<1>10. Follows(enc.out, d, row[n + 1], more)
  <2>1. Follows(enc.out, x, row[n + 1], seen)
    BY <1>4 DEF x
  <2> QED BY <1>9, <2>1 DEF Follows
<1>11. Len(d.seen) = n + 1 /\ n + 1 <= Len(data)
  BY <1>2, <1>8, <1>9
<1>12. Kept(data', enc', dec', row)
  BY <1>1, <1>8, <1>10, <1>11 DEF Kept
<1> QED BY <1>12, Zenon DEF RangeInv
\* A share is of its table.
LEMMA ShareOf ==
  ASSUME NEW op \in Ops, op.op = "share"
  PROVE  op.value \in Shares /\ op.value.table = op.of
BY DEF Ops

\* The share that is found is the one that was coded.
LEMMA OnlyFound ==
  ASSUME RangeCoderAssumption, NEW row, Kept(data, enc, dec, row), Decoding, Op.op = "share"
  PROVE  /\ Found(Op.value, Op.of, Target(dec, Op.value.total))
         /\ \A s \in Shares : Found(s, Op.of, Target(dec, s.total)) => s = Op.value
<1> DEFINE n == Len(dec.seen)
           a == row[n]
           op == Op
           t == Target(dec, op.value.total)
<1>1. /\ data \in Seq(Ops) /\ Marks(row, data) /\ Written(enc, row[Len(data)])
      /\ Follows(enc.out, dec, a, SubSeq(data, 1, n)) /\ n < Len(data)
  BY DEF Kept, Decoding, Views, Fresh
<1>2. n \in Nat /\ n \in 0..Len(data) /\ n + 1 \in 0..Len(data) /\ n + 1 \in 1..Len(data) /\ (n + 1) - 1 = n /\ op = data[n + 1]
      /\ op \in Ops
  <2>1. dec.seen \in Seq(Ops)
    BY <1>1 DEF Follows, DecType
  <2>2. n \in Nat /\ Len(data) \in Nat
    BY <1>1, <2>1
  <2>3. n + 1 \in 1..Len(data)
    BY <1>1, <2>2
  <2>4. op = data[n + 1]
    BY DEF Op
  <2>5. op \in Ops
    BY <1>1, <2>3, <2>4
  <2> QED BY <1>1, <2>2, <2>3, <2>4, <2>5
<1>3. Room(a) /\ Inside(enc.out, After(a, op)) /\ enc.out \in Seq(0..B - 1)
  <2>1. Room(a) /\ Inside(enc.out, row[n + 1])
    <3> HIDE DEF n
    <3> QED BY <1>1, <1>2, MarksRoom, AllInside
  <2>2. row[n + 1] = After(row[(n + 1) - 1], data[n + 1])
    BY <1>1, <1>2 DEF Marks
  <2>3. enc.out \in Seq(0..B - 1)
    BY <1>1 DEF Written, EncType
  <2> QED BY <1>2, <2>1, <2>2, <2>3
<1> HIDE DEF n, a, op
<1>4. op.op = "share"
  BY DEF op
<1>5. Inside(enc.out, Narrowed(a, op))
  BY <1>2, <1>3, InsideAfter
<1>6. Found(op.value, op.of, t)
  BY <1>1, <1>2, <1>3, <1>4, <1>5, ShareFound
<1>7. op.value \in Shares /\ op.value.table = op.of
  BY <1>2, <1>4, ShareOf
<1>8. t \in Int
  <2> DEFINE s == op.value
             r == dec.range \div s.total
  <2>1. dec.range = a.range /\ a.range \in Top..Max /\ dec.code \in Nat
    BY <1>1, <1>2, <1>3, <1>5, CodeLies
  <2>2. a.range \div s.total \in Nat \ {0} /\ s.total \in Nat \ {0}
    BY <1>7, <2>1, ShareIs
  <2>3. r \in Nat \ {0}
    BY <2>1, <2>2
  <2> HIDE DEF r, s
  <2>4. dec.code \div r \in Nat
    BY <2>1, <2>3, QuotientType
  <2> QED BY <2>2, <2>4 DEF Target, r, s
<1>9. ASSUME NEW s \in Shares, Found(s, op.of, Target(dec, s.total)) PROVE s = op.value
  <2>1. s.table = op.value.table
    BY <1>7, <1>9 DEF Found
  <2>2. s.total = op.value.total
    BY <1>7, <2>1 DEF RangeCoderAssumption
  <2>3. Found(s, op.of, t)
    BY <1>9, <2>2
  <2> HIDE DEF t
  <2> QED BY <1>6, <1>7, <1>8, <2>3, FoundOnce
<1> QED BY <1>6, <1>9 DEF op

\* Every step keeps it.
LEMMA RangeKeeps ==
  ASSUME RangeCoderAssumption, RangeInv, [RangeNext]_coderVars
  PROVE  RangeInv'
<1>1. PICK row : Kept(data, enc, dec, row)
  BY Zenon DEF RangeInv
<1>2. CASE EncodeBit
  <2>1. PICK c \in Contexts, b \in {0, 1} :
          Encoding /\ Code([op |-> "bit", of |-> c, value |-> b], EncodedBit(enc, c, b))
    BY <1>2 DEF EncodeBit
  <2> DEFINE op == [op |-> "bit", of |-> c, value |-> b]
  <2>2. op \in Ops /\ op.op = "bit" /\ op.of = c /\ op.value = b
    BY DEF Ops
  <2> HIDE DEF op
  <2>3. enc' = EncodedOp(enc, op) /\ data' = Append(data, op) /\ dec' = dec /\ enc.status = "coding"
    BY <2>1, <2>2 DEF Code, EncodedOp, Encoding, op
  <2> QED BY <1>1, <2>2, <2>3, EncodeKeeps
<1>3. CASE EncodeDirect
  <2>1. PICK b \in {0, 1} : Encoding /\ Code([op |-> "direct", value |-> b], EncodedDirect(enc, b))
    BY <1>3 DEF EncodeDirect
  <2> DEFINE op == [op |-> "direct", value |-> b]
  <2>2. op \in Ops /\ op.op = "direct" /\ op.value = b
    BY DEF Ops
  <2> HIDE DEF op
  <2>3. enc' = EncodedOp(enc, op) /\ data' = Append(data, op) /\ dec' = dec /\ enc.status = "coding"
    BY <2>1, <2>2 DEF Code, EncodedOp, Encoding, op
  <2> QED BY <1>1, <2>2, <2>3, EncodeKeeps
<1>4. CASE EncodeFreq
  <2>1. PICK s \in Shares : Encoding /\ Code([op |-> "share", of |-> s.table, value |-> s], EncodedShare(enc, s))
    BY <1>4 DEF EncodeFreq
  <2> DEFINE op == [op |-> "share", of |-> s.table, value |-> s]
  <2>2. op \in Ops /\ op.op = "share" /\ op.value = s
    BY DEF Ops
  <2> HIDE DEF op
  <2>3. enc' = EncodedOp(enc, op) /\ data' = Append(data, op) /\ dec' = dec /\ enc.status = "coding"
    BY <2>1, <2>2 DEF Code, EncodedOp, Encoding, op
  <2> QED BY <1>1, <2>2, <2>3, EncodeKeeps
<1>5. CASE Finish
  BY <1>1, <1>5, FinishKeeps
<1>6. CASE Start
  BY <1>1, <1>6, StartKeeps
<1>7. CASE DecodeBit
  <2>1. Decoding /\ Op.op = "bit" /\ Decoded(DecodedBit(dec, Op.of))
    BY <1>7 DEF DecodeBit
  <2>2. DecodedBit(dec, Op.of) = DecodedOp(dec, Op)
    BY <2>1, Zenon DEF DecodedOp
  <2> QED BY <1>1, <2>1, <2>2, DecodeKeeps
<1>8. CASE DecodeDirect
  <2>1. Decoding /\ Op.op = "direct" /\ Decoded(DecodedDirect(dec))
    BY <1>8 DEF DecodeDirect
  <2>2. DecodedDirect(dec) = DecodedOp(dec, Op)
    <3>1. Op.op # "bit"
      BY <2>1
    <3> QED BY <2>1, <3>1, Zenon DEF DecodedOp
  <2> QED BY <1>1, <2>1, <2>2, DecodeKeeps
<1>9. CASE DecodeFreq
  <2>1. Decoding /\ Op.op = "share"
    BY <1>9 DEF DecodeFreq
  <2>2. PICK s \in Shares : Found(s, Op.of, Target(dec, s.total)) /\ Decoded([next |-> DecodedShare(dec, s), value |-> s])
    BY <1>9 DEF DecodeFreq
  <2>3. s = Op.value
    BY <1>1, <2>1, <2>2, OnlyFound
  <2>4. [next |-> DecodedShare(dec, s), value |-> s] = DecodedOp(dec, Op)
    <3>1. Op.op # "bit" /\ Op.op # "direct"
      BY <2>1
    <3> QED BY <2>3, <3>1, Zenon DEF DecodedOp
  <2> QED BY <1>1, <2>1, <2>2, <2>4, DecodeKeeps
<1>10. CASE UNCHANGED coderVars
  <2>1. data' = data /\ enc' = enc /\ dec' = dec
    BY <1>10 DEF coderVars
  <2>2. Kept(data', enc', dec', row)
    BY <1>1, <2>1
  <2> QED BY <2>2, Zenon DEF RangeInv
<1> QED BY <1>2, <1>3, <1>4, <1>5, <1>6, <1>7, <1>8, <1>9, <1>10 DEF RangeNext

\* What it promises.
LEMMA RangePromises ==
  ASSUME RangeCoderAssumption, RangeInv
  PROVE  CarriesKept /\ RoomLeft /\ DecodesWhatWasCoded
<1>1. PICK row : Kept(data, enc, dec, row)
  BY Zenon DEF RangeInv
<1> DEFINE a == row[Len(data)]
           n == Len(dec.seen)
<1>2. B \in Nat \ {0, 1} /\ Pow[4] = Max + 1 /\ Max \in Nat /\ Top \in Nat /\ Top <= Max
  <2>1. B \in Nat \ {0, 1}
    BY DEF RangeCoderAssumption
  <2> QED BY <2>1, Words
<1>3. data \in Seq(Ops) /\ Marks(row, data) /\ Len(data) \in Nat /\ \A k \in 0..Len(data) : Room(row[k])
  <2>1. data \in Seq(Ops) /\ Marks(row, data)
    BY <1>1 DEF Kept
  <2> QED BY <2>1, MarksRoom
<1>4. Room(a)
  BY <1>3
<1>5. \E r : Sound(enc, r)
  BY <1>1, Zenon DEF Kept, Views, Written
<1>6. CarriesKept
  <2>1. Waiting(enc) * (Max + 1) + enc.low = enc.exact
    BY <1>5 DEF Sound
  <2> QED BY <1>2, <2>1 DEF CarriesKept, Waiting, Row
<1>7. enc.range = a.range /\ enc.prob = a.prob
  BY <1>1 DEF Kept, Views, Written
<1>8. Fresh(dec) \/ /\ n <= Len(data) /\ enc.status = "finished" /\ Written(enc, a)
                    /\ Follows(enc.out, dec, row[n], SubSeq(data, 1, n))
  BY <1>1, Zenon DEF Kept
<1>9. Fresh(dec) \/ n \in 0..Len(data)
  <2>1. ASSUME ~Fresh(dec) PROVE n \in 0..Len(data)
    <3>1. n <= Len(data) /\ dec.seen \in Seq(Ops)
      BY <1>8, <2>1 DEF Follows, DecType
    <3> QED BY <1>3, <3>1
  <2> QED BY <2>1
<1> HIDE DEF a, n
<1>10. RoomLeft
  <2>1. enc.range \in Top..Max
    BY <1>4, <1>7 DEF Room
  <2>2. dec.range \in Top..Max
    <3>1. CASE Fresh(dec)
      BY <1>2, <3>1 DEF Fresh
    <3>2. CASE ~Fresh(dec)
      <4>1. Room(row[n]) /\ dec.range = row[n].range
        BY <1>3, <1>8, <1>9, <3>2 DEF Follows
      <4> QED BY <4>1 DEF Room
    <3> QED BY <3>1, <3>2
  <2>3. \A c \in Contexts : enc.prob[c] \in 1..ProbTotal - 1
    <3>1. \A c \in Contexts : enc.prob[c] \in Divisor - 1 .. ProbTotal - (Divisor - 1)
      BY <1>4, <1>7 DEF Room, Likely
    <3>2. Divisor \in Nat \ {0, 1} /\ ProbTotal \in Nat
      BY DEF RangeCoderAssumption
    <3>3. \A x \in Divisor - 1 .. ProbTotal - (Divisor - 1) : x \in 1..ProbTotal - 1
      BY <3>2
    <3> QED BY <3>1, <3>3
  <2> QED BY <2>1, <2>2, <2>3 DEF RoomLeft
<1>11. DecodesWhatWasCoded
  <2>1. CASE Fresh(dec)
    <3>1. dec.seen = << >> /\ dec.status = "new"
      BY <2>1 DEF Fresh
    <3>2. SubSeq(data, 1, 0) = << >> /\ Len(<< >>) = 0
      BY <1>3
    <3> QED BY <3>1, <3>2 DEF DecodesWhatWasCoded, Decoding
  <2>2. CASE ~Fresh(dec)
    <3>1. /\ n \in 0..Len(data) /\ Written(enc, a) /\ Follows(enc.out, dec, row[n], SubSeq(data, 1, n))
          /\ enc.out \in Seq(0..B - 1) /\ Room(row[n])
      BY <1>3, <1>8, <1>9, <2>2 DEF Written, EncType
    <3>2. \A k \in 0..Len(data) : Inside(enc.out, row[k])
      <4>1. Written(enc, row[Len(data)])
        BY <3>1 DEF a
      <4> QED BY <1>3, <4>1, AllInside
    <3>3. dec.seen = SubSeq(data, 1, n)
      BY <3>1 DEF Follows
    <3>4. dec.pos <= Len(enc.out) + 1 /\ dec.code < dec.range
      <4>1. Inside(enc.out, row[n]) /\ row[n].shifts \in Nat /\ row[n].range \in Nat /\ Len(enc.out) \in Nat
        BY <3>1, <3>2 DEF Room, Mark
      <4>2. dec.pos = row[n].shifts + 6 /\ dec.code = Above(enc.out, row[n]) /\ dec.range = row[n].range /\ dec.code \in Nat
        BY <3>1 DEF Follows, DecType
      <4> DEFINE k == row[n].shifts
                 r == row[n].range
                 l == Len(enc.out)
                 x == Above(enc.out, row[n])
      <4>3. k \in Nat /\ r \in Nat /\ l \in Nat /\ k + 5 <= l /\ x \in 0..r - 1
        BY <4>1 DEF Inside
      <4> HIDE DEF k, r, l, x
      <4>4. k + 6 <= l + 1 /\ x < r
        BY <4>3
      <4> QED BY <4>2, <4>4 DEF k, r, l, x
    <3>5. ASSUME Decoding, Op.op = "share" PROVE Found(Op.value, Op.of, Target(dec, Op.value.total))
      BY <1>1, <3>5, OnlyFound
    <3> QED BY <3>3, <3>4, <3>5 DEF DecodesWhatWasCoded, n
  <2> QED BY <2>1, <2>2
<1> QED BY <1>6, <1>10, <1>11

---------------------------------------------------------------------------
(* The coder without a carry.                                              *)

\* The middle leaves a value for either bit.
LEMMA MidBetween ==
  ASSUME Scale \in Nat \ {0}, NEW p \in 1..Scale - 1, NEW x1 \in Nat, NEW x2 \in Nat, x1 < x2
  PROVE  Mid(x1, x2, p) \in x1..x2 - 1
<1> DEFINE d == x2 - x1
           q == (d * p) \div Scale
<1>1. d \in Nat \ {0} /\ p \in Nat /\ p < Scale /\ Scale \in Nat
  OBVIOUS
<1> HIDE DEF d
<1>2. d * p \in Nat /\ d * p < Scale * d
  <2>1. d * p + d <= d * Scale /\ d * p \in Nat /\ d * Scale \in Nat
    BY <1>1, Multiples
  <2>2. d * Scale = Scale * d
    BY <1>1
  <2> QED BY <1>1, <2>1, <2>2
<1>3. q \in Nat /\ \E s \in 0..Scale - 1 : d * p = Scale * q + s
  <2> DEFINE x == d * p
  <2>1. x \in Nat
    BY <1>2
  <2> HIDE DEF x
  <2>2. /\ x \div Scale \in Nat /\ x % Scale \in 0..Scale - 1 /\ x = Scale * (x \div Scale) + (x % Scale)
    BY <2>1, Parts
  <2>3. q = x \div Scale
    BY DEF x
  <2> HIDE DEF q
  <2> DEFINE s == x % Scale
  <2>4. q \in Nat /\ s \in 0..Scale - 1 /\ x = Scale * q + s
    BY <2>2, <2>3
  <2> HIDE DEF s
  <2> QED BY <2>4 DEF x
<1> HIDE DEF q
<1>4. q < d
  <2>1. ~(d < q)
    <3> SUFFICES ASSUME d < q PROVE FALSE
      OBVIOUS
    <3>1. Scale * d + Scale <= Scale * q /\ Scale * d \in Nat /\ Scale * q \in Nat
      BY <1>1, <1>3, Multiples
    <3> QED BY <1>1, <1>2, <1>3, <3>1
  <2>2. d # q
    <3>1. Scale * d \in Nat
      BY <1>1
    <3> QED BY <1>2, <1>3, <3>1
  <2> QED BY <1>1, <1>3, <2>1, <2>2
<1>5. Mid(x1, x2, p) = x1 + q
  BY DEF Mid, q, d
<1> QED BY <1>3, <1>4, <1>5 DEF d

\* Two bounds share that many bytes.
LEMMA SharedIs ==
  ASSUME NEW x1, NEW x2
  PROVE  /\ Shared(x1, x2) \in 0..4
         /\ \A j \in 1..Shared(x1, x2) : x1 \div Pow[4 - j] = x2 \div Pow[4 - j]
         /\ Shared(x1, x2) < 4 => x1 \div Pow[3 - Shared(x1, x2)] # x2 \div Pow[3 - Shared(x1, x2)]
<1> DEFINE Ends(k) == /\ \A j \in 1..k : x1 \div Pow[4 - j] = x2 \div Pow[4 - j]
                      /\ k < 4 => x1 \div Pow[3 - k] # x2 \div Pow[3 - k]
           differ == {j \in 1..4 : x1 \div Pow[4 - j] # x2 \div Pow[4 - j]}
<1>1. \E k \in 0..4 : Ends(k)
  <2>1. CASE differ = {}
    BY <2>1
  <2>2. CASE differ # {}
    <3>1. differ \subseteq Nat
      OBVIOUS
    <3>2. PICK m \in differ : \A y \in differ : m <= y
      <4> HIDE DEF differ
      <4> QED BY <2>2, <3>1, LeastIsLeast
    <3>3. m - 1 \in 0..3 /\ 3 - (m - 1) = 4 - m /\ m \in 1..4
      BY <3>2
    <3>4. \A j \in 1..m - 1 : j \in 1..4 /\ ~(m <= j)
      BY <3>3
    <3>5. \A j \in 1..m - 1 : x1 \div Pow[4 - j] = x2 \div Pow[4 - j]
      BY <3>2, <3>4
    <3>6. x1 \div Pow[4 - m] # x2 \div Pow[4 - m]
      BY <3>2
    <3>7. Ends(m - 1)
      BY <3>3, <3>5, <3>6
    <3> QED BY <3>3, <3>7
  <2> QED BY <2>1, <2>2
<1>2. Shared(x1, x2) = CHOOSE k \in 0..4 : Ends(k)
  BY DEF Shared
<1>3. Shared(x1, x2) \in 0..4 /\ Ends(Shared(x1, x2))
  <2> HIDE DEF Ends
  <2> QED BY <1>1, <1>2
<1> QED BY <1>3

\* The powers of k bytes and of the others make up the whole.
LEMMA PowersMeet ==
  ASSUME B \in Nat \ {0}, NEW k \in 0..3
  PROVE  /\ Pow[4 - k] = B * Pow[3 - k] /\ Pow[4 - k] \in Nat \ {0} /\ Pow[3 - k] \in Nat \ {0} /\ Pow[k] \in Nat \ {0}
         /\ Pow[3 - k] * Pow[k] = Top /\ Pow[4 - k] * Pow[k] = Max + 1
<1>1. /\ Pow[0] = 1 /\ Pow[1] = B * Pow[0] /\ Pow[2] = B * Pow[1] /\ Pow[3] = B * Pow[2] /\ Pow[4] = B * Pow[3]
      /\ \A j \in 0..4 : Pow[j] \in Nat \ {0}
  <2>1. /\ Pow[0] = 1 /\ \A j \in 1..4 : Pow[j] = B * Pow[j - 1]
        /\ \A j \in 0..4 : Pow[j] \in Nat \ {0}
    BY Powers
  <2>2. Pow[1] = B * Pow[1 - 1] /\ Pow[2] = B * Pow[2 - 1] /\ Pow[3] = B * Pow[3 - 1] /\ Pow[4] = B * Pow[4 - 1]
    BY <2>1
  <2> QED BY <2>1, <2>2
<1>2. Pow[4 - k] = B * Pow[3 - k] /\ Pow[4 - k] \in Nat \ {0} /\ Pow[3 - k] \in Nat \ {0} /\ Pow[k] \in Nat \ {0}
  <2>1. 4 - k \in 1..4 /\ (4 - k) - 1 = 3 - k /\ 4 - k \in 0..4 /\ 3 - k \in 0..4 /\ k \in 0..4
    OBVIOUS
  <2> QED BY <2>1, Powers
<1>3. Pow[3 - k] * Pow[k] = Pow[3]
  <2>1. CASE k = 0 \/ k = 3
    BY <1>1, <2>1
  <2>2. CASE k = 1 \/ k = 2
    <3>1. Pow[1] = B
      BY <1>1
    <3>2. Pow[2] * Pow[1] = B * Pow[2] /\ Pow[1] * Pow[2] = B * Pow[2]
      BY <1>1, <3>1
    <3> QED BY <1>1, <2>2, <3>2
  <2> QED BY <2>1, <2>2
<1>4. Pow[4 - k] * Pow[k] = Pow[4]
  <2>1. (B * Pow[3 - k]) * Pow[k] = B * (Pow[3 - k] * Pow[k])
    BY <1>2
  <2> QED BY <1>1, <1>2, <1>3, <2>1
<1> QED BY <1>1, <1>2, <1>3, <1>4 DEF Top, Max

\* Shifting a bound by k bytes brings the next byte to the top, whatever is
\* shifted in.
LEMMA ShiftIs ==
  ASSUME B \in Nat \ {0}, NEW k \in 0..3, NEW x \in Nat, NEW c \in 0..Pow[k] - 1
  PROVE  /\ Wide(x * Pow[k]) + c \in 0..Max
         /\ TopByte(Wide(x * Pow[k]) + c) \in Nat
         /\ x \div Pow[3 - k] = B * (x \div Pow[4 - k]) + TopByte(Wide(x * Pow[k]) + c)
<1> DEFINE r == Pow[4 - k]
           t == Pow[3 - k]
           s == Pow[k]
           q == x \div r
           m == x % r
           a == m \div t
           b == m % t
<1>1. /\ r = B * t /\ r \in Nat \ {0} /\ t \in Nat \ {0} /\ s \in Nat \ {0}
      /\ t * s = Top /\ r * s = Max + 1
  BY PowersMeet
<1> HIDE DEF r, t, s
<1>2. q \in Nat /\ m \in 0..r - 1 /\ x = r * q + m
  BY <1>1, Parts
<1>3. a \in Nat /\ b \in 0..t - 1 /\ m = t * a + b
  <2>1. m \in Nat
    BY <1>1, <1>2
  <2> HIDE DEF m
  <2>2. /\ m \div t \in Nat /\ m % t \in 0..t - 1 /\ m = t * (m \div t) + (m % t)
    BY <1>1, <2>1, Parts
  <2> QED BY <2>2, Zenon
<1> HIDE DEF q, m, a, b
<1>4. Wide(x * s) = m * s /\ m * s \in Nat /\ m * s + s <= r * s
  <2>1. x * s = (r * s) * q + m * s
    <3>1. (r * q + m) * s = (r * q) * s + m * s /\ (r * q) * s = (r * s) * q
      BY <1>1, <1>2
    <3> QED BY <1>2, <3>1
  <2>2. m * s + s <= r * s /\ m * s \in Nat /\ r * s \in Nat \ {0}
    <3>1. s * m + s <= s * r /\ s * m \in Nat /\ s * r \in Nat
      BY <1>1, <1>2, Multiples
    <3>2. s * m = m * s /\ s * r = r * s
      BY <1>1, <1>2
    <3> QED BY <1>1, <3>1, <3>2
  <2> DEFINE whole == r * s
             rest == m * s
             y == x * s
  <2>3. whole \in Nat \ {0} /\ rest \in 0..whole - 1 /\ y = whole * q + rest /\ y \in Nat
    <3>1. y \in Nat
      BY <1>1
    <3> QED BY <1>1, <2>1, <2>2, <3>1
  <2>4. y % whole = rest
    <3> HIDE DEF whole, rest, y
    <3> QED BY <1>2, <2>3, PartedOnce
  <2> QED BY <1>1, <2>2, <2>4 DEF Wide
<1> DEFINE z == m * s + c
<1>5. z = Top * a + (b * s + c) /\ b * s + c \in 0..Top - 1 /\ z \in 0..Max /\ z \in Nat
  <2>1. m * s = (t * s) * a + b * s
    <3>1. (t * a + b) * s = (t * a) * s + b * s /\ (t * a) * s = (t * s) * a
      BY <1>1, <1>3
    <3> QED BY <1>3, <3>1
  <2>2. b * s + s <= t * s /\ b * s \in Nat /\ t * s \in Nat
    <3>1. s * b + s <= s * t /\ s * b \in Nat /\ s * t \in Nat
      BY <1>1, <1>3, Multiples
    <3>2. s * b = b * s /\ s * t = t * s
      BY <1>1, <1>3
    <3> QED BY <1>1, <3>1, <3>2
  <2>3. c \in 0..s - 1
    BY DEF s
  <2>4. Top * a \in Nat
    BY <1>1, <1>3, <2>2
  <2> DEFINE ms == m * s
             bs == b * s
             ts == t * s
             rs == r * s
             ta == Top * a
  <2>5. /\ ms = ta + bs /\ bs + s <= ts /\ bs \in Nat /\ ts = Top /\ ta \in Nat /\ ms \in Nat /\ ms + s <= rs /\ rs = Max + 1
        /\ Top \in Nat /\ rs \in Nat
    <3>1. rs \in Nat
      BY <1>1
    <3> QED BY <1>1, <1>4, <2>1, <2>2, <2>4, <3>1
  <2>6. Max \in Int
    BY <1>1, Powers DEF Max
  <2> HIDE DEF ms, bs, ts, rs, ta
  <2>7. ms + c = ta + (bs + c) /\ bs + c \in 0..Top - 1 /\ ms + c \in 0..Max /\ ms + c \in Nat
    BY <1>1, <2>3, <2>5, <2>6
  <2> QED BY <2>7 DEF ms, bs, ta
<1>6. TopByte(z) = a
  <2>1. Top \in Nat \ {0}
    BY Powers DEF Top
  <2> DEFINE u == b * s + c
  <2>2. z = Top * a + u /\ u \in 0..Top - 1 /\ z \in Nat
    BY <1>5
  <2> HIDE DEF z, u
  <2>3. z \div Top = a
    BY <1>3, <2>1, <2>2, PartedOnce
  <2> QED BY <2>3 DEF TopByte
<1>7. x \div t = B * q + a
  <2>1. x = t * (B * q + a) + b /\ B * q + a \in Nat
    <3>1. (B * t) * q = t * (B * q) /\ t * (B * q + a) = t * (B * q) + t * a /\ B * q \in Nat
      BY <1>1, <1>2, <1>3
    <3>2. t * a \in Nat /\ t * (B * q) \in Nat
      BY <1>1, <1>3, <3>1
    <3> DEFINE ta == t * a
               tbq == t * (B * q)
    <3>3. x = tbq + (ta + b) /\ t * (B * q + a) = tbq + ta /\ ta \in Nat /\ tbq \in Nat
      BY <1>1, <1>2, <1>3, <3>1, <3>2
    <3> HIDE DEF ta, tbq
    <3> QED BY <1>3, <3>1, <3>3
  <2> DEFINE n == B * q + a
  <2>2. x = t * n + b /\ n \in Nat
    BY <2>1
  <2> HIDE DEF n
  <2>3. x \div t = n
    BY <1>1, <1>3, <2>2, PartedOnce
  <2> QED BY <2>3 DEF n
<1>8. Wide(x * Pow[k]) + c = z
  BY <1>4 DEF s
<1> HIDE DEF z
<1> QED BY <1>3, <1>5, <1>6, <1>7, <1>8 DEF q, r, t

\* Bounds that have the bytes they share shifted out differ in the top byte.
LEMMA ShiftApart ==
  ASSUME B \in Nat \ {0, 1}, NEW x1 \in 0..Max, NEW x2 \in 0..Max, x1 <= x2
  PROVE  /\ LowAfter(x1, Shared(x1, x2)) \in 0..Max /\ HighAfter(x2, Shared(x1, x2)) \in 0..Max
         /\ TopByte(LowAfter(x1, Shared(x1, x2))) < TopByte(HighAfter(x2, Shared(x1, x2)))
<1> DEFINE k == Shared(x1, x2)
<1>1. /\ k \in 0..4
      /\ \A j \in 1..k : x1 \div Pow[4 - j] = x2 \div Pow[4 - j]
      /\ k < 4 => x1 \div Pow[3 - k] # x2 \div Pow[3 - k]
  BY SharedIs
<1> HIDE DEF k
<1>2. /\ B \in Nat \ {0} /\ Pow[0] = 1 /\ \A j \in 0..4 : Pow[j] \in Nat \ {0}
      /\ Pow[4] = Max + 1 /\ Max \in Nat /\ Top \in Nat \ {0} /\ Pow[4] = B * Top
  <2>1. Pow[0] = 1 /\ \A j \in 0..4 : Pow[j] \in Nat \ {0}
    BY Powers
  <2>2. Pow[4] = B * Pow[4 - 1]
    BY Powers
  <2> QED BY <2>1, <2>2 DEF Max, Top
<1>3. x1 \in Nat /\ x2 \in Nat
  BY <1>2
<1>4. CASE k = 4
  <2>1. Wide(x1 * Pow[4]) = 0 /\ Wide(x2 * Pow[4]) = 0
    <3> SUFFICES ASSUME NEW x \in Nat PROVE Wide(x * Pow[4]) = 0
      BY <1>3
    <3> DEFINE y == x * Pow[4]
    <3>1. y = Pow[4] * x + 0 /\ y \in Nat /\ Pow[4] \in Nat \ {0} /\ 0 \in 0..Pow[4] - 1
      BY <1>2
    <3> HIDE DEF y
    <3>2. y % Pow[4] = 0
      BY <3>1, PartedOnce
    <3> QED BY <1>2, <3>2 DEF Wide, y
  <2>2. LowAfter(x1, k) = 0 /\ HighAfter(x2, k) = Max
    BY <1>2, <1>4, <2>1 DEF LowAfter, HighAfter
  <2>3. TopByte(0) = 0
    <3>1. 0 = Top * 0 + 0 /\ 0 \in 0..Top - 1
      BY <1>2
    <3> QED BY <1>2, <3>1, PartedOnce DEF TopByte
  <2>4. TopByte(Max) = B - 1
    <3>1. Max = Top * (B - 1) + (Top - 1) /\ Top - 1 \in 0..Top - 1 /\ B - 1 \in Nat
      <4>1. Top * (B - 1) = B * Top - Top
        BY <1>2
      <4> QED BY <1>2, <4>1
    <3> QED BY <1>2, <3>1, PartedOnce DEF TopByte
  <2> QED BY <1>2, <2>2, <2>3, <2>4 DEF k
<1>5. CASE k # 4
  <2>1. k \in 0..3
    BY <1>1, <1>5
  <2>2. Pow[k] \in Nat \ {0} /\ Pow[4 - k] \in Nat \ {0} /\ Pow[3 - k] \in Nat \ {0}
    BY <1>2, <2>1, PowersMeet
  <2> DEFINE q1 == x1 \div Pow[4 - k]
             q2 == x2 \div Pow[4 - k]
             t1 == TopByte(LowAfter(x1, k))
             t2 == TopByte(HighAfter(x2, k))
             n1 == x1 \div Pow[3 - k]
             n2 == x2 \div Pow[3 - k]
  <2>3. q1 = q2
    <3>1. CASE k = 0
      <4>1. \A x \in 0..Max : x \div Pow[4] = 0
        <5> SUFFICES ASSUME NEW x \in 0..Max PROVE x \div Pow[4] = 0
          OBVIOUS
        <5>1. x = Pow[4] * 0 + x /\ x \in Nat /\ x \in 0..Pow[4] - 1 /\ Pow[4] \in Nat \ {0}
          BY <1>2
        <5> QED BY <5>1, PartedOnce
      <4>2. 4 - k = 4
        BY <3>1
      <4> QED BY <4>1, <4>2
    <3>2. CASE k # 0
      <4>1. k \in 1..k
        BY <2>1, <3>2
      <4> QED BY <1>1, <4>1
    <3> QED BY <3>1, <3>2
  <2>4. LowAfter(x1, k) \in 0..Max /\ t1 \in Nat /\ n1 = B * q1 + t1
    <3>1. 0 \in 0..Pow[k] - 1 /\ Wide(x1 * Pow[k]) \in Int
      <4>1. x1 * Pow[k] \in Nat /\ Max + 1 \in Nat \ {0}
        BY <1>2, <1>3, <2>2
      <4> DEFINE y == x1 * Pow[k]
      <4>2. y \in Nat
        BY <4>1
      <4> HIDE DEF y
      <4>3. y % (Max + 1) \in 0..(Max + 1) - 1
        BY <4>1, <4>2, Parts
      <4> QED BY <2>2, <4>3 DEF Wide, y
    <3>2. Wide(x1 * Pow[k]) + 0 = LowAfter(x1, k)
      BY <3>1 DEF LowAfter
    <3>3. B \in Nat \ {0} /\ k \in 0..3 /\ x1 \in Nat /\ 0 \in 0..Pow[k] - 1
      BY <1>2, <1>3, <2>1, <3>1
    <3>4. /\ Wide(x1 * Pow[k]) + 0 \in 0..Max
          /\ TopByte(Wide(x1 * Pow[k]) + 0) \in Nat
          /\ x1 \div Pow[3 - k] = B * (x1 \div Pow[4 - k]) + TopByte(Wide(x1 * Pow[k]) + 0)
      BY <3>3, ShiftIs, Zenon
    <3> QED BY <3>2, <3>4, Zenon
  <2>5. HighAfter(x2, k) \in 0..Max /\ t2 \in Nat /\ n2 = B * q2 + t2
    <3> DEFINE c == Pow[k] - 1
    <3>1. c \in 0..Pow[k] - 1 /\ Wide(x2 * Pow[k]) \in Int
      <4>1. x2 * Pow[k] \in Nat /\ Max + 1 \in Nat \ {0}
        BY <1>2, <1>3, <2>2
      <4> DEFINE y == x2 * Pow[k]
      <4>2. y \in Nat
        BY <4>1
      <4> HIDE DEF y
      <4>3. y % (Max + 1) \in 0..(Max + 1) - 1
        BY <4>1, <4>2, Parts
      <4> QED BY <2>2, <4>3 DEF Wide, y
    <3>2. Wide(x2 * Pow[k]) + c = HighAfter(x2, k)
      BY <2>2, <3>1 DEF HighAfter
    <3> HIDE DEF c
    <3>3. B \in Nat \ {0} /\ k \in 0..3 /\ x2 \in Nat /\ c \in 0..Pow[k] - 1
      BY <1>2, <1>3, <2>1, <3>1
    <3>4. /\ Wide(x2 * Pow[k]) + c \in 0..Max
          /\ TopByte(Wide(x2 * Pow[k]) + c) \in Nat
          /\ x2 \div Pow[3 - k] = B * (x2 \div Pow[4 - k]) + TopByte(Wide(x2 * Pow[k]) + c)
      BY <3>3, ShiftIs, Zenon
    <3> QED BY <3>2, <3>4, Zenon
  <2>6. n1 <= n2
    BY <1>3, <2>2, QuotientGrows
  <2>7. n1 # n2
    BY <1>1, <2>1
  <2>8. q1 \in Nat
    BY <1>3, <2>2, Parts
  <2> HIDE DEF n1, n2, q1, q2, t1, t2
  <2>9. t1 < t2
    <3>1. B * q1 \in Nat /\ B * q2 = B * q1
      BY <1>2, <2>3, <2>8
    <3> DEFINE base == B * q1
    <3>2. n1 = base + t1 /\ n2 = base + t2 /\ base \in Nat
      BY <2>4, <2>5, <3>1
    <3> HIDE DEF base
    <3> QED BY <2>4, <2>5, <2>6, <2>7, <3>2
  <2> QED BY <2>4, <2>5, <2>9 DEF t1, t2, k
<1> QED BY <1>4, <1>5

\* Bounds whose top bytes differ differ.
LEMMA TopOrders ==
  ASSUME B \in Nat \ {0}, NEW low \in 0..Max, NEW high \in 0..Max, TopByte(low) < TopByte(high)
  PROVE  low < high
<1>1. Top \in Nat \ {0} /\ low \in Nat /\ high \in Nat
  BY Powers DEF Top, Max
<1>2. TopByte(low) \in Nat /\ TopByte(high) \in Nat
  BY <1>1, Parts DEF TopByte
<1>3. high <= low => TopByte(high) <= TopByte(low)
  BY <1>1, QuotientGrows DEF TopByte
<1> QED BY <1>1, <1>2, <1>3

\* A bit of any probability leaves bounds whose top bytes differ.
LEMMA StepApart ==
  ASSUME CarrylessAssumption, NEW p \in Probs, NEW bit \in {0, 1},
         NEW low \in 0..Max, NEW high \in 0..Max, TopByte(low) < TopByte(high),
         NEW x1, NEW x2, x1 = (IF bit = 1 THEN low ELSE Mid(low, high, p) + 1),
         x2 = (IF bit = 1 THEN Mid(low, high, p) ELSE high)
  PROVE  /\ LowAfter(x1, Shared(x1, x2)) \in 0..Max /\ HighAfter(x2, Shared(x1, x2)) \in 0..Max
         /\ TopByte(LowAfter(x1, Shared(x1, x2))) < TopByte(HighAfter(x2, Shared(x1, x2)))
<1>1. B \in Nat \ {0, 1} /\ Scale \in Nat \ {0} /\ p \in 1..Scale - 1
  BY DEF CarrylessAssumption
<1>2. Top \in Nat \ {0} /\ Max \in Int
  BY <1>1, Powers DEF Top, Max
<1>3. low < high
  BY <1>1, TopOrders
<1> DEFINE mid == Mid(low, high, p)
<1>4. mid \in low..high - 1
  BY <1>1, <1>2, <1>3, MidBetween
<1> HIDE DEF mid
<1>5. x1 \in 0..Max /\ x2 \in 0..Max /\ x1 <= x2
  <2>1. CASE bit = 1
    BY <1>2, <1>3, <1>4, <2>1 DEF mid
  <2>2. CASE bit # 1
    BY <1>2, <1>3, <1>4, <2>2 DEF mid
  <2> QED BY <2>1, <2>2
<1> QED BY <1>1, <1>5, ShiftApart

\* A bit and its probability.
Codings == [bit : {0, 1}, p : Probs]

\* The probabilities on both sides are among those the models give.
Coded ==
  /\ data \in Seq(Codings)
  /\ dec.bits \in Seq({0, 1})
  /\ enc = [x1 |-> enc.x1, x2 |-> enc.x2, out |-> enc.out, status |-> enc.status]
  /\ dec = [x1 |-> dec.x1, x2 |-> dec.x2, x |-> dec.x, pos |-> dec.pos, bits |-> dec.bits, status |-> dec.status]

\* A step of either side keeps its bounds apart.
LEMMA EncodeApart ==
  ASSUME CarrylessAssumption, Coded, BoundsApart, NEW bit \in {0, 1}, NEW p \in Probs, Encode(bit, p)
  PROVE  (Coded /\ BoundsApart)'
<1> DEFINE mid == Mid(enc.x1, enc.x2, p)
           x1  == IF bit = 1 THEN enc.x1 ELSE mid + 1
           x2  == IF bit = 1 THEN mid ELSE enc.x2
           k   == Shared(x1, x2)
<1>1. /\ LowAfter(x1, k) \in 0..Max /\ HighAfter(x2, k) \in 0..Max
      /\ TopByte(LowAfter(x1, k)) < TopByte(HighAfter(x2, k))
  BY StepApart DEF BoundsApart
<1>2. /\ enc' = [enc EXCEPT !.x1 = LowAfter(x1, k), !.x2 = HighAfter(x2, k),
                            !.out = @ \o [i \in 1..k |-> (x2 \div Pow[4 - i]) % B]]
      /\ data' = Append(data, [bit |-> bit, p |-> p]) /\ dec' = dec
  BY DEF Encode
<1> HIDE DEF k, x1, x2
<1>3. enc'.x1 = LowAfter(x1, k) /\ enc'.x2 = HighAfter(x2, k)
  BY <1>2 DEF Coded
<1>4. Coded'
  <2>1. [bit |-> bit, p |-> p] \in Codings
    BY DEF Codings
  <2>2. data' \in Seq(Codings)
    BY <1>2, <2>1 DEF Coded
  <2> QED BY <1>2, <2>2 DEF Coded
<1> QED BY <1>1, <1>2, <1>3, <1>4, Zenon DEF BoundsApart

LEMMA DecodeApart ==
  ASSUME CarrylessAssumption, Coded, BoundsApart, Decode
  PROVE  (Coded /\ BoundsApart)'
<1> DEFINE p   == data[Len(dec.bits) + 1].p
           mid == Mid(dec.x1, dec.x2, p)
           bit == IF dec.x <= mid THEN 1 ELSE 0
           x1  == IF bit = 1 THEN dec.x1 ELSE mid + 1
           x2  == IF bit = 1 THEN mid ELSE dec.x2
           k   == Shared(x1, x2)
<1>1. p \in Probs /\ bit \in {0, 1}
  <2>1. Len(dec.bits) \in Nat /\ Len(data) \in Nat /\ Len(dec.bits) < Len(data)
    BY DEF Coded, Decode
  <2> DEFINE n == Len(dec.bits) + 1
  <2>2. n \in 1..Len(data)
    BY <2>1
  <2> HIDE DEF n
  <2>3. data[n] \in Codings
    BY <2>2 DEF Coded
  <2> QED BY <2>3 DEF n, Codings
<1>2. /\ dec' = [dec EXCEPT !.x1 = LowAfter(x1, k), !.x2 = HighAfter(x2, k),
                            !.x = Wide(@ * Pow[k]) + BytesAt(dec.pos, k),
                            !.pos = @ + k, !.bits = Append(@, bit)]
      /\ data' = data /\ enc' = enc
  BY DEF Decode
<1> HIDE DEF p, bit
<1>3. /\ LowAfter(x1, k) \in 0..Max /\ HighAfter(x2, k) \in 0..Max
      /\ TopByte(LowAfter(x1, k)) < TopByte(HighAfter(x2, k))
  BY <1>1, StepApart DEF BoundsApart
<1> HIDE DEF k, x1, x2
<1>4. dec'.x1 = LowAfter(x1, k) /\ dec'.x2 = HighAfter(x2, k)
  BY <1>2 DEF Coded
<1>5. Coded'
  <2>1. dec'.bits = Append(dec.bits, bit)
    BY <1>2 DEF Coded
  <2>2. dec'.bits \in Seq({0, 1})
    BY <1>1, <2>1 DEF Coded
  <2> QED BY <1>2, <2>2 DEF Coded
<1> QED BY <1>2, <1>3, <1>4, <1>5, Zenon DEF BoundsApart

\* The first bounds are the least and the greatest value.
LEMMA FirstApart ==
  ASSUME CarrylessAssumption, CarrylessInit
  PROVE  Coded /\ BoundsApart
<1>1. B \in Nat \ {0, 1} /\ B \in Nat \ {0}
  BY DEF CarrylessAssumption
<1>2. Top \in Nat \ {0} /\ Max \in Nat /\ Max = B * Top - 1
  <2>1. Pow[4] = B * Pow[4 - 1] /\ Pow[4] \in Nat \ {0} /\ Pow[3] \in Nat \ {0}
    BY <1>1, Powers
  <2> QED BY <2>1 DEF Top, Max
<1>3. TopByte(0) = 0 /\ TopByte(Max) = B - 1
  <2>1. 0 = Top * 0 + 0 /\ 0 \in 0..Top - 1
    BY <1>2
  <2>2. Max = Top * (B - 1) + (Top - 1) /\ Top - 1 \in 0..Top - 1 /\ B - 1 \in Nat
    <3>1. Top * (B - 1) = B * Top - Top
      BY <1>1, <1>2
    <3> QED BY <1>1, <1>2, <3>1
  <2> QED BY <1>2, <2>1, <2>2, PartedOnce DEF TopByte
<1>4. Coded
  BY DEF CarrylessInit, Coded
<1> QED BY <1>1, <1>2, <1>3, <1>4 DEF CarrylessInit, BoundsApart

\* Between two bits the bounds of both sides differ in their top bytes, so that
\* either bit has a value, for bytes and probabilities of any size
\* (bwt_cm.rs: Encoder::encode, Decoder::decode).
THEOREM BoundsStayApart ==
  ASSUME CarrylessAssumption
  PROVE  CarrylessSpec => []BoundsApart
<1>1. CarrylessInit => Coded /\ BoundsApart
  BY FirstApart
<1>2. Coded /\ BoundsApart /\ [CarrylessNext]_coderVars => (Coded /\ BoundsApart)'
  <2> SUFFICES ASSUME Coded, BoundsApart, [CarrylessNext]_coderVars PROVE (Coded /\ BoundsApart)'
    OBVIOUS
  <2>1. CASE \E b \in {0, 1}, p \in Probs : Encode(b, p)
    BY <2>1, EncodeApart
  <2>2. CASE FinishBounds \/ StartBounds \/ UNCHANGED coderVars
    <3>1. UNCHANGED data /\ UNCHANGED <<enc.x1, enc.x2, dec.x1, dec.x2>> /\ Coded'
      BY <2>2 DEF FinishBounds, StartBounds, coderVars, Coded
    <3> QED BY <3>1 DEF BoundsApart
  <2>3. CASE Decode
    BY <2>3, DecodeApart
  <2> QED BY <2>1, <2>2, <2>3 DEF CarrylessNext
<1> QED BY <1>1, <1>2, PTL DEF CarrylessSpec

---------------------------------------------------------------------------
(* Bytes as numbers.                                                       *)

\* ByteAt and BytesAt, of any row of bytes.
ByteOf(out, p) == IF p <= Len(out) THEN out[p] ELSE 0
BytesOf(out, p, k) ==
  LET n[i \in 0..k] == IF i = 0 THEN 0 ELSE n[i - 1] * B + ByteOf(out, p + i - 1) IN n[k]

\* They are those of what was written.
LEMMA BytesAre == \A p, k : BytesAt(p, k) = BytesOf(enc.out, p, k)
BY Zenon DEF BytesAt, BytesOf, ByteAt, ByteOf

\* Beyond the end there are zeros.
LEMMA ByteIs ==
  ASSUME B \in Nat \ {0}, NEW out \in Seq(0..B - 1), NEW p \in Nat \ {0}
  PROVE  ByteOf(out, p) \in 0..B - 1
<1>1. CASE p <= Len(out)
  <2>1. p \in 1..Len(out)
    BY <1>1
  <2>2. out[p] \in 0..B - 1
    BY <2>1
  <2> QED BY <1>1, <2>2 DEF ByteOf
<1>2. CASE ~(p <= Len(out))
  BY <1>2 DEF ByteOf
<1> QED BY <1>1, <1>2

\* A number grows by a byte at its end.
LEMMA BytesGrow ==
  ASSUME B \in Nat \ {0}, NEW out \in Seq(0..B - 1), NEW p \in Nat \ {0}
  PROVE  /\ BytesOf(out, p, 0) = 0
         /\ \A k \in 0..4 : BytesOf(out, p, k) \in Nat
         /\ \A k \in 1..4 : BytesOf(out, p, k) = BytesOf(out, p, k - 1) * B + ByteOf(out, p + k - 1)
<1> DEFINE b(i) == ByteOf(out, p + i - 1)
           c1 == 0 * B + b(1)
           c2 == c1 * B + b(2)
           c3 == c2 * B + b(3)
           c4 == c3 * B + b(4)
           c == [i \in 0..4 |-> IF i = 0 THEN 0 ELSE IF i = 1 THEN c1 ELSE IF i = 2 THEN c2 ELSE IF i = 3 THEN c3 ELSE c4]
           Counts(n, k) == n = [i \in 0..k |-> IF i = 0 THEN 0 ELSE n[i - 1] * B + b(i)]
<1>1. \A i \in 1..4 : b(i) \in Nat
  <2> SUFFICES ASSUME NEW i \in 1..4 PROVE b(i) \in Nat
    OBVIOUS
  <2>1. p + i - 1 \in Nat \ {0}
    OBVIOUS
  <2>2. ByteOf(out, p + i - 1) \in 0..B - 1
    BY <2>1, ByteIs
  <2> QED BY <2>2
<1> HIDE DEF b
<1>2. c1 \in Nat /\ c2 \in Nat /\ c3 \in Nat /\ c4 \in Nat
  <2>1. \A x, y \in Nat : x * B + y \in Nat
    OBVIOUS
  <2>2. b(1) \in Nat /\ b(2) \in Nat /\ b(3) \in Nat /\ b(4) \in Nat /\ 0 \in Nat
    BY <1>1
  <2>3. c1 \in Nat
    BY <2>1, <2>2, Zenon
  <2> HIDE DEF c1
  <2>4. c2 \in Nat
    BY <2>1, <2>2, <2>3, Zenon
  <2> HIDE DEF c2
  <2>5. c3 \in Nat
    BY <2>1, <2>2, <2>4, Zenon
  <2> HIDE DEF c3
  <2>6. c4 \in Nat
    BY <2>1, <2>2, <2>5, Zenon
  <2> QED BY <2>3, <2>4, <2>5, <2>6
<1>3. c[0] = 0 /\ \A i \in 1..4 : c[i] = c[i - 1] * B + b(i)
  <2>1. c[0] = 0 /\ c[1] = c1 /\ c[2] = c2 /\ c[3] = c3 /\ c[4] = c4
    <3> HIDE DEF c1, c2, c3, c4
    <3> QED OBVIOUS
  <2> HIDE DEF c
  <2>2. c[1] = c[0] * B + b(1) /\ c[2] = c[1] * B + b(2) /\ c[3] = c[2] * B + b(3) /\ c[4] = c[3] * B + b(4)
    BY <2>1, Zenon
  <2>3. \A i \in 1..4 : i = 1 \/ i = 2 \/ i = 3 \/ i = 4
    OBVIOUS
  <2>4. 1 - 1 = 0 /\ 2 - 1 = 1 /\ 3 - 1 = 2 /\ 4 - 1 = 3
    OBVIOUS
  <2> QED BY <2>1, <2>2, <2>3, <2>4, Zenon
<1>4. \A i \in 0..4 : c[i] \in Nat
  <2> HIDE DEF c1, c2, c3, c4
  <2> QED BY <1>2
<1> HIDE DEF c, c1, c2, c3, c4
<1>5. ASSUME NEW k \in 0..4 PROVE BytesOf(out, p, k) = c[k]
  <2> DEFINE n == CHOOSE m : Counts(m, k)
             d == [i \in 0..k |-> c[i]]
  <2>1. BytesOf(out, p, k) = n[k]
    BY Zenon DEF BytesOf, b
  <2>2. Counts(d, k)
    <3>1. \A i \in 0..k : c[i] = IF i = 0 THEN 0 ELSE d[i - 1] * B + b(i)
      <4> SUFFICES ASSUME NEW i \in 0..k PROVE c[i] = IF i = 0 THEN 0 ELSE d[i - 1] * B + b(i)
        OBVIOUS
      <4>1. i = 0 \/ (i \in 1..4 /\ i - 1 \in 0..k)
        OBVIOUS
      <4>2. i # 0 => d[i - 1] = c[i - 1]
        BY <4>1
      <4> QED BY <1>3, <4>1, <4>2, Zenon
    <3> QED BY <3>1, Zenon
  <2>3. Counts(n, k)
    <3> HIDE DEF Counts, d
    <3> QED BY <2>2
  <2> HIDE DEF n
  <2>4. \A i \in 0..k : n[i] = IF i = 0 THEN 0 ELSE n[i - 1] * B + b(i)
    BY <2>3, Zenon
  <2> DEFINE P == {i \in 0..k : n[i] = c[i]}
  <2>5. 0 \in P
    BY <1>3, <2>4
  <2>6. \A i \in 1..k : i - 1 \in P => i \in P
    <3> SUFFICES ASSUME NEW i \in 1..k, i - 1 \in P PROVE i \in P
      OBVIOUS
    <3>1. i \in 0..k /\ i # 0 /\ i \in 1..4
      OBVIOUS
    <3>2. n[i] = n[i - 1] * B + b(i) /\ c[i] = c[i - 1] * B + b(i) /\ n[i - 1] = c[i - 1]
      BY <1>3, <2>4, <3>1, Zenon
    <3>3. n[i] = c[i]
      BY <3>2, Zenon
    <3> QED BY <3>1, <3>3
  <2>7. 0..k \subseteq P
    <3> HIDE DEF P
    <3> QED BY <2>5, <2>6, UpTo
  <2> QED BY <2>1, <2>7
<1>6. ASSUME NEW k \in 1..4
      PROVE  BytesOf(out, p, k) = BytesOf(out, p, k - 1) * B + ByteOf(out, p + k - 1)
  <2>1. k \in 0..4 /\ k - 1 \in 0..4
    OBVIOUS
  <2>2. BytesOf(out, p, k) = c[k] /\ BytesOf(out, p, k - 1) = c[k - 1]
    BY <1>5, <2>1
  <2> QED BY <1>3, <2>2, Zenon DEF b
<1>7. BytesOf(out, p, 0) = 0 /\ \A k \in 0..4 : BytesOf(out, p, k) \in Nat
  BY <1>3, <1>4, <1>5
<1> QED BY <1>6, <1>7

\* A number of k bytes is less than there are of them.
LEMMA BytesBound ==
  ASSUME B \in Nat \ {0}, NEW out \in Seq(0..B - 1), NEW p \in Nat \ {0}
  PROVE  \A k \in 0..4 : BytesOf(out, p, k) \in 0..Pow[k] - 1
<1> DEFINE n(k) == BytesOf(out, p, k)
           P == {k \in 0..4 : n(k) \in 0..Pow[k] - 1}
<1>1. /\ n(0) = 0 /\ \A k \in 0..4 : n(k) \in Nat
      /\ \A k \in 1..4 : n(k) = n(k - 1) * B + ByteOf(out, p + k - 1)
  BY BytesGrow
<1> HIDE DEF n
<1>2. 0 \in P
  <2>1. Pow[0] = 1
    BY Powers
  <2>2. n(0) \in 0..Pow[0] - 1
    BY <1>1, <2>1
  <2> HIDE DEF P
  <2>3. P = {k \in 0..4 : n(k) \in 0..Pow[k] - 1} /\ 0 \in 0..4
    BY DEF P
  <2> QED BY <2>2, <2>3, Zenon
<1>3. ASSUME NEW k \in 1..4, k - 1 \in P PROVE k \in P
  <2> DEFINE x == n(k - 1)
             y == ByteOf(out, p + k - 1)
             w == Pow[k - 1]
  <2>1. y \in 0..B - 1
    <3>1. p + k - 1 \in Nat \ {0}
      OBVIOUS
    <3> QED BY <3>1, ByteIs
  <2>2. x \in Nat /\ x \in 0..w - 1 /\ w \in Nat \ {0} /\ Pow[k] = B * w /\ n(k) = x * B + y /\ k \in 0..4 /\ n(k) \in Nat
    <3>1. k - 1 \in 0..4 /\ k \in 0..4
      OBVIOUS
    <3> QED BY <1>1, <1>3, <3>1, Powers
  <2> HIDE DEF x, y, w
  <2>3. B * x + B <= B * w /\ B * x = x * B /\ x * B \in Nat /\ B * w \in Nat
    BY <2>2, Multiples
  <2> DEFINE xb == x * B
  <2>4. xb + B <= Pow[k] /\ n(k) = xb + y /\ xb \in Nat /\ Pow[k] \in Nat
    BY <2>2, <2>3
  <2> HIDE DEF xb
  <2>5. n(k) \in 0..Pow[k] - 1
    BY <2>1, <2>2, <2>4
  <2> QED BY <2>2, <2>5
<1>4. 0..4 \subseteq P
  <2> HIDE DEF P
  <2> QED BY <1>2, <1>3, UpTo
<1> QED BY <1>4 DEF n

\* Four bytes are the first k of them and the others.
LEMMA BytesJoin ==
  ASSUME B \in Nat \ {0}, NEW out \in Seq(0..B - 1), NEW p \in Nat \ {0}, NEW k \in 0..4
  PROVE  BytesOf(out, p, 4) = BytesOf(out, p, k) * Pow[4 - k] + BytesOf(out, p + k, 4 - k)
<1> DEFINE n(j) == BytesOf(out, p, j)
           m(j) == BytesOf(out, p + k, j)
           b(q) == ByteOf(out, q)
           P == {j \in 0..4 - k : n(k + j) = n(k) * Pow[j] + m(j)}
<1>1. /\ \A j \in 0..4 : n(j) \in Nat
      /\ \A j \in 1..4 : n(j) = n(j - 1) * B + b(p + j - 1)
  BY BytesGrow
<1>2. /\ m(0) = 0 /\ \A j \in 0..4 : m(j) \in Nat
      /\ \A j \in 1..4 : m(j) = m(j - 1) * B + b(p + k + j - 1)
  <2>1. p + k \in Nat \ {0}
    OBVIOUS
  <2> QED BY <2>1, BytesGrow
<1>3. \A q \in Nat \ {0} : b(q) \in Nat
  BY ByteIs
<1> HIDE DEF n, m, b
<1>4. 0 \in P
  <2>1. Pow[0] = 1 /\ k + 0 = k /\ k \in 0..4 /\ 0 \in 0..4 - k
    BY Powers
  <2>2. n(k) * 1 + 0 = n(k)
    <3>1. n(k) \in Nat
      BY <1>1, <2>1, Zenon
    <3>2. \A x \in Nat : x * 1 + 0 = x
      OBVIOUS
    <3> QED BY <3>1, <3>2, Zenon
  <2>3. n(k + 0) = n(k) * Pow[0] + m(0)
    BY <1>2, <2>1, <2>2, Zenon
  <2> QED BY <2>1, <2>3, Zenon
<1>5. ASSUME NEW j \in 1..4 - k, j - 1 \in P PROVE j \in P
  <2> DEFINE x == n(k)
             y == m(j - 1)
             w == Pow[j - 1]
             z == b(p + k + j - 1)
  <2>1. k + j \in 1..4 /\ (k + j) - 1 = k + (j - 1) /\ p + (k + j) - 1 = p + k + j - 1
        /\ j \in 1..4 /\ j \in 0..4 - k /\ j - 1 \in 0..4 /\ k \in 0..4 /\ p + k + j - 1 \in Nat \ {0}
    OBVIOUS
  <2>2. n(k + j) = n(k + (j - 1)) * B + z
    BY <1>1, <2>1
  <2>3. n(k + (j - 1)) = x * w + y
    BY <1>5
  <2>4. m(j) = y * B + z /\ Pow[j] = B * w
    BY <1>2, <2>1, Powers
  <2>5. x \in Nat /\ y \in Nat /\ w \in Nat /\ z \in Nat
    BY <1>1, <1>2, <1>3, <2>1, Powers
  <2> HIDE DEF x, y, w, z
  <2>6. (x * w + y) * B = x * (B * w) + y * B
    <3>1. (x * w + y) * B = (x * w) * B + y * B /\ (x * w) * B = x * (B * w)
      BY <2>5
    <3> QED BY <3>1
  <2>7. n(k + j) = x * Pow[j] + m(j)
    <3> DEFINE a == x * (B * w)
               c == y * B
    <3>1. n(k + j) = (x * w + y) * B + z
      BY <2>2, <2>3
    <3>2. n(k + j) = (a + c) + z /\ x * Pow[j] = a /\ m(j) = c + z /\ a \in Nat /\ c \in Nat
      BY <2>4, <2>5, <2>6, <3>1
    <3> HIDE DEF a, c
    <3> QED BY <2>5, <3>2
  <2> QED BY <2>1, <2>7 DEF x
<1>6. 4 - k \in P
  <2>1. 0..4 - k \subseteq P
    <3> HIDE DEF P
    <3>1. 4 - k \in Nat
      OBVIOUS
    <3> QED BY <1>4, <1>5, <3>1, UpTo
  <2> QED BY <2>1
<1>7. k + (4 - k) = 4
  OBVIOUS
<1> QED BY <1>6, <1>7 DEF n, m

\* A bound is less than what four bytes hold.
LEMMA NoQuotient ==
  ASSUME B \in Nat \ {0}, NEW x \in 0..Max
  PROVE  x \div Pow[4] = 0
<1>1. Pow[4] \in Nat \ {0}
  BY Powers
<1>2. x \in Nat /\ x \in 0..Pow[4] - 1 /\ x = Pow[4] * 0 + x
  BY <1>1 DEF Max
<1> QED BY <1>1, <1>2, PartedOnce

\* Bounds have a quotient in common where they share bytes.
LEMMA SharedTop ==
  ASSUME B \in Nat \ {0}, NEW low \in 0..Max, NEW high \in 0..Max
  PROVE  low \div Pow[4 - Shared(low, high)] = high \div Pow[4 - Shared(low, high)]
<1> DEFINE k == Shared(low, high)
<1>1. k \in 0..4 /\ \A j \in 1..k : low \div Pow[4 - j] = high \div Pow[4 - j]
  BY SharedIs
<1> HIDE DEF k
<1>2. CASE k = 0
  <2>1. 4 - k = 4
    BY <1>2
  <2>2. low \div Pow[4] = 0 /\ high \div Pow[4] = 0
    BY NoQuotient
  <2> QED BY <2>1, <2>2, Zenon DEF k
<1>3. CASE k # 0
  <2>1. k \in 1..k
    BY <1>1, <1>3
  <2> QED BY <1>1, <2>1, Zenon DEF k
<1> QED BY <1>2, <1>3

\* The first k bytes of a number stand in a row after a place.
Stands(out, pos, x, k) ==
  pos + k <= Len(out) /\ \A i \in 1..k : out[pos + i] = (x \div Pow[4 - i]) % B

\* Bytes taken from the top of a number are that number so far.
LEMMA WrittenStands ==
  ASSUME B \in Nat \ {0}, NEW out \in Seq(0..B - 1), NEW pos \in Nat, NEW x \in 0..Max, NEW k \in 0..4,
         Stands(out, pos, x, k)
  PROVE  BytesOf(out, pos + 1, k) = x \div Pow[4 - k]
<1> DEFINE n(j) == BytesOf(out, pos + 1, j)
           P == {j \in 0..k : n(j) = x \div Pow[4 - j]}
<1>1. pos + 1 \in Nat \ {0} /\ Len(out) \in Nat /\ k \in Nat
  OBVIOUS
<1>2. /\ n(0) = 0 /\ \A j \in 0..4 : n(j) \in Nat
      /\ \A j \in 1..4 : n(j) = n(j - 1) * B + ByteOf(out, (pos + 1) + j - 1)
  BY <1>1, BytesGrow
<1> HIDE DEF n
<1>3. /\ \A j \in 1..4 : Pow[j] = B * Pow[j - 1]
      /\ \A j \in 0..4 : Pow[j] \in Nat \ {0}
  BY Powers
<1>4. x \in Nat
  BY <1>3 DEF Max
<1>5. 0 \in P
  <2>1. x \div Pow[4] = 0
    BY <1>4, NoQuotient
  <2>2. 4 - 0 = 4 /\ 0 \in 0..k
    OBVIOUS
  <2> QED BY <1>2, <2>1, <2>2, Zenon
<1>6. ASSUME NEW j \in 1..k, j - 1 \in P PROVE j \in P
  <2> DEFINE t == Pow[4 - j]
             q == x \div t
  <2>1. j \in 1..4 /\ j \in 0..k /\ 4 - (j - 1) \in 1..4 /\ (4 - (j - 1)) - 1 = 4 - j /\ 4 - j \in 0..4
        /\ (pos + 1) + j - 1 = pos + j
    BY <1>1
  <2>2. t \in Nat \ {0} /\ Pow[4 - (j - 1)] = B * t
    BY <1>3, <2>1
  <2>3. n(j - 1) = x \div (B * t)
    BY <1>6, <2>2
  <2>4. ByteOf(out, pos + j) = q % B
    <3>1. pos + k <= Len(out) /\ out[pos + j] = q % B
      BY DEF Stands
    <3>2. pos + j <= Len(out)
      BY <1>1, <3>1
    <3> QED BY <3>1, <3>2 DEF ByteOf
  <2> HIDE DEF t
  <2>5. x \div (B * t) = q \div B
    BY <1>4, <2>2, QuotientTwice
  <2>6. q \in Nat
    BY <1>4, <2>2, Parts
  <2> HIDE DEF q
  <2>7. q \div B \in Nat /\ q % B \in 0..B - 1 /\ q = B * (q \div B) + (q % B)
    BY <2>6, Parts
  <2>8. n(j) = n(j - 1) * B + ByteOf(out, pos + j)
    BY <1>2, <2>1
  <2> DEFINE a == q \div B
             c == q % B
  <2>9. n(j) = a * B + c /\ q = B * a + c /\ a \in Nat /\ c \in Nat
    BY <2>3, <2>4, <2>5, <2>7, <2>8
  <2> HIDE DEF a, c
  <2>10. a * B = B * a
    BY <2>9
  <2>11. n(j) = q
    BY <2>9, <2>10
  <2> QED BY <2>1, <2>11 DEF q, t
<1>7. 0..k \subseteq P
  <2> HIDE DEF P
  <2> QED BY <1>1, <1>5, <1>6, UpTo
<1>8. k \in P
  BY <1>7
<1> QED BY <1>8 DEF n

\* Shifting a number left leaves its lower bytes.
LEMMA WideShift ==
  ASSUME B \in Nat \ {0}, NEW k \in 0..4, NEW q \in Nat, NEW m \in 0..Pow[4 - k] - 1
  PROVE  Wide((Pow[4 - k] * q + m) * Pow[k]) = m * Pow[k]
<1> DEFINE r == Pow[4 - k]
           s == Pow[k]
<1>1. r \in Nat \ {0} /\ s \in Nat \ {0} /\ r * s = Max + 1 /\ m \in Nat
  <2>1. 4 - k \in 0..4 /\ (k = 4 \/ k \in 0..3)
    OBVIOUS
  <2>2. r \in Nat \ {0} /\ s \in Nat \ {0} /\ Pow[0] = 1 /\ Pow[4] \in Nat
    BY <2>1, Powers
  <2>3. k \in 0..3 => r * s = Max + 1
    BY PowersMeet
  <2>4. k = 4 => r * s = Max + 1
    BY <2>2 DEF Max
  <2> QED BY <2>1, <2>2, <2>3, <2>4
<1>2. m + 1 <= r
  BY <1>1
<1> HIDE DEF r, s
<1> DEFINE whole == r * s
           rest == m * s
           y == (r * q + m) * s
<1>3. y = whole * q + rest /\ y \in Nat
  <2>1. (r * q + m) * s = (r * q) * s + m * s /\ (r * q) * s = (r * s) * q
    BY <1>1
  <2>2. y \in Nat
    BY <1>1
  <2> QED BY <2>1, <2>2
<1>4. rest \in 0..whole - 1 /\ whole \in Nat \ {0}
  <2>1. s * m + s <= s * r /\ s * m = m * s /\ s * r = r * s /\ m * s \in Nat /\ r * s \in Nat
    BY <1>1, <1>2, Multiples
  <2> QED BY <1>1, <2>1
<1> HIDE DEF y, rest
<1>5. y % whole = rest
  <2> HIDE DEF whole
  <2> QED BY <1>3, <1>4, PartedOnce
<1> QED BY <1>1, <1>5 DEF Wide, y, rest, r, s

\* The window on four bytes lies between two values and, once the bytes they
\* share are shifted out and as many read, is the window on the bytes after.
WindowMoves(out, pos, low, high, k) ==
  /\ BytesOf(out, pos + 1, 4) \in low..high
  /\ Wide(BytesOf(out, pos + 1, 4) * Pow[k]) + BytesOf(out, pos + 5, k) = BytesOf(out, pos + k + 1, 4)

\* The window on the next bytes goes with the bounds: where the window lies
\* between them after the shift, it lay between them before, and shifting it
\* gives the next window.
LEMMA WindowGoes ==
  ASSUME B \in Nat \ {0}, NEW out \in Seq(0..B - 1), NEW pos \in Nat,
         NEW low \in 0..Max, NEW high \in 0..Max, NEW k \in 0..4,
         low \div Pow[4 - k] = high \div Pow[4 - k], Stands(out, pos, high, k),
         BytesOf(out, pos + k + 1, 4) \in LowAfter(low, k) .. HighAfter(high, k)
  PROVE  WindowMoves(out, pos, low, high, k)
<1> DEFINE r == Pow[4 - k]
           s == Pow[k]
           q == high \div r
           ml == low % r
           mh == high % r
           u == BytesOf(out, pos + k + 1, 4 - k)
           v == BytesOf(out, pos + 5, k)
           w == BytesOf(out, pos + 1, 4)
           next == BytesOf(out, pos + k + 1, 4)
<1>1. r \in Nat \ {0} /\ s \in Nat \ {0}
  <2>1. 4 - k \in 0..4
    OBVIOUS
  <2> QED BY <2>1, Powers
<1>2. r \in Nat \ {0} /\ s \in Nat \ {0} /\ low \in Nat /\ high \in Nat
  BY <1>1, Powers DEF Max
<1>3. low \div r = q
  OBVIOUS
<1>4. /\ q \in Nat /\ ml \in 0..r - 1 /\ mh \in 0..r - 1
      /\ low = r * q + ml /\ high = r * q + mh
  <2> DEFINE ql == low \div r
  <2>1. high = r * q + (high % r) /\ q \in Nat /\ high % r \in 0..r - 1
    <3> HIDE DEF r
    <3> QED BY <1>2, Parts
  <2>2. low = r * ql + (low % r) /\ low % r \in 0..r - 1
    <3> HIDE DEF r
    <3> QED BY <1>2, Parts
  <2> HIDE DEF ql, q, r
  <2> QED BY <1>3, <2>1, <2>2 DEF ql
<1>5. u \in 0..r - 1 /\ v \in 0..s - 1 /\ w = q * r + u /\ next = u * s + v
  <2>1. /\ pos + 1 \in Nat \ {0} /\ pos + k + 1 \in Nat \ {0} /\ pos + 5 \in Nat \ {0} /\ 4 - k \in 0..4
        /\ (pos + 1) + k = pos + k + 1 /\ (pos + k + 1) + (4 - k) = pos + 5 /\ 4 - (4 - k) = k
    BY <1>1
  <2>2. u \in 0..r - 1
    BY <2>1, BytesBound
  <2>3. v \in 0..s - 1
    BY <1>1, <2>1, BytesBound
  <2>4. BytesOf(out, pos + 1, k) = q
    BY WrittenStands, Zenon
  <2>5. BytesOf(out, pos + 1, 4) = BytesOf(out, pos + 1, k) * Pow[4 - k] + BytesOf(out, (pos + 1) + k, 4 - k)
    BY <1>1, <2>1, BytesJoin
  <2>6. BytesOf(out, pos + k + 1, 4)
          = BytesOf(out, pos + k + 1, 4 - k) * Pow[4 - (4 - k)] + BytesOf(out, (pos + k + 1) + (4 - k), 4 - (4 - k))
    BY <1>1, <2>1, BytesJoin
  <2>7. w = q * r + u
    BY <2>1, <2>4, <2>5, Zenon
  <2>8. next = u * s + v
    BY <2>1, <2>6, Zenon
  <2> QED BY <2>2, <2>3, <2>7, <2>8
<1>6. \A m \in 0..r - 1 : Wide((r * q + m) * s) = m * s
  BY <1>1, <1>4, WideShift
<1>7. LowAfter(low, k) = ml * s /\ HighAfter(high, k) = mh * s + s - 1
  <2> HIDE DEF ml, mh, q, r
  <2>1. Wide(low * s) = ml * s /\ Wide(high * s) = mh * s
    BY <1>4, <1>6
  <2> QED BY <2>1 DEF LowAfter, HighAfter
<1>8. next \in ml * s .. mh * s + s - 1
  BY <1>7
<1> HIDE DEF r, s, q, ml, mh, u, v, w, next
<1>9. ml <= u
  <2> SUFFICES ASSUME u < ml PROVE FALSE
    BY <1>2, <1>4, <1>5
  <2>1. s \in Nat /\ u \in Int /\ ml \in Int
    BY <1>2, <1>4, <1>5
  <2>2. u * s + s <= ml * s /\ u * s \in Int /\ ml * s \in Int
    BY <2>1, MultiplesRight, Zenon
  <2> DEFINE us == u * s
             least == ml * s
             most == mh * s
  <2>3. v \in 0..s - 1 /\ us + v \in least..most + s - 1 /\ least \in Int /\ most \in Int
    BY <1>2, <1>4, <1>5, <1>8
  <2>4. us + s <= least /\ us \in Int
    BY <2>2
  <2> HIDE DEF us, least, most
  <2> QED BY <2>1, <2>3, <2>4
<1>10. u <= mh
  <2> SUFFICES ASSUME mh < u PROVE FALSE
    BY <1>2, <1>4, <1>5
  <2>1. s \in Nat /\ u \in Int /\ mh \in Int
    BY <1>2, <1>4, <1>5
  <2>2. mh * s + s <= u * s /\ mh * s \in Int /\ u * s \in Int
    BY <2>1, MultiplesRight, Zenon
  <2> DEFINE us == u * s
             least == ml * s
             most == mh * s
  <2>3. v \in 0..s - 1 /\ us + v \in least..most + s - 1 /\ least \in Int /\ most \in Int
    BY <1>2, <1>4, <1>5, <1>8
  <2>4. most + s <= us /\ us \in Int
    BY <2>2
  <2> HIDE DEF us, least, most
  <2> QED BY <2>1, <2>3, <2>4
<1>11. w = r * q + u
  <2>1. q * r = r * q
    BY <1>2, <1>4
  <2> QED BY <1>5, <2>1
<1>12. w \in low..high
  <2>1. r * q \in Nat
    BY <1>2, <1>4
  <2> QED BY <1>2, <1>4, <1>5, <1>9, <1>10, <1>11, <2>1
<1>13. Wide(w * s) = u * s
  BY <1>5, <1>6, <1>11
<1>14. Wide(w * s) + v = next
  BY <1>5, <1>13
<1> QED BY <1>12, <1>14 DEF w, s, v, next, WindowMoves

---------------------------------------------------------------------------
(* The row of bounds that the coded bits lead through, with the bytes      *)
(* written at each: both sides go along it.                                *)

Point == [x1 : 0..Max, x2 : 0..Max, pos : Nat]

\* The bounds of a bit, before the bytes they share are shifted out.
LowOf(a, c)  == IF c.bit = 1 THEN a.x1 ELSE Mid(a.x1, a.x2, c.p) + 1
HighOf(a, c) == IF c.bit = 1 THEN Mid(a.x1, a.x2, c.p) ELSE a.x2
SharedOf(a, c) == Shared(LowOf(a, c), HighOf(a, c))

\* From one point to the next, with the bytes written between.
Goes(a, b, c, out) ==
  /\ b.x1 = LowAfter(LowOf(a, c), SharedOf(a, c)) /\ b.x2 = HighAfter(HighOf(a, c), SharedOf(a, c))
  /\ b.pos = a.pos + SharedOf(a, c)
  /\ Stands(out, a.pos, HighOf(a, c), SharedOf(a, c))

Traced(tr, coded, out) ==
  /\ tr \in [0..Len(coded) -> Point]
  /\ tr[0] = [x1 |-> 0, x2 |-> Max, pos |-> 0]
  /\ \A n \in 0..Len(coded) : TopByte(tr[n].x1) < TopByte(tr[n].x2)
  /\ \A n \in 1..Len(coded) : Goes(tr[n - 1], tr[n], coded[n], out)

\* The bounds of a bit lie within the point's own.
LEMMA BoundsOf ==
  ASSUME CarrylessAssumption, NEW a \in Point, TopByte(a.x1) < TopByte(a.x2), NEW c \in Codings
  PROVE  /\ Mid(a.x1, a.x2, c.p) \in a.x1..a.x2 - 1
         /\ LowOf(a, c) \in 0..Max /\ HighOf(a, c) \in 0..Max
         /\ a.x1 <= LowOf(a, c) /\ HighOf(a, c) <= a.x2
<1>1. B \in Nat \ {0, 1} /\ Scale \in Nat \ {0} /\ c.p \in 1..Scale - 1 /\ a.x1 \in 0..Max /\ a.x2 \in 0..Max
  BY DEF CarrylessAssumption, Codings, Point
<1>2. Top \in Nat \ {0} /\ Max \in Int
  BY <1>1, Powers DEF Top, Max
<1> DEFINE low == a.x1
           high == a.x2
           mid == Mid(low, high, c.p)
<1>3. low \in 0..Max /\ high \in 0..Max /\ TopByte(low) < TopByte(high)
  BY <1>1
<1>4. LowOf(a, c) = (IF c.bit = 1 THEN low ELSE mid + 1) /\ HighOf(a, c) = IF c.bit = 1 THEN mid ELSE high
  BY DEF LowOf, HighOf
<1> HIDE DEF low, high
<1>5. low < high
  BY <1>1, <1>3, TopOrders
<1>6. mid \in low..high - 1
  BY <1>1, <1>2, <1>3, <1>5, MidBetween
<1> HIDE DEF mid
<1>7. CASE c.bit = 1
  <2>1. LowOf(a, c) = low /\ HighOf(a, c) = mid
    BY <1>4, <1>7
  <2> QED BY <1>2, <1>3, <1>6, <2>1 DEF low, high, mid
<1>8. CASE c.bit # 1
  <2>1. LowOf(a, c) = mid + 1 /\ HighOf(a, c) = high
    BY <1>4, <1>8
  <2> QED BY <1>2, <1>3, <1>6, <2>1 DEF low, high, mid
<1> QED BY <1>7, <1>8

\* A window between the bounds of the next point lay between the bounds of the
\* bit, and becomes that window.
LEMMA BackOne ==
  ASSUME CarrylessAssumption, NEW out \in Seq(0..B - 1), NEW a \in Point, NEW b \in Point, NEW c \in Codings,
         TopByte(a.x1) < TopByte(a.x2), Goes(a, b, c, out), BytesOf(out, b.pos + 1, 4) \in b.x1..b.x2
  PROVE  /\ BytesOf(out, a.pos + 1, 4) \in LowOf(a, c)..HighOf(a, c)
         /\ Wide(BytesOf(out, a.pos + 1, 4) * Pow[SharedOf(a, c)]) + BytesOf(out, a.pos + 5, SharedOf(a, c))
              = BytesOf(out, b.pos + 1, 4)
<1> DEFINE low == LowOf(a, c)
           high == HighOf(a, c)
           k == SharedOf(a, c)
           pos == a.pos
<1>1. B \in Nat \ {0} /\ low \in 0..Max /\ high \in 0..Max /\ pos \in Nat
  BY BoundsOf DEF CarrylessAssumption, Point
<1>2. k = Shared(low, high)
  BY DEF SharedOf
<1>3. /\ b.x1 = LowAfter(low, k) /\ b.x2 = HighAfter(high, k) /\ b.pos = pos + k
      /\ Stands(out, pos, high, k)
  BY DEF Goes
<1> HIDE DEF low, high, k, pos
<1>4. k \in 0..4 /\ low \div Pow[4 - k] = high \div Pow[4 - k]
  <2>1. Shared(low, high) \in 0..4
    BY SharedIs
  <2> QED BY <1>1, <1>2, <2>1, SharedTop
<1>5. Stands(out, pos, high, k) /\ BytesOf(out, pos + k + 1, 4) \in LowAfter(low, k) .. HighAfter(high, k)
  BY <1>3
<1>6. WindowMoves(out, pos, low, high, k)
  BY <1>1, <1>4, <1>5, WindowGoes
<1> QED BY <1>3, <1>6 DEF low, high, k, pos, WindowMoves

\* Where the last lower bound is written whole, the window lies between the
\* bounds at every point, and no point is beyond the last.
LEMMA AllWithin ==
  ASSUME CarrylessAssumption, NEW out \in Seq(0..B - 1), NEW coded \in Seq(Codings), NEW tr, Traced(tr, coded, out),
         Stands(out, tr[Len(coded)].pos, tr[Len(coded)].x1, 4)
  PROVE  \A n \in 0..Len(coded) :
           BytesOf(out, tr[n].pos + 1, 4) \in tr[n].x1..tr[n].x2 /\ tr[n].pos <= tr[Len(coded)].pos
<1> DEFINE N == Len(coded)
           Within(n) == BytesOf(out, tr[n].pos + 1, 4) \in tr[n].x1..tr[n].x2 /\ tr[n].pos <= tr[N].pos
           P == {j \in 0..N : Within(N - j)}
<1>1. /\ N \in Nat /\ \A n \in 0..N : tr[n] \in Point /\ TopByte(tr[n].x1) < TopByte(tr[n].x2)
      /\ \A n \in 1..N : coded[n] \in Codings /\ Goes(tr[n - 1], tr[n], coded[n], out)
  BY DEF Traced
<1>2. B \in Nat \ {0} /\ Max \in Int
  BY Powers DEF CarrylessAssumption, Max
<1> HIDE DEF N
<1>3. Within(N)
  <2> DEFINE a == tr[N]
  <2>1. a \in Point /\ N \in 0..N /\ TopByte(a.x1) < TopByte(a.x2)
    BY <1>1
  <2>2. a.x1 \in 0..Max /\ a.x2 \in 0..Max /\ a.pos \in Nat /\ Stands(out, a.pos, a.x1, 4)
    BY <2>1 DEF Point, N
  <2>3. BytesOf(out, a.pos + 1, 4) = a.x1 \div Pow[4 - 4]
    BY <1>2, <2>2, WrittenStands
  <2> HIDE DEF a
  <2>4. a.x1 \div Pow[4 - 4] = a.x1
    <3>1. Pow[4 - 4] = 1
      BY <1>2, Powers
    <3>2. a.x1 \in Nat /\ a.x1 = 1 * a.x1 + 0 /\ 0 \in 0..1 - 1
      BY <2>2
    <3> QED BY <3>1, <3>2, PartedOnce
  <2>5. a.x1 <= a.x2
    <3> DEFINE low == a.x1
               high == a.x2
    <3>1. low \in 0..Max /\ high \in 0..Max /\ TopByte(low) < TopByte(high)
      BY <2>1, <2>2
    <3> HIDE DEF low, high
    <3>2. low < high
      BY <1>2, <3>1, TopOrders
    <3> QED BY <1>2, <3>1, <3>2 DEF low, high
  <2> QED BY <2>2, <2>3, <2>4, <2>5 DEF a
<1>4. ASSUME NEW n \in 1..N, Within(n) PROVE Within(n - 1)
  <2> DEFINE a == tr[n - 1]
             b == tr[n]
             c == coded[n]
             k == SharedOf(a, c)
  <2>1. /\ a \in Point /\ b \in Point /\ c \in Codings /\ TopByte(a.x1) < TopByte(a.x2) /\ Goes(a, b, c, out)
        /\ BytesOf(out, b.pos + 1, 4) \in b.x1..b.x2 /\ b.pos <= tr[N].pos
    <3>1. n - 1 \in 0..N /\ n \in 0..N
      BY <1>1
    <3> QED BY <1>1, <1>4, <3>1
  <2>2. tr[N] \in Point
    BY <1>1
  <2> HIDE DEF a, b, c
  <2>3. BytesOf(out, a.pos + 1, 4) \in LowOf(a, c)..HighOf(a, c)
    BY <2>1, BackOne
  <2>4. LowOf(a, c) \in 0..Max /\ HighOf(a, c) \in 0..Max /\ a.x1 <= LowOf(a, c) /\ HighOf(a, c) <= a.x2
    BY <2>1, BoundsOf
  <2>5. a.x1 \in Int /\ a.x2 \in Int /\ a.pos \in Nat /\ b.pos \in Nat /\ tr[N].pos \in Nat
    BY <2>1, <2>2 DEF Point
  <2>6. b.pos = a.pos + k /\ k \in 0..4
    BY <2>1, SharedIs DEF Goes, SharedOf
  <2> HIDE DEF k
  <2>7. BytesOf(out, a.pos + 1, 4) \in a.x1..a.x2
    <3> DEFINE low == LowOf(a, c)
               high == HighOf(a, c)
               x1 == a.x1
               x2 == a.x2
    <3>1. /\ BytesOf(out, a.pos + 1, 4) \in low..high /\ low \in Int /\ high \in Int
          /\ x1 <= low /\ high <= x2 /\ x1 \in Int /\ x2 \in Int
      BY <1>2, <2>3, <2>4, <2>5
    <3> HIDE DEF low, high, x1, x2
    <3>2. BytesOf(out, a.pos + 1, 4) \in x1..x2
      BY <3>1
    <3> QED BY <3>2 DEF x1, x2
  <2>8. a.pos <= tr[N].pos
    <3>1. b.pos <= tr[N].pos
      BY <2>1
    <3> QED BY <2>5, <2>6, <3>1
  <2> QED BY <2>7, <2>8 DEF a
<1> HIDE DEF Within
<1>5. 0..N \subseteq P
  <2>1. 0 \in P
    <3>1. N - 0 = N /\ 0 \in 0..N
      BY <1>1
    <3> QED BY <1>3, <3>1
  <2>2. ASSUME NEW j \in 1..N, j - 1 \in P PROVE j \in P
    <3>1. N - (j - 1) \in 1..N /\ (N - (j - 1)) - 1 = N - j /\ j \in 0..N
      BY <1>1
    <3>2. Within(N - (j - 1))
      BY <2>2
    <3> QED BY <1>4, <3>1, <3>2
  <2> HIDE DEF P
  <2> QED BY <1>1, <2>1, <2>2, UpTo
<1>6. ASSUME NEW n \in 0..N PROVE Within(n)
  <2>1. N - n \in 0..N /\ N - (N - n) = n
    BY <1>1
  <2> QED BY <1>5, <2>1
<1> QED BY <1>6 DEF Within, N

---------------------------------------------------------------------------
(* Both sides on the row.                                                  *)

\* The encoder is at the last point, with that many bytes written, or has
\* written its lower bound whole.
EncoderAt(tr, coded, e) ==
  /\ e.status \in {"coding", "finished"} /\ e.out \in Seq(0..B - 1)
  /\ e.status = "coding" =>
       e.x1 = tr[Len(coded)].x1 /\ e.x2 = tr[Len(coded)].x2 /\ Len(e.out) = tr[Len(coded)].pos
  /\ e.status = "finished" =>
       Len(e.out) = tr[Len(coded)].pos + 4 /\ Stands(e.out, tr[Len(coded)].pos, tr[Len(coded)].x1, 4)

\* The decoder is at the point of the bits it has given back, which are those
\* coded, with a window on the four bytes from there.
DecoderAt(tr, coded, e, c) ==
  /\ c.status \in {"new", "decoding"}
  /\ c.status = "new" => c.x1 = 0 /\ c.x2 = Max /\ c.bits = << >>
  /\ c.status = "decoding" =>
       /\ e.status = "finished" /\ Len(c.bits) <= Len(coded)
       /\ c.x1 = tr[Len(c.bits)].x1 /\ c.x2 = tr[Len(c.bits)].x2
       /\ c.pos = tr[Len(c.bits)].pos + 5 /\ c.x = BytesOf(e.out, tr[Len(c.bits)].pos + 1, 4)
  /\ \A i \in 1..Len(c.bits) : c.bits[i] = coded[i].bit

HasTrace(coded, e, c) == \E tr : Traced(tr, coded, e.out) /\ EncoderAt(tr, coded, e) /\ DecoderAt(tr, coded, e, c)

\* The strengthening of BitsComeBack.
CarrylessInvariant == Coded /\ BoundsApart /\ HasTrace(data, enc, dec)

\* What stands among the bytes stays there when more are written.
LEMMA StandsOn ==
  ASSUME NEW S, NEW out \in Seq(S), NEW more \in Seq(S), NEW pos \in Nat, NEW x, NEW k \in Nat, Stands(out, pos, x, k)
  PROVE  Stands(out \o more, pos, x, k)
<1>1. pos + k <= Len(out) /\ \A i \in 1..k : out[pos + i] = (x \div Pow[4 - i]) % B
  BY DEF Stands
<1>2. Len(out \o more) = Len(out) + Len(more) /\ Len(out) \in Nat /\ Len(more) \in Nat
  OBVIOUS
<1>3. \A j \in 1..Len(out) : (out \o more)[j] = out[j]
  OBVIOUS
<1>4. \A i \in 1..k : pos + i \in 1..Len(out)
  <2>1. pos + k <= Len(out)
    BY <1>1
  <2> QED BY <1>2, <2>1
<1>5. \A i \in 1..k : (out \o more)[pos + i] = (x \div Pow[4 - i]) % B
  BY <1>1, <1>3, <1>4, Zenon
<1>6. pos + k <= Len(out \o more)
  <2>1. pos + k <= Len(out)
    BY <1>1
  <2> QED BY <1>2, <2>1
<1> QED BY <1>5, <1>6 DEF Stands

\* The bytes of a bound that are written.
BytesFrom(x, k) == [i \in 1..k |-> (x \div Pow[4 - i]) % B]

LEMMA BytesFromStand ==
  ASSUME B \in Nat \ {0}, NEW x \in 0..Max, NEW k \in 0..4, NEW out \in Seq(0..B - 1)
  PROVE  /\ BytesFrom(x, k) \in Seq(0..B - 1) /\ Len(BytesFrom(x, k)) = k
         /\ out \o BytesFrom(x, k) \in Seq(0..B - 1) /\ Len(out \o BytesFrom(x, k)) = Len(out) + k
         /\ Stands(out \o BytesFrom(x, k), Len(out), x, k)
<1> DEFINE w == BytesFrom(x, k)
           byte(i) == (x \div Pow[4 - i]) % B
<1>1. \A i \in 1..k : byte(i) \in 0..B - 1
  <2> SUFFICES ASSUME NEW i \in 1..k PROVE byte(i) \in 0..B - 1
    OBVIOUS
  <2>1. 4 - i \in 0..4
    OBVIOUS
  <2>2. Pow[4 - i] \in Nat \ {0} /\ x \in Nat
    <3>1. \A j \in 0..4 : Pow[j] \in Nat \ {0}
      BY Powers
    <3>2. Max \in Int
      BY <3>1 DEF Max
    <3>3. x \in Nat
      BY <3>2
    <3>4. Pow[4 - i] \in Nat \ {0}
      BY <2>1, <3>1, Zenon
    <3> QED BY <3>3, <3>4
  <2> DEFINE t == Pow[4 - i]
             q == x \div t
  <2>3. q \in Nat
    <3> HIDE DEF t
    <3> QED BY <2>2, Parts DEF t
  <2> HIDE DEF q
  <2>4. q % B \in 0..B - 1
    BY <2>3, Parts
  <2> QED BY <2>4 DEF q, t
<1>2. w = [i \in 1..k |-> byte(i)]
  BY DEF BytesFrom
<1> HIDE DEF byte, w
<1>3. w \in Seq(0..B - 1) /\ Len(w) = k /\ \A i \in 1..k : w[i] = byte(i)
  BY <1>1, <1>2
<1>4. /\ out \o w \in Seq(0..B - 1) /\ Len(out \o w) = Len(out) + k
      /\ \A i \in 1..k : (out \o w)[Len(out) + i] = w[i]
  BY <1>3
<1>5. Len(out) + k <= Len(out \o w)
  <2>1. Len(out) \in Nat
    OBVIOUS
  <2> QED BY <1>4, <2>1
<1>6. \A i \in 1..k : (out \o w)[Len(out) + i] = byte(i)
  BY <1>3, <1>4, Zenon
<1>7. Stands(out \o w, Len(out), x, k)
  BY <1>5, <1>6 DEF Stands, byte
<1> QED BY <1>3, <1>4, <1>7 DEF w

\* What was traced stays traced when more bytes are written.
LEMMA TracedOn ==
  ASSUME NEW coded \in Seq(Codings), NEW out \in Seq(0..B - 1), NEW more \in Seq(0..B - 1), NEW tr,
         Traced(tr, coded, out)
  PROVE  Traced(tr, coded, out \o more)
<1>1. ASSUME NEW n \in 1..Len(coded) PROVE Goes(tr[n - 1], tr[n], coded[n], out \o more)
  <2> DEFINE a == tr[n - 1]
             b == tr[n]
             c == coded[n]
             k == SharedOf(a, c)
  <2>1. Goes(a, b, c, out)
    BY DEF Traced
  <2>2. a.pos \in Nat
    <3>1. n - 1 \in 0..Len(coded)
      OBVIOUS
    <3>2. a \in Point
      BY <3>1 DEF Traced
    <3> QED BY <3>2 DEF Point
  <2>3. k \in Nat
    <3>1. k \in 0..4
      BY SharedIs DEF SharedOf
    <3> HIDE DEF k
    <3> QED BY <3>1
  <2> HIDE DEF a, b, c, k
  <2>4. Stands(out, a.pos, HighOf(a, c), k)
    BY <2>1 DEF Goes, k
  <2>5. Stands(out \o more, a.pos, HighOf(a, c), k)
    BY <2>2, <2>3, <2>4, StandsOn
  <2>6. Goes(a, b, c, out \o more)
    BY <2>1, <2>5, Zenon DEF Goes, k
  <2> QED BY <2>6 DEF a, b, c
<1> QED BY <1>1 DEF Traced

\* A bit coded leads to one more point.
LEMMA EncodeTraced ==
  ASSUME CarrylessAssumption, CarrylessInvariant, NEW bit \in {0, 1}, NEW p \in Probs, Encode(bit, p)
  PROVE  CarrylessInvariant'
<1>1. (Coded /\ BoundsApart)'
  BY EncodeApart DEF CarrylessInvariant
<1>2. PICK tr : Traced(tr, data, enc.out) /\ EncoderAt(tr, data, enc) /\ DecoderAt(tr, data, enc, dec)
  BY DEF CarrylessInvariant, HasTrace
<1> DEFINE N == Len(data)
           a == tr[N]
           c == [bit |-> bit, p |-> p]
           k == SharedOf(a, c)
           w == BytesFrom(HighOf(a, c), k)
           b == [x1 |-> LowAfter(LowOf(a, c), k), x2 |-> HighAfter(HighOf(a, c), k), pos |-> a.pos + k]
           tr2 == [n \in 0..N + 1 |-> IF n = N + 1 THEN b ELSE tr[n]]
           coded == Append(data, c)
           out == enc.out \o w
<1>3. /\ N \in Nat /\ data \in Seq(Codings) /\ c \in Codings /\ enc.out \in Seq(0..B - 1) /\ enc.status = "coding"
      /\ enc.x1 = a.x1 /\ enc.x2 = a.x2 /\ Len(enc.out) = a.pos
      /\ tr \in [0..N -> Point] /\ tr[0] = [x1 |-> 0, x2 |-> Max, pos |-> 0]
      /\ \A n \in 0..N : TopByte(tr[n].x1) < TopByte(tr[n].x2)
  <2>1. data \in Seq(Codings)
    BY DEF CarrylessInvariant, Coded
  <2>2. c \in Codings
    BY DEF Codings
  <2>3. enc.status = "coding"
    BY DEF Encode
  <2> QED BY <1>2, <2>1, <2>2, <2>3 DEF Traced, EncoderAt
<1>4. /\ enc' = [enc EXCEPT !.x1 = b.x1, !.x2 = b.x2, !.out = out]
      /\ data' = coded /\ dec' = dec
  <2> DEFINE mid == Mid(enc.x1, enc.x2, p)
             x1  == IF bit = 1 THEN enc.x1 ELSE mid + 1
             x2  == IF bit = 1 THEN mid ELSE enc.x2
  <2>1. LowOf(a, c) = x1 /\ HighOf(a, c) = x2 /\ k = Shared(x1, x2)
    BY <1>3 DEF LowOf, HighOf, SharedOf
  <2>2. /\ enc' = [enc EXCEPT !.x1 = LowAfter(x1, Shared(x1, x2)), !.x2 = HighAfter(x2, Shared(x1, x2)),
                            !.out = @ \o [i \in 1..Shared(x1, x2) |-> (x2 \div Pow[4 - i]) % B]]
        /\ data' = Append(data, [bit |-> bit, p |-> p]) /\ dec' = dec
    BY DEF Encode
  <2> HIDE DEF x1, x2, k, a
  <2> QED BY <2>1, <2>2 DEF BytesFrom
<1>5. a \in Point /\ TopByte(a.x1) < TopByte(a.x2)
  <2>1. N \in 0..N
    BY <1>3
  <2> HIDE DEF N
  <2> QED BY <1>3, <2>1
<1>6. HighOf(a, c) \in 0..Max /\ k \in 0..4 /\ B \in Nat \ {0}
  <2>1. B \in Nat \ {0}
    BY DEF CarrylessAssumption
  <2>2. k \in 0..4
    BY SharedIs DEF SharedOf
  <2> HIDE DEF a, c, k
  <2> QED BY <1>3, <1>5, <2>1, <2>2, BoundsOf
<1>7. /\ w \in Seq(0..B - 1) /\ out \in Seq(0..B - 1) /\ Len(out) = a.pos + k
      /\ Stands(out, a.pos, HighOf(a, c), k)
  <2> DEFINE high == HighOf(a, c)
  <2>1. high \in 0..Max /\ k \in 0..4 /\ B \in Nat \ {0} /\ enc.out \in Seq(0..B - 1) /\ Len(enc.out) = a.pos
    BY <1>3, <1>6
  <2> HIDE DEF high, k, a
  <2>2. /\ BytesFrom(high, k) \in Seq(0..B - 1)
        /\ enc.out \o BytesFrom(high, k) \in Seq(0..B - 1) /\ Len(enc.out \o BytesFrom(high, k)) = Len(enc.out) + k
        /\ Stands(enc.out \o BytesFrom(high, k), Len(enc.out), high, k)
    BY <2>1, BytesFromStand
  <2> QED BY <2>1, <2>2, Zenon DEF high
<1>8. /\ enc'.x1 = b.x1 /\ enc'.x2 = b.x2 /\ enc'.out = out /\ enc'.status = "coding"
  <2> HIDE DEF b, out
  <2> QED BY <1>3, <1>4 DEF CarrylessInvariant, Coded
<1>9. b \in Point /\ TopByte(b.x1) < TopByte(b.x2)
  <2>1. b.x1 \in 0..Max /\ b.x2 \in 0..Max /\ TopByte(b.x1) < TopByte(b.x2)
    <3> HIDE DEF b
    <3> QED BY <1>1, <1>8 DEF BoundsApart
  <2>2. a.pos + k \in Nat
    <3> HIDE DEF a, k
    <3> QED BY <1>5, <1>6 DEF Point
  <2> HIDE DEF k, a, c
  <2> QED BY <2>1, <2>2 DEF Point
<1>10. /\ Len(coded) = N + 1 /\ coded[N + 1] = c /\ \A n \in 1..N : coded[n] = data[n]
       /\ \A n \in 1..N + 1 : n = N + 1 \/ n \in 1..N
  <2> HIDE DEF c
  <2> QED BY <1>3
<1>11. Goes(a, b, c, out)
  <2> HIDE DEF a, c, out
  <2> QED BY <1>7 DEF Goes
<1>12. Traced(tr, data, out)
  <2> HIDE DEF w
  <2> QED BY <1>2, <1>3, <1>7, TracedOn
<1> HIDE DEF a, b, c, k, w, coded, out
<1>13. /\ tr2 \in [0..N + 1 -> Point] /\ tr2[N + 1] = b
       /\ \A n \in 0..N : tr2[n] = tr[n]
  <2> HIDE DEF N
  <2>1. \A n \in 0..N + 1 : n = N + 1 \/ n \in 0..N
    BY <1>3
  <2>2. N + 1 \in 0..N + 1 /\ \A n \in 0..N : n \in 0..N + 1 /\ n # N + 1
    BY <1>3
  <2>3. \A n \in 0..N : tr[n] \in Point
    BY <1>3
  <2> QED BY <1>9, <2>1, <2>2, <2>3
<1> HIDE DEF tr2
<1>14. Traced(tr2, coded, out)
  <2>1. tr2 \in [0..Len(coded) -> Point] /\ tr2[0] = [x1 |-> 0, x2 |-> Max, pos |-> 0]
    <3>1. 0 \in 0..N
      BY <1>3
    <3> HIDE DEF N
    <3> QED BY <1>3, <1>10, <1>13, <3>1
  <2>2. \A n \in 0..Len(coded) : TopByte(tr2[n].x1) < TopByte(tr2[n].x2)
    <3> SUFFICES ASSUME NEW n \in 0..N + 1 PROVE TopByte(tr2[n].x1) < TopByte(tr2[n].x2)
      BY <1>10
    <3>1. n = N + 1 \/ n \in 0..N
      BY <1>3
    <3> HIDE DEF N
    <3> QED BY <1>3, <1>9, <1>13, <3>1
  <2>3. \A n \in 1..Len(coded) : Goes(tr2[n - 1], tr2[n], coded[n], out)
    <3> SUFFICES ASSUME NEW n \in 1..N + 1 PROVE Goes(tr2[n - 1], tr2[n], coded[n], out)
      BY <1>10
    <3>1. CASE n = N + 1
      <4>1. n - 1 = N /\ N \in 0..N
        BY <1>3, <3>1
      <4>2. tr2[n - 1] = a /\ tr2[n] = b /\ coded[n] = c
        BY <1>10, <1>13, <3>1, <4>1, Zenon DEF a
      <4> QED BY <1>11, <4>2, Zenon
    <3>2. CASE n # N + 1
      <4>1. n \in 1..N /\ n \in 0..N /\ n - 1 \in 0..N
        BY <1>3, <3>2
      <4>2. tr2[n - 1] = tr[n - 1] /\ tr2[n] = tr[n] /\ coded[n] = data[n]
        BY <1>10, <1>13, <4>1, Zenon
      <4>3. Goes(tr[n - 1], tr[n], data[n], out)
        BY <1>12, <4>1, Zenon DEF Traced
      <4> QED BY <4>2, <4>3, Zenon
    <3> QED BY <3>1, <3>2
  <2> QED BY <2>1, <2>2, <2>3, Zenon DEF Traced
<1>15. EncoderAt(tr2, coded, enc')
  <2>1. b.pos = a.pos + k
    BY DEF b
  <2> HIDE DEF N
  <2> QED BY <1>7, <1>8, <1>10, <1>13, <2>1 DEF EncoderAt
<1>16. DecoderAt(tr2, coded, enc', dec')
  <2>1. dec.status = "new" /\ dec.x1 = 0 /\ dec.x2 = Max /\ dec.bits = << >>
    BY <1>2, <1>3 DEF DecoderAt
  <2> HIDE DEF N
  <2> QED BY <1>4, <2>1 DEF DecoderAt
<1>17. HasTrace(data', enc', dec')
  <2>1. HasTrace(coded, enc', dec')
    BY <1>8, <1>14, <1>15, <1>16, Zenon DEF HasTrace
  <2> QED BY <1>4, <2>1
<1> QED BY <1>1, <1>17 DEF CarrylessInvariant

\* The lower bound is written whole.
LEMMA FinishTraced ==
  ASSUME CarrylessAssumption, CarrylessInvariant, FinishBounds
  PROVE  CarrylessInvariant'
<1>1. PICK tr : Traced(tr, data, enc.out) /\ EncoderAt(tr, data, enc) /\ DecoderAt(tr, data, enc, dec)
  BY DEF CarrylessInvariant, HasTrace
<1> DEFINE N == Len(data)
           a == tr[N]
           w == BytesFrom(a.x1, 4)
           out == enc.out \o w
<1>2. /\ N \in Nat /\ data \in Seq(Codings) /\ enc.out \in Seq(0..B - 1) /\ enc.status = "coding"
      /\ enc.x1 = a.x1 /\ Len(enc.out) = a.pos /\ a \in Point
  <2>1. data \in Seq(Codings)
    BY DEF CarrylessInvariant, Coded
  <2>2. enc.status = "coding"
    BY DEF FinishBounds
  <2>3. N \in Nat /\ N \in 0..N
    BY <2>1
  <2> QED BY <1>1, <2>1, <2>2, <2>3 DEF Traced, EncoderAt
<1>3. /\ enc' = [enc EXCEPT !.status = "finished", !.out = out]
      /\ data' = data /\ dec' = dec
  <2> HIDE DEF a
  <2> QED BY <1>2 DEF FinishBounds, BytesFrom
<1>4. w \in Seq(0..B - 1) /\ out \in Seq(0..B - 1) /\ Len(out) = a.pos + 4 /\ Stands(out, a.pos, a.x1, 4)
  <2> DEFINE low == a.x1
  <2>1. low \in 0..Max /\ B \in Nat \ {0} /\ 4 \in 0..4 /\ enc.out \in Seq(0..B - 1) /\ Len(enc.out) = a.pos
    BY <1>2 DEF Point, CarrylessAssumption
  <2> HIDE DEF low, a
  <2>2. /\ BytesFrom(low, 4) \in Seq(0..B - 1)
        /\ enc.out \o BytesFrom(low, 4) \in Seq(0..B - 1) /\ Len(enc.out \o BytesFrom(low, 4)) = Len(enc.out) + 4
        /\ Stands(enc.out \o BytesFrom(low, 4), Len(enc.out), low, 4)
    BY <2>1, BytesFromStand
  <2> QED BY <2>1, <2>2, Zenon DEF low
<1> HIDE DEF w
<1>5. Traced(tr, data, out)
  BY <1>1, <1>2, <1>4, TracedOn
<1> HIDE DEF out
<1>6. enc'.x1 = enc.x1 /\ enc'.x2 = enc.x2 /\ enc'.out = out /\ enc'.status = "finished"
      /\ enc' = [x1 |-> enc'.x1, x2 |-> enc'.x2, out |-> enc'.out, status |-> enc'.status]
  BY <1>3 DEF CarrylessInvariant, Coded
<1>7. EncoderAt(tr, data, enc')
  BY <1>4, <1>6 DEF EncoderAt
<1>8. DecoderAt(tr, data, enc', dec)
  <2>1. dec.status = "new"
    BY <1>1, <1>2 DEF DecoderAt
  <2> QED BY <1>1, <2>1 DEF DecoderAt
<1>9. HasTrace(data', enc', dec')
  <2>1. HasTrace(data, enc', dec)
    BY <1>5, <1>6, <1>7, <1>8, Zenon DEF HasTrace
  <2> QED BY <1>3, <2>1
<1>10. Coded' /\ BoundsApart'
  BY <1>3, <1>6 DEF CarrylessInvariant, Coded, BoundsApart
<1> QED BY <1>9, <1>10 DEF CarrylessInvariant

\* The decoder begins at the first point.
LEMMA StartTraced ==
  ASSUME CarrylessAssumption, CarrylessInvariant, StartBounds
  PROVE  CarrylessInvariant'
<1>1. PICK tr : Traced(tr, data, enc.out) /\ EncoderAt(tr, data, enc) /\ DecoderAt(tr, data, enc, dec)
  BY DEF CarrylessInvariant, HasTrace
<1>2. /\ dec' = [dec EXCEPT !.status = "decoding", !.x = BytesAt(1, 4), !.pos = 5]
      /\ data' = data /\ enc' = enc /\ enc.status = "finished" /\ dec.status = "new"
  BY DEF StartBounds
<1>3. /\ dec'.x1 = dec.x1 /\ dec'.x2 = dec.x2 /\ dec'.x = BytesAt(1, 4) /\ dec'.pos = 5 /\ dec'.bits = dec.bits
      /\ dec'.status = "decoding"
      /\ dec' = [x1 |-> dec'.x1, x2 |-> dec'.x2, x |-> dec'.x, pos |-> dec'.pos, bits |-> dec'.bits, status |-> dec'.status]
  BY <1>2 DEF CarrylessInvariant, Coded
<1>4. Coded' /\ BoundsApart'
  BY <1>2, <1>3 DEF CarrylessInvariant, Coded, BoundsApart
<1>5. dec.x1 = 0 /\ dec.x2 = Max /\ dec.bits = << >>
  BY <1>1, <1>2 DEF DecoderAt
<1>6. tr[0] = [x1 |-> 0, x2 |-> Max, pos |-> 0]
  BY <1>1 DEF Traced
<1>7. dec'.x = BytesOf(enc.out, tr[0].pos + 1, 4) /\ dec'.pos = tr[0].pos + 5
  <2>1. tr[0].pos + 1 = 1 /\ tr[0].pos + 5 = 5
    BY <1>6
  <2> QED BY <1>3, <2>1, BytesAre, Zenon
<1>8. DecoderAt(tr, data, enc, dec')
  <2>1. Len(dec'.bits) = 0 /\ Len(data) \in Nat
    BY <1>3, <1>5 DEF CarrylessInvariant, Coded
  <2>2. 0 <= Len(data) /\ tr[0].x1 = 0 /\ tr[0].x2 = Max
    BY <1>6, <2>1
  <2>3. \A i \in 1..Len(dec'.bits) : dec'.bits[i] = data[i].bit
    BY <2>1
  <2> QED BY <1>2, <1>3, <1>5, <1>7, <2>1, <2>2, <2>3 DEF DecoderAt
<1>9. HasTrace(data, enc, dec')
  BY <1>1, <1>8, Zenon DEF HasTrace
<1>10. HasTrace(data', enc', dec')
  BY <1>2, <1>9
<1> QED BY <1>4, <1>10 DEF CarrylessInvariant

\* A bit given back is the one coded and leads to the next point.
LEMMA DecodeTraced ==
  ASSUME CarrylessAssumption, CarrylessInvariant, Decode
  PROVE  CarrylessInvariant'
<1>1. (Coded /\ BoundsApart)'
  BY DecodeApart DEF CarrylessInvariant
<1>2. PICK tr : Traced(tr, data, enc.out) /\ EncoderAt(tr, data, enc) /\ DecoderAt(tr, data, enc, dec)
  BY DEF CarrylessInvariant, HasTrace
<1> DEFINE N == Len(data)
           n == Len(dec.bits) + 1
           a == tr[n - 1]
           b == tr[n]
           c == data[n]
           k == SharedOf(a, c)
           mid == Mid(dec.x1, dec.x2, c.p)
           bit == IF dec.x <= mid THEN 1 ELSE 0
<1>3. /\ dec.status = "decoding" /\ enc.status = "finished" /\ n \in 1..N /\ n - 1 \in 0..N /\ n - 1 = Len(dec.bits)
      /\ dec.bits \in Seq({0, 1}) /\ data \in Seq(Codings)
  <2>1. dec.status = "decoding" /\ Len(dec.bits) < Len(data)
    BY DEF Decode
  <2>2. dec.bits \in Seq({0, 1}) /\ data \in Seq(Codings)
    BY DEF CarrylessInvariant, Coded
  <2>3. Len(dec.bits) \in Nat /\ Len(data) \in Nat
    BY <2>2
  <2>4. enc.status = "finished"
    BY <1>2, <2>1 DEF DecoderAt
  <2> QED BY <2>1, <2>2, <2>3, <2>4
<1>4. /\ a \in Point /\ b \in Point /\ c \in Codings /\ TopByte(a.x1) < TopByte(a.x2) /\ Goes(a, b, c, enc.out)
      /\ enc.out \in Seq(0..B - 1)
  <2>1. n \in 0..N
    BY <1>3
  <2>2. c \in Codings
    <3> HIDE DEF n
    <3> QED BY <1>3
  <2> HIDE DEF n
  <2> QED BY <1>2, <1>3, <2>1, <2>2 DEF Traced, EncoderAt
<1>5. /\ dec.x1 = a.x1 /\ dec.x2 = a.x2 /\ dec.pos = a.pos + 5 /\ dec.x = BytesOf(enc.out, a.pos + 1, 4)
      /\ \A i \in 1..Len(dec.bits) : dec.bits[i] = data[i].bit
  BY <1>2, <1>3 DEF DecoderAt
<1>6. BytesOf(enc.out, b.pos + 1, 4) \in b.x1..b.x2
  <2>1. Stands(enc.out, tr[N].pos, tr[N].x1, 4)
    BY <1>2, <1>3 DEF EncoderAt
  <2>2. \A m \in 0..N : BytesOf(enc.out, tr[m].pos + 1, 4) \in tr[m].x1..tr[m].x2
    BY <1>2, <1>3, <1>4, <2>1, AllWithin
  <2>3. n \in 0..N
    BY <1>3
  <2> HIDE DEF n
  <2> QED BY <2>2, <2>3
<1>7. /\ dec.x \in LowOf(a, c)..HighOf(a, c)
      /\ Wide(dec.x * Pow[k]) + BytesOf(enc.out, a.pos + 5, k) = BytesOf(enc.out, b.pos + 1, 4)
  <2> HIDE DEF a, b, c
  <2> QED BY <1>4, <1>5, <1>6, BackOne
<1>8. bit = c.bit
  <2>1. /\ mid \in a.x1..a.x2 - 1 /\ LowOf(a, c) = (IF c.bit = 1 THEN a.x1 ELSE mid + 1)
        /\ HighOf(a, c) = (IF c.bit = 1 THEN mid ELSE a.x2) /\ c.bit \in {0, 1} /\ a.x1 \in 0..Max /\ a.x2 \in 0..Max
    <3> HIDE DEF a, c
    <3> QED BY <1>4, <1>5, BoundsOf DEF LowOf, HighOf, Codings, Point
  <2> HIDE DEF a, c, mid
  <2>2. CASE c.bit = 1
    BY <1>7, <2>1, <2>2
  <2>3. CASE c.bit = 0
    BY <1>7, <2>1, <2>3
  <2> QED BY <2>1, <2>2, <2>3
<1>9. /\ data' = data /\ enc' = enc
      /\ dec' = [dec EXCEPT !.x1 = b.x1, !.x2 = b.x2, !.x = BytesOf(enc.out, b.pos + 1, 4),
                            !.pos = b.pos + 5, !.bits = Append(@, c.bit)]
  <2> DEFINE x1  == IF bit = 1 THEN dec.x1 ELSE mid + 1
             x2  == IF bit = 1 THEN mid ELSE dec.x2
             j   == Shared(x1, x2)
  <2>1. /\ dec' = [dec EXCEPT !.x1 = LowAfter(x1, j), !.x2 = HighAfter(x2, j),
                              !.x = Wide(@ * Pow[j]) + BytesAt(dec.pos, j),
                              !.pos = @ + j, !.bits = Append(@, bit)]
        /\ data' = data /\ enc' = enc
    BY DEF Decode
  <2>2. x1 = LowOf(a, c) /\ x2 = HighOf(a, c)
    <3> HIDE DEF a, c, bit
    <3> QED BY <1>5, <1>8 DEF LowOf, HighOf
  <2> HIDE DEF x1, x2
  <2>3. j = k
    BY <2>2 DEF SharedOf
  <2>4. LowAfter(x1, j) = b.x1 /\ HighAfter(x2, j) = b.x2 /\ b.pos = a.pos + k
    <3> HIDE DEF a, b, c, j
    <3> QED BY <1>4, <2>2, <2>3 DEF Goes
  <2>5. Wide(dec.x * Pow[j]) + BytesAt(dec.pos, j) = BytesOf(enc.out, b.pos + 1, 4)
    <3> HIDE DEF a, b, c, j, k
    <3> QED BY <1>5, <1>7, <2>3, BytesAre, Zenon
  <2>6. dec.pos + j = b.pos + 5
    <3>1. k \in 0..4
      BY SharedIs DEF SharedOf
    <3> HIDE DEF a, b, c, j, k
    <3> QED BY <1>4, <1>5, <2>3, <2>4, <3>1 DEF Point
  <2> HIDE DEF a, b, c, j, k, bit
  <2> QED BY <1>8, <2>1, <2>4, <2>5, <2>6
<1>10. /\ dec'.x1 = b.x1 /\ dec'.x2 = b.x2 /\ dec'.x = BytesOf(enc.out, b.pos + 1, 4) /\ dec'.pos = b.pos + 5
       /\ dec'.bits = Append(dec.bits, c.bit) /\ dec'.status = "decoding"
  <2> HIDE DEF b, c
  <2> QED BY <1>3, <1>9 DEF CarrylessInvariant, Coded
<1>11. /\ Len(dec'.bits) = n /\ n <= N
       /\ \A i \in 1..Len(dec'.bits) : dec'.bits[i] = data[i].bit
  <2>1. Len(dec'.bits) = n /\ n <= N
    <3> HIDE DEF c
    <3> QED BY <1>3, <1>10
  <2>2. ASSUME NEW i \in 1..n PROVE dec'.bits[i] = data[i].bit
    <3>1. CASE i = n
      <4> DEFINE bits == dec.bits
      <4> HIDE DEF c
      <4>1. dec'.bits[n] = c.bit
        BY <1>3, <1>10
      <4> QED BY <3>1, <4>1 DEF c
    <3>2. CASE i # n
      <4>1. i \in 1..Len(dec.bits)
        BY <1>3, <3>2
      <4>2. dec'.bits[i] = dec.bits[i]
        <5> HIDE DEF c
        <5> QED BY <1>3, <1>10, <4>1
      <4> QED BY <1>5, <4>1, <4>2
    <3> QED BY <3>1, <3>2
  <2> QED BY <2>1, <2>2
<1>12. DecoderAt(tr, data, enc, dec')
  <2> HIDE DEF n
  <2> QED BY <1>3, <1>10, <1>11 DEF DecoderAt
<1>13. HasTrace(data', enc', dec')
  <2>1. HasTrace(data, enc, dec')
    BY <1>2, <1>12, Zenon DEF HasTrace
  <2> QED BY <1>9, <2>1
<1> QED BY <1>1, <1>13 DEF CarrylessInvariant

\* Before anything is coded there is one point.
LEMMA FirstTraced ==
  ASSUME CarrylessAssumption, CarrylessInit
  PROVE  CarrylessInvariant
<1>1. Coded /\ BoundsApart
  BY FirstApart
<1> DEFINE tr == [n \in 0..0 |-> [x1 |-> 0, x2 |-> Max, pos |-> 0]]
<1>2. Max \in Nat
  <2>1. B \in Nat \ {0}
    BY DEF CarrylessAssumption
  <2> QED BY <2>1, Powers DEF Max
<1>3. TopByte(0) < TopByte(Max)
  BY <1>1 DEF CarrylessInit, BoundsApart
<1>4. data = << >> /\ enc.out = << >> /\ Len(data) = 0 /\ Len(enc.out) = 0
  BY DEF CarrylessInit
<1>5. /\ tr \in [0..0 -> Point] /\ tr[0] = [x1 |-> 0, x2 |-> Max, pos |-> 0]
  BY <1>2 DEF Point
<1> HIDE DEF tr
<1>6. Traced(tr, data, enc.out)
  <2>1. 1..0 = {} /\ \A n \in 0..0 : n = 0
    OBVIOUS
  <2>2. tr[0].x1 = 0 /\ tr[0].x2 = Max
    BY <1>5
  <2> QED BY <1>3, <1>4, <1>5, <2>1, <2>2 DEF Traced
<1>7. EncoderAt(tr, data, enc)
  BY <1>4, <1>5 DEF CarrylessInit, EncoderAt
<1>8. DecoderAt(tr, data, enc, dec)
  BY DEF CarrylessInit, DecoderAt
<1> QED BY <1>1, <1>6, <1>7, <1>8, Zenon DEF CarrylessInvariant, HasTrace

\* Every step keeps the invariant.
LEMMA CarrylessKeeps ==
  ASSUME CarrylessAssumption, CarrylessInvariant, [CarrylessNext]_coderVars
  PROVE  CarrylessInvariant'
<1>1. CASE \E b \in {0, 1}, p \in Probs : Encode(b, p)
  BY <1>1, EncodeTraced
<1>2. CASE FinishBounds
  BY <1>2, FinishTraced
<1>3. CASE StartBounds
  BY <1>3, StartTraced
<1>4. CASE Decode
  BY <1>4, DecodeTraced
<1>5. CASE UNCHANGED coderVars
  BY <1>5 DEF coderVars, CarrylessInvariant, Coded, BoundsApart
<1> QED BY <1>1, <1>2, <1>3, <1>4, <1>5 DEF CarrylessNext

\* What it promises.
LEMMA CarrylessPromises ==
  ASSUME CarrylessAssumption, CarrylessInvariant
  PROVE  BoundsApart /\ BitsComeBack
<1>1. PICK tr : Traced(tr, data, enc.out) /\ EncoderAt(tr, data, enc) /\ DecoderAt(tr, data, enc, dec)
  BY DEF CarrylessInvariant, HasTrace
<1> DEFINE N == Len(data)
           n == Len(dec.bits)
<1>2. \A i \in 1..n : dec.bits[i] = data[i].bit
  BY <1>1 DEF DecoderAt
<1>3. ASSUME dec.status = "decoding" PROVE dec.x \in dec.x1 .. dec.x2 /\ dec.pos <= Len(enc.out) + 1
  <2>1. /\ enc.status = "finished" /\ n <= N /\ dec.x1 = tr[n].x1 /\ dec.x2 = tr[n].x2
        /\ dec.pos = tr[n].pos + 5 /\ dec.x = BytesOf(enc.out, tr[n].pos + 1, 4)
    BY <1>1, <1>3 DEF DecoderAt
  <2>2. data \in Seq(Codings) /\ n \in 0..N /\ N \in 0..N
    BY <2>1 DEF CarrylessInvariant, Coded
  <2>3. enc.out \in Seq(0..B - 1) /\ Len(enc.out) = tr[N].pos + 4 /\ Stands(enc.out, tr[N].pos, tr[N].x1, 4)
    BY <1>1, <2>1 DEF EncoderAt
  <2>4. BytesOf(enc.out, tr[n].pos + 1, 4) \in tr[n].x1..tr[n].x2 /\ tr[n].pos <= tr[N].pos
    BY <1>1, <2>2, <2>3, AllWithin
  <2>5. tr[n] \in Point /\ tr[N] \in Point
    BY <1>1, <2>2 DEF Traced
  <2>6. dec.pos <= Len(enc.out) + 1
    <3>1. tr[n].pos \in Nat /\ tr[N].pos \in Nat
      BY <2>5 DEF Point
    <3>2. dec.pos = tr[n].pos + 5 /\ Len(enc.out) = tr[N].pos + 4 /\ tr[n].pos <= tr[N].pos
      BY <2>1, <2>3, <2>4
    <3> HIDE DEF n, N
    <3> QED BY <3>1, <3>2
  <2> QED BY <2>1, <2>4, <2>6
<1> QED BY <1>2, <1>3 DEF BitsComeBack, CarrylessInvariant

---------------------------------------------------------------------------
(* The mixing model of bwt_cm.rs.                                          *)

\* The powers of two, one by one; a byte has two values at least.
LEMMA TwoIs ==
  ASSUME BwtCmAssumption
  PROVE  /\ Two[0] = 1 /\ \A k \in 1..ByteBits : Two[k] = 2 * Two[k - 1]
         /\ \A k \in 0..ByteBits : Two[k] \in Nat \ {0}
         /\ B = Two[ByteBits] /\ ByteBits \in Nat \ {0} /\ B \in Nat \ {0, 1}
<1> DEFINE N == ByteBits
           S == Nat \ {0}
           g == [x \in S |-> 2 * x]
           Powered(f) == f = [k \in 0..N |-> IF k = 0 THEN 1 ELSE 2 * f[k - 1]]
<1>1. N \in Nat \ {0} /\ B = Two[N]
  BY DEF BwtCmAssumption
<1>2. HasIterates(N, S, 1, g)
  <2>1. \A x \in S : 2 * x \in S
    OBVIOUS
  <2>2. g \in [S -> S] /\ 1 \in S /\ N \in Nat
    BY <1>1, <2>1
  <2> HIDE DEF g, S, N
  <2> QED BY <2>2, Iterates, Zenon
<1>3. PICK f \in [0..N -> S] : f[0] = 1 /\ \A k \in 1..N : f[k] = g[f[k - 1]]
  BY <1>2, Zenon DEF HasIterates
<1> HIDE DEF N
<1>4. \A k \in 1..N : f[k] = 2 * f[k - 1]
  <2> SUFFICES ASSUME NEW k \in 1..N PROVE f[k] = 2 * f[k - 1]
    OBVIOUS
  <2>1. k - 1 \in 0..N
    BY <1>1
  <2>2. f[k - 1] \in S
    BY <2>1
  <2> HIDE DEF S
  <2> QED BY <1>3, <2>2
<1>5. Powered(f)
  <2>1. f = [k \in 0..N |-> f[k]]
    OBVIOUS
  <2>2. \A k \in 0..N : f[k] = IF k = 0 THEN 1 ELSE 2 * f[k - 1]
    <3>1. \A k \in 0..N : k = 0 \/ k \in 1..N
      BY <1>1
    <3> QED BY <1>3, <1>4, <3>1, Zenon
  <2> QED BY <2>1, <2>2, Zenon
<1>6. Two = CHOOSE p : Powered(p)
  BY DEF Two, N
<1>7. Powered(Two)
  <2> HIDE DEF Powered
  <2> QED BY <1>5, <1>6
<1>8. Two[0] = 1 /\ \A k \in 1..N : Two[k] = 2 * Two[k - 1]
  <2>1. \A k \in 0..N : Two[k] = IF k = 0 THEN 1 ELSE 2 * Two[k - 1]
    BY <1>7, Zenon
  <2>2. 0 \in 0..N /\ \A k \in 1..N : k \in 0..N /\ k # 0
    BY <1>1
  <2> QED BY <2>1, <2>2, Zenon
<1>9. \A k \in 0..N : Two[k] = f[k]
  <2> DEFINE P == {k \in 0..N : Two[k] = f[k]}
  <2>1. 0 \in P
    BY <1>1, <1>3, <1>8
  <2>2. \A k \in 1..N : k - 1 \in P => k \in P
    <3> SUFFICES ASSUME NEW k \in 1..N, k - 1 \in P PROVE Two[k] = f[k] /\ k \in 0..N
      OBVIOUS
    <3>1. Two[k - 1] = f[k - 1]
      OBVIOUS
    <3> QED BY <1>1, <1>4, <1>8, <3>1
  <2>3. 0..N \subseteq P
    <3> HIDE DEF P
    <3>1. N \in Nat
      BY <1>1
    <3> QED BY <2>1, <2>2, <3>1, UpTo
  <2> QED BY <2>3
<1>10. \A k \in 0..N : Two[k] \in Nat \ {0}
  BY <1>9
<1>11. B \in Nat \ {0, 1}
  <2> DEFINE t == Two[N - 1]
  <2>1. N \in 1..N /\ N - 1 \in 0..N
    BY <1>1
  <2>2. t \in Nat \ {0} /\ B = 2 * t
    BY <1>1, <1>8, <1>10, <2>1
  <2> HIDE DEF t
  <2> QED BY <2>2
<1> QED BY <1>1, <1>8, <1>10, <1>11 DEF N

\* Short of a whole byte there is room for another bit.
LEMMA TwoGrows ==
  ASSUME BwtCmAssumption, NEW k \in 0..ByteBits
  PROVE  Two[k] <= B /\ (k < ByteBits => 2 * Two[k] <= B)
<1> DEFINE N == ByteBits
           P == {d \in 0..N : Two[N - d] <= B}
<1>1. N \in Nat /\ B \in Nat /\ B = Two[N]
  BY TwoIs
<1> HIDE DEF N
<1>2. 0 \in P
  <2>1. N - 0 = N /\ 0 \in 0..N
    BY <1>1
  <2> QED BY <1>1, <2>1
<1>3. ASSUME NEW d \in 1..N, d - 1 \in P PROVE d \in P
  <2>1. N - d + 1 \in 1..N /\ (N - d + 1) - 1 = N - d /\ N - (d - 1) = N - d + 1 /\ N - d \in 0..N /\ d \in 0..N
    BY <1>1
  <2>2. Two[N - d + 1] = 2 * Two[N - d] /\ Two[N - d] \in Nat
    BY <2>1, TwoIs DEF N
  <2>3. Two[N - d + 1] <= B
    BY <1>3, <2>1
  <2> QED BY <1>1, <2>1, <2>2, <2>3
<1>4. 0..N \subseteq P
  <2> HIDE DEF P
  <2> QED BY <1>1, <1>2, <1>3, UpTo
<1>5. \A j \in 0..N : Two[j] <= B
  <2> SUFFICES ASSUME NEW j \in 0..N PROVE Two[j] <= B
    OBVIOUS
  <2>1. N - j \in 0..N /\ N - (N - j) = j
    BY <1>1
  <2>2. N - j \in P
    BY <1>4, <2>1
  <2> QED BY <2>1, <2>2
<1>6. k < N => 2 * Two[k] <= B
  <2> SUFFICES ASSUME k < N PROVE 2 * Two[k] <= B
    OBVIOUS
  <2>1. k + 1 \in 1..N /\ (k + 1) - 1 = k /\ k + 1 \in 0..N
    BY <1>1 DEF N
  <2>2. Two[k + 1] = 2 * Two[k]
    BY <2>1, TwoIs DEF N
  <2> QED BY <1>5, <2>1, <2>2
<1> QED BY <1>5, <1>6 DEF N

\* A word is a number that is not too large.
LEMMA WordIs ==
  /\ Full = 65535 /\ \A n \in Word : n \in Nat /\ n <= 65535
  /\ \A n \in Nat : n <= 65535 => n \in Word
<1>1. Full = 65535
  BY DEF Full
<1>2. Full \in Nat
  BY <1>1
<1>3. \A n : n \in Word <=> n \in Nat /\ n <= Full
  BY <1>2 DEF Word
<1> QED BY <1>1, <1>3

\* What a counter becomes stays in its word.
LEMMA AdaptFits ==
  ASSUME NEW p \in Word, NEW bit \in {0, 1}, NEW slow \in {4, 16, 64}
  PROVE  Adapt(p, bit, slow) \in Word
<1>1. slow \in Nat \ {0} /\ p \in Nat /\ Full - p \in Nat /\ p <= Full /\ Full \in Nat
  BY WordIs
<1>2. ASSUME NEW x \in Nat PROVE x \div slow \in Nat /\ x \div slow <= x
  <2> DEFINE q == x \div slow
  <2>1. q \in Nat /\ x % slow \in Nat /\ x = slow * q + (x % slow)
    BY <1>1, Parts
  <2> HIDE DEF q
  <2>2. slow * q >= q
    BY <2>1
  <2> QED BY <2>1, <2>2 DEF q
<1>3. CASE bit = 1
  <2> DEFINE q == (Full - p) \div slow
  <2>1. q \in Nat /\ q <= Full - p
    BY <1>1, <1>2
  <2>2. Adapt(p, bit, slow) = p + q
    BY <1>3 DEF Adapt
  <2> HIDE DEF q
  <2> QED BY <2>1, <2>2, <1>1, WordIs
<1>4. CASE bit = 0
  <2> DEFINE q == p \div slow
  <2>1. q \in Nat /\ q <= p
    BY <1>1, <1>2
  <2>2. Adapt(p, bit, slow) = p - q
    BY <1>4 DEF Adapt
  <2> HIDE DEF q
  <2> QED BY <2>1, <2>2, <1>1, WordIs
<1> QED BY <1>3, <1>4

\* A model whose numbers fit.
BucketRows == [0..Buckets-1 -> Word]
ModelType ==
  [order0 : [Node -> Word], order1 : [Byte -> [Node -> Word]], sse : [BOOLEAN -> [Node -> BucketRows]],
   node : Node, c1 : Byte, c2 : Byte, run : Nat]

\* There is a bucket on either side of the mix.
LEMMA BucketIs ==
  ASSUME NEW m \in ModelType
  PROVE  Bucket(m) \in 0..Buckets-2 /\ Bucket(m) + 1 \in 0..Buckets-1 /\ LongRun(m) \in BOOLEAN
<1> DEFINE p0 == m.order0[m.node]
           p1 == m.order1[m.c1][m.node]
           p2 == m.order1[m.c2][m.node]
           x == (p0 + p1) * 7 + p2 * 2
<1>1. p0 \in Word /\ p1 \in Word /\ p2 \in Word
  <2>1. m.order1[m.c1] \in [Node -> Word] /\ m.order1[m.c2] \in [Node -> Word] /\ m.node \in Node /\ m.order0 \in [Node -> Word]
    BY DEF ModelType
  <2> QED BY <2>1
<1>2. Mixed(m) = x \div 16
  BY DEF Mixed
<1> HIDE DEF p0, p1, p2
<1>3. x \in Nat /\ x <= 1048560
  BY <1>1, WordIs
<1> HIDE DEF x
<1>4. x \div 16 \in Nat /\ x \div 16 <= 65535
  BY <1>3
<1>5. Bucket(m) \in Nat /\ Bucket(m) <= 15
  BY <1>2, <1>4 DEF Bucket
<1>6. Bucket(m) \in 0..Buckets-2 /\ Bucket(m) + 1 \in 0..Buckets-1
  BY <1>5 DEF Buckets
<1> QED BY <1>6 DEF LongRun

\* A share of the way from one number to another lies between them.
LEMMA BetweenIs ==
  ASSUME NEW lo \in Word, NEW hi \in Word, NEW r \in Nat, r < 4096
  PROVE  lo + ((hi - lo) * r) \div 4096 \in Word
<1>1. lo \in Nat /\ hi \in Nat /\ lo <= 65535 /\ hi <= 65535 /\ r \in Nat /\ r < 4096
  BY WordIs
<1> DEFINE e == (hi - lo) * r
           way == e \div 4096
<1>2. CASE lo <= hi
  <2> DEFINE d == hi - lo
  <2>1. d \in Nat /\ hi = lo + d
    BY <1>1, <1>2
  <2>2. e = d * r
    OBVIOUS
  <2> HIDE DEF d, e
  <2>3. d * r + d <= d * 4096 /\ d * r \in Nat
    <3>1. d * r + d <= d * 4096 /\ d * r \in Int
      BY <1>1, <2>1, Multiples
    <3>2. d * r \in Nat
      BY <1>1, <2>1
    <3> QED BY <3>1, <3>2
  <2>4. e \in Nat /\ e <= 4096 * d
    BY <2>1, <2>2, <2>3
  <2>5. way \in Nat /\ way <= d
    BY <2>1, <2>4
  <2> HIDE DEF way
  <2>6. lo + way \in Nat /\ lo + way <= 65535
    BY <1>1, <2>1, <2>5
  <2> QED BY <2>6, WordIs DEF way, e
<1>3. CASE ~(lo <= hi)
  <2> DEFINE d == lo - hi
             f == d * r
  <2>1. d \in Nat /\ lo = hi + d
    BY <1>1, <1>3
  <2>2. e = 0 - f
    BY <1>1
  <2>3. f + d <= d * 4096 /\ f \in Nat
    <3> HIDE DEF d
    <3>1. d * r + d <= d * 4096 /\ d * r \in Int
      BY <1>1, <2>1, Multiples
    <3>2. d * r \in Nat
      BY <1>1, <2>1
    <3> QED BY <3>1, <3>2
  <2> HIDE DEF d, e, f
  <2>4. e \in Int /\ e <= 0 /\ 0 - 4096 * d <= e
    BY <2>1, <2>2, <2>3
  <2>5. way \in Int /\ way <= 0 /\ 0 - d <= way
    BY <2>1, <2>4
  <2> HIDE DEF way
  <2>6. lo + way \in Nat /\ lo + way <= 65535
    BY <1>1, <2>1, <2>5
  <2> QED BY <2>6, WordIs DEF way, e
<1> QED BY <1>2, <1>3

\* What lies between the buckets fits, and the coder is given a probability.
LEMMA PredictIs ==
  ASSUME NEW m \in ModelType
  PROVE  Refined(m) \in Word /\ Predict(m) \in 1..Full
<1> DEFINE p  == Mixed(m)
           lo == BucketRow(m)[Bucket(m)]
           hi == BucketRow(m)[Bucket(m) + 1]
           mixed == (p + 3 * Refined(m)) \div 4
<1>1. lo \in Word /\ hi \in Word
  <2>1. Bucket(m) \in 0..Buckets-1 /\ Bucket(m) + 1 \in 0..Buckets-1 /\ LongRun(m) \in BOOLEAN
    BY BucketIs DEF Buckets
  <2>2. m.sse \in [BOOLEAN -> [Node -> BucketRows]] /\ m.node \in Node
    BY DEF ModelType
  <2>3. BucketRow(m) \in BucketRows
    BY <2>1, <2>2 DEF BucketRow
  <2> QED BY <2>1, <2>3 DEF BucketRows
<1>2. p \in Nat
  <2> DEFINE p0 == m.order0[m.node]
           p1 == m.order1[m.c1][m.node]
           p2 == m.order1[m.c2][m.node]
           x == (p0 + p1) * 7 + p2 * 2
  <2>1. p0 \in Word /\ p1 \in Word /\ p2 \in Word
    <3>1. m.order1[m.c1] \in [Node -> Word] /\ m.order1[m.c2] \in [Node -> Word] /\ m.node \in Node /\ m.order0 \in [Node -> Word]
      BY DEF ModelType
    <3> QED BY <3>1
  <2>2. p = x \div 16
    BY DEF Mixed
  <2> HIDE DEF p, p0, p1, p2
  <2> QED BY <2>1, <2>2, WordIs
<1>3. Refined(m) \in Word
  <2> DEFINE r == p % 4096
  <2>1. r \in Nat /\ r < 4096
    <3> HIDE DEF p
    <3> QED BY <1>2
  <2>2. Refined(m) = lo + ((hi - lo) * r) \div 4096
    BY Zenon DEF Refined
  <2> HIDE DEF r, lo, hi
  <2> QED BY <1>1, <2>1, <2>2, BetweenIs
<1>4. Predict(m) = Clamp(mixed, 1, Full)
  BY Zenon DEF Predict
<1>5. mixed \in Int
  <2> HIDE DEF p
  <2>1. Refined(m) \in Nat
    BY <1>3, WordIs
  <2> QED BY <1>2, <2>1
<1> HIDE DEF mixed
<1>6. Full \in Nat \ {0}
  BY WordIs
<1> QED BY <1>3, <1>4, <1>5, <1>6 DEF Clamp

\* A new model's numbers fit.
LEMMA NewFits ==
  ASSUME BwtCmAssumption
  PROVE  NewModel \in ModelType /\ NewModel.node = 1 /\ NewModel.c1 = 0 /\ NewModel.c2 = 0 /\ NewModel.run = 0
<1>1. B \in Nat \ {0, 1}
  BY TwoIs
<1>2. Identity \in BucketRows
  <2>1. ASSUME NEW k \in 0..Buckets - 1
        PROVE  k * 4096 - (IF k = Buckets - 1 THEN 1 ELSE 0) \in Word
    <3>1. k \in Nat /\ k <= 16 /\ Buckets - 1 = 16
      BY DEF Buckets
    <3>2. k * 4096 - (IF k = 16 THEN 1 ELSE 0) \in Nat /\ k * 4096 - (IF k = 16 THEN 1 ELSE 0) <= 65535
      BY <3>1
    <3> QED BY <3>1, <3>2, WordIs
  <2> QED BY <2>1 DEF Identity, BucketRows
<1>3. 32768 \in Word /\ 1 \in Node /\ 0 \in Byte
  BY <1>1, WordIs DEF Node, Byte
<1>4. [n \in Node |-> 32768] \in [Node -> Word] /\ [n \in Node |-> Identity] \in [Node -> BucketRows]
  BY <1>2, <1>3
<1> QED BY <1>3, <1>4 DEF NewModel, ModelType

\* One of several functions in a table has one of its values changed.
LEMMA TableChanged ==
  ASSUME NEW D, NEW E, NEW S, NEW t \in [D -> [E -> S]], NEW d \in D, NEW e \in E, NEW v \in S
  PROVE  [t EXCEPT ![d][e] = v] \in [D -> [E -> S]]
OBVIOUS

\* A model told a bit: its numbers fit, its contexts are where they were.
LEMMA ToldFits ==
  ASSUME NEW m \in ModelType, NEW bit \in {0, 1}
  PROVE  /\ Told(m, bit) \in ModelType
         /\ \A f \in {"node", "c1", "c2", "run"} : Told(m, bit)[f] = m[f]
<1> DEFINE b  == Bucket(m)
           o0 == [m.order0 EXCEPT ![m.node] = Adapt(m.order0[m.node], bit, 4)]
           o1 == [m.order1 EXCEPT ![m.c1][m.node] = Adapt(m.order1[m.c1][m.node], bit, 16)]
           row == BucketRow(m)
           row1 == [row EXCEPT ![b] = Adapt(row[b], bit, 64)]
           row2 == [row1 EXCEPT ![b + 1] = Adapt(row[b + 1], bit, 64)]
           s  == [m.sse EXCEPT ![LongRun(m)][m.node] = row2]
           t  == Told(m, bit)
<1>1. /\ m.order0 \in [Node -> Word] /\ m.order1 \in [Byte -> [Node -> Word]] /\ m.sse \in [BOOLEAN -> [Node -> BucketRows]]
      /\ m.node \in Node /\ m.c1 \in Byte /\ m.c2 \in Byte /\ m.run \in Nat
  BY DEF ModelType
<1>2. b \in 0..Buckets-1 /\ b + 1 \in 0..Buckets-1 /\ LongRun(m) \in BOOLEAN
  BY BucketIs DEF Buckets
<1>3. o0 \in [Node -> Word]
  <2>1. m.order0[m.node] \in Word
    BY <1>1
  <2>2. Adapt(m.order0[m.node], bit, 4) \in Word
    BY <2>1, AdaptFits
  <2> QED BY <1>1, <2>2
<1>4. o1 \in [Byte -> [Node -> Word]]
  <2>1. m.order1[m.c1][m.node] \in Word
    <3>1. m.order1[m.c1] \in [Node -> Word]
      BY <1>1
    <3> QED BY <1>1, <3>1
  <2>2. Adapt(m.order1[m.c1][m.node], bit, 16) \in Word
    BY <2>1, AdaptFits
  <2> QED BY <1>1, <2>2, TableChanged
<1>5. s \in [BOOLEAN -> [Node -> BucketRows]]
  <2>1. row \in [0..Buckets-1 -> Word]
    <3>1. m.sse[LongRun(m)] \in [Node -> BucketRows]
      BY <1>1, <1>2
    <3> QED BY <1>1, <3>1 DEF BucketRows, BucketRow
  <2> HIDE DEF row, b
  <2>2. row1 \in [0..Buckets-1 -> Word]
    <3>1. row[b] \in Word
      BY <1>2, <2>1
    <3>2. Adapt(row[b], bit, 64) \in Word
      BY <3>1, AdaptFits
    <3> QED BY <2>1, <3>2
  <2> HIDE DEF row1
  <2>3. row2 \in [0..Buckets-1 -> Word]
    <3>1. row[b + 1] \in Word
      BY <1>2, <2>1
    <3>2. Adapt(row[b + 1], bit, 64) \in Word
      BY <3>1, AdaptFits
    <3> QED BY <2>2, <3>2
  <2> HIDE DEF row2
  <2>4. row2 \in BucketRows
    BY <2>3 DEF BucketRows
  <2> QED BY <1>1, <1>2, <2>4, TableChanged
<1> DEFINE u == [[[m EXCEPT !.order0 = o0] EXCEPT !.order1 = o1] EXCEPT !.sse = s]
<1>6. t = u
  BY Zenon DEF Told
<1> HIDE DEF o0, o1, s, t
<1>7. u = [order0 |-> o0, order1 |-> o1, sse |-> s, node |-> m.node, c1 |-> m.c1, c2 |-> m.c2, run |-> m.run]
  <2> DEFINE u1 == [m EXCEPT !.order0 = o0]
             u2 == [u1 EXCEPT !.order1 = o1]
  <2>1. m = [order0 |-> m.order0, order1 |-> m.order1, sse |-> m.sse, node |-> m.node, c1 |-> m.c1, c2 |-> m.c2, run |-> m.run]
    BY DEF ModelType
  <2>2. u1 = [order0 |-> o0, order1 |-> m.order1, sse |-> m.sse, node |-> m.node, c1 |-> m.c1, c2 |-> m.c2, run |-> m.run]
    BY <2>1
  <2> HIDE DEF u1
  <2>3. u2 = [order0 |-> o0, order1 |-> o1, sse |-> m.sse, node |-> m.node, c1 |-> m.c1, c2 |-> m.c2, run |-> m.run]
    BY <2>2
  <2>4. u = [u2 EXCEPT !.sse = s]
    BY DEF u1
  <2> HIDE DEF u2, u
  <2> QED BY <2>3, <2>4
<1> HIDE DEF u
<1>8. t \in ModelType
  BY <1>1, <1>3, <1>4, <1>5, <1>6, <1>7 DEF ModelType
<1>9. \A f \in {"node", "c1", "c2", "run"} : t[f] = m[f]
  BY <1>6, <1>7
<1> QED BY <1>8, <1>9 DEF t

\* How an update moves on in the byte, or to the next one.
Moves(m, u, bit) ==
  LET node == 2 * m.node + bit IN
  /\ node < B => u.node = node /\ u.c1 = m.c1 /\ u.c2 = m.c2 /\ u.run = m.run
  /\ node >= B => /\ u.node = 1 /\ u.c1 = node % B /\ u.c2 = m.c1
                  /\ u.run = IF node % B = m.c1 THEN m.run + 1 ELSE 0

\* An update keeps the numbers in their words.
LEMMA UpdatedIs ==
  ASSUME BwtCmAssumption, NEW m \in ModelType, NEW bit \in {0, 1}
  PROVE  Updated(m, bit) \in ModelType /\ Moves(m, Updated(m, bit), bit)
<1> DEFINE t == Told(m, bit)
           u == Updated(m, bit)
           node == 2 * m.node + bit
<1>1. t \in ModelType /\ t.node = m.node /\ t.c1 = m.c1 /\ t.c2 = m.c2 /\ t.run = m.run
  BY ToldFits, Zenon
<1>2. u = IF node < B THEN [t EXCEPT !.node = node] ELSE ShiftedTo(t, node % B)
  BY Zenon DEF Updated, Told
<1>3. B \in Nat \ {0, 1} /\ m.node \in Node /\ m.node \in Nat /\ node \in Nat \ {0} /\ m.run \in Nat
  <2>1. B \in Nat \ {0, 1}
    BY TwoIs
  <2>2. m.node \in Node /\ m.run \in Nat
    BY DEF ModelType
  <2> QED BY <2>1, <2>2 DEF Node
<1> HIDE DEF t, u, node
<1>4. t = [order0 |-> t.order0, order1 |-> t.order1, sse |-> t.sse, node |-> t.node, c1 |-> t.c1, c2 |-> t.c2, run |-> t.run]
  BY <1>1 DEF ModelType
<1>5. CASE node < B
  <2>1. u = [t EXCEPT !.node = node]
    BY <1>2, <1>5
  <2>2. node \in Node
    BY <1>3, <1>5 DEF Node
  <2>3. u \in ModelType
    BY <1>1, <2>1, <2>2 DEF ModelType
  <2>4. u.node = node /\ u.c1 = t.c1 /\ u.c2 = t.c2 /\ u.run = t.run
    BY <1>1, <2>1 DEF ModelType
  <2>5. ~(node >= B)
    BY <1>3, <1>5
  <2> QED BY <1>1, <2>3, <2>4, <2>5 DEF Moves, node, u
<1>6. CASE ~(node < B)
  <2> DEFINE byte == node % B
             run == IF byte = m.c1 THEN m.run + 1 ELSE 0
  <2>1. byte \in Byte /\ 1 \in Node /\ run \in Nat
    <3>1. node % B \in 0..B - 1
      BY <1>3, Parts
    <3> QED BY <1>3, <3>1 DEF Byte, Node
  <2> HIDE DEF byte
  <2>2. u = [t EXCEPT !.node = 1, !.c2 = t.c1, !.c1 = byte, !.run = IF byte = t.c1 THEN t.run + 1 ELSE 0]
    BY <1>2, <1>6, Zenon DEF ShiftedTo, byte
  <2>3. u = [t EXCEPT !.node = 1, !.c2 = m.c1, !.c1 = byte, !.run = run]
    BY <1>1, <2>2, Zenon
  <2> HIDE DEF run
  <2>4. m.c1 \in Byte
    BY DEF ModelType
  <2>5. u \in ModelType
    BY <1>1, <2>1, <2>3, <2>4 DEF ModelType
  <2>6. u.node = 1 /\ u.c1 = byte /\ u.c2 = m.c1 /\ u.run = run
    BY <1>1, <2>3 DEF ModelType
  <2> QED BY <1>6, <2>5, <2>6 DEF Moves, byte, run, node, u
<1> QED BY <1>5, <1>6

\* The first bits of a byte, as a number.
Begun(byte, i) == byte \div Two[ByteBits - i]

\* Each bit doubles the number and is added to it.
LEMMA BitsGrow ==
  ASSUME BwtCmAssumption, NEW byte \in Byte
  PROVE  /\ Begun(byte, 0) = 0 /\ Begun(byte, ByteBits) = byte
         /\ \A i \in 0..ByteBits : Begun(byte, i) \in Nat
         /\ \A i \in 1..ByteBits : /\ BitOf(byte, i) \in {0, 1}
                                   /\ Begun(byte, i) = 2 * Begun(byte, i - 1) + BitOf(byte, i)
<1> DEFINE N == ByteBits
<1>1. /\ N \in Nat \ {0} /\ B \in Nat \ {0, 1} /\ B = Two[N] /\ byte \in Nat /\ byte < B
      /\ Two[0] = 1 /\ \A k \in 0..N : Two[k] \in Nat \ {0}
      /\ \A k \in 1..N : Two[k] = 2 * Two[k - 1]
  <2>1. B \in Nat \ {0, 1}
    BY TwoIs
  <2>2. byte \in Nat /\ byte < B
    BY <2>1 DEF Byte
  <2> QED BY <2>1, <2>2, TwoIs
<1> HIDE DEF N
<1>2. Begun(byte, 0) = 0
  <2>1. N - 0 = N /\ byte = B * 0 + byte /\ byte \in 0..B - 1
    BY <1>1
  <2>2. byte \div B = 0
    BY <1>1, <2>1, PartedOnce
  <2> QED BY <1>1, <2>1, <2>2 DEF Begun, N
<1>3. Begun(byte, N) = byte
  <2>1. N - N = 0 /\ byte = 1 * byte + 0 /\ 0 \in 0..1 - 1
    BY <1>1
  <2>2. byte \div 1 = byte
    BY <1>1, <2>1, PartedOnce
  <2> QED BY <1>1, <2>1, <2>2 DEF Begun, N
<1>4. ASSUME NEW i \in 0..N PROVE Begun(byte, i) \in Nat
  <2>1. N - i \in 0..N
    BY <1>1
  <2>2. Two[N - i] \in Nat \ {0}
    BY <1>1, <2>1
  <2>3. byte \div Two[N - i] \in Nat
    BY <1>1, <2>2, Parts
  <2> QED BY <2>3 DEF Begun, N
<1>5. ASSUME NEW i \in 1..N
      PROVE  BitOf(byte, i) \in {0, 1} /\ Begun(byte, i) = 2 * Begun(byte, i - 1) + BitOf(byte, i)
  <2> DEFINE t == Two[N - i]
             q == byte \div t
  <2>1. N - i \in 0..N /\ N - (i - 1) \in 1..N /\ (N - (i - 1)) - 1 = N - i
    BY <1>1
  <2>2. t \in Nat \ {0} /\ Two[N - (i - 1)] = 2 * t
    BY <1>1, <2>1
  <2> HIDE DEF t
  <2>3. q \in Nat /\ byte \div (2 * t) = q \div 2
    <3>1. byte \div t \in Nat
      BY <1>1, <2>2, Parts
    <3>2. byte \div (2 * t) = (byte \div t) \div 2
      BY <1>1, <2>2, QuotientTwice
    <3> QED BY <3>1, <3>2
  <2>4. Begun(byte, i) = q /\ Begun(byte, i - 1) = q \div 2 /\ BitOf(byte, i) = q % 2
    BY <2>2, <2>3 DEF Begun, BitOf, t, N
  <2> HIDE DEF q
  <2>5. q = 2 * (q \div 2) + (q % 2) /\ q % 2 \in {0, 1}
    BY <2>3
  <2> QED BY <2>4, <2>5
<1> QED BY <1>2, <1>3, <1>4, <1>5 DEF N

\* The model before and after each bit of a byte, one by one.
LEMMA ModelsIs ==
  ASSUME BwtCmAssumption, NEW m \in ModelType, NEW byte \in Byte
  PROVE  /\ Models(m, byte) \in [0..ByteBits -> ModelType] /\ Models(m, byte)[0] = m
         /\ \A i \in 1..ByteBits : Models(m, byte)[i] = Updated(Models(m, byte)[i - 1], BitOf(byte, i))
<1> DEFINE N == ByteBits
           g == [i \in 1..N |-> [x \in ModelType |-> Updated(x, BitOf(byte, i))]]
           Unrolls(r) == r = [i \in 0..N |-> IF i = 0 THEN m ELSE Updated(r[i - 1], BitOf(byte, i))]
<1>1. N \in Nat
  BY DEF BwtCmAssumption
<1>2. g \in [1..N -> [ModelType -> ModelType]] /\ \A i \in 1..N : \A x \in ModelType : g[i][x] = Updated(x, BitOf(byte, i))
  <2>1. \A i \in 1..N : \A x \in ModelType : Updated(x, BitOf(byte, i)) \in ModelType
    BY BitsGrow, UpdatedIs
  <2> QED BY <2>1
<1> HIDE DEF N, g
<1>3. PICK f \in [0..N -> ModelType] : f[0] = m /\ \A i \in 1..N : f[i] = g[i][f[i - 1]]
  <2>1. HasCourse(N, ModelType, m, g)
    BY <1>1, <1>2, Courses
  <2> QED BY <2>1, Zenon DEF HasCourse
<1>4. \A i \in 1..N : f[i] = Updated(f[i - 1], BitOf(byte, i))
  <2> SUFFICES ASSUME NEW i \in 1..N PROVE f[i] = Updated(f[i - 1], BitOf(byte, i))
    OBVIOUS
  <2>1. i - 1 \in 0..N
    BY <1>1
  <2>2. f[i - 1] \in ModelType
    BY <2>1
  <2> QED BY <1>2, <1>3, <2>2, Zenon
<1>5. Unrolls(f)
  <2>1. \A i \in 0..N : f[i] = IF i = 0 THEN m ELSE Updated(f[i - 1], BitOf(byte, i))
    <3>1. \A i \in 0..N : i = 0 \/ i \in 1..N
      BY <1>1
    <3> QED BY <1>3, <1>4, <3>1, Zenon
  <2>2. f = [i \in 0..N |-> f[i]]
    OBVIOUS
  <2> QED BY <2>1, <2>2, Zenon
<1> DEFINE r == Models(m, byte)
<1>6. r = CHOOSE q : Unrolls(q)
  BY Zenon DEF Models, N
<1>7. Unrolls(r)
  <2> HIDE DEF Unrolls, r
  <2> QED BY <1>5, <1>6
<1> HIDE DEF r
<1>8. r[0] = m /\ \A i \in 1..N : r[i] = Updated(r[i - 1], BitOf(byte, i))
  <2>1. \A i \in 0..N : r[i] = IF i = 0 THEN m ELSE Updated(r[i - 1], BitOf(byte, i))
    BY <1>7, Zenon
  <2>2. 0 \in 0..N /\ \A i \in 1..N : i \in 0..N /\ i # 0
    BY <1>1
  <2> QED BY <2>1, <2>2, Zenon
<1>9. \A i \in 0..N : r[i] = f[i]
  <2> DEFINE P == {i \in 0..N : r[i] = f[i]}
  <2>1. 0 \in P
    BY <1>1, <1>3, <1>8
  <2>2. \A i \in 1..N : i - 1 \in P => i \in P
    <3> SUFFICES ASSUME NEW i \in 1..N, i - 1 \in P PROVE r[i] = f[i] /\ i \in 0..N
      OBVIOUS
    <3>1. r[i - 1] = f[i - 1]
      OBVIOUS
    <3>2. i \in 0..N
      BY <1>1
    <3> QED BY <1>4, <1>8, <3>1, <3>2, Zenon
  <2>3. 0..N \subseteq P
    <3> HIDE DEF P
    <3> QED BY <1>1, <2>1, <2>2, UpTo
  <2> QED BY <2>3
<1>10. r \in [0..N -> ModelType]
  <2>1. \A i \in 0..N : r[i] \in ModelType
    BY <1>9
  <2>2. DOMAIN r = 0..N /\ r = [i \in 0..N |-> r[i]]
    BY <1>7, Zenon
  <2> QED BY <2>1, <2>2
<1> QED BY <1>8, <1>10 DEF r, N

\* How the contexts move on when a whole byte has been told.
MovedOn(m, u, byte) ==
  /\ u.node = 1 /\ u.c1 = byte /\ u.c2 = m.c1
  /\ u.run = IF byte = m.c1 THEN m.run + 1 ELSE 0

\* A model at the start of a byte is at the start of the next when it has been
\* told the byte, and not before.
LEMMA ByteTold ==
  ASSUME BwtCmAssumption, NEW m \in ModelType, m.node = 1, NEW byte \in Byte
  PROVE  MovedOn(m, Models(m, byte)[ByteBits], byte)
<1> DEFINE N == ByteBits
           f == Models(m, byte)
           b(i) == Begun(byte, i)
           t(i) == Two[i]
           Same(u) == u.c1 = m.c1 /\ u.c2 = m.c2 /\ u.run = m.run
           P == {i \in 0..N : b(i) < t(i) /\ (i < N => f[i].node = t(i) + b(i) /\ Same(f[i]))}
<1>1. /\ N \in Nat \ {0} /\ B \in Nat \ {0, 1} /\ B = t(N) /\ byte \in 0..B - 1
      /\ \A i \in 0..N : t(i) \in Nat \ {0} /\ (i < N => 2 * t(i) <= B)
      /\ t(0) = 1 /\ \A i \in 1..N : t(i) = 2 * t(i - 1)
  <2>1. N \in Nat \ {0} /\ B \in Nat \ {0, 1} /\ B = t(N)
    BY TwoIs
  <2>2. \A i \in 0..N : t(i) \in Nat \ {0}
    BY TwoIs
  <2>3. \A i \in 0..N : i < N => 2 * t(i) <= B
    BY TwoGrows
  <2>4. t(0) = 1 /\ \A i \in 1..N : t(i) = 2 * t(i - 1)
    BY TwoIs
  <2> QED BY <2>1, <2>2, <2>3, <2>4 DEF Byte
<1>2. /\ b(0) = 0 /\ b(N) = byte /\ \A i \in 0..N : b(i) \in Nat
      /\ \A i \in 1..N : BitOf(byte, i) \in {0, 1} /\ b(i) = 2 * b(i - 1) + BitOf(byte, i)
  BY BitsGrow
<1>3. /\ f[0] = m /\ \A i \in 0..N : f[i] \in ModelType
      /\ \A i \in 1..N : f[i] = Updated(f[i - 1], BitOf(byte, i))
  BY ModelsIs
<1> HIDE DEF N, f, b, t
<1>4. 0 \in P
  BY <1>1, <1>2, <1>3
<1>5. ASSUME NEW i \in 1..N, i - 1 \in P
      PROVE  /\ b(i) < t(i) /\ Moves(f[i - 1], f[i], BitOf(byte, i))
             /\ 2 * f[i - 1].node + BitOf(byte, i) = t(i) + b(i) /\ Same(f[i - 1])
  <2>1. i - 1 \in 0..N /\ i - 1 < N
    BY <1>1
  <2>2. b(i - 1) < t(i - 1) /\ f[i - 1].node = t(i - 1) + b(i - 1) /\ Same(f[i - 1])
    BY <1>5, <2>1
  <2>3. BitOf(byte, i) \in {0, 1} /\ b(i) = 2 * b(i - 1) + BitOf(byte, i) /\ b(i - 1) \in Nat
    BY <1>2, <2>1
  <2>4. t(i) = 2 * t(i - 1) /\ t(i - 1) \in Nat
    BY <1>1, <2>1
  <2>5. Moves(f[i - 1], f[i], BitOf(byte, i))
    <3>1. f[i - 1] \in ModelType /\ f[i] = Updated(f[i - 1], BitOf(byte, i))
      BY <1>3, <2>1
    <3> QED BY <2>3, <3>1, UpdatedIs
  <2>6. b(i) < t(i) /\ 2 * f[i - 1].node + BitOf(byte, i) = t(i) + b(i)
    <3> DEFINE x == b(i - 1)
               y == t(i - 1)
               z == BitOf(byte, i)
               n == f[i - 1].node
    <3>1. x \in Nat /\ y \in Nat /\ z \in {0, 1} /\ n = y + x /\ x < y /\ b(i) = 2 * x + z /\ t(i) = 2 * y
      BY <2>2, <2>3, <2>4
    <3> HIDE DEF x, y, z, n
    <3>2. b(i) < t(i) /\ 2 * n + z = t(i) + b(i)
      BY <3>1
    <3> QED BY <3>2 DEF n, z
  <2> QED BY <2>2, <2>5, <2>6
<1>6. ASSUME NEW i \in 1..N, i - 1 \in P PROVE i \in P
  <2>1. i \in 0..N
    BY <1>1
  <2>2. b(i) < t(i) /\ Moves(f[i - 1], f[i], BitOf(byte, i)) /\ Same(f[i - 1])
        /\ 2 * f[i - 1].node + BitOf(byte, i) = t(i) + b(i)
    BY <1>5, <1>6
  <2>3. ASSUME i < N PROVE f[i].node = t(i) + b(i) /\ Same(f[i])
    <3>1. 2 * t(i) <= B /\ t(i) \in Nat /\ b(i) \in Nat /\ B \in Nat
      BY <1>1, <1>2, <2>1, <2>3
    <3>2. t(i) + b(i) < B
      BY <2>2, <3>1
    <3> QED BY <2>2, <3>2 DEF Moves
  <2> QED BY <2>1, <2>2, <2>3
<1>7. N - 1 \in P /\ N \in 1..N
  <2> HIDE DEF P
  <2>1. 0..N \subseteq P
    BY <1>1, <1>4, <1>6, UpTo
  <2>2. N - 1 \in 0..N /\ N \in 1..N
    BY <1>1
  <2> QED BY <2>1, <2>2
<1> HIDE DEF P
<1> DEFINE last == f[N - 1]
           node == 2 * last.node + BitOf(byte, N)
<1>8. Moves(last, f[N], BitOf(byte, N)) /\ node = B + byte /\ last.c1 = m.c1 /\ last.run = m.run
  BY <1>1, <1>2, <1>5, <1>7
<1>9. node >= B /\ node % B = byte
  <2>1. byte \in Nat /\ B + byte \in Nat /\ B + byte = B * 1 + byte /\ B + byte >= B
    BY <1>1
  <2>2. (B + byte) % B = byte
    BY <1>1, <2>1, PartedOnce
  <2> QED BY <1>8, <2>1, <2>2
<1>10. f[N].node = 1 /\ f[N].c1 = node % B /\ f[N].c2 = last.c1 /\ f[N].run = IF node % B = last.c1 THEN last.run + 1 ELSE 0
  BY <1>8, <1>9 DEF Moves
<1>11. MovedOn(m, f[N], byte)
  BY <1>8, <1>9, <1>10 DEF MovedOn
<1> QED BY <1>11 DEF f, N

\* The models at the ends of a text's bytes.
Tells(f, text) ==
  /\ f \in [0..Len(text) -> ModelType] /\ f[0] = NewModel
  /\ \A i \in 1..Len(text) : f[i] = Models(f[i - 1], text[i])[ByteBits]

\* There are some.
LEMMA TextTold ==
  ASSUME BwtCmAssumption, NEW text \in Seq(Byte)
  PROVE  \E f : Tells(f, text)
<1> DEFINE N == Len(text)
           g == [i \in 1..N |-> [x \in ModelType |-> Models(x, text[i])[ByteBits]]]
<1>1. N \in Nat /\ \A i \in 1..N : text[i] \in Byte
  OBVIOUS
<1>2. g \in [1..N -> [ModelType -> ModelType]] /\ \A i \in 1..N : \A x \in ModelType : g[i][x] = Models(x, text[i])[ByteBits]
  <2>1. ASSUME NEW i \in 1..N, NEW x \in ModelType PROVE Models(x, text[i])[ByteBits] \in ModelType
    <3>1. text[i] \in Byte
      BY <1>1
    <3>2. Models(x, text[i]) \in [0..ByteBits -> ModelType]
      BY <3>1, ModelsIs
    <3>3. ByteBits \in 0..ByteBits
      BY DEF BwtCmAssumption
    <3> QED BY <3>2, <3>3
  <2> QED BY <2>1
<1> HIDE DEF N, g
<1>3. PICK f \in [0..N -> ModelType] : f[0] = NewModel /\ \A i \in 1..N : f[i] = g[i][f[i - 1]]
  <2>1. HasCourse(N, ModelType, NewModel, g)
    BY <1>1, <1>2, NewFits, Courses
  <2> QED BY <2>1, Zenon DEF HasCourse
<1>4. \A i \in 1..N : f[i] = Models(f[i - 1], text[i])[ByteBits]
  <2> SUFFICES ASSUME NEW i \in 1..N PROVE f[i] = Models(f[i - 1], text[i])[ByteBits]
    OBVIOUS
  <2>1. i - 1 \in 0..N
    BY <1>1
  <2>2. f[i - 1] \in ModelType
    BY <2>1
  <2> QED BY <1>2, <1>3, <2>2, Zenon
<1>5. Tells(f, text)
  BY <1>3, <1>4 DEF Tells, N
<1> QED BY <1>5

\* What a text's first i bytes end in, one back, two back, and so on.
Back(text, i, j) == IF j <= i THEN text[i + 1 - j] ELSE 0

\* At each byte's end the contexts are the last two bytes and the run counts
\* those that are alike.
LEMMA StoryTrue ==
  ASSUME BwtCmAssumption, NEW text \in Seq(Byte), NEW f, Tells(f, text), NEW i \in 0..Len(text)
  PROVE  /\ f[i] \in ModelType /\ f[i].node = 1 /\ f[i].c1 = Back(text, i, 1) /\ f[i].c2 = Back(text, i, 2)
         /\ \A k \in 1..i : f[i].run >= k <=> \A j \in 1..k : Back(text, i, j) = Back(text, i, j + 1)
<1> DEFINE N == Len(text)
           at(n, j) == Back(text, n, j)
           Alike(n, k) == \A j \in 1..k : at(n, j) = at(n, j + 1)
           True(n) == /\ f[n].node = 1 /\ f[n].c1 = at(n, 1) /\ f[n].c2 = at(n, 2)
                      /\ \A k \in 1..n : f[n].run >= k <=> Alike(n, k)
           P == {n \in 0..N : True(n)}
<1>1. N \in Nat /\ \A n \in 1..N : text[n] \in Byte
  OBVIOUS
<1>2. /\ \A n \in 0..N : f[n] \in ModelType
      /\ f[0] = NewModel /\ \A n \in 1..N : f[n] = Models(f[n - 1], text[n])[ByteBits]
  BY DEF Tells
<1>3. \A n \in Nat \ {0} : at(n, 1) = text[n]
  BY DEF Back
<1>4. \A n, j \in Nat \ {0} : at(n, j + 1) = at(n - 1, j)
  <2> SUFFICES ASSUME NEW n \in Nat \ {0}, NEW j \in Nat \ {0} PROVE at(n, j + 1) = at(n - 1, j)
    OBVIOUS
  <2>1. (j + 1 <= n) <=> (j <= n - 1)
    OBVIOUS
  <2>2. n + 1 - (j + 1) = n - 1 + 1 - j
    OBVIOUS
  <2> QED BY <2>1, <2>2, Zenon DEF Back
<1> HIDE DEF N
<1>5. 0 \in P
  <2>1. at(0, 1) = 0 /\ at(0, 2) = 0
    BY DEF Back
  <2>2. NewModel.node = 1 /\ NewModel.c1 = 0 /\ NewModel.c2 = 0
    BY NewFits
  <2>3. 1..0 = {} /\ 0 \in 0..N
    BY <1>1
  <2> QED BY <1>2, <2>1, <2>2, <2>3
<1>6. ASSUME NEW n \in 1..N, n - 1 \in P PROVE n \in P
  <2> DEFINE m == f[n - 1]
             u == f[n]
  <2>1. n - 1 \in 0..N /\ n \in 0..N /\ n \in Nat \ {0}
    BY <1>1
  <2>2. True(n - 1)
    BY <1>6
  <2>3. m \in ModelType /\ m.run \in Nat /\ text[n] \in Byte /\ u = Models(m, text[n])[ByteBits]
    <3>1. m \in ModelType
      BY <1>2, <2>1
    <3> QED BY <1>1, <1>2, <3>1 DEF ModelType
  <2>4. u.node = 1 /\ u.c1 = text[n] /\ u.c2 = m.c1 /\ u.run = IF text[n] = m.c1 THEN m.run + 1 ELSE 0
    <3>1. m.node = 1
      BY <2>2
    <3> HIDE DEF m, u
    <3>2. MovedOn(m, u, text[n])
      BY <2>3, <3>1, ByteTold
    <3> QED BY <3>2 DEF MovedOn
  <2>5. u.c1 = at(n, 1)
    BY <1>3, <2>1, <2>4
  <2>6. u.c2 = at(n, 2)
    <3>1. at(n, 1 + 1) = at(n - 1, 1)
      <4> HIDE DEF at
      <4> QED BY <1>4, <2>1
    <3>2. m.c1 = at(n - 1, 1)
      BY <2>2
    <3>3. 1 + 1 = 2
      OBVIOUS
    <3> HIDE DEF at
    <3> QED BY <2>4, <3>1, <3>2, <3>3
  <2>7. ASSUME NEW k \in 1..n PROVE u.run >= k <=> Alike(n, k)
    <3>1. text[n] = m.c1 <=> at(n, 1) = at(n, 1 + 1)
      BY <2>4, <2>5, <2>6
    <3>2. Alike(n, k) <=> at(n, 1) = at(n, 1 + 1) /\ \A j \in 1..k - 1 : at(n, j + 1) = at(n, j + 1 + 1)
      <4>1. ASSUME Alike(n, k) PROVE at(n, 1) = at(n, 1 + 1) /\ \A j \in 1..k - 1 : at(n, j + 1) = at(n, j + 1 + 1)
        <5>1. 1 \in 1..k /\ \A j \in 1..k - 1 : j + 1 \in 1..k
          BY <1>1
        <5> HIDE DEF at
        <5> QED BY <4>1, <5>1, Zenon
      <4>2. ASSUME at(n, 1) = at(n, 1 + 1), \A j \in 1..k - 1 : at(n, j + 1) = at(n, j + 1 + 1) PROVE Alike(n, k)
        <5>1. \A j \in 1..k : j = 1 \/ (j - 1 \in 1..k - 1 /\ (j - 1) + 1 = j)
          BY <1>1
        <5> HIDE DEF at
        <5> SUFFICES ASSUME NEW j \in 1..k PROVE at(n, j) = at(n, j + 1)
          OBVIOUS
        <5>2. CASE j = 1
          BY <4>2, <5>2
        <5>3. CASE j - 1 \in 1..k - 1 /\ (j - 1) + 1 = j
          BY <4>2, <5>3, Zenon
        <5> QED BY <5>1, <5>2, <5>3
      <4> HIDE DEF Alike
      <4> QED BY <4>1, <4>2, Zenon
    <3>3. ASSUME NEW j \in 1..k - 1 PROVE at(n, j + 1) = at(n - 1, j) /\ at(n, j + 1 + 1) = at(n - 1, j + 1)
      <4>1. j \in Nat \ {0} /\ j + 1 \in Nat \ {0}
        BY <1>1
      <4> HIDE DEF at
      <4> QED BY <1>4, <2>1, <4>1, Zenon
    <3>4. Alike(n, k) <=> text[n] = m.c1 /\ Alike(n - 1, k - 1)
      <4> HIDE DEF at
      <4> QED BY <3>1, <3>2, <3>3
    <3> HIDE DEF u
    <3>5. CASE k = 1
      <4>1. Alike(n - 1, k - 1)
        BY <3>5
      <4>2. u.run >= 1 <=> text[n] = m.c1
        <5> HIDE DEF m
        <5> QED BY <2>3, <2>4
      <4> HIDE DEF Alike
      <4> QED BY <3>4, <3>5, <4>1, <4>2
    <3>6. CASE k # 1
      <4>1. k - 1 \in 1..n - 1 /\ k \in Nat
        BY <1>1, <3>6
      <4>2. m.run >= k - 1 <=> Alike(n - 1, k - 1)
        <5> HIDE DEF Alike
        <5> QED BY <2>2, <4>1
      <4>3. u.run >= k <=> text[n] = m.c1 /\ m.run >= k - 1
        <5> HIDE DEF m
        <5> QED BY <2>3, <2>4, <4>1
      <4> HIDE DEF Alike
      <4> QED BY <3>4, <4>2, <4>3
    <3> QED BY <3>5, <3>6
  <2>8. True(n)
    <3> HIDE DEF at, Alike
    <3> QED BY <2>4, <2>5, <2>6, <2>7
  <2> HIDE DEF True
  <2> QED BY <2>1, <2>8
<1>7. 0..N \subseteq P
  <2> HIDE DEF P
  <2> QED BY <1>1, <1>5, <1>6, UpTo
<1>8. i \in P /\ f[i] \in ModelType
  BY <1>2, <1>7 DEF N
<1> QED BY <1>8

---------------------------------------------------------------------------
(* Both sides of it.                                                       *)

\* A bit of a text as the story has it coded.
CodedBit(f, text, i, j) == [p |-> Predict(Models(f[i - 1], text[i])[j - 1]), bit |-> BitOf(text[i], j)]

\* The bits of a text's first n bytes.
CodedBits(f, text, n, log) ==
  /\ Len(log) = n * ByteBits
  /\ \A i \in 1..n, j \in 1..ByteBits : log[(i - 1) * ByteBits + j] = CodedBit(f, text, i, j)

\* Both models are the story's, each at its place.
Sides(f) ==
  /\ enc.done \in 0..Len(data) /\ enc.model = f[enc.done] /\ CodedBits(f, data, enc.done, enc.log)
  /\ Len(dec.out) \in 0..Len(data) /\ dec.model = f[Len(dec.out)] /\ dec.next = Len(dec.out) * ByteBits + 1
  /\ \A i \in 1..Len(dec.out) : dec.out[i] = data[i]
  /\ Len(dec.out) > 0 => enc.done = Len(data)

MixingInvariant ==
  /\ data \in Seq(Byte)
  /\ enc \in [done : Nat, model : ModelType, log : Seq([p : Nat, bit : {0, 1}])]
  /\ dec \in [next : Nat, model : ModelType, out : Seq(Byte)]
  /\ \E f : Tells(f, data) /\ Sides(f)

\* Where the bits of a byte are.
LEMMA BitPlaces ==
  ASSUME BwtCmAssumption, NEW n \in Nat, NEW i \in 1..n, NEW j \in 1..ByteBits
  PROVE  (i - 1) * ByteBits + j \in 1..n * ByteBits
<1> DEFINE N == ByteBits
           x == (i - 1) * N
           y == n * N
<1>1. N \in Nat /\ i - 1 \in Int /\ n \in Int /\ i - 1 < n /\ j \in 1..N
  BY DEF BwtCmAssumption
<1> HIDE DEF N
<1>2. x + N <= y /\ x \in Int /\ y \in Int
  BY <1>1, MultiplesRight
<1>3. x \in Nat
  BY <1>1
<1> HIDE DEF x, y
<1>4. x + j \in 1..y
  BY <1>1, <1>2, <1>3
<1> QED BY <1>4 DEF x, y, N

\* A byte whose bits were coded by a model is read by the same model, which
\* makes the same steps.
LEMMA ByteReads ==
  ASSUME BwtCmAssumption, NEW m \in ModelType, NEW byte \in Byte, NEW k \in Nat,
         \A j \in 1..ByteBits : enc.log[k + j - 1] = [p |-> Predict(Models(m, byte)[j - 1]), bit |-> BitOf(byte, j)]
  PROVE  Read(k, m)[ByteBits] = [model |-> Models(m, byte)[ByteBits], byte |-> byte]
<1> DEFINE N == ByteBits
           f == Models(m, byte)
           b(i) == Begun(byte, i)
           At(i) == [model |-> f[i], byte |-> b(i)]
           bit(r, i) == BitAt(k + i - 1, Predict(r[i - 1].model))
           Unrolls(r) == r = [i \in 0..N |-> IF i = 0 THEN [model |-> m, byte |-> 0]
                                          ELSE [model |-> Updated(r[i - 1].model, bit(r, i)),
                                                byte |-> 2 * r[i - 1].byte + bit(r, i)]]
           F == [i \in 0..N |-> At(i)]
<1>1. N \in Nat
  BY DEF BwtCmAssumption
<1>2. /\ b(0) = 0 /\ b(N) = byte
      /\ \A i \in 1..N : BitOf(byte, i) \in {0, 1} /\ b(i) = 2 * b(i - 1) + BitOf(byte, i)
  BY BitsGrow
<1>3. f[0] = m /\ \A i \in 1..N : f[i] = Updated(f[i - 1], BitOf(byte, i))
  BY ModelsIs
<1>4. \A i \in 1..N : enc.log[k + i - 1] = [p |-> Predict(f[i - 1]), bit |-> BitOf(byte, i)]
  OBVIOUS
<1> HIDE DEF N, f, b
<1>5. ASSUME NEW r, NEW i \in 1..N, r[i - 1] = At(i - 1)
      PROVE  [model |-> Updated(r[i - 1].model, bit(r, i)), byte |-> 2 * r[i - 1].byte + bit(r, i)] = At(i)
  <2>1. r[i - 1].model = f[i - 1] /\ r[i - 1].byte = b(i - 1)
    BY <1>5
  <2>2. enc.log[k + i - 1].p = Predict(f[i - 1]) /\ enc.log[k + i - 1].bit = BitOf(byte, i)
    <3> DEFINE e == enc.log[k + i - 1]
               x == Predict(f[i - 1])
               y == BitOf(byte, i)
    <3>1. e = [p |-> x, bit |-> y]
      BY <1>4, Zenon
    <3> HIDE DEF e, x, y
    <3>2. e.p = x /\ e.bit = y
      BY <3>1
    <3> QED BY <3>2 DEF e, x, y
  <2>3. bit(r, i) = BitOf(byte, i)
    BY <2>1, <2>2, Zenon DEF BitAt
  <2> HIDE DEF bit
  <2>4. f[i] = Updated(f[i - 1], BitOf(byte, i)) /\ b(i) = 2 * b(i - 1) + BitOf(byte, i)
    BY <1>2, <1>3
  <2> QED BY <2>1, <2>3, <2>4, Zenon
<1> HIDE DEF bit
<1>6. Unrolls(F)
  <2>1. ASSUME NEW i \in 0..N
        PROVE  F[i] = IF i = 0 THEN [model |-> m, byte |-> 0]
                      ELSE [model |-> Updated(F[i - 1].model, bit(F, i)), byte |-> 2 * F[i - 1].byte + bit(F, i)]
    <3>1. CASE i = 0
      <4>1. F[0] = At(0) /\ At(0) = [model |-> m, byte |-> 0]
        BY <1>1, <1>2, <1>3
      <4> HIDE DEF F
      <4> QED BY <3>1, <4>1, Zenon
    <3>2. CASE i # 0
      <4>1. i \in 1..N /\ i - 1 \in 0..N
        BY <1>1, <3>2
      <4>2. F[i] = At(i) /\ F[i - 1] = At(i - 1)
        BY <4>1
      <4> HIDE DEF F, At
      <4>3. At(i) = [model |-> Updated(F[i - 1].model, bit(F, i)), byte |-> 2 * F[i - 1].byte + bit(F, i)]
        BY <1>5, <4>1, <4>2
      <4> QED BY <3>2, <4>2, <4>3, Zenon
    <3> QED BY <3>1, <3>2
  <2>2. F = [i \in 0..N |-> F[i]]
    BY Zenon
  <2> HIDE DEF F
  <2> QED BY <2>1, <2>2, Zenon
<1> DEFINE r == Read(k, m)
<1>7. r = CHOOSE q : Unrolls(q)
  BY Zenon DEF Read, N, bit
<1>8. Unrolls(r)
  <2> HIDE DEF Unrolls, r, F
  <2> QED BY <1>6, <1>7
<1> HIDE DEF r, F
<1>9. r[0] = At(0)
  <2>1. 0 \in 0..N
    BY <1>1
  <2>2. r[0] = [model |-> m, byte |-> 0]
    BY <1>8, <2>1, Zenon
  <2> QED BY <1>2, <1>3, <2>2, Zenon
<1>10. ASSUME NEW i \in 1..N, r[i - 1] = At(i - 1) PROVE r[i] = At(i)
  <2>1. i \in 0..N /\ i # 0
    BY <1>1
  <2>2. r[i] = [model |-> Updated(r[i - 1].model, bit(r, i)), byte |-> 2 * r[i - 1].byte + bit(r, i)]
    BY <1>8, <2>1, Zenon
  <2> HIDE DEF At
  <2> QED BY <1>5, <1>10, <2>2, Zenon
<1>11. r[N] = At(N)
  <2> HIDE DEF At
  <2> DEFINE P == {i \in 0..N : r[i] = At(i)}
  <2>1. 0 \in P
    BY <1>1, <1>9
  <2>2. \A i \in 1..N : i - 1 \in P => i \in P
    <3> SUFFICES ASSUME NEW i \in 1..N, i - 1 \in P PROVE r[i] = At(i) /\ i \in 0..N
      OBVIOUS
    <3>1. r[i - 1] = At(i - 1)
      OBVIOUS
    <3> QED BY <1>1, <1>10, <3>1
  <2>3. N \in 0..N
    BY <1>1
  <2> HIDE DEF P
  <2>4. 0..N \subseteq P
    BY <1>1, <2>1, <2>2, UpTo
  <2>5. N \in P
    BY <2>3, <2>4
  <2> QED BY <2>5 DEF P
<1> QED BY <1>2, <1>11 DEF r, N, f

\* It begins so.
LEMMA MixingStarts ==
  ASSUME BwtCmAssumption, MixInit
  PROVE  MixingInvariant
<1>1. data \in Seq(Byte)
  BY DEF BwtCmAssumption, MixInit
<1>2. PICK f : Tells(f, data)
  BY <1>1, TextTold
<1>3. /\ enc = [done |-> 0, model |-> NewModel, log |-> << >>]
      /\ dec = [next |-> 1, model |-> NewModel, out |-> << >>]
      /\ NewModel \in ModelType /\ f[0] = NewModel
  BY <1>2, NewFits DEF MixInit, Tells
<1>4. Sides(f)
  <2>1. 1..0 = {} /\ 0 \in 0..Len(data) /\ 0 * ByteBits = 0 /\ Len(<< >>) = 0
    BY <1>1 DEF BwtCmAssumption
  <2> HIDE DEF NewModel, ModelType
  <2>2. enc.done = 0 /\ enc.model = f[0] /\ enc.log = << >> /\ dec.model = f[0] /\ dec.next = 1 /\ dec.out = << >>
    BY <1>3
  <2>3. CodedBits(f, data, 0, << >>)
    BY <2>1 DEF CodedBits
  <2> QED BY <2>1, <2>2, <2>3 DEF Sides
<1>5. /\ enc \in [done : Nat, model : ModelType, log : Seq([p : Nat, bit : {0, 1}])]
      /\ dec \in [next : Nat, model : ModelType, out : Seq(Byte)]
  <2>1. << >> \in Seq([p : Nat, bit : {0, 1}]) /\ << >> \in Seq(Byte)
    OBVIOUS
  <2> HIDE DEF NewModel, ModelType
  <2> QED BY <1>3, <2>1
<1> QED BY <1>1, <1>2, <1>4, <1>5 DEF MixingInvariant

\* A byte is coded.
LEMMA ByteCoded ==
  ASSUME BwtCmAssumption, MixingInvariant, EncodeByte
  PROVE  MixingInvariant'
<1> DEFINE n == enc.done
           byte == data[n + 1]
           models == Models(enc.model, byte)
           bits == [i \in 1..ByteBits |-> [p |-> Predict(models[i - 1]), bit |-> BitOf(byte, i)]]
           Bits == [p : Nat, bit : {0, 1}]
<1>1. PICK f : Tells(f, data) /\ Sides(f)
  BY DEF MixingInvariant
<1>2. /\ data \in Seq(Byte) /\ enc \in [done : Nat, model : ModelType, log : Seq(Bits)]
      /\ dec \in [next : Nat, model : ModelType, out : Seq(Byte)]
  BY DEF MixingInvariant
<1>3. n < Len(data) /\ enc' = [enc EXCEPT !.done = n + 1, !.model = models[ByteBits], !.log = enc.log \o bits] /\ data' = data /\ dec' = dec
  BY DEF EncodeByte
<1>4. n \in 0..Len(data) /\ enc.model = f[n] /\ CodedBits(f, data, n, enc.log)
  BY <1>1 DEF Sides
<1>5. n + 1 \in 1..Len(data) /\ byte \in Byte /\ (n + 1) - 1 = n /\ Len(data) \in Nat
  BY <1>2, <1>3, <1>4
<1>6. enc.model \in ModelType /\ enc.log \in Seq(Bits) /\ n \in Nat
  BY <1>2
<1>7. ByteBits \in Nat \ {0}
  BY DEF BwtCmAssumption
<1>8. /\ \A i \in 0..ByteBits : models[i] \in ModelType
      /\ \A i \in 1..ByteBits : BitOf(byte, i) \in {0, 1}
  <2> HIDE DEF byte
  <2>1. models \in [0..ByteBits -> ModelType]
    BY <1>5, <1>6, ModelsIs
  <2>2. \A i \in 1..ByteBits : BitOf(byte, i) \in {0, 1}
    BY <1>5, BitsGrow
  <2> HIDE DEF models
  <2> QED BY <2>1, <2>2
<1>9. models[ByteBits] = f[n + 1]
  <2>1. f[n + 1] = Models(f[(n + 1) - 1], data[n + 1])[ByteBits]
    <3> HIDE DEF n
    <3> QED BY <1>1, <1>5, Zenon DEF Tells
  <2> QED BY <1>4, <1>5, <2>1
<1> HIDE DEF models, byte, n
<1>10. bits \in Seq(Bits) /\ Len(bits) = ByteBits /\ \A j \in 1..ByteBits : bits[j] = [p |-> Predict(models[j - 1]), bit |-> BitOf(byte, j)]
  <2>1. ASSUME NEW i \in 1..ByteBits PROVE [p |-> Predict(models[i - 1]), bit |-> BitOf(byte, i)] \in Bits
    <3>1. i - 1 \in 0..ByteBits
      BY <1>7
    <3>2. Predict(models[i - 1]) \in 1..Full
      BY <1>8, <3>1, PredictIs
    <3>3. Full \in Nat
      BY WordIs
    <3>4. Predict(models[i - 1]) \in Nat /\ BitOf(byte, i) \in {0, 1}
      BY <1>8, <3>2, <3>3
    <3> QED BY <3>4, Zenon
  <2> HIDE DEF Bits
  <2>2. bits \in [1..ByteBits -> Bits]
    BY <2>1
  <2>3. \A j \in 1..ByteBits : bits[j] = [p |-> Predict(models[j - 1]), bit |-> BitOf(byte, j)]
    OBVIOUS
  <2> HIDE DEF bits
  <2>4. bits \in Seq(Bits) /\ Len(bits) = ByteBits
    BY <1>7, <2>2
  <2> QED BY <2>3, <2>4
<1> DEFINE log == enc.log \o bits
<1> HIDE DEF bits, Bits
<1>11. /\ log \in Seq(Bits) /\ Len(log) = Len(enc.log) + ByteBits
       /\ \A i \in 1..Len(enc.log) : log[i] = enc.log[i]
       /\ \A j \in 1..ByteBits : log[Len(enc.log) + j] = bits[j]
  <2> DEFINE l == enc.log
  <2>1. l \in Seq(Bits) /\ bits \in Seq(Bits) /\ Len(bits) = ByteBits
    BY <1>6, <1>10
  <2> HIDE DEF l
  <2> QED BY <1>7, <2>1 DEF l
<1>12. CodedBits(f, data, n + 1, log)
  <2> DEFINE L == Len(enc.log)
  <2>1. L = n * ByteBits /\ \A i \in 1..n, j \in 1..ByteBits : enc.log[(i - 1) * ByteBits + j] = CodedBit(f, data, i, j)
    BY <1>4 DEF CodedBits
  <2>2. (n + 1) * ByteBits = n * ByteBits + ByteBits
    BY <1>6, <1>7
  <2>3. Len(log) = (n + 1) * ByteBits
    BY <1>11, <2>1, <2>2
  <2>4. ASSUME NEW i \in 1..n + 1, NEW j \in 1..ByteBits
        PROVE  log[(i - 1) * ByteBits + j] = CodedBit(f, data, i, j)
    <3> DEFINE at == (i - 1) * ByteBits + j
    <3>1. CASE i \in 1..n
      <4>1. at \in 1..n * ByteBits
        BY <1>6, <3>1, BitPlaces
      <4>2. log[at] = enc.log[at]
        <5> HIDE DEF at, log
        <5> QED BY <1>11, <2>1, <4>1
      <4> QED BY <2>1, <3>1, <4>2
    <3>2. CASE i = n + 1
      <4>1. at = L + j
        BY <1>5, <2>1, <3>2
      <4>2. log[at] = bits[j]
        BY <1>11, <4>1
      <4>3. models = Models(f[i - 1], data[i])
        BY <1>4, <1>5, <3>2 DEF models, byte
      <4>4. CodedBit(f, data, i, j) = [p |-> Predict(models[j - 1]), bit |-> BitOf(byte, j)]
        BY <3>2, <4>3, Zenon DEF CodedBit, byte
      <4> QED BY <1>10, <4>2, <4>4, Zenon
    <3>3. i \in 1..n \/ i = n + 1
      BY <1>6
    <3> QED BY <3>1, <3>2, <3>3
  <2> HIDE DEF log
  <2> QED BY <2>3, <2>4 DEF CodedBits
<1> HIDE DEF log
<1>13. enc'.done = n + 1 /\ enc'.model = f[n + 1] /\ enc'.log = log
       /\ enc' \in [done : Nat, model : ModelType, log : Seq(Bits)]
  <2>1. models[ByteBits] \in ModelType
    BY <1>7, <1>8
  <2>2. enc' = [enc EXCEPT !.done = n + 1, !.model = models[ByteBits], !.log = log]
    BY <1>3, Zenon DEF log
  <2> DEFINE last == models[ByteBits]
  <2>3. enc' = [done |-> n + 1, model |-> last, log |-> log]
    <3>1. enc = [done |-> enc.done, model |-> enc.model, log |-> enc.log]
      BY <1>2
    <3> HIDE DEF last
    <3> QED BY <2>2, <3>1 DEF last
  <2> HIDE DEF last
  <2>4. last \in ModelType /\ last = f[n + 1] /\ n + 1 \in Nat /\ log \in Seq(Bits)
    BY <1>6, <1>9, <1>11, <2>1 DEF last
  <2> QED BY <2>3, <2>4
<1>14. Sides(f)'
  <2>1. Len(dec.out) = 0
    BY <1>1, <1>2, <1>3 DEF Sides, n
  <2>2. /\ Len(dec.out) \in 0..Len(data) /\ dec.model = f[Len(dec.out)] /\ dec.next = Len(dec.out) * ByteBits + 1
        /\ \A i \in 1..Len(dec.out) : dec.out[i] = data[i]
    BY <1>1 DEF Sides
  <2>3. enc'.done \in 0..Len(data) /\ enc'.model = f[enc'.done] /\ CodedBits(f, data, enc'.done, enc'.log)
    BY <1>5, <1>12, <1>13
  <2>4. data' = data /\ dec' = dec
    BY <1>3
  <2>5. CodedBits(f, data, enc'.done, enc'.log) => CodedBits(f, data, enc.done, enc.log)'
    BY <2>4 DEF CodedBits, CodedBit
  <2> QED BY <2>1, <2>2, <2>3, <2>4, <2>5 DEF Sides
<1> QED BY <1>1, <1>2, <1>3, <1>13, <1>14 DEF MixingInvariant, Bits

\* A byte is decoded.
LEMMA ByteDecoded ==
  ASSUME BwtCmAssumption, MixingInvariant, DecodeByte
  PROVE  MixingInvariant'
<1> DEFINE n == Len(dec.out)
           byte == data[n + 1]
           after == Read(dec.next, dec.model)[ByteBits]
<1>1. PICK f : Tells(f, data) /\ Sides(f)
  BY DEF MixingInvariant
<1>2. /\ data \in Seq(Byte) /\ dec \in [next : Nat, model : ModelType, out : Seq(Byte)]
  BY DEF MixingInvariant
<1>3. /\ enc.done = Len(data) /\ n < Len(data) /\ data' = data /\ enc' = enc
      /\ dec' = [dec EXCEPT !.next = dec.next + ByteBits, !.model = after.model, !.out = Append(dec.out, after.byte)]
  BY DEF DecodeByte
<1>4. dec.model = f[n] /\ dec.next = n * ByteBits + 1 /\ \A i \in 1..n : dec.out[i] = data[i]
  BY <1>1 DEF Sides
<1>5. /\ n \in Nat /\ n + 1 \in 1..Len(data) /\ byte \in Byte /\ (n + 1) - 1 = n /\ Len(data) \in Nat
      /\ dec.model \in ModelType /\ dec.out \in Seq(Byte) /\ dec.next \in Nat /\ ByteBits \in Nat \ {0}
  <2>1. dec.out \in Seq(Byte) /\ dec.next \in Nat /\ dec.model \in ModelType
    BY <1>2
  <2>2. n \in Nat /\ Len(data) \in Nat
    BY <1>2, <2>1
  <2>3. n + 1 \in 1..Len(data) /\ (n + 1) - 1 = n
    <3> HIDE DEF n
    <3> QED BY <1>3, <2>2
  <2> QED BY <1>2, <2>1, <2>2, <2>3 DEF BwtCmAssumption
<1>6. after = [model |-> f[n + 1], byte |-> byte]
  <2>1. ASSUME NEW j \in 1..ByteBits
        PROVE  enc.log[dec.next + j - 1] = [p |-> Predict(Models(dec.model, byte)[j - 1]), bit |-> BitOf(byte, j)]
    <3>1. enc.log[((n + 1) - 1) * ByteBits + j] = CodedBit(f, data, n + 1, j)
      <4>1. CodedBits(f, data, Len(data), enc.log)
        BY <1>1, <1>3 DEF Sides
      <4> HIDE DEF n
      <4> QED BY <1>5, <4>1, Zenon DEF CodedBits
    <3>2. dec.next + j - 1 = ((n + 1) - 1) * ByteBits + j
      <4> DEFINE x == n * ByteBits
      <4>1. x \in Nat /\ ((n + 1) - 1) * ByteBits = x /\ dec.next = x + 1
        BY <1>4, <1>5
      <4> HIDE DEF x
      <4> QED BY <4>1
    <3>3. CodedBit(f, data, n + 1, j) = [p |-> Predict(Models(dec.model, byte)[j - 1]), bit |-> BitOf(byte, j)]
      BY <1>4, <1>5, Zenon DEF CodedBit
    <3> QED BY <3>1, <3>2, <3>3, Zenon
  <2>2. after = [model |-> Models(dec.model, byte)[ByteBits], byte |-> byte]
    <3> HIDE DEF byte
    <3>1. dec.model \in ModelType /\ byte \in Byte /\ dec.next \in Nat
      BY <1>5
    <3> QED BY <2>1, <3>1, ByteReads, Zenon
  <2>3. f[n + 1] = Models(f[(n + 1) - 1], data[n + 1])[ByteBits]
    <3> HIDE DEF n
    <3> QED BY <1>1, <1>5, Zenon DEF Tells
  <2>4. f[n + 1] = Models(dec.model, byte)[ByteBits]
    BY <1>4, <1>5, <2>3
  <2> QED BY <2>2, <2>4, Zenon
<1> HIDE DEF after, byte, n
<1>7. f[n + 1] \in ModelType
  BY <1>1, <1>5 DEF Tells
<1>8. after.model = f[n + 1] /\ after.byte = byte
  BY <1>6
<1> DEFINE out == Append(dec.out, byte)
<1>9. /\ out \in Seq(Byte) /\ Len(out) = n + 1 /\ out[n + 1] = byte /\ \A i \in 1..n : out[i] = dec.out[i]
  <2> DEFINE o == dec.out
  <2>1. o \in Seq(Byte) /\ n = Len(o) /\ byte \in Byte
    BY <1>5 DEF n
  <2> HIDE DEF o
  <2> QED BY <2>1 DEF o
<1> HIDE DEF out
<1>10. dec'.next = dec.next + ByteBits /\ dec'.model = f[n + 1] /\ dec'.out = out
       /\ dec' \in [next : Nat, model : ModelType, out : Seq(Byte)]
  <2>1. dec' = [dec EXCEPT !.next = dec.next + ByteBits, !.model = f[n + 1], !.out = out]
    BY <1>3, <1>8 DEF out
  <2>2. dec.next + ByteBits \in Nat
    BY <1>5
  <2> HIDE DEF ModelType
  <2> QED BY <1>2, <1>7, <1>9, <2>1, <2>2
<1>11. Sides(f)'
  <2>1. enc.done \in 0..Len(data) /\ enc.model = f[enc.done] /\ CodedBits(f, data, enc.done, enc.log)
    BY <1>1 DEF Sides
  <2>2. CodedBits(f, data, enc.done, enc.log)'
    BY <1>3, <2>1 DEF CodedBits, CodedBit
  <2>3. dec.next + ByteBits = (n + 1) * ByteBits + 1
    BY <1>4, <1>5
  <2>4. \A i \in 1..n + 1 : out[i] = data[i]
    <3>1. \A i \in 1..n + 1 : i \in 1..n \/ i = n + 1
      BY <1>5
    <3> QED BY <1>4, <1>9, <3>1 DEF byte
  <2>5. n + 1 \in 0..Len(data)
    BY <1>5
  <2> QED BY <1>3, <1>9, <1>10, <2>1, <2>2, <2>3, <2>4, <2>5 DEF Sides
<1>12. data' \in Seq(Byte) /\ enc' \in [done : Nat, model : ModelType, log : Seq([p : Nat, bit : {0, 1}])]
  BY <1>3 DEF MixingInvariant
<1>13. Tells(f, data')
  BY <1>1, <1>3
<1> QED BY <1>10, <1>11, <1>12, <1>13 DEF MixingInvariant

\* Every step keeps the invariant.
LEMMA MixingKeeps ==
  ASSUME BwtCmAssumption, MixingInvariant, [MixNext]_coderVars
  PROVE  MixingInvariant'
<1>1. CASE EncodeByte
  BY <1>1, ByteCoded
<1>2. CASE DecodeByte
  BY <1>2, ByteDecoded
<1>3. CASE UNCHANGED coderVars
  <2>1. data' = data /\ enc' = enc /\ dec' = dec
    BY <1>3 DEF coderVars
  <2>2. PICK f : Tells(f, data) /\ Sides(f)
    BY DEF MixingInvariant
  <2>3. CodedBits(f, data, enc.done, enc.log) => CodedBits(f, data, enc.done, enc.log)'
    BY <2>1 DEF CodedBits, CodedBit
  <2>4. Sides(f)'
    BY <2>1, <2>2, <2>3 DEF Sides
  <2>5. Tells(f, data')
    BY <2>1, <2>2
  <2> QED BY <2>1, <2>4, <2>5 DEF MixingInvariant
<1> QED BY <1>1, <1>2, <1>3 DEF MixNext

\* The two bytes a side has seen last, and the run, are what they should be.
SideTrue(m, text) ==
  LET at(back) == IF back <= Len(text) THEN text[Len(text) + 1 - back] ELSE 0
  IN  /\ m.node = 1 /\ m.c1 = at(1) /\ m.c2 = at(2)
      /\ \A k \in 1 .. Len(text) : m.run >= k <=> \A j \in 1..k : at(j) = at(j + 1)

\* So they are at the end of each byte, if the text is what was seen.
LEMMA SideIs ==
  ASSUME BwtCmAssumption, NEW text \in Seq(Byte), NEW f, Tells(f, text), NEW n \in 0..Len(text),
         NEW prefix \in Seq(Byte), Len(prefix) = n, \A i \in 1..n : prefix[i] = text[i]
  PROVE  SideTrue(f[n], prefix)
<1> DEFINE at(back) == IF back <= n THEN prefix[n + 1 - back] ELSE 0
<1>1. n \in Nat
  OBVIOUS
<1>2. ASSUME NEW j \in Nat \ {0} PROVE at(j) = Back(text, n, j)
  <2>1. CASE j <= n
    <3>1. n + 1 - j \in 1..n
      BY <1>1, <2>1
    <3> QED BY <2>1, <3>1, Zenon DEF Back
  <2>2. CASE ~(j <= n)
    BY <2>2, Zenon DEF Back
  <2> QED BY <2>1, <2>2
<1>3. /\ f[n].node = 1 /\ f[n].c1 = Back(text, n, 1) /\ f[n].c2 = Back(text, n, 2)
      /\ \A k \in 1..n : f[n].run >= k <=> \A j \in 1..k : Back(text, n, j) = Back(text, n, j + 1)
  BY StoryTrue
<1> HIDE DEF at
<1>4. f[n].node = 1 /\ f[n].c1 = at(1) /\ f[n].c2 = at(2)
  BY <1>2, <1>3
<1>5. ASSUME NEW k \in 1..n PROVE f[n].run >= k <=> \A j \in 1..k : at(j) = at(j + 1)
  <2>1. \A j \in 1..k : at(j) = Back(text, n, j) /\ at(j + 1) = Back(text, n, j + 1)
    <3>1. \A j \in 1..k : j \in Nat \ {0} /\ j + 1 \in Nat \ {0}
      BY <1>1
    <3> QED BY <1>2, <3>1
  <2> QED BY <1>3, <2>1
<1> QED BY <1>4, <1>5, Zenon DEF SideTrue, at

\* What the invariant promises.
LEMMA MixingPromises ==
  ASSUME BwtCmAssumption, MixingInvariant
  PROVE  BytesComeBack /\ CountersFit /\ ContextsTrue
<1>1. PICK f : Tells(f, data) /\ Sides(f)
  BY DEF MixingInvariant
<1> DEFINE n == Len(dec.out)
<1>2. data \in Seq(Byte) /\ enc.model \in ModelType /\ dec.model \in ModelType /\ dec.out \in Seq(Byte)
  BY DEF MixingInvariant
<1>3. /\ enc.done \in 0..Len(data) /\ enc.model = f[enc.done]
      /\ n \in 0..Len(data) /\ dec.model = f[n] /\ \A i \in 1..n : dec.out[i] = data[i]
  BY <1>1 DEF Sides
<1>4. ASSUME NEW k \in 0..Len(data)
      PROVE  /\ SubSeq(data, 1, k) \in Seq(Byte) /\ Len(SubSeq(data, 1, k)) = k
             /\ \A i \in 1..k : SubSeq(data, 1, k)[i] = data[i]
  BY <1>2
<1>5. BytesComeBack
  <2> DEFINE s == SubSeq(data, 1, n)
  <2>1. s \in Seq(Byte) /\ Len(s) = n /\ \A i \in 1..n : s[i] = data[i]
    BY <1>3, <1>4
  <2> HIDE DEF s
  <2>2. dec.out = s
    BY <1>2, <1>3, <2>1
  <2> QED BY <2>2 DEF BytesComeBack, s
<1>6. ASSUME NEW m \in ModelType
      PROVE  /\ \A x \in Node :
                  /\ m.order0[x] \in Word
                  /\ \A b \in Byte : m.order1[b][x] \in Word
                  /\ \A r \in BOOLEAN : \A k \in 0..Buckets-1 : m.sse[r][x][k] \in Word
             /\ Bucket(m) + 1 \in 0..Buckets-1 /\ Refined(m) \in Word /\ Predict(m) \in 1..Full
  <2>1. /\ m.order0 \in [Node -> Word] /\ m.order1 \in [Byte -> [Node -> Word]]
        /\ m.sse \in [BOOLEAN -> [Node -> BucketRows]]
    BY DEF ModelType
  <2>2. ASSUME NEW x \in Node, NEW b \in Byte PROVE m.order1[b][x] \in Word
    <3>1. m.order1[b] \in [Node -> Word]
      BY <2>1
    <3> QED BY <3>1
  <2>3. ASSUME NEW x \in Node, NEW r \in BOOLEAN, NEW k \in 0..Buckets-1 PROVE m.sse[r][x][k] \in Word
    <3>1. m.sse[r] \in [Node -> BucketRows]
      BY <2>1
    <3>2. m.sse[r][x] \in BucketRows
      BY <3>1
    <3> QED BY <3>2 DEF BucketRows
  <2>4. Bucket(m) + 1 \in 0..Buckets-1 /\ Refined(m) \in Word /\ Predict(m) \in 1..Full
    BY BucketIs, PredictIs
  <2> QED BY <2>1, <2>2, <2>3, <2>4
<1>7. CountersFit
  BY <1>2, <1>6, Zenon DEF CountersFit
<1>8. SideTrue(enc.model, SubSeq(data, 1, enc.done))
  <2> DEFINE k == enc.done
             s == SubSeq(data, 1, k)
  <2>1. k \in 0..Len(data) /\ s \in Seq(Byte) /\ Len(s) = k /\ \A i \in 1..k : s[i] = data[i]
    BY <1>3, <1>4
  <2> HIDE DEF k, s
  <2>2. SideTrue(f[k], s)
    BY <1>1, <1>2, <2>1, SideIs
  <2> QED BY <1>3, <2>2 DEF k, s
<1>9. SideTrue(dec.model, dec.out)
  <2>1. n \in 0..Len(data) /\ dec.out \in Seq(Byte) /\ \A i \in 1..n : dec.out[i] = data[i]
    BY <1>2, <1>3
  <2>2. SideTrue(f[n], dec.out)
    BY <1>1, <1>2, <2>1, SideIs
  <2> QED BY <1>3, <2>2
<1>10. ContextsTrue
  <2> DEFINE sides == {[m |-> enc.model, text |-> SubSeq(data, 1, enc.done)], [m |-> dec.model, text |-> dec.out]}
  <2>1. \A side \in sides : SideTrue(side.m, side.text)
    <3> DEFINE one == [m |-> enc.model, text |-> SubSeq(data, 1, enc.done)]
               two == [m |-> dec.model, text |-> dec.out]
    <3>1. one.m = enc.model /\ one.text = SubSeq(data, 1, enc.done) /\ two.m = dec.model /\ two.text = dec.out
      OBVIOUS
    <3>2. SideTrue(one.m, one.text) /\ SideTrue(two.m, two.text)
      BY <1>8, <1>9, <3>1, Zenon
    <3> HIDE DEF one, two
    <3>3. \A side \in {one, two} : SideTrue(side.m, side.text)
      BY <3>2, Zenon
    <3> QED BY <3>3, Zenon DEF one, two
  <2> QED BY <2>1, Zenon DEF ContextsTrue, SideTrue
<1> QED BY <1>5, <1>7, <1>10

---------------------------------------------------------------------------
(* What all of them promise.                                               *)

\* No carry is ever lost, whatever is in the cache and however many bytes of
\* 0xFF wait behind it (range_coder.rs: shift_low, encode_bit,
\* encode_direct_bits, encode_freq, finish).
THEOREM CarriesAreKept ==
  ASSUME RangeCoderAssumption
  PROVE  RangeSpec => []CarriesKept
<1>1. RangeInit => RangeInv
  BY RangeStarts
<1>2. RangeInv /\ [RangeNext]_coderVars => RangeInv'
  BY RangeKeeps
<1>3. RangeInv => CarriesKept
  BY RangePromises
<1> QED BY <1>1, <1>2, <1>3, PTL DEF RangeSpec

\* The range is never short of a byte between operations, on either side, and
\* no probability that adapts ever becomes certain (range_coder.rs:
\* encode_bit, encode_freq, decode_freq).
THEOREM RoomIsLeft ==
  ASSUME RangeCoderAssumption
  PROVE  RangeSpec => []RoomLeft
<1>1. RangeInit => RangeInv
  BY RangeStarts
<1>2. RangeInv /\ [RangeNext]_coderVars => RangeInv'
  BY RangeKeeps
<1>3. RangeInv => RoomLeft
  BY RangePromises
<1> QED BY <1>1, <1>2, <1>3, PTL DEF RangeSpec

\* The range decoder gives back what was coded, in order, and reads no byte
\* past the five of finish (range_coder.rs: RangeEncoder, RangeDecoder).
THEOREM RangeGivesBack ==
  ASSUME RangeCoderAssumption
  PROVE  RangeSpec => []DecodesWhatWasCoded
<1>1. RangeInit => RangeInv
  BY RangeStarts
<1>2. RangeInv /\ [RangeNext]_coderVars => RangeInv'
  BY RangeKeeps
<1>3. RangeInv => DecodesWhatWasCoded
  BY RangePromises
<1> QED BY <1>1, <1>2, <1>3, PTL DEF RangeSpec

\* Every bit given back is the bit that was coded, whatever probabilities the
\* models gave, and the decoder's window stays between its bounds and reads
\* no byte that was not written (bwt_cm.rs: Encoder, Decoder).
THEOREM CarrylessGivesBack ==
  ASSUME CarrylessAssumption
  PROVE  CarrylessSpec => []BitsComeBack
<1>1. CarrylessInit => CarrylessInvariant
  BY FirstTraced
<1>2. CarrylessInvariant /\ [CarrylessNext]_coderVars => CarrylessInvariant'
  BY CarrylessKeeps
<1>3. CarrylessInvariant => BitsComeBack
  BY CarrylessPromises
<1> QED BY <1>1, <1>2, <1>3, PTL DEF CarrylessSpec

\* Of whichever of them runs.
CodersInvariant ==
  /\ part \in {"range", "carryless", "mixing"}
  /\ part = "range" => RangeInv
  /\ part = "carryless" => CarrylessInvariant
  /\ part = "mixing" => MixingInvariant

\* It holds from the beginning.
LEMMA CodersStart ==
  ASSUME RangeCoderAssumption, CarrylessAssumption, BwtCmAssumption, CodersInit
  PROVE  CodersInvariant
<1>1. CASE part = "range" /\ RangeInit
  BY <1>1, RangeStarts DEF CodersInvariant
<1>2. CASE part = "carryless" /\ CarrylessInit
  BY <1>2, FirstTraced DEF CodersInvariant
<1>3. CASE part = "mixing" /\ MixInit
  BY <1>3, MixingStarts DEF CodersInvariant
<1> QED BY <1>1, <1>2, <1>3 DEF CodersInit

\* Every step keeps it.
LEMMA CodersKeep ==
  ASSUME RangeCoderAssumption, CarrylessAssumption, BwtCmAssumption, CodersInvariant, [CodersNext]_<<part, coderVars>>
  PROVE  CodersInvariant'
<1>1. CASE part = "range"
  <2>1. RangeInv /\ [RangeNext]_coderVars /\ part' = part
    BY <1>1 DEF CodersInvariant, CodersNext
  <2>2. RangeInv'
    BY <2>1, RangeKeeps
  <2> QED BY <1>1, <2>1, <2>2 DEF CodersInvariant
<1>2. CASE part = "carryless"
  <2>1. CarrylessInvariant /\ [CarrylessNext]_coderVars /\ part' = part
    BY <1>2 DEF CodersInvariant, CodersNext
  <2>2. CarrylessInvariant'
    BY <2>1, CarrylessKeeps
  <2> QED BY <1>2, <2>1, <2>2 DEF CodersInvariant
<1>3. CASE part = "mixing"
  <2>1. MixingInvariant /\ [MixNext]_coderVars /\ part' = part
    BY <1>3 DEF CodersInvariant, CodersNext
  <2>2. MixingInvariant'
    BY <2>1, MixingKeeps
  <2> QED BY <1>3, <2>1, <2>2 DEF CodersInvariant
<1> QED BY <1>1, <1>2, <1>3 DEF CodersInvariant

\* Whichever coder is under a codec, its decoder gives back what was coded from
\* the bytes there are (range_coder.rs, bwt_cm.rs).
THEOREM CodersStayExact ==
  ASSUME RangeCoderAssumption, CarrylessAssumption, BwtCmAssumption
  PROVE  CodersSpec => []CodersExact
<1>1. CodersInit => CodersInvariant
  BY CodersStart
<1>2. CodersInvariant /\ [CodersNext]_<<part, coderVars>> => CodersInvariant'
  BY CodersKeep
<1>3. CodersInvariant => CodersExact
  BY RangePromises, CarrylessPromises DEF CodersInvariant, CodersExact
<1> QED BY <1>1, <1>2, <1>3, PTL DEF CodersSpec

\* The mixing model is the same on either side of every byte of every text:
\* the decoder makes the encoder's predictions, so the bytes come back, and no
\* counter leaves its word on the way (bwt_cm.rs: Model, encode, decode).
THEOREM MixingStaysFaithful ==
  ASSUME RangeCoderAssumption, CarrylessAssumption, BwtCmAssumption
  PROVE  CodersSpec => []MixingFaithful
<1>1. CodersInit => CodersInvariant
  BY CodersStart
<1>2. CodersInvariant /\ [CodersNext]_<<part, coderVars>> => CodersInvariant'
  BY CodersKeep
<1>3. CodersInvariant => MixingFaithful
  BY MixingPromises DEF CodersInvariant, MixingFaithful
<1> QED BY <1>1, <1>2, <1>3, PTL DEF CodersSpec
==============================================================================
