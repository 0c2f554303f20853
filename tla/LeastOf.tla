------------------------------- MODULE LeastOf -------------------------------
(***************************************************************************)
(* The least of a set of natural numbers, and that there is one; what      *)
(* follows for definitions by recursion: an argument by least              *)
(* counterexample takes the place of an induction; and what quotients and  *)
(* rests are.                                                              *)
(***************************************************************************)
EXTENDS Integers, TLAPS, WellFoundedInduction

Least(S) == CHOOSE x \in S : \A y \in S : x <= y

\* Every set of natural numbers with a member has a least one.
LEMMA LeastIsLeast ==
  ASSUME NEW S, S \subseteq Nat, S # {}
  PROVE  Least(S) \in S /\ \A y \in S : Least(S) <= y
<1> DEFINE R == OpToRel(<, Nat)
<1>1. PICK x \in S : \A y \in S : ~(<<y, x>> \in R)
  <2>1. IsWellFoundedOn(R, Nat)
    BY NatLessThanWellFounded
  <2> HIDE DEF R
  <2> QED
    BY <2>1, WFMin
<1>2. \A y \in S : x <= y
  <2> SUFFICES ASSUME NEW y \in S PROVE x <= y
    OBVIOUS
  <2>1. ~(y < x)
    BY <1>1 DEF OpToRel
  <2> QED
    BY <2>1
<1> QED
  BY <1>2 DEF Least

\* What holds of 0, and of a number when it holds of the one before, holds of
\* them all.
LEMMA UpTo ==
  ASSUME NEW n \in Nat, NEW P, 0 \in P, \A k \in 1..n : k - 1 \in P => k \in P
  PROVE  0..n \subseteq P
<1> DEFINE Not == (0..n) \ P
<1> SUFFICES ASSUME Not # {} PROVE FALSE
  OBVIOUS
<1>1. Not \subseteq Nat
  OBVIOUS
<1>2. Least(Not) \in Not /\ \A y \in Not : Least(Not) <= y
  <2> HIDE DEF Not
  <2> QED BY <1>1, LeastIsLeast
<1>3. PICK k \in Not : \A y \in Not : k <= y
  BY <1>2
<1>4. k \in 1..n /\ k - 1 \in 0..n
  BY <1>3
<1>5. k - 1 \notin Not
  BY <1>3, <1>4
<1> QED BY <1>3, <1>4, <1>5

\* The sums of the first numbers of a row exist.
LEMMA Sums ==
  ASSUME NEW n \in Nat, NEW row \in [1..n -> Nat]
  PROVE  \E f \in [0..n -> Nat] : f[0] = 0 /\ \A k \in 1..n : f[k] = f[k - 1] + row[k]
<1> DEFINE Follows(f, m) == f[0] = 0 /\ \A k \in 1..m : f[k] = f[k - 1] + row[k]
           Defined == {m \in 0..n : \E f \in [0..m -> Nat] : Follows(f, m)}
<1>1. 0 \in Defined
  <2> DEFINE f == [k \in 0..0 |-> 0]
  <2>1. f \in [0..0 -> Nat] /\ f[0] = 0 /\ 1..0 = {}
    OBVIOUS
  <2> HIDE DEF f
  <2>2. Follows(f, 0)
    BY <2>1
  <2> QED BY <2>1, <2>2
<1>2. ASSUME NEW m \in 1..n, m - 1 \in Defined
      PROVE  m \in Defined
  <2>1. PICK f \in [0..m - 1 -> Nat] : Follows(f, m - 1)
    BY <1>2
  <2> DEFINE g == [k \in 0..m |-> IF k = m THEN f[m - 1] + row[m] ELSE f[k]]
  <2>2. f[m - 1] \in Nat
    OBVIOUS
  <2>3. g \in [0..m -> Nat] /\ g[m] = f[m - 1] + row[m] /\ \A j \in 0..m - 1 : g[j] = f[j]
    <3>1. f[m - 1] + row[m] \in Nat
      BY <2>2
    <3> QED BY <3>1
  <2> HIDE DEF g
  <2>4. g[0] = 0
    BY <2>1, <2>3
  <2>5. ASSUME NEW k \in 1..m PROVE g[k] = g[k - 1] + row[k]
    <3>1. k - 1 \in 0..m - 1 /\ g[k - 1] = f[k - 1]
      BY <2>3
    <3>2. CASE k = m
      BY <2>3, <3>1, <3>2
    <3>3. CASE k # m
      <4>1. k \in 1..m - 1 /\ g[k] = f[k]
        BY <2>3, <3>3
      <4>2. f[k] = f[k - 1] + row[k]
        BY <2>1, <4>1
      <4> QED BY <3>1, <4>1, <4>2
    <3> QED BY <3>2, <3>3
  <2>6. Follows(g, m)
    BY <2>4, <2>5
  <2> HIDE DEF Follows
  <2>7. \E h \in [0..m -> Nat] : Follows(h, m)
    BY <2>3, <2>6
  <2>8. m \in 0..n
    OBVIOUS
  <2> QED BY <2>7, <2>8
<1>3. 0..n \subseteq Defined
  <2> HIDE DEF Defined
  <2> QED BY <1>1, <1>2, UpTo
<1>4. n \in Defined
  <2> HIDE DEF Defined
  <2>1. n \in 0..n
    OBVIOUS
  <2> QED BY <1>3, <2>1
<1>5. \E f \in [0..n -> Nat] : Follows(f, n)
  <2> HIDE DEF Follows
  <2> QED BY <1>4
<1> QED BY <1>5, Zenon

\* A row that begins with x and goes on by g[1], g[2], and so on to g[n].
HasCourse(n, S, x, g) ==
  \E f \in [0..n -> S] : f[0] = x /\ \A k \in 1..n : f[k] = g[k][f[k - 1]]

\* There is one.
LEMMA Courses ==
  ASSUME NEW n \in Nat, NEW S, NEW x \in S, NEW g \in [1..n -> [S -> S]]
  PROVE  HasCourse(n, S, x, g)
<1> DEFINE Goes(k, y) == g[k][y]
           Follows(f, m) == f[0] = x /\ \A k \in 1..m : f[k] = Goes(k, f[k - 1])
           Defined == {m \in 0..n : \E f \in [0..m -> S] : Follows(f, m)}
<1>1. \A k \in 1..n, y \in S : Goes(k, y) \in S
  OBVIOUS
<1> HIDE DEF Goes
<1>2. 0 \in Defined
  <2> DEFINE f == [k \in 0..0 |-> x]
  <2>1. f \in [0..0 -> S] /\ f[0] = x /\ 1..0 = {}
    OBVIOUS
  <2> HIDE DEF f
  <2>2. Follows(f, 0)
    BY <2>1
  <2> QED BY <2>1, <2>2
<1>3. ASSUME NEW m \in 1..n, m - 1 \in Defined
      PROVE  m \in Defined
  <2>1. PICK f \in [0..m - 1 -> S] : Follows(f, m - 1)
    BY <1>3
  <2> DEFINE h == [k \in 0..m |-> IF k = m THEN Goes(m, f[m - 1]) ELSE f[k]]
  <2>2. m - 1 \in 0..m - 1 /\ f[m - 1] \in S /\ Goes(m, f[m - 1]) \in S
    BY <1>1
  <2>3. h \in [0..m -> S] /\ h[m] = Goes(m, f[m - 1]) /\ \A j \in 0..m - 1 : h[j] = f[j]
    BY <2>2
  <2> HIDE DEF h
  <2>4. h[0] = x
    BY <2>1, <2>3
  <2>5. ASSUME NEW k \in 1..m PROVE h[k] = Goes(k, h[k - 1])
    <3>1. k - 1 \in 0..m - 1 /\ h[k - 1] = f[k - 1]
      BY <2>3
    <3>2. CASE k = m
      BY <2>3, <3>1, <3>2
    <3>3. CASE k # m
      <4>1. k \in 1..m - 1 /\ h[k] = f[k]
        BY <2>3, <3>3
      <4>2. f[k] = Goes(k, f[k - 1])
        BY <2>1, <4>1
      <4> QED BY <3>1, <4>1, <4>2
    <3> QED BY <3>2, <3>3
  <2>6. Follows(h, m)
    BY <2>4, <2>5
  <2> HIDE DEF Follows
  <2>7. \E j \in [0..m -> S] : Follows(j, m)
    BY <2>3, <2>6
  <2>8. m \in 0..n
    OBVIOUS
  <2> QED BY <2>7, <2>8
<1>4. 0..n \subseteq Defined
  <2> HIDE DEF Defined
  <2> QED BY <1>2, <1>3, UpTo
<1>5. n \in Defined
  <2> HIDE DEF Defined
  <2>1. n \in 0..n
    OBVIOUS
  <2> QED BY <1>4, <2>1
<1>6. \E f \in [0..n -> S] : Follows(f, n)
  <2> HIDE DEF Follows
  <2> QED BY <1>5
<1> QED BY <1>6, Zenon DEF HasCourse, Goes

\* A row that begins with x and goes on by g, n times.
HasIterates(n, S, x, g) ==
  \E f \in [0..n -> S] : f[0] = x /\ \A k \in 1..n : f[k] = g[f[k - 1]]

\* There is one.
LEMMA Iterates ==
  ASSUME NEW n \in Nat, NEW S, NEW x \in S, NEW g \in [S -> S]
  PROVE  HasIterates(n, S, x, g)
<1> DEFINE h == [k \in 1..n |-> g]
<1>1. h \in [1..n -> [S -> S]] /\ \A k \in 1..n : h[k] = g
  OBVIOUS
<1> HIDE DEF h
<1>2. PICK f \in [0..n -> S] : f[0] = x /\ \A k \in 1..n : f[k] = h[k][f[k - 1]]
  <2>1. HasCourse(n, S, x, h)
    BY <1>1, Courses
  <2> QED BY <2>1, Zenon DEF HasCourse
<1>3. \A k \in 1..n : f[k] = g[f[k - 1]]
  BY <1>1, <1>2
<1> QED BY <1>2, <1>3, Zenon DEF HasIterates

---------------------------------------------------------------------------
(* Division                                                                *)

\* Multiples of a number are that number apart.
LEMMA Multiples ==
  ASSUME NEW n \in Nat, NEW x \in Int, NEW y \in Int, x < y
  PROVE  n * x + n <= n * y /\ n * x \in Int /\ n * y \in Int
<1>1. y - x - 1 \in Nat /\ y = x + 1 + (y - x - 1)
  OBVIOUS
<1>2. PICK d \in Nat : y = x + 1 + d
  BY <1>1
<1>3. n * y = n * x + n + n * d /\ n * d \in Nat /\ n * x \in Int /\ n * y \in Int
  BY <1>2
<1> QED BY <1>3

\* The same with the number on the right.
LEMMA MultiplesRight ==
  ASSUME NEW n \in Nat, NEW x \in Int, NEW y \in Int, x < y
  PROVE  x * n + n <= y * n /\ x * n \in Int /\ y * n \in Int
<1>1. n * x + n <= n * y /\ n * x \in Int /\ n * y \in Int
  BY Multiples
<1>2. n * x = x * n /\ n * y = y * n
  OBVIOUS
<1> QED BY <1>1, <1>2

\* A number is its quotient's multiple and the rest.
LEMMA Quotient ==
  ASSUME NEW e \in Nat, NEW n \in Nat, n > 0
  PROVE  e = n * (e \div n) + (e % n)
BY SMT

\* Quotient and rest of a division are numbers.
LEMMA QuotientType ==
  ASSUME NEW e \in Nat, NEW n \in Nat \ {0}
  PROVE  e \div n \in Nat /\ e % n \in 0..n - 1
BY Z3

\* Both together.
LEMMA Parts ==
  ASSUME NEW x \in Nat, NEW r \in Nat \ {0}
  PROVE  /\ x \div r \in Nat /\ x % r \in 0..r - 1 /\ x = r * (x \div r) + (x % r)
<1>1. x \div r \in Nat /\ x % r \in 0..r - 1
  BY QuotientType
<1>2. x = r * (x \div r) + (x % r)
  <2>1. r \in Nat /\ r > 0
    OBVIOUS
  <2> QED BY <2>1, Quotient, Zenon
<1> QED BY <1>1, <1>2

\* There is one such way to part it.
LEMMA PartedOnce ==
  ASSUME NEW x \in Nat, NEW r \in Nat \ {0}, NEW q \in Nat, NEW s \in 0..r - 1, x = r * q + s
  PROVE  x \div r = q /\ x % r = s
<1> DEFINE a == x \div r
           b == x % r
<1>1. a \in Nat /\ b \in 0..r - 1 /\ x = r * a + b
  BY Parts
<1> HIDE DEF a, b
<1>2. a = q
  <2>1. ~(a < q)
    BY <1>1, Multiples
  <2>2. ~(q < a)
    BY <1>1, Multiples
  <2> QED BY <1>1, <2>1, <2>2
<1>3. b = s
  <2>1. r * a \in Nat
    BY <1>1
  <2> QED BY <1>1, <1>2, <2>1
<1> QED BY <1>2, <1>3 DEF a, b

\* A greater number has no smaller quotient.
LEMMA QuotientGrows ==
  ASSUME NEW x \in Nat, NEW y \in Nat, x <= y, NEW r \in Nat \ {0}
  PROVE  x \div r <= y \div r
<1> DEFINE a == x \div r
           b == y \div r
<1>1. a \in Nat /\ b \in Nat /\ \E s, u \in 0..r - 1 : x = r * a + s /\ y = r * b + u
  BY Parts
<1> HIDE DEF a, b
<1>2. ~(b < a)
  BY <1>1, Multiples
<1> QED BY <1>1, <1>2 DEF a, b

\* Dividing twice is dividing by the product.
LEMMA QuotientTwice ==
  ASSUME NEW x \in Nat, NEW t \in Nat \ {0}, NEW b \in Nat \ {0}
  PROVE  x \div (b * t) = (x \div t) \div b
<1> DEFINE q == x \div t
           m == x % t
<1>1. q \in Nat /\ m \in 0..t - 1 /\ x = t * q + m
  BY Parts
<1> HIDE DEF q, m
<1> DEFINE a == q \div b
           c == q % b
<1>2. a \in Nat /\ c \in 0..b - 1 /\ q = b * a + c
  BY <1>1, Parts
<1> HIDE DEF a, c
<1>3. t * q = (b * t) * a + t * c /\ t * c + t <= t * b /\ t * c \in Nat /\ t * b = b * t /\ b * t \in Nat \ {0}
  <2>1. t * (b * a + c) = (b * t) * a + t * c
    <3>1. t * (b * a + c) = t * (b * a) + t * c /\ t * (b * a) = (b * t) * a
      BY <1>2
    <3> QED BY <3>1
  <2>2. t * c + t <= t * b /\ t * c \in Int /\ t * b \in Int
    BY <1>2, Multiples
  <2> QED BY <1>2, <2>1, <2>2
<1> DEFINE r == b * t
           s == t * c + m
<1>4. s \in 0..r - 1 /\ r \in Nat \ {0}
  BY <1>1, <1>3
<1>5. x = r * a + s
  <2>1. (b * t) * a \in Nat
    BY <1>2, <1>3
  <2> QED BY <1>1, <1>3, <2>1
<1> HIDE DEF r, s
<1>6. x \div r = a
  BY <1>2, <1>4, <1>5, PartedOnce
<1> QED BY <1>6 DEF r, a, q
=============================================================================
