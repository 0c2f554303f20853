------------------------------ MODULE SetCodes ------------------------------
(***************************************************************************)
(* Two ways to name a set of the positions 0 .. n - 1.  By its rank among  *)
(* all sets of t of them (src/codecs/minmask/enumerative.rs), with numbers *)
(* of any size in limbs of two halves.  And, few positions of n = 2^m - 1, *)
(* by what their polynomial leaves when divided by the generator of a BCH  *)
(* code (src/codecs/minmask/bch.rs): a polynomial over GF(2), and an       *)
(* element of GF(2^m), is the set of its exponents: adding is SymDiff,     *)
(* zero is {}, one is {0}.                                                 *)
(***************************************************************************)
EXTENDS Integers, Sequences, FiniteSets, FiniteSetsExt

CONSTANTS
  Half,      \* values of half a limb: 2^32; what is divided by is less
  PrimPoly,  \* PRIM_POLY: for each m there is a code for, a primitive polynomial
  MaxT       \* MAX_T: the most errors a code is made for

Limb == Half * Half

---------------------------------------------------------------------------
(* Big: limbs, low one first, the last not zero                            *)

BigZero == << >>
BigOne  == <<1>>

RECURSIVE Trimmed(_)
Trimmed(a) == IF a # << >> /\ a[Len(a)] = 0 THEN Trimmed(SubSeq(a, 1, Len(a) - 1)) ELSE a
LimbOf(a, i) == IF i \in DOMAIN a THEN a[i] ELSE 0

\* The limbs of a sum of products, given what carry each limb takes in.
TimesSmall(a, m) ==
  LET carry[i \in 0 .. Len(a)] == IF i = 0 THEN 0 ELSE (a[i] * m + carry[i - 1]) \div Limb
      limbs == [i \in DOMAIN a |-> (a[i] * m + carry[i - 1]) % Limb]
  IN  Trimmed(IF carry[Len(a)] > 0 THEN Append(limbs, carry[Len(a)]) ELSE limbs)

\* MUTANT: the low half is divided without what was left of the high one.
DividedHalves(a, d) ==
  LET rem[i \in 1 .. Len(a) + 1] == IF i > Len(a) THEN 0 ELSE (a[i] % Half) % d
      high(i) == rem[i + 1] * Half + a[i] \div Half
      low(i)  == a[i] % Half
  IN  Trimmed([i \in DOMAIN a |-> (high(i) \div d) * Half + low(i) \div d])

\* div_small, from the high limb down, a half at a time.
Divided(a, d) ==
  LET rem[i \in 1 .. Len(a) + 1] ==
        IF i > Len(a) THEN 0
        ELSE (((rem[i + 1] * Half + a[i] \div Half) % d) * Half + (a[i] % Half)) % d
      high(i) == rem[i + 1] * Half + a[i] \div Half
      low(i)  == (high(i) % d) * Half + (a[i] % Half)
  IN  Trimmed([i \in DOMAIN a |-> (high(i) \div d) * Half + low(i) \div d])

Plus(a, b) ==
  LET n == IF Len(a) < Len(b) THEN Len(b) ELSE Len(a)
      carry[i \in 0..n] == IF i = 0 THEN 0 ELSE (LimbOf(a, i) + LimbOf(b, i) + carry[i - 1]) \div Limb
      limbs == [i \in 1..n |-> (LimbOf(a, i) + LimbOf(b, i) + carry[i - 1]) % Limb]
  IN  IF carry[n] > 0 THEN Append(limbs, carry[n]) ELSE limbs

Minus(a, b) ==
  LET borrow[i \in 0 .. Len(a)] ==
        IF i = 0 THEN 0 ELSE IF a[i] - LimbOf(b, i) - borrow[i - 1] < 0 THEN 1 ELSE 0
  IN  Trimmed([i \in DOMAIN a |-> (a[i] - LimbOf(b, i) - borrow[i - 1]) % Limb])

\* cmp_big
Greater(a, b) ==
  \/ Len(a) > Len(b)
  \/ /\ Len(a) = Len(b)
     /\ \E i \in DOMAIN a : a[i] > b[i] /\ \A j \in i + 1 .. Len(a) : a[j] = b[j]

LimbLength(x) == CHOOSE k \in 0..30 : x < 2^k /\ (k > 0 => x >= 2^(k - 1))
LimbBits == LimbLength(Limb - 1)
BigLength(a) == IF a = << >> THEN 0 ELSE LimbBits * (Len(a) - 1) + LimbLength(a[Len(a)])
BigBit(a, i) == (LimbOf(a, i \div LimbBits + 1) \div 2^(i % LimbBits)) % 2

\* from_bits_msb_first
BigOf(bits) ==
  LET v[k \in 0 .. Len(bits)] ==
        IF k = 0 THEN BigZero
        ELSE LET twice == TimesSmall(v[k - 1], 2) IN IF bits[k] = 1 THEN Plus(twice, BigOne) ELSE twice
  IN  v[Len(bits)]

---------------------------------------------------------------------------
(* C(n, k), and the bits a rank among that many takes                      *)

Binom(n, k) ==
  LET least == IF k < n - k THEN k ELSE n - k
      c[i \in 0 .. least] == IF i = 0 THEN BigOne ELSE Divided(TimesSmall(c[i - 1], n - i + 1), i)
  IN  IF k > n THEN BigZero ELSE c[least]

\* rank_width.  Where the estimate is not too close to a whole number to tell,
\* the code rounds it up and does not compute C(n, t).
RankWidth(n, t) == IF t = 0 \/ t >= n THEN 0 ELSE BigLength(Minus(Binom(n, t), BigOne))

---------------------------------------------------------------------------
(* rank: the sum of C(p, i) over the positions p, i counted from 1         *)

RankDirect(ones) ==
  LET r[i \in 0 .. Len(ones)] == IF i = 0 THEN BigZero ELSE Plus(r[i - 1], Binom(ones[i], i))
  IN  r[Len(ones)]

\* C(a, i) as a grows to p: one at a = i, nothing before.
RECURSIVE Grown(_, _, _, _)
Grown(v, a, i, p) ==
  IF a >= p THEN v
  ELSE Grown(IF a + 1 = i THEN BigOne
             ELSE IF a + 1 > i THEN Divided(TimesSmall(v, a + 1), a + 1 - i) ELSE v, a + 1, i, p)

\* MUTANT: the binomial is carried on though it has run out.
RankWalkedOn(ones) ==
  LET walk[i \in 0 .. Len(ones)] ==
        IF i = 0 THEN [rank |-> BigZero, v |-> BigZero, a |-> 0]
        ELSE LET s == walk[i - 1]
                 v == Grown(s.v, s.a, i, ones[i])
             IN  [rank |-> Plus(s.rank, v), a |-> ones[i],
                  v |-> IF ones[i] >= i THEN Divided(TimesSmall(v, ones[i] - i), i + 1) ELSE BigOne]
  IN  walk[Len(ones)].rank

\* rank_incremental: one walk over the positions.
RankWalked(ones) ==
  LET walk[i \in 0 .. Len(ones)] ==
        IF i = 0 THEN [rank |-> BigZero, v |-> BigZero, a |-> 0]
        ELSE LET s == walk[i - 1]
                 v == Grown(s.v, s.a, i, ones[i])
             IN  [rank |-> Plus(s.rank, v), a |-> ones[i],
                  v |-> IF ones[i] > i THEN Divided(TimesSmall(v, ones[i] - i), i + 1) ELSE BigZero]
  IN  walk[Len(ones)].rank

Rank(ones, n) == IF (Len(ones) * Len(ones)) \div 2 < n THEN RankDirect(ones) ELSE RankWalked(ones)

---------------------------------------------------------------------------
(* unrank: the positions from the last one down, or FALSE for no rank      *)

\* The last position whose C(p, i) is not more than what is left.
RECURSIVE Lowered(_, _, _, _)
Lowered(v, p, i, rest) ==
  IF ~Greater(v, rest) THEN [ok |-> TRUE, v |-> v, p |-> p]
  ELSE IF p = 0 THEN [ok |-> FALSE]
  ELSE Lowered(IF p > i THEN Divided(TimesSmall(v, p - i), p) ELSE BigZero, p - 1, i, rest)

RECURSIVE Found(_, _, _, _, _)
Found(v, p, i, rest, found) ==
  LET at == Lowered(v, p, i, rest)
  IN  IF ~at.ok THEN [ok |-> FALSE]
      ELSE LET left == Minus(rest, at.v)
               all  == found \cup {at.p}
           IN  IF i = 1 THEN [ok |-> left = BigZero, ones |-> all]
               ELSE IF at.p = 0 THEN [ok |-> FALSE]
               ELSE Found(Divided(TimesSmall(at.v, i), at.p), at.p - 1, i - 1, left, all)

Unranked(rank, n, t) ==
  IF t = 0 THEN [ok |-> rank = BigZero, ones |-> {}]
  ELSE IF t > n THEN [ok |-> FALSE]
  ELSE Found(Binom(n - 1, t), n - 1, t, rank, {})

---------------------------------------------------------------------------
(* bch.rs                                                                  *)

Zero == {}
One  == {0}
Size(m) == 2^m - 1

---------------------------------------------------------------------------
(* Gf                                                                      *)

\* The powers of alpha: times x, less the polynomial when that is too long.
Powers(m) ==
  LET pow[i \in 0 .. Size(m) - 1] ==
        IF i = 0 THEN One
        ELSE LET x == {e + 1 : e \in pow[i - 1]} IN IF m \in x THEN SymDiff(x, PrimPoly[m]) ELSE x
  IN  pow

Gf(m) ==
  LET exp == Powers(m)
  IN  [n |-> Size(m), exp |-> exp,
       log |-> [a \in {exp[i] : i \in DOMAIN exp} |-> CHOOSE i \in DOMAIN exp : exp[i] = a]]

AlphaPow(gf, e) == gf.exp[e % gf.n]
Times(gf, a, b) == IF a = Zero \/ b = Zero THEN Zero ELSE AlphaPow(gf, gf.log[a] + gf.log[b])
Over(gf, a, b)  == IF a = Zero THEN Zero ELSE AlphaPow(gf, gf.log[a] + gf.n - gf.log[b])

---------------------------------------------------------------------------
(* Polynomials over GF(2)                                                  *)

Shifted(p, by) == {e + by : e \in p}
Product(a, b) ==
  LET f[k \in 0 .. 1 + Max({0} \cup b)] ==
        IF k = 0 THEN {} ELSE IF k - 1 \in b THEN SymDiff(f[k - 1], Shifted(a, k - 1)) ELSE f[k - 1]
  IN  f[1 + Max({0} \cup b)]

\* From the high exponents down; g is not empty.
Remainder(e, g, n) ==
  LET deg == Max(g)
      r[p \in deg..n] == IF p = n THEN e
                         ELSE LET above == r[p + 1]
                              IN  IF p \in above THEN SymDiff(above, Shifted(g, p - deg)) ELSE above
  IN  r[deg]

---------------------------------------------------------------------------
(* Bch::new: the generator for each number of errors                       *)

Coset(i, n) == {(i * 2^k) % n : k \in 0 .. n}

\* The product of x - alpha^j over a coset; its coefficients are 0 or 1.
MinimalPoly(gf, coset) ==
  LET js == CHOOSE s \in [1 .. Cardinality(coset) -> coset] : \A a, b \in DOMAIN s : s[a] = s[b] => a = b
      poly[k \in 0 .. Cardinality(coset)] ==
        IF k = 0 THEN [e \in {0} |-> One]
        ELSE LET p == poly[k - 1]
                 at(e) == IF e \in DOMAIN p THEN p[e] ELSE Zero
             IN  [e \in 0..k |-> SymDiff(at(e - 1), Times(gf, at(e), AlphaPow(gf, js[k])))]
      whole == poly[Cardinality(coset)]
  IN  {e \in DOMAIN whole : whole[e] = One}

\* The polynomial whose roots are the first so many powers of alpha, and what
\* they bring along: each coset goes in once.
WithRoots(gf, many) ==
  LET marked(i) == \E j \in 1 .. i - 1 : i \in Coset(j, gf.n)
      g[i \in 0..many] ==
        IF i = 0 THEN One
        ELSE IF marked(i) THEN g[i - 1] ELSE Product(g[i - 1], MinimalPoly(gf, Coset(i, gf.n)))
  IN  g[many]

Offered(gf) == {t \in 0..MaxT : 2 * t < gf.n \/ t = 0}
\* MUTANT: the roots of the last error are left out.
GeneratorsShort(gf) == [t \in Offered(gf) |-> WithRoots(gf, IF t = 0 THEN 0 ELSE 2 * t - 2)]

\* For each number of errors, with roots for twice as many.
Generators(gf) == [t \in Offered(gf) |-> WithRoots(gf, 2 * t)]

CodeOf(m) == LET gf == Gf(m) IN [gf |-> gf, generators |-> Generators(gf)]

\* for_len; the codes are made once.
Codes == [m \in DOMAIN PrimPoly |-> CodeOf(m)]
HasCode(n) == \E m \in DOMAIN PrimPoly : n = Size(m)
CodeFor(n) == Codes[CHOOSE m \in DOMAIN PrimPoly : n = Size(m)]

SyndromeBits(code, t) == Max(code.generators[t])
Syndrome(code, ones, t) == Remainder(ones, code.generators[t], code.gf.n)

---------------------------------------------------------------------------
(* decode                                                                  *)

\* The values at alpha, alpha^2, ... of the bits looked for.
Sums(gf, r, t) ==
  [j \in 1 .. 2 * t |->
    LET s[p \in 0 .. gf.n] == IF p = 0 THEN Zero
                              ELSE IF p - 1 \in r THEN SymDiff(s[p - 1], AlphaPow(gf, j * (p - 1))) ELSE s[p - 1]
    IN  s[gf.n]]

\* MUTANT: the length of the register stays as it was.
BerlekampStays(gf, syn, t) ==
  LET Deg == 0 .. 2 * t
      Start == [c |-> [e \in Deg |-> IF e = 0 THEN One ELSE Zero], b |-> [e \in Deg |-> IF e = 0 THEN One ELSE Zero],
                l |-> 0, shift |-> 1, bd |-> One]
      step[k \in 0 .. 2 * t] ==
        IF k = 0 THEN Start
        ELSE LET s == step[k - 1]
                 d[i \in 0 .. s.l] == IF i = 0 THEN syn[k] ELSE SymDiff(d[i - 1], Times(gf, s.c[i], syn[k - i]))
                 coef == Over(gf, d[s.l], s.bd)
                 c == [e \in Deg |-> IF e >= s.shift THEN SymDiff(s.c[e], Times(gf, coef, s.b[e - s.shift])) ELSE s.c[e]]
             IN  IF d[s.l] = Zero THEN [s EXCEPT !.shift = @ + 1]
                 ELSE IF s.l = 0 THEN [c |-> c, b |-> s.c, l |-> k - s.l, shift |-> 1, bd |-> d[s.l]]
                 ELSE [s EXCEPT !.c = c, !.shift = @ + 1]
  IN  step[2 * t]

\* Berlekamp-Massey: the shortest register that gives the sums.
Berlekamp(gf, syn, t) ==
  LET Deg == 0 .. 2 * t
      Start == [c |-> [e \in Deg |-> IF e = 0 THEN One ELSE Zero], b |-> [e \in Deg |-> IF e = 0 THEN One ELSE Zero],
                l |-> 0, shift |-> 1, bd |-> One]
      step[k \in 0 .. 2 * t] ==
        IF k = 0 THEN Start
        ELSE LET s == step[k - 1]
                 d[i \in 0 .. s.l] == IF i = 0 THEN syn[k] ELSE SymDiff(d[i - 1], Times(gf, s.c[i], syn[k - i]))
                 coef == Over(gf, d[s.l], s.bd)
                 c == [e \in Deg |-> IF e >= s.shift THEN SymDiff(s.c[e], Times(gf, coef, s.b[e - s.shift])) ELSE s.c[e]]
             IN  IF d[s.l] = Zero THEN [s EXCEPT !.shift = @ + 1]
                 ELSE IF 2 * s.l <= k - 1 THEN [c |-> c, b |-> s.c, l |-> k - s.l, shift |-> 1, bd |-> d[s.l]]
                 ELSE [s EXCEPT !.c = c, !.shift = @ + 1]
  IN  step[2 * t]

\* Chien search: the places at whose inverse the register's polynomial is zero.
Roots(gf, c, l) ==
  {p \in 0 .. gf.n - 1 :
    LET acc[i \in 0 .. l + 1] == IF i = 0 THEN Zero
                                 ELSE SymDiff(acc[i - 1], Times(gf, c[i - 1], AlphaPow(gf, (gf.n - p) * (i - 1))))
    IN  acc[l + 1] = Zero}

\* MUTANT: whatever the search found is taken.
LocatedAny(code, r, t, reg) ==
  IF reg.l > t THEN [ok |-> FALSE, ones |-> {}] ELSE [ok |-> TRUE, ones |-> Roots(code.gf, reg.c, reg.l)]

\* As many roots as the register is long, and the syndrome theirs.
Located(code, r, t, reg) ==
  IF reg.l > t THEN [ok |-> FALSE, ones |-> {}]
  ELSE LET found == Roots(code.gf, reg.c, reg.l)
       IN  [ok |-> Cardinality(found) = reg.l /\ Syndrome(code, found, t) = r, ones |-> found]

\* The set of at most t bits with that syndrome, if there is one.
Recovered(code, r, t) ==
  IF t = 0 THEN [ok |-> r = {}, ones |-> {}]
  ELSE Located(code, r, t, Berlekamp(code.gf, Sums(code.gf, r, t), t))
=============================================================================
