-------------------------- MODULE Arithmetic_proofs --------------------------
(***************************************************************************)
(* Facts about integer division and the operators of Arithmetic, which the *)
(* proofs about the controllers cite.                                      *)
(***************************************************************************)
EXTENDS Arithmetic, FiniteSetTheorems, WellFoundedInduction, TLAPS

-----------------------------------------------------------------------------
(* Integers. *)

\* Division by a positive number, by its defining bounds.
LEMMA DivBounds ==
  ASSUME NEW a \in Int, NEW b \in Nat \ {0}
  PROVE  /\ a \div b \in Int
         /\ b * (a \div b) <= a
         /\ a < b * (a \div b) + b
  OBVIOUS

\* A natural number divided by a positive one is a natural number.
LEMMA DivNat ==
  ASSUME NEW a \in Nat, NEW b \in Nat \ {0}
  PROVE  a \div b \in Nat
  OBVIOUS

\* Products with a natural factor preserve the order.
LEMMA TimesMonotone ==
  ASSUME NEW a \in Int, NEW b \in Int, a <= b, NEW c \in Nat
  PROVE  a * c <= b * c
  OBVIOUS

LEMMA ProductNat ==
  ASSUME NEW a \in Nat, NEW b \in Nat
  PROVE  a * b \in Nat
  OBVIOUS

\* A quotient is bounded by every number whose product bounds the dividend.
LEMMA DivAtMost ==
  ASSUME NEW a \in Int, NEW b \in Nat \ {0}, NEW c \in Int, a <= c * b
  PROVE  a \div b <= c
<1>1. a \div b \in Int /\ b * (a \div b) <= a
  BY DivBounds
<1>2. SUFFICES ASSUME a \div b >= c + 1 PROVE FALSE
  BY <1>1
<1>3. (c + 1) * b <= (a \div b) * b
  BY <1>1, <1>2, TimesMonotone
<1>4. QED
  BY <1>1, <1>3

LEMMA DivAtLeast ==
  ASSUME NEW a \in Int, NEW b \in Nat \ {0}, NEW c \in Int, c * b <= a
  PROVE  c <= a \div b
<1>1. a \div b \in Int /\ a < b * (a \div b) + b
  BY DivBounds
<1>2. SUFFICES ASSUME a \div b <= c - 1 PROVE FALSE
  BY <1>1
<1>3. (a \div b) * b <= (c - 1) * b
  BY <1>1, <1>2, TimesMonotone
<1>4. QED
  BY <1>1, <1>3

\* A nonempty set of natural numbers has a least element.
LEMMA LeastElement ==
  ASSUME NEW S \in SUBSET Nat, S # {}
  PROVE  \E m \in S : \A n \in S : m <= n
<1>1. \E m \in S : \A n \in S : ~(<<n, m>> \in OpToRel(<, Nat))
  BY NatLessThanWellFounded, WFMin
<1>2. ASSUME NEW m \in S, NEW n \in S, ~(<<n, m>> \in OpToRel(<, Nat))
      PROVE  m <= n
  BY <1>2 DEF OpToRel
<1>3. QED
  BY <1>1, <1>2

-----------------------------------------------------------------------------
(* The operators of Arithmetic. *)

LEMMA LeastGreatest ==
  ASSUME NEW a \in Int, NEW b \in Int
  PROVE  /\ Least(a, b) \in {a, b} /\ Least(a, b) <= a /\ Least(a, b) <= b
         /\ Greatest(a, b) \in {a, b} /\ Greatest(a, b) >= a /\ Greatest(a, b) >= b
  BY DEF Least, Greatest

\* Clamp returns a number between its bounds, the argument if that is one.
LEMMA ClampBetween ==
  ASSUME NEW x \in Int, NEW low \in Int, NEW high \in Int, low <= high
  PROVE  /\ Clamp(x, low, high) \in low .. high
         /\ x <= high => Clamp(x, low, high) >= x
         /\ x \in low .. high => Clamp(x, low, high) = x
  BY DEF Clamp

\* By a positive number, truncation is toward zero.
LEMMA QuotientPositive ==
  ASSUME NEW a \in Int, NEW b \in Nat \ {0}
  PROVE  Quotient(a, b) = IF a >= 0 THEN a \div b ELSE -((-a) \div b)
  BY DEF Quotient

LEMMA QuotientInt ==
  ASSUME NEW a \in Int, NEW b \in Int \ {0}
  PROVE  Quotient(a, b) \in Int
<1>1. CASE b > 0
  BY <1>1, QuotientPositive
<1>2. CASE b < 0
  <2>1. -a \in Int /\ -b \in Nat \ {0}
    BY <1>2
  <2>2. Quotient(a, b) = IF -a >= 0 THEN (-a) \div (-b) ELSE -((-(-a)) \div (-b))
    BY <1>2 DEF Quotient
  <2>3. QED
    BY <2>1, <2>2, DivBounds
<1>3. QED
  BY <1>1, <1>2

\* A product divided by a positive number.
LEMMA ScaledNat ==
  ASSUME NEW a \in Nat, NEW b \in Nat, NEW c \in Nat \ {0}
  PROVE  Scaled(a, b, c) \in Nat
<1>1. a \div c \in Nat /\ a % c \in Nat
  BY DivNat
<1>2. (a \div c) * b \in Nat /\ (a % c) * b \in Nat
  BY <1>1, ProductNat
<1>3. ((a % c) * b) \div c \in Nat
  BY <1>2, DivNat
<1>4. QED
  BY <1>2, <1>3 DEF Scaled

\* A fraction x / d of a span r, rounded toward zero, lies between 0 and r.
LEMMA FractionBetween ==
  ASSUME NEW r \in Int, NEW x \in Nat, NEW d \in Nat \ {0}, x <= d
  PROVE  /\ Quotient(r * x, d) \in Int
         /\ r >= 0 => Quotient(r * x, d) >= 0 /\ Quotient(r * x, d) <= r
         /\ r <= 0 => Quotient(r * x, d) <= 0 /\ Quotient(r * x, d) >= r
<1>1. CASE r >= 0
  <2>1. r * x \in Nat /\ r * x <= r * d
    BY <1>1, TimesMonotone
  <2>2. (r * x) \div d \in Nat /\ (r * x) \div d <= r
    BY <2>1, DivNat, DivAtMost
  <2>3. Quotient(r * x, d) = (r * x) \div d
    <3> DEFINE p == r * x
    <3>1. p \in Int /\ p >= 0
      BY <2>1
    <3> HIDE DEF p
    <3>2. Quotient(p, d) = p \div d
      BY <3>1, QuotientPositive
    <3>3. QED
      BY <3>2 DEF p
  <2>4. QED
    BY <1>1, <2>2, <2>3
<1>2. CASE r < 0
  <2> DEFINE s == -r
  <2>1. s \in Nat /\ s > 0
    BY <1>2
  <2>2. s * x \in Nat /\ s * x <= s * d /\ r * x = -(s * x)
    BY <2>1, TimesMonotone
  <2>3. (s * x) \div d \in Nat /\ (s * x) \div d <= s
    BY <2>1, <2>2, DivNat, DivAtMost
  <2>4. Quotient(r * x, d) = -((s * x) \div d)
    <3>1. CASE s * x = 0
      <4>1. 0 \div d = 0
        BY DivAtMost, DivAtLeast
      <4>2. QED
        BY <2>2, <3>1, <4>1, QuotientPositive
    <3>2. CASE s * x > 0
      <4>1. ~(r * x >= 0) /\ -(r * x) = s * x
        BY <2>2, <3>2
      <4>2. QED
        BY <2>2, <4>1, QuotientPositive
    <3>3. QED
      BY <2>2, <3>1, <3>2
  <2>5. QED
    BY <1>2, <2>1, <2>3, <2>4
<1>3. QED
  BY <1>1, <1>2
-----------------------------------------------------------------------------
(* What is monotone. *)

LEMMA DivMonotone ==
  ASSUME NEW a \in Int, NEW b \in Int, a <= b, NEW c \in Nat \ {0}
  PROVE  a \div c <= b \div c
<1>1. a \div c \in Int /\ c * (a \div c) <= a
  BY DivBounds
<1>2. (a \div c) * c <= b
  BY <1>1
<1>3. QED
  BY <1>1, <1>2, DivAtLeast

\* A larger divisor gives a smaller quotient.
LEMMA DivAntitone ==
  ASSUME NEW a \in Nat, NEW b \in Nat \ {0}, NEW c \in Nat \ {0}, b <= c
  PROVE  a \div c <= a \div b
<1>1. a \div c \in Nat /\ c * (a \div c) <= a
  BY DivNat, DivBounds
<1> DEFINE k == a \div c
<1> HIDE DEF k
<1>2. k \in Nat /\ c * k <= a
  BY <1>1 DEF k
<1>3. b * k <= c * k /\ b * k \in Nat /\ c * k \in Nat /\ k * b = b * k
  BY <1>2, TimesMonotone, ProductNat
<1>4. k * b <= a
  BY <1>2, <1>3
<1>5. QED
  BY <1>2, <1>4, DivAtLeast DEF k

LEMMA ProductMonotone ==
  ASSUME NEW a \in Nat, NEW b \in Nat, a <= b, NEW c \in Nat, NEW d \in Nat, c <= d
  PROVE  a * c <= b * d
<1>1. a * c <= b * c
  BY TimesMonotone
<1>2. c * b <= d * b
  BY TimesMonotone
<1>3. a * c \in Nat /\ b * c \in Nat /\ b * d \in Nat /\ c * b = b * c /\ d * b = b * d
  BY ProductNat
<1>4. QED
  BY <1>1, <1>2, <1>3

LEMMA QuotientMonotone ==
  ASSUME NEW a \in Int, NEW b \in Int, a <= b, NEW c \in Nat \ {0}
  PROVE  Quotient(a, c) <= Quotient(b, c)
<1>1. CASE a >= 0
  BY <1>1, DivMonotone, QuotientPositive
<1>2. CASE a < 0 /\ b >= 0
  <2>1. (-a) \div c \in Nat /\ b \div c \in Nat
    BY <1>2, DivNat
  <2>2. QED
    BY <1>2, <2>1, QuotientPositive
<1>3. CASE b < 0
  <2>1. -a \in Int /\ -b \in Int /\ -b <= -a
    BY <1>3
  <2>2. (-b) \div c <= (-a) \div c /\ (-a) \div c \in Int /\ (-b) \div c \in Int
    BY <2>1, DivMonotone, DivBounds
  <2>3. QED
    BY <1>3, <2>2, QuotientPositive
<1>4. QED
  BY <1>1, <1>2, <1>3

\* A multiple of the divisor leaves the division.
LEMMA DivOfMultiple ==
  ASSUME NEW k \in Int, NEW m \in Int, NEW c \in Nat \ {0}
  PROVE  (c * k + m) \div c = k + m \div c
<1> DEFINE q == k + m \div c
<1>1. m \div c \in Int /\ c * (m \div c) <= m /\ m < c * (m \div c) + c
  BY DivBounds
<1>2. q \in Int /\ c * q = c * k + c * (m \div c) /\ c * k \in Int /\ c * (m \div c) \in Int
  BY <1>1
<1>3. q * c <= c * k + m
  BY <1>1, <1>2
<1>4. c * k + m \in Int /\ (c * k + m) \div c \in Int
  BY <1>2, DivBounds
<1>5. q <= (c * k + m) \div c
  BY <1>2, <1>3, <1>4, DivAtLeast
<1>6. c * k + m <= (q + 1) * c - 1
  BY <1>1, <1>2
<1>7. (c * k + m) \div c < q + 1
  <2> DEFINE d == (c * k + m) \div c
  <2>1. d \in Int /\ c * d <= c * k + m
    BY <1>4, DivBounds
  <2> HIDE DEF d
  <2>2. SUFFICES ASSUME d >= q + 1 PROVE FALSE
    BY <1>2, <2>1 DEF d
  <2>3. (q + 1) * c <= d * c
    BY <1>2, <2>1, <2>2, TimesMonotone
  <2>4. QED
    BY <1>2, <1>6, <2>1, <2>3
<1>8. QED
  BY <1>2, <1>4, <1>5, <1>7

\* Scaled is the quotient of the product.
LEMMA ScaledDiv ==
  ASSUME NEW a \in Nat, NEW b \in Nat, NEW c \in Nat \ {0}
  PROVE  Scaled(a, b, c) = (a * b) \div c
<1> DEFINE k == a \div c  r == a % c
<1>1. k \in Nat /\ r \in Nat /\ a = c * k + r
  BY DivNat
<1> HIDE DEF k, r
<1>2. k * b \in Nat /\ r * b \in Nat
  BY <1>1, ProductNat
<1> DEFINE u == k * b  v == r * b
<1>3. a * b = c * u + v /\ u \in Int /\ v \in Int
  BY <1>1, <1>2
<1> HIDE DEF u, v
<1>4. (c * u + v) \div c = u + v \div c
  BY <1>3, DivOfMultiple
<1>5. QED
  BY <1>3, <1>4 DEF Scaled, k, r, u, v

LEMMA ScaledMonotone ==
  ASSUME NEW a \in Nat, NEW a1 \in Nat, a <= a1, NEW b \in Nat, NEW b1 \in Nat, b <= b1,
         NEW c \in Nat \ {0}
  PROVE  Scaled(a, b, c) <= Scaled(a1, b1, c)
<1>1. a * b <= a1 * b1 /\ a * b \in Nat /\ a1 * b1 \in Nat
  BY ProductMonotone, ProductNat
<1>2. (a * b) \div c <= (a1 * b1) \div c
  BY <1>1, DivMonotone
<1>3. QED
  BY <1>2, ScaledDiv

LEMMA ClampMonotone ==
  ASSUME NEW x \in Int, NEW y \in Int, x <= y, NEW low \in Int, NEW high \in Int, low <= high
  PROVE  Clamp(x, low, high) <= Clamp(y, low, high)
  BY DEF Clamp

-----------------------------------------------------------------------------
(* The search for a quantizer index, the same in the three engines: the    *)
(* first of best .. worst whose frame f[q] fits the target, or the one     *)
(* before it when that misses by less; worst when none fits.               *)

Fits(f, target, best, worst) == {q \in best .. worst : f[q] <= target}

FirstFit(f, target, best, worst) ==
  CHOOSE q \in Fits(f, target, best, worst) :
    \A p \in Fits(f, target, best, worst) : q <= p

NearestFit(f, target, best, worst) ==
  LET first == FirstFit(f, target, best, worst)
  IN  IF Fits(f, target, best, worst) = {} THEN worst
      ELSE IF first = best THEN first
      ELSE IF target - f[first] <= f[first - 1] - target THEN first ELSE first - 1

LEMMA FirstFits ==
  ASSUME NEW f, NEW target, NEW best \in Nat, NEW worst \in Nat,
         Fits(f, target, best, worst) # {}
  PROVE  /\ FirstFit(f, target, best, worst) \in Fits(f, target, best, worst)
         /\ \A p \in Fits(f, target, best, worst) : FirstFit(f, target, best, worst) <= p
<1> DEFINE S == Fits(f, target, best, worst)
<1>1. S \in SUBSET Nat /\ S # {}
  BY DEF Fits
<1>2. \E q \in S : \A p \in S : q <= p
  BY <1>1, LeastElement
<1>3. QED
  BY <1>2 DEF FirstFit

LEMMA NearestFitInRange ==
  ASSUME NEW best \in Nat, NEW worst \in Nat, best <= worst, NEW f, NEW target
  PROVE  NearestFit(f, target, best, worst) \in best .. worst
<1>1. CASE Fits(f, target, best, worst) = {}
  BY <1>1 DEF NearestFit
<1>2. CASE Fits(f, target, best, worst) # {}
  <2>1. FirstFit(f, target, best, worst) \in best .. worst
    BY <1>2, FirstFits DEF Fits
  <2>2. QED
    BY <1>2, <2>1 DEF NearestFit
<1>3. QED
  BY <1>1, <1>2

\* More bits never give a coarser index, whatever the frames' sizes.
LEMMA NearestFitMonotone ==
  ASSUME NEW best \in Nat, NEW worst \in Nat, best <= worst,
         NEW f, \A q \in best .. worst : f[q] \in Int,
         NEW a \in Int, NEW b \in Int, a <= b
  PROVE  NearestFit(f, b, best, worst) <= NearestFit(f, a, best, worst)
<1> DEFINE F(t) == Fits(f, t, best, worst)
           first(t) == FirstFit(f, t, best, worst)
<1>1. F(a) \subseteq F(b)
  BY DEF Fits
<1>2. NearestFit(f, a, best, worst) \in best .. worst
      /\ NearestFit(f, b, best, worst) \in best .. worst
  BY NearestFitInRange
<1>3. CASE F(a) = {}
  BY <1>2, <1>3 DEF NearestFit
<1>4. CASE F(a) # {}
  <2>1. first(a) \in F(a) /\ first(a) \in F(b)
    BY <1>1, <1>4, FirstFits
  <2>2. first(b) \in F(b) /\ first(b) <= first(a) /\ F(b) # {}
    BY <2>1, FirstFits
  <2>3. first(a) \in best .. worst /\ first(b) \in best .. worst
    BY <2>1, <2>2 DEF Fits
  <2>4. CASE first(b) = first(a)
    <3>1. first(a) # best => f[first(a)] \in Int /\ f[first(a) - 1] \in Int
      BY <2>3
    <3>2. QED
      BY <1>4, <2>2, <2>3, <2>4, <3>1 DEF NearestFit
  <2>5. CASE first(b) < first(a)
    <3>1. NearestFit(f, b, best, worst) <= first(b)
      BY <2>2, <2>3 DEF NearestFit
    <3>2. NearestFit(f, a, best, worst) >= first(a) - 1
      BY <1>4, <2>3 DEF NearestFit
    <3>3. QED
      BY <1>2, <2>3, <2>5, <3>1, <3>2
  <2>6. QED
    BY <2>2, <2>3, <2>4, <2>5
<1>5. QED
  BY <1>3, <1>4

\* When a coarser index never gives a larger frame, the index found misses the
\* target by no more than any other of the range.
LEMMA NearestFitNearest ==
  ASSUME NEW best \in Nat, NEW worst \in Nat, best <= worst,
         NEW f, \A q \in best .. worst : f[q] \in Int, NEW target \in Int,
         \A p, q \in best .. worst : p <= q => f[q] <= f[p],
         NEW q \in best .. worst
  PROVE  Distance(f[NearestFit(f, target, best, worst)], target) <= Distance(f[q], target)
<1> DEFINE first == FirstFit(f, target, best, worst)
           found == NearestFit(f, target, best, worst)
<1>1. f[q] \in Int
  OBVIOUS
<1>2. CASE Fits(f, target, best, worst) = {}
  <2>1. found = worst /\ worst \in best .. worst
    BY <1>2 DEF NearestFit
  <2>2. f[worst] \in Int /\ f[worst] <= f[q] /\ f[worst] > target
    BY <1>2, <2>1 DEF Fits
  <2>3. QED
    BY <1>1, <2>1, <2>2 DEF Distance
<1>3. CASE Fits(f, target, best, worst) # {}
  <2>1. /\ first \in best .. worst /\ f[first] <= target /\ f[first] \in Int
        /\ \A p \in best .. worst : p < first => f[p] > target
    <3>1. /\ first \in Fits(f, target, best, worst)
          /\ \A p \in Fits(f, target, best, worst) : first <= p
      BY <1>3, FirstFits
    <3> HIDE DEF first
    <3>2. \A p \in best .. worst : f[p] \in Int
      OBVIOUS
    <3>3. QED
      BY <3>1, <3>2 DEF Fits
  <2>2. q >= first => f[q] <= f[first]
    BY <2>1
  <2>3. first # best =>
          /\ first - 1 \in best .. worst /\ f[first - 1] \in Int /\ f[first - 1] > target
          /\ q < first => f[first - 1] <= f[q] /\ f[q] > target
    BY <2>1
  <2>4. found = IF first = best THEN first
                ELSE IF target - f[first] <= f[first - 1] - target THEN first ELSE first - 1
    BY <1>3 DEF NearestFit
  <2>5. CASE found = first
    <3>1. first # best => target - f[first] <= f[first - 1] - target
      BY <2>3, <2>4, <2>5, <2>1
    <3>2. QED
      BY <1>1, <2>1, <2>2, <2>3, <2>5, <3>1 DEF Distance
  <2>6. CASE first # best /\ found = first - 1 /\ ~(target - f[first] <= f[first - 1] - target)
    BY <1>1, <2>1, <2>2, <2>3, <2>6 DEF Distance
  <2>7. QED
    BY <2>4, <2>5, <2>6
<1>4. QED
  BY <1>2, <1>3
-----------------------------------------------------------------------------
(* A binary search for that index: what it finds between low and high is   *)
(* the first that fits, or high.                                           *)

Found(f, target, low, high, x) ==
  /\ x \in low .. high
  /\ \A q \in low .. high : q < x => f[q] > target
  /\ x = high \/ f[x] <= target

\* The two halves: a middle that does not fit is passed with all before it, one
\* that fits bounds the search.
LEMMA FoundAbove ==
  ASSUME NEW low \in Nat, NEW high \in Nat, NEW f, \A q \in low .. high : f[q] \in Int,
         NEW target \in Int, \A p, q \in low .. high : p <= q => f[q] <= f[p],
         NEW mid \in low .. high - 1, f[mid] > target,
         NEW x, Found(f, target, mid + 1, high, x)
  PROVE  Found(f, target, low, high, x)
<1>1. mid \in Int /\ mid >= low /\ mid < high /\ mid \in low .. high
  OBVIOUS
<1>2. x \in mid + 1 .. high /\ (x = high \/ f[x] <= target)
      /\ \A q \in mid + 1 .. high : q < x => f[q] > target
  BY DEF Found
<1>3. ASSUME NEW q \in low .. high, q < x PROVE f[q] > target
  <2>1. CASE q <= mid
    <3>1. f[mid] <= f[q] /\ f[mid] \in Int /\ f[q] \in Int
      BY <1>1, <2>1
    <3>2. QED
      BY <3>1
  <2>2. CASE q > mid
    BY <1>1, <1>2, <1>3, <2>2
  <2>3. QED
    BY <1>1, <2>1, <2>2
<1>4. QED
  BY <1>1, <1>2, <1>3 DEF Found

LEMMA FoundBelow ==
  ASSUME NEW low \in Nat, NEW high \in Nat, NEW f, NEW target \in Int,
         NEW mid \in low .. high, f[mid] <= target,
         NEW x, Found(f, target, low, mid, x)
  PROVE  Found(f, target, low, high, x)
<1>1. x \in low .. mid /\ f[x] <= target /\ \A q \in low .. mid : q < x => f[q] > target
  BY DEF Found
<1>2. mid \in Int /\ mid <= high
  OBVIOUS
<1>3. QED
  BY <1>1, <1>2 DEF Found

LEMMA FoundUnique ==
  ASSUME NEW low \in Nat, NEW high \in Nat, NEW f, \A q \in low .. high : f[q] \in Int,
         NEW target \in Int, NEW x, NEW y,
         Found(f, target, low, high, x), Found(f, target, low, high, y)
  PROVE  x = y
<1>1. x \in low .. high /\ y \in low .. high /\ x \in Int /\ y \in Int
      /\ f[x] \in Int /\ f[y] \in Int
  BY DEF Found
<1>2. ~(x < y)
  BY <1>1 DEF Found
<1>3. ~(y < x)
  BY <1>1 DEF Found
<1>4. QED
  BY <1>1, <1>2, <1>3

\* There is such an index between any two.
LEMMA FoundExists ==
  ASSUME NEW low \in Nat, NEW high \in Nat, low <= high, NEW f,
         \A q \in low .. high : f[q] \in Int, NEW target \in Int
  PROVE  \E x : Found(f, target, low, high, x)
<1>1. CASE Fits(f, target, low, high) = {}
  <2>1. Found(f, target, low, high, high)
    BY <1>1 DEF Found, Fits
  <2>2. QED
    BY <2>1
<1>2. CASE Fits(f, target, low, high) # {}
  <2> DEFINE first == FirstFit(f, target, low, high)
  <2>1. first \in Fits(f, target, low, high)
        /\ \A p \in Fits(f, target, low, high) : first <= p
    BY <1>2, FirstFits
  <2> HIDE DEF first
  <2>2. Found(f, target, low, high, first)
    BY <2>1 DEF Found, Fits
  <2>3. QED
    BY <2>2
<1>3. QED
  BY <1>1, <1>2

\* Compared with the index before it, what is found is the nearest.
LEMMA FoundNearest ==
  ASSUME NEW best \in Nat, NEW worst \in Nat, best <= worst,
         NEW f, \A q \in best .. worst : f[q] \in Int, NEW target \in Int,
         NEW x, Found(f, target, best, worst, x)
  PROVE  NearestFit(f, target, best, worst)
           = IF \/ f[x] > target \/ x = best
                \/ Distance(f[x], target) <= Distance(f[x - 1], target)
             THEN x ELSE x - 1
<1>1. x \in best .. worst /\ f[x] \in Int /\ (x = worst \/ f[x] <= target)
      /\ \A q \in best .. worst : q < x => f[q] > target
  BY DEF Found
<1>2. CASE f[x] > target
  <2>1. Fits(f, target, best, worst) = {}
    BY <1>1, <1>2 DEF Fits
  <2>2. QED
    BY <1>1, <1>2, <2>1 DEF NearestFit
<1>3. CASE f[x] <= target
  <2>1. x \in Fits(f, target, best, worst)
    BY <1>1, <1>3 DEF Fits
  <2> DEFINE first == FirstFit(f, target, best, worst)
  <2>2. first \in Fits(f, target, best, worst) /\ first <= x
    BY <2>1, FirstFits
  <2>3. first = x
    <3> HIDE DEF first
    <3>1. first \in best .. worst /\ f[first] \in Int /\ f[first] <= target
      BY <2>2 DEF Fits
    <3>2. QED
      BY <1>1, <2>2, <3>1
  <2>4. NearestFit(f, target, best, worst)
          = IF x = best THEN x
            ELSE IF target - f[x] <= f[x - 1] - target THEN x ELSE x - 1
    BY <2>1, <2>3 DEF NearestFit
  <2>5. x # best => x - 1 \in best .. worst /\ f[x - 1] \in Int /\ f[x - 1] > target
    BY <1>1
  <2>6. QED
    BY <1>1, <1>3, <2>4, <2>5 DEF Distance
<1>4. QED
  BY <1>1, <1>2, <1>3

-----------------------------------------------------------------------------
(* The correction of a rate factor, the same in the AV1 and VP9 engines:   *)
(* Tenths counts the tenths of a decade between a size and the projected   *)
(* one, and CorrectionAt is the factor, in percent, at a given damping.    *)

Tenths(decade, pct) == {d \in decade : pct >= d \/ pct * d <= 10000}

CorrectionAt(pct, damping) ==
  IF pct > 102 THEN 100 + ((pct - 100) * damping) \div 100
  ELSE IF pct < 99 THEN (10000 - (100 - pct) * damping) \div 100
  ELSE 100

\* The further a size is from the projected one, on either side, the more tenths.
LEMMA TenthsMonotone ==
  ASSUME NEW decade, \A d \in decade : d \in Nat /\ d >= 100, IsFiniteSet(decade),
         NEW a \in Nat, NEW b \in Nat, a <= b
  PROVE  /\ Cardinality(Tenths(decade, a)) \in Nat /\ Cardinality(Tenths(decade, b)) \in Nat
         /\ a >= 100 => Cardinality(Tenths(decade, a)) <= Cardinality(Tenths(decade, b))
         /\ b <= 99 => Cardinality(Tenths(decade, b)) <= Cardinality(Tenths(decade, a))
<1>1. \A d \in decade : d \in Nat /\ d >= 100
  OBVIOUS
<1>2. ASSUME NEW p \in Nat
      PROVE  IsFiniteSet(Tenths(decade, p)) /\ Cardinality(Tenths(decade, p)) \in Nat
  <2>1. Tenths(decade, p) \subseteq decade
    BY DEF Tenths
  <2>2. QED
    BY <2>1, FS_Subset, FS_CardinalityType
<1>3. ASSUME a >= 100 PROVE Tenths(decade, a) \subseteq Tenths(decade, b)
  <2>1. SUFFICES ASSUME NEW d \in Tenths(decade, a)
                 PROVE  d \in Tenths(decade, b)
    OBVIOUS
  <2>2. d \in decade /\ d \in Nat /\ d >= 100 /\ (a >= d \/ a * d <= 10000)
    BY <1>1 DEF Tenths
  <2>3. CASE a >= d
    BY <2>2, <2>3 DEF Tenths
  <2>4. CASE a * d <= 10000
    <3>1. 100 * d <= a * d /\ a * d \in Nat
      BY <1>3, <2>2, TimesMonotone, ProductNat
    <3>2. d = 100
      BY <2>2, <2>4, <3>1
    <3>3. QED
      BY <1>3, <3>2 DEF Tenths
  <2>5. QED
    BY <2>2, <2>3, <2>4
<1>4. ASSUME b <= 99 PROVE Tenths(decade, b) \subseteq Tenths(decade, a)
  <2>1. SUFFICES ASSUME NEW d \in Tenths(decade, b)
                 PROVE  d \in Tenths(decade, a)
    OBVIOUS
  <2>2. d \in decade /\ d \in Nat /\ d >= 100 /\ (b >= d \/ b * d <= 10000)
    BY <1>1 DEF Tenths
  <2>3. a * d <= b * d /\ a * d \in Nat /\ b * d \in Nat
    BY <2>2, TimesMonotone, ProductNat
  <2>4. QED
    BY <1>4, <2>1, <2>2, <2>3 DEF Tenths
<1>5. QED
  BY <1>2, <1>3, <1>4, FS_Subset

\* A larger size never corrects downwards from a smaller one, when the damping
\* weakens with the distance from the projected size.
LEMMA CorrectionMonotone ==
  ASSUME NEW a \in Nat, NEW b \in Nat, a <= b, NEW da \in Nat, NEW db \in Nat,
         a >= 100 => da <= db,
         b <= 99 => db <= da
  PROVE  /\ CorrectionAt(a, da) \in Int /\ CorrectionAt(b, db) \in Int
         /\ CorrectionAt(a, da) <= CorrectionAt(b, db)
<1> DEFINE over(p, d)  == ((p - 100) * d) \div 100
           under(p, d) == (10000 - (100 - p) * d) \div 100
<1>1. ASSUME NEW p \in Nat, NEW d \in Nat, p >= 100
      PROVE  over(p, d) \in Nat
  <2>1. (p - 100) * d \in Nat
    BY <1>1, ProductNat
  <2>2. QED
    BY <2>1, DivNat
<1>2. ASSUME NEW p \in Nat, NEW d \in Nat, p <= 99
      PROVE  under(p, d) \in Int /\ under(p, d) <= 100
  <2>1. (100 - p) * d \in Nat
    BY <1>2, ProductNat
  <2> DEFINE x == (100 - p) * d
  <2> HIDE DEF x
  <2>2. x \in Nat
    BY <2>1 DEF x
  <2>3. (10000 - x) \div 100 \in Int /\ (10000 - x) \div 100 <= 100
    BY <2>2
  <2>4. QED
    BY <2>3 DEF x
<1>3. CASE a > 102 /\ b > 102
  <2>1. (a - 100) * da <= (b - 100) * db /\ (a - 100) * da \in Nat /\ (b - 100) * db \in Nat
    BY <1>3, ProductMonotone, ProductNat
  <2>2. over(a, da) <= over(b, db)
    BY <2>1, DivMonotone
  <2>3. over(a, da) \in Nat /\ over(b, db) \in Nat
    BY <1>1, <1>3
  <2>4. CorrectionAt(a, da) = 100 + over(a, da) /\ CorrectionAt(b, db) = 100 + over(b, db)
    BY <1>3 DEF CorrectionAt
  <2> HIDE DEF over
  <2>5. QED
    BY <2>2, <2>3, <2>4
<1>4. CASE a < 99 /\ b < 99
  <2>1. (100 - b) * db <= (100 - a) * da /\ (100 - a) * da \in Nat /\ (100 - b) * db \in Nat
    BY <1>4, ProductMonotone, ProductNat
  <2>2. 10000 - (100 - a) * da <= 10000 - (100 - b) * db
        /\ 10000 - (100 - a) * da \in Int /\ 10000 - (100 - b) * db \in Int
    BY <2>1
  <2>3. under(a, da) <= under(b, db) /\ under(a, da) \in Int /\ under(b, db) \in Int
    BY <1>2, <1>4, <2>2, DivMonotone
  <2>4. CorrectionAt(a, da) = under(a, da) /\ CorrectionAt(b, db) = under(b, db)
    BY <1>4 DEF CorrectionAt
  <2> HIDE DEF under
  <2>5. QED
    BY <2>3, <2>4
<1>5. CASE a <= 102 /\ b >= 99
  <2>1. CorrectionAt(a, da) \in Int /\ CorrectionAt(a, da) <= 100
    <3>1. CASE a < 99
      <4>1. CorrectionAt(a, da) = under(a, da)
        BY <3>1 DEF CorrectionAt
      <4>2. QED
        BY <1>2, <3>1, <4>1
    <3>2. CASE a >= 99
      BY <1>5, <3>2 DEF CorrectionAt
    <3>3. QED
      BY <3>1, <3>2
  <2>2. CorrectionAt(b, db) \in Int /\ CorrectionAt(b, db) >= 100
    <3>1. CASE b > 102
      <4>1. CorrectionAt(b, db) = 100 + over(b, db)
        BY <3>1 DEF CorrectionAt
      <4>2. over(b, db) \in Nat
        BY <1>1, <3>1
      <4> HIDE DEF over
      <4>3. QED
        BY <4>1, <4>2
    <3>2. CASE b <= 102
      BY <1>5, <3>2 DEF CorrectionAt
    <3>3. QED
      BY <3>1, <3>2
  <2>3. QED
    BY <2>1, <2>2
<1>6. QED
  BY <1>3, <1>4, <1>5
=============================================================================
