------------------------ MODULE IntegralSlicesProofs ------------------------
(***************************************************************************)
(* Proofs about IntegralSlices: though every bound is rounded, the slices  *)
(* of the threads of all workers have every whole number of the interval   *)
(* once, for every interval, any number of workers and any numbers of      *)
(* threads within the bounds of SlicesAssumption, and doubles of any width. *)
(*                                                                         *)
(* First come facts about rounding, then the bounds: those of workers rise, *)
(* those of a worker's threads rise, and the last thread of a worker ends  *)
(* in front of the same whole number as the first one of the next begins   *)
(* at.                                                                     *)
(***************************************************************************)
EXTENDS IntegralSlices, ClusterCommonProofs

-----------------------------------------------------------------------------
(***************************************************************************)
(* Products and quotients.                                                 *)
(***************************************************************************)
(* A product grows with its factor.                                        *)
LEMMA Grows ==
    ASSUME NEW c \in Nat, NEW a \in Nat, NEW b \in Nat, a <= b
    PROVE  c * a <= c * b /\ c * a \in Nat /\ c * b \in Nat
<1>. DEFINE e == b - a
<1>1. e \in Nat /\ b = a + e
  OBVIOUS
<1>. HIDE DEF e
<1>2. c * b = c * a + c * e /\ c * a \in Nat /\ c * e \in Nat
  BY <1>1, Distribute
<1>. QED BY <1>2

(* ... and only with it.                                                   *)
LEMMA Shrinks ==
    ASSUME NEW c \in Nat \ {0}, NEW a \in Nat, NEW b \in Nat
    PROVE  (c * a <= c * b => a <= b) /\ (c * a < c * b => a < b)
<1>1. ASSUME b + 1 <= a PROVE c * b + c <= c * a
  <2>1. c * (b + 1) <= c * a
    BY <1>1, Grows
  <2>2. c * (b + 1) = c * b + c
    OBVIOUS
  <2>. QED BY <2>1, <2>2
<1>2. ASSUME b <= a PROVE c * b <= c * a
  BY <1>2, Grows
<1>3. c * a \in Nat /\ c * b \in Nat
  BY Distribute
<1>. QED BY <1>1, <1>2, <1>3

(* The one number whose multiples enclose the dividend.                    *)
LEMMA QuotientIs ==
    ASSUME NEW a \in Nat, NEW d \in Nat \ {0}, NEW k \in Nat, d * k <= a, a < d * (k + 1)
    PROVE  a \div d = k
<1>. DEFINE q == a \div d
<1>1. q \in Nat /\ q <= k
  BY QuotientIsFloor, QuotientBound
<1>2. a < d * (q + 1)
  <2>1. a % d < d /\ a % d \in Nat /\ a = d * q + (a % d)
    BY QuotientIsFloor
  <2>2. d * (q + 1) = d * q + d /\ d * q \in Nat
    BY <1>1
  <2>. QED BY <2>1, <2>2
<1>. HIDE DEF q
<1>3. ~(q + 1 <= k)
  <2>. SUFFICES ASSUME q + 1 <= k PROVE FALSE
    OBVIOUS
  <2>. DEFINE e == k - (q + 1)
  <2>1. e \in Nat /\ k = (q + 1) + e
    BY <1>1
  <2>. HIDE DEF e
  <2>2. d * k = d * (q + 1) + d * e /\ d * e \in Nat /\ d * (q + 1) \in Nat
    BY <1>1, <2>1, Distribute
  <2>. QED BY <1>2, <2>2
<1>. QED BY <1>1, <1>3 DEF q

-----------------------------------------------------------------------------
(***************************************************************************)
(* Rounding.                                                               *)
(***************************************************************************)
(* What the values of doubles are.                                         *)
IsDouble(x) == \E v \in Spacings : \E k \in Nat : x = v * k /\ k <= Full

(* n / d does not overflow.                                                *)
Fits(n, d) == n <= d * (One * Full)

(* Of two spacings the smaller one goes into the larger an even number of  *)
(* times.                                                                  *)
LEMMA SpacingsNest ==
    ASSUME NEW u \in Spacings, NEW v \in Spacings, u < v
    PROVE  \E j \in Nat \ {0} : v = (2 * u) * j
<1>1. u \in Nat \ {0} /\ v \in Nat \ {0} /\ v % (2 * u) = 0
  BY DoublesAssumption
<1>2. /\ v \div (2 * u) \in Nat /\ 2 * u \in Nat \ {0}
      /\ v = (2 * u) * (v \div (2 * u)) + (v % (2 * u))
  <2>1. 2 * u \in Nat \ {0} /\ v \in Nat
    BY <1>1
  <2>. QED BY ONLY <2>1, QuotientIsFloor, Zenon
<1>. DEFINE j == v \div (2 * u)
<1>3. v = (2 * u) * j /\ j \in Nat
  BY <1>1, <1>2
<1>. HIDE DEF j
<1>4. j # 0
  <2>. SUFFICES ASSUME j = 0 PROVE FALSE
    OBVIOUS
  <2>. QED BY <1>1, <1>3
<1>. QED BY <1>3, <1>4

LEMMA FullIsTwice == \E half \in Nat \ {0} : Full = 2 * half
  BY DoublesAssumption

(* There is a spacing as the definition wants it.                          *)
LEMMA SpacingIs ==
    ASSUME NEW n \in Nat, NEW d \in Nat \ {0}, Fits(n, d)
    PROVE  /\ Spacing(n, d) \in Spacings
           /\ n <= d * (Spacing(n, d) * Full)
           /\ Spacing(n, d) = 1 \/ d * (Spacing(n, d) * Full) < 2 * n
<1>. DEFINE T == {u \in Spacings : n <= d * (u * Full)}
<1>1. T \subseteq Nat /\ One \in T
  BY DoublesAssumption DEF Fits
<1>2. PICK u \in T : \A w \in T : u <= w
  BY <1>1, LeastElement
<1>3. ASSUME u # 1 PROVE d * (u * Full) < 2 * n
  <2>1. PICK v \in Spacings : u = 2 * v
    BY <1>3, DoublesAssumption
  <2>2. v \in Nat \ {0} /\ Full \in Nat
    BY DoublesAssumption
  <2>3. v \notin T
    BY <1>2, <2>1, <2>2
  <2>4. d * (v * Full) \in Nat /\ d * (u * Full) = 2 * (d * (v * Full))
    BY <2>1, <2>2
  <2>. QED BY <2>3, <2>4
<1>. QED BY <1>2, <1>3 DEF Spacing

(* There is one only.                                                      *)
LEMMA SpacingIsOne ==
    ASSUME NEW n \in Nat, NEW d \in Nat \ {0}, Fits(n, d),
           NEW v \in Spacings, n <= d * (v * Full), v = 1 \/ d * (v * Full) < 2 * n
    PROVE  Spacing(n, d) = v
<1>. DEFINE u == Spacing(n, d)
<1>1. u \in Spacings /\ n <= d * (u * Full) /\ (u = 1 \/ d * (u * Full) < 2 * n)
  BY SpacingIs
<1>. HIDE DEF u
<1>2. ASSUME NEW x \in Spacings, NEW y \in Spacings, x < y,
             n <= d * (x * Full), y = 1 \/ d * (y * Full) < 2 * n
      PROVE  FALSE
  <2>1. x \in Nat \ {0} /\ y \in Nat \ {0} /\ Full \in Nat
    BY DoublesAssumption
  <2>2. PICK j \in Nat \ {0} : y = (2 * x) * j
    BY <1>2, SpacingsNest
  <2>3. 2 * x <= y
    <3>1. (2 * x) * 1 <= (2 * x) * j
      BY <2>1, Grows
    <3>. QED BY <2>1, <2>2, <3>1
  <2>4. d * (y * Full) >= 2 * (d * (x * Full))
    <3>1. Full * (2 * x) <= Full * y
      BY <2>1, <2>3, Grows
    <3>2. d * (Full * (2 * x)) <= d * (Full * y)
      BY <2>1, <3>1, Grows
    <3>3. d * (Full * (2 * x)) = 2 * (d * (x * Full)) /\ d * (Full * y) = d * (y * Full)
      BY <2>1
    <3>. QED BY <3>2, <3>3
  <2>5. d * (x * Full) \in Nat /\ d * (y * Full) \in Nat
    BY <2>1
  <2>. QED BY <1>2, <2>1, <2>4, <2>5
<1>3. u \in Nat /\ v \in Nat
  BY <1>1, DoublesAssumption
<1>4. ~(u < v) /\ ~(v < u)
  BY <1>1, <1>2
<1>. QED BY <1>3, <1>4 DEF u

(* What Rounded computes.                                                  *)
LEMMA RoundedIs ==
    ASSUME NEW n \in Nat, NEW d \in Nat \ {0}, Fits(n, d)
    PROVE  \E u \in Spacings : \E q \in Nat : \E r \in Nat :
              /\ u = Spacing(n, d) /\ n = (d * u) * q + r /\ r < d * u
              /\ n <= (d * u) * Full /\ (u = 1 \/ (d * u) * Full < 2 * n)
              /\ \/ Rounded(n, d) = u * q /\ 2 * r <= d * u
                 \/ Rounded(n, d) = u * (q + 1) /\ d * u <= 2 * r
              /\ 2 * r = d * u /\ q % 2 # 0 => Rounded(n, d) = u * (q + 1)
<1>. DEFINE u == Spacing(n, d)
            step == d * u
            q == n \div step
            r == n % step
            down == 2 * r < step \/ (2 * r = step /\ q % 2 = 0)
<1>1. u \in Spacings /\ n <= d * (u * Full) /\ (u = 1 \/ d * (u * Full) < 2 * n)
  BY SpacingIs
<1>2. u \in Nat \ {0} /\ Full \in Nat
  BY <1>1, DoublesAssumption
<1>3. Rounded(n, d) = u * IF down THEN q ELSE q + 1
  BY DEF Rounded
<1>. HIDE DEF u
<1>4. step \in Nat \ {0}
  BY <1>2
<1>5. d * (u * Full) = step * Full
  BY <1>2
<1>. HIDE DEF step
<1>6. q \in Nat /\ r \in 0 .. step - 1 /\ n = step * q + r
  BY <1>4, QuotientIsFloor
<1>. HIDE DEF q, r
<1>7. r \in Nat /\ r < step
  BY <1>4, <1>6
<1>8. \/ Rounded(n, d) = u * q /\ 2 * r <= step
      \/ Rounded(n, d) = u * (q + 1) /\ step <= 2 * r
  <2>1. CASE down
    BY <1>3, <1>4, <1>7, <2>1
  <2>2. CASE ~down
    BY <1>3, <1>4, <1>7, <2>2
  <2>. QED BY <2>1, <2>2
<1>9. 2 * r = step /\ q % 2 # 0 => Rounded(n, d) = u * (q + 1)
  BY <1>3, <1>4, <1>7
<1>10. /\ u = Spacing(n, d) /\ n = step * q + r /\ r < step
       /\ n <= step * Full /\ (u = 1 \/ step * Full < 2 * n)
  BY <1>1, <1>5, <1>6, <1>7 DEF u
<1>. QED BY <1>1, <1>6, <1>7, <1>8, <1>9, <1>10 DEF step

(* A rounded number is a double.                                           *)
LEMMA RoundedIsDouble ==
    ASSUME NEW n \in Nat, NEW d \in Nat \ {0}, Fits(n, d)
    PROVE  IsDouble(Rounded(n, d)) /\ Rounded(n, d) \in Nat
<1>1. PICK u \in Spacings, q \in Nat, r \in Nat :
         /\ n = (d * u) * q + r /\ r < d * u /\ n <= (d * u) * Full
         /\ \/ Rounded(n, d) = u * q
            \/ Rounded(n, d) = u * (q + 1) /\ d * u <= 2 * r
  BY RoundedIs
<1>. DEFINE step == d * u
<1>2. u \in Nat \ {0} /\ step \in Nat \ {0} /\ Full \in Nat
  <2>1. u \in Nat \ {0} /\ Full \in Nat
    BY DoublesAssumption
  <2>. QED BY <2>1
<1>3. step * q <= step * Full /\ (r # 0 => step * q < step * Full)
  <2>. HIDE DEF step
  <2>1. step * q \in Nat /\ step * Full \in Nat
    BY <1>2
  <2>2. n = step * q + r /\ n <= step * Full
    BY <1>1 DEF step
  <2>. QED BY <2>1, <2>2
<1>4. q <= Full /\ (r # 0 => q < Full)
  <2>. HIDE DEF step
  <2>. QED BY <1>2, <1>3, Shrinks
<1>5. CASE Rounded(n, d) = u * q
  BY <1>2, <1>4, <1>5 DEF IsDouble
<1>6. CASE Rounded(n, d) = u * (q + 1) /\ step <= 2 * r
  <2>1. r # 0
    BY <1>2, <1>6
  <2>2. q + 1 \in Nat /\ q + 1 <= Full
    BY <1>2, <1>4, <2>1
  <2>3. u * (q + 1) \in Nat
    BY <1>2, <2>2
  <2>4. IsDouble(u * (q + 1))
    BY <2>2, Zenon DEF IsDouble
  <2>. QED BY <1>6, <2>3, <2>4
<1>. QED BY <1>1, <1>5, <1>6

(* Between two neighbours of the spacing that counts lies no double.       *)
LEMMA NothingBetween ==
    ASSUME NEW u \in Spacings, NEW q \in Nat, NEW y, IsDouble(y),
           u = 1 \/ u * Full < 2 * (u * (q + 1))
    PROVE  y \in Nat /\ (y <= u * q \/ u * (q + 1) <= y)
<1>1. PICK v \in Spacings, k \in Nat : y = v * k /\ k <= Full
  BY DEF IsDouble
<1>2. u \in Nat \ {0} /\ v \in Nat \ {0} /\ Full \in Nat
  BY DoublesAssumption
<1>3. PICK half \in Nat \ {0} : Full = 2 * half
  BY FullIsTwice
<1>4. ASSUME NEW l \in Nat, y = u * l PROVE y <= u * q \/ u * (q + 1) <= y
  <2>1. CASE l <= q
    BY <1>2, <1>4, <2>1, Grows
  <2>2. CASE q + 1 <= l
    BY <1>2, <1>4, <2>2, Grows
  <2>. QED BY <2>1, <2>2
<1>5. y \in Nat
  BY <1>1, <1>2
<1>6. CASE v = u
  BY <1>1, <1>4, <1>6, <1>5
<1>7. CASE u < v
  <2>1. PICK j \in Nat \ {0} : v = (2 * u) * j
    BY <1>7, SpacingsNest
  <2>2. y = u * ((2 * j) * k) /\ (2 * j) * k \in Nat
    BY <1>1, <1>2, <2>1
  <2>. QED BY <1>4, <1>5, <2>2
<1>8. CASE v < u
  <2>1. PICK j \in Nat \ {0} : u = (2 * v) * j
    BY <1>8, SpacingsNest
  <2>2. u # 1
    BY <1>2, <1>8
  <2>3. half <= q
    <3>1. u * Full = 2 * (u * half) /\ u * half \in Nat /\ u * (q + 1) \in Nat
      BY <1>2, <1>3
    <3>2. u * half < u * (q + 1)
      BY <2>2, <3>1
    <3>3. half < q + 1
      BY <1>2, <3>2, Shrinks
    <3>. QED BY <3>3
  <2>4. y <= v * Full
    BY <1>1, <1>2, Grows
  <2>5. v * Full <= u * half
    <3>1. v * Full = (2 * v * half) * 1 /\ u * half = (2 * v * half) * j
      BY <1>2, <1>3, <2>1
    <3>2. (2 * v * half) * 1 <= (2 * v * half) * j
      <4>1. 2 * v * half \in Nat
        BY <1>2
      <4>. QED BY <4>1, Grows
    <3>. QED BY <3>1, <3>2
  <2>6. u * half <= u * q
    BY <1>2, <2>3, Grows
  <2>7. y \in Nat /\ v * Full \in Nat /\ u * half \in Nat /\ u * q \in Nat
    BY <1>1, <1>2
  <2>. QED BY <2>4, <2>5, <2>6, <2>7
<1>. QED BY <1>2, <1>6, <1>7, <1>8

(* No double is nearer to a quotient than the one it is rounded to.        *)
LEMMA Nearest ==
    ASSUME NEW n \in Nat, NEW d \in Nat \ {0}, Fits(n, d), NEW y, IsDouble(y)
    PROVE  /\ y \in Nat /\ Rounded(n, d) \in Nat
           /\ n <= d * y => Rounded(n, d) <= y /\ 2 * n <= d * Rounded(n, d) + d * y
           /\ d * y <= n => y <= Rounded(n, d) /\ d * Rounded(n, d) + d * y <= 2 * n
<1>. DEFINE f == Rounded(n, d)
<1>1. PICK u \in Spacings, q \in Nat, r \in Nat :
         /\ n = (d * u) * q + r /\ r < d * u /\ (u = 1 \/ (d * u) * Full < 2 * n)
         /\ \/ f = u * q /\ 2 * r <= d * u
            \/ f = u * (q + 1) /\ d * u <= 2 * r
  BY RoundedIs
<1>2. u \in Nat \ {0} /\ Full \in Nat /\ f \in Nat
  BY DoublesAssumption, RoundedIsDouble
<1>. HIDE DEF f
<1>. DEFINE step == d * u
<1>3. /\ step \in Nat \ {0} /\ step * q \in Nat
      /\ d * (u * q) = step * q /\ d * (u * (q + 1)) = step * q + step
  BY <1>2
<1>4. u = 1 \/ u * Full < 2 * (u * (q + 1))
  <2>. SUFFICES ASSUME u # 1 PROVE u * Full < 2 * (u * (q + 1))
    OBVIOUS
  <2>1. /\ d * (u * Full) = step * Full /\ d * (2 * (u * (q + 1))) = 2 * (step * q + step)
        /\ u * Full \in Nat /\ 2 * (u * (q + 1)) \in Nat /\ step * Full \in Nat
    BY <1>2
  <2>2. step * Full < 2 * (step * q + step)
    <3>. HIDE DEF step
    <3>1. n = step * q + r /\ r < step /\ step * Full < 2 * n
      BY <1>1 DEF step
    <3>2. step * Full \in Nat
      BY <1>2, <1>3
    <3>. QED BY <1>3, <3>1, <3>2
  <2>3. d * (u * Full) < d * (2 * (u * (q + 1)))
    BY <2>1, <2>2
  <2>. QED BY <2>1, <2>3, Shrinks
<1>5. y \in Nat /\ (y <= u * q \/ u * (q + 1) <= y)
  BY <1>4, NothingBetween
<1>6. d * y \in Nat /\ d * f \in Nat
  BY <1>2, <1>5
<1>7. d * y <= step * q \/ step * q + step <= d * y
  <2>1. u * q \in Nat /\ u * (q + 1) \in Nat
    BY <1>2
  <2>2. y <= u * q => d * y <= d * (u * q)
    BY <1>5, <2>1, Grows
  <2>3. u * (q + 1) <= y => d * (u * (q + 1)) <= d * y
    BY <1>5, <2>1, Grows
  <2>. QED BY <1>3, <1>5, <2>2, <2>3
<1>8. \/ d * f = step * q /\ 2 * r <= step
      \/ d * f = step * q + step /\ step <= 2 * r
  BY <1>1, <1>3
<1>9. n = step * q + r /\ r < step
  BY <1>1
<1>. HIDE DEF step
<1>10. n <= d * y => d * f <= d * y /\ 2 * n <= d * f + d * y
  BY <1>3, <1>6, <1>7, <1>8, <1>9
<1>11. d * y <= n => d * y <= d * f /\ d * f + d * y <= 2 * n
  BY <1>3, <1>6, <1>7, <1>8, <1>9
<1>12. (d * f <= d * y => f <= y) /\ (d * y <= d * f => y <= f)
  BY <1>2, <1>5, Shrinks
<1>. QED BY <1>2, <1>5, <1>10, <1>11, <1>12 DEF f

(* A quotient that is a double stays.                                      *)
LEMMA Exact ==
    ASSUME NEW d \in Nat \ {0}, NEW y, IsDouble(y), Fits(d * y, d)
    PROVE  Rounded(d * y, d) = y
<1>1. y \in Nat
  BY DoublesAssumption DEF IsDouble
<1>2. d * y \in Nat
  BY <1>1
<1>. HIDE DEF Fits
<1>3. Rounded(d * y, d) \in Nat /\ Rounded(d * y, d) <= y /\ y <= Rounded(d * y, d)
  BY <1>1, <1>2, Nearest
<1>. QED BY <1>1, <1>3

LEMMA DoubleStays ==
    ASSUME NEW y \in Nat, IsDouble(y), y <= One * Full
    PROVE  Rounded(y, 1) = y
<1>1. 1 * y = y /\ 1 * (One * Full) = One * Full
  BY DoublesAssumption
<1>2. Fits(1 * y, 1)
  BY <1>1 DEF Fits
<1>3. Rounded(1 * y, 1) = y
  BY <1>2, Exact
<1>. QED BY <1>1, <1>3

(* Rounding keeps the order.                                               *)
LEMMA RoundingRises ==
    ASSUME NEW m \in Nat, NEW n \in Nat, NEW d \in Nat \ {0}, m <= n, Fits(n, d)
    PROVE  Rounded(m, d) <= Rounded(n, d)
<1>. DEFINE f == Rounded(m, d)
            g == Rounded(n, d)
<1>1. Fits(m, d)
  <2>1. d * (One * Full) \in Nat
    BY DoublesAssumption
  <2>. QED BY <2>1 DEF Fits
<1>2. IsDouble(f) /\ IsDouble(g) /\ f \in Nat /\ g \in Nat
  BY <1>1, RoundedIsDouble
<1>3. /\ m <= d * g => f <= g
      /\ d * g <= m => d * f + d * g <= 2 * m
      /\ d * f <= n => f <= g
      /\ n <= d * f => 2 * n <= d * g + d * f
  BY <1>1, <1>2, Nearest
<1>. HIDE DEF f, g
<1>4. d * f \in Nat /\ d * g \in Nat
  BY <1>2
<1>. SUFFICES ASSUME ~(f <= g) PROVE FALSE
  BY DEF f, g
<1>5. d * f + d * g <= 2 * m /\ 2 * n <= d * g + d * f
  BY <1>2, <1>3, <1>4
<1>6. m = n
  BY <1>4, <1>5
<1>. QED BY <1>2, <1>6 DEF f, g

(* How far off a rounded quotient may be, if it is at most m.              *)
LEMMA ErrorIsSmall ==
    ASSUME NEW n \in Nat, NEW d \in Nat \ {0}, Fits(n, d), NEW m \in Nat, n <= d * m, Full <= m
    PROVE  /\ Full * (d * Rounded(n, d)) <= Full * n + d * m
           /\ Full * n <= Full * (d * Rounded(n, d)) + d * m
<1>. DEFINE f == Rounded(n, d)
<1>1. PICK u \in Spacings, q \in Nat, r \in Nat :
         /\ n = (d * u) * q + r /\ r < d * u /\ (u = 1 \/ (d * u) * Full < 2 * n)
         /\ \/ f = u * q /\ 2 * r <= d * u
            \/ f = u * (q + 1) /\ d * u <= 2 * r
  BY RoundedIs
<1>2. u \in Nat \ {0} /\ Full \in Nat /\ f \in Nat
  BY DoublesAssumption, RoundedIsDouble
<1>. HIDE DEF f
<1>. DEFINE step == d * u
            x == d * f
<1>3. step \in Nat \ {0} /\ step * q \in Nat /\ x \in Nat /\ d * m \in Nat
  BY <1>2
<1>4. x = step * q \/ x = step * q + step
  BY <1>1, <1>2
<1>5. 2 * x <= 2 * n + step /\ 2 * n <= 2 * x + step
  <2>1. \/ x = step * q /\ 2 * r <= step
        \/ x = step * q + step /\ step <= 2 * r
    <3>1. d * (u * q) = step * q /\ d * (u * (q + 1)) = step * q + step
      BY <1>2
    <3>. QED BY <1>1, <3>1
  <2>2. n = step * q + r /\ r < step
    BY <1>1
  <2>. HIDE DEF step, x
  <2>. QED BY <1>3, <2>1, <2>2
<1>6. Full * step <= 2 * (d * m)
  <2>1. CASE u = 1
    <3>1. d * Full <= d * m
      BY <1>2, Grows
    <3>2. Full * step = d * Full /\ d * Full \in Nat
      BY <1>2, <2>1
    <3>. HIDE DEF step
    <3>. QED BY <1>3, <3>1, <3>2
  <2>2. CASE (d * u) * Full < 2 * n
    <3>1. Full * step = (d * u) * Full /\ Full * step \in Nat
      BY <1>2
    <3>. DEFINE y == (d * u) * Full
                z == d * m
    <3>2. Full * step = y /\ y < 2 * n /\ n <= z /\ y \in Nat /\ z \in Nat
      BY <1>3, <2>2, <3>1
    <3>. HIDE DEF y, z, step
    <3>3. Full * step <= 2 * z
      BY <3>2
    <3>. QED BY <3>3 DEF z
  <2>. QED BY <1>1, <2>1, <2>2
<1>. HIDE DEF step, x
<1>7. /\ Full * (2 * x) <= Full * (2 * n + step)
      /\ Full * (2 * n) <= Full * (2 * x + step)
  <2>1. 2 * x \in Nat /\ 2 * n \in Nat /\ 2 * x + step \in Nat /\ 2 * n + step \in Nat
    BY <1>3
  <2>. QED BY <1>2, <1>5, <2>1, Grows
<1>8. /\ Full * (2 * x) = 2 * (Full * x) /\ Full * (2 * n) = 2 * (Full * n)
      /\ Full * (2 * n + step) = 2 * (Full * n) + Full * step
      /\ Full * (2 * x + step) = 2 * (Full * x) + Full * step
      /\ Full * x \in Nat /\ Full * n \in Nat /\ Full * step \in Nat
  BY <1>2, <1>3
<1>9. Full * x <= Full * n + d * m /\ Full * n <= Full * x + d * m
  BY <1>3, <1>6, <1>7, <1>8
<1>. QED BY <1>9 DEF x, f

(* Whole numbers are doubles.                                              *)
LEMMA WholeIsDouble ==
    ASSUME NEW k \in Nat, k <= Full
    PROVE  IsDouble(One * k) /\ One * k \in Nat /\ One * k <= One * Full
<1>1. One \in Spacings /\ One \in Nat /\ Full \in Nat
  BY DoublesAssumption
<1>2. One * k \in Nat /\ One * k <= One * Full
  BY <1>1, Grows
<1>. QED BY <1>1, <1>2 DEF IsDouble

-----------------------------------------------------------------------------
(***************************************************************************)
(* One cut: what is at most most, and most doubles in all, does not        *)
(* overflow on the way, and later bounds are no lower.                     *)
(***************************************************************************)
LEMMA CutSteps ==
    ASSUME NEW most \in Nat, NEW n \in Nat \ {0}, IsDouble(most), IsDouble(most * n),
           2 * most <= One * Full, most * n <= One * Full,
           NEW begin \in Nat, begin <= most, NEW length \in Nat, length <= most,
           NEW k \in 0 .. n
    PROVE  /\ Fits(length * k, 1) /\ length * k \in Nat /\ length * k <= most * n
           /\ Rounded(length * k, 1) \in Nat /\ Rounded(length * k, 1) <= most * n
           /\ Fits(Rounded(length * k, 1), n)
           /\ Rounded(Rounded(length * k, 1), n) \in Nat
           /\ Rounded(Rounded(length * k, 1), n) <= most
           /\ Fits(begin + Rounded(Rounded(length * k, 1), n), 1)
           /\ Cut(begin, length, k, n) \in Nat
<1>. DEFINE a == length * k
            p == Rounded(a, 1)
            q == Rounded(p, n)
            all == One * Full
<1>1. all \in Nat /\ k \in Nat
  BY DoublesAssumption
<1>2. a \in Nat /\ a <= most * n /\ most * n \in Nat
  <2>1. length * k <= length * n
    BY <1>1, Grows
  <2>2. n * length <= n * most
    BY Grows
  <2>3. length * n = n * length /\ most * n = n * most /\ length * k \in Nat /\ n * length \in Nat
        /\ n * most \in Nat
    BY <1>1
  <2>. QED BY <2>1, <2>2, <2>3
<1>. HIDE DEF a
<1>3. Fits(a, 1)
  <2>1. a <= 1 * all
    <3>. HIDE DEF all
    <3>1. most * n <= all
      BY DEF all
    <3>. QED BY <1>1, <1>2, <3>1
  <2>. QED BY <2>1 DEF Fits
<1>4. p \in Nat /\ p <= most * n
  <2>1. a <= 1 * (most * n)
    BY <1>2
  <2>. QED BY <1>2, <1>3, <2>1, Nearest
<1>. HIDE DEF p
<1>5. n * most = most * n /\ p <= n * most
  BY <1>2, <1>4
<1>6. Fits(p, n)
  <2>1. most <= all
    BY <1>1
  <2>2. n * most <= n * all /\ n * most \in Nat /\ n * all \in Nat
    BY <1>1, <2>1, Grows
  <2>. QED BY <1>4, <1>5, <2>2 DEF Fits
<1>7. q \in Nat /\ q <= most
  BY <1>4, <1>5, <1>6, Nearest
<1>. HIDE DEF q
<1>8. Fits(begin + q, 1) /\ begin + q \in Nat
  <2>1. begin + q <= 1 * all /\ begin + q \in Nat
    <3>. HIDE DEF all
    <3>1. 2 * most <= all
      BY DEF all
    <3>. QED BY <1>1, <1>7, <3>1
  <2>. QED BY <2>1 DEF Fits
<1>9. Rounded(begin + q, 1) \in Nat
  BY <1>8, RoundedIsDouble
<1>. QED BY <1>2, <1>3, <1>4, <1>6, <1>7, <1>8, <1>9 DEF Cut, a, p, q

LEMMA CutRises ==
    ASSUME NEW most \in Nat, NEW n \in Nat \ {0}, IsDouble(most), IsDouble(most * n),
           2 * most <= One * Full, most * n <= One * Full,
           NEW begin \in Nat, begin <= most, NEW length \in Nat, length <= most,
           NEW j \in 0 .. n, NEW k \in 0 .. n, j <= k
    PROVE  Cut(begin, length, j, n) <= Cut(begin, length, k, n)
<1>1. length * j <= length * k /\ length * j \in Nat /\ length * k \in Nat
  BY Grows
<1>. DEFINE p(i) == Rounded(length * i, 1)
            q(i) == Rounded(p(i), n)
<1>2. /\ Fits(length * k, 1) /\ p(j) \in Nat /\ p(k) \in Nat /\ Fits(p(k), n)
      /\ q(j) \in Nat /\ q(k) \in Nat /\ Fits(begin + q(k), 1)
  BY CutSteps
<1>3. p(j) <= p(k)
  BY <1>1, <1>2, RoundingRises
<1>. HIDE DEF p
<1>4. q(j) <= q(k)
  BY <1>2, <1>3, RoundingRises
<1>. HIDE DEF q
<1>5. begin + q(j) \in Nat /\ begin + q(k) \in Nat /\ begin + q(j) <= begin + q(k)
  BY <1>2, <1>4
<1>6. Rounded(begin + q(j), 1) <= Rounded(begin + q(k), 1)
  BY <1>2, <1>5, RoundingRises
<1>. QED BY <1>6 DEF Cut, p, q

(* The first bound is where the interval begins.                           *)
LEMMA CutBegins ==
    ASSUME NEW begin \in Nat, IsDouble(begin), begin <= One * Full,
           NEW length \in Nat, NEW n \in Nat \ {0}
    PROVE  Cut(begin, length, 0, n) = begin
<1>1. One * Full \in Nat
  BY DoublesAssumption
<1>2. IsDouble(0)
  BY DoublesAssumption, 1 * 0 = 0 DEF IsDouble
<1>3. ASSUME NEW d \in Nat \ {0} PROVE Rounded(0, d) = 0
  <2>1. d * 0 = 0 /\ d * (One * Full) \in Nat
    BY <1>1
  <2>2. Fits(d * 0, d)
    BY <2>1 DEF Fits
  <2>. QED BY <1>2, <2>1, <2>2, Exact
<1>4. length * 0 = 0 /\ begin + 0 = begin /\ 1 * begin = begin
  OBVIOUS
<1>5. Rounded(begin, 1) = begin
  <2>1. Fits(1 * begin, 1)
    BY <1>1 DEF Fits
  <2>2. Rounded(1 * begin, 1) = begin
    BY <2>1, Exact
  <2>. QED BY <1>4, <2>2
<1>. QED BY <1>3, <1>4, <1>5 DEF Cut

-----------------------------------------------------------------------------
(***************************************************************************)
(* A whole number that is the end of a worker's slice is reached by the    *)
(* last thread, though its bound is rounded four times.                    *)
(***************************************************************************)
(* From half a spacing below an even double the way goes up.               *)
LEMMA RoundsUp ==
    ASSUME NEW v \in Spacings, NEW h \in Nat \ {0}, v = 2 * h,
           NEW k \in Nat, k % 2 = 0, Full < 2 * k, k <= Full,
           NEW n \in Nat, Fits(n, 1), v * k <= n + h
    PROVE  v * k <= Rounded(n, 1)
<1>1. v \in Nat \ {0} /\ Full \in Nat /\ v * k \in Nat /\ v * Full \in Nat /\ v * k <= v * Full
  <2>1. v \in Nat \ {0} /\ Full \in Nat
    BY DoublesAssumption
  <2>. QED BY <2>1, Grows
<1>2. CASE v * k <= n
  <2>1. IsDouble(v * k)
    BY Zenon DEF IsDouble
  <2>2. 1 * (v * k) <= n
    BY <1>1, <1>2
  <2>. QED BY <2>1, <2>2, Nearest
<1>3. CASE n < v * k
  <2>1. PICK half \in Nat \ {0} : Full = 2 * half
    BY FullIsTwice
  <2>2. half + 1 <= k
    BY <2>1
  <2>3. v * (half + 1) <= v * k /\ v * (half + 1) = v * half + v /\ v * half \in Nat
        /\ v * Full = 2 * (v * half)
    BY <1>1, <2>1, <2>2, Grows
  <2>4. v * Full < 2 * n
    BY <1>1, <2>3
  <2>5. Spacing(n, 1) = v
    <3>1. 1 * (v * Full) = v * Full /\ n <= v * Full
      BY <1>1, <1>3
    <3>. QED BY <2>4, <3>1, SpacingIsOne
  <2>6. PICK q \in Nat, r \in Nat :
           /\ n = (1 * v) * q + r /\ r < 1 * v
           /\ \/ Rounded(n, 1) = v * q /\ 2 * r <= 1 * v
              \/ Rounded(n, 1) = v * (q + 1) /\ 1 * v <= 2 * r
           /\ 2 * r = 1 * v /\ q % 2 # 0 => Rounded(n, 1) = v * (q + 1)
    <3>. DEFINE Is(u, q, r) ==
                   /\ u = Spacing(n, 1) /\ n = (1 * u) * q + r /\ r < 1 * u
                   /\ n <= (1 * u) * Full /\ (u = 1 \/ (1 * u) * Full < 2 * n)
                   /\ \/ Rounded(n, 1) = u * q /\ 2 * r <= 1 * u
                      \/ Rounded(n, 1) = u * (q + 1) /\ 1 * u <= 2 * r
                   /\ 2 * r = 1 * u /\ q % 2 # 0 => Rounded(n, 1) = u * (q + 1)
    <3>1. \E u \in Spacings : \E q \in Nat : \E r \in Nat : Is(u, q, r)
      <4>1. 1 \in Nat \ {0}
        OBVIOUS
      <4>. QED BY ONLY <4>1, n \in Nat, Fits(n, 1), RoundedIs, Zenon
    <3>2. PICK u \in Spacings, q \in Nat, r \in Nat : Is(u, q, r)
      <4>. HIDE DEF Is
      <4>. QED BY <3>1
    <3>3. u = v
      BY <2>5, <3>2
    <3>. QED BY <3>2, <3>3
  <2>7. 1 * v = v /\ n = v * q + r /\ r < v /\ v * q \in Nat /\ v * (q + 1) = v * q + v
    BY <1>1, <2>6
  <2>8. q < k /\ k < q + 2
    <3>1. v * q < v * k
      BY <1>1, <1>3, <2>7
    <3>2. v * (q + 2) = v * q + 2 * v
      BY <1>1
    <3>3. v * k < v * (q + 2)
      BY <1>1, <2>7, <3>2
    <3>. QED BY <1>1, <3>1, <3>3, Shrinks
  <2>9. k = q + 1
    BY <2>8
  <2>10. v <= 2 * r
    BY <1>1, <2>7, <2>9
  <2>11. q % 2 # 0
    BY <2>9
  <2>12. Rounded(n, 1) = v * (q + 1)
    <3>1. CASE 2 * r = v
      BY <2>6, <2>7, <2>11, <3>1
    <3>2. CASE 2 * r # v
      <4>1. ~(2 * r <= v)
        BY <1>1, <2>10, <3>2
      <4>. QED BY <2>6, <2>7, <4>1
    <3>. QED BY <3>1, <3>2
  <2>. QED BY <1>1, <2>9, <2>12
<1>. QED BY <1>1, <1>2, <1>3

(* A double of at least half of x is a multiple of half of x's spacing.    *)
LEMMA UpperHalf ==
    ASSUME NEW h \in Spacings, NEW k \in Nat, Full < 2 * k, NEW y, IsDouble(y), h * k <= y
    PROVE  \E c \in Nat : y = h * c
<1>1. PICK u \in Spacings, i \in Nat : y = u * i /\ i <= Full
  BY DEF IsDouble
<1>2. u \in Nat \ {0} /\ h \in Nat \ {0} /\ Full \in Nat
  BY DoublesAssumption
<1>3. CASE u = h
  BY <1>1, <1>3
<1>4. CASE h < u
  <2>1. PICK j \in Nat \ {0} : u = (2 * h) * j
    BY <1>4, SpacingsNest
  <2>2. y = h * ((2 * j) * i) /\ (2 * j) * i \in Nat
    BY <1>1, <1>2, <2>1
  <2>. QED BY <2>2
<1>5. CASE u < h
  <2>1. PICK j \in Nat \ {0} : h = (2 * u) * j
    BY <1>5, SpacingsNest
  <2>2. 2 * u <= h
    <3>1. (2 * u) * 1 <= (2 * u) * j
      <4>1. 2 * u \in Nat
        BY <1>2
      <4>. QED BY <4>1, Grows
    <3>. QED BY <1>2, <2>1, <3>1
  <2>3. u * i <= u * Full /\ u * i \in Nat /\ u * Full \in Nat
    BY <1>1, <1>2, Grows
  <2>4. Full * (2 * u) <= Full * h
    BY <1>2, <2>2, Grows
  <2>5. Full * (2 * u) = 2 * (u * Full) /\ Full * h = h * Full /\ h * Full \in Nat
    BY <1>2
  <2>6. h * Full < h * (2 * k)
    <3>1. Full + 1 <= 2 * k /\ 2 * k \in Nat /\ Full + 1 \in Nat
      BY <1>2
    <3>2. h * (Full + 1) <= h * (2 * k) /\ h * (2 * k) \in Nat
      BY <1>2, <3>1, Grows
    <3>3. h * (Full + 1) = h * Full + h
      BY <1>2
    <3>. QED BY <1>2, <2>5, <3>2, <3>3
  <2>7. h * (2 * k) = 2 * (h * k) /\ h * k \in Nat
    BY <1>2
  <2>8. 2 * y < 2 * (h * k)
    BY <1>1, <2>3, <2>4, <2>5, <2>6, <2>7
  <2>. QED BY <1>1, <2>3, <2>7, <2>8
<1>. QED BY <1>2, <1>3, <1>4, <1>5

(* The last bound of a slice from wb to the whole number m is no less than *)
(* m, if the slice begins in the upper half.                               *)
LEMMA LastIsReached ==
    ASSUME NEW m \in Nat \ {0}, NEW n \in Nat \ {0}, 2 * m <= Full, m * n <= Full,
           NEW wb \in Nat, IsDouble(wb), wb <= One * m, One * m <= 2 * wb
    PROVE  One * m <= Cut(wb, Rounded(One * m - wb, 1), n, n)
<1>. DEFINE we == One * m
            g == we - wb
            l == Rounded(g, 1)
<1>1. /\ One \in Spacings /\ One \in Nat \ {0} /\ Full \in Nat \ {0} /\ 2 * Full <= One
      /\ m <= Full
  BY DoublesAssumption
<1>2. /\ IsDouble(we) /\ we \in Nat /\ we <= One * Full
      /\ IsDouble(we * n) /\ we * n <= One * Full /\ 2 * we <= One * Full
  <2>1. IsDouble(One * m) /\ One * m \in Nat /\ One * m <= One * Full
    BY <1>1, WholeIsDouble
  <2>2. m * n \in Nat /\ 2 * m \in Nat
    OBVIOUS
  <2>3. IsDouble(One * (m * n)) /\ One * (m * n) <= One * Full
    BY <2>2, WholeIsDouble
  <2>4. One * (2 * m) <= One * Full
    BY <1>1, <2>2, WholeIsDouble
  <2>5. One * (m * n) = (One * m) * n /\ One * (2 * m) = 2 * (One * m)
    BY <1>1
  <2>. QED BY <2>1, <2>3, <2>4, <2>5
<1>3. One <= we
  <2>1. One * 1 <= One * m
    BY <1>1, Grows
  <2>. QED BY <1>1, <2>1
<1>4. Fits(we, 1)
  BY <1>1, <1>2 DEF Fits
(* The spacing around the whole number, its half, and the whole number and *)
(* the slice in terms of them.                                             *)
<1>5. PICK v \in Spacings : we <= v * Full /\ v * Full < 2 * we /\ v # 1
  <2>. DEFINE v == Spacing(we, 1)
  <2>1. v \in Spacings /\ we <= 1 * (v * Full) /\ (v = 1 \/ 1 * (v * Full) < 2 * we)
    BY <1>2, <1>4, SpacingIs
  <2>. HIDE DEF v
  <2>2. v \in Nat \ {0}
    BY <2>1, DoublesAssumption
  <2>3. v # 1
    <3>. SUFFICES ASSUME v = 1 PROVE FALSE
      OBVIOUS
    <3>1. we <= Full
      BY <1>1, <2>1
    <3>. HIDE DEF we
    <3>. QED BY <1>1, <1>2, <1>3, <3>1
  <2>4. 1 * (v * Full) = v * Full
    BY <1>1, <2>2
  <2>. QED BY <2>1, <2>3, <2>4
<1>6. PICK h \in Spacings : v = 2 * h
  BY <1>5, DoublesAssumption
<1>7. v \in Nat \ {0} /\ h \in Nat \ {0}
  BY DoublesAssumption
<1>8. PICK k \in Nat : we = v * k /\ k % 2 = 0 /\ k <= Full /\ Full < 2 * k
  <2>1. v < One
    <3>. SUFFICES ASSUME One <= v PROVE FALSE
      BY <1>1, <1>7
    <3>1. Full * One <= Full * v
      BY <1>1, <1>7, Grows
    <3>2. Full * One = One * Full /\ Full * v = v * Full /\ One * Full \in Nat /\ v * Full \in Nat
      BY <1>1, <1>7
    <3>. HIDE DEF we
    <3>. QED BY <1>2, <1>5, <3>1, <3>2
  <2>2. PICK j \in Nat \ {0} : One = (2 * v) * j
    BY <1>1, <2>1, SpacingsNest
  <2>. DEFINE k == 2 * (j * m)
  <2>3. we = v * k /\ k \in Nat /\ k % 2 = 0
    <3>1. j * m \in Nat
      OBVIOUS
    <3>2. k \in Nat /\ k % 2 = 0
      <4>. HIDE DEF we
      <4>. QED BY <3>1
    <3>3. we = v * k
      BY <1>7, <2>2
    <3>. QED BY <3>2, <3>3
  <2>. HIDE DEF k, we
  <2>4. k <= Full
    BY <1>1, <1>5, <1>7, <2>3, Shrinks
  <2>5. Full < 2 * k
    <3>1. v * (2 * k) = 2 * (v * k) /\ 2 * k \in Nat
      BY <1>7, <2>3
    <3>2. v * Full < v * (2 * k)
      BY <1>5, <2>3, <3>1
    <3>. QED BY <1>1, <1>7, <3>1, <3>2, Shrinks
  <2>. QED BY <2>3, <2>4, <2>5
<1>9. wb <= we /\ we <= 2 * wb
  OBVIOUS
<1>. HIDE DEF we
<1>10. PICK c \in Nat : wb = h * c
  <2>1. we = 2 * (h * k) /\ h * k \in Nat
    BY <1>6, <1>7, <1>8
  <2>2. h * k <= wb
    BY <1>9, <2>1
  <2>. QED BY <1>8, <2>2, UpperHalf
<1>11. k <= c /\ c <= 2 * k
  <2>1. we = h * (2 * k) /\ we = 2 * (h * k) /\ h * k \in Nat /\ 2 * k \in Nat
    BY <1>6, <1>7, <1>8
  <2>2. h * k <= h * c /\ h * c <= h * (2 * k)
    BY <1>9, <1>10, <2>1
  <2>. QED BY <1>7, <2>1, <2>2, Shrinks
<1>12. PICK x \in Nat : c + x = 2 * k /\ x <= Full
  <2>1. 2 * k - c \in Nat /\ c + (2 * k - c) = 2 * k /\ 2 * k - c <= Full
    BY <1>1, <1>8, <1>11
  <2>. QED BY <2>1
<1>13. g = h * x /\ g \in Nat /\ wb + h * x = we
  <2>1. h * (2 * k) = h * c + h * x /\ h * c \in Nat /\ h * x \in Nat
    <3>1. h * (c + x) = h * c + h * x /\ h * c \in Nat /\ h * x \in Nat
      BY <1>7, Distribute
    <3>. QED BY <1>12, <3>1
  <2>2. we = h * (2 * k)
    BY <1>6, <1>7, <1>8
  <2>. QED BY <1>10, <2>1, <2>2
(* The length is exact.                                                    *)
<1>14. l = h * x
  <2>1. IsDouble(g)
    BY <1>12, <1>13 DEF IsDouble
  <2>2. Fits(1 * g, 1) /\ 1 * g = g
    <3>1. g <= we
      BY <1>2, <1>13
    <3>. HIDE DEF g
    <3>2. 1 * g <= 1 * (One * Full) /\ 1 * g = g
      <4>1. One * Full \in Nat
        BY <1>1
      <4>. QED BY <1>2, <1>13, <3>1, <4>1
    <3>. QED BY <3>2 DEF Fits
  <2>3. Rounded(1 * g, 1) = g
    BY <2>1, <2>2, Exact
  <2>. QED BY <1>13, <2>2, <2>3
<1>15. h * x \in Nat /\ h * x <= we
  BY <1>2, <1>13
<1>. HIDE DEF g, l
<1>. DEFINE a == l * n
            p == Rounded(a, 1)
            q == Rounded(p, n)
<1>16. /\ n \in 0 .. n /\ 0 \in 0 .. n
       /\ Fits(a, 1) /\ a \in Nat /\ p \in Nat /\ Fits(p, n) /\ q \in Nat
       /\ Fits(wb + q, 1) /\ Cut(wb, l, n, n) \in Nat
  <2>1. n \in 0 .. n /\ 0 \in 0 .. n
    OBVIOUS
  <2>. QED BY <1>2, <1>9, <1>14, <1>15, <2>1, CutSteps
<1>17. CASE x = 0
  <2>1. wb = we
    BY <1>2, <1>7, <1>13, <1>17
  <2>2. Cut(wb, l, 0, n) = wb
    BY <1>2, <1>14, <1>15, <2>1, CutBegins
  <2>3. Cut(wb, l, 0, n) <= Cut(wb, l, n, n)
    BY <1>2, <1>9, <1>14, <1>15, <1>16, CutRises
  <2>4. we <= Cut(wb, l, n, n)
    BY <2>1, <2>2, <2>3
  <2>. QED BY <2>4 DEF we, l, g
<1>18. CASE x # 0
  <2>1. PICK y \in Nat : x = y + 1
    <3>1. x - 1 \in Nat /\ x = (x - 1) + 1
      BY <1>18
    <3>. QED BY <3>1
  <2>2. h * x = h * y + h /\ h * y \in Nat /\ n * (h * y) \in Nat /\ h * n \in Nat
        /\ a = n * (h * y) + h * n
    BY <1>7, <1>14, <2>1
  <2>3. IsDouble(h * y)
    <3>1. y <= Full
      BY <1>1, <1>12, <2>1
    <3>. QED BY <3>1 DEF IsDouble
  <2>. HIDE DEF a, p, q
  <2>4. n * (h * y) <= p
    <3>1. CASE a < Full
      <4>1. 1 * a = a /\ IsDouble(1 * a)
        <5>1. 1 \in Spacings /\ a \in Nat /\ a <= Full
          BY <1>1, <1>16, <3>1, DoublesAssumption
        <5>2. IsDouble(1 * a)
          BY <5>1, Zenon DEF IsDouble
        <5>. QED BY <1>16, <5>2
      <4>2. p = a
        <5>1. Fits(1 * a, 1) /\ IsDouble(a)
          BY <1>16, <4>1
        <5>2. Rounded(1 * a, 1) = a
          BY <5>1, Exact
        <5>. QED BY <4>1, <5>2 DEF p
      <4>. QED BY <2>2, <4>2
    <3>2. CASE Full <= a
      <4>1. Full * a <= Full * (1 * p) + 1 * a
        <5>1. a <= 1 * a
          BY <1>16
        <5>. QED BY <1>16, <3>2, <5>1, ErrorIsSmall DEF p
      <4>2. a <= Full * (h * n)
        <5>1. (h * n) * x <= (h * n) * Full
          BY <1>1, <1>12, <2>2, Grows
        <5>2. (h * n) * x = a /\ (h * n) * Full = Full * (h * n)
          <6>1. (h * n) * x = (h * x) * n
            BY <1>7
          <6>2. (h * n) * Full = Full * (h * n)
            BY <1>1, <2>2
          <6>. QED BY <1>14, <6>1, <6>2 DEF a
        <5>. QED BY <5>1, <5>2
      <4>3. /\ Full * (p + h * n) = Full * p + Full * (h * n)
            /\ Full * p \in Nat /\ Full * (h * n) \in Nat /\ Full * a \in Nat
            /\ p + h * n \in Nat
        BY <1>1, <1>16, <2>2, Distribute
      <4>4. Full * a <= Full * (p + h * n)
        <5>1. 1 * p = p /\ 1 * a = a
          BY <1>16
        <5>. QED BY <1>16, <4>1, <4>2, <4>3, <5>1
      <4>5. a <= p + h * n
        BY <1>1, <1>16, <4>3, <4>4, Shrinks
      <4>. QED BY <1>16, <2>2, <4>5
    <3>. QED BY <1>1, <1>16, <3>1, <3>2
  <2>5. h * y <= q
    BY <1>16, <2>3, <2>4, Nearest DEF q
  <2>6. we <= (wb + q) + h /\ wb + q \in Nat
    BY <1>7, <1>13, <1>16, <2>2, <2>5
  <2>7. we <= Rounded(wb + q, 1)
    BY <1>6, <1>7, <1>8, <1>16, <2>6, RoundsUp
  <2>8. we <= Cut(wb, l, n, n)
    BY <2>7 DEF Cut, q, p, a
  <2>. QED BY <2>8 DEF we, l, g
<1>. QED BY <1>17, <1>18

-----------------------------------------------------------------------------
(***************************************************************************)
(* The bounds of the workers.                                              *)
(***************************************************************************)
JobIsSet ==
    /\ end \in Ends /\ tasks = [w \in WorkerIds |-> TaskOf(w)]
    /\ threads \in [WorkerIds -> ThreadCounts]

Interval == One * end
Bound(k) == Rounded(Interval * k, Workers)

(* What the job is made of are natural numbers, small enough.              *)
LEMMA JobNumbers ==
    ASSUME JobIsSet
    PROVE  /\ Workers \in Nat \ {0} /\ end \in Nat \ {0} /\ 6 * end * Workers < Full
           /\ Full \in Nat \ {0} /\ One \in Nat \ {0} /\ 2 * Full <= One
           /\ \A w \in WorkerIds : threads[w] \in Nat \ {0} /\ end * threads[w] <= Full
<1>1. end \in Ends /\ threads \in [WorkerIds -> ThreadCounts]
  BY DEF JobIsSet
<1>2. /\ end \in Nat \ {0} /\ 6 * end * Workers < Full
      /\ \A n \in ThreadCounts : n \in Nat \ {0} /\ end * n <= Full
  BY <1>1, SlicesAssumption
<1>3. \A w \in WorkerIds : threads[w] \in Nat \ {0} /\ end * threads[w] <= Full
  BY <1>1, <1>2
<1>. QED BY <1>2, <1>3, SlicesAssumption, DoublesAssumption

(* Multiples of the interval that are small enough are doubles.            *)
LEMMA IntervalIs ==
    ASSUME JobIsSet
    PROVE  /\ Interval \in Nat /\ Full <= Interval /\ 2 * Interval <= One * Full
           /\ One * Full \in Nat
           /\ \A k \in Nat : end * k <= Full =>
                 IsDouble(Interval * k) /\ Interval * k \in Nat /\ Interval * k <= One * Full
           /\ IsDouble(Interval) /\ end * Workers <= Full /\ end <= Full
<1>1. Workers \in Nat \ {0} /\ end \in Nat \ {0} /\ Full \in Nat \ {0} /\ One \in Nat \ {0}
      /\ 2 * Full <= One /\ 6 * end * Workers < Full
  BY JobNumbers
<1>2. 6 * end * Workers = 6 * (end * Workers) /\ end * Workers \in Nat /\ end * 1 <= end * Workers
  <2>1. end * 1 <= end * Workers
    BY <1>1, Grows
  <2>. QED BY <1>1, <2>1
<1>3. end * Workers <= Full /\ 2 * end <= Full /\ end <= Full
  BY <1>1, <1>2
<1>4. ASSUME NEW k \in Nat, end * k <= Full
      PROVE  IsDouble(Interval * k) /\ Interval * k \in Nat /\ Interval * k <= One * Full
  <2>1. end * k \in Nat /\ (One * end) * k = One * (end * k)
    BY <1>1
  <2>. QED BY <1>4, <2>1, WholeIsDouble DEF Interval
<1>5. IsDouble(Interval) /\ Interval \in Nat
  BY <1>1, <1>3, WholeIsDouble DEF Interval
<1>6. One * (2 * end) <= One * Full /\ One * (2 * end) = 2 * (One * end)
  BY <1>1, <1>3, Grows
<1>7. One * 1 <= One * end
  BY <1>1, Grows
<1>8. Full <= Interval /\ 2 * Interval <= One * Full /\ One * Full \in Nat
  <2>1. One <= Interval
    BY <1>1, <1>7 DEF Interval
  <2>. QED BY <1>1, <1>5, <1>6, <2>1 DEF Interval
<1>. QED BY <1>3, <1>4, <1>5, <1>8

(* The bounds between workers: doubles that rise from 0 to the whole       *)
(* interval.                                                               *)
LEMMA BoundIs ==
    ASSUME JobIsSet, NEW k \in 0 .. Workers
    PROVE  /\ Interval * k \in Nat /\ Interval * k <= Workers * Interval
           /\ Fits(Interval * k, Workers)
           /\ Bound(k) \in Nat /\ IsDouble(Bound(k)) /\ Bound(k) <= Interval
           /\ Cut(0, Length, k, Workers) = Bound(k)
           /\ \A j \in 0 .. k : Bound(j) <= Bound(k)
<1>1. /\ Workers \in Nat \ {0} /\ end \in Nat \ {0} /\ Full \in Nat /\ One \in Nat
      /\ Interval \in Nat /\ IsDouble(Interval) /\ One * Full \in Nat
      /\ Interval <= One * Full
  BY JobNumbers, IntervalIs
<1>2. k \in Nat /\ end * k <= Full
  <2>1. k \in Nat /\ k <= Workers
    BY <1>1
  <2>2. end * k <= end * Workers /\ end * k \in Nat /\ end * Workers \in Nat
    BY <1>1, <2>1, Grows
  <2>3. end * Workers <= Full
    BY IntervalIs
  <2>. QED BY <1>1, <2>1, <2>2, <2>3
<1>3. IsDouble(Interval * k) /\ Interval * k \in Nat /\ Interval * k <= One * Full
  BY <1>2, IntervalIs
<1>4. Interval * k <= Workers * Interval /\ Workers * Interval \in Nat
  <2>1. Interval * k <= Interval * Workers /\ Interval * Workers = Workers * Interval
        /\ Interval * Workers \in Nat
    BY <1>1, <1>2, Grows
  <2>. QED BY <2>1
<1>5. Fits(Interval * k, Workers)
  <2>1. Workers * Interval <= Workers * (One * Full) /\ Workers * (One * Full) \in Nat
    BY <1>1, Grows
  <2>. QED BY <1>3, <1>4, <2>1 DEF Fits
<1>6. Bound(k) \in Nat /\ IsDouble(Bound(k)) /\ Bound(k) <= Interval
  <2>1. Bound(k) \in Nat /\ IsDouble(Bound(k))
    BY <1>1, <1>3, <1>5, RoundedIsDouble DEF Bound
  <2>2. Bound(k) <= Interval
    BY <1>1, <1>3, <1>4, <1>5, Nearest DEF Bound
  <2>. QED BY <2>1, <2>2
<1>7. \A y \in Nat : IsDouble(y) /\ y <= One * Full => Rounded(y, 1) = y
  BY DoubleStays
<1>8. Cut(0, Length, k, Workers) = Bound(k)
  <2>1. Length = Interval
    <3>1. end * One = Interval
      BY <1>1 DEF Interval
    <3>. QED BY <1>1, <1>7, <3>1 DEF Length
  <2>2. Rounded(Interval * k, 1) = Interval * k
    BY <1>3, <1>7
  <2>3. Bound(k) <= One * Full
    BY <1>1, <1>6
  <2>4. Rounded(0 + Bound(k), 1) = Bound(k)
    <3>1. 0 + Bound(k) = Bound(k)
      BY <1>6
    <3>. QED BY <1>6, <1>7, <2>3, <3>1
  <2>. QED BY <2>1, <2>2, <2>4 DEF Cut, Bound
<1>9. ASSUME NEW j \in 0 .. k PROVE Bound(j) <= Bound(k)
  <2>1. j \in Nat /\ j <= k
    BY <1>2
  <2>2. Interval * j <= Interval * k /\ Interval * j \in Nat
    BY <1>1, <1>2, <2>1, Grows
  <2>. QED BY <1>1, <1>3, <1>5, <2>2, RoundingRises DEF Bound
<1>. QED BY <1>3, <1>4, <1>5, <1>6, <1>8, <1>9

-----------------------------------------------------------------------------
(***************************************************************************)
(* The last thread of a worker and the first one of the next.              *)
(***************************************************************************)
(* A product that is close to another in one direction, step by step.      *)
LEMMA ErrorsAddUp ==
    ASSUME NEW f \in Nat, NEW n \in Nat \ {0}, NEW b \in Nat,
           NEW g \in Nat, NEW l \in Nat, NEW p \in Nat, NEW q \in Nat
    PROVE  /\ f * (1 * l) <= f * g + 1 * b /\ f * (1 * p) <= f * (l * n) + 1 * (b * n)
              /\ f * (n * q) <= f * p + n * b
              => f * q <= f * g + 3 * b
           /\ f * g <= f * (1 * l) + 1 * b /\ f * (l * n) <= f * (1 * p) + 1 * (b * n)
              /\ f * p <= f * (n * q) + n * b
              => f * g <= f * q + 3 * b
<1>. DEFINE fl == f * l
            fg == f * g
            fp == f * p
            fq == f * q
            nb == n * b
<1>1. /\ fl \in Nat /\ fg \in Nat /\ fp \in Nat /\ fq \in Nat /\ nb \in Nat
      /\ f * (1 * l) = fl /\ f * (1 * p) = fp /\ 1 * (b * n) = nb /\ 1 * b = b
      /\ f * (l * n) = n * fl /\ f * (n * q) = n * fq
  BY Distribute
<1>2. /\ n * (fg + 3 * b) = n * fg + 3 * nb /\ n * (fq + 3 * b) = n * fq + 3 * nb
      /\ n * (fg + b) = n * fg + nb /\ n * (fl + b) = n * fl + nb
      /\ n * fg \in Nat /\ n * fq \in Nat /\ n * fl \in Nat
      /\ fg + 3 * b \in Nat /\ fq + 3 * b \in Nat /\ fg + b \in Nat /\ fl + b \in Nat
  <2>1. fl \in Nat /\ fg \in Nat /\ fq \in Nat
    BY <1>1
  <2>. HIDE DEF fl, fg, fq
  <2>. QED BY <2>1
<1>. HIDE DEF fl, fg, fp, fq, nb
<1>3. ASSUME fl <= fg + b, fp <= n * fl + nb, n * fq <= fp + nb PROVE fq <= fg + 3 * b
  <2>1. n * fl <= n * (fg + b)
    BY <1>1, <1>2, <1>3, Grows
  <2>2. n * fq <= n * (fg + 3 * b)
    BY <1>1, <1>2, <1>3, <2>1
  <2>. QED BY <1>1, <1>2, <2>2, Shrinks
<1>4. ASSUME fg <= fl + b, n * fl <= fp + nb, fp <= n * fq + nb PROVE fg <= fq + 3 * b
  <2>1. n * fg <= n * (fl + b)
    BY <1>1, <1>2, <1>4, Grows
  <2>2. n * fg <= n * (fq + 3 * b)
    BY <1>1, <1>2, <1>4, <2>1
  <2>. QED BY <1>1, <1>2, <2>2, Shrinks
<1>. QED BY <1>1, <1>3, <1>4 DEF fl, fg, fp, fq, nb

(* What is close to a bound between workers is close to the exact bound.   *)
LEMMA CloseToExact ==
    ASSUME JobIsSet, NEW x \in Nat, NEW y \in Nat, NEW e \in Nat,
           Full * x <= Full * y + 5 * Interval, Full * y <= Full * x + 5 * Interval,
           Full * (Workers * y) <= Full * e + Workers * Interval,
           Full * e <= Full * (Workers * y) + Workers * Interval
    PROVE  Workers * x < e + One /\ e < Workers * x + One
<1>. DEFINE W == Workers
            I == Interval
            fx == Full * x
            fy == Full * y
            wi == W * I
            wx == W * x
            wy == W * y
<1>1. W \in Nat \ {0} /\ I \in Nat /\ Full \in Nat \ {0} /\ One \in Nat \ {0} /\ end \in Nat \ {0}
  BY JobNumbers, IntervalIs
<1>2. 6 * wi < Full * One
  <2>1. 6 * wi = One * (6 * end * W) /\ 6 * end * W \in Nat
    BY <1>1 DEF Interval
  <2>2. (6 * end * W) + 1 <= Full
    BY <1>1, <2>1, JobNumbers
  <2>3. One * ((6 * end * W) + 1) <= One * Full
    BY <1>1, <2>1, <2>2, Grows
  <2>4. One * ((6 * end * W) + 1) = One * (6 * end * W) + One /\ One * Full = Full * One
    BY <1>1, <2>1
  <2>5. One * (6 * end * W) \in Nat /\ One * Full \in Nat
    BY <1>1, <2>1
  <2>. QED BY <1>1, <2>1, <2>3, <2>4, <2>5
<1>. HIDE DEF I, W
<1>3. /\ fx \in Nat /\ fy \in Nat /\ wi \in Nat /\ wx \in Nat /\ wy \in Nat
      /\ Full * wx = W * fx /\ Full * wy = W * fy
  BY <1>1
<1>4. fx <= fy + 5 * I /\ fy <= fx + 5 * I
  BY DEF I
<1>5. Full * wy <= Full * e + wi /\ Full * e <= Full * wy + wi
  BY DEF I, W
<1>. HIDE DEF fx, fy
<1>6. W * fx <= W * (fy + 5 * I) /\ W * fy <= W * (fx + 5 * I)
  <2>1. fy + 5 * I \in Nat /\ fx + 5 * I \in Nat
    BY <1>1, <1>3
  <2>. QED BY <1>1, <1>3, <1>4, <2>1, Grows
<1>7. W * (fy + 5 * I) = W * fy + 5 * wi /\ W * (fx + 5 * I) = W * fx + 5 * wi
      /\ W * fx \in Nat /\ W * fy \in Nat
  BY <1>1, <1>3
<1>. HIDE DEF wi, wx, wy
<1>8. /\ Full * (e + One) = Full * e + Full * One /\ Full * (wx + One) = Full * wx + Full * One
      /\ Full * e \in Nat /\ Full * One \in Nat /\ Full * wx \in Nat
      /\ e + One \in Nat /\ wx + One \in Nat
  BY <1>1, <1>3
<1>9. Full * wx < Full * (e + One) /\ Full * e < Full * (wx + One)
  BY <1>2, <1>3, <1>5, <1>6, <1>7, <1>8
<1>10. wx < e + One /\ e < wx + One
  BY <1>1, <1>3, <1>8, <1>9, Shrinks
<1>. QED BY <1>10 DEF wx, W

(* Two numbers that are close to the same exact bound have the same whole  *)
(* part, and if that bound is a whole number, if they are not below it.    *)
LEMMA SameWhole ==
    ASSUME JobIsSet, NEW k \in Nat, NEW x \in Nat,
           Workers * x < Interval * k + One, Interval * k < Workers * x + One,
           (end * k) % Workers = 0 => One * ((end * k) \div Workers) <= x
    PROVE  Whole(x) = (end * k) \div Workers
<1>. DEFINE W == Workers
            m == (end * k) \div W
            r == (end * k) % W
<1>1. W \in Nat \ {0} /\ One \in Nat \ {0} /\ end \in Nat \ {0} /\ end * k \in Nat
  BY JobNumbers
<1>2. m \in Nat /\ r \in Nat /\ r < W /\ end * k = W * m + r
  <2>1. m \in Nat /\ r \in 0 .. W - 1 /\ end * k = W * m + r
    BY <1>1, QuotientIsFloor
  <2>. HIDE DEF m, r
  <2>. QED BY <1>1, <2>1
<1>3. Interval * k = One * (end * k)
  BY <1>1 DEF Interval
<1>4. r = 0 => One * m <= x
  OBVIOUS
<1>5. W * x < One * (end * k) + One /\ One * (end * k) < W * x + One
  BY <1>3
<1>. HIDE DEF W, m, r
<1>. DEFINE om == One * m
<1>6. /\ om \in Nat /\ One * r \in Nat /\ W * om \in Nat /\ W * x \in Nat
      /\ One * (end * k) = W * om + One * r /\ One * (m + 1) = om + One
      /\ W * (om + One) = W * om + One * W /\ One * W \in Nat
  <2>1. om \in Nat /\ One * r \in Nat
    BY <1>1, <1>2
  <2>2. One * (W * m + r) = One * (W * m) + One * r /\ One * (W * m) = W * om
    BY <1>1, <1>2
  <2>3. One * (m + 1) = om + One
    BY <1>1, <1>2
  <2>. HIDE DEF om
  <2>4. W * om \in Nat /\ W * x \in Nat /\ W * (om + One) = W * om + One * W /\ One * W \in Nat
    BY <1>1, <2>1
  <2>. QED BY <1>2, <2>1, <2>2, <2>3, <2>4
<1>7. x < One * (m + 1)
  <2>1. One * (r + 1) <= One * W /\ One * (r + 1) = One * r + One
    BY <1>1, <1>2, Grows
  <2>2. W * x < W * (om + One)
    <3>. HIDE DEF om
    <3>. QED BY <1>1, <1>5, <1>6, <2>1
  <2>3. om + One \in Nat
    BY <1>1, <1>6
  <2>4. x < om + One
    <3>. HIDE DEF om
    <3>. QED BY <1>1, <2>2, <2>3, Shrinks
  <2>. QED BY <1>6, <2>4
<1>8. One * m <= x
  <2>1. CASE r = 0
    BY <1>4, <2>1
  <2>2. CASE r # 0
    <3>1. One * 1 <= One * r
      BY <1>1, <1>2, <2>2, Grows
    <3>2. W * om <= W * x
      <4>. HIDE DEF om
      <4>. QED BY <1>1, <1>5, <1>6, <3>1
    <3>3. om <= x
      <4>. HIDE DEF om
      <4>. QED BY <1>1, <1>6, <3>2, Shrinks
    <3>. QED BY <3>3
  <2>. QED BY <2>1, <2>2
<1>9. x \div One = m
  BY <1>1, <1>2, <1>7, <1>8, QuotientIs
<1>. QED BY <1>9 DEF Whole, m, W

(* The slice of a worker, and how its length is rounded.                   *)
LEMMA TaskIs ==
    ASSUME JobIsSet, NEW w \in WorkerIds
    PROVE  /\ tasks[w].begin = Bound(w) /\ tasks[w].end = Bound(w + 1)
           /\ w \in 0 .. Workers /\ w + 1 \in 0 .. Workers
           /\ Bound(w) <= Bound(w + 1) /\ Bound(w + 1) - Bound(w) \in Nat
           /\ Fits(Bound(w + 1) - Bound(w), 1)
           /\ LengthOf(tasks[w]) = Rounded(Bound(w + 1) - Bound(w), 1)
           /\ LengthOf(tasks[w]) \in Nat /\ LengthOf(tasks[w]) <= Interval
<1>1. w \in 0 .. Workers /\ w + 1 \in 0 .. Workers /\ w \in 0 .. w + 1
  BY JobNumbers DEF WorkerIds
<1>2. tasks[w] = TaskOf(w)
  BY DEF JobIsSet
<1>3. tasks[w].begin = Bound(w) /\ tasks[w].end = Bound(w + 1)
  BY <1>1, <1>2, BoundIs DEF TaskOf
<1>4. /\ Bound(w) \in Nat /\ Bound(w + 1) \in Nat /\ Bound(w) <= Bound(w + 1)
      /\ Bound(w + 1) <= Interval
  BY <1>1, BoundIs
<1>5. Interval \in Nat /\ IsDouble(Interval) /\ 2 * Interval <= One * Full /\ One * Full \in Nat
  BY IntervalIs
<1>. DEFINE g == Bound(w + 1) - Bound(w)
            l == LengthOf(tasks[w])
<1>6. g \in Nat /\ g <= 1 * Interval
  BY <1>4, <1>5
<1>7. l = Rounded(g, 1)
  BY <1>3 DEF LengthOf
<1>. HIDE DEF g, l
<1>8. Fits(g, 1)
  <2>1. g <= 1 * (One * Full)
    BY <1>5, <1>6
  <2>. QED BY <2>1 DEF Fits
<1>9. l \in Nat /\ l <= Interval
  BY <1>5, <1>6, <1>7, <1>8, Nearest
<1>. QED BY <1>1, <1>3, <1>4, <1>6, <1>7, <1>8, <1>9 DEF g, l

(* What the cuts of a worker's slice need.                                 *)
LEMMA ThreadsFit ==
    ASSUME JobIsSet, NEW w \in WorkerIds
    PROVE  /\ threads[w] \in Nat \ {0} /\ Interval \in Nat
           /\ IsDouble(Interval) /\ IsDouble(Interval * threads[w])
           /\ 2 * Interval <= One * Full /\ Interval * threads[w] <= One * Full
           /\ Interval * threads[w] \in Nat
           /\ Bound(w) \in Nat /\ Bound(w) <= Interval
<1>1. threads[w] \in Nat \ {0} /\ end * threads[w] <= Full
  BY JobNumbers
<1>2. /\ Interval \in Nat /\ IsDouble(Interval) /\ 2 * Interval <= One * Full
      /\ IsDouble(Interval * threads[w]) /\ Interval * threads[w] <= One * Full
      /\ Interval * threads[w] \in Nat
  BY <1>1, IntervalIs
<1>3. Bound(w) \in Nat /\ Bound(w) <= Interval
  BY TaskIs, BoundIs
<1>. QED BY <1>1, <1>2, <1>3

(* The bound between two workers, rounded once, is close to the exact one. *)
LEMMA BoundIsClose ==
    ASSUME JobIsSet, NEW k \in 0 .. Workers
    PROVE  /\ Full * (Workers * Bound(k)) <= Full * (Interval * k) + Workers * Interval
           /\ Full * (Interval * k) <= Full * (Workers * Bound(k)) + Workers * Interval
<1>1. /\ Interval * k \in Nat /\ Interval * k <= Workers * Interval
      /\ Fits(Interval * k, Workers)
  BY BoundIs
<1>2. Workers \in Nat \ {0} /\ Interval \in Nat /\ Full <= Interval
  BY JobNumbers, IntervalIs
<1>. QED BY <1>1, <1>2, ErrorIsSmall DEF Bound

(* ... and so is the last bound of the worker before, rounded four times   *)
(* more.                                                                   *)
LEMMA LastIsClose ==
    ASSUME JobIsSet, NEW w \in WorkerIds, NEW last,
           last = Cut(Bound(w), LengthOf(tasks[w]), threads[w], threads[w])
    PROVE  /\ last \in Nat
           /\ Full * last <= Full * Bound(w + 1) + 5 * Interval
           /\ Full * Bound(w + 1) <= Full * last + 5 * Interval
<1>. DEFINE n == threads[w]
            b == Interval
            wb == Bound(w)
            we == Bound(w + 1)
            g == we - wb
            l == LengthOf(tasks[w])
            p == Rounded(l * n, 1)
            q == Rounded(p, n)
<1>1. /\ n \in Nat \ {0} /\ b \in Nat /\ IsDouble(b) /\ IsDouble(b * n)
      /\ 2 * b <= One * Full /\ b * n <= One * Full /\ b * n \in Nat
      /\ wb \in Nat /\ wb <= b
  BY ThreadsFit
<1>2. Full \in Nat \ {0} /\ Full <= b
  BY JobNumbers, IntervalIs
<1>3. /\ g \in Nat /\ Fits(g, 1) /\ l = Rounded(g, 1) /\ l \in Nat /\ l <= b
  BY TaskIs
<1>4. we \in Nat /\ we <= b /\ we = wb + g
  <2>1. we \in Nat /\ we <= b
    BY TaskIs, BoundIs
  <2>. QED BY <1>1, <2>1
<1>5. g <= 1 * b
  BY <1>1, <1>3, <1>4
<1>. HIDE DEF n, b, wb, we, g, l
<1>6. n \in 0 .. n
  BY <1>1
<1>7. /\ Fits(l * n, 1) /\ l * n \in Nat /\ l * n <= b * n /\ p \in Nat /\ p <= b * n
      /\ Fits(p, n) /\ q \in Nat /\ q <= b /\ Fits(wb + q, 1) /\ Cut(wb, l, n, n) \in Nat
  BY <1>1, <1>3, <1>6, CutSteps
<1>8. last = Rounded(wb + q, 1) /\ last = Cut(wb, l, n, n)
  BY DEF Cut, n, wb, l
<1>9. /\ Full * (1 * l) <= Full * g + 1 * b /\ Full * g <= Full * (1 * l) + 1 * b
  BY <1>1, <1>2, <1>3, <1>5, ErrorIsSmall
<1>10. /\ Full * (1 * p) <= Full * (l * n) + 1 * (b * n)
       /\ Full * (l * n) <= Full * (1 * p) + 1 * (b * n)
  <2>1. l * n <= 1 * (b * n)
    BY <1>1, <1>7
  <2>2. Full <= b * n
    <3>1. b * 1 <= b * n
      BY <1>1, Grows
    <3>. QED BY <1>1, <1>2, <3>1
  <2>. QED BY <1>1, <1>7, <2>1, <2>2, ErrorIsSmall
<1>11. Full * (n * q) <= Full * p + n * b /\ Full * p <= Full * (n * q) + n * b
  <2>1. p <= n * b
    <3>1. n * b = b * n
      BY <1>1
    <3>. QED BY <1>7, <3>1
  <2>. HIDE DEF p
  <2>. QED BY <1>1, <1>2, <1>7, <2>1, ErrorIsSmall
<1>. HIDE DEF p, q
<1>12. Full * q <= Full * g + 3 * b /\ Full * g <= Full * q + 3 * b
  BY <1>1, <1>2, <1>3, <1>7, <1>9, <1>10, <1>11, ErrorsAddUp
<1>13. /\ Full * (1 * last) <= Full * (wb + q) + 1 * (2 * b)
       /\ Full * (wb + q) <= Full * (1 * last) + 1 * (2 * b)
  <2>1. wb + q \in Nat /\ wb + q <= 1 * (2 * b) /\ Full <= 2 * b /\ 2 * b \in Nat
    BY <1>1, <1>2, <1>7
  <2>. QED BY <1>7, <1>8, <2>1, ErrorIsSmall
<1>14. last \in Nat
  BY <1>7, <1>8
<1>15. /\ Full * (wb + q) = Full * wb + Full * q /\ Full * we = Full * wb + Full * g
       /\ Full * wb \in Nat /\ Full * q \in Nat /\ Full * g \in Nat /\ Full * last \in Nat
       /\ 1 * last = last
  BY <1>1, <1>2, <1>3, <1>4, <1>7, <1>14
<1>16. Full * last <= Full * we + 5 * b /\ Full * we <= Full * last + 5 * b
  BY <1>1, <1>12, <1>13, <1>15
<1>. QED BY <1>14, <1>16 DEF we, b

(* Where the exact bound between two workers is a whole number, neither    *)
(* the one's last bound nor the other's first is below it.                 *)
LEMMA WholeBoundIsReached ==
    ASSUME JobIsSet, NEW w \in WorkerIds, NEW m \in Nat, end * (w + 1) = Workers * m
    PROVE  /\ One * m <= Bound(w + 1)
           /\ One * m <= Cut(Bound(w), LengthOf(tasks[w]), threads[w], threads[w])
<1>. DEFINE n == threads[w]
            l == LengthOf(tasks[w])
            y == One * m
<1>1. /\ Workers \in Nat \ {0} /\ end \in Nat \ {0} /\ Full \in Nat \ {0} /\ One \in Nat \ {0}
      /\ One \in Spacings /\ 2 * Full <= One
      /\ n \in Nat \ {0} /\ end * n <= Full
  BY JobNumbers, DoublesAssumption
<1>2. w \in Nat /\ w + 1 <= Workers /\ w \in 0 .. Workers /\ w + 1 \in 0 .. Workers
  BY <1>1, TaskIs DEF WorkerIds
<1>3. m <= end
  <2>1. end * (w + 1) <= end * Workers
    BY <1>1, <1>2, Grows
  <2>2. end * Workers = Workers * end
    BY <1>1
  <2>. QED BY <1>1, <2>1, <2>2, Shrinks
<1>4. 2 * end <= Full
  <2>1. 6 * end * Workers < Full /\ 6 * end * Workers = 6 * (end * Workers)
    BY <1>1, JobNumbers
  <2>2. end * 1 <= end * Workers /\ end * Workers \in Nat
    BY <1>1, Grows
  <2>. QED BY <1>1, <2>1, <2>2
<1>. HIDE DEF n
<1>5. 2 * m <= Full /\ m <= Full
  BY <1>1, <1>3, <1>4
<1>6. m * n <= Full /\ m * n \in Nat
  <2>1. n * m <= n * end
    BY <1>1, <1>3, Grows
  <2>2. n * m = m * n /\ n * end = end * n /\ m * n \in Nat /\ end * n \in Nat
    BY <1>1
  <2>. QED BY <1>1, <2>1, <2>2
<1>7. IsDouble(y) /\ y \in Nat /\ y <= One * Full /\ One * Full \in Nat
  <2>1. IsDouble(y) /\ y \in Nat /\ y <= One * Full
    BY <1>5, WholeIsDouble
  <2>2. One * Full \in Nat
    BY <1>1
  <2>. QED BY <2>1, <2>2
<1>8. Interval * (w + 1) = Workers * y
  <2>1. Interval * (w + 1) = One * (end * (w + 1))
    BY <1>1, <1>2 DEF Interval
  <2>2. One * (Workers * m) = Workers * (One * m)
    BY <1>1
  <2>. QED BY <2>1, <2>2
<1>. HIDE DEF y
<1>9. Bound(w + 1) = y
  <2>1. Fits(Workers * y, Workers)
    BY <1>2, <1>8, BoundIs
  <2>. QED BY <1>1, <1>7, <1>8, <2>1, Exact DEF Bound
<1>10. /\ Bound(w) \in Nat /\ IsDouble(Bound(w)) /\ Bound(w) <= y
       /\ l = Rounded(y - Bound(w), 1)
  BY <1>2, <1>9, TaskIs, BoundIs
<1>11. CASE w = 0
  <2>1. Bound(w) = 0
    <3>1. Interval * 0 = 0 /\ Workers * 0 = 0
      BY <1>1, IntervalIs
    <3>2. IsDouble(0)
      BY DoublesAssumption, 1 * 0 = 0 DEF IsDouble
    <3>3. Fits(Workers * 0, Workers)
      <4>1. Workers * (One * Full) \in Nat
        BY <1>1, <1>7
      <4>. QED BY <3>1, <4>1 DEF Fits
    <3>4. Rounded(Workers * 0, Workers) = 0
      BY <1>1, <3>2, <3>3, Exact
    <3>. QED BY <1>11, <3>1, <3>4 DEF Bound
  <2>2. l = y
    <3>1. y - 0 = y
      BY <1>7
    <3>. QED BY <1>7, <1>10, <2>1, <3>1, DoubleStays
  <2>3. Rounded(l * n, 1) = n * y
    <3>1. One * (m * n) = y * n /\ y * n = n * y
      BY <1>1, <1>7 DEF y
    <3>2. IsDouble(n * y) /\ n * y \in Nat /\ n * y <= One * Full
      BY <1>1, <1>6, <3>1, WholeIsDouble
    <3>. QED BY <2>2, <3>1, <3>2, DoubleStays
  <2>4. Rounded(n * y, n) = y
    <3>1. n * y <= n * (One * Full)
      BY <1>1, <1>7, Grows
    <3>2. Fits(n * y, n)
      BY <3>1 DEF Fits
    <3>. QED BY <1>1, <1>7, <3>2, Exact
  <2>5. Rounded(0 + y, 1) = y
    <3>1. 0 + y = y
      BY <1>7
    <3>. QED BY <1>7, <3>1, DoubleStays
  <2>6. Cut(Bound(w), l, n, n) = y
    BY <2>1, <2>3, <2>4, <2>5 DEF Cut
  <2>. QED BY <1>7, <1>9, <2>6 DEF y, n
<1>12. CASE w # 0
  <2>1. PICK h \in Spacings : One = 2 * h
    <3>1. One # 1
      BY <1>1
    <3>. QED BY <1>1, <3>1, DoublesAssumption
  <2>2. h \in Nat \ {0}
    BY DoublesAssumption
  <2>3. y = 2 * (h * m) /\ h * m \in Nat /\ IsDouble(h * m)
    <3>1. IsDouble(h * m)
      BY <1>5, Zenon DEF IsDouble
    <3>. QED BY <2>1, <2>2, <3>1 DEF y
  <2>4. Workers * (h * m) <= Interval * w
    <3>1. Interval * (w + 1) <= Interval * (2 * w)
      <4>1. w + 1 <= 2 * w /\ w + 1 \in Nat /\ 2 * w \in Nat
        BY <1>2, <1>12
      <4>. QED BY <4>1, IntervalIs, Grows
    <3>2. Interval * (2 * w) = 2 * (Interval * w) /\ Interval * w \in Nat
      BY <1>2, IntervalIs
    <3>3. Workers * y = 2 * (Workers * (h * m)) /\ Workers * (h * m) \in Nat
      BY <1>1, <2>3
    <3>. QED BY <1>8, <3>1, <3>2, <3>3
  <2>5. h * m <= Bound(w)
    <3>1. Interval * w \in Nat /\ Fits(Interval * w, Workers)
      BY <1>2, BoundIs
    <3>. QED BY <1>1, <2>3, <2>4, <3>1, Nearest DEF Bound
  <2>6. y <= 2 * Bound(w)
    BY <1>10, <2>3, <2>5
  <2>7. One * m <= Cut(Bound(w), l, n, n)
    <3>1. CASE m = 0
      <4>1. Cut(Bound(w), l, n, n) \in Nat
        BY LastIsClose DEF l, n
      <4>. QED BY <1>1, <3>1, <4>1
    <3>2. CASE m # 0
      BY <1>1, <1>5, <1>6, <1>10, <2>6, <3>2, LastIsReached DEF y
    <3>. QED BY <3>1, <3>2
  <2>. QED BY <1>7, <1>9, <2>7 DEF y, n
<1>. QED BY <1>11, <1>12

(* On no side of a whole number do the two bounds differ.                  *)
LEMMA LastMeetsFirst ==
    ASSUME JobIsSet, NEW w \in WorkerIds
    PROVE  Whole(Cut(Bound(w), LengthOf(tasks[w]), threads[w], threads[w]))
              = Whole(Bound(w + 1))
<1>. DEFINE last == Cut(Bound(w), LengthOf(tasks[w]), threads[w], threads[w])
            e == Interval * (w + 1)
            m == (end * (w + 1)) \div Workers
<1>1. w + 1 \in 0 .. Workers /\ w + 1 \in Nat /\ Workers \in Nat \ {0} /\ end \in Nat
  BY TaskIs, JobNumbers
<1>2. /\ Bound(w + 1) \in Nat /\ e \in Nat /\ Interval \in Nat /\ Full \in Nat
  BY <1>1, BoundIs, JobNumbers, IntervalIs
<1>3. /\ last \in Nat
      /\ Full * last <= Full * Bound(w + 1) + 5 * Interval
      /\ Full * Bound(w + 1) <= Full * last + 5 * Interval
  BY LastIsClose
<1>4. /\ Full * (Workers * Bound(w + 1)) <= Full * e + Workers * Interval
      /\ Full * e <= Full * (Workers * Bound(w + 1)) + Workers * Interval
  BY <1>1, BoundIsClose
<1>5. (end * (w + 1)) % Workers = 0 => One * m <= Bound(w + 1) /\ One * m <= last
  <2>. SUFFICES ASSUME (end * (w + 1)) % Workers = 0
                PROVE  One * m <= Bound(w + 1) /\ One * m <= last
    OBVIOUS
  <2>. DEFINE a == end * (w + 1)
  <2>1. a \in Nat /\ a % Workers = 0
    BY <1>1
  <2>. HIDE DEF a
  <2>2. a \div Workers \in Nat /\ a = Workers * (a \div Workers) + (a % Workers)
    BY <1>1, <2>1, QuotientIsFloor
  <2>3. a = Workers * (a \div Workers)
    <3>. DEFINE x == a \div Workers
    <3>1. x \in Nat /\ a = Workers * x + 0
      BY <2>1, <2>2
    <3>. HIDE DEF x
    <3>2. a = Workers * x
      BY <1>1, <3>1
    <3>. QED BY <3>2 DEF x
  <2>. QED BY <2>2, <2>3, WholeBoundIsReached DEF a
<1>. HIDE DEF last, e
<1>6. Workers * last < e + One /\ e < Workers * last + One
  BY <1>2, <1>3, <1>4, CloseToExact
<1>7. Workers * Bound(w + 1) < e + One /\ e < Workers * Bound(w + 1) + One
  <2>1. Full * Bound(w + 1) <= Full * Bound(w + 1) + 5 * Interval
    BY <1>2
  <2>. QED BY <1>2, <1>4, <2>1, CloseToExact
<1>8. Whole(last) = m
  BY <1>1, <1>3, <1>5, <1>6, SameWhole DEF e
<1>9. Whole(Bound(w + 1)) = m
  BY <1>1, <1>2, <1>5, <1>7, SameWhole DEF e
<1>. QED BY <1>8, <1>9 DEF last
-----------------------------------------------------------------------------
(***************************************************************************)
(* Stairs: bounds that never go down.                                      *)
(***************************************************************************)
(* A later bound is no lower than an earlier one.                          *)
LEMMA StairsRise ==
    ASSUME NEW n \in Nat, NEW p \in [0 .. n -> Nat],
           \A j \in 0 .. n - 1 : p[j] <= p[j + 1],
           NEW m \in 0 .. n, NEW k \in 0 .. m
    PROVE  p[k] <= p[m]
<1>. DEFINE T == {j \in Nat : j <= n => \A l \in 0 .. j : p[l] <= p[j]}
<1>1. 0 \in T
  OBVIOUS
<1>2. ASSUME NEW j \in Nat, j \in T PROVE j + 1 \in T
  <2>. SUFFICES ASSUME j + 1 <= n, NEW l \in 0 .. (j + 1) PROVE p[l] <= p[j + 1]
    OBVIOUS
  <2>1. /\ j \in 0 .. n - 1 /\ j \in 0 .. n /\ j + 1 \in 0 .. n /\ l \in 0 .. n
        /\ p[j] \in Nat /\ p[j + 1] \in Nat /\ p[l] \in Nat /\ p[j] <= p[j + 1]
    OBVIOUS
  <2>2. CASE l = j + 1
    BY <2>1, <2>2
  <2>3. CASE l # j + 1
    <3>1. l \in 0 .. j /\ j <= n
      BY <2>1, <2>3
    <3>2. p[l] <= p[j]
      BY <1>2, <3>1
    <3>. QED BY <2>1, <3>2
  <2>. QED BY <2>2, <2>3
<1>. HIDE DEF T
<1>3. \A j \in Nat : j \in T
  BY <1>1, <1>2, InductionOverNat
<1>. QED BY <1>3 DEF T

(* What lies between the first bound and the last is on one of the steps.  *)
LEMMA StairsCover ==
    ASSUME NEW n \in Nat, NEW p \in [0 .. n -> Nat], NEW x \in Nat, p[0] <= x, x < p[n]
    PROVE  \E j \in 0 .. n - 1 : p[j] <= x /\ x < p[j + 1]
<1>. SUFFICES ASSUME \A j \in 0 .. n - 1 : p[j] <= x => p[j + 1] <= x PROVE FALSE
  <2>1. \A j \in 0 .. n - 1 : p[j + 1] \in Nat
    OBVIOUS
  <2>. QED BY <2>1
<1>. DEFINE T == {j \in Nat : j <= n => p[j] <= x}
<1>1. 0 \in T
  OBVIOUS
<1>2. ASSUME NEW j \in Nat, j \in T PROVE j + 1 \in T
  BY <1>2
<1>. HIDE DEF T
<1>3. \A j \in Nat : j \in T
  BY <1>1, <1>2, InductionOverNat
<1>4. p[n] <= x /\ p[n] \in Nat
  BY <1>3 DEF T
<1>. QED BY <1>4

(* Nothing is on two steps.                                                *)
LEMMA StepsAreApart ==
    ASSUME NEW n \in Nat, NEW p \in [0 .. n -> Nat],
           \A j \in 0 .. n - 1 : p[j] <= p[j + 1],
           NEW j \in 0 .. n - 1, NEW k \in 0 .. n - 1, NEW x \in Int,
           p[j] <= x, x < p[j + 1], p[k] <= x, x < p[k + 1]
    PROVE  j = k
<1>1. ASSUME NEW l \in 0 .. n - 1, NEW m \in 0 .. n - 1, l < m, x < p[l + 1], p[m] <= x
      PROVE  FALSE
  <2>1. m \in 0 .. n /\ l + 1 \in 0 .. m /\ l + 1 \in 0 .. n
    BY <1>1
  <2>2. p[l + 1] <= p[m]
    BY <2>1, StairsRise
  <2>3. p[l + 1] \in Nat /\ p[m] \in Nat
    BY <2>1
  <2>. QED BY <1>1, <2>2, <2>3
<1>. QED BY <1>1
-----------------------------------------------------------------------------
(***************************************************************************)
(* The bounds of the slices are stairs within stairs.                      *)
(***************************************************************************)
WorkerStairs    == [w \in 0 .. Workers |-> Whole(Bound(w))]
ThreadCut(w, t) == Cut(Bound(w), LengthOf(tasks[w]), t, threads[w])
ThreadStairs(w) == [t \in 0 .. threads[w] |-> Whole(ThreadCut(w, t))]

(* Rounding down keeps the order.                                          *)
LEMMA WholeRises ==
    ASSUME NEW x \in Nat, NEW y \in Nat, x <= y
    PROVE  Whole(x) \in Nat /\ Whole(x) <= Whole(y)
<1>1. One \in Nat \ {0}
  BY DoublesAssumption
<1>2. x \div One \in Nat /\ x \div One <= y \div One
  BY <1>1, QuotientIsFloor, QuotientMonotone
<1>. QED BY <1>2 DEF Whole

(* The slices of the workers join, from one end of the interval to the     *)
(* other.                                                                  *)
LEMMA WorkersJoin ==
    ASSUME JobIsSet
    PROVE  /\ WorkerStairs \in [0 .. Workers -> Nat]
           /\ \A w \in 0 .. Workers - 1 : WorkerStairs[w] <= WorkerStairs[w + 1]
           /\ WorkerStairs[0] = 0 /\ WorkerStairs[Workers] = end
<1>1. /\ Workers \in Nat \ {0} /\ end \in Nat \ {0} /\ One \in Nat \ {0}
      /\ Interval \in Nat /\ IsDouble(Interval)
  BY JobNumbers, IntervalIs
<1>2. ASSUME NEW w \in 0 .. Workers PROVE WorkerStairs[w] \in Nat
  <2>1. Bound(w) \in Nat
    BY BoundIs
  <2>. QED BY <2>1, WholeRises DEF WorkerStairs
<1>3. ASSUME NEW w \in 0 .. Workers - 1 PROVE WorkerStairs[w] <= WorkerStairs[w + 1]
  <2>1. w \in 0 .. Workers /\ w + 1 \in 0 .. Workers /\ w \in 0 .. w + 1
    BY <1>1
  <2>2. Bound(w) \in Nat /\ Bound(w + 1) \in Nat /\ Bound(w) <= Bound(w + 1)
    BY <2>1, BoundIs
  <2>. QED BY <2>1, <2>2, WholeRises DEF WorkerStairs
<1>4. ASSUME NEW k \in {0, Workers}, NEW m \in Nat, Interval * k = Workers * (One * m),
             IsDouble(One * m)
      PROVE  WorkerStairs[k] = m
  <2>1. k \in 0 .. Workers
    BY <1>1
  <2>2. Fits(Interval * k, Workers)
    BY <2>1, BoundIs
  <2>3. Bound(k) = One * m
    BY <1>1, <1>4, <2>2, Exact DEF Bound
  <2>4. One * m \in Nat /\ One * m < One * (m + 1)
    <3>1. One * (m + 1) = One * m + One /\ One * m \in Nat
      BY <1>1
    <3>. QED BY <1>1, <3>1
  <2>5. (One * m) \div One = m
    BY <1>1, <2>4, QuotientIs
  <2>. QED BY <2>1, <2>3, <2>5 DEF WorkerStairs, Whole
<1>5. WorkerStairs[0] = 0
  <2>1. IsDouble(One * 0)
    BY WholeIsDouble, JobNumbers
  <2>2. Interval * 0 = Workers * (One * 0)
    BY <1>1
  <2>. QED BY <1>4, <2>1, <2>2
<1>6. WorkerStairs[Workers] = end
  <2>1. IsDouble(One * end)
    BY <1>1 DEF Interval
  <2>2. Interval * Workers = Workers * (One * end)
    BY <1>1 DEF Interval
  <2>. QED BY <1>1, <1>4, <2>1, <2>2
<1>. QED BY <1>2, <1>3, <1>5, <1>6 DEF WorkerStairs

(* The slices of a worker's threads join, from one end of the worker's     *)
(* slice to the other, also where its neighbours have other numbers of     *)
(* threads.                                                                *)
LEMMA ThreadsJoin ==
    ASSUME JobIsSet, NEW w \in WorkerIds
    PROVE  /\ ThreadStairs(w) \in [0 .. threads[w] -> Nat]
           /\ \A t \in 0 .. threads[w] - 1 : ThreadStairs(w)[t] <= ThreadStairs(w)[t + 1]
           /\ ThreadStairs(w)[0] = WorkerStairs[w]
           /\ ThreadStairs(w)[threads[w]] = WorkerStairs[w + 1]
           /\ \A t \in 0 .. threads[w] - 1 :
                 LongMethod(w, t) = ThreadStairs(w)[t] .. ThreadStairs(w)[t + 1] - 1
<1>. DEFINE n == threads[w]
            wb == Bound(w)
            l == LengthOf(tasks[w])
<1>1. /\ n \in Nat \ {0} /\ Interval \in Nat /\ IsDouble(Interval) /\ IsDouble(Interval * n)
      /\ 2 * Interval <= One * Full /\ Interval * n <= One * Full
      /\ wb \in Nat /\ wb <= Interval
  BY ThreadsFit
<1>2. /\ l \in Nat /\ l <= Interval /\ tasks[w].begin = wb
      /\ w \in 0 .. Workers /\ w + 1 \in 0 .. Workers
  BY TaskIs
<1>3. IsDouble(wb) /\ wb <= One * Full
  <2>1. IsDouble(wb)
    BY <1>2, BoundIs
  <2>2. One * Full \in Nat
    BY DoublesAssumption
  <2>. QED BY <1>1, <2>1, <2>2
<1>4. /\ ThreadStairs(w) = [t \in 0 .. n |-> Whole(Cut(wb, l, t, n))]
      /\ \A t : LongMethod(w, t) = Whole(Cut(wb, l, t, n)) .. Whole(Cut(wb, l, t + 1, n)) - 1
  BY <1>2 DEF ThreadStairs, ThreadCut, LongMethod, ThreadBegin, ThreadEnd
<1>5. Whole(Cut(wb, l, n, n)) = WorkerStairs[w + 1] /\ Whole(wb) = WorkerStairs[w]
  BY <1>2, LastMeetsFirst DEF WorkerStairs
<1>. HIDE DEF n, wb, l
<1>6. \A t \in 0 .. n : Cut(wb, l, t, n) \in Nat
  BY <1>1, <1>2, CutSteps
<1>7. ThreadStairs(w) \in [0 .. n -> Nat]
  BY <1>4, <1>6, WholeRises
<1>8. ASSUME NEW t \in 0 .. n - 1
      PROVE  /\ ThreadStairs(w)[t] <= ThreadStairs(w)[t + 1]
             /\ LongMethod(w, t) = ThreadStairs(w)[t] .. ThreadStairs(w)[t + 1] - 1
  <2>1. t \in 0 .. n /\ t + 1 \in 0 .. n /\ t <= t + 1
    BY <1>1
  <2>2. Cut(wb, l, t, n) <= Cut(wb, l, t + 1, n)
    BY <1>1, <1>2, <2>1, CutRises
  <2>3. Whole(Cut(wb, l, t, n)) <= Whole(Cut(wb, l, t + 1, n))
    BY <1>6, <2>1, <2>2, WholeRises
  <2>. QED BY <1>4, <2>1, <2>3
<1>9. ThreadStairs(w)[0] = WorkerStairs[w]
  <2>1. Cut(wb, l, 0, n) = wb /\ 0 \in 0 .. n
    BY <1>1, <1>2, <1>3, CutBegins
  <2>. QED BY <1>4, <1>5, <2>1
<1>10. ThreadStairs(w)[n] = WorkerStairs[w + 1]
  BY <1>1, <1>4, <1>5
<1>. QED BY <1>7, <1>8, <1>9, <1>10 DEF n
-----------------------------------------------------------------------------
(***************************************************************************)
(* The slices and the numbers.                                             *)
(***************************************************************************)
(* A thread's numbers lie in the slice of its worker.                      *)
LEMMA ThreadInWorker ==
    ASSUME JobIsSet, NEW w \in WorkerIds, NEW t \in 0 .. threads[w] - 1, NEW x \in LongMethod(w, t)
    PROVE  /\ x \in Int /\ w \in 0 .. Workers - 1
           /\ ThreadStairs(w)[t] <= x /\ x < ThreadStairs(w)[t + 1]
           /\ WorkerStairs[w] <= x /\ x < WorkerStairs[w + 1]
<1>. DEFINE n == threads[w]
            p == ThreadStairs(w)
<1>1. n \in Nat \ {0} /\ w \in 0 .. Workers - 1
  BY JobNumbers DEF WorkerIds
<1>2. /\ p \in [0 .. n -> Nat] /\ \A j \in 0 .. n - 1 : p[j] <= p[j + 1]
      /\ p[0] = WorkerStairs[w] /\ p[n] = WorkerStairs[w + 1]
      /\ LongMethod(w, t) = p[t] .. p[t + 1] - 1
  BY ThreadsJoin
<1>3. t \in 0 .. n - 1
  OBVIOUS
<1>. HIDE DEF n, p
<1>4. /\ 0 \in 0 .. t /\ t \in 0 .. n /\ t + 1 \in 0 .. n /\ n \in 0 .. n /\ t + 1 \in 0 .. n
      /\ 0 \in 0 .. n
  BY <1>1, <1>3
<1>5. p[0] <= p[t] /\ p[t + 1] <= p[n]
  BY <1>1, <1>2, <1>4, StairsRise
<1>6. p[0] \in Nat /\ p[t] \in Nat /\ p[t + 1] \in Nat /\ p[n] \in Nat
  BY <1>2, <1>4
<1>7. x \in Int /\ p[t] <= x /\ x < p[t + 1]
  BY <1>2, <1>6
<1>8. p[0] <= x /\ x < p[n]
  BY <1>5, <1>6, <1>7
<1>. QED BY <1>1, <1>2, <1>7, <1>8 DEF p

(* No number is summed by two threads.                                     *)
LEMMA SlicesAreApart ==
    ASSUME JobIsSet, NEW w \in WorkerIds, NEW t \in 0 .. threads[w] - 1,
           NEW v \in WorkerIds, NEW u \in 0 .. threads[v] - 1,
           NEW x, x \in LongMethod(w, t), x \in LongMethod(v, u)
    PROVE  w = v /\ t = u
<1>1. /\ x \in Int /\ w \in 0 .. Workers - 1 /\ v \in 0 .. Workers - 1
      /\ WorkerStairs[w] <= x /\ x < WorkerStairs[w + 1]
      /\ WorkerStairs[v] <= x /\ x < WorkerStairs[v + 1]
  BY ThreadInWorker
<1>2. w = v
  BY <1>1, WorkersJoin, JobNumbers, StepsAreApart
<1>3. /\ u \in 0 .. threads[w] - 1
      /\ ThreadStairs(w)[t] <= x /\ x < ThreadStairs(w)[t + 1]
      /\ ThreadStairs(w)[u] <= x /\ x < ThreadStairs(w)[u + 1]
  BY <1>2, ThreadInWorker
<1>4. /\ ThreadStairs(w) \in [0 .. threads[w] -> Nat] /\ threads[w] \in Nat
      /\ \A j \in 0 .. threads[w] - 1 : ThreadStairs(w)[j] <= ThreadStairs(w)[j + 1]
  BY ThreadsJoin, JobNumbers
<1>5. t = u
  BY <1>1, <1>3, <1>4, StepsAreApart
<1>. QED BY <1>2, <1>5

(* A number that is summed is of the interval.                             *)
LEMMA SlicesAreInside ==
    ASSUME JobIsSet, NEW w \in WorkerIds, NEW t \in 0 .. threads[w] - 1
    PROVE  LongMethod(w, t) \subseteq Numbers
<1>. SUFFICES ASSUME NEW x \in LongMethod(w, t) PROVE x \in Numbers
  OBVIOUS
<1>1. x \in Int /\ w \in 0 .. Workers - 1 /\ WorkerStairs[w] <= x /\ x < WorkerStairs[w + 1]
  BY ThreadInWorker
<1>2. /\ WorkerStairs \in [0 .. Workers -> Nat] /\ Workers \in Nat
      /\ \A j \in 0 .. Workers - 1 : WorkerStairs[j] <= WorkerStairs[j + 1]
      /\ WorkerStairs[0] = 0 /\ WorkerStairs[Workers] = end
  BY WorkersJoin, JobNumbers
<1>3. /\ 0 \in 0 .. w /\ w \in 0 .. Workers /\ w + 1 \in 0 .. Workers
      /\ Workers \in 0 .. Workers /\ w + 1 \in 0 .. Workers /\ 0 \in 0 .. Workers
  BY <1>1, <1>2
<1>4. WorkerStairs[0] <= WorkerStairs[w] /\ WorkerStairs[w + 1] <= WorkerStairs[Workers]
  BY <1>2, <1>3, StairsRise
<1>5. /\ WorkerStairs[0] \in Nat /\ WorkerStairs[w] \in Nat /\ WorkerStairs[w + 1] \in Nat
      /\ WorkerStairs[Workers] \in Nat
  BY <1>2, <1>3
<1>6. 0 <= x /\ x <= end - 1 /\ end \in Nat
  BY <1>1, <1>2, <1>4, <1>5
<1>. QED BY <1>1, <1>6 DEF Numbers

(* Every number of the interval is summed by a thread.                     *)
LEMMA SlicesCover ==
    ASSUME JobIsSet, NEW x \in Numbers
    PROVE  \E w \in WorkerIds : \E t \in 0 .. threads[w] - 1 : x \in LongMethod(w, t)
<1>1. x \in Nat /\ 0 <= x /\ x < end
  BY JobNumbers DEF Numbers
<1>2. PICK w \in 0 .. Workers - 1 : WorkerStairs[w] <= x /\ x < WorkerStairs[w + 1]
  BY <1>1, WorkersJoin, JobNumbers, StairsCover
<1>3. w \in WorkerIds
  BY DEF WorkerIds
<1>4. /\ ThreadStairs(w) \in [0 .. threads[w] -> Nat] /\ threads[w] \in Nat
      /\ ThreadStairs(w)[0] <= x /\ x < ThreadStairs(w)[threads[w]]
  BY <1>2, <1>3, ThreadsJoin, JobNumbers
<1>5. PICK t \in 0 .. threads[w] - 1 : ThreadStairs(w)[t] <= x /\ x < ThreadStairs(w)[t + 1]
  BY <1>1, <1>4, StairsCover
<1>6. t \in 0 .. threads[w] /\ t + 1 \in 0 .. threads[w]
  BY <1>4
<1>7. x \in ThreadStairs(w)[t] .. ThreadStairs(w)[t + 1] - 1
  BY <1>1, <1>4, <1>5, <1>6
<1>8. x \in LongMethod(w, t)
  BY <1>3, <1>7, ThreadsJoin
<1>. QED BY <1>3, <1>8
-----------------------------------------------------------------------------
(***************************************************************************)
(* The invariant.                                                          *)
(***************************************************************************)
Summed(x) ==
    \E w \in WorkerIds : \E t \in 0 .. threads[w] - 1 : Added(w, t) /\ x \in LongMethod(w, t)

(* No slice is done at first, and nothing is summed.                       *)
LEMMA InitSlicesInv == Init => SlicesInv
<1>. SUFFICES ASSUME Init PROVE SlicesInv
  OBVIOUS
<1>1. JobIsSet /\ worker = 0 /\ thread = 0 /\ strays = {} /\ summed = [x \in Numbers |-> 0]
  BY DEF Init, JobIsSet
<1>2. Workers \in Nat \ {0} /\ \A w \in WorkerIds : threads[w] \in Nat \ {0}
  BY <1>1, JobNumbers
<1>3. worker \in WorkerIds /\ worker \in 0 .. Workers /\ thread \in Nat /\ worker < Workers
  BY <1>1, <1>2 DEF WorkerIds
<1>4. thread < threads[worker]
  BY <1>1, <1>2, <1>3
<1>5. ASSUME NEW w \in WorkerIds, NEW t \in 0 .. threads[w] - 1 PROVE ~Added(w, t)
  <2>1. w \in Nat /\ t \in Nat
    BY <1>2 DEF WorkerIds
  <2>. QED BY <1>1, <2>1 DEF Added
<1>6. summed = [x \in Numbers |-> IF Summed(x) THEN 1 ELSE 0]
  BY <1>1, <1>5 DEF Summed
<1>. QED BY <1>1, <1>3, <1>4, <1>6 DEF SlicesInv, JobIsSet, Summed

(* The numbers of the slice that is next were not summed yet.              *)
LEMMA StepKeepsSlicesInv == SlicesInv /\ [Next]_vars => SlicesInv'
<1>. SUFFICES ASSUME SlicesInv, [Next]_vars PROVE SlicesInv'
  OBVIOUS
<1>. USE DEF Next
<1>1. CASE UNCHANGED vars
  BY <1>1 DEF SlicesInv, vars, Added, Numbers, WorkerIds, LongMethod, Whole, TaskOf, LengthOf,
              ThreadBegin, ThreadEnd, Length, Cut
<1>2. CASE AddPackedResults
  <2>. DEFINE w == worker
              t == thread
              found == LongMethod(w, t)
  <2>1. /\ JobIsSet /\ strays = {} /\ worker \in 0 .. Workers /\ thread \in Nat
        /\ summed = [x \in Numbers |-> IF Summed(x) THEN 1 ELSE 0]
    BY DEF SlicesInv, JobIsSet, Summed
  <2>2. /\ w < Workers /\ UNCHANGED <<end, tasks, threads>>
        /\ summed' = [x \in Numbers |-> summed[x] + IF x \in found THEN 1 ELSE 0]
        /\ strays' = strays \cup (found \ Numbers)
        /\ IF t + 1 < threads[w] THEN thread' = t + 1 /\ worker' = w
                                 ELSE thread' = 0 /\ worker' = w + 1
    BY <1>2 DEF AddPackedResults
  <2>3. /\ Workers \in Nat \ {0} /\ \A v \in WorkerIds : threads[v] \in Nat \ {0} /\ v \in Nat
        /\ WorkerIds = 0 .. Workers - 1
    BY <2>1, JobNumbers DEF WorkerIds
  <2>4. w \in WorkerIds /\ t \in 0 .. threads[w] - 1
    <3>1. w \in WorkerIds /\ w \in Nat
      BY <2>1, <2>2, <2>3
    <3>2. t < threads[w] /\ threads[w] \in Nat
      BY <2>2, <2>3, <3>1 DEF SlicesInv
    <3>. QED BY <2>1, <3>1, <3>2
  <2>5. /\ Numbers' = Numbers /\ WorkerIds' = WorkerIds
        /\ \A v, u : LongMethod(v, u)' = LongMethod(v, u)
        /\ \A v : TaskOf(v)' = TaskOf(v)
    BY <2>2 DEF Numbers, WorkerIds, LongMethod, Whole, TaskOf, LengthOf,
                ThreadBegin, ThreadEnd, Length, Cut
  <2>6. ASSUME NEW v \in WorkerIds, NEW u \in 0 .. threads[v] - 1
        PROVE  Added(v, u)' <=> Added(v, u) \/ (v = w /\ u = t)
    <3>. DEFINE n == threads[w]
    <3>1. /\ v \in Nat /\ u \in Nat /\ w \in Nat /\ t \in Nat /\ n \in Nat /\ t < n
          /\ (v = w => u < n)
      BY <2>3, <2>4
    <3>2. IF t + 1 < n THEN thread' = t + 1 /\ worker' = w ELSE thread' = 0 /\ worker' = w + 1
      BY <2>2
    <3>. HIDE DEF n
    <3>3. CASE t + 1 < n
      BY <3>1, <3>2, <3>3 DEF Added
    <3>4. CASE ~(t + 1 < n)
      BY <3>1, <3>2, <3>4 DEF Added
    <3>. QED BY <3>3, <3>4
  <2>7. ~Added(w, t)
    BY <2>1, <2>3, <2>4 DEF Added
  <2>8. ASSUME NEW x, x \in found PROVE ~Summed(x)
    <3>. SUFFICES ASSUME NEW v \in WorkerIds, NEW u \in 0 .. threads[v] - 1,
                         Added(v, u), x \in LongMethod(v, u)
                  PROVE  FALSE
      BY DEF Summed
    <3>1. w = v /\ t = u
      BY <2>1, <2>4, <2>8, SlicesAreApart
    <3>. QED BY <2>7, <3>1
  <2>. HIDE DEF found
  <2>9. ASSUME NEW x PROVE Summed(x)' <=> Summed(x) \/ x \in found
    <3>1. Summed(x)' <=> \E v \in WorkerIds : \E u \in 0 .. threads[v] - 1 :
                            Added(v, u)' /\ x \in LongMethod(v, u)
      BY <2>2, <2>5 DEF Summed
    <3>2. found = LongMethod(w, t)
      BY DEF found
    <3>. QED BY <2>4, <2>6, <3>1, <3>2, Zenon DEF Summed
  <2>10. summed' = [x \in Numbers' |-> IF Summed(x)' THEN 1 ELSE 0]
    <3>1. ASSUME NEW x \in Numbers
          PROVE  summed[x] + (IF x \in found THEN 1 ELSE 0) = IF Summed(x)' THEN 1 ELSE 0
      <4>1. summed[x] = IF Summed(x) THEN 1 ELSE 0
        BY <2>1
      <4>2. CASE x \in found
        <5>1. ~Summed(x) /\ Summed(x)'
          BY <2>8, <2>9, <4>2
        <5>. QED BY <4>1, <4>2, <5>1
      <4>3. CASE x \notin found
        <5>1. Summed(x)' <=> Summed(x)
          BY <2>9, <4>3
        <5>2. CASE Summed(x)
          BY <4>1, <4>3, <5>1, <5>2
        <5>3. CASE ~Summed(x)
          BY <4>1, <4>3, <5>1, <5>3
        <5>. QED BY <5>2, <5>3
      <4>. QED BY <4>2, <4>3
    <3>2. summed' = [x \in Numbers |-> IF Summed(x)' THEN 1 ELSE 0]
      <4>. DEFINE f(x) == summed[x] + (IF x \in found THEN 1 ELSE 0)
                  g(x) == IF Summed(x)' THEN 1 ELSE 0
      <4>1. summed' = [x \in Numbers |-> f(x)]
        BY <2>2
      <4>2. \A x \in Numbers : f(x) = g(x)
        BY <3>1
      <4>. HIDE DEF f, g
      <4>3. summed' = [x \in Numbers |-> g(x)]
        BY <4>1, <4>2
      <4>. QED BY <4>3 DEF g
    <3>. QED BY <2>5, <3>2
  <2>11. strays' = {}
    <3>1. found \subseteq Numbers
      BY <2>1, <2>4, SlicesAreInside DEF found
    <3>. QED BY <2>1, <2>2, <3>1
  <2>12. /\ worker' \in 0 .. Workers /\ thread' \in Nat
         /\ worker' < Workers => thread' < threads[worker']
         /\ worker' = Workers => thread' = 0
    <3>1. CASE t + 1 < threads[w]
      BY <2>1, <2>2, <2>3, <2>4, <3>1
    <3>2. CASE ~(t + 1 < threads[w])
      <4>1. thread' = 0 /\ worker' = w + 1 /\ w \in 0 .. Workers - 1
        BY <2>2, <2>3, <2>4, <3>2
      <4>2. worker' \in 0 .. Workers /\ (worker' < Workers => worker' \in WorkerIds)
        BY <2>3, <4>1
      <4>. QED BY <2>3, <4>1, <4>2
    <3>. QED BY <3>1, <3>2
  <2>13. /\ end' \in Ends /\ tasks' = [v \in WorkerIds' |-> TaskOf(v)']
         /\ threads' \in [WorkerIds' -> ThreadCounts]
    BY <2>1, <2>2, <2>5 DEF JobIsSet
  <2>14. summed' = [x \in Numbers' |->
                      IF \E v \in WorkerIds' : \E u \in 0 .. threads'[v] - 1 :
                            Added(v, u)' /\ x \in LongMethod(v, u)'
                      THEN 1 ELSE 0]
    BY <2>10 DEF Summed
  <2>15. worker' < Workers => thread' < threads'[worker']
    BY <2>2, <2>12
  <2>. QED BY <2>11, <2>12, <2>13, <2>14, <2>15 DEF SlicesInv
<1>. QED BY <1>1, <1>2

(* What has been summed is exactly the slices up to here.                  *)
LEMMA SlicesInvHolds == Spec => []SlicesInv
  BY InitSlicesInv, StepKeepsSlicesInv, PTL DEF Spec

(***************************************************************************)
(* Whatever numbers of threads the workers have, and though the bounds of  *)
(* their slices are rounded, every number of the interval goes into the    *)
(* sum once and no other does.                                             *)
(***************************************************************************)
THEOREM NumbersAreSummedOnce == Spec => []EachNumberOnce
<1>1. ASSUME SlicesInv PROVE EachNumberOnce
  <2>1. /\ JobIsSet /\ strays = {}
        /\ summed = [x \in Numbers |-> IF Summed(x) THEN 1 ELSE 0]
    BY <1>1 DEF SlicesInv, JobIsSet, Summed
  <2>2. \A x \in Numbers : summed[x] <= 1
    BY <2>1
  <2>3. ASSUME worker = Workers, NEW x \in Numbers PROVE summed[x] = 1
    <3>1. PICK w \in WorkerIds : \E t \in 0 .. threads[w] - 1 : x \in LongMethod(w, t)
      BY <2>1, SlicesCover
    <3>2. PICK t \in 0 .. threads[w] - 1 : x \in LongMethod(w, t)
      BY <3>1
    <3>3. Added(w, t)
      BY <2>1, <2>3, JobNumbers DEF Added, WorkerIds
    <3>4. Summed(x)
      BY <3>2, <3>3 DEF Summed
    <3>. QED BY <2>1, <3>4
  <2>. QED BY <2>1, <2>2, <2>3 DEF EachNumberOnce
<1>. QED BY <1>1, SlicesInvHolds, PTL
=============================================================================
