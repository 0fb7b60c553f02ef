---------------------------- MODULE SharingProofs ---------------------------
(***************************************************************************)
(* What the operators of SecretSharing compute, for any moduli with two    *)
(* bases of order PrimeQ, any number of servers and any polynomials: a     *)
(* share that is dealt matches its commitments, so does a sum of shares    *)
(* the product of their commitments, t+1 or more shares give their secret  *)
(* back, and t shares go with every secret.                                *)
(*                                                                         *)
(* Powers are recursive functions, and sums and products are folds over    *)
(* finite sets.  What they compute is proved with the least number, or a   *)
(* smallest set, for which it would be wrong (LeastNatural, MinimalSubset).*)
(*                                                                         *)
(* The bases have order PrimeQ by the way they are searched for, and so    *)
(* exponents may be taken modulo PrimeQ and the bases are invertible.      *)
(* That PrimeQ has no divisors is needed for what must differ (powers of a *)
(* base, and roots) and for the inverses in the weights of Lagrange, that  *)
(* PrimeP has none only for what t shares hide.                            *)
(***************************************************************************)
EXTENDS SecretSharing, FiniteSetTheorems, TLAPS

-----------------------------------------------------------------------------
(* Numbers.                                                                *)

LEMMA LeastNatural ==
  ASSUME NEW S \in SUBSET Nat, S # {}
  PROVE  \E n \in S : \A k \in S : n <= k
<1> DEFINE R == {ss \in Nat \X Nat : ss[1] < ss[2]}
<1>1. OpToRel(<, Nat) = R
  BY DEF OpToRel
<1>2. IsWellFoundedOn(R, Nat)
  BY <1>1, NatLessThanWellFounded
<1> HIDE DEF R
<1>3. PICK n \in S : \A k \in S : ~ (<<k, n>> \in R)
  BY <1>2, WFMin
<1>4. ASSUME NEW k \in S PROVE n <= k
  <2>1. n \in Nat /\ k \in Nat
    OBVIOUS
  <2>2. k < n => <<k, n>> \in R
    BY <2>1 DEF R
  <2> QED
    BY <1>3, <2>1, <2>2
<1> QED
  BY <1>4

LEMMA Remainder ==
  ASSUME NEW a \in Nat, NEW m \in Nat \ {0}
  PROVE  /\ a % m \in Nat /\ a % m < m
         /\ a \div m \in Nat
         /\ a = m * (a \div m) + (a % m)
<1>1. a % m \in Nat /\ a % m < m
  OBVIOUS
<1>2. a \div m \in Nat
  OBVIOUS
<1>3. a = m * (a \div m) + (a % m)
  OBVIOUS
<1> QED
  BY <1>1, <1>2, <1>3

LEMMA RemainderUnique ==
  ASSUME NEW r \in Nat, NEW m \in Nat \ {0}, NEW k \in Nat, r < m
  PROVE  (m * k + r) % m = r
OBVIOUS

LEMMA RemainderOfSmall ==
  ASSUME NEW r \in Nat, NEW m \in Nat \ {0}, r < m
  PROVE  r % m = r
OBVIOUS

LEMMA IntRemainder ==
  ASSUME NEW a \in Int, NEW m \in Nat \ {0}
  PROVE  /\ a % m \in Nat /\ a % m < m
         /\ a \div m \in Int
         /\ a = m * (a \div m) + (a % m)
<1>1. a % m \in Nat /\ a % m < m
  OBVIOUS
<1>2. a \div m \in Int
  OBVIOUS
<1>3. a = m * (a \div m) + (a % m)
  OBVIOUS
<1> QED
  BY <1>1, <1>2, <1>3

LEMMA IntRemainderUnique ==
  ASSUME NEW r \in Nat, NEW m \in Nat \ {0}, NEW k \in Int, r < m
  PROVE  (m * k + r) % m = r
OBVIOUS

LEMMA MultipleAdded ==
  ASSUME NEW a \in Nat, NEW m \in Nat \ {0}, NEW k \in Nat
  PROVE  (m * k + a) % m = a % m
<1> DEFINE q == a \div m
           r == a % m
<1>1. q \in Nat /\ r \in Nat /\ r < m /\ a = m * q + r
  BY Remainder
<1> HIDE DEF q, r
<1>2. k + q \in Nat /\ m * k + a = m * (k + q) + r
  BY <1>1
<1>3. (m * (k + q) + r) % m = r
  BY <1>1, <1>2, RemainderUnique
<1> QED
  BY <1>2, <1>3 DEF r

LEMMA SumReduced ==
  ASSUME NEW a \in Nat, NEW b \in Nat, NEW m \in Nat \ {0}
  PROVE  (a + (b % m)) % m = (a + b) % m
<1> DEFINE q == b \div m
           r == b % m
<1>1. q \in Nat /\ r \in Nat /\ b = m * q + r
  BY Remainder
<1> HIDE DEF q, r
<1>2. a + r \in Nat /\ a + b = m * q + (a + r)
  BY <1>1
<1>3. (m * q + (a + r)) % m = (a + r) % m
  BY <1>1, <1>2, MultipleAdded
<1> QED
  BY <1>2, <1>3 DEF r

LEMMA FactorReduced ==
  ASSUME NEW a \in Nat, NEW b \in Nat, NEW m \in Nat \ {0}
  PROVE  (a * (b % m)) % m = (a * b) % m
<1> DEFINE q == b \div m
           r == b % m
<1>1. q \in Nat /\ r \in Nat /\ b = m * q + r
  BY Remainder
<1> HIDE DEF q, r
<1>2. a * b = m * (a * q) + a * r
  <2>1. a * b = a * (m * q + r)
    BY <1>1
  <2>2. a * (m * q + r) = a * (m * q) + a * r
    BY <1>1
  <2>3. a * (m * q) = m * (a * q)
    BY <1>1
  <2> QED
    BY <1>1, <2>1, <2>2, <2>3
<1>3. a * q \in Nat /\ a * r \in Nat
  BY <1>1
<1>4. (m * (a * q) + a * r) % m = (a * r) % m
  BY <1>3, MultipleAdded
<1> QED
  BY <1>2, <1>4 DEF r

(* Both factors. *)
LEMMA FactorsReduced ==
  ASSUME NEW a \in Nat, NEW b \in Nat, NEW m \in Nat \ {0}
  PROVE  ((a % m) * (b % m)) % m = (a * b) % m
<1>1. a % m \in Nat
  BY Remainder
<1>2. ((a % m) * (b % m)) % m = ((a % m) * b) % m
  BY <1>1, FactorReduced
<1>3. (a % m) * b = b * (a % m) /\ b * a = a * b
  BY <1>1
<1>4. (b * (a % m)) % m = (b * a) % m
  BY FactorReduced
<1> QED
  BY <1>2, <1>3, <1>4

(* Products modulo m. *)
Times(x, y, m) == (x * y) % m

LEMMA TimesIs ==
  ASSUME NEW m \in Nat, m > 1
  PROVE  /\ \A x, y \in Nat : /\ Times(x, y, m) \in Nat /\ Times(x, y, m) < m
                              /\ Times(x, y, m) = Times(y, x, m)
                              /\ Times(x, y % m, m) = Times(x, y, m)
         /\ \A x, y, z \in Nat :
              Times(Times(x, y, m), z, m) = Times(x, Times(y, z, m), m)
         /\ \A x \in Nat : x < m => Times(1, x, m) = x /\ Times(x, 1, m) = x
<1>0. m \in Nat \ {0}
  OBVIOUS
<1>1. ASSUME NEW x \in Nat, NEW y \in Nat
      PROVE  /\ Times(x, y, m) \in Nat /\ Times(x, y, m) < m
             /\ Times(x, y, m) = Times(y, x, m)
             /\ Times(x, y % m, m) = Times(x, y, m)
  <2>1. x * y \in Nat /\ x * y = y * x
    OBVIOUS
  <2> QED
    BY <1>0, <2>1, Remainder, FactorReduced DEF Times
<1>2. ASSUME NEW x \in Nat, NEW y \in Nat, NEW z \in Nat
      PROVE  Times(Times(x, y, m), z, m) = Times(x, Times(y, z, m), m)
  <2>1. x * y \in Nat /\ y * z \in Nat /\ z * (x * y) = x * (y * z)
    OBVIOUS
  <2>2. (z * ((x * y) % m)) % m = (z * (x * y)) % m
    BY <1>0, <2>1, FactorReduced
  <2>3. (x * ((y * z) % m)) % m = (x * (y * z)) % m
    BY <1>0, <2>1, FactorReduced
  <2>4. (x * y) % m \in Nat
    BY <1>0, <2>1, Remainder
  <2>5. ((x * y) % m) * z = z * ((x * y) % m)
    BY <2>4
  <2> QED
    BY <2>1, <2>2, <2>3, <2>5 DEF Times
<1>3. ASSUME NEW x \in Nat, x < m
      PROVE  Times(1, x, m) = x /\ Times(x, 1, m) = x
  BY <1>0, <1>3, RemainderOfSmall DEF Times
<1> QED
  BY <1>1, <1>2, <1>3

LEMMA TimesOfInt ==
  ASSUME NEW x \in Int, NEW y \in Nat, NEW m \in Nat, m > 1
  PROVE  Times(x, y, m) \in Nat
<1> DEFINE xy == x * y
<1>1. xy \in Int /\ m \in Nat \ {0}
  OBVIOUS
<1> HIDE DEF xy
<1>2. xy % m \in Nat
  BY <1>1, IntRemainder
<1> QED
  BY <1>2 DEF Times, xy

LEMMA TimesShuffled ==
  ASSUME NEW x \in Nat, NEW y \in Nat, NEW a \in Nat, NEW b \in Nat,
         NEW m \in Nat, m > 1
  PROVE  Times(Times(x, y, m), Times(a, b, m), m) =
           Times(Times(x, a, m), Times(y, b, m), m)
<1> DEFINE xy == Times(x, y, m)
           xa == Times(x, a, m)
<1>1. xy \in Nat /\ xa \in Nat /\ Times(y, a, m) \in Nat
  BY TimesIs
<1>2. Times(xy, Times(a, b, m), m) = Times(Times(xy, a, m), b, m)
  BY <1>1, TimesIs
<1>3. Times(xy, a, m) = Times(xa, y, m)
  <2>1. Times(xy, a, m) = Times(x, Times(y, a, m), m)
    BY TimesIs
  <2>2. Times(xa, y, m) = Times(x, Times(a, y, m), m)
    BY TimesIs
  <2>3. Times(y, a, m) = Times(a, y, m)
    BY TimesIs
  <2> QED
    BY <2>1, <2>2, <2>3
<1>4. Times(Times(xa, y, m), b, m) = Times(xa, Times(y, b, m), m)
  BY <1>1, TimesIs
<1> QED
  BY <1>2, <1>3, <1>4

-----------------------------------------------------------------------------
(* Powers.                                                                 *)

PowersUpTo(b, e, m, pow) ==
  pow = [n \in 0 .. e |->
           IF n = 0 THEN Reduced(1, m) ELSE Reduced(pow[n - 1] * b, m)]

LEMMA PowersExist ==
  ASSUME NEW b, NEW m
  PROVE  \A e \in Nat : \E pow : PowersUpTo(b, e, m, pow)
<1> DEFINE Bad == {e \in Nat : ~ \E pow : PowersUpTo(b, e, m, pow)}
<1> SUFFICES ASSUME Bad # {} PROVE FALSE
  OBVIOUS
<1>1. PICK e \in Bad : \A k \in Bad : e <= k
  BY LeastNatural
<1>2. e \in Nat /\ ~ \E pow : PowersUpTo(b, e, m, pow)
  OBVIOUS
<1>3. CASE e = 0
  <2> DEFINE pow == [n \in 0 .. 0 |-> Reduced(1, m)]
  <2>1. PowersUpTo(b, 0, m, pow)
    BY DEF PowersUpTo
  <2> QED
    BY <1>2, <1>3, <2>1
<1>4. CASE e # 0
  <2>1. e - 1 \in Nat /\ e - 1 \notin Bad
    BY <1>1, <1>2, <1>4
  <2>2. PICK low : PowersUpTo(b, e - 1, m, low)
    BY <2>1
  <2> DEFINE pow == [n \in 0 .. e |->
                       IF n = e THEN Reduced(low[e - 1] * b, m) ELSE low[n]]
  <2>3. \A n \in 0 .. e - 1 :
          low[n] = IF n = 0 THEN Reduced(1, m) ELSE Reduced(low[n - 1] * b, m)
    BY <2>1, <2>2 DEF PowersUpTo
  <2>4. \A n \in 0 .. e - 1 : pow[n] = low[n]
    BY <1>2
  <2>5. pow[e] = Reduced(pow[e - 1] * b, m)
    BY <1>2, <2>1, <2>4
  <2>6. \A n \in 0 .. e :
          pow[n] = IF n = 0 THEN Reduced(1, m) ELSE Reduced(pow[n - 1] * b, m)
    <3> SUFFICES ASSUME NEW n \in 0 .. e
                 PROVE  pow[n] = IF n = 0 THEN Reduced(1, m)
                                 ELSE Reduced(pow[n - 1] * b, m)
      OBVIOUS
    <3> HIDE DEF pow
    <3>1. CASE n = e
      BY <1>4, <2>5, <3>1
    <3>2. CASE n # e /\ n # 0
      <4>1. n \in 0 .. e - 1 /\ n - 1 \in 0 .. e - 1
        BY <1>2, <3>2
      <4> QED
        BY <2>3, <2>4, <3>2, <4>1
    <3>3. CASE n # e /\ n = 0
      BY <1>2, <2>1, <2>3, <2>4, <3>3
    <3> QED
      BY <3>1, <3>2, <3>3
  <2>7. PowersUpTo(b, e, m, pow)
    BY <2>6 DEF PowersUpTo
  <2> QED
    BY <1>2, <2>7
<1> QED
  BY <1>3, <1>4

LEMMA PowersUnique ==
  ASSUME NEW b, NEW m, NEW e \in Nat, NEW d \in Nat, d <= e,
         NEW long, PowersUpTo(b, e, m, long),
         NEW short, PowersUpTo(b, d, m, short)
  PROVE  \A n \in 0 .. d : long[n] = short[n]
<1> DEFINE Bad == {n \in 0 .. d : long[n] # short[n]}
<1> SUFFICES ASSUME Bad # {} PROVE FALSE
  OBVIOUS
<1>0. Bad \in SUBSET Nat
  OBVIOUS
<1>1. PICK n \in Bad : \A k \in Bad : n <= k
  BY <1>0, LeastNatural
<1>2. n \in 0 .. d /\ long[n] # short[n]
  OBVIOUS
<1>3. /\ long[n] = IF n = 0 THEN Reduced(1, m)
                  ELSE Reduced(long[n - 1] * b, m)
      /\ short[n] = IF n = 0 THEN Reduced(1, m)
                   ELSE Reduced(short[n - 1] * b, m)
  BY <1>2 DEF PowersUpTo
<1>4. CASE n = 0
  BY <1>2, <1>3, <1>4
<1>5. CASE n # 0
  <2>1. n - 1 \in 0 .. d /\ n - 1 \notin Bad
    BY <1>1, <1>2, <1>5
  <2>2. long[n - 1] = short[n - 1]
    BY <2>1
  <2> QED
    BY <1>2, <1>3, <1>5, <2>2
<1> QED
  BY <1>4, <1>5

(* What a power is, as the code's Exp computes it. *)
LEMMA PowerIs ==
  ASSUME NEW b, NEW m
  PROVE  /\ Power(b, 0, m) = Reduced(1, m)
         /\ \A e \in Nat : Power(b, e + 1, m) = Reduced(Power(b, e, m) * b, m)
<1> DEFINE Pow(e) == CHOOSE pow : PowersUpTo(b, e, m, pow)
<1>1. \A e \in Nat : PowersUpTo(b, e, m, Pow(e))
  BY PowersExist
<1>2. \A e \in Nat : Power(b, e, m) = Pow(e)[e]
  BY DEF Power, PowersUpTo
<1> HIDE DEF Pow
<1>3. \A e \in Nat :
        Pow(e)[e] = IF e = 0 THEN Reduced(1, m)
                    ELSE Reduced(Pow(e)[e - 1] * b, m)
  BY <1>1 DEF PowersUpTo
<1>4. Power(b, 0, m) = Reduced(1, m)
  BY <1>2, <1>3
<1>5. ASSUME NEW e \in Nat
      PROVE  Power(b, e + 1, m) = Reduced(Power(b, e, m) * b, m)
  <2>1. /\ e + 1 \in Nat /\ e + 1 # 0 /\ (e + 1) - 1 = e
        /\ e \in 0 .. e /\ e <= e + 1
    OBVIOUS
  <2>2. Pow(e + 1)[e] = Pow(e)[e]
    BY <1>1, <2>1, PowersUnique
  <2> QED
    BY <1>2, <1>3, <2>1, <2>2
<1> QED
  BY <1>4, <1>5

LEMMA PowerType ==
  ASSUME NEW b \in Nat, NEW m \in Nat
  PROVE  \A e \in Nat : Power(b, e, m) \in Nat
<1> DEFINE Bad == {e \in Nat : Power(b, e, m) \notin Nat}
<1>1. \A x \in Nat : Reduced(x, m) \in Nat
  BY Remainder DEF Reduced
<1>2. Power(b, 0, m) \in Nat
  BY <1>1, PowerIs
<1> SUFFICES ASSUME Bad # {} PROVE FALSE
  OBVIOUS
<1>3. PICK e \in Bad : \A k \in Bad : e <= k
  BY LeastNatural
<1>4. e \in Nat /\ e # 0
  BY <1>2
<1>5. e - 1 \in Nat /\ (e - 1) + 1 = e /\ e - 1 \notin Bad
  BY <1>3, <1>4
<1>6. Power(b, e, m) = Reduced(Power(b, e - 1, m) * b, m)
  BY <1>5, PowerIs
<1>7. Power(b, e - 1, m) * b \in Nat
  BY <1>5
<1>8. Power(b, e, m) \in Nat
  BY <1>1, <1>6, <1>7
<1> QED
  BY <1>8

LEMMA PowerByTimes ==
  ASSUME NEW b \in Nat, NEW m \in Nat, m > 1
  PROVE  /\ Power(b, 0, m) = 1
         /\ \A e \in Nat : /\ Power(b, e, m) \in Nat /\ Power(b, e, m) < m
                           /\ Power(b, e + 1, m) = Times(Power(b, e, m), b, m)
<1>1. Power(b, 0, m) = 1
  BY PowerIs, RemainderOfSmall DEF Reduced
<1>2. ASSUME NEW e \in Nat
      PROVE  /\ Power(b, e, m) \in Nat
             /\ Power(b, e + 1, m) = Times(Power(b, e, m), b, m)
  BY PowerType, PowerIs DEF Reduced, Times
<1>3. ASSUME NEW e \in Nat
      PROVE  Power(b, e, m) < m
  <2>1. CASE e = 0
    BY <1>1, <2>1
  <2>2. CASE e # 0
    <3>1. e - 1 \in Nat /\ (e - 1) + 1 = e
      BY <2>2
    <3>2. Power(b, e, m) = Times(Power(b, e - 1, m), b, m)
      BY <1>2, <3>1
    <3>3. Power(b, e - 1, m) \in Nat
      BY <1>2, <3>1
    <3> QED
      BY <3>2, <3>3, TimesIs
  <2> QED
    BY <2>1, <2>2
<1> QED
  BY <1>1, <1>2, <1>3

(* Without a modulus, and reduced afterwards. *)
LEMMA PowerUnreduced ==
  ASSUME NEW b \in Nat
  PROVE  /\ Power(b, 0, 0) = 1
         /\ \A e \in Nat : /\ Power(b, e, 0) \in Nat
                           /\ Power(b, e + 1, 0) = Power(b, e, 0) * b
BY PowerType, PowerIs DEF Reduced

LEMMA PowerReducedLater ==
  ASSUME NEW b \in Nat, NEW m \in Nat, m > 1
  PROVE  \A e \in Nat : Power(b, e, m) = Power(b, e, 0) % m
<1> DEFINE p(k) == Power(b, k, m)
           r(k) == Power(b, k, 0)
           Bad  == {e \in Nat : p(e) # r(e) % m}
<1>t. /\ p(0) = 1 /\ r(0) = 1
      /\ \A k \in Nat : p(k) \in Nat /\ r(k) \in Nat
      /\ \A k \in Nat : /\ p(k + 1) = Times(p(k), b, m)
                        /\ r(k + 1) = r(k) * b
  BY PowerByTimes, PowerUnreduced
<1> SUFFICES ASSUME Bad # {} PROVE FALSE
  OBVIOUS
<1>1. PICK e \in Bad : \A k \in Bad : e <= k
  BY LeastNatural
<1>2. e \in Nat /\ e # 0
  BY <1>t, RemainderOfSmall
<1>3. e - 1 \in Nat /\ (e - 1) + 1 = e /\ e - 1 \notin Bad
  BY <1>1, <1>2
<1> DEFINE x == r(e - 1)
<1>4. x \in Nat /\ p(e - 1) = x % m
  BY <1>3, <1>t
<1>5. p(e) = Times(x % m, b, m) /\ r(e) = x * b
  BY <1>3, <1>4, <1>t
<1> HIDE DEF x, p, r
<1>6. x % m \in Nat
  BY <1>4, Remainder
<1>7. Times(x % m, b, m) = Times(b, x % m, m)
  BY <1>6, TimesIs
<1>8. Times(b, x % m, m) = Times(b, x, m) /\ Times(b, x, m) = Times(x, b, m)
  BY <1>4, TimesIs
<1>9. p(e) = r(e) % m
  BY <1>5, <1>7, <1>8 DEF Times
<1> QED
  BY <1>2, <1>9

LEMMA PowerOfSum ==
  ASSUME NEW b \in Nat, NEW m \in Nat, m > 1, NEW i \in Nat
  PROVE  \A j \in Nat :
           Power(b, i + j, m) = Times(Power(b, i, m), Power(b, j, m), m)
<1> DEFINE p(k) == Power(b, k, m)
           Bad == {j \in Nat : p(i + j) # Times(p(i), p(j), m)}
<1> SUFFICES ASSUME Bad # {} PROVE FALSE
  OBVIOUS
<1>1. PICK j \in Bad : \A k \in Bad : j <= k
  BY LeastNatural
<1>2. j \in Nat /\ p(i + j) # Times(p(i), p(j), m)
  OBVIOUS
<1>t. /\ \A k \in Nat : p(k) \in Nat /\ p(k) < m
      /\ \A k \in Nat : p(k + 1) = Times(p(k), b, m)
      /\ p(0) = 1
  BY PowerByTimes
<1>3. CASE j = 0
  BY <1>2, <1>3, <1>t, TimesIs
<1>4. CASE j # 0
  <2>1. j - 1 \in Nat /\ j - 1 \notin Bad /\ (j - 1) + 1 = j
        /\ i + j = (i + (j - 1)) + 1 /\ i + (j - 1) \in Nat
    BY <1>1, <1>2, <1>4
  <2>2. p(i + (j - 1)) = Times(p(i), p(j - 1), m)
    BY <2>1
  <2> HIDE DEF p
  <2>3. p(i + j) = Times(Times(p(i), p(j - 1), m), b, m)
    BY <1>t, <2>1, <2>2
  <2>4. p(j) = Times(p(j - 1), b, m)
    BY <1>t, <2>1
  <2>5. p(i + j) = Times(p(i), p(j), m)
    <3> DEFINE x == p(i)
               y == p(j - 1)
    <3>1. x \in Nat /\ y \in Nat
      BY <1>t, <2>1
    <3> HIDE DEF x, y
    <3>2. Times(Times(x, y, m), b, m) = Times(x, Times(y, b, m), m)
      BY <3>1, TimesIs
    <3> QED
      BY <2>3, <2>4, <3>2 DEF x, y
  <2> QED
    BY <1>2, <2>5
<1> QED
  BY <1>3, <1>4

LEMMA PowerOfTimes ==
  ASSUME NEW a \in Nat, NEW b \in Nat, NEW m \in Nat, m > 1
  PROVE  \A e \in Nat : Power(Times(a, b, m), e, m) =
                          Times(Power(a, e, m), Power(b, e, m), m)
<1> DEFINE c    == Times(a, b, m)
           p(k) == Power(c, k, m)
           f(k) == Power(a, k, m)
           g(k) == Power(b, k, m)
           Bad  == {k \in Nat : p(k) # Times(f(k), g(k), m)}
<1> SUFFICES ASSUME Bad # {} PROVE FALSE
  OBVIOUS
<1>1. PICK j \in Bad : \A k \in Bad : j <= k
  BY LeastNatural
<1>2. j \in Nat /\ p(j) # Times(f(j), g(j), m)
  OBVIOUS
<1>c. c \in Nat
  BY TimesIs
<1> HIDE DEF c
<1>t. /\ \A k \in Nat : f(k) \in Nat /\ f(k) < m /\ g(k) \in Nat /\ g(k) < m
      /\ \A k \in Nat : /\ p(k + 1) = Times(p(k), c, m)
                        /\ f(k + 1) = Times(f(k), a, m)
                        /\ g(k + 1) = Times(g(k), b, m)
      /\ p(0) = 1 /\ f(0) = 1 /\ g(0) = 1
  BY <1>c, PowerByTimes
<1>3. CASE j = 0
  BY <1>2, <1>3, <1>t, TimesIs
<1>4. CASE j # 0
  <2>1. j - 1 \in Nat /\ j - 1 \notin Bad /\ (j - 1) + 1 = j
    BY <1>1, <1>2, <1>4
  <2>2. p(j - 1) = Times(f(j - 1), g(j - 1), m)
    BY <2>1
  <2> HIDE DEF p, f, g
  <2> DEFINE x == f(j - 1)
             y == g(j - 1)
  <2>3. x \in Nat /\ y \in Nat
    BY <1>t, <2>1
  <2>4. p(j) = Times(Times(x, y, m), Times(a, b, m), m)
    BY <1>t, <2>1, <2>2 DEF c
  <2>5. Times(f(j), g(j), m) = Times(Times(x, a, m), Times(y, b, m), m)
    BY <1>t, <2>1
  <2> HIDE DEF x, y
  <2>6. Times(Times(x, y, m), Times(a, b, m), m) =
          Times(Times(x, a, m), Times(y, b, m), m)
    BY <2>3, TimesShuffled
  <2> QED
    BY <1>2, <2>4, <2>5, <2>6
<1> QED
  BY <1>3, <1>4

LEMMA PowerOfPower ==
  ASSUME NEW b \in Nat, NEW m \in Nat, m > 1, NEW i \in Nat
  PROVE  \A j \in Nat : Power(Power(b, i, m), j, m) = Power(b, i * j, m)
<1> DEFINE c    == Power(b, i, m)
           p(k) == Power(c, k, m)
           Bad  == {j \in Nat : p(j) # Power(b, i * j, m)}
<1> SUFFICES ASSUME Bad # {} PROVE FALSE
  OBVIOUS
<1>1. PICK j \in Bad : \A k \in Bad : j <= k
  BY LeastNatural
<1>2. j \in Nat /\ p(j) # Power(b, i * j, m)
  OBVIOUS
<1>c. c \in Nat
  BY PowerByTimes
<1>t. /\ \A k \in Nat : p(k) \in Nat /\ p(k + 1) = Times(p(k), c, m)
      /\ p(0) = 1
  BY <1>c, PowerByTimes
<1>3. CASE j = 0
  BY <1>2, <1>3, <1>t, PowerByTimes
<1>4. CASE j # 0
  <2>1. j - 1 \in Nat /\ j - 1 \notin Bad /\ (j - 1) + 1 = j
    BY <1>1, <1>2, <1>4
  <2>2. p(j - 1) = Power(b, i * (j - 1), m)
    BY <2>1
  <2>3. p(j) = Times(p(j - 1), c, m)
    BY <1>t, <2>1
  <2> DEFINE e == i * (j - 1)
  <2>4. e \in Nat /\ e + i = i * j
    BY <2>1
  <2> HIDE DEF e
  <2>5. Power(b, e + i, m) = Times(Power(b, e, m), c, m)
    BY <2>4, PowerOfSum
  <2>6. p(j - 1) = Power(b, e, m)
    BY <2>2 DEF e
  <2> HIDE DEF p, c
  <2> QED
    BY <1>2, <2>3, <2>4, <2>5, <2>6
<1> QED
  BY <1>3, <1>4

LEMMA PowerOfOne ==
  ASSUME NEW m \in Nat, m > 1
  PROVE  \A e \in Nat : Power(1, e, m) = 1
<1> DEFINE p(k) == Power(1, k, m)
           Bad  == {j \in Nat : p(j) # 1}
<1> SUFFICES ASSUME Bad # {} PROVE FALSE
  OBVIOUS
<1>1. PICK j \in Bad : \A k \in Bad : j <= k
  BY LeastNatural
<1>t. p(0) = 1 /\ \A k \in Nat : p(k + 1) = Times(p(k), 1, m)
  BY PowerByTimes
<1>2. j \in Nat /\ j # 0
  BY <1>t
<1>3. j - 1 \in Nat /\ j - 1 \notin Bad /\ (j - 1) + 1 = j
  BY <1>1, <1>2
<1>4. p(j) = Times(1, 1, m)
  BY <1>3, <1>t
<1>5. Times(1, 1, m) = 1
  BY TimesIs
<1> QED
  BY <1>4, <1>5

(* Exponents of a base of order q count modulo q. *)
LEMMA ExponentReduced ==
  ASSUME NEW b \in Nat, NEW m \in Nat, m > 1,
         NEW q \in Nat \ {0}, Power(b, q, m) = 1, NEW e \in Nat
  PROVE  Power(b, e % q, m) = Power(b, e, m)
<1> DEFINE k == e \div q
           r == e % q
<1>1. k \in Nat /\ r \in Nat /\ e = q * k + r
  BY Remainder
<1> HIDE DEF k, r
<1>2. q * k \in Nat
  BY <1>1
<1>3. Power(b, q * k, m) = Power(Power(b, q, m), k, m)
  BY <1>1, PowerOfPower
<1>4. Power(b, q * k, m) = 1
  BY <1>1, <1>3, PowerOfOne
<1>5. Power(b, q * k + r, m) = Times(Power(b, q * k, m), Power(b, r, m), m)
  BY <1>1, <1>2, PowerOfSum
<1>6. Power(b, r, m) \in Nat /\ Power(b, r, m) < m
  BY <1>1, PowerByTimes
<1>7. Times(1, Power(b, r, m), m) = Power(b, r, m)
  BY <1>6, TimesIs
<1> QED
  BY <1>1, <1>4, <1>5, <1>7 DEF r

-----------------------------------------------------------------------------
(* Commitments: BC takes its exponents modulo q, and need not.             *)

LEMMA Moduli ==
  /\ Parties \in Nat /\ Parties > 2
  /\ PrimeP \in Nat /\ PrimeP > 1 /\ PrimeQ \in Nat \ {0}
  /\ T \in Nat
  /\ Field \subseteq Nat
<1>1. /\ Parties \in Nat /\ Parties > 2
      /\ PrimeP \in Nat /\ PrimeP > 1 /\ PrimeQ \in Nat \ {0}
  BY SharingAssumption DEF MinParties
<1>2. T \in Nat
  BY <1>1 DEF T, CalculateT
<1> QED
  BY <1>1, <1>2 DEF Field

LEMMA BasesInRange ==
  /\ G \in 2 .. PrimeP - 1 /\ Power(G, PrimeQ, PrimeP) = 1
  /\ H \in 2 .. PrimeP - 1 /\ Power(H, PrimeQ, PrimeP) = 1
<1>0. Bases \in SUBSET Nat
  BY Moduli DEF Bases
<1>1. Bases # {}
  BY TwoBases
<1>2. \E x \in Bases : \A y \in Bases : x <= y
  BY <1>0, <1>1, LeastNatural
<1>3. G \in Bases
  BY <1>2 DEF G, Min
<1>4. Bases \ {G} # {} /\ Bases \ {G} \in SUBSET Nat
  <2>1. PICK i \in Bases, j \in Bases : i # j
    BY TwoBases
  <2>2. i \in Bases \ {G} \/ j \in Bases \ {G}
    BY <2>1
  <2> QED
    BY <1>0, <2>2
<1>5. \E x \in Bases \ {G} : \A y \in Bases \ {G} : x <= y
  BY <1>4, LeastNatural
<1>6. H \in Bases \ {G}
  BY <1>5 DEF H, Min
<1> QED
  BY <1>0, <1>3, <1>6 DEF Bases

LEMMA BasesHaveOrderQ ==
  /\ G \in Nat /\ Power(G, PrimeQ, PrimeP) = 1
  /\ H \in Nat /\ Power(H, PrimeQ, PrimeP) = 1
BY BasesInRange, Moduli

Committed(s, t) == Times(Power(G, s, PrimeP), Power(H, t, PrimeP), PrimeP)

LEMMA CommittedIs ==
  /\ \A s, t \in Nat : /\ Committed(s, t) \in Nat
                       /\ Committed(s, t) = Committed(s % PrimeQ, t % PrimeQ)
                       /\ BC(s, t) = Committed(s, t)
  /\ Committed(0, 0) = 1
<1> USE Moduli, BasesHaveOrderQ
<1>1. ASSUME NEW s \in Nat, NEW t \in Nat
      PROVE  /\ Committed(s, t) \in Nat
             /\ Committed(s, t) = Committed(s % PrimeQ, t % PrimeQ)
             /\ BC(s, t) = Committed(s, t)
  <2>1. Power(G, s, PrimeP) \in Nat /\ Power(H, t, PrimeP) \in Nat
    BY PowerByTimes
  <2>2. Committed(s, t) \in Nat
    BY <2>1, TimesIs DEF Committed
  <2>3. /\ Power(G, s % PrimeQ, PrimeP) = Power(G, s, PrimeP)
        /\ Power(H, t % PrimeQ, PrimeP) = Power(H, t, PrimeP)
    BY ExponentReduced
  <2>4. s % PrimeQ \in Field /\ t % PrimeQ \in Field
    BY Remainder DEF Field
  <2>5. /\ PowersOfG[s % PrimeQ] = Power(G, s % PrimeQ, PrimeP)
        /\ PowersOfH[t % PrimeQ] = Power(H, t % PrimeQ, PrimeP)
    BY <2>4 DEF PowersOfG, PowersOfH
  <2>6. BC(s, t) = Committed(s, t)
    BY <2>3, <2>5 DEF BC, Committed, Times
  <2> QED
    BY <2>2, <2>3, <2>6 DEF Committed
<1>2. Committed(0, 0) = 1
  BY PowerByTimes, TimesIs DEF Committed
<1> QED
  BY <1>1, <1>2

LEMMA CommittedAdds ==
  ASSUME NEW s \in Nat, NEW t \in Nat, NEW u \in Nat, NEW v \in Nat
  PROVE  Committed(s + u, t + v) =
           Times(Committed(s, t), Committed(u, v), PrimeP)
<1> DEFINE gs == Power(G, s, PrimeP)
           gu == Power(G, u, PrimeP)
           ht == Power(H, t, PrimeP)
           hv == Power(H, v, PrimeP)
<1>1. gs \in Nat /\ gu \in Nat /\ ht \in Nat /\ hv \in Nat
  BY Moduli, BasesHaveOrderQ, PowerByTimes
<1>2. Power(G, s + u, PrimeP) = Times(gs, gu, PrimeP)
  BY Moduli, BasesHaveOrderQ, PowerOfSum
<1>3. Power(H, t + v, PrimeP) = Times(ht, hv, PrimeP)
  BY Moduli, BasesHaveOrderQ, PowerOfSum
<1> HIDE DEF gs, gu, ht, hv
<1>4. Times(Times(gs, gu, PrimeP), Times(ht, hv, PrimeP), PrimeP) =
        Times(Times(gs, ht, PrimeP), Times(gu, hv, PrimeP), PrimeP)
  BY <1>1, Moduli, TimesShuffled
<1> QED
  BY <1>2, <1>3, <1>4 DEF Committed, gs, gu, ht, hv

LEMMA CommittedToPower ==
  ASSUME NEW s \in Nat, NEW t \in Nat, NEW e \in Nat
  PROVE  Power(Committed(s, t), e, PrimeP) = Committed(s * e, t * e)
<1> USE Moduli, BasesHaveOrderQ
<1>1. Power(G, s, PrimeP) \in Nat /\ Power(H, t, PrimeP) \in Nat
  BY PowerByTimes
<1>2. Power(Committed(s, t), e, PrimeP) =
        Times(Power(Power(G, s, PrimeP), e, PrimeP),
              Power(Power(H, t, PrimeP), e, PrimeP), PrimeP)
  BY <1>1, PowerOfTimes DEF Committed
<1>3. Power(Power(G, s, PrimeP), e, PrimeP) = Power(G, s * e, PrimeP)
  BY PowerOfPower
<1>4. Power(Power(H, t, PrimeP), e, PrimeP) = Power(H, t * e, PrimeP)
  BY PowerOfPower
<1> QED
  BY <1>2, <1>3, <1>4 DEF Committed

(* The numbers that have an inverse modulo p; zero is none of them.        *)
Units == {u \in Nat : u < PrimeP /\ \E v \in Nat : Times(u, v, PrimeP) = 1}

LEMMA UnitsNotZero == Units \subseteq 1 .. PrimeP - 1
<1> USE Moduli
<1> SUFFICES ASSUME NEW u \in Units PROVE u # 0
  BY DEF Units
<1>1. PICK v \in Nat : Times(u, v, PrimeP) = 1
  BY DEF Units
<1>2. u = 0 => Times(u, v, PrimeP) = 0
  BY DEF Times
<1> QED
  BY <1>1, <1>2

LEMMA UnitsMultiply ==
  ASSUME NEW u \in Units, NEW v \in Units
  PROVE  Times(u, v, PrimeP) \in Units
<1> USE Moduli
<1>1. PICK x \in Nat : Times(u, x, PrimeP) = 1
  BY DEF Units
<1>2. PICK y \in Nat : Times(v, y, PrimeP) = 1
  BY DEF Units
<1>3. u \in Nat /\ v \in Nat
  BY DEF Units
<1>4. Times(Times(u, v, PrimeP), Times(x, y, PrimeP), PrimeP) = 1
  BY <1>1, <1>2, <1>3, TimesShuffled, TimesIs
<1>5. Times(x, y, PrimeP) \in Nat
  BY TimesIs
<1>6. Times(u, v, PrimeP) \in Nat /\ Times(u, v, PrimeP) < PrimeP
  BY <1>3, TimesIs
<1> QED
  BY <1>4, <1>5, <1>6 DEF Units

LEMMA UnitsInvert ==
  ASSUME NEW u \in Units
  PROVE  /\ ModInverse(u, PrimeP) \in Units
         /\ Times(u, ModInverse(u, PrimeP), PrimeP) = 1
<1> USE Moduli
<1>1. PICK v \in Nat : Times(u, v, PrimeP) = 1
  BY DEF Units
<1> DEFINE w == v % PrimeP
           x == ModInverse(u, PrimeP)
<1>2. u \in Nat /\ w \in Nat /\ w \in 0 .. PrimeP - 1
  BY Remainder DEF Units
<1>3. Times(u, w, PrimeP) = 1
  BY <1>1, <1>2, TimesIs
<1>4. (u * w) % PrimeP = 1
  BY <1>3 DEF Times
<1> HIDE DEF w
<1>5. x \in 0 .. PrimeP - 1 /\ (u * x) % PrimeP = 1
  BY <1>2, <1>4 DEF ModInverse
<1> HIDE DEF x
<1>6. x \in Nat /\ x < PrimeP /\ Times(u, x, PrimeP) = 1
  BY <1>5 DEF Times
<1>7. Times(x, u, PrimeP) = 1
  BY <1>2, <1>6, TimesIs
<1> QED
  BY <1>2, <1>6, <1>7 DEF Units, x

(* An inverse undoes a factor, and a unit can be cancelled.                *)
LEMMA UnitsCancel ==
  ASSUME NEW u \in Units, NEW x \in Nat, x < PrimeP
  PROVE  /\ Times(Times(u, x, PrimeP), ModInverse(u, PrimeP), PrimeP) = x
         /\ Times(Times(x, ModInverse(u, PrimeP), PrimeP), u, PrimeP) = x
         /\ \A y \in Nat :
              y < PrimeP /\ Times(u, x, PrimeP) = Times(u, y, PrimeP) => x = y
<1> USE Moduli
<1> DEFINE v == ModInverse(u, PrimeP)
<1>1. u \in Nat /\ v \in Nat /\ Times(u, v, PrimeP) = 1
  BY UnitsInvert DEF Units
<1> HIDE DEF v
<1>2. Times(v, u, PrimeP) = 1
  BY <1>1, TimesIs
<1>3. ASSUME NEW y \in Nat, y < PrimeP
      PROVE  /\ Times(Times(u, y, PrimeP), v, PrimeP) = y
             /\ Times(Times(y, v, PrimeP), u, PrimeP) = y
  <2>1. Times(Times(u, y, PrimeP), v, PrimeP) =
          Times(Times(y, u, PrimeP), v, PrimeP)
    BY <1>1, TimesIs
  <2>2. Times(Times(y, u, PrimeP), v, PrimeP) =
          Times(y, Times(u, v, PrimeP), PrimeP)
    BY <1>1, TimesIs
  <2>3. Times(Times(y, v, PrimeP), u, PrimeP) =
          Times(y, Times(v, u, PrimeP), PrimeP)
    BY <1>1, TimesIs
  <2>4. Times(y, 1, PrimeP) = y
    BY <1>3, TimesIs
  <2> QED
    BY <1>1, <1>2, <2>1, <2>2, <2>3, <2>4
<1> QED
  BY <1>3 DEF v

LEMMA PowersAreUnits ==
  ASSUME NEW u \in Units, NEW e \in Nat
  PROVE  Power(u, e, PrimeP) \in Units
<1> USE Moduli
<1>1. PICK v \in Nat : Times(u, v, PrimeP) = 1
  BY DEF Units
<1>2. u \in Nat
  BY DEF Units
<1>3. Times(Power(u, e, PrimeP), Power(v, e, PrimeP), PrimeP) = 1
  <2>1. Power(Times(u, v, PrimeP), e, PrimeP) =
          Times(Power(u, e, PrimeP), Power(v, e, PrimeP), PrimeP)
    BY <1>2, PowerOfTimes
  <2> QED
    BY <1>1, <2>1, PowerOfOne
<1>4. /\ Power(u, e, PrimeP) \in Nat /\ Power(u, e, PrimeP) < PrimeP
      /\ Power(v, e, PrimeP) \in Nat
  BY <1>2, PowerByTimes
<1> QED
  BY <1>3, <1>4 DEF Units

(* A number of order q is a unit, and its first powers are its own.        *)
LEMMA OrderQIsUnit ==
  ASSUME NEW b \in Nat, b < PrimeP, Power(b, PrimeQ, PrimeP) = 1
  PROVE  b \in Units /\ Power(b, 1, PrimeP) = b
<1> USE Moduli
<1> DEFINE n == PrimeQ - 1
           v == Power(b, n, PrimeP)
<1>1. n \in Nat /\ n + 1 = PrimeQ
  OBVIOUS
<1> HIDE DEF n
<1>2. v \in Nat /\ Times(v, b, PrimeP) = Power(b, n + 1, PrimeP)
  BY <1>1, PowerByTimes
<1> HIDE DEF v
<1>3. Times(b, v, PrimeP) = 1
  BY <1>1, <1>2, TimesIs
<1>4. Power(b, 0, PrimeP) = 1 /\ Power(b, 0 + 1, PrimeP) = Times(1, b, PrimeP)
  BY PowerByTimes
<1>5. Times(1, b, PrimeP) = b
  BY TimesIs
<1> QED
  BY <1>2, <1>3, <1>4, <1>5 DEF Units

LEMMA LeastOrder ==
  ASSUME NEW b \in Nat, b < PrimeP, b # 1, Power(b, PrimeQ, PrimeP) = 1,
         NEW d \in Nat, 0 < d, d < PrimeQ
  PROVE  Power(b, d, PrimeP) # 1
<1> USE Moduli
<1> DEFINE Orders == {e \in Nat \ {0} : Power(b, e, PrimeP) = 1}
<1>1. PrimeQ \in Orders /\ Orders \in SUBSET Nat
  OBVIOUS
<1>2. PICK e \in Orders : \A k \in Orders : e <= k
  BY <1>1, LeastNatural
<1>3. e \in Nat \ {0} /\ Power(b, e, PrimeP) = 1 /\ e <= PrimeQ
  BY <1>1, <1>2
<1> DEFINE k == PrimeQ % e
<1>4. k \in Nat /\ k < e
  BY <1>3, Remainder
<1>5. Power(b, k, PrimeP) = 1
  <2>1. Power(b, PrimeQ % e, PrimeP) = Power(b, PrimeQ, PrimeP)
    BY <1>3, ExponentReduced
  <2> QED
    BY <2>1
<1>6. k = 0
  BY <1>2, <1>4, <1>5
<1>7. e # 1
  BY <1>3, OrderQIsUnit
<1>8. e = PrimeQ
  <2> SUFFICES ASSUME e # PrimeQ PROVE FALSE
    OBVIOUS
  <2>1. e \in 2 .. PrimeQ - 1
    BY <1>3, <1>7
  <2> QED
    BY <1>6, <2>1, PrimeOrder
<1> QED
  BY <1>2, <1>8

LEMMA PowersDiffer ==
  ASSUME NEW b \in Nat, b < PrimeP, b # 1, Power(b, PrimeQ, PrimeP) = 1,
         NEW i \in Field, NEW j \in Field, i # j
  PROVE  Power(b, i, PrimeP) # Power(b, j, PrimeP)
<1> USE Moduli
<1>1. ASSUME NEW k \in Nat, NEW l \in Nat, k < l, l < PrimeQ,
             Power(b, k, PrimeP) = Power(b, l, PrimeP)
      PROVE  FALSE
  <2> DEFINE d == l - k
             u == Power(b, k, PrimeP)
             w == Power(b, d, PrimeP)
  <2>1. d \in Nat /\ 0 < d /\ d < PrimeQ /\ k + d = l
    BY <1>1
  <2>2. u \in Units
    BY OrderQIsUnit, PowersAreUnits
  <2>3. w \in Nat /\ w < PrimeP
    BY <2>1, PowerByTimes
  <2>4. Power(b, k + d, PrimeP) = Times(u, w, PrimeP)
    BY <2>1, PowerOfSum
  <2>5. w # 1
    BY <2>1, LeastOrder
  <2> HIDE DEF d, u, w
  <2>6. Times(u, w, PrimeP) = u
    BY <1>1, <2>1, <2>4 DEF u
  <2>7. u \in Nat /\ u < PrimeP
    BY <2>2 DEF Units
  <2>8. Times(u, 1, PrimeP) = u
    BY <2>7, TimesIs
  <2>9. w = 1
    BY <2>2, <2>3, <2>6, <2>8, UnitsCancel
  <2> QED
    BY <2>5, <2>9
<1>2. i \in Nat /\ j \in Nat /\ i < PrimeQ /\ j < PrimeQ
  BY DEF Field
<1>3. i < j \/ j < i
  BY <1>2
<1> QED
  BY <1>1, <1>2, <1>3

LEMMA CommitmentsAreUnits ==
  ASSUME NEW s \in Nat, NEW t \in Nat
  PROVE  BC(s, t) \in Units
<1> USE Moduli
<1> DEFINE s1 == s * (PrimeQ - 1)
           t1 == t * (PrimeQ - 1)
<1>1. s1 \in Nat /\ t1 \in Nat
  OBVIOUS
<1>2. s + s1 = PrimeQ * s + 0 /\ t + t1 = PrimeQ * t + 0
  OBVIOUS
<1>3. (PrimeQ * s + 0) % PrimeQ = 0 /\ (PrimeQ * t + 0) % PrimeQ = 0
  BY RemainderUnique
<1> HIDE DEF s1, t1
<1>4. (s + s1) % PrimeQ = 0 /\ (t + t1) % PrimeQ = 0
  BY <1>2, <1>3
<1>5. s + s1 \in Nat /\ t + t1 \in Nat
  BY <1>1
<1>6. Committed(s + s1, t + t1) = Committed(0, 0)
  BY <1>4, <1>5, CommittedIs
<1>7. Times(Committed(s, t), Committed(s1, t1), PrimeP) = 1
  BY <1>1, <1>6, CommittedAdds, CommittedIs
<1>8. Committed(s1, t1) \in Nat
  BY <1>1, CommittedIs
<1>9. /\ Power(G, s, PrimeP) \in Nat /\ Power(H, t, PrimeP) \in Nat
      /\ BC(s, t) = Committed(s, t)
  BY BasesHaveOrderQ, PowerByTimes, CommittedIs
<1>10. Committed(s, t) \in Nat /\ Committed(s, t) < PrimeP
  BY <1>9, TimesIs DEF Committed
<1> QED
  BY <1>7, <1>8, <1>9, <1>10 DEF Units

LEMMA BasesAre ==
  /\ G \in Units /\ H \in Units
  /\ G \in Nat /\ H \in Nat /\ G # 1 /\ H # 1 /\ G < PrimeP /\ H < PrimeP
  /\ Power(G, 1, PrimeP) = G
<1>1. G \in Nat /\ H \in Nat /\ G # 1 /\ H # 1 /\ G < PrimeP /\ H < PrimeP
  BY BasesInRange, Moduli
<1> QED
  BY <1>1, BasesHaveOrderQ, OrderQIsUnit

(* A commitment binds each of its two values to the other. *)
LEMMA CommittedBinds ==
  ASSUME NEW s \in Field, NEW t \in Field, NEW v \in Field
  PROVE  /\ Committed(v, t) = Committed(s, t) => v = s
         /\ Committed(s, v) = Committed(s, t) => v = t
<1> USE Moduli
<1> DEFINE gs == Power(G, s, PrimeP)
           gv == Power(G, v, PrimeP)
           ht == Power(H, t, PrimeP)
           hv == Power(H, v, PrimeP)
<1>1. s \in Nat /\ t \in Nat /\ v \in Nat
  OBVIOUS
<1>2. gs \in Units /\ gv \in Units /\ ht \in Units /\ hv \in Units
  BY <1>1, BasesAre, PowersAreUnits
<1>3. gv = gs => v = s
  BY BasesAre, BasesHaveOrderQ, PowersDiffer
<1>4. hv = ht => v = t
  BY BasesAre, BasesHaveOrderQ, PowersDiffer
<1>5. /\ Committed(v, t) = Times(gv, ht, PrimeP)
      /\ Committed(s, t) = Times(gs, ht, PrimeP)
      /\ Committed(s, v) = Times(gs, hv, PrimeP)
  BY DEF Committed
<1> HIDE DEF gs, gv, ht, hv
<1>6. /\ gs \in Nat /\ gv \in Nat /\ ht \in Nat /\ hv \in Nat
      /\ gs < PrimeP /\ gv < PrimeP /\ ht < PrimeP /\ hv < PrimeP
  BY <1>2 DEF Units
<1>7. Times(gv, ht, PrimeP) = Times(gs, ht, PrimeP) => gv = gs
  <2>1. /\ Times(gv, ht, PrimeP) = Times(ht, gv, PrimeP)
        /\ Times(gs, ht, PrimeP) = Times(ht, gs, PrimeP)
    BY <1>6, TimesIs
  <2>2. Times(ht, gv, PrimeP) = Times(ht, gs, PrimeP) => gv = gs
    BY <1>2, <1>6, UnitsCancel
  <2> QED
    BY <2>1, <2>2
<1>8. Times(gs, hv, PrimeP) = Times(gs, ht, PrimeP) => hv = ht
  BY <1>2, <1>6, UnitsCancel
<1> QED
  BY <1>3, <1>4, <1>5, <1>7, <1>8

(* The group of order q that the bases and the commitments are from.       *)
Members == {u \in Units : Power(u, PrimeQ, PrimeP) = 1}

LEMMA MembersMultiply ==
  ASSUME NEW u \in Members, NEW v \in Members
  PROVE  /\ Times(u, v, PrimeP) \in Members
         /\ ModInverse(u, PrimeP) \in Members
<1> USE Moduli
<1> DEFINE i == ModInverse(u, PrimeP)
           p(x) == Power(x, PrimeQ, PrimeP)
<1>1. u \in Units /\ v \in Units /\ p(u) = 1 /\ p(v) = 1
  BY DEF Members
<1>2. i \in Units /\ Times(u, i, PrimeP) = 1
  BY <1>1, UnitsInvert
<1>3. u \in Nat /\ v \in Nat /\ i \in Nat
  BY <1>1, <1>2 DEF Units
<1>4. Times(1, 1, PrimeP) = 1
  BY TimesIs
<1>5. p(Times(u, v, PrimeP)) = Times(p(u), p(v), PrimeP)
  BY <1>3, PowerOfTimes
<1> HIDE DEF i
<1>6. p(Times(u, i, PrimeP)) = Times(p(u), p(i), PrimeP)
  BY <1>3, PowerOfTimes
<1>7. p(1) = 1
  BY PowerOfOne
<1>8. p(i) \in Nat /\ p(i) < PrimeP
  BY <1>3, PowerByTimes
<1>9. p(i) = 1
  <2>1. Times(1, p(i), PrimeP) = p(i)
    BY <1>8, TimesIs
  <2> QED
    BY <1>1, <1>2, <1>6, <1>7, <2>1
<1>10. Times(u, v, PrimeP) \in Units
  BY <1>1, UnitsMultiply
<1> QED
  BY <1>1, <1>2, <1>4, <1>5, <1>9, <1>10 DEF Members, i

(* A power of a member that is neither 0 nor q has one root.               *)
LEMMA RootsUnique ==
  ASSUME NEW u \in Members, NEW v \in Members,
         NEW n \in Nat, 0 < n, n < PrimeQ,
         Power(u, n, PrimeP) = Power(v, n, PrimeP)
  PROVE  u = v
<1> USE Moduli
<1> DEFINE i == ModInverse(v, PrimeP)
           w == Times(u, i, PrimeP)
           p(x) == Power(x, n, PrimeP)
<1>1. u \in Units /\ v \in Units
  BY DEF Members
<1>2. i \in Members /\ w \in Members /\ Times(v, i, PrimeP) = 1
  BY <1>1, MembersMultiply, UnitsInvert
<1>3. /\ u \in Nat /\ v \in Nat /\ i \in Nat
      /\ u < PrimeP /\ v < PrimeP
  BY <1>1, <1>2 DEF Members, Units
<1>5. Times(w, v, PrimeP) = u
  BY <1>1, <1>3, UnitsCancel
<1> HIDE DEF i
<1>6. p(Times(u, i, PrimeP)) = Times(p(u), p(i), PrimeP)
  BY <1>3, PowerOfTimes
<1>7. p(Times(v, i, PrimeP)) = Times(p(v), p(i), PrimeP)
  BY <1>3, PowerOfTimes
<1>8. p(1) = 1
  BY PowerOfOne
<1>9. p(w) = 1
  BY <1>2, <1>6, <1>7, <1>8
<1>10. w \in Nat /\ w < PrimeP /\ Power(w, PrimeQ, PrimeP) = 1
  BY <1>2 DEF Members, Units
<1> HIDE DEF w
<1>11. w = 1
  BY <1>9, <1>10, LeastOrder
<1>12. Times(1, v, PrimeP) = v
  BY <1>3, TimesIs
<1> QED
  BY <1>5, <1>11, <1>12

LEMMA CommitmentsAreMembers ==
  /\ G \in Members /\ H \in Members
  /\ \A s, t \in Nat : BC(s, t) \in Members
<1> USE Moduli
<1>1. G \in Members /\ H \in Members
  BY BasesInRange, OrderQIsUnit DEF Members
<1>2. ASSUME NEW s \in Nat, NEW t \in Nat PROVE BC(s, t) \in Members
  <2> DEFINE sq == s * PrimeQ
             tq == t * PrimeQ
  <2>1. BC(s, t) \in Units /\ BC(s, t) = Committed(s, t)
    BY CommitmentsAreUnits, CommittedIs
  <2>2. Power(Committed(s, t), PrimeQ, PrimeP) = Committed(sq, tq)
    BY CommittedToPower
  <2>3. /\ sq \in Nat /\ tq \in Nat
        /\ sq = PrimeQ * s + 0 /\ tq = PrimeQ * t + 0
    OBVIOUS
  <2>4. (PrimeQ * s + 0) % PrimeQ = 0 /\ (PrimeQ * t + 0) % PrimeQ = 0
    BY RemainderUnique
  <2> HIDE DEF sq, tq
  <2>5. sq % PrimeQ = 0 /\ tq % PrimeQ = 0
    BY <2>3, <2>4
  <2>6. Committed(sq, tq) = Committed(sq % PrimeQ, tq % PrimeQ)
    BY <2>3, CommittedIs
  <2> QED
    BY <2>1, <2>2, <2>5, <2>6, CommittedIs DEF Members
<1> QED
  BY <1>1, <1>2

-----------------------------------------------------------------------------
(* Folds over a finite set, which take the elements in an order of their   *)
(* own.                                                                    *)

Picked(s) == CHOOSE x \in s : TRUE

LEMMA PickedIs ==
  ASSUME NEW D, IsFiniteSet(D), NEW s \in SUBSET D, s # {}
  PROVE  /\ Picked(s) \in s /\ Picked(s) \in D
         /\ s \ {Picked(s)} \in SUBSET D
         /\ Cardinality(s) \in Nat /\ Cardinality(s \ {Picked(s)}) \in Nat
         /\ Cardinality(s) = Cardinality(s \ {Picked(s)}) + 1
<1>1. Picked(s) \in s
  BY DEF Picked
<1>2. IsFiniteSet(s)
  BY FS_Subset
<1>3. IsFiniteSet(s \ {Picked(s)})
  BY <1>2, FS_RemoveElement
<1>4. Cardinality(s) \in Nat /\ Cardinality(s \ {Picked(s)}) \in Nat
  BY <1>2, <1>3, FS_CardinalityType
<1>5. Cardinality(s \ {Picked(s)}) = Cardinality(s) - 1
  BY <1>1, <1>2, FS_RemoveElement
<1> QED
  BY <1>1, <1>4, <1>5

(* What fails for a set fails for one where it first goes wrong.           *)
LEMMA MinimalSubset ==
  ASSUME NEW D, IsFiniteSet(D), NEW Bad \in SUBSET SUBSET D, Bad # {}
  PROVE  \E s \in Bad : \A x \in s : s \ {x} \notin Bad
<1> DEFINE Sizes == {Cardinality(s) : s \in Bad}
<1>1. \A s \in SUBSET D : IsFiniteSet(s) /\ Cardinality(s) \in Nat
  BY FS_Subset, FS_CardinalityType
<1>2. Sizes \in SUBSET Nat /\ Sizes # {}
  BY <1>1
<1>3. PICK n \in Sizes : \A k \in Sizes : n <= k
  BY <1>2, LeastNatural
<1>4. PICK s \in Bad : n = Cardinality(s)
  OBVIOUS
<1>5. ASSUME NEW x \in s, s \ {x} \in Bad PROVE FALSE
  <2>1. Cardinality(s \ {x}) \in Sizes
    BY <1>5
  <2>2. n <= Cardinality(s \ {x})
    BY <1>3, <2>1
  <2>3. IsFiniteSet(s) /\ Cardinality(s) \in Nat
    BY <1>1
  <2>4. Cardinality(s \ {x}) = Cardinality(s) - 1
    BY <2>3, FS_RemoveElement
  <2> QED
    BY <1>4, <2>2, <2>3, <2>4
<1> QED
  BY <1>4, <1>5

LEMMA LeastSubset ==
  ASSUME NEW D, IsFiniteSet(D), NEW Bad \in SUBSET SUBSET D, Bad # {},
         {} \notin Bad
  PROVE  \E s \in Bad : s # {} /\ s \ {Picked(s)} \notin Bad
<1>1. PICK s \in Bad : \A x \in s : s \ {x} \notin Bad
  BY MinimalSubset
<1>2. s # {} /\ s \in SUBSET D
  OBVIOUS
<1>3. Picked(s) \in s
  BY <1>2 DEF Picked
<1> QED
  BY <1>1, <1>2, <1>3

(* Sets of at most n elements, and a fold over them.                       *)
UpTo(D, n) == {s \in SUBSET D : Cardinality(s) <= n}

Folded(step, base, sets, iter) ==
  iter = [s \in sets |-> IF s = {} THEN base
                         ELSE step[Picked(s)][iter[s \ {Picked(s)}]]]

LEMMA FoldsExist ==
  ASSUME NEW D, IsFiniteSet(D), NEW V, NEW base \in V,
         NEW step \in [D -> [V -> V]]
  PROVE  \E iter \in [SUBSET D -> V] : Folded(step, base, SUBSET D, iter)
<1> DEFINE Has(n) == \E iter \in [UpTo(D, n) -> V] :
                       Folded(step, base, UpTo(D, n), iter)
           Bad == {n \in Nat : ~ Has(n)}
<1>1. Bad = {}
  <2> SUFFICES ASSUME Bad # {} PROVE FALSE
    OBVIOUS
  <2>1. PICK n \in Bad : \A k \in Bad : n <= k
    BY LeastNatural
  <2>2. n \in Nat /\ ~ Has(n)
    OBVIOUS
  <2>3. CASE n = 0
    <3> DEFINE iter == [s \in UpTo(D, 0) |-> base]
    <3>1. ASSUME NEW s \in UpTo(D, 0) PROVE s = {}
      <4>1. s \in SUBSET D /\ Cardinality(s) <= 0
        BY DEF UpTo
      <4>2. IsFiniteSet(s)
        BY <4>1, FS_Subset
      <4>3. Cardinality(s) \in Nat
        BY <4>2, FS_CardinalityType
      <4>4. Cardinality(s) = 0
        BY <4>1, <4>3
      <4> QED
        BY <4>2, <4>4, FS_EmptySet
    <3>2. Folded(step, base, UpTo(D, 0), iter)
      BY <3>1 DEF Folded
    <3>3. iter \in [UpTo(D, 0) -> V]
      OBVIOUS
    <3> QED
      BY <2>2, <2>3, <3>2, <3>3
  <2>4. CASE n # 0
    <3>1. n - 1 \in Nat /\ n - 1 \notin Bad
      BY <2>1, <2>2, <2>4
    <3>2. PICK low \in [UpTo(D, n - 1) -> V] :
            Folded(step, base, UpTo(D, n - 1), low)
      BY <3>1
    <3> DEFINE iter == [s \in UpTo(D, n) |->
                          IF s = {} THEN base
                          ELSE step[Picked(s)][low[s \ {Picked(s)}]]]
    <3>3. \A s \in UpTo(D, n) :
            s # {} => /\ Picked(s) \in D
                      /\ s \ {Picked(s)} \in UpTo(D, n - 1)
                      /\ s \ {Picked(s)} \in UpTo(D, n)
      BY <2>2, PickedIs DEF UpTo
    <3>4. iter \in [UpTo(D, n) -> V]
      <4> SUFFICES ASSUME NEW s \in UpTo(D, n), s # {}
                   PROVE  step[Picked(s)][low[s \ {Picked(s)}]] \in V
        OBVIOUS
      <4>1. low[s \ {Picked(s)}] \in V /\ Picked(s) \in D
        BY <3>3
      <4> QED
        BY <4>1
    <3>5. \A s \in UpTo(D, n - 1) : s \in UpTo(D, n) /\ iter[s] = low[s]
      <4> SUFFICES ASSUME NEW s \in UpTo(D, n - 1)
                   PROVE  s \in UpTo(D, n) /\ iter[s] = low[s]
        OBVIOUS
      <4>1. s \in UpTo(D, n)
        BY <2>2, FS_Subset, FS_CardinalityType DEF UpTo
      <4>2. low[s] = IF s = {} THEN base
                     ELSE step[Picked(s)][low[s \ {Picked(s)}]]
        BY <3>2 DEF Folded
      <4> QED
        BY <4>1, <4>2
    <3>6. \A s \in UpTo(D, n) :
            s # {} => iter[s \ {Picked(s)}] = low[s \ {Picked(s)}]
      BY <3>3, <3>5
    <3>7. Folded(step, base, UpTo(D, n), iter)
      BY <3>6 DEF Folded
    <3> QED
      BY <2>2, <3>4, <3>7
  <2> QED
    BY <2>3, <2>4
<1>2. Cardinality(D) \in Nat
  BY FS_CardinalityType
<1>3. UpTo(D, Cardinality(D)) = SUBSET D
  BY FS_Subset DEF UpTo
<1>4. Has(Cardinality(D))
  BY <1>1, <1>2
<1> QED
  BY <1>3, <1>4

(* What the folds of the model compute: products modulo m and sums.        *)
Product(f, m, D, P) ==
  /\ P \in [SUBSET D -> Nat]
  /\ P[{}] = 1
  /\ \A s \in SUBSET D :
       s # {} => P[s] = Times(f[Picked(s)], P[s \ {Picked(s)}], m)

TotalOf(f, D, P) ==
  /\ P \in [SUBSET D -> Nat]
  /\ P[{}] = 0
  /\ \A s \in SUBSET D : s # {} => P[s] = f[Picked(s)] + P[s \ {Picked(s)}]

LEMMA ProductIs ==
  ASSUME NEW D, IsFiniteSet(D), NEW f \in [D -> Int], NEW m \in Nat, m > 1
  PROVE  \E P : Product(f, m, D, P) /\ ProductMod(f, m) = P[D]
<1> DEFINE Is(P) == P = [s \in SUBSET D |->
                           IF s = {} THEN 1
                           ELSE (f[Picked(s)] * P[s \ {Picked(s)}]) % m]
           step == [x \in D |-> [acc \in Nat |-> Times(f[x], acc, m)]]
           P == CHOOSE P : Is(P)
<1>1. step \in [D -> [Nat -> Nat]]
  BY TimesOfInt
<1>2. PICK iter \in [SUBSET D -> Nat] : Folded(step, 1, SUBSET D, iter)
  BY <1>1, FoldsExist
<1>3. \A s \in SUBSET D :
        iter[s] = IF s = {} THEN 1
                  ELSE step[Picked(s)][iter[s \ {Picked(s)}]]
  BY <1>2 DEF Folded
<1>4. \A s \in SUBSET D :
        iter[s] = IF s = {} THEN 1
                  ELSE (f[Picked(s)] * iter[s \ {Picked(s)}]) % m
  BY <1>3, PickedIs DEF Times
<1>5. Is(iter)
  BY <1>4
<1>6. Is(P)
  BY <1>5
<1>7. ProductMod(f, m) = P[D]
  BY DEF ProductMod, FoldFunction, FoldFunctionOnSet, MapThenFoldSet, Picked
<1> HIDE DEF P
<1>8. /\ P[{}] = 1
      /\ \A s \in SUBSET D :
           s # {} => P[s] = Times(f[Picked(s)], P[s \ {Picked(s)}], m)
  BY <1>6 DEF Times
<1>9. ASSUME NEW s \in SUBSET D PROVE P[s] \in Nat
  <2> DEFINE Bad == {r \in SUBSET D : P[r] \notin Nat}
  <2> SUFFICES ASSUME Bad # {} PROVE FALSE
    OBVIOUS
  <2>1. {} \notin Bad
    BY <1>8
  <2>2. PICK r \in Bad : r # {} /\ r \ {Picked(r)} \notin Bad
    BY <2>1, LeastSubset
  <2> DEFINE fr == f[Picked(r)]
             pr == P[r \ {Picked(r)}]
  <2>3. fr \in Int /\ pr \in Nat /\ P[r] = Times(fr, pr, m)
    <3>1. Picked(r) \in D /\ r \ {Picked(r)} \in SUBSET D
      BY <2>2, PickedIs
    <3>2. r \ {Picked(r)} \notin Bad
      BY <2>2
    <3> QED
      BY <1>8, <2>2, <3>1, <3>2
  <2> HIDE DEF fr, pr
  <2>4. Times(fr, pr, m) \in Nat
    BY <2>3, TimesOfInt
  <2>5. P[r] \in Nat
    BY <2>3, <2>4
  <2> QED
    BY <2>5
<1>10. P \in [SUBSET D -> Nat]
  BY <1>6, <1>9
<1> QED
  BY <1>7, <1>8, <1>10 DEF Product

LEMMA SumIs ==
  ASSUME NEW D, IsFiniteSet(D), NEW f \in [D -> Nat]
  PROVE  \E P : TotalOf(f, D, P) /\ SumFunction(f) = P[D]
<1> DEFINE Is(P) == P = [s \in SUBSET D |->
                           IF s = {} THEN 0
                           ELSE f[Picked(s)] + P[s \ {Picked(s)}]]
           step == [x \in D |-> [acc \in Nat |-> f[x] + acc]]
           P == CHOOSE P : Is(P)
<1>1. step \in [D -> [Nat -> Nat]]
  OBVIOUS
<1>2. PICK iter \in [SUBSET D -> Nat] : Folded(step, 0, SUBSET D, iter)
  BY <1>1, FoldsExist
<1>3. \A s \in SUBSET D :
        iter[s] = IF s = {} THEN 0
                  ELSE step[Picked(s)][iter[s \ {Picked(s)}]]
  BY <1>2 DEF Folded
<1>4. \A s \in SUBSET D :
        iter[s] = IF s = {} THEN 0
                  ELSE f[Picked(s)] + iter[s \ {Picked(s)}]
  BY <1>3, PickedIs
<1>5. Is(iter)
  BY <1>4
<1>6. Is(P)
  BY <1>5
<1>7. SumFunction(f) = P[D]
  BY DEF SumFunction, SumFunctionOnSet, FoldFunctionOnSet, MapThenFoldSet,
         Picked
<1> HIDE DEF P
<1>8. /\ P[{}] = 0
      /\ \A s \in SUBSET D :
           s # {} => P[s] = f[Picked(s)] + P[s \ {Picked(s)}]
  BY <1>6
<1>9. ASSUME NEW s \in SUBSET D PROVE P[s] \in Nat
  <2> DEFINE Bad == {r \in SUBSET D : P[r] \notin Nat}
  <2> SUFFICES ASSUME Bad # {} PROVE FALSE
    OBVIOUS
  <2>1. {} \notin Bad
    BY <1>8
  <2>2. PICK r \in Bad : r # {} /\ r \ {Picked(r)} \notin Bad
    BY <2>1, LeastSubset
  <2>3. P[r \ {Picked(r)}] \in Nat /\ f[Picked(r)] \in Nat
    BY <2>2, PickedIs
  <2>4. P[r] = f[Picked(r)] + P[r \ {Picked(r)}]
    BY <1>8, <2>2
  <2>5. P[r] \in Nat
    BY <2>3, <2>4
  <2> QED
    BY <2>5
<1>10. P \in [SUBSET D -> Nat]
  BY <1>6, <1>9
<1> QED
  BY <1>7, <1>8, <1>10 DEF TotalOf

(* A sum does not depend on the order, nor on what it does not reach.      *)
AnyOrder(f, D, P) ==
  \A s \in SUBSET D : \A x \in s : P[s] = f[x] + P[s \ {x}]

LEMMA TotalInAnyOrder ==
  ASSUME NEW D, IsFiniteSet(D), NEW f \in [D -> Nat], NEW P, TotalOf(f, D, P)
  PROVE  AnyOrder(f, D, P)
<1> DEFINE Bad == {s \in SUBSET D : \E x \in s : P[s] # f[x] + P[s \ {x}]}
<1> SUFFICES ASSUME Bad # {} PROVE FALSE
  BY DEF AnyOrder
<1>1. PICK s \in Bad : \A x \in s : s \ {x} \notin Bad
  BY MinimalSubset
<1>2. s \in SUBSET D
  OBVIOUS
<1>3. PICK x \in s : P[s] # f[x] + P[s \ {x}]
  OBVIOUS
<1> DEFINE p == Picked(s)
           r == (s \ {p}) \ {x}
<1>4. p \in s /\ P[s] = f[p] + P[s \ {p}]
  BY <1>2, PickedIs DEF TotalOf
<1>5. p # x
  BY <1>3, <1>4
<1>6. s \ {p} \notin Bad /\ s \ {x} \notin Bad
  BY <1>1, <1>4
<1> HIDE DEF p
<1>7. P[s \ {p}] = f[x] + P[r]
  BY <1>2, <1>5, <1>6
<1>8. (s \ {x}) \ {p} = r
  OBVIOUS
<1>9. P[s \ {x}] = f[p] + P[(s \ {x}) \ {p}]
  BY <1>2, <1>4, <1>5, <1>6
<1>10. r \in SUBSET D /\ p \in D /\ x \in D
  BY <1>2, <1>4
<1>11. f[p] \in Nat /\ f[x] \in Nat /\ P[r] \in Nat
  BY <1>10 DEF TotalOf
<1>12. P[s \ {x}] = f[p] + P[r]
  BY <1>8, <1>9
<1> DEFINE fp == f[p]
           fx == f[x]
           pr == P[r]
<1> HIDE DEF r, Bad
<1>13. P[s] = fp + (fx + pr) /\ P[s] # fx + (fp + pr)
  BY <1>3, <1>4, <1>7, <1>12
<1>14. fp \in Nat /\ fx \in Nat /\ pr \in Nat
  BY <1>11
<1> HIDE DEF fp, fx, pr
<1> QED
  BY <1>13, <1>14

AgreeOn(f, g, E) == \A i \in E : f[i] = g[i]

LEMMA TotalOfPart ==
  ASSUME NEW D, IsFiniteSet(D), NEW E \in SUBSET D,
         NEW f, NEW P, TotalOf(f, D, P), NEW g, NEW Q, TotalOf(g, E, Q),
         AgreeOn(f, g, E)
  PROVE  P[E] = Q[E]
<1> DEFINE Bad == {s \in SUBSET E : P[s] # Q[s]}
<1> SUFFICES ASSUME Bad # {} PROVE FALSE
  OBVIOUS
<1>0. IsFiniteSet(E)
  BY FS_Subset
<1>1. {} \notin Bad
  BY DEF TotalOf
<1>2. PICK s \in Bad : s # {} /\ s \ {Picked(s)} \notin Bad
  BY <1>0, <1>1, LeastSubset
<1>3. s \in SUBSET E /\ s \in SUBSET D /\ P[s] # Q[s]
  OBVIOUS
<1> DEFINE i == Picked(s)
           r == s \ {i}
<1>4. i \in E /\ r \in SUBSET E /\ r \notin Bad
  BY <1>0, <1>2, PickedIs
<1>5. P[r] = Q[r] /\ f[i] = g[i]
  BY <1>4 DEF AgreeOn
<1>6. P[s] = f[i] + P[r]
  BY <1>2, <1>3 DEF TotalOf
<1>7. Q[s] = g[i] + Q[r]
  BY <1>2, <1>3 DEF TotalOf
<1> HIDE DEF i, r, Bad
<1> QED
  BY <1>3, <1>5, <1>6, <1>7

(* A product of products, and a product of commitments. *)
LEMMA ProductOfProducts ==
  ASSUME NEW D, IsFiniteSet(D), NEW m \in Nat, m > 1,
         NEW u \in [D -> Nat], NEW v \in [D -> Nat], NEW w \in [D -> Nat],
         \A i \in D : w[i] = Times(u[i], v[i], m),
         NEW U, Product(u, m, D, U),
         NEW V, Product(v, m, D, V),
         NEW W, Product(w, m, D, W)
  PROVE  \A s \in SUBSET D : W[s] = Times(U[s], V[s], m)
<1> DEFINE Bad == {s \in SUBSET D : W[s] # Times(U[s], V[s], m)}
<1> SUFFICES ASSUME Bad # {} PROVE FALSE
  OBVIOUS
<1>1. {} \notin Bad
  BY TimesIs DEF Product
<1>2. PICK s \in Bad : s # {} /\ s \ {Picked(s)} \notin Bad
  BY <1>1, LeastSubset
<1>3. s \in SUBSET D /\ W[s] # Times(U[s], V[s], m)
  OBVIOUS
<1> DEFINE i == Picked(s)
           r == s \ {Picked(s)}
<1>4. i \in D /\ r \in SUBSET D /\ r \notin Bad
  BY <1>2, PickedIs
<1>5. W[r] = Times(U[r], V[r], m)
  BY <1>4
<1>6. /\ W[s] = Times(w[i], W[r], m)
      /\ U[s] = Times(u[i], U[r], m)
      /\ V[s] = Times(v[i], V[r], m)
  BY <1>2, <1>3 DEF Product
<1>7. u[i] \in Nat /\ v[i] \in Nat /\ U[r] \in Nat /\ V[r] \in Nat
  BY <1>4 DEF Product
<1>8. w[i] = Times(u[i], v[i], m)
  BY <1>4
<1> DEFINE a == u[i]
           b == v[i]
           c == U[r]
           d == V[r]
<1>9. Times(Times(a, b, m), Times(c, d, m), m) =
        Times(Times(a, c, m), Times(b, d, m), m)
  <2> HIDE DEF a, b, c, d
  <2>1. a \in Nat /\ b \in Nat /\ c \in Nat /\ d \in Nat
    BY <1>7 DEF a, b, c, d
  <2> QED
    BY <2>1, TimesShuffled
<1> HIDE DEF Bad, i, r
<1> QED
  BY <1>3, <1>5, <1>6, <1>8, <1>9

LEMMA ProductOfCommitted ==
  ASSUME NEW D, IsFiniteSet(D),
         NEW u \in [D -> Nat], NEW v \in [D -> Nat], NEW w \in [D -> Nat],
         \A i \in D : w[i] = Committed(u[i], v[i]),
         NEW U, TotalOf(u, D, U),
         NEW V, TotalOf(v, D, V),
         NEW W, Product(w, PrimeP, D, W)
  PROVE  \A s \in SUBSET D : W[s] = Committed(U[s], V[s])
<1> DEFINE Bad == {s \in SUBSET D : W[s] # Committed(U[s], V[s])}
<1> SUFFICES ASSUME Bad # {} PROVE FALSE
  OBVIOUS
<1>1. {} \notin Bad
  BY CommittedIs DEF Product, TotalOf
<1>2. PICK s \in Bad : s # {} /\ s \ {Picked(s)} \notin Bad
  BY <1>1, LeastSubset
<1>3. s \in SUBSET D /\ W[s] # Committed(U[s], V[s])
  OBVIOUS
<1> DEFINE i == Picked(s)
           r == s \ {Picked(s)}
<1>4. i \in D /\ r \in SUBSET D /\ r \notin Bad
  BY <1>2, PickedIs
<1>5. W[r] = Committed(U[r], V[r])
  BY <1>4
<1>6. W[s] = Times(w[i], W[r], PrimeP)
  BY <1>2, <1>3 DEF Product
<1>7. U[s] = u[i] + U[r] /\ V[s] = v[i] + V[r]
  BY <1>2, <1>3 DEF TotalOf
<1>8. u[i] \in Nat /\ v[i] \in Nat /\ U[r] \in Nat /\ V[r] \in Nat
  BY <1>4 DEF TotalOf
<1>9. w[i] = Committed(u[i], v[i])
  BY <1>4
<1>10. Committed(u[i] + U[r], v[i] + V[r]) =
         Times(Committed(u[i], v[i]), Committed(U[r], V[r]), PrimeP)
  BY <1>8, CommittedAdds
<1> HIDE DEF Bad, i, r
<1> QED
  BY <1>3, <1>5, <1>6, <1>7, <1>9, <1>10

-----------------------------------------------------------------------------
(* Shares and proofs.                                                      *)

Coefficients == 1 .. T + 1

LEMMA CoefficientsFinite ==
  IsFiniteSet(Coefficients) /\ \A i \in Coefficients : i - 1 \in Nat
<1>1. T \in Nat
  BY Moduli
<1>2. IsFiniteSet(Coefficients)
  BY <1>1, FS_Interval DEF Coefficients
<1>3. \A i \in Coefficients : i - 1 \in Nat
  BY <1>1 DEF Coefficients
<1> QED
  BY <1>2, <1>3

(* One commitment, raised to the power VerifyShare raises it to.           *)
LEMMA CommitmentAtPoint ==
  ASSUME NEW a \in Nat, NEW b \in Nat, NEW x \in Nat, NEW e \in Nat
  PROVE  Power(BC(a, b), Power(x, e, 0), PrimeP) =
           Committed(a * Power(x, e, PrimeQ), b * Power(x, e, PrimeQ))
<1> DEFINE z == Power(x, e, 0)
           y == Power(x, e, PrimeQ)
<1>0. PrimeQ > 1
  BY SharingAssumption DEF MinParties
<1>1. z \in Nat /\ y = z % PrimeQ
  BY <1>0, Moduli, PowerUnreduced, PowerReducedLater
<1>2. y \in Nat
  BY <1>1, Moduli, Remainder
<1> HIDE DEF z, y
<1>3. Power(BC(a, b), z, PrimeP) = Committed(a * z, b * z)
  BY <1>1, CommittedIs, CommittedToPower
<1>4. (a * y) % PrimeQ = (a * z) % PrimeQ
  BY <1>1, Moduli, FactorReduced
<1>5. (b * y) % PrimeQ = (b * z) % PrimeQ
  BY <1>1, Moduli, FactorReduced
<1>6. a * z \in Nat /\ b * z \in Nat /\ a * y \in Nat /\ b * y \in Nat
  BY <1>1, <1>2
<1>7. Committed(a * z, b * z) =
        Committed((a * z) % PrimeQ, (b * z) % PrimeQ)
  BY <1>6, CommittedIs
<1>8. Committed(a * y, b * y) =
        Committed((a * y) % PrimeQ, (b * y) % PrimeQ)
  BY <1>6, CommittedIs
<1> QED
  BY <1>3, <1>4, <1>5, <1>7, <1>8 DEF y, z

(* VerifyShare accepts every share that is dealt, whatever the polynomials *)
(* and the point are.                                                      *)
THEOREM DealtShareMatches ==
  ASSUME NEW f \in [Coefficients -> Field], NEW g \in [Coefficients -> Field],
         NEW x \in Nat
  PROVE  MatchesCommitments(Share(x, f, g), Commitments(f, g))
<1> DEFINE D  == Coefficients
           fx == [i \in D |-> f[i] * Power(x, i - 1, PrimeQ)]
           gx == [i \in D |-> g[i] * Power(x, i - 1, PrimeQ)]
           c  == [i \in D |-> Power(BC(f[i], g[i]), Power(x, i - 1, 0), PrimeP)]
<1>1. \A i \in D : f[i] \in Nat /\ g[i] \in Nat /\ i - 1 \in Nat
  BY Moduli, CoefficientsFinite
<1>2. \A i \in D : Power(x, i - 1, PrimeQ) \in Nat
  BY <1>1, Moduli, PowerType
<1>3. fx \in [D -> Nat] /\ gx \in [D -> Nat]
  BY <1>1, <1>2
<1>4. \A i \in D : c[i] = Committed(fx[i], gx[i])
  BY <1>1, CommitmentAtPoint
<1>5. c \in [D -> Nat]
  BY <1>3, <1>4, CommittedIs
<1>6. /\ DOMAIN f = D /\ DOMAIN g = D
      /\ Commitments(f, g) = [i \in D |-> BC(f[i], g[i])]
  BY DEF Commitments
<1>7. ProductMod([i \in DOMAIN Commitments(f, g) |->
                    Power(Commitments(f, g)[i], Power(x, i - 1, 0), PrimeP)],
                 PrimeP) = ProductMod(c, PrimeP)
  <2>1. [i \in DOMAIN Commitments(f, g) |->
           Power(Commitments(f, g)[i], Power(x, i - 1, 0), PrimeP)] = c
    BY <1>6
  <2> QED
    BY <2>1
<1>8. /\ Share(x, f, g).S = SumFunction(fx) % PrimeQ
      /\ Share(x, f, g).T = SumFunction(gx) % PrimeQ
      /\ Share(x, f, g).Point = x
  BY <1>6 DEF Share, Polynomial
<1> HIDE DEF fx, gx, c
<1>9. PICK F : TotalOf(fx, D, F) /\ SumFunction(fx) = F[D]
  BY <1>3, CoefficientsFinite, SumIs
<1>10. PICK E : TotalOf(gx, D, E) /\ SumFunction(gx) = E[D]
  BY <1>3, CoefficientsFinite, SumIs
<1>11. PICK C : Product(c, PrimeP, D, C) /\ ProductMod(c, PrimeP) = C[D]
  BY <1>5, CoefficientsFinite, Moduli, ProductIs
<1>12. C[D] = Committed(F[D], E[D])
  BY <1>3, <1>4, <1>5, <1>9, <1>10, <1>11, CoefficientsFinite,
     ProductOfCommitted
<1> DEFINE k == F[D]
           l == E[D]
<1>13. BC(k % PrimeQ, l % PrimeQ) = Committed(k, l)
  <2>1. k \in Nat /\ l \in Nat
    BY <1>9, <1>10 DEF TotalOf
  <2> HIDE DEF k, l
  <2>2. k % PrimeQ \in Nat /\ l % PrimeQ \in Nat
    BY <2>1, Moduli, Remainder
  <2> QED
    BY <2>1, <2>2, CommittedIs
<1> QED
  BY <1>7, <1>8, <1>9, <1>10, <1>11, <1>12, <1>13 DEF MatchesCommitments

(* A share and a proof as a server keeps them. *)
ShareAt(x) == [Point : {x}, S : Field, T : Field]
Proofs == [Coefficients -> Units]

(* Polynomials of any length. *)
LEMMA DealtIsTypedOn ==
  ASSUME NEW n \in Nat, NEW f \in [1 .. n -> Field], NEW g \in [1 .. n -> Field],
         NEW x \in Nat
  PROVE  Share(x, f, g) \in ShareAt(x) /\ Commitments(f, g) \in [1 .. n -> Units]
<1>1. \A i \in 1 .. n : f[i] \in Nat /\ g[i] \in Nat /\ i - 1 \in Nat
  <2>1. \A i \in 1 .. n : f[i] \in Field /\ g[i] \in Field
    OBVIOUS
  <2>2. \A i \in 1 .. n : i - 1 \in Nat
    OBVIOUS
  <2> QED
    BY <2>1, <2>2, Moduli
<1>2. ASSUME NEW k \in [1 .. n -> Field]
      PROVE  Polynomial(x, k) \in Field
  <2> DEFINE kx == [i \in 1 .. n |-> k[i] * Power(x, i - 1, PrimeQ)]
  <2>1. ASSUME NEW i \in 1 .. n
        PROVE  k[i] \in Nat /\ Power(x, i - 1, PrimeQ) \in Nat
    <3>1. k[i] \in Field /\ i - 1 \in Nat
      BY <1>1
    <3> QED
      BY <3>1, Moduli, PowerType
  <2>2. kx \in [1 .. n -> Nat]
    BY <2>1
  <2>3. Polynomial(x, k) = SumFunction(kx) % PrimeQ
    BY DEF Polynomial
  <2>0. IsFiniteSet(1 .. n)
    BY FS_Interval
  <2> HIDE DEF kx
  <2>4. PICK K : /\ TotalOf(kx, 1 .. n, K)
                 /\ SumFunction(kx) = K[1 .. n]
    BY <2>0, <2>2, SumIs
  <2>5. SumFunction(kx) \in Nat
    BY <2>4 DEF TotalOf
  <2> QED
    BY <2>3, <2>5, Moduli, Remainder DEF Field
<1>3. Share(x, f, g) \in ShareAt(x)
  BY <1>2 DEF Share, ShareAt
<1>4. Commitments(f, g) \in [1 .. n -> Units]
  BY <1>1, CommitmentsAreUnits DEF Commitments
<1> QED
  BY <1>3, <1>4

LEMMA DealtIsTyped ==
  ASSUME NEW f \in [Coefficients -> Field], NEW g \in [Coefficients -> Field],
         NEW x \in Nat
  PROVE  Share(x, f, g) \in ShareAt(x) /\ Commitments(f, g) \in Proofs
<1>1. T + 1 \in Nat
  BY Moduli
<1> QED
  BY <1>1, DealtIsTypedOn DEF Coefficients, Proofs

(* A matching share, by the product that VerifyShare computes. *)
RaisedAt(x, proofs) ==
  [i \in Coefficients |-> Power(proofs[i], Power(x, i - 1, 0), PrimeP)]

LEMMA MatchingIs ==
  ASSUME NEW x \in Nat, NEW a \in ShareAt(x), NEW c \in Proofs
  PROVE  /\ RaisedAt(x, c) \in [Coefficients -> Nat]
         /\ a.S \in Nat /\ a.T \in Nat
         /\ MatchesCommitments(a, c) <=>
              Committed(a.S, a.T) = ProductMod(RaisedAt(x, c), PrimeP)
<1>1. \A i \in Coefficients : c[i] \in Nat /\ i - 1 \in Nat
  BY CoefficientsFinite DEF Proofs, Units
<1>2. \A i \in Coefficients : Power(x, i - 1, 0) \in Nat
  BY <1>1, PowerUnreduced
<1>3. RaisedAt(x, c) \in [Coefficients -> Nat]
  BY <1>1, <1>2, Moduli, PowerType DEF RaisedAt
<1>4. a.S \in Nat /\ a.T \in Nat /\ a.Point = x
  BY Moduli DEF ShareAt
<1>5. BC(a.S, a.T) = Committed(a.S, a.T)
  BY <1>4, CommittedIs
<1>6. [i \in DOMAIN c |-> Power(c[i], Power(a.Point, i - 1, 0), PrimeP)] =
        RaisedAt(x, c)
  BY <1>4 DEF RaisedAt, Proofs
<1> QED
  BY <1>3, <1>4, <1>5, <1>6 DEF MatchesCommitments

LEMMA CommittedSum ==
  ASSUME NEW k \in Nat, NEW l \in Nat, NEW m \in Nat, NEW n \in Nat
  PROVE  /\ (k + m) % PrimeQ \in Field /\ (l + n) % PrimeQ \in Field
         /\ Committed((k + m) % PrimeQ, (l + n) % PrimeQ) =
              Times(Committed(k, l), Committed(m, n), PrimeP)
<1>1. k + m \in Nat /\ l + n \in Nat
  OBVIOUS
<1>2. (k + m) % PrimeQ \in Field /\ (l + n) % PrimeQ \in Field
  BY <1>1, Moduli, Remainder DEF Field
<1>3. Committed((k + m) % PrimeQ, (l + n) % PrimeQ) = Committed(k + m, l + n)
  BY <1>1, CommittedIs
<1>4. Committed(k + m, l + n) =
        Times(Committed(k, l), Committed(m, n), PrimeP)
  BY CommittedAdds
<1> QED
  BY <1>2, <1>3, <1>4

(* ActiveArithmetic.Add keeps a share and its proof together: the sum of   *)
(* two shares matches the product of their commitments.                    *)
THEOREM SumOfMatchingMatches ==
  ASSUME NEW x \in Nat, NEW a \in ShareAt(x), NEW b \in ShareAt(x),
         NEW c \in Proofs, NEW d \in Proofs,
         MatchesCommitments(a, c), MatchesCommitments(b, d)
  PROVE  /\ Add(a, b, c, d).share \in ShareAt(x)
         /\ Add(a, b, c, d).proof \in Proofs
         /\ MatchesCommitments(Add(a, b, c, d).share, Add(a, b, c, d).proof)
<1> DEFINE k == a.S
           l == a.T
           m == b.S
           n == b.T
           s == (k + m) % PrimeQ
           t == (l + n) % PrimeQ
           sh == [a EXCEPT !.S = s, !.T = t]
           e == [i \in Coefficients |-> Times(c[i], d[i], PrimeP)]
<1>1. e \in Proofs
  BY UnitsMultiply DEF Proofs
<1>2. c # <<>> /\ d # <<>>
  <2>1. 1 \in Coefficients
    BY Moduli DEF Coefficients
  <2>2. DOMAIN c = Coefficients /\ DOMAIN d = Coefficients
    BY DEF Proofs
  <2>3. DOMAIN <<>> = {}
    OBVIOUS
  <2> QED
    BY <2>1, <2>2, <2>3
<1>3. /\ Add(a, b, c, d).share = sh
      /\ Add(a, b, c, d).proof = e
  BY <1>2 DEF Add, Proofs, Times, ShareAt
<1>4. a.S \in Nat /\ a.T \in Nat /\ b.S \in Nat /\ b.T \in Nat
  BY MatchingIs
<1>5. /\ s \in Field /\ t \in Field
      /\ Committed(s, t) = Times(Committed(k, l), Committed(m, n), PrimeP)
  <2>1. k \in Nat /\ l \in Nat /\ m \in Nat /\ n \in Nat
    BY <1>4
  <2> HIDE DEF k, l, m, n
  <2> QED
    BY <2>1, CommittedSum
<1>6. sh \in ShareAt(x) /\ sh.S = s /\ sh.T = t
  BY <1>5 DEF ShareAt
<1> DEFINE u == RaisedAt(x, c)
           v == RaisedAt(x, d)
           w == RaisedAt(x, e)
<1>7. /\ u \in [Coefficients -> Nat] /\ v \in [Coefficients -> Nat]
      /\ w \in [Coefficients -> Nat]
  BY <1>1, <1>6, MatchingIs
<1>8. ASSUME NEW i \in Coefficients
       PROVE  w[i] = Times(u[i], v[i], PrimeP)
  <2>1. i - 1 \in Nat /\ c[i] \in Nat /\ d[i] \in Nat
    BY CoefficientsFinite DEF Proofs, Units
  <2>2. Power(x, i - 1, 0) \in Nat
    BY <2>1, PowerUnreduced
  <2>3. Power(Times(c[i], d[i], PrimeP), Power(x, i - 1, 0), PrimeP) =
          Times(Power(c[i], Power(x, i - 1, 0), PrimeP),
                Power(d[i], Power(x, i - 1, 0), PrimeP), PrimeP)
    BY <2>1, <2>2, Moduli, PowerOfTimes
  <2> QED
    BY <2>3 DEF RaisedAt
<1> HIDE DEF s, t, sh, e, u, v, w
<1>9. PICK U : Product(u, PrimeP, Coefficients, U)
                /\ ProductMod(u, PrimeP) = U[Coefficients]
  BY <1>7, CoefficientsFinite, Moduli, ProductIs
<1>10. PICK V : Product(v, PrimeP, Coefficients, V)
                /\ ProductMod(v, PrimeP) = V[Coefficients]
  BY <1>7, CoefficientsFinite, Moduli, ProductIs
<1>11. PICK W : Product(w, PrimeP, Coefficients, W)
                /\ ProductMod(w, PrimeP) = W[Coefficients]
  BY <1>7, CoefficientsFinite, Moduli, ProductIs
<1>12. W[Coefficients] = Times(U[Coefficients], V[Coefficients], PrimeP)
  BY <1>7, <1>8, <1>9, <1>10, <1>11, CoefficientsFinite, Moduli,
     ProductOfProducts
<1>13. /\ Committed(a.S, a.T) = U[Coefficients]
       /\ Committed(b.S, b.T) = V[Coefficients]
  BY <1>9, <1>10, MatchingIs DEF u, v
<1>14. Committed(sh.S, sh.T) = ProductMod(w, PrimeP)
  BY <1>5, <1>6, <1>11, <1>12, <1>13
<1>15. MatchesCommitments(sh, e)
  BY <1>1, <1>6, <1>14, MatchingIs DEF w
<1> QED
  BY <1>1, <1>3, <1>6, <1>15

-----------------------------------------------------------------------------
(* Reconstruction.  The rest of the module is one argument.  With weights  *)
(* of Lagrange, points m give to values v the value AtZero(m, v) at zero.  *)
(* For any b of m the weights with and without b are tied together         *)
(* (LagrangeWithout), and so are the values at zero:                       *)
(*   AtZero(m, x * v) + b * AtZero(m \ {b}, v) = b * AtZero(m, v)          *)
(* modulo PrimeQ.  With v constant and two points for b, all-one values    *)
(* give 1 (AtZeroOfOnes); with v a power, k-th powers give 0 when there    *)
(* are more than k points (AtZeroOfPowers).  A polynomial is a sum of      *)
(* powers, and all but its constant term vanish (AtZeroOfPolynomial).      *)

-----------------------------------------------------------------------------
(* Integers modulo a number, and modulo PrimeQ.                            *)

(* Two integers are the same modulo m.                                     *)
Congruent(x, y, m) == x % m = y % m

LEMMA CongruentDifference ==
  ASSUME NEW m \in Nat \ {0}, NEW x \in Int, NEW y \in Int, Congruent(x, y, m)
  PROVE  \E k \in Int : x = m * k + y
<1> DEFINE kx == x \div m
           ky == y \div m
           rx == x % m
           ry == y % m
<1>1. kx \in Int /\ rx \in Nat /\ x = m * kx + rx
  BY IntRemainder
<1>2. ky \in Int /\ ry \in Nat /\ y = m * ky + ry
  BY IntRemainder
<1>3. rx = ry
  BY DEF Congruent
<1> HIDE DEF kx, ky, rx, ry
<1>4. kx - ky \in Int /\ x = m * (kx - ky) + y
  BY <1>1, <1>2, <1>3
<1> QED
  BY <1>4

LEMMA CongruentByMultiple ==
  ASSUME NEW m \in Nat \ {0}, NEW x \in Int, NEW y \in Int, NEW k \in Int,
         x = m * k + y
  PROVE  Congruent(x, y, m)
<1> DEFINE ky == y \div m
           ry == y % m
<1>1. ky \in Int /\ ry \in Nat /\ ry < m /\ y = m * ky + ry
  BY IntRemainder
<1> HIDE DEF ky, ry
<1>2. k + ky \in Int /\ x = m * (k + ky) + ry
  BY <1>1
<1>3. (m * (k + ky) + ry) % m = ry
  BY <1>1, <1>2, IntRemainderUnique
<1> QED
  BY <1>2, <1>3 DEF ry, Congruent

LEMMA CongruentSums ==
  ASSUME NEW m \in Nat \ {0},
         NEW x \in Int, NEW y \in Int, NEW u \in Int, NEW v \in Int,
         Congruent(x, y, m), Congruent(u, v, m)
  PROVE  Congruent(x + u, y + v, m)
<1> DEFINE a == x + u
           b == y + v
<1>1. PICK k \in Int : x = m * k + y
  BY CongruentDifference
<1>2. PICK l \in Int : u = m * l + v
  BY CongruentDifference
<1>3. k + l \in Int /\ a = m * (k + l) + b /\ a \in Int /\ b \in Int
  BY <1>1, <1>2
<1> HIDE DEF a, b
<1>4. Congruent(a, b, m)
  BY <1>3, CongruentByMultiple
<1> QED
  BY <1>4 DEF a, b

LEMMA CongruentProducts ==
  ASSUME NEW m \in Nat \ {0},
         NEW x \in Int, NEW y \in Int, NEW u \in Int, NEW v \in Int,
         Congruent(x, y, m), Congruent(u, v, m)
  PROVE  Congruent(x * u, y * v, m)
<1> DEFINE a == x * u
           b == y * v
<1>1. PICK k \in Int : x = m * k + y
  BY CongruentDifference
<1>2. PICK l \in Int : u = m * l + v
  BY CongruentDifference
<1> DEFINE ku == k * u
           ly == l * y
<1>3. a = m * ku + y * u
  BY <1>1
<1>4. y * u = m * ly + b
  BY <1>2
<1>5. ku \in Int /\ ly \in Int /\ a \in Int /\ b \in Int
  OBVIOUS
<1> HIDE DEF a, b, ku, ly
<1>6. ku + ly \in Int /\ a = m * (ku + ly) + b
  BY <1>3, <1>4, <1>5
<1>7. Congruent(a, b, m)
  BY <1>5, <1>6, CongruentByMultiple
<1> QED
  BY <1>7 DEF a, b

(* Two integers are the same modulo PrimeQ.                                *)
Same(x, y) == x % PrimeQ = y % PrimeQ

LEMMA SameIsCongruent ==
  \A x, y : Same(x, y) <=> Congruent(x, y, PrimeQ)
BY DEF Same, Congruent

LEMMA SameDifference ==
  ASSUME NEW x \in Int, NEW y \in Int, Same(x, y)
  PROVE  \E k \in Int : x = PrimeQ * k + y
BY Moduli, SameIsCongruent, CongruentDifference

LEMMA SameByMultiple ==
  ASSUME NEW x \in Int, NEW y \in Int, NEW k \in Int, x = PrimeQ * k + y
  PROVE  Same(x, y)
BY Moduli, SameIsCongruent, CongruentByMultiple

LEMMA SameSums ==
  ASSUME NEW x \in Int, NEW y \in Int, NEW u \in Int, NEW v \in Int,
         Same(x, y), Same(u, v)
  PROVE  Same(x + u, y + v)
BY Moduli, SameIsCongruent, CongruentSums

LEMMA SameProducts ==
  ASSUME NEW x \in Int, NEW y \in Int, NEW u \in Int, NEW v \in Int,
         Same(x, y), Same(u, v)
  PROVE  Same(x * u, y * v)
BY Moduli, SameIsCongruent, CongruentProducts

LEMMA SameRemainder ==
  ASSUME NEW x \in Int
  PROVE  /\ x % PrimeQ \in Field /\ x % PrimeQ \in Int
         /\ Same(x % PrimeQ, x)
<1>0. PrimeQ \in Nat \ {0}
  BY Moduli
<1>1. x % PrimeQ \in Nat /\ x % PrimeQ < PrimeQ
  BY <1>0, IntRemainder
<1>2. (x % PrimeQ) % PrimeQ = x % PrimeQ
  BY <1>0, <1>1, RemainderOfSmall
<1> QED
  BY <1>0, <1>1, <1>2 DEF Same, Field

LEMMA FieldIsItsRemainder ==
  ASSUME NEW x \in Field
  PROVE  x % PrimeQ = x /\ x \in Int /\ x \in Nat
<1> QED
  BY Moduli, RemainderOfSmall DEF Field

-----------------------------------------------------------------------------
(* Inverses, and the field modulo PrimeQ.                                  *)

(* m has no divisors. *)
Undivided(m) == \A d \in 2 .. m - 1 : m % d # 0

(* The least positive multiple of a number divides m.                      *)
LEMMA InverseExists ==
  ASSUME NEW m \in Nat, m > 1, Undivided(m), NEW a \in 1 .. m - 1
  PROVE  /\ ModInverse(a, m) \in 0 .. m - 1
         /\ Congruent(a * ModInverse(a, m), 1, m)
<1> DEFINE Multiples == {e \in Nat \ {0} : \E x \in Nat : Congruent(a * x, e, m)}
<1>0. m \in Nat \ {0} /\ m > 1 /\ a \in Nat
  OBVIOUS
<1>1. a \in Multiples
  <2>1. a * 1 = a
    BY <1>0
  <2> QED
    BY <1>0, <2>1 DEF Congruent
<1>2. PICK e \in Multiples : \A k \in Multiples : e <= k
  <2>1. Multiples \in SUBSET Nat /\ Multiples # {}
    BY <1>1
  <2> QED
    BY <2>1, LeastNatural
<1>3. PICK x \in Nat : Congruent(a * x, e, m)
  OBVIOUS
<1>4. e \in Nat \ {0} /\ e < m
  <2>1. e <= a
    BY <1>1, <1>2
  <2> QED
    BY <1>0, <2>1
<1> DEFINE k == m \div e
           r == m % e
<1>5. k \in Nat /\ r \in Nat /\ r < e /\ m = e * k + r
  BY <1>0, <1>4, Remainder
<1> HIDE DEF k, r
<1>6. r = 0
  <2> DEFINE l == k * (m - 1)
             n == e * k - 1
             ax == a * x
             xl == x * l
  <2>1. l \in Nat /\ n \in Int /\ ax \in Nat /\ xl \in Nat /\ a * xl = ax * l
    BY <1>0, <1>5
  <2>2. e * l = m * n + r
    <3>1. e * l = (e * k) * m - e * k
      BY <1>0, <1>4, <1>5
    <3>2. e * k = m - r
      BY <1>0, <1>4, <1>5
    <3>3. m * n = (e * k) * m - m
      BY <1>0, <1>4, <1>5
    <3> QED
      BY <1>0, <1>5, <3>1, <3>2, <3>3
  <2> DEFINE el == e * l
  <2>3. /\ el \in Int /\ r \in Int /\ n \in Int /\ m \in Nat \ {0}
        /\ el = m * n + r
    BY <1>0, <1>4, <1>5, <2>1, <2>2
  <2> HIDE DEF l, n, xl, el
  <2>4. Congruent(el, r, m)
    BY <2>3, CongruentByMultiple
  <2>5. Congruent(ax, e, m)
    BY <1>3
  <2> HIDE DEF ax
  <2>6. Congruent(ax * l, e * l, m)
    <3>1. Congruent(l, l, m) /\ l \in Int /\ ax \in Int /\ e \in Int
      BY <1>4, <2>1 DEF Congruent
    <3> QED
      BY <2>5, <3>1, CongruentProducts
  <2>7. Congruent(a * xl, r, m)
    BY <2>1, <2>4, <2>6 DEF Congruent, el
  <2>8. r # 0 => r \in Multiples
    BY <1>5, <2>1, <2>7
  <2>9. \A j \in Multiples : e <= j
    BY <1>2
  <2> HIDE DEF Multiples
  <2> QED
    BY <1>4, <1>5, <2>8, <2>9
<1>7. e = 1
  <2> SUFFICES ASSUME e # 1 PROVE FALSE
    OBVIOUS
  <2>1. e \in 2 .. m - 1
    BY <1>0, <1>4
  <2>2. m % e = 0
    BY <1>6 DEF r
  <2> QED
    BY <2>1, <2>2 DEF Undivided
<1> DEFINE w == x % m
<1>8. w \in 0 .. m - 1
  BY <1>0, Remainder
<1>9. (a * w) % m = 1
  <2>1. (a * w) % m = (a * x) % m
    BY <1>0, FactorReduced
  <2>2. (a * x) % m = 1 % m
    BY <1>3, <1>7 DEF Congruent
  <2>3. 1 % m = 1
    BY <1>0, RemainderOfSmall
  <2> QED
    BY <2>1, <2>2, <2>3
<1> HIDE DEF w
<1>10. \E v \in 0 .. m - 1 : (a * v) % m = 1
  BY <1>8, <1>9
<1>11. /\ ModInverse(a, m) \in 0 .. m - 1
       /\ (a * ModInverse(a, m)) % m = 1
  BY <1>10 DEF ModInverse
<1>12. 1 % m = 1
  BY <1>0, RemainderOfSmall
<1> QED
  BY <1>11, <1>12 DEF Congruent

LEMMA FieldInverse ==
  ASSUME NEW a \in 1 .. PrimeQ - 1
  PROVE  /\ ModInverse(a, PrimeQ) \in Field
         /\ Same(a * ModInverse(a, PrimeQ), 1)
<1>1. PrimeQ \in Nat /\ PrimeQ > 1 /\ Undivided(PrimeQ)
  BY PrimeOrder, SharingAssumption DEF MinParties, Undivided
<1> QED
  BY <1>1, InverseExists, SameIsCongruent DEF Field

LEMMA FieldCancels ==
  ASSUME NEW a \in Int, ~ Same(a, 0), NEW x \in Int, NEW y \in Int,
         Same(a * x, a * y)
  PROVE  Same(x, y)
<1> DEFINE b == a % PrimeQ
           v == ModInverse(b, PrimeQ)
           ax == a * x
           ay == a * y
           va == v * a
<1>0. PrimeQ \in Nat \ {0} /\ 0 % PrimeQ = 0 /\ Field \subseteq Int
  BY Moduli
<1>1. b \in Field /\ b \in Int /\ Same(b, a)
  BY SameRemainder
<1>2. b \in 1 .. PrimeQ - 1
  BY <1>0, <1>1 DEF Same, Field
<1> HIDE DEF b
<1>3. v \in Int /\ Same(b * v, 1)
  BY <1>0, <1>2, FieldInverse
<1> HIDE DEF v
<1>4. Same(b * v, a * v)
  <2>1. Same(v, v)
    BY DEF Same
  <2> QED
    BY <1>1, <1>3, <2>1, SameProducts
<1>5. va \in Int /\ Same(va, 1)
  BY <1>3, <1>4 DEF Same
<1>6. ASSUME NEW z \in Int PROVE Same(v * (a * z), z)
  <2>1. v * (a * z) = va * z /\ 1 * z = z
    BY <1>3
  <2> HIDE DEF va
  <2>2. Same(z, z)
    BY DEF Same
  <2>3. Same(va * z, 1 * z)
    BY <1>5, <2>2, SameProducts
  <2> QED
    BY <2>1, <2>3
<1>7. ax \in Int /\ ay \in Int /\ Same(ax, ay) /\ Same(v, v)
  BY DEF Same
<1>8. Same(v * ax, x) /\ Same(v * ay, y)
  BY <1>6
<1> HIDE DEF ax, ay
<1>9. Same(v * ax, v * ay)
  BY <1>3, <1>7, SameProducts
<1> QED
  BY <1>8, <1>9 DEF Same

LEMMA FieldHasNoDivisors ==
  ASSUME NEW a \in Int, ~ Same(a, 0), NEW b \in Int, ~ Same(b, 0)
  PROVE  ~ Same(a * b, 0)
<1>1. a * 0 = 0
  OBVIOUS
<1>2. ~ Same(a * b, a * 0)
  BY FieldCancels
<1> QED
  BY <1>1, <1>2

(* What is added on both sides can be taken away. *)
LEMMA SumCancels ==
  ASSUME NEW a \in Int, NEW x \in Int, NEW y \in Int, Same(x + a, y + a)
  PROVE  Same(x, y)
<1> DEFINE xa == x + a
           ya == y + a
<1>0. xa \in Int /\ ya \in Int /\ PrimeQ \in Nat /\ Same(xa, ya)
  BY Moduli
<1> HIDE DEF xa, ya
<1>1. PICK k \in Int : xa = PrimeQ * k + ya
  BY <1>0, SameDifference
<1>2. x = PrimeQ * k + y
  BY <1>0, <1>1 DEF xa, ya
<1> QED
  BY <1>2, SameByMultiple

(* Points are different modulo PrimeQ. *)
LEMMA PointsDiffer ==
  ASSUME NEW i \in Points, NEW j \in Points
  PROVE  /\ i \in Int /\ -j \in Int /\ i - j \in Int
         /\ ~ Same(-j, 0)
         /\ i # j => ~ Same(i - j, 0)
<1>1. /\ i \in Nat /\ j \in Nat /\ PrimeQ \in Nat \ {0}
      /\ 0 < i /\ i < PrimeQ /\ 0 < j /\ j < PrimeQ
  BY SharingAssumption, Moduli DEF Points
<1>2. ASSUME NEW d \in Int, -PrimeQ < d, d < PrimeQ, d # 0, Same(d, 0)
      PROVE  FALSE
  <2>1. PICK k \in Int : d = PrimeQ * k + 0
    BY <1>2, SameDifference
  <2>2. k = 0 \/ k >= 1 \/ k <= -1
    OBVIOUS
  <2>3. k >= 1 => PrimeQ * k >= PrimeQ
    BY <1>1
  <2>4. k <= -1 => PrimeQ * k <= -PrimeQ
    BY <1>1
  <2>5. PrimeQ * 0 = 0
    BY <1>1
  <2> QED
    BY <1>1, <1>2, <2>1, <2>2, <2>3, <2>4, <2>5
<1>3. -j \in Int /\ i - j \in Int
  BY <1>1
<1>4. -PrimeQ < -j /\ -j < PrimeQ /\ -j # 0
  BY <1>1
<1>5. -PrimeQ < i - j /\ i - j < PrimeQ /\ (i # j => i - j # 0)
  BY <1>1
<1>6. ~ Same(-j, 0)
  BY <1>2, <1>3, <1>4
<1>7. i # j => ~ Same(i - j, 0)
  BY <1>2, <1>3, <1>5
<1> QED
  BY <1>1, <1>3, <1>6, <1>7

LEMMA PointsAre ==
  /\ IsFiniteSet(Points) /\ Points \subseteq Nat
  /\ PrimeQ \in Nat \ {0} /\ PrimeQ > 1
<1>1. IsFiniteSet(Points)
  BY Moduli, FS_Interval DEF Points
<1> QED
  BY <1>1, Moduli, SharingAssumption DEF Points, MinParties

-----------------------------------------------------------------------------
(* Sums and products over a part of a function's domain.                   *)

Part(f, s) == [i \in s |-> f[i]]
SumOn(f, s) == SumFunction(Part(f, s))
ProductOn(f, s) == ProductMod(Part(f, s), PrimeQ)

LEMMA PartIs ==
  ASSUME NEW D, IsFiniteSet(D), NEW V, NEW f \in [D -> V], NEW s \in SUBSET D
  PROVE  /\ IsFiniteSet(s) /\ Part(f, s) \in [s -> V]
         /\ Part(f, D) = f
         /\ AgreeOn(f, Part(f, s), s)
BY FS_Subset DEF Part, AgreeOn

LEMMA SumOnNothing == ASSUME NEW f PROVE SumOn(f, {}) = 0
<1> DEFINE g == Part(f, {})
<1>1. g \in [{} -> Nat]
  BY DEF Part
<1> HIDE DEF g
<1>2. PICK P : TotalOf(g, {}, P) /\ SumFunction(g) = P[{}]
  BY <1>1, FS_EmptySet, SumIs
<1> QED
  BY <1>2 DEF TotalOf, SumOn, g

LEMMA SumOnIs ==
  ASSUME NEW D, IsFiniteSet(D), NEW f \in [D -> Nat], NEW P, TotalOf(f, D, P),
         NEW s \in SUBSET D
  PROVE  SumOn(f, s) = P[s]
<1> DEFINE g == Part(f, s)
<1>1. IsFiniteSet(s) /\ g \in [s -> Nat] /\ AgreeOn(f, g, s)
  BY PartIs
<1> HIDE DEF g
<1>2. PICK Q : TotalOf(g, s, Q) /\ SumFunction(g) = Q[s]
  BY <1>1, SumIs
<1>3. P[s] = Q[s]
  BY <1>1, <1>2, TotalOfPart
<1> QED
  BY <1>2, <1>3 DEF SumOn, g

LEMMA SumOnWithout ==
  ASSUME NEW D, IsFiniteSet(D), NEW f \in [D -> Nat], NEW s \in SUBSET D
  PROVE  /\ SumOn(f, s) \in Nat
         /\ \A b \in s : /\ f[b] \in Nat /\ SumOn(f, s \ {b}) \in Nat
                         /\ SumOn(f, s) = f[b] + SumOn(f, s \ {b})
<1>1. PICK P : TotalOf(f, D, P)
  BY SumIs
<1>2. AnyOrder(f, D, P)
  BY <1>1, TotalInAnyOrder
<1>3. ASSUME NEW r \in SUBSET D PROVE SumOn(f, r) = P[r] /\ P[r] \in Nat
  <2>1. SumOn(f, r) = P[r]
    BY <1>1, SumOnIs
  <2>2. P[r] \in Nat
    BY <1>1 DEF TotalOf
  <2> QED
    BY <2>1, <2>2
<1>4. ASSUME NEW b \in s
      PROVE  /\ f[b] \in Nat /\ SumOn(f, s \ {b}) \in Nat
             /\ SumOn(f, s) = f[b] + SumOn(f, s \ {b})
  <2>1. s \ {b} \in SUBSET D /\ b \in D
    OBVIOUS
  <2>2. P[s] = f[b] + P[s \ {b}]
    BY <1>2 DEF AnyOrder
  <2> QED
    BY <1>3, <2>1, <2>2
<1> QED
  BY <1>3, <1>4

(* A sum of products with constants.                                       *)
Combination(f, d, h, c, g, D, m) ==
  \A i \in D : Congruent(f[i] + d * h[i], c * g[i], m)

LEMMA CombinedSums ==
  ASSUME NEW m \in Nat \ {0}, NEW D, IsFiniteSet(D), NEW f \in [D -> Nat], NEW g \in [D -> Nat],
         NEW h \in [D -> Nat], NEW c \in Int, NEW d \in Int,
         Combination(f, d, h, c, g, D, m)
  PROVE  Congruent(SumOn(f, D) + d * SumOn(h, D), c * SumOn(g, D), m)
<1> DEFINE Bad == {s \in SUBSET D :
                     ~ Congruent(SumOn(f, s) + d * SumOn(h, s), c * SumOn(g, s), m)}
<1> SUFFICES ASSUME Bad # {} PROVE FALSE
  OBVIOUS
<1>1. {} \notin Bad
  <2>1. 0 + d * 0 = 0 /\ c * 0 = 0
    OBVIOUS
  <2> QED
    BY <2>1, SumOnNothing DEF Congruent
<1>2. PICK s \in Bad : s # {} /\ s \ {Picked(s)} \notin Bad
  BY <1>1, LeastSubset
<1> DEFINE b == Picked(s)
           r == s \ {b}
<1>3. s \in SUBSET D /\ b \in s /\ b \in D /\ r \in SUBSET D
  BY <1>2, PickedIs
<1> HIDE DEF b
<1>4. Congruent(SumOn(f, r) + d * SumOn(h, r), c * SumOn(g, r), m)
  BY <1>2, <1>3 DEF b
<1>5. ~ Congruent(SumOn(f, s) + d * SumOn(h, s), c * SumOn(g, s), m)
  OBVIOUS
<1> DEFINE fs == SumOn(f, r)
           hs == SumOn(h, r)
           gs == SumOn(g, r)
           fb == f[b]
           hb == h[b]
           gb == g[b]
<1>6. /\ fs \in Nat /\ hs \in Nat /\ gs \in Nat
      /\ fb \in Nat /\ hb \in Nat /\ gb \in Nat
      /\ SumOn(f, s) = fb + fs /\ SumOn(h, s) = hb + hs /\ SumOn(g, s) = gb + gs
  BY <1>3, SumOnWithout
<1>7. Congruent(fb + d * hb, c * gb, m)
  BY <1>3 DEF Combination
<1> HIDE DEF fs, hs, gs, fb, hb, gb, Bad, r
<1> DEFINE x == fb + d * hb
           y == c * gb
           u == fs + d * hs
           v == c * gs
<1>8. x \in Int /\ y \in Int /\ u \in Int /\ v \in Int
  BY <1>6
<1>9. Congruent(x, y, m) /\ Congruent(u, v, m)
  BY <1>4, <1>7 DEF fs, hs, gs
<1>10. (fb + fs) + d * (hb + hs) = x + u /\ c * (gb + gs) = y + v
  BY <1>6
<1> HIDE DEF x, y, u, v
<1>11. Congruent(x + u, y + v, m)
  BY <1>8, <1>9, CongruentSums
<1> QED
  BY <1>5, <1>6, <1>10, <1>11

Combined(f, d, h, c, g, D) ==
  \A i \in D : Same(f[i] + d * h[i], c * g[i])

LEMMA SumsCombine ==
  ASSUME NEW D, IsFiniteSet(D), NEW f \in [D -> Nat], NEW g \in [D -> Nat],
         NEW h \in [D -> Nat], NEW c \in Int, NEW d \in Int,
         Combined(f, d, h, c, g, D)
  PROVE  Same(SumOn(f, D) + d * SumOn(h, D), c * SumOn(g, D))
<1>1. Combination(f, d, h, c, g, D, PrimeQ)
  BY SameIsCongruent DEF Combined, Combination
<1> QED
  BY <1>1, Moduli, SameIsCongruent, CombinedSums

LEMMA IntTimes ==
  ASSUME NEW x \in Int, NEW y \in Nat
  PROVE  /\ Times(x, y, PrimeQ) \in Nat /\ Same(Times(x, y, PrimeQ), x * y)
         /\ \A z \in Int : Times(z, Times(x, y, PrimeQ), PrimeQ) =
                             Times(x, Times(z, y, PrimeQ), PrimeQ)
<1>1. ASSUME NEW u \in Int, NEW v \in Nat
      PROVE  /\ Times(u, v, PrimeQ) \in Nat
             /\ Same(Times(u, v, PrimeQ), u * v)
  <2> DEFINE uv == u * v
  <2>1. uv \in Int
    OBVIOUS
  <2>2. Times(u, v, PrimeQ) = uv % PrimeQ
    BY DEF Times
  <2> HIDE DEF uv
  <2>3. uv % PrimeQ \in Field /\ Same(uv % PrimeQ, uv)
    BY <2>1, SameRemainder
  <2> QED
    BY <2>2, <2>3, Moduli DEF uv
<1>2. ASSUME NEW z \in Int
      PROVE  Times(z, Times(x, y, PrimeQ), PrimeQ) =
               Times(x, Times(z, y, PrimeQ), PrimeQ)
  <2> DEFINE xy == x * y
             zy == z * y
             txy == Times(x, y, PrimeQ)
             tzy == Times(z, y, PrimeQ)
  <2>1. /\ txy \in Int /\ tzy \in Int /\ xy \in Int /\ zy \in Int
        /\ Same(txy, xy) /\ Same(tzy, zy) /\ z * xy = x * zy
    BY <1>1
  <2> HIDE DEF xy, zy, txy, tzy
  <2>2. Same(z, z) /\ Same(x, x)
    BY DEF Same
  <2>3. Same(z * txy, z * xy) /\ Same(x * tzy, x * zy)
    BY <2>1, <2>2, SameProducts
  <2>4. Same(z * txy, x * tzy)
    BY <2>1, <2>3 DEF Same
  <2> QED
    BY <2>4 DEF Same, Times, txy, tzy
<1> QED
  BY <1>1, <1>2

(* A product does not depend on the order either.                          *)
ProductAnyOrder(f, D, P) ==
  \A s \in SUBSET D : \A x \in s : P[s] = Times(f[x], P[s \ {x}], PrimeQ)

LEMMA ProductInAnyOrder ==
  ASSUME NEW D, IsFiniteSet(D), NEW f \in [D -> Int],
         NEW P, Product(f, PrimeQ, D, P)
  PROVE  ProductAnyOrder(f, D, P)
<1> DEFINE Bad == {s \in SUBSET D :
                     \E x \in s : P[s] # Times(f[x], P[s \ {x}], PrimeQ)}
<1> SUFFICES ASSUME Bad # {} PROVE FALSE
  BY DEF ProductAnyOrder
<1>1. PICK s \in Bad : \A x \in s : s \ {x} \notin Bad
  BY MinimalSubset
<1>2. s \in SUBSET D
  OBVIOUS
<1>3. PICK x \in s : P[s] # Times(f[x], P[s \ {x}], PrimeQ)
  OBVIOUS
<1> DEFINE p == Picked(s)
           r == (s \ {p}) \ {x}
<1>4. p \in s /\ P[s] = Times(f[p], P[s \ {p}], PrimeQ)
  BY <1>2, PickedIs DEF Product
<1>5. p # x
  BY <1>3, <1>4
<1>6. s \ {p} \notin Bad /\ s \ {x} \notin Bad
  BY <1>1, <1>4
<1> HIDE DEF p
<1>7. P[s \ {p}] = Times(f[x], P[r], PrimeQ)
  BY <1>2, <1>5, <1>6
<1>8. (s \ {x}) \ {p} = r
  OBVIOUS
<1>9. P[s \ {x}] = Times(f[p], P[(s \ {x}) \ {p}], PrimeQ)
  BY <1>2, <1>4, <1>5, <1>6
<1>10. r \in SUBSET D /\ p \in D /\ x \in D
  BY <1>2, <1>4
<1>11. f[p] \in Int /\ f[x] \in Int /\ P[r] \in Nat
  BY <1>10 DEF Product
<1>12. P[s \ {x}] = Times(f[p], P[r], PrimeQ)
  BY <1>8, <1>9
<1> DEFINE fp == f[p]
           fx == f[x]
           pr == P[r]
<1> HIDE DEF r, Bad
<1>13. /\ P[s] = Times(fp, Times(fx, pr, PrimeQ), PrimeQ)
       /\ P[s] # Times(fx, Times(fp, pr, PrimeQ), PrimeQ)
  BY <1>3, <1>4, <1>7, <1>12
<1>14. fp \in Int /\ fx \in Int /\ pr \in Nat
  BY <1>11
<1> HIDE DEF fp, fx, pr
<1> QED
  BY <1>13, <1>14, IntTimes

LEMMA ProductOfPart ==
  ASSUME NEW D, IsFiniteSet(D), NEW E \in SUBSET D,
         NEW f, NEW P, Product(f, PrimeQ, D, P),
         NEW g, NEW Q, Product(g, PrimeQ, E, Q), AgreeOn(f, g, E)
  PROVE  P[E] = Q[E]
<1> DEFINE Bad == {s \in SUBSET E : P[s] # Q[s]}
<1> SUFFICES ASSUME Bad # {} PROVE FALSE
  OBVIOUS
<1>0. IsFiniteSet(E)
  BY FS_Subset
<1>1. {} \notin Bad
  BY DEF Product
<1>2. PICK s \in Bad : s # {} /\ s \ {Picked(s)} \notin Bad
  BY <1>0, <1>1, LeastSubset
<1>3. s \in SUBSET E /\ s \in SUBSET D /\ P[s] # Q[s]
  OBVIOUS
<1> DEFINE i == Picked(s)
           r == s \ {i}
<1>4. i \in E /\ r \in SUBSET E /\ r \notin Bad
  BY <1>0, <1>2, PickedIs
<1>5. P[r] = Q[r] /\ f[i] = g[i]
  BY <1>4 DEF AgreeOn
<1>6. P[s] = Times(f[i], P[r], PrimeQ)
  BY <1>2, <1>3 DEF Product
<1>7. Q[s] = Times(g[i], Q[r], PrimeQ)
  BY <1>2, <1>3 DEF Product
<1> HIDE DEF i, r, Bad
<1> QED
  BY <1>3, <1>5, <1>6, <1>7

LEMMA ProductOnNothing == ASSUME NEW f PROVE ProductOn(f, {}) = 1
<1> DEFINE g == Part(f, {})
<1>1. g \in [{} -> Int]
  BY DEF Part
<1> HIDE DEF g
<1>2. PICK P : Product(g, PrimeQ, {}, P) /\ ProductMod(g, PrimeQ) = P[{}]
  BY <1>1, FS_EmptySet, PointsAre, ProductIs
<1> QED
  BY <1>2 DEF Product, ProductOn, g

LEMMA ProductOnIs ==
  ASSUME NEW D, IsFiniteSet(D), NEW f \in [D -> Int],
         NEW P, Product(f, PrimeQ, D, P), NEW s \in SUBSET D
  PROVE  ProductOn(f, s) = P[s]
<1> DEFINE g == Part(f, s)
<1>1. IsFiniteSet(s) /\ g \in [s -> Int] /\ AgreeOn(f, g, s)
  BY PartIs
<1> HIDE DEF g
<1>2. PICK Q : Product(g, PrimeQ, s, Q) /\ ProductMod(g, PrimeQ) = Q[s]
  BY <1>1, PointsAre, ProductIs
<1>3. P[s] = Q[s]
  BY <1>1, <1>2, ProductOfPart
<1> QED
  BY <1>2, <1>3 DEF ProductOn, g

LEMMA ProductOnWithout ==
  ASSUME NEW D, IsFiniteSet(D), NEW f \in [D -> Int], NEW s \in SUBSET D
  PROVE  /\ ProductOn(f, s) \in Nat
         /\ \A b \in s :
              /\ f[b] \in Int /\ ProductOn(f, s \ {b}) \in Nat
              /\ Same(ProductOn(f, s), f[b] * ProductOn(f, s \ {b}))
<1>1. PICK P : Product(f, PrimeQ, D, P)
  BY PointsAre, ProductIs
<1>2. ProductAnyOrder(f, D, P)
  BY <1>1, ProductInAnyOrder
<1>3. ASSUME NEW r \in SUBSET D PROVE ProductOn(f, r) = P[r] /\ P[r] \in Nat
  <2>1. ProductOn(f, r) = P[r]
    BY <1>1, ProductOnIs
  <2>2. P[r] \in Nat
    BY <1>1 DEF Product
  <2> QED
    BY <2>1, <2>2
<1>4. ASSUME NEW b \in s
      PROVE  /\ f[b] \in Int /\ ProductOn(f, s \ {b}) \in Nat
             /\ Same(ProductOn(f, s), f[b] * ProductOn(f, s \ {b}))
  <2>1. s \ {b} \in SUBSET D /\ b \in D /\ f[b] \in Int
    OBVIOUS
  <2>2. P[s] = Times(f[b], P[s \ {b}], PrimeQ)
    BY <1>2 DEF ProductAnyOrder
  <2>3. Same(P[s], f[b] * P[s \ {b}])
    BY <1>3, <2>1, <2>2, IntTimes
  <2> QED
    BY <1>3, <2>1, <2>3
<1> QED
  BY <1>3, <1>4

LEMMA ProductOfNonzero ==
  ASSUME NEW D, IsFiniteSet(D), NEW f \in [D -> Int],
         \A i \in D : ~ Same(f[i], 0)
  PROVE  ~ Same(ProductOn(f, D), 0)
<1> DEFINE Bad == {s \in SUBSET D : Same(ProductOn(f, s), 0)}
<1> SUFFICES ASSUME Bad # {} PROVE FALSE
  OBVIOUS
<1>1. {} \notin Bad
  <2>1. PrimeQ > 1 /\ PrimeQ \in Nat
    BY SharingAssumption DEF MinParties
  <2>2. 1 % PrimeQ = 1 /\ 0 % PrimeQ = 0
    BY <2>1
  <2> QED
    BY <2>2, ProductOnNothing DEF Same
<1>2. PICK s \in Bad : s # {} /\ s \ {Picked(s)} \notin Bad
  BY <1>1, LeastSubset
<1> DEFINE b == Picked(s)
           r == s \ {b}
<1>3. s \in SUBSET D /\ b \in s /\ b \in D /\ r \in SUBSET D
  BY <1>2, PickedIs
<1> DEFINE x == f[b]
           y == ProductOn(f, r)
<1> HIDE DEF b
<1>4. ~ Same(y, 0) /\ Same(ProductOn(f, s), 0)
  BY <1>2, <1>3 DEF b
<1>5. x \in Int /\ y \in Int /\ Same(ProductOn(f, s), x * y)
  BY <1>3, ProductOnWithout
<1>6. ~ Same(x, 0)
  BY <1>3
<1> HIDE DEF x, y
<1>7. ~ Same(x * y, 0)
  BY <1>4, <1>5, <1>6, FieldHasNoDivisors
<1> QED
  BY <1>4, <1>5, <1>7 DEF Same

-----------------------------------------------------------------------------
(* The weights of the shares.                                              *)

Negative == [j \in Points |-> -j]
From(i) == [j \in Points |-> i - j]

LEMMA ProductsInField ==
  ASSUME NEW D, IsFiniteSet(D), NEW f \in [D -> Int], NEW s \in SUBSET D
  PROVE  ProductOn(f, s) \in Field
<1>1. CASE s = {}
  <2>1. ProductOn(f, s) = 1
    BY <1>1, ProductOnNothing
  <2> QED
    BY <2>1, PointsAre DEF Field
<1>2. CASE s # {}
  <2>1. PICK P : Product(f, PrimeQ, D, P)
    BY PointsAre, ProductIs
  <2>2. ProductOn(f, s) = P[s]
    BY <2>1, ProductOnIs
  <2> DEFINE b == Picked(s)
             x == f[b]
             y == P[s \ {b}]
  <2>3. x \in Int /\ y \in Nat /\ P[s] = Times(x, y, PrimeQ)
    <3>1. b \in D /\ s \ {b} \in SUBSET D
      BY <1>2, PickedIs
    <3> QED
      BY <1>2, <2>1, <3>1 DEF Product
  <2> HIDE DEF x, y
  <2>4. x * y \in Int
    BY <2>3
  <2>5. (x * y) % PrimeQ \in Field
    BY <2>4, SameRemainder
  <2> QED
    BY <2>2, <2>3, <2>5 DEF Times
<1> QED
  BY <1>1, <1>2

LEMMA LagrangeIs ==
  ASSUME NEW i \in Points, NEW m \in SUBSET Points, i \notin m
  PROVE  /\ Lagrange(i, m) \in Field /\ Lagrange(i, m) \in Nat
         /\ ProductOn(From(i), m) \in Nat /\ ProductOn(Negative, m) \in Nat
         /\ ~ Same(ProductOn(From(i), m), 0)
         /\ Same(Lagrange(i, m) * ProductOn(From(i), m), ProductOn(Negative, m))
<1> DEFINE num == ProductOn(Negative, m)
           denom == ProductOn(From(i), m)
           inv == ModInverse(denom, PrimeQ)
           ni == num * inv
           di == denom * inv
<1>1. Negative \in [Points -> Int] /\ From(i) \in [Points -> Int]
  BY PointsAre DEF Negative, From
<1>2. /\ Part(Negative, m) = [j \in m |-> -j]
      /\ Part(From(i), m) = [j \in m |-> i - j]
  BY DEF Part, Negative, From
<1>3. Lagrange(i, m) = ni % PrimeQ
  BY <1>2 DEF Lagrange, ProductOn
<1>4. num \in Field /\ denom \in Field
  BY <1>1, PointsAre, ProductsInField
<1>5. ~ Same(denom, 0)
  <2> DEFINE g == Part(From(i), m)
  <2>1. IsFiniteSet(m) /\ g \in [m -> Int]
    BY <1>1, PointsAre, PartIs
  <2>2. ASSUME NEW j \in m PROVE ~ Same(g[j], 0)
    <3>1. g[j] = i - j /\ j \in Points /\ i # j
      BY <1>2
    <3> QED
      BY <3>1, PointsDiffer
  <2>3. Part(g, m) = g
    BY DEF Part
  <2> HIDE DEF g
  <2>4. ~ Same(ProductOn(g, m), 0)
    BY <2>1, <2>2, ProductOfNonzero
  <2>5. ProductOn(g, m) = denom
    BY <2>3 DEF ProductOn, g
  <2> HIDE DEF denom
  <2> QED
    BY <2>4, <2>5
<1> HIDE DEF num, denom
<1>6. denom \in 1 .. PrimeQ - 1
  BY <1>4, <1>5, PointsAre DEF Same, Field
<1>7. inv \in Field /\ Same(di, 1)
  BY <1>6, FieldInverse
<1>8. num \in Int /\ denom \in Nat /\ num \in Nat /\ inv \in Int /\ ni \in Int /\ di \in Int
  <2>1. num \in Nat /\ denom \in Nat /\ inv \in Nat
    BY <1>4, <1>7, Moduli
  <2> HIDE DEF inv
  <2> QED
    BY <2>1
<1> HIDE DEF inv
<1> DEFINE L == Lagrange(i, m)
<1>9. L \in Field /\ L \in Nat /\ L \in Int /\ Same(L, ni)
  BY <1>3, <1>8, SameRemainder, Moduli
<1>10. Same(L * denom, num)
  <2>1. ni * denom = num * di /\ num * 1 = num
    BY <1>8
  <2>2. Same(denom, denom) /\ Same(num, num) /\ denom \in Int
    BY <1>8 DEF Same
  <2> HIDE DEF L, ni, di
  <2>3. Same(L * denom, ni * denom)
    BY <1>8, <1>9, <2>2, SameProducts
  <2>4. Same(num * di, num * 1)
    BY <1>7, <1>8, <2>2, SameProducts
  <2> QED
    BY <2>1, <2>3, <2>4 DEF Same
<1> QED
  BY <1>5, <1>8, <1>9, <1>10 DEF num, denom

(* One point fewer. *)
LEMMA LagrangeWithout ==
  ASSUME NEW i \in Points, NEW m \in SUBSET Points, i \notin m, NEW b \in m
  PROVE  /\ Lagrange(i, m) \in Nat /\ Lagrange(i, m \ {b}) \in Nat
         /\ Same(i * Lagrange(i, m) + b * Lagrange(i, m \ {b}),
                 b * Lagrange(i, m))
<1> DEFINE r == m \ {b}
           L == Lagrange(i, m)
           K == Lagrange(i, r)
           d == ProductOn(From(i), m)
           n == ProductOn(Negative, m)
           e == ProductOn(From(i), r)
           o == ProductOn(Negative, r)
<1>1. Negative \in [Points -> Int] /\ From(i) \in [Points -> Int]
  BY PointsAre DEF Negative, From
<1>2. r \in SUBSET Points /\ i \notin r /\ b \in Points
  OBVIOUS
<1>3. /\ L \in Nat /\ d \in Nat /\ n \in Nat /\ Same(L * d, n)
      /\ K \in Nat /\ e \in Nat /\ o \in Nat /\ Same(K * e, o) /\ ~ Same(e, 0)
  <2> HIDE DEF r
  <2> QED
    BY <1>2, LagrangeIs
<1>4. From(i)[b] = i - b /\ Negative[b] = -b
  BY <1>2 DEF From, Negative
<1>5. Same(d, (i - b) * e) /\ Same(n, (-b) * o)
  BY <1>1, <1>4, PointsAre, ProductOnWithout
<1>6. i \in Int /\ b \in Int /\ i \in Nat /\ b \in Nat
  BY <1>2, PointsAre
<1> HIDE DEF L, K, d, n, e, o, r
<1> DEFINE ib == i - b
           bb == -b
<1>7. ib \in Int /\ bb \in Int
  BY <1>6
<1>8. Same(ib * L, bb * K)
  <2>1. Same(d, ib * e) /\ Same(n, bb * o)
    BY <1>5
  <2> HIDE DEF ib, bb
  <2> DEFINE ie == ib * e
             bo == bb * o
             Ke == K * e
             Ld == L * d
             x == ib * L
             y == bb * K
  <2>2. /\ ie \in Int /\ bo \in Int /\ Ke \in Int /\ Ld \in Int
        /\ x \in Int /\ y \in Int
        /\ L * ie = e * x /\ bb * Ke = e * y
    BY <1>3, <1>7
  <2>3. Same(Ld, n) /\ Same(Ke, o) /\ Same(d, ie) /\ Same(n, bo)
        /\ Same(L, L) /\ Same(bb, bb)
    BY <1>3, <2>1 DEF Same
  <2> HIDE DEF ie, Ke, x, y
  <2>4. Same(L * d, L * ie)
    BY <1>3, <2>2, <2>3, SameProducts
  <2>5. Same(bb * Ke, bb * o)
    BY <1>3, <1>7, <2>2, <2>3, SameProducts
  <2>6. Same(e * x, e * y)
    BY <2>2, <2>3, <2>4, <2>5 DEF Same
  <2>7. Same(x, y)
    BY <1>3, <2>2, <2>6, FieldCancels
  <2> QED
    BY <2>7 DEF x, y
<1>9. Same(i * L + b * K, b * L)
  <2> DEFINE x == ib * L
             y == bb * K
             z == b * L + b * K
  <2>1. x \in Int /\ y \in Int /\ z \in Int /\ Same(x, y) /\ Same(z, z)
    BY <1>3, <1>6, <1>7, <1>8 DEF Same
  <2>2. x + z = i * L + b * K /\ y + z = b * L
    BY <1>3, <1>6
  <2> HIDE DEF x, y, z
  <2>3. Same(x + z, y + z)
    BY <2>1, SameSums
  <2> QED
    BY <2>2, <2>3
<1> QED
  BY <1>3, <1>9 DEF L, K, r

-----------------------------------------------------------------------------
(* The value at zero that the points m give to the values v.               *)
Weight(m, i) == Lagrange(i, m \ {i})
Weighted(m, v) == [i \in m |-> Weight(m, i) * v[i]]
AtZero(m, v) == SumFunction(Weighted(m, v))

Values == [Points -> Nat]

LEMMA WeightedIs ==
  ASSUME NEW m \in SUBSET Points, NEW v \in Values
  PROVE  /\ IsFiniteSet(m) /\ Weighted(m, v) \in [m -> Nat]
         /\ \A i \in m : Weight(m, i) \in Nat /\ v[i] \in Nat
         /\ AtZero(m, v) = SumOn(Weighted(m, v), m)
         /\ AtZero(m, v) \in Nat
<1>1. IsFiniteSet(m)
  BY PointsAre, FS_Subset
<1>2. ASSUME NEW i \in m PROVE Weight(m, i) \in Nat /\ v[i] \in Nat
  <2>1. m \ {i} \in SUBSET Points /\ i \notin m \ {i} /\ i \in Points
    OBVIOUS
  <2> QED
    BY <2>1, LagrangeIs DEF Weight, Values
<1>3. Weighted(m, v) \in [m -> Nat]
  BY <1>2 DEF Weighted
<1> DEFINE f == Weighted(m, v)
<1>4. AtZero(m, v) = SumOn(f, m)
  <2>1. Part(f, m) = f
    BY DEF Part, Weighted
  <2> QED
    BY <2>1 DEF AtZero, SumOn
<1> HIDE DEF f
<1>5. SumOn(f, m) \in Nat
  BY <1>1, <1>3, SumOnWithout DEF f
<1> QED
  BY <1>1, <1>2, <1>3, <1>4, <1>5 DEF f

LEMMA AtZeroCombines ==
  ASSUME NEW m \in SUBSET Points, NEW u \in Values, NEW v \in Values,
         NEW w \in Values, NEW c \in Int, NEW d \in Int,
         Combined(u, d, v, c, w, Points)
  PROVE  Same(AtZero(m, u) + d * AtZero(m, v), c * AtZero(m, w))
<1> DEFINE f == Weighted(m, u)
           h == Weighted(m, v)
           g == Weighted(m, w)
<1>1. /\ f \in [m -> Nat] /\ h \in [m -> Nat] /\ g \in [m -> Nat]
      /\ IsFiniteSet(m)
      /\ AtZero(m, u) = SumOn(f, m) /\ AtZero(m, v) = SumOn(h, m)
      /\ AtZero(m, w) = SumOn(g, m)
  BY WeightedIs
<1>2. ASSUME NEW i \in m PROVE Same(f[i] + d * h[i], c * g[i])
  <2> DEFINE l == Weight(m, i)
             ui == u[i]
             vi == v[i]
             wi == w[i]
             x == ui + d * vi
             y == c * wi
  <2>1. f[i] = l * ui /\ h[i] = l * vi /\ g[i] = l * wi
    BY DEF Weighted
  <2>2. l \in Nat /\ ui \in Nat /\ vi \in Nat /\ wi \in Nat
    BY WeightedIs
  <2>3. Same(x, y)
    BY DEF Combined
  <2> HIDE DEF l, ui, vi, wi, f, g, h
  <2>4. x \in Int /\ y \in Int /\ l \in Int
    BY <2>2
  <2>5. l * ui + d * (l * vi) = l * x /\ c * (l * wi) = l * y
    BY <2>2
  <2> HIDE DEF x, y
  <2>6. Same(l, l)
    BY DEF Same
  <2>7. Same(l * x, l * y)
    BY <2>3, <2>4, <2>6, SameProducts
  <2> QED
    BY <2>1, <2>5, <2>7
<1> HIDE DEF f, g, h
<1>3. Combined(f, d, h, c, g, m)
  BY <1>2 DEF Combined
<1>4. Same(SumOn(f, m) + d * SumOn(h, m), c * SumOn(g, m))
  BY <1>1, <1>3, SumsCombine
<1> QED
  BY <1>1, <1>4

(* Values that are multiplied with their points. *)
TimesPoint(v, w) == \A i \in Points : Same(w[i], i * v[i])

LEMMA AtZeroTimesPoint ==
  ASSUME NEW m \in SUBSET Points, NEW b \in m, NEW v \in Values,
         NEW w \in Values, TimesPoint(v, w)
  PROVE  Same(AtZero(m, w) + b * AtZero(m \ {b}, v), b * AtZero(m, v))
<1> DEFINE r == m \ {b}
           f == Weighted(m, w)
           k == Weighted(r, v)
           g == Weighted(m, v)
           h == [i \in m |-> IF i = b THEN 0 ELSE k[i]]
<1>0. r \in SUBSET Points /\ b \in Points /\ b \in Nat
  BY PointsAre
<1>1. /\ f \in [m -> Nat] /\ g \in [m -> Nat] /\ IsFiniteSet(m)
      /\ AtZero(m, w) = SumOn(f, m) /\ AtZero(m, v) = SumOn(g, m)
  BY WeightedIs
<1>2. k \in [r -> Nat] /\ AtZero(r, v) = SumFunction(k)
  <2> HIDE DEF r
  <2>1. Weighted(r, v) \in [r -> Nat]
    BY <1>0, WeightedIs
  <2> QED
    BY <2>1 DEF AtZero
<1>3. h \in [m -> Nat] /\ h[b] = 0
  BY <1>2
<1>4. SumOn(h, m) = SumFunction(k)
  <2>1. Part(h, r) = k
    <3>1. k = [i \in r |-> k[i]]
      BY <1>2
    <3>2. Part(h, r) = [i \in r |-> k[i]]
      BY DEF Part
    <3> QED
      BY <3>1, <3>2
  <2> HIDE DEF h
  <2>2. /\ SumOn(h, m) = h[b] + SumOn(h, m \ {b})
        /\ SumOn(h, m \ {b}) \in Nat
    BY <1>1, <1>3, SumOnWithout
  <2>3. SumOn(h, r) = SumFunction(k)
    BY <2>1 DEF SumOn
  <2> HIDE DEF k
  <2> QED
    BY <1>3, <2>2, <2>3
<1>5. ASSUME NEW i \in m PROVE Same(f[i] + b * h[i], b * g[i])
  <2> DEFINE l == Weight(m, i)
             vi == v[i]
             wi == w[i]
             iv == i * vi
  <2>0. i \in Points /\ i \in Nat
    BY PointsAre
  <2>1. f[i] = l * wi /\ g[i] = l * vi
    BY DEF Weighted
  <2>2. l \in Nat /\ vi \in Nat /\ wi \in Nat
    BY WeightedIs
  <2>3. Same(wi, iv)
    BY <2>0 DEF TimesPoint
  <2>4. Same(l * wi, l * iv)
    <3> HIDE DEF l, vi, wi
    <3>1. Same(l, l) /\ l \in Int /\ wi \in Int /\ iv \in Int
      BY <2>0, <2>2 DEF Same
    <3> HIDE DEF iv
    <3> QED
      BY <2>3, <3>1, SameProducts
  <2>5. CASE i = b
    <3>1. h[i] = 0
      BY <1>3, <2>5
    <3> HIDE DEF f, g, h, l, vi, wi
    <3>2. l * wi + b * 0 = l * wi /\ l * iv = b * (l * vi)
      BY <1>0, <2>0, <2>2, <2>5
    <3> QED
      BY <2>1, <2>4, <3>1, <3>2
  <2>6. CASE i # b
    <3> DEFINE n == Weight(r, i)
    <3>1. i \in r
      BY <2>6
    <3>2. h[i] = n * vi
      BY <2>6, <3>1 DEF Weighted
    <3>3. n \in Nat
      <4> HIDE DEF r
      <4> QED
        BY <1>0, <3>1, WeightedIs
    <3>4. Same(i * l + b * n, b * l)
      <4> DEFINE M == m \ {i}
      <4>1. M \in SUBSET Points /\ i \notin M /\ b \in M /\ M \ {b} = r \ {i}
        BY <2>6
      <4>2. l = Lagrange(i, M) /\ n = Lagrange(i, M \ {b})
        BY <4>1 DEF Weight
      <4> HIDE DEF M, l, n
      <4>3. Same(i * Lagrange(i, M) + b * Lagrange(i, M \ {b}),
                 b * Lagrange(i, M))
        BY <2>0, <4>1, LagrangeWithout
      <4> QED
        BY <4>2, <4>3
    <3> HIDE DEF l, n, vi, wi, f, g, h, iv
    <3> DEFINE x == i * l + b * n
               y == b * l
    <3>5. x \in Int /\ y \in Int /\ vi \in Int
      BY <1>0, <2>0, <2>2, <3>3
    <3>6. Same(x * vi, y * vi)
      <4>1. Same(x, y) /\ Same(vi, vi)
        BY <3>4 DEF Same
      <4> HIDE DEF x, y
      <4> QED
        BY <3>5, <4>1, SameProducts
    <3> DEFINE p == l * wi
               q == l * iv
               z == b * (n * vi)
    <3>7. p \in Int /\ q \in Int /\ z \in Int
      BY <1>0, <2>0, <2>2, <3>3 DEF iv
    <3>8. q + z = x * vi /\ b * (l * vi) = y * vi
      BY <1>0, <2>0, <2>2, <3>3 DEF iv
    <3>9. Same(p, q) /\ Same(z, z)
      BY <2>4 DEF Same
    <3> HIDE DEF p, q, z, x, y
    <3>10. Same(p + z, q + z)
      BY <3>7, <3>9, SameSums
    <3> QED
      BY <2>1, <3>2, <3>6, <3>8, <3>10 DEF Same, p, z
  <2> QED
    BY <2>5, <2>6
<1> HIDE DEF f, g, h, k
<1>6. Combined(f, b, h, b, g, m)
  BY <1>5 DEF Combined
<1>7. Same(SumOn(f, m) + b * SumOn(h, m), b * SumOn(g, m))
  <2>1. b \in Int
    BY <1>0
  <2> QED
    BY <1>1, <1>3, <1>6, <2>1, SumsCombine
<1> QED
  BY <1>1, <1>2, <1>4, <1>7

(* Powers of the points. *)
Powers(k) == [i \in Points |-> Power(i, k, PrimeQ)]

LEMMA PowersAre ==
  ASSUME NEW k \in Nat
  PROVE  /\ Powers(k) \in Values
         /\ TimesPoint(Powers(k), Powers(k + 1))
         /\ \A i \in Points : Powers(0)[i] = 1
<1>1. ASSUME NEW i \in Points
      PROVE  /\ Power(i, k, PrimeQ) \in Nat
             /\ Power(i, 0, PrimeQ) = 1
             /\ Power(i, k + 1, PrimeQ) = (Power(i, k, PrimeQ) * i) % PrimeQ
  <2>1. i \in Nat /\ k + 1 \in Nat /\ k + 1 # 0 /\ (k + 1) - 1 = k
    BY PointsAre
  <2>2. 1 % PrimeQ = 1 /\ PrimeQ # 0
    BY PointsAre
  <2> QED
    BY <2>1, <2>2, PointsAre, PowerIs, PowerType DEF Reduced
<1>2. Powers(k) \in Values
  BY <1>1 DEF Powers, Values
<1>3. ASSUME NEW i \in Points
      PROVE  Same(Powers(k + 1)[i], i * Powers(k)[i])
  <2> DEFINE p == Power(i, k, PrimeQ)
             ip == i * p
  <2>1. p \in Nat /\ i \in Nat /\ ip \in Int /\ p * i = ip
    BY <1>1, PointsAre
  <2>2. Powers(k + 1)[i] = ip % PrimeQ
    BY <1>1, <2>1 DEF Powers
  <2> HIDE DEF ip
  <2>3. Same(ip % PrimeQ, ip)
    BY <2>1, SameRemainder
  <2> QED
    BY <2>2, <2>3 DEF ip, Powers
<1> QED
  BY <1>1, <1>2, <1>3 DEF TimesPoint, Powers

LEMMA TimesPointOnce ==
  ASSUME NEW k \in Nat, NEW m \in SUBSET Points, NEW b \in m
  PROVE  /\ b \in Nat /\ m \ {b} \in SUBSET Points
         /\ AtZero(m, Powers(k + 1)) \in Nat /\ AtZero(m, Powers(k)) \in Nat
         /\ AtZero(m \ {b}, Powers(k)) \in Nat
         /\ Same(AtZero(m, Powers(k + 1)) + b * AtZero(m \ {b}, Powers(k)),
                 b * AtZero(m, Powers(k)))
<1> DEFINE v == Powers(k)
           w == Powers(k + 1)
<1>1. v \in Values /\ w \in Values /\ TimesPoint(v, w)
  BY PowersAre
<1>2. b \in Nat /\ m \ {b} \in SUBSET Points
  BY PointsAre
<1> HIDE DEF v, w
<1>3. Same(AtZero(m, w) + b * AtZero(m \ {b}, v), b * AtZero(m, v))
  BY <1>1, AtZeroTimesPoint
<1>4. /\ AtZero(m, w) \in Nat /\ AtZero(m, v) \in Nat
      /\ AtZero(m \ {b}, v) \in Nat
  BY <1>1, <1>2, WeightedIs
<1> QED
  BY <1>2, <1>3, <1>4 DEF v, w

(* One point gives the value 1 when its own is 1.                          *)
LEMMA AtZeroOfOnePoint ==
  ASSUME NEW a \in Points
  PROVE  Same(AtZero({a}, Powers(0)), 1)
<1> DEFINE v == Powers(0)
           f == Weighted({a}, v)
           l == Lagrange(a, {})
<1>1. v \in Values /\ v[a] = 1
  BY PowersAre
<1>2. {a} \in SUBSET Points /\ {a} \ {a} = {} /\ a \notin {}
      /\ {} \in SUBSET Points
  OBVIOUS
<1> HIDE DEF v
<1>3. /\ IsFiniteSet({a}) /\ f \in [{a} -> Nat]
      /\ AtZero({a}, v) = SumOn(f, {a})
  BY <1>1, <1>2, WeightedIs
<1>4. l \in Nat /\ Same(l, 1)
  <2>1. /\ l \in Nat
        /\ Same(l * ProductOn(From(a), {}), ProductOn(Negative, {}))
    BY <1>2, LagrangeIs
  <2>2. /\ ProductOn(From(a), {}) = 1 /\ ProductOn(Negative, {}) = 1
        /\ l * 1 = l
    BY <2>1, ProductOnNothing
  <2> QED
    BY <2>1, <2>2
<1>5. f[a] = l * 1
  BY <1>1, <1>2 DEF Weighted, Weight
<1> HIDE DEF l, f
<1>6. SumOn(f, {a}) = f[a] + SumOn(f, {a} \ {a})
  BY <1>3, SumOnWithout
<1>7. SumOn(f, {a} \ {a}) = 0
  BY <1>2, SumOnNothing
<1>8. SumOn(f, {a}) = l
  BY <1>4, <1>5, <1>6, <1>7
<1> QED
  BY <1>3, <1>4, <1>8 DEF v

(* Any points give the value 1 when all of them have it.                   *)
LEMMA AtZeroOfOnes ==
  ASSUME NEW m \in SUBSET Points, m # {}
  PROVE  Same(AtZero(m, Powers(0)), 1)
<1> DEFINE Bad == {s \in SUBSET Points :
                     s # {} /\ ~ Same(AtZero(s, Powers(0)), 1)}
<1> SUFFICES ASSUME Bad # {} PROVE FALSE
  OBVIOUS
<1>1. PICK s \in Bad : \A x \in s : s \ {x} \notin Bad
  BY PointsAre, MinimalSubset
<1>2. s \in SUBSET Points /\ s # {} /\ ~ Same(AtZero(s, Powers(0)), 1)
  OBVIOUS
<1>3. PICK a \in s : TRUE
  BY <1>2
<1>4. s # {a}
  <2>1. a \in Points
    BY <1>2
  <2> QED
    BY <1>2, <2>1, AtZeroOfOnePoint
<1>5. PICK b \in s : b # a
  BY <1>4
<1> DEFINE o == AtZero(s, Powers(0))
           x == AtZero(s, Powers(1))
<1>6. ASSUME NEW c \in s, s \ {c} # {}
      PROVE  c \in Nat /\ x \in Nat /\ o \in Nat /\ Same(x + c, c * o)
  <2> DEFINE y == AtZero(s \ {c}, Powers(0))
             cy == c * y
  <2>1. 0 \in Nat /\ 0 + 1 = 1
    OBVIOUS
  <2>2. /\ c \in Nat /\ s \ {c} \in SUBSET Points
        /\ x \in Nat /\ o \in Nat /\ y \in Nat /\ Same(x + cy, c * o)
    BY <1>2, <2>1, TimesPointOnce
  <2>3. Same(y, 1)
    BY <1>1, <1>6, <2>2
  <2> HIDE DEF x, o, y
  <2>4. Same(x + cy, x + c)
    <3>1. Same(c, c) /\ Same(x, x) /\ c * 1 = c
      BY <2>2 DEF Same
    <3>2. Same(c * y, c * 1)
      BY <2>2, <2>3, <3>1, SameProducts
    <3>3. cy \in Int /\ Same(cy, c)
      BY <2>2, <3>1, <3>2
    <3> HIDE DEF cy
    <3> QED
      BY <2>2, <3>1, <3>3, SameSums
  <2> QED
    BY <2>2, <2>4 DEF Same
<1>7. s \ {a} # {} /\ s \ {b} # {}
  BY <1>3, <1>5
<1>8. /\ a \in Nat /\ b \in Nat /\ x \in Nat /\ o \in Nat
      /\ Same(x + a, a * o) /\ Same(x + b, b * o)
  BY <1>6, <1>7
<1> HIDE DEF x, o, Bad
<1> DEFINE xa == x + a
           xb == x + b
           ao == a * o
           bo == b * o
           d == a - b
<1>9. /\ xa \in Int /\ xb \in Int /\ ao \in Int /\ bo \in Int /\ d \in Int
      /\ Same(xa, ao) /\ Same(xb, bo)
  BY <1>8
<1>10. ~ Same(d, 0)
  <2>1. a \in Points /\ b \in Points
    BY <1>2
  <2> QED
    BY <1>5, <2>1, PointsDiffer
<1>11. xa + bo = (x + b + bo) + d * 1 /\ ao + xb = (x + b + bo) + d * o
  BY <1>8
<1> DEFINE z == x + b + bo
           d1 == d * 1
           do == d * o
<1>12. z \in Int /\ d1 \in Int /\ do \in Int
  BY <1>8
<1>13. xa + bo = d1 + z /\ ao + xb = do + z
  BY <1>8
<1> HIDE DEF xa, xb, ao, bo
<1>14. Same(xa + bo, ao + xb)
  <2>1. Same(bo, xb)
    BY <1>9 DEF Same
  <2> QED
    BY <1>9, <2>1, SameSums
<1>15. Same(d1, do)
  <2>1. Same(d1 + z, do + z)
    BY <1>13, <1>14
  <2> HIDE DEF d1, do, z
  <2> QED
    BY <1>12, <2>1, SumCancels
<1> HIDE DEF d
<1>16. Same(o, 1)
  <2>1. Same(d * o, d * 1)
    BY <1>15 DEF Same
  <2> QED
    BY <1>8, <1>9, <1>10, <2>1, FieldCancels
<1> QED
  BY <1>2, <1>16 DEF o

(* More than k points give zero when their values are their k-th powers.   *)
LEMMA AtZeroOfPowers ==
  ASSUME NEW k \in Nat, k # 0, NEW m \in SUBSET Points, Cardinality(m) > k
  PROVE  Same(AtZero(m, Powers(k)), 0)
<1> DEFINE Wrong(j, s) == Cardinality(s) > j /\ ~ Same(AtZero(s, Powers(j)), 0)
           Bad == {j \in Nat \ {0} : \E s \in SUBSET Points : Wrong(j, s)}
<1> SUFFICES ASSUME Bad # {} PROVE FALSE
  OBVIOUS
<1>1. PICK j \in Bad : \A i \in Bad : j <= i
  <2>1. Bad \in SUBSET Nat
    OBVIOUS
  <2> HIDE DEF Bad
  <2> QED
    BY <2>1, LeastNatural
<1>2. j \in Nat \ {0}
  OBVIOUS
<1>3. PICK s \in SUBSET Points : Wrong(j, s)
  OBVIOUS
<1> DEFINE i == j - 1
<1>4. i \in Nat /\ i + 1 = j /\ i \notin Bad
  <2>1. i \in Nat /\ i + 1 = j /\ ~ (j <= i)
    BY <1>2
  <2> HIDE DEF i, Bad
  <2> QED
    BY <1>1, <2>1
<1>5. IsFiniteSet(s) /\ Cardinality(s) \in Nat
  BY PointsAre, FS_Subset, FS_CardinalityType
<1>6. s # {}
  <2>1. Cardinality(s) > 0
    BY <1>2, <1>3, <1>5
  <2> QED
    BY <1>5, <2>1, FS_EmptySet
<1>7. PICK b \in s : TRUE
  BY <1>6
<1> DEFINE r == s \ {b}
<1>8. r \in SUBSET Points /\ Cardinality(r) > i /\ r # {}
  <2>1. Cardinality(r) = Cardinality(s) - 1 /\ IsFiniteSet(r)
    BY <1>5, <1>7, FS_RemoveElement
  <2>2. Cardinality(r) > i
    BY <1>2, <1>3, <1>5, <2>1
  <2>3. Cardinality(r) # 0
    BY <1>4, <1>5, <2>1, <2>2
  <2> QED
    BY <2>1, <2>2, <2>3, FS_EmptySet
<1> DEFINE x == AtZero(s, Powers(j))
           y == AtZero(r, Powers(i))
           z == AtZero(s, Powers(i))
<1>9. /\ b \in Nat /\ x \in Nat /\ y \in Nat /\ z \in Nat
      /\ Same(x + b * y, b * z)
  <2> HIDE DEF i
  <2>1. /\ b \in Nat
        /\ AtZero(s, Powers(i + 1)) \in Nat /\ AtZero(s, Powers(i)) \in Nat
        /\ AtZero(s \ {b}, Powers(i)) \in Nat
        /\ Same(AtZero(s, Powers(i + 1)) + b * AtZero(s \ {b}, Powers(i)),
                b * AtZero(s, Powers(i)))
    BY <1>4, TimesPointOnce
  <2> QED
    BY <1>4, <2>1
<1>10. Same(y, z)
  <2>1. CASE i = 0
    <3>1. Same(y, 1) /\ Same(z, 1)
      BY <1>6, <1>8, <2>1, AtZeroOfOnes
    <3> QED
      BY <3>1 DEF Same
  <2>2. CASE i # 0
    <3>1. /\ Cardinality(s) > i
          /\ \A t \in SUBSET Points : ~ Wrong(i, t)
      BY <1>2, <1>3, <1>4, <1>5, <2>2
    <3>2. Same(y, 0) /\ Same(z, 0)
      BY <1>8, <3>1
    <3> QED
      BY <3>2 DEF Same
  <2> QED
    BY <2>1, <2>2
<1>11. ~ Same(x, 0)
  BY <1>3
<1> HIDE DEF x, y, z, i, r, Bad, Wrong
<1> DEFINE by == b * y
           bz == b * z
<1>12. by \in Int /\ bz \in Int /\ Same(by, bz)
  <2>1. Same(b, b) /\ b \in Int /\ y \in Int /\ z \in Int
    BY <1>9 DEF Same
  <2> QED
    BY <1>9, <1>10, <2>1, SameProducts
<1>13. Same(x + by, 0 + by) /\ x \in Int /\ 0 \in Int
  BY <1>9, <1>12 DEF Same
<1> HIDE DEF by, bz
<1> QED
  BY <1>11, <1>12, <1>13, SumCancels

-----------------------------------------------------------------------------
(* Polynomials, term by term.                                              *)
Terms(f, x) == [k \in Coefficients |-> f[k] * Power(x, k - 1, PrimeQ)]
TermsOn(f, s) == [x \in Points |-> SumOn(Terms(f, x), s)]

LEMMA TermsAre ==
  ASSUME NEW f \in [Coefficients -> Field], NEW s \in SUBSET Coefficients
  PROVE  /\ \A x \in Points : Terms(f, x) \in [Coefficients -> Nat]
         /\ TermsOn(f, s) \in Values
<1>1. ASSUME NEW x \in Points PROVE Terms(f, x) \in [Coefficients -> Nat]
  <2>1. ASSUME NEW k \in Coefficients
        PROVE  f[k] * Power(x, k - 1, PrimeQ) \in Nat
    <3> DEFINE fk == f[k]
               p == Power(x, k - 1, PrimeQ)
    <3>1. fk \in Nat /\ x \in Nat /\ k - 1 \in Nat
      BY PointsAre, CoefficientsFinite, Moduli
    <3>2. p \in Nat
      BY <3>1, PointsAre, PowerType
    <3> HIDE DEF fk, p
    <3>3. fk * p \in Nat
      BY <3>1, <3>2
    <3> QED
      BY <3>3 DEF fk, p
  <2> QED
    BY <2>1 DEF Terms
<1>2. ASSUME NEW x \in Points PROVE SumOn(Terms(f, x), s) \in Nat
  BY <1>1, CoefficientsFinite, SumOnWithout
<1> QED
  BY <1>1, <1>2 DEF TermsOn, Values

(* More than T points take a polynomial to its constant term.              *)
LEMMA AtZeroOfTerms ==
  ASSUME NEW f \in [Coefficients -> Field],
         NEW m \in SUBSET Points, Cardinality(m) > T
  PROVE  \A s \in SUBSET Coefficients :
           Same(AtZero(m, TermsOn(f, s)), IF 1 \in s THEN f[1] ELSE 0)
<1> DEFINE Goal(s) == IF 1 \in s THEN f[1] ELSE 0
           At(s) == AtZero(m, TermsOn(f, s))
           Bad == {s \in SUBSET Coefficients : ~ Same(At(s), Goal(s))}
<1> SUFFICES ASSUME Bad # {} PROVE FALSE
  OBVIOUS
<1>0. ASSUME NEW s \in SUBSET Coefficients
      PROVE  At(s) \in Nat /\ TermsOn(f, s) \in Values
  <2> DEFINE v == TermsOn(f, s)
  <2>1. v \in Values
    BY TermsAre
  <2> HIDE DEF v
  <2>2. AtZero(m, v) \in Nat
    BY <2>1, WeightedIs
  <2> QED
    BY <2>1, <2>2 DEF v
<1>1. {} \notin Bad
  <2> DEFINE v == TermsOn(f, {})
             x == AtZero(m, v)
  <2>1. v \in Values /\ x \in Nat
    BY <1>0
  <2>2. \A i \in Points : v[i] = 0
    BY SumOnNothing DEF TermsOn
  <2> HIDE DEF v
  <2>3. Combined(v, 0, v, 0, v, Points)
    BY <2>2 DEF Combined, Same
  <2>4. 0 \in Int
    OBVIOUS
  <2>5. Same(x + 0 * x, 0 * x)
    BY <2>1, <2>3, <2>4, AtZeroCombines
  <2> HIDE DEF x
  <2>6. x + 0 * x = x /\ 0 * x = 0
    BY <2>1
  <2>7. Same(x, 0)
    BY <2>5, <2>6
  <2> QED
    BY <2>7 DEF x, v
<1>2. PICK s \in Bad : s # {} /\ s \ {Picked(s)} \notin Bad
  BY <1>1, CoefficientsFinite, LeastSubset
<1> DEFINE k == Picked(s)
           r == s \ {k}
<1>3. /\ s \in SUBSET Coefficients /\ k \in s /\ k \in Coefficients
      /\ r \in SUBSET Coefficients
  BY <1>2, CoefficientsFinite, PickedIs
<1>4. ~ Same(At(s), Goal(s)) /\ Same(At(r), Goal(r))
  BY <1>2, <1>3
<1> HIDE DEF k
<1>5. k - 1 \in Nat /\ f[k] \in Nat /\ f[1] \in Nat /\ T \in Nat /\ k \in 1 .. T + 1
  <2>1. 1 \in Coefficients /\ k \in 1 .. T + 1 /\ T \in Nat
    BY <1>3, Moduli DEF Coefficients
  <2> QED
    BY <1>3, <2>1, CoefficientsFinite, Moduli
<1> DEFINE e == k - 1
           fk == f[k]
           u == TermsOn(f, s)
           v == Powers(e)
           w == TermsOn(f, r)
<1>6. u \in Values /\ v \in Values /\ w \in Values
  BY <1>0, <1>3, <1>5, PowersAre
<1>7. ASSUME NEW i \in Points PROVE Same(u[i] + (-fk) * v[i], 1 * w[i])
  <2> DEFINE t == Terms(f, i)
             ti == t[k]
             ui == SumOn(t, s)
             wi == SumOn(t, r)
             vi == v[i]
  <2>1. t \in [Coefficients -> Nat]
    BY <1>3, TermsAre
  <2>2. u[i] = ui /\ w[i] = wi /\ ti = fk * vi
    BY <1>3 DEF Terms, TermsOn, Powers
  <2> HIDE DEF t
  <2>3. ui = ti + wi /\ wi \in Nat
    BY <1>3, <2>1, CoefficientsFinite, SumOnWithout
  <2>4. vi \in Nat /\ fk \in Nat
    BY <1>5, <1>6 DEF Values
  <2> HIDE DEF ti, ui, wi, vi, u, v, w, fk
  <2>5. ui + (-fk) * vi = 1 * wi
    BY <2>2, <2>3, <2>4
  <2> QED
    BY <2>2, <2>5 DEF Same, vi
<1> DEFINE x == AtZero(m, u)
           y == AtZero(m, v)
           z == AtZero(m, w)
<1>8. x \in Nat /\ y \in Nat /\ z \in Nat /\ Same(x + (-fk) * y, 1 * z)
  <2> HIDE DEF u, v, w, fk
  <2>1. Combined(u, -fk, v, 1, w, Points)
    BY <1>7 DEF Combined
  <2>2. -fk \in Int /\ 1 \in Int
    BY <1>5 DEF fk
  <2> DEFINE d == -fk
  <2> HIDE DEF d
  <2>3. Combined(u, d, v, 1, w, Points) /\ d \in Int
    BY <2>1, <2>2 DEF d
  <2>4. Same(x + d * y, 1 * z)
    BY <1>6, <2>2, <2>3, AtZeroCombines
  <2>5. x \in Nat /\ y \in Nat /\ z \in Nat
    BY <1>6, WeightedIs
  <2> QED
    BY <2>4, <2>5 DEF d
<1>9. ~ Same(x, Goal(s)) /\ Same(z, Goal(r))
  BY <1>4
<1>10. Goal(s) \in Nat /\ Goal(r) \in Nat /\ fk \in Nat
  BY <1>5
<1>11. /\ e = 0 => Same(y, 1) /\ Goal(s) = fk /\ Goal(r) = 0
       /\ e # 0 => Same(y, 0) /\ Goal(s) = Goal(r)
  <2>1. CASE e = 0
    <3>1. k = 1
      BY <1>5, <2>1
    <3>2. m # {}
      BY <1>5, FS_EmptySet
    <3>3. Same(y, 1)
      BY <2>1, <3>2, AtZeroOfOnes
    <3> QED
      BY <1>3, <2>1, <3>1, <3>3
  <2>2. CASE e # 0
    <3>1. k # 1
      BY <1>5, <2>2
    <3>2. Cardinality(m) > e
      <4>1. IsFiniteSet(m)
        BY PointsAre, FS_Subset
      <4>2. Cardinality(m) \in Nat
        BY <4>1, FS_CardinalityType
      <4> QED
        BY <1>5, <4>2
    <3>3. e \in Nat
      BY <1>5
    <3> HIDE DEF e
    <3>4. Same(y, 0)
      BY <2>2, <3>2, <3>3, AtZeroOfPowers
    <3> QED
      BY <1>3, <2>2, <3>1, <3>4
  <2> QED
    BY <2>1, <2>2
<1> DEFINE gs == Goal(s)
           gr == Goal(r)
<1> HIDE DEF x, y, z, fk, Goal, At, Bad, u, v, w, r, k, e
<1> DEFINE a == (-fk) * y
           c == IF e = 0 THEN 1 ELSE 0
           b == (-fk) * c
<1>12. /\ a \in Int /\ b \in Int /\ c \in Int /\ -fk \in Int
       /\ gs \in Nat /\ gr \in Nat
  BY <1>8, <1>10
<1>13. Same(a, b)
  <2> DEFINE d == -fk
  <2>1. Same(y, c) /\ Same(d, d) /\ y \in Int
    BY <1>8, <1>11 DEF Same
  <2>2. d \in Int /\ c \in Int
    BY <1>12
  <2> HIDE DEF c, d
  <2>3. Same(d * y, d * c)
    BY <2>1, <2>2, SameProducts
  <2> QED
    BY <2>3 DEF d
<1>14. gs + b = gr
  <2>1. e = 0 => gs + (-fk) * 1 = gr
    BY <1>10, <1>11
  <2>2. e # 0 => gs + (-fk) * 0 = gr
    BY <1>10, <1>11
  <2> QED
    BY <2>1, <2>2
<1> HIDE DEF a, b, c, gs, gr
<1>15. Same(x + a, gs + b)
  <2>1. Same(x + a, z)
    BY <1>8 DEF a
  <2> QED
    BY <1>9, <1>14, <2>1 DEF Same, gr
<1>16. Same(x + b, gs + b)
  <2>1. Same(x, x) /\ Same(b, a) /\ x \in Int
    BY <1>8, <1>13 DEF Same
  <2>2. Same(x + b, x + a)
    BY <1>12, <2>1, SameSums
  <2> QED
    BY <1>15, <2>2 DEF Same
<1>17. Same(x, gs)
  BY <1>8, <1>12, <1>16, SumCancels
<1> QED
  BY <1>9, <1>17 DEF gs

LEMMA PolynomialIs ==
  ASSUME NEW f \in [Coefficients -> Field], NEW x \in Points
  PROVE  /\ Polynomial(x, f) \in Field /\ Polynomial(x, f) \in Nat
         /\ Same(Polynomial(x, f), TermsOn(f, Coefficients)[x])
<1> DEFINE t == Terms(f, x)
           y == SumOn(t, Coefficients)
<1>1. t \in [Coefficients -> Nat]
  BY TermsAre
<1>2. Polynomial(x, f) = SumFunction(t) % PrimeQ
  <2>1. DOMAIN f = Coefficients
    OBVIOUS
  <2> QED
    BY <2>1 DEF Polynomial, Terms
<1>3. TermsOn(f, Coefficients)[x] = y
  BY DEF TermsOn
<1> HIDE DEF t
<1>4. SumFunction(t) = y
  BY <1>1, CoefficientsFinite, PartIs DEF SumOn
<1>5. y \in Int
  BY <1>1, CoefficientsFinite, SumOnWithout
<1> HIDE DEF y
<1> QED
  BY <1>2, <1>3, <1>4, <1>5, SameRemainder, Moduli

(* The points m give the constant term of a polynomial from its values.    *)
LEMMA AtZeroOfPolynomial ==
  ASSUME NEW f \in [Coefficients -> Field], NEW v \in Values,
         NEW m \in SUBSET Points, Cardinality(m) > T,
         \A x \in Points : v[x] = Polynomial(x, f)
  PROVE  AtZero(m, v) % PrimeQ = f[1]
<1> DEFINE w == TermsOn(f, Coefficients)
           x == AtZero(m, v)
           y == AtZero(m, w)
<1>1. w \in Values
  BY TermsAre
<1>2. Same(y, f[1]) /\ f[1] \in Field
  <2>1. 1 \in Coefficients
    BY Moduli DEF Coefficients
  <2> QED
    BY <2>1, AtZeroOfTerms
<1>3. ASSUME NEW i \in Points PROVE Same(v[i] + 0 * v[i], 1 * w[i])
  <2>1. v[i] \in Nat /\ w[i] \in Nat
    BY <1>1 DEF Values
  <2>2. Same(v[i], w[i])
    BY PolynomialIs
  <2> DEFINE vi == v[i]
             wi == w[i]
  <2> HIDE DEF vi, wi, w
  <2>3. vi + 0 * vi = vi /\ 1 * wi = wi
    BY <2>1 DEF vi, wi
  <2> QED
    BY <2>2, <2>3 DEF vi, wi
<1> HIDE DEF w
<1>4. Combined(v, 0, v, 1, w, Points) /\ 0 \in Int /\ 1 \in Int
  BY <1>3 DEF Combined
<1>5. Same(x + 0 * x, 1 * y)
  BY <1>1, <1>4, AtZeroCombines
<1>6. x \in Nat /\ y \in Nat
  BY <1>1, WeightedIs
<1> HIDE DEF x, y
<1>7. x + 0 * x = x /\ 1 * y = y
  BY <1>6
<1>8. Same(x, f[1])
  BY <1>2, <1>5, <1>7 DEF Same
<1> QED
  BY <1>2, <1>8, FieldIsItsRemainder DEF Same, x

(* The value of a sum of polynomials is the sum of their values.           *)
LEMMA PolynomialsAdd ==
  ASSUME NEW f \in [Coefficients -> Field], NEW g \in [Coefficients -> Field],
         NEW h \in [Coefficients -> Field], NEW x \in Points,
         \A k \in Coefficients : Same(h[k], f[k] + g[k])
  PROVE  Polynomial(x, h) = (Polynomial(x, f) + Polynomial(x, g)) % PrimeQ
<1> DEFINE fx == Terms(f, x)
           gx == Terms(g, x)
           hx == Terms(h, x)
           F == SumOn(fx, Coefficients)
           U == SumOn(gx, Coefficients)
           W == SumOn(hx, Coefficients)
<1>1. /\ fx \in [Coefficients -> Nat] /\ gx \in [Coefficients -> Nat]
      /\ hx \in [Coefficients -> Nat]
  BY TermsAre
<1>2. ASSUME NEW k \in Coefficients
      PROVE  Same(hx[k] + (-1) * gx[k], 1 * fx[k])
  <2> DEFINE a == f[k]
             b == g[k]
             c == h[k]
             p == Power(x, k - 1, PrimeQ)
             ab == a + b
  <2>1. hx[k] = c * p /\ gx[k] = b * p /\ fx[k] = a * p
    BY DEF Terms
  <2>2. p \in Nat /\ a \in Nat /\ b \in Nat /\ c \in Nat
    BY PointsAre, CoefficientsFinite, Moduli, PowerType
  <2>3. Same(c, ab)
    OBVIOUS
  <2> HIDE DEF a, b, c, p, fx, gx, hx
  <2>4. ab \in Int /\ ab * p + (-1) * (b * p) = 1 * (a * p)
    BY <2>2
  <2> HIDE DEF ab
  <2>5. Same(c * p, ab * p)
    <3>1. Same(p, p)
      BY DEF Same
    <3> QED
      BY <2>2, <2>3, <2>4, <3>1, SameProducts
  <2> DEFINE cp == c * p
             abp == ab * p
             bp == (-1) * (b * p)
  <2>6. cp \in Int /\ abp \in Int /\ bp \in Int /\ Same(bp, bp)
    BY <2>2, <2>4 DEF Same
  <2> HIDE DEF cp, abp, bp
  <2>7. Same(cp + bp, abp + bp)
    BY <2>5, <2>6, SameSums DEF cp, abp
  <2> QED
    BY <2>1, <2>4, <2>7 DEF cp, abp, bp
<1>3. /\ Same(Polynomial(x, f), F) /\ Same(Polynomial(x, g), U)
      /\ Same(Polynomial(x, h), W)
      /\ Polynomial(x, f) \in Nat /\ Polynomial(x, g) \in Nat
      /\ Polynomial(x, h) \in Field
  BY PolynomialIs DEF TermsOn
<1> HIDE DEF fx, gx, hx
<1>4. Same(W + (-1) * U, 1 * F)
  <2> DEFINE d == -1
  <2>1. d \in Int /\ 1 \in Int
    OBVIOUS
  <2>2. Combined(hx, d, gx, 1, fx, Coefficients)
    BY <1>2 DEF Combined
  <2> HIDE DEF d
  <2>3. Same(W + d * U, 1 * F)
    BY <1>1, <2>1, <2>2, CoefficientsFinite, SumsCombine
  <2> QED
    BY <2>3 DEF d
<1>5. W \in Nat /\ U \in Nat /\ F \in Nat
  BY <1>1, CoefficientsFinite, SumOnWithout
<1> DEFINE pf == Polynomial(x, f)
           pg == Polynomial(x, g)
           ph == Polynomial(x, h)
           wu == W - U
           s == pf + pg
<1> HIDE DEF W, U, F, pf, pg, ph
<1>6. W + (-1) * U = wu /\ 1 * F = F /\ wu \in Int
  BY <1>5
<1>7. Same(wu, F)
  BY <1>4, <1>6
<1> HIDE DEF wu
<1>8. Same(wu + U, F + U)
  <2>1. Same(U, U)
    BY DEF Same
  <2> QED
    BY <1>5, <1>6, <1>7, <2>1, SameSums
<1>9. wu + U = W
  BY <1>5, <1>6
<1>10. Same(F + U, pf + pg)
  <2>1. Same(F, pf) /\ Same(U, pg) /\ pf \in Nat /\ pg \in Nat
    BY <1>3 DEF Same, pf, pg
  <2> QED
    BY <1>5, <2>1, SameSums
<1>11. Same(ph, s)
  BY <1>3, <1>8, <1>9, <1>10 DEF Same, ph
<1>12. ph \in Field
  BY <1>3 DEF ph
<1> HIDE DEF s
<1>13. ph % PrimeQ = ph
  BY <1>12, FieldIsItsRemainder
<1> QED
  BY <1>11, <1>13 DEF Same, ph, s, pf, pg

PointsOf(shares) == {s.Point : s \in shares}

(* Shares of one polynomial, at points of their own.                       *)
SharesOf(f, shares) ==
  /\ IsFiniteSet(shares)
  /\ \A s \in shares : s.Point \in Points /\ s.S = Polynomial(s.Point, f)
  /\ \A s, r \in shares : s.Point = r.Point => s = r

(* A sum over shares is one over their points.                             *)
LEMMA SumByPoint ==
  ASSUME NEW f, NEW shares, SharesOf(f, shares),
         NEW F \in [shares -> Nat], NEW g \in [PointsOf(shares) -> Nat],
         \A s \in shares : F[s] = g[s.Point]
  PROVE  SumFunction(F) = SumFunction(g)
<1> DEFINE X == PointsOf(shares)
           Bad == {t \in SUBSET shares : SumOn(F, t) # SumOn(g, PointsOf(t))}
<1>0. IsFiniteSet(shares) /\ IsFiniteSet(X) /\ X \in SUBSET Points
  <2>1. IsFiniteSet(shares) /\ X \in SUBSET Points
    BY DEF SharesOf, PointsOf
  <2> QED
    BY <2>1, PointsAre, FS_Subset
<1>1. Bad = {}
  <2> SUFFICES ASSUME Bad # {} PROVE FALSE
    OBVIOUS
  <2>1. {} \notin Bad
    <3>1. PointsOf({}) = {}
      BY DEF PointsOf
    <3> QED
      BY <3>1, SumOnNothing
  <2>2. PICK t \in Bad : t # {} /\ t \ {Picked(t)} \notin Bad
    BY <1>0, <2>1, LeastSubset
  <2> DEFINE p == Picked(t)
             r == t \ {p}
  <2>3. /\ t \in SUBSET shares /\ p \in t /\ p \in shares
        /\ r \in SUBSET shares
    BY <1>0, <2>2, PickedIs
  <2>4. SumOn(F, r) = SumOn(g, PointsOf(r))
    BY <2>2, <2>3
  <2> HIDE DEF p
  <2>5. PointsOf(r) = PointsOf(t) \ {p.Point}
    BY <2>3 DEF PointsOf, SharesOf
  <2>6. PointsOf(t) \in SUBSET X /\ p.Point \in PointsOf(t)
    BY <2>3 DEF PointsOf
  <2>7. SumOn(F, t) = F[p] + SumOn(F, r)
    BY <1>0, <2>3, SumOnWithout
  <2> HIDE DEF X, r
  <2>8. g \in [X -> Nat]
    BY DEF X
  <2>9. SumOn(g, PointsOf(t)) =
          g[p.Point] + SumOn(g, PointsOf(t) \ {p.Point})
    BY <1>0, <2>6, <2>8, SumOnWithout
  <2>10. F[p] = g[p.Point]
    BY <2>3
  <2>11. SumOn(F, t) # SumOn(g, PointsOf(t))
    OBVIOUS
  <2> HIDE DEF Bad
  <2> QED
    BY <2>4, <2>5, <2>7, <2>9, <2>10, <2>11
<1>2. SumOn(F, shares) = SumOn(g, X)
  BY <1>1
<1>3. Part(F, shares) = F /\ Part(g, X) = g
  BY DEF Part
<1> QED
  BY <1>2, <1>3 DEF SumOn

(* Reconstruct gives the secret back from any t+1 or more shares of one    *)
(* polynomial, whichever they are.                                         *)
THEOREM SecretReconstructed ==
  ASSUME NEW f \in [Coefficients -> Field],
         NEW shares, SharesOf(f, shares), Cardinality(PointsOf(shares)) > T
  PROVE  Reconstruct(shares) = f[1]
<1> DEFINE X == PointsOf(shares)
           v == [x \in Points |-> Polynomial(x, f)]
           g == Weighted(X, v)
           F == [s \in shares |-> Lagrange(s.Point, X \ {s.Point}) * s.S]
<1>1. X \in SUBSET Points
  BY DEF SharesOf, PointsOf
<1>2. v \in Values
  BY PolynomialIs DEF Values
<1>3. AtZero(X, v) % PrimeQ = f[1]
  BY <1>1, <1>2, AtZeroOfPolynomial
<1>4. g \in [X -> Nat]
  <2> HIDE DEF X, v
  <2> QED
    BY <1>1, <1>2, WeightedIs
<1>5. ASSUME NEW s \in shares PROVE F[s] = g[s.Point] /\ F[s] \in Nat
  <2>1. s.Point \in X /\ s.Point \in Points
    BY DEF PointsOf, SharesOf
  <2>2. s.S = v[s.Point]
    BY <2>1 DEF SharesOf
  <2>3. F[s] = Lagrange(s.Point, X \ {s.Point}) * s.S
    OBVIOUS
  <2> HIDE DEF F, X, v
  <2>4. F[s] = g[s.Point]
    BY <2>1, <2>2, <2>3 DEF Weighted, Weight
  <2> QED
    BY <1>4, <2>1, <2>4
<1>6. F \in [shares -> Nat]
  BY <1>5
<1>7. Reconstruct(shares) = SumFunction(F) % PrimeQ
  BY DEF Reconstruct, PointsOf
<1> HIDE DEF F, v
<1>8. SumFunction(F) = SumFunction(g)
  <2>1. g \in [PointsOf(shares) -> Nat]
    BY <1>4
  <2>2. \A s \in shares : F[s] = g[s.Point]
    BY <1>5
  <2> HIDE DEF g, X
  <2> QED
    BY <1>6, <2>1, <2>2, SumByPoint
<1> QED
  BY <1>3, <1>7, <1>8 DEF AtZero

-----------------------------------------------------------------------------
(* Both bases generate one group, so a commitment opens to every value.    *)

(* Modulo a prime every number but 0 is a unit.                            *)
LEMMA AllAreUnits == Units = 1 .. PrimeP - 1
<1>1. PrimeP \in Nat /\ PrimeP > 1 /\ Undivided(PrimeP)
  BY Moduli, PrimeModulus DEF Undivided
<1>2. ASSUME NEW a \in 1 .. PrimeP - 1 PROVE a \in Units
  <2> DEFINE v == ModInverse(a, PrimeP)
             av == a * v
  <2>1. v \in 0 .. PrimeP - 1 /\ Congruent(a * v, 1, PrimeP)
    BY <1>1, InverseExists
  <2>2. v \in Nat /\ 1 % PrimeP = 1 /\ a \in Nat /\ a < PrimeP
    BY <1>1, <2>1, RemainderOfSmall
  <2>3. Times(a, v, PrimeP) = 1
    BY <2>1, <2>2 DEF Congruent, Times
  <2> QED
    BY <2>2, <2>3 DEF Units
<1> QED
  BY <1>2, UnitsNotZero

(* The powers of a number, up to the order q, and their sum.               *)
PowersBelow(u) == [k \in Field |-> Power(u, k, PrimeP)]

LEMMA PowersBelowAre ==
  ASSUME NEW u \in Nat
  PROVE  /\ PowersBelow(u) \in [Field -> Nat] /\ IsFiniteSet(Field)
         /\ \A n \in 0 .. PrimeQ : 0 .. n - 1 \in SUBSET Field
<1>1. IsFiniteSet(Field)
  BY Moduli, FS_Interval DEF Field
<1>2. PowersBelow(u) \in [Field -> Nat]
  BY Moduli, PowerByTimes DEF PowersBelow
<1>3. \A n \in 0 .. PrimeQ : 0 .. n - 1 \in SUBSET Field
  BY Moduli DEF Field
<1> QED
  BY <1>1, <1>2, <1>3

(* s * u + 1 and s + u^n are the same, for the sum s of the first n powers. *)
LEMMA SumOfFirstPowers ==
  ASSUME NEW u \in Nat
  PROVE  \A n \in 0 .. PrimeQ :
           Congruent(SumOn(PowersBelow(u), 0 .. n - 1) * u + 1,
                     SumOn(PowersBelow(u), 0 .. n - 1) + Power(u, n, PrimeP), PrimeP)
<1> DEFINE f == PowersBelow(u)
           S(n) == SumOn(f, 0 .. n - 1)
           p(n) == Power(u, n, PrimeP)
           Holds(n) == Congruent(S(n) * u + 1, S(n) + p(n), PrimeP)
           Bad == {n \in 0 .. PrimeQ : ~ Holds(n)}
<1> SUFFICES ASSUME Bad # {} PROVE FALSE
  OBVIOUS
<1>0. PrimeQ \in Nat /\ PrimeP \in Nat \ {0} /\ PrimeP > 1
  BY Moduli
<1>1. PICK n \in Bad : \A k \in Bad : n <= k
  <2>1. Bad \in SUBSET Nat
    BY <1>0
  <2> HIDE DEF Bad
  <2> QED
    BY <2>1, LeastNatural
<1>2. n \in Nat /\ n <= PrimeQ /\ ~ Holds(n)
  BY <1>0
<1>3. n # 0
  <2>1. 0 .. 0 - 1 = {}
    OBVIOUS
  <2>2. S(0) = 0
    BY <2>1, SumOnNothing
  <2>3. p(0) = 1
    BY <1>0, PowerByTimes
  <2> HIDE DEF S, p
  <2>4. S(0) * u + 1 = S(0) + p(0)
    BY <2>2, <2>3
  <2>5. Holds(0)
    BY <2>4 DEF Congruent
  <2> QED
    BY <1>2, <2>5
<1> DEFINE m == n - 1
           d == 0 .. n - 1
<1>4. m \in Nat /\ m + 1 = n /\ m \in Field /\ m \in 0 .. PrimeQ /\ m \in d /\ d \ {m} = 0 .. m - 1
  BY <1>0, <1>2, <1>3 DEF Field
<1>5. Holds(m)
  <2>1. ~ n <= m
    BY <1>2
  <2>2. m \notin Bad
    BY <1>1, <2>1
  <2> QED
    BY <1>4, <2>2
<1>6. f \in [Field -> Nat] /\ IsFiniteSet(Field) /\ d \in SUBSET Field
  BY <1>0, <1>2, PowersBelowAre
<1>7. f[m] = p(m) /\ p(m) \in Nat /\ p(n) = Times(p(m), u, PrimeP)
  <2>1. p(m) \in Nat /\ p(m + 1) = Times(p(m), u, PrimeP)
    BY <1>0, <1>4, PowerByTimes
  <2>2. f[m] = p(m)
    BY <1>4 DEF PowersBelow
  <2> QED
    BY <1>4, <2>1, <2>2
<1> DEFINE sm == S(m)
           sn == S(n)
           pm == p(m)
           pn == p(n)
           pu == pm * u
<1>8. sm \in Nat /\ sn \in Nat /\ sn = pm + sm
  <2> HIDE DEF f, d, m, Bad, S
  <2>0. m \in d /\ d \in SUBSET Field
    BY <1>4, <1>6
  <2>1. SumOn(f, d) \in Nat /\ SumOn(f, d \ {m}) \in Nat /\ SumOn(f, d) = f[m] + SumOn(f, d \ {m})
    BY <1>6, <2>0, SumOnWithout
  <2>2. S(m) = SumOn(f, d \ {m}) /\ S(n) = SumOn(f, d)
    BY <1>4 DEF S, d
  <2> QED
    BY <1>7, <2>1, <2>2
<1>9. Congruent(sm * u + 1, sm + pm, PrimeP)
  BY <1>5
<1>10. ~ Congruent(sn * u + 1, sn + pn, PrimeP)
  BY <1>2
<1>11. pu \in Nat /\ pn = pu % PrimeP /\ pm \in Nat
  BY <1>7 DEF Times
<1> HIDE DEF sm, sn, pm, pn, pu, f, S, p, Bad, Holds, m, d
<1>12. pn \in Nat /\ Congruent(pu, pn, PrimeP)
  BY <1>0, <1>11, Remainder, RemainderOfSmall DEF Congruent
<1> DEFINE a == sm * u + 1
           b == sm + pm
<1>13. a \in Int /\ b \in Int /\ a + pu = sn * u + 1 /\ b + pn = sn + pn
  <2>1. sn * u = sm * u + pu
    BY <1>8, <1>11 DEF pu
  <2> QED
    BY <1>8, <1>11, <2>1
<1>14. Congruent(a, b, PrimeP)
  BY <1>9
<1> HIDE DEF a, b
<1>15. Congruent(a + pu, b + pn, PrimeP)
  BY <1>0, <1>11, <1>12, <1>13, <1>14, CongruentSums
<1> QED
  BY <1>10, <1>13, <1>15

(* All q powers of a number of order q, other than 1, add up to 0.         *)
LEMMA AllPowersVanish ==
  ASSUME NEW u \in Members, u # 1
  PROVE  Congruent(SumOn(PowersBelow(u), Field), 0, PrimeP)
<1> DEFINE S == SumOn(PowersBelow(u), Field)
           v == u - 1
           r == S % PrimeP
<1>0. PrimeQ \in Nat /\ PrimeP \in Nat \ {0} /\ PrimeP > 1
  BY Moduli
<1>1. u \in Nat /\ u < PrimeP /\ u \in 1 .. PrimeP - 1 /\ Power(u, PrimeQ, PrimeP) = 1
  BY AllAreUnits, <1>0 DEF Members
<1>2. v \in Units /\ v \in Nat
  BY <1>1, AllAreUnits, <1>0
<1>3. S \in Nat
  <2> DEFINE f == PowersBelow(u)
  <2>1. f \in [Field -> Nat] /\ IsFiniteSet(Field)
    BY <1>1, PowersBelowAre
  <2> HIDE DEF f
  <2>2. SumOn(f, Field) \in Nat
    BY <2>1, SumOnWithout
  <2> QED
    BY <2>2 DEF f
<1>4. Congruent(S * u + 1, S + 1, PrimeP)
  <2>1. PrimeQ \in 0 .. PrimeQ
    BY <1>0
  <2>2. Congruent(SumOn(PowersBelow(u), 0 .. PrimeQ - 1) * u + 1,
                  SumOn(PowersBelow(u), 0 .. PrimeQ - 1) + Power(u, PrimeQ, PrimeP), PrimeP)
    BY <1>1, <2>1, SumOfFirstPowers
  <2> QED
    BY <1>1, <2>2 DEF Field
<1> HIDE DEF S
<1> DEFINE a == S * u + 1
           b == S + 1
           vs == v * S
<1>5. PICK k \in Int : a = PrimeP * k + b
  <2>1. a \in Int /\ b \in Int /\ Congruent(a, b, PrimeP)
    BY <1>1, <1>3, <1>4
  <2> HIDE DEF a, b
  <2> QED
    BY <1>0, <2>1, CongruentDifference
<1>6. vs = PrimeP * k + 0 /\ vs \in Nat
  <2>1. S * u = vs + S
    BY <1>1, <1>3
  <2>2. vs \in Nat
    BY <1>2, <1>3
  <2> HIDE DEF vs, v
  <2>3. S * u + 1 = PrimeP * k + (S + 1)
    BY <1>5
  <2> DEFINE pk == PrimeP * k
  <2>4. pk \in Int
    BY <1>0
  <2> HIDE DEF pk
  <2> QED
    BY <1>3, <2>1, <2>2, <2>3, <2>4 DEF pk
<1>7. vs % PrimeP = 0
  <2>1. (PrimeP * k + 0) % PrimeP = 0
    BY <1>0, IntRemainderUnique
  <2> QED
    BY <1>6, <2>1
<1> HIDE DEF v
<1>8. r \in Nat /\ r < PrimeP
  BY <1>0, <1>3, Remainder
<1>9. Times(v, r, PrimeP) = 0
  <2>1. (v * (S % PrimeP)) % PrimeP = (v * S) % PrimeP
    <3> HIDE DEF S
    <3> QED
      BY <1>0, <1>2, <1>3, FactorReduced
  <2> HIDE DEF S
  <2> QED
    BY <1>7, <2>1 DEF Times
<1>10. Times(v, 0, PrimeP) = 0
  BY <1>0, <1>2, RemainderOfSmall DEF Times
<1> HIDE DEF r
<1>11. r = 0
  BY <1>0, <1>2, <1>8, <1>9, <1>10, UnitsCancel
<1>12. 0 % PrimeP = 0
  BY <1>0
<1> QED
  BY <1>11, <1>12 DEF r, S, Congruent

(* A sum of ones. *)
LEMMA SumOfOnes ==
  ASSUME NEW f \in [Field -> Nat], \A b \in Field : f[b] = 1
  PROVE  SumOn(f, Field) = PrimeQ
<1> DEFINE S(n) == SumOn(f, 0 .. n - 1)
           Bad == {n \in 0 .. PrimeQ : S(n) # n}
<1>0. PrimeQ \in Nat /\ IsFiniteSet(Field) /\ PrimeQ \in 0 .. PrimeQ
  BY Moduli, FS_Interval DEF Field
<1> SUFFICES ASSUME Bad # {} PROVE FALSE
  <2>1. S(PrimeQ) = SumOn(f, Field)
    BY DEF Field
  <2> QED
    BY <1>0, <2>1
<1>1. PICK n \in Bad : \A k \in Bad : n <= k
  <2>1. Bad \in SUBSET Nat
    BY <1>0
  <2> HIDE DEF Bad
  <2> QED
    BY <2>1, LeastNatural
<1>2. n \in Nat /\ n <= PrimeQ /\ S(n) # n
  BY <1>0
<1>3. n # 0
  <2>1. 0 .. 0 - 1 = {}
    OBVIOUS
  <2>2. S(0) = 0
    BY <2>1, SumOnNothing
  <2> QED
    BY <1>2, <2>2
<1> DEFINE m == n - 1
           d == 0 .. n - 1
<1>4. m \in Nat /\ m + 1 = n /\ m \in Field /\ m \in 0 .. PrimeQ /\ m \in d /\ d \ {m} = 0 .. m - 1
      /\ d \in SUBSET Field
  BY <1>0, <1>2, <1>3 DEF Field
<1>5. S(m) = m
  <2>1. ~ n <= m
    BY <1>2
  <2>2. m \notin Bad
    BY <1>1, <2>1
  <2> QED
    BY <1>4, <2>2
<1>6. SumOn(f, d) = f[m] + SumOn(f, d \ {m})
  <2> HIDE DEF d, m, Bad, S
  <2>1. m \in d /\ d \in SUBSET Field
    BY <1>4
  <2> QED
    BY <1>0, <2>1, SumOnWithout
<1>7. f[m] = 1 /\ S(m) = SumOn(f, d \ {m})
  BY <1>4
<1>8. S(n) = 1 + m
  BY <1>5, <1>6, <1>7
<1> HIDE DEF S
<1> QED
  BY <1>2, <1>4, <1>8

(* A sum of what vanishes, or of c times what another one sums up.         *)
LEMMA ScaledSums ==
  ASSUME NEW m \in Nat \ {0}, NEW D, IsFiniteSet(D),
         NEW f \in [D -> Nat], NEW g \in [D -> Nat], NEW c \in Int,
         \A i \in D : Congruent(f[i], c * g[i], m)
  PROVE  Congruent(SumOn(f, D), c * SumOn(g, D), m)
<1>1. ASSUME NEW i \in D PROVE Congruent(f[i] + 0 * f[i], c * g[i], m)
  <2> DEFINE fi == f[i]
  <2>1. fi \in Nat
    OBVIOUS
  <2> HIDE DEF fi
  <2>2. fi + 0 * fi = fi
    BY <2>1
  <2> QED
    BY <2>2 DEF fi
<1> DEFINE s == SumOn(f, D)
<1>2. s \in Nat
  BY SumOnWithout
<1>3. Combination(f, 0, f, c, g, D, m)
  BY <1>1 DEF Combination
<1>4. Congruent(s + 0 * s, c * SumOn(g, D), m)
  <2>1. 0 \in Int
    OBVIOUS
  <2> QED
    BY <1>3, <2>1, CombinedSums
<1> HIDE DEF s
<1>5. s + 0 * s = s
  BY <1>2
<1> QED
  BY <1>4, <1>5 DEF s

(* The products of G with a power of H, and their powers.                  *)
GTimes(b) == Times(G, Power(H, b, PrimeP), PrimeP)

LEMMA GTimesIs ==
  ASSUME NEW b \in Field
  PROVE  /\ GTimes(b) \in Members /\ GTimes(b) \in Nat
         /\ \A k \in Field : Congruent(Power(GTimes(b), k, PrimeP),
              Power(G, k, PrimeP) * PowersBelow(Power(H, k, PrimeP))[b], PrimeP)
<1> USE Moduli, BasesHaveOrderQ
<1>1. Power(G, 1, PrimeP) = G
  BY BasesInRange, OrderQIsUnit
<1>2. b \in Nat /\ 1 \in Nat
  OBVIOUS
<1>3. GTimes(b) \in Members
  BY <1>1, <1>2, CommitmentsAreMembers, CommittedIs DEF GTimes, Committed
<1>4. GTimes(b) \in Nat
  BY <1>3 DEF Members, Units
<1>5. ASSUME NEW k \in Field
      PROVE  Congruent(Power(GTimes(b), k, PrimeP),
               Power(G, k, PrimeP) * PowersBelow(Power(H, k, PrimeP))[b], PrimeP)
  <2> DEFINE gk == Power(G, k, PrimeP)
             hb == Power(H, b, PrimeP)
             hk == Power(H, k, PrimeP)
             hkb == Power(hk, b, PrimeP)
             x == gk * hkb
  <2>1. k \in Nat /\ gk \in Nat /\ hb \in Nat /\ hk \in Nat /\ hkb \in Nat
    BY <1>2, PowerByTimes
  <2>2. Power(GTimes(b), k, PrimeP) = Times(gk, Power(hb, k, PrimeP), PrimeP)
    <3> HIDE DEF gk
    <3> QED
      BY <2>1, PowerOfTimes DEF GTimes, gk
  <2>3. Power(hb, k, PrimeP) = hkb
    <3>1. Power(hb, k, PrimeP) = Power(H, b * k, PrimeP) /\ hkb = Power(H, k * b, PrimeP)
      BY <1>2, <2>1, PowerOfPower
    <3>2. b * k = k * b
      BY <1>2, <2>1
    <3> QED
      BY <3>1, <3>2
  <2>4. PowersBelow(hk)[b] = hkb
    BY DEF PowersBelow
  <2>5. x \in Nat
    BY <2>1
  <2>6. Power(GTimes(b), k, PrimeP) = x % PrimeP
    BY <2>2, <2>3 DEF Times
  <2> HIDE DEF x
  <2>7. (x % PrimeP) % PrimeP = x % PrimeP
    <3>1. PrimeP \in Nat \ {0}
      OBVIOUS
    <3>2. x % PrimeP \in Nat /\ x % PrimeP < PrimeP
      BY <2>5, <3>1, Remainder
    <3> QED
      BY <3>1, <3>2, RemainderOfSmall
  <2> QED
    BY <2>4, <2>6, <2>7 DEF Congruent, x
<1> QED
  BY <1>3, <1>4, <1>5

(* The sum over b of the k-th powers of GTimes(b).                         *)
Column(k) == [b \in Field |-> Power(GTimes(b), k, PrimeP)]

LEMMA ColumnSum ==
  ASSUME NEW k \in Field
  PROVE  /\ Column(k) \in [Field -> Nat] /\ SumOn(Column(k), Field) \in Nat
         /\ Congruent(SumOn(Column(k), Field), IF k = 0 THEN PrimeQ ELSE 0, PrimeP)
<1> USE Moduli, BasesHaveOrderQ
<1> DEFINE f == Column(k)
           hk == Power(H, k, PrimeP)
           gk == Power(G, k, PrimeP)
           g == PowersBelow(hk)
<1>1. PrimeP \in Nat \ {0} /\ IsFiniteSet(Field) /\ k \in Nat
  <2>1. IsFiniteSet(Field)
    BY FS_Interval DEF Field
  <2> QED
    BY <2>1
<1>2. f \in [Field -> Nat]
  BY <1>1, GTimesIs, PowerByTimes DEF Column
<1>3. hk \in Nat /\ gk \in Nat
  BY <1>1, PowerByTimes
<1> HIDE DEF f
<1>4. SumOn(f, Field) \in Nat
  BY <1>1, <1>2, SumOnWithout
<1>5. CASE k = 0
  <2>1. \A b \in Field : f[b] = 1
    BY <1>5, GTimesIs, PowerByTimes DEF f, Column
  <2>2. SumOn(f, Field) = PrimeQ
    BY <1>2, <2>1, SumOfOnes
  <2> QED
    BY <1>2, <1>4, <1>5, <2>2 DEF f, Congruent
<1>6. CASE k # 0
  <2>1. hk \in Members
    <3>1. Times(Power(G, 0, PrimeP), hk, PrimeP) = hk
      <4>1. hk < PrimeP /\ Power(G, 0, PrimeP) = 1
        BY <1>1, PowerByTimes
      <4> QED
        BY <1>3, <4>1, TimesIs
    <3>2. BC(0, k) = Committed(0, k) /\ BC(0, k) \in Members
      BY <1>1, CommittedIs, CommitmentsAreMembers
    <3> QED
      BY <3>1, <3>2 DEF Committed
  <2>2. hk # 1
    <3>1. H \in Nat /\ H < PrimeP /\ H # 1 /\ 0 < k /\ k < PrimeQ
      BY <1>6, BasesInRange DEF Field
    <3> QED
      BY <1>1, <3>1, LeastOrder
  <2> HIDE DEF hk
  <2>3. g \in [Field -> Nat] /\ Congruent(SumOn(g, Field), 0, PrimeP)
    BY <1>3, <2>1, <2>2, PowersBelowAre, AllPowersVanish
  <2>4. \A b \in Field : Congruent(f[b], gk * g[b], PrimeP)
    BY GTimesIs DEF f, Column, hk
  <2> HIDE DEF g, gk
  <2>5. SumOn(g, Field) \in Nat
    BY <1>1, <2>3, SumOnWithout
  <2>6. gk \in Int
    BY <1>3
  <2>7. Congruent(SumOn(f, Field), gk * SumOn(g, Field), PrimeP)
    BY <1>1, <1>2, <2>3, <2>4, <2>6, ScaledSums
  <2> DEFINE s == SumOn(g, Field)
  <2>8. s \in Int /\ Congruent(s, 0, PrimeP) /\ Congruent(gk, gk, PrimeP)
    BY <2>3, <2>5 DEF Congruent
  <2> HIDE DEF s
  <2>9. Congruent(gk * s, gk * 0, PrimeP)
    BY <1>1, <2>6, <2>8, CongruentProducts
  <2>10. gk * 0 = 0
    BY <2>6
  <2> QED
    BY <1>2, <1>4, <1>6, <2>7, <2>9, <2>10 DEF f, s, Congruent
<1> QED
  BY <1>5, <1>6

(* The sums of the powers with exponents in e.                             *)
Rows(e) == [b \in Field |-> SumOn(PowersBelow(GTimes(b)), e)]

LEMMA RowsAre ==
  ASSUME NEW e \in SUBSET Field
  PROVE  /\ Rows(e) \in [Field -> Nat] /\ SumOn(Rows(e), Field) \in Nat
         /\ \A k \in e, b \in Field :
              Rows(e)[b] = Power(GTimes(b), k, PrimeP) + Rows(e \ {k})[b]
<1>1. IsFiniteSet(Field)
  BY Moduli, FS_Interval DEF Field
<1>2. ASSUME NEW b \in Field
      PROVE  /\ SumOn(PowersBelow(GTimes(b)), e) \in Nat
             /\ \A k \in e : SumOn(PowersBelow(GTimes(b)), e) =
                  Power(GTimes(b), k, PrimeP) + SumOn(PowersBelow(GTimes(b)), e \ {k})
  <2> DEFINE f == PowersBelow(GTimes(b))
  <2>1. f \in [Field -> Nat]
    BY GTimesIs, PowersBelowAre
  <2>2. \A k \in e : f[k] = Power(GTimes(b), k, PrimeP)
    BY DEF PowersBelow
  <2> HIDE DEF f
  <2>3. /\ SumOn(f, e) \in Nat
        /\ \A k \in e : SumOn(f, e) = f[k] + SumOn(f, e \ {k})
    BY <1>1, <2>1, SumOnWithout
  <2> QED
    BY <2>2, <2>3 DEF f
<1>3. Rows(e) \in [Field -> Nat]
  BY <1>2 DEF Rows
<1>4. SumOn(Rows(e), Field) \in Nat
  BY <1>1, <1>3, SumOnWithout
<1> QED
  BY <1>2, <1>3, <1>4 DEF Rows

LEMMA RowsAddUp ==
  \A e \in SUBSET Field :
    Congruent(SumOn(Rows(e), Field), IF 0 \in e THEN PrimeQ ELSE 0, PrimeP)
<1> DEFINE Goal(e) == IF 0 \in e THEN PrimeQ ELSE 0
           S(e) == SumOn(Rows(e), Field)
           Bad == {e \in SUBSET Field : ~ Congruent(S(e), Goal(e), PrimeP)}
<1> SUFFICES ASSUME Bad # {} PROVE FALSE
  OBVIOUS
<1>0. PrimeP \in Nat \ {0} /\ PrimeQ \in Nat /\ IsFiniteSet(Field)
  BY Moduli, FS_Interval DEF Field
<1>1. {} \notin Bad
  <2> DEFINE f == Rows({})
  <2>1. \A b \in Field : f[b] = 0
    BY SumOnNothing DEF Rows
  <2>2. f \in [Field -> Nat]
    BY RowsAre
  <2> HIDE DEF f
  <2>3. \A b \in Field : Congruent(f[b], 0 * f[b], PrimeP)
    BY <2>1 DEF Congruent
  <2>4. SumOn(f, Field) \in Nat
    BY <1>0, <2>2, SumOnWithout
  <2>5. Congruent(SumOn(f, Field), 0 * SumOn(f, Field), PrimeP)
    BY <1>0, <2>2, <2>3, ScaledSums
  <2>6. 0 * SumOn(f, Field) = 0
    BY <2>4
  <2>7. Congruent(S({}), Goal({}), PrimeP)
    BY <2>5, <2>6 DEF f
  <2> QED
    BY <2>7
<1>2. PICK e \in Bad : e # {} /\ e \ {Picked(e)} \notin Bad
  <2>1. Bad \in SUBSET SUBSET Field
    OBVIOUS
  <2> HIDE DEF Bad
  <2> QED
    BY <1>0, <1>1, <2>1, LeastSubset
<1> DEFINE k == Picked(e)
           r == e \ {k}
<1>3. e \in SUBSET Field /\ k \in e /\ k \in Field /\ r \in SUBSET Field
  BY <1>0, <1>2, PickedIs
<1> HIDE DEF k
<1>4. ~ Congruent(S(e), Goal(e), PrimeP) /\ Congruent(S(r), Goal(r), PrimeP)
  BY <1>2, <1>3 DEF k
<1> DEFINE f == Rows(e)
           g == Rows(r)
           h == Column(k)
           x == S(e)
           y == S(r)
           z == SumOn(h, Field)
<1>5. /\ f \in [Field -> Nat] /\ g \in [Field -> Nat] /\ h \in [Field -> Nat]
      /\ x \in Nat /\ y \in Nat /\ z \in Nat
      /\ Congruent(z, IF k = 0 THEN PrimeQ ELSE 0, PrimeP)
  BY <1>3, RowsAre, ColumnSum
<1>6. \A b \in Field : f[b] = h[b] + g[b]
  BY <1>3, RowsAre DEF Column
<1>7. Congruent(x + (-1) * z, 1 * y, PrimeP)
  <2> DEFINE d == -1
  <2>1. d \in Int /\ 1 \in Int
    OBVIOUS
  <2>2. ASSUME NEW b \in Field PROVE f[b] + d * h[b] = 1 * g[b]
    <3> DEFINE fb == f[b]
               gb == g[b]
               hb == h[b]
    <3>1. fb \in Nat /\ gb \in Nat /\ hb \in Nat /\ fb = hb + gb
      BY <1>5, <1>6
    <3> HIDE DEF fb, gb, hb
    <3>2. fb + (-1) * hb = 1 * gb
      BY <3>1
    <3> QED
      BY <3>2 DEF fb, gb, hb
  <2> HIDE DEF f, g, h
  <2>3. Combination(f, d, h, 1, g, Field, PrimeP)
    BY <2>2 DEF Combination, Congruent
  <2> HIDE DEF d
  <2>4. Congruent(SumOn(f, Field) + d * z, 1 * SumOn(g, Field), PrimeP)
    BY <1>0, <1>5, <2>1, <2>3, CombinedSums
  <2> QED
    BY <2>4 DEF d, f, g
<1>8. ~ Congruent(x, Goal(e), PrimeP) /\ Congruent(y, Goal(r), PrimeP)
  BY <1>4
<1> DEFINE gk == IF k = 0 THEN PrimeQ ELSE 0
           xz == x - z
<1>9. Goal(e) = Goal(r) + gk /\ Goal(r) \in Int /\ gk \in Int
  BY <1>0, <1>3
<1> DEFINE ge == Goal(e)
           gr == Goal(r)
<1> HIDE DEF f, g, h, x, y, z, S, Bad, gk, Goal, r, ge, gr
<1>10. xz \in Int /\ x + (-1) * z = xz /\ 1 * y = y /\ xz + z = x
  BY <1>5
<1>11. Congruent(xz, gr, PrimeP)
  BY <1>7, <1>8, <1>10 DEF Congruent, gr
<1>12. gr \in Int /\ gk \in Int /\ ge = gr + gk /\ z \in Int
  BY <1>5, <1>9 DEF ge, gr
<1> HIDE DEF xz
<1>13. Congruent(z, gk, PrimeP)
  BY <1>5 DEF gk
<1>14. Congruent(xz + z, gr + gk, PrimeP)
  BY <1>0, <1>10, <1>11, <1>12, <1>13, CongruentSums
<1> QED
  BY <1>8, <1>10, <1>12, <1>14 DEF ge

(* One base is a power of the other: if it were not, all rows would vanish *)
(* and so would q, which is less than p.                                   *)
LEMMA OneBaseIsPower == \E c \in Field : G = Power(H, c, PrimeP)
<1> SUFFICES ASSUME \A c \in Field : G # Power(H, c, PrimeP) PROVE FALSE
  OBVIOUS
<1> USE Moduli, BasesHaveOrderQ
<1>0. PrimeP \in Nat \ {0} /\ IsFiniteSet(Field) /\ PrimeQ < PrimeP /\ 0 \in Field
  BY SharingAssumption, FS_Interval DEF Field
<1>1. ASSUME NEW b \in Field PROVE GTimes(b) # 1
  <2> SUFFICES ASSUME GTimes(b) = 1 PROVE FALSE
    OBVIOUS
  <2> DEFINE d == PrimeQ - b
             hb == Power(H, b, PrimeP)
             hd == Power(H, d, PrimeP)
  <2>1. b \in Nat /\ d \in Nat /\ b + d = PrimeQ
    BY DEF Field
  <2> HIDE DEF d
  <2>2. hb \in Nat /\ hd \in Nat /\ hd < PrimeP /\ Times(hb, hd, PrimeP) = 1
    <3>1. Power(H, b + d, PrimeP) = Times(hb, hd, PrimeP)
      BY <2>1, PowerOfSum
    <3> QED
      BY <2>1, <3>1, PowerByTimes
  <2>3. Power(H, d % PrimeQ, PrimeP) = hd /\ d % PrimeQ \in Field
    BY <2>1, ExponentReduced, Remainder DEF Field
  <2> HIDE DEF hb, hd
  <2>4. Times(Times(G, hb, PrimeP), hd, PrimeP) = Times(G, Times(hb, hd, PrimeP), PrimeP)
    BY <2>2, TimesIs
  <2>5. Times(G, 1, PrimeP) = G /\ Times(1, hd, PrimeP) = hd
    BY <2>2, BasesInRange, TimesIs
  <2>6. Times(G, hb, PrimeP) = 1
    BY DEF GTimes, hb
  <2>7. G = hd
    BY <2>2, <2>4, <2>5, <2>6
  <2> QED
    BY <2>3, <2>7
<1> DEFINE f == Rows(Field)
<1>2. f \in [Field -> Nat] /\ SumOn(f, Field) \in Nat
  BY RowsAre
<1>3. \A b \in Field : Congruent(f[b], 0, PrimeP)
  BY <1>1, GTimesIs, AllPowersVanish DEF Rows
<1>4. Congruent(SumOn(f, Field), PrimeQ, PrimeP)
  BY <1>0, RowsAddUp
<1> HIDE DEF f
<1>5. ASSUME NEW b \in Field PROVE Congruent(f[b], 0 * f[b], PrimeP)
  <2> DEFINE fb == f[b]
  <2>1. fb \in Nat
    BY <1>2
  <2> HIDE DEF fb
  <2>2. 0 * fb = 0
    BY <2>1
  <2> QED
    BY <1>3, <2>2 DEF fb
<1>6. Congruent(SumOn(f, Field), 0 * SumOn(f, Field), PrimeP)
  <2>1. \A b \in Field : Congruent(f[b], 0 * f[b], PrimeP)
    BY <1>5
  <2>2. 0 \in Int /\ PrimeP \in Nat \ {0} /\ IsFiniteSet(Field) /\ f \in [Field -> Nat]
    BY <1>0, <1>2
  <2> QED
    BY <2>1, <2>2, ScaledSums
<1> DEFINE s == SumOn(f, Field)
<1> HIDE DEF s
<1>7. 0 * s = 0
  BY <1>2 DEF s
<1>8. Congruent(PrimeQ, 0, PrimeP)
  BY <1>4, <1>6, <1>7 DEF s, Congruent
<1>9. PrimeQ % PrimeP = PrimeQ /\ 0 % PrimeP = 0 /\ PrimeQ # 0
  BY <1>0, RemainderOfSmall
<1> QED
  BY <1>8, <1>9 DEF Congruent

(* A commitment can be opened to every value.                              *)
LEMMA CommitmentFits ==
  ASSUME NEW s \in Field, NEW t \in Field, NEW v \in Field
  PROVE  \E w \in Field : BC(v, w) = BC(s, t)
<1> USE Moduli, BasesHaveOrderQ
<1>1. PICK c \in Field : G = Power(H, c, PrimeP)
  BY OneBaseIsPower
<1>2. c \in Nat /\ s \in Nat /\ t \in Nat /\ v \in Nat /\ v <= PrimeQ
  BY DEF Field
<1>3. ASSUME NEW a \in Nat, NEW b \in Nat
      PROVE  BC(a, b) = Power(H, c * a + b, PrimeP)
  <2> DEFINE ca == c * a
  <2>1. ca \in Nat
    BY <1>2
  <2>2. Power(G, a, PrimeP) = Power(H, c * a, PrimeP)
    BY <1>1, <1>2, PowerOfPower
  <2>3. BC(a, b) = Times(Power(H, c * a, PrimeP), Power(H, b, PrimeP), PrimeP)
    BY <2>2, CommittedIs DEF Committed
  <2> HIDE DEF ca
  <2>4. Power(H, ca + b, PrimeP) = Times(Power(H, ca, PrimeP), Power(H, b, PrimeP), PrimeP)
    BY <2>1, PowerOfSum
  <2> QED
    BY <2>3, <2>4 DEF ca
<1> DEFINE a == c * s + t
           e == a + c * (PrimeQ - v)
           w == e % PrimeQ
           b == c * v + e
<1>4. a \in Nat /\ e \in Nat /\ b = PrimeQ * c + a /\ b \in Nat
  <2>1. PrimeQ - v \in Nat
    BY <1>2
  <2>2. c * v + c * (PrimeQ - v) = PrimeQ * c
    BY <1>2
  <2>3. a \in Nat
    BY <1>2
  <2>4. c * (PrimeQ - v) \in Nat /\ c * v \in Nat
    BY <1>2, <2>1
  <2> HIDE DEF a
  <2> QED
    BY <2>2, <2>3, <2>4
<1>5. w \in Field /\ w % PrimeQ = w
  <2> HIDE DEF e
  <2>1. e \in Int
    BY <1>4
  <2>2. w \in Field
    BY <2>1, SameRemainder
  <2> HIDE DEF w
  <2> QED
    BY <2>2, FieldIsItsRemainder
<1>6. BC(v, w) = BC(v, e)
  <2>1. Committed(v, w) = Committed(v % PrimeQ, w % PrimeQ)
    BY <1>2, <1>5, CommittedIs
  <2> HIDE DEF e
  <2>2. Committed(v, e) = Committed(v % PrimeQ, e % PrimeQ)
    BY <1>2, <1>4, CommittedIs
  <2>3. w \in Nat /\ e \in Nat /\ v \in Nat /\ w = e % PrimeQ
    BY <1>2, <1>4, <1>5
  <2> HIDE DEF w
  <2>4. BC(v, w) = Committed(v, w) /\ BC(v, e) = Committed(v, e)
    BY <2>3, CommittedIs
  <2> QED
    BY <1>5, <2>1, <2>2, <2>3, <2>4
<1>7. BC(v, e) = Power(H, b, PrimeP) /\ BC(s, t) = Power(H, a, PrimeP)
  <2> HIDE DEF e
  <2> QED
    BY <1>2, <1>3, <1>4
<1> HIDE DEF a, b, e, w
<1>8. b % PrimeQ = a % PrimeQ
  BY <1>2, <1>4, MultipleAdded
<1>9. Power(H, b, PrimeP) = Power(H, a, PrimeP)
  <2>1. Power(H, b % PrimeQ, PrimeP) = Power(H, b, PrimeP)
    BY <1>4, ExponentReduced
  <2>2. Power(H, a % PrimeQ, PrimeP) = Power(H, a, PrimeP)
    BY <1>4, ExponentReduced
  <2> QED
    BY <1>8, <2>1, <2>2
<1> QED
  BY <1>5, <1>6, <1>7, <1>9

-----------------------------------------------------------------------------
(* Polynomials that vanish at given points.                                *)

(* A polynomial times a factor x - b.                                      *)
Before(h, k) == IF k = 1 THEN 0 ELSE h[k - 1]
TimesRoot(h, b) ==
  [k \in Coefficients |-> (Before(h, k) - b * h[k]) % PrimeQ]

LEMMA TimesRootIs ==
  ASSUME NEW h \in [Coefficients -> Field], NEW b \in Points
  PROVE  /\ TimesRoot(h, b) \in [Coefficients -> Field]
         /\ \A k \in Coefficients :
              /\ Before(h, k) \in Nat /\ h[k] \in Nat
              /\ Same(TimesRoot(h, b)[k], Before(h, k) - b * h[k])
<1>1. ASSUME NEW k \in Coefficients
      PROVE  Before(h, k) \in Nat /\ h[k] \in Nat
  <2>1. k # 1 => k - 1 \in Coefficients
    BY Moduli DEF Coefficients
  <2> QED
    BY <2>1, Moduli DEF Before
<1>2. ASSUME NEW k \in Coefficients
      PROVE  /\ TimesRoot(h, b)[k] \in Field
             /\ Same(TimesRoot(h, b)[k], Before(h, k) - b * h[k])
  <2> DEFINE z == Before(h, k) - b * h[k]
  <2>1. z \in Int
    BY <1>1, PointsAre
  <2>2. TimesRoot(h, b)[k] = z % PrimeQ
    BY DEF TimesRoot
  <2> HIDE DEF z
  <2>3. z % PrimeQ \in Field /\ Same(z % PrimeQ, z)
    BY <2>1, SameRemainder
  <2> QED
    BY <2>2, <2>3 DEF z
<1>3. TimesRoot(h, b) \in [Coefficients -> Field]
  BY <1>2 DEF TimesRoot
<1> QED
  BY <1>1, <1>2, <1>3

(* The step of the sum of the first terms. *)
LEMMA NextTerm ==
  ASSUME NEW a1 \in Nat, NEW a \in Nat, NEW b \in Nat, NEW x \in Nat,
         NEW h0 \in Nat, NEW h \in Nat, NEW h1 \in Nat,
         NEW p \in Nat, NEW p1 \in Nat,
         Same(a1 + b * a + h0 * p, x * a),
         Same(h1, h0 - b * h), Same(p1, x * p)
  PROVE  Same((h1 * p + a1) + b * (h * p + a) + h * p1, x * (h * p + a))
<1> DEFINE d == h0 - b * h
           xp == x * p
           u == a1 + b * a + h0 * p
           v == h1 * p
           w == h * p1
           hp == h * p
           e == a1 + b * a + b * hp
           xa == x * a
<1>1. /\ d \in Int /\ xp \in Int /\ u \in Int /\ v \in Int /\ w \in Int
      /\ hp \in Int /\ e \in Int /\ xa \in Int
  OBVIOUS
<1>2. Same(v, d * p)
  <2>1. Same(h1, d) /\ Same(p, p)
    BY DEF Same
  <2> HIDE DEF d
  <2> QED
    BY <1>1, <2>1, SameProducts
<1>3. Same(w, h * xp)
  <2>1. Same(p1, xp) /\ Same(h, h)
    BY DEF Same
  <2> HIDE DEF xp
  <2> QED
    BY <1>1, <2>1, SameProducts
<1> DEFINE dp == d * p
           hxp == h * xp
<1>4. dp \in Int /\ hxp \in Int
  <2> HIDE DEF d, xp
  <2> QED
    BY <1>1
<1>5. Same(e + v, e + dp)
  <2>1. Same(e, e)
    BY DEF Same
  <2> HIDE DEF e, v, dp
  <2> QED
    BY <1>1, <1>2, <1>4, <2>1, SameSums DEF dp
<1>6. e + dp = u
  <2> DEFINE bhp == b * hp
             ba == b * a
             h0p == h0 * p
  <2>1. bhp = (b * h) * p
    OBVIOUS
  <2>2. dp = h0p - (b * h) * p
    OBVIOUS
  <2>3. bhp \in Int /\ ba \in Int /\ h0p \in Int
    BY <1>1
  <2> HIDE DEF bhp, ba, h0p, dp
  <2>4. dp = h0p - bhp
    BY <2>1, <2>2
  <2>5. e = a1 + ba + bhp /\ u = a1 + ba + h0p
    BY DEF bhp, ba, h0p
  <2> QED
    BY <2>3, <2>4, <2>5
<1>7. Same(e + v, xa)
  BY <1>5, <1>6 DEF Same
<1> DEFINE ev == e + v
<1>8. ev \in Int
  <2> HIDE DEF e, v
  <2> QED
    BY <1>1
<1>9. Same(ev + w, xa + hxp)
  <2> HIDE DEF e, v, w, xa, hxp
  <2>1. Same(ev, xa)
    BY <1>7
  <2> HIDE DEF ev
  <2> QED
    BY <1>1, <1>3, <1>4, <1>8, <2>1, SameSums DEF hxp
<1>10. xa + hxp = x * (h * p + a)
  <2>1. hxp = x * hp
    OBVIOUS
  <2>2. x * (hp + a) = x * hp + x * a
    <3> HIDE DEF hp
    <3> QED
      BY <1>1
  <2> HIDE DEF hxp, hp
  <2>3. x * hp \in Int /\ x * a \in Int
    BY <1>1
  <2> QED
    BY <2>1, <2>2, <2>3 DEF hp
<1>11. ev + w = (h1 * p + a1) + b * (h * p + a) + h * p1
  <2>1. b * (hp + a) = b * hp + b * a
    <3> HIDE DEF hp
    <3> QED
      BY <1>1
  <2> DEFINE bhp == b * hp
             ba == b * a
  <2>2. bhp \in Int /\ ba \in Int
    <3> HIDE DEF hp
    <3> QED
      BY <1>1
  <2>3. e = a1 + ba + bhp
    OBVIOUS
  <2> HIDE DEF v, w, e, bhp, ba
  <2>4. ev + w = (v + a1) + (bhp + ba) + w
    BY <1>1, <2>2, <2>3
  <2> QED
    BY <2>1, <2>4 DEF v, w, bhp, ba, hp
<1> QED
  BY <1>9, <1>10, <1>11

(* The sums of the terms of degree below n, of h and of h times x - b.     *)
Below(h, x, n) == SumOn(Terms(h, x), 1 .. n)

Shifts(h, b, x, n) ==
  Same(Below(TimesRoot(h, b), x, n) + b * Below(h, x, n)
         + Before(h, n + 1) * Power(x, n, PrimeQ),
       x * Below(h, x, n))

LEMMA SumOfFirst ==
  ASSUME NEW t \in [Coefficients -> Nat], NEW n \in Coefficients
  PROVE  SumOn(t, 1 .. n) = t[n] + SumOn(t, 1 .. n - 1)
<1> DEFINE m == 1 .. n
<1>1. T \in Nat /\ n \in 1 .. T + 1
  BY Moduli DEF Coefficients
<1>2. m \in SUBSET Coefficients
  BY <1>1 DEF Coefficients
<1>3. n \in m /\ m \ {n} = 1 .. n - 1
  BY <1>1
<1> HIDE DEF m
<1>4. IsFiniteSet(Coefficients)
  BY CoefficientsFinite
<1>5. SumOn(t, m) = t[n] + SumOn(t, m \ {n})
  BY <1>2, <1>3, <1>4, SumOnWithout
<1> QED
  BY <1>3, <1>5 DEF m

LEMMA BelowIs ==
  ASSUME NEW h \in [Coefficients -> Field], NEW x \in Points,
         NEW n \in 0 .. T + 1
  PROVE  /\ Below(h, x, n) \in Nat
         /\ n = 0 => Below(h, x, n) = 0
         /\ n # 0 => /\ n \in Coefficients
                     /\ Below(h, x, n) = h[n] * Power(x, n - 1, PrimeQ)
                                           + Below(h, x, n - 1)
<1> DEFINE t == Terms(h, x)
<1>1. T \in Nat /\ n \in Nat
  BY Moduli
<1>2. t \in [Coefficients -> Nat]
  BY TermsAre
<1>3. 1 .. n \in SUBSET Coefficients
  BY <1>1 DEF Coefficients
<1>4. \A k \in Coefficients : t[k] = h[k] * Power(x, k - 1, PrimeQ)
  BY DEF Terms
<1> HIDE DEF t
<1>5. SumOn(t, 1 .. n) \in Nat
  BY <1>2, <1>3, CoefficientsFinite, SumOnWithout
<1>6. ASSUME n = 0 PROVE SumOn(t, 1 .. n) = 0
  <2>1. 1 .. n = {}
    BY <1>6
  <2> QED
    BY <2>1, SumOnNothing
<1>7. ASSUME n # 0
      PROVE  /\ n \in Coefficients
             /\ SumOn(t, 1 .. n) = t[n] + SumOn(t, 1 .. n - 1)
  <2>1. n \in Coefficients
    BY <1>1, <1>7 DEF Coefficients
  <2> QED
    BY <1>2, <2>1, SumOfFirst
<1> QED
  BY <1>4, <1>5, <1>6, <1>7 DEF Below, t

LEMMA NextShifts ==
  ASSUME NEW h \in [Coefficients -> Field], NEW b \in Points, NEW x \in Points,
         NEW n \in 0 .. T, Shifts(h, b, x, n)
  PROVE  Shifts(h, b, x, n + 1)
<1> DEFINE g == TimesRoot(h, b)
           k == n + 1
           a1 == Below(g, x, n)
           a == Below(h, x, n)
           h0 == Before(h, k)
           hk == h[k]
           h1 == g[k]
           p == Power(x, n, PrimeQ)
           p1 == Power(x, k, PrimeQ)
<1>1. /\ T \in Nat /\ n \in Nat /\ n \in 0 .. T + 1 /\ k \in 0 .. T + 1 /\ k # 0
      /\ k - 1 = n /\ k + 1 # 1 /\ (k + 1) - 1 = k
      /\ x \in Nat /\ b \in Nat
  BY Moduli, PointsAre
<1>2. k \in Coefficients
  BY <1>1 DEF Coefficients
<1>3. g \in [Coefficients -> Field]
  BY TimesRootIs
<1>4. h0 \in Nat /\ hk \in Nat /\ Same(h1, h0 - b * hk)
  BY <1>2, TimesRootIs
<1>5. p \in Nat /\ p1 \in Nat /\ Same(p1, x * p)
  <2>1. /\ Powers(n) \in Values /\ Powers(n + 1) \in Values
        /\ TimesPoint(Powers(n), Powers(n + 1))
    BY <1>1, PowersAre
  <2> QED
    BY <2>1 DEF TimesPoint, Powers, Values
<1> HIDE DEF g
<1>6. a1 \in Nat /\ Below(g, x, k) = h1 * p + a1
  BY <1>1, <1>3, BelowIs
<1>7. a \in Nat /\ Below(h, x, k) = hk * p + a
  BY <1>1, BelowIs
<1>8. h1 \in Nat
  BY <1>2, <1>3, FieldIsItsRemainder
<1>9. Before(h, k + 1) = hk
  BY <1>1 DEF Before
<1>10. Same(a1 + b * a + h0 * p, x * a)
  BY DEF Shifts, g
<1> HIDE DEF a1, a, h0, hk, h1, p, p1, k
<1>11. Same((h1 * p + a1) + b * (hk * p + a) + hk * p1, x * (hk * p + a))
  BY <1>1, <1>4, <1>5, <1>6, <1>7, <1>8, <1>10, NextTerm
<1>12. Shifts(h, b, x, k)
  BY <1>6, <1>7, <1>9, <1>11 DEF Shifts, g, p1
<1> QED
  BY <1>12 DEF k

(* When h has a degree to spare, h times x - b is a polynomial again.      *)
LEMMA PolynomialTimesRoot ==
  ASSUME NEW h \in [Coefficients -> Field], NEW b \in Points, NEW x \in Points,
         h[T + 1] = 0
  PROVE  Same(Polynomial(x, TimesRoot(h, b)) + b * Polynomial(x, h),
              x * Polynomial(x, h))
<1> DEFINE g == TimesRoot(h, b)
           n == T + 1
<1>1. T \in Nat /\ x \in Nat /\ b \in Nat
  BY Moduli, PointsAre
<1>2. g \in [Coefficients -> Field]
  BY TimesRootIs
<1>3. Shifts(h, b, x, n)
  <2> DEFINE Bad == {i \in 0 .. T + 1 : ~ Shifts(h, b, x, i)}
  <2> SUFFICES ASSUME Bad # {} PROVE FALSE
    BY <1>1
  <2>1. Bad \in SUBSET Nat
    BY <1>1
  <2>2. PICK i \in Bad : \A j \in Bad : i <= j
    BY <2>1, LeastNatural
  <2>3. i \in Nat /\ i \in 0 .. T + 1 /\ ~ Shifts(h, b, x, i)
    BY <2>1
  <2>4. Shifts(h, b, x, 0)
    <3>1. 0 \in 0 .. T + 1
      BY <1>1
    <3> HIDE DEF g
    <3>2. Below(g, x, 0) = 0 /\ Below(h, x, 0) = 0
      BY <1>2, <3>1, BelowIs
    <3>3. Before(h, 0 + 1) = 0
      BY DEF Before
    <3> DEFINE p == Power(x, 0, PrimeQ)
    <3>4. p \in Nat
      BY <1>1, PointsAre, PowerType
    <3> HIDE DEF p
    <3>5. 0 + b * 0 + 0 * p = x * 0
      BY <1>1, <3>4
    <3> QED
      BY <3>2, <3>3, <3>5 DEF Shifts, Same, p, g
  <2>5. i # 0
    BY <2>3, <2>4
  <2>6. i - 1 \in 0 .. T /\ (i - 1) + 1 = i /\ ~ (i <= i - 1) /\ i - 1 \in 0 .. T + 1
    BY <1>1, <2>3, <2>5
  <2>7. Shifts(h, b, x, i - 1)
    BY <2>2, <2>6
  <2> QED
    BY <2>3, <2>6, <2>7, NextShifts
<1> DEFINE a1 == Below(g, x, n)
           a == Below(h, x, n)
           pg == Polynomial(x, g)
           ph == Polynomial(x, h)
           q == Power(x, n, PrimeQ)
<1>4. a1 \in Nat /\ a \in Nat /\ q \in Nat
  <2>1. n \in 0 .. T + 1 /\ n \in Nat
    BY <1>1
  <2> HIDE DEF g, n
  <2> QED
    BY <1>1, <1>2, <2>1, BelowIs, PointsAre, PowerType
<1>5. Same(a1 + b * a, x * a)
  <2>1. Before(h, n + 1) = 0
    BY <1>1 DEF Before
  <2>2. Same(a1 + b * a + 0 * q, x * a)
    BY <1>3, <2>1 DEF Shifts
  <2> HIDE DEF a1, a, q
  <2> DEFINE ba == b * a
  <2>3. ba \in Nat
    BY <1>1, <1>4
  <2> HIDE DEF ba
  <2>4. a1 + ba + 0 * q = a1 + ba
    BY <1>4, <2>3
  <2> QED
    BY <2>2, <2>4 DEF ba
<1>6. Same(pg, a1) /\ Same(ph, a) /\ pg \in Nat /\ ph \in Nat
  <2>1. Coefficients = 1 .. n
    BY DEF Coefficients
  <2> HIDE DEF g, n
  <2> QED
    BY <1>2, <2>1, PolynomialIs DEF TermsOn, Below
<1> HIDE DEF a1, a, pg, ph
<1>7. Same(b * ph, b * a) /\ Same(x * ph, x * a)
  <2>1. Same(b, b) /\ Same(x, x)
    BY DEF Same
  <2> QED
    BY <1>1, <1>4, <1>6, <2>1, SameProducts
<1>8. Same(pg + b * ph, a1 + b * a)
  <2>1. b * ph \in Nat /\ b * a \in Nat
    BY <1>1, <1>4, <1>6
  <2> QED
    BY <1>4, <1>6, <1>7, <2>1, SameSums
<1>9. Same(pg + b * ph, x * ph)
  BY <1>5, <1>7, <1>8 DEF Same
<1> QED
  BY <1>9 DEF pg, ph, g

LEMMA SameInField ==
  ASSUME NEW x \in Field, NEW y \in Field, Same(x, y)
  PROVE  x = y
BY FieldIsItsRemainder DEF Same

LEMMA ZeroInField ==
  0 \in Field /\ 1 \in Field /\ 1 \in Coefficients /\ T + 1 \in Coefficients
BY Moduli, SharingAssumption DEF Field, Coefficients, MinParties

(* A polynomial with a constant term whose roots are given, and with no    *)
(* more terms than they need.                                              *)
Vanishing(X) ==
  {h \in [Coefficients -> Field] :
     /\ h[1] # 0
     /\ \A x \in X : Polynomial(x, h) = 0
     /\ \A k \in Coefficients : k > Cardinality(X) + 1 => h[k] = 0}

LEMMA NothingVanishes == Vanishing({}) # {}
<1> DEFINE h == [k \in Coefficients |-> IF k = 1 THEN 1 ELSE 0]
<1>1. h \in [Coefficients -> Field] /\ h[1] # 0
  BY ZeroInField
<1>2. ASSUME NEW k \in Coefficients, k > Cardinality({}) + 1 PROVE h[k] = 0
  <2>1. Cardinality({}) = 0
    BY FS_EmptySet
  <2>2. k # 1
    BY <1>2, <2>1
  <2> QED
    BY <2>2
<1> HIDE DEF h
<1>3. h \in Vanishing({})
  BY <1>1, <1>2 DEF Vanishing
<1> QED
  BY <1>3

LEMMA OneMoreVanishes ==
  ASSUME NEW r \in SUBSET Points, NEW b \in Points, NEW h \in Vanishing(r),
         NEW s \in SUBSET Points, s = r \cup {b},
         Cardinality(r) \in Nat, Cardinality(s) = Cardinality(r) + 1,
         Cardinality(s) <= T
  PROVE  TimesRoot(h, b) \in Vanishing(s)
<1> DEFINE g == TimesRoot(h, b)
           n == Cardinality(r)
<1>1. /\ h \in [Coefficients -> Field] /\ h[1] # 0
      /\ \A x \in r : Polynomial(x, h) = 0
      /\ \A k \in Coefficients : k > n + 1 => h[k] = 0
  BY DEF Vanishing
<1>2. T \in Nat /\ n \in Nat /\ n + 1 <= T /\ b \in Nat
  BY Moduli, PointsAre
<1>3. g \in [Coefficients -> Field]
  BY <1>1, TimesRootIs
<1>4. \A k \in Coefficients :
        /\ Before(h, k) \in Nat /\ h[k] \in Nat
        /\ Same(g[k], Before(h, k) - b * h[k])
  BY <1>1, TimesRootIs
<1> HIDE DEF g, n
<1>5. g[1] # 0
  <2> DEFINE a == h[1]
             z == (-b) * a
  <2>1. a \in Field /\ a # 0 /\ a \in Int /\ ~ Same(a, 0)
    BY <1>1, ZeroInField, FieldIsItsRemainder DEF Same
  <2>2. -b \in Int /\ ~ Same(-b, 0)
    BY PointsDiffer
  <2> DEFINE d == -b
  <2> HIDE DEF a, d
  <2>3. ~ Same(d * a, 0)
    BY <2>1, <2>2, FieldHasNoDivisors DEF d
  <2>4. Before(h, 1) - b * a = d * a
    <3>1. Before(h, 1) = 0
      BY DEF Before
    <3> QED
      BY <1>2, <2>1, <3>1 DEF d
  <2>5. Same(g[1], d * a)
    BY <1>4, <2>4, ZeroInField DEF a
  <2> QED
    BY <2>3, <2>5 DEF Same
<1>6. ASSUME NEW x \in s PROVE Polynomial(x, g) = 0
  <2> DEFINE pg == Polynomial(x, g)
             ph == Polynomial(x, h)
  <2>1. x \in Points /\ x \in Nat
    BY PointsAre
  <2>2. h[T + 1] = 0
    BY <1>1, <1>2, ZeroInField
  <2>3. Same(pg + b * ph, x * ph)
    BY <1>1, <2>1, <2>2, PolynomialTimesRoot DEF g
  <2>4. pg \in Field /\ pg \in Nat /\ ph \in Nat
    BY <1>1, <1>3, <2>1, PolynomialIs
  <2>5. x = b \/ ph = 0
    BY <1>1
  <2> HIDE DEF pg, ph
  <2> DEFINE y == b * ph
  <2>6. y \in Int /\ x * ph = y /\ 0 + y = y
    BY <1>2, <2>1, <2>4, <2>5
  <2>7. Same(pg + y, 0 + y)
    BY <2>3, <2>6
  <2> HIDE DEF y
  <2>8. 0 \in Int /\ pg \in Int
    BY <2>4
  <2>9. Same(pg, 0)
    BY <2>6, <2>7, <2>8, SumCancels
  <2> QED
    BY <2>4, <2>9, ZeroInField, SameInField DEF pg
<1>7. ASSUME NEW k \in Coefficients, k > Cardinality(s) + 1 PROVE g[k] = 0
  <2>1. k \in Nat
    BY <1>2 DEF Coefficients
  <2>2. Cardinality(s) = n + 1
    BY DEF n
  <2>3. k - 1 \in Coefficients /\ k - 1 > n + 1 /\ k > n + 1 /\ k # 1
    BY <1>2, <1>7, <2>1, <2>2 DEF Coefficients
  <2>4. Before(h, k) = 0 /\ h[k] = 0
    BY <1>1, <2>3 DEF Before
  <2>5. 0 - b * 0 = 0
    BY <1>2
  <2>6. Same(g[k], 0) /\ g[k] \in Field
    BY <1>3, <1>4, <2>4, <2>5
  <2> QED
    BY <2>6, ZeroInField, SameInField
<1>8. g \in Vanishing(s)
  BY <1>3, <1>5, <1>6, <1>7 DEF Vanishing
<1> QED
  BY <1>8 DEF g

LEMMA SomeVanish ==
  ASSUME NEW X \in SUBSET Points, Cardinality(X) <= T
  PROVE  Vanishing(X) # {}
<1> DEFINE Bad == {s \in SUBSET X : Vanishing(s) = {}}
<1> SUFFICES ASSUME Bad # {} PROVE FALSE
  OBVIOUS
<1>1. IsFiniteSet(X) /\ Bad \in SUBSET SUBSET X
  BY PointsAre, FS_Subset
<1>2. {} \notin Bad
  BY NothingVanishes
<1>3. PICK s \in Bad : s # {} /\ s \ {Picked(s)} \notin Bad
  BY <1>1, <1>2, LeastSubset
<1>4. s \in SUBSET X /\ Vanishing(s) = {}
  OBVIOUS
<1> DEFINE b == Picked(s)
           r == s \ {b}
<1>5. /\ b \in s /\ b \in Points /\ r \in SUBSET Points /\ s = r \cup {b}
      /\ r \in SUBSET X /\ s \in SUBSET Points
      /\ Cardinality(r) \in Nat /\ Cardinality(s) = Cardinality(r) + 1
  BY <1>1, <1>3, <1>4, PickedIs
<1>6. Cardinality(s) <= T
  <2>1. Cardinality(s) <= Cardinality(X) /\ Cardinality(X) \in Nat
    BY <1>1, <1>4, FS_Subset, FS_CardinalityType
  <2> QED
    BY <1>5, <2>1, Moduli
<1>7. PICK h \in Vanishing(r) : TRUE
  BY <1>3, <1>5
<1> HIDE DEF Bad, b, r
<1>8. TimesRoot(h, b) \in Vanishing(s)
  BY <1>5, <1>6, OneMoreVanishes
<1> QED
  BY <1>4, <1>8

LEMMA PolynomialScaled ==
  ASSUME NEW f \in [Coefficients -> Field], NEW g \in [Coefficients -> Field],
         NEW c \in Int, NEW x \in Points,
         \A k \in Coefficients : Same(g[k], c * f[k])
  PROVE  Same(Polynomial(x, g), c * Polynomial(x, f))
<1> DEFINE u == Terms(g, x)
           v == Terms(f, x)
           y == SumOn(v, Coefficients)
<1>1. u \in [Coefficients -> Nat] /\ v \in [Coefficients -> Nat]
  BY TermsAre
<1>2. ASSUME NEW k \in Coefficients PROVE Congruent(u[k], c * v[k], PrimeQ)
  <2> DEFINE a == g[k]
             b == f[k]
             p == Power(x, k - 1, PrimeQ)
             cb == c * b
  <2>1. u[k] = a * p /\ v[k] = b * p
    BY DEF Terms
  <2>2. p \in Nat /\ a \in Nat /\ b \in Nat
    BY PointsAre, CoefficientsFinite, Moduli, PowerType
  <2>3. Same(a, cb) /\ Same(p, p) /\ cb \in Int
    BY <2>2 DEF Same
  <2> HIDE DEF a, b, p, u, v
  <2>4. cb * p = c * (b * p)
    BY <2>2
  <2> HIDE DEF cb
  <2>5. Same(a * p, cb * p)
    BY <2>2, <2>3, SameProducts
  <2> QED
    BY <2>1, <2>4, <2>5, SameIsCongruent
<1>3. Same(Polynomial(x, g), SumOn(u, Coefficients)) /\ Same(Polynomial(x, f), y)
      /\ Polynomial(x, f) \in Nat
  BY PolynomialIs DEF TermsOn
<1> HIDE DEF u, v
<1>4. Same(SumOn(u, Coefficients), c * y)
  <2>1. IsFiniteSet(Coefficients) /\ PrimeQ \in Nat \ {0}
    BY CoefficientsFinite, PointsAre
  <2>2. Congruent(SumOn(u, Coefficients), c * SumOn(v, Coefficients), PrimeQ)
    BY <1>1, <1>2, <2>1, ScaledSums
  <2> QED
    BY <2>2, SameIsCongruent
<1>5. y \in Nat
  BY <1>1, CoefficientsFinite, SumOnWithout
<1> HIDE DEF y
<1>6. Same(c * Polynomial(x, f), c * y)
  <2>1. Same(c, c)
    BY DEF Same
  <2> QED
    BY <1>3, <1>5, <2>1, SameProducts
<1> QED
  BY <1>3, <1>4, <1>6 DEF Same

(* T values of a polynomial go with every constant term.                   *)
LEMMA ValuesFitEverySecret ==
  ASSUME NEW f \in [Coefficients -> Field], NEW s \in Field,
         NEW X \in SUBSET Points, Cardinality(X) <= T
  PROVE  \E o \in [Coefficients -> Field] :
           o[1] = s /\ \A x \in X : Polynomial(x, o) = Polynomial(x, f)
<1>1. PICK h \in Vanishing(X) : TRUE
  BY SomeVanish
<1>2. /\ h \in [Coefficients -> Field] /\ h[1] # 0
      /\ \A x \in X : Polynomial(x, h) = 0
  BY DEF Vanishing
<1> DEFINE a == h[1]
           v == ModInverse(a, PrimeQ)
           d == s - f[1]
           c == d * v
<1>3. a \in 1 .. PrimeQ - 1 /\ f[1] \in Nat /\ s \in Nat /\ 1 \in Coefficients
  BY <1>2, Moduli, ZeroInField DEF Field
<1> HIDE DEF a
<1>4. v \in Int /\ Same(a * v, 1)
  <2>1. v \in Field /\ Same(a * v, 1)
    BY <1>3, FieldInverse
  <2> HIDE DEF v
  <2> QED
    BY <2>1, FieldIsItsRemainder
<1> HIDE DEF v
<1>5. c \in Int /\ d \in Int /\ a \in Int
  BY <1>3, <1>4
<1> DEFINE e == [k \in Coefficients |-> (c * h[k]) % PrimeQ]
           o == [k \in Coefficients |-> (f[k] + e[k]) % PrimeQ]
<1> HIDE DEF c
<1>6. /\ e \in [Coefficients -> Field]
      /\ \A k \in Coefficients : Same(e[k], c * h[k])
  <2>1. ASSUME NEW k \in Coefficients
        PROVE  e[k] \in Field /\ Same(e[k], c * h[k])
    <3> DEFINE z == c * h[k]
    <3>1. h[k] \in Int
      BY <1>2, FieldIsItsRemainder
    <3>2. z \in Int /\ e[k] = z % PrimeQ
      BY <1>5, <3>1
    <3> HIDE DEF z, e
    <3> QED
      BY <3>2, SameRemainder DEF z
  <2> QED
    BY <2>1
<1> HIDE DEF e
<1>7. /\ o \in [Coefficients -> Field]
      /\ \A k \in Coefficients : Same(o[k], f[k] + e[k])
  <2>1. ASSUME NEW k \in Coefficients
        PROVE  o[k] \in Field /\ Same(o[k], f[k] + e[k])
    <3> DEFINE z == f[k] + e[k]
    <3>1. f[k] \in Int /\ e[k] \in Int
      BY <1>6, FieldIsItsRemainder
    <3>2. z \in Int /\ o[k] = z % PrimeQ
      BY <3>1
    <3> HIDE DEF z, o
    <3> QED
      BY <3>2, SameRemainder DEF z
  <2> QED
    BY <2>1
<1> HIDE DEF o
<1>8. ASSUME NEW x \in X PROVE Polynomial(x, o) = Polynomial(x, f)
  <2> DEFINE pe == Polynomial(x, e)
             pf == Polynomial(x, f)
  <2>1. x \in Points
    OBVIOUS
  <2>2. Same(pe, c * 0)
    BY <1>2, <1>5, <1>6, <2>1, PolynomialScaled
  <2>3. pe \in Field /\ pf \in Field
    BY <1>6, <2>1, PolynomialIs
  <2>4. Polynomial(x, o) = (pf + pe) % PrimeQ
    BY <1>6, <1>7, <2>1, PolynomialsAdd
  <2> HIDE DEF pe, pf
  <2>5. pe = 0
    <3>1. c * 0 = 0
      BY <1>5
    <3> QED
      BY <2>2, <2>3, <3>1, ZeroInField, SameInField
  <2>6. pf + 0 = pf /\ pf % PrimeQ = pf
    BY <2>3, FieldIsItsRemainder
  <2> QED
    BY <2>4, <2>5, <2>6 DEF pf
<1>9. o[1] = s
  <2> DEFINE f1 == f[1]
             e1 == e[1]
             va == a * v
  <2>1. Same(o[1], f1 + e1) /\ Same(e1, c * a) /\ e1 \in Nat
    BY <1>3, <1>6, <1>7, Moduli DEF a
  <2>2. c * a = d * va
    BY <1>4, <1>5 DEF c
  <2>3. va \in Int
    BY <1>4, <1>5
  <2> HIDE DEF va, d
  <2>4. Same(d * va, d * 1)
    <3>1. Same(d, d) /\ Same(va, 1) /\ 1 \in Int
      BY <1>4 DEF Same, va
    <3> QED
      BY <1>5, <2>3, <3>1, SameProducts
  <2>5. Same(e1, d)
    BY <1>5, <2>1, <2>2, <2>4 DEF Same
  <2>6. f1 \in Int /\ e1 \in Int /\ Same(f1, f1)
    BY <1>3, <2>1 DEF Same
  <2> HIDE DEF e1, f1
  <2>7. Same(f1 + e1, f1 + d)
    BY <1>5, <2>5, <2>6, SameSums
  <2>8. f1 + d = s
    BY <1>3 DEF f1, d
  <2>9. Same(o[1], s) /\ o[1] \in Field
    BY <1>3, <1>7, <2>1, <2>7, <2>8 DEF Same
  <2> QED
    BY <2>9, SameInField
<1> QED
  BY <1>7, <1>8, <1>9

(* o and u deal the secret s, and look to X as f and g do. *)
LooksTheSame(o, u, s, f, g, X) ==
  /\ o[1] = s
  /\ Commitments(o, u) = Commitments(f, g)
  /\ \A x \in X : Share(x, o, u) = Share(x, f, g)

(* T shares and the commitments of a dealing belong, to the last value, to *)
(* a dealing of every other secret as well: who has no more than these     *)
(* learns nothing of a vote.                                               *)
THEOREM SharesFitEveryVote ==
  ASSUME NEW f \in [Coefficients -> Field], NEW g \in [Coefficients -> Field],
         NEW s \in Field, NEW X \in SUBSET Points, Cardinality(X) <= T
  PROVE  \E o, u \in [Coefficients -> Field] : LooksTheSame(o, u, s, f, g, X)
<1>1. PICK o \in [Coefficients -> Field] :
        o[1] = s /\ \A x \in X : Polynomial(x, o) = Polynomial(x, f)
  BY ValuesFitEverySecret
<1> DEFINE Opens(k, w) == BC(o[k], w) = BC(f[k], g[k])
           u == [k \in Coefficients |-> CHOOSE w \in Field : Opens(k, w)]
<1>2. ASSUME NEW k \in Coefficients
      PROVE  u[k] \in Field /\ Opens(k, u[k])
  <2>1. f[k] \in Field /\ g[k] \in Field /\ o[k] \in Field
    OBVIOUS
  <2>2. \E w \in Field : Opens(k, w)
    BY <2>1, CommitmentFits
  <2> HIDE DEF Opens
  <2> QED
    BY <2>2
<1>3. u \in [Coefficients -> Field]
  BY <1>2
<1>4. Commitments(o, u) = Commitments(f, g)
  <2>1. DOMAIN o = Coefficients /\ DOMAIN f = Coefficients
    OBVIOUS
  <2>2. \A k \in Coefficients : BC(o[k], u[k]) = BC(f[k], g[k])
    BY <1>2
  <2> HIDE DEF u
  <2> QED
    BY <2>1, <2>2 DEF Commitments
<1> HIDE DEF u
<1>5. ASSUME NEW x \in X PROVE Share(x, o, u) = Share(x, f, g)
  <2> DEFINE a == Share(x, f, g)
             b == Share(x, o, u)
             c == Commitments(f, g)
             p == ProductMod(RaisedAt(x, c), PrimeP)
  <2>1. x \in Nat
    BY PointsAre
  <2>2. a \in ShareAt(x) /\ b \in ShareAt(x) /\ c \in Proofs
    BY <1>3, <2>1, DealtIsTyped
  <2>3. MatchesCommitments(a, c)
    BY <2>1, DealtShareMatches
  <2>4. MatchesCommitments(b, c)
    BY <1>3, <1>4, <2>1, DealtShareMatches
  <2>5. a.S = b.S
    BY <1>1 DEF Share
  <2>6. a = [Point |-> x, S |-> a.S, T |-> a.T]
    BY DEF Share
  <2>7. b = [Point |-> x, S |-> b.S, T |-> b.T]
    BY DEF Share
  <2> HIDE DEF a, b, c
  <2>8. Committed(a.S, a.T) = p /\ Committed(b.S, b.T) = p
    BY <2>1, <2>2, <2>3, <2>4, MatchingIs
  <2>9. a.S \in Field /\ a.T \in Field /\ b.T \in Field
    BY <2>2 DEF ShareAt
  <2>10. Committed(a.S, b.T) = Committed(a.S, a.T)
    BY <2>5, <2>8
  <2>11. b.T = a.T
    BY <2>9, <2>10, CommittedBinds
  <2> QED
    BY <2>5, <2>6, <2>7, <2>11 DEF a, b
<1> QED
  BY <1>1, <1>3, <1>4, <1>5 DEF LooksTheSame
=============================================================================
