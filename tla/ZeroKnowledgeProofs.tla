------------------------- MODULE ZeroKnowledgeProofs ------------------------
(***************************************************************************)
(* Dealings of 0 and 1 for any prime order, any number of servers and any  *)
(* random choices: what an honest dealer sends is accepted, what has been  *)
(* altered is not, and t+1 or more shares give the vote back.              *)
(***************************************************************************)
EXTENDS ZeroKnowledge, SharingProofs, SequenceTheorems

-----------------------------------------------------------------------------
(* Challenges and their numbers.                                           *)

LEMMA PowersOfTwoGrow ==
  \A n \in Nat : /\ Power(2, n, 0) \in Nat /\ n < Power(2, n, 0)
                 /\ Power(2, n + 1, 0) = Power(2, n, 0) + Power(2, n, 0)
<1> DEFINE two(n) == Power(2, n, 0)
           Bad == {n \in Nat : ~ (n < two(n))}
<1>1. two(0) = 1 /\ \A n \in Nat : two(n) \in Nat /\ two(n + 1) = two(n) * 2
  BY PowerUnreduced
<1> HIDE DEF two
<1>2. \A n \in Nat : two(n + 1) = two(n) + two(n)
  BY <1>1
<1>3. Bad = {}
  <2> SUFFICES ASSUME Bad # {} PROVE FALSE
    OBVIOUS
  <2>1. PICK n \in Bad : \A k \in Bad : n <= k
    BY LeastNatural
  <2>2. n \in Nat /\ ~ (n < two(n)) /\ n # 0
    BY <1>1
  <2>3. n - 1 \in Nat /\ (n - 1) + 1 = n /\ n - 1 \notin Bad
    BY <2>1, <2>2
  <2>4. n - 1 < two(n - 1) /\ two(n - 1) \in Nat
    BY <1>1, <2>3
  <2>5. two(n) = two(n - 1) + two(n - 1)
    BY <1>2, <2>3
  <2> QED
    BY <2>2, <2>3, <2>4, <2>5
<1> QED
  BY <1>1, <1>2, <1>3 DEF two

(* SetPrimes leaves room below PrimeQ for every challenge. *)
LEMMA TBitIs == TBit \in 1 .. PrimeQ /\ Power(2, TBit, 0) <= PrimeQ
<1> DEFINE two(n) == Power(2, n, 0)
           Above == {n \in Nat : two(n + 1) > PrimeQ}
<1> USE Moduli, PowersOfTwoGrow
<1>0. PrimeQ > 3
  BY SharingAssumption DEF MinParties
<1>1. two(0) = 1 /\ two(1) = 2
  <2>1. Power(2, 0, 0) = 1
    BY PowerUnreduced
  <2>2. Power(2, 0 + 1, 0) = Power(2, 0, 0) + Power(2, 0, 0)
    OBVIOUS
  <2> QED
    BY <2>1, <2>2
<1>2. PrimeQ \in Above
  <2>1. PrimeQ + 1 \in Nat /\ PrimeQ + 1 < two(PrimeQ + 1)
    OBVIOUS
  <2> QED
    BY <2>1
<1>3. PICK n \in Above : \A k \in Above : n <= k
  BY <1>2, LeastNatural
<1> HIDE DEF two
<1>4. n \in Nat /\ two(n + 1) > PrimeQ /\ n <= PrimeQ
  BY <1>2, <1>3
<1>5. n # 0
  BY <1>0, <1>1, <1>4
<1>6. n - 1 \in Nat /\ (n - 1) + 1 = n /\ n - 1 \notin Above
  <2>1. n - 1 \in Nat /\ (n - 1) + 1 = n
    BY <1>4, <1>5
  <2>2. n - 1 \in Above => n <= n - 1
    BY <1>3
  <2> QED
    BY <1>4, <2>1, <2>2
<1>7. two(n) \in Nat
  BY <1>4 DEF two
<1>8. two(n) <= PrimeQ
  BY <1>6, <1>7
<1>9. n \in 1 .. PrimeQ
  BY <1>4, <1>5
<1>10. \E b \in 1 .. PrimeQ :
         Power(2, b, 0) <= PrimeQ /\ Power(2, b + 1, 0) > PrimeQ
  BY <1>4, <1>8, <1>9 DEF two
<1> QED
  BY <1>10 DEF TBit

LEMMA ChallengesFinite ==
  /\ IsFiniteSet(0 .. TBit - 1)
  /\ \A e \in Challenges : IsFiniteSet(e) /\ e \subseteq Nat
<1>1. TBit \in Int /\ TBit - 1 \in Int
  BY TBitIs, Moduli
<1>2. IsFiniteSet(0 .. TBit - 1)
  BY <1>1, FS_Interval
<1>3. ASSUME NEW e \in Challenges PROVE IsFiniteSet(e) /\ e \subseteq Nat
  <2>1. e \subseteq 0 .. TBit - 1
    BY DEF Challenges
  <2>2. 0 .. TBit - 1 \subseteq Nat
    BY <1>1
  <2>3. IsFiniteSet(e)
    BY <1>2, <2>1, FS_Subset
  <2> QED
    BY <2>1, <2>2, <2>3
<1> QED
  BY <1>2, <1>3

LEMMA NumberIs ==
  ASSUME NEW e \in Challenges
  PROVE  Number[e] \in Nat
<1> DEFINE f == [i \in e |-> Power(2, i, 0)]
<1>1. f \in [e -> Nat]
  BY ChallengesFinite, PowersOfTwoGrow
<1>2. Number[e] = SumFunction(f)
  BY DEF Number
<1> HIDE DEF f
<1>3. PICK P : TotalOf(f, e, P) /\ SumFunction(f) = P[e]
  BY <1>1, ChallengesFinite, SumIs
<1>4. P[e] \in Nat
  BY <1>3 DEF TotalOf
<1> QED
  BY <1>2, <1>3, <1>4

(* The number of a challenge is the total of the powers at its ones; it is *)
(* below PrimeQ, and no other challenge has it.                            *)
Positions == 0 .. TBit - 1
Weights == [i \in Positions |-> Power(2, i, 0)]

LEMMA NumberIsTotal ==
  \E P : TotalOf(Weights, Positions, P) /\ \A e \in Challenges : Number[e] = P[e]
<1>1. TBit - 1 \in Int
  BY TBitIs, Moduli
<1>2. Positions \in SUBSET Nat /\ IsFiniteSet(Positions)
  BY <1>1, ChallengesFinite DEF Positions
<1>3. Weights \in [Positions -> Nat]
  BY <1>2, PowersOfTwoGrow DEF Weights
<1>4. PICK P : TotalOf(Weights, Positions, P)
  BY <1>2, <1>3, SumIs
<1>5. ASSUME NEW e \in Challenges PROVE Number[e] = P[e]
  <2> DEFINE f == [i \in e |-> Power(2, i, 0)]
  <2>1. e \in SUBSET Positions
    BY DEF Challenges, Positions
  <2>2. IsFiniteSet(e) /\ f \in [e -> Nat]
    BY ChallengesFinite, PowersOfTwoGrow
  <2>3. AgreeOn(Weights, f, e)
    BY <2>1 DEF Weights, AgreeOn
  <2>4. Number[e] = SumFunction(f)
    BY DEF Number
  <2> HIDE DEF f
  <2>5. PICK Q : TotalOf(f, e, Q) /\ SumFunction(f) = Q[e]
    BY <2>2, SumIs
  <2>6. P[e] = Q[e]
    BY <1>2, <1>4, <2>1, <2>3, <2>5, TotalOfPart
  <2> QED
    BY <2>1, <2>4, <2>5, <2>6
<1> QED
  BY <1>4, <1>5

LEMMA NumbersSmall ==
  ASSUME NEW P, TotalOf(Weights, Positions, P)
  PROVE  \A k \in Nat : \A s \in SUBSET Positions :
           (\A i \in s : i < k) => P[s] < Power(2, k, 0)
<1> DEFINE two(n) == Power(2, n, 0)
           Bad == {k \in Nat : \E s \in SUBSET Positions :
                                 (\A i \in s : i < k) /\ ~ (P[s] < two(k))}
<1> SUFFICES ASSUME Bad # {} PROVE FALSE
  OBVIOUS
<1>1. PICK k \in Bad : \A l \in Bad : k <= l
  BY LeastNatural
<1>2. PICK s \in SUBSET Positions : (\A i \in s : i < k) /\ ~ (P[s] < two(k))
  OBVIOUS
<1>3. Positions \in SUBSET Nat /\ IsFiniteSet(Positions)
  BY ChallengesFinite, TBitIs, Moduli DEF Positions
<1>4. Weights \in [Positions -> Nat]
  BY <1>3, PowersOfTwoGrow DEF Weights
<1>5. k \in Nat /\ two(k) \in Nat /\ k < two(k)
  BY PowersOfTwoGrow
<1>6. s # {} /\ k # 0
  <2>1. P[{}] = 0
    BY DEF TotalOf
  <2>2. s # {}
    BY <1>2, <1>5, <2>1
  <2>3. PICK i \in s : i < k
    BY <1>2, <2>2
  <2>4. i \in Nat
    BY <1>3
  <2> QED
    BY <1>5, <2>2, <2>3, <2>4
<1> DEFINE j == k - 1
           r == s \ {j}
<1>7. j \in Nat /\ j + 1 = k /\ j < k
  BY <1>5, <1>6
<1>8. \A q \in SUBSET Positions : (\A i \in q : i < j) => P[q] < two(j)
  <2>1. j \notin Bad
    BY <1>1, <1>5, <1>7
  <2> QED
    BY <1>7, <2>1
<1>9. two(j) \in Nat /\ two(k) = two(j) + two(j)
  BY <1>7, PowersOfTwoGrow
<1>10. r \in SUBSET Positions /\ \A i \in r : i < j
  BY <1>2, <1>3, <1>5, <1>7
<1>11. P[r] < two(j) /\ P[r] \in Nat
  BY <1>8, <1>10 DEF TotalOf
<1>12. j \in s => P[s] = two(j) + P[r]
  <2>1. AnyOrder(Weights, Positions, P)
    BY <1>3, <1>4, TotalInAnyOrder
  <2>2. j \in s => P[s] = Weights[j] + P[r]
    BY <2>1 DEF AnyOrder
  <2>3. j \in s => Weights[j] = two(j)
    BY DEF Weights
  <2> QED
    BY <2>2, <2>3
<1>13. j \notin s => r = s
  OBVIOUS
<1> HIDE DEF two, j, r
<1> QED
  BY <1>2, <1>9, <1>11, <1>12, <1>13

LEMMA NumbersDiffer ==
  /\ \A e \in Challenges : Number[e] \in Field
  /\ \A e, f \in Challenges : Number[e] = Number[f] => e = f
  /\ {} \in Challenges /\ Number[{}] = 0
<1> DEFINE two(n) == Power(2, n, 0)
<1>1. PICK P : /\ TotalOf(Weights, Positions, P)
               /\ \A e \in Challenges : Number[e] = P[e]
  BY NumberIsTotal
<1>2. Positions \in SUBSET Nat /\ IsFiniteSet(Positions)
  BY ChallengesFinite, TBitIs, Moduli DEF Positions
<1>3. Weights \in [Positions -> Nat]
  BY <1>2, PowersOfTwoGrow DEF Weights
<1>4. Challenges = SUBSET Positions
  BY DEF Challenges, Positions
<1>5. TBit \in Nat /\ two(TBit) <= PrimeQ /\ two(TBit) \in Nat
  BY TBitIs, Moduli, PowersOfTwoGrow
<1>6. ASSUME NEW e \in Challenges PROVE Number[e] \in Field
  <2>1. \A i \in e : i < TBit
    BY <1>5 DEF Challenges
  <2>2. P[e] < two(TBit) /\ P[e] \in Nat
    BY <1>1, <1>4, <1>5, <2>1, NumbersSmall DEF TotalOf
  <2> HIDE DEF two
  <2> QED
    BY <1>1, <1>5, <2>2, Moduli DEF Field
<1> DEFINE Bad == {k \in Nat : \E e, f \in SUBSET Positions :
                     /\ \A i \in e \cup f : i < k
                     /\ P[e] = P[f] /\ e # f}
<1>7. Bad = {}
  <2> SUFFICES ASSUME Bad # {} PROVE FALSE
    OBVIOUS
  <2>1. PICK k \in Bad : \A l \in Bad : k <= l
    BY LeastNatural
  <2>2. PICK e \in SUBSET Positions, f \in SUBSET Positions :
          (\A i \in e \cup f : i < k) /\ P[e] = P[f] /\ e # f
    OBVIOUS
  <2>3. k \in Nat /\ k # 0
    <3>1. PICK i \in e \cup f : TRUE
      BY <2>2
    <3>2. i \in Nat /\ i < k
      BY <1>2, <2>2
    <3> QED
      BY <3>2
  <2> DEFINE j == k - 1
  <2>4. j \in Nat /\ j < k
    BY <2>3
  <2>5. \A q, r \in SUBSET Positions :
          (\A i \in q \cup r : i < j) /\ P[q] = P[r] => q = r
    <3>1. j \notin Bad
      BY <2>1, <2>3, <2>4
    <3> QED
      BY <2>4, <3>1
  <2>6. ASSUME NEW q \in SUBSET Positions, \A i \in q : i < k
        PROVE  /\ q \ {j} \in SUBSET Positions
               /\ \A i \in q \ {j} : i < j
               /\ P[q \ {j}] \in Nat
               /\ P[q \ {j}] < two(j)
               /\ j \in q => P[q] = two(j) + P[q \ {j}]
               /\ j \notin q => q \ {j} = q
    <3>1. q \ {j} \in SUBSET Positions /\ \A i \in q \ {j} : i < j
      BY <1>2, <2>3, <2>4, <2>6
    <3>2. P[q \ {j}] \in Nat
      BY <1>1, <3>1 DEF TotalOf
    <3>3. P[q \ {j}] < two(j)
      BY <1>1, <2>4, <3>1, NumbersSmall
    <3>4. j \in q => P[q] = two(j) + P[q \ {j}]
      <4>1. AnyOrder(Weights, Positions, P)
        BY <1>1, <1>2, <1>3, TotalInAnyOrder
      <4>2. j \in q => P[q] = Weights[j] + P[q \ {j}]
        BY <4>1 DEF AnyOrder
      <4>3. j \in q => Weights[j] = two(j)
        BY DEF Weights
      <4> QED
        BY <4>2, <4>3
    <3> QED
      BY <3>1, <3>2, <3>3, <3>4
  <2>7. two(j) \in Nat
    BY <2>4, PowersOfTwoGrow
  <2> HIDE DEF two, j
  <2> DEFINE ej == e \ {j}
             fj == f \ {j}
  <2>8. /\ ej \in SUBSET Positions /\ \A i \in ej : i < j
        /\ P[ej] \in Nat /\ P[ej] < two(j)
        /\ j \in e => P[e] = two(j) + P[ej]
        /\ j \notin e => P[e] = P[ej]
    BY <2>2, <2>6
  <2>9. /\ fj \in SUBSET Positions /\ \A i \in fj : i < j
        /\ P[fj] \in Nat /\ P[fj] < two(j)
        /\ j \in f => P[f] = two(j) + P[fj]
        /\ j \notin f => P[f] = P[fj]
    BY <2>2, <2>6
  <2> HIDE DEF ej, fj
  <2>10. (j \in e <=> j \in f) /\ P[ej] = P[fj]
    BY <2>2, <2>7, <2>8, <2>9
  <2>11. ej = fj
    BY <2>5, <2>8, <2>9, <2>10
  <2> QED
    BY <2>2, <2>10, <2>11 DEF ej, fj
<1>8. ASSUME NEW e \in Challenges, NEW f \in Challenges, Number[e] = Number[f]
      PROVE  e = f
  <2>1. \A i \in e \cup f : i < TBit
    BY <1>5 DEF Challenges
  <2>2. P[e] = P[f]
    BY <1>1, <1>8
  <2> QED
    BY <1>4, <1>5, <1>7, <2>1, <2>2
<1>9. {} \in Challenges /\ P[{}] = 0
  BY <1>1, <1>4 DEF TotalOf
<1> QED
  BY <1>1, <1>6, <1>8, <1>9

LEMMA SymDiffIs ==
  ASSUME NEW s \in Challenges, NEW e \in Challenges
  PROVE  /\ SymDiff(s, e) \in Challenges
         /\ SymDiff(e, SymDiff(s, e)) = s
         /\ SymDiff(SymDiff(s, e), e) = s
         /\ SymDiff(SymDiff(s, e), SymDiff(s, e)) = {}
BY DEF SymDiff, Challenges

-----------------------------------------------------------------------------
(* Conversations.                                                          *)

(* What a conversation is about: its commitment is H to the power g0.      *)
LEMMA OpensToZero ==
  ASSUME NEW bit \in {0, 1}, NEW g0 \in Nat
  PROVE  Shifted(BC(bit, g0), bit) = Power(H, g0, PrimeP)
<1> USE Moduli
<1> DEFINE h == Power(H, g0, PrimeP)
<1>1. h \in Nat /\ h < PrimeP
  BY BasesAre, PowerByTimes
<1>2. BC(bit, g0) = Times(Power(G, bit, PrimeP), h, PrimeP)
  BY CommittedIs DEF Committed
<1> HIDE DEF h
<1>3. CASE bit = 0
  <2>1. Power(G, 0, PrimeP) = 1
    BY BasesAre, PowerByTimes
  <2>2. Times(1, h, PrimeP) = h
    BY <1>1, TimesIs
  <2> QED
    BY <1>2, <1>3, <2>1, <2>2 DEF Shifted, h
<1>4. CASE bit = 1
  <2>1. BC(1, g0) = Times(G, h, PrimeP)
    BY <1>2, <1>4, BasesAre
  <2>2. Shifted(BC(1, g0), 1) = Times(BC(1, g0), ModInverse(G, PrimeP), PrimeP)
    BY DEF Shifted, Times
  <2>3. Times(Times(G, h, PrimeP), ModInverse(G, PrimeP), PrimeP) = h
    BY <1>1, BasesAre, UnitsCancel
  <2> QED
    BY <1>4, <2>1, <2>2, <2>3 DEF h
<1> QED
  BY <1>3, <1>4

LEMMA ShiftedIsUnit ==
  ASSUME NEW c \in Units, NEW bit \in {0, 1}
  PROVE  Shifted(c, bit) \in Units
<1>1. ModInverse(G, PrimeP) \in Units
  BY BasesAre, UnitsInvert
<1>2. Times(c, ModInverse(G, PrimeP), PrimeP) \in Units
  BY <1>1, UnitsMultiply
<1> QED
  BY <1>2 DEF Shifted, Times

(* The conversation of a dealer who knows g0. *)
LEMMA HonestAccepted ==
  ASSUME NEW g0 \in Nat, NEW r \in Nat, NEW e \in Challenges
  PROVE  /\ Accepts(Power(H, g0, PrimeP), Power(H, r, PrimeP), e,
                    (r + Number[e] * g0) % PrimeQ)
         /\ Power(H, r, PrimeP) \in Units
         /\ (r + Number[e] * g0) % PrimeQ \in Nat
<1> USE Moduli, BasesAre, BasesHaveOrderQ
<1> DEFINE n == Number[e]
           m == n * g0
<1>1. n \in Nat
  BY NumberIs
<1> HIDE DEF n
<1>2. m \in Nat /\ g0 * n = m
  BY <1>1
<1>3. Power(Power(H, g0, PrimeP), n, PrimeP) = Power(H, g0 * n, PrimeP)
  BY <1>1, PowerOfPower
<1> HIDE DEF m
<1>4. r + m \in Nat /\ (r + m) % PrimeQ \in Nat
  BY <1>2, Remainder
<1>5. Power(H, (r + m) % PrimeQ, PrimeP) = Power(H, r + m, PrimeP)
  BY <1>4, ExponentReduced
<1>6. Power(H, r + m, PrimeP) =
        Times(Power(H, r, PrimeP), Power(H, m, PrimeP), PrimeP)
  BY <1>2, PowerOfSum
<1>7. Power(H, r, PrimeP) \in Units
  BY PowersAreUnits
<1> QED
  BY <1>2, <1>3, <1>4, <1>5, <1>6, <1>7 DEF Accepts, Times, m, n

(* The conversation made up for a challenge that is known beforehand. *)
LEMMA SimulatedAccepted ==
  ASSUME NEW c \in Units, NEW e \in Challenges, NEW z \in Nat
  PROVE  Accepts(c, Simulated(c, e, z), e, z) /\ Simulated(c, e, z) \in Units
<1> USE Moduli
<1> DEFINE u == Power(c, Number[e], PrimeP)
           h == Power(H, z, PrimeP)
           v == ModInverse(u, PrimeP)
<1>1. u \in Units /\ h \in Units
  BY BasesAre, NumberIs, PowersAreUnits
<1>2. v \in Units /\ h \in Nat /\ h < PrimeP
  BY <1>1, UnitsInvert DEF Units
<1>3. Simulated(c, e, z) = Times(h, v, PrimeP)
  BY DEF Simulated, Times
<1>4. Times(h, v, PrimeP) \in Units
  BY <1>1, <1>2, UnitsMultiply
<1> HIDE DEF u, h
<1>5. Times(Times(h, v, PrimeP), u, PrimeP) = h
  BY <1>1, <1>2, UnitsCancel
<1> QED
  BY <1>3, <1>4, <1>5 DEF Accepts, Times, u, h

-----------------------------------------------------------------------------
(* A dealing: polynomials of degree t whose constant terms are the vote    *)
(* and another number of the field, then a proof that belongs to them.     *)

LEMMA PolynomialsAre ==
  ASSUME NEW c \in Field, NEW p \in Polynomials(c, Coefs)
  PROVE  p \in [Coefficients -> Field] /\ p[1] = c
<1> USE Moduli
<1>1. PICK rest \in [1 .. T -> Coefs] : p = <<c>> \o rest
  BY DEF Polynomials
<1>2. rest \in [1 .. T -> Field]
  BY <1>1, DrawsAssumption
<1>3. rest \in Seq(Field) /\ Len(rest) = T
  BY <1>2
<1>4. <<c>> \in Seq(Field) /\ Len(<<c>>) = 1 /\ <<c>>[1] = c
  OBVIOUS
<1>5. p \in Seq(Field) /\ Len(p) = T + 1 /\ p[1] = c
  BY <1>1, <1>3, <1>4
<1> QED
  BY <1>5 DEF Coefficients

ProofRecord ==
  [A0 : Units, E0 : Challenges, Z0 : Nat, A1 : Units, E1 : Challenges, Z1 : Nat]

(* The proof that was made is the one the oracle was asked about, and its  *)
(* two conversations are accepted.                                         *)
ProvenInv ==
  LET c == BC(secret, polyG[1])
  IN  /\ zk \in ProofRecord
      /\ answered \in Challenges
      /\ SymDiff(zk.E1, zk.E0) = answered
      /\ asked = <<zk.A0, zk.A1>>
      /\ Accepts(Shifted(c, 0), zk.A0, zk.E0, zk.Z0)
      /\ Accepts(Shifted(c, 1), zk.A1, zk.E1, zk.Z1)

DealingInv ==
  /\ secret \in {0, 1}
  /\ Dealt => /\ polyF \in [Coefficients -> Field] /\ polyF[1] = secret
              /\ polyG \in [Coefficients -> Field]
  /\ Proven => Dealt /\ ProvenInv

LEMMA ConstantTerms ==
  ASSUME DealingInv, Dealt
  PROVE  /\ polyG[1] \in Field /\ polyG[1] \in Nat /\ secret \in Nat
         /\ secret \in Field
         /\ CommitmentsDealt[1] = BC(secret, polyG[1])
         /\ BC(secret, polyG[1]) \in Units
<1> USE Moduli
<1>1. 1 \in Coefficients
  BY DEF Coefficients
<1>2. /\ polyG[1] \in Field /\ polyG[1] \in Nat /\ secret \in Nat
      /\ secret \in Field
  BY <1>1 DEF DealingInv
<1>3. CommitmentsDealt[1] = BC(secret, polyG[1])
  BY <1>1 DEF DealingInv, CommitmentsDealt, Commitments
<1> QED
  BY <1>2, <1>3, CommitmentsAreUnits

LEMMA CreateZeroKnowledgeProves ==
  ASSUME DealingInv, CreateZeroKnowledge
  PROVE  ProvenInv'
<1> USE Moduli
<1> DEFINE g0 == polyG[1]
           c  == BC(secret, g0)
<1>1. Dealt /\ secret \in {0, 1} /\ UNCHANGED <<secret, polyF, polyG>>
  BY DEF CreateZeroKnowledge, DealingInv
<1>2. g0 \in Nat /\ c \in Units
  BY <1>1, ConstantTerms
<1>3. PICK r \in Nonces, zSim \in SimAnswers, eSim \in Challenges, s \in Challenges :
        LET a    == Power(H, r, PrimeP)
            aSim == Simulated(Shifted(c, 1 - secret), eSim, zSim)
            e    == SymDiff(s, eSim)
            z    == (r + Number[e] * g0) % PrimeQ
        IN  /\ zk' = IF secret = 0
                     THEN [A0 |-> a, E0 |-> e, Z0 |-> z,
                           A1 |-> aSim, E1 |-> eSim, Z1 |-> zSim]
                     ELSE [A0 |-> aSim, E0 |-> eSim, Z0 |-> zSim,
                           A1 |-> a, E1 |-> e, Z1 |-> z]
            /\ asked' = IF secret = 0 THEN <<a, aSim>> ELSE <<aSim, a>>
            /\ answered' = s
  BY DEF CreateZeroKnowledge
<1> DEFINE a    == Power(H, r, PrimeP)
           aSim == Simulated(Shifted(c, 1 - secret), eSim, zSim)
           e    == SymDiff(s, eSim)
           z    == (r + Number[e] * g0) % PrimeQ
<1>4. r \in Nat /\ zSim \in Nat
  BY DrawsAssumption
<1>5. e \in Challenges /\ SymDiff(eSim, e) = s /\ SymDiff(e, eSim) = s
  BY SymDiffIs
<1>6. Accepts(Shifted(c, secret), a, e, z) /\ a \in Units /\ z \in Nat
  BY <1>1, <1>2, <1>4, <1>5, OpensToZero, HonestAccepted
<1>7. Shifted(c, 1 - secret) \in Units
  BY <1>1, <1>2, ShiftedIsUnit
<1>8. Accepts(Shifted(c, 1 - secret), aSim, eSim, zSim) /\ aSim \in Units
  BY <1>4, <1>7, SimulatedAccepted
<1>9. /\ zk' = IF secret = 0
               THEN [A0 |-> a, E0 |-> e, Z0 |-> z,
                     A1 |-> aSim, E1 |-> eSim, Z1 |-> zSim]
               ELSE [A0 |-> aSim, E0 |-> eSim, Z0 |-> zSim,
                     A1 |-> a, E1 |-> e, Z1 |-> z]
      /\ asked' = IF secret = 0 THEN <<a, aSim>> ELSE <<aSim, a>>
      /\ answered' = s
  BY <1>3
<1>10. BC(secret, polyG[1])' = c
  BY <1>1 DEF BC, PowersOfG, PowersOfH
<1> HIDE DEF a, aSim, e, z, c
<1>11. CASE secret = 0
  <2>1. /\ zk' \in ProofRecord /\ answered' \in Challenges
        /\ zk'.A0 = a /\ zk'.E0 = e /\ zk'.Z0 = z
        /\ zk'.A1 = aSim /\ zk'.E1 = eSim /\ zk'.Z1 = zSim
        /\ asked' = <<a, aSim>> /\ answered' = s
    BY <1>4, <1>5, <1>6, <1>8, <1>9, <1>11 DEF ProofRecord
  <2>2. /\ Accepts(Shifted(c, 0), a, e, z)
        /\ Accepts(Shifted(c, 1), aSim, eSim, zSim)
    BY <1>6, <1>8, <1>11
  <2> QED
    BY <1>5, <1>10, <2>1, <2>2 DEF ProvenInv
<1>12. CASE secret = 1
  <2>1. /\ zk' \in ProofRecord /\ answered' \in Challenges
        /\ zk'.A1 = a /\ zk'.E1 = e /\ zk'.Z1 = z
        /\ zk'.A0 = aSim /\ zk'.E0 = eSim /\ zk'.Z0 = zSim
        /\ asked' = <<aSim, a>> /\ answered' = s
    BY <1>4, <1>5, <1>6, <1>8, <1>9, <1>12 DEF ProofRecord
  <2>2. /\ Accepts(Shifted(c, 1), a, e, z)
        /\ Accepts(Shifted(c, 0), aSim, eSim, zSim)
    BY <1>6, <1>8, <1>12
  <2> QED
    BY <1>5, <1>10, <2>1, <2>2 DEF ProvenInv
<1> QED
  BY <1>1, <1>11, <1>12

LEMMA DealingInvariant == Spec => []DealingInv
<1>1. Init => DealingInv
  BY DEF Init, DealingInv, Dealt, Proven
<1>2. DealingInv /\ [Next]_vars => DealingInv'
  <2> SUFFICES ASSUME DealingInv, [Next]_vars PROVE DealingInv'
    OBVIOUS
  <2>1. CASE SecretGen
    <3>1. ~ Dealt /\ ~ Proven /\ UNCHANGED <<secret, zk, asked, answered>>
      BY <2>1 DEF SecretGen, DealingInv
    <3>2. secret \in Field
      BY SharingAssumption DEF DealingInv, Field, MinParties
    <3>3. polyF' \in [Coefficients -> Field] /\ polyF'[1] = secret
      BY <2>1, <3>2, PolynomialsAre DEF SecretGen
    <3>4. polyG' \in [Coefficients -> Field]
      BY <2>1, DrawsAssumption, PolynomialsAre DEF SecretGen
    <3> QED
      BY <3>1, <3>3, <3>4 DEF DealingInv, Proven
  <2>2. CASE CreateZeroKnowledge
    <3>1. Dealt /\ UNCHANGED <<secret, polyF, polyG>>
      BY <2>2 DEF CreateZeroKnowledge
    <3>2. ProvenInv'
      BY <2>2, CreateZeroKnowledgeProves
    <3> QED
      BY <3>1, <3>2 DEF DealingInv, Dealt
  <2>3. CASE UNCHANGED vars
    BY <2>3 DEF vars, DealingInv, Dealt, Proven, ProvenInv, ProofRecord
  <2> QED
    BY <2>1, <2>2, <2>3 DEF Next
<1> QED
  BY <1>1, <1>2, PTL DEF Spec

(* Every share an honest dealer deals is accepted by the server it is for, *)
(* with its commitments and the proof that the vote is 0 or 1, whatever    *)
(* the dealer draws and the oracle answers.                                *)
THEOREM HonestDealingsAccepted == Spec => []HonestSharesVerify
<1>1. DealingInv => HonestSharesVerify
  <2> SUFFICES ASSUME DealingInv, Proven, NEW share \in SharesDealt
               PROVE  VerifyShare(share, CommitmentsDealt, zk)
    BY DEF HonestSharesVerify
  <2>1. Dealt /\ ProvenInv
    BY DEF DealingInv
  <2>2. PICK x \in Points : share = Share(x, polyF, polyG)
    BY DEF SharesDealt
  <2>3. MatchesCommitments(share, CommitmentsDealt)
    BY <2>1, <2>2, Moduli, DealtShareMatches
       DEF DealingInv, CommitmentsDealt, Points
  <2>4. CommitmentsDealt[1] = BC(secret, polyG[1])
    BY <2>1, ConstantTerms
  <2>5. Verify01(zk, CommitmentsDealt[1])
    BY <2>1, <2>4 DEF ProvenInv, Verify01, RandomOracle, Shifted
  <2> QED
    BY <2>3, <2>5 DEF VerifyShare
<1> QED
  BY <1>1, DealingInvariant, PTL

(* Any t+1 or more shares of a dealing give the secret back, whatever the  *)
(* dealer drew: what hides it is only that t shares are too few.           *)
THEOREM EveryQuorumReconstructs == Spec => []AnyQuorumReconstructs
<1>1. DealingInv => AnyQuorumReconstructs
  <2> SUFFICES ASSUME DealingInv, Dealt, NEW shares \in SUBSET SharesDealt,
                      Cardinality(shares) > T
               PROVE  Reconstruct(shares) = secret
    BY DEF AnyQuorumReconstructs
  <2>1. polyF \in [Coefficients -> Field] /\ polyF[1] = secret
    BY DEF DealingInv
  <2>2. ASSUME NEW s \in shares
        PROVE  s.Point \in Points /\ s = Share(s.Point, polyF, polyG)
    <3>1. PICK x \in Points : s = Share(x, polyF, polyG)
      BY DEF SharesDealt
    <3> QED
      BY <3>1 DEF Share
  <2> DEFINE X == PointsOf(shares)
             h == [x \in X |-> Share(x, polyF, polyG)]
  <2>3. IsFiniteSet(X) /\ Cardinality(X) \in Nat
    <3>1. X \subseteq Points
      BY <2>2 DEF PointsOf
    <3> QED
      BY <3>1, PointsAre, FS_Subset, FS_CardinalityType
  <2>4. h \in Surjection(X, shares)
    <3>1. ASSUME NEW x \in X PROVE h[x] \in shares
      <4>1. PICK s \in shares : x = s.Point
        BY DEF PointsOf
      <4> QED
        BY <2>2, <4>1
    <3>2. ASSUME NEW s \in shares PROVE \E x \in X : h[x] = s
      <4>1. s.Point \in X
        BY DEF PointsOf
      <4> QED
        BY <2>2, <4>1
    <3> QED
      BY <3>1, <3>2 DEF Surjection
  <2>5. IsFiniteSet(shares) /\ Cardinality(shares) <= Cardinality(X)
    <3> HIDE DEF h, X
    <3> QED
      BY <2>3, <2>4, FS_Surjection
  <2>6. Cardinality(X) > T
    BY <2>3, <2>5, Moduli, FS_CardinalityType
  <2>7. SharesOf(polyF, shares)
    <3>1. ASSUME NEW s \in shares PROVE s.S = Polynomial(s.Point, polyF)
      BY <2>2 DEF Share
    <3>2. ASSUME NEW s \in shares, NEW r \in shares, s.Point = r.Point
          PROVE  s = r
      BY <2>2, <3>2
    <3> QED
      BY <2>2, <2>5, <3>1, <3>2 DEF SharesOf
  <2> QED
    BY <2>1, <2>6, <2>7, SecretReconstructed
<1> QED
  BY <1>1, DealingInvariant, PTL

-----------------------------------------------------------------------------
(* What has been altered.                                                  *)

(* A function on the coefficients is a polynomial that could be drawn.     *)
LEMMA PolynomialsCover ==
  ASSUME NEW f \in [Coefficients -> Field]
  PROVE  f \in Polynomials(f[1], Field)
<1> DEFINE c == f[1]
           rest == [k \in 1 .. T |-> f[k + 1]]
           g == <<c>> \o rest
<1>1. T \in Nat /\ Coefficients = 1 .. T + 1
  BY Moduli DEF Coefficients
<1>2. ASSUME NEW k \in 1 .. T PROVE rest[k] \in Field
  BY <1>1
<1>3. rest \in [1 .. T -> Field]
  BY <1>2
<1>4. g \in Polynomials(c, Field)
  BY <1>3 DEF Polynomials
<1>5. c \in Field
  BY <1>1
<1>6. rest \in Seq(Field) /\ Len(rest) = T
  BY <1>1, <1>3
<1>7. <<c>> \in Seq(Field) /\ Len(<<c>>) = 1 /\ <<c>>[1] = c
  BY <1>5
<1>8. g \in Seq(Field) /\ Len(g) = T + 1
  BY <1>1, <1>6, <1>7
<1>9. ASSUME NEW k \in 1 .. T + 1 PROVE g[k] = f[k]
  <2>1. CASE k = 1
    BY <1>6, <1>7, <2>1
  <2>2. CASE k # 1
    <3>1. k - 1 \in 1 .. T /\ (k - 1) + 1 = k
      BY <1>1, <2>2
    <3>2. rest[k - 1] = f[k]
      BY <3>1
    <3>3. k \in 2 .. T + 1
      BY <1>1, <2>2
    <3> HIDE DEF rest
    <3>4. g[k] = rest[k - 1]
      BY <1>1, <1>6, <1>7, <3>3
    <3> QED
      BY <3>2, <3>4
  <2> QED
    BY <2>1, <2>2
<1>10. DOMAIN g = 1 .. T + 1 /\ g = [k \in 1 .. T + 1 |-> g[k]]
  BY <1>1, <1>8
<1>11. f = [k \in 1 .. T + 1 |-> f[k]]
  BY <1>1
<1> HIDE DEF g
<1>12. g = f
  BY <1>9, <1>10, <1>11
<1> QED
  BY <1>4, <1>12

(* T servers together, with the commitments, cannot tell a vote from the   *)
(* other: some dealing of the other vote gives them the same shares.       *)
THEOREM TSharesTellNothing == Spec => []TSharesHideTheVote
<1>1. DealingInv => TSharesHideTheVote
  <2> SUFFICES ASSUME DealingInv, Dealt,
                      NEW X \in SUBSET Points, Cardinality(X) = T
               PROVE  \E otherF \in Polynomials(1 - secret, Field) :
                        /\ \A x \in X :
                             Polynomial(x, otherF) = Polynomial(x, polyF)
                        /\ \E otherG \in [DOMAIN polyG -> Field] :
                             Commitments(otherF, otherG) = CommitmentsDealt
    BY DEF TSharesHideTheVote
  <2>1. /\ polyF \in [Coefficients -> Field] /\ polyG \in [Coefficients -> Field]
        /\ secret \in {0, 1}
    BY DEF DealingInv
  <2> DEFINE other == 1 - secret
  <2>2. other \in Field
    BY <2>1, SharingAssumption DEF Field, MinParties
  <2>3. Cardinality(X) <= T
    BY Moduli
  <2> HIDE DEF other
  <2> DEFINE f == polyF
             g == polyG
  <2>4. f \in [Coefficients -> Field] /\ g \in [Coefficients -> Field]
    BY <2>1
  <2> HIDE DEF f, g
  <2>5. PICK o, u \in [Coefficients -> Field] :
          LooksTheSame(o, u, other, f, g, X)
    BY <2>2, <2>3, <2>4, SharesFitEveryVote
  <2>6. /\ o[1] = other
        /\ Commitments(o, u) = Commitments(polyF, polyG)
        /\ \A x \in X : Share(x, o, u) = Share(x, polyF, polyG)
    BY <2>5 DEF LooksTheSame, f, g
  <2>7. o \in Polynomials(other, Field)
    BY <2>6, PolynomialsCover
  <2>8. ASSUME NEW x \in X PROVE Polynomial(x, o) = Polynomial(x, polyF)
    <3>1. /\ Share(x, o, u).S = Polynomial(x, o)
          /\ Share(x, polyF, polyG).S = Polynomial(x, polyF)
      BY DEF Share
    <3> QED
      BY <2>6, <3>1
  <2>9. u \in [DOMAIN polyG -> Field]
    BY <2>1
  <2>10. Commitments(o, u) = CommitmentsDealt
    BY <2>6 DEF CommitmentsDealt
  <2> QED
    BY <2>7, <2>8, <2>9, <2>10 DEF other
<1> QED
  BY <1>1, DealingInvariant, PTL

(* A share with one of its two values changed on the way is refused by     *)
(* VerifyShare, whatever the dealer drew.                                  *)
THEOREM AlteredSharesRefused == Spec => []AlteredSharesRejected
<1>1. DealingInv => AlteredSharesRejected
  <2> SUFFICES ASSUME DealingInv, Dealt, NEW share \in SharesDealt,
                      NEW v \in Field
               PROVE  /\ v # share.S =>
                           ~ MatchesCommitments([share EXCEPT !.S = v],
                                                CommitmentsDealt)
                      /\ v # share.T =>
                           ~ MatchesCommitments([share EXCEPT !.T = v],
                                                CommitmentsDealt)
    BY DEF AlteredSharesRejected
  <2>1. PICK x \in Points : share = Share(x, polyF, polyG)
    BY DEF SharesDealt
  <2>2. /\ x \in Nat
        /\ polyF \in [Coefficients -> Field] /\ polyG \in [Coefficients -> Field]
    BY Moduli DEF DealingInv, Points
  <2>3. MatchesCommitments(share, CommitmentsDealt)
    BY <2>1, <2>2, DealtShareMatches DEF CommitmentsDealt
  <2>4. share \in ShareAt(x) /\ CommitmentsDealt \in Proofs
    BY <2>1, <2>2, DealtIsTyped DEF CommitmentsDealt
  <2> DEFINE s1 == [share EXCEPT !.S = v]
             s2 == [share EXCEPT !.T = v]
             p  == ProductMod(RaisedAt(x, CommitmentsDealt), PrimeP)
  <2>5. /\ share.S \in Field /\ share.T \in Field
        /\ s1 \in ShareAt(x) /\ s1.S = v /\ s1.T = share.T
        /\ s2 \in ShareAt(x) /\ s2.S = share.S /\ s2.T = v
    BY <2>4 DEF ShareAt
  <2>6. Committed(share.S, share.T) = p
    BY <2>2, <2>3, <2>4, MatchingIs
  <2> HIDE DEF s1, s2, p
  <2>7. MatchesCommitments(s1, CommitmentsDealt) =>
          Committed(v, share.T) = p
    BY <2>2, <2>4, <2>5, MatchingIs DEF p
  <2>8. MatchesCommitments(s2, CommitmentsDealt) =>
          Committed(share.S, v) = p
    BY <2>2, <2>4, <2>5, MatchingIs DEF p
  <2> QED
    BY <2>5, <2>6, <2>7, <2>8, CommittedBinds DEF s1, s2
<1> QED
  BY <1>1, DealingInvariant, PTL

(* The three ways in which an accepting conversation can be altered. *)
LEMMA OtherChallenge ==
  ASSUME NEW c \in Members, NEW a \in Units, NEW z \in Nat,
         NEW e \in Challenges, NEW f \in Challenges, e # f,
         Accepts(c, a, e, z), Accepts(c, a, f, z)
  PROVE  c = 1
<1> USE Moduli
<1> DEFINE u == Power(c, Number[e], PrimeP)
           v == Power(c, Number[f], PrimeP)
<1>1. Number[e] \in Field /\ Number[f] \in Field /\ Number[e] # Number[f]
  BY NumbersDiffer
<1>2. c \in Units /\ c \in Nat /\ c < PrimeP /\ Power(c, PrimeQ, PrimeP) = 1
  BY DEF Members, Units
<1>3. u \in Units /\ v \in Units
  BY <1>1, <1>2, PowersAreUnits
<1>4. Times(a, u, PrimeP) = Times(a, v, PrimeP)
  BY DEF Accepts, Times
<1>5. u = v => c = 1
  BY <1>1, <1>2, PowersDiffer
<1> HIDE DEF u, v
<1>6. u = v
  BY <1>3, <1>4, UnitsCancel DEF Units
<1> QED
  BY <1>5, <1>6

LEMMA OtherAnswer ==
  ASSUME NEW c, NEW a, NEW e, NEW z \in Nat, NEW v \in Field,
         Accepts(c, a, e, z), Accepts(c, a, e, v)
  PROVE  v = z % PrimeQ
<1> USE Moduli, BasesAre, BasesHaveOrderQ
<1>1. z % PrimeQ \in Field
  BY Remainder DEF Field
<1>2. Power(H, z % PrimeQ, PrimeP) = Power(H, z, PrimeP)
  BY ExponentReduced
<1>3. Power(H, v, PrimeP) = Power(H, z, PrimeP)
  BY DEF Accepts
<1> QED
  BY <1>1, <1>2, <1>3, PowersDiffer

LEMMA OtherCommitment ==
  ASSUME NEW c \in Members, NEW d \in Members, NEW a \in Units, NEW z,
         NEW e \in Challenges, e # {}, Accepts(c, a, e, z), Accepts(d, a, e, z)
  PROVE  c = d
<1> USE Moduli
<1> DEFINE n == Number[e]
           u == Power(c, n, PrimeP)
           v == Power(d, n, PrimeP)
<1>1. n \in Field /\ n # 0
  BY NumbersDiffer
<1> HIDE DEF n
<1>2. n \in Nat /\ 0 < n /\ n < PrimeQ
  BY <1>1 DEF Field
<1>3. u \in Units /\ v \in Units
  BY <1>2, PowersAreUnits DEF Members
<1>4. Times(a, u, PrimeP) = Times(a, v, PrimeP)
  BY DEF Accepts, Times, n
<1>5. u = v => c = d
  BY <1>2, RootsUnique
<1> HIDE DEF u, v
<1>6. u = v
  BY <1>3, <1>4, UnitsCancel DEF Units
<1> QED
  BY <1>5, <1>6

(* No two commitments shift to the same one, and the shift of 1 is not 1.  *)
LEMMA ShiftedDiffer ==
  /\ \A c \in Members : Shifted(c, 0) = c /\ Shifted(c, 1) \in Members
  /\ \A c, d \in Members : Shifted(c, 1) = Shifted(d, 1) => c = d
  /\ \A c \in Members : c = 1 => Shifted(c, 1) # 1
<1> USE Moduli
<1> DEFINE i == ModInverse(G, PrimeP)
<1>1. i \in Members /\ i \in Nat
  BY CommitmentsAreMembers, MembersMultiply DEF Members, Units
<1>2. \A c \in Members : Shifted(c, 0) = c /\ Shifted(c, 1) = Times(c, i, PrimeP)
  BY DEF Shifted, Times
<1>3. \A c \in Members : c \in Nat /\ c < PrimeP
  BY DEF Members, Units
<1>4. \A c \in Members : Times(Shifted(c, 1), G, PrimeP) = c
  BY <1>2, <1>3, BasesAre, UnitsCancel
<1>5. Times(1, G, PrimeP) = G /\ G # 1
  BY BasesAre, TimesIs
<1>6. \A c \in Members : Shifted(c, 1) \in Members
  BY <1>1, <1>2, MembersMultiply
<1> QED
  BY <1>2, <1>4, <1>5, <1>6

(* A proof is refused with another split of the challenge, another answer  *)
(* in either conversation, or any commitment to the other vote (but for    *)
(* two challenges 0, which leave the commitment out).                      *)
THEOREM AlteredProofsRefused == Spec => []AlteredProofsRejected
<1>1. DealingInv => AlteredProofsRejected
  <2> SUFFICES ASSUME DealingInv, Proven PROVE AlteredProofsRejected
    BY DEF AlteredProofsRejected
  <2> DEFINE c == CommitmentsDealt[1]
             c1 == Shifted(c, 1)
  <2>1. Dealt /\ ProvenInv
    BY DEF DealingInv
  <2>2. c = BC(secret, polyG[1]) /\ c \in Members
    BY <2>1, ConstantTerms, CommitmentsAreMembers
  <2>3. c1 \in Members /\ Shifted(c, 0) = c /\ (c = 1 => c1 # 1)
    BY <2>2, ShiftedDiffer
  <2>4. /\ zk.A0 \in Units /\ zk.A1 \in Units
        /\ zk.E0 \in Challenges /\ zk.E1 \in Challenges
        /\ zk.Z0 \in Nat /\ zk.Z1 \in Nat
    BY <2>1 DEF ProvenInv, ProofRecord
  <2>5. /\ Accepts(c, zk.A0, zk.E0, zk.Z0)
        /\ Accepts(c1, zk.A1, zk.E1, zk.Z1)
    BY <2>1, <2>2, <2>3 DEF ProvenInv
  <2>6. zk \in ProofRecord
    BY <2>1 DEF ProvenInv
  <2> HIDE DEF c, c1
  <2>7. ASSUME NEW d \in Challenges \ {{}},
               Verify01([zk EXCEPT !.E0 = SymDiff(@, d),
                                   !.E1 = SymDiff(@, d)], c)
        PROVE  FALSE
    <3> DEFINE e0 == SymDiff(zk.E0, d)
               e1 == SymDiff(zk.E1, d)
    <3>1. /\ Accepts(c, zk.A0, e0, zk.Z0)
          /\ Accepts(c1, zk.A1, e1, zk.Z1)
      BY <2>6, <2>7 DEF Verify01, ProofRecord, c1
    <3>2. /\ e0 \in Challenges /\ e0 # zk.E0
          /\ e1 \in Challenges /\ e1 # zk.E1
      BY <2>4 DEF Challenges, SymDiff
    <3> HIDE DEF e0, e1
    <3>3. c = 1
      BY <2>2, <2>4, <2>5, <3>1, <3>2, OtherChallenge
    <3>4. c1 = 1
      BY <2>3, <2>4, <2>5, <3>1, <3>2, OtherChallenge
    <3> QED
      BY <2>3, <3>3, <3>4
  <2>8. ASSUME NEW f \in {"Z0", "Z1"}, NEW v \in Field,
               v # zk[f] % PrimeQ, Verify01([zk EXCEPT ![f] = v], c)
        PROVE  FALSE
    <3>1. CASE f = "Z0"
      <4>1. Accepts(c, zk.A0, zk.E0, v) /\ zk[f] = zk.Z0
        BY <2>6, <2>8, <3>1 DEF Verify01, ProofRecord
      <4> QED
        BY <2>4, <2>5, <2>8, <4>1, OtherAnswer
    <3>2. CASE f = "Z1"
      <4>1. Accepts(c1, zk.A1, zk.E1, v) /\ zk[f] = zk.Z1
        BY <2>6, <2>8, <3>2 DEF Verify01, ProofRecord, c1
      <4> QED
        BY <2>4, <2>5, <2>8, <4>1, OtherAnswer
    <3> QED
      BY <3>1, <3>2
  <2>9. ASSUME NEW g0 \in Field, Verify01(zk, BC(1 - secret, g0)),
               ~ (zk.E0 = {} /\ zk.E1 = {})
        PROVE  BC(1 - secret, g0) = c
    <3> DEFINE d == BC(1 - secret, g0)
    <3>1. d \in Members
      <4>1. 1 - secret \in Nat /\ g0 \in Nat
        BY Moduli DEF DealingInv
      <4> QED
        BY <4>1, CommitmentsAreMembers
    <3>2. /\ Accepts(d, zk.A0, zk.E0, zk.Z0)
          /\ Accepts(Shifted(d, 1), zk.A1, zk.E1, zk.Z1)
      BY <2>9 DEF Verify01
    <3>3. Shifted(d, 1) \in Members /\ (Shifted(d, 1) = c1 => d = c)
      BY <2>2, <3>1, ShiftedDiffer DEF c1
    <3> HIDE DEF d
    <3>4. CASE zk.E0 # {}
      BY <2>2, <2>4, <2>5, <3>1, <3>2, <3>4, OtherCommitment DEF d
    <3>5. CASE zk.E1 # {}
      BY <2>3, <2>4, <2>5, <3>2, <3>3, <3>5, OtherCommitment DEF d
    <3> QED
      BY <2>9, <3>4, <3>5
  <2> QED
    BY <2>7, <2>8, <2>9 DEF AlteredProofsRejected, c
<1> QED
  BY <1>1, DealingInvariant, PTL
=============================================================================
