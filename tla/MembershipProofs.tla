-------------------------- MODULE MembershipProofs --------------------------
(***************************************************************************)
(* Theorems about Membership, for every set of addresses.                  *)
(*                                                                         *)
(* Types hold however the operators act (AddressInv: a server's own        *)
(* address is never lost).  That everyone gets known, and that indexes and *)
(* points agree, is proved for patient operators; for others the run       *)
(* MCMembershipTogether shows how the first of them fails.  PatientInv     *)
(* describes the way of the one server that is joining, before the signals *)
(* or after everyone has started, and what stays of the list the signals   *)
(* were sent to.                                                           *)
(*                                                                         *)
(* Sorting needs no induction: Place maps the entries of a list one to one *)
(* into its places, so every place is taken, and two increasing lists of   *)
(* the same addresses have no first place where they differ.               *)
(***************************************************************************)
EXTENDS Membership, FiniteSetTheorems, TLAPS

-----------------------------------------------------------------------------
(* Numbers and bags.                                                       *)

LEMMA LeastNatural ==
  ASSUME NEW S \in SUBSET Nat, S # {}
  PROVE  \E n \in S : \A k \in S : n <= k
<1> DEFINE R == {ss \in Nat \X Nat : ss[1] < ss[2]}
<1>1. OpToRel(<, Nat) = R
  BY DEF OpToRel
<1>2. IsWellFoundedOn(R, Nat)
  BY <1>1, NatLessThanWellFounded
<1> HIDE DEF R
<1>3. PICK n \in S : \A k \in S : ~ (<<k, n>> \in R)
  BY <1>2, WFMin
<1>4. ASSUME NEW k \in S PROVE n <= k
  <2>1. n \in Nat /\ k \in Nat
    OBVIOUS
  <2>2. k < n => <<k, n>> \in R
    BY <2>1 DEF R
  <2> QED
    BY <1>3, <2>1, <2>2
<1> QED
  BY <1>4

LEMMA LargestBelow ==
  ASSUME NEW n \in Nat, NEW S \in SUBSET (1 .. n), S # {}
  PROVE  Max(S) \in S /\ \A k \in S : Max(S) >= k
<1> DEFINE D == {n - k : k \in S}
<1>1. D \in SUBSET Nat
  <2>1. \A k \in S : n - k \in Nat
    OBVIOUS
  <2> QED
    BY <2>1
<1>2. D # {}
  OBVIOUS
<1>3. PICK d \in D : \A e \in D : d <= e
  <2> HIDE DEF D
  <2> QED
    BY <1>1, <1>2, LeastNatural
<1>4. PICK m \in S : d = n - m
  OBVIOUS
<1>5. ASSUME NEW k \in S PROVE m >= k
  <2>1. n - k \in D
    OBVIOUS
  <2>2. d <= n - k /\ d = n - m
    BY <1>3, <1>4, <2>1
  <2>3. m \in Nat /\ k \in Nat
    OBVIOUS
  <2> HIDE DEF D
  <2> QED
    BY <2>2, <2>3
<1> QED
  BY <1>5 DEF Max

LEMMA BagsOfOneMore ==
  ASSUME NEW B, NEW x, IsABag(B)
  PROVE  /\ IsABag(B (+) SetToBag({x}))
         /\ BagToSet(B (+) SetToBag({x})) = BagToSet(B) \cup {x}
<1> DEFINE C == B (+) SetToBag({x})
<1>1. C = [e \in (DOMAIN B) \cup {x} |->
             (IF e \in DOMAIN B THEN B[e] ELSE 0) + (IF e \in {x} THEN 1 ELSE 0)]
  BY DEF (+), SetToBag
<1> HIDE DEF C
<1>2. \A e \in DOMAIN B : B[e] \in Nat /\ B[e] > 0
  BY DEF IsABag
<1>3. DOMAIN C = DOMAIN B \cup {x} /\ \A e \in DOMAIN C : C[e] \in Nat /\ C[e] > 0
  BY <1>1, <1>2
<1> QED
  BY <1>1, <1>3 DEF IsABag, BagToSet, C

LEMMA BagsOfOneLess ==
  ASSUME NEW B, NEW x, IsABag(B)
  PROVE  /\ IsABag(B (-) SetToBag({x}))
         /\ BagToSet(B (-) SetToBag({x})) \subseteq BagToSet(B)
         /\ BagToSet(B) \subseteq BagToSet(B (-) SetToBag({x})) \cup {x}
<1> DEFINE D == [e \in DOMAIN B |-> IF e \in {x} THEN B[e] - 1 ELSE B[e]]
           C == [e \in {d \in DOMAIN D : D[d] > 0} |-> D[e]]
<1>1. B (-) SetToBag({x}) = C
  BY DEF (-), SetToBag
<1>2. \A e \in DOMAIN B : B[e] \in Nat /\ B[e] > 0
  BY DEF IsABag
<1>3. \A e \in DOMAIN C : e \in DOMAIN B /\ C[e] \in Nat /\ C[e] > 0
  BY <1>2
<1>4. \A e \in DOMAIN B : e = x \/ e \in DOMAIN C
  BY <1>2
<1> QED
  BY <1>1, <1>3, <1>4 DEF IsABag, BagToSet

LEMMA EmptyBagIsEmpty == IsABag(EmptyBag) /\ BagToSet(EmptyBag) = {}
BY DEF IsABag, EmptyBag, SetToBag, BagToSet

LEMMA BagOfSequence ==
  ASSUME NEW T, NEW list \in Seq(T), NEW B, IsABag(B)
  PROVE  /\ IsABag(B (+) ToBag(list))
         /\ BagToSet(B (+) ToBag(list)) = BagToSet(B) \cup ToSet(list)
<1> DEFINE at(x) == {i \in DOMAIN list : list[i] = x}
<1>1. DOMAIN list = 1 .. Len(list) /\ Len(list) \in Nat
  OBVIOUS
<1>2. IsFiniteSet(DOMAIN list)
  BY <1>1, FS_Interval
<1>3. ASSUME NEW x \in Range(list)
      PROVE  Cardinality(at(x)) \in Nat /\ Cardinality(at(x)) > 0
  <2>1. IsFiniteSet(at(x)) /\ at(x) # {}
    BY <1>2, FS_Subset DEF Range
  <2> HIDE DEF at
  <2>2. Cardinality(at(x)) \in Nat /\ Cardinality(at(x)) # 0
    BY <2>1, FS_CardinalityType, FS_EmptySet
  <2> QED
    BY <2>2
<1>4. /\ ToBag(list) = [x \in Range(list) |-> Cardinality(at(x))]
      /\ Range(list) = ToSet(list)
  BY DEF ToBag, Range, ToSet
<1> DEFINE C == ToBag(list)
<1> HIDE DEF at
<1>5. DOMAIN C = ToSet(list) /\ \A x \in DOMAIN C : C[x] \in Nat /\ C[x] > 0
  BY <1>3, <1>4
<1> HIDE DEF C
<1>6. \A x \in DOMAIN B : B[x] \in Nat /\ B[x] > 0
  BY DEF IsABag
<1> DEFINE U == B (+) C
<1>7. U = [e \in (DOMAIN B) \cup (DOMAIN C) |->
             (IF e \in DOMAIN B THEN B[e] ELSE 0)
           + (IF e \in DOMAIN C THEN C[e] ELSE 0)]
  BY DEF (+)
<1>8. DOMAIN U = DOMAIN B \cup DOMAIN C /\ \A e \in DOMAIN U : U[e] \in Nat /\ U[e] > 0
  BY <1>5, <1>6, <1>7
<1> QED
  BY <1>5, <1>7, <1>8 DEF IsABag, BagToSet, C

-----------------------------------------------------------------------------
(* Lists of addresses.                                                     *)

Increasing(list) == \A i, k \in DOMAIN list : i < k => list[i] < list[k]

LEMMA ListOfIntegers ==
  ASSUME NEW T \in SUBSET Int, NEW list \in Seq(T)
  PROVE  /\ list \in Seq(Int)
         /\ DOMAIN list = 1 .. Len(list) /\ Len(list) \in Nat
         /\ \A i \in DOMAIN list : list[i] \in T /\ list[i] \in Int
<1>1. DOMAIN list = 1 .. Len(list) /\ Len(list) \in Nat
  OBVIOUS
<1>2. \A i \in DOMAIN list : list[i] \in T
  OBVIOUS
<1>3. \A x \in T : x \in Int
  OBVIOUS
<1>4. \A i \in 1 .. Len(list) : list[i] \in Int
  BY <1>1, <1>2, <1>3
<1>5. list \in [1 .. Len(list) -> T]
  OBVIOUS
<1>6. list = [i \in 1 .. Len(list) |-> list[i]]
  BY <1>5
<1>7. list \in [1 .. Len(list) -> Int]
  BY <1>4, <1>6
<1>8. list \in Seq(Int)
  BY <1>1, <1>7
<1> QED
  BY <1>1, <1>2, <1>4, <1>8

LEMMA AppendedTo ==
  ASSUME NEW T, NEW list \in Seq(T), NEW x \in T
  PROVE  Append(list, x) \in Seq(T) /\ ToSet(Append(list, x)) = ToSet(list) \cup {x}
<1>1. /\ Len(Append(list, x)) = Len(list) + 1 /\ Len(list) \in Nat
      /\ \A i \in 1 .. Len(list) : Append(list, x)[i] = list[i]
      /\ Append(list, x)[Len(list) + 1] = x
      /\ Append(list, x) \in Seq(T)
  OBVIOUS
<1> DEFINE longer == Append(list, x)
<1>2. DOMAIN longer = 1 .. Len(list) + 1 /\ DOMAIN list = 1 .. Len(list)
  BY <1>1
<1> HIDE DEF longer
<1>3. DOMAIN longer = DOMAIN list \cup {Len(list) + 1}
  BY <1>1, <1>2
<1>4. \A i \in DOMAIN list : longer[i] = list[i]
  BY <1>1, <1>2 DEF longer
<1>5. longer[Len(list) + 1] = x
  BY <1>1 DEF longer
<1> QED
  BY <1>1, <1>3, <1>4, <1>5 DEF ToSet, longer

LEMMA JoinedLists ==
  ASSUME NEW T, NEW list \in Seq(T), NEW tail \in Seq(T)
  PROVE  /\ list \o tail \in Seq(T)
         /\ ToSet(list \o tail) = ToSet(list) \cup ToSet(tail)
<1> DEFINE both == list \o tail
<1>1. /\ both \in Seq(T) /\ Len(both) = Len(list) + Len(tail)
      /\ Len(list) \in Nat /\ Len(tail) \in Nat
      /\ \A i \in 1 .. Len(list) + Len(tail) :
           both[i] = IF i <= Len(list) THEN list[i] ELSE tail[i - Len(list)]
  OBVIOUS
<1>2. /\ DOMAIN both = 1 .. Len(list) + Len(tail)
      /\ DOMAIN list = 1 .. Len(list) /\ DOMAIN tail = 1 .. Len(tail)
  BY <1>1
<1> HIDE DEF both
<1>3. \A i \in DOMAIN list : i \in DOMAIN both /\ both[i] = list[i]
  BY <1>1, <1>2
<1>4. ASSUME NEW i \in DOMAIN tail
      PROVE  i + Len(list) \in DOMAIN both /\ both[i + Len(list)] = tail[i]
  BY <1>1, <1>2
<1>5. ASSUME NEW i \in DOMAIN both, i \notin DOMAIN list
      PROVE  i - Len(list) \in DOMAIN tail /\ both[i] = tail[i - Len(list)]
  BY <1>1, <1>2, <1>5
<1>6. ToSet(both) \subseteq ToSet(list) \cup ToSet(tail)
  BY <1>3, <1>5 DEF ToSet
<1>7. ToSet(list) \cup ToSet(tail) \subseteq ToSet(both)
  BY <1>3, <1>4 DEF ToSet
<1> QED
  BY <1>1, <1>6, <1>7 DEF both

LEMMA SmallLists ==
  /\ \A s \in Server : <<s>> \in Seq(Server) /\ ToSet(<<s>>) = {s}
  /\ <<>> \in Seq(Server) /\ ToSet(<<>>) = {}
  /\ \A list \in Seq(Server) : ToSet(list) \subseteq Server
BY DEF ToSet

(* Place puts the entries one to one into the places of the list, smaller  *)
(* entries before larger ones.                                             *)
Before(list, i) ==
  {j \in DOMAIN list : list[j] < list[i] \/ (list[j] = list[i] /\ j <= i)}

LEMMA PlaceBounds ==
  ASSUME NEW list \in Seq(Int)
  PROVE  /\ DOMAIN list = 1 .. Len(list) /\ Len(list) \in Nat
         /\ IsFiniteSet(DOMAIN list) /\ Cardinality(DOMAIN list) = Len(list)
         /\ \A i \in DOMAIN list : /\ IsFiniteSet(Before(list, i))
                                   /\ Place(list, i) = Cardinality(Before(list, i))
                                   /\ Place(list, i) \in DOMAIN list
<1>1. DOMAIN list = 1 .. Len(list) /\ Len(list) \in Nat
  OBVIOUS
<1>2. IsFiniteSet(1 .. Len(list)) /\ Cardinality(1 .. Len(list)) = Len(list)
  BY <1>1, FS_Interval
<1>3. ASSUME NEW i \in DOMAIN list
      PROVE  /\ IsFiniteSet(Before(list, i))
             /\ Place(list, i) = Cardinality(Before(list, i))
             /\ Place(list, i) \in DOMAIN list
  <2>1. Before(list, i) \in SUBSET (1 .. Len(list)) /\ i \in Before(list, i)
    BY <1>1 DEF Before
  <2>2. IsFiniteSet(Before(list, i)) /\ Cardinality(Before(list, i)) <= Len(list)
    BY <1>2, <2>1, FS_Subset
  <2>3. Cardinality(Before(list, i)) \in Nat /\ Cardinality(Before(list, i)) # 0
    BY <2>1, <2>2, FS_CardinalityType, FS_EmptySet
  <2>4. Place(list, i) = Cardinality(Before(list, i))
    BY DEF Place, Before
  <2> QED
    BY <1>1, <2>2, <2>3, <2>4
<1> QED
  BY <1>1, <1>2, <1>3

LEMMA PlacesInOrder ==
  ASSUME NEW list \in Seq(Int), NEW i \in DOMAIN list, NEW k \in DOMAIN list,
         list[i] < list[k] \/ (list[i] = list[k] /\ i < k)
  PROVE  Place(list, i) < Place(list, k)
<1>1. list[i] \in Int /\ list[k] \in Int /\ i \in Int /\ k \in Int
  OBVIOUS
<1>2. k \notin Before(list, i) /\ k \in Before(list, k)
  BY <1>1 DEF Before
<1>3. Before(list, i) \subseteq Before(list, k)
  <2> SUFFICES ASSUME NEW j \in Before(list, i) PROVE j \in Before(list, k)
    OBVIOUS
  <2>1. j \in DOMAIN list /\ list[j] \in Int /\ j \in Int
    BY DEF Before
  <2> QED
    BY <1>1, <2>1 DEF Before
<1>4. /\ IsFiniteSet(Before(list, k)) /\ IsFiniteSet(Before(list, i))
      /\ Place(list, i) = Cardinality(Before(list, i))
      /\ Place(list, k) = Cardinality(Before(list, k))
  BY PlaceBounds
<1>5. Cardinality(Before(list, i)) # Cardinality(Before(list, k))
  BY <1>2, <1>3, <1>4, FS_Subset
<1>6. /\ Cardinality(Before(list, i)) <= Cardinality(Before(list, k))
      /\ Cardinality(Before(list, i)) \in Nat /\ Cardinality(Before(list, k)) \in Nat
  BY <1>3, <1>4, FS_Subset, FS_CardinalityType
<1> QED
  BY <1>4, <1>5, <1>6
LEMMA EveryPlaceTaken ==
  ASSUME NEW list \in Seq(Int)
  PROVE  /\ \A i, k \in DOMAIN list : Place(list, i) = Place(list, k) => i = k
         /\ \A k \in DOMAIN list : \E i \in DOMAIN list : Place(list, i) = k
<1> DEFINE D == DOMAIN list
           place == [i \in D |-> Place(list, i)]
<1>1. \A i \in D : list[i] \in Int /\ i \in Int /\ Place(list, i) \in D /\ Place(list, i) \in Int
  BY PlaceBounds
<1>2. ASSUME NEW i \in D, NEW k \in D, Place(list, i) = Place(list, k)
      PROVE  i = k
  <2>1. CASE list[i] < list[k] \/ (list[i] = list[k] /\ i < k)
    BY <1>1, <1>2, <2>1, PlacesInOrder
  <2>2. CASE list[k] < list[i] \/ (list[k] = list[i] /\ k < i)
    BY <1>1, <1>2, <2>2, PlacesInOrder
  <2> QED
    BY <1>1, <2>1, <2>2
<1>3. IsFiniteSet(D)
  BY PlaceBounds
<1>4. place \in [D -> D] /\ \A i \in D : place[i] = Place(list, i)
  BY <1>1
<1> HIDE DEF D, place
<1>5. place \in Injection(D, D)
  BY <1>2, <1>4 DEF Injection, IsInjective
<1>6. place \in Surjection(D, D)
  BY <1>3, <1>5, FS_Injection
<1>7. \A k \in D : \E i \in D : place[i] = k
  BY <1>6 DEF Surjection, Range
<1> QED
  BY <1>2, <1>4, <1>7 DEF D

(* What sorting does: the same entries in the same number, in order.       *)
LEMMA SortedList ==
  ASSUME NEW T \in SUBSET Int, NEW list \in Seq(T)
  PROVE  /\ Sorted(list) \in Seq(T)
         /\ DOMAIN Sorted(list) = DOMAIN list
         /\ ToSet(Sorted(list)) = ToSet(list)
         /\ IsInjective(Sorted(list)) => IsInjective(list)
         /\ IsInjective(Sorted(list)) => Increasing(Sorted(list))
<1> DEFINE D == DOMAIN list
           at(k) == CHOOSE i \in D : Place(list, i) = k
           sorted == Sorted(list)
<1>0. list \in Seq(Int)
  BY ListOfIntegers
<1>1. D = 1 .. Len(list) /\ Len(list) \in Nat /\ \A i \in D : list[i] \in T /\ list[i] \in Int
  BY ListOfIntegers
<1>2. \A k \in D : at(k) \in D /\ Place(list, at(k)) = k
  BY <1>0, EveryPlaceTaken
<1>3. \A i \in D : Place(list, i) \in D /\ at(Place(list, i)) = i
  BY <1>0, <1>2, EveryPlaceTaken, PlaceBounds
<1>4. sorted = [k \in D |-> list[at(k)]]
  BY DEF Sorted
<1> HIDE DEF at, sorted, D
<1>5. sorted \in Seq(T) /\ DOMAIN sorted = D
  <2>1. sorted \in [1 .. Len(list) -> T]
    BY <1>1, <1>2, <1>4
  <2> QED
    BY <1>1, <1>4, <2>1
<1>6. \A i \in D : list[i] = sorted[Place(list, i)]
  BY <1>3, <1>4
<1>7. ToSet(sorted) = ToSet(list)
  <2>1. \A k \in D : \E i \in D : sorted[k] = list[i]
    BY <1>2, <1>4
  <2>2. \A i \in D : \E k \in D : list[i] = sorted[k]
    BY <1>3, <1>6
  <2> QED
    BY <1>5, <2>1, <2>2 DEF ToSet, D
<1>8. ASSUME IsInjective(sorted) PROVE IsInjective(list)
  <2> SUFFICES ASSUME NEW i \in D, NEW k \in D, list[i] = list[k] PROVE i = k
    BY DEF IsInjective, D
  <2>1. Place(list, i) = Place(list, k)
    BY <1>3, <1>5, <1>6, <1>8 DEF IsInjective
  <2> QED
    BY <1>3, <2>1
<1>9. ASSUME IsInjective(sorted) PROVE Increasing(sorted)
  <2> SUFFICES ASSUME NEW i \in D, NEW k \in D, i < k PROVE sorted[i] < sorted[k]
    BY <1>5 DEF Increasing
  <2>1. i \in Int /\ k \in Int
    BY <1>1
  <2>2. sorted[i] # sorted[k]
    BY <1>5, <1>9, <2>1 DEF IsInjective
  <2>3. ASSUME sorted[k] < sorted[i] PROVE FALSE
    <3>1. list[at(k)] < list[at(i)] /\ at(k) \in D /\ at(i) \in D
      BY <1>2, <1>4, <2>3
    <3>2. Place(list, at(k)) < Place(list, at(i))
      BY <1>0, <3>1, PlacesInOrder DEF D
    <3> QED
      BY <1>2, <2>1, <3>2
  <2>4. sorted[i] \in Int /\ sorted[k] \in Int
    BY <1>1, <1>2, <1>4
  <2> QED
    BY <2>2, <2>3, <2>4
<1> QED
  BY <1>5, <1>7, <1>8, <1>9 DEF sorted, D

(* Two increasing lists of the same addresses are one.                     *)
LEMMA OneIncreasingList ==
  ASSUME NEW T \in SUBSET Int, NEW a \in Seq(T), NEW b \in Seq(T),
         Increasing(a), Increasing(b), ToSet(a) = ToSet(b)
  PROVE  a = b
<1> DEFINE Wrong == {k \in Nat \ {0} : (k \in DOMAIN a \/ k \in DOMAIN b)
                                       /\ ~(k \in DOMAIN a /\ k \in DOMAIN b /\ a[k] = b[k])}
<1>t. /\ DOMAIN a = 1 .. Len(a) /\ DOMAIN b = 1 .. Len(b)
      /\ Len(a) \in Nat /\ Len(b) \in Nat
      /\ \A k \in DOMAIN a : a[k] \in Int
      /\ \A k \in DOMAIN b : b[k] \in Int
  <2> HIDE DEF Wrong
  <2> QED
    BY ListOfIntegers
<1>1. ASSUME Wrong # {} PROVE FALSE
  <2>0. Wrong \in SUBSET Nat
    OBVIOUS
  <2> HIDE DEF Wrong
  <2>1. PICK n \in Wrong : \A k \in Wrong : n <= k
    BY <1>1, <2>0, LeastNatural
  <2>n. n \in Nat /\ n > 0
    BY <2>1 DEF Wrong
  <2>2. \A k \in 1 .. n - 1 :
          (k \in DOMAIN a <=> k \in DOMAIN b) /\ (k \in DOMAIN a => a[k] = b[k])
    BY <2>0, <2>1 DEF Wrong
  <2>3. ASSUME NEW u \in Seq(T), NEW v \in Seq(T), Increasing(u), Increasing(v),
               ToSet(u) = ToSet(v), n \in DOMAIN u,
               n \notin DOMAIN v \/ u[n] < v[n],
               \A k \in 1 .. n - 1 : k \in DOMAIN u => u[k] = v[k]
        PROVE  FALSE
    <3>1. PICK k \in DOMAIN v : v[k] = u[n]
      BY <2>3 DEF ToSet
    <3>2. k \in Nat /\ k > 0 /\ n \in Nat /\ DOMAIN v = 1 .. Len(v) /\ DOMAIN u = 1 .. Len(u)
          /\ Len(u) \in Nat /\ Len(v) \in Nat
      BY <2>0, <2>1
    <3>0. \A i \in DOMAIN v : v[i] \in Int
      BY ListOfIntegers
    <3>3. u[n] \in Int /\ v[k] \in Int
      BY <3>0, <3>1
    <3>4. CASE k < n
      <4>1. k \in DOMAIN u /\ k \in 1 .. n - 1
        BY <2>3, <3>2, <3>4
      <4>2. u[k] = u[n] /\ u[k] < u[n]
        BY <2>3, <3>1, <3>4, <4>1 DEF Increasing
      <4> QED
        BY <3>3, <4>2
    <3>5. CASE k >= n
      <4>1. n \in DOMAIN v /\ u[n] < v[n] /\ v[n] \in Int
        <5>1. n \in 1 .. Len(v)
          BY <2>n, <3>1, <3>2, <3>5
        <5> QED
          BY <2>3, <3>0, <3>2, <5>1
      <4>2. k > n
        BY <3>1, <3>2, <3>3, <3>5, <4>1
      <4>3. v[n] < v[k]
        BY <2>3, <4>1, <4>2 DEF Increasing
      <4> QED
        BY <3>1, <3>3, <4>1, <4>3
    <3> QED
      BY <3>2, <3>4, <3>5
  <2>4. \/ n \in DOMAIN a /\ (n \notin DOMAIN b \/ a[n] < b[n])
        \/ n \in DOMAIN b /\ (n \notin DOMAIN a \/ b[n] < a[n])
    BY <1>t, <2>1 DEF Wrong
  <2> QED
    BY <2>2, <2>3, <2>4
<1>2. \A k \in Nat \ {0} :
        k \in DOMAIN a \/ k \in DOMAIN b => k \in DOMAIN a /\ k \in DOMAIN b /\ a[k] = b[k]
  BY <1>1
<1> HIDE DEF Wrong
<1>3. \A k \in DOMAIN a : k \in DOMAIN b /\ a[k] = b[k]
  BY <1>t, <1>2
<1>4. DOMAIN a = DOMAIN b
  <2>1. \A k \in DOMAIN b : k \in DOMAIN a
    BY <1>t, <1>2
  <2> QED
    BY <1>3, <2>1
<1>5. a = [k \in DOMAIN a |-> a[k]] /\ b = [k \in DOMAIN b |-> b[k]]
  OBVIOUS
<1> QED
  BY <1>3, <1>4, <1>5

LEMMA IncreasingInjective ==
  ASSUME NEW T \in SUBSET Int, NEW list \in Seq(T), Increasing(list)
  PROVE  IsInjective(list) /\ IsFiniteSet(ToSet(list)) /\ Cardinality(ToSet(list)) = Len(list)
<1>1. DOMAIN list = 1 .. Len(list) /\ Len(list) \in Nat /\ \A i \in DOMAIN list : list[i] \in Int
  BY ListOfIntegers
<1>2. \A i, k \in DOMAIN list : list[i] = list[k] => i = k
  BY <1>1 DEF Increasing
<1>3. list \in [1 .. Len(list) -> ToSet(list)] /\ Range(list) = ToSet(list)
  BY <1>1 DEF ToSet, Range
<1>4. list \in Bijection(1 .. Len(list), ToSet(list))
  BY <1>1, <1>2, <1>3 DEF Bijection, Injection, Surjection, IsInjective, Range
<1>5. ExistsBijection(1 .. Len(list), ToSet(list))
  BY <1>4 DEF ExistsBijection
<1> QED
  BY <1>1, <1>2, <1>5, FS_CountingElements, FS_NatBijection DEF IsInjective

LEMMA ThresholdType ==
  ASSUME NEW n \in Nat, n >= MinParties
  PROVE  CalculateT(n) \in Nat
BY DEF CalculateT, MinParties

(* The last entry with the own address.                                    *)
LEMMA LastOwnEntry ==
  ASSUME NEW T \in SUBSET Int, NEW list \in Seq(T), NEW s \in ToSet(list)
  PROVE  LET last == SelectLastInSeq(list, LAMBDA ip : ip = s)
         IN  last \in DOMAIN list /\ list[last] = s
<1> DEFINE I == {i \in 1 .. Len(list) : list[i] = s}
<1>1. Len(list) \in Nat /\ I \in SUBSET (1 .. Len(list)) /\ DOMAIN list = 1 .. Len(list)
  OBVIOUS
<1>2. I # {}
  BY <1>1 DEF ToSet
<1>3. SelectLastInSeq(list, LAMBDA ip : ip = s) = Max(I)
  BY <1>2 DEF SelectLastInSeq
<1>4. Max(I) \in I
  <2> HIDE DEF I
  <2> QED
    BY <1>1, <1>2, LargestBelow
<1> QED
  BY <1>3, <1>4

-----------------------------------------------------------------------------
(* Types, and the addresses that are about: those of servers that have     *)
(* been started, and a server's own is always on its list, as it is in     *)
(* what a handler of it saw.  Without that index would be -1.              *)

On == {s \in Server : phase[s] # "off"}

AddressesKnown ==
  /\ Master \in On
  /\ \A s \in Server : ToSet(ipList[s]) \subseteq On
  /\ \A s \in On : s \in ToSet(ipList[s])
  /\ \A r \in replies : r[1] \in On /\ ToSet(r[2]) \subseteq On
  /\ \A m \in BagToSet(appending) :
       m[2] \in On /\ m[1] \in ToSet(m[3]) /\ ToSet(m[3]) \subseteq On
  /\ \A m \in BagToSet(flooding) : m[1] \in On /\ m[2] \in On
  /\ \A m \in BagToSet(posts) : m[1] \in On /\ m[2] \in On

AddressInv == TypeOK /\ AddressesKnown

LEMMA AddressInit == Init => AddressInv
<1> SUFFICES ASSUME Init PROVE AddressInv
  OBVIOUS
<1>1. Master \in Server
  BY MembershipAssumption
<1>2. ipList \in [Server -> Seq(Server)]
  BY SmallLists DEF Init
<1>3. TypeOK
  BY <1>2, EmptyBagIsEmpty DEF Init, TypeOK
<1>4. On = {Master}
  BY <1>1 DEF Init, On
<1>5. \A s \in Server : ToSet(ipList[s]) = IF s = Master THEN {s} ELSE {}
  BY SmallLists DEF Init
<1>6. AddressesKnown
  BY <1>1, <1>4, <1>5, EmptyBagIsEmpty DEF Init, AddressesKnown
<1> QED
  BY <1>3, <1>6 DEF AddressInv

LEMMA AddressJoin ==
  ASSUME AddressInv, NEW s \in Server, Join(s)
  PROVE  AddressInv'
<1>t. /\ phase \in [Server -> {"off", "asking", "joining", "ready", "started"}]
      /\ ipList \in [Server -> Seq(Server)]
      /\ <<s>> \in Seq(Server) /\ ToSet(<<s>>) = {s}
  BY SmallLists DEF AddressInv, TypeOK
<1>1. /\ phase' = [phase EXCEPT ![s] = "asking"]
      /\ ipList' = [ipList EXCEPT ![s] = <<s>>]
      /\ UNCHANGED <<joinVars, startVars>>
  BY DEF Join
<1>2. TypeOK'
  BY <1>t, <1>1 DEF AddressInv, TypeOK, joinVars, startVars
<1>3. On' = On \cup {s}
  BY <1>t, <1>1 DEF On
<1>4. \A u \in Server : ToSet(ipList'[u]) = IF u = s THEN {s} ELSE ToSet(ipList[u])
  BY <1>t, <1>1
<1>5. AddressesKnown'
  BY <1>1, <1>3, <1>4 DEF AddressInv, AddressesKnown, joinVars
<1> QED
  BY <1>2, <1>5 DEF AddressInv

LEMMA AddressJoinNetwork ==
  ASSUME AddressInv, NEW s \in Server, JoinNetwork(s)
  PROVE  AddressInv'
<1> DEFINE m == <<Master, s, ipList[Master]>>
<1>t. /\ phase \in [Server -> {"off", "asking", "joining", "ready", "started"}]
      /\ Master \in Server /\ ipList[Master] \in Seq(Server)
      /\ IsABag(appending) /\ BagToSet(appending) \subseteq Server \X Server \X Seq(Server)
      /\ m \in Server \X Server \X Seq(Server)
      /\ <<s, ipList[Master]>> \in Server \X Seq(Server)
  BY MembershipAssumption DEF AddressInv, TypeOK
<1>1. /\ phase[s] = "asking"
      /\ phase' = [phase EXCEPT ![s] = "joining"]
      /\ replies' = replies \cup {<<s, ipList[Master]>>}
      /\ UNCHANGED <<ipList, flooding, posts, startVars>>
      /\ appending' = appending (+) SetToBag({m})
  BY DEF JoinNetwork
<1>2. IsABag(appending') /\ BagToSet(appending') = BagToSet(appending) \cup {m}
  <2> HIDE DEF m
  <2> QED
    BY <1>t, <1>1, BagsOfOneMore
<1>3. TypeOK'
  <2> HIDE DEF m
  <2> QED
    BY <1>t, <1>1, <1>2 DEF AddressInv, TypeOK, startVars
<1>4. On' = On /\ s \in On
  BY <1>t, <1>1 DEF On
<1>5. ToSet(ipList[Master]) \subseteq On /\ Master \in ToSet(ipList[Master])
  BY <1>t DEF AddressInv, AddressesKnown
<1>6. \A r \in replies' : r[1] \in On' /\ ToSet(r[2]) \subseteq On'
  BY <1>1, <1>4, <1>5 DEF AddressInv, AddressesKnown
<1>7. \A k \in BagToSet(appending') :
        k[2] \in On' /\ k[1] \in ToSet(k[3]) /\ ToSet(k[3]) \subseteq On'
  <2>1. m[1] = Master /\ m[2] = s /\ m[3] = ipList[Master]
    OBVIOUS
  <2> HIDE DEF m
  <2> QED
    BY <1>2, <1>4, <1>5, <2>1 DEF AddressInv, AddressesKnown
<1>8. AddressesKnown'
  BY <1>1, <1>4, <1>6, <1>7 DEF AddressInv, AddressesKnown
<1> QED
  BY <1>3, <1>8 DEF AddressInv

LEMMA AddressParticipate ==
  ASSUME AddressInv, NEW s, NEW list, ParticipateInNetwork(s, list)
  PROVE  AddressInv'
<1>t. /\ phase \in [Server -> {"off", "asking", "joining", "ready", "started"}]
      /\ ipList \in [Server -> Seq(Server)]
      /\ <<s, list>> \in replies
      /\ s \in Server /\ list \in Seq(Server)
  BY DEF AddressInv, TypeOK, ParticipateInNetwork
<1>1. /\ replies' = replies \ {<<s, list>>}
      /\ ipList' = [ipList EXCEPT ![s] = @ \o list]
      /\ phase' = [phase EXCEPT ![s] = "ready"]
      /\ UNCHANGED <<appending, flooding, posts, startVars>>
  BY DEF ParticipateInNetwork
<1>2. /\ ipList[s] \o list \in Seq(Server)
      /\ ToSet(ipList[s] \o list) = ToSet(ipList[s]) \cup ToSet(list)
  BY <1>t, JoinedLists
<1>3. TypeOK'
  BY <1>t, <1>1, <1>2 DEF AddressInv, TypeOK, startVars
<1>4. s \in On /\ ToSet(list) \subseteq On
  BY <1>t DEF AddressInv, AddressesKnown
<1>5. On' = On
  BY <1>t, <1>1, <1>4 DEF On
<1>6. \A u \in Server : ToSet(ipList'[u]) = IF u = s THEN ToSet(ipList[s]) \cup ToSet(list)
                                                    ELSE ToSet(ipList[u])
  BY <1>t, <1>1, <1>2
<1>7. \A u \in Server : ToSet(ipList'[u]) \subseteq On'
  BY <1>4, <1>5, <1>6 DEF AddressInv, AddressesKnown
<1>8. \A u \in On' : u \in ToSet(ipList'[u])
  BY <1>4, <1>5, <1>6 DEF AddressInv, AddressesKnown, On
<1>9. AddressesKnown'
  BY <1>1, <1>5, <1>7, <1>8 DEF AddressInv, AddressesKnown
<1> QED
  BY <1>3, <1>9 DEF AddressInv

LEMMA AddressNewParticipant ==
  ASSUME AddressInv, NEW s, NEW ip, NewParticipantInNetwork(s, ip)
  PROVE  AddressInv'
<1> DEFINE m == <<s, ip, ipList[s]>>
<1>t. /\ <<s, ip>> \in BagToSet(posts) /\ IsABag(posts) /\ IsABag(appending)
      /\ ipList \in [Server -> Seq(Server)]
      /\ s \in Server /\ ip \in Server /\ s \in On /\ ip \in On
      /\ m \in Server \X Server \X Seq(Server)
  BY DEF AddressInv, TypeOK, AddressesKnown, NewParticipantInNetwork
<1>1. /\ posts' = posts (-) SetToBag({<<s, ip>>})
      /\ UNCHANGED <<phase, ipList, replies, flooding, startVars>>
      /\ appending' = appending \/ appending' = appending (+) SetToBag({m})
  BY DEF NewParticipantInNetwork, NewParticipantIgnored, NewParticipantAccepted
<1>2. IsABag(posts') /\ BagToSet(posts') \subseteq BagToSet(posts)
  BY <1>t, <1>1, BagsOfOneLess
<1>3. IsABag(appending') /\ BagToSet(appending') \subseteq BagToSet(appending) \cup {m}
  <2> HIDE DEF m
  <2> QED
    BY <1>t, <1>1, BagsOfOneMore
<1>4. TypeOK'
  <2> HIDE DEF m
  <2> QED
    BY <1>t, <1>1, <1>2, <1>3 DEF AddressInv, TypeOK, startVars
<1>5. On' = On
  BY <1>1 DEF On
<1>6. \A k \in BagToSet(appending') :
        k[2] \in On' /\ k[1] \in ToSet(k[3]) /\ ToSet(k[3]) \subseteq On'
  <2>1. m[1] = s /\ m[2] = ip /\ m[3] = ipList[s]
    OBVIOUS
  <2>2. s \in ToSet(ipList[s]) /\ ToSet(ipList[s]) \subseteq On
    BY <1>t DEF AddressInv, AddressesKnown
  <2> HIDE DEF m
  <2> QED
    BY <1>t, <1>3, <1>5, <2>1, <2>2 DEF AddressInv, AddressesKnown
<1>7. AddressesKnown'
  BY <1>1, <1>2, <1>5, <1>6 DEF AddressInv, AddressesKnown
<1> QED
  BY <1>4, <1>7 DEF AddressInv

LEMMA AddressAppend ==
  ASSUME AddressInv, NEW s, NEW ip, NEW saw, AppendAddress(s, ip, saw)
  PROVE  AddressInv'
<1>t. /\ <<s, ip, saw>> \in BagToSet(appending) /\ IsABag(appending) /\ IsABag(flooding)
      /\ ipList \in [Server -> Seq(Server)]
      /\ s \in Server /\ ip \in Server /\ saw \in Seq(Server)
      /\ ip \in On /\ s \in ToSet(saw) /\ ToSet(saw) \subseteq On /\ s \in On
  BY DEF AddressInv, TypeOK, AddressesKnown, AppendAddress
<1>1. /\ appending' = appending (-) SetToBag({<<s, ip, saw>>})
      /\ flooding' = flooding (+) SetToBag({<<s, ip>>})
      /\ UNCHANGED <<phase, replies, posts, startVars>>
  BY DEF AppendAddress
<1>2. PICK list \in {saw, ipList[s]} : ipList' = [ipList EXCEPT ![s] = Append(list, ip)]
  BY DEF AppendAddress
<1>3. IsABag(appending') /\ BagToSet(appending') \subseteq BagToSet(appending)
  BY <1>t, <1>1, BagsOfOneLess
<1>4. IsABag(flooding') /\ BagToSet(flooding') = BagToSet(flooding) \cup {<<s, ip>>}
  BY <1>t, <1>1, BagsOfOneMore
<1>5. list \in Seq(Server) /\ ToSet(list) \subseteq On /\ s \in ToSet(list)
  BY <1>t DEF AddressInv, AddressesKnown
<1>6. Append(list, ip) \in Seq(Server) /\ ToSet(Append(list, ip)) = ToSet(list) \cup {ip}
  BY <1>t, <1>5, AppendedTo
<1>7. TypeOK'
  <2>1. ipList' \in [Server -> Seq(Server)]
    BY <1>t, <1>2, <1>6
  <2>2. /\ BagToSet(appending') \subseteq Server \X Server \X Seq(Server)
        /\ BagToSet(flooding') \cup BagToSet(posts') \subseteq Server \X Server
    <3>1. /\ BagToSet(appending) \subseteq Server \X Server \X Seq(Server)
          /\ BagToSet(flooding) \subseteq Server \X Server
          /\ BagToSet(posts') \subseteq Server \X Server
      BY <1>1 DEF AddressInv, TypeOK
    <3>2. <<s, ip>> \in Server \X Server
      BY <1>t
    <3> QED
      BY <1>3, <1>4, <3>1, <3>2
  <2> QED
    BY <1>1, <1>3, <1>4, <2>1, <2>2 DEF AddressInv, TypeOK, startVars
<1>8. On' = On
  BY <1>1 DEF On
<1>9. \A u \in Server : ToSet(ipList'[u]) = IF u = s THEN ToSet(list) \cup {ip}
                                                    ELSE ToSet(ipList[u])
  BY <1>t, <1>2, <1>6
<1>10. \A u \in Server : ToSet(ipList'[u]) \subseteq On'
  BY <1>t, <1>5, <1>8, <1>9 DEF AddressInv, AddressesKnown
<1>11. \A u \in On' : u \in ToSet(ipList'[u])
  BY <1>5, <1>8, <1>9 DEF AddressInv, AddressesKnown, On
<1>12. \A m \in BagToSet(flooding') : m[1] \in On' /\ m[2] \in On'
  BY <1>t, <1>4, <1>8 DEF AddressInv, AddressesKnown
<1>13. AddressesKnown'
  BY <1>1, <1>3, <1>8, <1>10, <1>11, <1>12 DEF AddressInv, AddressesKnown
<1> QED
  BY <1>7, <1>13 DEF AddressInv

(* The posts that FloodNewParticipantInNetwork starts. *)
LEMMA FloodedPosts ==
  ASSUME AddressInv, NEW s, NEW ip, FloodNewParticipant(s, ip)
  PROVE  /\ s \in Server /\ ip \in Server
         /\ IsABag(posts')
         /\ BagToSet(posts') = BagToSet(posts) \cup {<<peer, ip>> : peer \in ToSet(ipList[s])}
         /\ IsABag(flooding') /\ BagToSet(flooding') \subseteq BagToSet(flooding)
         /\ BagToSet(flooding) \subseteq BagToSet(flooding') \cup {<<s, ip>>}
<1> DEFINE list == [i \in DOMAIN ipList[s] |-> <<ipList[s][i], ip>>]
<1>1. /\ <<s, ip>> \in BagToSet(flooding) /\ IsABag(posts) /\ IsABag(flooding)
      /\ s \in Server /\ ip \in Server /\ ipList[s] \in Seq(Server)
      /\ posts' = posts (+) ToBag(list)
      /\ flooding' = flooding (-) SetToBag({<<s, ip>>})
  BY DEF AddressInv, TypeOK, FloodNewParticipant
<1>2. list \in Seq(Server \X Server)
  <2>1. /\ DOMAIN ipList[s] = 1 .. Len(ipList[s]) /\ Len(ipList[s]) \in Nat
        /\ \A i \in DOMAIN ipList[s] : ipList[s][i] \in Server
    BY <1>1
  <2>2. list \in [1 .. Len(ipList[s]) -> Server \X Server]
    BY <1>1, <2>1
  <2> QED
    BY <2>1, <2>2
<1>3. ToSet(list) = {<<peer, ip>> : peer \in ToSet(ipList[s])}
  BY DEF ToSet
<1>4. IsABag(posts') /\ BagToSet(posts') = BagToSet(posts) \cup ToSet(list)
  <2> HIDE DEF list
  <2> QED
    BY <1>1, <1>2, BagOfSequence
<1>5. /\ IsABag(flooding') /\ BagToSet(flooding') \subseteq BagToSet(flooding)
      /\ BagToSet(flooding) \subseteq BagToSet(flooding') \cup {<<s, ip>>}
  BY <1>1, BagsOfOneLess
<1> QED
  BY <1>1, <1>3, <1>4, <1>5

LEMMA AddressFlood ==
  ASSUME AddressInv, NEW s, NEW ip, FloodNewParticipant(s, ip)
  PROVE  AddressInv'
<1>1. UNCHANGED <<phase, ipList, replies, appending, startVars>>
      /\ <<s, ip>> \in BagToSet(flooding)
  BY DEF FloodNewParticipant
<1>2. /\ s \in Server /\ ip \in Server /\ s \in On /\ ip \in On
      /\ ToSet(ipList[s]) \subseteq On /\ ToSet(ipList[s]) \subseteq Server
  BY <1>1, SmallLists, FloodedPosts DEF AddressInv, AddressesKnown, TypeOK
<1>3. /\ IsABag(posts')
      /\ BagToSet(posts') = BagToSet(posts) \cup {<<peer, ip>> : peer \in ToSet(ipList[s])}
      /\ IsABag(flooding') /\ BagToSet(flooding') \subseteq BagToSet(flooding)
  BY FloodedPosts
<1>4. TypeOK'
  <2>1. BagToSet(flooding') \cup BagToSet(posts') \subseteq Server \X Server
    BY <1>2, <1>3 DEF AddressInv, TypeOK
  <2> QED
    BY <1>1, <1>3, <2>1 DEF AddressInv, TypeOK, startVars
<1>5. On' = On
  BY <1>1 DEF On
<1>6. AddressesKnown'
  BY <1>1, <1>2, <1>3, <1>5 DEF AddressInv, AddressesKnown
<1> QED
  BY <1>4, <1>6 DEF AddressInv

(* Sorting a server's list changes none of this. *)
LEMMA AddressSorted ==
  ASSUME AddressInv, NEW s \in Server, ipList' = [ipList EXCEPT ![s] = Sorted(@)]
  PROVE  /\ ipList' \in [Server -> Seq(Server)]
         /\ \A u \in Server : ToSet(ipList'[u]) = ToSet(ipList[u])
         /\ \A u \in Server : DOMAIN ipList'[u] = DOMAIN ipList[u]
<1>1. ipList \in [Server -> Seq(Server)] /\ Server \in SUBSET Int
  BY MembershipAssumption DEF AddressInv, TypeOK
<1>2. /\ Sorted(ipList[s]) \in Seq(Server)
      /\ ToSet(Sorted(ipList[s])) = ToSet(ipList[s])
      /\ DOMAIN Sorted(ipList[s]) = DOMAIN ipList[s]
  BY <1>1, SortedList
<1> QED
  BY <1>1, <1>2

LEMMA AddressSend ==
  ASSUME AddressInv, SendStartPhaseTwo
  PROVE  AddressInv'
<1>t. /\ phase \in [Server -> {"off", "asking", "joining", "ready", "started"}]
      /\ Master \in Server
  BY MembershipAssumption DEF AddressInv, TypeOK
<1>1. /\ ipList' = [ipList EXCEPT ![Master] = Sorted(@)]
      /\ signals' = {<<ipList'[Master][i], i>> : i \in DOMAIN ipList'[Master]}
      /\ phase[Master] = "joining"
      /\ phase' = [phase EXCEPT ![Master] = "ready"]
      /\ UNCHANGED <<joinVars, waiting, index, point, threshold>>
  BY DEF SendStartPhaseTwo
<1>2. /\ ipList' \in [Server -> Seq(Server)]
      /\ \A u \in Server : ToSet(ipList'[u]) = ToSet(ipList[u])
  BY <1>t, <1>1, AddressSorted
<1>3. \A i \in DOMAIN ipList'[Master] : ipList'[Master][i] \in Server /\ i \in Nat
  BY <1>t, <1>2
<1>4. signals' \subseteq Server \X Nat
  BY <1>1, <1>3
<1>5. TypeOK'
  BY <1>t, <1>1, <1>2, <1>4 DEF AddressInv, TypeOK, joinVars
<1>6. On' = On
  BY <1>t, <1>1 DEF On
<1>7. AddressesKnown'
  BY <1>1, <1>2, <1>6 DEF AddressInv, AddressesKnown, joinVars, On
<1> QED
  BY <1>5, <1>7 DEF AddressInv

LEMMA AddressReceive ==
  ASSUME AddressInv, NEW s, NEW i, ReceiveStartPhaseTwo(s, i)
  PROVE  AddressInv'
<1>t. <<s, i>> \in signals /\ s \in Server /\ i \in Nat
  BY DEF AddressInv, TypeOK, ReceiveStartPhaseTwo
<1>1. /\ signals' = signals \ {<<s, i>>}
      /\ ipList' = [ipList EXCEPT ![s] = Sorted(@)]
      /\ waiting' = waiting \cup {<<s, i>>}
      /\ UNCHANGED <<phase, joinVars, index, point, threshold>>
  BY DEF ReceiveStartPhaseTwo
<1>2. /\ ipList' \in [Server -> Seq(Server)]
      /\ \A u \in Server : ToSet(ipList'[u]) = ToSet(ipList[u])
  BY <1>t, <1>1, AddressSorted
<1>3. TypeOK'
  BY <1>t, <1>1, <1>2 DEF AddressInv, TypeOK, joinVars
<1>4. On' = On
  BY <1>1 DEF On
<1>5. AddressesKnown'
  BY <1>1, <1>2, <1>4 DEF AddressInv, AddressesKnown, joinVars, On
<1> QED
  BY <1>3, <1>5 DEF AddressInv

LEMMA AddressStart ==
  ASSUME AddressInv, NEW s, NEW i, StartNetwork(s, i)
  PROVE  AddressInv'
<1> DEFINE last == SelectLastInSeq(ipList[s], LAMBDA ip : ip = s)
<1>t. /\ phase \in [Server -> {"off", "asking", "joining", "ready", "started"}]
      /\ ipList[s] \in Seq(Server) /\ Server \in SUBSET Int
      /\ <<s, i>> \in waiting /\ s \in Server /\ i \in Nat
  BY MembershipAssumption DEF AddressInv, TypeOK, StartNetwork
<1>1. /\ phase[s] = "ready" /\ Len(ipList[s]) >= MinParties
      /\ waiting' = waiting \ {<<s, i>>}
      /\ phase' = [phase EXCEPT ![s] = "started"]
      /\ point' = [point EXCEPT ![s] = i]
      /\ threshold' = [threshold EXCEPT ![s] = CalculateT(Len(ipList[s]))]
      /\ index' = [index EXCEPT ![s] = last - 1]
      /\ UNCHANGED <<ipList, joinVars, signals>>
  BY DEF StartNetwork
<1>2. On' = On /\ s \in On
  BY <1>t, <1>1 DEF On
<1>3. s \in ToSet(ipList[s])
  BY <1>2 DEF AddressInv, AddressesKnown
<1>4. last \in DOMAIN ipList[s]
  BY <1>t, <1>3, LastOwnEntry
<1>5. last - 1 \in Nat
  <2> HIDE DEF last
  <2>1. DOMAIN ipList[s] = 1 .. Len(ipList[s])
    BY <1>t
  <2> QED
    BY <1>4, <2>1
<1>6. CalculateT(Len(ipList[s])) \in Nat
  <2>1. Len(ipList[s]) \in Nat
    BY <1>t
  <2> QED
    BY <1>1, <2>1, ThresholdType
<1>7. TypeOK'
  <2> HIDE DEF last
  <2> QED
    BY <1>t, <1>1, <1>5, <1>6 DEF AddressInv, TypeOK, joinVars
<1>8. AddressesKnown'
  BY <1>1, <1>2 DEF AddressInv, AddressesKnown, joinVars
<1> QED
  BY <1>7, <1>8 DEF AddressInv

LEMMA AddressInvariant == Spec => []AddressInv
<1>1. AddressInv /\ [Next]_vars => AddressInv'
  <2> SUFFICES ASSUME AddressInv, [Next]_vars PROVE AddressInv'
    OBVIOUS
  <2>1. ASSUME NEW s \in Server, Join(s) PROVE AddressInv'
    BY <2>1, AddressJoin
  <2>2. ASSUME NEW s \in Server, JoinNetwork(s) PROVE AddressInv'
    BY <2>2, AddressJoinNetwork
  <2>3. ASSUME NEW r \in replies, ParticipateInNetwork(r[1], r[2]) PROVE AddressInv'
    BY <2>3, AddressParticipate
  <2>4. ASSUME NEW m \in BagToSet(posts), NewParticipantInNetwork(m[1], m[2])
        PROVE  AddressInv'
    BY <2>4, AddressNewParticipant
  <2>5. ASSUME NEW m \in BagToSet(appending), AppendAddress(m[1], m[2], m[3])
        PROVE  AddressInv'
    BY <2>5, AddressAppend
  <2>6. ASSUME NEW m \in BagToSet(flooding), FloodNewParticipant(m[1], m[2])
        PROVE  AddressInv'
    BY <2>6, AddressFlood
  <2>7. CASE SendStartPhaseTwo
    BY <2>7, AddressSend
  <2>8. ASSUME NEW m \in signals, ReceiveStartPhaseTwo(m[1], m[2]) PROVE AddressInv'
    BY <2>8, AddressReceive
  <2>9. ASSUME NEW m \in waiting, StartNetwork(m[1], m[2]) PROVE AddressInv'
    BY <2>9, AddressStart
  <2>10. CASE UNCHANGED vars
    BY <2>10 DEF vars, AddressInv, TypeOK, AddressesKnown, On
  <2> QED
    BY <2>1, <2>2, <2>3, <2>4, <2>5, <2>6, <2>7, <2>8, <2>9, <2>10 DEF Next
<1> QED
  BY <1>1, AddressInit, PTL DEF Spec

(* Every reachable state is well typed.  That an index is a number says    *)
(* that no lost append takes a server's own address from its list.         *)
THEOREM MembershipTyped == Spec => []TypeOK
BY AddressInvariant, PTL DEF AddressInv

-----------------------------------------------------------------------------
(* One server at a time (Patient).  While server j is on its way, the      *)
(* others know each other and at most j besides; and as long as one of     *)
(* them does not know j, a handler is at work, or a post to it under way.  *)

Known(s) == ToSet(ipList[s])

Others(j) == Joined \ {j}

NothingUnderWay ==
  /\ replies = {}
  /\ BagToSet(appending) = {}
  /\ BagToSet(flooding) = {}
  /\ BagToSet(posts) = {}

Quiet ==
  /\ NothingUnderWay
  /\ \A s \in Server \ {Master} : phase[s] \in {"off", "ready", "started"}
  /\ \A s \in Joined : Known(s) = Joined

(* How far j has come itself. *)
OnItsWay(j) ==
  \/ /\ phase[j] = "asking"
     /\ NothingUnderWay
     /\ Known(j) = {j}
     /\ \A s \in Others(j) : j \notin Known(s)
  \/ /\ phase[j] = "joining"
     /\ \E r \in replies : replies = {r}
     /\ Known(j) = {j}
  \/ /\ phase[j] = "ready"
     /\ replies = {}
     /\ Known(j) = Joined

(* What is under way is about j, from and to servers that joined. *)
AboutNewcomer(j) ==
  /\ \A r \in replies : r[1] = j /\ ToSet(r[2]) = Others(j)
  /\ \A m \in BagToSet(appending) :
       m[1] \in Others(j) /\ m[2] = j /\ ToSet(m[3]) = Others(j)
  /\ \A m \in BagToSet(flooding) : m[1] \in Others(j) /\ m[2] = j
  /\ \A m \in BagToSet(posts) : m[1] \in Others(j) \cup {j} /\ m[2] = j

Spreading(j) ==
  \/ phase[j] = "asking"
  \/ BagToSet(appending) # {}
  \/ BagToSet(flooding) # {}
  \/ \A s \in Others(j) : j \in Known(s) \/ <<s, j>> \in BagToSet(posts)

Arriving(j) ==
  /\ j \in Server \ {Master}
  /\ \A s \in Server \ {j, Master} : phase[s] \in {"off", "ready", "started"}
  /\ \A s \in Others(j) : Others(j) \subseteq Known(s) /\ Known(s) \subseteq Others(j) \cup {j}
  /\ OnItsWay(j)
  /\ AboutNewcomer(j)
  /\ Spreading(j)

Arrivals == Quiet \/ \E j \in Server : Arriving(j)

(* Phase two.  Master's list is start when the signals go; only newcomers  *)
(* come after it later.  A list with an address twice says nothing, nor    *)
(* does an append that was begun from one.                                 *)
Lists(s) == {ipList[s]} \cup {m[3] : m \in {k \in BagToSet(appending) : k[1] = s}}

Begins(start, list) ==
  \A i \in DOMAIN start : i \in DOMAIN list /\ list[i] = start[i]

PointsAt(start, s, i) == i \in DOMAIN start /\ start[i] = s

Numbered(start, s) ==
  /\ PointsAt(start, s, index[s] + 1)
  /\ threshold[s] = CalculateT(Len(start))

InOrder(start) ==
  /\ start \in Seq(Server)
  /\ ToSet(start) = Called
  /\ \A list \in Lists(Master) :
       IsInjective(list) => Increasing(start) /\ Begins(start, list)
  /\ \A m \in signals \cup waiting : PointsAt(start, m[1], m[2])
  /\ \A s \in Server : phase[s] = "started" => PointsAt(start, s, point[s])
  /\ Increasing(start) =>
       /\ \A m \in waiting : phase[m[1]] # "started" /\ IsInjective(ipList[m[1]])
                               => ipList[m[1]] = start
       /\ \A s \in Server : phase[s] = "started" =>
            \A list \in Lists(s) :
              IsInjective(list) => Begins(start, list) /\ Numbered(start, s)

NotYetCalled ==
  /\ signals = {} /\ waiting = {}
  /\ \A s \in Server : phase[s] # "started"

Starts ==
  /\ phase[Master] \in {"joining", "ready", "started"}
  /\ phase[Master] = "joining" => NotYetCalled
  /\ phase[Master] # "joining" => \E start \in Seq(Server) : InOrder(start)
  /\ Called \subseteq Joined
  /\ StartsUnderWay => Quiet /\ Called = Joined

PatientInv == Arrivals /\ Starts

LEMMA JoinedServers ==
  /\ Master \in Joined
  /\ Joined \subseteq Server
  /\ \A s \in Server \ {Master} : s \in Joined <=> phase[s] \in {"ready", "started"}
BY MembershipAssumption DEF Joined

LEMMA ArrivedIsQuiet ==
  ASSUME NEW j, Arriving(j), Settled
  PROVE  Quiet
<1>1. NothingUnderWay
  BY EmptyBagIsEmpty DEF Settled, NothingUnderWay
<1>2. phase[j] = "ready" /\ Known(j) = Joined /\ j \in Server \ {Master}
  BY DEF Settled, Arriving, OnItsWay
<1>3. j \in Joined /\ Joined = Others(j) \cup {j}
  BY <1>2, JoinedServers DEF Others
<1>4. \A s \in Others(j) : j \in Known(s)
  BY <1>1, <1>2 DEF Arriving, Spreading, NothingUnderWay
<1>5. \A s \in Joined : Known(s) = Joined
  BY <1>2, <1>3, <1>4 DEF Arriving
<1> QED
  BY <1>1, <1>2, <1>5 DEF Arriving, Quiet

LEMMA SettledIsQuiet ==
  ASSUME Arrivals, Settled
  PROVE  Quiet
BY ArrivedIsQuiet DEF Arrivals

-----------------------------------------------------------------------------
(* Steps that bring a server in.                                           *)

LEMMA JoinArrives ==
  ASSUME AddressInv, Arrivals, Patient, NEW j \in Server, Join(j)
  PROVE  Arrivals'
<1>1. /\ phase[j] = "off" /\ phase[Master] # "off"
      /\ phase \in [Server -> {"off", "asking", "joining", "ready", "started"}]
      /\ ipList \in [Server -> Seq(Server)]
      /\ phase' = [phase EXCEPT ![j] = "asking"]
      /\ ipList' = [ipList EXCEPT ![j] = <<j>>]
      /\ UNCHANGED <<joinVars, startVars>>
      /\ ToSet(<<j>>) = {j}
  BY SmallLists DEF AddressInv, TypeOK, AddressesKnown, On, Join
<1>2. Quiet
  BY SettledIsQuiet DEF Join, OperatorActs
<1>3. j # Master /\ j \notin Joined
  BY <1>1, JoinedServers
<1>4. Joined' = Joined /\ Others(j)' = Joined
  BY <1>1, <1>3 DEF Joined, Others
<1>5. \A s \in Server : Known(s)' = IF s = j THEN {j} ELSE Known(s)
  BY <1>1 DEF Known
<1>6. \A s \in Joined : s # j /\ s \in Server /\ Known(s)' = Joined
  BY <1>2, <1>3, <1>5, JoinedServers DEF Quiet
<1>7. NothingUnderWay'
  BY <1>1, <1>2 DEF Quiet, NothingUnderWay, joinVars
<1>8. OnItsWay(j)' /\ Spreading(j)'
  BY <1>1, <1>3, <1>4, <1>5, <1>6, <1>7 DEF OnItsWay, Spreading
<1>9. AboutNewcomer(j)'
  BY <1>7 DEF AboutNewcomer, NothingUnderWay
<1>10. \A s \in Server \ {j, Master} : phase'[s] \in {"off", "ready", "started"}
  BY <1>1, <1>2 DEF Quiet
<1>11. Arriving(j)'
  BY <1>3, <1>4, <1>6, <1>8, <1>9, <1>10 DEF Arriving
<1> QED
  BY <1>11 DEF Arrivals

(* What the other steps of a newcomer have in common. *)
LEMMA NewcomerFacts ==
  ASSUME AddressInv, NEW j, Arriving(j)
  PROVE  /\ j \in Server /\ j # Master /\ Master \in Others(j)
         /\ Others(j) \subseteq Server /\ j \notin Others(j)
         /\ j \in Known(j)
         /\ \A s \in Others(j) : j \notin Known(s) => Known(s) = Others(j)
<1>1. j \in Server /\ j # Master /\ Master \in Others(j) /\ Others(j) \subseteq Server
      /\ j \notin Others(j)
  BY JoinedServers DEF Arriving, Others
<1>2. j \in Known(j)
  <2>1. phase[j] = "ready" => j \in Joined
    BY <1>1, JoinedServers
  <2> QED
    BY <2>1 DEF Arriving, OnItsWay
<1> QED
  BY <1>1, <1>2 DEF Arriving

LEMMA JoinNetworkArrives ==
  ASSUME AddressInv, Arrivals, NEW j \in Server, j # Master, JoinNetwork(j)
  PROVE  Arrivals'
<1> DEFINE m == <<Master, j, ipList[Master]>>
<1>1. /\ phase[j] = "asking" /\ Master \in Server
      /\ phase \in [Server -> {"off", "asking", "joining", "ready", "started"}]
      /\ phase' = [phase EXCEPT ![j] = "joining"]
      /\ replies' = replies \cup {<<j, ipList[Master]>>}
      /\ UNCHANGED <<ipList, flooding, posts, startVars>>
  BY MembershipAssumption DEF AddressInv, TypeOK, JoinNetwork
<1>2. BagToSet(appending') = BagToSet(appending) \cup {m}
  <2>1. IsABag(appending) /\ appending' = appending (+) SetToBag({m})
    BY DEF AddressInv, TypeOK, JoinNetwork
  <2> HIDE DEF m
  <2> QED
    BY <2>1, BagsOfOneMore
<1>3. Arriving(j)
  BY <1>1 DEF Arrivals, Quiet, Arriving
<1>4. /\ j # Master /\ Master \in Others(j) /\ j \notin Others(j)
      /\ j \in Server /\ Others(j) \subseteq Server
      /\ NothingUnderWay
      /\ Known(j) = {j}
      /\ ToSet(ipList[Master]) = Others(j)
  BY <1>1, <1>3, NewcomerFacts DEF Arriving, OnItsWay, Known
<1>5. Others(j)' = Others(j)
  BY <1>1, <1>4 DEF Joined, Others
<1>6. \A s \in Server : Known(s)' = Known(s)
  BY <1>1 DEF Known
<1>7. replies' = {<<j, ipList[Master]>>}
  BY <1>1, <1>4 DEF NothingUnderWay
<1>8. OnItsWay(j)'
  BY <1>1, <1>4, <1>6, <1>7 DEF OnItsWay
<1>9. AboutNewcomer(j)'
  <2>1. m[1] = Master /\ m[2] = j /\ m[3] = ipList[Master]
    OBVIOUS
  <2>2. BagToSet(appending') = {m}
    BY <1>2, <1>4 DEF NothingUnderWay
  <2> HIDE DEF m
  <2> QED
    BY <1>1, <1>4, <1>5, <1>7, <2>1, <2>2 DEF AboutNewcomer, NothingUnderWay
<1>10. Spreading(j)'
  BY <1>2 DEF Spreading
<1>11. \A s \in Others(j) :
         Others(j) \subseteq Known(s)' /\ Known(s)' \subseteq Others(j) \cup {j}
  BY <1>3, <1>4, <1>6 DEF Arriving
<1>12. Arriving(j)'
  BY <1>1, <1>3, <1>5, <1>8, <1>9, <1>10, <1>11 DEF Arriving
<1> QED
  BY <1>4, <1>12 DEF Arrivals

LEMMA ParticipateArrives ==
  ASSUME AddressInv, Arrivals, NEW j, NEW list, ParticipateInNetwork(j, list)
  PROVE  Arrivals'
<1>1. /\ <<j, list>> \in replies
      /\ j \in Server /\ list \in Seq(Server)
      /\ phase \in [Server -> {"off", "asking", "joining", "ready", "started"}]
      /\ ipList \in [Server -> Seq(Server)]
      /\ replies' = replies \ {<<j, list>>}
      /\ ipList' = [ipList EXCEPT ![j] = @ \o list]
      /\ phase' = [phase EXCEPT ![j] = "ready"]
      /\ UNCHANGED <<appending, flooding, posts, startVars>>
  BY DEF AddressInv, TypeOK, ParticipateInNetwork
<1>2. Arriving(j)
  BY <1>1 DEF Arrivals, Quiet, NothingUnderWay, Arriving, AboutNewcomer
<1>3. /\ phase[j] = "joining"
      /\ \E r \in replies : replies = {r}
      /\ Known(j) = {j}
      /\ ToSet(list) = Others(j)
  BY <1>1, <1>2 DEF Arriving, OnItsWay, NothingUnderWay, AboutNewcomer
<1>4. /\ j # Master /\ Master \in Others(j) /\ j \notin Others(j) /\ Others(j) \subseteq Server
  BY <1>2, NewcomerFacts
<1>5. replies' = {}
  BY <1>1, <1>3
<1>6. Others(j)' = Others(j) /\ Joined' = Others(j) \cup {j}
  BY <1>1, <1>3, <1>4 DEF Joined, Others
<1>7. \A s \in Server : Known(s)' = IF s = j THEN Others(j) \cup {j} ELSE Known(s)
  <2>1. ToSet(ipList[j] \o list) = ToSet(ipList[j]) \cup ToSet(list)
    BY <1>1, JoinedLists
  <2> QED
    BY <1>1, <1>3, <2>1 DEF Known
<1>8. OnItsWay(j)'
  BY <1>1, <1>5, <1>6, <1>7 DEF OnItsWay
<1>9. AboutNewcomer(j)'
  BY <1>1, <1>2, <1>5, <1>6 DEF Arriving, AboutNewcomer
<1>10. \A s \in Others(j) : Known(s)' = Known(s)
  BY <1>4, <1>7
<1>11. Spreading(j)'
  BY <1>1, <1>2, <1>3, <1>6, <1>10 DEF Arriving, Spreading
<1>12. Arriving(j)'
  BY <1>1, <1>2, <1>6, <1>8, <1>9, <1>10, <1>11 DEF Arriving
<1> QED
  BY <1>1, <1>12 DEF Arrivals

LEMMA NewParticipantArrives ==
  ASSUME AddressInv, Arrivals, NEW s, NEW j, NewParticipantInNetwork(s, j)
  PROVE  Arrivals'
<1> DEFINE m == <<s, j, ipList[s]>>
<1>1. /\ <<s, j>> \in BagToSet(posts) /\ IsABag(posts) /\ IsABag(appending)
      /\ posts' = posts (-) SetToBag({<<s, j>>})
      /\ UNCHANGED <<phase, ipList, replies, flooding, startVars>>
  BY DEF AddressInv, TypeOK, NewParticipantInNetwork
<1>2. /\ BagToSet(posts') \subseteq BagToSet(posts)
      /\ BagToSet(posts) \subseteq BagToSet(posts') \cup {<<s, j>>}
  BY <1>1, BagsOfOneLess
<1>3. Arriving(j)
  BY <1>1 DEF Arrivals, Quiet, NothingUnderWay, Arriving, AboutNewcomer
<1>4. /\ j \in Server /\ j \in Known(j) /\ s \in Others(j) \cup {j}
      /\ \A u \in Others(j) : j \notin Known(u) => Known(u) = Others(j)
      /\ phase[j] # "asking"
  BY <1>1, <1>3, NewcomerFacts
  DEF Arriving, AboutNewcomer, OnItsWay, NothingUnderWay
<1>5. Others(j)' = Others(j) /\ Joined' = Joined
  BY <1>1 DEF Joined, Others
<1>6. Known(s)' = Known(s) /\ \A u \in Server : Known(u)' = Known(u)
  BY <1>1 DEF Known
<1>7. OnItsWay(j)'
  BY <1>1, <1>3, <1>4, <1>5, <1>6 DEF Arriving, OnItsWay
<1>8. \A u \in Others(j) : Others(j) \subseteq Known(u)' /\ Known(u)' \subseteq Others(j) \cup {j}
  <2>1. Others(j) \subseteq Server
    BY <1>3, NewcomerFacts
  <2> QED
    BY <1>3, <1>6, <2>1 DEF Arriving
<1>9. \A u \in Others(j) : Known(u)' = Known(u)
  BY <1>1 DEF Known
<1>10. CASE NewParticipantIgnored(s, j)
  <2>1. appending' = appending /\ j \in Known(s)
    BY <1>10 DEF NewParticipantIgnored, Known
  <2>2. AboutNewcomer(j)'
    BY <1>1, <1>2, <1>3, <1>5, <2>1 DEF Arriving, AboutNewcomer
  <2>3. Spreading(j)'
    BY <1>1, <1>2, <1>3, <1>5, <1>9, <2>1 DEF Arriving, Spreading
  <2>4. Arriving(j)'
    BY <1>1, <1>3, <1>5, <1>7, <1>8, <2>2, <2>3 DEF Arriving
  <2> QED
    BY <1>4, <2>4 DEF Arrivals
<1>11. CASE NewParticipantAccepted(s, j)
  <2>1. j \notin Known(s) /\ appending' = appending (+) SetToBag({m})
    BY <1>11 DEF NewParticipantAccepted, Known
  <2>2. BagToSet(appending') = BagToSet(appending) \cup {m}
    <3> HIDE DEF m
    <3> QED
      BY <1>1, <2>1, BagsOfOneMore
  <2>3. s \in Others(j) /\ ToSet(ipList[s]) = Others(j)
    BY <1>4, <2>1 DEF Known
  <2>4. AboutNewcomer(j)'
    <3>1. m[1] = s /\ m[2] = j /\ m[3] = ipList[s]
      OBVIOUS
    <3> HIDE DEF m
    <3>2. \A k \in BagToSet(appending') :
            k[1] \in Others(j)' /\ k[2] = j /\ ToSet(k[3]) = Others(j)'
      BY <1>3, <1>5, <2>2, <2>3, <3>1 DEF Arriving, AboutNewcomer
    <3> QED
      BY <1>1, <1>2, <1>3, <1>5, <3>2 DEF Arriving, AboutNewcomer
  <2>5. Spreading(j)'
    BY <2>2 DEF Spreading
  <2>6. Arriving(j)'
    BY <1>1, <1>3, <1>5, <1>7, <1>8, <2>4, <2>5 DEF Arriving
  <2> QED
    BY <1>4, <2>6 DEF Arrivals
<1> QED
  BY <1>10, <1>11 DEF NewParticipantInNetwork

LEMMA AppendArrives ==
  ASSUME AddressInv, Arrivals, NEW s, NEW j, NEW saw, AppendAddress(s, j, saw)
  PROVE  Arrivals'
<1>1. /\ <<s, j, saw>> \in BagToSet(appending) /\ IsABag(appending) /\ IsABag(flooding)
      /\ ipList \in [Server -> Seq(Server)] /\ saw \in Seq(Server)
      /\ appending' = appending (-) SetToBag({<<s, j, saw>>})
      /\ flooding' = flooding (+) SetToBag({<<s, j>>})
      /\ UNCHANGED <<phase, replies, posts, startVars>>
  BY DEF AddressInv, TypeOK, AppendAddress
<1>2. PICK list \in {saw, ipList[s]} : ipList' = [ipList EXCEPT ![s] = Append(list, j)]
  BY DEF AppendAddress
<1>3. Arriving(j)
  BY <1>1 DEF Arrivals, Quiet, NothingUnderWay, Arriving, AboutNewcomer
<1>4. /\ j \in Server /\ j \in Known(j) /\ j \notin Others(j)
      /\ s \in Others(j) /\ ToSet(saw) = Others(j) /\ Others(j) \subseteq Server
      /\ phase[j] # "asking"
  BY <1>1, <1>3, NewcomerFacts
  DEF Arriving, AboutNewcomer, OnItsWay, NothingUnderWay
<1>5. Others(j)' = Others(j) /\ Joined' = Joined
  BY <1>1 DEF Joined, Others
<1>6. list \in Seq(Server) /\ ToSet(list) \cup {j} = Others(j) \cup {j}
  BY <1>1, <1>3, <1>4 DEF Arriving, Known
<1>7. ToSet(Append(list, j)) = Others(j) \cup {j}
  BY <1>4, <1>6, AppendedTo
<1>8. \A u \in Server : Known(u)' = IF u = s THEN Others(j) \cup {j} ELSE Known(u)
  BY <1>1, <1>2, <1>7 DEF Known
<1>9. BagToSet(appending') \subseteq BagToSet(appending)
  BY <1>1, BagsOfOneLess
<1>10. BagToSet(flooding') = BagToSet(flooding) \cup {<<s, j>>}
  BY <1>1, BagsOfOneMore
<1>11. OnItsWay(j)'
  BY <1>1, <1>3, <1>4, <1>5, <1>8 DEF Arriving, OnItsWay
<1>12. AboutNewcomer(j)'
  <2>1. \A m \in BagToSet(flooding') : m[1] \in Others(j) /\ m[2] = j
    BY <1>3, <1>4, <1>10 DEF Arriving, AboutNewcomer
  <2>2. \A m \in BagToSet(appending') :
          m[1] \in Others(j) /\ m[2] = j /\ ToSet(m[3]) = Others(j)
    BY <1>3, <1>9 DEF Arriving, AboutNewcomer
  <2> QED
    BY <1>1, <1>3, <1>5, <2>1, <2>2 DEF Arriving, AboutNewcomer
<1>13. \A u \in Others(j) : Others(j) \subseteq Known(u)' /\ Known(u)' \subseteq Others(j) \cup {j}
  BY <1>3, <1>4, <1>8 DEF Arriving
<1>14. Arriving(j)'
  BY <1>1, <1>3, <1>5, <1>10, <1>11, <1>12, <1>13 DEF Arriving, Spreading
<1> QED
  BY <1>4, <1>14 DEF Arrivals

LEMMA FloodArrives ==
  ASSUME AddressInv, Arrivals, NEW s, NEW j, FloodNewParticipant(s, j)
  PROVE  Arrivals'
<1>1. /\ <<s, j>> \in BagToSet(flooding)
      /\ UNCHANGED <<phase, ipList, replies, appending, startVars>>
  BY DEF FloodNewParticipant
<1>2. /\ BagToSet(posts') = BagToSet(posts) \cup {<<peer, j>> : peer \in Known(s)}
      /\ BagToSet(flooding') \subseteq BagToSet(flooding)
  BY FloodedPosts DEF Known
<1>3. Arriving(j)
  BY <1>1 DEF Arrivals, Quiet, NothingUnderWay, Arriving, AboutNewcomer
<1>4. /\ j \in Server /\ s \in Others(j) /\ Others(j) \subseteq Server
      /\ phase[j] # "asking"
      /\ Others(j) \subseteq Known(s) /\ Known(s) \subseteq Others(j) \cup {j}
  BY <1>1, <1>3, NewcomerFacts
  DEF Arriving, AboutNewcomer, OnItsWay, NothingUnderWay
<1>5. Others(j)' = Others(j) /\ Joined' = Joined
  BY <1>1 DEF Joined, Others
<1>6. \A u \in Server : Known(u)' = Known(u)
  BY <1>1 DEF Known
<1>7. OnItsWay(j)'
  BY <1>1, <1>3, <1>4, <1>5, <1>6 DEF Arriving, OnItsWay
<1>8. AboutNewcomer(j)'
  BY <1>1, <1>2, <1>3, <1>4, <1>5 DEF Arriving, AboutNewcomer
<1>9. Spreading(j)'
  BY <1>2, <1>4, <1>5 DEF Spreading
<1>10. \A u \in Others(j) : Others(j) \subseteq Known(u)' /\ Known(u)' \subseteq Others(j) \cup {j}
  BY <1>3, <1>4, <1>6 DEF Arriving
<1>11. Arriving(j)'
  BY <1>1, <1>3, <1>5, <1>7, <1>8, <1>9, <1>10 DEF Arriving
<1> QED
  BY <1>4, <1>11 DEF Arrivals

-----------------------------------------------------------------------------
(* Phase two.                                                              *)

LEMMA LongerList ==
  ASSUME NEW list \in Seq(Server), NEW x \in Server
  PROVE  /\ IsInjective(Append(list, x)) => IsInjective(list)
         /\ \A start : Begins(start, list) => Begins(start, Append(list, x))
<1> DEFINE longer == Append(list, x)
<1>1. /\ DOMAIN list = 1 .. Len(list) /\ Len(list) \in Nat
      /\ DOMAIN longer = 1 .. Len(list) + 1
      /\ \A i \in 1 .. Len(list) : longer[i] = list[i]
  OBVIOUS
<1> HIDE DEF longer
<1>2. \A i \in DOMAIN list : i \in DOMAIN longer /\ longer[i] = list[i]
  BY <1>1
<1>3. IsInjective(longer) => IsInjective(list)
  BY <1>2 DEF IsInjective
<1>4. \A start : Begins(start, list) => Begins(start, longer)
  BY <1>2 DEF Begins
<1> QED
  BY <1>3, <1>4 DEF longer

LEMMA ListsAreLists ==
  ASSUME AddressInv, NEW s \in Server, NEW list \in Lists(s)
  PROVE  list \in Seq(Server)
<1>1. ipList[s] \in Seq(Server) /\ BagToSet(appending) \subseteq Server \X Server \X Seq(Server)
  BY DEF AddressInv, TypeOK
<1> QED
  BY <1>1 DEF Lists

(* A newcomer, before or after the signals, only makes lists longer.       *)
LEMMA Lengthened ==
  ASSUME AddressInv, Starts, ~StartsUnderWay, UNCHANGED startVars,
         phase'[Master] = phase[Master],
         \A s \in Server : phase'[s] = "started" <=> phase[s] = "started",
         Joined \subseteq Joined',
         \A s \in Server : s = Master \/ phase[s] = "started" =>
           \A list \in Lists(s)' :
             list \in Lists(s) \/ \E shorter \in Lists(s), x \in Server : list = Append(shorter, x)
  PROVE  Starts'
<1>1. /\ signals' = signals /\ waiting' = waiting /\ index' = index
      /\ point' = point /\ threshold' = threshold
      /\ waiting \subseteq Server \X Nat /\ Master \in Server
  BY MembershipAssumption DEF startVars, AddressInv, TypeOK
<1>2. Called' = Called
  BY <1>1 DEF Called
<1>3. ~StartsUnderWay'
  <2>1. \A m \in waiting : m[1] \in Server
    BY <1>1
  <2> QED
    BY <1>1, <2>1 DEF StartsUnderWay
<1>4. ASSUME NEW s \in Server, s = Master \/ phase[s] = "started",
             NEW list \in Lists(s)', IsInjective(list)
      PROVE  \E shorter \in Lists(s) :
               /\ IsInjective(shorter)
               /\ \A start : Begins(start, shorter) => Begins(start, list)
  <2>1. CASE list \in Lists(s)
    BY <1>4, <2>1
  <2>2. CASE list \notin Lists(s)
    <3>1. PICK shorter \in Lists(s), x \in Server : list = Append(shorter, x)
      BY <1>4, <2>2
    <3>2. shorter \in Seq(Server)
      BY ListsAreLists
    <3> QED
      BY <1>4, <3>1, <3>2, LongerList
  <2> QED
    BY <2>1, <2>2
<1>5. ASSUME NEW start \in Seq(Server), InOrder(start) PROVE InOrder(start)'
  <2>1. \A list \in Lists(Master)' : IsInjective(list) => Increasing(start) /\ Begins(start, list)
    BY <1>1, <1>4, <1>5 DEF InOrder
  <2>2. \A s \in Server : PointsAt(start, s, point'[s]) <=> PointsAt(start, s, point[s])
    BY <1>1
  <2>3. \A m \in signals' \cup waiting' : PointsAt(start, m[1], m[2])
    BY <1>1, <1>5 DEF InOrder
  <2>4. \A m \in waiting' : phase'[m[1]] = "started"
    BY <1>3 DEF StartsUnderWay
  <2>5. ASSUME Increasing(start), NEW s \in Server, phase'[s] = "started",
               NEW list \in Lists(s)', IsInjective(list)
        PROVE  Begins(start, list) /\ Numbered(start, s)'
    <3>1. phase[s] = "started"
      BY <2>5
    <3>2. PICK shorter \in Lists(s) :
            IsInjective(shorter) /\ \A st : Begins(st, shorter) => Begins(st, list)
      BY <1>4, <2>5, <3>1
    <3>3. Begins(start, shorter) /\ Numbered(start, s)
      BY <1>5, <2>5, <3>1, <3>2 DEF InOrder
    <3> QED
      BY <1>1, <3>2, <3>3 DEF Numbered, PointsAt
  <2>6. \A s \in Server : phase'[s] = "started" => PointsAt(start, s, point[s])
    BY <1>5 DEF InOrder
  <2>7. ToSet(start) = Called'
    BY <1>2, <1>5 DEF InOrder
  <2>8. \A s \in Server : phase'[s] = "started" => PointsAt(start, s, point'[s])
    BY <1>1, <2>6
  <2> QED
    BY <2>1, <2>3, <2>4, <2>5, <2>7, <2>8 DEF InOrder, PointsAt
<1>6. phase'[Master] = "joining" => NotYetCalled'
  BY <1>1 DEF Starts, NotYetCalled
<1>7. phase'[Master] # "joining" => (\E start \in Seq(Server) : InOrder(start))'
  BY <1>5 DEF Starts
<1>8. Called' \subseteq Joined'
  BY <1>2 DEF Starts
<1> QED
  BY <1>3, <1>6, <1>7, <1>8 DEF Starts

LEMMA NewcomerStarts ==
  ASSUME AddressInv, Arrivals, Starts, Patient,
         \/ \E s \in Server : Join(s) \/ JoinNetwork(s)
         \/ \E r \in replies : ParticipateInNetwork(r[1], r[2])
         \/ \E m \in BagToSet(posts) : NewParticipantInNetwork(m[1], m[2])
         \/ \E m \in BagToSet(appending) : AppendAddress(m[1], m[2], m[3])
         \/ \E m \in BagToSet(flooding) : FloodNewParticipant(m[1], m[2])
  PROVE  Starts'
<1>1. /\ phase \in [Server -> {"off", "asking", "joining", "ready", "started"}]
      /\ ipList \in [Server -> Seq(Server)]
      /\ Master \in Server /\ phase[Master] # "off"
  BY MembershipAssumption DEF AddressInv, TypeOK, AddressesKnown, On
<1>2. ASSUME NEW s \in Server, Join(s) PROVE Starts'
  <2>1. /\ phase[s] = "off" /\ s # Master /\ ~StartsUnderWay
        /\ phase' = [phase EXCEPT ![s] = "asking"]
        /\ ipList' = [ipList EXCEPT ![s] = <<s>>]
        /\ UNCHANGED <<joinVars, startVars>>
    BY <1>1, <1>2 DEF Join, OperatorActs
  <2>2. \A u \in Server \ {s} : Lists(u)' = Lists(u)
    BY <1>1, <2>1 DEF Lists, joinVars
  <2>3. Joined \subseteq Joined' /\ \A u \in Server : phase'[u] = "started" <=> phase[u] = "started"
    BY <1>1, <2>1 DEF Joined
  <2> QED
    BY <1>1, <2>1, <2>2, <2>3, Lengthened
<1>3. ASSUME ~Quiet PROVE ~StartsUnderWay
  BY <1>3 DEF Starts
<1>4. ASSUME NEW s \in Server, JoinNetwork(s) PROVE Starts'
  <2> DEFINE m == <<Master, s, ipList[Master]>>
  <2>1. /\ phase[s] = "asking" /\ phase' = [phase EXCEPT ![s] = "joining"]
        /\ UNCHANGED <<ipList, flooding, posts, startVars>>
        /\ appending' = appending (+) SetToBag({m}) /\ IsABag(appending)
    BY <1>4 DEF JoinNetwork, AddressInv, TypeOK
  <2>2. BagToSet(appending') = BagToSet(appending) \cup {m}
    <3> HIDE DEF m
    <3> QED
      BY <2>1, BagsOfOneMore
  <2>3. s # Master
    BY <2>1 DEF Starts
  <2>4. ~StartsUnderWay
    BY <1>3, <2>1, <2>3 DEF Quiet
  <2>5. \A u \in Server : \A list \in Lists(u)' : list \in Lists(u)
    <3> SUFFICES ASSUME NEW u \in Server, NEW list \in Lists(u)', list \notin Lists(u)
                 PROVE  FALSE
      OBVIOUS
    <3>1. m[1] = Master /\ m[3] = ipList[Master]
      OBVIOUS
    <3> HIDE DEF m
    <3> QED
      BY <2>1, <2>2, <3>1 DEF Lists
  <2>6. Joined \subseteq Joined' /\ \A u \in Server : phase'[u] = "started" <=> phase[u] = "started"
    BY <1>1, <2>1, <2>3 DEF Joined
  <2> QED
    BY <1>1, <2>1, <2>3, <2>4, <2>5, <2>6, Lengthened
<1>5. ASSUME NEW r \in replies, ParticipateInNetwork(r[1], r[2]) PROVE Starts'
  <2> DEFINE s == r[1]
  <2>1. /\ s \in Server /\ ~Quiet
        /\ ipList' = [ipList EXCEPT ![s] = @ \o r[2]]
        /\ phase' = [phase EXCEPT ![s] = "ready"]
        /\ UNCHANGED <<appending, flooding, posts, startVars>>
    BY <1>5 DEF ParticipateInNetwork, AddressInv, TypeOK, Quiet, NothingUnderWay
  <2>2. s # Master /\ phase[s] = "joining"
    BY <2>1 DEF Arrivals, Arriving, OnItsWay, AboutNewcomer, NothingUnderWay
  <2> HIDE DEF s
  <2>3. \A u \in Server \ {s} : Lists(u)' = Lists(u)
    BY <1>1, <2>1 DEF Lists
  <2>4. Joined \subseteq Joined' /\ \A u \in Server : phase'[u] = "started" <=> phase[u] = "started"
    BY <1>1, <2>1, <2>2 DEF Joined
  <2>5. phase'[Master] = phase[Master]
    BY <1>1, <2>1, <2>2
  <2> QED
    BY <1>3, <2>1, <2>2, <2>3, <2>4, <2>5, Lengthened
<1>6. ASSUME NEW k \in BagToSet(posts), NewParticipantInNetwork(k[1], k[2]) PROVE Starts'
  <2> DEFINE m == <<k[1], k[2], ipList[k[1]]>>
  <2>1. /\ ~Quiet /\ UNCHANGED <<phase, ipList, replies, flooding, startVars>>
        /\ appending' = appending \/ appending' = appending (+) SetToBag({m})
        /\ IsABag(appending)
    BY <1>6 DEF NewParticipantInNetwork, NewParticipantAccepted, NewParticipantIgnored,
                AddressInv, TypeOK, Quiet, NothingUnderWay
  <2>2. BagToSet(appending') \subseteq BagToSet(appending) \cup {m}
    <3> HIDE DEF m
    <3> QED
      BY <2>1, BagsOfOneMore
  <2>3. \A u \in Server : \A list \in Lists(u)' : list \in Lists(u)
    <3> SUFFICES ASSUME NEW u \in Server, NEW list \in Lists(u)', list \notin Lists(u)
                 PROVE  FALSE
      OBVIOUS
    <3>1. m[3] = ipList[m[1]]
      OBVIOUS
    <3> HIDE DEF m
    <3> QED
      BY <2>1, <2>2, <3>1 DEF Lists
  <2>4. Joined' = Joined
    BY <2>1 DEF Joined
  <2> QED
    BY <1>3, <2>1, <2>3, <2>4, Lengthened
<1>7. ASSUME NEW m \in BagToSet(appending), AppendAddress(m[1], m[2], m[3]) PROVE Starts'
  <2>0. m \in Server \X Server \X Seq(Server) /\ IsABag(appending) /\ ~Quiet
    BY DEF AddressInv, TypeOK, Quiet, NothingUnderWay
  <2>1. /\ ~Quiet /\ UNCHANGED <<phase, replies, posts, startVars>>
        /\ IsABag(appending) /\ appending' = appending (-) SetToBag({<<m[1], m[2], m[3]>>})
        /\ m[1] \in Server /\ m[2] \in Server /\ m = <<m[1], m[2], m[3]>>
    BY <1>7, <2>0 DEF AppendAddress
  <2>2. PICK list \in {m[3], ipList[m[1]]} : ipList' = [ipList EXCEPT ![m[1]] = Append(list, m[2])]
    BY <1>7 DEF AppendAddress
  <2>3. BagToSet(appending') \subseteq BagToSet(appending)
    BY <2>1, BagsOfOneLess
  <2>4. list \in Lists(m[1])
    BY <2>2 DEF Lists
  <2>5. ASSUME NEW u \in Server, NEW l \in Lists(u)'
        PROVE  l \in Lists(u) \/ \E shorter \in Lists(u), x \in Server : l = Append(shorter, x)
    <3>1. CASE u = m[1] /\ l = ipList'[u]
      BY <1>1, <2>1, <2>2, <2>4, <3>1
    <3>2. CASE ~(u = m[1] /\ l = ipList'[u])
      BY <1>1, <2>1, <2>2, <2>3, <3>2 DEF Lists
    <3> QED
      BY <3>1, <3>2
  <2>6. Joined' = Joined
    BY <2>1 DEF Joined
  <2> QED
    BY <1>3, <2>1, <2>5, <2>6, Lengthened
<1>8. ASSUME NEW m \in BagToSet(flooding), FloodNewParticipant(m[1], m[2]) PROVE Starts'
  <2>1. ~Quiet /\ UNCHANGED <<phase, ipList, replies, appending, startVars>>
    BY <1>8 DEF FloodNewParticipant, Quiet, NothingUnderWay
  <2>2. Joined' = Joined /\ \A u \in Server : Lists(u)' = Lists(u)
    BY <2>1 DEF Joined, Lists
  <2> QED
    BY <1>3, <2>1, <2>2, Lengthened
<1> QED
  BY <1>2, <1>4, <1>5, <1>6, <1>7, <1>8

(* With nothing under way the list itself is the only one.                 *)
LEMMA OneList ==
  ASSUME NEW s, BagToSet(appending) = {}
  PROVE  Lists(s) = {ipList[s]}
BY DEF Lists

LEMMA SendStarts ==
  ASSUME AddressInv, PatientInv, Patient, SendStartPhaseTwo
  PROVE  PatientInv'
<1>0. PICK start : start = Sorted(ipList[Master])
  OBVIOUS
<1>1. /\ phase[Master] = "joining" /\ Master \in Server
      /\ phase \in [Server -> {"off", "asking", "joining", "ready", "started"}]
      /\ ipList \in [Server -> Seq(Server)] /\ Server \in SUBSET Int
      /\ ipList' = [ipList EXCEPT ![Master] = Sorted(@)]
      /\ signals' = {<<ipList'[Master][i], i>> : i \in DOMAIN ipList'[Master]}
      /\ phase' = [phase EXCEPT ![Master] = "ready"]
      /\ UNCHANGED <<joinVars, waiting, index, point, threshold>>
  BY MembershipAssumption DEF AddressInv, TypeOK, SendStartPhaseTwo
<1>2. Quiet /\ NotYetCalled
  BY <1>1, SettledIsQuiet DEF SendStartPhaseTwo, OperatorActs, PatientInv, Starts
<1>3. Joined' = Joined
  BY <1>1 DEF Joined
<1>4. \A u \in Server : Known(u)' = Known(u)
  BY <1>1, AddressSorted DEF Known
<1>5. Quiet'
  BY <1>1, <1>2, <1>3, <1>4, JoinedServers DEF Quiet, NothingUnderWay, joinVars
<1>6. /\ start \in Seq(Server) /\ ToSet(start) = Joined
      /\ IsInjective(start) => Increasing(start)
      /\ ipList'[Master] = start
  <2>1. ipList[Master] \in Seq(Server) /\ Known(Master) = Joined
    BY <1>1, <1>2, JoinedServers DEF Quiet
  <2> QED
    BY <1>0, <1>1, <2>1, SortedList DEF Known
<1>7. /\ waiting' = {} /\ \A s \in Server : phase'[s] # "started"
      /\ signals' = {<<start[i], i>> : i \in DOMAIN start}
  BY <1>1, <1>2, <1>6 DEF NotYetCalled
<1>8. Called' = Joined
  <2>1. Called' = {m[1] : m \in signals'}
    BY <1>7 DEF Called
  <2>2. \A m \in signals' : m[1] \in ToSet(start)
    BY <1>7 DEF ToSet
  <2>3. ASSUME NEW u \in ToSet(start) PROVE \E m \in signals' : m[1] = u
    <3>1. PICK i \in DOMAIN start : u = start[i]
      BY DEF ToSet
    <3>2. <<u, i>> \in signals'
      BY <1>7, <3>1
    <3> QED
      BY <3>2
  <2> QED
    BY <1>6, <2>1, <2>2, <2>3
<1>9. InOrder(start)'
  <2>1. Lists(Master)' = {start}
    BY <1>5, <1>6 DEF Quiet, NothingUnderWay, Lists
  <2>2. Begins(start, start)
    BY DEF Begins
  <2>3. \A m \in signals' \cup waiting' : PointsAt(start, m[1], m[2])
    BY <1>7 DEF PointsAt
  <2> QED
    BY <1>6, <1>7, <1>8, <2>1, <2>2, <2>3 DEF InOrder
<1>10. Starts'
  BY <1>1, <1>3, <1>5, <1>6, <1>8, <1>9 DEF Starts
<1> QED
  BY <1>5, <1>10 DEF PatientInv, Arrivals

LEMMA ReceiveStarts ==
  ASSUME AddressInv, PatientInv, NEW s, NEW i, ReceiveStartPhaseTwo(s, i)
  PROVE  PatientInv'
<1>1. /\ <<s, i>> \in signals /\ s \in Server /\ Master \in Server
      /\ ipList \in [Server -> Seq(Server)] /\ Server \in SUBSET Int
      /\ signals' = signals \ {<<s, i>>}
      /\ ipList' = [ipList EXCEPT ![s] = Sorted(@)]
      /\ waiting' = waiting \cup {<<s, i>>}
      /\ UNCHANGED <<phase, joinVars, index, point, threshold>>
  BY MembershipAssumption DEF AddressInv, TypeOK, ReceiveStartPhaseTwo
<1>2. Quiet /\ Called = Joined /\ phase[Master] # "joining"
  BY <1>1 DEF PatientInv, Starts, StartsUnderWay, NotYetCalled
<1>3. Joined' = Joined
  BY <1>1 DEF Joined
<1>4. \A u \in Server : Known(u)' = Known(u)
  BY <1>1, AddressSorted DEF Known
<1>5. Quiet'
  BY <1>1, <1>2, <1>3, <1>4, JoinedServers DEF Quiet, NothingUnderWay, joinVars
<1>6. Called' = Called
  <2>1. signals' \cup waiting' = signals \cup waiting
    BY <1>1
  <2> QED
    BY <1>1, <2>1 DEF Called
<1>7. PICK start \in Seq(Server) : InOrder(start)
  BY <1>2 DEF PatientInv, Starts
<1>8. /\ ipList'[s] = Sorted(ipList[s]) /\ ipList'[s] \in Seq(Server)
      /\ ToSet(ipList'[s]) = ToSet(ipList[s])
      /\ \A u \in Server \ {s} : ipList'[u] = ipList[u]
  BY <1>1, AddressSorted
<1>9. \A u \in Server : Lists(u) = {ipList[u]} /\ Lists(u)' = {ipList'[u]}
  BY <1>2, <1>5, OneList DEF Quiet, NothingUnderWay, Lists
<1>10. ASSUME IsInjective(ipList'[s])
       PROVE  IsInjective(ipList[s]) /\ Increasing(ipList'[s])
  BY <1>1, <1>8, <1>10, SortedList
<1>11. ASSUME IsInjective(ipList'[s]), Increasing(start) PROVE ipList'[s] = start
  <2>1. s \in Joined
    BY <1>1, <1>2 DEF Called
  <2>2. ToSet(ipList'[s]) = ToSet(start)
    BY <1>2, <1>7, <1>8, <2>1 DEF Quiet, Known, InOrder
  <2> QED
    BY <1>1, <1>7, <1>8, <1>10, <1>11, <2>2, OneIncreasingList
<1>12. Begins(start, start)
  BY DEF Begins
<1>13. InOrder(start)'
  <2>1. ASSUME IsInjective(ipList'[Master])
        PROVE  Increasing(start) /\ Begins(start, ipList'[Master])
    <3>1. IsInjective(ipList[Master])
      BY <1>1, <1>8, <1>10, <2>1
    <3>2. Increasing(start) /\ Begins(start, ipList[Master])
      BY <1>1, <1>7, <1>9, <3>1 DEF InOrder
    <3> QED
      BY <1>1, <1>8, <1>11, <1>12, <2>1, <3>2
  <2>2. \A m \in signals' \cup waiting' : PointsAt(start, m[1], m[2])
    BY <1>1, <1>7 DEF InOrder
  <2>3. \A u \in Server : phase'[u] = "started" => PointsAt(start, u, point'[u])
    BY <1>1, <1>7 DEF InOrder
  <2>4. ASSUME Increasing(start), NEW m \in waiting', phase'[m[1]] # "started",
               IsInjective(ipList'[m[1]])
        PROVE  ipList'[m[1]] = start
    <3>1. m[1] = s \/ (m \in waiting /\ m[1] \in Server \ {s})
      BY <1>1 DEF AddressInv, TypeOK
    <3> QED
      BY <1>1, <1>7, <1>8, <1>11, <2>4, <3>1 DEF InOrder
  <2>5. ASSUME Increasing(start), NEW u \in Server, phase'[u] = "started",
               IsInjective(ipList'[u])
        PROVE  Begins(start, ipList'[u]) /\ Numbered(start, u)'
    <3>1. IsInjective(ipList[u]) /\ phase[u] = "started"
      BY <1>1, <1>8, <1>10, <2>5
    <3>2. Begins(start, ipList[u]) /\ Numbered(start, u)
      BY <1>7, <1>9, <2>5, <3>1 DEF InOrder
    <3>3. Begins(start, ipList'[u])
      BY <1>8, <1>11, <1>12, <2>5, <3>2
    <3> QED
      BY <1>1, <3>2, <3>3 DEF Numbered
  <2>6. ToSet(start) = Called'
    BY <1>6, <1>7 DEF InOrder
  <2> QED
    BY <1>1, <1>9, <2>1, <2>2, <2>3, <2>4, <2>5, <2>6 DEF InOrder
<1>14. Starts'
  BY <1>1, <1>2, <1>3, <1>5, <1>6, <1>13 DEF PatientInv, Starts
<1> QED
  BY <1>5, <1>14 DEF PatientInv, Arrivals

LEMMA StartStarts ==
  ASSUME AddressInv, PatientInv, NEW s, NEW i, StartNetwork(s, i)
  PROVE  PatientInv'
<1> DEFINE last == SelectLastInSeq(ipList[s], LAMBDA ip : ip = s)
<1>1. /\ <<s, i>> \in waiting /\ s \in Server /\ i \in Nat /\ Master \in Server
      /\ phase \in [Server -> {"off", "asking", "joining", "ready", "started"}]
      /\ ipList \in [Server -> Seq(Server)] /\ Server \in SUBSET Int
      /\ index \in [Server -> Nat] /\ point \in [Server -> Nat]
      /\ threshold \in [Server -> Nat] /\ waiting \subseteq Server \X Nat
      /\ phase[s] = "ready"
      /\ waiting' = waiting \ {<<s, i>>}
      /\ phase' = [phase EXCEPT ![s] = "started"]
      /\ point' = [point EXCEPT ![s] = i]
      /\ threshold' = [threshold EXCEPT ![s] = CalculateT(Len(ipList[s]))]
      /\ index' = [index EXCEPT ![s] = last - 1]
      /\ UNCHANGED <<ipList, joinVars, signals>>
  BY MembershipAssumption DEF AddressInv, TypeOK, StartNetwork
<1>2. last \in DOMAIN ipList[s] /\ ipList[s][last] = s
  <2>1. s \in ToSet(ipList[s])
    BY <1>1 DEF AddressInv, AddressesKnown, On
  <2>2. ipList[s] \in Seq(Server) /\ Server \in SUBSET Int
    BY <1>1
  <2> QED
    BY <2>1, <2>2, LastOwnEntry
<1> HIDE DEF last
<1>3. StartsUnderWay /\ Quiet /\ Called = Joined /\ phase[Master] # "joining"
  BY <1>1 DEF PatientInv, Starts, StartsUnderWay, NotYetCalled
<1>4. Joined' = Joined /\ s \in Joined
  BY <1>1 DEF Joined
<1>5. Quiet'
  <2>1. \A u \in Server : Known(u)' = Known(u)
    BY <1>1 DEF Known
  <2> QED
    BY <1>1, <1>3, <1>4, <2>1, JoinedServers DEF Quiet, NothingUnderWay, joinVars
<1>6. Called' = Called
  <2>1. ASSUME NEW m \in signals \cup waiting
        PROVE  m \in signals' \cup waiting' \/ (m[1] = s /\ phase'[s] = "started")
    BY <1>1
  <2>2. {u \in Server : phase'[u] = "started"} = {u \in Server : phase[u] = "started"} \cup {s}
    BY <1>1
  <2>3. signals' \cup waiting' \subseteq signals \cup waiting
    BY <1>1
  <2>4. s \in Called /\ \A m \in signals \cup waiting : m[1] = s \/ m[1] \in Called'
    BY <1>1, <2>1 DEF Called
  <2>5. s \in Called'
    BY <1>1 DEF Called
  <2>6. Called \subseteq Called'
    BY <2>2, <2>4, <2>5 DEF Called
  <2>7. Called' \subseteq Called
    BY <2>2, <2>3, <2>4 DEF Called
  <2> QED
    BY <2>6, <2>7
<1>7. PICK start \in Seq(Server) : InOrder(start)
  BY <1>3 DEF PatientInv, Starts
<1>8. \A u \in Server : Lists(u) = {ipList[u]} /\ Lists(u)' = {ipList[u]}
  BY <1>1, <1>3, <1>5, OneList DEF Quiet, NothingUnderWay, Lists, joinVars
<1>9. ASSUME Increasing(start), IsInjective(ipList[s])
      PROVE  Begins(start, ipList[s]) /\ Numbered(start, s)'
  <2>1. ipList[s] = start
    <3>1. \A m \in waiting : phase[m[1]] # "started" /\ IsInjective(ipList[m[1]])
                             => ipList[m[1]] = start
      BY <1>7, <1>9 DEF InOrder
    <3> QED
      BY <1>1, <1>9, <3>1
  <2>2. last \in Nat /\ index'[s] + 1 = last /\ threshold'[s] = CalculateT(Len(start))
    <3>1. DOMAIN ipList[s] = 1 .. Len(ipList[s]) /\ Len(ipList[s]) \in Nat
      BY <1>1
    <3> QED
      BY <1>1, <1>2, <2>1, <3>1
  <2> QED
    BY <1>2, <2>1, <2>2 DEF Begins, Numbered, PointsAt
<1>10. InOrder(start)'
  <2>1. \A list \in Lists(Master)' : IsInjective(list) => Increasing(start) /\ Begins(start, list)
    BY <1>1, <1>7, <1>8 DEF InOrder
  <2>2. \A m \in signals' \cup waiting' : PointsAt(start, m[1], m[2])
    BY <1>1, <1>7 DEF InOrder
  <2>3. ASSUME NEW u \in Server, phase'[u] = "started" PROVE PointsAt(start, u, point'[u])
    <3>1. CASE u = s
      <4>1. PointsAt(start, s, i)
        BY <1>1, <1>7 DEF InOrder
      <4> QED
        BY <1>1, <3>1, <4>1
    <3>2. CASE u # s
      <4>1. phase[u] = "started" /\ point'[u] = point[u]
        BY <1>1, <2>3, <3>2
      <4> QED
        BY <1>7, <4>1 DEF InOrder
    <3> QED
      BY <3>1, <3>2
  <2>4. ASSUME Increasing(start), NEW m \in waiting', phase'[m[1]] # "started",
               IsInjective(ipList'[m[1]])
        PROVE  ipList'[m[1]] = start
    <3>1. m \in waiting /\ m[1] \in Server
      BY <1>1, <2>4
    <3>2. phase[m[1]] # "started" /\ IsInjective(ipList[m[1]])
      BY <1>1, <2>4, <3>1
    <3> QED
      BY <1>1, <1>7, <2>4, <3>1, <3>2 DEF InOrder
  <2>5. ASSUME Increasing(start), NEW u \in Server, phase'[u] = "started",
               IsInjective(ipList[u])
        PROVE  Begins(start, ipList[u]) /\ Numbered(start, u)'
    <3>1. CASE u = s
      BY <1>9, <2>5, <3>1
    <3>2. CASE u # s
      <4>1. phase[u] = "started" /\ index'[u] = index[u] /\ threshold'[u] = threshold[u]
        BY <1>1, <2>5, <3>2
      <4>2. Begins(start, ipList[u]) /\ Numbered(start, u)
        BY <1>7, <1>8, <2>5, <4>1 DEF InOrder
      <4> QED
        BY <4>1, <4>2 DEF Numbered, PointsAt
    <3> QED
      BY <3>1, <3>2
  <2>6. ToSet(start) = Called'
    BY <1>6, <1>7 DEF InOrder
  <2> QED
    BY <1>8, <2>1, <2>2, <2>3, <2>4, <2>5, <2>6 DEF InOrder
<1>11. phase'[Master] \in {"ready", "started"}
  BY <1>1, <1>3 DEF PatientInv, Starts
<1>12. Starts'
  BY <1>3, <1>4, <1>5, <1>6, <1>10, <1>11 DEF Starts
<1> QED
  BY <1>5, <1>12 DEF PatientInv, Arrivals

LEMMA PatientStep ==
  ASSUME AddressInv, PatientInv, Patient, [Next]_vars
  PROVE  PatientInv'
<1>0. Arrivals /\ Starts
  BY DEF PatientInv
<1>1. ASSUME NEW s \in Server, Join(s) PROVE PatientInv'
  BY <1>0, <1>1, JoinArrives, NewcomerStarts DEF PatientInv
<1>2. ASSUME NEW s \in Server, JoinNetwork(s) PROVE PatientInv'
  <2>1. s # Master
    BY <1>0, <1>2 DEF Starts, JoinNetwork
  <2> QED
    BY <1>0, <1>2, <2>1, JoinNetworkArrives, NewcomerStarts DEF PatientInv
<1>3. ASSUME NEW r \in replies, ParticipateInNetwork(r[1], r[2]) PROVE PatientInv'
  BY <1>0, <1>3, ParticipateArrives, NewcomerStarts DEF PatientInv
<1>4. ASSUME NEW m \in BagToSet(posts), NewParticipantInNetwork(m[1], m[2]) PROVE PatientInv'
  BY <1>0, <1>4, NewParticipantArrives, NewcomerStarts DEF PatientInv
<1>5. ASSUME NEW m \in BagToSet(appending), AppendAddress(m[1], m[2], m[3])
      PROVE  PatientInv'
  BY <1>0, <1>5, AppendArrives, NewcomerStarts DEF PatientInv
<1>6. ASSUME NEW m \in BagToSet(flooding), FloodNewParticipant(m[1], m[2])
      PROVE  PatientInv'
  BY <1>0, <1>6, FloodArrives, NewcomerStarts DEF PatientInv
<1>7. CASE SendStartPhaseTwo
  BY <1>7, SendStarts
<1>8. ASSUME NEW m \in signals, ReceiveStartPhaseTwo(m[1], m[2]) PROVE PatientInv'
  BY <1>8, ReceiveStarts
<1>9. ASSUME NEW m \in waiting, StartNetwork(m[1], m[2]) PROVE PatientInv'
  BY <1>9, StartStarts
<1>10. CASE UNCHANGED vars
  <2>1. Arrivals'
    BY <1>0, <1>10
    DEF vars, Arrivals, Quiet, NothingUnderWay, Arriving, OnItsWay, AboutNewcomer,
        Spreading, Others, Joined, Known
  <2>2. \A start : InOrder(start) => InOrder(start)'
    BY <1>10 DEF vars, InOrder, Called, Lists, Numbered, PointsAt
  <2>3. Called' = Called /\ Joined' = Joined /\ StartsUnderWay' = StartsUnderWay
        /\ NotYetCalled' = NotYetCalled /\ Quiet' = Quiet
    BY <1>10 DEF vars, Called, Joined, StartsUnderWay, NotYetCalled, Quiet, NothingUnderWay, Known
  <2>4. Starts'
    BY <1>0, <1>10, <2>2, <2>3 DEF vars, Starts
  <2> QED
    BY <2>1, <2>4 DEF PatientInv
<1> QED
  BY <1>1, <1>2, <1>3, <1>4, <1>5, <1>6, <1>7, <1>8, <1>9, <1>10 DEF Next

LEMMA PatientInit ==
  ASSUME Init
  PROVE  PatientInv
<1>1. Master \in Server
  BY MembershipAssumption
<1>2. Joined = {Master}
  BY <1>1 DEF Init, Joined
<1>3. Known(Master) = {Master}
  BY <1>1, SmallLists DEF Init, Known
<1>4. Quiet
  BY <1>1, <1>2, <1>3, EmptyBagIsEmpty DEF Init, Quiet, NothingUnderWay
<1>5. NotYetCalled /\ Called = {} /\ ~StartsUnderWay /\ phase[Master] = "joining"
  BY <1>1 DEF Init, NotYetCalled, Called, StartsUnderWay
<1> QED
  BY <1>4, <1>5 DEF PatientInv, Arrivals, Starts

LEMMA PatientInvariant ==
  ASSUME Patient
  PROVE  Spec => [](AddressInv /\ PatientInv)
<1>1. AddressInv /\ PatientInv /\ [Next]_vars => PatientInv'
  BY PatientStep
<1>2. Init => PatientInv
  BY PatientInit
<1> QED
  BY <1>1, <1>2, AddressInvariant, PTL DEF Spec

(* When servers are started one after the other, before phase two or when  *)
(* it is on, every server that joined knows all of them as soon as nothing *)
(* is under way, for any number of servers, whatever order the handlers    *)
(* run in and appends they lose.                                           *)
THEOREM EveryoneGetsKnown ==
  ASSUME Patient
  PROVE  Spec => []EveryoneKnown
<1>1. PatientInv => EveryoneKnown
  BY SettledIsQuiet DEF PatientInv, EveryoneKnown, Quiet, Known
<1> QED
  BY <1>1, PatientInvariant, PTL

(* Operators who start a server only when no other is joining and none is  *)
(* between its signal and its start: as long as no list has an address     *)
(* twice, each started server finds each other one at the point of its     *)
(* share, its own index is that point, and its threshold is that of the    *)
(* servers with a share, however many servers come after phase two began.  *)
THEOREM IndexesAgree ==
  ASSUME Patient
  PROVE  Spec => []IndexesMatch
<1>1. AddressInv /\ PatientInv => IndexesMatch
  <2> SUFFICES ASSUME AddressInv, PatientInv, NoAddressTwice,
                      NEW s \in Server, phase[s] = "started",
                      NEW r \in Server, phase[r] = "started"
               PROVE  /\ point[s] = index[s] + 1
                      /\ ipList[r][point[s]] = s
                      /\ threshold[s] = CalculateT(Cardinality(Called))
    BY DEF IndexesMatch
  <2>1. PICK start \in Seq(Server) : InOrder(start)
    BY DEF PatientInv, Starts, NotYetCalled
  <2>2. \A u \in Server : ipList[u] \in Lists(u) /\ IsInjective(ipList[u])
    BY DEF Lists, NoAddressTwice
  <2>3. Increasing(start)
    BY <2>1, <2>2, MembershipAssumption DEF InOrder
  <2>4. Begins(start, ipList[r]) /\ Numbered(start, s) /\ PointsAt(start, s, point[s])
    BY <2>1, <2>2, <2>3 DEF InOrder
  <2>5. IsInjective(start) /\ Cardinality(ToSet(start)) = Len(start)
    BY <2>1, <2>3, IncreasingInjective, MembershipAssumption
  <2>6. point[s] = index[s] + 1
    BY <2>4, <2>5 DEF Numbered, PointsAt, IsInjective
  <2>7. ipList[r][point[s]] = s
    BY <2>4 DEF Begins, PointsAt
  <2> QED
    BY <2>1, <2>4, <2>5, <2>6, <2>7 DEF Numbered, InOrder
<1> QED
  BY <1>1, PatientInvariant, PTL

=============================================================================
