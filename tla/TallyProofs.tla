----------------------------- MODULE TallyProofs ----------------------------
(***************************************************************************)
(* For any votes, servers and moduli, however votes arrive: while the      *)
(* votes a server counted have SecretGen's degree, the sum it keeps        *)
(* matches the proof it keeps and is a share of the sum of the polynomials *)
(* it has counted, and so a result read from servers that have counted the *)
(* same votes is exact.                                                    *)
(***************************************************************************)
EXTENDS Tally, SharingProofs

-----------------------------------------------------------------------------
(* The servers.  What a server keeps has its type and its point, for votes *)
(* of any degree; before the first vote there is no proof, and after votes *)
(* of the usual degree only, it matches.                                   *)

Usual == {v \in Vote : Len(VoteF[v]) = T + 1}

Kept(s) ==
  /\ sum[s] \in ShareAt(s)
  /\ proof[s] \in Seq(Units)
  /\ counted[s] = {} <=> proof[s] = <<>>
  /\ counted[s] # {} /\ counted[s] \subseteq Usual =>
       proof[s] \in Proofs /\ MatchesCommitments(sum[s], proof[s])

Readers == [next : 0 .. Parties + 1,
            shares : SUBSET [Point : Points, S : Field, T : Field],
            mixed : BOOLEAN]

TallyInv ==
  /\ arriving \in [Server -> SUBSET Vote]
  /\ adding \in [Server -> Vote \cup {Nobody}]
  /\ counted \in [Server -> SUBSET Vote]
  /\ DOMAIN sum = Server /\ DOMAIN proof = Server
  /\ \A s \in Server : Kept(s)
  /\ up \subseteq Server
  /\ reader \in Readers
  /\ tallies \in 0 .. MaxReads
  /\ reader.next # 0 => tallies < MaxReads

LEMMA ServersNumbered == Server \subseteq Nat /\ Parties \in Nat
BY Moduli DEF Server, Points

LEMMA PolynomialsTyped ==
  /\ StartF \in [Coefficients -> Field] /\ StartG \in [Coefficients -> Field]
  /\ \A v \in Usual : /\ VoteF[v] \in [Coefficients -> Field]
                       /\ VoteG[v] \in [Coefficients -> Field]
  /\ \A v \in Vote : PointAt[v] \in [Server -> Server]
<1>1. ASSUME NEW v \in Usual
      PROVE  VoteF[v] \in [Coefficients -> Field] /\ VoteG[v] \in [Coefficients -> Field]
  <2> DEFINE f == VoteF[v]
             g == VoteG[v]
  <2>1. f \in Seq(Field) /\ g \in Seq(Field) /\ Len(f) = T + 1 /\ Len(g) = T + 1
    BY TallyAssumption DEF Usual
  <2> HIDE DEF f, g
  <2>2. f \in [1 .. Len(f) -> Field] /\ g \in [1 .. Len(g) -> Field]
    BY <2>1
  <2> QED
    BY <2>1, <2>2 DEF Coefficients, f, g
<1> QED
  BY <1>1, TallyAssumption DEF Coefficients, Server

LEMMA DealtIs ==
  ASSUME NEW v \in Vote, NEW s \in Server, Dealt[v][s].Point = s
  PROVE  /\ Dealt[v][s] \in ShareAt(s)
         /\ DealtProof[v] \in Seq(Units) /\ DealtProof[v] # <<>>
         /\ v \in Usual => /\ DealtProof[v] \in Proofs
                           /\ MatchesCommitments(Dealt[v][s], DealtProof[v])
<1>1. PointAt[v][s] \in Nat
  BY PolynomialsTyped, ServersNumbered
<1>2. /\ Dealt[v][s] = Share(PointAt[v][s], VoteF[v], VoteG[v])
      /\ DealtProof[v] = Commitments(VoteF[v], VoteG[v])
  BY DEF Dealt, DealtProof
<1>3. PointAt[v][s] = s
  BY <1>2 DEF Share
<1>4. /\ Dealt[v][s] \in ShareAt(s)
      /\ DealtProof[v] \in Seq(Units) /\ DealtProof[v] # <<>>
  <2> DEFINE f == VoteF[v]
             g == VoteG[v]
             n == Len(f)
             c == Commitments(f, g)
  <2>1. /\ f \in Seq(Field) /\ g \in Seq(Field) /\ f # <<>>
        /\ Len(f) = Len(g)
    BY TallyAssumption
  <2> HIDE DEF f, g
  <2>2. /\ n \in Nat /\ n # 0
        /\ f \in [1 .. n -> Field] /\ g \in [1 .. n -> Field]
    BY <2>1
  <2> HIDE DEF n
  <2>3. Share(s, f, g) \in ShareAt(s) /\ c \in [1 .. n -> Units]
    BY <1>1, <1>3, <2>2, DealtIsTypedOn
  <2> HIDE DEF c
  <2>4. c \in Seq(Units) /\ c # <<>>
    BY <2>2, <2>3
  <2> QED
    BY <1>2, <1>3, <2>3, <2>4 DEF c, f, g
<1>5. ASSUME v \in Usual
      PROVE  /\ DealtProof[v] \in Proofs
             /\ MatchesCommitments(Dealt[v][s], DealtProof[v])
  BY <1>1, <1>2, <1>3, <1>5, PolynomialsTyped, DealtIsTyped, DealtShareMatches
<1> QED
  BY <1>4, <1>5

(* Add that does not panic, for proofs of any length. *)
LEMMA SumIsTyped ==
  ASSUME NEW x \in Nat, NEW a \in ShareAt(x), NEW b \in ShareAt(x),
         NEW c \in Seq(Units), NEW d \in Seq(Units), c # <<>>,
         ~ AddPanics(a, b, c, d)
  PROVE  /\ Add(a, b, c, d).share \in ShareAt(x)
         /\ Add(a, b, c, d).proof \in Seq(Units)
         /\ Add(a, b, c, d).proof # <<>>
<1>1. CASE d = <<>>
  BY <1>1 DEF Add
<1>2. CASE d # <<>>
  <2> DEFINE n == Len(c)
             e == [i \in 1 .. n |-> Times(c[i], d[i], PrimeP)]
             s == (a.S + b.S) % PrimeQ
             t == (a.T + b.T) % PrimeQ
             sh == [a EXCEPT !.S = s, !.T = t]
  <2>1. n \in Nat /\ n # 0 /\ n <= Len(d) /\ DOMAIN c = 1 .. n
    BY <1>2 DEF AddPanics
  <2>2. /\ Add(a, b, c, d).share = sh
        /\ Add(a, b, c, d).proof = e
    BY <1>2, <2>1 DEF Add, Times, ShareAt
  <2>3. s \in Field /\ t \in Field
    <3> DEFINE k == a.S
               l == a.T
               m == b.S
               o == b.T
    <3>1. k \in Nat /\ l \in Nat /\ m \in Nat /\ o \in Nat
      BY Moduli DEF ShareAt
    <3> HIDE DEF k, l, m, o
    <3>2. (k + m) % PrimeQ \in Field /\ (l + o) % PrimeQ \in Field
      BY <3>1, CommittedSum
    <3> QED
      BY <3>2 DEF k, l, m, o
  <2>4. sh \in ShareAt(x)
    <3> HIDE DEF s, t
    <3> QED
      BY <2>3 DEF ShareAt
  <2>5. ASSUME NEW i \in 1 .. n PROVE e[i] \in Units
    <3>1. c[i] \in Units /\ d[i] \in Units
      BY <2>1
    <3> QED
      BY <3>1, UnitsMultiply
  <2> HIDE DEF n, sh
  <2>6. e \in [1 .. n -> Units]
    BY <2>5
  <2> HIDE DEF e
  <2>7. e \in Seq(Units) /\ e # <<>>
    BY <2>1, <2>6
  <2> QED
    BY <2>2, <2>4, <2>7
<1> QED
  BY <1>1, <1>2

LEMMA TallyInitially == Init => TallyInv
<1> SUFFICES ASSUME Init PROVE TallyInv
  OBVIOUS
<1>1. /\ arriving \in [Server -> SUBSET Vote]
      /\ adding \in [Server -> Vote \cup {Nobody}]
      /\ counted \in [Server -> SUBSET Vote]
      /\ DOMAIN sum = Server /\ DOMAIN proof = Server
      /\ up \subseteq Server
  BY DEF Init
<1>2. reader \in Readers /\ tallies \in 0 .. MaxReads /\ reader.next = 0
  BY ServersNumbered DEF Init, Idle, Readers, MaxReads
<1>3. ASSUME NEW s \in Server PROVE Kept(s)
  <2>1. Share(s, StartF, StartG) \in ShareAt(s)
    BY PolynomialsTyped, ServersNumbered, DealtIsTyped
  <2>2. sum[s] = Share(s, StartF, StartG) /\ proof[s] = <<>> /\ counted[s] = {}
    BY DEF Init
  <2>3. <<>> \in Seq(Units)
    OBVIOUS
  <2> QED
    BY <2>1, <2>2, <2>3 DEF Kept
<1> QED
  BY <1>1, <1>2, <1>3 DEF TallyInv

LEMMA TallyStep == TallyInv /\ [Next]_vars => TallyInv'
<1> SUFFICES ASSUME TallyInv, [Next]_vars PROVE TallyInv'
  OBVIOUS
<1>u. (UNCHANGED <<sum, proof, counted>>) => \A s \in Server : Kept(s)'
  BY DEF TallyInv, Kept, Usual
<1>1. ASSUME NEW s \in Server, NEW v \in Vote, NewShareArrived(s, v)
      PROVE  TallyInv'
  BY <1>1, <1>u DEF NewShareArrived, TallyInv
<1>2. ASSUME NEW s \in Server, AddShare(s)
      PROVE  TallyInv'
  <2> DEFINE v   == adding[s]
             res == Add(Dealt[v][s], sum[s], DealtProof[v], proof[s])
  <2>1. v \in Vote
    BY <1>2 DEF AddShare, TallyInv
  <2>12. ~ AddPanics(Dealt[v][s], sum[s], DealtProof[v], proof[s])
    BY <1>2 DEF AddShare
  <2>2. Dealt[v][s].Point = s
    BY <2>12 DEF AddPanics, TallyInv, Kept, ShareAt
  <2>10. Kept(s) /\ s \in Nat
    BY ServersNumbered DEF TallyInv
  <2>3. /\ Dealt[v][s] \in ShareAt(s)
        /\ DealtProof[v] \in Seq(Units) /\ DealtProof[v] # <<>>
        /\ v \in Usual => /\ DealtProof[v] \in Proofs
                          /\ MatchesCommitments(Dealt[v][s], DealtProof[v])
    BY <2>1, <2>2, DealtIs
  <2>4. /\ res.share \in ShareAt(s)
        /\ res.proof \in Seq(Units) /\ res.proof # <<>>
    <3>1. sum[s] \in ShareAt(s) /\ proof[s] \in Seq(Units)
      BY <2>10 DEF Kept
    <3> QED
      BY <2>12, <2>10, <2>3, <3>1, SumIsTyped
  <2>11. ASSUME v \in Usual, counted[s] \subseteq Usual
        PROVE  res.proof \in Proofs /\ MatchesCommitments(res.share, res.proof)
    <3>1. CASE proof[s] = <<>>
      BY <2>11, <2>3, <3>1 DEF Add
    <3>2. CASE proof[s] # <<>>
      <4>1. /\ sum[s] \in ShareAt(s) /\ proof[s] \in Proofs
            /\ MatchesCommitments(sum[s], proof[s])
        BY <2>10, <2>11, <3>2 DEF Kept
      <4> QED
        BY <2>10, <2>11, <2>3, <4>1, SumOfMatchingMatches
    <3> QED
      BY <3>1, <3>2
  <2>5. /\ sum' = [sum EXCEPT ![s] = res.share]
        /\ proof' = [proof EXCEPT ![s] = res.proof]
        /\ counted' = [counted EXCEPT ![s] = @ \cup {v}]
        /\ adding' = [adding EXCEPT ![s] = Nobody]
        /\ reader' = IF Reading THEN Mixed(reader.next) ELSE reader
        /\ UNCHANGED <<arriving, up, tallies>>
    BY <1>2 DEF AddShare
  <2> HIDE DEF res, v
  <2>6. ASSUME NEW r \in Server PROVE Kept(r)'
    <3>1. CASE r = s
      <4>1. /\ sum'[s] = res.share /\ proof'[s] = res.proof
            /\ counted'[s] = counted[s] \cup {v}
        BY <2>5 DEF TallyInv
      <4> QED
        BY <2>4, <2>11, <3>1, <4>1 DEF Kept, Usual
    <3>2. CASE r # s
      <4>1. sum'[r] = sum[r] /\ proof'[r] = proof[r] /\ counted'[r] = counted[r]
        BY <2>5, <3>2 DEF TallyInv
      <4> QED
        BY <4>1 DEF Kept, TallyInv
    <3> QED
      BY <3>1, <3>2
  <2>7. reader' \in Readers /\ reader'.next = reader.next
    <3>1. reader \in Readers
      BY DEF TallyInv
    <3>2. /\ Mixed(reader.next) \in Readers
          /\ Mixed(reader.next).next = reader.next
      BY <3>1 DEF Mixed, Readers
    <3> QED
      BY <2>5, <3>1, <3>2
  <2>8. /\ counted' \in [Server -> SUBSET Vote]
        /\ adding' \in [Server -> Vote \cup {Nobody}]
        /\ DOMAIN sum' = Server /\ DOMAIN proof' = Server
    BY <2>1, <2>5 DEF TallyInv
  <2>9. /\ arriving' \in [Server -> SUBSET Vote]
        /\ up' \subseteq Server /\ tallies' \in 0 .. MaxReads
        /\ reader.next # 0 => tallies' < MaxReads
    BY <2>5 DEF TallyInv
  <2> QED
    BY <2>6, <2>7, <2>8, <2>9 DEF TallyInv
<1>3. ASSUME NEW s \in Server, AddSharePanics(s)
      PROVE  TallyInv'
  BY <1>3, <1>u DEF AddSharePanics, TallyInv
<1>r. ASSUME UNCHANGED <<arriving, adding, counted, sum, proof, up>>,
             reader' \in Readers, tallies' \in 0 .. MaxReads,
             reader'.next # 0 => tallies' < MaxReads
      PROVE  TallyInv'
  BY <1>r, <1>u DEF TallyInv
<1>4. ASSUME StartReading PROVE TallyInv'
  <2>1. reader' \in Readers
    <3>1. Idle \in Readers
      BY ServersNumbered DEF Idle, Readers
    <3>2. [Idle EXCEPT !.next = 1] \in Readers
      BY <3>1, ServersNumbered DEF Readers
    <3> QED
      BY <1>4, <3>1, <3>2 DEF StartReading
  <2> QED
    BY <1>4, <1>r, <2>1 DEF StartReading, Idle, TallyInv
<1>5. ASSUME ReadShare PROVE TallyInv'
  <2> DEFINE n == reader.next
  <2>1. n \in Server /\ n + 1 \in 0 .. Parties + 1 /\ n # 0
    BY <1>5, ServersNumbered DEF ReadShare, AsksNext, Server, Points
  <2>2. sum[n] \in [Point : Points, S : Field, T : Field]
    BY <2>1 DEF TallyInv, Kept, ShareAt, Server
  <2>3. reader' \in Readers
    <3>1. \/ reader' = Mixed(n + 1)
          \/ reader' = [reader EXCEPT !.next = @ + 1,
                                      !.shares = @ \cup {sum[n]}]
      BY <1>5 DEF ReadShare
    <3>2. Mixed(n + 1) \in Readers
      BY <2>1 DEF Mixed, Readers
    <3>3. [reader EXCEPT !.next = @ + 1, !.shares = @ \cup {sum[n]}] \in Readers
      BY <2>1, <2>2 DEF TallyInv, Readers
    <3> QED
      BY <3>1, <3>2, <3>3
  <2>4. /\ n # 0
        /\ UNCHANGED <<arriving, adding, counted, sum, proof, up, tallies>>
    BY <1>5, <2>1 DEF ReadShare
  <2>5. tallies' \in 0 .. MaxReads /\ tallies' < MaxReads
    BY <2>4 DEF TallyInv
  <2> QED
    BY <1>r, <2>3, <2>4, <2>5
<1>6. ASSUME ReadFails PROVE TallyInv'
  <2>1. reader' \in Readers /\ tallies' \in 0 .. MaxReads /\ reader'.next = 0
    BY <1>6, ServersNumbered DEF ReadFails, Idle, Readers, MaxReads
  <2> QED
    BY <1>6, <1>r, <2>1 DEF ReadFails
<1>7. ASSUME PrintResult PROVE TallyInv'
  <2>1. reader' \in Readers /\ reader'.next = 0
    BY <1>7, ServersNumbered DEF PrintResult, Idle, Readers
  <2>2. tallies' \in 0 .. MaxReads
    BY <1>7, ServersNumbered DEF PrintResult, TallyInv, MaxReads
  <2> QED
    BY <1>7, <1>r, <2>1, <2>2 DEF PrintResult
<1>8. CASE UNCHANGED vars
  BY <1>8, <1>u DEF vars, TallyInv
<1> QED
  BY <1>1, <1>2, <1>3, <1>4, <1>5, <1>6, <1>7, <1>8 DEF Next

(* The variables of the tally keep their types. *)
THEOREM TallyTyped == Spec => []TypeOK
<1>1. TallyInv => TypeOK
  <2> SUFFICES ASSUME TallyInv PROVE TypeOK
    OBVIOUS
  <2>1. \A s \in Server : sum[s] \in [Point : {s}, S : Field, T : Field]
    BY DEF TallyInv, Kept, ShareAt
  <2>2. ASSUME NEW s \in Server PROVE proof[s] \in Seq(1 .. PrimeP - 1)
    <3> DEFINE c == proof[s]
               n == Len(c)
               A == 1 .. PrimeP - 1
    <3>1. c \in Seq(Units)
      BY DEF TallyInv, Kept
    <3> HIDE DEF c
    <3>2. n \in Nat /\ c \in [1 .. n -> Units] /\ Units \subseteq A
      BY <3>1, UnitsNotZero
    <3> HIDE DEF n, A
    <3>3. c \in [1 .. n -> A]
      BY <3>2
    <3>4. c \in Seq(A)
      BY <3>2, <3>3
    <3> QED
      BY <3>4 DEF c, A
  <2>3. reader.next \in 0 .. Parties + 1
    BY DEF TallyInv, Readers
  <2> QED
    BY <2>1, <2>2, <2>3 DEF TallyInv, TypeOK
<1> QED
  BY <1>1, TallyInitially, TallyStep, PTL DEF Spec

(* After its first vote, and as long as the votes it counted were dealt    *)
(* with as many coefficients as SecretGen draws for this number of         *)
(* servers, the share a server keeps verifies against the proof it keeps:  *)
(* addShare adds them in step, in any order of the votes, for any such     *)
(* polynomials, any number of servers and any moduli with two bases of     *)
(* order PrimeQ, whatever votes of other lengths reach other servers.      *)
THEOREM SumsVerify == Spec => []SumMatchesProof
<1>1. TallyInv => SumMatchesProof
  <2>1. ASSUME TallyInv, NEW s \in Server, UsualDegree(counted[s])
        PROVE  counted[s] \subseteq Usual
    BY <2>1 DEF TallyInv, UsualDegree, Usual
  <2> QED
    BY <2>1 DEF TallyInv, Kept, SumMatchesProof
<1> QED
  BY <1>1, TallyInitially, TallyStep, PTL DEF Spec
-----------------------------------------------------------------------------
(* What the sums are sums of.  A server adds an id once, so after votes of *)
(* the usual degree the S of its share is the value at its point of the sum of the counted polynomials;  *)
(* before the first vote it is that of the start secret.                   *)

Total(C) ==
  IF C = {} THEN StartF
  ELSE [i \in Coefficients |-> SumFunction([v \in C |-> VoteF[v][i]]) % PrimeQ]

Fresh(s) ==
  /\ arriving[s] \cap counted[s] = {}
  /\ adding[s] \notin arriving[s] \cup counted[s]

Sums(s) ==
  /\ IsFiniteSet(counted[s])
  /\ counted[s] \subseteq Usual => sum[s].S = Polynomial(s, Total(counted[s]))

ReadSoFar ==
  reader.next # 0 /\ ~ reader.mixed =>
    reader.shares = {sum[r] : r \in 1 .. reader.next - 1}

ExactInv ==
  /\ TallyInv
  /\ \A s \in Server : Fresh(s) /\ Sums(s)
  /\ ReadSoFar

LEMMA CoefficientSums ==
  ASSUME NEW C \in SUBSET Usual, IsFiniteSet(C), NEW i \in Coefficients
  PROVE  /\ SumFunction([v \in C |-> VoteF[v][i]]) \in Nat
         /\ C = {} => SumFunction([v \in C |-> VoteF[v][i]]) = 0
         /\ \A v \in Usual \ C :
              SumFunction([u \in C \cup {v} |-> VoteF[u][i]]) =
                VoteF[v][i] + SumFunction([u \in C |-> VoteF[u][i]])
<1>1. \A v \in Usual : VoteF[v][i] \in Nat
  BY PolynomialsTyped, Moduli
<1> DEFINE f(D) == [v \in D |-> VoteF[v][i]]
<1>2. f(C) \in [C -> Nat]
  BY <1>1
<1>3. Part(f(C), C) = f(C)
  BY DEF Part
<1>4. SumFunction(f(C)) = SumOn(f(C), C)
  BY <1>3 DEF SumOn
<1>5. SumFunction(f(C)) \in Nat
  <2> DEFINE g == f(C)
  <2> HIDE DEF g
  <2>1. SumOn(g, C) \in Nat
    BY <1>2, SumOnWithout DEF g
  <2> QED
    BY <1>4, <2>1 DEF g
<1>6. C = {} => SumFunction(f(C)) = 0
  BY <1>4, SumOnNothing
<1>7. ASSUME NEW v \in Usual \ C
      PROVE  SumFunction(f(C \cup {v})) = VoteF[v][i] + SumFunction(f(C))
  <2> DEFINE D == C \cup {v}
             g == f(D)
  <2>1. IsFiniteSet(D) /\ v \in D
    BY FS_AddElement
  <2>2. g \in [D -> Nat] /\ g[v] = VoteF[v][i]
    BY <1>1
  <2>3. Part(g, D) = g /\ Part(g, D \ {v}) = f(C)
    <3>1. D \ {v} = C
      OBVIOUS
    <3> QED
      BY <3>1 DEF Part
  <2> HIDE DEF D, g
  <2>4. SumOn(g, D) = g[v] + SumOn(g, D \ {v})
    BY <2>1, <2>2, SumOnWithout
  <2>5. SumFunction(g) = SumOn(g, D) /\ SumFunction(f(C)) = SumOn(g, D \ {v})
    BY <2>3 DEF SumOn
  <2> QED
    BY <2>2, <2>4, <2>5 DEF g, D
<1> QED
  BY <1>5, <1>6, <1>7

LEMMA TotalIs ==
  ASSUME NEW C \in SUBSET Usual, IsFiniteSet(C)
  PROVE  /\ Total(C) \in [Coefficients -> Field]
         /\ Total(C)[1] = SumFunction([v \in C |-> VoteF[v][1]]) % PrimeQ
<1>1. 1 \in Coefficients
  BY Moduli DEF Coefficients
<1>2. CASE C = {}
  <2>1. StartF[1] = 0 /\ StartF \in [Coefficients -> Field] /\ Total(C) = StartF
    BY <1>2, PolynomialsTyped, TallyAssumption DEF Total
  <2>2. SumFunction([v \in C |-> VoteF[v][1]]) = 0
    BY <1>1, <1>2, CoefficientSums
  <2>3. 0 % PrimeQ = 0
    BY PointsAre
  <2> QED
    BY <2>1, <2>2, <2>3
<1>3. CASE C # {}
  <2> DEFINE t(i) == SumFunction([v \in C |-> VoteF[v][i]])
  <2>1. Total(C) = [i \in Coefficients |-> t(i) % PrimeQ]
    BY <1>3 DEF Total
  <2>2. ASSUME NEW i \in Coefficients PROVE t(i) % PrimeQ \in Field
    <3>1. t(i) \in Nat
      BY CoefficientSums
    <3> HIDE DEF t
    <3> QED
      BY <3>1, SameRemainder
  <2> HIDE DEF t
  <2>3. Total(C) \in [Coefficients -> Field]
    BY <2>1, <2>2
  <2>4. Total(C)[1] = t(1) % PrimeQ
    BY <1>1, <2>1
  <2> QED
    BY <2>3, <2>4 DEF t
<1> QED
  BY <1>2, <1>3

(* One vote more. *)
LEMMA TotalAdds ==
  ASSUME NEW C \in SUBSET Usual, IsFiniteSet(C), NEW v \in Usual \ C,
         NEW x \in Points
  PROVE  Polynomial(x, Total(C \cup {v})) =
           IF C = {} THEN Polynomial(x, VoteF[v])
           ELSE (Polynomial(x, VoteF[v]) + Polynomial(x, Total(C))) % PrimeQ
<1> DEFINE D == C \cup {v}
           t(i) == SumFunction([u \in C |-> VoteF[u][i]])
<1>1. IsFiniteSet(D) /\ D \in SUBSET Usual /\ D # {}
  BY FS_AddElement
<1>2. Total(D) \in [Coefficients -> Field]
  <2> HIDE DEF D
  <2> QED
    BY <1>1, TotalIs
<1>3. VoteF[v] \in [Coefficients -> Field]
  BY PolynomialsTyped
<1>4. ASSUME NEW i \in Coefficients
      PROVE  /\ t(i) \in Nat /\ VoteF[v][i] \in Field /\ VoteF[v][i] \in Nat
             /\ C = {} => t(i) = 0
             /\ Total(D)[i] = (VoteF[v][i] + t(i)) % PrimeQ
  <2>1. Total(D)[i] = SumFunction([u \in C \cup {v} |-> VoteF[u][i]]) % PrimeQ
    BY <1>1 DEF Total
  <2>2. SumFunction([u \in C \cup {v} |-> VoteF[u][i]]) = VoteF[v][i] + t(i)
    BY CoefficientSums
  <2>3. t(i) \in Nat /\ (C = {} => t(i) = 0)
    BY CoefficientSums
  <2>4. VoteF[v][i] \in Field /\ VoteF[v][i] \in Nat
    BY <1>3, Moduli
  <2> QED
    BY <2>1, <2>2, <2>3, <2>4
<1>5. CASE C = {}
  <2>1. ASSUME NEW i \in Coefficients PROVE Total(D)[i] = VoteF[v][i]
    <3> DEFINE a == VoteF[v][i]
    <3> HIDE DEF D, t
    <3>0. a \in Field /\ a \in Nat /\ Total(D)[i] = (a + 0) % PrimeQ
      BY <1>4, <1>5
    <3> HIDE DEF a
    <3>1. a \in Field /\ a + 0 = a /\ Total(D)[i] = (a + 0) % PrimeQ
      BY <3>0
    <3>2. a % PrimeQ = a
      BY <3>1, FieldIsItsRemainder
    <3> QED
      BY <3>1, <3>2 DEF a
  <2> HIDE DEF D
  <2>2. Total(D) = VoteF[v]
    BY <1>2, <1>3, <2>1
  <2> QED
    BY <1>5, <2>2 DEF D
<1>6. CASE C # {}
  <2>1. Total(C) \in [Coefficients -> Field]
    BY TotalIs
  <2>2. ASSUME NEW i \in Coefficients
        PROVE  Same(Total(D)[i], VoteF[v][i] + Total(C)[i])
    <3>1. Total(C)[i] = t(i) % PrimeQ
      BY <1>6 DEF Total
    <3> DEFINE a == VoteF[v][i]
               b == t(i)
               r == b % PrimeQ
    <3>2. a \in Nat /\ b \in Nat /\ Total(D)[i] = (a + b) % PrimeQ
      BY <1>4
    <3> HIDE DEF a, b, t, D
    <3>3. a + b \in Int
      BY <3>2
    <3>4. Same((a + b) % PrimeQ, a + b)
      <4> DEFINE ab == a + b
      <4> HIDE DEF ab
      <4>1. Same(ab % PrimeQ, ab)
        BY <3>3, SameRemainder DEF ab
      <4> QED
        BY <4>1 DEF ab
    <3>5. Same(a + r, a + b)
      <4>1. r \in Int /\ Same(r, b) /\ Same(a, a)
        BY <3>2, SameRemainder DEF Same
      <4> HIDE DEF r
      <4> QED
        BY <3>2, <4>1, SameSums
    <3> QED
      BY <3>1, <3>2, <3>4, <3>5 DEF Same, a, b
  <2> DEFINE h == Total(D)
             f == VoteF[v]
             g == Total(C)
  <2>3. /\ h \in [Coefficients -> Field] /\ f \in [Coefficients -> Field]
        /\ g \in [Coefficients -> Field]
        /\ \A k \in Coefficients : Same(h[k], f[k] + g[k])
    BY <1>2, <1>3, <2>1, <2>2
  <2> HIDE DEF f, g, h
  <2>4. Polynomial(x, h) = (Polynomial(x, f) + Polynomial(x, g)) % PrimeQ
    BY <2>3, PolynomialsAdd
  <2> QED
    BY <1>6, <2>4 DEF f, g, h
<1> QED
  BY <1>5, <1>6

LEMMA ExactInitially == Init => ExactInv
<1> SUFFICES ASSUME Init PROVE ExactInv
  OBVIOUS
<1>1. TallyInv
  BY TallyInitially
<1>2. ASSUME NEW s \in Server PROVE Fresh(s) /\ Sums(s)
  <2>1. arriving[s] \in SUBSET Vote /\ adding[s] = Nobody /\ counted[s] = {}
    BY DEF Init
  <2>2. Fresh(s)
    BY <2>1, TallyAssumption DEF Fresh
  <2>3. sum[s].S = Polynomial(s, Total({}))
    BY DEF Init, Share, Total
  <2> QED
    BY <2>1, <2>2, <2>3, FS_EmptySet DEF Sums
<1>3. ReadSoFar
  BY DEF Init, Idle, ReadSoFar
<1> QED
  BY <1>1, <1>2, <1>3 DEF ExactInv

LEMMA ExactStep == ExactInv /\ [Next]_vars => ExactInv'
<1> SUFFICES ASSUME ExactInv, [Next]_vars PROVE ExactInv'
  OBVIOUS
<1>0. TallyInv /\ TallyInv'
  BY TallyStep DEF ExactInv
<1>s. (UNCHANGED <<sum, counted>>) => \A r \in Server : Sums(r)'
  BY DEF ExactInv, Sums, Usual
<1>f. (UNCHANGED <<arriving, adding, counted>>) => \A r \in Server : Fresh(r)'
  BY DEF ExactInv, Fresh
<1>r. (UNCHANGED <<sum, reader>>) => ReadSoFar'
  BY DEF ExactInv, ReadSoFar
<1>1. ASSUME NEW s \in Server, NEW v \in Vote, NewShareArrived(s, v)
      PROVE  ExactInv'
  <2>1. ASSUME NEW r \in Server PROVE Fresh(r)'
    <3>1. /\ v \in arriving[s] /\ counted' = counted
          /\ arriving' = [arriving EXCEPT ![s] = @ \ {v}]
          /\ adding' = [adding EXCEPT ![s] = v]
      BY <1>1 DEF NewShareArrived
    <3>2. Fresh(r) /\ Fresh(s)
      BY DEF ExactInv
    <3>3. CASE r = s
      <4>1. arriving'[s] = arriving[s] \ {v} /\ adding'[s] = v
        BY <1>0, <3>1 DEF TallyInv
      <4> QED
        BY <3>1, <3>2, <3>3, <4>1 DEF Fresh
    <3>4. CASE r # s
      <4>1. arriving'[r] = arriving[r] /\ adding'[r] = adding[r]
        BY <1>0, <3>1, <3>4 DEF TallyInv
      <4> QED
        BY <3>1, <3>2, <4>1 DEF Fresh
    <3> QED
      BY <3>3, <3>4
  <2>2. UNCHANGED <<sum, counted, reader>>
    BY <1>1 DEF NewShareArrived
  <2> QED
    BY <1>0, <1>s, <1>r, <2>1, <2>2 DEF ExactInv
<1>2. ASSUME NEW s \in Server, AddShare(s)
      PROVE  ExactInv'
  <2> DEFINE v   == adding[s]
             res == Add(Dealt[v][s], sum[s], DealtProof[v], proof[s])
             C   == counted[s]
  <2>1. /\ v \in Vote /\ v \notin C /\ v \notin arriving[s]
        /\ Fresh(s) /\ Sums(s) /\ Kept(s) /\ C \in SUBSET Vote
    BY <1>2 DEF AddShare, ExactInv, TallyInv, Fresh
  <2>12. ~ AddPanics(Dealt[v][s], sum[s], DealtProof[v], proof[s])
    BY <1>2 DEF AddShare
  <2>2. Dealt[v][s].Point = s
    BY <2>1, <2>12 DEF AddPanics, Kept, ShareAt
  <2>3. /\ Dealt[v][s].S = Polynomial(s, VoteF[v])
        /\ Dealt[v][s] \in ShareAt(s)
    <3>1. Dealt[v][s] = Share(PointAt[v][s], VoteF[v], VoteG[v])
      BY <2>1 DEF Dealt
    <3>2. PointAt[v][s] = s
      BY <2>2, <3>1 DEF Share
    <3>3. Dealt[v][s] \in ShareAt(s)
      BY <2>1, <2>2, DealtIs
    <3> QED
      BY <3>1, <3>2, <3>3 DEF Share
  <2>4. res.share.S = IF C = {} THEN Dealt[v][s].S
                      ELSE (Dealt[v][s].S + sum[s].S) % PrimeQ
    <3>1. CASE C = {}
      <4>1. proof[s] = <<>>
        BY <2>1, <3>1 DEF Kept
      <4> QED
        BY <3>1, <4>1 DEF Add
    <3>2. CASE C # {}
      <4>1. proof[s] # <<>>
        BY <2>1, <3>2 DEF Kept
      <4>2. res.share = [Dealt[v][s] EXCEPT !.S = (@ + sum[s].S) % PrimeQ,
                                            !.T = (@ + sum[s].T) % PrimeQ]
        BY <4>1 DEF Add
      <4> HIDE DEF res
      <4> QED
        BY <2>3, <3>2, <4>2 DEF ShareAt
    <3> QED
      BY <3>1, <3>2
  <2>5. ASSUME C \cup {v} \subseteq Usual
        PROVE  res.share.S = Polynomial(s, Total(C \cup {v}))
    <3>1. Polynomial(s, Total(C \cup {v})) =
            IF C = {} THEN Polynomial(s, VoteF[v])
            ELSE (Polynomial(s, VoteF[v]) + Polynomial(s, Total(C))) % PrimeQ
      BY <2>1, <2>5, TotalAdds DEF Sums, Server
    <3>2. sum[s].S = Polynomial(s, Total(C))
      BY <2>1, <2>5 DEF Sums
    <3> HIDE DEF res, C, v
    <3> QED
      BY <2>3, <2>4, <3>1, <3>2
  <2>6. /\ sum' = [sum EXCEPT ![s] = res.share]
        /\ counted' = [counted EXCEPT ![s] = @ \cup {v}]
        /\ adding' = [adding EXCEPT ![s] = Nobody]
        /\ reader' = IF Reading THEN Mixed(reader.next) ELSE reader
        /\ UNCHANGED arriving
    BY <1>2 DEF AddShare
  <2> HIDE DEF res, v
  <2>7. ASSUME NEW r \in Server PROVE Fresh(r)' /\ Sums(r)'
    <3>1. CASE r = s
      <4>1. /\ sum'[s] = res.share /\ counted'[s] = C \cup {v}
            /\ adding'[s] = Nobody /\ arriving'[s] = arriving[s]
        BY <1>0, <2>6 DEF TallyInv
      <4>2. IsFiniteSet(C \cup {v})
        BY <2>1, FS_AddElement DEF Sums
      <4>3. Sums(s)'
        BY <2>5, <4>1, <4>2 DEF Sums, Total, Usual
      <4>4. Fresh(s)'
        <5>1. arriving[s] \in SUBSET Vote
          BY <1>0 DEF TallyInv
        <5> QED
          BY <2>1, <4>1, <5>1, TallyAssumption DEF Fresh
      <4> QED
        BY <3>1, <4>3, <4>4
    <3>2. CASE r # s
      <4>1. /\ sum'[r] = sum[r] /\ counted'[r] = counted[r]
            /\ adding'[r] = adding[r] /\ arriving'[r] = arriving[r]
        BY <1>0, <2>6, <3>2 DEF TallyInv
      <4>2. Fresh(r) /\ Sums(r)
        BY DEF ExactInv
      <4> QED
        BY <4>1, <4>2 DEF Fresh, Sums, Total, Usual
    <3> QED
      BY <3>1, <3>2
  <2>8. ReadSoFar'
    <3>1. CASE Reading
      BY <2>6, <3>1 DEF ReadSoFar, Mixed
    <3>2. CASE ~ Reading
      <4>1. reader.next \in 0 .. Parties + 1
        BY <1>0 DEF TallyInv, Readers
      <4>2. reader.next = 0
        BY <3>2, <4>1, ServersNumbered DEF Reading
      <4> QED
        BY <2>6, <3>2, <4>2 DEF ReadSoFar
    <3> QED
      BY <3>1, <3>2
  <2> QED
    BY <1>0, <2>7, <2>8 DEF ExactInv
<1>3. ASSUME NEW s \in Server, AddSharePanics(s)
      PROVE  ExactInv'
  BY <1>0, <1>3, <1>s, <1>f, <1>r DEF AddSharePanics, ExactInv
<1>u. ASSUME UNCHANGED <<arriving, adding, counted, sum>>, ReadSoFar'
      PROVE  ExactInv'
  BY <1>0, <1>s, <1>f, <1>u DEF ExactInv
<1>4. ASSUME StartReading PROVE ExactInv'
  <2>1. reader'.next = 1 /\ reader'.shares = {}
    BY <1>4 DEF StartReading, Idle
  <2>2. 1 .. 1 - 1 = {}
    OBVIOUS
  <2>3. ReadSoFar'
    BY <2>1, <2>2 DEF ReadSoFar
  <2> QED
    BY <1>4, <1>u, <2>3 DEF StartReading
<1>5. ASSUME ReadShare PROVE ExactInv'
  <2> DEFINE n == reader.next
  <2>1. n \in Server /\ n \in Nat /\ n # 0 /\ UNCHANGED <<arriving, adding, counted, sum>>
    BY <1>5, ServersNumbered DEF ReadShare, AsksNext, Server, Points
  <2>2. ReadSoFar'
    <3>1. CASE reader' = Mixed(n + 1)
      BY <3>1 DEF Mixed, ReadSoFar
    <3>2. CASE /\ ~ reader.mixed
               /\ reader' = [reader EXCEPT !.next = @ + 1,
                                           !.shares = @ \cup {sum[n]}]
      <4>1. reader.shares = {sum[r] : r \in 1 .. n - 1}
        BY <2>1, <3>2 DEF ExactInv, ReadSoFar
      <4>2. /\ reader'.next = n + 1
            /\ reader'.shares = reader.shares \cup {sum[n]}
        <5>1. reader \in Readers
          BY <1>0 DEF TallyInv
        <5> QED
          BY <3>2, <5>1 DEF Readers
      <4>3. 1 .. (n + 1) - 1 = (1 .. n - 1) \cup {n}
        BY <2>1
      <4>4. reader'.shares = {sum[r] : r \in 1 .. (n + 1) - 1}
        <5> HIDE DEF n
        <5> QED
          BY <4>1, <4>2, <4>3
      <4> QED
        BY <2>1, <4>2, <4>4 DEF ReadSoFar
    <3> QED
      BY <1>5, <3>1, <3>2 DEF ReadShare
  <2> QED
    BY <1>u, <2>1, <2>2
<1>6. ASSUME ReadFails PROVE ExactInv'
  <2>1. ReadSoFar'
    BY <1>6 DEF ReadFails, Idle, ReadSoFar
  <2> QED
    BY <1>6, <1>u, <2>1 DEF ReadFails
<1>7. ASSUME PrintResult PROVE ExactInv'
  <2>1. ReadSoFar'
    BY <1>7 DEF PrintResult, Idle, ReadSoFar
  <2> QED
    BY <1>7, <1>u, <2>1 DEF PrintResult
<1>8. CASE UNCHANGED vars
  BY <1>0, <1>8, <1>s, <1>f, <1>r DEF vars, ExactInv
<1> QED
  BY <1>1, <1>2, <1>3, <1>4, <1>5, <1>6, <1>7, <1>8 DEF Next

(* A result that a client reads while all servers hold the same votes,     *)
(* dealt with SecretGen's degree for this number of servers, is the number *)
(* of votes for 1 among them modulo PrimeQ, in whatever order each server  *)
(* added them, for any such polynomials and number of servers.             *)
THEOREM ResultsExact == Spec => []StillReadExact
<1>1. ExactInv => StillReadExact
  <2> SUFFICES ASSUME ExactInv, reader.next = Parties + 1, ~ reader.mixed,
                      \A s, r \in Server : counted[s] = counted[r],
                      UsualDegree(counted[1])
               PROVE  Reconstruct(reader.shares) =
                        SumFunction([v \in counted[1] |-> VoteF[v][1]]) % PrimeQ
    BY DEF StillReadExact
  <2> DEFINE C == counted[1]
             shares == {sum[r] : r \in Points}
             h == [r \in Points |-> sum[r]]
  <2>1. reader.shares = shares
    <3>1. reader.next # 0 /\ 1 .. reader.next - 1 = Points
      BY ServersNumbered, Moduli DEF Points
    <3> QED
      BY <3>1 DEF ExactInv, ReadSoFar
  <2>2. 1 \in Server /\ IsFiniteSet(C) /\ C \in SUBSET Usual
    <3>1. 1 \in Server
      BY Moduli DEF Server, Points
    <3> QED
      BY <3>1 DEF ExactInv, TallyInv, Sums, UsualDegree, Usual
  <2>3. ASSUME NEW r \in Points
        PROVE  sum[r].Point = r /\ sum[r].S = Polynomial(r, Total(C))
    <3>1. r \in Server /\ counted[r] = C
      BY <2>2 DEF Server
    <3> QED
      BY <2>2, <3>1 DEF ExactInv, TallyInv, Kept, ShareAt, Sums
  <2>4. IsFiniteSet(shares)
    <3>1. h \in Surjection(Points, shares)
      BY DEF Surjection
    <3> HIDE DEF h, shares
    <3> QED
      BY <3>1, PointsAre, FS_Surjection
  <2>5. SharesOf(Total(C), shares)
    <3> HIDE DEF C
    <3> QED
      BY <2>3, <2>4 DEF SharesOf
  <2>6. PointsOf(shares) = Points
    BY <2>3 DEF PointsOf
  <2>7. Cardinality(Points) > T
    <3>1. Cardinality(Points) = Parties
      BY Moduli, FS_Interval DEF Points
    <3>2. Parties > T
      BY Moduli DEF T, CalculateT
    <3> QED
      BY <3>1, <3>2
  <2>8. /\ Total(C) \in [Coefficients -> Field]
        /\ Total(C)[1] = SumFunction([v \in C |-> VoteF[v][1]]) % PrimeQ
    BY <2>2, TotalIs
  <2>9. Reconstruct(shares) = Total(C)[1]
    <3> HIDE DEF shares, C
    <3> QED
      BY <2>5, <2>6, <2>7, <2>8, SecretReconstructed
  <2> QED
    BY <2>1, <2>8, <2>9
<1> QED
  BY <1>1, ExactInitially, ExactStep, PTL DEF Spec
=============================================================================
