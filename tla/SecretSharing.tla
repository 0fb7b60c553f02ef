---------------------------- MODULE SecretSharing ---------------------------
(***************************************************************************)
(* Shamir's secret sharing with Pedersen commitments, as operators:        *)
(* server/src/SecretSharingImpl.go and Add of ArithmeticLogicImpl.go.      *)
(*                                                                         *)
(* A share is a record of the values S and T of two polynomials at Point.  *)
(* A list of commitments, one for each coefficient, is what the code calls *)
(* a proof.  math/big has no overflow, so integers are integers.           *)
(***************************************************************************)
EXTENDS Thresholds, Sequences, FiniteSets, SequencesExt

CONSTANTS
  Parties,  \* the number of servers
  PrimeP,   \* the modulus of the commitments
  PrimeQ    \* the order of their group, and the modulus of the shares

ASSUME SharingAssumption ==
  /\ Parties \in Nat /\ Parties >= MinParties
  /\ PrimeP \in Nat /\ PrimeQ \in Nat
  /\ Parties < PrimeQ /\ PrimeQ < PrimeP
  /\ (PrimeP - 1) % PrimeQ = 0

ASSUME PrimeOrder == \A d \in 2 .. PrimeQ - 1 : PrimeQ % d # 0

ASSUME PrimeModulus == \A d \in 2 .. PrimeP - 1 : PrimeP % d # 0

T       == CalculateT(Parties)
Field   == 0 .. PrimeQ - 1
Points  == 1 .. Parties

-----------------------------------------------------------------------------
(* math/big.                                                               *)

(* Exp with the modulus nil, here 0, does not reduce.                      *)
Reduced(x, m) == IF m = 0 THEN x ELSE x % m

Power(b, e, m) ==
  LET pow[n \in 0 .. e] ==
        IF n = 0 THEN Reduced(1, m) ELSE Reduced(pow[n - 1] * b, m)
  IN  pow[e]

ModInverse(a, m) == CHOOSE x \in 0 .. m - 1 : (a * x) % m = 1

ProductMod(f, m) == FoldFunction(LAMBDA x, y : (x * y) % m, 1, f)

-----------------------------------------------------------------------------
(* Commitments.                                                            *)

(* SetCommitmentValues: the two smallest bases of order q.                 *)
Bases == {i \in 2 .. PrimeP - 1 : Power(i, PrimeQ, PrimeP) = 1}
G == Min(Bases)
H == Min(Bases \ {G})

ASSUME TwoBases == \E i, j \in Bases : i # j

(* The powers of a base are looked up, not computed again.                 *)
PowersOfG == [e \in Field |-> Power(G, e, PrimeP)]
PowersOfH == [e \in Field |-> Power(H, e, PrimeP)]

BC(s, t) == (PowersOfG[s % PrimeQ] * PowersOfH[t % PrimeQ]) % PrimeP

-----------------------------------------------------------------------------
(* Dealing.                                                                *)

Polynomial(x, coefs) ==
  SumFunction([i \in DOMAIN coefs |-> coefs[i] * Power(x, i - 1, PrimeQ)]) % PrimeQ

Share(x, polyF, polyG) ==
  [Point |-> x, S |-> Polynomial(x, polyF), T |-> Polynomial(x, polyG)]

Commitments(polyF, polyG) == [i \in DOMAIN polyF |-> BC(polyF[i], polyG[i])]

(* SecretGen's polynomials: the secret and t random coefficients, and t+1  *)
(* random ones, out of `coefs'.  The version with a slip draws t-1.        *)
PolynomialsOfLowDegree(secret, coefs) ==
  {<<secret>> \o rest : rest \in [1 .. T - 1 -> coefs]}

Polynomials(secret, coefs) == {<<secret>> \o rest : rest \in [1 .. T -> coefs]}

-----------------------------------------------------------------------------
(* Checking and reconstruction.                                            *)

(* VerifyShare without the zero-knowledge part.                            *)
MatchesConstantTerm(share, proof) == BC(share.S, share.T) = proof[1]

MatchesCommitments(share, proof) ==
  BC(share.S, share.T) =
    ProductMod([i \in DOMAIN proof |->
                  Power(proof[i], Power(share.Point, i - 1, 0), PrimeP)], PrimeP)

(* Lagrange at zero, for the point i among the points m.                   *)
LagrangeOtherSign(i, m) ==
  LET num   == ProductMod([j \in m |-> j], PrimeQ)
      denom == ProductMod([j \in m |-> i - j], PrimeQ)
  IN  (num * ModInverse(denom, PrimeQ)) % PrimeQ

Lagrange(i, m) ==
  LET num   == ProductMod([j \in m |-> -j], PrimeQ)
      denom == ProductMod([j \in m |-> i - j], PrimeQ)
  IN  (num * ModInverse(denom, PrimeQ)) % PrimeQ

(* reconstruct, of a set of more than t shares.                            *)
Reconstruct(shares) ==
  LET points == {s.Point : s \in shares}
  IN  SumFunction([s \in shares |->
                     Lagrange(s.Point, points \ {s.Point}) * s.S]) % PrimeQ

-----------------------------------------------------------------------------
(* ActiveArithmetic.Add: shares add, commitments multiply, as many as the  *)
(* first proof has.  A share that has no proof (an empty one) is replaced. *)
(* Shares at different points, and a first proof that is longer than the   *)
(* other one, make it panic.                                               *)
AddPanics(a, b, aProof, bProof) ==
  \/ a.Point # b.Point
  \/ bProof # <<>> /\ Len(aProof) > Len(bProof)

AddReplaces(a, b, aProof, bProof) == [share |-> a, proof |-> aProof]

AddSharesOnly(a, b, aProof, bProof) ==
  [share |-> [a EXCEPT !.S = (@ + b.S) % PrimeQ, !.T = (@ + b.T) % PrimeQ],
   proof |-> IF bProof = <<>> THEN aProof
             ELSE [i \in DOMAIN aProof |-> (aProof[i] * bProof[i]) % PrimeP]]

AddUnreduced(a, b, aProof, bProof) ==
  IF bProof = <<>> THEN [share |-> a, proof |-> aProof]
  ELSE [share |-> [a EXCEPT !.S = @ + b.S, !.T = @ + b.T],
        proof |-> [i \in DOMAIN aProof |-> (aProof[i] * bProof[i]) % PrimeP]]

Add(a, b, aProof, bProof) ==
  IF bProof = <<>> THEN [share |-> a, proof |-> aProof]
  ELSE [share |-> [a EXCEPT !.S = (@ + b.S) % PrimeQ, !.T = (@ + b.T) % PrimeQ],
        proof |-> [i \in DOMAIN aProof |-> (aProof[i] * bProof[i]) % PrimeP]]
=============================================================================
