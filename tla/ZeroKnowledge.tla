---------------------------- MODULE ZeroKnowledge ---------------------------
(***************************************************************************)
(* One dealing of a vote of 0 or 1 (any other panics): SecretGen with      *)
(* createZeroKnowledge, and what VerifyShare and Reconstruct make of it    *)
(* (server/src/SecretSharingImpl.go).                                      *)
(*                                                                         *)
(* The randomness is nondeterminism: every choice of the constants below   *)
(* is a dealing.  The random oracle (SHAKE256) answers the one question    *)
(* the dealer asks with any number of TBit bits, and every other question  *)
(* with another one.                                                       *)
(*                                                                         *)
(* A challenge has TBit bits: it is the set of the positions of its ones,  *)
(* so that math/big's Xor is the symmetric difference.                     *)
(***************************************************************************)
EXTENDS SecretSharing

CONSTANTS
  Coefs,       \* random coefficients of the polynomials
  Nonces,      \* r of createZeroKnowledge
  SimAnswers   \* z of simulateZeroKnowledge, not 0 or 1

(* rand.Int below PrimeQ, and below PrimeP without 0 and 1. *)
ASSUME DrawsAssumption ==
  /\ Coefs \subseteq Field /\ Nonces \subseteq Field
  /\ SimAnswers \subseteq 2 .. PrimeP - 1

VARIABLES
  secret, polyF, polyG,  \* what SecretGen drew, <<>> before it has
  zk,                    \* the zero-knowledge proof
  asked, answered        \* the question to the oracle, and its answer

vars == <<secret, polyF, polyG, zk, asked, answered>>

Dealt == polyF # <<>>
Proven == asked # <<>>

(* PrimeQ.BitLen() - 1 (SetPrimes). *)
TBit ==
  CHOOSE b \in 1 .. PrimeQ :
    Power(2, b, 0) <= PrimeQ /\ Power(2, b + 1, 0) > PrimeQ

Challenges == SUBSET (0 .. TBit - 1)

(* The numbers of the challenges are looked up. *)
Number == [e \in Challenges |-> SumFunction([i \in e |-> Power(2, i, 0)])]

NoProof == [A0 |-> 0, E0 |-> {}, Z0 |-> 0, A1 |-> 0, E1 |-> {}, Z1 |-> 0]

Init ==
  /\ secret \in {0, 1}
  /\ polyF = <<>>
  /\ polyG = <<>>
  /\ zk = NoProof
  /\ asked = <<>>
  /\ answered = {}

SecretGen ==
  /\ ~ Dealt
  /\ polyF' \in Polynomials(secret, Coefs)
  /\ \E g0 \in Coefs : polyG' \in Polynomials(g0, Coefs)
  /\ UNCHANGED <<secret, zk, asked, answered>>

(* The first message that makes <<a, e, z>> an accepting conversation for  *)
(* the commitment c.                                                       *)
Simulated(c, e, z) ==
  LET inverse == ModInverse(Power(c, Number[e], PrimeP), PrimeP)
  IN  (Power(H, z, PrimeP) * inverse) % PrimeP

(* The commitment that opens to 0 when the vote is `bit'.                  *)
Shifted(c, bit) ==
  IF bit = 0 THEN c ELSE (c * ModInverse(G, PrimeP)) % PrimeP

(* A conversation of its own for the vote dealt, a simulated one for the   *)
(* other; the oracle is asked for both first messages in their order.      *)
CreateZeroKnowledge ==
  /\ Dealt /\ ~ Proven
  /\ \E r \in Nonces, zSim \in SimAnswers, eSim, s \in Challenges :
       LET c    == BC(secret, polyG[1])
           a    == Power(H, r, PrimeP)
           aSim == Simulated(Shifted(c, 1 - secret), eSim, zSim)
           e    == SymDiff(s, eSim)
           z    == (r + Number[e] * polyG[1]) % PrimeQ
       IN  /\ zk' = IF secret = 0
                    THEN [A0 |-> a, E0 |-> e, Z0 |-> z,
                          A1 |-> aSim, E1 |-> eSim, Z1 |-> zSim]
                    ELSE [A0 |-> aSim, E0 |-> eSim, Z0 |-> zSim,
                          A1 |-> a, E1 |-> e, Z1 |-> z]
           /\ asked' = IF secret = 0 THEN <<a, aSim>> ELSE <<aSim, a>>
           /\ answered' = s
  /\ UNCHANGED <<secret, polyF, polyG>>

Next == SecretGen \/ CreateZeroKnowledge

Spec == Init /\ [][Next]_vars

-----------------------------------------------------------------------------
(* The question also has the vote id, which is left out: dealer and        *)
(* verifier take it from the same ballot.                                  *)
RandomOracle(a1, a2) ==
  IF <<a1, a2>> = asked THEN answered ELSE SymDiff(answered, {0})

Accepts(c, a, e, z) ==
  Power(H, z, PrimeP) = (a * Power(c, Number[e], PrimeP)) % PrimeP

Verify01OtherOrder(proof, c) ==
  /\ SymDiff(proof.E1, proof.E0) = RandomOracle(proof.A1, proof.A0)
  /\ Accepts(c, proof.A0, proof.E0, proof.Z0)
  /\ Accepts(Shifted(c, 1), proof.A1, proof.E1, proof.Z1)

Verify01FirstOnly(proof, c) ==
  /\ SymDiff(proof.E1, proof.E0) = RandomOracle(proof.A0, proof.A1)
  /\ Accepts(c, proof.A0, proof.E0, proof.Z0)

Verify01(proof, c) ==
  /\ SymDiff(proof.E1, proof.E0) = RandomOracle(proof.A0, proof.A1)
  /\ Accepts(c, proof.A0, proof.E0, proof.Z0)
  /\ Accepts(Shifted(c, 1), proof.A1, proof.E1, proof.Z1)

VerifyShare(share, commitments, proof) ==
  MatchesCommitments(share, commitments) /\ Verify01(proof, commitments[1])

-----------------------------------------------------------------------------
SharesDealt == {Share(x, polyF, polyG) : x \in Points}
CommitmentsDealt == Commitments(polyF, polyG)

(* Every share verifies at its server, whatever the dealer draws.          *)
HonestSharesVerify ==
  Proven =>
    \A share \in SharesDealt : VerifyShare(share, CommitmentsDealt, zk)

(* Another split of the challenge, another answer, or another commitment   *)
(* does not go with the proof (but for the challenges 0, which leave the   *)
(* commitment out).                                                        *)
AlteredProofsRejected ==
  Proven =>
    LET c == CommitmentsDealt[1]
    IN  /\ \A d \in Challenges \ {{}} :
             ~ Verify01([zk EXCEPT !.E0 = SymDiff(@, d),
                                   !.E1 = SymDiff(@, d)], c)
        /\ \A f \in {"Z0", "Z1"}, v \in Field :
             v # zk[f] % PrimeQ => ~ Verify01([zk EXCEPT ![f] = v], c)
        /\ \A g0 \in Field :
             Verify01(zk, BC(1 - secret, g0)) =>
               BC(1 - secret, g0) = c \/ (zk.E0 = {} /\ zk.E1 = {})

(* Any t+1 or more shares give the secret back.                            *)
AnyQuorumReconstructs ==
  Dealt /\ ~ Proven =>
    \A shares \in SUBSET SharesDealt :
      Cardinality(shares) > T => Reconstruct(shares) = secret

(* A share with one of its two values changed does not match.              *)
AlteredSharesRejected ==
  Dealt /\ ~ Proven =>
    \A share \in SharesDealt : \A v \in Field :
      /\ v # share.S =>
           ~ MatchesCommitments([share EXCEPT !.S = v], CommitmentsDealt)
      /\ v # share.T =>
           ~ MatchesCommitments([share EXCEPT !.T = v], CommitmentsDealt)

(* t shares and the commitments tell nothing: they belong to a dealing of  *)
(* the other vote as well.                                                 *)
TSharesHideTheVote ==
  Dealt /\ ~ Proven =>
    \A X \in SUBSET Points : Cardinality(X) = T =>
      \E otherF \in Polynomials(1 - secret, Field) :
        /\ \A x \in X : Polynomial(x, otherF) = Polynomial(x, polyF)
        /\ \E otherG \in [DOMAIN polyG -> Field] :
             Commitments(otherF, otherG) = CommitmentsDealt
=============================================================================
