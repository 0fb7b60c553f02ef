----------------------------- MODULE Thresholds -----------------------------
(***************************************************************************)
(* The three numbers the servers compare a count with: how many servers    *)
(* may be corrupt (CalculateT), how many signatures a ballot needs before  *)
(* it is delivered (len(ipList) - t), and the number that                  *)
(* calculateMinimumNeededParties documents.                                *)
(***************************************************************************)
EXTENDS Integers

(* CalculateT panics below this number of parties. *)
MinParties == 3

(* util.go, CalculateT: Go's integer division of a positive number. *)
CalculateT(parties) == (parties - 1) \div 3

(* The bound every "len(Signatures) >= ..." of the network code uses. *)
SignaturesNeededToReconstruct(parties) == CalculateT(parties) + 1

SignaturesNeeded(parties) == parties - CalculateT(parties)

(* calculateMinimumNeededParties: "the minimum needed votes before we can  *)
(* proceed with verification".                                             *)
MinimumNeededParties(parties) == 2 * CalculateT(parties) + 1
=============================================================================
