--------------------------- MODULE MCVoteDelivery ---------------------------
(***************************************************************************)
(* Small instances of VoteDelivery.  The .cfg of a run picks the servers,  *)
(* the ballots and what is wrong with them from the definitions below.     *)
(***************************************************************************)
EXTENDS VoteDelivery, TLC

CONSTANTS s1, s2, s3, s4, b1, b2, id1, id2

(* With three servers a ballot needs three signatures, with four it needs  *)
(* three of four: the smallest networks with t = 0 and with t = 1.         *)
Servers3 == {s1, s2, s3}
Servers4 == {s1, s2, s3, s4}

(* A ballot, and two with the same id or with ids of their own. *)
OneBallot == b1 :> id1
SameId    == (b1 :> id1) @@ (b2 :> id1)
OwnIds    == (b1 :> id1) @@ (b2 :> id2)

(* Where the shares of a ballot verify. *)
AllValid4   == [b \in Ballot |-> Servers4]
AllValid3   == [b \in Ballot |-> Servers3]
NotAt4      == [b \in Ballot |-> Servers3]
FirstNotAt3 == (b1 :> {s1, s2}) @@ (b2 :> Servers3)

(* Where the clients get before they leave. *)
ToAll4 == [b \in Ballot |-> Servers4]
ToAll3 == [b \in Ballot |-> Servers3]
TwoEach == (b1 :> {s1, s3}) @@ (b2 :> {s2, s3})

(* Servers that a run's constants do not tell apart. *)
ServerSymmetry == Permutations(Server)
First3Symmetry == Permutations(Servers3)
=============================================================================
