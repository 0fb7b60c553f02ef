---------------------------- MODULE VoteBroadcast ---------------------------
(***************************************************************************)
(* What VoteDelivery promises, without messages, entries and locks.  A     *)
(* server signs a ballot when a client posts it; it counts its share of at *)
(* most one ballot of a vote id, once the share verifies and n - t servers *)
(* have signed.                                                            *)
(***************************************************************************)
EXTENDS Thresholds, FiniteSets

CONSTANTS Server, Ballot, VoteId, IdOf, ValidAt

VARIABLES
  signers,  \* the servers that signed a ballot
  counted   \* the ballots a server handed a share of to its tally

vars == <<signers, counted>>

Needed == SignaturesNeeded(Cardinality(Server))

TypeOK ==
  /\ signers \in [Ballot -> SUBSET Server]
  /\ counted \in [Server -> SUBSET Ballot]

Init ==
  /\ signers = [b \in Ballot |-> {}]
  /\ counted = [s \in Server |-> {}]

Sign(s, b) == signers' = [signers EXCEPT ![b] = @ \cup {s}]

(* The signature a server gives in the same step counts.                   *)
Count(s, b) ==
  /\ s \in ValidAt[b]
  /\ \A c \in counted[s] : IdOf[c] # IdOf[b]
  /\ Cardinality(signers'[b]) >= Needed
  /\ counted' = [counted EXCEPT ![s] = @ \cup {b}]

Next ==
  \E s \in Server :
    \/ \E b \in Ballot : Sign(s, b) /\ UNCHANGED counted
    \/ \E b \in Ballot : UNCHANGED signers /\ Count(s, b)
    \/ \E b, c \in Ballot : Sign(s, b) /\ Count(s, c)

Spec == Init /\ [][Next]_vars

-----------------------------------------------------------------------------
(* Every counted ballot has the signatures of n - t servers.               *)
BackedByQuorum ==
  \A s \in Server : \A b \in counted[s] : Cardinality(signers[b]) >= Needed

(* Two servers count different ballots of an id only if some server signed *)
(* both: n - t of n servers and n - t others have one in common.           *)
Agreement ==
  \A s, r \in Server : \A b \in counted[s], c \in counted[r] :
    IdOf[b] = IdOf[c] /\ b # c => signers[b] \cap signers[c] # {}

(* A server counts one ballot of an id.                                    *)
OnePerId ==
  \A s \in Server : \A b, c \in counted[s] : IdOf[b] = IdOf[c] => b = c
=============================================================================
