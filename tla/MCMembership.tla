---------------------------- MODULE MCMembership ----------------------------
(* Instances of Membership: the creator of the network is neither first    *)
(* nor last in the order of addresses.                                     *)
EXTENDS Membership

Addresses3 == 1 .. 3
Addresses4 == 1 .. 4
=============================================================================
