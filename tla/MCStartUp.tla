------------------------------ MODULE MCStartUp -----------------------------
(* Four servers; 2 created the network, 0, 3 and 1 joined in this order,   *)
(* each with itself first on its list.                                     *)
EXTENDS StartUp, TLC

CONSTANT b1

AsJoined ==
  (0 :> (0 :> 0 @@ 1 :> 2 @@ 2 :> 3 @@ 3 :> 1)) @@
  (1 :> (0 :> 1 @@ 1 :> 2 @@ 2 :> 0 @@ 3 :> 3)) @@
  (2 :> (0 :> 2 @@ 1 :> 0 @@ 2 :> 3 @@ 3 :> 1)) @@
  (3 :> (0 :> 3 @@ 1 :> 2 @@ 2 :> 0 @@ 3 :> 1))
=============================================================================
