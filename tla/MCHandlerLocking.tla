-------------------------- MODULE MCHandlerLocking --------------------------
(* Small instances of HandlerLocking: three servers, so that a ballot      *)
(* needs three signatures, and three of the calls below.                   *)
EXTENDS HandlerLocking, TLC

CONSTANTS h, v, w, good, other, bad, id1, id2

Ids == (good :> id1) @@ (bad :> id1) @@ (other :> id2)
Valid == [b \in Ballot |-> IF b = bad THEN {v, w} ELSE {h, v, w}]

Calls ==
  {PostOf(good), PostOf(bad), PostOf(other),
   ShareOf(good, {v}), ShareOf(good, {v, w}), ShareOf(bad, {v, w}),
   ShareOf(other, {v, w}),
   ChallengeOf(id1, bad, v), ChallengeOf(id1, good, v)}
=============================================================================
