--------------------------- MODULE MCSecretSharing --------------------------
(* The group the tests of the code use: p = 23, q = 11, so g = 2, h = 3.   *)
EXTENDS ZeroKnowledge

SomeCoefs == {0, 3, 10}
SomeNonces == {0, 7}
SomeAnswers == {2, 9, 22}
=============================================================================
