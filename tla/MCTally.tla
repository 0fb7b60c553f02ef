------------------------------- MODULE MCTally ------------------------------
(* Four servers, so that t = 1: lines are dealt.                           *)
EXTENDS Tally

CONSTANTS v1, v2, v3, v4

Votes4 == {v1, v2, v3, v4}

(* The client of v4 counted seven servers and deals with parabolas.        *)
CurvesF ==
  (v1 :> <<1, 7>>) @@ (v2 :> <<1, 9>>) @@ (v3 :> <<0, 5>>) @@ (v4 :> <<1, 3, 8>>)
CurvesG ==
  (v1 :> <<4, 2>>) @@ (v2 :> <<10, 3>>) @@ (v3 :> <<6, 6>>) @@ (v4 :> <<2, 5, 1>>)
StartLineF == <<0, 8>>
StartLineG == <<5, 1>>

(* The client of v3 has the first two servers in another order, and gets   *)
(* to the first one only; v4 is handed to the last one.                    *)
OwnPoints == [s \in Points |-> s]
SwappedForV3 ==
  [v \in Votes4 |-> IF v = v3 THEN [OwnPoints EXCEPT ![1] = 2, ![2] = 1]
                     ELSE OwnPoints]
OddToOne ==
  [v \in Votes4 |-> CASE v = v3 -> {1} [] v = v4 -> {4} [] OTHER -> Points]
=============================================================================
