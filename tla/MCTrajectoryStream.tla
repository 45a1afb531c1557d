------------------------- MODULE MCTrajectoryStream -------------------------
(* Instances of TrajectoryStream for TLC. *)
EXTENDS TrajectoryStream

(* Every length from 2 points to 3 pages and more, of either kind. *)
LengthsFile == [name |-> "lengths", lines |-> [k \in 1 .. 9 |-> [id |-> k - 1, n |-> k + 1]]]
NoFiles == {}

At(S) == SelectSeq([k \in 1 .. 13 |-> k - 1], LAMBDA t : t \in S)

(* All times of two or three points, of four from time 0; for longer ones  *)
(* points close together, apart, further apart than a stretch, in bursts.  *)
TimesOf(n) ==
  IF n <= 3 THEN {At(S) : S \in kSubset(n, 0 .. 14 - n)}
  ELSE IF n = 4 THEN {At(S \cup {0}) : S \in kSubset(3, 1 .. 10)}
  ELSE {[j \in 1 .. n |-> gap * j] : gap \in {1, 2, 3, 7}}
       \cup {[j \in 1 .. n |-> j + 5 * (j \div 3)], [j \in 1 .. n |-> 2 * j + 9 * (j \div 2)]}

SomeTimes == UNION {TimesOf(n) : n \in 2 .. 10}

AllCuts ==
  {[by |-> by, np |-> 0] : by \in {"ISS", "GSS", "OPTS", "RDP", "EveryLine", "OneBox"}}
  \cup {[by |-> "FP", np |-> n] : n \in {2, 3}}
=============================================================================
