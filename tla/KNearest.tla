------------------------------ MODULE KNearest ------------------------------
(***************************************************************************)
(* What a nearest-neighbour query promises: it reports trajectories one by *)
(* one, each as near as any that is left, and when it ends it has reported *)
(* k of them, or all. It may also fail (an assertion, an exception); then  *)
(* what it reported so far is still right. A query that reports ties goes  *)
(* on after k with trajectories as near as the last one, and may stop at   *)
(* any of them.                                                            *)
(***************************************************************************)
EXTENDS Naturals, Sequences

CONSTANTS
  Traj,
  Ties  \* TRUE: trajectories as near as the k-th may follow it

VARIABLES
  distance,  \* the true distance of every trajectory
  k,
  answer,    \* what has been reported
  outcome    \* "running", "done", "failed"

vars == <<distance, k, answer, outcome>>

Reported == {answer[i] : i \in DOMAIN answer}
Left == Traj \ Reported

Init ==
  /\ distance \in [Traj -> Nat]
  /\ k \in Nat \ {0}
  /\ answer = <<>>
  /\ outcome = "running"

Tie(t) == Ties /\ distance[t] = distance[answer[Len(answer)]]

Report(t) ==
  /\ outcome = "running"
  /\ Len(answer) < k \/ Tie(t)
  /\ t \in Left
  /\ \A u \in Left : distance[t] <= distance[u]
  /\ answer' = Append(answer, t)
  /\ UNCHANGED <<distance, k, outcome>>

Finish ==
  /\ outcome = "running"
  /\ Len(answer) >= k \/ Left = {}
  /\ outcome' = "done"
  /\ UNCHANGED <<distance, k, answer>>

Fail ==
  /\ outcome = "running"
  /\ outcome' = "failed"
  /\ UNCHANGED <<distance, k, answer>>

Next == (\E t \in Traj : Report(t)) \/ Finish \/ Fail

Spec == Init /\ [][Next]_vars
=============================================================================
