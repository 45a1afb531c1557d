------------------------------ MODULE MCXStore ------------------------------
(* Instances of XStore for TLC. *)
EXTENDS XStore

T(id, n) == [id |-> id, n |-> n]

(* Two trajectories, the second over two pages, and one of a single point  *)
(* that the loader drops; files to append, one of them over two pages.     *)
SmallFile == [name |-> "main", lines |-> <<T(0, 2), T(1, 4), T(2, 1)>>]
SmallAppended ==
  {[name |-> "long", lines |-> <<T(11, 4)>>],
   [name |-> "short", lines |-> <<T(12, 2), T(13, 3)>>]}

(* Where a line, a page or a row has failed, the store is followed only    *)
(* while it is small, no bulk load has thrown and of earlier lives there   *)
(* are no rows but those a creation that died has left, and then no index. *)
FewFailures ==
  failures > 0 =>
    /\ ~failedBuild
    /\ nextPage < MaxPage - 1
    /\ File.lines[1].id \notin earlier.ids
    /\ earlier.ids # {} => names = Empty /\ property.names = Empty /\ tree = NoTree
=============================================================================
