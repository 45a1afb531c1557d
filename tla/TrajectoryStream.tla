-------------------------- MODULE TrajectoryStream --------------------------
(***************************************************************************)
(* What an index asks of the store (xSBBStream): a trajectory is loaded    *)
(* whole and cut into pieces, and the index keeps of a piece its box and   *)
(* the interval of points that a query will load again. One trajectory is  *)
(* followed, of a store that stays as it is meanwhile. What is loaded has  *)
(* as many points as its row says; their times are any that ascend.        *)
(*                                                                         *)
(* The stream goes through all numbers up to the last. Numbers without a   *)
(* row, of trajectories of one point (xStore.cc:266) and of inserts that   *)
(* failed, are not modelled: for them getNext (xStore.cc:553) loads page 0 *)
(* with as many points as were asked for.                                  *)
(***************************************************************************)
EXTENDS XStore

CONSTANTS
  Stretch, Soft, Coarse,  \* as in Splitting
  Times,     \* the times of the points of the trajectories there may be
  Cuts       \* the functions that cut: [by, np]

ASSUME SplitAssumption ==
  /\ Stretch \in Nat /\ Soft \in Nat \ {0} /\ 2 * Soft < Stretch
  /\ Coarse \in Nat \ {0}
ASSUME TimesAssumption ==
  \A s \in Times : s \in Seq(Nat) /\ \A j, k \in DOMAIN s : j < k => s[j] < s[k]
ASSUME CutsAssumption ==
  /\ Cuts \subseteq [by : {"ISS", "GSS", "OPTS", "FP", "RDP", "EveryLine", "OneBox"}, np : Nat]
  /\ \A c \in Cuts : c.by = "FP" => c.np >= 2

VARIABLES
  got,       \* the id of the trajectory
  cut, time, partStart, parts, at, ms, segStart, seg, res, done, exact

SP == INSTANCE Splitting

streamVars == <<got, cut, time, partStart, parts, at, ms, segStart, seg, res, done, exact>>

NoId == -1

StreamInit ==
  /\ Init
  /\ got = NoId
  /\ SP!Init

(* getNext with m_buf empty: the trajectory of the next id is loaded. *)
WholeEnd == 10000000

GetNext(id) ==
  /\ open /\ pc = "idle"
  /\ got = NoId
  /\ id \in DOMAIN rows
  /\ got' = id
  /\ LET points == LoadTraj(rows[id], 0, WholeEnd)
     IN \E times \in {s \in Times : Len(s) = Len(points)}, c \in Cuts : SP!Take(times, c)
  /\ UNCHANGED vars

CutFunc ==
  /\ got # NoId
  /\ SP!Next
  /\ UNCHANGED <<vars, got>>

StoreWorks ==
  /\ got = NoId
  /\ Next
  /\ UNCHANGED streamVars

StreamNext ==
  \/ \E id \in 0 .. MaxId : GetNext(id)
  \/ CutFunc
  \/ StoreWorks

StreamSpec == StreamInit /\ [][StreamNext]_<<vars, streamVars>>

-----------------------------------------------------------------------------
(* What the store is to return for a number: a trajectory this process has *)
(* loaded, with the exceptions of LoadedReadsBack, or one that read back   *)
(* when a flush completed, in whatever process.                            *)
Stored(id) ==
  {mine[i] : i \in {j \in DOMAIN mine \ earlier.ids : j = id /\ ~failedBuild}}
  \cup {committed[i] : i \in {j \in DOMAIN committed : j = id}}

(* The pieces of a trajectory follow one another without a gap, each has   *)
(* the points of its time and an interval that reaches over it; and what   *)
(* the store returns for that interval are those points of that            *)
(* trajectory, unless there are no subtrajectory pages and the piece       *)
(* starts on the last point of a page, as pieces of EveryLine and FP do:   *)
(* for such a piece the store returns something else (xStore.cc:462).      *)
PiecesLoad ==
  /\ SP!PiecesCover
  /\ done =>
       \A x \in Stored(got), k \in DOMAIN res :
         LET p == res[k]
         IN (LoadTraj(rows[got], p.ms, p.me) = Slice(x.t, p.ms, p.me)) <=> ~Misread(p.ms)

(* Of Splitting. *)
PiecesNearLength == SP!PiecesNearLength
=============================================================================
