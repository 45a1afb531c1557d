----------------------------- MODULE Splitting -----------------------------
(***************************************************************************)
(* How a trajectory is cut into the pieces an index has boxes for: the     *)
(* functions ISS, GSS, OPTS, FP, RDP, EveryLine and OneBox of xTrajectory, *)
(* one of which a builder gives to xSBBStream. A piece is the interval of  *)
(* points that a query will load for it, and the points its box is drawn   *)
(* around; a point is known by its time. ISS and GSS cut where a stretch   *)
(* of time ends: at a point there, at one close before or after, or        *)
(* between two, at a point made up. Their index stays at a point until the *)
(* stretch reaches beyond it. RDP, and OPTS before GSS, cut by distance,   *)
(* which here is any choice of points.                                     *)
(*                                                                         *)
(* Points count from 1, those of a piece from 0 as in the code.            *)
(***************************************************************************)
EXTENDS Integers, Sequences, SequencesExt, FiniteSetsExt

CONSTANTS
  Stretch,  \* len
  Soft,     \* splitSoftThres * len, a fifth of it
  Coarse    \* OPTS takes one part for so many stretches, 5 in the code

VARIABLES
  cut,       \* the function and, for FP, how many points it gives a piece
  time,      \* the times of the points
  partStart, \* the first point of the part to be cut
  parts,     \* the last points of the parts left; one unless RDP or OPTS
  at,        \* i, the point looked at; 0 between two parts
  ms,
  segStart,
  seg,       \* the points of the piece, so far
  res,       \* the pieces, in order
  done,
  exact      \* history: which pieces end at a point where their stretch does

vars == <<cut, time, partStart, parts, at, ms, segStart, seg, res, done, exact>>

Init ==
  /\ cut = [by |-> "none", np |-> 0]
  /\ at = 0 /\ ms = 0 /\ segStart = 0
  /\ partStart = 1 /\ parts = {}
  /\ time = <<>> /\ seg = <<>> /\ res = <<>>
  /\ done = FALSE
  /\ exact = {}

Piece(s, e, points) == [ms |-> s - 1, me |-> e - 1, seg |-> points]

(* The function is called. *)
Take(times, c) ==
  /\ cut.by = "none"
  /\ cut' = c
  /\ time' = times
  /\ UNCHANGED <<partStart, parts, at, ms, segStart, seg, res, done, exact>>

-----------------------------------------------------------------------------
(* simplifyWithRDPN: as many parts as asked for, or fewer; they share a    *)
(* point.                                                                  *)
Duration == Last(time) - Head(time)
Ceil(a, b) == (a + b - 1) \div b
Root(n) == CHOOSE r \in 0 .. n : r * r >= n /\ (r = 0 \/ (r - 1) * (r - 1) < n)

PartsAsked ==
  CASE cut.by = "RDP" -> Min({Duration \div Stretch, Len(time) - 1})
    [] cut.by = "OPTS" /\ Duration > Stretch ->
         Min({Ceil(Duration, Stretch) \div Coarse, Root(Len(time) - 1)})
    [] OTHER -> 1

ChooseParts ==
  /\ cut.by # "none" /\ parts = {} /\ ~done
  /\ \E points \in SUBSET (2 .. Len(time) - 1) :
       /\ Cardinality(points) < Max({1, PartsAsked})
       /\ parts' = points \cup {Len(time)}
  /\ UNCHANGED <<cut, time, partStart, at, ms, segStart, seg, res, done, exact>>

PartEnd == Min(parts)
NextPart ==
  /\ partStart' = PartEnd
  /\ parts' = parts \ {PartEnd}
  /\ done' = (parts' = {})

(* RDP, OneBox, and OPTS when the trajectory is no longer than a stretch:  *)
(* a piece for each part. EveryLine: one for each line.                    *)
AtOnce == cut.by \in {"RDP", "OneBox"} \/ (cut.by = "OPTS" /\ Duration <= Stretch)

PiecePerPart ==
  /\ parts # {} /\ AtOnce
  /\ res' = Append(res, Piece(partStart, PartEnd, SubSeq(time, partStart, PartEnd)))
  /\ NextPart
  /\ UNCHANGED <<cut, time, at, ms, segStart, seg, exact>>

PiecePerLine ==
  /\ parts # {} /\ cut.by = "EveryLine"
  /\ res' = [k \in 1 .. Len(time) - 1 |-> Piece(k, k + 1, SubSeq(time, k, k + 1))]
  /\ NextPart
  /\ UNCHANGED <<cut, time, at, ms, segStart, seg, exact>>

-----------------------------------------------------------------------------
(* FP: a piece for every np points, which share a point. *)
CutByNumber ==
  /\ parts # {} /\ cut.by = "FP"
  /\ LET k == at + 1
         full == Append(seg, time[k])
         ends == k = Len(time) \/ Len(full) >= cut.np
     IN /\ at' = k
        /\ res' = IF ends THEN Append(res, Piece(ms + 1, k, full)) ELSE res
        /\ seg' = IF ends THEN <<time[k]>> ELSE full
        /\ ms' = IF ends THEN k - 1 ELSE ms
        /\ IF k = Len(time) THEN NextPart ELSE UNCHANGED <<partStart, parts, done>>
  /\ UNCHANGED <<cut, time, segStart, exact>>

-----------------------------------------------------------------------------
(* ISS and GSS. The stretches of GSS, which OPTS uses on every part, lie   *)
(* on a grid that all trajectories share. gss_impl truncates the earliest  *)
(* of all times to it and goes on from there; no time is negative here,    *)
(* so that truncating is rounding down.                                    *)
InStretches == cut.by \in {"ISS", "GSS", "OPTS"} /\ ~AtOnce
GridStart(t) == ((t - Stretch + Soft) \div Stretch + 1) * Stretch

BeginPart ==
  /\ parts # {} /\ at = 0
  /\ InStretches
  /\ LET start == time[partStart]
     IN /\ segStart' = IF cut.by = "ISS" THEN start ELSE GridStart(start)
        /\ seg' = <<start>>
        /\ ms' = partStart
        /\ at' = partStart + 1
  /\ UNCHANGED <<cut, time, partStart, parts, res, done, exact>>

(* locate_time_cut, among the points of the part. Also a piece that starts *)
(* at a point has the one before for its first.                            *)
Reaching(t) == Min({k \in partStart .. PartEnd : time[k] >= t})
Before(t) == Max({partStart, Reaching(t) - 1})

(* ISS notes the points as it goes, GSS looks them up by time. *)
Cut(me, points) ==
  IF cut.by = "ISS" THEN Piece(ms, me, points)
  ELSE Piece(Before(Head(points)), Reaching(Last(points)), points)

Now == time[at]
End == segStart + Stretch
Looking == InStretches /\ at > 0 /\ at <= PartEnd

Pass ==
  /\ Looking
  /\ Now < End
  /\ seg' = IF ms = at THEN seg ELSE Append(seg, Now)
  /\ at' = at + 1
  /\ UNCHANGED <<cut, time, partStart, parts, ms, segStart, res, done, exact>>

CutTo(me, piece, rest, end) ==
  /\ res' = Append(res, Cut(me, piece))
  /\ seg' = rest
  /\ segStart' = end
  /\ UNCHANGED <<cut, time, partStart, parts, at, done>>

(* The end is advanced twice. *)
CutAtPoint ==
  /\ Looking
  /\ Now = End
  /\ CutTo(at, Append(seg, Now), <<Now>>, End + Stretch)
  /\ ms' = at
  /\ exact' = exact \cup {Len(res) + 1}

CloseBefore == time[at - 1] > End - Soft
CloseAfter == Now < End + Soft

(* A bug: the end is advanced twice here, too. *)
CutBeforeTwice ==
  /\ Looking
  /\ Now > End /\ CloseBefore
  /\ CutTo(at - 1, seg, <<time[at - 1]>>, End + Stretch)
  /\ ms' = at - 1
  /\ UNCHANGED exact

CutBefore ==
  /\ Looking
  /\ Now > End /\ CloseBefore
  /\ CutTo(at - 1, seg, <<time[at - 1]>>, End)
  /\ ms' = at - 1
  /\ UNCHANGED exact

CutAfter ==
  /\ Looking
  /\ Now > End /\ ~CloseBefore /\ CloseAfter
  /\ CutTo(at, Append(seg, Now), <<Now>>, End)
  /\ ms' = at
  /\ UNCHANGED exact

(* A bug: the next piece starts with the point ahead. *)
CutBetweenAhead ==
  /\ Looking
  /\ Now > End /\ ~CloseBefore /\ ~CloseAfter
  /\ CutTo(at, Append(seg, End), <<End>>, End)
  /\ ms' = at
  /\ UNCHANGED exact

CutBetween ==
  /\ Looking
  /\ Now > End /\ ~CloseBefore /\ ~CloseAfter
  /\ CutTo(at, Append(seg, End), <<End>>, End)
  /\ ms' = at - 1
  /\ UNCHANGED exact

EndPart ==
  /\ parts # {}
  /\ InStretches
  /\ at > PartEnd
  /\ res' = IF Len(seg) > 1 THEN Append(res, Cut(PartEnd, seg)) ELSE res
  /\ NextPart
  /\ at' = 0
  /\ seg' = <<>>
  /\ UNCHANGED <<cut, time, ms, segStart, exact>>

Next ==
  \/ ChooseParts \/ PiecePerPart \/ PiecePerLine \/ CutByNumber
  \/ BeginPart \/ Pass \/ CutAtPoint \/ CutBefore \/ CutAfter \/ CutBetween \/ EndPart

-----------------------------------------------------------------------------
Starts(p) == Head(p.seg)
Ends(p) == Last(p.seg)

(* The pieces follow one another from the first point to the last, none is *)
(* of no time, each has every point of its time once, and the interval of  *)
(* points to be loaded for it reaches over it.                             *)
PiecesCover ==
  done =>
    /\ res # <<>>
    /\ Starts(Head(res)) = Head(time) /\ Ends(Last(res)) = Last(time)
    /\ \A k \in DOMAIN res :
         LET p == res[k]
         IN /\ k > 1 => Starts(p) = Ends(res[k - 1])
            /\ \A j \in DOMAIN p.seg : j > 1 => p.seg[j - 1] < p.seg[j]
            /\ Len(p.seg) > 1
            /\ {t \in ToSet(time) : Starts(p) < t /\ t < Ends(p)} = ToSet(p.seg) \ {Starts(p), Ends(p)}
            /\ 0 <= p.ms /\ p.ms < p.me /\ p.me < Len(time)
            /\ time[p.ms + 1] <= Starts(p) /\ Ends(p) <= time[p.me + 1]

(* ISS, GSS and OPTS keep pieces near the length asked for, up to twice    *)
(* the tolerance: a cut may be early where the piece starts and late where *)
(* it ends. After a cut at a point where a stretch ends the next piece is  *)
(* up to twice as long. The first piece and the last may be shorter.       *)
PiecesNearLength ==
  InStretches =>
    \A k \in DOMAIN res :
      LET length == Ends(res[k]) - Starts(res[k])
      IN /\ length < (IF k - 1 \in exact THEN 2 * Stretch + Soft ELSE Stretch + 2 * Soft)
         /\ cut.by # "OPTS" /\ 1 < k /\ k < Len(res) => length > Stretch - 2 * Soft
=============================================================================
