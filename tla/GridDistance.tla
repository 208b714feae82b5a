----------------------------- MODULE GridDistance -----------------------------
(* Distances on the grid of the simulator: what the planners' tables are   *)
(* meant to hold (Heuristics checks that they do).                         *)
EXTENDS Simulator

Free == Cells \ Obstacles

(* global_neighbors                                                        *)
Neighbors(c) == {n \in Free : c \in Free /\ n # c /\ AllowedMove(c, n)}

(* The cells at most n steps from those of S.                              *)
Within(S) ==
  LET ball[n \in 0..Rows*Cols] ==
        IF n = 0 THEN S
        ELSE LET less == ball[n-1] IN less \cup UNION {Neighbors(c) : c \in less}
  IN  ball

Unreachable == Rows * Cols

(* How far each cell is from the nearest one of S.                         *)
DistanceFrom(S) ==
  LET ball == Within(S) IN
  [c \in Cells |->
     IF c \in ball[Rows*Cols]
       THEN CHOOSE n \in 0..Rows*Cols : c \in ball[n] /\ (n > 0 => c \notin ball[n-1])
       ELSE Unreachable]

(* distance[g][c], for every goal g.                                       *)
distance == [g \in Free |-> DistanceFrom({g})]

(* What the planners go by where they have no table.                       *)
manhattanDistance(c, d) == Abs(RowOf(c) - RowOf(d)) + Abs(ColOf(c) - ColOf(d))
===============================================================================
