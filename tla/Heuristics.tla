------------------------------ MODULE Heuristics ------------------------------
(***************************************************************************)
(* The distance tables of the default planner                              *)
(* (src/default_planner/heuristics.cpp): breadth-first searches that stop  *)
(* once the cell asked for is reached and go on from there at the next     *)
(* question.  A HeuristicTable is searched from a goal; a Dist2Path from   *)
(* all the cells of an agent's trajectory at once, and hands on how far    *)
(* the nearest one is from the end (togo).  The loops are the same, and    *)
(* so are the tables here; a HeuristicTable has no use for togo.           *)
(*                                                                         *)
(* An entry that has not been reached costs MAX_TIMESTEP.  The label that  *)
(* tells the entries of a Dist2Path from those of the trajectory before is *)
(* left out: init_dist_2_path forgets them.                                *)
(***************************************************************************)
EXTENDS GridDistance, SequencesExt

MAX_TIMESTEP == 1073741823    \* INT_MAX/2

(* Slip: a column is looked for beyond the end of the row. *)
global_neighborsWrapped ==
  [loc \in Cells |->
     IF loc \in Obstacles THEN <<>>
     ELSE SelectSeq(<<loc - Cols, loc + Cols, loc - 1, loc + 1>>,
                    LAMBDA n : n \in Free)]

(* init_neighbor: above, below, left, right.                               *)
global_neighbors ==
  LET If(inside, n) == IF inside /\ n \in Free THEN <<n>> ELSE <<>> IN
  [loc \in Cells |->
     IF loc \in Obstacles THEN <<>>
     ELSE If(RowOf(loc) > 0, loc - Cols) \o If(RowOf(loc) < Rows - 1, loc + Cols)
          \o If(ColOf(loc) > 0, loc - 1) \o If(ColOf(loc) < Cols - 1, loc + 1)]

EmptyTable == [cost |-> [c \in Cells |-> MAX_TIMESTEP],
               togo |-> [c \in Cells |-> 0],
               open |-> <<>>]

init_heuristic(goal) ==
  [EmptyTable EXCEPT !.cost[goal] = 0, !.open = <<goal>>]

(* The path comes in from its end.                                         *)
init_dist_2_path(path) ==
  LET n == Len(path)
      At(c) == CHOOSE i \in 1..n : path[i] = c
  IN  [cost |-> [c \in Cells |-> IF c \in ToSet(path) THEN 0 ELSE MAX_TIMESTEP],
       togo |-> [c \in Cells |-> IF c \in ToSet(path) THEN n - At(c) ELSE 0],
       open |-> Reverse(path)]

(* One iteration of the search: the first open cell is expanded.           *)
Expand(t) ==
  LET curr == Head(t.open)
      cost == t.cost[curr] + 1
      next == global_neighbors[curr]
      nearer[k \in 0..Len(next)] ==
        IF k = 0 THEN <<>>
        ELSE IF cost < t.cost[next[k]] THEN Append(nearer[k-1], next[k]) ELSE nearer[k-1]
      reached == nearer[Len(next)]
      Updated(f, value) == [c \in Cells |-> IF c \in ToSet(reached) THEN value ELSE f[c]]
  IN  [cost |-> Updated(t.cost, cost),
       togo |-> Updated(t.togo, t.togo[curr]),
       open |-> Tail(t.open) \o reached]

(* get_heuristic, get_source_2_path: the table once the distance of a cell *)
(* has been asked for; the answer is its entry.                            *)
Asked(t, source) ==
  LET search[n \in 0..Rows*Cols] ==
        IF n = 0 THEN [table |-> t, done |-> t.cost[source] < MAX_TIMESTEP]
        ELSE LET before == search[n-1] IN
             IF before.done \/ before.table.open = <<>> THEN before
             ELSE [table |-> Expand(before.table),
                   done |-> Head(before.table.open) = source]
  IN  search[Rows*Cols].table

AskedAll(t, sources) ==
  LET table[k \in 0..Len(sources)] ==
        IF k = 0 THEN t ELSE Asked(table[k-1], sources[k])
  IN  table[Len(sources)]

-----------------------------------------------------------------------------
(* What the entries of a table should be.                                  *)

(* What a table has reached holds the distance from the nearest source,    *)
(* whatever was asked in between; when there is nothing left to search,    *)
(* the rest cannot be reached.                                             *)
Exact(t, dist) ==
  \A c \in Cells :
    IF t.cost[c] < MAX_TIMESTEP THEN t.cost[c] = dist[c]
                                ELSE t.open = <<>> => dist[c] = Unreachable

(* How far each cell is from the nearest one of a trajectory.              *)
DistanceToWay(traj) ==
  [c \in Cells |-> Min({distance[p][c] : p \in ToSet(traj)})]

(* The cell of a trajectory that an entry leads to is a nearest one, and   *)
(* this far from its end.                                                  *)
LeadsToWay(t, traj) ==
  \A c \in Cells : t.cost[c] < MAX_TIMESTEP =>
    \E i \in DOMAIN traj : /\ distance[traj[i]][c] = DistanceToWay(traj)[c]
                           /\ t.togo[c] = Len(traj) - i

(* A search, between two questions, has reached cells in the order of      *)
(* their distance: it may have to go on from those that are open, which    *)
(* are in order too and at most one step apart.                            *)
BreadthFirst(t, dist) ==
  LET Reached(c) == t.cost[c] < MAX_TIMESTEP IN
  /\ \A c \in Cells :
       /\ Reached(c) => t.cost[c] = dist[c] /\ dist[c] < Unreachable
       /\ dist[c] = 0 => Reached(c)
       /\ Reached(c) /\ c \notin ToSet(t.open) => \A n \in Neighbors(c) : Reached(n)
  /\ \A i \in DOMAIN t.open :
       /\ Reached(t.open[i])
       /\ dist[t.open[i]] <= dist[t.open[1]] + 1
       /\ \A j \in i+1..Len(t.open) :
            t.open[i] # t.open[j] /\ dist[t.open[i]] <= dist[t.open[j]]

(* What a table says of a distance, once it has been asked for it.         *)
Entry(d) == IF d < Unreachable THEN d ELSE MAX_TIMESTEP
===============================================================================
