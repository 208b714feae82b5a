------------------------------ MODULE GuidePaths ------------------------------
(***************************************************************************)
(* The guide paths of the default planner (src/default_planner/planner.cpp *)
(* up to the calls of causalPIBT, flow.cpp, search.cpp).  Each agent has a *)
(* trajectory to its goal, found by a search that avoids the traffic of    *)
(* the other trajectories (flow), and a table of distances to it, which    *)
(* guides its moves.  plan() finds one for each agent whose goal changed   *)
(* and then finds them anew, one after the other, until the time is over.  *)
(*                                                                         *)
(* The order of the replanning rounds (the most deviating agent first) is  *)
(* left open.  Moves are left to the client: only where agents are told to *)
(* be and what their goals are matters here, so their orientation is not   *)
(* looked at.  An agent without a goal, as the simulator has them, is sent *)
(* back to where it was in the beginning: its dummy goal.                  *)
(***************************************************************************)
EXTENDS Search

CONSTANTS Goals,          \* the cells that goals are chosen from
          MaxTimestep,    \* bound: the last timestep that is planned
          MaxRounds,      \* bound: the replanning rounds of a call
          MaxMoved        \* bound: the agents that a report has moved elsewhere

ASSUME GuidePathsAssumption ==
  /\ Goals \subseteq Free
  /\ MaxTimestep \in Nat /\ MaxRounds \in Nat /\ MaxMoved \in Nat

VARIABLES
  pc,          \* "idle", "task_change", "frank_wolfe", "search", "pibt", "exit"
  curr_timestep,
  goal_locations,   \* the goal of each agent, or None
  dummy_goals,
  late,        \* the deadline has passed
  agent,       \* the agent whose turn it is in the loop over task changes
  rounds,      \* the replanning rounds so far
  heuristics,  \* the table of each free cell, as a goal; most are empty
  tasks, trajs, traj_dists, flow, soc,     \* TrajLNS
  planned,     \* the agent whose path is searched, its flow removed, or None
  back,        \* the loop to go back to after the search
  mem, open,   \* the nodes generated by the search, and the heap
  curr, left   \* the node being expanded, and its neighbors still to look at

reported == <<curr_states, curr_timestep, goal_locations>>
loop == <<late, agent, rounds, tasks, dummy_goals>>
lns == <<trajs, traj_dists, flow, soc>>
search == <<mem, open, curr, left>>
vars == <<pc, reported, loop, heuristics, lns, planned, back, search>>

None == -1
Loc(a) == curr_states[a].location
NoNodes == [c \in {} |-> None]
NoSearch == mem = NoNodes /\ open = <<>> /\ curr = None /\ left = <<>>
EndSearch == mem' = NoNodes /\ open' = <<>> /\ curr' = None /\ left' = <<>>

Placements ==
  {s \in [Agents -> [location : Free, orientation : {0}]] :
     \A a, b \in Agents : s[a].location = s[b].location => a = b}

GuideInit ==
  /\ pc = "idle" /\ curr_timestep = 0
  /\ curr_states \in Placements
  /\ goal_locations \in [Agents -> Goals \cup {None}]
  /\ dummy_goals = [a \in Agents |-> 0]
  /\ late = FALSE /\ agent = 0 /\ rounds = 0
  /\ heuristics = [g \in Free |-> EmptyTable]
  /\ tasks = [a \in Agents |-> 0]
  /\ trajs = [a \in Agents |-> <<>>]
  /\ traj_dists = [a \in Agents |-> EmptyTable]
  /\ flow = [c \in Cells |-> [d \in Orientation |-> 0]]
  /\ soc = 0
  /\ planned = None /\ back = "none" /\ NoSearch

-----------------------------------------------------------------------------
(* Trajectories and the flow along them.                                   *)

get_d(diff) == CASE diff = 1 -> 0 [] diff = -1 -> 2 [] diff = Cols -> 1 [] OTHER -> 3

(* How often a trajectory takes each edge.                                 *)
EdgesOf(traj) ==
  [c \in Cells |-> [d \in Orientation |->
     Cardinality({j \in 2..Len(traj) : /\ traj[j-1] = c
                                       /\ get_d(traj[j] - traj[j-1]) = d})]]

(* Slip: one edge too few. *)
remove_trajShort(a) ==
  /\ soc' = soc - (Len(trajs[a]) - 1)
  /\ flow' = [c \in Cells |-> [d \in Orientation |->
                flow[c][d] - EdgesOf(Front(trajs[a]))[c][d]]]

(* Slip: the flow is removed twice. *)
remove_trajTwice(a) ==
  /\ soc' = soc - (Len(trajs[a]) - 1)
  /\ flow' = [c \in Cells |-> [d \in Orientation |->
                flow[c][d] - 2 * EdgesOf(trajs[a])[c][d]]]

remove_traj(a) ==
  /\ soc' = soc - (Len(trajs[a]) - 1)
  /\ flow' = [c \in Cells |-> [d \in Orientation |->
                flow[c][d] - EdgesOf(trajs[a])[c][d]]]

add_traj(traj) ==
  /\ soc' = soc + Len(traj) - 1
  /\ flow' = [c \in Cells |-> [d \in Orientation |->
                flow[c][d] + EdgesOf(traj)[c][d]]]

(* Slip: the table of the path before is kept. *)
update_trajKept(a, traj) ==
  /\ add_traj(traj)
  /\ trajs' = [trajs EXCEPT ![a] = traj]
  /\ traj_dists' = [traj_dists EXCEPT ![a] = IF @ = EmptyTable
                                               THEN init_dist_2_path(traj) ELSE @]

(* update_traj, once the search has found a path.                          *)
update_traj(a, traj) ==
  /\ add_traj(traj)
  /\ trajs' = [trajs EXCEPT ![a] = traj]
  /\ traj_dists' = [traj_dists EXCEPT ![a] = init_dist_2_path(traj)]

-----------------------------------------------------------------------------
(* plan() begins: it takes the goals, and makes their tables until the     *)
(* time is over, which may be at once.  (The clock is read again for every *)
(* agent: once late, it stays late.)                                       *)
PlanBegin ==
  /\ pc = "idle" /\ pc' = "task_change"
  /\ \E n \in 0..NumAgents :
       /\ late' = (n < NumAgents)
       /\ heuristics' = [g \in Free |->
            IF heuristics[g] = EmptyTable /\ \E a \in 0..n-1 : goal_locations[a] = g
              THEN init_heuristic(g) ELSE heuristics[g]]
  /\ dummy_goals' = IF curr_timestep = 0 THEN [a \in Agents |-> Loc(a)] ELSE dummy_goals
  /\ tasks' = [a \in Agents |->
       IF goal_locations[a] = None THEN dummy_goals'[a] ELSE goal_locations[a]]
  /\ agent' = 0 /\ rounds' = 0
  /\ UNCHANGED <<reported, lns, planned, back, search>>

(* Slip: a path to another goal is kept. *)
require_guide_pathOnce(a) == trajs[a] = <<>>

require_guide_path(a) == trajs[a] = <<>> \/ Last(trajs[a]) # tasks[a]

(* How far the search takes it to be from a cell to a goal whose table has *)
(* just been asked: a dummy goal may have none.                            *)
Estimate(goal, table, c) ==
  IF table = EmptyTable THEN manhattanDistance(c, goal) ELSE table.cost[c]

(* Removes the path of an agent, if it has one, and begins the search for  *)
(* another: the heuristic of the start is asked for, and an agent that is  *)
(* at its goal has its path at once.                                       *)
Replan(a) ==
  /\ IF trajs[a] = <<>> THEN UNCHANGED <<flow, soc>> ELSE remove_traj(a)
  /\ heuristics' = [heuristics EXCEPT ![tasks[a]] = Asked(@, Loc(a))]
  /\ planned' = a /\ back' = pc /\ pc' = "search"
  /\ mem' = [c \in {Loc(a)} |->
       Node(0, Estimate(tasks[a], heuristics'[tasks[a]], c), 0, 0, None, 0)]
  /\ open' = <<Loc(a)>>
  /\ UNCHANGED <<reported, trajs, traj_dists, curr, left>>

TaskChange ==
  /\ pc = "task_change" /\ agent < NumAgents /\ ~late
  /\ agent' = agent + 1
  /\ IF require_guide_path(agent) THEN Replan(agent)
     ELSE UNCHANGED <<pc, reported, heuristics, lns, planned, back, search>>
  /\ UNCHANGED <<late, rounds, tasks, dummy_goals>>

(* update_fw_metrics asks how far each agent is from its path.             *)
FrankWolfeBegin ==
  /\ pc = "task_change"
  /\ agent = NumAgents \/ late
  /\ pc' = "frank_wolfe"
  /\ traj_dists' = [a \in Agents |->
       IF trajs[a] = <<>> THEN traj_dists[a] ELSE Asked(traj_dists[a], Loc(a))]
  /\ UNCHANGED <<reported, loop, heuristics, trajs, flow, soc, planned, back, search>>

FrankWolfe ==
  /\ pc = "frank_wolfe" /\ ~late /\ rounds < MaxRounds
  /\ rounds' = rounds + 1
  /\ \E a \in Agents : trajs[a] # <<>> /\ Replan(a)
  /\ UNCHANGED <<late, agent, tasks, dummy_goals>>

(* The deadline passes while plan() is in one of its loops.                *)
Deadline ==
  /\ pc \in {"task_change", "frank_wolfe"} /\ ~late
  /\ late' = TRUE
  /\ UNCHANGED <<pc, reported, agent, rounds, tasks, dummy_goals,
                 heuristics, lns, planned, back, search>>
-----------------------------------------------------------------------------
(* The search (astar).                                                     *)

SearchUnchanged == UNCHANGED <<reported, loop, back>>

(* The way back over the parents of a node.                                *)
PathTo(c) ==
  LET path[n \in 0..Rows*Cols] ==
        IF n = 0 THEN <<c>>
        ELSE LET rest == path[n-1] IN
             IF mem[Head(rest)].parent = None THEN rest
             ELSE <<mem[Head(rest)].parent>> \o rest
  IN  path[Rows*Cols]

(* The best open node is closed and expanded.                              *)
Pop ==
  /\ pc = "search" /\ left = <<>> /\ open # <<>>
  /\ Head(open) # tasks[planned]
  /\ open' \in pop(mem, open)
  /\ curr' = Head(open) /\ left' = global_neighbors[Head(open)]
  /\ mem' = [mem EXCEPT ![Head(open)].closed = TRUE]
  /\ SearchUnchanged /\ UNCHANGED <<pc, heuristics, lns, planned>>

(* It is the goal.                                                         *)
FindPath ==
  /\ pc = "search" /\ left = <<>> /\ open # <<>>
  /\ Head(open) = tasks[planned]
  /\ update_traj(planned, PathTo(tasks[planned]))
  /\ pc' = back /\ planned' = None /\ EndSearch
  /\ SearchUnchanged /\ UNCHANGED heuristics

(* There is none: the program exits.                                       *)
FindNoPath ==
  /\ pc = "search" /\ left = <<>> /\ open = <<>>
  /\ pc' = "exit"
  /\ SearchUnchanged /\ UNCHANGED <<heuristics, lns, planned, search>>

(* All the traffic through a cell. *)
SumOverEdges(c) == flow[c][0] + flow[c][1] + flow[c][2] + flow[c][3]

(* Slip: traffic the same way counts, not traffic against it. *)
StepNodeAlong(next, h) ==
  LET from == mem[curr]
      d == get_d(next - curr)
  IN  Node(from.g + 1, h,
           from.op_flow + (flow[curr][d] + 1) * flow[next][d],
           from.all_vertex_flow + SumOverEdges(next) \div 2,
           curr,
           IF from.parent = None \/ get_d(curr - from.parent) = d THEN 0 ELSE 1)

(* The node for a neighbor of the one that is expanded.  (The tie breaker  *)
(* of the neighbors of the start is not initialised; they are the only     *)
(* nodes of their depth, and all have the same value there.)               *)
StepNode(next, h) ==
  LET from == mem[curr]
      d == get_d(next - curr)
  IN  Node(from.g + 1, h,
           from.op_flow + (flow[curr][d] + 1) * flow[next][(d + 2) % 4],
           from.all_vertex_flow + SumOverEdges(next) \div 2,
           curr,
           IF from.parent = None \/ get_d(curr - from.parent) = d THEN 0 ELSE 1)

(* The next neighbor is looked at: it is new, or open and better reached   *)
(* this way, or nothing changes; a closed node that is better reached this *)
(* way ends the program.                                                   *)
Generate ==
  /\ pc = "search" /\ left # <<>>
  /\ left' = Tail(left)
  /\ LET next == Head(left)
         table == Asked(heuristics[tasks[planned]], next)
         node == StepNode(next, Estimate(tasks[planned], table, next))
     IN
     /\ heuristics' = [heuristics EXCEPT ![tasks[planned]] = table]
     /\ \/ /\ next \notin DOMAIN mem
           /\ mem' = [c \in DOMAIN mem \cup {next} |-> IF c = next THEN node ELSE mem[c]]
           /\ open' \in push(mem', open, next)
           /\ UNCHANGED pc
        \/ /\ next \in DOMAIN mem /\ ~mem[next].closed /\ re(node, mem[next])
           /\ mem' = [mem EXCEPT ![next] = [node EXCEPT !.h = mem[next].h]]
           /\ open' \in decrease_key(mem', open, next)
           /\ UNCHANGED pc
        \/ /\ next \in DOMAIN mem /\ mem[next].closed /\ re(node, mem[next])
           /\ pc' = "exit"
           /\ UNCHANGED <<mem, open>>
        \/ /\ next \in DOMAIN mem /\ ~re(node, mem[next])
           /\ UNCHANGED <<pc, mem, open>>
  /\ SearchUnchanged /\ UNCHANGED <<lns, planned, curr>>

-----------------------------------------------------------------------------
(* causalPIBT asks how far the cell of an agent and those around it are    *)
(* from its path or, without one, from its goal; agents that keep their    *)
(* decision do not ask (get_gp_h).                                         *)
Pibt ==
  /\ pc = "frank_wolfe"
  /\ late \/ rounds = MaxRounds
  /\ pc' = "pibt"
  /\ \E deciding \in SUBSET Agents :
       LET Around(a) == Append(global_neighbors[Loc(a)], Loc(a))
           unguided(g) == {a \in deciding : trajs[a] = <<>> /\ tasks[a] = g}
       IN /\ traj_dists' = [a \in Agents |->
               IF a \in deciding /\ trajs[a] # <<>>
                 THEN AskedAll(traj_dists[a], Around(a)) ELSE traj_dists[a]]
          /\ heuristics' = [g \in Free |->
               LET table[n \in 0..NumAgents] ==
                     IF n = 0 THEN heuristics[g]
                     ELSE IF n - 1 \in unguided(g) THEN AskedAll(table[n-1], Around(n-1))
                     ELSE table[n-1]
               IN  IF heuristics[g] = EmptyTable THEN EmptyTable ELSE table[NumAgents]]
  /\ UNCHANGED <<reported, loop, trajs, flow, soc, planned, back, search>>

(* plan() returns, and its caller reports its agents: they have gone one   *)
(* step at most, or some have been moved elsewhere; they may have any      *)
(* goals.                                                                  *)
Report ==
  /\ pc = "pibt" /\ pc' = "idle"
  /\ curr_timestep < MaxTimestep /\ curr_timestep' = curr_timestep + 1
  /\ curr_states' \in {s \in Placements :
       \/ \A a \in Agents : AllowedMove(Loc(a), s[a].location)
       \/ Cardinality({a \in Agents : s[a] # curr_states[a]}) <= MaxMoved}
  /\ goal_locations' \in [Agents -> Goals \cup {None}]
  /\ UNCHANGED <<loop, heuristics, lns, planned, back, search>>

GuideNext == \/ PlanBegin \/ TaskChange \/ FrankWolfeBegin \/ FrankWolfe
             \/ Deadline \/ Pop \/ FindPath \/ FindNoPath \/ Generate
             \/ Pibt \/ Report

GuideSpec == GuideInit /\ [][GuideNext]_vars
-----------------------------------------------------------------------------
(* Every variable has its type, there is a search exactly when an agent's  *)
(* path is being searched, and the heap holds the open nodes, each once.   *)
GuideTypeOK ==
  LET Table == [cost : [Cells -> 0..MAX_TIMESTEP], togo : [Cells -> Nat],
                open : Seq(Free)]
      NodeType == [g : Nat, h : Nat, op_flow : Int, all_vertex_flow : Int,
                   closed : BOOLEAN, parent : Free \cup {None}, tie_breaker : {0, 1}]
  IN
  /\ pc \in {"idle", "task_change", "frank_wolfe", "search", "pibt", "exit"}
  /\ curr_states \in Placements /\ goal_locations \in [Agents -> Goals \cup {None}]
  /\ agent \in 0..NumAgents
  /\ tasks \in [Agents -> Cells] /\ (pc # "idle" => tasks \in [Agents -> Free])
  /\ curr_timestep \in Nat /\ dummy_goals \in [Agents -> Cells]
  /\ curr_timestep > 0 \/ pc # "idle" => dummy_goals \in [Agents -> Free]
  /\ heuristics \in [Free -> Table] /\ traj_dists \in [Agents -> Table]
  /\ trajs \in [Agents -> Seq(Free)]
  /\ flow \in [Cells -> [Orientation -> Int]] /\ soc \in Int
  /\ IF pc \in {"search", "exit"}
       THEN planned \in Agents /\ back \in {"task_change", "frank_wolfe"}
       ELSE planned = None /\ NoSearch
  /\ DOMAIN mem \subseteq Free /\ mem \in [DOMAIN mem -> NodeType]
  /\ open \in Seq(Free) /\ left \in Seq(Free)
  /\ ToSet(open) = {c \in DOMAIN mem : ~mem[c].closed}
  /\ \A i, j \in DOMAIN open : open[i] = open[j] => i = j

(* The nodes of a search hang together: each but that of the agent's place *)
(* has a closed node one step before it.                                   *)
SearchTree ==
  /\ \A c \in DOMAIN mem :
       LET parent == mem[c].parent IN
       IF parent = None THEN c = Loc(planned)
       ELSE /\ parent \in DOMAIN mem /\ mem[parent].closed
            /\ c \in Neighbors(parent) /\ mem[c].g = mem[parent].g + 1
  /\ left # <<>> => /\ curr \in DOMAIN mem /\ mem[curr].closed
                    /\ \A i \in DOMAIN left : left[i] \in Neighbors(curr)

(* A trajectory goes from neighbor to neighbor, and nowhere twice.         *)
TrajsAreWays == \A a \in Agents :
  /\ \A i \in 2..Len(trajs[a]) : trajs[a][i] \in Neighbors(trajs[a][i-1])
  /\ \A i, j \in DOMAIN trajs[a] : trajs[a][i] = trajs[a][j] => i = j

(* An agent that had its turn has a trajectory to its goal.                *)
ServedHaveWays == \A a \in 0..agent-1 :
  a # planned => trajs[a] # <<>> /\ Last(trajs[a]) = tasks[a]

(* What all of this rests on.                                              *)
GuideInv == GuideTypeOK /\ SearchTree /\ TrajsAreWays /\ ServedHaveWays

(* The distance to a goal that the planner works with is the real one.     *)
HeuristicsAreExact ==
  \A g \in Free : heuristics[g] # EmptyTable => Exact(heuristics[g], distance[g])

(* The table of an agent holds the distances to its present trajectory,    *)
(* and how far from there it is to its end, never those of a former one.   *)
GuidesAreExact ==
  \A a \in Agents : trajs[a] # <<>> =>
    Exact(traj_dists[a], DistanceToWay(trajs[a])) /\ LeadsToWay(traj_dists[a], trajs[a])

TablesAreExact == HeuristicsAreExact /\ GuidesAreExact

(* Those whose trajectory is part of the flow.                             *)
OnTheirWay == {a \in Agents : trajs[a] # <<>> /\ a # planned}

(* The flow of an edge is the number of trajectories that take it, and soc *)
(* is their length, through replanning, changes of goals and deadlines.    *)
(* (A count that falls below 0 would mislead the search, or end it.)       *)
FlowIsOfTrajs ==
  /\ \A c \in Cells, d \in Orientation :
       flow[c][d] = Cardinality({a \in OnTheirWay : EdgesOf(trajs[a])[c][d] = 1})
  /\ soc = Cardinality(UNION {{a} \X (2..Len(trajs[a])) : a \in OnTheirWay})

(* The planner ends the program only when a goal cannot be reached from    *)
(* where its agent stands: the search never meets a closed node again by a *)
(* better way.                                                             *)
ExitsForNoPathOnly ==
  pc = "exit" => distance[tasks[planned]][Loc(planned)] = Unreachable

(* An agent whose turn came before the deadline is guided to its goal, and *)
(* from where it stands if its goal was new.                               *)
GuidesLeadToGoals ==
  pc \in {"frank_wolfe", "pibt"} =>
    \A a \in 0..agent-1 : trajs[a] # <<>> /\ Last(trajs[a]) = tasks[a]

(* All ways from one cell to another.                                      *)
Walks == UNION {[1..n -> Free] : n \in 1..Cardinality(Free)}
SimplePaths ==
  [from \in Free |-> [to \in Free |->
    {p \in Walks :
       /\ p[1] = from /\ Last(p) = to
       /\ \A i \in 2..Len(p) : p[i] \in Neighbors(p[i-1])
       /\ \A i, j \in DOMAIN p : p[i] = p[j] => i = j}]]

(* What a step costs: itself, the traffic against it and half the traffic  *)
(* through the cell it goes to.                                            *)
StepCost(from, to) ==
  LET d == get_d(to - from) IN
  1 + (flow[from][d] + 1) * flow[to][(d + 2) % 4] + SumOverEdges(to) \div 2

CostOf(path) ==
  LET cost[i \in 1..Len(path)] ==
        IF i = 1 THEN 0 ELSE cost[i-1] + StepCost(path[i-1], path[i])
  IN  cost[Len(path)]

(* A new trajectory goes from where the agent stands to its goal, and no   *)
(* other way costs less in the traffic of the other agents.                *)
GuidesAreCheapest ==
  [][\A a \in Agents : trajs'[a] # trajs[a] =>
       /\ trajs'[a] \in SimplePaths[Loc(a)][tasks[a]]
       /\ \A p \in SimplePaths[Loc(a)][tasks[a]] :
            CostOf(trajs'[a]) <= CostOf(p)]_vars

-----------------------------------------------------------------------------
(* What the exactness of the tables and the choice of ways rest on.        *)

(* So it is with all tables that have been begun; those of the agents'     *)
(* goals are, while there is time to search for paths.                     *)
TablesInOrder ==
  /\ \A g \in Free :
       heuristics[g] # EmptyTable => BreadthFirst(heuristics[g], distance[g])
  /\ \A a \in Agents : trajs[a] # <<>> =>
       /\ BreadthFirst(traj_dists[a], DistanceToWay(trajs[a]))
       /\ LeadsToWay(traj_dists[a], trajs[a])
  /\ pc # "idle" /\ ~late => \A a \in Agents :
       goal_locations[a] # None => heuristics[tasks[a]] # EmptyTable
  /\ pc = "search" => ~late

(* How far it is to a goal, as far as the search can know.                 *)
ToGo(goal, c) == IF heuristics[goal] = EmptyTable THEN manhattanDistance(c, goal)
                                                  ELSE Entry(distance[goal][c])

(* What the way to a node costs.                                           *)
WayCost(n) == n.g + n.op_flow + n.all_vertex_flow

(* The search for a path takes nodes in the order of their cost, cost of   *)
(* the way and distance to the goal together: it has closed those that     *)
(* cost least, and the way over the parents of a node is the cheapest one  *)
(* over closed nodes.                                                      *)
BestFirst ==
  LET closed == {c \in DOMAIN mem : mem[c].closed} IN
  pc = "search" =>
  /\ Loc(planned) \in DOMAIN mem /\ mem[Loc(planned)].parent = None
  /\ \A c \in DOMAIN mem :
       /\ mem[c].h = ToGo(tasks[planned], c)
       /\ WayCost(mem[c]) >= 0
       /\ IF mem[c].parent = None THEN WayCost(mem[c]) = 0
          ELSE WayCost(mem[c]) = WayCost(mem[mem[c].parent]) + StepCost(mem[c].parent, c)
  /\ tasks[planned] \notin closed
  /\ \A c \in closed :
       /\ \A n \in Neighbors(c) :
            \/ c = curr /\ n \in ToSet(left)
            \/ /\ n \in DOMAIN mem
               /\ WayCost(mem[n]) <= WayCost(mem[c]) + StepCost(c, n)
       /\ left # <<>> => get_all(mem[c]) <= get_all(mem[curr])
       /\ \A n \in ToSet(open) : get_all(mem[c]) <= get_all(mem[n])
  /\ \A i \in 2..Len(open) : get_all(mem[open[i \div 2]]) <= get_all(mem[open[i]])
=============================================================================
