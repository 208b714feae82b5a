--------------------------- MODULE GuidePathsProofs ---------------------------
(***************************************************************************)
(* Proofs about the guide paths, for every grid, team and set of goals.    *)
(***************************************************************************)
EXTENDS GuidePaths, SearchProofs

(* What the assumptions say of the cells.                                  *)
LEMMA Places == None \notin Free /\ Goals \subseteq Free
BY Grid, GuidePathsAssumption DEF None

(* What the search takes a distance to be is a number.                     *)
LEMMA EstimatesAreNumbers ==
  ASSUME NEW t \in Table, NEW goal \in Free, NEW c \in Cells
  PROVE  Estimate(goal, t, c) \in Nat
<1>1. t.cost[c] \in Nat
  <2>1. t.cost \in [Cells -> 0..MAX_TIMESTEP]
    BY DEF Table
  <2> DEFINE f == t.cost
  <2> HIDE DEF f
  <2>2. f[c] \in 0..MAX_TIMESTEP
    BY <2>1 DEF f
  <2>3. f[c] \in Nat
    BY <2>2, Grid
  <2> QED BY <2>3 DEF f
<1>2. manhattanDistance(c, goal) \in Nat
  <2> DEFINE i == RowOf(c) - RowOf(goal)
             j == ColOf(c) - ColOf(goal)
  <2>1. i \in Int /\ j \in Int
    BY Grid, StepsOnGrid
  <2>2. manhattanDistance(c, goal) = Abs(i) + Abs(j)
    BY DEF manhattanDistance
  <2> HIDE DEF i, j
  <2> QED BY <2>1, <2>2 DEF Abs
<1> QED BY <1>1, <1>2 DEF Estimate

-----------------------------------------------------------------------------
(* The way back to the start of a search.                                  *)

(* The ways to c over nodes of the search and their parents.               *)
WaysTo(c) ==
  {p \in Seq(DOMAIN mem) :
     /\ p # <<>> /\ Last(p) = c
     /\ \A i \in 2..Len(p) : p[i] \in Neighbors(p[i-1]) /\ mem[p[i]].parent = p[i-1]
     /\ \A i \in 1..Len(p) : mem[p[i]].g = mem[p[1]].g + i - 1}

(* The nodes are numbered by steps, and point to cells.                    *)
LEMMA NodesOfSearch ==
  ASSUME GuideTypeOK
  PROVE  /\ DOMAIN mem \subseteq Free
         /\ \A c \in DOMAIN mem : mem[c].g \in Nat /\ mem[c].parent \in Free \cup {None}
BY DEF GuideTypeOK

(* The parent of the first node makes a way one step longer.               *)
LEMMA WaysAreLonger ==
  ASSUME GuideTypeOK, SearchTree, NEW c, NEW p \in WaysTo(c), mem[Head(p)].parent # None
  PROVE  /\ <<mem[Head(p)].parent>> \o p \in WaysTo(c)
         /\ Len(<<mem[Head(p)].parent>> \o p) = Len(p) + 1
<1> DEFINE n == Len(p)
           parent == mem[Head(p)].parent
           q == <<parent>> \o p
<1>1. /\ p \in Seq(DOMAIN mem) /\ p # <<>> /\ Last(p) = c
      /\ \A i \in 2..n : p[i] \in Neighbors(p[i-1]) /\ mem[p[i]].parent = p[i-1]
      /\ \A i \in 1..n : mem[p[i]].g = mem[p[1]].g + i - 1
  BY DEF WaysTo
<1>2. n \in Nat \ {0} /\ p \in [1..n -> DOMAIN mem] /\ Head(p) = p[1] /\ Last(p) = p[n]
  BY <1>1, LenProperties, EmptySeq DEF Last
<1>3. p[1] \in DOMAIN mem
  BY <1>2
<1>4. /\ parent \in DOMAIN mem /\ p[1] \in Neighbors(parent) /\ mem[p[1]].parent = parent
      /\ mem[p[1]].g = mem[parent].g + 1
  BY <1>2, <1>3 DEF SearchTree
<1>5. mem[parent].g \in Nat /\ mem[p[1]].g \in Nat
  BY <1>3, <1>4, NodesOfSearch
<1> HIDE DEF n, parent
<1>6. /\ q \in Seq(DOMAIN mem) /\ Len(q) = n + 1 /\ q[1] = parent
      /\ \A i \in 2..n+1 : q[i] = p[i-1]
  <2>1. <<parent>> \in Seq(DOMAIN mem) /\ Len(<<parent>>) = 1 /\ <<parent>>[1] = parent
    BY <1>4
  <2>2. /\ q \in Seq(DOMAIN mem) /\ Len(q) = 1 + n
        /\ \A i \in 1..1+n : q[i] = IF i <= 1 THEN <<parent>>[i] ELSE p[i - 1]
    BY <1>1, <2>1, ConcatProperties DEF n
  <2> QED BY <1>2, <2>1, <2>2
<1> HIDE DEF q
<1>7. q # <<>> /\ Last(q) = c
  <2>1. q[n+1] = p[n]
    BY <1>2, <1>6
  <2> QED BY <1>1, <1>2, <1>6, <2>1 DEF Last
<1>8. ASSUME NEW i \in 2..Len(q)
      PROVE  q[i] \in Neighbors(q[i-1]) /\ mem[q[i]].parent = q[i-1]
  <2>1. CASE i = 2
    BY <1>2, <1>4, <1>6, <2>1
  <2>2. CASE i # 2
    <3>1. i - 1 \in 2..n /\ i - 1 \in 2..n+1 /\ i \in 2..n+1
      BY <1>2, <1>6, <2>2
    <3> QED BY <1>1, <1>6, <3>1
  <2> QED BY <2>1, <2>2
<1>9. ASSUME NEW i \in 1..Len(q) PROVE mem[q[i]].g = mem[q[1]].g + i - 1
  <2>1. CASE i = 1
    BY <1>5, <1>6, <2>1
  <2>2. CASE i # 1
    <3>1. i - 1 \in 1..n /\ i \in 2..n+1
      BY <1>2, <1>6, <2>2
    <3>2. mem[p[i-1]].g = mem[p[1]].g + (i - 1) - 1
      BY <1>1, <3>1
    <3>3. q[i] = p[i-1] /\ q[1] = parent /\ i \in Int
      BY <1>2, <1>6, <3>1
    <3>4. \A x, y \in Int : x = y + 1 => x + (i - 1) - 1 = y + i - 1
      BY <3>3
    <3> QED BY <1>4, <1>5, <3>2, <3>3, <3>4
  <2> QED BY <2>1, <2>2
<1>10. q \in WaysTo(c)
  BY <1>6, <1>7, <1>8, <1>9 DEF WaysTo
<1>11. Len(q) = Len(p) + 1
  BY <1>6 DEF n
<1> QED BY <1>10, <1>11 DEF q, parent

(* A way to the goal that a search found visits no cell twice.             *)
LEMMA WaysAreSimple ==
  ASSUME GuideTypeOK, NEW c, NEW p \in WaysTo(c)
  PROVE  /\ p \in Seq(Free) /\ p # <<>> /\ Last(p) = c
         /\ \A i \in 2..Len(p) : p[i] \in Neighbors(p[i-1])
         /\ \A i, j \in DOMAIN p : p[i] = p[j] => i = j
<1>1. p \in Seq(DOMAIN mem) /\ \A i \in 1..Len(p) : mem[p[i]].g = mem[p[1]].g + i - 1
  BY DEF WaysTo
<1>2. p \in Seq(Free)
  BY <1>1, NodesOfSearch, SeqMonotonic
<1>3. Len(p) \in Nat /\ DOMAIN p = 1..Len(p) /\ p \in [1..Len(p) -> DOMAIN mem]
  BY <1>1, LenProperties
<1>4. ASSUME NEW i \in DOMAIN p, NEW j \in DOMAIN p, p[i] = p[j] PROVE i = j
  <2>1. 1 \in 1..Len(p) /\ i \in 1..Len(p) /\ j \in 1..Len(p)
    BY <1>3
  <2>2. mem[p[1]].g \in Nat
    BY <1>3, <2>1, NodesOfSearch
  <2>3. mem[p[1]].g + i - 1 = mem[p[1]].g + j - 1
    BY <1>1, <1>4, <2>1
  <2> QED BY <2>1, <2>2, <2>3
<1> QED BY <1>2, <1>4 DEF WaysTo

(* No way that visits no cell twice is longer than there are cells.        *)
LEMMA WaysAreShort ==
  ASSUME NEW p \in Seq(Free), \A i, j \in DOMAIN p : p[i] = p[j] => i = j
  PROVE  /\ Len(p) <= Cardinality(Free) /\ Len(p) <= Rows * Cols
         /\ Len(p) \in Nat /\ Cardinality(Free) \in Nat
<1> DEFINE N == Rows * Cols
           n == Len(p)
<1>1. n \in Nat /\ DOMAIN p = 1..n /\ p \in [1..n -> Free]
  BY LenProperties
<1>2. N \in Nat
  BY Grid
<1>3. Cells = 0..N-1
  BY DEF Cells
<1> HIDE DEF N, n
<1>4. IsFiniteSet(1..n) /\ Cardinality(1..n) = n
  <2>1. 1 \in Int /\ n \in Int
    BY <1>1
  <2>2. IsFiniteSet(1..n) /\ Cardinality(1..n) = IF 1 > n THEN 0 ELSE (n - 1) + 1
    BY <2>1, FS_Interval
  <2> QED BY <1>1, <2>2
<1>5. IsFiniteSet(Cells) /\ Cardinality(Cells) = N
  <2>1. 0 \in Int /\ N - 1 \in Int
    BY <1>2
  <2>2. IsFiniteSet(0..N-1) /\ Cardinality(0..N-1) = IF 0 > N - 1 THEN 0 ELSE (N - 1 - 0) + 1
    BY <2>1, FS_Interval
  <2> QED BY <1>2, <1>3, <2>2
<1>6. IsFiniteSet(Free) /\ Cardinality(Free) <= Cardinality(Cells) /\ Cardinality(Free) \in Nat
  BY <1>5, Grid, FS_Subset, FS_CardinalityType
<1>7. p \in Injection(1..n, Free)
  BY <1>1 DEF Injection, IsInjective
<1>8. Cardinality(1..n) <= Cardinality(Free)
  BY <1>6, <1>7, FS_Injection, Zenon
<1>9. n <= Cardinality(Free) /\ n <= N
  BY <1>1, <1>2, <1>4, <1>5, <1>6, <1>8
<1> QED BY <1>1, <1>6, <1>9 DEF N, n

(* What the search reads off over the parents is such a way, from where    *)
(* the agent stands.                                                       *)
LEMMA PathToIsAWay ==
  ASSUME GuideTypeOK, SearchTree, NEW c \in DOMAIN mem
  PROVE  PathTo(c) \in WaysTo(c) /\ PathTo(c)[1] = Loc(planned)
<1> DEFINE N == Rows * Cols
           S == WaysTo(c)
           first == <<c>>
           After(rest) == IF mem[Head(rest)].parent = None THEN rest
                          ELSE <<mem[Head(rest)].parent>> \o rest
           step == [x \in (1..N) \X S |-> After(x[2])]
<1>1. N \in Nat
  BY Grid, Places
<1>2. first \in S
  <2>1. first \in Seq(DOMAIN mem) /\ first # <<>> /\ Len(first) = 1 /\ first[1] = c
    OBVIOUS
  <2>2. Last(first) = c
    BY <2>1 DEF Last
  <2>3. mem[c].g \in Nat
    BY NodesOfSearch
  <2> HIDE DEF first
  <2>4. \A i \in 2..Len(first) :
          first[i] \in Neighbors(first[i-1]) /\ mem[first[i]].parent = first[i-1]
    BY <2>1
  <2>5. \A i \in 1..Len(first) : mem[first[i]].g = mem[first[1]].g + i - 1
    BY <2>1, <2>3
  <2> QED BY <2>1, <2>2, <2>4, <2>5 DEF WaysTo
<1>3. ASSUME NEW rest \in S
      PROVE  /\ After(rest) \in S
             /\ \/ mem[Head(rest)].parent = None /\ After(rest) = rest
                \/ Len(After(rest)) = Len(rest) + 1
  BY WaysAreLonger
<1> DEFINE Done(rest, n) == mem[Head(rest)].parent = None \/ Len(rest) = n + 1
<1>A. Done(first, 0)
  OBVIOUS
<1>B. ASSUME NEW rest \in S, NEW n \in 1..N, Done(rest, n - 1) PROVE Done(After(rest), n)
  <2>1. CASE mem[Head(rest)].parent = None /\ After(rest) = rest
    BY <2>1
  <2>2. CASE mem[Head(rest)].parent # None
    BY <1>3, <1>B, <2>2
  <2> QED BY <1>3, <2>1, <2>2
<1> HIDE DEF N, S, first, After, Done
<1>4. step \in Steps(N, S)
  BY <1>3 DEF Steps
<1> HIDE DEF step
<1>5. PICK g : Runs(g, N, S, first, step)
  BY <1>1, <1>2, <1>4, Loop
<1>6. g = [n \in 0..N |-> IF n = 0 THEN first ELSE After(g[n-1])]
  <2>1. ASSUME NEW n \in 0..N
        PROVE  g[n] = IF n = 0 THEN first ELSE After(g[n-1])
    <3>1. n = 0 \/ n \in 1..N
      BY <1>1
    <3> QED BY <1>5, <3>1 DEF Runs, step
  <2>2. g \in [0..N -> S]
    BY <1>5 DEF Runs
  <2> QED BY <2>1, <2>2, Zenon
<1> DEFINE path == CHOOSE f : f = [n \in 0..N |-> IF n = 0 THEN first ELSE After(f[n-1])]
<1>7. path = [n \in 0..N |-> IF n = 0 THEN first ELSE After(path[n-1])]
  BY <1>6, Zenon
<1>8. PathTo(c) = path[N]
  BY DEF PathTo, N, first, After
<1> HIDE DEF path
<1>9. \A n \in 0..N : path[n] \in S /\ Done(path[n], n)
  <2> DEFINE T == {n \in 0..N : path[n] \in S /\ Done(path[n], n)}
  <2>1. 0 \in T
    BY <1>1, <1>2, <1>7, <1>A
  <2>2. ASSUME NEW n \in 1..N, n - 1 \in T PROVE n \in T
    <3>1. n \in 0..N /\ n # 0
      BY <1>1
    <3>2. path[n] = After(path[n-1])
      BY <1>7, <3>1, Zenon
    <3>3. path[n-1] \in S /\ Done(path[n-1], n-1)
      BY <2>2
    <3>4. path[n] \in S /\ Done(path[n], n)
      BY <1>3, <1>B, <3>2, <3>3, Zenon
    <3> QED BY <3>1, <3>4
  <2> HIDE DEF T
  <2>3. \A n \in 0..N : n \in T
    BY <1>1, <2>1, <2>2, UpTo
  <2> QED BY <2>3 DEF T
<1>10. PathTo(c) \in WaysTo(c) /\ Done(PathTo(c), N)
  <2>1. path[N] \in S /\ Done(path[N], N)
    BY <1>1, <1>9
  <2> QED BY <1>8, <2>1 DEF S
<1> DEFINE p == PathTo(c)
<1>11. /\ p \in Seq(Free) /\ p # <<>> /\ \A i, j \in DOMAIN p : p[i] = p[j] => i = j
       /\ p \in Seq(DOMAIN mem)
  BY <1>10, WaysAreSimple DEF WaysTo
<1> HIDE DEF p
<1>12. Len(p) <= N /\ Len(p) \in Nat /\ Len(p) # 0 /\ Head(p) = p[1] /\ p[1] \in DOMAIN mem
  <2>1. Len(p) <= N /\ Len(p) \in Nat
    BY <1>11, WaysAreShort DEF N
  <2>2. p \in [1..Len(p) -> DOMAIN mem] /\ Len(p) # 0
    BY <1>11, <2>1, LenProperties, EmptySeq
  <2>3. p[1] \in DOMAIN mem
    BY <2>1, <2>2
  <2> QED BY <1>11, <2>1, <2>2, <2>3
<1>13. mem[p[1]].parent = None
  BY <1>1, <1>10, <1>12 DEF Done, p
<1>14. p[1] = Loc(planned)
  BY <1>12, <1>13 DEF SearchTree
<1> QED BY <1>10, <1>14 DEF p

-----------------------------------------------------------------------------
(* The invariant, in two parts: what plan() keeps, and the search.         *)

NodeType == [g : Nat, h : Nat, op_flow : Int, all_vertex_flow : Int,
             closed : BOOLEAN, parent : Free \cup {None}, tie_breaker : {0, 1}]

PlanTypeOK ==
  /\ pc \in {"idle", "task_change", "frank_wolfe", "search", "pibt", "exit"}
  /\ curr_states \in Placements /\ goal_locations \in [Agents -> Goals \cup {None}]
  /\ agent \in 0..NumAgents
  /\ tasks \in [Agents -> Cells] /\ (pc # "idle" => tasks \in [Agents -> Free])
  /\ curr_timestep \in Nat /\ dummy_goals \in [Agents -> Cells]
  /\ curr_timestep > 0 \/ pc # "idle" => dummy_goals \in [Agents -> Free]
  /\ heuristics \in [Free -> Table] /\ traj_dists \in [Agents -> Table]
  /\ trajs \in [Agents -> Seq(Free)]
  /\ flow \in [Cells -> [Orientation -> Int]] /\ soc \in Int
  /\ IF pc \in {"search", "exit"}
       THEN planned \in Agents /\ back \in {"task_change", "frank_wolfe"}
       ELSE planned = None /\ NoSearch

SearchTypeOK ==
  /\ DOMAIN mem \subseteq Free /\ mem \in [DOMAIN mem -> NodeType]
  /\ open \in Heaps(Free) /\ left \in Seq(Free)
  /\ ToSet(open) = {c \in DOMAIN mem : ~mem[c].closed}

(* The two parts are the types and the heap's contents.                    *)
LEMMA TwoParts == GuideTypeOK <=> PlanTypeOK /\ SearchTypeOK
BY DEF GuideTypeOK, PlanTypeOK, SearchTypeOK, Table, NodeType, Heaps, OneEach

(* The same after a step.                                                  *)
LEMMA TwoPartsNext == GuideTypeOK' <=> PlanTypeOK' /\ SearchTypeOK'
BY DEF GuideTypeOK, PlanTypeOK, SearchTypeOK, Table, NodeType, Heaps, OneEach

(* Without a search there is nothing to be wrong about it.                 *)
LEMMA NoSearchIsFine == NoSearch => SearchTypeOK /\ SearchTree
<1> SUFFICES ASSUME NoSearch PROVE SearchTypeOK /\ SearchTree
  OBVIOUS
<1>1. DOMAIN mem = {} /\ mem \in [{} -> NodeType] /\ open = <<>> /\ left = <<>>
  BY DEF NoSearch, NoNodes
<1>2. open \in Heaps(Free) /\ ToSet(open) = {} /\ left \in Seq(Free)
  BY <1>1, EmptySeq DEF Heaps, OneEach, ToSet
<1> QED BY <1>1, <1>2 DEF SearchTypeOK, SearchTree

(* The same after a step.                                                  *)
LEMMA NoSearchIsFineNext == NoSearch' => SearchTypeOK' /\ SearchTree'
<1> SUFFICES ASSUME NoSearch' PROVE SearchTypeOK' /\ SearchTree'
  OBVIOUS
<1>1. DOMAIN mem' = {} /\ mem' \in [{} -> NodeType] /\ open' = <<>> /\ left' = <<>>
  BY DEF NoSearch, NoNodes
<1>2. open' \in Heaps(Free) /\ ToSet(open') = {} /\ left' \in Seq(Free)
  BY <1>1, EmptySeq DEF Heaps, OneEach, ToSet
<1> QED BY <1>1, <1>2 DEF SearchTypeOK, SearchTree

(* Agents stand on free cells.                                             *)
LEMMA Placed ==
  ASSUME PlanTypeOK, NEW a \in Agents
  PROVE  Loc(a) \in Free /\ Loc(a) \in Cells
BY Grid, Places DEF PlanTypeOK, Placements, Loc

(* Every difference of cells is given a direction.                         *)
LEMMA Turns == get_d(1) \in Orientation /\ \A n \in Int : get_d(n) \in Orientation
BY DEF get_d, Orientation

(* How often a trajectory takes an edge is a number.                       *)
LEMMA EdgesAreCounted ==
  ASSUME NEW traj \in Seq(Free), NEW c \in Cells, NEW d \in Orientation
  PROVE  EdgesOf(traj)[c][d] \in Nat
<1> DEFINE E == {j \in 2..Len(traj) : traj[j-1] = c /\ get_d(traj[j] - traj[j-1]) = d}
<1>1. IsFiniteSet(2..Len(traj))
  BY LenProperties, FS_Interval
<1>2. IsFiniteSet(E)
  BY <1>1, FS_Subset
<1>3. EdgesOf(traj)[c][d] = Cardinality(E)
  BY DEF EdgesOf
<1> QED BY <1>2, <1>3, FS_CardinalityType

(* So flow stays a table of numbers.                                       *)
LEMMA FlowStaysANumber ==
  ASSUME PlanTypeOK, NEW traj \in Seq(Free)
  PROVE  /\ [c \in Cells |-> [d \in Orientation |-> flow[c][d] - EdgesOf(traj)[c][d]]]
              \in [Cells -> [Orientation -> Int]]
         /\ [c \in Cells |-> [d \in Orientation |-> flow[c][d] + EdgesOf(traj)[c][d]]]
              \in [Cells -> [Orientation -> Int]]
<1>1. \A c \in Cells, d \in Orientation : flow[c][d] \in Int /\ EdgesOf(traj)[c][d] \in Nat
  BY EdgesAreCounted DEF PlanTypeOK
<1> QED BY <1>1

(* It holds at first.                                                      *)
LEMMA GuideInitial == GuideInit => GuideInv
<1> SUFFICES ASSUME GuideInit PROVE GuideInv
  OBVIOUS
<1>1. PlanTypeOK
  <2>1. /\ heuristics \in [Free -> Table] /\ traj_dists \in [Agents -> Table]
        /\ trajs \in [Agents -> Seq(Free)] /\ tasks \in [Agents -> Cells]
    <3>1. 0 \in Cells
      BY SimulatorAssumption DEF Cells
    <3> QED BY <3>1, NewTables, EmptySeq DEF GuideInit
  <2>2. flow \in [Cells -> [Orientation -> Int]]
    BY DEF GuideInit
  <2> QED BY <2>1, <2>2, Grid, Places DEF GuideInit, PlanTypeOK
<1>2. SearchTypeOK /\ SearchTree
  BY NoSearchIsFine DEF GuideInit
<1>3. TrajsAreWays
  <2>1. \A a \in Agents : trajs[a] = <<>>
    BY DEF GuideInit
  <2> QED BY <2>1 DEF TrajsAreWays
<1>4. ServedHaveWays
  BY DEF GuideInit, ServedHaveWays
<1> QED BY <1>1, <1>2, <1>3, <1>4, TwoParts DEF GuideInv

(* A step outside of the search that leaves trajectories alone.            *)
LEMMA OtherSteps ==
  ASSUME GuideInv, PlanTypeOK', NoSearch', trajs' = trajs, ServedHaveWays'
  PROVE  GuideInv'
BY NoSearchIsFineNext, TwoPartsNext DEF GuideInv, TrajsAreWays

(* plan() begins with new goals and tables; nobody has had a turn.         *)
LEMMA PlanBeginKeeps == ASSUME GuideInv, PlanBegin PROVE GuideInv'
<1>1. PlanTypeOK
  BY TwoParts DEF GuideInv
<1>2. heuristics' \in [Free -> Table]
  <2>1. PICK n \in 0..NumAgents :
          heuristics' = [g \in Free |->
            IF heuristics[g] = EmptyTable /\ \E a \in 0..n-1 : goal_locations[a] = g
              THEN init_heuristic(g) ELSE heuristics[g]]
    BY DEF PlanBegin
  <2>2. \A g \in Free : heuristics[g] \in Table /\ init_heuristic(g) \in Table
    BY <1>1, NewTables, Grid, Places DEF PlanTypeOK
  <2> QED BY <2>1, <2>2
<1>3. NoSearch' /\ trajs' = trajs
  BY <1>1 DEF PlanBegin, PlanTypeOK, NoSearch, search, lns
<1>4. /\ dummy_goals' \in [Agents -> Free] /\ dummy_goals' \in [Agents -> Cells]
      /\ tasks' \in [Agents -> Free] /\ tasks' \in [Agents -> Cells]
  <2>1. dummy_goals' \in [Agents -> Free]
    <3>1. CASE curr_timestep = 0
      BY <1>1, <3>1, Placed DEF PlanBegin
    <3>2. CASE curr_timestep # 0
      BY <1>1, <3>2 DEF PlanBegin, PlanTypeOK
    <3> QED BY <3>1, <3>2
  <2>2. tasks' = [a \in Agents |->
          IF goal_locations[a] = None THEN dummy_goals'[a] ELSE goal_locations[a]]
    BY DEF PlanBegin
  <2>3. tasks' \in [Agents -> Free]
    BY <1>1, <2>1, <2>2, Places DEF PlanTypeOK
  <2> QED BY <2>1, <2>3, Grid
<1>5. PlanTypeOK'
  BY <1>1, <1>2, <1>3, <1>4, Grid, Places DEF PlanBegin, PlanTypeOK, reported, lns
<1>6. ServedHaveWays'
  BY DEF PlanBegin, ServedHaveWays
<1> QED BY <1>3, <1>5, <1>6, OtherSteps

(* The deadline changes nothing else.                                      *)
LEMMA DeadlineKeeps == ASSUME GuideInv, Deadline PROVE GuideInv'
<1>1. PlanTypeOK
  BY TwoParts DEF GuideInv
<1>2. NoSearch' /\ trajs' = trajs
  BY <1>1 DEF Deadline, PlanTypeOK, NoSearch, search, lns
<1>3. PlanTypeOK'
  BY <1>1, <1>2 DEF Deadline, PlanTypeOK, reported, lns
<1>4. ServedHaveWays'
  BY DEF Deadline, ServedHaveWays, GuideInv, lns
<1> QED BY <1>2, <1>3, <1>4, OtherSteps

(* Asking how far agents are from their paths keeps the tables.            *)
LEMMA FrankWolfeBeginKeeps == ASSUME GuideInv, FrankWolfeBegin PROVE GuideInv'
<1>1. PlanTypeOK
  BY TwoParts DEF GuideInv
<1>2. NoSearch' /\ trajs' = trajs
  BY <1>1 DEF FrankWolfeBegin, PlanTypeOK, NoSearch, search
<1>3. traj_dists' \in [Agents -> Table]
  <2>1. \A a \in Agents : traj_dists[a] \in Table /\ Asked(traj_dists[a], Loc(a)) \in Table
    BY <1>1, Placed, AskedTable DEF PlanTypeOK
  <2> QED BY <2>1 DEF FrankWolfeBegin
<1>4. PlanTypeOK'
  BY <1>1, <1>2, <1>3 DEF FrankWolfeBegin, PlanTypeOK, reported, loop
<1>5. ServedHaveWays'
  BY DEF FrankWolfeBegin, ServedHaveWays, GuideInv, loop
<1> QED BY <1>2, <1>4, <1>5, OtherSteps

(* The client's report places agents and names goals.                      *)
LEMMA ReportKeeps == ASSUME GuideInv, Report PROVE GuideInv'
<1>1. PlanTypeOK
  BY TwoParts DEF GuideInv
<1>2. NoSearch' /\ trajs' = trajs
  BY <1>1 DEF Report, PlanTypeOK, NoSearch, search, lns
<1>3. PlanTypeOK'
  BY <1>1, <1>2 DEF Report, PlanTypeOK, lns, loop
<1>4. ServedHaveWays'
  BY DEF Report, ServedHaveWays, GuideInv, loop, lns
<1> QED BY <1>2, <1>3, <1>4, OtherSteps

(* The cells causalPIBT asks about.                                        *)
Around(a) == Append(global_neighbors[Loc(a)], Loc(a))

(* The table of a goal when the agents that are asking have asked it.      *)
AskedAround(first, asking) ==
  LET table[n \in 0..NumAgents] ==
        IF n = 0 THEN first
        ELSE IF n - 1 \in asking THEN AskedAll(table[n-1], Around(n-1))
        ELSE table[n-1]
  IN  table[NumAgents]

(* They are cells.                                                         *)
LEMMA AroundAreCells == ASSUME PlanTypeOK, NEW a \in Agents PROVE Around(a) \in Seq(Cells)
<1>1. Loc(a) \in Cells /\ global_neighbors[Loc(a)] \in Seq(Neighbors(Loc(a)))
  BY Placed, NextCells
<1>2. Neighbors(Loc(a)) \subseteq Cells
  BY Grid DEF Neighbors
<1>3. global_neighbors[Loc(a)] \in Seq(Cells)
  BY <1>1, <1>2, SeqMonotonic
<1> QED BY <1>1, <1>3, AppendProperties DEF Around

(* What questions keep, the questions of all agents keep.                  *)
LEMMA AroundKeeps ==
  ASSUME PlanTypeOK, NEW U,
         \A t \in U : \A sources \in Seq(Cells) : AskedAll(t, sources) \in U,
         NEW first \in U, NEW asking
  PROVE  AskedAround(first, asking) \in U
<1> DEFINE N == NumAgents
           Asks(n) == n - 1 \in asking
           After(t, n) == IF Asks(n) THEN AskedAll(t, Around(n-1)) ELSE t
           step == [x \in (1..N) \X U |-> After(x[2], x[1])]
<1>1. N \in Nat
  BY Grid
<1>2. ASSUME NEW t \in U, NEW n \in 1..N PROVE After(t, n) \in U
  <2>1. n - 1 \in Agents
    BY <1>1 DEF Agents
  <2>2. AskedAll(t, Around(n-1)) \in U
    BY <2>1, AroundAreCells
  <2> QED BY <2>2
<1> HIDE DEF N, After
<1>3. step \in Steps(N, U)
  BY <1>2 DEF Steps
<1> HIDE DEF step
<1>4. PICK r : Runs(r, N, U, first, step)
  BY <1>1, <1>3, Loop
<1>5. r = [n \in 0..N |-> IF n = 0 THEN first ELSE After(r[n-1], n)]
  <2>1. ASSUME NEW n \in 0..N
        PROVE  r[n] = IF n = 0 THEN first ELSE After(r[n-1], n)
    <3>1. n = 0 \/ n \in 1..N
      BY <1>1
    <3> QED BY <1>4, <3>1 DEF Runs, step
  <2>2. r \in [0..N -> U]
    BY <1>4 DEF Runs
  <2> QED BY <2>1, <2>2, Zenon
<1> DEFINE table == CHOOSE f : f = [n \in 0..N |-> IF n = 0 THEN first ELSE After(f[n-1], n)]
<1>6. table = [n \in 0..N |-> IF n = 0 THEN first ELSE After(table[n-1], n)]
  BY <1>5, Zenon
<1>7. AskedAround(first, asking) = table[N]
  BY DEF AskedAround, N, After
<1> HIDE DEF table
<1>8. \A n \in 0..N : table[n] \in U
  <2> DEFINE T == {n \in 0..N : table[n] \in U}
  <2>1. 0 \in T
    BY <1>1, <1>6
  <2>2. ASSUME NEW n \in 1..N, n - 1 \in T PROVE n \in T
    <3>1. n \in 0..N /\ n # 0
      BY <1>1
    <3>2. table[n] = After(table[n-1], n)
      BY <1>6, <3>1, Zenon
    <3>3. table[n] \in U
      BY <1>2, <2>2, <3>2, Zenon
    <3> QED BY <3>1, <3>3
  <2> HIDE DEF T
  <2>3. \A n \in 0..N : n \in T
    BY <1>1, <2>1, <2>2, UpTo
  <2> QED BY <2>3 DEF T
<1> QED BY <1>1, <1>7, <1>8

(* What the questions are, and of whom.                                    *)
LEMMA PibtAsks ==
  ASSUME Pibt
  PROVE  \E deciding \in SUBSET Agents :
           /\ traj_dists' = [a \in Agents |->
                IF a \in deciding /\ trajs[a] # <<>>
                  THEN AskedAll(traj_dists[a], Around(a)) ELSE traj_dists[a]]
           /\ heuristics' = [g \in Free |->
                IF heuristics[g] = EmptyTable THEN EmptyTable
                ELSE AskedAround(heuristics[g],
                                 {a \in deciding : trajs[a] = <<>> /\ tasks[a] = g})]
BY DEF Pibt, Around, AskedAround

(* The questions of causalPIBT, agent by agent, keep the tables.           *)
LEMMA PibtKeeps == ASSUME GuideInv, Pibt PROVE GuideInv'
<1>1. PlanTypeOK
  BY TwoParts DEF GuideInv
<1>2. NoSearch' /\ trajs' = trajs
  BY <1>1 DEF Pibt, PlanTypeOK, NoSearch, search
<1>3. PICK deciding \in SUBSET Agents :
        /\ traj_dists' = [a \in Agents |->
             IF a \in deciding /\ trajs[a] # <<>>
               THEN AskedAll(traj_dists[a], Around(a)) ELSE traj_dists[a]]
        /\ heuristics' = [g \in Free |->
             IF heuristics[g] = EmptyTable THEN EmptyTable
             ELSE AskedAround(heuristics[g],
                              {a \in deciding : trajs[a] = <<>> /\ tasks[a] = g})]
  BY PibtAsks
<1>4. traj_dists' \in [Agents -> Table]
  <2>1. \A a \in Agents : /\ traj_dists[a] \in Table
                          /\ AskedAll(traj_dists[a], Around(a)) \in Table
    BY <1>1, AroundAreCells, AskedAllTable DEF PlanTypeOK
  <2> QED BY <1>3, <2>1
<1>5. heuristics' \in [Free -> Table]
  <2>1. \A g \in Free : heuristics[g] \in Table
    BY <1>1 DEF PlanTypeOK
  <2>2. \A t \in Table : \A sources \in Seq(Cells) : AskedAll(t, sources) \in Table
    BY AskedAllTable
  <2>3. \A g \in Free : \A asking : AskedAround(heuristics[g], asking) \in Table
    BY <1>1, <2>1, <2>2, AroundKeeps
  <2> QED BY <1>3, <2>3, NewTables
<1>6. PlanTypeOK'
  BY <1>1, <1>2, <1>4, <1>5 DEF Pibt, PlanTypeOK, reported, loop
<1>7. ServedHaveWays'
  BY DEF Pibt, ServedHaveWays, GuideInv, loop
<1> QED BY <1>2, <1>6, <1>7, OtherSteps

(* A search begins with the place of its agent.                            *)
LEMMA ReplanBegins ==
  ASSUME PlanTypeOK, pc \in {"task_change", "frank_wolfe"}, NEW a \in Agents, Replan(a),
         agent' \in 0..NumAgents, UNCHANGED <<tasks, dummy_goals>>
  PROVE  PlanTypeOK' /\ SearchTypeOK' /\ SearchTree' /\ trajs' = trajs /\ planned' = a
<1>1. /\ tasks[a] \in Free /\ Loc(a) \in Free /\ Loc(a) \in Cells
      /\ trajs[a] \in Seq(Free) /\ NoSearch
  BY Placed DEF PlanTypeOK
<1>2. heuristics' \in [Free -> Table]
  <2>1. heuristics \in [Free -> Table]
    BY DEF PlanTypeOK
  <2>2. Asked(heuristics[tasks[a]], Loc(a)) \in Table
    BY <1>1, <2>1, AskedTable
  <2>3. heuristics' = [heuristics EXCEPT ![tasks[a]] = Asked(heuristics[tasks[a]], Loc(a))]
    BY DEF Replan
  <2> QED BY <2>1, <2>2, <2>3
<1>3. flow' \in [Cells -> [Orientation -> Int]] /\ soc' \in Int
  <2>1. CASE trajs[a] = <<>>
    BY <2>1 DEF Replan, PlanTypeOK
  <2>2. CASE trajs[a] # <<>>
    <3>1. Len(trajs[a]) \in Nat
      BY <1>1, LenProperties
    <3>2. remove_traj(a) /\ soc \in Int
      BY <2>2 DEF Replan, PlanTypeOK
    <3>3. soc' \in Int
      BY <3>1, <3>2 DEF remove_traj
    <3>4. flow' = [c \in Cells |-> [d \in Orientation |->
                     flow[c][d] - EdgesOf(trajs[a])[c][d]]]
      BY <3>2 DEF remove_traj
    <3> QED BY <1>1, <3>3, <3>4, FlowStaysANumber
  <2> QED BY <2>1, <2>2
<1>4. PlanTypeOK'
  BY <1>2, <1>3 DEF Replan, PlanTypeOK, reported
<1> DEFINE h == Estimate(tasks[a], heuristics'[tasks[a]], Loc(a))
           node == Node(0, h, 0, 0, None, 0)
<1>5. mem' = [c \in {Loc(a)} |-> node] /\ open' = <<Loc(a)>> /\ left' = <<>> /\ planned' = a
  BY <1>1 DEF Replan, NoSearch
<1>6. h \in Nat
  <2>1. heuristics'[tasks[a]] \in Table
    BY <1>1, <1>2
  <2> QED BY <1>1, <2>1, EstimatesAreNumbers
<1> HIDE DEF h
<1>7. node \in NodeType /\ ~node.closed /\ node.parent = None
  BY <1>6 DEF Node, NodeType
<1> HIDE DEF node
<1>8. DOMAIN mem' = {Loc(a)} /\ mem'[Loc(a)] = node /\ mem' \in [{Loc(a)} -> NodeType]
  BY <1>5, <1>7
<1>9. Loc(a)' = Loc(a)
  BY DEF Replan, reported, Loc
<1>10. SearchTypeOK'
  <2>1. open' \in Seq(Free) /\ DOMAIN open' = {1} /\ open'[1] = Loc(a)
    BY <1>1, <1>5
  <2>2. open' \in Heaps(Free)
    BY <2>1 DEF Heaps, OneEach
  <2>3. ToSet(open') = {Loc(a)}
    BY <2>1 DEF ToSet
  <2>4. {c \in DOMAIN mem' : ~mem'[c].closed} = {Loc(a)}
    BY <1>7, <1>8
  <2> QED BY <1>1, <1>5, <1>8, <2>2, <2>3, <2>4, EmptySeq DEF SearchTypeOK
<1>11. SearchTree'
  BY <1>5, <1>7, <1>8, <1>9 DEF SearchTree
<1> QED BY <1>4, <1>5, <1>10, <1>11 DEF Replan

(* The agent whose turn it is is searched for, or needs no path.           *)
LEMMA TaskChangeKeeps == ASSUME GuideInv, TaskChange PROVE GuideInv'
<1>1. PlanTypeOK /\ TrajsAreWays /\ ServedHaveWays
  BY TwoParts DEF GuideInv
<1>2. agent \in Agents /\ agent' \in 0..NumAgents /\ agent' = agent + 1 /\ planned = None
  BY <1>1, Grid, Places DEF TaskChange, PlanTypeOK, Agents
<1>3. CASE require_guide_path(agent)
  <2>1. PlanTypeOK' /\ SearchTypeOK' /\ SearchTree' /\ trajs' = trajs /\ planned' = agent
    BY <1>1, <1>2, <1>3, ReplanBegins DEF TaskChange
  <2>2. ServedHaveWays'
    <3>1. agent \in Nat /\ agent' - 1 = agent /\ tasks' = tasks
      BY <1>2, Grid, Places DEF TaskChange, Agents
    <3>2. \A b \in 0..agent'-1 : b # planned' => b \in 0..agent-1 /\ b # planned
      BY <1>2, <2>1, <3>1 DEF None
    <3> QED BY <1>1, <2>1, <3>1, <3>2 DEF ServedHaveWays
  <2> QED BY <1>1, <2>1, <2>2, TwoPartsNext DEF GuideInv, TrajsAreWays
<1>4. CASE ~require_guide_path(agent)
  <2>1. UNCHANGED <<pc, reported, heuristics, lns, planned, back, search, tasks, dummy_goals>>
    BY <1>4 DEF TaskChange
  <2>2. NoSearch' /\ trajs' = trajs
    BY <1>1, <2>1 DEF TaskChange, PlanTypeOK, NoSearch, search, lns
  <2>3. PlanTypeOK'
    BY <1>1, <1>2, <2>1, <2>2 DEF PlanTypeOK, reported, lns
  <2>4. ServedHaveWays'
    <3>1. agent \in Nat /\ agent' - 1 = agent /\ tasks' = tasks /\ planned' = planned
      BY <1>2, <2>1, Grid, Places DEF Agents
    <3>2. \A b \in 0..agent'-1 : b \in 0..agent-1 \/ b = agent
      BY <3>1
    <3>3. trajs[agent] # <<>> /\ Last(trajs[agent]) = tasks[agent]
      BY <1>4 DEF require_guide_path
    <3> QED BY <1>1, <2>2, <3>1, <3>2, <3>3 DEF ServedHaveWays
  <2> QED BY <2>2, <2>3, <2>4, OtherSteps
<1> QED BY <1>3, <1>4

(* Any agent with a path may be replanned.                                 *)
LEMMA FrankWolfeKeeps == ASSUME GuideInv, FrankWolfe PROVE GuideInv'
<1>1. PlanTypeOK /\ TrajsAreWays /\ ServedHaveWays /\ planned = None
  BY TwoParts DEF GuideInv, FrankWolfe, PlanTypeOK
<1>2. PICK a \in Agents : Replan(a)
  BY DEF FrankWolfe
<1>3. PlanTypeOK' /\ SearchTypeOK' /\ SearchTree' /\ trajs' = trajs
  BY <1>1, <1>2, ReplanBegins DEF FrankWolfe, PlanTypeOK
<1>4. ServedHaveWays'
  <2>1. agent' = agent /\ tasks' = tasks /\ \A b \in 0..agent-1 : b # planned
    BY <1>1 DEF FrankWolfe, PlanTypeOK, None
  <2> QED BY <1>1, <1>3, <2>1 DEF ServedHaveWays
<1> QED BY <1>1, <1>3, <1>4, TwoPartsNext DEF GuideInv, TrajsAreWays

(* The steps of a search.                                                  *)
LEMMA PopKeeps == ASSUME GuideInv, Pop PROVE GuideInv'
<1>1. PlanTypeOK /\ SearchTypeOK /\ SearchTree /\ TrajsAreWays /\ ServedHaveWays
  BY TwoParts DEF GuideInv
<1> DEFINE from == Head(open)
<1>2. /\ pc = "search" /\ open # <<>> /\ open' \in pop(mem, open)
      /\ curr' = from /\ left' = global_neighbors[from]
      /\ mem' = [mem EXCEPT ![from].closed = TRUE]
      /\ UNCHANGED <<pc, reported, loop, back, heuristics, lns, planned>>
  BY DEF Pop, SearchUnchanged
<1>3. /\ from \in Free /\ from \in ToSet(open)
      /\ open' \in Heaps(Free) /\ ToSet(open') = ToSet(open) \ {from}
  BY <1>1, <1>2, HeapPop DEF SearchTypeOK
<1>4. from \in DOMAIN mem
  BY <1>1, <1>3 DEF SearchTypeOK
<1> HIDE DEF from
<1>5. PlanTypeOK'
  BY <1>1, <1>2 DEF PlanTypeOK, reported, loop, lns
<1>6. /\ DOMAIN mem' = DOMAIN mem
      /\ mem'[from] = [mem[from] EXCEPT !.closed = TRUE]
      /\ \A c \in DOMAIN mem : c # from => mem'[c] = mem[c]
  BY <1>2, <1>4
<1>7. /\ mem'[from] \in NodeType /\ mem'[from].closed
      /\ mem'[from].parent = mem[from].parent /\ mem'[from].g = mem[from].g
  <2>1. mem[from] \in NodeType
    BY <1>1, <1>4 DEF SearchTypeOK
  <2> QED BY <1>6, <2>1 DEF NodeType
<1>8. \A c \in DOMAIN mem : /\ mem'[c].parent = mem[c].parent /\ mem'[c].g = mem[c].g
                            /\ mem'[c].closed <=> mem[c].closed \/ c = from
  BY <1>6, <1>7
<1>9. left' \in Seq(Free) /\ \A i \in DOMAIN left' : left'[i] \in Neighbors(from)
  <2>1. left' \in Seq(Neighbors(from))
    BY <1>2, <1>3, NextCells, Grid, Places
  <2>2. Neighbors(from) \subseteq Free
    BY DEF Neighbors
  <2> QED BY <2>1, <2>2, SeqMonotonic, LenProperties
<1>10. SearchTypeOK'
  <2>1. mem' \in [DOMAIN mem' -> NodeType]
    <3>1. mem \in [DOMAIN mem -> NodeType]
      BY <1>1 DEF SearchTypeOK
    <3>2. mem' = [c \in DOMAIN mem' |-> mem'[c]]
      BY <1>2
    <3>3. \A c \in DOMAIN mem' : mem'[c] \in NodeType
      BY <1>6, <1>7, <3>1
    <3> QED BY <3>2, <3>3
  <2>2. ToSet(open') = {c \in DOMAIN mem' : ~mem'[c].closed}
    <3>1. ToSet(open) = {c \in DOMAIN mem : ~mem[c].closed}
      BY <1>1 DEF SearchTypeOK
    <3> QED BY <1>3, <1>6, <1>8, <3>1
  <2> QED BY <1>1, <1>3, <1>6, <1>9, <2>1, <2>2 DEF SearchTypeOK
<1>11. SearchTree'
  <2>1. Loc(planned)' = Loc(planned)
    BY <1>2 DEF reported, Loc
  <2>2. ASSUME NEW c \in DOMAIN mem'
        PROVE  LET parent == mem'[c].parent IN
               IF parent = None THEN c = Loc(planned)
               ELSE /\ parent \in DOMAIN mem' /\ mem'[parent].closed
                    /\ c \in Neighbors(parent) /\ mem'[c].g = mem'[parent].g + 1
    BY <1>1, <1>6, <1>8, <2>2 DEF SearchTree
  <2>3. curr' \in DOMAIN mem' /\ mem'[curr'].closed
    BY <1>2, <1>4, <1>6, <1>7
  <2> QED BY <1>2, <1>9, <2>1, <2>2, <2>3 DEF SearchTree
<1>12. TrajsAreWays' /\ ServedHaveWays'
  BY <1>1, <1>2 DEF TrajsAreWays, ServedHaveWays, lns, loop
<1> QED BY <1>5, <1>10, <1>11, <1>12, TwoPartsNext DEF GuideInv

(* What is found is a way to the goal.                                     *)
LEMMA FoundAWay ==
  ASSUME GuideInv, FindPath
  PROVE  LET p == PathTo(tasks[planned]) IN
         /\ p \in Seq(Free) /\ p # <<>> /\ Last(p) = tasks[planned]
         /\ \A i \in 2..Len(p) : p[i] \in Neighbors(p[i-1])
         /\ \A i, j \in DOMAIN p : p[i] = p[j] => i = j
<1>1. GuideTypeOK /\ SearchTree /\ PlanTypeOK /\ SearchTypeOK
  BY TwoParts DEF GuideInv
<1>2. tasks[planned] \in ToSet(open)
  <2>1. open # <<>> /\ Head(open) = tasks[planned] /\ open \in Seq(Free)
    BY <1>1 DEF FindPath, SearchTypeOK, Heaps
  <2>2. 1 \in DOMAIN open /\ Head(open) = open[1]
    BY <2>1, LenProperties, EmptySeq
  <2> QED BY <2>1, <2>2 DEF ToSet
<1>3. tasks[planned] \in DOMAIN mem
  BY <1>1, <1>2 DEF SearchTypeOK
<1> QED BY <1>1, <1>3, PathToIsAWay, WaysAreSimple

(* The agent gets the way found, and the others keep theirs.               *)
LEMMA FindPathKeeps == ASSUME GuideInv, FindPath PROVE GuideInv'
<1> DEFINE p == PathTo(tasks[planned])
<1>1. PlanTypeOK /\ SearchTypeOK /\ SearchTree /\ TrajsAreWays /\ ServedHaveWays
  BY TwoParts DEF GuideInv
<1>2. /\ p \in Seq(Free) /\ p # <<>> /\ Last(p) = tasks[planned]
      /\ \A i \in 2..Len(p) : p[i] \in Neighbors(p[i-1])
      /\ \A i, j \in DOMAIN p : p[i] = p[j] => i = j
  BY FoundAWay
<1>3. /\ pc = "search" /\ planned \in Agents /\ update_traj(planned, p)
      /\ pc' = back /\ planned' = None /\ NoSearch'
      /\ UNCHANGED <<reported, loop, back, heuristics>>
  BY <1>1 DEF FindPath, PlanTypeOK, EndSearch, NoSearch, NoNodes, SearchUnchanged
<1> HIDE DEF p
<1>4. flow' \in [Cells -> [Orientation -> Int]] /\ soc' \in Int
  <2>1. Len(p) \in Nat /\ soc \in Int
    BY <1>1, <1>2, LenProperties DEF PlanTypeOK
  <2>2. add_traj(p)
    BY <1>3 DEF update_traj
  <2>3. soc' \in Int
    BY <2>1, <2>2 DEF add_traj
  <2>4. flow' = [c \in Cells |-> [d \in Orientation |-> flow[c][d] + EdgesOf(p)[c][d]]]
    BY <2>2 DEF add_traj
  <2> QED BY <1>1, <1>2, <2>3, <2>4, FlowStaysANumber
<1>5. /\ trajs' = [trajs EXCEPT ![planned] = p] /\ trajs' \in [Agents -> Seq(Free)]
      /\ trajs \in [Agents -> Seq(Free)]
      /\ traj_dists' \in [Agents -> Table]
  BY <1>1, <1>2, <1>3, NewTables DEF update_traj, PlanTypeOK
<1>6. PlanTypeOK'
  BY <1>1, <1>3, <1>4, <1>5 DEF PlanTypeOK, reported, loop
<1>7. TrajsAreWays'
  <2>1. ASSUME NEW a \in Agents
        PROVE  /\ \A i \in 2..Len(trajs'[a]) : trajs'[a][i] \in Neighbors(trajs'[a][i-1])
               /\ \A i, j \in DOMAIN trajs'[a] : trajs'[a][i] = trajs'[a][j] => i = j
    <3>1. CASE a = planned
      <4>1. trajs'[a] = p
        BY <1>3, <1>5, <3>1
      <4> QED BY <1>2, <4>1
    <3>2. CASE a # planned
      <4>1. trajs'[a] = trajs[a]
        BY <1>3, <1>5, <3>2
      <4> QED BY <1>1, <4>1 DEF TrajsAreWays
    <3> QED BY <3>1, <3>2
  <2> QED BY <2>1 DEF TrajsAreWays
<1>8. ServedHaveWays'
  <2>1. ASSUME NEW a \in 0..agent-1 PROVE trajs'[a] # <<>> /\ Last(trajs'[a]) = tasks[a]
    <3>1. a \in Agents
      BY <1>1, Grid, Places DEF PlanTypeOK, Agents
    <3>2. CASE a = planned
      <4>1. trajs'[a] = p
        BY <1>3, <1>5, <3>2
      <4> QED BY <1>2, <3>2, <4>1
    <3>3. CASE a # planned
      <4>1. trajs'[a] = trajs[a]
        BY <1>5, <3>1, <3>3
      <4> QED BY <1>1, <3>3, <4>1 DEF ServedHaveWays
    <3> QED BY <3>2, <3>3
  <2> QED BY <1>3, <2>1 DEF ServedHaveWays, loop
<1> QED BY <1>3, <1>6, <1>7, <1>8, NoSearchIsFineNext, TwoPartsNext DEF GuideInv

(* The exit leaves everything as it is.                                    *)
LEMMA FindNoPathKeeps == ASSUME GuideInv, FindNoPath PROVE GuideInv'
<1>1. PlanTypeOK /\ SearchTypeOK /\ SearchTree /\ TrajsAreWays /\ ServedHaveWays
  BY TwoParts DEF GuideInv
<1>2. /\ pc = "search" /\ pc' = "exit"
      /\ UNCHANGED <<reported, loop, back, heuristics, lns, planned, search>>
  BY DEF FindNoPath, SearchUnchanged
<1>3. PlanTypeOK'
  BY <1>1, <1>2 DEF PlanTypeOK, reported, loop, lns
<1>4. SearchTypeOK' /\ SearchTree'
  BY <1>1, <1>2 DEF SearchTypeOK, SearchTree, search, reported, Loc
<1>5. TrajsAreWays' /\ ServedHaveWays'
  BY <1>1, <1>2 DEF TrajsAreWays, ServedHaveWays, lns, loop
<1> QED BY <1>3, <1>4, <1>5, TwoPartsNext DEF GuideInv

(* A node found from the one that is expanded lies one step behind it.     *)
LEMMA NodesStayInType ==
  ASSUME PlanTypeOK, NEW next \in Free, curr \in DOMAIN mem, DOMAIN mem \subseteq Free,
         mem \in [DOMAIN mem -> NodeType], NEW h \in Nat
  PROVE  /\ StepNode(next, h) \in NodeType /\ ~StepNode(next, h).closed
         /\ StepNode(next, h).parent = curr
         /\ StepNode(next, h).g = mem[curr].g + 1
<1> DEFINE from == mem[curr]
           d == get_d(next - curr)
           op == from.op_flow + (flow[curr][d] + 1) * flow[next][(d + 2) % 4]
           all == from.all_vertex_flow + SumOverEdges(next) \div 2
           tie == IF from.parent = None \/ get_d(curr - from.parent) = d THEN 0 ELSE 1
<1>1. /\ curr \in Free /\ curr \in Cells /\ next \in Cells /\ curr \in Int /\ next \in Int
      /\ from \in NodeType
  BY Grid, Places
<1>2. /\ from.g \in Nat /\ from.op_flow \in Int /\ from.all_vertex_flow \in Int
  BY <1>1 DEF NodeType
<1> HIDE DEF from
<1>3. d \in Orientation
  BY <1>1, Turns
<1> HIDE DEF d
<1>4. d \in 0..3 /\ (d + 2) % 4 \in Orientation
  BY <1>3 DEF Orientation
<1>5. \A c \in Cells, e \in Orientation : flow[c][e] \in Int
  BY DEF PlanTypeOK
<1>6. op \in Int
  <2>1. flow[curr][d] \in Int /\ flow[next][(d + 2) % 4] \in Int
    BY <1>1, <1>3, <1>4, <1>5
  <2>2. \A x, y \in Int : (x + 1) * y \in Int
    OBVIOUS
  <2>3. (flow[curr][d] + 1) * flow[next][(d + 2) % 4] \in Int
    BY <2>1, <2>2
  <2> QED BY <1>2, <2>3
<1>7. all \in Int
  <2>1. 0 \in Orientation /\ 1 \in Orientation /\ 2 \in Orientation /\ 3 \in Orientation
    BY DEF Orientation
  <2>2. SumOverEdges(next) \in Int
    BY <1>1, <1>5, <2>1 DEF SumOverEdges
  <2>3. \A x \in Int : x \div 2 \in Int
    OBVIOUS
  <2>4. SumOverEdges(next) \div 2 \in Int
    BY <2>2, <2>3
  <2> QED BY <1>2, <2>4
<1>8. StepNode(next, h) = Node(from.g + 1, h, op, all, curr, tie)
  BY DEF StepNode, from, d
<1>9. tie \in {0, 1}
  OBVIOUS
<1> HIDE DEF op, all, tie
<1> DEFINE node == Node(from.g + 1, h, op, all, curr, tie)
<1>10. /\ node \in NodeType /\ ~node.closed
       /\ node.parent = curr /\ node.g = from.g + 1
  BY <1>1, <1>2, <1>6, <1>7, <1>9 DEF Node, NodeType
<1> HIDE DEF node
<1> QED BY <1>8, <1>10 DEF node, from

(* A neighbor is reached, or better reached; no closed node changes.       *)
LEMMA GenerateKeeps == ASSUME GuideInv, Generate PROVE GuideInv'
<1>1. PlanTypeOK /\ SearchTypeOK /\ SearchTree /\ TrajsAreWays /\ ServedHaveWays
  BY TwoParts DEF GuideInv
<1> DEFINE next == Head(left)
           goal == tasks[planned]
           table == Asked(heuristics[goal], next)
           h == Estimate(goal, table, next)
           node == StepNode(next, h)
           Reached == /\ next \notin DOMAIN mem
                      /\ mem' = [c \in DOMAIN mem \cup {next} |->
                                   IF c = next THEN node ELSE mem[c]]
                      /\ open' \in push(mem', open, next)
           Improved == /\ next \in DOMAIN mem /\ ~mem[next].closed
                       /\ mem' = [mem EXCEPT ![next] = [node EXCEPT !.h = mem[next].h]]
                       /\ open' \in decrease_key(mem', open, next)
<1>2. /\ pc = "search" /\ left # <<>> /\ left' = Tail(left) /\ pc' \in {"search", "exit"}
      /\ heuristics' = [heuristics EXCEPT ![goal] = table]
      /\ UNCHANGED <<reported, loop, back, lns, planned, curr>>
      /\ Reached \/ Improved \/ UNCHANGED <<mem, open>>
  <2>1. pc = "search" /\ pc' \in {"search", "exit"}
    BY DEF Generate
  <2>2. Reached \/ Improved \/ UNCHANGED <<mem, open>>
    BY DEF Generate
  <2> QED BY <2>1, <2>2 DEF Generate, SearchUnchanged
<1>3. /\ planned \in Agents /\ goal \in Free /\ next \in Free /\ next \in Cells
      /\ curr \in DOMAIN mem /\ mem[curr].closed /\ next \in Neighbors(curr)
      /\ left \in Seq(Free)
  <2>1. planned \in Agents /\ tasks \in [Agents -> Free]
    BY <1>1, <1>2 DEF PlanTypeOK
  <2>2. left \in Seq(Free) /\ 1 \in DOMAIN left /\ next = left[1]
    BY <1>1, <1>2, LenProperties, EmptySeq DEF SearchTypeOK
  <2>3. curr \in DOMAIN mem /\ mem[curr].closed /\ next \in Neighbors(curr)
    BY <1>1, <1>2, <2>2 DEF SearchTree
  <2>4. next \in Free
    BY <2>3 DEF Neighbors
  <2> QED BY <2>1, <2>2, <2>3, <2>4, Grid, Places
<1> HIDE DEF next, goal
<1>4. heuristics \in [Free -> Table] /\ table \in Table /\ h \in Nat
  <2>1. heuristics \in [Free -> Table]
    BY <1>1 DEF PlanTypeOK
  <2>2. table \in Table
    BY <1>3, <2>1, AskedTable
  <2> QED BY <1>3, <2>1, <2>2, EstimatesAreNumbers
<1> HIDE DEF table
<1>5. PlanTypeOK'
  <2>1. heuristics' \in [Free -> Table]
    BY <1>2, <1>3, <1>4
  <2> QED BY <1>1, <1>2, <2>1 DEF PlanTypeOK, reported, loop, lns
<1>6. /\ DOMAIN mem \subseteq Free /\ mem \in [DOMAIN mem -> NodeType]
      /\ open \in Heaps(Free) /\ ToSet(open) = {c \in DOMAIN mem : ~mem[c].closed}
  BY <1>1 DEF SearchTypeOK
<1> HIDE DEF h
<1>7. /\ node \in NodeType /\ ~node.closed /\ node.parent = curr
      /\ node.g = mem[curr].g + 1
  BY <1>1, <1>3, <1>4, <1>6, NodesStayInType
<1> HIDE DEF node
<1>8. /\ left' \in Seq(Free)
      /\ left' # <<>> => \A i \in DOMAIN left' : left'[i] \in Neighbors(curr)
  <2>1. /\ left' \in Seq(Free) /\ Len(left') = Len(left) - 1
        /\ \A i \in 1..Len(left') : left'[i] = left[i+1]
    BY <1>2, <1>3, HeadTailProperties
  <2>2. Len(left) \in Nat /\ DOMAIN left = 1..Len(left) /\ DOMAIN left' = 1..Len(left')
    BY <1>3, <2>1, LenProperties
  <2>3. \A i \in DOMAIN left : left[i] \in Neighbors(curr)
    BY <1>1, <1>2 DEF SearchTree
  <2>4. \A i \in DOMAIN left' : i + 1 \in DOMAIN left
    BY <2>1, <2>2
  <2> QED BY <2>1, <2>2, <2>3, <2>4
<1>9. /\ DOMAIN mem' \subseteq Free /\ mem' \in [DOMAIN mem' -> NodeType]
      /\ open' \in Heaps(Free) /\ ToSet(open') = {c \in DOMAIN mem' : ~mem'[c].closed}
      /\ DOMAIN mem \subseteq DOMAIN mem'
      /\ \A c \in DOMAIN mem : mem[c].closed => mem'[c] = mem[c]
      /\ \A c \in DOMAIN mem' : \/ c \in DOMAIN mem /\ mem'[c] = mem[c]
                                \/ /\ c = next /\ mem'[c].parent = curr
                                   /\ mem'[c].g = mem[curr].g + 1
  <2>1. CASE UNCHANGED <<mem, open>>
    BY <1>6, <2>1
  <2>2. CASE Reached
    <3>1. DOMAIN mem' = DOMAIN mem \cup {next} /\ next \notin DOMAIN mem
      BY <2>2
    <3>2. mem'[next] = node /\ \A c \in DOMAIN mem : mem'[c] = mem[c]
      BY <2>2
    <3>3. mem' \in [DOMAIN mem' -> NodeType]
      BY <1>6, <1>7, <2>2
    <3>4. open' \in push(mem', open, next) /\ next \notin ToSet(open)
      BY <1>6, <2>2
    <3>5. open' \in Heaps(Free) /\ ToSet(open') = ToSet(open) \cup {next}
      BY <1>3, <1>6, <3>4, HeapPush
    <3>6. ToSet(open') = {c \in DOMAIN mem' : ~mem'[c].closed}
      BY <1>6, <1>7, <3>1, <3>2, <3>5
    <3> QED BY <1>3, <1>6, <1>7, <3>1, <3>2, <3>3, <3>5, <3>6
  <2>3. CASE Improved
    <3> DEFINE better == [node EXCEPT !.h = mem[next].h]
    <3>1. /\ better \in NodeType /\ ~better.closed /\ better.parent = curr
          /\ better.g = mem[curr].g + 1
      <4>1. mem[next] \in NodeType
        BY <1>6, <2>3
      <4>2. mem[next].h \in Nat
        BY <4>1 DEF NodeType
      <4> QED BY <1>7, <4>2 DEF NodeType
    <3> HIDE DEF better
    <3>2. /\ next \in DOMAIN mem /\ ~mem[next].closed
          /\ mem' = [mem EXCEPT ![next] = better]
          /\ open' \in decrease_key(mem', open, next)
      BY <2>3 DEF better
    <3>3. /\ DOMAIN mem' = DOMAIN mem /\ mem'[next] = better
          /\ \A c \in DOMAIN mem : c # next => mem'[c] = mem[c]
      BY <3>2
    <3>4. mem' \in [DOMAIN mem' -> NodeType]
      BY <1>6, <3>1, <3>2
    <3>5. next \in ToSet(open)
      BY <1>6, <3>2
    <3>6. open' \in Heaps(Free) /\ ToSet(open') = ToSet(open)
      BY <1>6, <3>2, <3>5, HeapDecreaseKey
    <3>7. ToSet(open') = {c \in DOMAIN mem' : ~mem'[c].closed}
      BY <1>6, <3>1, <3>2, <3>3, <3>6
    <3> QED BY <1>6, <3>1, <3>2, <3>3, <3>4, <3>6, <3>7
  <2> HIDE DEF Reached, Improved
  <2> QED BY <1>2, <2>1, <2>2, <2>3
<1> HIDE DEF Reached, Improved
<1>10. SearchTypeOK'
  BY <1>8, <1>9 DEF SearchTypeOK
<1>11. SearchTree'
  <2>1. Loc(planned)' = Loc(planned) /\ curr' = curr
    BY <1>2 DEF reported, Loc
  <2>2. curr \in DOMAIN mem' /\ mem'[curr] = mem[curr] /\ mem'[curr].closed
    BY <1>3, <1>9
  <2>3. ASSUME NEW c \in DOMAIN mem'
        PROVE  LET parent == mem'[c].parent IN
               IF parent = None THEN c = Loc(planned)
               ELSE /\ parent \in DOMAIN mem' /\ mem'[parent].closed
                    /\ c \in Neighbors(parent) /\ mem'[c].g = mem'[parent].g + 1
    <3>1. CASE c \in DOMAIN mem /\ mem'[c] = mem[c]
      BY <1>1, <1>9, <3>1 DEF SearchTree
    <3>2. CASE c = next /\ mem'[c].parent = curr /\ mem'[c].g = mem[curr].g + 1
      <4>1. curr # None
        BY <1>3, <1>6, Grid, Places
      <4> QED BY <1>3, <2>2, <3>2, <4>1
    <3> QED BY <1>9, <3>1, <3>2
  <2> QED BY <1>8, <2>1, <2>2, <2>3 DEF SearchTree
<1>12. TrajsAreWays' /\ ServedHaveWays'
  BY <1>1, <1>2 DEF TrajsAreWays, ServedHaveWays, lns, loop
<1> QED BY <1>5, <1>10, <1>11, <1>12, TwoPartsNext DEF GuideInv

(* The variables keep their types; the nodes of a search hang together, in *)
(* the heap exactly while they are open, through its pushes, pops and      *)
(* changes of keys; trajectories go from neighbor to neighbor and nowhere  *)
(* twice; who had a turn has one to its goal.                              *)
THEOREM GuideIsInductive == GuideSpec => []GuideInv
<1>1. GuideInit => GuideInv
  BY GuideInitial
<1>2. GuideInv /\ [GuideNext]_vars => GuideInv'
  <2> SUFFICES ASSUME GuideInv, [GuideNext]_vars PROVE GuideInv'
    OBVIOUS
  <2>1. CASE PlanBegin
    BY <2>1, PlanBeginKeeps
  <2>2. CASE TaskChange
    BY <2>2, TaskChangeKeeps
  <2>3. CASE FrankWolfeBegin
    BY <2>3, FrankWolfeBeginKeeps
  <2>4. CASE FrankWolfe
    BY <2>4, FrankWolfeKeeps
  <2>5. CASE Deadline
    BY <2>5, DeadlineKeeps
  <2>6. CASE Pop
    BY <2>6, PopKeeps
  <2>7. CASE FindPath
    BY <2>7, FindPathKeeps
  <2>8. CASE FindNoPath
    BY <2>8, FindNoPathKeeps
  <2>9. CASE Generate
    BY <2>9, GenerateKeeps
  <2>10. CASE Pibt
    BY <2>10, PibtKeeps
  <2>11. CASE Report
    BY <2>11, ReportKeeps
  <2>12. CASE UNCHANGED vars
    <3>1. PlanTypeOK /\ SearchTypeOK /\ SearchTree /\ TrajsAreWays /\ ServedHaveWays
      BY TwoParts DEF GuideInv
    <3>2. PlanTypeOK'
      BY <2>12, <3>1 DEF PlanTypeOK, vars, reported, loop, lns, search, NoSearch
    <3>3. SearchTypeOK' /\ SearchTree'
      BY <2>12, <3>1 DEF SearchTypeOK, SearchTree, vars, search, reported, Loc
    <3>4. TrajsAreWays' /\ ServedHaveWays'
      BY <2>12, <3>1 DEF TrajsAreWays, ServedHaveWays, vars, lns, loop
    <3> QED BY <3>2, <3>3, <3>4, TwoPartsNext DEF GuideInv
  <2> QED BY <2>1, <2>2, <2>3, <2>4, <2>5, <2>6, <2>7, <2>8, <2>9, <2>10, <2>11, <2>12
          DEF GuideNext
<1> QED BY <1>1, <1>2, PTL DEF GuideSpec

(* An agent whose turn came before the deadline has a trajectory to its    *)
(* goal when the moves are chosen, however its search went on and the      *)
(* others' after it.                                                       *)
THEOREM GuidesLead == GuideSpec => []GuidesLeadToGoals
<1>1. GuideInv => GuidesLeadToGoals
  <2> SUFFICES ASSUME GuideInv, pc \in {"frank_wolfe", "pibt"}, NEW a \in 0..agent-1
               PROVE  trajs[a] # <<>> /\ Last(trajs[a]) = tasks[a]
    BY DEF GuidesLeadToGoals
  <2>1. planned = None /\ agent \in Nat
    BY TwoParts, Grid, Places DEF GuideInv, PlanTypeOK
  <2>2. a # planned
    BY <2>1 DEF None
  <2> QED BY <2>2 DEF GuideInv, ServedHaveWays
<1> QED BY <1>1, GuideIsInductive, PTL

-----------------------------------------------------------------------------
(* Traffic is counted.                                                     *)

(* A way that goes nowhere twice takes each edge once at most.             *)
LEMMA EdgesOnce ==
  ASSUME NEW p \in Seq(Free), \A i, j \in DOMAIN p : p[i] = p[j] => i = j,
         NEW c \in Cells, NEW d \in Orientation
  PROVE  EdgesOf(p)[c][d] \in {0, 1}
<1> DEFINE E == {j \in 2..Len(p) : p[j-1] = c /\ get_d(p[j] - p[j-1]) = d}
<1>1. EdgesOf(p)[c][d] = Cardinality(E)
  BY DEF EdgesOf
<1>2. CASE E = {}
  BY <1>1, <1>2, FS_EmptySet
<1>3. CASE E # {}
  <2>1. PICK j : j \in E
    BY <1>3
  <2>2. ASSUME NEW k \in E PROVE k = j
    <3>1. Len(p) \in Nat /\ DOMAIN p = 1..Len(p)
      BY LenProperties
    <3>2. j \in 2..Len(p) /\ k \in 2..Len(p) /\ p[j-1] = c /\ p[k-1] = c
      BY <2>1
    <3>3. j - 1 \in DOMAIN p /\ k - 1 \in DOMAIN p
      BY <3>1, <3>2
    <3>4. j - 1 = k - 1
      BY <3>2, <3>3
    <3> QED BY <3>1, <3>2, <3>4
  <2>3. E = {j}
    BY <2>1, <2>2
  <2> HIDE DEF E
  <2> QED BY <1>1, <2>3, FS_Singleton
<1> QED BY <1>2, <1>3

(* The steps of the ways of some agents.                                   *)
Long(T, ways) == UNION {{a} \X (2..Len(ways[a])) : a \in T}

(* One way of n cells has n - 1 steps.                                     *)
LEMMA OneWay ==
  ASSUME NEW a, NEW n \in Nat \ {0}
  PROVE  IsFiniteSet({a} \X (2..n)) /\ Cardinality({a} \X (2..n)) = n - 1
<1>1. IsFiniteSet(2..n) /\ Cardinality(2..n) = n - 1
  BY FS_Interval
<1>2. IsFiniteSet({a}) /\ Cardinality({a}) = 1
  BY FS_Singleton
<1> HIDE DEF Cardinality
<1>3. IsFiniteSet({a} \X (2..n))
      /\ Cardinality({a} \X (2..n)) = Cardinality({a}) * Cardinality(2..n)
  BY <1>1, <1>2, FS_Product
<1> QED BY <1>1, <1>2, <1>3

(* Finitely many ways have finitely many steps.                            *)
LEMMA LongIsFinite ==
  ASSUME NEW T, IsFiniteSet(T), NEW ways, \A a \in T : Len(ways[a]) \in Nat \ {0}
  PROVE  IsFiniteSet(Long(T, ways))
<1> DEFINE One(a) == {a} \X (2..Len(ways[a]))
           S == {One(a) : a \in T}
           f == [a \in T |-> One(a)]
<1>1. f \in Surjection(T, S)
  BY DEF Surjection
<1>2. IsFiniteSet(S)
  <2> HIDE DEF f, S
  <2> QED BY <1>1, FS_Surjection
<1>3. \A X \in S : IsFiniteSet(X)
  BY OneWay
<1>4. Long(T, ways) = UNION S
  BY DEF Long
<1> HIDE DEF S
<1> QED BY <1>2, <1>3, <1>4, FS_UNION

(* One way more adds its steps.                                            *)
LEMMA OneMoreWay ==
  ASSUME NEW T, IsFiniteSet(T), NEW b, b \notin T,
         NEW ways, \A a \in T \cup {b} : Len(ways[a]) \in Nat \ {0}
  PROVE  /\ Cardinality(Long(T, ways)) \in Nat
         /\ Cardinality(Long(T \cup {b}, ways))
              = Cardinality(Long(T, ways)) + Len(ways[b]) - 1
<1> DEFINE One == {b} \X (2..Len(ways[b]))
<1>1. IsFiniteSet(Long(T, ways)) /\ Cardinality(Long(T, ways)) \in Nat
  BY LongIsFinite, FS_CardinalityType
<1>2. IsFiniteSet(One) /\ Cardinality(One) = Len(ways[b]) - 1
  BY OneWay
<1>3. Long(T \cup {b}, ways) = Long(T, ways) \cup One
  BY DEF Long
<1>4. Long(T, ways) \cap One = {}
  <2> SUFFICES ASSUME NEW x \in Long(T, ways), x \in One PROVE FALSE
    OBVIOUS
  <2>1. PICK a \in T : x \in {a} \X (2..Len(ways[a]))
    BY DEF Long
  <2> QED BY <2>1
<1>7. Len(ways[b]) \in Nat
  OBVIOUS
<1> HIDE DEF One
<1>5. Cardinality(Long(T, ways) \cap One) = 0
  BY <1>4, FS_EmptySet
<1>6. Cardinality(Long(T, ways) \cup One)
        = Cardinality(Long(T, ways)) + Cardinality(One)
            - Cardinality(Long(T, ways) \cap One)
  BY <1>1, <1>2, FS_Union
<1>8. Cardinality(Long(T \cup {b}, ways)) = Cardinality(Long(T, ways)) + Cardinality(One) - 0
  BY <1>3, <1>5, <1>6
<1> HIDE DEF Long
<1> QED BY <1>1, <1>2, <1>7, <1>8

(* Those whose way takes an edge.                                          *)
Takers(S, ways, c, d) == {a \in S : EdgesOf(ways[a])[c][d] = 1}

(* What is counted depends on who is on the way and by which ways only.    *)
Counted(T, ways) ==
  /\ \A c \in Cells, d \in Orientation :
       flow[c][d] = Cardinality(Takers(T, ways, c, d))
  /\ soc = Cardinality(Long(T, ways))

(* The property in these terms.                                            *)
LEMMA TheCount == FlowIsOfTrajs <=> Counted(OnTheirWay, trajs)
BY DEF FlowIsOfTrajs, Counted, Long, Takers

(* The same after a step.                                                  *)
LEMMA TheCountNext == FlowIsOfTrajs' <=> Counted(OnTheirWay, trajs)'
BY DEF FlowIsOfTrajs, Counted, Long, Takers

(* Finitely many are on their way, and take each edge once at most.        *)
LEMMA Travellers ==
  ASSUME GuideInv
  PROVE  /\ IsFiniteSet(OnTheirWay) /\ OnTheirWay \subseteq Agents
         /\ \A a \in Agents : trajs[a] # <<>> => Len(trajs[a]) \in Nat \ {0}
         /\ \A a \in Agents, c \in Cells, d \in Orientation :
              EdgesOf(trajs[a])[c][d] \in {0, 1}
<1>1. \A a \in Agents : trajs[a] \in Seq(Free)
  BY TwoParts DEF GuideInv, PlanTypeOK
<1>2. IsFiniteSet(Agents)
  BY Grid, Places, FS_Interval DEF Agents
<1>3. OnTheirWay \subseteq Agents
  BY DEF OnTheirWay
<1>4. IsFiniteSet(OnTheirWay)
  BY <1>2, <1>3, FS_Subset
<1>5. \A a \in Agents : trajs[a] # <<>> => Len(trajs[a]) \in Nat \ {0}
  BY <1>1, LenProperties, EmptySeq
<1>6. ASSUME NEW a \in Agents, NEW c \in Cells, NEW d \in Orientation
      PROVE  EdgesOf(trajs[a])[c][d] \in {0, 1}
  BY <1>1, EdgesOnce DEF GuideInv, TrajsAreWays
<1> QED BY <1>3, <1>4, <1>5, <1>6

(* Steps that leave trajectories and traffic alone keep the count.         *)
LEMMA CountTheSame ==
  ASSUME FlowIsOfTrajs, UNCHANGED <<trajs, flow, soc, planned>>
  PROVE  FlowIsOfTrajs'
BY DEF FlowIsOfTrajs, OnTheirWay

(* Another agent, whose way takes the edge once at most.                   *)
Another(T, b, ways, c, d) ==
  IsFiniteSet(T) /\ b \notin T /\ EdgesOf(ways[b])[c][d] \in {0, 1}

(* A way more, or a way less, changes each count as add_traj, remove_traj. *)
LEMMA CountOneMore ==
  ASSUME NEW T, NEW b, NEW ways, NEW c, NEW d, Another(T, b, ways, c, d)
  PROVE  /\ Cardinality(Takers(T, ways, c, d)) \in Nat
         /\ Cardinality(Takers(T \cup {b}, ways, c, d))
              = Cardinality(Takers(T, ways, c, d)) + EdgesOf(ways[b])[c][d]
<1> DEFINE e == EdgesOf(ways[b])[c][d]
<1> DEFINE Take(S) == Takers(S, ways, c, d)
<1> USE DEF Takers, Another
<1>1. IsFiniteSet(Take(T)) /\ Cardinality(Take(T)) \in Nat /\ b \notin Take(T)
  BY FS_Subset, FS_CardinalityType
<1>2. CASE e = 0
  <2>1. Take(T \cup {b}) = Take(T)
    BY <1>2
  <2> HIDE DEF Take, Takers, Another
  <2>2. Cardinality(Take(T \cup {b})) = Cardinality(Take(T)) + e
    BY <1>1, <1>2, <2>1
  <2> QED BY <1>1, <2>2 DEF Take
<1>3. CASE e = 1
  <2>1. Take(T \cup {b}) = Take(T) \cup {b}
    BY <1>3
  <2> HIDE DEF Take, Takers, Another
  <2>2. Cardinality(Take(T) \cup {b}) = Cardinality(Take(T)) + 1
    BY <1>1, FS_AddElement
  <2>3. Cardinality(Take(T \cup {b})) = Cardinality(Take(T)) + e
    BY <1>3, <2>1, <2>2
  <2> QED BY <1>1, <2>3 DEF Take
<1> QED BY <1>2, <1>3

(* Removing a trajectory takes its agent out of the counts.                *)
LEMMA CountReplan ==
  ASSUME GuideInv, FlowIsOfTrajs, pc \in {"task_change", "frank_wolfe"},
         NEW b \in Agents, Replan(b)
  PROVE  FlowIsOfTrajs'
<1>1. planned = None /\ planned' = b /\ trajs' = trajs /\ trajs \in [Agents -> Seq(Free)]
  BY TwoParts DEF GuideInv, PlanTypeOK, Replan
<1>2. \A a \in Agents : a # planned
  BY <1>1 DEF Agents, None
<1>3. OnTheirWay' = OnTheirWay \ {b}
  BY <1>1, <1>2 DEF OnTheirWay
<1>4. CASE trajs[b] = <<>>
  <2>1. OnTheirWay' = OnTheirWay
    BY <1>3, <1>4 DEF OnTheirWay
  <2>2. flow' = flow /\ soc' = soc
    BY <1>4 DEF Replan
  <2> QED BY <1>1, <2>1, <2>2, TheCount, TheCountNext DEF Counted
<1>5. CASE trajs[b] # <<>>
  <2> DEFINE T == OnTheirWay'
  <2>1. /\ b \notin T /\ OnTheirWay = T \cup {b} /\ IsFiniteSet(T)
        /\ \A a \in T \cup {b} : Len(trajs[a]) \in Nat \ {0}
    <3>1. b \in OnTheirWay
      BY <1>2, <1>5 DEF OnTheirWay
    <3>2. b \notin T /\ OnTheirWay = T \cup {b} /\ T \subseteq OnTheirWay
      BY <1>3, <3>1
    <3>3. \A a \in T \cup {b} : Len(trajs[a]) \in Nat \ {0}
      BY <3>2, Travellers DEF OnTheirWay
    <3> QED BY <3>2, <3>3, Travellers, FS_Subset
  <2> HIDE DEF T
  <2>2. remove_traj(b)
    BY <1>5 DEF Replan
  <2>3. ASSUME NEW c \in Cells, NEW d \in Orientation
        PROVE  flow'[c][d] = Cardinality(Takers(T, trajs, c, d))
    <3> DEFINE e == EdgesOf(trajs[b])[c][d]
    <3>1. e \in {0, 1}
      BY Travellers
    <3>2. flow[c][d] = Cardinality(Takers(T \cup {b}, trajs, c, d))
      BY <2>1, TheCount DEF Counted
    <3>3. flow'[c][d] = flow[c][d] - e
      BY <2>2 DEF remove_traj
    <3>5. Another(T, b, trajs, c, d)
      BY <2>1, <3>1 DEF Another
    <3>4. /\ Cardinality(Takers(T, trajs, c, d)) \in Nat
          /\ Cardinality(Takers(T \cup {b}, trajs, c, d))
               = Cardinality(Takers(T, trajs, c, d)) + e
      BY <3>5, CountOneMore
    <3> HIDE DEF e
    <3> QED BY <3>1, <3>2, <3>3, <3>4
  <2>4. soc' = Cardinality(Long(T, trajs))
    <3>1. /\ Cardinality(Long(T, trajs)) \in Nat
          /\ Cardinality(Long(T \cup {b}, trajs))
               = Cardinality(Long(T, trajs)) + Len(trajs[b]) - 1
      BY <2>1, OneMoreWay
    <3>2. soc = Cardinality(Long(T \cup {b}, trajs))
      BY <2>1, TheCount DEF Counted
    <3>3. soc' = soc - (Len(trajs[b]) - 1) /\ Len(trajs[b]) \in Nat
      BY <2>1, <2>2 DEF remove_traj
    <3> QED BY <3>1, <3>2, <3>3
  <2> QED BY <1>1, <2>3, <2>4, TheCountNext DEF Counted, T
<1> QED BY <1>4, <1>5

(* A new trajectory brings it in again.                                    *)
LEMMA CountFindPath ==
  ASSUME GuideInv, GuideInv', FlowIsOfTrajs, FindPath
  PROVE  FlowIsOfTrajs'
<1> DEFINE p == PathTo(tasks[planned])
           b == planned
           T == OnTheirWay
<1>1. /\ p \in Seq(Free) /\ p # <<>>
      /\ \A i, j \in DOMAIN p : p[i] = p[j] => i = j
  BY FoundAWay
<1>2. /\ b \in Agents /\ add_traj(p) /\ trajs' = [trajs EXCEPT ![b] = p]
      /\ trajs \in [Agents -> Seq(Free)] /\ planned' = None
  BY TwoParts DEF GuideInv, PlanTypeOK, FindPath, update_traj
<1> HIDE DEF p
<1>3. Len(p) \in Nat \ {0}
  BY <1>1, LenProperties, EmptySeq
<1>4. trajs'[b] = p /\ b \notin T /\ \A a \in T : trajs'[a] = trajs[a]
  BY <1>2 DEF OnTheirWay
<1>5. OnTheirWay' = T \cup {b}
  <2>1. \A a \in Agents : a # planned'
    BY <1>2 DEF Agents, None
  <2>2. \A a \in Agents : trajs'[a] # <<>> <=> trajs[a] # <<>> \/ a = b
    BY <1>1, <1>2
  <2> QED BY <1>2, <2>1, <2>2 DEF OnTheirWay
<1>6. IsFiniteSet(T) /\ \A a \in T \cup {b} : Len(trajs'[a]) \in Nat \ {0}
  BY <1>3, <1>4, Travellers DEF OnTheirWay
<1> HIDE DEF T, b
<1>7. ASSUME NEW c \in Cells, NEW d \in Orientation
      PROVE  flow'[c][d] = Cardinality(Takers(T \cup {b}, trajs', c, d))
  <2>1. EdgesOf(p)[c][d] \in {0, 1}
    BY <1>1, EdgesOnce
  <2>2. /\ flow[c][d] = Cardinality(Takers(T, trajs, c, d))
        /\ Takers(T, trajs, c, d) = Takers(T, trajs', c, d)
    BY <1>4, TheCount DEF Counted, T, Takers
  <2>3. flow'[c][d] = flow[c][d] + EdgesOf(p)[c][d]
    BY <1>2 DEF add_traj
  <2>4. /\ Cardinality(Takers(T, trajs', c, d)) \in Nat
        /\ Cardinality(Takers(T \cup {b}, trajs', c, d))
             = Cardinality(Takers(T, trajs', c, d)) + EdgesOf(p)[c][d]
    <3>1. Another(T, b, trajs', c, d)
      BY <1>4, <1>6, <2>1 DEF Another
    <3> QED BY <1>4, <3>1, CountOneMore
  <2>5. flow'[c][d] = Cardinality(Takers(T \cup {b}, trajs', c, d))
    BY <2>1, <2>2, <2>3, <2>4
  <2> QED BY <2>5
<1>8. soc' = Cardinality(Long(T \cup {b}, trajs'))
  <2>1. /\ Cardinality(Long(T, trajs')) \in Nat
        /\ Cardinality(Long(T \cup {b}, trajs'))
             = Cardinality(Long(T, trajs')) + Len(trajs'[b]) - 1
    BY <1>4, <1>6, OneMoreWay
  <2>2. Long(T, trajs') = Long(T, trajs)
    BY <1>4 DEF Long
  <2>3. soc = Cardinality(Long(T, trajs))
    BY TheCount DEF Counted, T
  <2>4. soc' = soc + Len(p) - 1
    BY <1>2 DEF add_traj
  <2> QED BY <1>3, <1>4, <2>1, <2>2, <2>3, <2>4
<1> QED BY <1>5, <1>7, <1>8, TheCountNext DEF Counted

(* The traffic on each edge is the number of trajectories that take it,    *)
(* and soc their length, whatever was replanned, given up or interrupted.  *)
THEOREM FlowCounts == GuideSpec => []FlowIsOfTrajs
<1>1. GuideInit => FlowIsOfTrajs
  <2> SUFFICES ASSUME GuideInit PROVE FlowIsOfTrajs
    OBVIOUS
  <2>1. OnTheirWay = {}
    BY DEF GuideInit, OnTheirWay
  <2>2. Long(OnTheirWay, trajs) = {}
    BY <2>1 DEF Long
  <2>3. \A c \in Cells, d \in Orientation :
          Takers(OnTheirWay, trajs, c, d) = {}
    BY <2>1 DEF Takers
  <2>4. soc = 0 /\ \A c \in Cells, d \in Orientation : flow[c][d] = 0
    BY DEF GuideInit
  <2> QED BY <2>2, <2>3, <2>4, FS_EmptySet, TheCount DEF Counted
<1>2. GuideInv /\ GuideInv' /\ FlowIsOfTrajs /\ [GuideNext]_vars => FlowIsOfTrajs'
  <2> SUFFICES ASSUME GuideInv, GuideInv', FlowIsOfTrajs, [GuideNext]_vars
               PROVE  FlowIsOfTrajs'
    OBVIOUS
  <2>1. CASE UNCHANGED <<trajs, flow, soc, planned>>
    BY <2>1, CountTheSame
  <2>2. CASE PlanBegin \/ FrankWolfeBegin \/ Deadline \/ Pop \/ FindNoPath \/ Generate
             \/ Pibt \/ Report \/ UNCHANGED vars
    BY <2>1, <2>2 DEF PlanBegin, FrankWolfeBegin, Deadline, Pop, FindNoPath, Generate,
       Pibt, Report, vars, lns
  <2>3. CASE TaskChange
    <3>1. CASE require_guide_path(agent)
      <4>1. agent \in Agents /\ Replan(agent) /\ pc = "task_change"
        BY <2>3, <3>1, TwoParts, Grid, Places DEF GuideInv, PlanTypeOK, TaskChange, Agents
      <4> QED BY <4>1, CountReplan
    <3>2. CASE ~require_guide_path(agent)
      BY <2>1, <2>3, <3>2 DEF TaskChange, lns
    <3> QED BY <3>1, <3>2
  <2>4. CASE FrankWolfe
    BY <2>4, CountReplan DEF FrankWolfe
  <2>5. CASE FindPath
    BY <2>5, CountFindPath
  <2> QED BY <2>2, <2>3, <2>4, <2>5 DEF GuideNext
<1> QED BY <1>1, <1>2, GuideIsInductive, PTL DEF GuideSpec

-----------------------------------------------------------------------------
(* The tables of the goals and of the trajectories.                        *)

(* Each table of a goal is as it was at first, or searched in order; that  *)
(* of an agent with a trajectory is searched in order, from that one.      *)
GoalTables(g) == {EmptyTable} \cup InOrder(distance[g])

OfGoals == \A g \in Free : heuristics[g] \in GoalTables(g)
OfWays == \A a \in Agents : trajs[a] # <<>> => traj_dists[a] \in InOrderToWay(trajs[a])
InTime == /\ pc # "idle" /\ ~late => \A a \in Agents :
               goal_locations[a] # None => heuristics[tasks[a]] # EmptyTable
          /\ pc = "search" => ~late

(* The property in these terms.                                            *)
LEMMA TheTables == PlanTypeOK => (TablesInOrder <=> OfGoals /\ OfWays /\ InTime)
<1> SUFFICES ASSUME PlanTypeOK PROVE TablesInOrder <=> OfGoals /\ OfWays /\ InTime
  OBVIOUS
<1>1. heuristics \in [Free -> Table] /\ traj_dists \in [Agents -> Table]
  BY DEF PlanTypeOK
<1>2. OfGoals <=> \A g \in Free :
         heuristics[g] # EmptyTable => BreadthFirst(heuristics[g], distance[g])
  <2>1. ASSUME NEW g \in Free
        PROVE  heuristics[g] \in GoalTables(g) <=>
               (heuristics[g] # EmptyTable => BreadthFirst(heuristics[g], distance[g]))
    <3>1. heuristics[g] \in Table
      BY <1>1
    <3> QED BY <3>1 DEF GoalTables, InOrder
  <2> QED BY <2>1 DEF OfGoals
<1>3. OfWays <=> \A a \in Agents : trajs[a] # <<>> =>
         /\ BreadthFirst(traj_dists[a], DistanceToWay(trajs[a]))
         /\ LeadsToWay(traj_dists[a], trajs[a])
  <2>1. \A a \in Agents : traj_dists[a] \in Table
    BY <1>1
  <2> QED BY <2>1 DEF OfWays, InOrderToWay
<1> QED BY <1>2, <1>3 DEF TablesInOrder, InTime

(* The same after a step.                                                  *)
LEMMA TheTablesNext == PlanTypeOK' => (TablesInOrder' <=> OfGoals' /\ OfWays' /\ InTime')
<1> SUFFICES ASSUME PlanTypeOK' PROVE TablesInOrder' <=> OfGoals' /\ OfWays' /\ InTime'
  OBVIOUS
<1>1. heuristics' \in [Free -> Table] /\ traj_dists' \in [Agents -> Table]
  BY DEF PlanTypeOK
<1>2. OfGoals' <=> \A g \in Free :
         heuristics'[g] # EmptyTable => BreadthFirst(heuristics'[g], distance[g])
  <2>1. ASSUME NEW g \in Free
        PROVE  heuristics'[g] \in GoalTables(g) <=>
               (heuristics'[g] # EmptyTable => BreadthFirst(heuristics'[g], distance[g]))
    <3>1. heuristics'[g] \in Table
      BY <1>1
    <3> QED BY <3>1 DEF GoalTables, InOrder
  <2> QED BY <2>1 DEF OfGoals
<1>3. OfWays' <=> \A a \in Agents : trajs'[a] # <<>> =>
         /\ BreadthFirst(traj_dists'[a], DistanceToWay(trajs'[a]))
         /\ LeadsToWay(traj_dists'[a], trajs'[a])
  <2>1. \A a \in Agents : traj_dists'[a] \in Table
    BY <1>1
  <2> QED BY <2>1 DEF OfWays, InOrderToWay
<1> QED BY <1>2, <1>3 DEF TablesInOrder, InTime

(* A goal is a place whose distances are what its table is to hold.        *)
LEMMA GoalDistances ==
  ASSUME NEW g \in Free
  PROVE  /\ g \in Free /\ IsDistance(distance[g], {g})
         /\ EmptyTable \notin InOrder(distance[g])
BY Places, DistancesAre, NotBegun

(* Questions put to a table that has not been begun do not begin it; one   *)
(* that has been is searched on in order, and answers.                     *)
LEMMA GoalAsked ==
  ASSUME Unreachable < MAX_TIMESTEP, NEW g \in Free, NEW t \in GoalTables(g),
         NEW source \in Cells
  PROVE  /\ Asked(t, source) \in GoalTables(g)
         /\ t # EmptyTable => /\ Asked(t, source) # EmptyTable
                              /\ Asked(t, source).cost[source] = Entry(distance[g][source])
<1>1. CASE t = EmptyTable
  BY <1>1, NotBegun DEF GoalTables
<1>2. CASE t # EmptyTable
  <2>1. t \in InOrder(distance[g])
    BY <1>2 DEF GoalTables
  <2>2. /\ Asked(t, source) \in InOrder(distance[g])
        /\ Asked(t, source).cost[source] = Entry(distance[g][source])
    BY <2>1, GoalDistances, AskedAnswers
  <2> QED BY <2>2, GoalDistances DEF GoalTables
<1> QED BY <1>1, <1>2

(* Several questions do the same.                                          *)
LEMMA WayAsked ==
  ASSUME Unreachable < MAX_TIMESTEP, NEW traj \in Seq(Free), traj # <<>>,
         NEW t \in InOrderToWay(traj)
  PROVE  /\ \A source \in Cells : Asked(t, source) \in InOrderToWay(traj)
         /\ \A sources \in Seq(Cells) : AskedAll(t, sources) \in InOrderToWay(traj)
<1>1. InOrderToWay(traj) \in SUBSET Table
  BY DEF InOrderToWay
<1>2. \A u \in InOrderToWay(traj) : u.open # <<>> => Expand(u) \in InOrderToWay(traj)
  BY ExpandStaysOnWay
<1> QED BY <1>1, <1>2, AskedSearches, AskedAllSearches

(* An answer leaves the other tables alone.                                *)
Asks(g, source) == heuristics' = [heuristics EXCEPT ![g] = Asked(heuristics[g], source)]

(* Tables of goals that have been begun are searched on.                   *)
GoOn == \A g \in Free : /\ heuristics'[g] \in GoalTables(g)
                        /\ heuristics[g] # EmptyTable => heuristics'[g] # EmptyTable

(* One question, or none, goes on with the table of its goal.              *)
LEMMA AskingGoesOn ==
  ASSUME PlanTypeOK, OfGoals, Unreachable < MAX_TIMESTEP,
         NEW goal \in Free, NEW source \in Cells, Asks(goal, source)
  PROVE  GoOn
<1> SUFFICES ASSUME NEW g \in Free
             PROVE  /\ heuristics'[g] \in GoalTables(g)
                    /\ heuristics[g] # EmptyTable => heuristics'[g] # EmptyTable
  BY DEF GoOn
<1>1. heuristics[g] \in GoalTables(g) /\ heuristics \in [Free -> Table]
  BY DEF OfGoals, PlanTypeOK
<1>2. CASE g = goal
  <2>1. heuristics'[g] = Asked(heuristics[g], source)
    BY <1>1, <1>2 DEF Asks
  <2> QED BY <1>1, <2>1, GoalAsked
<1>3. CASE g # goal
  <2>1. heuristics'[g] = heuristics[g]
    BY <1>1, <1>3 DEF Asks
  <2> QED BY <1>1, <2>1
<1> QED BY <1>2, <1>3

(* Whose step it is when an agent's path is to be replaced.                *)
Replans(a) == /\ Replan(a)
              /\ pc \in {"task_change", "frank_wolfe"} /\ ~late
              /\ late' = late /\ tasks' = tasks

(* A turn begins a search or leaves the plan as it is.                     *)
LEMMA ReplanOrNot ==
  ASSUME PlanTypeOK, TaskChange \/ FrankWolfe
  PROVE  \/ \E a \in Agents : Replans(a)
         \/ UNCHANGED <<pc, reported, heuristics, lns, planned, back, search, late, tasks>>
<1>1. CASE TaskChange
  <2>1. agent \in Agents
    BY <1>1, Grid DEF TaskChange, PlanTypeOK, Agents
  <2> QED BY <1>1, <2>1 DEF TaskChange, Replans
<1>2. CASE FrankWolfe
  BY <1>2 DEF FrankWolfe, Replans
<1> QED BY <1>1, <1>2

(* A search is for a goal, and looks at cells next to that it is at.       *)
LEMMA SearchFor ==
  ASSUME GuideInv, pc = "search"
  PROVE  /\ planned \in Agents /\ tasks[planned] \in Free /\ Loc(planned) \in Free
         /\ left # <<>> => /\ Head(left) \in Free /\ Head(left) \in ToSet(left)
                           /\ curr \in DOMAIN mem /\ mem[curr].closed
                           /\ Head(left) \in Neighbors(curr)
<1>1. PlanTypeOK /\ SearchTypeOK /\ SearchTree
  BY TwoParts DEF GuideInv
<1>2. planned \in Agents /\ tasks[planned] \in Free /\ Loc(planned) \in Free
  BY <1>1, Placed DEF PlanTypeOK
<1>3. ASSUME left # <<>>
      PROVE  /\ Head(left) \in Free /\ Head(left) \in ToSet(left)
             /\ curr \in DOMAIN mem /\ mem[curr].closed
             /\ Head(left) \in Neighbors(curr)
  <2>1. left \in Seq(Free) /\ 1 \in DOMAIN left /\ Head(left) = left[1]
    BY <1>1, <1>3, LenProperties, EmptySeq DEF SearchTypeOK
  <2>2. Head(left) \in Neighbors(curr) /\ curr \in DOMAIN mem /\ mem[curr].closed
    BY <1>1, <1>3, <2>1 DEF SearchTree
  <2> QED BY <2>1, <2>2 DEF Neighbors, ToSet
<1> QED BY <1>2, <1>3

(* Every step goes on with the tables of goals.                            *)
LEMMA StepsGoOn ==
  ASSUME GuideInv, OfGoals, Unreachable < MAX_TIMESTEP, [GuideNext]_vars
  PROVE  GoOn
<1>1. PlanTypeOK
  BY TwoParts DEF GuideInv
<1>2. CASE heuristics' = heuristics
  BY <1>2 DEF GoOn, OfGoals
<1>3. CASE PlanBegin
  <2> SUFFICES ASSUME NEW g \in Free
               PROVE  /\ heuristics'[g] \in GoalTables(g)
                      /\ heuristics[g] # EmptyTable => heuristics'[g] # EmptyTable
    BY DEF GoOn
  <2>1. heuristics'[g] = heuristics[g]
        \/ (heuristics[g] = EmptyTable /\ heuristics'[g] = init_heuristic(g))
    BY <1>3 DEF PlanBegin
  <2>2. init_heuristic(g) \in InOrder(distance[g])
    BY GoalDistances, BegunInOrder
  <2> QED BY <2>1, <2>2 DEF OfGoals, GoalTables
<1>4. CASE TaskChange \/ FrankWolfe
  <2>1. CASE \E a \in Agents : Replans(a)
    <3>1. PICK a \in Agents : Replans(a)
      BY <2>1
    <3>2. tasks[a] \in Free /\ Loc(a) \in Cells
      BY <1>1, <3>1, Placed DEF PlanTypeOK, Replans
    <3>3. Asks(tasks[a], Loc(a))
      BY <3>1 DEF Replans, Replan, Asks
    <3> QED BY <1>1, <3>2, <3>3, AskingGoesOn
  <2> QED BY <1>1, <1>2, <1>4, <2>1, ReplanOrNot
<1>5. CASE Generate
  <2>1. pc = "search" /\ left # <<>> /\ Asks(tasks[planned], Head(left))
    BY <1>5 DEF Generate, Asks
  <2>2. tasks[planned] \in Free /\ Head(left) \in Cells
    BY <2>1, SearchFor, Grid
  <2> QED BY <1>1, <2>1, <2>2, AskingGoesOn
<1>6. CASE Pibt
  <2> SUFFICES ASSUME NEW g \in Free
               PROVE  /\ heuristics'[g] \in GoalTables(g)
                      /\ heuristics[g] # EmptyTable => heuristics'[g] # EmptyTable
    BY DEF GoOn
  <2>1. \E asking : heuristics'[g] = IF heuristics[g] = EmptyTable THEN EmptyTable
                                     ELSE AskedAround(heuristics[g], asking)
    BY <1>6, PibtAsks
  <2>2. CASE heuristics[g] = EmptyTable
    BY <2>1, <2>2 DEF GoalTables
  <2>3. CASE heuristics[g] # EmptyTable
    <3> DEFINE U == InOrder(distance[g])
    <3>1. heuristics[g] \in U
      BY <2>3 DEF OfGoals, GoalTables
    <3>2. U \in SUBSET Table /\ \A u \in U : u.open # <<>> => Expand(u) \in U
      BY GoalDistances, ExpandStaysInOrder DEF InOrder
    <3> HIDE DEF U
    <3>3. \A t \in U : \A sources \in Seq(Cells) : AskedAll(t, sources) \in U
      BY <3>2, AskedAllSearches
    <3>4. heuristics'[g] \in U
      BY <1>1, <2>1, <2>3, <3>1, <3>3, AroundKeeps
    <3> QED BY <3>4, GoalDistances DEF GoalTables, U
  <2> QED BY <2>2, <2>3
<1>7. CASE FrankWolfeBegin \/ Deadline \/ Pop \/ FindPath \/ FindNoPath \/ Report
           \/ UNCHANGED vars
  BY <1>2, <1>7 DEF FrankWolfeBegin, Deadline, Pop, FindPath, FindNoPath, Report, vars
<1> QED BY <1>3, <1>4, <1>5, <1>6, <1>7 DEF GuideNext

(* The table of an agent is from its present trajectory after every step.  *)
LEMMA StepsKeepWays ==
  ASSUME GuideInv, OfWays, Unreachable < MAX_TIMESTEP, [GuideNext]_vars
  PROVE  OfWays'
<1>1. PlanTypeOK /\ trajs \in [Agents -> Seq(Free)]
  BY TwoParts DEF GuideInv, PlanTypeOK
<1>2. CASE UNCHANGED <<trajs, traj_dists>>
  BY <1>2 DEF OfWays
<1>3. CASE FrankWolfeBegin
  <2>1. trajs' = trajs /\ \A a \in Agents :
          trajs[a] # <<>> => traj_dists'[a] = Asked(traj_dists[a], Loc(a))
    BY <1>3 DEF FrankWolfeBegin
  <2>2. ASSUME NEW a \in Agents, trajs[a] # <<>>
        PROVE  traj_dists'[a] \in InOrderToWay(trajs[a])
    BY <1>1, <2>1, <2>2, Placed, WayAsked DEF OfWays
  <2> QED BY <2>1, <2>2 DEF OfWays
<1>4. CASE Pibt
  <2>1. trajs' = trajs
    BY <1>4 DEF Pibt
  <2>2. ASSUME NEW a \in Agents, trajs[a] # <<>>
        PROVE  traj_dists'[a] \in InOrderToWay(trajs[a])
    <3>1. \/ traj_dists'[a] = traj_dists[a]
          \/ traj_dists'[a] = AskedAll(traj_dists[a], Around(a))
      BY <1>4, PibtAsks
    <3> QED BY <1>1, <2>2, <3>1, AroundAreCells, WayAsked DEF OfWays
  <2> QED BY <2>1, <2>2 DEF OfWays
<1>5. CASE FindPath
  <2> DEFINE p == PathTo(tasks[planned])
  <2>1. p \in Seq(Free) /\ p # <<>> /\ OneEach(p)
    BY <1>5, FoundAWay DEF OneEach
  <2>2. /\ trajs' = [trajs EXCEPT ![planned] = p]
        /\ traj_dists' = [traj_dists EXCEPT ![planned] = init_dist_2_path(p)]
    BY <1>5 DEF FindPath, update_traj
  <2> HIDE DEF p
  <2>3. init_dist_2_path(p) \in InOrderToWay(p)
    BY <2>1, BegunInOrder
  <2>4. traj_dists \in [Agents -> Table]
    BY <1>1 DEF PlanTypeOK
  <2> QED BY <1>1, <2>2, <2>3, <2>4 DEF OfWays
<1>6. CASE Report \/ PlanBegin \/ Deadline \/ Pop \/ FindNoPath \/ Generate
           \/ TaskChange \/ FrankWolfe \/ UNCHANGED vars
  <2>1. CASE TaskChange \/ FrankWolfe
    BY <1>1, <1>2, <2>1, ReplanOrNot DEF Replans, Replan, lns
  <2> QED BY <1>2, <1>6, <2>1 DEF Report, PlanBegin, Deadline, Pop, FindNoPath, Generate,
                                  vars, lns
<1> QED BY <1>3, <1>4, <1>5, <1>6 DEF GuideNext

(* While there is time, the tables of the goals have been begun.           *)
LEMMA StepsAreInTime ==
  ASSUME GuideInv, OfGoals, OfGoals', GoOn, InTime, Unreachable < MAX_TIMESTEP,
         [GuideNext]_vars
  PROVE  InTime'
<1>1. PlanTypeOK
  BY TwoParts DEF GuideInv
<1>2. CASE PlanBegin
  <2>1. /\ pc' = "task_change" /\ goal_locations \in [Agents -> Goals \cup {None}]
        /\ \A a \in Agents : goal_locations[a] # None => tasks'[a] = goal_locations[a]
        /\ goal_locations' = goal_locations
    BY <1>1, <1>2 DEF PlanBegin, PlanTypeOK, reported
  <2>2. ASSUME ~late', NEW a \in Agents, goal_locations[a] # None
        PROVE  heuristics'[tasks'[a]] # EmptyTable
    <3> DEFINE g == goal_locations[a]
    <3>1. g \in Free /\ tasks'[a] = g
      BY <2>1, <2>2, Places
    <3>2. PICK n \in 0..NumAgents :
            /\ late' = (n < NumAgents)
            /\ heuristics' = [x \in Free |->
                 IF heuristics[x] = EmptyTable /\ \E b \in 0..n-1 : goal_locations[b] = x
                   THEN init_heuristic(x) ELSE heuristics[x]]
      BY <1>2 DEF PlanBegin
    <3>3. n = NumAgents /\ a \in 0..n-1
      <4>1. ~(n < NumAgents) /\ n \in 0..NumAgents /\ NumAgents \in Nat
        BY <2>2, <3>2, Grid
      <4>2. n = NumAgents
        BY <4>1
      <4> QED BY <4>2 DEF Agents
    <3>4. heuristics[g] = EmptyTable => heuristics'[g] = init_heuristic(g)
      BY <3>1, <3>2, <3>3
    <3>5. init_heuristic(g) \in InOrder(distance[g])
      BY <3>1, GoalDistances, BegunInOrder
    <3>6. heuristics'[g] # EmptyTable
      BY <3>1, <3>4, <3>5, GoalDistances DEF GoOn
    <3> QED BY <3>1, <3>6
  <2> QED BY <2>1, <2>2 DEF InTime
<1>3. CASE Report
  BY <1>3 DEF Report, InTime
<1>4. CASE UNCHANGED vars
  <2>1. UNCHANGED <<pc, late, tasks, heuristics, goal_locations>>
    BY <1>4 DEF vars, loop, reported
  <2> QED BY <2>1 DEF InTime
<1>5. CASE FrankWolfeBegin \/ Deadline \/ Pop \/ FindPath \/ FindNoPath \/ Generate \/ Pibt
           \/ TaskChange \/ FrankWolfe
  <2>1. /\ pc # "idle" /\ tasks' = tasks /\ (late' = late \/ late')
        /\ goal_locations' = goal_locations
    BY <1>5 DEF FrankWolfeBegin, Deadline, Pop, FindPath, FindNoPath, Generate, Pibt,
                TaskChange, FrankWolfe, Replan, loop, SearchUnchanged, reported
  <2>2. tasks \in [Agents -> Free]
    BY <1>1, <2>1 DEF PlanTypeOK
  <2>3. ~late' => \A a \in Agents :
          goal_locations'[a] # None => heuristics'[tasks'[a]] # EmptyTable
    BY <2>1, <2>2 DEF InTime, GoOn
  <2>4. pc' = "search" => ~late'
    <3>1. CASE TaskChange \/ FrankWolfe
      <4>1. TaskChange \/ FrankWolfe => ~late /\ late' = late
        BY DEF TaskChange, FrankWolfe
      <4> QED BY <3>1, <4>1
    <3>2. CASE Pop \/ Generate
      BY <3>2 DEF Pop, Generate, SearchUnchanged, loop, InTime
    <3>3. CASE FindPath
      BY <1>1, <3>3 DEF FindPath, PlanTypeOK
    <3>4. CASE FrankWolfeBegin \/ Deadline \/ FindNoPath \/ Pibt
      BY <3>4 DEF FrankWolfeBegin, Deadline, FindNoPath, Pibt
    <3> QED BY <1>5, <3>1, <3>2, <3>3, <3>4
  <2> QED BY <2>3, <2>4 DEF InTime
<1> QED BY <1>2, <1>3, <1>4, <1>5 DEF GuideNext

(* The tables that have been begun are breadth-first searches from where   *)
(* they should be, those of goals and those of trajectories, and they are  *)
(* at hand whenever a path is searched for.                                *)
THEOREM TablesAreSearched ==
  ASSUME Unreachable < MAX_TIMESTEP
  PROVE  GuideSpec => []TablesInOrder
<1>1. GuideInit => TablesInOrder
  <2> SUFFICES ASSUME GuideInit PROVE TablesInOrder
    OBVIOUS
  <2>1. PlanTypeOK
    BY GuideInitial, TwoParts DEF GuideInv
  <2>2. OfGoals /\ OfWays /\ InTime
    BY DEF GuideInit, OfGoals, GoalTables, OfWays, InTime
  <2> QED BY <2>1, <2>2, TheTables
<1>2. GuideInv /\ GuideInv' /\ TablesInOrder /\ [GuideNext]_vars => TablesInOrder'
  <2> SUFFICES ASSUME GuideInv, GuideInv', TablesInOrder, [GuideNext]_vars
               PROVE  TablesInOrder'
    OBVIOUS
  <2>1. PlanTypeOK /\ PlanTypeOK'
    BY TwoParts, TwoPartsNext DEF GuideInv
  <2>2. OfGoals /\ OfWays /\ InTime
    BY <2>1, TheTables
  <2>3. GoOn
    BY <2>2, StepsGoOn
  <2>4. OfGoals'
    BY <2>3 DEF GoOn, OfGoals
  <2> QED BY <2>1, <2>2, <2>3, <2>4, StepsKeepWays, StepsAreInTime, TheTablesNext
<1> QED BY <1>1, <1>2, GuideIsInductive, PTL DEF GuideSpec

(* What the planner takes for the distance to a goal, or to the trajectory *)
(* of an agent and along it to its end, is that distance, however searches *)
(* were broken off and taken up again.                                     *)
THEOREM TablesExact ==
  ASSUME Unreachable < MAX_TIMESTEP
  PROVE  GuideSpec => []TablesAreExact
<1>1. GuideInv /\ TablesInOrder => TablesAreExact
  <2> SUFFICES ASSUME GuideInv, TablesInOrder PROVE TablesAreExact
    OBVIOUS
  <2>1. PlanTypeOK
    BY TwoParts DEF GuideInv
  <2>2. OfGoals /\ OfWays
    BY <2>1, TheTables
  <2>3. HeuristicsAreExact
    BY <2>2, GoalDistances, InOrderIsExact DEF HeuristicsAreExact, OfGoals, GoalTables
  <2>4. ASSUME NEW a \in Agents, trajs[a] # <<>>
        PROVE  /\ Exact(traj_dists[a], DistanceToWay(trajs[a]))
               /\ LeadsToWay(traj_dists[a], trajs[a])
    <3>1. traj_dists[a] \in InOrder(DistanceToWay(trajs[a])) /\ LeadsToWay(traj_dists[a], trajs[a])
      BY <2>2, <2>4 DEF OfWays, InOrderToWay, InOrder
    <3>2. trajs[a] \in Seq(Free)
      BY <2>1 DEF PlanTypeOK
    <3> QED BY <2>4, <3>1, <3>2, DistancesAre, InOrderIsExact
  <2> QED BY <2>3, <2>4 DEF TablesAreExact, GuidesAreExact
<1> QED BY <1>1, GuideIsInductive, TablesAreSearched, PTL

-----------------------------------------------------------------------------
(* What steps and nodes cost.                                              *)

(* Traffic is never negative.                                              *)
LEMMA FlowIsANumber ==
  ASSUME GuideInv, FlowIsOfTrajs
  PROVE  \A c \in Cells, d \in Orientation : flow[c][d] \in Nat
<1> SUFFICES ASSUME NEW c \in Cells, NEW d \in Orientation PROVE flow[c][d] \in Nat
  OBVIOUS
<1> DEFINE T == {a \in OnTheirWay : EdgesOf(trajs[a])[c][d] = 1}
<1>1. IsFiniteSet(T)
  BY Travellers, FS_Subset
<1>2. flow[c][d] = Cardinality(T)
  BY DEF FlowIsOfTrajs
<1> QED BY <1>1, <1>2, FS_CardinalityType

(* Each step costs itself at least.                                        *)
LEMMA StepsCost ==
  ASSUME GuideInv, FlowIsOfTrajs, NEW from \in Cells, NEW to \in Cells
  PROVE  StepCost(from, to) \in Nat /\ StepCost(from, to) >= 1
<1> DEFINE d == get_d(to - from)
           x == flow[from][d]
           y == flow[to][(d + 2) % 4]
           z == SumOverEdges(to)
<1>1. d \in Orientation
  BY Grid, Turns
<1> HIDE DEF d
<1>2. (d + 2) % 4 \in Orientation
  BY <1>1 DEF Orientation
<1>3. x \in Nat /\ y \in Nat
  BY <1>1, <1>2, FlowIsANumber
<1>4. z \in Nat
  <2>1. 0 \in Orientation /\ 1 \in Orientation /\ 2 \in Orientation /\ 3 \in Orientation
    BY DEF Orientation
  <2>2. /\ flow[to][0] \in Nat /\ flow[to][1] \in Nat
        /\ flow[to][2] \in Nat /\ flow[to][3] \in Nat
    BY <2>1, FlowIsANumber
  <2> QED BY <2>2 DEF SumOverEdges
<1>5. StepCost(from, to) = 1 + (x + 1) * y + z \div 2
  BY DEF StepCost, d
<1> HIDE DEF x, y, z
<1>6. (x + 1) * y \in Nat
  <2>1. \A i, j \in Nat : (i + 1) * j \in Nat
    OBVIOUS
  <2> QED BY <1>3, <2>1
<1>7. z \div 2 \in Nat
  BY <1>4, Halves
<1> DEFINE p == (x + 1) * y
           q == z \div 2
<1> HIDE DEF p, q
<1>8. StepCost(from, to) = 1 + p + q /\ p \in Nat /\ q \in Nat
  BY <1>5, <1>6, <1>7 DEF p, q
<1> QED BY <1>8

(* What a node costs in all is what its way costs and its h.               *)
LEMMA CostsInAll ==
  ASSUME NEW n \in NodeType
  PROVE  WayCost(n) \in Int /\ get_all(n) = WayCost(n) + n.h /\ n.h \in Nat
BY DEF NodeType, WayCost, get_all, get_f

(* A step brings a goal nearer by one step at most, over the grid.         *)
LEMMA ManhattanConsistent ==
  ASSUME NEW g \in Free, NEW c \in Cells, NEW n \in Neighbors(c)
  PROVE  /\ manhattanDistance(c, g) \in Nat /\ manhattanDistance(n, g) \in Nat
         /\ manhattanDistance(c, g) <= manhattanDistance(n, g) + 1
<1> DEFINE r == RowOf(c)
           k == ColOf(c)
           r2 == RowOf(n)
           k2 == ColOf(n)
           r3 == RowOf(g)
           k3 == ColOf(g)
<1>1. /\ r \in Int /\ k \in Int /\ r2 \in Int /\ k2 \in Int /\ r3 \in Int /\ k3 \in Int
  BY Grid, StepsOnGrid DEF Neighbors
<1>2. Abs(r2 - r) + Abs(k2 - k) <= 1
  BY DEF Neighbors, AllowedMove
<1>3. /\ manhattanDistance(c, g) = Abs(r - r3) + Abs(k - k3)
      /\ manhattanDistance(n, g) = Abs(r2 - r3) + Abs(k2 - k3)
  BY DEF manhattanDistance
<1> HIDE DEF r, k, r2, k2, r3, k3
<1>4. /\ Abs(r - r3) + Abs(k - k3) \in Nat /\ Abs(r2 - r3) + Abs(k2 - k3) \in Nat
      /\ Abs(r - r3) + Abs(k - k3) <= Abs(r2 - r3) + Abs(k2 - k3) + 1
  BY <1>1, <1>2 DEF Abs
<1> QED BY <1>3, <1>4

(* The tables say the same.                                                *)
LEMMA TableConsistent ==
  ASSUME Unreachable < MAX_TIMESTEP, NEW g \in Free, NEW c \in Cells, NEW n \in Neighbors(c)
  PROVE  LET D == distance[g] IN
         Entry(D[c]) \in Nat /\ Entry(D[n]) \in Nat /\ Entry(D[c]) <= Entry(D[n]) + 1
<1> DEFINE D == distance[g]
<1>1. IsDistance(D, {g})
  BY GoalDistances
<1> HIDE DEF D
<1>2. n \in Cells /\ c \in Neighbors(n) /\ Unreachable \in Nat
  BY NeighborsMutual, Grid DEF Unreachable
<1>3. D[c] \in Nat /\ D[n] \in Nat /\ D[c] <= D[n] + 1
      /\ D[c] <= Unreachable /\ D[n] <= Unreachable
  BY <1>1, <1>2 DEF IsDistance
<1>4. D[n] < Unreachable => D[c] < Unreachable
  BY <1>1, <1>2, NextIsReachable
<1>5. MAX_TIMESTEP \in Nat
  BY Grid
<1> HIDE DEF MAX_TIMESTEP
<1>6. Entry(D[c]) \in Nat /\ Entry(D[n]) \in Nat /\ Entry(D[c]) <= Entry(D[n]) + 1
  BY <1>2, <1>3, <1>4, <1>5 DEF Entry
<1> QED BY <1>6 DEF D

(* So does what the search goes by.                                        *)
LEMMA Consistent ==
  ASSUME Unreachable < MAX_TIMESTEP, NEW g \in Free, NEW c \in Cells, NEW n \in Neighbors(c)
  PROVE  ToGo(g, c) \in Nat /\ ToGo(g, n) \in Nat /\ ToGo(g, c) <= ToGo(g, n) + 1
BY ManhattanConsistent, TableConsistent DEF ToGo

(* At the goal itself there is nothing to go.                              *)
LEMMA NothingToGo == ASSUME NEW g \in Free PROVE ToGo(g, g) = 0
<1>1. g \in Cells /\ g \in Free /\ IsDistance(distance[g], {g})
  BY GoalDistances, Grid
<1>2. distance[g][g] = 0
  BY <1>1 DEF IsDistance
<1>3. Unreachable \in Nat /\ Unreachable > 0
  BY <1>1, Grid DEF Unreachable, Cells
<1>4. manhattanDistance(g, g) = 0
  <2>1. RowOf(g) \in Int /\ ColOf(g) \in Int
    BY <1>1, StepsOnGrid
  <2> QED BY <2>1 DEF manhattanDistance, Abs
<1> QED BY <1>2, <1>3, <1>4 DEF Entry, ToGo

(* What the way to the node for a neighbor costs.                          *)
LEMMA StepNodeCosts ==
  ASSUME GuideInv, curr \in DOMAIN mem, NEW next \in Free, NEW h \in Nat
  PROVE  /\ WayCost(StepNode(next, h)) = WayCost(mem[curr]) + StepCost(curr, next)
         /\ StepNode(next, h).h = h /\ StepNode(next, h).parent = curr
         /\ StepNode(next, h) \in NodeType /\ ~StepNode(next, h).closed
<1>1. PlanTypeOK /\ SearchTypeOK
  BY TwoParts DEF GuideInv
<1> DEFINE from == mem[curr]
           d == get_d(next - curr)
           step == (flow[curr][d] + 1) * flow[next][(d + 2) % 4]
           through == SumOverEdges(next) \div 2
           tie == IF from.parent = None \/ get_d(curr - from.parent) = d THEN 0 ELSE 1
           node == StepNode(next, h)
<1>2. /\ node \in NodeType /\ ~node.closed /\ node.parent = curr /\ from \in NodeType
  BY <1>1, NodesStayInType DEF SearchTypeOK
<1>3. /\ node.g = from.g + 1 /\ node.op_flow = from.op_flow + step
      /\ node.all_vertex_flow = from.all_vertex_flow + through /\ node.h = h
  BY DEF StepNode, Node
<1>4. StepCost(curr, next) = 1 + step + through
  BY DEF StepCost
<1>5. step \in Int /\ through \in Int
  <2>1. /\ flow \in [Cells -> [Orientation -> Int]] /\ curr \in Cells /\ next \in Cells
    BY <1>1, Grid DEF PlanTypeOK, SearchTypeOK
  <2>2. d \in Orientation
    BY <2>1, Grid, Turns
  <2> HIDE DEF d
  <2>3. (d + 2) % 4 \in Orientation
    BY <2>2 DEF Orientation
  <2>4. flow[curr][d] \in Int /\ flow[next][(d + 2) % 4] \in Int
    BY <2>1, <2>2, <2>3
  <2>5. \A i, j \in Int : (i + 1) * j \in Int
    OBVIOUS
  <2>6. step \in Int
    BY <2>4, <2>5
  <2>7. 0 \in Orientation /\ 1 \in Orientation /\ 2 \in Orientation /\ 3 \in Orientation
    BY DEF Orientation
  <2>8. SumOverEdges(next) \in Int
    BY <2>1, <2>7 DEF SumOverEdges
  <2>9. \A i \in Int : i \div 2 \in Int
    OBVIOUS
  <2> QED BY <2>6, <2>8, <2>9
<1> HIDE DEF node, step, through, from
<1>6. from.g \in Nat /\ from.op_flow \in Int /\ from.all_vertex_flow \in Int
  BY <1>2 DEF NodeType
<1>7. WayCost(node) = WayCost(from) + (1 + step + through)
  BY <1>3, <1>5, <1>6 DEF WayCost
<1> QED BY <1>2, <1>3, <1>4, <1>7 DEF node, from

-----------------------------------------------------------------------------
(* The search takes the cheapest nodes first.                              *)

Goal == tasks[planned]
ToTheGoal(c) == ToGo(Goal, c)
Closed == {c \in DOMAIN mem : mem[c].closed}

(* BestFirst in parts: what the nodes hold, what it means to be closed,    *)
(* and the order of the heap.                                              *)
NodesArePriced ==
  /\ Loc(planned) \in DOMAIN mem /\ mem[Loc(planned)].parent = None
  /\ \A c \in DOMAIN mem :
       /\ mem[c].h = ToTheGoal(c) /\ WayCost(mem[c]) >= 0
       /\ IF mem[c].parent = None THEN WayCost(mem[c]) = 0
          ELSE WayCost(mem[c]) = WayCost(mem[mem[c].parent]) + StepCost(mem[c].parent, c)

ClosedFirst ==
  /\ Goal \notin Closed
  /\ \A c \in Closed :
       /\ \A n \in Neighbors(c) :
            \/ c = curr /\ n \in ToSet(left)
            \/ n \in DOMAIN mem /\ WayCost(mem[n]) <= WayCost(mem[c]) + StepCost(c, n)
       /\ left # <<>> => get_all(mem[c]) <= get_all(mem[curr])
       /\ \A n \in ToSet(open) : get_all(mem[c]) <= get_all(mem[n])

(* The order of the search is these parts.                                 *)
LEMMA Parts ==
  BestFirst <=> (pc = "search" => NodesArePriced /\ ClosedFirst /\ HeapOrder(mem, open))
BY DEF BestFirst, NodesArePriced, ClosedFirst, Closed, HeapOrder, Goal, ToTheGoal

(* The same after a step.                                                  *)
LEMMA PartsNext ==
  BestFirst' <=>
    (pc' = "search" => NodesArePriced' /\ ClosedFirst' /\ HeapOrder(mem', open'))
BY DEF BestFirst, NodesArePriced, ClosedFirst, Closed, HeapOrder, Goal, ToTheGoal

(* The nodes of a search cost numbers.                                     *)
LEMMA NodesCost ==
  ASSUME GuideInv
  PROVE  /\ DOMAIN mem \subseteq Free /\ DOMAIN mem \subseteq Cells
         /\ open \in Heaps(Free) /\ ToSet(open) = DOMAIN mem \ Closed
         /\ Priced(mem, open)
         /\ \A c \in DOMAIN mem :
              /\ mem[c] \in NodeType /\ mem[c].h \in Nat
              /\ WayCost(mem[c]) \in Int /\ get_all(mem[c]) \in Int
              /\ get_all(mem[c]) = WayCost(mem[c]) + mem[c].h
<1>1. SearchTypeOK
  BY TwoParts DEF GuideInv
<1>2. \A c \in DOMAIN mem : mem[c] \in NodeType
  BY <1>1 DEF SearchTypeOK
<1>3. ASSUME NEW c \in DOMAIN mem
      PROVE  /\ mem[c].h \in Nat
             /\ WayCost(mem[c]) \in Int /\ get_all(mem[c]) \in Int
             /\ get_all(mem[c]) = WayCost(mem[c]) + mem[c].h
  <2> DEFINE n == mem[c]
  <2>1. n \in NodeType
    BY <1>2
  <2> HIDE DEF n
  <2>2. WayCost(n) \in Int /\ get_all(n) = WayCost(n) + n.h /\ n.h \in Nat
    BY <2>1, CostsInAll
  <2>3. get_all(n) \in Int
    BY <2>2
  <2> QED BY <2>2, <2>3 DEF n
<1>4. ToSet(open) = DOMAIN mem \ Closed
  BY <1>1 DEF SearchTypeOK, Closed
<1>5. Priced(mem, open)
  <2>1. \A k \in DOMAIN open : open[k] \in DOMAIN mem
    BY <1>4 DEF ToSet
  <2> QED BY <1>3, <2>1 DEF Priced
<1> QED BY <1>1, <1>2, <1>3, <1>4, <1>5, Grid DEF SearchTypeOK

(* A search begins with a node that costs nothing but the way to go.       *)
LEMMA ReplanBest ==
  ASSUME GuideInv, TablesInOrder, Unreachable < MAX_TIMESTEP, NEW a \in Agents, Replans(a)
  PROVE  BestFirst'
<1> DEFINE g == tasks[a]
           at == Loc(a)
<1>1. PlanTypeOK
  BY TwoParts DEF GuideInv
<1>2. g \in Free /\ at \in Cells /\ at \in Free /\ left = <<>>
  BY <1>1, Placed DEF PlanTypeOK, Replans, NoSearch
<1>3. heuristics[g] \in GoalTables(g)
  <2>1. OfGoals
    BY <1>1, TheTables
  <2> QED BY <1>2, <2>1 DEF OfGoals
<1>4. Estimate(g, heuristics'[g], at) = ToGo(g, at)'
  <2>1. heuristics' = [heuristics EXCEPT ![g] = Asked(heuristics[g], at)]
    BY DEF Replans, Replan
  <2>2. heuristics \in [Free -> Table]
    BY <1>1 DEF PlanTypeOK
  <2>3. heuristics'[g] = Asked(heuristics[g], at)
    BY <1>2, <2>1, <2>2
  <2>4. heuristics'[g] # EmptyTable => heuristics'[g].cost[at] = Entry(distance[g][at])
    BY <1>2, <1>3, <2>3, GoalAsked, NotBegun
  <2>5. tasks' = tasks /\ curr_states' = curr_states
    BY DEF Replans, Replan, reported
  <2> QED BY <2>4, <2>5 DEF Estimate, ToGo, Loc
<1> DEFINE node == Node(0, ToGo(g, at)', 0, 0, None, 0)
<1>5. /\ mem' = [c \in {at} |-> node] /\ open' = <<at>> /\ left' = <<>>
      /\ planned' = a /\ tasks' = tasks /\ Loc(planned)' = at
  BY <1>2, <1>4 DEF Replans, Replan, reported, Loc
<1>6. /\ ~node.closed /\ node.parent = None /\ node.h = ToGo(g, at)'
      /\ WayCost(node) = 0
  BY DEF Node, WayCost
<1> HIDE DEF node
<1>7. DOMAIN mem' = {at} /\ mem'[at] = node /\ Goal' = g /\ Closed' = {}
  BY <1>5, <1>6 DEF Goal, Closed
<1>8. NodesArePriced'
  BY <1>5, <1>6, <1>7 DEF NodesArePriced, ToTheGoal
<1>9. ClosedFirst'
  BY <1>7 DEF ClosedFirst
<1>10. HeapOrder(mem', open')
  <2>1. Len(open') = 1
    BY <1>5
  <2> QED BY <2>1 DEF HeapOrder
<1> QED BY <1>8, <1>9, <1>10, PartsNext

(* The best open node is closed: none that was closed costs more, and none *)
(* that stays open costs less.                                             *)
LEMMA PopBest ==
  ASSUME GuideInv, BestFirst, Pop
  PROVE  BestFirst'
<1> DEFINE from == Head(open)
<1>1. NodesArePriced /\ ClosedFirst /\ HeapOrder(mem, open)
  BY Parts DEF Pop
<1>2. /\ pc = "search" /\ left = <<>> /\ open # <<>> /\ open' \in pop(mem, open)
      /\ curr' = from /\ left' = global_neighbors[from] /\ from # Goal
      /\ mem' = [mem EXCEPT ![from].closed = TRUE]
      /\ UNCHANGED <<reported, flow, tasks, planned, heuristics>>
  BY DEF Pop, SearchUnchanged, loop, lns, Goal
<1>3. /\ DOMAIN mem \subseteq Free /\ DOMAIN mem \subseteq Cells
      /\ open \in Heaps(Free) /\ ToSet(open) = DOMAIN mem \ Closed
      /\ Priced(mem, open)
      /\ \A c \in DOMAIN mem : mem[c] \in NodeType /\ get_all(mem[c]) \in Int
  BY NodesCost
<1>4. /\ from \in ToSet(open) /\ open' \in Heaps(Free)
      /\ ToSet(open') = ToSet(open) \ {from}
  BY <1>2, <1>3, HeapPop
<1>5. \A c \in ToSet(open) : get_all(mem[from]) <= get_all(mem[c])
  BY <1>1, <1>2, <1>3, FirstIsLeast DEF Heaps
<1>6. HeapOrder(mem, open')
  BY <1>1, <1>2, <1>3, PopOrders
<1>7. from \in DOMAIN mem /\ from \notin Closed /\ from \in Cells
  BY <1>3, <1>4
<1> HIDE DEF from
<1>8. /\ DOMAIN mem' = DOMAIN mem
      /\ \A c \in DOMAIN mem : /\ mem'[c].parent = mem[c].parent /\ mem'[c].h = mem[c].h
                               /\ WayCost(mem'[c]) = WayCost(mem[c])
                               /\ get_all(mem'[c]) = get_all(mem[c])
      /\ Closed' = Closed \cup {from}
  <2>1. DOMAIN mem' = DOMAIN mem
    BY <1>2
  <2>2. \A c \in DOMAIN mem : c # from => mem'[c] = mem[c]
    BY <1>2
  <2>3. mem'[from] = [mem[from] EXCEPT !.closed = TRUE] /\ mem[from] \in NodeType
    BY <1>2, <1>3, <1>7
  <2>4. /\ mem'[from].closed /\ mem'[from].parent = mem[from].parent
        /\ mem'[from].h = mem[from].h /\ WayCost(mem'[from]) = WayCost(mem[from])
        /\ get_all(mem'[from]) = get_all(mem[from])
    BY <2>3 DEF NodeType, WayCost, get_all, get_f
  <2>5. Closed' = Closed \cup {from}
    BY <1>7, <2>1, <2>2, <2>4 DEF Closed
  <2> QED BY <2>1, <2>2, <2>4, <2>5
<1>9. /\ Loc(planned)' = Loc(planned) /\ Goal' = Goal
      /\ \A c : ToTheGoal(c)' = ToTheGoal(c)
      /\ \A c, n : StepCost(c, n)' = StepCost(c, n)
  BY <1>2 DEF reported, Loc, Goal, ToTheGoal, ToGo, StepCost, SumOverEdges
<1>10. NodesArePriced'
  <2>1. \A c \in DOMAIN mem : mem[c].parent # None => mem[c].parent \in DOMAIN mem
    BY DEF GuideInv, SearchTree
  <2> QED BY <1>1, <1>8, <1>9, <2>1 DEF NodesArePriced
<1>11. ClosedFirst'
  <2>1. Goal' \notin Closed'
    BY <1>1, <1>2, <1>8, <1>9 DEF ClosedFirst
  <2>2. ASSUME NEW c \in Closed'
        PROVE  /\ \A n \in Neighbors(c) :
                    \/ c = curr' /\ n \in ToSet(left')
                    \/ /\ n \in DOMAIN mem'
                       /\ WayCost(mem'[n]) <= WayCost(mem'[c]) + StepCost(c, n)'
               /\ get_all(mem'[c]) <= get_all(mem'[curr'])
               /\ \A n \in ToSet(open') : get_all(mem'[c]) <= get_all(mem'[n])
    <3>1. CASE c = from
      <4>1. ToSet(left') = Neighbors(from)
        BY <1>2, <1>7, AllNeighbors
      <4>2. get_all(mem'[c]) <= get_all(mem'[curr'])
        <5>1. get_all(mem'[from]) \in Int
          BY <1>3, <1>7, <1>8
        <5> QED BY <1>2, <3>1, <5>1
      <4>3. \A n \in ToSet(open') : get_all(mem'[c]) <= get_all(mem'[n])
        BY <1>3, <1>4, <1>5, <1>7, <1>8, <3>1
      <4> QED BY <1>2, <3>1, <4>1, <4>2, <4>3
    <3>2. CASE c \in Closed
      <4>1. c \in DOMAIN mem
        BY <3>2 DEF Closed
      <4>2. \A n \in Neighbors(c) :
              n \in DOMAIN mem /\ WayCost(mem[n]) <= WayCost(mem[c]) + StepCost(c, n)
        <5>1. ToSet(left) = {}
          BY <1>2, EmptySeq DEF ToSet
        <5> QED BY <1>1, <3>2, <5>1 DEF ClosedFirst
      <4>3. \A n \in ToSet(open) : get_all(mem[c]) <= get_all(mem[n])
        BY <1>1, <3>2 DEF ClosedFirst
      <4>4. \A n \in ToSet(open') : get_all(mem'[c]) <= get_all(mem'[n])
        BY <1>3, <1>4, <1>8, <4>1, <4>3
      <4>5. get_all(mem'[c]) <= get_all(mem'[curr'])
        BY <1>2, <1>4, <1>7, <1>8, <4>1, <4>3
      <4>6. \A n \in Neighbors(c) :
              /\ n \in DOMAIN mem'
              /\ WayCost(mem'[n]) <= WayCost(mem'[c]) + StepCost(c, n)'
        BY <1>8, <1>9, <4>1, <4>2
      <4> QED BY <4>4, <4>5, <4>6
    <3> QED BY <1>8, <3>1, <3>2
  <2> QED BY <2>1, <2>2 DEF ClosedFirst
<1>12. HeapOrder(mem', open')
  <2>1. \A k \in DOMAIN open' : open'[k] \in DOMAIN mem
    BY <1>3, <1>4 DEF ToSet
  <2>2. DOMAIN open' = 1..Len(open') /\ Len(open') \in Nat
    BY <1>4, LenProperties DEF Heaps
  <2>3. \A i \in 2..Len(open') : i \in DOMAIN open' /\ i \div 2 \in DOMAIN open'
    BY <2>2, OneUp
  <2> QED BY <1>6, <1>8, <2>1, <2>3 DEF HeapOrder
<1> QED BY <1>10, <1>11, <1>12, PartsNext

(* The node that Generate makes for the next neighbor.                     *)
NextNode == StepNode(Head(left), ToTheGoal(Head(left)))

(* What Generate does, with the distance that the table answers.           *)
Reaches == /\ Head(left) \notin DOMAIN mem
           /\ mem' = [c \in DOMAIN mem \cup {Head(left)} |->
                        IF c = Head(left) THEN NextNode ELSE mem[c]]
           /\ open' \in push(mem', open, Head(left))
Improves == /\ Head(left) \in DOMAIN mem \ Closed /\ re(NextNode, mem[Head(left)])
            /\ mem' = [mem EXCEPT ![Head(left)] = [NextNode EXCEPT !.h = mem[Head(left)].h]]
            /\ open' \in decrease_key(mem', open, Head(left))
Passes == /\ Head(left) \in DOMAIN mem /\ ~re(NextNode, mem[Head(left)])
          /\ UNCHANGED <<mem, open>>
Reopens == Head(left) \in Closed /\ re(NextNode, mem[Head(left)])

(* A neighbor is looked at in one of these four ways.                      *)
LEMMA Generated ==
  ASSUME GuideInv, TablesInOrder, Unreachable < MAX_TIMESTEP, Generate
  PROVE  /\ pc = "search" /\ left # <<>> /\ left' = Tail(left)
         /\ UNCHANGED <<reported, tasks, flow, planned, curr>>
         /\ \A c : ToTheGoal(c)' = ToTheGoal(c)
         /\ \/ (Reaches \/ Improves \/ Passes) /\ pc' = pc
            \/ Reopens /\ pc' = "exit"
<1> DEFINE next == Head(left)
           table == Asked(heuristics[Goal], next)
           node == StepNode(next, Estimate(Goal, table, next))
<1>1. PlanTypeOK
  BY TwoParts DEF GuideInv
<1>2. pc = "search" /\ left # <<>> /\ left' = Tail(left)
      /\ UNCHANGED <<reported, tasks, flow, planned, curr>>
  BY DEF Generate, SearchUnchanged, loop, lns
<1>3. planned \in Agents /\ Goal \in Free /\ next \in Cells
  BY <1>2, SearchFor, Grid DEF Goal
<1>4. heuristics[Goal] \in GoalTables(Goal)
  <2>1. OfGoals
    BY <1>1, TheTables
  <2> QED BY <1>3, <2>1 DEF OfGoals
<1>5. /\ table = EmptyTable <=> heuristics[Goal] = EmptyTable
      /\ Estimate(Goal, table, next) = ToTheGoal(next)
  <2>1. table = EmptyTable <=> heuristics[Goal] = EmptyTable
    BY <1>3, <1>4, GoalAsked, NotBegun
  <2> QED BY <1>3, <1>4, <2>1, GoalAsked DEF ToTheGoal, ToGo, Estimate
<1>6. node = NextNode
  BY <1>5 DEF NextNode
<1>7. \/ /\ next \notin DOMAIN mem
         /\ mem' = [c \in DOMAIN mem \cup {next} |-> IF c = next THEN node ELSE mem[c]]
         /\ open' \in push(mem', open, next)
         /\ UNCHANGED pc
      \/ /\ next \in DOMAIN mem /\ ~mem[next].closed /\ re(node, mem[next])
         /\ mem' = [mem EXCEPT ![next] = [node EXCEPT !.h = mem[next].h]]
         /\ open' \in decrease_key(mem', open, next)
         /\ UNCHANGED pc
      \/ /\ next \in DOMAIN mem /\ mem[next].closed /\ re(node, mem[next])
         /\ pc' = "exit"
         /\ UNCHANGED <<mem, open>>
      \/ /\ next \in DOMAIN mem /\ ~re(node, mem[next])
         /\ UNCHANGED <<pc, mem, open>>
  BY DEF Generate, Goal
<1> HIDE DEF node
<1>9. ASSUME NEW c PROVE ToTheGoal(c)' = ToTheGoal(c)
  <2>1. heuristics' = [heuristics EXCEPT ![Goal] = table] /\ Goal' = Goal
    BY <1>2 DEF Generate, Goal
  <2>2. heuristics'[Goal] = table
    BY <1>1, <1>3, <2>1 DEF PlanTypeOK
  <2> QED BY <1>5, <2>1, <2>2 DEF ToTheGoal, ToGo
<1>8. \/ (Reaches \/ Improves \/ Passes) /\ pc' = pc
      \/ Reopens /\ pc' = "exit"
  BY <1>6, <1>7 DEF Reaches, Improves, Passes, Reopens, Closed
<1> QED BY <1>2, <1>8, <1>9

(* The node made for a neighbor costs no less than what has been closed.   *)
LEMMA NextNodeIsDearer ==
  ASSUME GuideInv, FlowIsOfTrajs, BestFirst, Unreachable < MAX_TIMESTEP,
         pc = "search", left # <<>>
  PROVE  /\ Head(left) \in Free /\ Head(left) \in Neighbors(curr)
         /\ curr \in Closed /\ curr \in DOMAIN mem
         /\ NextNode \in NodeType /\ ~NextNode.closed /\ NextNode.parent = curr
         /\ NextNode.h = ToTheGoal(Head(left))
         /\ StepCost(curr, Head(left)) \in Nat
         /\ WayCost(NextNode) = WayCost(mem[curr]) + StepCost(curr, Head(left))
         /\ WayCost(NextNode) \in Int /\ WayCost(NextNode) >= 1
         /\ get_all(NextNode) \in Int
         /\ get_all(NextNode) = WayCost(NextNode) + NextNode.h
         /\ \A c \in Closed : get_all(mem[c]) <= get_all(NextNode)
<1> DEFINE next == Head(left)
           node == NextNode
<1>1. /\ planned \in Agents /\ Goal \in Free
      /\ next \in Free /\ curr \in DOMAIN mem /\ mem[curr].closed /\ next \in Neighbors(curr)
  BY SearchFor DEF Goal
<1>2. /\ curr \in Closed /\ curr \in Cells /\ next \in Cells
  BY <1>1, NodesCost, Grid DEF Closed
<1>3. ToTheGoal(curr) \in Nat /\ ToTheGoal(next) \in Nat /\ ToTheGoal(curr) <= ToTheGoal(next) + 1
  BY <1>1, <1>2, Consistent DEF ToTheGoal
<1>4. /\ WayCost(node) = WayCost(mem[curr]) + StepCost(curr, next)
      /\ node.h = ToTheGoal(next) /\ node.parent = curr
      /\ node \in NodeType /\ ~node.closed
  BY <1>1, <1>3, StepNodeCosts DEF NextNode
<1>5. StepCost(curr, next) \in Nat /\ StepCost(curr, next) >= 1
  BY <1>2, StepsCost
<1>6. /\ NodesArePriced /\ ClosedFirst
  BY Parts
<1>7. WayCost(mem[curr]) >= 0 /\ mem[curr].h = ToTheGoal(curr)
  BY <1>1, <1>6 DEF NodesArePriced
<1>8. /\ WayCost(mem[curr]) \in Int /\ get_all(mem[curr]) \in Int
      /\ get_all(mem[curr]) = WayCost(mem[curr]) + mem[curr].h
  BY <1>1, NodesCost
<1> HIDE DEF node, next
<1>9. get_all(node) = WayCost(node) + node.h /\ WayCost(node) \in Int
  BY <1>4, CostsInAll
<1>10. get_all(mem[curr]) <= get_all(node) /\ get_all(node) \in Int /\ WayCost(node) >= 1
  BY <1>3, <1>4, <1>5, <1>7, <1>8, <1>9
<1>11. ASSUME NEW c \in Closed PROVE get_all(mem[c]) <= get_all(node)
  <2>1. get_all(mem[c]) <= get_all(mem[curr])
    BY <1>6 DEF ClosedFirst
  <2>2. get_all(mem[c]) \in Int
    BY NodesCost DEF Closed
  <2> QED BY <1>8, <1>10, <2>1, <2>2
<1> QED BY <1>1, <1>2, <1>4, <1>5, <1>9, <1>10, <1>11 DEF node, next

(* So a closed node is never met again by a better way.                    *)
LEMMA NoneReopens ==
  ASSUME GuideInv, FlowIsOfTrajs, BestFirst, Unreachable < MAX_TIMESTEP,
         pc = "search", left # <<>>
  PROVE  ~Reopens
<1>1. Head(left) \in Closed => /\ get_all(mem[Head(left)]) <= get_all(NextNode)
                               /\ get_all(mem[Head(left)]) \in Int /\ get_all(NextNode) \in Int
  BY NextNodeIsDearer, NodesCost DEF Closed
<1> QED BY <1>1 DEF Reopens, re

(* What a neighbor's node is after its turn: the former one, or the one    *)
(* made for it if it was open, or new, and is cheaper this way.            *)
Kept(n) == /\ n \in DOMAIN mem /\ mem' = mem /\ open' = open
           /\ WayCost(mem[n]) <= WayCost(NextNode)
Made(n) == /\ DOMAIN mem' = DOMAIN mem \cup {n} /\ n \notin Closed
           /\ \A c \in DOMAIN mem \ {n} : mem'[c] = mem[c]
           /\ mem'[n] \in NodeType /\ ~mem'[n].closed
           /\ mem'[n].parent = curr /\ mem'[n].h = ToTheGoal(n)
           /\ WayCost(mem'[n]) = WayCost(NextNode)
           /\ get_all(mem'[n]) = get_all(NextNode)
           /\ n \in DOMAIN mem => WayCost(mem'[n]) < WayCost(mem[n])
           /\ ToSet(open') = ToSet(open) \cup {n}
           /\ HeapOrder(mem', open')

(* Unless a closed node is met by a better way, these are the two cases.   *)
LEMMA KeptOrMade ==
  ASSUME GuideInv, FlowIsOfTrajs, BestFirst, Unreachable < MAX_TIMESTEP,
         pc = "search", left # <<>>, Reaches \/ Improves \/ Passes
  PROVE  Kept(Head(left)) \/ Made(Head(left))
<1> DEFINE next == Head(left)
           node == NextNode
<1>1. /\ next \in Free /\ node \in NodeType /\ ~node.closed /\ node.parent = curr
      /\ node.h = ToTheGoal(next) /\ WayCost(node) \in Int /\ get_all(node) \in Int
      /\ get_all(node) = WayCost(node) + node.h
  BY NextNodeIsDearer
<1>2. /\ open \in Heaps(Free) /\ ToSet(open) = DOMAIN mem \ Closed /\ Priced(mem, open)
      /\ \A c \in DOMAIN mem :
           /\ mem[c] \in NodeType /\ mem[c].h \in Nat
           /\ WayCost(mem[c]) \in Int /\ get_all(mem[c]) \in Int
           /\ get_all(mem[c]) = WayCost(mem[c]) + mem[c].h
  BY NodesCost
<1>3. NodesArePriced /\ HeapOrder(mem, open)
  BY Parts
<1>4. next \in DOMAIN mem => mem[next].h = node.h
  BY <1>1, <1>3 DEF NodesArePriced
<1> HIDE DEF next, node
<1>5. Closed \subseteq DOMAIN mem
  BY DEF Closed
<1>6. CASE Passes
  <2>1. next \in DOMAIN mem /\ ~re(node, mem[next]) /\ mem' = mem /\ open' = open
    BY <1>6 DEF Passes, next, node
  <2>2. ~(get_all(node) < get_all(mem[next]))
    BY <2>1 DEF re
  <2>3. WayCost(mem[next]) <= WayCost(node)
    BY <1>1, <1>2, <1>4, <2>1, <2>2
  <2> QED BY <2>1, <2>3 DEF Kept, next, node
<1>7. CASE Reaches
  <2>1. /\ next \notin DOMAIN mem
        /\ mem' = [c \in DOMAIN mem \cup {next} |-> IF c = next THEN node ELSE mem[c]]
        /\ open' \in push(mem', open, next)
    BY <1>7 DEF Reaches, next, node
  <2>2. /\ DOMAIN mem' = DOMAIN mem \cup {next} /\ mem'[next] = node
        /\ \A c \in DOMAIN mem : mem'[c] = mem[c]
    BY <2>1
  <2>3. next \notin ToSet(open) /\ \A k \in DOMAIN open : open[k] \in DOMAIN mem
    BY <1>2, <2>1 DEF ToSet
  <2>4. ToSet(open') = ToSet(open) \cup {next}
    BY <1>1, <1>2, <2>1, <2>3, HeapPush
  <2>5. Priced(mem', open)
    BY <1>2, <2>2, <2>3 DEF Priced
  <2>6. HeapOrder(mem', open)
    <3>1. DOMAIN open = 1..Len(open) /\ Len(open) \in Nat
      BY <1>2, LenProperties DEF Heaps
    <3>2. \A i \in 2..Len(open) : i \in DOMAIN open /\ i \div 2 \in DOMAIN open
      BY <3>1, OneUp
    <3> QED BY <1>3, <2>2, <2>3, <3>2 DEF HeapOrder
  <2>7. HeapOrder(mem', open')
    <3>1. get_all(mem'[next]) \in Int
      BY <1>1, <2>2
    <3> QED BY <1>1, <1>2, <2>1, <2>3, <2>5, <2>6, <3>1, PushOrders
  <2>8. Made(next)
    BY <1>1, <1>5, <2>1, <2>2, <2>4, <2>7 DEF Made, next, node
  <2> QED BY <2>8 DEF next
<1>8. CASE Improves
  <2> DEFINE better == [node EXCEPT !.h = mem[next].h]
  <2>1. /\ next \in DOMAIN mem \ Closed /\ re(node, mem[next])
        /\ mem' = [mem EXCEPT ![next] = better]
        /\ open' \in decrease_key(mem', open, next)
    BY <1>8 DEF Improves, next, node
  <2>2. /\ better \in NodeType /\ ~better.closed /\ better.parent = curr
        /\ better.h = ToTheGoal(next) /\ WayCost(better) = WayCost(node)
        /\ get_all(better) = get_all(node)
    <3>1. mem[next].h = node.h /\ mem[next].h \in Nat
      BY <1>2, <1>4, <2>1
    <3> QED BY <1>1, <3>1 DEF NodeType, WayCost, get_all, get_f
  <2> HIDE DEF better
  <2>3. /\ DOMAIN mem' = DOMAIN mem /\ mem'[next] = better
        /\ \A c \in DOMAIN mem : c # next => mem'[c] = mem[c]
    BY <2>1
  <2>4. get_all(node) < get_all(mem[next])
    BY <2>1 DEF re
  <2>5. WayCost(better) < WayCost(mem[next])
    BY <1>1, <1>2, <1>4, <2>1, <2>2, <2>4
  <2>6. next \in ToSet(open) /\ \A k \in DOMAIN open : open[k] \in DOMAIN mem
    BY <1>2, <2>1 DEF ToSet
  <2>7. ToSet(open') = ToSet(open)
    BY <1>2, <2>1, <2>6, HeapDecreaseKey
  <2>8. HeapOrder(mem', open')
    <3>1. Priced(mem', open)
      <4>1. \A c \in DOMAIN mem : get_all(mem'[c]) \in Int
        BY <1>1, <1>2, <2>1, <2>2, <2>3
      <4> QED BY <2>6, <4>1 DEF Priced
    <3>2. \A c \in ToSet(open) \ {next} : mem'[c] = mem[c]
      BY <1>2, <2>3
    <3>3. get_all(mem'[next]) <= get_all(mem[next])
      BY <1>1, <1>2, <2>1, <2>2, <2>3, <2>4
    <3> QED BY <1>2, <1>3, <2>1, <2>6, <3>1, <3>2, <3>3, DecreaseOrders
  <2>9. Made(next)
    <3>1. WayCost(mem'[next]) < WayCost(mem[next])
      BY <2>3, <2>5
    <3>2. DOMAIN mem' = DOMAIN mem \cup {next}
      <4>1. next \in DOMAIN mem
        BY <2>1
      <4> QED BY <2>3, <4>1
    <3>3. ToSet(open') = ToSet(open) \cup {next}
      BY <2>6, <2>7
    <3> QED BY <2>1, <2>2, <2>3, <2>8, <3>1, <3>2, <3>3 DEF Made, node
  <2> QED BY <2>9 DEF next
<1> QED BY <1>6, <1>7, <1>8

(* So a neighbor's turn keeps what the search has done in order.           *)
LEMMA GenerateBest ==
  ASSUME GuideInv, TablesInOrder, FlowIsOfTrajs, BestFirst, Unreachable < MAX_TIMESTEP,
         Generate
  PROVE  BestFirst' /\ pc' = "search"
<1> DEFINE next == Head(left)
           node == NextNode
<1>1. /\ pc = "search" /\ left # <<>> /\ left' = Tail(left)
      /\ UNCHANGED <<reported, tasks, flow, planned, curr>>
      /\ \A c : ToTheGoal(c)' = ToTheGoal(c)
      /\ (Reaches \/ Improves \/ Passes) /\ pc' = pc
  <2>1. /\ pc = "search" /\ left # <<>> /\ left' = Tail(left)
        /\ UNCHANGED <<reported, tasks, flow, planned, curr>>
        /\ \A c : ToTheGoal(c)' = ToTheGoal(c)
        /\ \/ (Reaches \/ Improves \/ Passes) /\ pc' = pc
           \/ Reopens /\ pc' = "exit"
    BY Generated
  <2> QED BY <2>1, NoneReopens
<1>2. Kept(next) \/ Made(next)
  BY <1>1, KeptOrMade
<1>3. NodesArePriced /\ ClosedFirst /\ HeapOrder(mem, open)
  BY <1>1, Parts
<1>4. /\ next \in Free /\ next \in Neighbors(curr)
      /\ curr \in Closed /\ curr \in DOMAIN mem /\ curr \in Free
      /\ StepCost(curr, next) \in Nat
      /\ WayCost(node) = WayCost(mem[curr]) + StepCost(curr, next)
      /\ WayCost(node) \in Int /\ WayCost(node) >= 1 /\ get_all(node) \in Int
      /\ \A c \in Closed : get_all(mem[c]) <= get_all(node)
  BY <1>1, NextNodeIsDearer, NodesCost
<1>5. /\ DOMAIN mem \subseteq Free /\ Closed \subseteq DOMAIN mem
      /\ ToSet(open) = DOMAIN mem \ Closed
      /\ \A c \in DOMAIN mem : WayCost(mem[c]) \in Int /\ get_all(mem[c]) \in Int
  BY NodesCost DEF Closed
<1>6. /\ \A n \in ToSet(left) : n = next \/ n \in ToSet(left')
      /\ left' # <<>> => left # <<>>
  <2>1. left \in Seq(Free)
    BY TwoParts DEF GuideInv, SearchTypeOK
  <2>2. /\ left' \in Seq(Free) /\ Len(left') = Len(left) - 1 /\ next = left[1]
        /\ \A i \in 1..Len(left') : left'[i] = left[i+1]
    BY <1>1, <2>1, HeadTailProperties
  <2>3. /\ Len(left) \in Nat /\ DOMAIN left = 1..Len(left) /\ DOMAIN left' = 1..Len(left')
    BY <2>1, <2>2, LenProperties
  <2>4. ASSUME NEW i \in DOMAIN left, i # 1 PROVE left[i] \in ToSet(left')
    <3>1. i - 1 \in DOMAIN left' /\ left'[i-1] = left[i]
      BY <2>2, <2>3, <2>4
    <3> QED BY <3>1 DEF ToSet
  <2>5. ASSUME NEW n \in ToSet(left) PROVE n = next \/ n \in ToSet(left')
    <3>1. PICK i \in DOMAIN left : left[i] = n
      BY DEF ToSet
    <3>2. i = 1 => n = next
      BY <2>2, <3>1
    <3> QED BY <2>4, <3>1, <3>2
  <2> QED BY <1>1, <2>5
<1>7. /\ Loc(planned)' = Loc(planned) /\ Goal' = Goal
      /\ \A c : ToTheGoal(c)' = ToTheGoal(c)
      /\ \A c, n : StepCost(c, n)' = StepCost(c, n)
  BY <1>1 DEF reported, Loc, Goal, StepCost, SumOverEdges
<1> HIDE DEF next, node
<1>8. \A c \in DOMAIN mem : mem[c].parent # None => mem[c].parent \in Closed
  BY DEF GuideInv, SearchTree, Closed
<1>9. CASE Kept(next)
  <2>1. mem' = mem /\ open' = open /\ next \in DOMAIN mem /\ Closed' = Closed
        /\ WayCost(mem[next]) <= WayCost(node)
    BY <1>9 DEF Kept, Closed, node
  <2>2. NodesArePriced'
    BY <1>3, <1>7, <2>1 DEF NodesArePriced
  <2>3. ClosedFirst'
    <3>1. ASSUME NEW c \in Closed, NEW n \in Neighbors(c)
          PROVE  \/ c = curr /\ n \in ToSet(left')
                 \/ n \in DOMAIN mem /\ WayCost(mem[n]) <= WayCost(mem[c]) + StepCost(c, n)
      BY <1>3, <1>4, <1>6, <2>1 DEF ClosedFirst
    <3> QED BY <1>1, <1>3, <1>6, <1>7, <2>1, <3>1 DEF ClosedFirst
  <2> QED BY <1>1, <1>3, <2>1, <2>2, <2>3, PartsNext
<1>10. CASE Made(next)
  <2>1. /\ DOMAIN mem' = DOMAIN mem \cup {next} /\ next \notin Closed
        /\ \A c \in DOMAIN mem \ {next} : mem'[c] = mem[c]
        /\ ~mem'[next].closed /\ mem'[next].parent = curr /\ mem'[next].h = ToTheGoal(next)
        /\ WayCost(mem'[next]) = WayCost(node) /\ get_all(mem'[next]) = get_all(node)
        /\ next \in DOMAIN mem => WayCost(mem'[next]) < WayCost(mem[next])
        /\ ToSet(open') = ToSet(open) \cup {next} /\ HeapOrder(mem', open')
    BY <1>10 DEF Made, node
  <2>2. Closed' = Closed /\ \A c \in Closed : mem'[c] = mem[c] /\ c \in DOMAIN mem
    BY <1>5, <2>1 DEF Closed
  <2>3. curr # None
    BY <1>4, Places
  <2>4. next # Loc(planned)
    <3>1. /\ Loc(planned) \in DOMAIN mem /\ mem[Loc(planned)].parent = None
          /\ WayCost(mem[Loc(planned)]) = 0
      BY <1>3 DEF NodesArePriced
    <3> QED BY <1>4, <2>1, <3>1
  <2>5. NodesArePriced'
    <3>1. ASSUME NEW c \in DOMAIN mem'
          PROVE  /\ mem'[c].h = ToTheGoal(c) /\ WayCost(mem'[c]) >= 0
                 /\ IF mem'[c].parent = None THEN WayCost(mem'[c]) = 0
                    ELSE WayCost(mem'[c]) = WayCost(mem'[mem'[c].parent])
                                              + StepCost(mem'[c].parent, c)
      <4>1. CASE c = next
        BY <1>4, <2>1, <2>2, <2>3, <4>1
      <4>2. CASE c # next
        <5>1. c \in DOMAIN mem /\ mem'[c] = mem[c]
          BY <2>1, <4>2
        <5>2. mem[c].parent # None => mem'[mem[c].parent] = mem[mem[c].parent]
          BY <1>8, <2>2, <5>1
        <5> QED BY <1>3, <5>1, <5>2 DEF NodesArePriced
      <4> QED BY <4>1, <4>2
    <3>2. Loc(planned) \in DOMAIN mem' /\ mem'[Loc(planned)].parent = None
      BY <1>3, <2>1, <2>4 DEF NodesArePriced
    <3> QED BY <1>7, <3>1, <3>2 DEF NodesArePriced
  <2>6. ClosedFirst'
    <3>1. Goal' \notin Closed'
      BY <1>3, <1>7, <2>2 DEF ClosedFirst
    <3>2. ASSUME NEW c \in Closed, NEW n \in Neighbors(c)
          PROVE  \/ c = curr /\ n \in ToSet(left')
                 \/ n \in DOMAIN mem' /\ WayCost(mem'[n]) <= WayCost(mem[c]) + StepCost(c, n)
      <4>1. c \in Free /\ n \in Free /\ c \in Cells /\ n \in Cells
        BY <1>5, Grid DEF Neighbors
      <4>2. CASE c = curr /\ n = next
        BY <1>4, <2>1, <4>2
      <4>3. CASE ~(c = curr /\ n = next)
        <5>1. \/ c = curr /\ n \in ToSet(left')
              \/ n \in DOMAIN mem /\ WayCost(mem[n]) <= WayCost(mem[c]) + StepCost(c, n)
          BY <1>3, <1>6, <4>3 DEF ClosedFirst
        <5>2. CASE n \in DOMAIN mem /\ WayCost(mem[n]) <= WayCost(mem[c]) + StepCost(c, n)
          <6>1. StepCost(c, n) \in Nat
            BY <4>1, StepsCost
          <6>2. WayCost(mem'[n]) <= WayCost(mem[n]) /\ WayCost(mem'[n]) \in Int
            BY <1>4, <1>5, <2>1, <5>2
          <6> QED BY <1>5, <2>1, <5>2, <6>1, <6>2
        <5> QED BY <5>1, <5>2
      <4> QED BY <4>2, <4>3
    <3>3. ASSUME NEW c \in Closed
          PROVE  /\ get_all(mem[c]) <= get_all(mem[curr])
                 /\ \A n \in ToSet(open') : get_all(mem[c]) <= get_all(mem'[n])
      <4>1. get_all(mem[c]) <= get_all(mem[curr])
        BY <1>1, <1>3 DEF ClosedFirst
      <4>2. ASSUME NEW n \in ToSet(open') PROVE get_all(mem[c]) <= get_all(mem'[n])
        <5>1. CASE n = next
          BY <1>4, <2>1, <5>1
        <5>2. CASE n # next
          <6>1. n \in ToSet(open) /\ mem'[n] = mem[n]
            BY <1>5, <2>1, <5>2
          <6> QED BY <1>3, <6>1 DEF ClosedFirst
        <5> QED BY <5>1, <5>2
      <4> QED BY <4>1, <4>2
    <3> QED BY <1>1, <1>4, <1>7, <2>2, <3>1, <3>2, <3>3 DEF ClosedFirst
  <2>7. HeapOrder(mem', open') /\ pc' = "search"
    BY <1>1, <2>1
  <2> QED BY <2>5, <2>6, <2>7, PartsNext
<1> QED BY <1>1, <1>2, <1>9, <1>10 DEF next

(* Every step of a search keeps it in order, and each one begins so.       *)
LEMMA StepsBest ==
  ASSUME GuideInv, TablesInOrder, FlowIsOfTrajs, BestFirst, Unreachable < MAX_TIMESTEP,
         [GuideNext]_vars
  PROVE  BestFirst'
<1>1. PlanTypeOK
  BY TwoParts DEF GuideInv
<1>2. CASE pc' # "search"
  BY <1>2 DEF BestFirst
<1>3. CASE UNCHANGED <<pc, reported, tasks, heuristics, flow, planned, search>>
  BY <1>3 DEF BestFirst, ToGo, reported, search, Loc, StepCost, SumOverEdges
<1>4. CASE TaskChange \/ FrankWolfe
  <2>1. CASE \E a \in Agents : Replans(a)
    BY <2>1, ReplanBest
  <2>2. CASE UNCHANGED pc
    BY <1>2, <1>4, <2>2 DEF TaskChange, FrankWolfe
  <2> QED BY <1>1, <1>4, <2>1, <2>2, ReplanOrNot
<1>5. CASE Pop
  BY <1>5, PopBest
<1>6. CASE Generate
  BY <1>6, GenerateBest
<1>7. CASE FindPath
  BY <1>1, <1>2, <1>7 DEF FindPath, PlanTypeOK
<1>8. CASE PlanBegin \/ FrankWolfeBegin \/ Deadline \/ FindNoPath \/ Pibt \/ Report
  BY <1>2, <1>8 DEF PlanBegin, FrankWolfeBegin, Deadline, FindNoPath, Pibt, Report
<1>9. CASE UNCHANGED vars
  BY <1>3, <1>9 DEF vars, loop, lns
<1> QED BY <1>4, <1>5, <1>6, <1>7, <1>8, <1>9 DEF GuideNext

(* The search for a path closes its nodes in the order of their cost, and  *)
(* the way it holds for each is the cheapest over those closed before,     *)
(* whichever equal nodes its heap puts first.                              *)
THEOREM SearchesBestFirst ==
  ASSUME Unreachable < MAX_TIMESTEP
  PROVE  GuideSpec => []BestFirst
<1>1. GuideInit => BestFirst
  BY DEF GuideInit, BestFirst
<1>2. GuideInv /\ TablesInOrder /\ FlowIsOfTrajs /\ BestFirst /\ [GuideNext]_vars
        => BestFirst'
  BY StepsBest
<1> QED BY <1>1, <1>2, GuideIsInductive, TablesAreSearched, FlowCounts, PTL DEF GuideSpec

(* A search that is left without open nodes has closed all that can be     *)
(* reached: the goal cannot.                                               *)
LEMMA NothingOpen ==
  ASSUME GuideInv, BestFirst, pc = "search", left = <<>>, open = <<>>
  PROVE  distance[Goal][Loc(planned)] = Unreachable
<1> DEFINE D == distance[Goal]
           at == Loc(planned)
           Near == {k \in Nat : \E c \in DOMAIN mem : D[c] = k /\ k < Unreachable}
<1>1. planned \in Agents /\ Goal \in Free /\ IsDistance(D, {Goal})
  BY SearchFor, GoalDistances DEF Goal
<1>2. NodesArePriced /\ ClosedFirst
  BY Parts
<1>3. /\ DOMAIN mem \subseteq Cells /\ DOMAIN mem = Closed
      /\ ToSet(left) = {}
  <2>1. ToSet(open) = {} /\ ToSet(left) = {}
    BY EmptySeq DEF ToSet
  <2> QED BY <2>1, NodesCost DEF Closed
<1>4. at \in DOMAIN mem /\ Goal \notin DOMAIN mem
  BY <1>2, <1>3 DEF NodesArePriced, ClosedFirst
<1>5. \A c \in DOMAIN mem : \A n \in Neighbors(c) : n \in DOMAIN mem
  BY <1>2, <1>3 DEF ClosedFirst
<1> HIDE DEF D, at
<1>6. \A c \in Cells : D[c] \in 0..Unreachable /\ Unreachable \in Nat
  BY <1>1, Grid DEF IsDistance, Unreachable
<1>7. Near = {}
  <2> SUFFICES ASSUME Near # {} PROVE FALSE
    OBVIOUS
  <2>1. Near \in SUBSET Nat
    OBVIOUS
  <2>2. PICK k \in Near : \A i \in Near : k <= i
    BY <2>1, LeastNumber
  <2>3. PICK c \in DOMAIN mem : D[c] = k /\ k < Unreachable /\ k \in Nat
    OBVIOUS
  <2>4. c \in Cells /\ c # Goal
    BY <1>3, <1>4
  <2>5. D[c] > 0
    BY <1>1, <1>6, <2>4 DEF IsDistance
  <2>6. PICK p \in Cells : c \in Neighbors(p) /\ D[p] = D[c] - 1
    BY <1>1, <2>3, <2>4, <2>5 DEF IsDistance
  <2>7. p \in DOMAIN mem
    BY <1>5, <2>6, NeighborsMutual
  <2>8. k - 1 \in Near
    <3>1. D[p] = k - 1 /\ k - 1 \in Nat /\ k - 1 < Unreachable
      BY <1>6, <2>3, <2>5, <2>6
    <3> QED BY <2>7, <3>1
  <2>9. k <= k - 1
    BY <2>2, <2>8
  <2> QED BY <2>3, <2>9
<1>8. D[at] \notin Near /\ D[at] \in Nat /\ D[at] <= Unreachable
  BY <1>3, <1>4, <1>6, <1>7
<1>9. ~(D[at] < Unreachable)
  BY <1>4, <1>8
<1>10. Unreachable \in Nat
  BY Grid DEF Unreachable
<1>11. D[at] = Unreachable
  BY <1>8, <1>9, <1>10
<1> QED BY <1>11 DEF D, at

(* The planner ends the program only when a goal cannot be reached: the    *)
(* exit for a closed node met again by a better way is never taken.        *)
THEOREM ExitsRightly ==
  ASSUME Unreachable < MAX_TIMESTEP
  PROVE  GuideSpec => []ExitsForNoPathOnly
<1> DEFINE I == GuideInv /\ TablesInOrder /\ BestFirst /\ FlowIsOfTrajs
<1>1. GuideInit => ExitsForNoPathOnly
  BY DEF GuideInit, ExitsForNoPathOnly
<1>2. I /\ ExitsForNoPathOnly /\ [GuideNext]_vars => ExitsForNoPathOnly'
  <2> SUFFICES ASSUME I, ExitsForNoPathOnly, [GuideNext]_vars, pc' = "exit"
               PROVE  distance[tasks[planned]][Loc(planned)]' = Unreachable
    BY DEF ExitsForNoPathOnly, Unreachable
  <2>1. PlanTypeOK
    BY TwoParts DEF GuideInv
  <2>2. CASE FindNoPath
    <3>1. distance[Goal][Loc(planned)] = Unreachable
      BY <2>1, <2>2, NothingOpen DEF FindNoPath
    <3> QED BY <2>2, <3>1 DEF FindNoPath, SearchUnchanged, Goal, Loc, reported, loop
  <2>3. CASE Generate
    <3>1. pc' = "search"
      BY <2>1, <2>3, GenerateBest
    <3> QED BY <3>1
  <2>4. CASE TaskChange \/ FrankWolfe
    BY <2>1, <2>4, ReplanOrNot DEF Replans, Replan, TaskChange, FrankWolfe
  <2>5. CASE PlanBegin \/ FrankWolfeBegin \/ Deadline \/ Pop \/ FindPath \/ Pibt \/ Report
    BY <2>1, <2>5 DEF PlanBegin, FrankWolfeBegin, Deadline, Pop, FindPath, Pibt, Report,
                      PlanTypeOK
  <2>6. CASE UNCHANGED vars
    BY <2>6 DEF vars, ExitsForNoPathOnly, Loc, reported, loop
  <2> QED BY <2>2, <2>3, <2>4, <2>5, <2>6 DEF GuideNext
<1> QED BY <1>1, <1>2, GuideIsInductive, TablesAreSearched, SearchesBestFirst, FlowCounts, PTL
        DEF GuideSpec

-----------------------------------------------------------------------------
(* No way is cheaper than the one found.                                   *)

(* CostOf adds up the steps of a way.                                      *)
AddsUp(cost, path) ==
  /\ cost \in [1..Len(path) -> Int] /\ cost[1] = 0
  /\ \A i \in 2..Len(path) : cost[i] = cost[i-1] + StepCost(path[i-1], path[i])

(* Every way has such costs, and CostOf is the last of them.               *)
LEMMA CostsAddUp ==
  ASSUME GuideInv, FlowIsOfTrajs, NEW path \in Seq(Free), path # <<>>
  PROVE  \E cost : AddsUp(cost, path) /\ CostOf(path) = cost[Len(path)]
<1> DEFINE n == Len(path)
           N == n - 1
           S == Int
           b == 0
           step == [x \in (1..N) \X S |-> x[2] + StepCost(path[x[1]], path[x[1] + 1])]
<1>1. n \in Nat \ {0} /\ N \in Nat /\ path \in [1..n -> Free]
  BY LenProperties, EmptySeq
<1>2. \A i \in 1..N : StepCost(path[i], path[i + 1]) \in Int
  <2> SUFFICES ASSUME NEW i \in 1..N PROVE StepCost(path[i], path[i + 1]) \in Int
    OBVIOUS
  <2>1. i \in 1..n /\ i + 1 \in 1..n
    BY <1>1
  <2>2. path[i] \in Cells /\ path[i + 1] \in Cells
    BY <1>1, <2>1, Grid
  <2>3. StepCost(path[i], path[i + 1]) \in Nat
    BY <2>2, StepsCost
  <2> QED BY <2>3
<1> HIDE DEF n, N
<1>3. step \in Steps(N, S)
  <2>1. \A x \in (1..N) \X S : x[2] + StepCost(path[x[1]], path[x[1] + 1]) \in S
    BY <1>2
  <2> QED BY <2>1 DEF Steps
<1>4. b \in S
  OBVIOUS
<1> HIDE DEF S, b, step
<1>5. PICK g : Runs(g, N, S, b, step)
  BY <1>1, <1>3, <1>4, Loop
<1> DEFINE h == [i \in 1..n |-> g[i - 1]]
<1>6. h = [i \in 1..n |-> IF i = 1 THEN 0 ELSE h[i-1] + StepCost(path[i-1], path[i])]
  <2>1. ASSUME NEW i \in 1..n
        PROVE  h[i] = IF i = 1 THEN 0 ELSE h[i-1] + StepCost(path[i-1], path[i])
    <3>1. CASE i = 1
      BY <1>5, <3>1 DEF Runs, b
    <3>2. CASE i # 1
      <4>1. i - 1 \in 1..N /\ i - 1 \in 1..n /\ (i - 1) + 1 = i
        BY <1>1, <3>2 DEF N
      <4>2. /\ <<i - 1, g[i - 1 - 1]>> \in (1..N) \X S
            /\ g[i - 1] = step[<<i - 1, g[i - 1 - 1]>>]
        BY <1>5, <4>1 DEF Runs
      <4>3. g[i - 1] = g[i - 1 - 1] + StepCost(path[i-1], path[i])
        BY <4>1, <4>2 DEF step
      <4>4. h[i] = g[i-1] /\ h[i-1] = g[i-1-1]
        BY <4>1
      <4> QED BY <3>2, <4>3, <4>4
    <3> QED BY <3>1, <3>2
  <2> QED BY <2>1
<1> HIDE DEF h
<1> DEFINE cost == CHOOSE f : f = [i \in 1..n |->
                      IF i = 1 THEN 0 ELSE f[i-1] + StepCost(path[i-1], path[i])]
<1>7. cost = [i \in 1..n |-> IF i = 1 THEN 0 ELSE cost[i-1] + StepCost(path[i-1], path[i])]
  BY <1>6, Zenon
<1>8. CostOf(path) = cost[n]
  BY DEF CostOf, n
<1> HIDE DEF cost
<1>9. /\ DOMAIN cost = 1..n /\ cost[1] = 0
      /\ \A i \in 2..n : cost[i] = cost[i-1] + StepCost(path[i-1], path[i])
  <2>1. DOMAIN cost = 1..n
    BY <1>7, Zenon
  <2>2. 1 \in 1..n
    BY <1>1
  <2>3. cost[1] = 0
    BY <1>7, <2>2, Zenon
  <2>4. ASSUME NEW i \in 2..n PROVE cost[i] = cost[i-1] + StepCost(path[i-1], path[i])
    <3>1. i \in 1..n /\ i # 1
      BY <1>1
    <3> QED BY <1>7, <3>1, Zenon
  <2> QED BY <2>1, <2>3, <2>4
<1>10. \A i \in 1..n : cost[i] \in Int
  <2> DEFINE T == {i \in 0..N : cost[i + 1] \in Int}
  <2>1. 0 \in T
    BY <1>1, <1>9
  <2>2. ASSUME NEW i \in 1..N, i - 1 \in T PROVE i \in T
    <3>1. i + 1 \in 2..n /\ (i + 1) - 1 = i /\ (i - 1) + 1 = i
      BY <1>1 DEF N
    <3>2. cost[i] \in Int
      BY <2>2, <3>1
    <3>3. cost[i + 1] = cost[i] + StepCost(path[i], path[i + 1])
      BY <1>9, <3>1
    <3>4. cost[i + 1] \in Int
      BY <1>2, <3>2, <3>3
    <3> QED BY <1>1, <3>4
  <2> HIDE DEF T
  <2>3. \A i \in 0..N : i \in T
    BY <1>1, <2>1, <2>2, UpTo
  <2>4. ASSUME NEW i \in 1..n PROVE cost[i] \in Int
    <3>1. i - 1 \in 0..N /\ (i - 1) + 1 = i
      BY <1>1 DEF N
    <3>2. i - 1 \in T
      BY <2>3, <3>1
    <3> QED BY <3>1, <3>2 DEF T
  <2> QED BY <2>4
<1>11. cost \in [1..n -> Int]
  <2>1. cost = [i \in 1..n |-> cost[i]]
    BY <1>7, <1>9, Zenon
  <2> QED BY <1>10, <2>1
<1>12. AddsUp(cost, path) /\ CostOf(path) = cost[Len(path)]
  BY <1>8, <1>9, <1>11 DEF AddsUp, n
<1> QED BY <1>12

(* The way over the parents of a node costs what the node says.            *)
LEMMA WaysCost ==
  ASSUME GuideInv, FlowIsOfTrajs, NodesArePriced,
         NEW c, NEW p \in WaysTo(c), p[1] = Loc(planned)
  PROVE  CostOf(p) = WayCost(mem[c])
<1> DEFINE n == Len(p)
           N == n - 1
<1>1. /\ p \in Seq(DOMAIN mem) /\ p # <<>> /\ Last(p) = c
      /\ \A i \in 2..n : mem[p[i]].parent = p[i-1]
  BY DEF WaysTo
<1>2. p \in Seq(Free)
  BY <1>1, NodesCost, SeqMonotonic
<1>3. /\ n \in Nat \ {0} /\ N \in Nat /\ p \in [1..n -> DOMAIN mem] /\ p[n] = c
  BY <1>1, LenProperties, EmptySeq DEF Last
<1>4. PICK cost : AddsUp(cost, p) /\ CostOf(p) = cost[n]
  BY <1>1, <1>2, CostsAddUp
<1> HIDE DEF n, N
<1> DEFINE T == {i \in 0..N : cost[i + 1] = WayCost(mem[p[i + 1]])}
<1>5. 0 \in T
  <2>1. cost[1] = 0
    BY <1>4 DEF AddsUp
  <2>2. WayCost(mem[p[1]]) = 0
    BY DEF NodesArePriced
  <2> QED BY <1>3, <2>1, <2>2
<1>6. ASSUME NEW i \in 1..N, i - 1 \in T PROVE i \in T
  <2>1. i + 1 \in 2..n /\ (i + 1) - 1 = i /\ (i - 1) + 1 = i /\ i \in 1..n /\ i + 1 \in 1..n
    BY <1>3 DEF N
  <2>2. cost[i] = WayCost(mem[p[i]])
    BY <1>6, <2>1
  <2>3. cost[i + 1] = cost[i] + StepCost(p[i], p[i + 1])
    BY <1>4, <2>1 DEF AddsUp, n
  <2>4. mem[p[i + 1]].parent = p[i] /\ p[i] \in DOMAIN mem /\ p[i + 1] \in DOMAIN mem
    BY <1>1, <1>3, <2>1
  <2>5. p[i] # None
    BY <2>4, NodesCost, Places
  <2>6. WayCost(mem[p[i + 1]]) = WayCost(mem[p[i]]) + StepCost(p[i], p[i + 1])
    BY <2>4, <2>5 DEF NodesArePriced
  <2> QED BY <1>3, <2>2, <2>3, <2>6
<1> HIDE DEF T
<1>7. N \in T
  <2>1. \A i \in 0..N : i \in T
    BY <1>3, <1>5, <1>6, UpTo
  <2> QED BY <1>3, <2>1
<1>8. N + 1 = n
  BY <1>3 DEF N
<1> QED BY <1>3, <1>4, <1>7, <1>8 DEF T

(* When the goal is the best open node, every way to it costs as much as   *)
(* the node says, at least: a cheaper one would have left the closed nodes *)
(* over an open one that costs less.                                       *)
LEMMA NoneCheaper ==
  ASSUME GuideInv, FlowIsOfTrajs, BestFirst, Unreachable < MAX_TIMESTEP,
         pc = "search", left = <<>>, open # <<>>, Head(open) = Goal,
         NEW p \in Seq(Free), p # <<>>, p[1] = Loc(planned), Last(p) = Goal,
         \A i \in 2..Len(p) : p[i] \in Neighbors(p[i-1])
  PROVE  WayCost(mem[Goal]) <= CostOf(p)
<1> DEFINE n == Len(p)
           N == n - 1
           best == WayCost(mem[Goal])
<1>1. NodesArePriced /\ ClosedFirst /\ HeapOrder(mem, open)
  BY Parts
<1>2. Goal \in Free /\ Goal \in Cells /\ ToTheGoal(Goal) = 0
  <2>1. Goal \in Free
    BY SearchFor DEF Goal
  <2>2. Goal \in Cells
    BY <2>1, Places, Grid
  <2> QED BY <2>1, <2>2, NothingToGo DEF ToTheGoal
<1>3. n \in Nat \ {0} /\ N \in Nat /\ p \in [1..n -> Free] /\ p[n] = Goal
  BY LenProperties, EmptySeq DEF Last
<1>4. \A i \in 1..n : p[i] \in Cells
  BY <1>3, Grid
<1>5. PICK cost : AddsUp(cost, p) /\ CostOf(p) = cost[n]
  BY CostsAddUp
<1>6. /\ open \in Heaps(Free) /\ ToSet(open) = DOMAIN mem \ Closed /\ ToSet(left) = {}
      /\ Priced(mem, open)
      /\ \A c \in DOMAIN mem : /\ WayCost(mem[c]) \in Int
                               /\ get_all(mem[c]) = WayCost(mem[c]) + ToTheGoal(c)
  <2>1. ToSet(left) = {}
    BY EmptySeq DEF ToSet
  <2> QED BY <1>1, <2>1, NodesCost DEF NodesArePriced
<1>7. Goal \in ToSet(open) /\ \A c \in ToSet(open) : get_all(mem[Goal]) <= get_all(mem[c])
  <2>1. open \in Seq(Free)
    BY <1>6 DEF Heaps
  <2>2. 1 \in DOMAIN open /\ open[1] = Goal
    BY <2>1, LenProperties, EmptySeq
  <2> QED BY <1>1, <1>6, <2>1, <2>2, FirstIsLeast DEF ToSet
<1>8. Goal \in DOMAIN mem /\ best \in Int /\ get_all(mem[Goal]) = best
  BY <1>2, <1>6, <1>7
<1> HIDE DEF n, N, best
<1> DEFINE P(i) == \/ p[i] \in DOMAIN mem /\ WayCost(mem[p[i]]) <= cost[i]
                   \/ best <= cost[i] + ToTheGoal(p[i])
           T == {i \in 0..N : P(i + 1)}
<1>9. 0 \in T
  <2>1. cost[1] = 0
    BY <1>5 DEF AddsUp
  <2>2. p[1] \in DOMAIN mem /\ WayCost(mem[p[1]]) = 0
    BY <1>1 DEF NodesArePriced
  <2> QED BY <1>3, <2>1, <2>2
<1>10. ASSUME NEW i \in 1..N, i - 1 \in T PROVE i \in T
  <2>1. i + 1 \in 2..n /\ (i + 1) - 1 = i /\ (i - 1) + 1 = i /\ i \in 1..n /\ i + 1 \in 1..n
    BY <1>3 DEF N
  <2> DEFINE q == p[i]
             r == p[i + 1]
             s == StepCost(q, r)
  <2>2. q \in Cells /\ r \in Cells /\ r \in Neighbors(q)
    BY <1>4, <2>1 DEF n
  <2>3. s \in Nat /\ s >= 1
    BY <2>2, StepsCost
  <2>4. ToTheGoal(q) \in Nat /\ ToTheGoal(r) \in Nat /\ ToTheGoal(q) <= ToTheGoal(r) + 1
    BY <1>2, <2>2, Consistent DEF ToTheGoal
  <2>5. cost[i] \in Int /\ cost[i + 1] = cost[i] + s
    BY <1>5, <2>1 DEF AddsUp, n
  <2>6. P(i)
    BY <2>1, <1>10
  <2> DEFINE x == cost[i]
             tq == ToTheGoal(q)
             tr == ToTheGoal(r)
  <2>7. CASE q \in Closed /\ WayCost(mem[q]) <= x
    <3>1. r \in DOMAIN mem /\ WayCost(mem[r]) <= WayCost(mem[q]) + s /\ q \in DOMAIN mem
      BY <1>1, <1>6, <2>2, <2>7 DEF ClosedFirst, Closed
    <3>2. WayCost(mem[r]) \in Int /\ WayCost(mem[q]) \in Int
      BY <1>6, <3>1
    <3> HIDE DEF s, q, r
    <3>3. WayCost(mem[r]) <= x + s
      BY <2>3, <2>5, <2>7, <3>1, <3>2
    <3>4. P(i + 1)
      BY <2>5, <3>1, <3>3 DEF r
    <3> QED BY <1>3, <3>4
  <2>8. CASE best <= x + tq
    <3> HIDE DEF s, q, r, tq, tr
    <3>1. best <= x + s + tr
      BY <1>8, <2>3, <2>4, <2>5, <2>8 DEF tq, tr
    <3>2. P(i + 1)
      BY <2>5, <3>1 DEF tr, r
    <3> QED BY <1>3, <3>2
  <2>9. CASE q \in DOMAIN mem /\ q \notin Closed /\ WayCost(mem[q]) <= x
    <3>1. best <= get_all(mem[q]) /\ get_all(mem[q]) = WayCost(mem[q]) + tq
          /\ WayCost(mem[q]) \in Int
      BY <1>6, <1>7, <1>8, <2>9
    <3>2. best <= x + tq
      BY <1>8, <2>4, <2>5, <2>9, <3>1
    <3> QED BY <2>8, <3>2
  <2> QED BY <2>6, <2>7, <2>8, <2>9 DEF Closed
<1> HIDE DEF T, P
<1>11. P(n)
  <2>1. \A i \in 0..N : i \in T
    BY <1>3, <1>9, <1>10, UpTo
  <2>2. N \in T /\ N + 1 = n
    BY <1>3, <2>1 DEF N
  <2> QED BY <2>2 DEF T
<1>12. cost[n] \in Int
  BY <1>3, <1>5 DEF AddsUp, n
<1>13. best <= cost[n]
  BY <1>2, <1>3, <1>8, <1>11, <1>12 DEF P, best
<1> QED BY <1>5, <1>13 DEF best

(* All ways from one cell to another are those that visit none twice.      *)
LEMMA WaysBetween ==
  ASSUME NEW from \in Free, NEW to \in Free
  PROVE  /\ \A p \in SimplePaths[from][to] :
              /\ p \in Seq(Free) /\ p # <<>> /\ p[1] = from /\ Last(p) = to
              /\ \A i \in 2..Len(p) : p[i] \in Neighbors(p[i-1])
         /\ \A p \in Seq(Free) :
              /\ p[1] = from /\ Last(p) = to /\ Len(p) \in 1..Cardinality(Free)
              /\ \A i \in 2..Len(p) : p[i] \in Neighbors(p[i-1])
              /\ \A i, j \in DOMAIN p : p[i] = p[j] => i = j
              => p \in SimplePaths[from][to]
<1> DEFINE N == Cardinality(Free)
           S == Walks
<1>1. \A p : p \in S <=> \E n \in 1..N : p \in [1..n -> Free]
  BY Zenon DEF Walks
<1>2. SimplePaths[from][to] =
        {p \in S : /\ p[1] = from /\ Last(p) = to
                   /\ \A i \in 2..Len(p) : p[i] \in Neighbors(p[i-1])
                   /\ \A i, j \in DOMAIN p : p[i] = p[j] => i = j}
  BY DEF SimplePaths
<1> HIDE DEF S
<1>3. N \in Nat
  <2> DEFINE none == <<>>
  <2>1. none \in Seq(Free) /\ \A i, j \in DOMAIN none : none[i] = none[j] => i = j
    OBVIOUS
  <2> HIDE DEF none
  <2> QED BY <2>1, WaysAreShort
<1>4. ASSUME NEW p \in S PROVE p \in Seq(Free) /\ p # <<>>
  <2>1. PICK n \in 1..N : p \in [1..n -> Free]
    BY <1>1
  <2>2. n \in Nat /\ n # 0
    BY <1>3, <2>1
  <2>3. p \in Seq(Free)
    BY <2>1, <2>2, SeqDef
  <2>4. 1 \in DOMAIN p
    BY <2>1, <2>2
  <2> QED BY <2>3, <2>4, EmptySeq
<1>5. ASSUME NEW p \in Seq(Free), Len(p) \in 1..N PROVE p \in S
  <2>1. p \in [1..Len(p) -> Free]
    BY LenProperties
  <2> QED BY <1>1, <1>5, <2>1, Zenon
<1> QED BY <1>2, <1>4, <1>5

(* A new trajectory goes from where the agent stands to its goal, and no   *)
(* other way costs less in the traffic of the other agents.                *)
THEOREM GuidesCheapest ==
  ASSUME Unreachable < MAX_TIMESTEP
  PROVE  GuideSpec => GuidesAreCheapest
<1> DEFINE Cheapest == \A a \in Agents : trajs'[a] # trajs[a] =>
             /\ trajs'[a] \in SimplePaths[Loc(a)][tasks[a]]
             /\ \A p \in SimplePaths[Loc(a)][tasks[a]] : CostOf(trajs'[a]) <= CostOf(p)
<1>1. ASSUME GuideInv, BestFirst, FlowIsOfTrajs, [GuideNext]_vars
      PROVE  Cheapest
  <2>1. GuideTypeOK /\ SearchTree /\ PlanTypeOK /\ SearchTypeOK
    BY <1>1, TwoParts DEF GuideInv
  <2>2. CASE ~FindPath
    <3>1. UNCHANGED trajs
      <4>1. CASE TaskChange \/ FrankWolfe
        BY <2>1, <4>1, ReplanOrNot DEF Replans, Replan, lns
      <4>2. CASE PlanBegin \/ FrankWolfeBegin \/ Deadline \/ Pop \/ FindNoPath
                 \/ Generate \/ Pibt \/ Report \/ UNCHANGED vars
        BY <4>2 DEF PlanBegin, FrankWolfeBegin, Deadline, Pop, FindNoPath, Generate,
                    Pibt, Report, lns, vars
      <4> QED BY <1>1, <2>2, <4>1, <4>2 DEF GuideNext
    <3> QED BY <3>1
  <2>3. CASE FindPath
    <3> DEFINE way == PathTo(Goal)
               at == Loc(planned)
    <3>1. /\ pc = "search" /\ left = <<>> /\ open # <<>> /\ Head(open) = Goal
          /\ trajs' = [trajs EXCEPT ![planned] = way]
          /\ planned \in Agents /\ trajs \in [Agents -> Seq(Free)]
      BY <2>1, <2>3 DEF FindPath, update_traj, Goal, PlanTypeOK
    <3>2. Goal \in Free /\ at \in Free
      BY <1>1, <2>1, <3>1, Placed, SearchFor, Places DEF Goal
    <3>3. /\ way \in Seq(Free) /\ way # <<>> /\ Last(way) = Goal
          /\ \A i \in 2..Len(way) : way[i] \in Neighbors(way[i-1])
          /\ \A i, j \in DOMAIN way : way[i] = way[j] => i = j
      BY <1>1, <2>3, FoundAWay DEF Goal
    <3>4. Goal \in DOMAIN mem
      <4>1. open \in Seq(Free)
        BY <2>1 DEF SearchTypeOK, Heaps
      <4>2. 1 \in DOMAIN open /\ open[1] = Goal
        BY <3>1, <4>1, LenProperties, EmptySeq
      <4>3. Goal \in ToSet(open)
        BY <4>2 DEF ToSet
      <4> QED BY <2>1, <4>3 DEF SearchTypeOK
    <3>5. way \in WaysTo(Goal) /\ way[1] = at
      BY <2>1, <3>4, PathToIsAWay
    <3>6. CostOf(way) = WayCost(mem[Goal])
      BY <1>1, <2>1, <3>1, <3>5, Parts, WaysCost
    <3> HIDE DEF way
    <3>7. way \in SimplePaths[at][Goal]
      <4>1. Len(way) \in 1..Cardinality(Free) /\ way \in [1..Len(way) -> Free]
        BY <3>3, WaysAreShort, LenProperties, EmptySeq
      <4> QED BY <3>2, <3>3, <3>5, <4>1, WaysBetween
    <3>8. ASSUME NEW p \in SimplePaths[at][Goal] PROVE CostOf(way) <= CostOf(p)
      <4>1. /\ p \in Seq(Free) /\ p # <<>> /\ p[1] = at /\ Last(p) = Goal
            /\ \A i \in 2..Len(p) : p[i] \in Neighbors(p[i-1])
        BY <3>2, <3>8, WaysBetween
      <4> QED BY <1>1, <2>1, <3>1, <3>6, <4>1, NoneCheaper
    <3>9. ASSUME NEW a \in Agents, trajs'[a] # trajs[a]
          PROVE  /\ trajs'[a] \in SimplePaths[Loc(a)][tasks[a]]
                 /\ \A p \in SimplePaths[Loc(a)][tasks[a]] : CostOf(trajs'[a]) <= CostOf(p)
      <4>1. a = planned /\ trajs'[a] = way /\ tasks[a] = Goal
        BY <3>1, <3>9 DEF Goal
      <4> QED BY <3>7, <3>8, <4>1
    <3> QED BY <3>9
  <2> QED BY <2>2, <2>3
<1>2. GuideInv /\ BestFirst /\ FlowIsOfTrajs /\ [GuideNext]_vars => [Cheapest]_vars
  BY <1>1
<1> QED BY <1>2, GuideIsInductive, SearchesBestFirst, FlowCounts, PTL
        DEF GuideSpec, GuidesAreCheapest
=============================================================================
