------------------------------ MODULE EpibtProofs ------------------------------
(***************************************************************************)
(* Proofs about EPIBT, for every grid and team.                            *)
(***************************************************************************)
EXTENDS Epibt, SimulatorProofs, FiniteSetTheorems, WellFoundedInduction

-----------------------------------------------------------------------------
(* What is chosen exists.                                                  *)

LEMMA LeastNumber ==
  ASSUME NEW S \in SUBSET Nat, S # {}
  PROVE  \E n \in S : \A k \in S : n <= k
<1> DEFINE R == {ss \in Nat \X Nat : ss[1] < ss[2]}
<1>1. \A k, n \in Nat : <<k, n>> \in R <=> k < n
  OBVIOUS
<1>2. IsWellFoundedOn(R, Nat)
  BY NatLessThanWellFounded, Zenon DEF OpToRel
<1> HIDE DEF R
<1>3. \E n \in S : \A k \in S : <<k, n>> \notin R
  BY <1>2, WFMin
<1>4. \A k, n \in Nat : k < n \/ n <= k
  OBVIOUS
<1> QED BY <1>1, <1>3, <1>4

LEMMA GridNumbers ==
  /\ Rows \in Nat /\ Cols \in Nat \ {0} /\ NumAgents \in Nat \ {0}
  /\ Rows * Cols \in Nat
  /\ Free \subseteq Cells /\ Cells \subseteq Nat
BY SimulatorAssumption DEF Free, Cells

(* A distance exists without knowing how far the ball grows: some number   *)
(* of steps is the least.                                                  *)
LEMMA DistancesAreNumbers ==
  ASSUME NEW g \in Free, NEW c \in Cells
  PROVE  distance[g][c] \in Nat
<1> DEFINE ball == Within({g})
           N == Rows * Cols
           S == {n \in 0..N : c \in ball[n]}
<1>1. distance[g][c] = IF c \in ball[N]
                         THEN CHOOSE n \in 0..N :
                                c \in ball[n] /\ (n > 0 => c \notin ball[n-1])
                         ELSE N
  BY DEF distance, DistanceFrom, Unreachable
<1> HIDE DEF ball
<1>2. N \in Nat
  BY GridNumbers
<1> HIDE DEF N
<1>3. ASSUME c \in ball[N]
      PROVE  \E n \in 0..N : c \in ball[n] /\ (n > 0 => c \notin ball[n-1])
  <2>1. S \in SUBSET Nat /\ S # {}
    BY <1>2, <1>3
  <2>2. PICK n \in S : \A k \in S : n <= k
    BY <2>1, LeastNumber
  <2>3. n > 0 => n - 1 \in 0..N /\ ~(n <= n - 1)
    BY <1>2, <2>2
  <2> QED BY <2>2, <2>3
<1> QED BY <1>1, <1>2, <1>3

LEMMA HeuristicsAreNumbers ==
  ASSUME NEW c \in Free, NEW g \in Free
  PROVE  ComputeHeuristic(c, g) \in Nat
<1>1. distance[g][c] \in Nat
  BY DistancesAreNumbers, GridNumbers
<1>2. manhattanDistance(c, g) \in Nat
  <2>1. /\ RowOf(c) \in Int /\ RowOf(g) \in Int
        /\ ColOf(c) \in Int /\ ColOf(g) \in Int
    BY GridNumbers, Division DEF RowOf, ColOf
  <2>2. \A m, k \in Int : Abs(m - k) \in Nat
    BY DEF Abs
  <2>3. /\ Abs(RowOf(c) - RowOf(g)) \in Nat /\ Abs(ColOf(c) - ColOf(g)) \in Nat
    BY <2>1, <2>2
  <2> QED BY <2>3 DEF manhattanDistance
<1> QED BY <1>1, <1>2 DEF ComputeHeuristic

(* The agents are planned one after the other.                             *)
LEMMA NextAgentIsUnplanned ==
  ASSUME EpibtTypeOK, Planned # Agents
  PROVE  NextAgent \in Agents \ Planned
<1> DEFINE U == Agents \ Planned
           S == {Priority(a) : a \in U}
<1>1. U # {}
  BY DEF Planned
<1>2. \A a \in Agents : Priority(a) \in Nat
  <2> SUFFICES ASSUME NEW a \in Agents PROVE Priority(a) \in Nat
    OBVIOUS
  <2>1. ComputeHeuristic(curr_states[a].location, goal_locations[a]) \in Nat
    BY HeuristicsAreNumbers, EpibtAssumption DEF EpibtTypeOK
  <2>2. (IF HasInheritedTail(a) THEN 0 ELSE Rows * Cols) \in Nat
    BY GridNumbers
  <2>3. \A n, m, k, l \in Nat : n * (m + k) + l \in Nat
    OBVIOUS
  <2>4. NumAgents \in Nat /\ a \in Nat
    BY GridNumbers DEF Agents
  <2> QED BY <2>1, <2>2, <2>3, <2>4 DEF Priority
<1>3. S \in SUBSET Nat /\ S # {}
  BY <1>1, <1>2
<1>4. \E n \in S : \A k \in S : n <= k
  BY <1>3, LeastNumber
<1>5. \E a \in U : \A b \in U : Priority(a) <= Priority(b)
  BY <1>4
<1> QED BY <1>5 DEF NextAgent

-----------------------------------------------------------------------------
(* Operations and their paths.                                             *)

Standings == [location : Free, orientation : Orientation]

LEMMA StandingIsState ==
  ASSUME NEW s \in Standings
  PROVE  s \in State /\ s.location \in Free
<1>1. s.location \in Free /\ s.location \in Int /\ s.orientation \in Orientation
  <2>1. s.location \in Free /\ s.orientation \in Orientation
    BY DEF Standings
  <2>2. \A c \in Free : c \in Int
    BY GridNumbers
  <2> QED BY <2>1, <2>2
<1>2. s = [location |-> s.location, orientation |-> s.orientation]
  BY DEF Standings
<1> QED BY <1>1, <1>2 DEF State

LEMMA PathOf ==
  ASSUME NEW s, NEW op
  PROVE  LET p == BuildPath(s, op) IN
         /\ p = <<p[1], p[2], p[3], p[4]>>
         /\ p[1] = s
         /\ p[2] = ApplyAction(p[1], op[1])
         /\ p[3] = ApplyAction(p[2], op[2])
         /\ p[4] = ApplyAction(p[3], op[3])
BY DEF BuildPath

LEMMA WaitsAreValid ==
  ASSUME NEW s \in Standings
  PROVE  /\ WWW \in Operations
         /\ BuildPath(s, WWW) = <<s, s, s, s>>
         /\ WWW \in ValidOperations[s]
<1>1. WWW \in Operations
  BY DEF WWW, Operations
<1>2. ApplyAction(s, "W") = s
  BY DEF ApplyAction
<1>3. BuildPath(s, WWW) = <<s, s, s, s>>
  BY <1>2 DEF BuildPath, WWW
<1>4. s.location \in Free
  BY StandingIsState
<1>5. AllowedMove(s.location, s.location)
  BY <1>4, StayIsAllowed DEF Free
<1>6. IsPathValid(<<s, s, s, s>>)
  <2>1. \A i \in 1..4 : <<s, s, s, s>>[i] = s
    OBVIOUS
  <2>2. \A i \in 1..3 : i \in 1..4 /\ i + 1 \in 1..4
    OBVIOUS
  <2> QED BY <1>4, <1>5, <2>1, <2>2 DEF IsPathValid
<1>7. ValidOperations[s] = {op \in Operations : IsPathValid(BuildPath(s, op))}
  BY DEF ValidOperations, Standings
<1> QED BY <1>1, <1>3, <1>6, <1>7

(* The four states of a valid path are on free cells.                      *)
LEMMA ValidPaths ==
  ASSUME NEW s \in Standings, NEW op \in ValidOperations[s]
  PROVE  LET p == BuildPath(s, op) IN
         /\ op \in Operations
         /\ IsPathValid(p)
         /\ \A i \in 1..4 : p[i].location \in Free
<1> DEFINE p == BuildPath(s, op)
<1>1. op \in Operations /\ IsPathValid(p)
  BY DEF ValidOperations, Standings
<1> HIDE DEF p
<1>2. \A i \in 1..3 : p[i+1].location \in Free
  BY <1>1 DEF IsPathValid, AllowedMove, Free
<1>3. \A i \in 1..4 : i = 1 \/ (i - 1 \in 1..3 /\ (i - 1) + 1 = i)
  OBVIOUS
<1>4. \A i \in 1..4 : p[i].location \in Free
  BY <1>1, <1>2, <1>3 DEF IsPathValid
<1> QED BY <1>1, <1>4 DEF p

LEMMA ConflictIsMutual ==
  ASSUME NEW p, NEW q
  PROVE  Conflict(p, q) <=> Conflict(q, p)
BY DEF Conflict, HasVertexConflict, HasEdgeSwapConflict
-----------------------------------------------------------------------------
(* The best of the candidates is one of them.                              *)

LEMMA CountsAreNumbers ==
  ASSUME NEW op, NEW Base
  PROVE  CountAction(op, Base) \in Nat
<1>1. IsFiniteSet(1..3)
  <2>1. 1 \in Int /\ 3 \in Int
    OBVIOUS
  <2> QED BY <2>1, FS_Interval, Zenon
<1>2. IsFiniteSet({i \in 1..3 : op[i] \in Base})
  BY <1>1, FS_Subset
<1> QED BY <1>2, FS_CardinalityType DEF CountAction

LEMMA BestIsCandidate ==
  ASSUME EpibtTypeOK, NEW a \in Agents,
         NEW ops \in SUBSET ValidOperations[curr_states[a]], ops # {}
  PROVE  Best(a, ops) \in ops
<1> DEFINE h0 == ComputeHeuristic(curr_states[a].location, goal_locations[a])
           S == {Rank(a, op) + 384 * h0 : op \in ops}
           T == {Rank(a, op) : op \in ops}
<1>1. curr_states[a] \in Standings /\ goal_locations[a] \in Free
  BY EpibtAssumption DEF EpibtTypeOK, Standings
<1>2. h0 \in Nat
  BY <1>1, StandingIsState, HeuristicsAreNumbers
<1>3. \A op \in ops : Rank(a, op) \in Int /\ Rank(a, op) + 384 * h0 \in Nat
  <2> SUFFICES ASSUME NEW op \in ops
               PROVE  Rank(a, op) \in Int /\ Rank(a, op) + 384 * h0 \in Nat
    OBVIOUS
  <2> DEFINE h == ComputeHeuristic(Path(a, op)[4].location, goal_locations[a])
             w == CountAction(op, {"W"})
             t == CountAction(op, {"CR", "CCR"})
             m == Max({0, h0 - h})
             e == [FW |-> 0, CR |-> 1, CCR |-> 2, W |-> 3]
  <2>1. h \in Nat
    <3>1. Path(a, op)[4].location \in Free
      BY <1>1, ValidPaths DEF Path
    <3> QED BY <1>1, <3>1, HeuristicsAreNumbers
  <2>2. w \in Nat /\ t \in Nat
    BY CountsAreNumbers
  <2>3. m \in Nat /\ m <= h0
    <3> HIDE DEF h0, h
    <3>1. \A d \in Int : \E x \in {0, d} : \A y \in {0, d} : x >= y
      OBVIOUS
    <3>2. m \in {0, h0 - h} /\ \A y \in {0, h0 - h} : m >= y
      BY <1>2, <2>1, <3>1 DEF Max
    <3> QED BY <1>2, <2>1, <3>2
  <2>4. e[op[1]] \in Nat /\ e[op[2]] \in Nat /\ e[op[3]] \in Nat
    <3>1. op \in Operations
      BY <1>1, ValidPaths
    <3> QED BY <3>1 DEF Operations
  <2>5. Rank(a, op) = 64 * (h * 16 + w * 4 + t * 2 - m * 6)
                        + 16 * e[op[1]] + 4 * e[op[2]] + e[op[3]]
    <3>1. Rank(a, op) = RankOf(curr_states[a], goal_locations[a], op)
      <4>1. op \in ValidOperations[curr_states[a]]
        OBVIOUS
      <4> QED BY <1>1, <4>1 DEF Rank, Ranks, Standings
    <3> QED BY <3>1 DEF RankOf, ScoreOperation, Path
  <2> HIDE DEF h0, h, w, t, m, e
  <2>6. \A i, j, k \in Nat : /\ Rank(a, op) = 64 * (h * 16 + w * 4 + t * 2 - m * 6)
                                                + 16 * i + 4 * j + k
                             => Rank(a, op) \in Int /\ Rank(a, op) + 384 * h0 \in Nat
    BY <1>2, <2>1, <2>2, <2>3
  <2> QED BY <2>4, <2>5, <2>6
<1> HIDE DEF h0
<1>4. S \in SUBSET Nat /\ S # {}
  BY <1>3
<1>5. \E n \in S : \A k \in S : n <= k
  BY <1>4, LeastNumber
<1>6. \E op \in ops : \A o \in ops : Rank(a, op) + 384 * h0 <= Rank(a, o) + 384 * h0
  BY <1>5
<1>7. \A i, j \in Int : i + 384 * h0 <= j + 384 * h0 => i <= j
  BY <1>2
<1>8. \E op \in ops : \A o \in ops : Rank(a, op) <= Rank(a, o)
  BY <1>3, <1>6, <1>7
<1>9. \E n \in T : \A k \in T : n =< k
  BY <1>8
<1>10. Min(T) \in T
  BY <1>9 DEF Min
<1>11. \E op \in ops : Rank(a, op) = Min(T)
  BY <1>10
<1> QED BY <1>11 DEF Best
-----------------------------------------------------------------------------
(* The planner.                                                            *)

(* What an agent may select: an operation that conflicts with nobody's, or *)
(* the wait when there is none.                                            *)
LEMMA SelectionCases ==
  ASSUME EpibtTypeOK, NEW a \in Agents, SelectOperation(a)
  PROVE  \E op \in ValidOperations[curr_states[a]],
            reason \in {"selected_inherited", "selected_candidate", "fallback_wait"} :
           /\ Selected(a, op, reason)
           /\ \/ op \in Candidates(a)
              \/ op = WWW /\ reason = "fallback_wait" /\ Candidates(a) = {}
<1>1. curr_states[a] \in Standings
  BY DEF EpibtTypeOK, Standings
<1>2. Candidates(a) \subseteq ValidOperations[curr_states[a]]
  BY DEF Candidates
<1>3. CASE Inherits(a) /\ Selected(a, ShiftInheritedOperation(prev_operations[a]),
                                   "selected_inherited")
  BY <1>2, <1>3 DEF Inherits
<1>4. CASE Candidates(a) # {} /\ Selected(a, Best(a, Candidates(a)), "selected_candidate")
  BY <1>2, <1>4, BestIsCandidate
<1>5. CASE Candidates(a) = {} /\ Selected(a, WWW, "fallback_wait")
  BY <1>1, <1>5, WaitsAreValid
<1> QED BY <1>3, <1>4, <1>5 DEF SelectOperation

LEMMA OperationsAreTold ==
  ASSUME NEW op \in Operations
  PROVE  /\ op # None /\ op = <<op[1], op[2], op[3]>>
         /\ op[1] \in {"FW", "CR", "CCR", "W"}
         /\ op[2] \in {"FW", "CR", "CCR", "W"}
         /\ op[3] \in {"FW", "CR", "CCR", "W"}
BY DEF Operations, None

LEMMA PlanAgentStep ==
  ASSUME EpibtTypeOK, SelectedAreValid, ConflictsAreFallbacks, PlanAgent
  PROVE  EpibtTypeOK' /\ SelectedAreValid' /\ ConflictsAreFallbacks'
<1>1. /\ UNCHANGED <<pc, curr_states, goal_locations, prev_operations>>
      /\ Planned # Agents /\ SelectOperation(NextAgent)
  BY DEF PlanAgent, reported
<1>2. PICK a \in Agents \ Planned : SelectOperation(a)
  BY <1>1, NextAgentIsUnplanned
<1>3. PICK op \in ValidOperations[curr_states[a]],
           reason \in {"selected_inherited", "selected_candidate", "fallback_wait"} :
        /\ Selected(a, op, reason)
        /\ \/ op \in Candidates(a)
           \/ op = WWW /\ reason = "fallback_wait" /\ Candidates(a) = {}
  BY <1>2, SelectionCases
<1>4. op \in Operations /\ op # None
  <2>1. curr_states[a] \in Standings
    BY DEF EpibtTypeOK, Standings
  <2> QED BY <2>1, ValidPaths, OperationsAreTold
<1>5. \A b \in Agents :
        /\ next_prev_operations'[b] = IF b = a THEN op ELSE next_prev_operations[b]
        /\ debugReason'[b] = IF b = a THEN reason ELSE debugReason[b]
  BY <1>3 DEF Selected, EpibtTypeOK
<1>6. Planned' = Planned \cup {a}
  BY <1>4, <1>5 DEF Planned
<1>7. \A b, o : Path(b, o)' = Path(b, o)
  BY <1>1 DEF Path
<1>8. EpibtTypeOK'
  <2>1. /\ next_prev_operations' \in [Agents -> Operations \cup {None}]
        /\ debugReason' \in [Agents -> {"none", "selected_inherited",
                                        "selected_candidate", "fallback_wait",
                                        "time_budget_exhausted"}]
    BY <1>3, <1>4 DEF Selected, EpibtTypeOK
  <2> QED BY <1>1, <2>1 DEF EpibtTypeOK
<1>9. SelectedAreValid'
  BY <1>1, <1>3, <1>5, <1>6 DEF SelectedAreValid, Planned
<1>10. ASSUME NEW c \in Planned, Stuck(c)
       PROVE  Stuck(c)'
  <2> SUFFICES ASSUME NEW o \in ValidOperations[curr_states[c]]
               PROVE  \E b \in Planned' \ {c} :
                        Conflict(Path(c, o), Path(b, next_prev_operations'[b]))
    BY <1>1, <1>7 DEF Stuck
  <2>1. PICK b \in Planned \ {c} : Conflict(Path(c, o), Path(b, next_prev_operations[b]))
    BY <1>10 DEF Stuck
  <2>2. b \in Agents /\ b # a
    BY <1>2, <2>1 DEF Planned
  <2> QED BY <1>5, <1>6, <2>1, <2>2
<1>11. ASSUME Candidates(a) = {}
       PROVE  Stuck(a)'
  <2> SUFFICES ASSUME NEW o \in ValidOperations[curr_states[a]]
               PROVE  \E b \in Planned' \ {a} :
                        Conflict(Path(a, o), Path(b, next_prev_operations'[b]))
    BY <1>1, <1>7 DEF Stuck
  <2>1. PICK b \in Planned : Conflict(Path(a, o), Path(b, next_prev_operations[b]))
    BY <1>11 DEF Candidates, GetUsedAgents
  <2>2. b \in Agents /\ b # a
    BY <1>2, <2>1 DEF Planned
  <2> QED BY <1>5, <1>6, <2>1, <2>2
<1>12. ASSUME NEW b \in Planned, Conflict(Path(a, op), Path(b, next_prev_operations[b]))
       PROVE  op = WWW /\ reason = "fallback_wait" /\ Candidates(a) = {}
  BY <1>3, <1>12 DEF Candidates, GetUsedAgents
<1>13. ConflictsAreFallbacks'
  <2> DEFINE Fallback(c) == /\ next_prev_operations'[c] = WWW /\ Stuck(c)'
                            /\ debugReason'[c] = "fallback_wait"
  <2> SUFFICES ASSUME NEW x \in Planned', NEW y \in Planned', x # y,
                      Conflict(Path(x, next_prev_operations'[x]),
                               Path(y, next_prev_operations'[y]))
               PROVE  \E c \in {x, y} : Fallback(c)
    BY <1>7 DEF ConflictsAreFallbacks
  <2>1. x \in Agents /\ y \in Agents /\ (x = a \/ x \in Planned) /\ (y = a \/ y \in Planned)
    BY <1>6 DEF Planned
  <2>2. CASE x = a
    <3>1. y \in Planned /\ y # a
      BY <2>1, <2>2
    <3>2. Conflict(Path(a, op), Path(y, next_prev_operations[y]))
      BY <1>5, <2>1, <2>2, <3>1
    <3>3. Fallback(a)
      BY <1>5, <1>11, <1>12, <3>1, <3>2
    <3> QED BY <2>2, <3>3
  <2>3. CASE y = a
    <3>1. x \in Planned /\ x # a
      BY <2>1, <2>3
    <3>2. Conflict(Path(a, op), Path(x, next_prev_operations[x]))
      BY <1>5, <2>1, <2>3, <3>1, ConflictIsMutual
    <3>3. Fallback(a)
      BY <1>5, <1>11, <1>12, <3>1, <3>2
    <3> QED BY <2>3, <3>3
  <2>4. CASE x # a /\ y # a
    <3>1. /\ x \in Planned /\ y \in Planned
          /\ Conflict(Path(x, next_prev_operations[x]), Path(y, next_prev_operations[y]))
      BY <1>5, <2>1, <2>4
    <3>2. PICK c \in {x, y} : /\ next_prev_operations[c] = WWW /\ Stuck(c)
                              /\ debugReason[c] = "fallback_wait"
      BY <3>1 DEF ConflictsAreFallbacks
    <3>3. Fallback(c)
      BY <1>5, <1>10, <2>1, <2>4, <3>1, <3>2
    <3> QED BY <3>3
  <2> QED BY <2>2, <2>3, <2>4
<1> QED BY <1>8, <1>9, <1>13

(* plan() returns, at its end or at its deadline.                          *)
LEMMA ReturnsStep ==
  ASSUME EpibtTypeOK, SelectedAreValid, ConflictsAreFallbacks, PlanEnd \/ Deadline
  PROVE  EpibtTypeOK' /\ SelectedAreValid' /\ ConflictsAreFallbacks'
<1>1. /\ UNCHANGED <<curr_states, goal_locations, next_prev_operations>>
      /\ pc' = "act" /\ prev_operations' = next_prev_operations
  BY DEF PlanEnd, Deadline, Returns, reported
<1>2. \A b \in Planned : debugReason'[b] = debugReason[b]
  <2>1. CASE Deadline
    <3>1. NextAgent \notin Planned
      BY <2>1, NextAgentIsUnplanned DEF Deadline
    <3> QED BY <2>1, <3>1 DEF Deadline, EpibtTypeOK, Planned
  <2> QED BY <2>1 DEF PlanEnd
<1>3. debugReason' \in [Agents -> {"none", "selected_inherited", "selected_candidate",
                                  "fallback_wait", "time_budget_exhausted"}]
  <2>1. CASE Deadline
    BY <2>1 DEF Deadline, EpibtTypeOK
  <2> QED BY <2>1 DEF PlanEnd, EpibtTypeOK
<1>4. /\ Planned' = Planned
      /\ \A b, o : Path(b, o)' = Path(b, o)
  BY <1>1 DEF Planned, Path
<1>5. \A c : Stuck(c)' <=> Stuck(c)
  BY <1>1, <1>4 DEF Stuck
<1>6. EpibtTypeOK'
  BY <1>1, <1>3 DEF EpibtTypeOK
<1>7. SelectedAreValid'
  BY <1>1, <1>4 DEF SelectedAreValid
<1>8. ConflictsAreFallbacks'
  BY <1>1, <1>2, <1>4, <1>5 DEF ConflictsAreFallbacks
<1> QED BY <1>6, <1>7, <1>8

-----------------------------------------------------------------------------
(* The client.                                                             *)

LEMMA NothingSelected ==
  ASSUME next_prev_operations = NoOperations
  PROVE  Planned = {} /\ SelectedAreValid /\ ConflictsAreFallbacks
<1>1. Planned = {}
  BY DEF Planned, NoOperations
<1> QED BY <1>1 DEF SelectedAreValid, ConflictsAreFallbacks

LEMMA CarryStep ==
  ASSUME EpibtTypeOK, NEW acts \in [Agents -> Action], Carry(acts)
  PROVE  curr_states' \in [Agents -> [location : Free, orientation : Orientation]]
<1>1. /\ IsValid(curr_states, acts)
      /\ curr_states' = [a \in Agents |-> result_state(curr_states[a], acts[a])]
  BY DEF Carry, result_states
<1>2. ASSUME NEW a \in Agents
      PROVE  result_state(curr_states[a], acts[a])
               \in [location : Free, orientation : Orientation]
  <2>1. curr_states[a] \in State
    BY StandingIsState DEF EpibtTypeOK, Standings
  <2>2. result_state(curr_states[a], acts[a]) \in State
    BY <2>1, ResultState
  <2>3. result_state(curr_states[a], acts[a]).location \in Free
    BY <1>1 DEF IsValid, AllowedMove, result_states, Free
  <2> QED BY <2>2, <2>3 DEF State
<1> QED BY <1>1, <1>2

LEMMA TheActions ==
  ASSUME EpibtTypeOK
  PROVE  /\ actions \in [Agents -> Action]
         /\ \A held : [a \in Agents |-> IF a \in held THEN "W" ELSE actions[a]]
                        \in [Agents -> Action]
<1>1. ASSUME NEW a \in Agents PROVE Answer(a)[1] \in Action
  <2>1. Answer(a) \in Operations
    BY DEF Answer, EpibtTypeOK, Planned, WWW, Operations
  <2> QED BY <2>1, OperationsAreTold DEF Action
<1> QED BY <1>1 DEF actions, Action

LEMMA AsksStep ==
  ASSUME EpibtTypeOK, Execute \/ HeldUp \/ Report \/ Initialize
  PROVE  EpibtTypeOK' /\ SelectedAreValid' /\ ConflictsAreFallbacks'
<1>1. /\ Asks /\ NamesGoals
      /\ prev_operations' = prev_operations \/ prev_operations' = NoOperations
  BY DEF Execute, HeldUp, Report, Initialize
<1>2. curr_states' \in [Agents -> [location : Free, orientation : Orientation]]
  <2>1. CASE Execute
    BY <2>1, CarryStep, TheActions DEF Execute
  <2>2. CASE HeldUp
    BY <2>2, CarryStep, TheActions DEF HeldUp
  <2>3. CASE Initialize
    BY <2>3 DEF Initialize, EpibtTypeOK
  <2>4. CASE Report
    BY <2>4 DEF Report, Reports
  <2> QED BY <2>1, <2>2, <2>3, <2>4
<1>3. next_prev_operations' = NoOperations
  BY <1>1 DEF Asks
<1>4. EpibtTypeOK'
  BY <1>1, <1>2 DEF Asks, NamesGoals, EpibtTypeOK, NoOperations, NoReasons
<1>5. SelectedAreValid' /\ ConflictsAreFallbacks'
  <2>1. Planned' = {}
    BY <1>3 DEF Planned, NoOperations
  <2> QED BY <2>1 DEF SelectedAreValid, ConflictsAreFallbacks
<1> QED BY <1>4, <1>5

-----------------------------------------------------------------------------
(* What follows from the selection.                                        *)

LEMMA NothingToCorrect ==
  ASSUME EpibtTypeOK, SelectedAreValid, Cols >= 2
  PROVE  NothingToSanitize
<1> SUFFICES ASSUME NEW a \in Agents, actions[a] = "FW"
             PROVE  LET to == ApplyAction(curr_states[a], "FW") IN
                    to.location \in Free /\ GoesAhead(curr_states[a], to)
  BY DEF NothingToSanitize
<1> DEFINE s == curr_states[a]
           to == ApplyAction(s, "FW")
           op == next_prev_operations[a]
<1>1. Answer(a)[1] = "FW"
  BY DEF actions
<1>2. a \in Planned /\ op[1] = "FW"
  BY <1>1 DEF Answer, WWW
<1>3. s \in Standings /\ op \in ValidOperations[s]
  BY <1>2 DEF SelectedAreValid, EpibtTypeOK, Standings
<1> DEFINE p == BuildPath(s, op)
<1>4. IsPathValid(p) /\ \A i \in 1..4 : p[i].location \in Free
  BY <1>3, ValidPaths
<1>5. p[1] = s /\ p[2] = to
  BY <1>2, PathOf
<1> HIDE DEF p, op
<1>6. to.location \in Free /\ AllowedMove(s.location, to.location)
  BY <1>4, <1>5 DEF IsPathValid
<1>7. s \in State
  BY <1>3, StandingIsState
<1> HIDE DEF s
<1>8. to = [s EXCEPT !.location = s.location + moves[s.orientation]]
  BY DEF ApplyAction
<1>9. to \in State /\ to.orientation = s.orientation
      /\ to.location = s.location + moves[s.orientation]
  <2>1. to.location \in Int
    <3>1. \A c \in Free : c \in Int
      BY GridNumbers
    <3> QED BY <1>6, <3>1
  <2> QED BY <1>7, <1>8, <2>1 DEF State
<1> HIDE DEF to
<1>10. GoesAhead(s, to)
  BY <1>6, <1>7, <1>9, AllowedIsAhead
<1> QED BY <1>6, <1>10 DEF s, to

(* A conflict between what is left of two paths is one between the paths.  *)
LEMMA TailConflicts ==
  ASSUME NEW p1, NEW p2, NEW p3, NEW p4, NEW q1, NEW q2, NEW q3, NEW q4,
         Conflict(<<p2, p3, p4, p4>>, <<q2, q3, q4, q4>>)
  PROVE  Conflict(<<p1, p2, p3, p4>>, <<q1, q2, q3, q4>>)
<1> DEFINE p == <<p1, p2, p3, p4>>
           q == <<q1, q2, q3, q4>>
           r == <<p2, p3, p4, p4>>
           s == <<q2, q3, q4, q4>>
<1>1. /\ p[1] = p1 /\ p[2] = p2 /\ p[3] = p3 /\ p[4] = p4
      /\ q[1] = q1 /\ q[2] = q2 /\ q[3] = q3 /\ q[4] = q4
      /\ r[1] = p2 /\ r[2] = p3 /\ r[3] = p4 /\ r[4] = p4
      /\ s[1] = q2 /\ s[2] = q3 /\ s[3] = q4 /\ s[4] = q4
  OBVIOUS
<1>2. Conflict(r, s)
  OBVIOUS
<1> HIDE DEF p, q, r, s
<1>3. \/ p3.location = q3.location \/ p4.location = q4.location
      \/ p2.location = q3.location /\ p3.location = q2.location
      \/ p3.location = q4.location /\ p4.location = q3.location
  <2>1. CASE HasVertexConflict(r, s)
    <3>1. PICK i \in 2..4 : r[i].location = s[i].location
      BY <2>1 DEF HasVertexConflict
    <3>2. i = 2 \/ i = 3 \/ i = 4
      OBVIOUS
    <3> QED BY <1>1, <3>1, <3>2
  <2>2. CASE HasEdgeSwapConflict(r, s)
    <3>1. PICK i \in 1..3 : r[i].location = s[i+1].location /\ r[i+1].location = s[i].location
      BY <2>2 DEF HasEdgeSwapConflict
    <3>2. (i = 1 /\ i + 1 = 2) \/ (i = 2 /\ i + 1 = 3) \/ (i = 3 /\ i + 1 = 4)
      OBVIOUS
    <3> QED BY <1>1, <3>1, <3>2
  <2> QED BY <1>2, <2>1, <2>2 DEF Conflict
<1>4. HasVertexConflict(p, q) \/ HasEdgeSwapConflict(p, q)
  <2>1. CASE p3.location = q3.location
    <3>1. 3 \in 2..4
      OBVIOUS
    <3> QED BY <1>1, <2>1, <3>1 DEF HasVertexConflict
  <2>2. CASE p4.location = q4.location
    <3>1. 4 \in 2..4
      OBVIOUS
    <3> QED BY <1>1, <2>2, <3>1 DEF HasVertexConflict
  <2>3. CASE p2.location = q3.location /\ p3.location = q2.location
    <3>1. 2 \in 1..3 /\ 2 + 1 = 3
      OBVIOUS
    <3> QED BY <1>1, <2>3, <3>1 DEF HasEdgeSwapConflict
  <2>4. CASE p3.location = q4.location /\ p4.location = q3.location
    <3>1. 3 \in 1..3 /\ 3 + 1 = 4
      OBVIOUS
    <3> QED BY <1>1, <2>4, <3>1 DEF HasEdgeSwapConflict
  <2> QED BY <1>3, <2>1, <2>2, <2>3, <2>4
<1> QED BY <1>4 DEF Conflict, p, q

(* What is left of a path, once its first action has been done.            *)
LEMMA RestOf ==
  ASSUME EpibtTypeOK, SelectedAreValid, NEW a \in Planned
  PROVE  \E p1, p2, p3, p4 :
           /\ Path(a, next_prev_operations[a]) = <<p1, p2, p3, p4>>
           /\ Rest(a) = <<p2, p3, p4, p4>>
           /\ IsPathValid(Rest(a))
<1> DEFINE s == curr_states[a]
           op == next_prev_operations[a]
           p == BuildPath(s, op)
<1>1. a \in Agents /\ s \in Standings /\ op \in ValidOperations[s]
  BY DEF SelectedAreValid, EpibtTypeOK, Standings, Planned
<1>2. IsPathValid(p) /\ \A i \in 1..4 : p[i].location \in Free
  BY <1>1, ValidPaths
<1>3. /\ p = <<p[1], p[2], p[3], p[4]>> /\ p[1] = s
      /\ p[2] = ApplyAction(s, op[1])
      /\ p[3] = ApplyAction(p[2], op[2])
      /\ p[4] = ApplyAction(p[3], op[3])
  BY PathOf
<1>4. Rest(a) = BuildPath(ApplyAction(s, op[1]), <<op[2], op[3], "W">>)
  BY <1>1 DEF Rest, actions, Answer, ShiftInheritedOperation
<1>5. Path(a, op) = p
  BY DEF Path
<1> HIDE DEF p, s, op
<1>6. Rest(a) = <<p[2], p[3], p[4], p[4]>>
  <2>1. ApplyAction(p[4], "W") = p[4]
    BY DEF ApplyAction
  <2>2. \A x : BuildPath(x, <<op[2], op[3], "W">>) =
          <<x, ApplyAction(x, op[2]), ApplyAction(ApplyAction(x, op[2]), op[3]),
            ApplyAction(ApplyAction(ApplyAction(x, op[2]), op[3]), "W")>>
    BY DEF BuildPath
  <2> QED BY <1>3, <1>4, <2>1, <2>2
<1>7. IsPathValid(<<p[2], p[3], p[4], p[4]>>)
  <2>1. /\ p[2].location \in Free /\ p[4].location \in Free
        /\ AllowedMove(p[2].location, p[3].location)
        /\ AllowedMove(p[3].location, p[4].location)
    <3>1. 2 \in 1..3 /\ 3 \in 1..3 /\ 2 + 1 = 3 /\ 3 + 1 = 4 /\ 2 \in 1..4 /\ 4 \in 1..4
      OBVIOUS
    <3> QED BY <1>2, <3>1 DEF IsPathValid
  <2>2. AllowedMove(p[4].location, p[4].location)
    BY <2>1, StayIsAllowed DEF Free
  <2>3. \A x2, x3, x4 :
          /\ x2.location \in Free /\ AllowedMove(x2.location, x3.location)
          /\ AllowedMove(x3.location, x4.location) /\ AllowedMove(x4.location, x4.location)
          => IsPathValid(<<x2, x3, x4, x4>>)
    <3> SUFFICES ASSUME NEW x2, NEW x3, NEW x4,
                        x2.location \in Free, AllowedMove(x2.location, x3.location),
                        AllowedMove(x3.location, x4.location),
                        AllowedMove(x4.location, x4.location)
                 PROVE  IsPathValid(<<x2, x3, x4, x4>>)
      OBVIOUS
    <3> DEFINE r == <<x2, x3, x4, x4>>
    <3>1. r[1] = x2 /\ r[2] = x3 /\ r[3] = x4 /\ r[4] = x4
      OBVIOUS
    <3>2. \A i \in 1..3 : (i = 1 /\ i + 1 = 2) \/ (i = 2 /\ i + 1 = 3) \/ (i = 3 /\ i + 1 = 4)
      OBVIOUS
    <3> HIDE DEF r
    <3>3. IsPathValid(r)
      BY <3>1, <3>2 DEF IsPathValid
    <3> QED BY <3>3 DEF r
  <2> QED BY <2>1, <2>2, <2>3
<1> QED BY <1>3, <1>5, <1>6, <1>7 DEF op

-----------------------------------------------------------------------------
Selection == EpibtTypeOK /\ SelectedAreValid /\ ConflictsAreFallbacks

LEMMA EpibtInitially == EpibtInit => Selection
<1> SUFFICES ASSUME EpibtInit PROVE Selection
  OBVIOUS
<1>1. EpibtTypeOK
  BY DEF EpibtInit, EpibtTypeOK, Reports, NoOperations, NoReasons
<1> QED BY <1>1, NothingSelected DEF EpibtInit, Selection

LEMMA EpibtStutters ==
  ASSUME Selection, UNCHANGED vars
  PROVE  Selection'
<1>1. UNCHANGED <<pc, curr_states, goal_locations, prev_operations,
                  next_prev_operations, debugReason>>
  BY DEF vars, reported
<1>2. Planned' = Planned /\ \A b, o : Path(b, o)' = Path(b, o)
  BY <1>1 DEF Planned, Path
<1>3. \A c : Stuck(c)' <=> Stuck(c)
  BY <1>1, <1>2 DEF Stuck
<1>4. EpibtTypeOK'
  BY <1>1 DEF Selection, EpibtTypeOK
<1>5. SelectedAreValid'
  BY <1>1, <1>2 DEF Selection, SelectedAreValid
<1>6. ConflictsAreFallbacks'
  BY <1>1, <1>2, <1>3 DEF Selection, ConflictsAreFallbacks
<1> QED BY <1>4, <1>5, <1>6 DEF Selection

LEMMA SelectionHolds == EpibtSpec => []Selection
<1>1. EpibtInit => Selection
  BY EpibtInitially
<1>2. Selection /\ [EpibtNext]_vars => Selection'
  <2> SUFFICES ASSUME Selection, [EpibtNext]_vars PROVE Selection'
    OBVIOUS
  <2>1. CASE PlanAgent
    BY <2>1, PlanAgentStep DEF Selection
  <2>2. CASE PlanEnd \/ Deadline
    BY <2>2, ReturnsStep DEF Selection
  <2>3. CASE Execute \/ HeldUp \/ Report \/ Initialize
    BY <2>3, AsksStep DEF Selection
  <2>4. CASE UNCHANGED vars
    BY <2>4, EpibtStutters
  <2> QED BY <2>1, <2>2, <2>3, <2>4 DEF EpibtNext, Plan
<1> QED BY <1>1, <1>2, PTL DEF EpibtSpec

(* On a map of two columns or more, every operation selected can be done   *)
(* from where its agent stands, operations conflict only where an agent    *)
(* waits for want of another, and the session never has to correct an      *)
(* action (epibt.cpp).                                                     *)
THEOREM EpibtIsInductive == Cols >= 2 /\ EpibtSpec => []EpibtInv
<1> SUFFICES ASSUME Cols >= 2 PROVE EpibtSpec => []EpibtInv
  OBVIOUS
<1>1. Selection => EpibtInv
  BY NothingToCorrect DEF Selection, EpibtInv
<1> QED BY <1>1, SelectionHolds, PTL

(* A plan lets two agents collide within its three steps only if one of    *)
(* them waits because it had no other choice or the time was over.         *)
THEOREM EpibtCollisionsAreForced == EpibtSpec => []CollisionsAreForced
<1>1. Selection => CollisionsAreForced
  <2> SUFFICES ASSUME Selection, NEW a \in Agents, NEW b \in Agents, a # b,
                      Conflict(Path(a, Answer(a)), Path(b, Answer(b)))
               PROVE  \E c \in {a, b} : Answer(c) = WWW /\ Stuck(c)
    BY DEF CollisionsAreForced
  <2>1. \A c \in Agents \ Planned : Answer(c) = WWW /\ Stuck(c)
    BY DEF Answer, Stuck
  <2>2. CASE a \in Planned /\ b \in Planned
    BY <2>2 DEF Selection, ConflictsAreFallbacks, Answer
  <2> QED BY <2>1, <2>2
<1> QED BY <1>1, SelectionHolds, PTL

(* After a plan for everybody without a fallback, what the agents inherit  *)
(* stands for the next one.                                                *)
THEOREM EpibtInheritedPlansHold == EpibtSpec => []InheritedPlansHold
<1>1. Selection => InheritedPlansHold
  <2> SUFFICES ASSUME Selection, Planned = Agents,
                      \A a \in Agents : debugReason[a] # "fallback_wait",
                      NEW a \in Agents
               PROVE  /\ IsPathValid(Rest(a))
                      /\ \A b \in Agents \ {a} : ~Conflict(Rest(a), Rest(b))
    BY DEF InheritedPlansHold
  <2>1. PICK p1, p2, p3, p4 :
          /\ Path(a, next_prev_operations[a]) = <<p1, p2, p3, p4>>
          /\ Rest(a) = <<p2, p3, p4, p4>> /\ IsPathValid(Rest(a))
    BY RestOf DEF Selection
  <2>2. ASSUME NEW b \in Agents \ {a} PROVE ~Conflict(Rest(a), Rest(b))
    <3>1. PICK q1, q2, q3, q4 :
            /\ Path(b, next_prev_operations[b]) = <<q1, q2, q3, q4>>
            /\ Rest(b) = <<q2, q3, q4, q4>>
      BY RestOf DEF Selection
    <3>2. ~Conflict(<<p1, p2, p3, p4>>, <<q1, q2, q3, q4>>)
      BY <2>1, <3>1 DEF Selection, ConflictsAreFallbacks
    <3> QED BY <2>1, <3>1, <3>2, TailConflicts
  <2> QED BY <2>1, <2>2
<1> QED BY <1>1, SelectionHolds, PTL
=============================================================================
