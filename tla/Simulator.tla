------------------------------ MODULE Simulator ------------------------------
(***************************************************************************)
(* The simulator and its action model (src/src/Simulator.cpp,              *)
(* src/src/ActionModel.cpp, src/inc/ActionModel.h): every timestep the     *)
(* planner's actions, of whatever length and kind, are carried out if they *)
(* are valid all together, and otherwise everybody waits.                  *)
(*                                                                         *)
(* A cell is an index into the rows of the grid, laid end to end.  The     *)
(* timestep (one more at each move), the recorded paths and the list of    *)
(* errors are left out: nothing here reads them.                           *)
(***************************************************************************)
EXTENDS Integers, Sequences, FiniteSets

CONSTANTS NumAgents, Rows, Cols, Obstacles

ASSUME SimulatorAssumption ==
  /\ NumAgents \in Nat \ {0}
  /\ Rows \in Nat \ {0} /\ Cols \in Nat \ {0}
  /\ Obstacles \subseteq 0..Rows*Cols-1

Agents == 0..NumAgents-1
Cells == 0..Rows*Cols-1
Action == {"FW", "CR", "CCR", "W", "NA"}

(* Orientations are 0:east, 1:south, 2:west, 3:north.                      *)
Orientation == 0..3
moves == [o \in Orientation |->
            CASE o = 0 -> 1 [] o = 1 -> Cols [] o = 2 -> -1 [] o = 3 -> -Cols]

State == [location : Int, orientation : Orientation]

(* What a planner may hand over: nothing (it timed out or answered with a  *)
(* vector of the wrong size) or one action for each agent.                 *)
Plans == {<<>>} \cup [Agents -> Action]

VARIABLE curr_states

(* The constructor refuses an obstacle.  That agents start on distinct     *)
(* cells is a promise of the problem files: the code does not look.        *)
Init == curr_states \in
  {s \in [Agents -> [location : Cells \ Obstacles, orientation : {0}]] :
     \A a, b \in Agents : s[a].location = s[b].location => a = b}

-----------------------------------------------------------------------------
result_state(prev, action) ==
  CASE action = "FW"  -> [prev EXCEPT !.location = @ + moves[prev.orientation]]
    [] action = "CR"  -> [prev EXCEPT !.orientation = (@ + 1) % 4]
    [] action = "CCR" -> [prev EXCEPT !.orientation = (@ - 1) % 4]
    [] OTHER          -> prev

result_states(prev, actions) ==
  [a \in Agents |-> result_state(prev[a], actions[a])]

RowOf(loc) == loc \div Cols
ColOf(loc) == loc % Cols
Abs(n) == IF n < 0 THEN -n ELSE n

(* Slip: only the range of the index is looked at. *)
AllowedMoveInRange(from, to) == to \in Cells \ Obstacles

(* An agent ends on a free cell of the grid, at most one cell away.        *)
AllowedMove(from, to) ==
  /\ to \in Cells
  /\ Abs(RowOf(to) - RowOf(from)) + Abs(ColOf(to) - ColOf(from)) <= 1
  /\ to \notin Obstacles

(* Slip: an agent may not enter a cell that another one stands on, instead *)
(* of one that another one enters. *)
VertexConflictEarly(prev, next, a, b) == next[a].location = prev[b].location

VertexConflict(prev, next, a, b) == next[a].location = next[b].location

(* Slip: edges are compared in the direction of the move. *)
EdgeConflictForward(prev, next, a, b) ==
  /\ prev[a].location = prev[b].location
  /\ next[a].location = next[b].location

EdgeConflict(prev, next, a, b) ==
  /\ prev[a].location = next[b].location
  /\ next[a].location = prev[b].location

(* is_valid, once the plan is known to have the right size.  The code      *)
(* returns at the first agent at fault; the answer is the same.            *)
IsValid(prev, actions) ==
  LET next == result_states(prev, actions) IN
  /\ \A a \in Agents : AllowedMove(prev[a].location, next[a].location)
  /\ \A a, b \in Agents : b < a => /\ ~VertexConflict(prev, next, a, b)
                                   /\ ~EdgeConflict(prev, next, a, b)

(* An invalid plan is replaced by W for every agent.                       *)
Move(actions) ==
  IF actions # <<>> /\ IsValid(curr_states, actions)
    THEN curr_states' = result_states(curr_states, actions)
    ELSE UNCHANGED curr_states

Next == \E actions \in Plans : Move(actions)

Spec == Init /\ [][Next]_curr_states

-----------------------------------------------------------------------------
(* Each agent has a state.                                                 *)
TypeOK == curr_states \in [Agents -> State]

(* No collision: agents are on distinct free cells of the grid, whatever   *)
(* the planner asked for.                                                  *)
AgentsApart ==
  /\ \A a \in Agents : curr_states[a].location \in Cells \ Obstacles
  /\ \A a, b \in Agents :
       curr_states[a].location = curr_states[b].location => a = b

SimulatorInv == TypeOK /\ AgentsApart

(* No two agents pass through each other.                                  *)
Swapped(a, b) ==
  /\ a # b
  /\ curr_states'[a].location = curr_states[b].location
  /\ curr_states'[b].location = curr_states[a].location
NoSwap == [][\A a, b \in Agents : ~Swapped(a, b)]_curr_states

(* An agent that changes cell keeps its orientation and goes one cell the  *)
(* way it faces, east and west along its row, south and north along its    *)
(* column: an index never carries it over the end of a row.                *)
GoesAhead(from, to) ==
  /\ to.orientation = from.orientation
  /\ CASE from.orientation = 0 -> /\ RowOf(to.location) = RowOf(from.location)
                                  /\ ColOf(to.location) = ColOf(from.location) + 1
       [] from.orientation = 1 -> /\ RowOf(to.location) = RowOf(from.location) + 1
                                  /\ ColOf(to.location) = ColOf(from.location)
       [] from.orientation = 2 -> /\ RowOf(to.location) = RowOf(from.location)
                                  /\ ColOf(to.location) = ColOf(from.location) - 1
       [] from.orientation = 3 -> /\ RowOf(to.location) = RowOf(from.location) - 1
                                  /\ ColOf(to.location) = ColOf(from.location)
MovesAhead ==
  [][\A a \in Agents :
       curr_states'[a].location # curr_states[a].location
         => GoesAhead(curr_states[a], curr_states'[a])]_curr_states
=============================================================================
