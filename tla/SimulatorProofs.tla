--------------------------- MODULE SimulatorProofs ---------------------------
(***************************************************************************)
(* Theorems about the simulator, for every grid, team and set of           *)
(* obstacles.  is_valid decides each of them in one step from the states   *)
(* at hand, so the invariant is inductive as it stands; what takes work is *)
(* the arithmetic of cell indices behind MovesAhead.                       *)
(***************************************************************************)
EXTENDS Simulator, TLAPS

(* A move either leaves everybody in place or is the result of a plan that *)
(* is_valid accepts.                                                       *)
LEMMA MoveCases ==
  ASSUME NEW actions \in Plans, Move(actions)
  PROVE  \/ curr_states' = curr_states
         \/ /\ actions \in [Agents -> Action]
            /\ IsValid(curr_states, actions)
            /\ curr_states' = result_states(curr_states, actions)
BY Zenon DEF Move, Plans

(* The action model keeps states well formed, and turns or moves.          *)
LEMMA ResultState ==
  ASSUME NEW prev \in State, NEW action \in Action
  PROVE  /\ result_state(prev, action) \in State
         /\ result_state(prev, action).location # prev.location
              => /\ result_state(prev, action).orientation = prev.orientation
                 /\ result_state(prev, action).location
                      = prev.location + moves[prev.orientation]
<1>0. Cols \in Nat \ {0}
  BY SimulatorAssumption
<1>1. moves \in [Orientation -> Int]
  BY <1>0 DEF moves, Orientation
<1>2. prev.orientation \in 0..3 /\ prev.location \in Int
  BY DEF State, Orientation
<1>3. moves[prev.orientation] \in Int
  BY <1>1, <1>2 DEF Orientation
<1>4. CASE action = "FW"
  <2>1. result_state(prev, action)
          = [prev EXCEPT !.location = prev.location + moves[prev.orientation]]
    BY <1>4 DEF result_state
  <2> QED
    BY <2>1, <1>2, <1>3 DEF State
<1>5. CASE action = "CR"
  <2>1. result_state(prev, action)
          = [prev EXCEPT !.orientation = (prev.orientation + 1) % 4]
    BY <1>5 DEF result_state
  <2>2. (prev.orientation + 1) % 4 \in 0..3
    BY <1>2
  <2> QED
    BY <2>1, <2>2, <1>2 DEF State, Orientation
<1>6. CASE action = "CCR"
  <2>1. result_state(prev, action)
          = [prev EXCEPT !.orientation = (prev.orientation - 1) % 4]
    BY <1>6 DEF result_state
  <2>2. (prev.orientation - 1) % 4 \in 0..3
    BY <1>2
  <2> QED
    BY <2>1, <2>2, <1>2 DEF State, Orientation
<1>7. CASE action \in {"W", "NA"}
  <2>1. result_state(prev, action) = prev
    BY <1>7 DEF result_state
  <2> QED
    BY <2>1
<1> QED
  BY <1>4, <1>5, <1>6, <1>7 DEF Action

LEMMA NextTypeOK ==
  ASSUME TypeOK, NEW actions \in [Agents -> Action],
         curr_states' = result_states(curr_states, actions)
  PROVE  TypeOK'
<1>1. \A a \in Agents : result_state(curr_states[a], actions[a]) \in State
  BY ResultState DEF TypeOK
<1> QED
  BY <1>1 DEF TypeOK, result_states

(* What is_valid grants of the states it accepts: distinct free cells, and *)
(* no exchange of cells.                                                   *)
LEMMA ValidIsApart ==
  ASSUME NEW actions, IsValid(curr_states, actions),
         curr_states' = result_states(curr_states, actions)
  PROVE  /\ AgentsApart'
         /\ \A a, b \in Agents : ~Swapped(a, b)
<1>1. \A a \in Agents : curr_states'[a].location \in Cells \ Obstacles
  BY DEF IsValid, AllowedMove
<1>2. \A a, b \in Agents : b < a =>
        /\ curr_states'[a].location # curr_states'[b].location
        /\ ~( /\ curr_states[a].location = curr_states'[b].location
              /\ curr_states'[a].location = curr_states[b].location)
  BY Zenon DEF IsValid, VertexConflict, EdgeConflict
<1>3. \A a, b \in Agents : a # b => a < b \/ b < a
  BY SimulatorAssumption DEF Agents
<1>4. \A a, b \in Agents :
        curr_states'[a].location = curr_states'[b].location => a = b
  BY <1>2, <1>3, Zenon
<1>5. \A a, b \in Agents : ~Swapped(a, b)
  BY <1>2, <1>3, Zenon DEF Swapped
<1> QED
  BY <1>1, <1>4, <1>5 DEF AgentsApart

LEMMA SimulatorStart == Init => SimulatorInv
<1> SUFFICES ASSUME Init PROVE SimulatorInv
  OBVIOUS
<1>1. Cells \subseteq Int
  BY SimulatorAssumption DEF Cells
<1>2. curr_states \in [Agents -> State]
  <2>1. [location : Cells \ Obstacles, orientation : {0}] \subseteq State
    <3> SUFFICES ASSUME NEW s \in [location : Cells \ Obstacles,
                                   orientation : {0}]
                 PROVE  s \in State
      OBVIOUS
    <3>0. s.location \in Cells \ Obstacles /\ s.orientation \in {0}
      OBVIOUS
    <3>1. s.location \in Int
      BY <1>1, <3>0, Zenon
    <3>3. s.orientation \in Orientation
      BY <3>0 DEF Orientation
    <3>2. s = [location |-> s.location, orientation |-> s.orientation]
      OBVIOUS
    <3> QED
      BY <3>1, <3>2, <3>3 DEF State
  <2>2. curr_states \in [Agents -> [location : Cells \ Obstacles,
                                    orientation : {0}]]
    BY Zenon DEF Init
  <2> QED
    BY <2>1, <2>2
<1>3. AgentsApart
  BY DEF Init, AgentsApart
<1> QED
  BY <1>2, <1>3 DEF SimulatorInv, TypeOK

(* Agents stay on distinct free cells of the grid: no plan, of whatever    *)
(* planner, makes two of them collide (Simulator::move).                   *)
THEOREM SimulatorSafe == Spec => []SimulatorInv
<1>1. Init => SimulatorInv
  BY SimulatorStart
<1>2. SimulatorInv /\ [Next]_curr_states => SimulatorInv'
  <2> SUFFICES ASSUME SimulatorInv, [Next]_curr_states PROVE SimulatorInv'
    OBVIOUS
  <2>1. CASE UNCHANGED curr_states
    BY <2>1 DEF SimulatorInv, TypeOK, AgentsApart
  <2>2. ASSUME NEW actions \in Plans, Move(actions) PROVE SimulatorInv'
    <3>1. CASE curr_states' = curr_states
      BY <3>1, <2>1
    <3>2. CASE /\ actions \in [Agents -> Action]
               /\ IsValid(curr_states, actions)
               /\ curr_states' = result_states(curr_states, actions)
      BY <3>2, NextTypeOK, ValidIsApart DEF SimulatorInv
    <3> QED
      BY <2>2, <3>1, <3>2, MoveCases
  <2> QED
    BY <2>1, <2>2 DEF Next
<1> QED
  BY <1>1, <1>2, PTL DEF Spec

(* No two agents ever exchange their cells (the edge test of is_valid).    *)
THEOREM SimulatorNoSwap == Spec => NoSwap
<1>1. SimulatorInv /\ [Next]_curr_states
        => [\A a, b \in Agents : ~Swapped(a, b)]_curr_states
  <2> SUFFICES ASSUME Next, ~UNCHANGED curr_states
               PROVE  \A a, b \in Agents : ~Swapped(a, b)
    OBVIOUS
  <2>1. PICK actions \in Plans : Move(actions)
    BY DEF Next
  <2> QED
    BY <2>1, MoveCases, ValidIsApart, Zenon
<1> QED
  BY <1>1, SimulatorSafe, PTL DEF Spec, NoSwap

-----------------------------------------------------------------------------
(* Where the neighbours of a cell are.                                     *)

LEMMA DivisionUnique ==
  ASSUME NEW c \in Nat \ {0}, NEW q \in Int, NEW r \in 0..c-1
  PROVE  ((c*q) + r) \div c = q /\ ((c*q) + r) % c = r
OBVIOUS

LEMMA Division ==
  ASSUME NEW c \in Nat \ {0}, NEW x \in Int
  PROVE  /\ x = (c * (x \div c)) + (x % c)
         /\ x \div c \in Int
         /\ x % c \in 0..c-1
OBVIOUS

LEMMA StayIsAllowed ==
  ASSUME NEW c \in Cells \ Obstacles
  PROVE  AllowedMove(c, c)
<1>1. c \in Int /\ Cols \in Nat \ {0}
  BY SimulatorAssumption DEF Cells
<1>2. RowOf(c) \in Int /\ ColOf(c) \in Int
  BY <1>1, Division DEF RowOf, ColOf
<1> QED BY <1>2 DEF AllowedMove, Abs

(* The cell one column or one row away, as long as there is such a column. *)
LEMMA Neighbours ==
  ASSUME NEW x \in Int, NEW to \in Int, Cols >= 2,
         Abs(RowOf(to) - RowOf(x)) + Abs(ColOf(to) - ColOf(x)) <= 1
  PROVE  /\ to = x + 1 => RowOf(to) = RowOf(x) /\ ColOf(to) = ColOf(x) + 1
         /\ to = x - 1 => RowOf(to) = RowOf(x) /\ ColOf(to) = ColOf(x) - 1
         /\ to = x + Cols => RowOf(to) = RowOf(x) + 1 /\ ColOf(to) = ColOf(x)
         /\ to = x - Cols => RowOf(to) = RowOf(x) - 1 /\ ColOf(to) = ColOf(x)
<1> DEFINE q == x \div Cols
           r == x % Cols
<1>0. Cols \in Nat \ {0}
  BY SimulatorAssumption
<1>1. q \in Int /\ r \in 0..Cols-1 /\ x = (Cols * q) + r
  BY <1>0, Division
<1>2. RowOf(x) = q /\ ColOf(x) = r
  BY DEF RowOf, ColOf
<1>3. \A p \in Int, c \in 0..Cols-1 :
        to = (Cols * p) + c => RowOf(to) = p /\ ColOf(to) = c
  BY <1>0, DivisionUnique DEF RowOf, ColOf
<1>4. Cols * (q + 1) = (Cols * q) + Cols /\ Cols * (q - 1) = (Cols * q) - Cols
  BY <1>0, <1>1
<1>5. to = x + Cols => RowOf(to) = q + 1 /\ ColOf(to) = r
  <2>1. to = x + Cols => to = (Cols * (q + 1)) + r
    BY <1>0, <1>1, <1>4
  <2> QED
    BY <2>1, <1>1, <1>3
<1>6. to = x - Cols => RowOf(to) = q - 1 /\ ColOf(to) = r
  <2>1. to = x - Cols => to = (Cols * (q - 1)) + r
    BY <1>0, <1>1, <1>4
  <2> QED
    BY <2>1, <1>1, <1>3
<1>7. to = x + 1 => RowOf(to) = q /\ ColOf(to) = r + 1
  <2> SUFFICES ASSUME to = x + 1 PROVE RowOf(to) = q /\ ColOf(to) = r + 1
    OBVIOUS
  <2>1. CASE r + 1 \in 0..Cols-1
    <3>1. to = (Cols * q) + (r + 1)
      BY <1>0, <1>1
    <3> QED
      BY <3>1, <2>1, <1>1, <1>3
  <2>2. CASE r = Cols - 1
    <3>1. to = (Cols * (q + 1)) + 0
      BY <1>0, <1>1, <1>4, <2>2
    <3>2. RowOf(to) = q + 1 /\ ColOf(to) = 0
      BY <3>1, <1>0, <1>1, <1>3
    <3> QED
      BY <3>2, <2>2, <1>0, <1>1, <1>2 DEF Abs
  <2> QED
    BY <2>1, <2>2, <1>0, <1>1
<1>8. to = x - 1 => RowOf(to) = q /\ ColOf(to) = r - 1
  <2> SUFFICES ASSUME to = x - 1 PROVE RowOf(to) = q /\ ColOf(to) = r - 1
    OBVIOUS
  <2>1. CASE r - 1 \in 0..Cols-1
    <3>1. to = (Cols * q) + (r - 1)
      BY <1>0, <1>1
    <3> QED
      BY <3>1, <2>1, <1>1, <1>3
  <2>2. CASE r = 0
    <3>1. to = (Cols * (q - 1)) + (Cols - 1)
      BY <1>0, <1>1, <1>4, <2>2
    <3>2. RowOf(to) = q - 1 /\ ColOf(to) = Cols - 1
      BY <3>1, <1>0, <1>1, <1>3
    <3> QED
      BY <3>2, <2>2, <1>0, <1>1, <1>2 DEF Abs
  <2> QED
    BY <2>1, <2>2, <1>0, <1>1
<1> QED
  BY <1>2, <1>5, <1>6, <1>7, <1>8

(* An allowed move by the difference of indices that the action model adds *)
(* is a move ahead.                                                        *)
LEMMA AllowedIsAhead ==
  ASSUME Cols >= 2, NEW s \in State, NEW t \in State,
         t.orientation = s.orientation,
         t.location = s.location + moves[s.orientation],
         AllowedMove(s.location, t.location)
  PROVE  GoesAhead(s, t)
<1>1. Abs(RowOf(t.location) - RowOf(s.location))
        + Abs(ColOf(t.location) - ColOf(s.location)) <= 1
  BY DEF AllowedMove
<1>2. s.location \in Int /\ t.location \in Int /\ s.orientation \in 0..3
  BY DEF State, Orientation
<1>3. moves[0] = 1 /\ moves[1] = Cols /\ moves[2] = -1 /\ moves[3] = -Cols
  BY DEF moves, Orientation
<1>4. /\ t.location = s.location + 1
           => /\ RowOf(t.location) = RowOf(s.location)
              /\ ColOf(t.location) = ColOf(s.location) + 1
      /\ t.location = s.location - 1
           => /\ RowOf(t.location) = RowOf(s.location)
              /\ ColOf(t.location) = ColOf(s.location) - 1
      /\ t.location = s.location + Cols
           => /\ RowOf(t.location) = RowOf(s.location) + 1
              /\ ColOf(t.location) = ColOf(s.location)
      /\ t.location = s.location - Cols
           => /\ RowOf(t.location) = RowOf(s.location) - 1
              /\ ColOf(t.location) = ColOf(s.location)
  BY <1>1, <1>2, Neighbours
<1>5. /\ s.orientation = 0 => t.location = s.location + 1
      /\ s.orientation = 1 => t.location = s.location + Cols
      /\ s.orientation = 2 => t.location = s.location - 1
      /\ s.orientation = 3 => t.location = s.location - Cols
  BY <1>2, <1>3, SimulatorAssumption
<1>6. \/ s.orientation = 0 \/ s.orientation = 1
      \/ s.orientation = 2 \/ s.orientation = 3
  BY <1>2
<1> QED
  BY <1>4, <1>5, <1>6 DEF GoesAhead

(* On a map of two columns or more an agent only ever moves to the cell it *)
(* faces (the adjacency test of is_valid).  The hypothesis is needed: on a *)
(* map of one column the index one to the east is the cell one row down,   *)
(* and the code lets an agent that faces east go there.                    *)
THEOREM SimulatorMovesAhead == Cols >= 2 /\ Spec => MovesAhead
<1> DEFINE Ahead == \A a \in Agents :
             curr_states'[a].location # curr_states[a].location
               => GoesAhead(curr_states[a], curr_states'[a])
<1> SUFFICES ASSUME Cols >= 2 PROVE Spec => MovesAhead
  OBVIOUS
<1>1. SimulatorInv /\ [Next]_curr_states => [Ahead]_curr_states
  <2> SUFFICES ASSUME SimulatorInv, Next, ~UNCHANGED curr_states, NEW a \in Agents,
                      curr_states'[a].location # curr_states[a].location
               PROVE  GoesAhead(curr_states[a], curr_states'[a])
    OBVIOUS
  <2> DEFINE s == curr_states[a]
             t == curr_states'[a]
  <2>1. PICK actions \in [Agents -> Action] :
          /\ IsValid(curr_states, actions)
          /\ curr_states' = result_states(curr_states, actions)
    BY MoveCases, Zenon DEF Next
  <2>2. s \in State /\ actions[a] \in Action
    BY DEF SimulatorInv, TypeOK
  <2>3. t = result_state(s, actions[a])
    BY <2>1 DEF result_states
  <2>4. /\ t \in State
        /\ t.orientation = s.orientation
        /\ t.location = s.location + moves[s.orientation]
    BY <2>2, <2>3, ResultState
  <2>5. AllowedMove(s.location, t.location)
    BY <2>1 DEF IsValid, result_states
  <2> HIDE DEF s, t
  <2>6. GoesAhead(s, t)
    BY <2>2, <2>4, <2>5, AllowedIsAhead
  <2> QED
    BY <2>6 DEF s, t
<1> QED
  BY <1>1, SimulatorSafe, PTL DEF Spec, MovesAhead
=============================================================================
