--------------------------- MODULE CausalPibtProofs ---------------------------
(***************************************************************************)
(* Proofs about the default planner in the simulation, for every grid,     *)
(* team and set of obstacles, whatever the priorities and the distances.   *)
(***************************************************************************)
EXTENDS CausalPibt, SimulatorProofs, SequenceTheorems

LEMMA Numbers ==
  /\ Cols \in Nat /\ Rows \in Nat /\ Cols >= 2
  /\ Cells \subseteq Nat /\ None \notin Cells /\ None \in Int
BY SimulatorAssumption, CausalPibtAssumption DEF Cells, None

-----------------------------------------------------------------------------
(* The steps of an agent.                                                  *)

LEMMA MoveIsUnit ==
  ASSUME NEW from \in Cells, NEW to \in Cells, AllowedMove(from, to)
  PROVE  to - from \in {0, 1, -1, Cols, -Cols}
<1> DEFINE q == from \div Cols
           r == from % Cols
           q2 == to \div Cols
           r2 == to % Cols
<1>1. /\ from = (Cols * q) + r /\ q \in Int /\ r \in 0..Cols-1
      /\ to = (Cols * q2) + r2 /\ q2 \in Int /\ r2 \in 0..Cols-1
      /\ from \in Int /\ to \in Int
  BY Numbers, Division
<1>2. Abs(q2 - q) + Abs(r2 - r) <= 1
  BY DEF AllowedMove, RowOf, ColOf
<1> HIDE DEF q, r, q2, r2
<1>3. \/ q2 = q /\ r2 \in {r, r+1, r-1}
      \/ q2 \in {q+1, q-1} /\ r2 = r
  BY <1>1, <1>2 DEF Abs
<1>4. Cols * (q + 1) = (Cols * q) + Cols /\ Cols * (q - 1) = (Cols * q) - Cols
  BY <1>1, Numbers
<1>5. Cols * q \in Int /\ Cols * q2 \in Int
  BY <1>1, Numbers
<1> QED BY <1>1, <1>3, <1>4, <1>5, Numbers

LEMMA StepsOfAgents ==
  ASSUME SimulatorInv, NEW a \in Agents
  PROVE  /\ Loc(a) \in Cells \ Obstacles
         /\ Steps(a) \subseteq Cells \ Obstacles
         /\ \A c \in Steps(a) : /\ AllowedMove(Loc(a), c)
                                /\ c # Loc(a) => c - Loc(a) \in {1, -1, Cols, -Cols}
<1>1. Loc(a) \in Cells \ Obstacles
  BY DEF SimulatorInv, AgentsApart, Loc
<1>2. \A c \in Steps(a) : c \in Cells \ Obstacles /\ AllowedMove(Loc(a), c)
  BY <1>1, StayIsAllowed DEF Steps, Neighbors
<1>3. \A m, n \in Nat : m - n = 0 => m = n
  OBVIOUS
<1>4. \A c \in Steps(a) : c # Loc(a) => c - Loc(a) # 0
  BY <1>1, <1>2, <1>3, Numbers
<1> QED BY <1>1, <1>2, <1>4, MoveIsUnit

(* What the code computes from the two cells: the decision is not carried  *)
(* out yet.                                                                *)
LEMMA CarriedDecisions ==
  ASSUME SimulatorInv, DecisionsAreSteps, NEW a \in Agents
  PROVE  Carried(a) <=> decided[a] # None /\ decided[a] # Loc(a)
<1>1. Loc(a) - Loc(a) = 0 /\ 0 \notin {1, -1, Cols, -Cols}
  <2>1. Loc(a) \in Nat
    BY StepsOfAgents, Numbers
  <2> QED BY <2>1, Numbers
<1> QED BY <1>1, StepsOfAgents DEF Carried, DecisionsAreSteps

LEMMA ApartAgents ==
  ASSUME SimulatorInv, NEW a \in Agents, NEW b \in Agents, Loc(a) = Loc(b)
  PROVE  a = b
BY DEF SimulatorInv, AgentsApart, Loc

(* As long as nobody moves, the steps are the same.                        *)
LEMMA Standing ==
  ASSUME UNCHANGED curr_states
  PROVE  /\ \A a : Loc(a)' = Loc(a) /\ Steps(a)' = Steps(a)
         /\ SimulatorInv => SimulatorInv'
BY DEF Loc, Steps, SimulatorInv, TypeOK, AgentsApart

-----------------------------------------------------------------------------
(* plan(), up to the calls of causalPIBT.                                  *)

LEMMA PibtInitially == PibtInit => PibtInv
<1> SUFFICES ASSUME PibtInit PROVE PibtInv
  OBVIOUS
<1>1. SimulatorInv
  BY SimulatorStart DEF PibtInit
<1>2. PibtTypeOK
  BY EmptySeq DEF PibtInit, PibtTypeOK, NoNextStates
<1> QED
  BY <1>1, <1>2 DEF PibtInit, PibtInv, DecisionsAreSteps, NothingLeftOver, Deciding,
                    Pushing, ActionsFollowDecisions, PlanIsValid, NoNextStates

LEMMA PlanBeginStep ==
  ASSUME PibtInv, PlanBegin
  PROVE  PibtInv'
<1> USE DEF PibtInv
<1>1. /\ pc' = "plan" /\ UNCHANGED curr_states /\ UNCHANGED <<calls, actions>>
      /\ calls = <<>> /\ actions = <<>> /\ decision = {}
  BY DEF PlanBegin, NothingLeftOver
<1>2. \A a \in Agents : /\ Loc(a)' = Loc(a) /\ Steps(a)' = Steps(a)
                        /\ Loc(a) \in Cells /\ Loc(a) \in Steps(a) /\ Loc(a) # None
  BY <1>1, Standing, StepsOfAgents, Numbers DEF Steps
<1>3. \A a \in Agents :
        /\ Carried(a) <=> decided[a] # None /\ decided[a] # Loc(a)
        /\ decided'[a] = IF Carried(a) THEN decided[a] ELSE Loc(a)
        /\ next_states'[a] = IF Carried(a) THEN decided[a] ELSE None
  BY CarriedDecisions DEF PlanBegin
<1>4. \A a \in Agents : next_states'[a] # None => next_states'[a] = decided'[a]
                                                  /\ decided'[a] = decided[a]
  BY <1>3
<1>5. /\ decided' \in [Agents -> Cells \cup {None}]
      /\ next_states' \in [Agents -> Cells \cup {None}]
  BY <1>2 DEF PlanBegin, PibtTypeOK
<1>6. decision' = {next_states'[a] : a \in Agents} \ {None}
  <2>1. decision' = {decided[a] : a \in {a \in Agents : Carried(a)}}
    BY <1>1 DEF PlanBegin
  <2> QED BY <1>3, <2>1
<1>7. PibtTypeOK'
  <2>1. decision' \subseteq Cells
    BY <1>5, <1>6
  <2> QED BY <1>1, <1>5, <2>1 DEF PibtTypeOK
<1>8. \A a, b \in Agents :
        /\ decided'[a] = decided'[b] => a = b
        /\ decided'[a] = Loc(b) /\ decided'[b] = Loc(a) => a = b
  <2> SUFFICES ASSUME NEW a \in Agents, NEW b \in Agents
               PROVE  /\ decided'[a] = decided'[b] => a = b
                      /\ decided'[a] = Loc(b) /\ decided'[b] = Loc(a) => a = b
    OBVIOUS
  <2>1. CASE decided[a] = None
    BY <1>3, <2>1, ApartAgents DEF DecisionsAreSteps
  <2>2. CASE decided[a] # None
    <3>1. decided'[a] = decided[a] /\ decided'[b] = decided[b]
      BY <1>3, <2>2 DEF DecisionsAreSteps
    <3> QED BY <2>2, <3>1 DEF DecisionsAreSteps
  <2> QED BY <2>1, <2>2
<1>9. DecisionsAreSteps'
  <2>1. \A a \in Agents : decided'[a] \in Steps(a)' /\ decided'[a] # None
    BY <1>2, <1>3 DEF DecisionsAreSteps
  <2> QED BY <1>2, <1>8, <2>1 DEF DecisionsAreSteps
<1>10. Deciding'
  <2>1. \A a \in Agents : decided'[a] # Loc(a)' => next_states'[a] = decided'[a]
    BY <1>2, <1>3
  <2>2. \A a \in Agents : next_states'[a] # None =>
          /\ next_states'[a] \in Steps(a)'
          /\ \A b \in Agents \ {a} :
               /\ next_states'[a] # next_states'[b]
               /\ ~(next_states'[a] = Loc(b)' /\ next_states'[b] = Loc(a)')
    BY <1>2, <1>4, <1>8, <1>9 DEF DecisionsAreSteps
  <2>3. \A a : ~Innermost(a)'
    BY <1>1 DEF Innermost
  <2> QED BY <1>6, <2>1, <2>2, <2>3 DEF Deciding
<1>11. Pushing'
  <2>1. \A a, b \in Agents : next_states'[a] = None => next_states'[b] # Loc(a)'
    BY <1>2, <1>3, <1>4, <1>8
  <2> QED BY <1>1, <2>1 DEF Pushing
<1>12. NothingLeftOver' /\ ActionsFollowDecisions' /\ PlanIsValid'
  BY <1>1 DEF NothingLeftOver, ActionsFollowDecisions, PlanIsValid
<1> QED BY <1>1, <1>7, <1>9, <1>10, <1>11, <1>12, Standing

-----------------------------------------------------------------------------
(* causalPIBT.                                                             *)

LEMMA UndecidedAgents ==
  ASSUME PibtInv, pc = "plan", NEW a \in Agents, next_states[a] = None
  PROVE  decided[a] = Loc(a)
BY DEF PibtInv, DecisionsAreSteps, Deciding

LEMMA CallTopStep ==
  ASSUME PibtInv, CallTop
  PROVE  PibtInv'
<1> USE DEF PibtInv
<1>1. PICK a \in Agents : /\ next_states[a] = None
                          /\ calls' = <<[agent |-> a, higher |-> None]>>
  BY DEF CallTop
<1>2. /\ pc = "plan" /\ calls = <<>>
      /\ UNCHANGED <<pc, curr_states, decided, next_states, decision, actions>>
  BY DEF CallTop
<1>3. /\ Len(calls') = 1 /\ DOMAIN calls' = {1}
      /\ calls'[1].agent = a /\ calls'[1].higher = None
      /\ calls' # <<>> /\ Last(calls') = calls'[1]
  BY <1>1 DEF Last
<1>4. \A b : Loc(b)' = Loc(b) /\ Steps(b)' = Steps(b)
  BY <1>2, Standing
<1>5. PibtTypeOK'
  <2>1. calls' \in Seq([agent : Agents, higher : Agents \cup {None}])
    BY <1>1
  <2> QED BY <1>2, <1>3, <2>1 DEF PibtTypeOK
<1>6. Deciding'
  <2>1. \A b : ~Innermost(b) /\ (Innermost(b)' => b = a)
    BY <1>2, <1>3 DEF Innermost
  <2> QED BY <1>1, <1>2, <1>4, <2>1 DEF Deciding
<1>7. Pushing'
  <2>1. \A b, d \in Agents : next_states[b] = None => next_states[d] # Loc(b)
    BY <1>2 DEF Pushing, OnStack
  <2> QED BY <1>1, <1>2, <1>3, <1>4, <2>1, UndecidedAgents DEF Pushing
<1>8. DecisionsAreSteps'
  BY <1>2, <1>4 DEF DecisionsAreSteps
<1>9. NothingLeftOver' /\ ActionsFollowDecisions' /\ PlanIsValid'
  BY <1>2 DEF NothingLeftOver, ActionsFollowDecisions, PlanIsValid
<1> QED BY <1>2, <1>5, <1>6, <1>7, <1>8, <1>9, Standing

(* The stack of calls.                                                     *)
LEMMA StackOfCalls ==
  ASSUME PibtTypeOK
  PROVE  /\ calls \in Seq([agent : Agents, higher : Agents \cup {None}])
         /\ Len(calls) \in Nat /\ DOMAIN calls = 1..Len(calls)
         /\ calls # <<>> => Len(calls) >= 1
         /\ \A i \in 1..Len(calls) : /\ calls[i].agent \in Agents
                                     /\ calls[i].higher \in Agents \cup {None}
<1> DEFINE R == [agent : Agents, higher : Agents \cup {None}]
<1>1. calls \in Seq(R)
  BY DEF PibtTypeOK
<1>2. \A r \in R : r.agent \in Agents /\ r.higher \in Agents \cup {None}
  OBVIOUS
<1> HIDE DEF R
<1>3. /\ Len(calls) \in Nat /\ DOMAIN calls = 1..Len(calls)
      /\ calls # <<>> => Len(calls) >= 1
      /\ \A i \in 1..Len(calls) : calls[i] \in R
  BY <1>1
<1> QED BY <1>1, <1>2, <1>3 DEF R

(* The innermost call.                                                     *)
LEMMA InnermostCall ==
  ASSUME PibtInv, pc = "plan", calls # <<>>
  PROVE  LET n == Len(calls)
             a == calls[n].agent
             h == calls[n].higher
         IN /\ n \in Nat /\ n >= 1 /\ Last(calls) = calls[n]
            /\ \A i \in 1..n : calls[i].agent \in Agents
            /\ \A i \in 1..n : calls[i].agent = a => i = n
            /\ \A b : Innermost(b) <=> b = a
            /\ decided[a] = Loc(a)
            /\ \A b \in Agents : next_states[b] = Loc(a) /\ b # a => b = h
            /\ n = 1 => h = None
            /\ n > 1 => h = calls[n-1].agent /\ next_states[h] = Loc(a) /\ h # a
<1> USE DEF PibtInv
<1>1. /\ Len(calls) \in Nat /\ Len(calls) >= 1 /\ DOMAIN calls = 1..Len(calls)
  BY StackOfCalls
<1>2. \A i \in 1..Len(calls) : calls[i].agent \in Agents
  BY StackOfCalls
<1>3. \A i \in 1..Len(calls) : calls[i].agent = calls[Len(calls)].agent => i = Len(calls)
  <2>1. \A i, j \in DOMAIN calls : calls[i].agent = calls[j].agent => i = j
    BY DEF PibtTypeOK
  <2>2. Len(calls) \in 1..Len(calls)
    BY <1>1
  <2> QED BY <1>1, <2>1, <2>2
<1>4. \A b : Innermost(b) <=> b = calls[Len(calls)].agent
  BY DEF Innermost, Last
<1>5. /\ \A m \in Nat : m > 1 => m - 1 \in 1..m /\ m - 1 # m
      /\ Len(calls) \in 1..Len(calls)
  BY <1>1
<1> QED BY <1>1, <1>2, <1>3, <1>4, <1>5 DEF Pushing, Last

(* Whoever is on the stack below the innermost call has claimed a cell.    *)
LEMMA CallersHaveClaimed ==
  ASSUME PibtInv, pc = "plan", NEW i \in DOMAIN calls, i # Len(calls)
  PROVE  next_states[calls[i].agent] # None
<1> USE DEF PibtInv
<1>1. i + 1 \in DOMAIN calls /\ (i + 1) - 1 = i /\ i + 1 > 1
  BY StackOfCalls
<1>2. next_states[calls[i].agent] = Loc(calls[i+1].agent)
  BY <1>1 DEF Pushing
<1>3. calls[i+1].agent \in Agents
  BY <1>1, StackOfCalls
<1> QED BY <1>2, <1>3, StepsOfAgents, Numbers

(* What is decided once the innermost call has claimed cell c or, having   *)
(* nothing left to try, keeps its own.                                     *)
LEMMA DecidingStep ==
  ASSUME PibtInv, pc = "plan", calls # <<>>,
         NEW a \in Agents, a = Last(calls).agent,
         NEW c \in Steps(a),
         UNCHANGED <<pc, curr_states, decided>>,
         next_states' = [next_states EXCEPT ![a] = c],
         decision' = decision \cup {c},
         \A b \in Agents \ {a} : next_states[b] = c => Innermost(b)',
         \A b \in Agents \ {a} : ~(c = Loc(b) /\ next_states[b] = Loc(a)),
         \A b \in Agents : Innermost(b)' =>
           next_states'[b] = None \/ (next_states[b] = c /\ b # a)
  PROVE  Deciding'
<1> USE DEF PibtInv
<1>1. \A b : Loc(b)' = Loc(b) /\ Steps(b)' = Steps(b)
  BY Standing
<1>2. \A b \in Agents : next_states'[b] = IF b = a THEN c ELSE next_states[b]
  BY DEF PibtTypeOK
<1>3. c # None
  BY StepsOfAgents, Numbers
<1>4. /\ \A b : Innermost(b) <=> b = a
      /\ decided[a] = Loc(a)
  BY InnermostCall
<1>5. decision' = {next_states'[b] : b \in Agents} \ {None}
  <2>1. ASSUME NEW b \in Agents, next_states[b] # None
        PROVE  \E d \in Agents : next_states'[d] = next_states[b]
    BY <1>2, <1>4, <2>1 DEF Deciding
  <2> QED BY <1>2, <1>3, <2>1 DEF Deciding
<1>6. \A b \in Agents : decided'[b] # Loc(b)' => next_states'[b] = decided'[b]
  BY <1>1, <1>2, <1>4 DEF Deciding
<1>7. ASSUME NEW b \in Agents, next_states'[b] # None
      PROVE  /\ next_states'[b] \in Steps(b)'
             /\ Innermost(b)' => \E d \in Agents \ {b} : next_states'[d] = next_states'[b]
  BY <1>1, <1>2, <1>7 DEF Deciding
<1>8. ASSUME NEW b \in Agents, next_states'[b] # None, NEW d \in Agents \ {b}
      PROVE  /\ next_states'[b] = next_states'[d] => Innermost(b)' \/ Innermost(d)'
             /\ ~(next_states'[b] = Loc(d)' /\ next_states'[d] = Loc(b)')
  BY <1>1, <1>2, <1>4, <1>8 DEF Deciding
<1> QED BY <1>5, <1>6, <1>7, <1>8 DEF Deciding

LEMMA ClaimStep ==
  ASSUME PibtInv, Claim
  PROVE  PibtInv'
<1> USE DEF PibtInv
<1> DEFINE n == Len(calls)
           h == calls[n].higher
<1>1. /\ pc = "plan" /\ calls # <<>>
      /\ UNCHANGED <<pc, curr_states, decided, actions>>
  BY DEF Claim
<1>2. PICK a \in Agents : a = Last(calls).agent
  BY <1>1, InnermostCall
<1>3. PICK c \in Successors(Last(calls)) :
        /\ next_states' = [next_states EXCEPT ![a] = c]
        /\ decision' = decision \cup {c}
        /\ IF Pushed(c, next_states') = {} THEN calls' = <<>>
           ELSE \E b \in Pushed(c, next_states') :
                  calls' = Append(calls, [agent |-> b, higher |-> a])
  BY <1>2 DEF Claim
<1>4. /\ n \in Nat /\ n >= 1 /\ Last(calls) = calls[n] /\ a = calls[n].agent
      /\ \A i \in 1..n : calls[i].agent \in Agents /\ (calls[i].agent = a => i = n)
      /\ \A b : Innermost(b) <=> b = a
      /\ decided[a] = Loc(a)
      /\ \A b \in Agents : next_states[b] = Loc(a) /\ b # a => b = h
      /\ n = 1 => h = None
  BY <1>1, <1>2, InnermostCall
<1>5. /\ DOMAIN calls = 1..n
      /\ calls \in Seq([agent : Agents, higher : Agents \cup {None}])
  BY StackOfCalls
<1> HIDE DEF n, h
<1>6. c \in Steps(a) /\ c \notin decision /\ (h # None => Loc(h) # c)
  BY <1>3, <1>4 DEF Successors, Steps, h
<1>7. \A b \in Agents : next_states'[b] = IF b = a THEN c ELSE next_states[b]
  BY <1>3 DEF PibtTypeOK
<1>8. c \in Cells /\ c # None
  BY <1>6, StepsOfAgents, Numbers
<1>9. \A b \in Agents : next_states[b] # c
  BY <1>1, <1>6, <1>8 DEF Deciding
<1>10. \A b : Loc(b)' = Loc(b) /\ Steps(b)' = Steps(b)
  BY <1>1, Standing
<1>11. \A b \in Agents \ {a} : ~(c = Loc(b) /\ next_states[b] = Loc(a))
  <2>1. None \notin Agents
    BY SimulatorAssumption DEF None, Agents
  <2> QED BY <1>4, <1>6, <2>1
<1>12. /\ next_states' \in [Agents -> Cells \cup {None}] /\ decision' \subseteq Cells
  BY <1>3, <1>8 DEF PibtTypeOK
<1>13. DecisionsAreSteps' /\ NothingLeftOver' /\ ActionsFollowDecisions' /\ PlanIsValid'
  BY <1>1, <1>10 DEF DecisionsAreSteps, NothingLeftOver, ActionsFollowDecisions, PlanIsValid
<1>14. SimulatorInv'
  BY <1>1, Standing
<1>15. CASE Pushed(c, next_states') = {}
  <2>1. calls' = <<>>
    BY <1>3, <1>15
  <2>2. \A b : ~Innermost(b)' /\ ~OnStack(b)'
    BY <2>1 DEF Innermost, OnStack
  <2>3. PibtTypeOK'
    BY <1>1, <1>12, <2>1, EmptySeq DEF PibtTypeOK
  <2>4. Deciding'
    BY <1>1, <1>2, <1>3, <1>6, <1>9, <1>11, <2>2, DecidingStep
  <2>5. Pushing'
    <3>1. ASSUME NEW x \in Agents, next_states'[x] = None, NEW y \in Agents
          PROVE  next_states'[y] # Loc(x)
      <4>1. x # a /\ next_states[x] = None
        BY <1>7, <1>8, <3>1
      <4>2. ~OnStack(x)
        BY <1>1, <1>4, <1>5, <4>1, CallersHaveClaimed DEF OnStack, n
      <4>3. next_states[y] # Loc(x)
        BY <1>1, <4>1, <4>2 DEF Pushing
      <4>4. c # Loc(x)
        BY <1>15, <3>1 DEF Pushed, StandsOn
      <4> QED BY <1>7, <4>3, <4>4
    <3> QED BY <1>10, <2>1, <3>1 DEF Pushing
  <2> QED BY <1>13, <1>14, <2>3, <2>4, <2>5
<1>16. CASE Pushed(c, next_states') # {}
  <2>1. PICK b \in Pushed(c, next_states') :
          calls' = Append(calls, [agent |-> b, higher |-> a])
    BY <1>3, <1>16
  <2>2. /\ b \in Agents /\ Loc(b) = c /\ b # a
        /\ next_states'[b] = None /\ next_states[b] = None
    BY <1>7, <1>8, <2>1 DEF Pushed, StandsOn
  <2>3. \A i \in 1..n : calls[i].agent # b
    BY <1>1, <1>4, <1>5, <2>2, CallersHaveClaimed DEF n
  <2>4. /\ calls' \in Seq([agent : Agents, higher : Agents \cup {None}])
        /\ Len(calls') = n + 1 /\ DOMAIN calls' = 1..n+1 /\ calls' # <<>>
        /\ \A i \in 1..n : calls'[i] = calls[i]
        /\ calls'[n+1].agent = b /\ calls'[n+1].higher = a
        /\ Last(calls') = calls'[n+1]
    <3> DEFINE R == [agent : Agents, higher : Agents \cup {None}]
               r == [agent |-> b, higher |-> a]
    <3>1. r \in R /\ r.agent = b /\ r.higher = a
      BY <2>2
    <3>2. calls \in Seq(R) /\ calls' = Append(calls, r)
      BY <1>5, <2>1
    <3> HIDE DEF R, r
    <3>3. /\ calls' \in Seq(R) /\ Len(calls') = n + 1 /\ DOMAIN calls' = 1..n+1
          /\ \A i \in 1..n : calls'[i] = calls[i]
          /\ calls'[n+1] = r /\ calls' # <<>>
      BY <1>4, <3>1, <3>2, AppendProperties DEF n
    <3>4. Last(calls') = calls'[n+1]
      BY <3>3 DEF Last
    <3> QED BY <3>1, <3>3, <3>4 DEF R
  <2>5. \A x : (Innermost(x)' <=> x = b) /\ (OnStack(x)' <=> OnStack(x) \/ x = b)
    <3>1. \A i \in 1..n+1 : i \in 1..n \/ i = n + 1
      BY <1>4
    <3>2. n + 1 \in 1..n+1 /\ \A i \in 1..n : i \in 1..n+1
      BY <1>4
    <3> QED BY <1>5, <2>4, <3>1, <3>2 DEF Innermost, OnStack
  <2>6. PibtTypeOK'
    <3>1. \A i, j \in DOMAIN calls' : calls'[i].agent = calls'[j].agent => i = j
      <4>1. \A i, j \in 1..n : calls[i].agent = calls[j].agent => i = j
        BY <1>5 DEF PibtTypeOK
      <4>2. \A i \in 1..n+1 : i \in 1..n \/ i = n + 1
        BY <1>4
      <4> QED BY <2>3, <2>4, <4>1, <4>2
    <3> QED BY <1>1, <1>12, <2>4, <3>1 DEF PibtTypeOK
  <2>7. Deciding'
    <3>1. \A x \in Agents : Innermost(x)' => next_states'[x] = None
      BY <2>2, <2>5
    <3>2. \A x \in Agents \ {a} : next_states[x] = c => Innermost(x)'
      BY <1>9
    <3>3. \A x \in Agents : Innermost(x)' => next_states'[x] = None \/ (next_states[x] = c /\ x # a)
      BY <3>1
    <3>4. UNCHANGED <<pc, curr_states, decided>>
      BY <1>1
    <3>5. next_states' = [next_states EXCEPT ![a] = c] /\ decision' = decision \cup {c}
      BY <1>3
    <3> QED BY <1>1, <1>2, <1>6, <1>11, <3>2, <3>3, <3>4, <3>5, DecidingStep
  <2>8. Pushing'
    <3>1. ASSUME NEW x \in Agents, next_states'[x] = None, ~OnStack(x)', NEW y \in Agents
          PROVE  next_states'[y] # Loc(x)
      <4>1. next_states[x] = None /\ ~OnStack(x) /\ x # b
        BY <1>7, <1>8, <2>5, <3>1
      <4>2. next_states[y] # Loc(x)
        BY <1>1, <4>1 DEF Pushing
      <4>3. c # Loc(x)
        BY <2>2, <4>1, ApartAgents
      <4> QED BY <1>7, <4>2, <4>3
    <3>2. calls'[1].higher = None
      BY <1>1, <1>4, <2>4 DEF Pushing
    <3>3. ASSUME NEW i \in 1..n
          PROVE  /\ decided'[calls'[i].agent] = Loc(calls'[i].agent)
                 /\ \A x \in Agents \ {calls'[i].agent} :
                      next_states'[x] = Loc(calls'[i].agent) => x = calls'[i].higher
                 /\ i > 1 => /\ calls'[i].higher = calls'[i-1].agent
                             /\ next_states'[calls'[i-1].agent] = Loc(calls'[i].agent)
      <4>1. /\ calls'[i] = calls[i] /\ calls[i].agent \in Agents
            /\ Loc(calls[i].agent) # c
        BY <1>4, <2>2, <2>3, <2>4, ApartAgents
      <4>2. /\ decided[calls[i].agent] = Loc(calls[i].agent)
            /\ \A x \in Agents \ {calls[i].agent} :
                 next_states[x] = Loc(calls[i].agent) => x = calls[i].higher
            /\ i > 1 => /\ calls[i].higher = calls[i-1].agent
                        /\ next_states[calls[i-1].agent] = Loc(calls[i].agent)
        BY <1>1, <1>5 DEF Pushing
      <4>3. i > 1 => i - 1 \in 1..n /\ i - 1 # n
        BY <1>4
      <4>4. i > 1 => /\ calls'[i-1] = calls[i-1] /\ calls[i-1].agent \in Agents
                     /\ calls[i-1].agent # a
        BY <1>4, <2>4, <4>3
      <4> QED BY <1>1, <1>7, <4>1, <4>2, <4>4
    <3>4. /\ decided'[b] = Loc(b)
          /\ \A x \in Agents \ {b} : next_states'[x] = Loc(b) => x = a
          /\ calls'[n].agent = a /\ next_states'[a] = Loc(b)
      <4>1. decided[b] = Loc(b)
        BY <1>1, <2>2, UndecidedAgents
      <4>2. n \in 1..n
        BY <1>4
      <4> QED BY <1>1, <1>4, <1>7, <1>9, <2>2, <2>4, <4>1, <4>2
    <3>5. \A i \in 1..n+1 : i \in 1..n \/ (i = n + 1 /\ i - 1 = n)
      BY <1>4
    <3> QED BY <1>10, <2>4, <3>1, <3>2, <3>3, <3>4, <3>5 DEF Pushing
  <2> QED BY <1>13, <1>14, <2>6, <2>7, <2>8
<1> QED BY <1>15, <1>16

LEMMA GiveUpStep ==
  ASSUME PibtInv, GiveUp
  PROVE  PibtInv'
<1> USE DEF PibtInv
<1> DEFINE n == Len(calls)
           h == calls[n].higher
<1>1. /\ pc = "plan" /\ calls # <<>>
      /\ UNCHANGED <<pc, curr_states, decided, actions>>
  BY DEF GiveUp
<1>2. PICK a \in Agents : a = Last(calls).agent
  BY <1>1, InnermostCall
<1>3. /\ next_states' = [next_states EXCEPT ![a] = Loc(a)]
      /\ decision' = decision \cup {Loc(a)}
      /\ calls' = Front(calls)
  BY <1>2 DEF GiveUp
<1>4. /\ n \in Nat /\ n >= 1 /\ Last(calls) = calls[n] /\ a = calls[n].agent
      /\ \A i \in 1..n : calls[i].agent \in Agents /\ (calls[i].agent = a => i = n)
      /\ \A b \in Agents : next_states[b] = Loc(a) /\ b # a => b = h
      /\ n = 1 => h = None
      /\ n > 1 => h = calls[n-1].agent /\ next_states[h] = Loc(a) /\ h # a
  BY <1>1, <1>2, InnermostCall
<1>5. /\ DOMAIN calls = 1..n
      /\ calls \in Seq([agent : Agents, higher : Agents \cup {None}])
  BY StackOfCalls
<1> HIDE DEF n, h
<1>6. Loc(a) \in Steps(a) /\ Loc(a) \in Cells /\ Loc(a) # None
  BY StepsOfAgents, Numbers DEF Steps
<1>7. \A b \in Agents : next_states'[b] = IF b = a THEN Loc(a) ELSE next_states[b]
  BY <1>3 DEF PibtTypeOK
<1>8. \A b \in Agents \ {a} : Loc(b) # Loc(a)
  BY ApartAgents
<1>9. \A b : Loc(b)' = Loc(b) /\ Steps(b)' = Steps(b)
  BY <1>1, Standing
<1>10. /\ calls' \in Seq([agent : Agents, higher : Agents \cup {None}])
       /\ Len(calls') = n - 1 /\ DOMAIN calls' = 1..n-1
       /\ \A i \in 1..n-1 : calls'[i] = calls[i]
       /\ calls' # <<>> <=> n > 1
  <2> DEFINE R == [agent : Agents, higher : Agents \cup {None}]
  <2>1. calls' = SubSeq(calls, 1, n - 1) /\ calls \in Seq(R)
    BY <1>3, <1>5 DEF Front, n
  <2> HIDE DEF R
  <2>2. /\ calls' \in Seq(R) /\ Len(calls') = n - 1 /\ DOMAIN calls' = 1..n-1
        /\ \A i \in 1..n-1 : calls'[i] = calls[i]
    <3>1. 1 \in 1..Len(calls)+1 /\ n - 1 \in 1-1..Len(calls)
      BY <1>4 DEF n
    <3>2. \A m \in Nat : m >= 1 => m - 1 \in Nat /\ (m - 1) - 1 + 1 = m - 1
      OBVIOUS
    <3>3. \A i \in 1..n-1 : 1 + i - 1 = i /\ i \in 1..(n - 1) - 1 + 1
      BY <1>4
    <3>4. /\ SubSeq(calls, 1, n - 1) \in Seq(R)
          /\ Len(SubSeq(calls, 1, n - 1)) = (IF 1 <= n - 1 THEN (n - 1) - 1 + 1 ELSE 0)
          /\ \A i \in 1..(n - 1) - 1 + 1 : SubSeq(calls, 1, n - 1)[i] = calls[1 + i - 1]
      BY <2>1, <3>1, SubSeqProperties
    <3>5. Len(calls') = n - 1
      BY <1>4, <2>1, <3>4
    <3>6. \A i \in 1..n-1 : calls'[i] = calls[i]
      BY <2>1, <3>3, <3>4
    <3>7. DOMAIN calls' = 1..n-1
      BY <2>1, <3>4, <3>5
    <3> QED BY <2>1, <3>4, <3>5, <3>6, <3>7
  <2>3. calls' # <<>> <=> n > 1
    BY <1>4, <2>2
  <2> QED BY <2>2, <2>3 DEF R
<1>11. \A i \in 1..n-1 : i \in 1..n /\ i # n /\ (i > 1 => i - 1 \in 1..n-1)
  BY <1>4
<1>12. n > 1 => n - 1 \in 1..n-1 /\ Last(calls') = calls'[n-1]
  BY <1>4, <1>10 DEF Last
<1>13. \A x : Innermost(x)' <=> n > 1 /\ x = h
  BY <1>4, <1>10, <1>12 DEF Innermost
<1>14. \A x : OnStack(x) /\ x # a => OnStack(x)'
  <2>1. \A i \in 1..n : i = n \/ i \in 1..n-1
    BY <1>4
  <2> QED BY <1>4, <1>5, <1>10, <2>1 DEF OnStack
<1>15. PibtTypeOK'
  <2>1. next_states' \in [Agents -> Cells \cup {None}] /\ decision' \subseteq Cells
    BY <1>3, <1>6 DEF PibtTypeOK
  <2>2. \A i, j \in DOMAIN calls' : calls'[i].agent = calls'[j].agent => i = j
    BY <1>5, <1>10, <1>11 DEF PibtTypeOK
  <2> QED BY <1>1, <1>10, <2>1, <2>2 DEF PibtTypeOK
<1>16. Deciding'
  <2>1. None \notin Agents
    BY SimulatorAssumption DEF None, Agents
  <2>2. \A b \in Agents \ {a} : next_states[b] = Loc(a) => Innermost(b)'
    BY <1>4, <1>13, <2>1
  <2>3. \A b \in Agents : Innermost(b)' => next_states[b] = Loc(a) /\ b # a
    BY <1>4, <1>13
  <2> QED BY <1>1, <1>2, <1>3, <1>6, <1>8, <2>2, <2>3, DecidingStep
<1>17. Pushing'
  <2>1. ASSUME NEW x \in Agents, next_states'[x] = None, ~OnStack(x)', NEW y \in Agents
        PROVE  next_states'[y] # Loc(x)
    <3>1. x # a /\ next_states[x] = None /\ ~OnStack(x)
      BY <1>6, <1>7, <1>14, <2>1
    <3> QED BY <1>1, <1>7, <1>8, <3>1 DEF Pushing
  <2>2. calls' # <<>> => calls'[1].higher = None
    <3>1. n > 1 => 1 \in 1..n-1
      BY <1>4
    <3> QED BY <1>1, <1>10, <3>1 DEF Pushing
  <2>3. ASSUME NEW i \in 1..n-1
        PROVE  /\ decided'[calls'[i].agent] = Loc(calls'[i].agent)
               /\ \A x \in Agents \ {calls'[i].agent} :
                    next_states'[x] = Loc(calls'[i].agent) => x = calls'[i].higher
               /\ i > 1 => /\ calls'[i].higher = calls'[i-1].agent
                           /\ next_states'[calls'[i-1].agent] = Loc(calls'[i].agent)
    <3>1. calls'[i] = calls[i] /\ calls[i].agent \in Agents \ {a}
      BY <1>4, <1>10, <1>11
    <3>2. i > 1 => calls'[i-1] = calls[i-1] /\ calls[i-1].agent \in Agents \ {a}
      BY <1>4, <1>10, <1>11
    <3>3. i \in DOMAIN calls
      BY <1>5, <1>11
    <3>4. /\ decided[calls[i].agent] = Loc(calls[i].agent)
          /\ \A x \in Agents \ {calls[i].agent} :
               next_states[x] = Loc(calls[i].agent) => x = calls[i].higher
          /\ i > 1 => /\ calls[i].higher = calls[i-1].agent
                      /\ next_states[calls[i-1].agent] = Loc(calls[i].agent)
      BY <1>1, <3>3 DEF Pushing
    <3> QED BY <1>1, <1>7, <1>8, <3>1, <3>2, <3>4
  <2> QED BY <1>9, <1>10, <2>1, <2>2, <2>3 DEF Pushing
<1>18. DecisionsAreSteps' /\ NothingLeftOver' /\ ActionsFollowDecisions' /\ PlanIsValid'
  BY <1>1, <1>9 DEF DecisionsAreSteps, NothingLeftOver, ActionsFollowDecisions, PlanIsValid
<1> QED BY <1>1, <1>15, <1>16, <1>17, <1>18, Standing

-----------------------------------------------------------------------------
(* plan(), after the calls of causalPIBT.                                  *)

(* The action got for a decision: forward only if the next cell is ahead.  *)
LEMMA ActionGot ==
  ASSUME NEW prev, NEW c
  PROVE  /\ GetAction(prev, c) \in Action
         /\ GetAction(prev, c) = "FW" => c - prev.location = moves[prev.orientation]
<1> DEFINE T == {o \in Orientation : c - prev.location = moves[o]}
<1>1. CASE T = {}
  BY <1>1 DEF GetAction, Action
<1>2. CASE T # {}
  <2>1. PICK o \in T : o = CHOOSE x \in T : TRUE
    BY <1>2
  <2>2. GetAction(prev, c) = CASE o = prev.orientation -> "FW"
                               [] o = (prev.orientation + 3) % 4 -> "CCR"
                               [] OTHER -> "CR"
    BY <1>2, <2>1 DEF GetAction
  <2>3. c - prev.location = moves[o]
    BY <2>1
  <2>4. CASE o = prev.orientation
    BY <2>2, <2>3, <2>4 DEF Action
  <2>5. CASE o # prev.orientation /\ o = (prev.orientation + 3) % 4
    BY <2>2, <2>5 DEF Action
  <2>6. CASE o # prev.orientation /\ o # (prev.orientation + 3) % 4
    BY <2>2, <2>6 DEF Action
  <2> QED BY <2>4, <2>5, <2>6
<1> QED BY <1>1, <1>2

(* An action takes an agent ahead or leaves it on its cell.                *)
LEMMA LocationAfter ==
  ASSUME NEW prev \in State, NEW action \in Action
  PROVE  result_state(prev, action).location =
           IF action = "FW" THEN prev.location + moves[prev.orientation] ELSE prev.location
<1>1. CASE action = "FW"
  BY <1>1 DEF result_state, State
<1>2. CASE action = "CR"
  BY <1>2 DEF result_state, State
<1>3. CASE action = "CCR"
  BY <1>3 DEF result_state, State
<1>4. CASE action \in {"W", "NA"}
  BY <1>4 DEF result_state
<1> QED BY <1>1, <1>2, <1>3, <1>4 DEF Action

LEMMA PlanEndStep ==
  ASSUME PibtInv, PlanEnd
  PROVE  PibtInv'
<1> USE DEF PibtInv
<1>1. /\ pc = "plan" /\ calls = <<>> /\ pc' = "act"
      /\ UNCHANGED curr_states /\ UNCHANGED calls
      /\ decided' = next_states /\ next_states' = NoNextStates
      /\ \A a \in Agents : next_states[a] # None
  BY DEF PlanEnd
<1>2. \A a : Loc(a)' = Loc(a) /\ Steps(a)' = Steps(a)
  BY <1>1, Standing
<1>3. \A a, b \in Agents :
        /\ next_states[a] \in Steps(a)
        /\ next_states[a] = next_states[b] => a = b
        /\ next_states[a] = Loc(b) /\ next_states[b] = Loc(a) => a = b
  BY <1>1 DEF Deciding, Innermost
<1>4. decision' = {}
  BY <1>1 DEF PlanEnd, Deciding
<1>5. DecisionsAreSteps' /\ NothingLeftOver'
  BY <1>1, <1>2, <1>3, <1>4 DEF DecisionsAreSteps, NothingLeftOver
<1>6. Deciding' /\ Pushing'
  BY <1>1 DEF Deciding, Pushing
<1>7. \A a \in Agents :
        /\ actions'[a] = IF a \in Forward /\ a \notin MoveCheck THEN "W" ELSE Wanted[a]
        /\ Wanted[a] = GetAction(curr_states[a], next_states[a])
        /\ a \in Forward <=> Wanted[a] = "FW"
        /\ curr_states[a] \in State /\ Loc(a) = curr_states[a].location
  BY DEF PlanEnd, Wanted, Forward, SimulatorInv, TypeOK, Loc
<1>8. actions' \in [Agents -> Action]
  BY <1>7, ActionGot DEF PlanEnd, Action
<1>9. \A a \in Agents : result_state(curr_states[a], actions'[a]).location =
        IF actions'[a] = "FW" THEN next_states[a] ELSE Loc(a)
  <2> SUFFICES ASSUME NEW a \in Agents
               PROVE  result_state(curr_states[a], actions'[a]).location =
                        IF actions'[a] = "FW" THEN next_states[a] ELSE Loc(a)
    OBVIOUS
  <2>1. actions'[a] = "FW" => next_states[a] - Loc(a) = moves[curr_states[a].orientation]
    BY <1>7, ActionGot
  <2>2. next_states[a] \in Nat /\ Loc(a) \in Nat
    <3>1. next_states[a] \in Cells /\ Loc(a) \in Cells
      BY <1>3, StepsOfAgents
    <3> QED BY <3>1, Numbers
  <2>3. result_state(curr_states[a], actions'[a]).location =
          IF actions'[a] = "FW" THEN Loc(a) + moves[curr_states[a].orientation] ELSE Loc(a)
    BY <1>7, <1>8, LocationAfter
  <2>4. \A m, k \in Nat : k + (m - k) = m
    OBVIOUS
  <2> QED BY <2>1, <2>2, <2>3, <2>4
<1>10. \A a \in Agents : actions'[a] = "FW" =>
         \A b \in Agents : Loc(b) = next_states[a] => actions'[b] = "FW"
  <2> SUFFICES ASSUME NEW a \in Agents, actions'[a] = "FW",
                      NEW b \in Agents, Loc(b) = next_states[a]
               PROVE  actions'[b] = "FW"
    OBVIOUS
  <2>1. a \in MoveCheck
    BY <1>7
  <2>2. PICK M \in SUBSET Forward : a \in M /\ \A x \in M : StandsOn(next_states[x]) \subseteq M
    BY <2>1 DEF MoveCheck
  <2>3. b \in M
    BY <2>2 DEF StandsOn
  <2>4. b \in MoveCheck /\ b \in Forward
    BY <2>2, <2>3 DEF MoveCheck
  <2> QED BY <1>7, <2>4
<1>11. PibtTypeOK'
  BY <1>1, <1>4, <1>8, EmptySeq DEF PibtTypeOK, NoNextStates
<1>12. ActionsFollowDecisions'
  BY <1>1, <1>2, <1>8, <1>9 DEF ActionsFollowDecisions
<1>13. IsValid(curr_states, actions')
  <2>1. \A a \in Agents :
          /\ result_states(curr_states, actions')[a].location
               = IF actions'[a] = "FW" THEN next_states[a] ELSE Loc(a)
          /\ curr_states[a].location = Loc(a)
    BY <1>7, <1>9 DEF result_states
  <2>2. \A a \in Agents : /\ AllowedMove(Loc(a), Loc(a))
                          /\ AllowedMove(Loc(a), next_states[a])
    BY <1>3, StepsOfAgents DEF Steps
  <2>3. \A a, b \in Agents : b < a => a # b
    BY SimulatorAssumption DEF Agents
  <2>4. \A a, b \in Agents : b < a =>
          /\ ~VertexConflict(curr_states, result_states(curr_states, actions'), a, b)
          /\ ~EdgeConflict(curr_states, result_states(curr_states, actions'), a, b)
    BY <1>3, <1>10, <2>1, <2>3, ApartAgents DEF VertexConflict, EdgeConflict
  <2> QED BY <2>1, <2>2, <2>4 DEF IsValid
<1>14. PlanIsValid'
  BY <1>1, <1>13 DEF PlanIsValid
<1> QED BY <1>1, <1>5, <1>6, <1>11, <1>12, <1>14, Standing

-----------------------------------------------------------------------------
(* What becomes of the actions.                                            *)

(* Each agent is where it was, or where it was to go.                      *)
LEMMA ReturnStep ==
  ASSUME PibtInv, Return, SimulatorInv',
         UNCHANGED <<decided, next_states, decision, calls>>,
         \A a \in Agents : Loc(a)' \in {Loc(a), decided[a]}
  PROVE  PibtInv'
<1> USE DEF PibtInv
<1>1. /\ pc = "act" /\ pc' = "idle" /\ actions' = <<>>
      /\ decided' = decided /\ next_states' = next_states /\ calls' = calls
      /\ decision' = decision
  BY DEF Return
<1>2. \A a, b \in Agents : /\ decided[a] # None /\ decided[a] \in Steps(a)
                           /\ decided[a] = decided[b] => a = b
                           /\ decided[a] = Loc(b) /\ decided[b] = Loc(a) => a = b
  BY <1>1 DEF DecisionsAreSteps
<1>3. \A a \in Agents : decided[a] \in Steps(a)'
  BY <1>2 DEF Steps
<1>4. \A a, b \in Agents : decided[a] = Loc(b)' /\ decided[b] = Loc(a)' => a = b
  BY <1>2
<1>5. DecisionsAreSteps'
  BY <1>1, <1>2, <1>3, <1>4 DEF DecisionsAreSteps
<1>6. PibtTypeOK' /\ NothingLeftOver'
  BY <1>1 DEF PibtTypeOK, NothingLeftOver
<1> QED BY <1>1, <1>5, <1>6 DEF Deciding, Pushing, ActionsFollowDecisions, PlanIsValid

(* Some carry out their actions, the others wait.                          *)
LEMMA CarriedOutStep ==
  ASSUME PibtInv, Return, UNCHANGED <<decided, next_states, decision, calls>>,
         NEW acts \in [Agents -> Action], Move(acts),
         \A a \in Agents : acts[a] \in {actions[a], "W"}
  PROVE  PibtInv'
<1>1. CASE UNCHANGED curr_states
  BY <1>1, Standing, ReturnStep DEF PibtInv
<1>2. CASE IsValid(curr_states, acts) /\ curr_states' = result_states(curr_states, acts)
  <2>1. TypeOK' /\ AgentsApart'
    BY <1>2, NextTypeOK, ValidIsApart DEF PibtInv, SimulatorInv
  <2>2. ASSUME NEW a \in Agents PROVE Loc(a)' \in {Loc(a), decided[a]}
    <3>1. Loc(a)' = result_state(curr_states[a], acts[a]).location
      BY <1>2 DEF Loc, result_states
    <3>2. curr_states[a] \in State /\ "W" \in Action
      BY DEF PibtInv, SimulatorInv, TypeOK, Action
    <3>3. result_state(curr_states[a], "W").location = Loc(a)
      BY <3>2, LocationAfter DEF Loc
    <3>4. result_state(curr_states[a], actions[a]).location \in {Loc(a), decided[a]}
      BY DEF PibtInv, ActionsFollowDecisions, Return
    <3> QED BY <3>1, <3>3, <3>4
  <2> QED BY <2>1, <2>2, ReturnStep DEF SimulatorInv
<1> QED BY <1>1, <1>2 DEF Move

LEMMA ExecuteStep ==
  ASSUME PibtInv, Execute
  PROVE  PibtInv'
<1>1. /\ Return /\ Move(actions) /\ UNCHANGED <<decided, next_states, decision, calls>>
      /\ actions \in [Agents -> Action]
  BY DEF Execute, Return, PibtInv, ActionsFollowDecisions
<1> QED BY <1>1, CarriedOutStep

LEMMA HeldUpStep ==
  ASSUME PibtInv, HeldUp
  PROVE  PibtInv'
<1>1. PICK held \in SUBSET Agents :
        Move([a \in Agents |-> IF a \in held THEN "W" ELSE actions[a]])
  BY DEF HeldUp
<1>2. /\ Return /\ UNCHANGED <<decided, next_states, decision, calls>>
      /\ actions \in [Agents -> Action]
  BY DEF HeldUp, Return, PibtInv, ActionsFollowDecisions
<1>3. [a \in Agents |-> IF a \in held THEN "W" ELSE actions[a]] \in [Agents -> Action]
  BY <1>2 DEF Action
<1> QED BY <1>1, <1>2, <1>3, CarriedOutStep

-----------------------------------------------------------------------------
LEMMA PibtStutters ==
  ASSUME PibtInv, UNCHANGED pvars
  PROVE  PibtInv'
<1>1. /\ UNCHANGED curr_states /\ pc' = pc /\ decided' = decided
      /\ next_states' = next_states /\ decision' = decision
      /\ calls' = calls /\ actions' = actions
  BY DEF pvars, planner
<1>2. /\ \A a : /\ Loc(a)' = Loc(a) /\ Steps(a)' = Steps(a)
                /\ Innermost(a)' <=> Innermost(a)
                /\ OnStack(a)' <=> OnStack(a)
      /\ SimulatorInv'
  BY <1>1, Standing DEF PibtInv, Innermost, OnStack
<1>3. PibtTypeOK' /\ NothingLeftOver' /\ PlanIsValid'
  BY <1>1 DEF PibtInv, PibtTypeOK, NothingLeftOver, PlanIsValid
<1>4. DecisionsAreSteps' /\ ActionsFollowDecisions'
  BY <1>1, <1>2 DEF PibtInv, DecisionsAreSteps, ActionsFollowDecisions
<1>5. Deciding'
  BY <1>1, <1>2 DEF PibtInv, Deciding
<1>6. Pushing'
  BY <1>1, <1>2 DEF PibtInv, Pushing
<1> QED BY <1>2, <1>3, <1>4, <1>5, <1>6 DEF PibtInv

(* The planner's bookkeeping is consistent at every step of plan() and of  *)
(* causalPIBT, in whatever order agents and cells are tried, and when the  *)
(* actions are held up: what is decided can be carried out, by all at once *)
(* or by some (planner.cpp, pibt.cpp).                                     *)
THEOREM PibtIsInductive == PibtSpec => []PibtInv
<1>1. PibtInit => PibtInv
  BY PibtInitially
<1>2. PibtInv /\ [PibtNext]_pvars => PibtInv'
  BY PlanBeginStep, CallTopStep, ClaimStep, GiveUpStep, PlanEndStep, ExecuteStep,
     HeldUpStep, PibtStutters DEF PibtNext, Plan
<1> QED BY <1>1, <1>2, PTL DEF PibtSpec

(* The planner never asks for a move that the simulator refuses.           *)
THEOREM PibtPlansAreValid == PibtSpec => []PlanIsValid
<1>1. PibtInv => PlanIsValid
  BY DEF PibtInv
<1> QED BY <1>1, PibtIsInductive, PTL

(* No two agents have decided for one cell once plan() has returned, and   *)
(* the decision table is clean for the next call.                          *)
THEOREM PibtDecisionsApart == PibtSpec => []DecisionsApart
<1>1. PibtInv => DecisionsApart
  BY DEF PibtInv, DecisionsApart, DecisionsAreSteps, NothingLeftOver
<1> QED BY <1>1, PibtIsInductive, PTL

(* With this planner the simulation is a run of the simulator: what the    *)
(* simulator grants of any planner holds.                                  *)
THEOREM PibtRunsTheSimulator == PibtSpec => Spec
<1>1. PibtInit => Init
  BY DEF PibtInit
<1>2. PibtInv /\ [PibtNext]_pvars => [Next]_curr_states
  <2> SUFFICES ASSUME PibtInv, [PibtNext]_pvars, curr_states' # curr_states
               PROVE  Next
    OBVIOUS
  <2>1. ~Plan /\ ~UNCHANGED pvars
    BY DEF Plan, PlanBegin, CallTop, Claim, GiveUp, PlanEnd, pvars
  <2>2. pc = "act" => actions \in [Agents -> Action]
    BY DEF PibtInv, ActionsFollowDecisions
  <2>3. CASE Execute
    BY <2>2, <2>3 DEF Execute, Return, Next, Plans
  <2>4. CASE HeldUp
    <3>1. PICK held \in SUBSET Agents :
            Move([a \in Agents |-> IF a \in held THEN "W" ELSE actions[a]])
      BY <2>4 DEF HeldUp
    <3>2. [a \in Agents |-> IF a \in held THEN "W" ELSE actions[a]] \in Plans
      BY <2>2, <2>4 DEF HeldUp, Return, Action, Plans
    <3> QED BY <3>1, <3>2 DEF Next
  <2> QED BY <2>1, <2>3, <2>4 DEF PibtNext
<1> QED BY <1>1, <1>2, PibtIsInductive, PTL DEF PibtSpec, Spec
=============================================================================
