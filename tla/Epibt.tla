-------------------------------- MODULE Epibt --------------------------------
(***************************************************************************)
(* The EPIBT planner (src/default_planner/epibt.cpp) and the client that   *)
(* carries out its answers.  Each plan() selects for every agent an        *)
(* operation, three actions long, that does not conflict with those of the *)
(* agents before it, and returns its first action.  The operation that an  *)
(* agent has left from the plan before, with a wait added at its end, is   *)
(* inherited: it is preferred to all others.                               *)
(*                                                                         *)
(* The client reports its agents, and names a goal for each, before every  *)
(* plan.  The deadline may pass before any agent.                          *)
(***************************************************************************)
EXTENDS GridDistance, FiniteSetsExt

CONSTANTS Goals,       \* the cells that goals are chosen from
          MaxMoved     \* bound: the agents that a report has moved elsewhere

ASSUME EpibtAssumption == Goals \subseteq Free /\ MaxMoved \in Nat

VARIABLES
  pc,                   \* "plan" while plan() runs, "act" once it returned
  goal_locations,       \* the goal of each agent
  prev_operations,      \* the operation of each agent in the last plan, or None
  next_prev_operations, \* the one selected in this plan, or None; those
                        \* selected are the reservations
  debugReason           \* how it was selected, as last_agent_traces() tells

reported == <<curr_states, goal_locations>>
vars == <<pc, reported, prev_operations, next_prev_operations, debugReason>>

None == <<>>
Operations == LET Base == {"FW", "CR", "CCR", "W"} IN Base \X Base \X Base
WWW == <<"W", "W", "W">>

NoOperations == [a \in Agents |-> None]
NoReasons == [a \in Agents |-> "none"]

-----------------------------------------------------------------------------
(* Operations and their paths.                                             *)

ApplyAction(s, action) ==
  CASE action = "FW"  -> [s EXCEPT !.location = @ + moves[s.orientation]]
    [] action = "CR"  -> [s EXCEPT !.orientation = (@ + 1) % 4]
    [] action = "CCR" -> [s EXCEPT !.orientation = (@ + 3) % 4]
    [] action = "W"   -> s

BuildPath(s, op) ==
  LET s1 == ApplyAction(s, op[1])
      s2 == ApplyAction(s1, op[2])
      s3 == ApplyAction(s2, op[3])
  IN  <<s, s1, s2, s3>>

(* Slip: only the cells are looked at, not the moves between them. *)
IsPathValidCells(path) == \A i \in 1..4 : path[i].location \in Free

IsPathValid(path) ==
  /\ path[1].location \in Free
  /\ \A i \in 1..3 : AllowedMove(path[i].location, path[i+1].location)

ValidOperations ==
  [s \in [location : Free, orientation : Orientation] |->
     {op \in Operations : IsPathValid(BuildPath(s, op))}]

(* Slip: only the first step is looked at. *)
HasVertexConflictFirst(p, q) == p[2].location = q[2].location

HasVertexConflict(p, q) == \E i \in 2..4 : p[i].location = q[i].location

HasEdgeSwapConflict(p, q) ==
  \E i \in 1..3 : /\ p[i].location = q[i+1].location
                  /\ p[i+1].location = q[i].location

Conflict(p, q) == HasVertexConflict(p, q) \/ HasEdgeSwapConflict(p, q)

Path(a, op) == BuildPath(curr_states[a], op)

Planned == {a \in Agents : next_prev_operations[a] # None}
GetUsedAgents(path) ==
  {b \in Planned : Conflict(path, Path(b, next_prev_operations[b]))}

(* Slip: the operation is not cut to what is left of it. *)
ShiftNot(op) == op

ShiftInheritedOperation(op) == <<op[2], op[3], "W">>

(* The operations that agent a may be given.                               *)
Candidates(a) == {op \in ValidOperations[curr_states[a]] :
                    GetUsedAgents(Path(a, op)) = {}}

(* Slip: what is inherited is taken without looking at the others. *)
InheritsBlindly(a) ==
  /\ prev_operations[a] # None
  /\ ShiftInheritedOperation(prev_operations[a]) \in ValidOperations[curr_states[a]]

Inherits(a) == /\ prev_operations[a] # None
               /\ ShiftInheritedOperation(prev_operations[a]) \in Candidates(a)

HasInheritedTail(a) ==
  /\ prev_operations[a] # None
  /\ prev_operations[a][2] # "W" \/ prev_operations[a][3] # "W"

-----------------------------------------------------------------------------
(* Scores and priorities.                                                  *)

ComputeHeuristic(c, goal) ==
  IF distance[goal][c] = Unreachable THEN manhattanDistance(c, goal)
                                     ELSE distance[goal][c]

CountAction(op, Base) == Cardinality({i \in 1..3 : op[i] \in Base})

(* Without the bonus of an inherited operation or priority: it is the same *)
(* for all operations it is compared with.                                 *)
ScoreOperation(s, goal, op) ==
  LET start_h == ComputeHeuristic(s.location, goal)
      end_h == ComputeHeuristic(BuildPath(s, op)[4].location, goal)
  IN  end_h * 16 + CountAction(op, {"W"}) * 4 + CountAction(op, {"CR", "CCR"}) * 2
        - Max({0, start_h - end_h}) * 6

(* The lower rank comes first: the better score, then the earlier actions. *)
RankOf(s, goal, op) ==
  LET enum == [FW |-> 0, CR |-> 1, CCR |-> 2, W |-> 3] IN
  64 * ScoreOperation(s, goal, op) + 16 * enum[op[1]] + 4 * enum[op[2]] + enum[op[3]]

Ranks == [s \in [location : Free, orientation : Orientation] |->
           [goal \in Free |->
             [op \in ValidOperations[s] |-> RankOf(s, goal, op)]]]

Rank(a, op) == Ranks[curr_states[a]][goal_locations[a]][op]

Best(a, ops) == LET first == Min({Rank(a, op) : op \in ops})
                IN  CHOOSE op \in ops : Rank(a, op) = first

(* Those with something left to do first, then those closer to their goal. *)
Priority(a) ==
  NumAgents * ((IF HasInheritedTail(a) THEN 0 ELSE Rows * Cols)
               + ComputeHeuristic(curr_states[a].location, goal_locations[a])) + a

NextAgent == CHOOSE a \in Agents \ Planned :
               \A b \in Agents \ Planned : Priority(a) <= Priority(b)

-----------------------------------------------------------------------------
(* Slip: an agent on an obstacle is let in. *)
ReportsUnchecked ==
  {s \in [Agents -> [location : Cells, orientation : Orientation]] :
     \A a, b \in Agents : s[a].location = s[b].location => a = b}

(* initialize() leaves no previous operations.  ApplyAgents lets in states *)
(* and goals on free cells only; that no two agents are on one cell is the *)
(* client's promise.                                                       *)
Reports ==
  {s \in [Agents -> [location : Free, orientation : Orientation]] :
     \A a, b \in Agents : s[a].location = s[b].location => a = b}

EpibtInit == /\ pc = "plan"
             /\ curr_states \in Reports
             /\ goal_locations \in [Agents -> Goals]
             /\ prev_operations = NoOperations
             /\ next_prev_operations = NoOperations
             /\ debugReason = NoReasons

Selected(a, op, reason) ==
  /\ next_prev_operations' = [next_prev_operations EXCEPT ![a] = op]
  /\ debugReason' = [debugReason EXCEPT ![a] = reason]

(* SelectOperation.  The reasons a candidate was selected are not told     *)
(* apart.                                                                  *)
SelectOperation(a) ==
  LET candidates == Candidates(a) IN
  \/ /\ Inherits(a)
     /\ Selected(a, ShiftInheritedOperation(prev_operations[a]),
                 "selected_inherited")
  \/ /\ ~Inherits(a) /\ candidates # {}
     /\ Selected(a, Best(a, candidates), "selected_candidate")
  \/ /\ candidates = {}
     /\ Selected(a, WWW, "fallback_wait")

PlanAgent ==
  /\ pc = "plan" /\ Planned # Agents
  /\ SelectOperation(NextAgent)
  /\ UNCHANGED <<pc, reported, prev_operations>>

Returns == /\ pc' = "act"
           /\ prev_operations' = next_prev_operations
           /\ UNCHANGED <<reported, next_prev_operations>>

PlanEnd == pc = "plan" /\ Planned = Agents /\ Returns /\ UNCHANGED debugReason

(* The deadline passes: the agents left wait, and reserve nothing.         *)
Deadline ==
  /\ pc = "plan" /\ Planned # Agents
  /\ debugReason' = [debugReason EXCEPT ![NextAgent] = "time_budget_exhausted"]
  /\ Returns

Plan == PlanAgent \/ PlanEnd

-----------------------------------------------------------------------------
(* What an agent is told to do, over the three steps: the others wait.     *)
Answer(a) == IF a \in Planned THEN next_prev_operations[a] ELSE WWW

(* What plan() returns.                                                    *)
actions == [a \in Agents |-> Answer(a)[1]]

-----------------------------------------------------------------------------
(* The client.  It asks for the next plan once the agents have done what   *)
(* they were told, some of them have been held up, or it has moved them    *)
(* elsewhere, and names any goals.                                         *)

Asks == /\ pc = "act" /\ pc' = "plan"
        /\ next_prev_operations' = NoOperations
        /\ debugReason' = NoReasons

NamesGoals == goal_locations' \in [Agents -> Goals]

Carry(acts) == /\ IsValid(curr_states, acts)
               /\ curr_states' = result_states(curr_states, acts)

Execute == Asks /\ Carry(actions) /\ UNCHANGED prev_operations /\ NamesGoals

HeldUp ==
  /\ Asks /\ UNCHANGED prev_operations
  /\ \E held \in SUBSET Agents \ {{}} :
       Carry([a \in Agents |-> IF a \in held THEN "W" ELSE actions[a]])
  /\ NamesGoals

(* The client has moved agents elsewhere: what they had left is kept.      *)
Report ==
  /\ Asks /\ UNCHANGED prev_operations
  /\ curr_states' \in {s \in Reports :
       Cardinality({a \in Agents : s[a] # curr_states[a]}) <= MaxMoved}
  /\ NamesGoals

(* A hello comes: the planner starts afresh (with another map or team, or  *)
(* agents elsewhere, that is another behaviour's beginning).               *)
Initialize ==
  Asks /\ UNCHANGED curr_states /\ prev_operations' = NoOperations /\ NamesGoals

EpibtNext == Plan \/ Deadline \/ Execute \/ HeldUp \/ Report \/ Initialize

(* plan() returns, if only at its deadline, and the client asks again.     *)
EpibtSpec == /\ EpibtInit /\ [][EpibtNext]_vars
             /\ WF_pc(pc = "plan" /\ pc' = "act")
             /\ WF_pc(pc = "act" /\ pc' = "plan")
-----------------------------------------------------------------------------
(* Every variable has its type.                                            *)
EpibtTypeOK ==
  LET Op == Operations \cup {None} IN
  /\ pc \in {"plan", "act"}
  /\ curr_states \in [Agents -> [location : Free, orientation : Orientation]]
  /\ goal_locations \in [Agents -> Goals]
  /\ prev_operations \in [Agents -> Op]
  /\ next_prev_operations \in [Agents -> Op]
  /\ debugReason \in [Agents -> {"none", "selected_inherited",
                                 "selected_candidate", "fallback_wait",
                                 "time_budget_exhausted"}]

(* The deadline cut the agent off, or each of its operations conflicts     *)
(* with the reservation of somebody else.                                  *)
Stuck(a) ==
  \/ a \notin Planned
  \/ \A op \in ValidOperations[curr_states[a]] :
       \E b \in Planned \ {a} :
         Conflict(Path(a, op), Path(b, next_prev_operations[b]))

(* A plan lets two agents collide within its three steps only if one of    *)
(* them waits because it had no other choice or the time was over: what    *)
(* an agent inherits is no excuse.                                         *)
CollisionsAreForced == pc = "act" =>
  \A a, b \in Agents :
    a # b /\ Conflict(Path(a, Answer(a)), Path(b, Answer(b)))
      => \E c \in {a, b} : Answer(c) = WWW /\ Stuck(c)

(* SanitizeAction of the session never has to correct an action: each      *)
(* agent that goes forward ends on a free cell of its row or column.       *)
NothingToSanitize == pc = "act" => \A a \in Agents : actions[a] = "FW" =>
  LET to == ApplyAction(curr_states[a], "FW") IN
  to.location \in Free /\ GoesAhead(curr_states[a], to)

(* What has been selected can be done from where the agent stands, to its  *)
(* end.                                                                    *)
SelectedAreValid ==
  \A a \in Planned : next_prev_operations[a] \in ValidOperations[curr_states[a]]

(* So far the paths selected do not conflict, unless one of the two agents *)
(* waits because nothing else was left to it.                              *)
ConflictsAreFallbacks ==
  \A a, b \in Planned :
    a # b /\ Conflict(Path(a, next_prev_operations[a]), Path(b, next_prev_operations[b]))
      => \E c \in {a, b} : /\ next_prev_operations[c] = WWW /\ Stuck(c)
                           /\ debugReason[c] = "fallback_wait"

(* What all of this rests on.                                              *)
EpibtInv == /\ EpibtTypeOK
            /\ SelectedAreValid
            /\ ConflictsAreFallbacks
            /\ NothingToSanitize

(* What agent a inherits once it has done what it was told.                *)
Rest(a) == BuildPath(ApplyAction(curr_states[a], actions[a]),
                     ShiftInheritedOperation(next_prev_operations[a]))

(* After a plan for everybody without a fallback, what the agents inherit  *)
(* stands for the next one: if all have done what they were told, nobody   *)
(* is thrown off it, in whatever order they are planned.                   *)
InheritedPlansHold ==
  pc = "act" /\ Planned = Agents
  /\ (\A a \in Agents : debugReason[a] # "fallback_wait")
    => \A a \in Agents : /\ IsPathValid(Rest(a))
                         /\ \A b \in Agents \ {a} : ~Conflict(Rest(a), Rest(b))

(* Inheritance has the last word: agents that are never held up any more,  *)
(* and whose plans are in time, all come to rest, wherever their goals are *)
(* (no agent gives up a wait that it inherited).                           *)
Undisturbed == IF pc = "plan" THEN ~Deadline ELSE Execute
AllComeToRest ==
  <>[][Undisturbed]_vars => <>[](\A a \in Agents : actions[a] = "W")
=============================================================================
