----------------------------- MODULE CausalPibt -----------------------------
(***************************************************************************)
(* The default planner (src/default_planner/planner.cpp, pibt.cpp) and the *)
(* simulator that carries its actions out.  At each timestep the planner   *)
(* decides a next cell for each agent that has reached the last one        *)
(* decided, by priority inheritance with backtracking.  An agent that must *)
(* turn first keeps its decision over several timesteps: the others plan   *)
(* around it.                                                              *)
(*                                                                         *)
(* Priorities and distances are left open: agents are planned in any       *)
(* order, and each tries its successors in any order.  The calls of        *)
(* causalPIBT on the stack are a sequence; one step of the model is one    *)
(* iteration of its loop over successors, or its end.  The team does not   *)
(* change (plan() would start afresh).                                     *)
(***************************************************************************)
EXTENDS Simulator, SequencesExt

ASSUME CausalPibtAssumption == Cols >= 2

None == -1

VARIABLES
  pc,           \* "idle", "plan" while plan() runs, "act" once it has returned
  decided,      \* the cell last decided for each agent; None before the first
  next_states,  \* the cell decided for each agent in this plan(), or None
  decision,     \* the cells whose entry in the decision table is not -1
  calls,        \* the calls of causalPIBT in progress, innermost last
  actions       \* what plan() returned

planner == <<decided, next_states, decision, calls, actions>>
pvars == <<pc, curr_states, planner>>

NoNextStates == [a \in Agents |-> None]

PibtInit == /\ Init
            /\ pc = "idle"
            /\ decided = [a \in Agents |-> None]
            /\ next_states = NoNextStates
            /\ decision = {}
            /\ calls = <<>>
            /\ actions = <<>>

Loc(a) == curr_states[a].location

Neighbors(c) == {n \in Cells \ Obstacles : n # c /\ AllowedMove(c, n)}

(* prev_decision: the agent that stands on a cell.                         *)
StandsOn(c) == {a \in Agents : Loc(a) = c}

-----------------------------------------------------------------------------
(* plan(), up to the calls of causalPIBT.                                  *)

(* Slip: no decision is carried over. *)
CarriedNever(a) == FALSE

(* The decision is not carried out yet, and still can be.  (Every decision *)
(* that plan() leaves behind is NOT_DONE, so the code's flag adds nothing  *)
(* to the two cells.)                                                      *)
Carried(a) == /\ decided[a] # None
              /\ decided[a] - Loc(a) \in {1, -1, Cols, -Cols}

PlanBegin ==
  /\ pc = "idle"
  /\ pc' = "plan"
  /\ next_states' = [a \in Agents |-> IF Carried(a) THEN decided[a] ELSE None]
  /\ decided' = [a \in Agents |-> IF Carried(a) THEN decided[a] ELSE Loc(a)]
  /\ decision' = decision \cup {decided[a] : a \in {a \in Agents : Carried(a)}}
  /\ UNCHANGED <<curr_states, calls, actions>>

-----------------------------------------------------------------------------
(* causalPIBT.                                                             *)

CallTop ==
  /\ pc = "plan" /\ calls = <<>>
  /\ \E a \in Agents : /\ next_states[a] = None
                       /\ calls' = <<[agent |-> a, higher |-> None]>>
  /\ UNCHANGED <<pc, curr_states, decided, next_states, decision, actions>>

(* Slip: an agent may move to the cell of the agent that pushes it. *)
SuccessorsSwapping(call) == (Neighbors(Loc(call.agent)) \cup {Loc(call.agent)}) \ decision

(* What is left to try: cells that nobody has decided for, except the cell *)
(* of the agent that pushes this one.  A cell once skipped stays skipped,  *)
(* for entries of the decision table are not taken back during plan().     *)
Successors(call) ==
  {c \in Neighbors(Loc(call.agent)) \cup {Loc(call.agent)} :
     /\ c \notin decision
     /\ call.higher # None => Loc(call.higher) # c}

(* Slip: whoever stands on the claimed cell is pushed. *)
PushedAlways(c, next) == StandsOn(c)

(* Who is pushed: the agent on the claimed cell, if he has no decision.    *)
Pushed(c, next) == {a \in StandsOn(c) : next[a] = None}

(* The agent claims a cell.  If somebody is pushed, his call comes next;   *)
(* if not, this call succeeds, and so do its callers.                      *)
Claim ==
  /\ pc = "plan" /\ calls # <<>>
  /\ LET call == Last(calls) IN
     \E c \in Successors(call) :
       /\ next_states' = [next_states EXCEPT ![call.agent] = c]
       /\ decision' = decision \cup {c}
       /\ IF Pushed(c, next_states') = {} THEN calls' = <<>>
          ELSE \E a \in Pushed(c, next_states') :
                 calls' = Append(calls, [agent |-> a, higher |-> call.agent])
  /\ UNCHANGED <<pc, curr_states, decided, actions>>

(* Slip: an agent that finds no cell frees its own. *)
GiveUpUnclaimed ==
  /\ pc = "plan" /\ calls # <<>>
  /\ Successors(Last(calls)) = {}
  /\ LET a == Last(calls).agent IN
     next_states' = [next_states EXCEPT ![a] = Loc(a)]
  /\ decision' = decision \ {Loc(Last(calls).agent)}
  /\ calls' = Front(calls)
  /\ UNCHANGED <<pc, curr_states, decided, actions>>

(* The agent stays; the call fails, and its caller tries its next          *)
(* successor.                                                              *)
GiveUp ==
  /\ pc = "plan" /\ calls # <<>>
  /\ Successors(Last(calls)) = {}
  /\ LET a == Last(calls).agent IN
     /\ next_states' = [next_states EXCEPT ![a] = Loc(a)]
     /\ decision' = decision \cup {Loc(a)}
  /\ calls' = Front(calls)
  /\ UNCHANGED <<pc, curr_states, decided, actions>>

-----------------------------------------------------------------------------
(* plan(), after the calls of causalPIBT.                                  *)

(* getAction: forward, or turn towards the next cell.                      *)
GetAction(prev, c) ==
  LET toward == {o \in Orientation : c - prev.location = moves[o]} IN
  IF toward = {} THEN "W"
  ELSE LET o == CHOOSE o \in toward : TRUE IN
       CASE o = prev.orientation -> "FW"
         [] o = (prev.orientation + 3) % 4 -> "CCR"
         [] OTHER -> "CR"

Wanted == [a \in Agents |-> GetAction(curr_states[a], next_states[a])]
Forward == {a \in Agents : Wanted[a] = "FW"}

(* moveCheck: the agents that move forward to a cell that is free or is    *)
(* left, in a chain or in a circle.                                        *)
MoveCheck == UNION {M \in SUBSET Forward :
                      \A a \in M : StandsOn(next_states[a]) \subseteq M}

PlanEnd ==
  /\ pc = "plan" /\ calls = <<>>
  /\ \A a \in Agents : next_states[a] # None
  /\ actions' = [a \in Agents |->
       IF a \in Forward /\ a \notin MoveCheck THEN "W" ELSE Wanted[a]]
  /\ decided' = next_states
  /\ decision' = decision \ {next_states[a] : a \in Agents}
  /\ next_states' = NoNextStates
  /\ pc' = "act"
  /\ UNCHANGED <<curr_states, calls>>

Plan == PlanBegin \/ CallTop \/ Claim \/ GiveUp \/ PlanEnd

-----------------------------------------------------------------------------
(* What becomes of the actions.                                            *)

Return == pc = "act" /\ pc' = "idle" /\ actions' = <<>>

(* The simulator carries them out.                                         *)
Execute ==
  /\ Return
  /\ Move(actions)
  /\ UNCHANGED <<decided, next_states, decision, calls>>

(* Some agents wait instead: all of them, when the actions come too late   *)
(* for the simulator; those that are held up, when a client of the planner *)
(* server carries the actions out, as long as nobody collides.             *)
HeldUp ==
  /\ Return
  /\ \E held \in SUBSET Agents :
       LET carried == [a \in Agents |-> IF a \in held THEN "W" ELSE actions[a]]
       IN IsValid(curr_states, carried) /\ Move(carried)
  /\ UNCHANGED <<decided, next_states, decision, calls>>

(* A client of the planner server reports its agents wherever they are     *)
(* now: planner.cpp expects them to have drifted or been moved.            *)
Report ==
  /\ Return
  /\ curr_states' \in [Agents -> [location : Cells \ Obstacles,
                                  orientation : Orientation]]
  /\ \A a, b \in Agents :
       curr_states'[a].location = curr_states'[b].location => a = b
  /\ UNCHANGED <<decided, next_states, decision, calls>>

(* The planner in the simulation; with a planner that is always in time;   *)
(* and behind the planner server.                                          *)
PibtNext == Plan \/ Execute \/ HeldUp
PibtSpec == PibtInit /\ [][PibtNext]_pvars

TimelySpec == /\ PibtInit /\ [][PibtNext]_pvars
              /\ WF_pvars(Plan) /\ SF_pvars(Execute)

ServerSpec == PibtInit /\ [][Plan \/ Report]_pvars

-----------------------------------------------------------------------------
(* The planner's variables have their types, and an agent is never pushed  *)
(* again by those it pushes: the recursion ends.                           *)
PibtTypeOK ==
  /\ pc \in {"idle", "plan", "act"}
  /\ decided \in [Agents -> Cells \cup {None}]
  /\ next_states \in [Agents -> Cells \cup {None}]
  /\ decision \subseteq Cells
  /\ calls \in Seq([agent : Agents, higher : Agents \cup {None}])
  /\ \A i, j \in DOMAIN calls : calls[i].agent = calls[j].agent => i = j
  /\ actions \in [Agents -> Action] \cup {<<>>}

(* The planner never asks for a move that the simulator refuses: with      *)
(* turns, waits and decisions carried over, no two agents collide or swap. *)
PlanIsValid == pc = "act" => IsValid(curr_states, actions)

(* No two agents have decided for one cell once plan() has returned, and   *)
(* the decision table is clean for the next call.                          *)
DecisionsApart ==
  pc # "plan" => /\ decision = {}
                 /\ \A a, b \in Agents :
                      decided[a] = decided[b] /\ decided[a] # None => a = b

(* What is decided for an agent is a step that it can make, no two agents  *)
(* have decided to change places, and all have decided or none has.        *)
Steps(a) == Neighbors(Loc(a)) \cup {Loc(a)}
DecisionsAreSteps ==
  /\ \A a \in Agents : decided[a] # None =>
       /\ decided[a] \in Steps(a)
       /\ \A b \in Agents : /\ decided[b] # None
                            /\ decided[a] = decided[b] => a = b
                            /\ decided[a] = Loc(b) /\ decided[b] = Loc(a) => a = b
  /\ pc # "idle" => \A a \in Agents : decided[a] # None

(* Between two plans, and before the first call of one, nothing is left    *)
(* over.                                                                   *)
NothingLeftOver ==
  /\ pc # "plan" => decision = {} /\ next_states = NoNextStates /\ calls = <<>>
  /\ pc # "act" => actions = <<>>

(* What plan() has decided so far: carried decisions stand, no two agents  *)
(* go to one cell or change places, and the table says what is taken.  Only*)
(* the agent whose call is the innermost, and has failed to push somebody, *)
(* still claims the cell where the other one now stays.                    *)
OnStack(a) == \E i \in DOMAIN calls : calls[i].agent = a
Innermost(a) == calls # <<>> /\ Last(calls).agent = a
Deciding == pc = "plan" =>
  /\ decision = {next_states[a] : a \in Agents} \ {None}
  /\ \A a \in Agents : decided[a] # Loc(a) => next_states[a] = decided[a]
  /\ \A a \in Agents : next_states[a] # None =>
       /\ next_states[a] \in Steps(a)
       /\ \A b \in Agents \ {a} :
            /\ next_states[a] = next_states[b] => Innermost(a) \/ Innermost(b)
            /\ ~(next_states[a] = Loc(b) /\ next_states[b] = Loc(a))
       /\ Innermost(a) => \E b \in Agents \ {a} : next_states[b] = next_states[a]

(* An agent without a decision is in nobody's way unless it was pushed;    *)
(* one that was pushed is in the way of the agent that pushed it only.     *)
Pushing == pc = "plan" =>
  /\ \A a, b \in Agents :
       next_states[a] = None /\ ~OnStack(a) => next_states[b] # Loc(a)
  /\ calls # <<>> => calls[1].higher = None
  /\ \A i \in DOMAIN calls :
       /\ decided[calls[i].agent] = Loc(calls[i].agent)
       /\ \A b \in Agents \ {calls[i].agent} :
            next_states[b] = Loc(calls[i].agent) => b = calls[i].higher
       /\ i > 1 => /\ calls[i].higher = calls[i-1].agent
                   /\ next_states[calls[i-1].agent] = Loc(calls[i].agent)

(* What plan() returns takes an agent to the cell decided for it, or lets  *)
(* it stay.                                                                *)
ActionsFollowDecisions == pc = "act" =>
  /\ actions \in [Agents -> Action]
  /\ \A a \in Agents : result_state(curr_states[a], actions[a]).location
                         \in {Loc(a), decided[a]}

(* What all of this rests on.                                              *)
PibtInv == /\ SimulatorInv
           /\ PibtTypeOK
           /\ DecisionsAreSteps
           /\ NothingLeftOver
           /\ Deciding
           /\ Pushing
           /\ ActionsFollowDecisions
           /\ PlanIsValid

(* An agent gets to the cell decided for it: nobody stands in its way      *)
(* for ever.                                                               *)
DecisionsAreCarriedOut == \A a \in Agents : \A c \in Cells :
  decided[a] = c ~> Loc(a) = c
=============================================================================
