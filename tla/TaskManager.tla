----------------------------- MODULE TaskManager -----------------------------
(***************************************************************************)
(* The task manager of the simulator (src/src/TaskManager.cpp): it reveals *)
(* tasks, accepts or rejects the schedule proposed at each timestep, moves *)
(* the tasks forward as agents reach their errands, and credits finished   *)
(* tasks.  One call of update_tasks is set_task_assignment, one step per   *)
(* agent of the loop of check_finished_tasks, and one step per iteration   *)
(* of the loop of reveal_tasks; nothing else runs between these steps.     *)
(*                                                                         *)
(* A dereference of a null task (ongoing_tasks[t] of a task that has been  *)
(* erased) ends the program: pc = "crashed".  So may a schedule that is    *)
(* longer than the team.                                                   *)
(*                                                                         *)
(* An operator whose comment starts with "Slip:" is a wrong version of the *)
(* operator after it.  No specification uses it: it is there to see that a *)
(* property notices the difference.                                        *)
(***************************************************************************)
EXTENDS Integers, Sequences, FiniteSets

CONSTANTS NumAgents,        \* team size
          NumTasksReveal,   \* how many tasks are kept ongoing
          TaskFile,         \* the errand locations of each task of the problem
          Locations,        \* the cells agents can stand on
          MaxEntries,       \* bound: the entries of a proposal
          SimulationTime    \* timesteps to simulate: the bound of every run

ASSUME TaskManagerAssumption ==
  /\ NumAgents \in Nat \ {0}
  /\ NumTasksReveal \in Nat
  /\ SimulationTime \in Nat
  /\ MaxEntries \in Nat /\ MaxEntries >= NumAgents
  /\ TaskFile \in Seq(Seq(Locations)) /\ TaskFile # <<>>
  /\ \A i \in 1..Len(TaskFile) : TaskFile[i] # <<>>

Agents == 0..NumAgents-1
NoTask == -1
NoAgent == -1

(* The task file is read round and round: task t has the errands of its    *)
(* entry t % tasks.size().                                                 *)
Errands(t) == TaskFile[(t % Len(TaskFile)) + 1]
NumErrandsOf(t) == Len(Errands(t))

VARIABLES
  task_id,             \* the id of the next task to reveal
  idx_next_loc,        \* the errands visited, for each task revealed
  agent_assigned,      \* the agent last given each task revealed, or NoAgent
  ongoing_tasks,       \* ids of the tasks revealed and not finished
  current_assignment,  \* the task of each agent, or NoTask
  finished_tasks,      \* the tasks credited to each agent, in order
  num_of_task_finish,  \* how many tasks have been finished
  events,              \* <<agent, task, errands visited>>, one per visit
  actual_schedule,     \* per agent, its assignment each time it changed
  curr_timestep,
  states,              \* the locations the simulator reports for this step
  pc, k                \* the point of update_tasks reached, and its agent

tasks == <<task_id, idx_next_loc, agent_assigned, ongoing_tasks>>
logs == <<finished_tasks, num_of_task_finish, events, actual_schedule>>
vars == <<tasks, current_assignment, logs, curr_timestep, states, pc, k>>

TaskIds == 0..task_id-1
NextLoc(t) == Errands(t)[idx_next_loc[t] + 1]

(* The simulator keeps agents on distinct cells (module Simulator).        *)
Placements == {at \in [Agents -> Locations] :
                 \A a, b \in Agents : at[a] = at[b] => a = b}

Init == /\ task_id = 0
        /\ idx_next_loc = [t \in 0..-1 |-> 0]
        /\ agent_assigned = [t \in 0..-1 |-> NoAgent]
        /\ ongoing_tasks = {}
        /\ current_assignment = [a \in Agents |-> NoTask]
        /\ finished_tasks = [a \in Agents |-> <<>>]
        /\ num_of_task_finish = 0
        /\ events = <<>>
        /\ actual_schedule = [a \in Agents |-> <<>>]
        /\ curr_timestep = 0
        /\ states \in Placements
        /\ pc = "reveal"       \* BaseSystem::initialize calls reveal_tasks
        /\ k = NumAgents

-----------------------------------------------------------------------------
(* set_task_assignment and the validation it starts with.                  *)

(* The planner timed out: the schedule it was to fill is still empty.      *)
NoSchedule == <<>>

(* Any vector of task ids a scheduler may write, shorter or longer than    *)
(* the team too: ids of tasks never revealed are represented by the next   *)
(* one.                                                                    *)
Schedules ==
  {NoSchedule} \cup UNION {[0..n-1 -> NoTask..task_id] : n \in 1..MaxEntries}

(* Slip: any task id is taken for a task. *)
NotOngoingUnchecked(p, a) == FALSE
(* Slip: the set of the tasks seen is never filled. *)
RepeatedUnchecked(p, a) == FALSE

(* The first two checks of the loop body, for agent a of schedule p.       *)
NotOngoing(p, a) == p[a] # NoTask /\ p[a] \notin ongoing_tasks
Repeated(p, a) == p[a] # NoTask /\ \E b \in 0..a-1 : p[b] = p[a]

(* The third one reads the task the agent holds ...                        *)
Dereferenced(a) == current_assignment[a] # NoTask
NullTask(a) == Dereferenced(a) /\ current_assignment[a] \notin ongoing_tasks

(* Slip: an agent is taken to execute a task after two errands, not one. *)
ReassignedLate(p, a) == /\ Dereferenced(a)
                        /\ ~NullTask(a)
                        /\ idx_next_loc[current_assignment[a]] > 1
                        /\ p[a] # current_assignment[a]

(* ... and refuses to take an opened task away from its agent.             *)
Reassigned(p, a) == /\ Dereferenced(a)
                    /\ ~NullTask(a)
                    /\ idx_next_loc[current_assignment[a]] > 0
                    /\ p[a] # current_assignment[a]

Refused(p, a) == NotOngoing(p, a) \/ Repeated(p, a)

(* The loop over the agents ends at the first one that fails a check.      *)
ValidateReaches(p, a) ==
  \A b \in 0..a-1 : ~Refused(p, b) /\ ~NullTask(b) /\ ~Reassigned(p, b)

ValidateCrashes(p) ==
  /\ DOMAIN p = Agents
  /\ \E a \in Agents : ValidateReaches(p, a) /\ ~Refused(p, a) /\ NullTask(a)

Valid(p) ==
  /\ DOMAIN p = Agents
  /\ \A a \in Agents : ~Refused(p, a) /\ ~NullTask(a) /\ ~Reassigned(p, a)

(* Slip: only the first assignment of an agent is recorded. *)
ExtendedOnce(log, x) == IF log # <<>> THEN log ELSE Append(log, x)

Extended(log, x) ==
  IF log # <<>> /\ log[Len(log)] = x THEN log ELSE Append(log, x)

(* update_tasks begins: the simulator has moved the agents.                *)
BeginUpdate(at) ==
  /\ pc = "idle"
  /\ curr_timestep < SimulationTime
  /\ curr_timestep' = curr_timestep + 1
  /\ states' = at
  /\ k' = 0

(* An entry of -1 leaves the agent's assignment as it is.                  *)
AcceptAssignment(p, at) ==
  /\ BeginUpdate(at)
  /\ Valid(p)
  /\ current_assignment' = [a \in Agents |->
       IF p[a] = NoTask THEN current_assignment[a] ELSE p[a]]
  /\ agent_assigned' = [t \in TaskIds |->
       IF \E a \in Agents : p[a] = t
         THEN CHOOSE a \in Agents : p[a] = t
         ELSE agent_assigned[t]]
  /\ actual_schedule' = [a \in Agents |->
       Extended(actual_schedule[a], current_assignment'[a])]
  /\ pc' = "check"
  /\ UNCHANGED <<task_id, idx_next_loc, ongoing_tasks, finished_tasks,
                 num_of_task_finish, events>>

RejectAssignment(p, at) ==
  /\ BeginUpdate(at)
  /\ ~Valid(p) /\ ~ValidateCrashes(p)
  /\ pc' = "check"
  /\ UNCHANGED <<tasks, current_assignment, logs>>

(* planner_schedule has a list for each agent.  A schedule with more       *)
(* entries than that is written beyond its end before anyone looks at the  *)
(* size: undefined behaviour, which ends the program here or passes        *)
(* unnoticed, so that the schedule is rejected (RejectAssignment).         *)
OverrunsTeam(p) == NumAgents \in DOMAIN p

CrashInLog(p, at) ==
  /\ BeginUpdate(at)
  /\ OverrunsTeam(p)
  /\ pc' = "crashed"
  /\ UNCHANGED <<tasks, current_assignment, logs>>

CrashInValidate(p, at) ==
  /\ BeginUpdate(at)
  /\ ValidateCrashes(p)
  /\ pc' = "crashed"
  /\ UNCHANGED <<tasks, current_assignment, logs>>

SetTaskAssignment(p, at) == \/ AcceptAssignment(p, at)
                            \/ RejectAssignment(p, at)
                            \/ CrashInLog(p, at)
                            \/ CrashInValidate(p, at)

-----------------------------------------------------------------------------
(* check_finished_tasks: the body of its loop, for agent k.                *)

NextAgent == /\ pc = "check"
             /\ k' = k + 1
             /\ pc' = IF k + 1 = NumAgents THEN "reveal" ELSE "check"
             /\ UNCHANGED <<curr_timestep, states>>

Arrived(a) == /\ Dereferenced(a)
              /\ ~NullTask(a)
              /\ states[a] = NextLoc(current_assignment[a])

NotArrived == /\ NextAgent
              /\ ~NullTask(k) /\ ~Arrived(k)
              /\ UNCHANGED <<tasks, current_assignment, logs>>

CrashInCheck == /\ pc = "check"
                /\ NullTask(k)
                /\ pc' = "crashed"
                /\ UNCHANGED <<tasks, current_assignment, logs,
                               curr_timestep, states, k>>

VisitNextLoc(t) ==
  /\ idx_next_loc' = [idx_next_loc EXCEPT ![t] = @ + 1]
  /\ events' = Append(events, <<k, t, idx_next_loc[t] + 1>>)

(* Slip: a task counts as finished one errand too early. *)
LastErrandEarly(t) == idx_next_loc[t] + 2 >= NumErrandsOf(t)

LastErrand(t) == idx_next_loc[t] + 1 = NumErrandsOf(t)

OpenErrand == LET t == current_assignment[k] IN
  /\ NextAgent
  /\ Arrived(k)
  /\ ~LastErrand(t)
  /\ VisitNextLoc(t)
  /\ UNCHANGED <<task_id, agent_assigned, ongoing_tasks, current_assignment,
                 finished_tasks, num_of_task_finish, actual_schedule>>

(* Slip: the agent keeps the finished task. *)
FinishTaskKept == LET t == current_assignment[k] IN
  /\ NextAgent
  /\ Arrived(k)
  /\ LastErrand(t)
  /\ VisitNextLoc(t)
  /\ ongoing_tasks' = ongoing_tasks \ {t}
  /\ finished_tasks' = [finished_tasks EXCEPT
                          ![agent_assigned[t]] = Append(@, t)]
  /\ num_of_task_finish' = num_of_task_finish + 1
  /\ UNCHANGED <<task_id, current_assignment, agent_assigned, actual_schedule>>

(* The task is credited to agent_assigned, not to the agent that arrived.  *)
FinishTask == LET t == current_assignment[k] IN
  /\ NextAgent
  /\ Arrived(k)
  /\ LastErrand(t)
  /\ VisitNextLoc(t)
  /\ current_assignment' = [current_assignment EXCEPT ![k] = NoTask]
  /\ ongoing_tasks' = ongoing_tasks \ {t}
  /\ finished_tasks' = [finished_tasks EXCEPT
                          ![agent_assigned[t]] = Append(@, t)]
  /\ num_of_task_finish' = num_of_task_finish + 1
  /\ UNCHANGED <<task_id, agent_assigned, actual_schedule>>

-----------------------------------------------------------------------------
(* reveal_tasks.                                                           *)

(* Slip: one task too many is revealed. *)
PoolHasRoomForMore == Cardinality(ongoing_tasks) <= NumTasksReveal

PoolHasRoom == Cardinality(ongoing_tasks) < NumTasksReveal

RevealTask ==
  /\ pc = "reveal"
  /\ PoolHasRoom
  /\ task_id' = task_id + 1
  /\ idx_next_loc' = [t \in 0..task_id |->
                        IF t = task_id THEN 0 ELSE idx_next_loc[t]]
  /\ agent_assigned' = [t \in 0..task_id |->
                        IF t = task_id THEN NoAgent ELSE agent_assigned[t]]
  /\ ongoing_tasks' = ongoing_tasks \cup {task_id}
  /\ UNCHANGED <<current_assignment, logs, curr_timestep, states, pc, k>>

EndUpdate == /\ pc = "reveal"
             /\ ~PoolHasRoom
             /\ pc' = "idle"
             /\ UNCHANGED <<tasks, current_assignment, logs,
                            curr_timestep, states, k>>

(* The simulation is over, or the process is dead.                         *)
Stopped == /\ \/ pc = "idle" /\ curr_timestep = SimulationTime
              \/ pc = "crashed"
           /\ UNCHANGED vars

Loops == \/ NotArrived \/ OpenErrand \/ FinishTask \/ CrashInCheck
         \/ RevealTask \/ EndUpdate \/ Stopped

-----------------------------------------------------------------------------
(* Under any scheduler.                                                    *)
Next == \/ \E p \in Schedules, at \in Placements : SetTaskAssignment(p, at)
        \/ Loops

Spec == Init /\ [][Next]_vars

(* A careful scheduler has no entries beyond the team, and never gives a   *)
(* task that an agent holds to another agent while proposing nothing for   *)
(* its holder: nothing here would take the task away from the holder.      *)
Careful(p) ==
  /\ ~OverrunsTeam(p)
  /\ DOMAIN p = Agents =>
       \A a, b \in Agents :
         a # b /\ current_assignment[a] # NoTask /\ p[b] = current_assignment[a]
           => p[a] # NoTask

CarefulNext ==
  \/ \E p \in Schedules, at \in Placements :
       Careful(p) /\ SetTaskAssignment(p, at)
  \/ Loops

CarefulSpec == Init /\ [][CarefulNext]_vars
-----------------------------------------------------------------------------
(* What holds.                                                             *)

TypeOK ==
  /\ task_id \in Nat
  /\ idx_next_loc \in [TaskIds -> Nat]
  /\ agent_assigned \in [TaskIds -> Agents \cup {NoAgent}]
  /\ ongoing_tasks \subseteq TaskIds
  /\ current_assignment \in [Agents -> TaskIds \cup {NoTask}]
  /\ finished_tasks \in [Agents -> Seq(TaskIds)]
  /\ num_of_task_finish \in Nat
  /\ events \in Seq(Agents \X TaskIds \X Nat)
  /\ actual_schedule \in [Agents -> Seq(TaskIds \cup {NoTask})]
  /\ curr_timestep \in 0..SimulationTime
  /\ states \in [Agents -> Locations]
  /\ pc \in {"idle", "check", "reveal", "crashed"}
  /\ k \in 0..NumAgents
  /\ pc = "check" => k < NumAgents

Holds(a, t) == current_assignment[a] = t
Finished == TaskIds \ ongoing_tasks

(* The assignment in force never gives one task to two agents              *)
(* (validate_task_assgnment checks it of each proposal, not of the result).*)
OneAgentPerTask == \A a, b \in Agents :
  current_assignment[a] = current_assignment[b] /\ Dereferenced(a) => a = b

(* No agent is left with a finished task, which update_tasks would look up *)
(* in ongoing_tasks and dereference.                                       *)
HeldTaskIsOngoing == \A a \in Agents : ~NullTask(a)

(* No proposal takes the program down: each is accepted or rejected.  That *)
(* is so for careful schedulers (CarefulSpec); others can take it down by  *)
(* proposals that are too long, or that leave two agents with one task.    *)
NoCrash == pc # "crashed"

(* A task that an agent has opened stays in hand until it is finished, by  *)
(* the agent it will be credited to.                                       *)
OpenedTaskIsHeld == \A t \in ongoing_tasks :
  idx_next_loc[t] > 0 => /\ agent_assigned[t] # NoAgent
                         /\ Holds(agent_assigned[t], t)

(* numTaskFinished, the credits and the tasks gone from ongoing_tasks are  *)
(* the same tasks: each finished task is credited once, with all of its    *)
(* errands visited, and an ongoing one not at all.                         *)
Credits(t) ==
  UNION {{a} \X {i \in 1..Len(finished_tasks[a]) : finished_tasks[a][i] = t} : a \in Agents}

FinishedTasksCreditedOnce ==
  /\ \A t \in Finished : /\ Cardinality(Credits(t)) = 1
                         /\ idx_next_loc[t] = NumErrandsOf(t)
  /\ \A t \in ongoing_tasks : Credits(t) = {}
  /\ num_of_task_finish = Cardinality(Finished)

(* The events of a task are its errands so far, each of them once and in   *)
(* order, all of one agent: the one the task is credited to.               *)
OneAgentVisitsAllErrands ==
  /\ \A i \in DOMAIN events :
       LET t == events[i][2] IN /\ events[i][1] = agent_assigned[t]
                                /\ events[i][3] \in 1..idx_next_loc[t]
  /\ \A i, j \in DOMAIN events :
       i < j /\ events[i][2] = events[j][2] => events[i][3] < events[j][3]
  /\ \A t \in TaskIds : \A n \in 1..idx_next_loc[t] :
       \E i \in DOMAIN events : events[i][2] = t /\ events[i][3] = n

(* The result file's two accounts agree: an agent credited with a task     *)
(* has it in its actual schedule.                                          *)
ScheduleExplainsCredits == \A a \in Agents :
  \A i \in 1..Len(finished_tasks[a]) :
    \E j \in 1..Len(actual_schedule[a]) :
      actual_schedule[a][j] = finished_tasks[a][i]

(* Between timesteps exactly NumTasksReveal tasks are ongoing.             *)
PoolIsFull == pc = "idle" => Cardinality(ongoing_tasks) = NumTasksReveal

(* No step takes an opened task out of the hands of the agent that opened  *)
(* it, unless it finishes it.                                              *)
OpenedTasksStay == [][\A a \in Agents :
  Dereferenced(a) /\ ~NullTask(a) /\ idx_next_loc[current_assignment[a]] > 0
    => \/ current_assignment'[a] = current_assignment[a]
       \/ current_assignment[a] \notin ongoing_tasks']_vars

-----------------------------------------------------------------------------
(* The inductive invariant behind the properties of CarefulSpec.  It holds *)
(* after every step of the loops too, which is why it speaks of the agent  *)
(* that a task was last assigned to: that agent is what makes two holders  *)
(* of one task impossible.                                                 *)

AssignedToHolder == \A a \in Agents :
  Dereferenced(a) => agent_assigned[current_assignment[a]] = a

ErrandsVisitedAreInRange ==
  /\ \A t \in ongoing_tasks : idx_next_loc[t] < NumErrandsOf(t)
  /\ \A t \in Finished : /\ idx_next_loc[t] = NumErrandsOf(t)
                         /\ agent_assigned[t] \in Agents

CarefulInv == /\ AssignedToHolder
              /\ HeldTaskIsOngoing
              /\ OpenedTaskIsHeld
              /\ ErrandsVisitedAreInRange
              /\ NoCrash
=============================================================================
