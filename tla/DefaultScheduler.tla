--------------------------- MODULE DefaultScheduler ---------------------------
(***************************************************************************)
(* The default scheduler (src/default_planner/scheduler.cpp) and the task  *)
(* manager it works for.  The scheduler sees copies of the ongoing tasks   *)
(* and of the current assignment.  It keeps what an agent has, and gives   *)
(* an agent without a task one that no agent was given; which one is a     *)
(* matter of distances, left open here.  It may run out of time between    *)
(* two agents, or between two tasks: the agents from there on get nothing, *)
(* not even the task they hold.                                            *)
(***************************************************************************)
EXTENDS TaskManager

(* env->task_pool: the tasks the scheduler sees, with their agent_assigned *)
TaskPool == [t \in ongoing_tasks |-> agent_assigned[t]]

(* Slip: the tasks that agents hold already are offered as well. *)
TasksLeftOrHeld(p, a, cur, pool) ==
  DOMAIN pool \ {p[b] : b \in {b \in 0..a-1 : cur[b] = NoTask}}
(* Slip: a task given is not marked as given in env->task_pool. *)
TasksLeftUnmarked(p, a, cur, pool) == {t \in DOMAIN pool : pool[t] = NoAgent}

(* The tasks left for agent a, the agents before it being served by p.     *)
TasksLeft(p, a, cur, pool) ==
  {t \in DOMAIN pool : pool[t] = NoAgent}
    \ {p[b] : b \in {b \in 0..a-1 : cur[b] = NoTask}}

(* Slip: an agent that has a task is given another one. *)
ServesAnew(p, m, cur, pool) ==
  /\ \A a \in 0..m-1 :
       LET left == TasksLeft(p, a, cur, pool) IN
       IF left = {} THEN p[a] = cur[a] ELSE p[a] \in left
  /\ \A a \in m..NumAgents-1 : p[a] = NoTask

(* Slip: an agent may come away with nothing although tasks are left. *)
ServesLazily(p, m, cur, pool) ==
  /\ \A a \in 0..m-1 :
       IF cur[a] # NoTask THEN p[a] = cur[a]
       ELSE p[a] \in {NoTask} \cup TasksLeft(p, a, cur, pool)
  /\ \A a \in m..NumAgents-1 : p[a] = NoTask

(* p serves agents 0..m-1.                                                 *)
Serves(p, m, cur, pool) ==
  /\ \A a \in 0..m-1 :
       LET left == TasksLeft(p, a, cur, pool) IN
       IF cur[a] # NoTask THEN p[a] = cur[a]
       ELSE IF left = {} THEN p[a] = NoTask
       ELSE p[a] \in left
  /\ \A a \in m..NumAgents-1 : p[a] = NoTask

Proposals(cur, pool) ==
  [Agents -> {NoTask} \cup DOMAIN pool \cup {cur[a] : a \in Agents}]

(* What schedule_plan proposes when it serves every agent, and in general. *)
CompletePlans(cur, pool) ==
  {p \in Proposals(cur, pool) : Serves(p, NumAgents, cur, pool)}
SchedulePlans(cur, pool) ==
  {p \in Proposals(cur, pool) : \E m \in 0..NumAgents : Serves(p, m, cur, pool)}

DefaultNext ==
  \/ \E p \in {NoSchedule} \cup SchedulePlans(current_assignment, TaskPool),
        at \in Placements : SetTaskAssignment(p, at)
  \/ Loops

DefaultSpec == Init /\ [][DefaultNext]_vars

-----------------------------------------------------------------------------
(* A task marked as given to an agent is in that agent's hands: were it    *)
(* not, schedule_plan would never offer it again.                          *)
NoTaskOrphaned == \A t \in ongoing_tasks :
  agent_assigned[t] # NoAgent => Holds(agent_assigned[t], t)

(* A schedule that serves every agent, made from the state of affairs and  *)
(* handed over at once, is accepted.  One that comes late need not be: see *)
(* RefusedForCauseOnly in CompetitionSystem.                               *)
CompletePlanIsValid == pc = "idle" =>
  \A p \in CompletePlans(current_assignment, TaskPool) : Valid(p)

(* Made from the state of affairs, it leaves an agent idle only when every *)
(* ongoing task is in somebody's hands.                                    *)
NoWorkLeftUndone == pc = "idle" =>
  \A p \in CompletePlans(current_assignment, TaskPool) :
    (\E a \in Agents : p[a] = NoTask)
      => \A t \in ongoing_tasks : \E a \in Agents : p[a] = t
=============================================================================
