-------------------------- MODULE CompetitionSystem --------------------------
(***************************************************************************)
(* The simulation loop and the planner thread                              *)
(* (src/src/CompetitionSystem.cpp, src/src/Entry.cpp).  Each timestep the  *)
(* main thread syncs the shared environment, launches a planner thread or  *)
(* finds one still running, waits for it at most plan_time_limit, and      *)
(* passes what it got, or nothing, to the simulator and the task manager.  *)
(* The planner thread runs the default scheduler and then the planner on   *)
(* the shared environment, for as long as it takes.                        *)
(*                                                                         *)
(* The clock is not modelled: a wait may end before the thread does.  A    *)
(* plan moves the agents to any placement (an invalid one leaves them      *)
(* where they are); without a plan everybody waits.                        *)
(***************************************************************************)
EXTENDS DefaultScheduler

VARIABLES
  main,               \* point of simulate()/plan() reached while pc = "idle"
  started,            \* a planner thread has been launched and not joined
  thread,             \* what that thread does
  proposed_schedule,  \* the schedule it has computed
  env_schedule,       \* the shared environment's copies: curr_task_schedule,
  env_pool,           \* agent_assigned of the tasks in task_pool,
  env_states,         \* and curr_states
  discarded           \* history: some run's result was thrown away

env == <<env_schedule, env_pool, env_states>>
planning == <<main, started, thread, proposed_schedule, env, discarded>>
allvars == <<vars, planning>>

(* Slip: the copy of a task forgets which agent it was given to. *)
CopyStateUnassigned == /\ env_schedule' = current_assignment
                       /\ env_pool' = [t \in ongoing_tasks |-> NoAgent]
                       /\ env_states' = states

(* What sync_shared_env copies from the task manager and the simulator.    *)
CopyState == /\ env_schedule' = current_assignment
             /\ env_pool' = TaskPool
             /\ env_states' = states

SystemInit == /\ Init
              /\ main = "sync"
              /\ started = FALSE
              /\ thread = "none"
              /\ proposed_schedule = NoSchedule
              /\ env_schedule = current_assignment
              /\ env_pool = TaskPool
              /\ env_states = states
              /\ discarded = FALSE

-----------------------------------------------------------------------------
(* The main thread.                                                        *)

(* While a planner thread is out only curr_timestep is brought up to date. *)
SyncSharedEnv ==
  /\ pc = "idle" /\ main = "sync"
  /\ curr_timestep < SimulationTime
  /\ IF started THEN UNCHANGED env ELSE CopyState
  /\ main' = "plan"
  /\ UNCHANGED <<vars, started, thread, proposed_schedule, discarded>>

PreviousRunIsOver == ~started \/ thread = "ready"

(* A finished run that nobody has collected is thrown away, and the next   *)
(* one starts on the environment as that run left it.                      *)
PlanLaunch ==
  /\ pc = "idle" /\ main = "plan"
  /\ PreviousRunIsOver
  /\ thread' = "scheduling"
  /\ started' = TRUE
  /\ proposed_schedule' = NoSchedule
  /\ main' = "wait"
  /\ discarded' = (discarded \/ started)
  /\ UNCHANGED <<vars, env>>

(* Slip: the running thread is joined first. *)
PlanStillRunningJoin ==
  /\ pc = "idle" /\ main = "plan"
  /\ ~PreviousRunIsOver /\ thread = "ready"
  /\ main' = "wait"
  /\ UNCHANGED <<vars, started, thread, proposed_schedule, env, discarded>>

PlanStillRunning ==
  /\ pc = "idle" /\ main = "plan"
  /\ ~PreviousRunIsOver
  /\ main' = "wait"
  /\ UNCHANGED <<vars, started, thread, proposed_schedule, env, discarded>>

(* The future is ready in time: its result goes to the simulator, which    *)
(* moves the agents to at, and to the task manager.                        *)
PlanInTime ==
  /\ main = "wait" /\ thread = "ready"
  /\ \E at \in Placements : SetTaskAssignment(proposed_schedule, at)
  /\ started' = FALSE
  /\ thread' = "none"
  /\ main' = "sync"
  /\ UNCHANGED <<proposed_schedule, env, discarded>>

(* Slip: the agents move on without a plan. *)
PlanTimeoutMoving ==
  /\ main = "wait" /\ thread # "ready"
  /\ \E at \in Placements : SetTaskAssignment(NoSchedule, at)
  /\ main' = "sync"
  /\ UNCHANGED <<started, thread, proposed_schedule, env, discarded>>

(* It is not: the agents stay where they are and no schedule is proposed.  *)
PlanTimeout ==
  /\ main = "wait" /\ thread # "ready"
  /\ SetTaskAssignment(NoSchedule, states)
  /\ main' = "sync"
  /\ UNCHANGED <<started, thread, proposed_schedule, env, discarded>>

UpdateTasks == Loops /\ UNCHANGED planning

Main == \/ SyncSharedEnv \/ PlanLaunch \/ PlanStillRunning
        \/ PlanInTime \/ PlanTimeout \/ UpdateTasks

-----------------------------------------------------------------------------
(* The planner thread: Entry::compute.                                     *)

(* The scheduler marks the tasks it gives away in its own task pool, and   *)
(* update_goal_locations makes its schedule the current one.               *)
ComputeSchedule ==
  /\ thread = "scheduling"
  /\ \E p \in SchedulePlans(env_schedule, env_pool) :
       LET given == {a \in Agents : env_schedule[a] = NoTask} IN
       /\ proposed_schedule' = p
       /\ env_schedule' = p
       /\ env_pool' = [t \in DOMAIN env_pool |->
            IF \E a \in given : p[a] = t
              THEN CHOOSE a \in given : p[a] = t
              ELSE env_pool[t]]
  /\ thread' = "planning"
  /\ UNCHANGED <<vars, main, started, env_states, discarded>>

ComputeActions ==
  /\ thread = "planning"
  /\ thread' = "ready"
  /\ UNCHANGED <<vars, main, started, proposed_schedule, env, discarded>>

Planner == ComputeSchedule \/ ComputeActions

-----------------------------------------------------------------------------
SystemNext == Main \/ Planner

(* The main thread keeps running; the planner thread may hang.             *)
SystemSpec == SystemInit /\ [][SystemNext]_allvars /\ WF_allvars(Main)

(* The plan that a wait hands over was computed for the places where the   *)
(* agents are, however many timesteps it took: nobody has moved meanwhile. *)
PlanIsForCurrentStates == started => env_states = states

(* A task is marked as given and in nobody's hands only after some run's   *)
(* result was thrown away: schedules that come late, are cut short or are  *)
(* rejected do not lose tasks by themselves.                               *)
OrphansNeedADiscard == ~discarded => NoTaskOrphaned

(* Until then a schedule that serves every agent, made from the state of   *)
(* affairs, leaves one idle only when every ongoing task is in somebody's  *)
(* hands.                                                                  *)
WorkIsSharedOut == ~discarded => NoWorkLeftUndone

(* A schedule that is handed over, however late, fails the checks of the   *)
(* task manager for two causes only: it names a task that this very agent  *)
(* finished while the run was out, or it was cut short before an agent     *)
(* that has opened its task (or, after a discard, takes that task away).   *)
RefusedForCauseOnly == thread = "ready" =>
  LET p == proposed_schedule IN \A a \in Agents :
    /\ ~Repeated(p, a)
    /\ NotOngoing(p, a) =>
         \E i \in 1..Len(finished_tasks[a]) : finished_tasks[a][i] = p[a]
    /\ ~discarded /\ Reassigned(p, a) => \A b \in a..NumAgents-1 : p[b] = NoTask

(* The simulation comes to its end, though a planner run may never do.     *)
SimulationEnds == <>(pc = "idle" /\ curr_timestep = SimulationTime)
=============================================================================
