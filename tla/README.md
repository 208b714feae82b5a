# Verification of the multi-agent simulator, its default planner and its servers

TLA+ models of the program in this repository, model-checked with TLC on small
instances and proved about with TLAPS. The repository is a simulator for lifelong
multi-agent path finding (the League of Robot Runners start kit) with a default
scheduler and planner, extended by a TCP planner server and an HTTP relay in front of
it. Paths below are relative to the repository root.

## 1. Inventory

| component | state it keeps | operations | interacts with |
|---|---|---|---|
| Task manager (`src/TaskManager.cpp`, `inc/TaskManager.h`, `inc/Tasks.h`) | ongoing tasks, assignment in force, agent of each task, errands visited, credits and event logs | `reveal_tasks`, `set_task_assignment` with `validate_task_assgnment`, `check_finished_tasks`, `update_tasks`, `sync_shared_env` | called by the simulation loop with the scheduler's proposal and the simulator's states |
| Default scheduler (`default_planner/scheduler.cpp`) | sets of free agents and tasks | `schedule_plan` under a time limit | reads and marks the shared environment |
| Simulation loop, entry, planner thread (`src/CompetitionSystem.cpp`, `src/Entry.cpp`) | the shared environment, the planner's future, `started` | `simulate`, `plan`, `plan_wrapper`, `sync_shared_env`, `Entry::compute` | one thread per planner run; the environment is shared with it |
| Simulator and action model (`src/Simulator.cpp`, `src/ActionModel.cpp`) | agents' states | `move`, `is_valid`, `result_states` | carries out the planner's actions |
| Default planner (`default_planner/planner.cpp`, `pibt.cpp`) | `decided`, `decision`, `prev_decision`, priorities: globals | `initialize`, `plan`, `causalPIBT`, `moveCheck` | called by the planner thread or by the planner server |
| EPIBT planner (`default_planner/epibt.cpp`) | the operation each agent has left from the plan before; reservations of this plan | `initialize`, `plan` with a deadline, `SelectOperation` | called by the planner session |
| Heuristics (`default_planner/heuristics.cpp`) | one resumable breadth-first search per goal and one per trajectory | `init_heuristic`, `get_heuristic`, `init_dist_2_path`, `get_dist_2_path` | scheduler and planners |
| Guide paths (`default_planner/flow.cpp`, `search.cpp`, `TrajLNS.h`) | trajectories, flow on edges | `add_traj`, `remove_traj`, `update_traj`, `frank_wolfe`, `astar` | default planner |
| Search data (`default_planner/heap.h`, `search_node.h`, `Memory.h`) | nodes by cell, binary heap of open ones | `push`, `pop`, `decrease_key` | the search for guide paths |
| Planner server (`src/PibtTcpServer.cpp`) | the client's socket, the planner's globals | accept loop, one thread per client: hello, plan_step, reset, shutdown | relay or game client |
| Planner session (`src/PlannerSession.cpp`, `src/UnityStartKitAdapter.cpp`) | environment of the session, initialised or not | `Initialize`, `Plan`, `Reset`, `ApplyAgents` | planner server, planners |
| HTTP relay (`app.py`) | connection of each session, one server process per connection | hello, plan-step, reset, shutdown, health with pruning | coroutines of one event loop; blocking exchanges in threads |
| TCP proxy (`tcp_proxy.py`) | one server process per connection | accept, forward both ways | game client, planner server |

Not modelled: TCP proxy, file logger, reading of maps and input files, evaluation, driver
and logs, Python bindings, smoke tests; section 6 says why.

What is hard in this code, and what makes each part correct:

* **Task manager.** A schedule is validated, but the assignment it *results in* is what
  matters: entries of -1 leave a task where it is. Correct means: one holder per task,
  an opened task stays with its agent, errands in order, each finished task credited
  once, nothing dereferences an erased task, the pool is refilled.
* **Simulation loop.** A planner run may end late, between two timesteps, or never; its
  result may be thrown away after it wrote to the environment it shares with the main
  thread. Correct means: plans are carried out from the states they were computed for,
  late runs do no harm to the task manager, the simulation ends.
* **Simulator.** Plans are data from outside; cells are indices, and the ends of two rows
  are neighbours as numbers. Correct means: no collision, no swap, no jump, whatever the
  plan.
* **Default planner.** Decisions outlive a timestep, because turning takes time; other
  agents plan around them, agents are held up. Correct means: no plan is refused by the
  simulator, decisions do not clash, and each is carried out.
* **EPIBT.** Operations of three actions are planned one agent after the other and
  inherited by the next plan; the deadline may cut the planning off anywhere. Correct
  means: a collision is planned only where an agent had no choice or no time, and what
  is inherited fits together if everybody did what it was told.
* **Heuristics and guide paths.** Searches stop and resume, traffic counts are changed
  by difference, a heap is ordered by a comparison that tosses coins. Correct means:
  distances are exact, counts are those of the trajectories, paths are cheapest.
* **Planner server.** The planners' data is global, sessions are local to a thread, and
  the main thread closes a client's socket while its thread works. Correct means: a
  session plans with its own data, answers fit the last hello, clients are served in turn.
* **Relay.** Handlers interleave at every `await`; exchanges time out while
  the server still works; processes die. Correct means: nobody is sent to a closed
  connection or given somebody else's answer, no process is forgotten, no request hangs.

`PROJECT.json` lists each hazard at its line with the properties that watch it, or the
reason why none does.

## 2. Modules

    TaskAllocation          what the task manager promises (abstract)
    TaskManager             the task manager under any scheduler, and under careful ones
    TaskManagerRefinement   the second implements the first
    DefaultScheduler        EXTENDS TaskManager: schedule_plan drives it
    CompetitionSystem       EXTENDS DefaultScheduler: simulation loop and planner thread
    Simulator               action model and simulator
    CausalPibt              EXTENDS Simulator: the default planner drives it
    GridDistance            EXTENDS Simulator: distances, by definition
    Heuristics              EXTENDS GridDistance: the tables that are to hold them
    Search                  EXTENDS Heuristics: nodes and heap
    GuidePaths              EXTENDS Search: trajectories, flow, search, replanning
    Epibt                   EXTENDS GridDistance: the EPIBT planner and its client
    PlannerServer           planner server, its clients' threads, sessions
    Relay                   HTTP relay and its server processes
    TaskManagerProofs       of the task manager, its schedulers, the simulation loop
    SearchProofs            of the heap, the distances and the tables
    GuidePathsProofs        EXTENDS SearchProofs: of the search and the guide paths
    SimulatorProofs, CausalPibtProofs, EpibtProofs, PlannerServerProofs, RelayProofs
    MCTaskManager, MCCompetitionSystem   tasks and cells for TLC

Operators whose comment starts with *Slip:* are wrong versions of the operator after
them. No specification uses them; `PROJECT.json` ("mutants") says which property notices
each.

**TaskManager.** Variables bear the names of the fields. A task is its id; what the code
keeps in `all_tasks[id]` is `idx_next_loc[id]` and `agent_assigned[id]`. One call of
`update_tasks` is a sequence of steps: `SetTaskAssignment` (validation, then
`AcceptAssignment`, `RejectAssignment`, or `CrashInValidate`); one step per agent of
`check_finished_tasks` (`NotArrived`, `OpenErrand`, `FinishTask`, `CrashInCheck`); one
per iteration of `reveal_tasks` (`RevealTask`, `EndUpdate`). A look-up of an erased task
yields a null pointer whose dereference is `pc = "crashed"`. `Spec` lets the scheduler
propose any vector of ids, shorter or longer than the team, or none (the planner timed
out). Entries beyond the team are written out of bounds before the size is looked at
(`OverrunsTeam`): that ends the program (`CrashInLog`) or passes unnoticed, and the
proposal is rejected. `CarefulSpec` restricts proposals to those that have no such
entries and do not give an agent's task to another agent while proposing nothing for
the first; `DefaultScheduler` and `CompetitionSystem` show that the default scheduler
is like that.

**DefaultScheduler.** `SchedulePlans(cur, pool)` is the set of schedules `schedule_plan`
can write, given copies of the assignment and of the tasks. Which free task is nearest
is left open. Out of time it stops at some agent; the entries from there on are -1, even
those of agents with a task.

**CompetitionSystem.** `main` is the point of `simulate()`/`plan()` reached, `thread`
that of the planner thread. `PlanLaunch` covers the case of a finished run that nobody
collected: it is thrown away (the history variable `discarded` remembers that), and the
next run starts on the environment as that run left it, because `sync_shared_env` copied
nothing while `started` was true. `PlanTimeout` may happen whenever the thread is not
ready, and only then. A schedule that serves everybody may name a task that its agent
finished while the run was out: it is refused, and `RefusedForCauseOnly` says that this,
and being cut short, are the only causes. The planner's actions are any move to distinct cells (what
`Simulator` guarantees).

**Simulator.** A plan is nothing or an action for each agent. `IsValid` and
`result_states` are the action model; an invalid plan makes everybody wait.

**CausalPibt.** `PlanBegin` is `plan()` up to line 222: decisions still to be carried out
are carried over. Then the recursion of `causalPIBT`, unrolled into a stack `calls`: one
step per iteration of its loop (`Claim`) or its end (`GiveUp`); a call that succeeds
makes its callers succeed, which is why `Claim` empties the stack when it pushes nobody.
`PlanEnd` derives actions and cancels moves (`moveCheck`, here the greatest set of agents
that can move together). Priorities, distances and random tie-breaks decide in what
order agents and cells are tried: all orders are checked. `Execute` hands the actions to
the simulator; `HeldUp` lets some or all agents wait instead (late plans, blocked
agents); `Report` is a client of the planner server that states where its agents are.

**Heuristics, Search, GuidePaths.** The other half of `plan()`: everything before the
calls of `causalPIBT`. A table is the code's (`cost`, `togo`, the queue `open`); `Asked`
resumes its search until the cell asked for is reached. `GuidePaths` steps through
`plan()`: `PlanBegin` (tables of new goals), `TaskChange` (one agent whose goal changed),
`FrankWolfeBegin` and `FrankWolfe` (replanning, in any order), and in between the search:
`Pop`, `Generate` (one neighbour), `FindPath`, `FindNoPath`. The heap operations of
`Search` are sets, because the comparison tosses a coin between equal nodes: `push`,
`pop` and `decrease_key` yield every heap the code may be left with. `Pibt` is what
`causalPIBT` asks of the tables, and `Report` the next report, of agents that went a step
or were moved elsewhere, with any goals. An agent without a goal, as the simulator has them, goes to where it was
at timestep 0 (`dummy_goals`); no table is begun for that, and a search without a table
goes by the Manhattan distance (`Estimate`). `Deadline` may come in any loop. `CausalPibt` and `GuidePaths` share no variable but the agents' states:
guidance only orders the cells that `CausalPibt` tries, and it tries them in any order.

**Epibt.** `PlanAgent` is one iteration of `plan()`'s loop, with the scores of the code
in exact integers; `next_prev_operations` are the reservations too. `Deadline` leaves
the rest without an operation. The client then carries the first actions out (`Execute`),
holds some agents up (`HeldUp`), reports agents elsewhere (`Report`: the operations they
had left are kept), or says hello again (`Initialize`), and names any goals.
The breadth-first distances EPIBT uses are the defined ones (`distance`); that such a
search computes them is what `GuidePaths` checks of `Heuristics`.

**PlannerServer.** The main thread (`Accept`, `Start`) and the thread of each client:
`Read` or `ReadFails`, the work on a request (`HelloBegin`/`HelloEnd`, `PlanBegin`/
`PlanEnd`, `Reset`, `Plain`), `Write` or `WriteFails`. `socket` tells whether the client
left or the server shut the socket; an exception in a thread ends the process. So does
`exit(1)` in the default planner's search: a "lost_step" is a plan_step that names a free
cell that cannot be reached for a goal, which `ApplyAgents` lets pass, or no agents at
all (`count % 0` in `frank_wolfe`), and may end in `PlanExits` instead of an answer. Work
on the planners' global data has a beginning and an end, so that another thread could come
in between.

**Relay.** One step is what a handler does between two awaits, or one part of an
exchange in its thread (`Send`, `Receive`, `ExchangeFails`). Requests are numbered; the
connection and process made by a hello bear its number. `Serve` and `ServerDies` are the
planner server as seen from here. `reset` goes as a "step". The history variable
`overlapped` holds the sessions whose client sent a request while it had another one
open.

## 3. Runs

| run | specification, bounds | states | shows |
|---|---|---|---|
| `any_scheduler` | `Spec`: 2 agents, 3 cells, 2 ongoing tasks, 4 timesteps, proposals of up to 3 entries | 65,412 | types; each finished task credited exactly once; the pool is full between timesteps, whatever is proposed |
| `careful_scheduler` | `CarefulSpec`, same | 44,606 | refinement of `TaskAllocation`; one holder per task; an opened task is held; no crash; the events and the schedules in the result file explain the credits |
| `no_crash` | `Spec`, same | | **violated**: see findings |
| `competition_system` | `SystemSpec`: 3 agents, 2 ongoing tasks, 3 timesteps | 38,371 | with late, discarded, cut-off and hanging runs: still careful; plans fit the current states; what is handed over, however late, is refused for cause only; no task is orphaned, and no agent idle with a task free, until a run is thrown away; the simulation ends |
| `system_no_task_orphaned` | `SystemSpec`: 2 agents, 2 ongoing tasks, 4 timesteps | | **violated**: see findings |
| `simulator` | 3 agents, 2x3 cells with an obstacle, all plans | 3,840 | safety of every plan; no swaps; moves go ahead only |
| `causal_pibt` | `TimelySpec`: 3 agents, 2x2 cells, unbounded time | 37,362 | plans are valid, decisions apart, each is carried out |
| `causal_pibt_server` | `ServerSpec`: 2 agents, 2x2 cells | | **violated**: see findings |
| `guide_paths` | 2 agents, 2x4 cells with 3 obstacles, one goal or none, reports of one step or of one agent anywhere, 2 calls of `plan()`, 1 replanning round each | 396,287 | the search tree, heap and trajectories fit together; tables are exact; flow counts are those of the trajectories; the search closes nodes in the order of their cost; new paths are the cheapest; agents served before the deadline have a path to their goal; the program exits for unreachable goals only |
| `epibt` | 2 agents on three cells of a 2x2 map, 2 goals, reports that move one agent elsewhere, unbounded time | 154,154 | collisions are planned only when forced; inherited operations fit together; nothing for the session to correct; agents left alone come to rest |
| `planner_server` | 2 clients, 3 requests of any kind | 259,600 | sessions plan with their own data; answers follow the last hello or reset; who sends reset or shutdown and leaves does no harm; only a client that leaves before another answer, or a goal that cannot be reached, ends the process; every client is served |
| `relay` | 2 sessions, 3 requests, any overlap | 128,007 | no closed connection is registered; processes are kept track of and answers belong to their requests for clients that wait; every request ends |

Bounds. *Tasks*: the file has a task with two errands at two cells, one with two errands
at one cell (finished while everybody waits) and one with one errand; four timesteps are
enough to reveal, open, finish and replace tasks and to read the file round again, and
for a run to be launched late, discarded and launched anew. Two agents suffice for a
task to be held twice; three with two tasks for one to be left without a task, with
three timesteps enough for a run that is discarded and its successor's hand-over.
*Grid*: three agents on four cells are the tightest case in which anything moves:
pushes, failed pushes, chains all occur; four agents on 2x2, three on 2x3, and three on
2x3 with an obstacle were also checked for the safety properties. *EPIBT*: two agents in
an L of three cells meet in every way, and block each other; the operations inherited
reach over three plans, which are unbounded in number; one agent moved elsewhere meets
what the other one has left, and two goals are two ways to go. *Guide paths*: the map
has a ring, so that there are two ways and traffic matters, and a cell that is cut off,
so that goals can be unreachable; two agents give every search the other's traffic; the
second call of `plan()` finds tables, trajectories and flow left by the first, and
agents that went a step, or one that is anywhere (`MaxMoved`; all at once were checked
too). The goal is in the ring; agents without one go home, to any cell, so that goals
differ and may lie across the gap. On an open 3x3 map, where the heap holds more nodes
and many of equal cost, `TablesInOrder` and `BestFirst` were also checked for one call
with one goal. *Planner server*: two clients are one that is cut off and one that comes
after it; three requests are hello, plan and whatever comes between. *Relay*: hello, a
request that times out, and a hello or request that overtakes it need three requests.
`MaxEntries` allows one entry more than the team has, the first that is out of bounds.
`SimulationTime`, `MaxEntries`, `MaxTimestep`, `MaxRounds`, `MaxMoved`, `MaxClients` and
`MaxRequests` are the only bounds in guards.

Deadlock is checked except where a behaviour really ends: `relay` and `planner_server`
when the requests are used up (or the process has ended), `guide_paths` after the last
call of `plan()` or at the `exit(1)` of the search. `Stopped` in `TaskManager` is the
end of a simulation or of the process.

Fairness. `CompetitionSystem`: weak fairness of the main thread only, which waits with a
time limit and otherwise just runs; the planner thread may hang for ever. `Relay`: weak
fairness of each request's handler: connecting, sending and receiving all have timeouts,
so a handler always goes on; nothing is assumed of the servers. `PlannerServer`: weak
fairness of the main thread and of each client's thread while it is not waiting for its
client, so planners return or end the process (both have a deadline or terminate); nothing is assumed of the
clients, who may say nothing for ever. `Epibt`: `plan()` returns, if only at its
deadline, and the client asks again; `AllComeToRest` further supposes that agents are no
longer held up. `CausalPibt` (`TimelySpec`): weak fairness of `plan()`, which is a
terminating loop, and strong fairness of `Execute`: the actions may come too late or
agents be held up any number of times, but not from some time on always. That last
assumption is about the machine's speed and not enforced by the code; only
`DecisionsAreCarriedOut` rests on it.

## 4. Findings

* `no_crash` (`src/TaskManager.cpp:73`, `:96`). An entry of -1 leaves the agent's task in
  place, so "-1 for its holder, the task for another" passes validation and leaves the
  task with both. When one finishes it, the other's look-up yields a null pointer. The
  default scheduler never proposes this; a user's scheduler may.
* `system_no_task_orphaned` (`src/CompetitionSystem.cpp:86`). A discarded run leaves its
  own schedule in the environment, with -1 for agents that the time limit cut off. The
  next run gives such an agent a new task; the old one stays marked as given to it and is
  skipped by the scheduler for ever. `OrphansNeedADiscard` shows that nothing else
  orphans a task.
* `causal_pibt_server` (`default_planner/planner.cpp:166`). A decision from before agents
  were moved from outside is kept if its cell is still adjacent; the agent that stands
  there now may be sent to the first one's cell, and both actions are FW: a swap.

Met while modelling, and not turned into runs of their own:

* A proposal with more entries than there are agents is written beyond the end of
  `planner_schedule` (`src/TaskManager.cpp:55-61`) before its size is checked (line 11).
  The default scheduler never proposes this; a user's scheduler may (`CrashInLog`).
* A client of the planner server that asks the default planner for a goal that cannot be
  reached ends the process, with all sessions (`default_planner/search.cpp:159`,
  `PlanExits`): `ApplyAgents` only checks that the goal is a free cell.
* A schedule that serves every agent is refused if it is handed over late and an agent
  has finished its task meanwhile (`src/TaskManager.cpp:22`); the simulation goes on
  with the assignment in force (`RefusedForCauseOnly`).
* `src/PlannerSession.h:37` says "Falls back to all-Wait on timeout or planner error."; a
  plan that is late is returned as it is, marked `timeout` (`src/PlannerSession.cpp:251`).
* The lock of `app.py:17-18` is to keep one request at a time at a server; it is released
  when an exchange times out, while the server still works on the request. A later answer
  then waits in the connection; it is never read only because the handler removes the
  connection (`AnswerIsMine`).
* EPIBT agents that do what they are told stop after three actions, short of their goals
  too: the inherited operation always ends in a wait and is preferred to any other
  whatever its score (`AllComeToRest` states it). They move on only after being held up,
  or where the inherited operation meets a reservation.

## 5. Proofs

For every team, grid, task file, length of simulation, and number of clients, sessions
and requests:

| theorem | says |
|---|---|
| `TypeCorrect`, `PoolStaysFull`, `TasksAreCreditedOnce` | under any scheduler: types; the pool is full between timesteps; each finished task is credited exactly once |
| `CarefulInvariant`, `CarefulOneAgentPerTask`, `CarefulNoCrash`, `CarefulOpenedTaskIsHeld` | under careful schedulers: one holder per task, no crash, opened tasks are held |
| `CarefulOpenedTasksStay` | no step takes an opened task away |
| `CarefulVisits`, `CarefulScheduleExplainsCredits` | the two accounts of a credit, events and schedule, agree with it |
| `CarefulImplementsAllocation` | `CarefulSpec` implements `TaskAllocation` |
| `DefaultSchedulerCorrect` | the default scheduler, when it answers at once, is careful, orphans no task, and its complete schedules are valid |
| `SystemIsCareful`, `SystemPlansWhereAgentsAre`, `SystemIsSafe` | the whole simulation drives the task manager carefully; plans fit the states; no double holder, no crash |
| `SystemSharesWork`, `SystemWorkIsSharedOut` | the whole simulation orphans no task until a run is thrown away, and until then its complete schedules, made from the state of affairs, leave no agent idle while a task is free |
| `SystemSharesWork`, `SystemRefusesForCause` | what is handed over, however late, is refused only where its own agent finished the task meanwhile or it was cut short |
| `SystemAccountsAreRight` | events and schedules explain the credits of the whole simulation |
| `SimulatorSafe`, `SimulatorNoSwap`, `SimulatorMovesAhead` | the simulator's safety |
| `PibtIsInductive`, `PibtPlansAreValid`, `PibtDecisionsApart` | no plan of the default planner is refused; decisions do not clash, and the table is clean |
| `PibtRunsTheSimulator` | the default planner's simulation is one of `Simulator`: its theorems hold of it |
| `GuideIsInductive`, `GuidesLead`, `FlowCounts` | the search tree, its heap and the trajectories; served agents have one to their goal; the traffic is that of the trajectories |
| `TablesAreSearched`, `TablesExact` | every table, begun, asked and interrupted anywhere, can be searched on and holds exact distances |
| `SearchesBestFirst`, `ExitsRightly` | the search closes nodes in the order of their cost; the program exits for unreachable goals only |
| `GuidesCheapest` | a new path goes from where the agent stands to its goal, and none costs less in the traffic of the others |
| `EpibtIsInductive`, `EpibtCollisionsAreForced`, `EpibtInheritedPlansHold` | operations stay on the map; collisions are planned only when forced; inherited operations fit together |
| `ServerIsInductive`, `ServerPlansOnItsOwnData`, `ServerFireAndForget` | sessions plan with their own data; answers follow the last hello or reset; only a client that leaves before another answer, or one with a goal that cannot be reached, ends the process |
| `RelayIsInductive`, `RelayKnowsItsProcesses`, `RelayAnswersAreMine` | no closed connection is registered; no process is lost and no answer confused, for clients that wait |

*The task manager's invariant.* That no task has two holders is not inductive: a step
could give a held task to another agent. `CarefulInv` says instead that an agent's task
was *last assigned* to that agent (`AssignedToHolder`): since a task has one
`agent_assigned`, two holders are impossible, and the field is overwritten exactly when
a proposal is accepted. For the step to keep it, proposals must be careful: if the task
is given away, its old holder must get another entry. The rest of the invariant carries the
crash freedom (`HeldTaskIsOngoing`: the finishing agent is the only holder, so nobody
else is left with an erased task), and the refinement (`OpenedTaskIsHeld`,
`ErrandsVisitedAreInRange`).

*Credits.* `TasksAreCreditedOnce` is about any scheduler, where two agents may hold one
task. It needs only that a task in somebody's hands was assigned to an agent
(`HoldersAreAssigned`): the credit goes to that one, whoever of the holders finishes, and
the other's look-up fails before it could be credited again. Credits and events are
counted as positions in the lists the code appends to; the inductive step of
`CarefulVisits` is that the next errand is opened by the task's holder, who is the agent
of all the events before it because opened tasks stay.

*The system.* `SystemInv` relates the scheduler's copies to the task manager: an agent
without a task in a copy, and a task without an agent in a copy, are handed over in a
way that stays careful though the copy may be stale, because between launch and
hand-over the task manager can only take tasks away from agents. From it every step of
`SystemNext` is a step of `CarefulNext` or leaves the task manager alone; so whatever is
proved of `CarefulSpec` holds of the simulation.

`SystemSharesWork` needs a second invariant, `OrphanInv`: until the first discard, no
task is orphaned, and the schedule a planner run starts from, and the one it writes, leave
every agent the task it holds. A run that is collected hands over what it wrote; one that
is thrown away leaves its schedule, with the entries the time limit cut off, to the next
run, and that is the finding above.

Its last conjunct, `RefusedForCauseOnly`, needs a third one, `CauseInv`: of the schedule a
run starts from and of the one it writes, every task is ongoing or finished by its agent
(`EnvIsAccounted`, `ProposalIsAccounted`: only the holder can finish it, since the task
manager is driven carefully), and until the first discard whoever has opened a task finds
it in the schedule or the schedule was cut short before (`CutShort`).

*The simulator.* `SimulatorInv` is inductive. `SimulatorMovesAhead` has the hypothesis
`Cols >= 2`, which is necessary: on a map of one column the adjacency test accepts an
eastward move, which goes one row down. The proof rests on the uniqueness of quotient
and remainder (`DivisionUnique`).

*The default planner.* `PlanIsValid` speaks of the end of `plan()`; `PibtInv` says what
holds in between. `Deciding` relates the calls on the stack to the decision table: of the
agents decided so far no two go to one cell or change places, except that the innermost
caller, just after the agent it pushed has failed, still claims the cell where that
agent now stays; `GiveUp` and the next `Claim` end that. `Pushing` says that an
undecided agent is in nobody's way but that of the one that pushed it: that is why a
failing agent may always stay. `DecisionsAreSteps` and `NothingLeftOver` carry this over
the turns of several timesteps, and `ActionsFollowDecisions` through `moveCheck`: an
agent moves on only if whoever stands in the cell it wants moves on as well. The
greatest set of agents that can move together exists because the union of two such sets
is one.

*Guide paths.* `GuideInv` says that a node's parent is closed and one step nearer to the
start (`SearchTree`). It is inductive because only open nodes change parents
and only closed ones are parents. The path read off over the parents then goes from
neighbor to neighbor and, since `g` grows along it, nowhere twice (`PathToIsAWay`,
`WaysAreSimple`), so that each edge of it counts once (`EdgesOnce`), and the differences
that `add_traj` and `remove_traj` apply are those of a set of agents (`CountOneMore`). The
heap is a rearrangement of the open nodes whatever the coins say (`RaisedRearranges`,
`SunkRearranges`: the positions of a lineage are permuted).

*Tables.* That a table is exact is not inductive: its search may stop anywhere and has to
go on from its queue. `BreadthFirst` says what the queue must be like: reached cells hold
their distance, those not in the queue have only reached neighbors, and the distances of
the queue rise, by one at most (`ExpandInOrder`). A cell that is not yet reached is then
at least as far as the first of the queue is (`NoneLeftBehind`). Distances are the defined
ones (`DistanceFromIs`: the balls around a set of cells grow until nothing is left to
reach, and after as many steps as there are cells nothing is, since every step adds one).
For a trajectory the sources are its cells, and each entry leads to a nearest one
(`LeadsToWay`). Questions are asked cell by cell, from four places; each keeps whatever
`Asked` keeps (`AskingGoesOn`, `AroundKeeps`).

*The search.* `BestFirst` has the two halves of the classical argument. Nodes hold their
real cost, and their `h` is the exact distance, which falls by one at most in a step that
costs one at least (`Consistent`, `StepsCost`: traffic is never negative, which is
`FlowCounts`). So a neighbor is never cheaper in all than the node it was reached from
(`NextNodeIsDearer`); closed nodes are not met again by a better way (`NoneReopens`), and
the exit for that case is dead code. And the first node of the heap is a cheapest one
(`FirstIsLeast`), because `push`, `decrease_key` and `pop` keep the order by cost from
parent to child, whatever the ties and the tie breakers (`UpOrders`, `PopOrders`). Without
open nodes everything that can be reached is closed (`NothingOpen`), so that the goal
cannot be. When the goal comes first, any other way to it either runs over closed nodes,
which hold cheaper ways, or leaves them over an open node, which costs no less in all
(`NoneCheaper`); and the way over the parents costs what its last node says (`WaysCost`).

*EPIBT.* `ConflictsAreFallbacks` holds after each agent, not only at the end: two
selected paths conflict only if one of the two agents waits because nothing else was
left to it. It survives the next selection because that avoids all reservations or is
itself such a wait. `SelectedAreValid` gives `NothingToSanitize`.

*Planner server.* That a thread plans with data of its own session is not inductive: it
depends on which threads there are. `ClientsInTurn` says that only the
current client has a thread that has not ended: those in the backlog, and the one just
accepted, have none yet.
`SessionsHaveTheirData` and `ClientsKnowTheirSession` then relate session, answer and
planner data, whichever request a thread is at; `GoneWaitersAreCutOff` is what
`ServerFireAndForget` needs.

*Relay.* `ConnectionsAreOfHellos` and `RegisteredIsOpen` hold for any overlap of
requests. That answers are not confused needs clients that wait: for those, one request
at a time uses a connection (`OneAtATime`), and what is on the way belongs to it
(`NothingStaleOnTheWay`): a handler whose exchange timed out has closed or forgotten
the connection before the next request can find it.

*Loops and recursion.* Recursive functions over numbers are reasoned about by hand:
the least number at which something fails (`LeastNumber`, from well-foundedness), from it
induction up to a bound (`UpTo`), and from that the existence of a loop's run
(`Loop`), which makes the `CHOOSE` that a recursive definition stands for a fixpoint.

Assumptions: `TaskManagerAssumption` (a non-empty team, every task has an errand, and the
bound `MaxEntries` on proposals is no less than the team) and
`SimulatorAssumption` (a non-empty grid), as the problem files must satisfy; the agents
start on distinct cells, which the code does not check. `CausalPibtAssumption`, and the
hypothesis of `EpibtIsInductive`, `Cols >= 2`: on a map of one column the planners'
orientation arithmetic takes south for east, see above. `GuidePathsAssumption`, `EpibtAssumption`: goals are
free cells. `TablesExact`, `SearchesBestFirst`, `ExitsRightly` and `GuidesCheapest` suppose
that the map has fewer cells than `MAX_TIMESTEP`, which is `INT_MAX/2`: the code uses it
for the distance of a cell that was not reached. `PlannerServerAssumption`, `RelayAssumption`: bounds are numbers, as is `MaxMoved`.

Model-checked only: liveness, which is out of the prover's reach under fairness:
`SimulationEnds`, `RequestsEnd`, `EveryClientIsServed`, `DecisionsAreCarriedOut`,
`AllComeToRest`. Every other property of a passing run is stated by a theorem. Numbers are
those of mathematics, in the proofs as in the models: costs in the code are ints, and
traffic so heavy that they overflow is not considered.

## 6. Not modelled, and the limits of what is

* Statistics and output (`solution_costs`, `planner_schedule`, error lists, result file)
  are left out unless a property is about them. The main thread's unsynchronised read of
  `goal_locations` while a planner run is out feeds statistics only.
* What an out-of-bounds write to `planner_schedule` may do besides ending the program or
  passing unnoticed: it is undefined behaviour, and might change anything.
* Preprocessing and its time limit.
* The scheduler's choice of the nearest task and its sum of distances, which would
  overflow for a task with three unreachable errands.
* `CausalPibt` and `GuidePaths` keep the team fixed; a client that changes it makes
  `plan()` start afresh. The order of replanning rounds is left open.
* The planner session's contents: traces, messages, the timeout flag, and the fallback
  answer after a report that fails half way (it names stale cells for agents not reached;
  the next report overwrites them before anyone plans). Requests whose fields have the
  wrong type.
* Relay: ports, probing for readiness, message contents; that a server blocks once the
  pipes of its output are full, since nobody reads them (what follows, a timeout and the
  end of the session, is modelled).
* `ProcessesAreKnown` and `AnswerIsMine` hold for clients that wait for each answer before
  their session's next request. Without that, two hellos of one session at once lose a
  process, and a failing plan-step may remove a newer connection. A connection that
  fails right after its server came up leaks the process (`ConnectLeaks`), which
  `ProcessesAreKnown` leaves out.
* TCP proxy (`tcp_proxy.py`): it copies bytes between one client and one server of its
  own, and ends the server with the client. To the server its probe and its connection
  are clients that come and leave at any time, which `PlannerServer` has.
* File logger (a file behind a mutex), reading of maps and input files, evaluation,
  driver and logs (pure input and output), Python bindings (glue without logic of its
  own), smoke tests (read for what they promise), the vendored JSON library.

## 7. Plan

1. `TaskManager` with its abstraction, scheduler, simulation loop; their proofs. *Done.*
2. `Simulator` and proofs; `CausalPibt`. *Done.*
3. `Relay`; `PlannerServer` with the session. *Done.*
4. `Heuristics`, `Search`, `GuidePaths`; `Epibt`. *Done.*
5. Proofs of the safety invariants of each component. *Done.*
6. `TablesAreExact`, `ExitsForNoPathOnly`, `GuidesAreCheapest`: exact tables, a search in
   the order of cost, cheapest paths. *Done.*

The project keeps its runs few: a new component shares a run with one it composes with,
or replaces a run that asks less.
