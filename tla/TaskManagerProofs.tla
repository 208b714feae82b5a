-------------------------- MODULE TaskManagerProofs --------------------------
(***************************************************************************)
(* Proofs about the task manager, for every team size, task file, number   *)
(* of tasks kept ongoing and simulation time; and about the simulation     *)
(* loop, which drives it as a careful scheduler does, whatever the timing  *)
(* of its planner thread.                                                  *)
(***************************************************************************)
EXTENDS TaskManagerRefinement, CompetitionSystem, FiniteSetTheorems, TLAPS

(* The agents form a non-empty interval that does not contain NoAgent.     *)
LEMMA AgentsFacts ==
  /\ 0 \in Agents
  /\ \A a \in Agents : a \in Nat /\ a < NumAgents
  /\ NoAgent \notin Agents
BY TaskManagerAssumption DEF Agents, NoAgent

(* A sequence over a set is one over any larger set.                       *)
LEMMA SeqMonotone ==
  ASSUME NEW S, NEW T, S \subseteq T, NEW s \in Seq(S)
  PROVE  s \in Seq(T)
OBVIOUS

(* The log of an agent's schedule stays a sequence.                        *)
LEMMA ExtendedType ==
  ASSUME NEW S, NEW s \in Seq(S), NEW x \in S
  PROVE  Extended(s, x) \in Seq(S)
BY DEF Extended

(* Visiting an errand keeps the types of the two variables it changes.     *)
LEMMA VisitType ==
  ASSUME TypeOK, NEW t \in TaskIds, k \in Agents, VisitNextLoc(t)
  PROVE  /\ idx_next_loc' \in [TaskIds -> Nat]
         /\ events' \in Seq(Agents \X TaskIds \X Nat)
<1>1. idx_next_loc' \in [TaskIds -> Nat]
  BY DEF TypeOK, VisitNextLoc
<1>2. <<k, t, idx_next_loc[t] + 1>> \in Agents \X TaskIds \X Nat
  BY DEF TypeOK
<1>3. events' \in Seq(Agents \X TaskIds \X Nat)
  BY <1>2 DEF TypeOK, VisitNextLoc
<1> QED BY <1>1, <1>3

LEMMA TypeInit == Init => TypeOK
<1> SUFFICES ASSUME Init PROVE TypeOK
  OBVIOUS
<1>1. TaskIds = {}
  BY DEF Init, TaskIds
<1>2. states \in [Agents -> Locations]
  BY DEF Init, Placements
<1>3. finished_tasks \in [Agents -> Seq(TaskIds)]
  BY DEF Init
<1>4. events \in Seq(Agents \X TaskIds \X Nat)
  BY DEF Init
<1>5. actual_schedule \in [Agents -> Seq(TaskIds \cup {NoTask})]
  BY DEF Init
<1> QED
  BY <1>1, <1>2, <1>3, <1>4, <1>5, TaskManagerAssumption DEF Init, TypeOK, NoTask

(* A step of update_tasks that only reports or moves on to the next agent  *)
(* leaves the typed state as it is.                                        *)
LEMMA TypeStep == TypeOK /\ [Next]_vars => TypeOK'
<1> SUFFICES ASSUME TypeOK, [Next]_vars PROVE TypeOK'
  OBVIOUS
<1> USE TaskManagerAssumption
<1>1. ASSUME NEW p \in Schedules, NEW at \in Placements, AcceptAssignment(p, at)
      PROVE  TypeOK'
  <2>1. p \in [Agents -> NoTask..task_id]
    <3>1. DOMAIN p = Agents
      BY <1>1 DEF AcceptAssignment, Valid
    <3> QED BY <3>1, AgentsFacts DEF Schedules, NoSchedule
  <2>2. current_assignment' \in [Agents -> TaskIds \cup {NoTask}]
    <3>1. \A a \in Agents : p[a] = NoTask \/ p[a] \in TaskIds
      BY <1>1 DEF AcceptAssignment, Valid, Refused, NotOngoing, TypeOK
    <3> QED BY <1>1, <3>1 DEF AcceptAssignment, TypeOK
  <2>3. agent_assigned' \in [TaskIds -> Agents \cup {NoAgent}]
    BY <1>1 DEF AcceptAssignment, TypeOK
  <2>4. actual_schedule' \in [Agents -> Seq(TaskIds \cup {NoTask})]
    BY <1>1, <2>2, ExtendedType DEF AcceptAssignment, TypeOK
  <2>5. curr_timestep' \in 0..SimulationTime /\ states' \in [Agents -> Locations]
        /\ k' = 0 /\ pc' = "check"
    BY <1>1 DEF AcceptAssignment, BeginUpdate, TypeOK, Placements
  <2>6. TaskIds' = TaskIds
    BY <1>1 DEF AcceptAssignment, TaskIds
  <2> QED BY <1>1, <2>2, <2>3, <2>4, <2>5, <2>6 DEF AcceptAssignment, TypeOK
<1>2. ASSUME NEW p \in Schedules, NEW at \in Placements,
             RejectAssignment(p, at) \/ CrashInLog(p, at) \/ CrashInValidate(p, at)
      PROVE  TypeOK'
  <2>1. TaskIds' = TaskIds
    BY <1>2 DEF RejectAssignment, CrashInLog, CrashInValidate, TaskIds, tasks
  <2>2. curr_timestep' \in 0..SimulationTime /\ states' \in [Agents -> Locations]
        /\ k' = 0 /\ pc' \in {"check", "crashed"}
    BY <1>2 DEF RejectAssignment, CrashInLog, CrashInValidate, BeginUpdate, TypeOK, Placements
  <2>3. UNCHANGED <<task_id, idx_next_loc, agent_assigned, ongoing_tasks,
                    current_assignment, finished_tasks, num_of_task_finish,
                    events, actual_schedule>>
    BY <1>2 DEF RejectAssignment, CrashInLog, CrashInValidate, tasks, logs
  <2>4. k' \in 0..NumAgents /\ (pc' = "check" => k' < NumAgents)
    BY <2>2
  <2> QED BY <2>1, <2>2, <2>3, <2>4 DEF TypeOK
<1>3. ASSUME NextAgent
      PROVE  /\ k' \in 0..NumAgents /\ (pc' = "check" => k' < NumAgents)
             /\ pc' \in {"check", "reveal"} /\ k \in Agents
             /\ curr_timestep' = curr_timestep /\ states' = states
  BY <1>3 DEF NextAgent, TypeOK, Agents
<1>4. CASE NotArrived
  <2>1. TaskIds' = TaskIds
    BY <1>4 DEF NotArrived, TaskIds, tasks
  <2> QED BY <1>4, <1>3, <2>1 DEF NotArrived, TypeOK, tasks, logs
<1>5. CASE OpenErrand
  <2>1. TaskIds' = TaskIds
    BY <1>5 DEF OpenErrand, TaskIds
  <2>2. current_assignment[k] \in TaskIds
    BY <1>5, <1>3 DEF OpenErrand, Arrived, Dereferenced, TypeOK
  <2> QED BY <1>5, <1>3, <2>1, <2>2, VisitType DEF OpenErrand, TypeOK
<1>6. CASE FinishTask
  <2> DEFINE t == current_assignment[k]
  <2>1. TaskIds' = TaskIds
    BY <1>6 DEF FinishTask, TaskIds
  <2>2. t \in TaskIds
    BY <1>6, <1>3 DEF FinishTask, Arrived, Dereferenced, TypeOK
  <2>3. finished_tasks' \in [Agents -> Seq(TaskIds)]
    <3>1. \A a \in Agents : Append(finished_tasks[a], t) \in Seq(TaskIds)
      BY <2>2 DEF TypeOK
    <3> QED BY <1>6, <3>1 DEF FinishTask, TypeOK
  <2>4. current_assignment' \in [Agents -> TaskIds \cup {NoTask}]
    BY <1>6 DEF FinishTask, TypeOK
  <2>5. ongoing_tasks' \subseteq TaskIds /\ num_of_task_finish' \in Nat
    BY <1>6 DEF FinishTask, TypeOK
  <2>6. /\ idx_next_loc' \in [TaskIds -> Nat]
        /\ events' \in Seq(Agents \X TaskIds \X Nat)
    BY <1>6, <1>3, <2>2, VisitType DEF FinishTask
  <2> QED BY <1>6, <1>3, <2>1, <2>3, <2>4, <2>5, <2>6 DEF FinishTask, TypeOK
<1>7. CASE CrashInCheck
  <2>1. TaskIds' = TaskIds
    BY <1>7 DEF CrashInCheck, TaskIds, tasks
  <2> QED BY <1>7, <2>1 DEF CrashInCheck, TypeOK, tasks, logs
<1>8. CASE RevealTask
  <2>1. /\ TaskIds' = 0..task_id /\ TaskIds \subseteq TaskIds'
        /\ task_id' \in Nat /\ task_id \in TaskIds'
    BY <1>8 DEF RevealTask, TaskIds, TypeOK
  <2>2. idx_next_loc' \in [TaskIds' -> Nat]
    BY <1>8, <2>1 DEF RevealTask, TaskIds, TypeOK
  <2>3. agent_assigned' \in [TaskIds' -> Agents \cup {NoAgent}]
    BY <1>8, <2>1 DEF RevealTask, TaskIds, TypeOK
  <2>4. current_assignment' \in [Agents -> TaskIds' \cup {NoTask}]
    BY <1>8, <2>1 DEF RevealTask, TypeOK
  <2>5. events' \in Seq(Agents \X TaskIds' \X Nat)
    <3>1. Agents \X TaskIds \X Nat \subseteq Agents \X TaskIds' \X Nat
      BY <2>1
    <3> QED BY <1>8, <3>1, SeqMonotone DEF RevealTask, logs, TypeOK
  <2>6. finished_tasks' \in [Agents -> Seq(TaskIds')]
    BY <1>8, <2>1, SeqMonotone DEF RevealTask, logs, TypeOK
  <2>7. actual_schedule' \in [Agents -> Seq(TaskIds' \cup {NoTask})]
    <3>1. TaskIds \cup {NoTask} \subseteq TaskIds' \cup {NoTask}
      BY <2>1
    <3> QED BY <1>8, <3>1, SeqMonotone DEF RevealTask, logs, TypeOK
  <2>8. ongoing_tasks' \subseteq TaskIds'
    BY <1>8, <2>1 DEF RevealTask, TypeOK
  <2> QED BY <1>8, <2>1, <2>2, <2>3, <2>4, <2>5, <2>6, <2>7, <2>8
          DEF RevealTask, TypeOK, logs
<1>9. CASE EndUpdate
  <2>1. TaskIds' = TaskIds
    BY <1>9 DEF EndUpdate, TaskIds, tasks
  <2> QED BY <1>9, <2>1 DEF EndUpdate, TypeOK, tasks, logs
<1>10. CASE UNCHANGED vars
  BY <1>10 DEF vars, tasks, logs, TypeOK, TaskIds
<1> QED
  BY <1>1, <1>2, <1>4, <1>5, <1>6, <1>7, <1>8, <1>9, <1>10
     DEF Next, SetTaskAssignment, Loops, Stopped

(* The state of the task manager is well typed under any scheduler.        *)
THEOREM TypeCorrect == Spec => []TypeOK
BY TypeInit, TypeStep, PTL DEF Spec

-----------------------------------------------------------------------------
(* Careful schedulers.                                                     *)

(* A task file entry has at least one errand.                              *)
LEMMA ErrandsFact ==
  ASSUME NEW t \in Nat
  PROVE  NumErrandsOf(t) \in Nat \ {0}
<1>1. Len(TaskFile) \in Nat \ {0}
  BY TaskManagerAssumption
<1>2. (t % Len(TaskFile)) + 1 \in 1..Len(TaskFile)
  BY <1>1
<1>3. Errands(t) \in Seq(Locations) /\ Errands(t) # <<>>
  BY <1>2, TaskManagerAssumption DEF Errands
<1> QED BY <1>3 DEF NumErrandsOf

(* The invariant makes the agent that holds a task unique.                 *)
LEMMA OneHolder ==
  ASSUME AssignedToHolder, NEW a \in Agents, NEW b \in Agents,
         Dereferenced(a), current_assignment[a] = current_assignment[b]
  PROVE  a = b
BY DEF AssignedToHolder, Dereferenced

(* A valid schedule names no task twice.                                   *)
LEMMA ValidIsInjective ==
  ASSUME NEW p, Valid(p), NEW a \in Agents, NEW b \in Agents,
         p[a] # NoTask, p[a] = p[b]
  PROVE  a = b
<1>1. CASE a < b
  <2>1. a \in 0..b-1
    BY <1>1, TaskManagerAssumption DEF Agents
  <2> QED BY <2>1 DEF Valid, Refused, Repeated
<1>2. CASE b < a
  <2>1. b \in 0..a-1
    BY <1>2, TaskManagerAssumption DEF Agents
  <2> QED BY <2>1 DEF Valid, Refused, Repeated
<1> QED BY <1>1, <1>2, AgentsFacts

(* An accepted schedule of a careful scheduler: whoever holds a task after *)
(* it is the agent the task was last assigned to.                          *)
LEMMA AcceptKeepsInv ==
  ASSUME TypeOK, CarefulInv, NEW p \in Schedules, NEW at \in Placements,
         Careful(p), AcceptAssignment(p, at)
  PROVE  CarefulInv'
<1>1. DOMAIN p = Agents /\ Valid(p)
  BY DEF AcceptAssignment, Valid
<1>2. /\ TaskIds' = TaskIds /\ ongoing_tasks' = ongoing_tasks
      /\ idx_next_loc' = idx_next_loc /\ pc' = "check"
  BY DEF AcceptAssignment, TaskIds
<1>3. \A a \in Agents : current_assignment'[a] =
                          IF p[a] = NoTask THEN current_assignment[a] ELSE p[a]
  BY DEF AcceptAssignment
<1>4. \A a \in Agents : p[a] # NoTask =>
        p[a] \in ongoing_tasks /\ agent_assigned'[p[a]] = a
  <2> SUFFICES ASSUME NEW a \in Agents, p[a] # NoTask
               PROVE  p[a] \in ongoing_tasks /\ agent_assigned'[p[a]] = a
    OBVIOUS
  <2>1. p[a] \in ongoing_tasks
    BY <1>1 DEF Valid, Refused, NotOngoing
  <2>2. agent_assigned'[p[a]] = CHOOSE b \in Agents : p[b] = p[a]
    BY <2>1 DEF AcceptAssignment, TypeOK
  <2>3. (CHOOSE b \in Agents : p[b] = p[a]) = a
    BY <1>1, ValidIsInjective
  <2> QED BY <2>1, <2>2, <2>3
<1>5. \A t \in TaskIds : (\A a \in Agents : p[a] # t) =>
        agent_assigned'[t] = agent_assigned[t]
  BY DEF AcceptAssignment
<1>6. \A a \in Agents : Dereferenced(a) => current_assignment[a] \in ongoing_tasks
  BY DEF CarefulInv, HeldTaskIsOngoing, NullTask
<1>7. AssignedToHolder'
  <2> SUFFICES ASSUME NEW a \in Agents, current_assignment'[a] # NoTask
               PROVE  agent_assigned'[current_assignment'[a]] = a
    BY DEF AssignedToHolder, Dereferenced
  <2>1. CASE p[a] # NoTask
    BY <2>1, <1>3, <1>4
  <2>2. CASE p[a] = NoTask
    <3>1. current_assignment'[a] = current_assignment[a] /\ Dereferenced(a)
      BY <2>2, <1>3 DEF Dereferenced
    <3>2. \A b \in Agents : p[b] # current_assignment[a]
      BY <2>2, <3>1, <1>1 DEF Careful, Dereferenced
    <3>3. current_assignment[a] \in TaskIds
      BY <3>1, <1>6 DEF TypeOK
    <3> QED BY <3>1, <3>2, <3>3, <1>5 DEF CarefulInv, AssignedToHolder
  <2> QED BY <2>1, <2>2
<1>8. HeldTaskIsOngoing'
  BY <1>2, <1>3, <1>4, <1>6 DEF HeldTaskIsOngoing, NullTask, Dereferenced
<1>9. OpenedTaskIsHeld'
  <2> SUFFICES ASSUME NEW t \in ongoing_tasks, idx_next_loc[t] > 0
               PROVE  /\ agent_assigned'[t] # NoAgent
                      /\ current_assignment'[agent_assigned'[t]] = t
    BY <1>2 DEF OpenedTaskIsHeld, Holds
  <2> DEFINE b == agent_assigned[t]
  <2>1. b \in Agents /\ current_assignment[b] = t /\ t # NoTask
    BY DEF CarefulInv, OpenedTaskIsHeld, Holds, TypeOK, TaskIds, NoTask
  <2>2. p[b] = t
    BY <1>1, <2>1 DEF Valid, Reassigned, NullTask, Dereferenced
  <2>3. agent_assigned'[t] = b
    BY <1>4, <2>1, <2>2
  <2> QED BY <1>3, <2>1, <2>2, <2>3, AgentsFacts
<1>10. ErrandsVisitedAreInRange'
  <2>1. \A t \in TaskIds \ ongoing_tasks : \A a \in Agents : p[a] # t
    BY <1>4 DEF NoTask, TaskIds
  <2> QED BY <1>2, <1>5, <2>1
          DEF CarefulInv, ErrandsVisitedAreInRange, Finished
<1>11. NoCrash'
  BY <1>2 DEF NoCrash
<1> QED BY <1>7, <1>8, <1>9, <1>10, <1>11 DEF CarefulInv

(* No step that looks a task up crashes.                                   *)
LEMMA NoNullTask ==
  ASSUME HeldTaskIsOngoing, NEW a \in Agents
  PROVE  ~NullTask(a)
BY DEF HeldTaskIsOngoing

(* While the loop runs, k is an agent.                                     *)
LEMMA KIsAgent ==
  ASSUME TypeOK, pc = "check"
  PROVE  k \in Agents
BY TaskManagerAssumption DEF TypeOK, Agents

(* What is known of the task whose errand agent k has arrived at.          *)
LEMMA ArrivalFacts ==
  ASSUME TypeOK, CarefulInv, NextAgent, Arrived(k)
  PROVE  /\ k \in Agents
         /\ current_assignment[k] # NoTask
         /\ current_assignment[k] \in ongoing_tasks
         /\ current_assignment[k] \in TaskIds
         /\ agent_assigned[current_assignment[k]] = k
<1>1. k \in Agents
  BY KIsAgent DEF NextAgent
<1>2. current_assignment[k] # NoTask /\ current_assignment[k] \in ongoing_tasks
  BY DEF Arrived, NullTask, Dereferenced
<1> QED BY <1>1, <1>2 DEF TypeOK, CarefulInv, AssignedToHolder, Dereferenced

(* The agent whose turn it is advances its task without finishing it.      *)
LEMMA OpenKeepsInv ==
  ASSUME TypeOK, CarefulInv, OpenErrand
  PROVE  CarefulInv'
<1> DEFINE t == current_assignment[k]
<1>1. /\ k \in Agents /\ t # NoTask /\ t \in ongoing_tasks /\ t \in TaskIds
      /\ agent_assigned[t] = k /\ idx_next_loc[t] + 1 # NumErrandsOf(t)
  BY ArrivalFacts DEF OpenErrand, LastErrand
<1>2. /\ TaskIds' = TaskIds /\ ongoing_tasks' = ongoing_tasks
      /\ agent_assigned' = agent_assigned
      /\ current_assignment' = current_assignment
      /\ pc' \in {"check", "reveal"}
  BY DEF OpenErrand, TaskIds, NextAgent
<1>3. idx_next_loc' = [idx_next_loc EXCEPT ![t] = @ + 1]
  BY DEF OpenErrand, VisitNextLoc
<1>4. AssignedToHolder' /\ HeldTaskIsOngoing'
  BY <1>2 DEF CarefulInv, AssignedToHolder, HeldTaskIsOngoing, NullTask, Dereferenced
<1>5. OpenedTaskIsHeld'
  <2> SUFFICES ASSUME NEW u \in ongoing_tasks, idx_next_loc'[u] > 0
               PROVE  agent_assigned[u] # NoAgent /\ Holds(agent_assigned[u], u)
    BY <1>2 DEF OpenedTaskIsHeld, Holds
  <2>1. CASE u = t
    BY <2>1, <1>1, AgentsFacts DEF Holds
  <2>2. CASE u # t
    BY <2>2, <1>3 DEF CarefulInv, OpenedTaskIsHeld, TypeOK
  <2> QED BY <2>1, <2>2
<1>6. ErrandsVisitedAreInRange'
  <2>1. idx_next_loc[t] < NumErrandsOf(t) /\ NumErrandsOf(t) \in Nat
        /\ idx_next_loc[t] \in Nat
    BY <1>1, ErrandsFact DEF CarefulInv, ErrandsVisitedAreInRange, TypeOK, TaskIds
  <2>2. idx_next_loc'[t] < NumErrandsOf(t)
    BY <2>1, <1>1, <1>3 DEF TypeOK
  <2>3. \A u \in TaskIds : u # t => idx_next_loc'[u] = idx_next_loc[u]
    BY <1>3 DEF TypeOK
  <2>4. \A u \in ongoing_tasks : idx_next_loc'[u] < NumErrandsOf(u)
    BY <2>2, <2>3 DEF CarefulInv, ErrandsVisitedAreInRange, TypeOK
  <2>5. \A u \in Finished : idx_next_loc'[u] = NumErrandsOf(u)
    BY <1>1, <2>3 DEF CarefulInv, ErrandsVisitedAreInRange, Finished
  <2> QED BY <1>2, <2>4, <2>5
          DEF CarefulInv, ErrandsVisitedAreInRange, Finished, NumErrandsOf, Errands
<1> QED BY <1>2, <1>4, <1>5, <1>6 DEF CarefulInv, NoCrash

(* The agent whose turn it is finishes its task: nobody else held it.      *)
LEMMA FinishKeepsInv ==
  ASSUME TypeOK, CarefulInv, FinishTask
  PROVE  CarefulInv'
<1> DEFINE t == current_assignment[k]
<1>1. /\ k \in Agents /\ t # NoTask /\ t \in ongoing_tasks /\ t \in TaskIds
      /\ agent_assigned[t] = k /\ idx_next_loc[t] + 1 = NumErrandsOf(t)
  BY ArrivalFacts DEF FinishTask, LastErrand
<1>2. /\ TaskIds' = TaskIds /\ ongoing_tasks' = ongoing_tasks \ {t}
      /\ agent_assigned' = agent_assigned
      /\ current_assignment' = [current_assignment EXCEPT ![k] = NoTask]
      /\ pc' \in {"check", "reveal"}
  BY DEF FinishTask, TaskIds, NextAgent
<1>3. idx_next_loc' = [idx_next_loc EXCEPT ![t] = @ + 1]
  BY DEF FinishTask, VisitNextLoc
<1>4. \A a \in Agents : a # k => /\ current_assignment'[a] = current_assignment[a]
                                 /\ current_assignment[a] # t
  BY <1>1, <1>2 DEF TypeOK, CarefulInv, AssignedToHolder, Dereferenced
<1>5. current_assignment'[k] = NoTask
  BY <1>1, <1>2 DEF TypeOK
<1>6. AssignedToHolder'
  BY <1>2, <1>4, <1>5 DEF CarefulInv, AssignedToHolder, Dereferenced
<1>7. HeldTaskIsOngoing'
  BY <1>2, <1>4, <1>5 DEF CarefulInv, HeldTaskIsOngoing, NullTask, Dereferenced
<1>8. \A u \in TaskIds : u # t => idx_next_loc'[u] = idx_next_loc[u]
  BY <1>3 DEF TypeOK
<1>9. OpenedTaskIsHeld'
  <2> SUFFICES ASSUME NEW u \in ongoing_tasks, u # t, idx_next_loc'[u] > 0
               PROVE  /\ agent_assigned[u] # NoAgent
                      /\ current_assignment'[agent_assigned[u]] = u
    BY <1>2 DEF OpenedTaskIsHeld, Holds
  <2>1. agent_assigned[u] \in Agents /\ current_assignment[agent_assigned[u]] = u
    BY <1>8 DEF CarefulInv, OpenedTaskIsHeld, Holds, TypeOK
  <2>2. agent_assigned[u] # k
    BY <2>1
  <2> QED BY <2>1, <2>2, <1>4, AgentsFacts
<1>10. ErrandsVisitedAreInRange'
  <2>1. idx_next_loc'[t] = NumErrandsOf(t)
    BY <1>1, <1>3 DEF TypeOK
  <2>2. \A u \in ongoing_tasks \ {t} : idx_next_loc'[u] < NumErrandsOf(u)
    BY <1>8 DEF CarefulInv, ErrandsVisitedAreInRange, TypeOK
  <2>3. \A u \in Finished \cup {t} : /\ idx_next_loc'[u] = NumErrandsOf(u)
                                     /\ agent_assigned[u] \in Agents
    BY <1>1, <1>8, <2>1 DEF CarefulInv, ErrandsVisitedAreInRange, Finished
  <2>4. Finished' \subseteq Finished \cup {t}
    BY <1>2 DEF Finished
  <2> QED BY <1>2, <2>2, <2>3, <2>4
          DEF ErrandsVisitedAreInRange, NumErrandsOf, Errands
<1> QED BY <1>2, <1>6, <1>7, <1>9, <1>10 DEF CarefulInv, NoCrash

(* A new task is free, unopened and has an errand to visit.                *)
LEMMA RevealKeepsInv ==
  ASSUME TypeOK, CarefulInv, RevealTask
  PROVE  CarefulInv'
<1>1. /\ task_id \in Nat /\ TaskIds' = TaskIds \cup {task_id}
      /\ task_id \notin TaskIds
      /\ ongoing_tasks' = ongoing_tasks \cup {task_id}
      /\ current_assignment' = current_assignment /\ pc' = pc
  BY DEF RevealTask, TypeOK, TaskIds
<1>2. /\ \A u \in TaskIds : /\ idx_next_loc'[u] = idx_next_loc[u]
                             /\ agent_assigned'[u] = agent_assigned[u]
      /\ idx_next_loc'[task_id] = 0
  BY DEF RevealTask, TypeOK, TaskIds
<1>3. \A a \in Agents : Dereferenced(a) => current_assignment[a] \in ongoing_tasks
  BY DEF CarefulInv, HeldTaskIsOngoing, NullTask
<1>4. AssignedToHolder'
  BY <1>1, <1>2, <1>3 DEF CarefulInv, AssignedToHolder, Dereferenced, TypeOK
<1>5. HeldTaskIsOngoing'
  BY <1>1, <1>3 DEF HeldTaskIsOngoing, NullTask, Dereferenced
<1>6. OpenedTaskIsHeld'
  BY <1>1, <1>2 DEF CarefulInv, OpenedTaskIsHeld, Holds, TypeOK
<1>7. ErrandsVisitedAreInRange'
  <2>1. 0 < NumErrandsOf(task_id)
    BY <1>1, ErrandsFact
  <2>2. Finished' = Finished
    BY <1>1 DEF Finished, TypeOK
  <2>3. Finished \subseteq TaskIds /\ ongoing_tasks \subseteq TaskIds
    BY DEF Finished, TypeOK
  <2> QED BY <1>1, <1>2, <2>1, <2>2, <2>3
          DEF CarefulInv, ErrandsVisitedAreInRange, NumErrandsOf, Errands
<1> QED BY <1>1, <1>4, <1>5, <1>6, <1>7 DEF CarefulInv, NoCrash

LEMMA CarefulInit == Init => CarefulInv
BY DEF Init, CarefulInv, AssignedToHolder, HeldTaskIsOngoing, OpenedTaskIsHeld,
       ErrandsVisitedAreInRange, NoCrash, Finished, TaskIds, Dereferenced, NullTask

(* Steps that change no task and no assignment keep the invariant.         *)
LEMMA QuietStep ==
  ASSUME CarefulInv, UNCHANGED <<tasks, current_assignment>>, pc' # "crashed"
  PROVE  CarefulInv'
BY DEF CarefulInv, AssignedToHolder, HeldTaskIsOngoing, OpenedTaskIsHeld, Holds,
       ErrandsVisitedAreInRange, NoCrash, Finished, TaskIds, Dereferenced,
       NullTask, tasks, NumErrandsOf, Errands

LEMMA CarefulStep == TypeOK /\ CarefulInv /\ [CarefulNext]_vars => CarefulInv'
<1> SUFFICES ASSUME TypeOK, CarefulInv, [CarefulNext]_vars PROVE CarefulInv'
  OBVIOUS
<1>1. ASSUME NEW p \in Schedules, NEW at \in Placements, Careful(p),
             SetTaskAssignment(p, at)
      PROVE  CarefulInv'
  <2>1. CASE AcceptAssignment(p, at)
    BY <2>1, <1>1, AcceptKeepsInv
  <2>2. CASE RejectAssignment(p, at)
    BY <2>2, QuietStep DEF RejectAssignment
  <2>3. ~CrashInValidate(p, at)
    BY NoNullTask DEF CrashInValidate, ValidateCrashes, CarefulInv
  <2>4. ~CrashInLog(p, at)
    BY <1>1 DEF CrashInLog, Careful
  <2> QED BY <1>1, <2>1, <2>2, <2>3, <2>4 DEF SetTaskAssignment
<1>2. CASE NotArrived
  BY <1>2, QuietStep DEF NotArrived, NextAgent
<1>3. CASE OpenErrand
  BY <1>3, OpenKeepsInv
<1>4. CASE FinishTask
  BY <1>4, FinishKeepsInv
<1>5. ~CrashInCheck
  BY KIsAgent, NoNullTask DEF CrashInCheck, CarefulInv
<1>6. CASE RevealTask
  BY <1>6, RevealKeepsInv
<1>7. CASE EndUpdate
  BY <1>7, QuietStep DEF EndUpdate
<1>8. CASE UNCHANGED vars
  BY <1>8, QuietStep DEF vars, CarefulInv, NoCrash
<1> QED
  BY <1>1, <1>2, <1>3, <1>4, <1>5, <1>6, <1>7, <1>8 DEF CarefulNext, Loops, Stopped

(* A careful scheduler is a scheduler.                                     *)
LEMMA CarefulIsAny == [CarefulNext]_vars => [Next]_vars
BY DEF CarefulNext, Next

(* With a careful scheduler the inductive invariant holds in every state.  *)
THEOREM CarefulInvariant == CarefulSpec => [](TypeOK /\ CarefulInv)
<1>1. Init => TypeOK /\ CarefulInv
  BY TypeInit, CarefulInit
<1>2. TypeOK /\ CarefulInv /\ [CarefulNext]_vars => (TypeOK /\ CarefulInv)'
  BY TypeStep, CarefulStep, CarefulIsAny
<1> QED BY <1>1, <1>2, PTL DEF CarefulSpec

(* One task is never in two agents' hands (OneAgentPerTask).               *)
THEOREM CarefulOneAgentPerTask == CarefulSpec => []OneAgentPerTask
<1>1. CarefulInv => OneAgentPerTask
  BY OneHolder DEF CarefulInv, OneAgentPerTask
<1> QED BY <1>1, CarefulInvariant, PTL

(* No schedule and no arrival makes the task manager dereference a null    *)
(* task (NoCrash).                                                         *)
THEOREM CarefulNoCrash == CarefulSpec => []NoCrash
<1>1. CarefulInv => NoCrash
  BY DEF CarefulInv
<1> QED BY <1>1, CarefulInvariant, PTL

(* An opened task is held by the agent it will be credited to.             *)
THEOREM CarefulOpenedTaskIsHeld == CarefulSpec => []OpenedTaskIsHeld
<1>1. CarefulInv => OpenedTaskIsHeld
  BY DEF CarefulInv
<1> QED BY <1>1, CarefulInvariant, PTL

(* The number of ongoing tasks never exceeds NumTasksReveal, and equals it *)
(* whenever reveal_tasks has ended.                                        *)
PoolInv == /\ Cardinality(ongoing_tasks) <= NumTasksReveal
           /\ PoolIsFull

LEMMA OngoingIsFinite == TypeOK => IsFiniteSet(ongoing_tasks)
<1> SUFFICES ASSUME TypeOK PROVE IsFiniteSet(ongoing_tasks)
  OBVIOUS
<1>1. IsFiniteSet(TaskIds)
  BY FS_Interval DEF TypeOK, TaskIds
<1> QED BY <1>1, FS_Subset DEF TypeOK

LEMMA PoolInit == Init => PoolInv
BY FS_EmptySet, TaskManagerAssumption DEF Init, PoolInv, PoolIsFull

LEMMA PoolStep == TypeOK /\ PoolInv /\ [Next]_vars => PoolInv'
<1> SUFFICES ASSUME TypeOK, PoolInv, [Next]_vars PROVE PoolInv'
  OBVIOUS
<1>1. Cardinality(ongoing_tasks) \in Nat /\ IsFiniteSet(ongoing_tasks)
  BY OngoingIsFinite, FS_CardinalityType
<1>2. ASSUME NEW p \in Schedules, NEW at \in Placements, SetTaskAssignment(p, at)
      PROVE  PoolInv'
  <2>1. ongoing_tasks' = ongoing_tasks /\ pc' # "idle"
    BY <1>2 DEF SetTaskAssignment, AcceptAssignment, RejectAssignment,
                CrashInLog, CrashInValidate, tasks
  <2> QED BY <2>1 DEF PoolInv, PoolIsFull
<1>3. CASE NotArrived \/ OpenErrand \/ CrashInCheck
  <2>1. ongoing_tasks' = ongoing_tasks /\ pc' # "idle"
    BY <1>3 DEF NotArrived, OpenErrand, CrashInCheck, NextAgent, tasks
  <2> QED BY <2>1 DEF PoolInv, PoolIsFull
<1>4. CASE FinishTask
  <2>1. pc' # "idle" /\ ongoing_tasks' = ongoing_tasks \ {current_assignment[k]}
    BY <1>4 DEF FinishTask, NextAgent
  <2>2. Cardinality(ongoing_tasks') <= Cardinality(ongoing_tasks)
    BY <2>1, <1>1, FS_Subset
  <2>3. Cardinality(ongoing_tasks') \in Nat
    BY <2>1, <1>1, FS_Subset, FS_CardinalityType
  <2> QED BY <2>1, <2>2, <2>3, <1>1, TaskManagerAssumption DEF PoolInv, PoolIsFull
<1>5. CASE RevealTask
  <2>1. /\ pc' # "idle" /\ ongoing_tasks' = ongoing_tasks \cup {task_id}
        /\ task_id \notin ongoing_tasks
        /\ Cardinality(ongoing_tasks) < NumTasksReveal
    BY <1>5 DEF RevealTask, PoolHasRoom, TypeOK, TaskIds
  <2>2. Cardinality(ongoing_tasks') = Cardinality(ongoing_tasks) + 1
    BY <2>1, <1>1, FS_AddElement
  <2> QED BY <2>1, <2>2, <1>1, TaskManagerAssumption DEF PoolInv, PoolIsFull
<1>6. CASE EndUpdate
  <2>1. /\ ongoing_tasks' = ongoing_tasks
        /\ ~(Cardinality(ongoing_tasks) < NumTasksReveal)
    BY <1>6 DEF EndUpdate, PoolHasRoom, tasks
  <2> QED BY <2>1, <1>1, TaskManagerAssumption DEF PoolInv, PoolIsFull
<1>7. CASE UNCHANGED vars
  BY <1>7 DEF vars, tasks, PoolInv, PoolIsFull
<1> QED
  BY <1>2, <1>3, <1>4, <1>5, <1>6, <1>7 DEF Next, Loops, Stopped

(* Between timesteps the pool holds exactly NumTasksReveal tasks, whatever *)
(* the scheduler proposes (PoolIsFull).                                    *)
THEOREM PoolStaysFull == Spec => []PoolIsFull
<1>1. Init => TypeOK /\ PoolInv
  BY TypeInit, PoolInit
<1>2. TypeOK /\ PoolInv /\ [Next]_vars => (TypeOK /\ PoolInv)'
  BY TypeStep, PoolStep
<1>3. PoolInv => PoolIsFull
  BY DEF PoolInv
<1> QED BY <1>1, <1>2, <1>3, PTL DEF Spec

(* A step of CarefulSpec takes an opened task from its agent only to       *)
(* finish it.                                                              *)
LEMMA OpenedTasksStayStep ==
  ASSUME TypeOK, CarefulInv, [CarefulNext]_vars, NEW a \in Agents,
         Dereferenced(a), ~NullTask(a), idx_next_loc[current_assignment[a]] > 0
  PROVE  \/ current_assignment'[a] = current_assignment[a]
         \/ current_assignment[a] \notin ongoing_tasks'
<1>1. ASSUME NEW p \in Schedules, NEW at \in Placements, AcceptAssignment(p, at)
      PROVE  current_assignment'[a] = current_assignment[a]
  <2>1. p[a] = current_assignment[a]
    BY <1>1 DEF AcceptAssignment, Valid, Reassigned
  <2> QED BY <1>1, <2>1 DEF AcceptAssignment
<1>2. CASE FinishTask
  BY <1>2 DEF FinishTask, TypeOK
<1>3. CASE ~FinishTask
  BY <1>1, <1>3
     DEF CarefulNext, SetTaskAssignment, RejectAssignment, CrashInLog, CrashInValidate, Loops,
         NotArrived, OpenErrand, CrashInCheck, RevealTask, EndUpdate, Stopped, vars
<1> QED BY <1>2, <1>3

(* The agent that opened a task keeps it to the end (OpenedTasksStay).     *)
THEOREM CarefulOpenedTasksStay == CarefulSpec => OpenedTasksStay
<1>1. TypeOK /\ CarefulInv /\ [CarefulNext]_vars =>
        [\A a \in Agents :
           Dereferenced(a) /\ ~NullTask(a) /\ idx_next_loc[current_assignment[a]] > 0
             => \/ current_assignment'[a] = current_assignment[a]
                \/ current_assignment[a] \notin ongoing_tasks']_vars
  BY OpenedTasksStayStep
<1> QED BY <1>1, CarefulInvariant, PTL DEF CarefulSpec, OpenedTasksStay

-----------------------------------------------------------------------------
(* Credits, under any scheduler.                                           *)

(* A task in somebody's hands has been assigned to an agent, so that there *)
(* is one to credit when it is finished.                                   *)
HoldersAreAssigned == \A a \in Agents :
  Dereferenced(a) => agent_assigned[current_assignment[a]] \in Agents

CreditsInv == HoldersAreAssigned /\ FinishedTasksCreditedOnce

LEMMA CreditsMember ==
  ASSUME NEW t
  PROVE  /\ \A a, i : <<a, i>> \in Credits(t) <=>
              a \in Agents /\ i \in 1..Len(finished_tasks[a]) /\ finished_tasks[a][i] = t
         /\ \A c \in Credits(t) : \E a, i : c = <<a, i>>
BY DEF Credits

LEMMA CreditsInit == Init => CreditsInv
<1> SUFFICES ASSUME Init PROVE CreditsInv
  OBVIOUS
<1>1. Finished = {} /\ ongoing_tasks = {}
  BY DEF Init, Finished, TaskIds
<1>2. num_of_task_finish = Cardinality(Finished)
  BY <1>1, FS_EmptySet DEF Init
<1> QED BY <1>1, <1>2 DEF Init, CreditsInv, HoldersAreAssigned, Dereferenced,
                          FinishedTasksCreditedOnce

(* Steps that finish nothing.                                              *)
LEMMA CreditsStand ==
  ASSUME FinishedTasksCreditedOnce, UNCHANGED <<finished_tasks, num_of_task_finish>>,
         Finished' = Finished,
         \A t \in Finished : idx_next_loc'[t] = idx_next_loc[t],
         \A t \in ongoing_tasks' \ ongoing_tasks : Credits(t) = {}
  PROVE  FinishedTasksCreditedOnce'
<1>1. \A t : Credits(t)' = Credits(t) /\ NumErrandsOf(t)' = NumErrandsOf(t)
  BY DEF Credits, NumErrandsOf, Errands
<1> QED BY <1>1 DEF FinishedTasksCreditedOnce

LEMMA CreditsQuiet ==
  ASSUME CreditsInv, UNCHANGED <<tasks, current_assignment, logs>>
  PROVE  CreditsInv'
<1>1. /\ task_id' = task_id /\ idx_next_loc' = idx_next_loc
      /\ agent_assigned' = agent_assigned /\ ongoing_tasks' = ongoing_tasks
      /\ current_assignment' = current_assignment
      /\ UNCHANGED <<finished_tasks, num_of_task_finish>>
  BY DEF tasks, logs
<1>2. Finished' = Finished
  BY <1>1 DEF Finished, TaskIds
<1> QED BY <1>1, <1>2, CreditsStand DEF CreditsInv, HoldersAreAssigned, Dereferenced

LEMMA CreditsAccept ==
  ASSUME TypeOK, CreditsInv, NEW p, NEW at, AcceptAssignment(p, at)
  PROVE  CreditsInv'
<1>1. /\ UNCHANGED <<task_id, idx_next_loc, ongoing_tasks, finished_tasks,
                     num_of_task_finish>>
      /\ \A a \in Agents : current_assignment'[a] =
           IF p[a] = NoTask THEN current_assignment[a] ELSE p[a]
      /\ \A t \in TaskIds : agent_assigned'[t] =
           IF \E a \in Agents : p[a] = t
             THEN CHOOSE a \in Agents : p[a] = t ELSE agent_assigned[t]
  BY DEF AcceptAssignment
<1>2. \A t \in TaskIds :
        (\E a \in Agents : p[a] = t) \/ agent_assigned[t] \in Agents
          => agent_assigned'[t] \in Agents
  BY <1>1
<1>3. HoldersAreAssigned'
  <2> SUFFICES ASSUME NEW a \in Agents, current_assignment'[a] # NoTask
               PROVE  agent_assigned'[current_assignment'[a]] \in Agents
    BY DEF HoldersAreAssigned, Dereferenced
  <2>1. CASE p[a] = NoTask
    <3>1. /\ current_assignment'[a] = current_assignment[a]
          /\ current_assignment[a] \in TaskIds
          /\ agent_assigned[current_assignment[a]] \in Agents
      BY <1>1, <2>1 DEF CreditsInv, HoldersAreAssigned, Dereferenced, TypeOK
    <3> QED BY <1>2, <3>1
  <2>2. CASE p[a] # NoTask
    <3>1. p[a] \in TaskIds /\ current_assignment'[a] = p[a]
      BY <1>1, <2>2 DEF AcceptAssignment, Valid, Refused, NotOngoing, TypeOK
    <3> QED BY <1>2, <3>1
  <2> QED BY <2>1, <2>2
<1>4. Finished' = Finished
  BY <1>1 DEF Finished, TaskIds
<1> QED BY <1>1, <1>3, <1>4, CreditsStand DEF CreditsInv

LEMMA CreditsOpen ==
  ASSUME TypeOK, CreditsInv, OpenErrand
  PROVE  CreditsInv'
<1> DEFINE t == current_assignment[k]
<1>1. /\ UNCHANGED <<task_id, ongoing_tasks, agent_assigned, current_assignment,
                     finished_tasks, num_of_task_finish>>
      /\ t \in ongoing_tasks
      /\ idx_next_loc' = [idx_next_loc EXCEPT ![t] = @ + 1]
  BY DEF OpenErrand, VisitNextLoc, Arrived, NullTask
<1>2. Finished' = Finished /\ \A u \in Finished : idx_next_loc'[u] = idx_next_loc[u]
  BY <1>1 DEF Finished, TaskIds, TypeOK
<1> QED BY <1>1, <1>2, CreditsStand DEF CreditsInv, HoldersAreAssigned, Dereferenced

LEMMA CreditsReveal ==
  ASSUME TypeOK, CreditsInv, RevealTask
  PROVE  CreditsInv'
<1>1. /\ UNCHANGED <<current_assignment, finished_tasks, num_of_task_finish>>
      /\ task_id \in Nat /\ TaskIds' = TaskIds \cup {task_id} /\ task_id \notin TaskIds
      /\ ongoing_tasks' = ongoing_tasks \cup {task_id}
      /\ \A u \in TaskIds : /\ idx_next_loc'[u] = idx_next_loc[u]
                            /\ agent_assigned'[u] = agent_assigned[u]
  BY DEF RevealTask, TypeOK, TaskIds, logs
<1>2. Finished' = Finished /\ Finished \subseteq TaskIds
  BY <1>1 DEF Finished, TypeOK
<1>3. Credits(task_id) = {}
  <2>1. \A a \in Agents : \A i \in 1..Len(finished_tasks[a]) : finished_tasks[a][i] # task_id
    BY <1>1 DEF TypeOK
  <2> QED BY <2>1, CreditsMember
<1>4. HoldersAreAssigned'
  BY <1>1 DEF CreditsInv, HoldersAreAssigned, Dereferenced, TypeOK
<1> QED BY <1>1, <1>2, <1>3, <1>4, CreditsStand DEF CreditsInv

(* The task is credited to the agent it was last assigned to, and had no   *)
(* credit before.                                                          *)
LEMMA CreditsFinish ==
  ASSUME TypeOK, CreditsInv, FinishTask
  PROVE  CreditsInv'
<1>0. PICK t, b, n : /\ t = current_assignment[k] /\ b = agent_assigned[t]
                     /\ n = Len(finished_tasks[b]) + 1
  OBVIOUS
<1>1. /\ UNCHANGED <<task_id, agent_assigned>> /\ TaskIds' = TaskIds
      /\ k \in Agents /\ t # NoTask /\ t \in ongoing_tasks
      /\ idx_next_loc' = [idx_next_loc EXCEPT ![t] = @ + 1]
      /\ idx_next_loc[t] + 1 = NumErrandsOf(t)
      /\ current_assignment' = [current_assignment EXCEPT ![k] = NoTask]
      /\ ongoing_tasks' = ongoing_tasks \ {t}
      /\ finished_tasks' = [finished_tasks EXCEPT ![b] = Append(@, t)]
      /\ num_of_task_finish' = num_of_task_finish + 1
  BY <1>0, KIsAgent DEF FinishTask, NextAgent, Arrived, Dereferenced, NullTask, LastErrand,
                  VisitNextLoc, TaskIds
<1>2. b \in Agents
  BY <1>0, <1>1 DEF CreditsInv, HoldersAreAssigned, Dereferenced
<1>3. t \in TaskIds /\ t \notin Finished
  BY <1>1 DEF TypeOK, Finished
<1>4. \A a \in Agents : finished_tasks'[a] =
        IF a = b THEN Append(finished_tasks[b], t) ELSE finished_tasks[a]
  BY <1>1, <1>2 DEF TypeOK
<1>5. /\ Len(finished_tasks'[b]) = n /\ n \in Nat \ {0}
      /\ finished_tasks'[b][n] = t
      /\ \A i \in 1..Len(finished_tasks[b]) :
           /\ i \in 1..n /\ i # n /\ finished_tasks'[b][i] = finished_tasks[b][i]
      /\ \A i \in 1..n : i = n \/ i \in 1..Len(finished_tasks[b])
  <2>1. finished_tasks[b] \in Seq(TaskIds) /\ finished_tasks'[b] = Append(finished_tasks[b], t)
    BY <1>2, <1>4 DEF TypeOK
  <2> QED BY <1>0, <2>1
<1>6. \A u, a, i : <<a, i>> \in Credits(u)' <=>
        a \in Agents /\ i \in 1..Len(finished_tasks'[a]) /\ finished_tasks'[a][i] = u
  BY DEF Credits
<1>7. \A u : \A c \in Credits(u)' : \E a, i : c = <<a, i>>
  BY DEF Credits
<1>8. \A u : u # t => Credits(u)' = Credits(u)
  <2> SUFFICES ASSUME NEW u, u # t PROVE Credits(u)' = Credits(u)
    OBVIOUS
  <2>1. \A a, i : <<a, i>> \in Credits(u)' <=> <<a, i>> \in Credits(u)
    <3> SUFFICES ASSUME NEW a \in Agents, NEW i
                 PROVE  <<a, i>> \in Credits(u)' <=> <<a, i>> \in Credits(u)
      BY <1>6, CreditsMember
    <3>1. CASE a # b
      BY <1>4, <1>6, <3>1, CreditsMember
    <3>2. CASE a = b
      BY <1>5, <1>6, <3>2, CreditsMember
    <3> QED BY <3>1, <3>2
  <2>2. \A c \in Credits(u)' : c \in Credits(u)
    BY <1>7, <2>1
  <2>3. \A c \in Credits(u) : c \in Credits(u)'
    BY <2>1, CreditsMember
  <2> QED BY <2>2, <2>3
<1>9. Credits(t) = {}
  BY <1>1 DEF CreditsInv, FinishedTasksCreditedOnce
<1>10. Credits(t)' = {<<b, n>>}
  <2>1. \A a \in Agents : \A i \in 1..Len(finished_tasks[a]) : finished_tasks[a][i] # t
    BY <1>9, CreditsMember
  <2>2. \A a, i : <<a, i>> \in Credits(t)' <=> a = b /\ i = n
    <3> SUFFICES ASSUME NEW a, NEW i
                 PROVE  <<a, i>> \in Credits(t)' <=> a = b /\ i = n
      OBVIOUS
    <3>1. CASE a \in Agents /\ a # b
      BY <1>4, <1>6, <2>1, <3>1
    <3>2. CASE a = b
      <4>1. n \in 1..n
        BY <1>5
      <4> QED BY <1>2, <1>5, <1>6, <2>1, <3>2, <4>1
    <3>3. CASE a \notin Agents
      BY <1>2, <1>6, <3>3
    <3> QED BY <3>1, <3>2, <3>3
  <2> QED BY <1>7, <2>2
<1>11. Cardinality(Credits(t)') = 1
  BY <1>10, FS_Singleton
<1>12. Finished' = Finished \cup {t}
  BY <1>1, <1>3 DEF Finished
<1>13. num_of_task_finish' = Cardinality(Finished')
  <2>1. IsFiniteSet(Finished)
    <3>1. IsFiniteSet(TaskIds)
      BY FS_Interval DEF TypeOK, TaskIds
    <3> QED BY <3>1, FS_Subset DEF Finished
  <2>2. Cardinality(Finished') = Cardinality(Finished) + 1
    BY <1>3, <1>12, <2>1, FS_AddElement
  <2> QED BY <1>1, <2>2 DEF CreditsInv, FinishedTasksCreditedOnce
<1>14. \A u \in TaskIds : idx_next_loc'[u] =
         IF u = t THEN idx_next_loc[t] + 1 ELSE idx_next_loc[u]
  BY <1>1 DEF TypeOK
<1>15. ASSUME NEW u \in Finished'
       PROVE  Cardinality(Credits(u)') = 1 /\ idx_next_loc'[u] = NumErrandsOf(u)
  <2>1. CASE u = t
    BY <1>1, <1>3, <1>11, <1>14, <2>1
  <2>2. CASE u # t
    <3>1. u \in Finished /\ u \in TaskIds
      BY <1>12, <2>2 DEF Finished
    <3> QED BY <1>8, <1>14, <2>2, <3>1 DEF CreditsInv, FinishedTasksCreditedOnce
  <2> QED BY <2>1, <2>2
<1>16. \A u \in ongoing_tasks' : Credits(u)' = {}
  BY <1>1, <1>8 DEF CreditsInv, FinishedTasksCreditedOnce
<1>17. FinishedTasksCreditedOnce'
  <2>1. \A u : NumErrandsOf(u)' = NumErrandsOf(u)
    BY DEF NumErrandsOf, Errands
  <2> QED BY <1>13, <1>15, <1>16, <2>1 DEF FinishedTasksCreditedOnce
<1>18. HoldersAreAssigned'
  BY <1>1 DEF CreditsInv, HoldersAreAssigned, Dereferenced, TypeOK
<1> QED BY <1>17, <1>18 DEF CreditsInv

LEMMA CreditsStep == TypeOK /\ CreditsInv /\ [Next]_vars => CreditsInv'
<1> SUFFICES ASSUME TypeOK, CreditsInv, [Next]_vars PROVE CreditsInv'
  OBVIOUS
<1>1. ASSUME NEW p, NEW at, SetTaskAssignment(p, at)
      PROVE  CreditsInv'
  BY <1>1, CreditsAccept, CreditsQuiet
     DEF SetTaskAssignment, RejectAssignment, CrashInLog, CrashInValidate
<1>2. CASE NotArrived \/ CrashInCheck \/ EndUpdate \/ UNCHANGED vars
  <2>1. UNCHANGED <<tasks, current_assignment, logs>>
    BY <1>2 DEF NotArrived, CrashInCheck, EndUpdate, vars
  <2> QED BY <2>1, CreditsQuiet
<1> QED BY <1>1, <1>2, CreditsOpen, CreditsFinish, CreditsReveal DEF Next, Loops, Stopped

(* Whatever the scheduler proposes, each finished task is credited once,   *)
(* with all of its errands visited, an ongoing one not at all, and         *)
(* numTaskFinished counts the finished ones (FinishedTasksCreditedOnce).   *)
THEOREM TasksAreCreditedOnce == Spec => []FinishedTasksCreditedOnce
<1>1. Init => TypeOK /\ CreditsInv
  BY TypeInit, CreditsInit
<1>2. TypeOK /\ CreditsInv /\ [Next]_vars => (TypeOK /\ CreditsInv)'
  BY TypeStep, CreditsStep
<1>3. CreditsInv => FinishedTasksCreditedOnce
  BY DEF CreditsInv
<1> QED BY <1>1, <1>2, <1>3, PTL DEF Spec

-----------------------------------------------------------------------------
(* The accounts of the visits and of the assignments, under a careful      *)
(* scheduler.                                                              *)

(* A task that has been opened stays assigned to the agent that opened it. *)
LEMMA OpenedStaysAssigned ==
  ASSUME TypeOK, CarefulInv, NEW p, NEW at, AcceptAssignment(p, at),
         NEW t \in TaskIds, idx_next_loc[t] > 0
  PROVE  agent_assigned'[t] = agent_assigned[t]
<1>1. DOMAIN p = Agents /\ Valid(p)
  BY DEF AcceptAssignment, Valid
<1>2. agent_assigned'[t] = IF \E a \in Agents : p[a] = t
                             THEN CHOOSE a \in Agents : p[a] = t ELSE agent_assigned[t]
  BY DEF AcceptAssignment
<1>3. CASE \E a \in Agents : p[a] = t
  <2>1. PICK a \in Agents : p[a] = t
    BY <1>3
  <2>2. t # NoTask
    BY DEF TypeOK, TaskIds, NoTask
  <2>3. t \in ongoing_tasks
    BY <1>1, <2>1, <2>2 DEF Valid, Refused, NotOngoing
  <2>4. agent_assigned[t] \in Agents /\ current_assignment[agent_assigned[t]] = t
    BY <2>3 DEF CarefulInv, OpenedTaskIsHeld, Holds, TypeOK
  <2>5. p[agent_assigned[t]] = t
    BY <1>1, <2>2, <2>4 DEF Valid, Reassigned, Dereferenced
  <2>6. \A c \in Agents : p[c] = t => c = agent_assigned[t]
    BY <1>1, <2>2, <2>4, <2>5, ValidIsInjective
  <2> QED BY <1>2, <1>3, <2>6
<1> QED BY <1>2, <1>3

LEMMA EventsInit == Init => OneAgentVisitsAllErrands
BY DEF Init, OneAgentVisitsAllErrands, TaskIds

(* Steps that visit nothing.                                               *)
LEMMA EventsStand ==
  ASSUME TypeOK, OneAgentVisitsAllErrands, events' = events,
         \A t \in TaskIds : /\ idx_next_loc'[t] = idx_next_loc[t]
                            /\ idx_next_loc[t] > 0 => agent_assigned'[t] = agent_assigned[t],
         \A t \in TaskIds' \ TaskIds : idx_next_loc'[t] = 0
  PROVE  OneAgentVisitsAllErrands'
<1>1. /\ \A t \in TaskIds : idx_next_loc[t] \in Nat
      /\ \A i \in DOMAIN events : events[i][2] \in TaskIds
      /\ \A t \in TaskIds' : t \in TaskIds \/ idx_next_loc'[t] = 0
  BY DEF TypeOK
<1>2. \A n \in Nat : 1..n # {} => n > 0
  OBVIOUS
<1>3. \A i \in DOMAIN events :
        LET t == events[i][2] IN /\ events[i][1] = agent_assigned'[t]
                                 /\ events[i][3] \in 1..idx_next_loc'[t]
  BY <1>1, <1>2 DEF OneAgentVisitsAllErrands
<1>4. \A t \in TaskIds' : \A n \in 1..idx_next_loc'[t] :
        \E i \in DOMAIN events : events[i][2] = t /\ events[i][3] = n
  BY <1>1 DEF OneAgentVisitsAllErrands
<1> QED BY <1>3, <1>4 DEF OneAgentVisitsAllErrands

(* The next errand of the task of agent k is visited: it is the next event *)
(* of that task, and of the same agent.                                    *)
LEMMA EventsVisit ==
  ASSUME TypeOK, OneAgentVisitsAllErrands, k \in Agents,
         NEW t \in TaskIds, agent_assigned[t] = k, VisitNextLoc(t),
         UNCHANGED <<task_id, agent_assigned>>
  PROVE  OneAgentVisitsAllErrands'
<1>1. PICK n, e, len : /\ n = idx_next_loc[t] + 1 /\ e = <<k, t, n>> /\ len = Len(events)
  OBVIOUS
<1>2. /\ TaskIds' = TaskIds /\ n \in Nat /\ n - 1 = idx_next_loc[t]
      /\ \A u \in TaskIds : idx_next_loc'[u] = IF u = t THEN n ELSE idx_next_loc[u]
  <2>1. TaskIds' = TaskIds /\ idx_next_loc \in [TaskIds -> Nat]
    BY DEF TypeOK, TaskIds
  <2>2. idx_next_loc' = [idx_next_loc EXCEPT ![t] = n]
    BY <1>1 DEF VisitNextLoc
  <2>3. \A m \in Nat : m + 1 \in Nat /\ (m + 1) - 1 = m
    OBVIOUS
  <2> QED BY <1>1, <2>1, <2>2, <2>3
<1>3. /\ len \in Nat /\ DOMAIN events = 1..len /\ DOMAIN events' = 1..len+1
      /\ events'[len+1] = e
      /\ \A i \in 1..len : /\ events'[i] = events[i]
                           /\ events[i][2] \in TaskIds
                           /\ events[i][3] \in Nat
  <2>1. events' = Append(events, e) /\ events \in Seq(Agents \X TaskIds \X Nat)
    BY <1>1 DEF VisitNextLoc, TypeOK
  <2>2. \A x \in Agents \X TaskIds \X Nat : x[2] \in TaskIds /\ x[3] \in Nat
    OBVIOUS
  <2>3. e \in Agents \X TaskIds \X Nat
    BY <1>1, <1>2
  <2> DEFINE R == Agents \X TaskIds \X Nat
  <2> HIDE DEF R
  <2>4. events \in Seq(R) /\ e \in R
    BY <2>1, <2>3 DEF R
  <2>5. /\ len \in Nat /\ DOMAIN events = 1..len /\ DOMAIN events' = 1..len+1
        /\ events'[len+1] = e
        /\ \A i \in 1..len : events'[i] = events[i] /\ events[i] \in R
    BY <1>1, <2>1, <2>4
  <2> QED BY <2>2, <2>5 DEF R
<1>4. e[1] = k /\ e[2] = t /\ e[3] = n
  BY <1>1
<1>5. /\ \A i \in 1..len+1 : i \in 1..len \/ i = len + 1
      /\ \A i \in 1..len : i \in 1..len+1 /\ i < len + 1 /\ ~(len + 1 < i)
      /\ len + 1 \in 1..len+1 /\ ~(len + 1 < len + 1)
      /\ n \in 1..n /\ \A m \in 1..n : m = n \/ m \in 1..n-1
      /\ \A m \in 1..n-1 : m \in 1..n /\ m < n
  <2>1. n >= 1
    BY <1>1, <1>2 DEF TypeOK
  <2>2. /\ \A i \in 1..len+1 : i \in 1..len \/ i = len + 1
        /\ \A i \in 1..len : i \in 1..len+1 /\ i < len + 1 /\ ~(len + 1 < i)
        /\ len + 1 \in 1..len+1 /\ ~(len + 1 < len + 1)
    BY <1>3
  <2>3. n \in 1..n /\ \A m \in 1..n : m = n \/ m \in 1..n-1
    BY <1>2, <2>1
  <2>4. \A m \in 1..n-1 : m \in 1..n /\ m < n
    BY <1>2
  <2> QED BY <2>2, <2>3, <2>4
<1>6. \A i \in 1..len :
        LET u == events[i][2] IN /\ events[i][1] = agent_assigned[u]
                                 /\ events[i][3] \in 1..idx_next_loc[u]
  BY <1>3 DEF OneAgentVisitsAllErrands
<1>7. \A i \in 1..len : events[i][2] = t => events[i][3] < n
  BY <1>2, <1>5, <1>6
<1>8. \A i \in DOMAIN events' :
        LET u == events'[i][2] IN /\ events'[i][1] = agent_assigned[u]
                                  /\ events'[i][3] \in 1..idx_next_loc'[u]
  <2> SUFFICES ASSUME NEW i \in 1..len+1
               PROVE  /\ events'[i][1] = agent_assigned[events'[i][2]]
                      /\ events'[i][3] \in 1..idx_next_loc'[events'[i][2]]
    BY <1>3
  <2>1. CASE i = len + 1
    BY <1>2, <1>3, <1>4, <1>5, <2>1
  <2>2. CASE i \in 1..len
    BY <1>2, <1>3, <1>5, <1>6, <2>2
  <2> QED BY <1>5, <2>1, <2>2
<1>9. \A i, j \in DOMAIN events' :
        i < j /\ events'[i][2] = events'[j][2] => events'[i][3] < events'[j][3]
  <2> SUFFICES ASSUME NEW i \in 1..len+1, NEW j \in 1..len+1, i < j,
                      events'[i][2] = events'[j][2]
               PROVE  events'[i][3] < events'[j][3]
    BY <1>3
  <2>1. i \in 1..len
    BY <1>5
  <2>2. CASE j \in 1..len
    BY <1>3, <2>1, <2>2 DEF OneAgentVisitsAllErrands
  <2>3. CASE j = len + 1
    BY <1>3, <1>4, <1>7, <2>1, <2>3
  <2> QED BY <1>5, <2>2, <2>3
<1>10. ASSUME NEW u \in TaskIds, NEW m \in 1..idx_next_loc'[u]
       PROVE  \E i \in DOMAIN events' : events'[i][2] = u /\ events'[i][3] = m
  <2>1. CASE u = t /\ m = n
    BY <1>3, <1>4, <1>5, <2>1
  <2>2. CASE ~(u = t /\ m = n)
    <3>1. m \in 1..idx_next_loc[u]
      BY <1>2, <1>5, <1>10, <2>2
    <3>2. PICK i \in 1..len : events[i][2] = u /\ events[i][3] = m
      BY <1>3, <3>1 DEF OneAgentVisitsAllErrands
    <3> QED BY <1>3, <1>5, <3>2
  <2> QED BY <2>1, <2>2
<1> QED BY <1>2, <1>8, <1>9, <1>10 DEF OneAgentVisitsAllErrands

LEMMA EventsQuiet ==
  ASSUME TypeOK, OneAgentVisitsAllErrands, UNCHANGED <<tasks, logs>>
  PROVE  OneAgentVisitsAllErrands'
BY EventsStand DEF tasks, logs, TaskIds

LEMMA EventsStep ==
  TypeOK /\ CarefulInv /\ OneAgentVisitsAllErrands /\ [CarefulNext]_vars
    => OneAgentVisitsAllErrands'
<1> SUFFICES ASSUME TypeOK, CarefulInv, OneAgentVisitsAllErrands, [CarefulNext]_vars
             PROVE  OneAgentVisitsAllErrands'
  OBVIOUS
<1>1. ASSUME NEW p, NEW at, AcceptAssignment(p, at)
      PROVE  OneAgentVisitsAllErrands'
  <2>1. /\ events' = events /\ idx_next_loc' = idx_next_loc /\ TaskIds' = TaskIds
    BY <1>1 DEF AcceptAssignment, TaskIds
  <2>2. \A t \in TaskIds : idx_next_loc[t] > 0 => agent_assigned'[t] = agent_assigned[t]
    BY <1>1, OpenedStaysAssigned
  <2> QED BY <2>1, <2>2, EventsStand
<1>2. ASSUME NEW p, NEW at, RejectAssignment(p, at) \/ CrashInLog(p, at) \/ CrashInValidate(p, at)
      PROVE  OneAgentVisitsAllErrands'
  BY <1>2, EventsQuiet DEF RejectAssignment, CrashInLog, CrashInValidate
<1>3. CASE OpenErrand
  BY <1>3, ArrivalFacts, EventsVisit DEF OpenErrand
<1>4. CASE FinishTask
  BY <1>4, ArrivalFacts, EventsVisit DEF FinishTask
<1>5. CASE RevealTask
  <2>1. /\ events' = events /\ TaskIds' = TaskIds \cup {task_id} /\ task_id \notin TaskIds
        /\ idx_next_loc'[task_id] = 0
        /\ \A u \in TaskIds : /\ idx_next_loc'[u] = idx_next_loc[u]
                              /\ agent_assigned'[u] = agent_assigned[u]
    BY <1>5 DEF RevealTask, TypeOK, TaskIds, logs
  <2> QED BY <2>1, EventsStand
<1>6. CASE NotArrived \/ CrashInCheck \/ EndUpdate \/ UNCHANGED vars
  <2>1. UNCHANGED <<tasks, logs>>
    BY <1>6 DEF NotArrived, CrashInCheck, EndUpdate, vars
  <2> QED BY <2>1, EventsQuiet
<1> QED BY <1>1, <1>2, <1>3, <1>4, <1>5, <1>6
        DEF CarefulNext, SetTaskAssignment, Loops, Stopped

(* The events of a task are its errands so far, once each and in order,    *)
(* all of the agent it is credited to (OneAgentVisitsAllErrands).          *)
THEOREM CarefulVisits == CarefulSpec => []OneAgentVisitsAllErrands
<1>1. Init => OneAgentVisitsAllErrands
  BY EventsInit
<1> QED BY <1>1, EventsStep, CarefulInvariant, PTL DEF CarefulSpec

(* What an agent holds is in its actual schedule too.                      *)
InLog(log, x) == \E j \in 1..Len(log) : log[j] = x

HeldIsScheduled == \A a \in Agents :
  Dereferenced(a) => InLog(actual_schedule[a], current_assignment[a])

LEMMA LogsGrow ==
  ASSUME NEW S, NEW log \in Seq(S), NEW x \in S
  PROVE  /\ InLog(Extended(log, x), x)
         /\ \A y : InLog(log, y) => InLog(Extended(log, x), y)
<1>1. CASE log # <<>> /\ log[Len(log)] = x
  <2>1. Len(log) \in 1..Len(log)
    BY <1>1
  <2> QED BY <1>1, <2>1 DEF Extended, InLog
<1>2. CASE ~(log # <<>> /\ log[Len(log)] = x)
  <2>1. Extended(log, x) = Append(log, x)
    BY <1>2 DEF Extended
  <2>2. /\ Len(Append(log, x)) = Len(log) + 1
        /\ Append(log, x)[Len(log) + 1] = x
        /\ Len(log) + 1 \in 1..Len(log)+1
        /\ \A j \in 1..Len(log) : j \in 1..Len(log)+1 /\ Append(log, x)[j] = log[j]
    OBVIOUS
  <2> QED BY <2>1, <2>2 DEF InLog
<1> QED BY <1>1, <1>2

LEMMA ScheduleStep ==
  TypeOK /\ TypeOK' /\ CarefulInv /\ HeldIsScheduled /\ ScheduleExplainsCredits
    /\ [CarefulNext]_vars => (HeldIsScheduled /\ ScheduleExplainsCredits)'
<1> SUFFICES ASSUME TypeOK, TypeOK', CarefulInv, HeldIsScheduled, ScheduleExplainsCredits,
                    [CarefulNext]_vars
             PROVE  HeldIsScheduled' /\ ScheduleExplainsCredits'
  OBVIOUS
<1>1. ASSUME NEW p, NEW at, AcceptAssignment(p, at)
      PROVE  HeldIsScheduled' /\ ScheduleExplainsCredits'
  <2>1. /\ finished_tasks' = finished_tasks
        /\ \A a \in Agents : actual_schedule'[a] =
             Extended(actual_schedule[a], current_assignment'[a])
    BY <1>1 DEF AcceptAssignment
  <2>2. \A a \in Agents :
          /\ InLog(actual_schedule'[a], current_assignment'[a])
          /\ \A y : InLog(actual_schedule[a], y) => InLog(actual_schedule'[a], y)
    <3>1. TaskIds' = TaskIds
      BY <1>1 DEF AcceptAssignment, TaskIds
    <3>2. \A a \in Agents : /\ actual_schedule[a] \in Seq(TaskIds \cup {NoTask})
                            /\ current_assignment'[a] \in TaskIds \cup {NoTask}
      BY <3>1 DEF TypeOK
    <3> QED BY <2>1, <3>2, LogsGrow
  <2>3. HeldIsScheduled'
    BY <2>2 DEF HeldIsScheduled, InLog
  <2>4. ASSUME NEW a \in Agents, NEW i \in 1..Len(finished_tasks[a])
        PROVE  InLog(actual_schedule'[a], finished_tasks[a][i])
    <3>1. InLog(actual_schedule[a], finished_tasks[a][i])
      BY <2>4 DEF ScheduleExplainsCredits, InLog
    <3> QED BY <2>2, <3>1
  <2>5. ScheduleExplainsCredits'
    BY <2>1, <2>4 DEF ScheduleExplainsCredits, InLog
  <2> QED BY <2>3, <2>5
<1>2. CASE FinishTask
  <2>1. PICK t : t = current_assignment[k]
    OBVIOUS
  <2>2. /\ actual_schedule' = actual_schedule /\ k \in Agents /\ agent_assigned[t] = k
        /\ current_assignment' = [current_assignment EXCEPT ![k] = NoTask]
        /\ finished_tasks' = [finished_tasks EXCEPT ![k] = Append(@, t)]
        /\ InLog(actual_schedule[k], t)
    BY <1>2, <2>1, ArrivalFacts DEF FinishTask, HeldIsScheduled, Dereferenced
  <2>3. HeldIsScheduled'
    BY <2>2 DEF HeldIsScheduled, Dereferenced, TypeOK
  <2>4. ASSUME NEW a \in Agents, NEW i \in 1..Len(finished_tasks'[a])
        PROVE  InLog(actual_schedule[a], finished_tasks'[a][i])
    <3>1. CASE a # k
      BY <2>2, <2>4, <3>1 DEF ScheduleExplainsCredits, InLog, TypeOK
    <3>2. CASE a = k
      <4>1. /\ finished_tasks[k] \in Seq(TaskIds)
            /\ finished_tasks'[k] = Append(finished_tasks[k], t)
        BY <2>2 DEF TypeOK
      <4>2. \/ finished_tasks'[k][i] = t
            \/ i \in 1..Len(finished_tasks[k]) /\ finished_tasks'[k][i] = finished_tasks[k][i]
        BY <2>4, <3>2, <4>1
      <4> QED BY <2>2, <3>2, <4>2 DEF ScheduleExplainsCredits, InLog
    <3> QED BY <3>1, <3>2
  <2> QED BY <2>2, <2>3, <2>4 DEF ScheduleExplainsCredits, InLog
<1>3. CASE ~FinishTask /\ \A p, at : ~AcceptAssignment(p, at)
  <2>1. UNCHANGED <<current_assignment, actual_schedule, finished_tasks>>
    BY <1>3 DEF CarefulNext, SetTaskAssignment, RejectAssignment, CrashInLog, CrashInValidate, Loops,
                NotArrived, OpenErrand, CrashInCheck, RevealTask, EndUpdate, Stopped, vars, logs
  <2> QED BY <2>1 DEF HeldIsScheduled, ScheduleExplainsCredits, Dereferenced
<1> QED BY <1>1, <1>2, <1>3

(* An agent credited with a task has it in its actual schedule             *)
(* (ScheduleExplainsCredits).                                              *)
THEOREM CarefulScheduleExplainsCredits == CarefulSpec => []ScheduleExplainsCredits
<1>1. Init => HeldIsScheduled /\ ScheduleExplainsCredits
  BY DEF Init, HeldIsScheduled, ScheduleExplainsCredits, Dereferenced
<1>2. TypeOK /\ CarefulInv => TypeOK
  OBVIOUS
<1> QED BY <1>1, <1>2, ScheduleStep, CarefulInvariant, PTL DEF CarefulSpec

-----------------------------------------------------------------------------
(* The task manager implements TaskAllocation.                             *)

(* Nothing but the tasks and the assignment is visible to TaskAllocation.  *)
LEMMA QuietStutter ==
  ASSUME UNCHANGED <<tasks, current_assignment>>
  PROVE  UNCHANGED Alloc!avars
BY DEF tasks, Alloc!avars, CreditOf, TaskIds

LEMMA RefineInit == Init => Alloc!AInit
BY DEF Init, Alloc!AInit, CreditOf, TaskIds, NoTask, NoAgent, Alloc!None

(* An accepted schedule is a reassignment.                                 *)
LEMMA RefineAccept ==
  ASSUME TypeOK, TypeOK', CarefulInv, CarefulInv',
         NEW p \in Schedules, NEW at \in Placements, AcceptAssignment(p, at)
  PROVE  Alloc!Assign
<1>1. /\ TaskIds' = TaskIds /\ ongoing_tasks' = ongoing_tasks
      /\ UNCHANGED <<task_id, idx_next_loc>>
  BY DEF AcceptAssignment, TaskIds
<1>2. \A a \in Agents : current_assignment'[a] =
                          IF p[a] = NoTask THEN current_assignment[a] ELSE p[a]
  BY DEF AcceptAssignment
<1>3. current_assignment' \in [Agents -> {Alloc!None} \cup 0..task_id-1]
  BY <1>1 DEF TypeOK, TaskIds, NoTask, Alloc!None
<1>4. \A a, b \in Agents :
        current_assignment'[a] = current_assignment'[b]
          /\ current_assignment'[a] # Alloc!None => a = b
  BY DEF CarefulInv, AssignedToHolder, Dereferenced, NoTask, Alloc!None
<1>5. \A a \in Agents : current_assignment'[a] # Alloc!None =>
        /\ current_assignment'[a] \in ongoing_tasks
        /\ CreditOf[current_assignment'[a]] = Alloc!None
  BY <1>1 DEF CarefulInv, HeldTaskIsOngoing, NullTask, Dereferenced, CreditOf,
              TypeOK, NoTask, NoAgent, Alloc!None
<1>6. \A a \in Agents : current_assignment[a] # Alloc!None =>
        /\ current_assignment'[a] # Alloc!None
        /\ idx_next_loc[current_assignment[a]] > 0
              => current_assignment'[a] = current_assignment[a]
  BY <1>2 DEF AcceptAssignment, Valid, Reassigned, Dereferenced, NoTask, Alloc!None
<1>7. CreditOf' = CreditOf
  <2>1. \A t \in Finished : \A a \in Agents : p[a] # t
    BY DEF AcceptAssignment, Valid, Refused, NotOngoing, Finished, TaskIds, NoTask
  <2>2. \A t \in Finished : agent_assigned'[t] = agent_assigned[t]
    BY <2>1 DEF AcceptAssignment, Finished
  <2> QED BY <1>1, <2>2 DEF CreditOf, Finished
<1> QED BY <1>1, <1>3, <1>4, <1>5, <1>6, <1>7 DEF Alloc!Assign

(* Opening or advancing a task is a visit of its holder.                   *)
LEMMA RefineOpen ==
  ASSUME TypeOK, CarefulInv, OpenErrand
  PROVE  Alloc!VisitErrand(k)
<1> DEFINE t == current_assignment[k]
<1>1. t # NoTask /\ t \in TaskIds /\ idx_next_loc[t] < NumErrandsOf(t)
      /\ idx_next_loc[t] + 1 # NumErrandsOf(t)
  BY ArrivalFacts DEF OpenErrand, LastErrand, CarefulInv, ErrandsVisitedAreInRange
<1>2. idx_next_loc[t] + 1 < NumErrandsOf(t)
  <2>1. t \in Nat /\ idx_next_loc[t] \in Nat
    BY <1>1 DEF TypeOK, TaskIds
  <2>2. NumErrandsOf(t) \in Nat
    BY <2>1, ErrandsFact
  <2> QED BY <1>1, <2>1, <2>2
<1>3. CreditOf' = CreditOf
  BY DEF OpenErrand, CreditOf, TaskIds
<1> QED BY <1>1, <1>2, <1>3
        DEF OpenErrand, VisitNextLoc, Alloc!VisitErrand, NoTask, Alloc!None

(* Finishing a task is a completion by its holder.                         *)
LEMMA RefineFinish ==
  ASSUME TypeOK, CarefulInv, FinishTask
  PROVE  Alloc!CompleteTask(k)
<1> DEFINE t == current_assignment[k]
<1>1. t # NoTask /\ t \in TaskIds /\ idx_next_loc[t] + 1 = NumErrandsOf(t)
      /\ agent_assigned[t] = k /\ t \in ongoing_tasks
  BY ArrivalFacts DEF FinishTask, LastErrand
<1>2. CreditOf' = [CreditOf EXCEPT ![t] = k]
  BY <1>1 DEF FinishTask, CreditOf, TaskIds
<1> QED BY <1>1, <1>2
        DEF FinishTask, VisitNextLoc, Alloc!CompleteTask, NoTask, Alloc!None

LEMMA RefineReveal ==
  ASSUME TypeOK, RevealTask
  PROVE  Alloc!Reveal
<1>1. TaskIds' = 0..task_id /\ task_id \in Nat /\ task_id \notin ongoing_tasks
  BY DEF RevealTask, TaskIds, TypeOK
<1>2. CreditOf' = [t \in 0..task_id |->
                     IF t = task_id THEN Alloc!None ELSE CreditOf[t]]
  BY <1>1 DEF RevealTask, CreditOf, TaskIds, NoAgent, Alloc!None
<1> QED BY <1>2 DEF RevealTask, Alloc!Reveal

LEMMA RefineStep ==
  TypeOK /\ TypeOK' /\ CarefulInv /\ CarefulInv' /\ [CarefulNext]_vars
    => [Alloc!ANext]_(Alloc!avars)
<1> SUFFICES ASSUME TypeOK, TypeOK', CarefulInv, CarefulInv', [CarefulNext]_vars
             PROVE  [Alloc!ANext]_(Alloc!avars)
  OBVIOUS
<1>1. ASSUME NEW p \in Schedules, NEW at \in Placements, SetTaskAssignment(p, at)
      PROVE  [Alloc!ANext]_(Alloc!avars)
  <2>1. CASE AcceptAssignment(p, at)
    BY <2>1, RefineAccept DEF Alloc!ANext
  <2>2. CASE RejectAssignment(p, at) \/ CrashInLog(p, at) \/ CrashInValidate(p, at)
    BY <2>2, QuietStutter DEF RejectAssignment, CrashInLog, CrashInValidate
  <2> QED BY <1>1, <2>1, <2>2 DEF SetTaskAssignment
<1>2. CASE OpenErrand
  BY <1>2, RefineOpen, ArrivalFacts DEF Alloc!ANext, OpenErrand
<1>3. CASE FinishTask
  BY <1>3, RefineFinish, ArrivalFacts DEF Alloc!ANext, FinishTask
<1>4. CASE RevealTask
  BY <1>4, RefineReveal DEF Alloc!ANext
<1>5. CASE NotArrived \/ CrashInCheck \/ EndUpdate
  BY <1>5, QuietStutter DEF NotArrived, CrashInCheck, EndUpdate
<1>6. CASE UNCHANGED vars
  BY <1>6, QuietStutter DEF vars
<1> QED
  BY <1>1, <1>2, <1>3, <1>4, <1>5, <1>6 DEF CarefulNext, Loops, Stopped

(* The task manager under a careful scheduler implements TaskAllocation    *)
(* (ImplementsAllocation).                                                 *)
THEOREM CarefulImplementsAllocation == CarefulSpec => ImplementsAllocation
BY RefineInit, RefineStep, CarefulInvariant, PTL
   DEF CarefulSpec, ImplementsAllocation, Alloc!ASpec

-----------------------------------------------------------------------------
(* The default scheduler is careful.                                       *)

LEMMA OrphanInit == Init => NoTaskOrphaned
BY DEF Init, NoTaskOrphaned

(* What a plan gives an agent: what it has, a free task, or nothing.       *)
LEMMA PlanEntry ==
  ASSUME NEW p \in SchedulePlans(current_assignment, TaskPool), NEW a \in Agents
  PROVE  \/ p[a] = NoTask
         \/ Dereferenced(a) /\ p[a] = current_assignment[a]
         \/ /\ ~Dereferenced(a)
            /\ p[a] \in ongoing_tasks /\ agent_assigned[p[a]] = NoAgent
<1>1. PICK m \in 0..NumAgents : Serves(p, m, current_assignment, TaskPool)
  BY DEF SchedulePlans
<1>2. CASE a \in 0..m-1
  <2>1. CASE current_assignment[a] # NoTask
    BY <1>1, <1>2, <2>1 DEF Serves, Dereferenced
  <2>2. CASE current_assignment[a] = NoTask
    <3>1. p[a] = NoTask \/ p[a] \in TasksLeft(p, a, current_assignment, TaskPool)
      BY <1>1, <1>2, <2>2 DEF Serves
    <3> QED BY <2>2, <3>1 DEF TasksLeft, TaskPool, Dereferenced
  <2> QED BY <2>1, <2>2
<1>3. CASE a \in m..NumAgents-1
  BY <1>1, <1>3 DEF Serves
<1>4. a \in 0..m-1 \/ a \in m..NumAgents-1
  BY TaskManagerAssumption DEF Agents
<1> QED BY <1>2, <1>3, <1>4

(* A vector of the team's size is a schedule with no entry too many.       *)
LEMMA TeamSized ==
  ASSUME NEW p \in [Agents -> NoTask..task_id]
  PROVE  p \in Schedules /\ ~OverrunsTeam(p)
<1>1. NumAgents \in 1..MaxEntries /\ Agents = 0..NumAgents-1 /\ NumAgents \notin Agents
  BY TaskManagerAssumption DEF Agents
<1>2. p \in [0..NumAgents-1 -> NoTask..task_id]
  BY <1>1
<1> QED BY <1>1, <1>2 DEF Schedules, OverrunsTeam

LEMMA PlanIsCareful ==
  ASSUME TypeOK, CarefulInv, NEW p \in SchedulePlans(current_assignment, TaskPool)
  PROVE  Careful(p) /\ p \in Schedules
<1>1. ASSUME NEW a \in Agents, NEW b \in Agents, a # b,
             current_assignment[a] # NoTask, p[b] = current_assignment[a]
      PROVE  FALSE
  <2>1. agent_assigned[p[b]] = a
    BY <1>1 DEF CarefulInv, AssignedToHolder, Dereferenced
  <2>2. CASE Dereferenced(b) /\ p[b] = current_assignment[b]
    BY <1>1, <2>2, OneHolder DEF CarefulInv
  <2>3. CASE agent_assigned[p[b]] = NoAgent
    BY <2>1, <2>3, AgentsFacts
  <2> QED BY <1>1, <2>2, <2>3, PlanEntry
<1>2. p \in [Agents -> NoTask..task_id]
  <2>1. p \in Proposals(current_assignment, TaskPool)
    BY DEF SchedulePlans
  <2>2. {NoTask} \cup DOMAIN TaskPool \cup {current_assignment[a] : a \in Agents}
          \subseteq NoTask..task_id
    <3>1. \A t \in TaskIds \cup {NoTask} : t \in NoTask..task_id
      BY DEF TypeOK, TaskIds, NoTask
    <3>2. DOMAIN TaskPool \subseteq TaskIds
      BY DEF TaskPool, TypeOK
    <3>3. \A a \in Agents : current_assignment[a] \in TaskIds \cup {NoTask}
      BY DEF TypeOK
    <3> QED BY <3>1, <3>2, <3>3
  <2> QED BY <2>1, <2>2 DEF Proposals
<1> QED BY <1>1, <1>2, TeamSized DEF Careful

(* An empty schedule is careful: it is rejected for its size.              *)
LEMMA NoScheduleIsCareful ==
  NoSchedule \in Schedules /\ Careful(NoSchedule) /\ ~Valid(NoSchedule)
<1>1. DOMAIN NoSchedule # Agents
  BY AgentsFacts DEF NoSchedule
<1> QED BY <1>1 DEF Schedules, Careful, Valid, OverrunsTeam, NoSchedule

LEMMA DefaultIsCareful ==
  TypeOK /\ CarefulInv /\ [DefaultNext]_vars => [CarefulNext]_vars
BY PlanIsCareful, NoScheduleIsCareful DEF DefaultNext, CarefulNext

(* A schedule never takes a task from an agent to give it another one.     *)
KeepsTasks(p) == \A a \in Agents :
  Dereferenced(a) => p[a] \in {NoTask, current_assignment[a]}

(* The tasks such a schedule gives are in hand after it; the others stay   *)
(* where they are.                                                         *)
LEMMA OrphanAccept ==
  ASSUME TypeOK, CarefulInv', NoTaskOrphaned,
         NEW p, KeepsTasks(p),
         NEW at, AcceptAssignment(p, at)
  PROVE  NoTaskOrphaned'
<1> SUFFICES ASSUME NEW t \in ongoing_tasks, agent_assigned'[t] # NoAgent
             PROVE  current_assignment'[agent_assigned'[t]] = t
  BY DEF NoTaskOrphaned, Holds, AcceptAssignment
<1>1. \A a \in Agents : current_assignment'[a] =
                          IF p[a] = NoTask THEN current_assignment[a] ELSE p[a]
  BY DEF AcceptAssignment
<1>2. t # NoTask /\ t \in TaskIds
  BY DEF TypeOK, TaskIds, NoTask
<1>3. CASE \E a \in Agents : p[a] = t
  <2>1. PICK a \in Agents : p[a] = t
    BY <1>3
  <2>2. current_assignment'[a] = t
    BY <1>1, <1>2, <2>1
  <2> QED BY <1>2, <2>2 DEF CarefulInv, AssignedToHolder, Dereferenced
<1>4. CASE \A a \in Agents : p[a] # t
  <2> DEFINE b == agent_assigned[t]
  <2>1. agent_assigned'[t] = b
    BY <1>2, <1>4 DEF AcceptAssignment
  <2>2. b \in Agents /\ current_assignment[b] = t
    BY <1>2, <2>1 DEF NoTaskOrphaned, Holds, TypeOK
  <2>3. p[b] = NoTask
    BY <1>2, <1>4, <2>2 DEF KeepsTasks, Dereferenced
  <2> QED BY <1>1, <2>1, <2>2, <2>3
<1> QED BY <1>3, <1>4

LEMMA OrphanLoops ==
  ASSUME TypeOK, NoTaskOrphaned, Loops \/ UNCHANGED vars
  PROVE  NoTaskOrphaned'
<1>1. ASSUME UNCHANGED <<tasks, current_assignment>>
      PROVE  NoTaskOrphaned'
  BY <1>1 DEF tasks, NoTaskOrphaned, Holds
<1>3. CASE OpenErrand
  BY <1>3 DEF OpenErrand, NoTaskOrphaned, Holds
<1>4. CASE FinishTask
  <2> SUFFICES ASSUME NEW u \in ongoing_tasks, u # current_assignment[k],
                      agent_assigned[u] # NoAgent
               PROVE  current_assignment'[agent_assigned[u]] = u
    BY <1>4 DEF FinishTask, NoTaskOrphaned, Holds
  <2>1. agent_assigned[u] \in Agents /\ current_assignment[agent_assigned[u]] = u
    BY DEF NoTaskOrphaned, Holds, TypeOK
  <2> QED BY <1>4, <2>1 DEF FinishTask, TypeOK
<1>5. CASE RevealTask
  BY <1>5 DEF RevealTask, NoTaskOrphaned, Holds, TypeOK, TaskIds
<1>6. CASE NotArrived \/ CrashInCheck \/ EndUpdate
  BY <1>1, <1>6 DEF NotArrived, CrashInCheck, EndUpdate
<1>7. CASE UNCHANGED vars
  BY <1>1, <1>7 DEF vars
<1> QED
  BY <1>3, <1>4, <1>5, <1>6, <1>7 DEF Loops, Stopped

(* The step of the scheduler, whatever becomes of its proposal.            *)
LEMMA OrphanSchedule ==
  ASSUME TypeOK, CarefulInv', NoTaskOrphaned,
         NEW p, p = NoSchedule \/ KeepsTasks(p),
         NEW at, SetTaskAssignment(p, at)
  PROVE  NoTaskOrphaned'
<1>1. CASE AcceptAssignment(p, at)
  BY <1>1, NoScheduleIsCareful, OrphanAccept DEF AcceptAssignment
<1>2. CASE RejectAssignment(p, at) \/ CrashInLog(p, at) \/ CrashInValidate(p, at)
  BY <1>2 DEF RejectAssignment, CrashInLog, CrashInValidate, tasks, NoTaskOrphaned, Holds
<1> QED BY <1>1, <1>2 DEF SetTaskAssignment

LEMMA OrphanStep ==
  TypeOK /\ CarefulInv /\ CarefulInv' /\ NoTaskOrphaned /\ [DefaultNext]_vars
    => NoTaskOrphaned'
<1>1. \A p \in SchedulePlans(current_assignment, TaskPool) : KeepsTasks(p)
  BY PlanEntry DEF KeepsTasks
<1> QED BY <1>1, OrphanSchedule, OrphanLoops DEF DefaultNext

(* A plan that serves every agent passes all three checks.                 *)
LEMMA CompletePlanValid ==
  ASSUME TypeOK, CarefulInv, NEW p \in CompletePlans(current_assignment, TaskPool)
  PROVE  Valid(p)
<1>1. /\ p \in SchedulePlans(current_assignment, TaskPool)
      /\ Serves(p, NumAgents, current_assignment, TaskPool)
  BY TaskManagerAssumption DEF CompletePlans, SchedulePlans
<1>2. DOMAIN p = Agents
  BY DEF CompletePlans, Proposals
<1>3. \A a \in Agents : Dereferenced(a) => p[a] = current_assignment[a]
  BY <1>1 DEF Serves, Dereferenced, Agents
<1>4. \A a \in Agents : Dereferenced(a) => /\ current_assignment[a] \in ongoing_tasks
                                           /\ agent_assigned[current_assignment[a]] = a
  BY DEF CarefulInv, HeldTaskIsOngoing, NullTask, AssignedToHolder
<1>5. \A a \in Agents : ~NotOngoing(p, a) /\ ~NullTask(a) /\ ~Reassigned(p, a)
  BY <1>1, <1>3, <1>4, PlanEntry DEF NotOngoing, NullTask, Reassigned
<1>6. ASSUME NEW a \in Agents, NEW b \in 0..a-1, p[a] # NoTask, p[b] = p[a]
      PROVE  FALSE
  <2>1. b \in Agents /\ b # a /\ p[b] # NoTask
    BY <1>6, TaskManagerAssumption DEF Agents
  <2>2. CASE Dereferenced(a) /\ Dereferenced(b)
    BY <1>3, <1>4, <1>6, <2>1, <2>2
  <2>3. CASE Dereferenced(a) /\ ~Dereferenced(b)
    BY <1>1, <1>3, <1>4, <1>6, <2>1, <2>3, PlanEntry, AgentsFacts
  <2>4. CASE ~Dereferenced(a) /\ Dereferenced(b)
    BY <1>1, <1>3, <1>4, <1>6, <2>1, <2>4, PlanEntry, AgentsFacts
  <2>5. CASE ~Dereferenced(a) /\ ~Dereferenced(b)
    <3>1. p[a] \in TasksLeft(p, a, current_assignment, TaskPool)
      BY <1>1, <1>6, <2>5 DEF Serves, Dereferenced, Agents
    <3> QED BY <1>6, <2>5, <3>1 DEF TasksLeft, Dereferenced
  <2> QED BY <2>2, <2>3, <2>4, <2>5
<1> QED BY <1>2, <1>5, <1>6 DEF Valid, Refused, Repeated

(* The default scheduler drives the task manager as a careful scheduler    *)
(* does, so everything proved of CarefulSpec holds of it; no task is ever  *)
(* marked as given while nobody holds it (NoTaskOrphaned); and when it     *)
(* answers at once only schedules cut short by the clock are rejected      *)
(* (CompletePlanIsValid).                                                  *)
THEOREM DefaultSchedulerCorrect ==
  DefaultSpec => CarefulSpec /\ []NoTaskOrphaned /\ []CompletePlanIsValid
<1> DEFINE I == TypeOK /\ CarefulInv /\ NoTaskOrphaned
<1>1. Init => I
  BY TypeInit, CarefulInit, OrphanInit
<1>2. I /\ [DefaultNext]_vars => I' /\ [CarefulNext]_vars
  <2> SUFFICES ASSUME I, [DefaultNext]_vars PROVE I' /\ [CarefulNext]_vars
    OBVIOUS
  <2>1. [CarefulNext]_vars
    BY DefaultIsCareful
  <2>2. TypeOK' /\ CarefulInv'
    BY <2>1, TypeStep, CarefulStep, CarefulIsAny
  <2>3. NoTaskOrphaned'
    BY <2>2, OrphanStep
  <2> QED BY <2>1, <2>2, <2>3
<1>3. I => CompletePlanIsValid
  BY CompletePlanValid DEF CompletePlanIsValid
<1>4. I => NoTaskOrphaned
  OBVIOUS
<1> HIDE DEF I
<1> QED BY <1>1, <1>2, <1>3, <1>4, PTL DEF DefaultSpec, CarefulSpec

-----------------------------------------------------------------------------
(* The simulation loop is a careful scheduler too.                         *)

(* Nobody but b holds t.                                                   *)
OnlyFor(b, t) == \A a \in Agents :
  a # b /\ Dereferenced(a) => current_assignment[a] # t

SystemTypes ==
  /\ main \in {"sync", "plan", "wait"}
  /\ started \in BOOLEAN
  /\ thread \in {"none", "scheduling", "planning", "ready"}
  /\ thread # "none" <=> started
  /\ main = "wait" => started
  /\ main # "sync" => pc = "idle"

(* The copies the planner works on.  However old, they show a task as free *)
(* or as an agent's only while nobody else holds it: while a planner run   *)
(* is out, the task manager accepts no schedule.                           *)
EnvIsSafe ==
  /\ \A t \in DOMAIN env_pool : env_pool[t] = NoAgent =>
       \A b \in Agents : OnlyFor(b, t)
  /\ DOMAIN env_pool \subseteq TaskIds
  /\ env_schedule \in [Agents -> TaskIds \cup {NoTask}]
  /\ \A b \in Agents : OnlyFor(b, env_schedule[b])

ProposalIsSafe ==
  /\ proposed_schedule \in [Agents -> TaskIds \cup {NoTask}]
  /\ \A b \in Agents : OnlyFor(b, proposed_schedule[b])

SystemInv ==
  /\ SystemTypes
  /\ states \in Placements
  /\ started \/ main = "plan" => EnvIsSafe /\ env_states = states
  /\ thread \in {"planning", "ready"} => ProposalIsSafe

(* It holds at first.                                                      *)
LEMMA SystemInitInv == SystemInit => SystemInv
BY DEF SystemInit, Init, SystemInv, SystemTypes

(* A fresh copy is safe.                                                   *)
LEMMA CopyIsSafe ==
  ASSUME TypeOK, CarefulInv, CopyState, UNCHANGED vars
  PROVE  EnvIsSafe' /\ env_states' = states'
<1>1. /\ env_schedule' = current_assignment
      /\ env_pool' = [t \in ongoing_tasks |-> agent_assigned[t]]
      /\ env_states' = states
  BY DEF CopyState, TaskPool
<1>2. \A t \in ongoing_tasks : agent_assigned[t] = NoAgent =>
        \A a \in Agents : Dereferenced(a) => current_assignment[a] # t
  BY AgentsFacts DEF CarefulInv, AssignedToHolder
<1>3. \A a, b \in Agents : a # b /\ Dereferenced(a) =>
        current_assignment[a] # current_assignment[b]
  BY OneHolder DEF CarefulInv
<1> QED
  BY <1>1, <1>2, <1>3 DEF EnvIsSafe, OnlyFor, Dereferenced, TypeOK, TaskIds, vars, tasks

(* Safety outlives every step that lets nobody receive a task.             *)
LEMMA SafetyIsStable ==
  ASSUME TypeOK, TaskIds \subseteq TaskIds',
         \A a \in Agents : current_assignment'[a] \in {current_assignment[a], NoTask}
  PROVE  /\ EnvIsSafe /\ UNCHANGED <<env_schedule, env_pool>> => EnvIsSafe'
         /\ ProposalIsSafe /\ proposed_schedule' = proposed_schedule
              => ProposalIsSafe'
<1>1. \A b \in Agents : \A t : OnlyFor(b, t) => OnlyFor(b, t)'
  BY DEF OnlyFor, Dereferenced
<1>2. ASSUME EnvIsSafe, UNCHANGED <<env_schedule, env_pool>> PROVE EnvIsSafe'
  BY <1>1, <1>2 DEF EnvIsSafe
<1>3. ASSUME ProposalIsSafe, proposed_schedule' = proposed_schedule
      PROVE  ProposalIsSafe'
  BY <1>1, <1>3 DEF ProposalIsSafe
<1> QED BY <1>2, <1>3

(* What a plan made from the copies gives an agent.                        *)
LEMMA ComputedEntry ==
  ASSUME NEW p \in SchedulePlans(env_schedule, env_pool), NEW a \in Agents
  PROVE  \/ p[a] = NoTask
         \/ p[a] = env_schedule[a]
         \/ p[a] \in DOMAIN env_pool /\ env_pool[p[a]] = NoAgent
<1>1. PICK m \in 0..NumAgents : Serves(p, m, env_schedule, env_pool)
  BY DEF SchedulePlans
<1>2. CASE a \in 0..m-1
  BY <1>1, <1>2 DEF Serves, TasksLeft
<1>3. CASE a \in m..NumAgents-1
  BY <1>1, <1>3 DEF Serves
<1>4. a \in 0..m-1 \/ a \in m..NumAgents-1
  BY TaskManagerAssumption DEF Agents
<1> QED BY <1>2, <1>3, <1>4

(* A schedule computed from safe copies is safe, and so are the copies     *)
(* that computing it leaves behind.                                        *)
LEMMA ComputedIsSafe ==
  ASSUME TypeOK, EnvIsSafe, ComputeSchedule
  PROVE  EnvIsSafe' /\ ProposalIsSafe' /\ env_states' = env_states
<1> DEFINE given == {a \in Agents : env_schedule[a] = NoTask}
<1>1. PICK p \in SchedulePlans(env_schedule, env_pool) :
        /\ proposed_schedule' = p
        /\ env_schedule' = p
        /\ env_pool' = [t \in DOMAIN env_pool |->
             IF \E a \in given : p[a] = t
               THEN CHOOSE a \in given : p[a] = t
               ELSE env_pool[t]]
  BY DEF ComputeSchedule
<1>2. UNCHANGED vars /\ env_states' = env_states
  BY DEF ComputeSchedule
<1>3. \A b \in Agents : \A t : OnlyFor(b, t)' <=> OnlyFor(b, t)
  BY <1>2 DEF OnlyFor, Dereferenced, vars
<1>4. TaskIds' = TaskIds
  BY <1>2 DEF vars, tasks, TaskIds
<1>5. p \in [Agents -> TaskIds \cup {NoTask}]
  <2>1. p \in [Agents -> {NoTask} \cup DOMAIN env_pool \cup
                         {env_schedule[a] : a \in Agents}]
    BY DEF SchedulePlans, Proposals
  <2>2. \A a \in Agents : env_schedule[a] \in TaskIds \cup {NoTask}
    BY DEF EnvIsSafe
  <2> QED BY <2>1, <2>2 DEF EnvIsSafe
<1>6. \A b \in Agents : OnlyFor(b, NoTask)
  BY DEF OnlyFor, Dereferenced
<1>7. \A b \in Agents : OnlyFor(b, p[b])
  BY <1>6, ComputedEntry DEF EnvIsSafe
<1>8. \A t \in DOMAIN env_pool : env_pool'[t] = NoAgent => env_pool[t] = NoAgent
  BY <1>1, AgentsFacts
<1>9. DOMAIN env_pool' = DOMAIN env_pool
  BY <1>1
<1>10. ProposalIsSafe'
  BY <1>1, <1>3, <1>4, <1>5, <1>7 DEF ProposalIsSafe
<1>11. EnvIsSafe'
  BY <1>1, <1>3, <1>4, <1>5, <1>7, <1>8, <1>9 DEF EnvIsSafe
<1> QED BY <1>2, <1>10, <1>11

(* Handing over a safe proposal is a careful scheduler's step.             *)
LEMMA HandOverIsCareful ==
  ASSUME TypeOK, ProposalIsSafe
  PROVE  proposed_schedule \in Schedules /\ Careful(proposed_schedule)
<1>1. TaskIds \cup {NoTask} \subseteq NoTask..task_id
  BY DEF TypeOK, TaskIds, NoTask
<1>2. proposed_schedule \in [Agents -> NoTask..task_id]
  BY <1>1 DEF ProposalIsSafe
<1>3. proposed_schedule \in Schedules /\ Careful(proposed_schedule)
  BY <1>2, TeamSized DEF Careful, ProposalIsSafe, OnlyFor, Dereferenced
<1> QED BY <1>3

(* The loops of update_tasks give no task to anybody and move nobody.      *)
LEMMA LoopsOnlyTake ==
  ASSUME TypeOK, Loops
  PROVE  /\ TaskIds \subseteq TaskIds'
         /\ \A a \in Agents :
              current_assignment'[a] \in {current_assignment[a], NoTask}
         /\ states' = states
         /\ pc = "idle" => pc' = "idle"
<1>1. CASE NotArrived \/ OpenErrand \/ CrashInCheck \/ EndUpdate \/ Stopped
  BY <1>1 DEF NotArrived, OpenErrand, CrashInCheck, EndUpdate, Stopped, NextAgent,
              tasks, vars, TaskIds
<1>2. CASE FinishTask
  BY <1>2 DEF FinishTask, NextAgent, TaskIds, TypeOK
<1>3. CASE RevealTask
  BY <1>3 DEF RevealTask, TaskIds, TypeOK
<1> QED BY <1>1, <1>2, <1>3 DEF Loops

(* An empty schedule changes no task and no assignment.                    *)
LEMMA TimeoutChangesNothing ==
  ASSUME SetTaskAssignment(NoSchedule, states)
  PROVE  UNCHANGED <<tasks, current_assignment, states>> /\ pc = "idle"
BY NoScheduleIsCareful
   DEF SetTaskAssignment, AcceptAssignment, RejectAssignment, CrashInLog, CrashInValidate,
       BeginUpdate

(* With nothing changed but logs and program counters the copies stay safe.*)
LEMMA SafetyUnderStutter ==
  ASSUME TypeOK, UNCHANGED <<tasks, current_assignment>>
  PROVE  /\ EnvIsSafe /\ UNCHANGED <<env_schedule, env_pool>> => EnvIsSafe'
         /\ ProposalIsSafe /\ proposed_schedule' = proposed_schedule
              => ProposalIsSafe'
<1>1. TaskIds \subseteq TaskIds'
  BY DEF tasks, TaskIds
<1> QED BY <1>1, SafetyIsStable

(* Every step keeps it, and is one of a careful scheduler.                 *)
LEMMA SystemStep ==
  TypeOK /\ CarefulInv /\ SystemInv /\ [SystemNext]_allvars
    => SystemInv' /\ [CarefulNext]_vars
<1> SUFFICES ASSUME TypeOK, CarefulInv, SystemInv, [SystemNext]_allvars
             PROVE  SystemInv' /\ [CarefulNext]_vars
  OBVIOUS
<1> USE DEF SystemInv
<1>1. CASE SyncSharedEnv
  <2>1. UNCHANGED <<tasks, current_assignment, states, pc>>
    BY <1>1 DEF SyncSharedEnv, vars
  <2>2. SystemTypes' /\ (states \in Placements)'
    BY <1>1, <2>1 DEF SyncSharedEnv, SystemTypes
  <2>3. EnvIsSafe' /\ env_states' = states'
    <3>1. CASE started
      BY <1>1, <2>1, <3>1, SafetyUnderStutter DEF SyncSharedEnv, env
    <3>2. CASE ~started
      BY <1>1, <3>2, CopyIsSafe DEF SyncSharedEnv
    <3> QED BY <3>1, <3>2
  <2>4. thread' \in {"planning", "ready"} => ProposalIsSafe'
    BY <1>1, <2>1, SafetyUnderStutter DEF SyncSharedEnv
  <2> QED BY <1>1, <2>2, <2>3, <2>4 DEF SyncSharedEnv
<1>2. CASE PlanLaunch
  <2>1. UNCHANGED <<tasks, current_assignment, states, pc>>
    BY <1>2 DEF PlanLaunch, vars
  <2>2. SystemTypes' /\ (states \in Placements)'
    BY <1>2, <2>1 DEF PlanLaunch, SystemTypes
  <2>3. EnvIsSafe' /\ env_states' = states'
    BY <1>2, <2>1, SafetyUnderStutter DEF PlanLaunch, env
  <2> QED BY <1>2, <2>2, <2>3 DEF PlanLaunch
<1>3. CASE PlanStillRunning
  <2>1. UNCHANGED <<tasks, current_assignment, states, pc>>
    BY <1>3 DEF PlanStillRunning, vars
  <2>2. SystemTypes' /\ (states \in Placements)'
    BY <1>3, <2>1 DEF PlanStillRunning, PreviousRunIsOver, SystemTypes
  <2>3. EnvIsSafe' /\ env_states' = states'
    BY <1>3, <2>1, SafetyUnderStutter DEF PlanStillRunning, env
  <2>4. thread' \in {"planning", "ready"} => ProposalIsSafe'
    BY <1>3, <2>1, SafetyUnderStutter DEF PlanStillRunning
  <2> QED BY <1>3, <2>2, <2>3, <2>4 DEF PlanStillRunning
<1>4. CASE PlanInTime
  <2>1. PICK at \in Placements : SetTaskAssignment(proposed_schedule, at)
    BY <1>4 DEF PlanInTime
  <2>2. states' = at
    BY <2>1 DEF SetTaskAssignment, AcceptAssignment, RejectAssignment,
                CrashInLog, CrashInValidate, BeginUpdate
  <2>3. SystemTypes' /\ ~started' /\ main' = "sync" /\ thread' = "none"
    BY <1>4 DEF PlanInTime, SystemTypes
  <2>4. (states \in Placements)'
    <3>1. Placements' = Placements
      BY DEF Placements
    <3> QED BY <2>2, <3>1
  <2>5. CarefulNext
    BY <1>4, <2>1, HandOverIsCareful DEF PlanInTime, CarefulNext
  <2> QED BY <2>3, <2>4, <2>5
<1>5. CASE PlanTimeout
  <2>1. UNCHANGED <<tasks, current_assignment, states>> /\ pc = "idle"
    BY <1>5, TimeoutChangesNothing DEF PlanTimeout
  <2>2. SystemTypes' /\ (states \in Placements)'
    BY <1>5, <2>1 DEF PlanTimeout, SystemTypes
  <2>3. EnvIsSafe' /\ env_states' = states'
    BY <1>5, <2>1, SafetyUnderStutter DEF PlanTimeout, env, SystemTypes
  <2>4. thread' \in {"planning", "ready"} => ProposalIsSafe'
    BY <1>5, <2>1, SafetyUnderStutter DEF PlanTimeout
  <2>5. CarefulNext
    BY <1>5, NoScheduleIsCareful DEF PlanTimeout, CarefulNext
  <2> QED BY <2>2, <2>3, <2>4, <2>5
<1>6. CASE UpdateTasks
  <2>1. Loops /\ UNCHANGED <<main, started, thread, proposed_schedule,
                             env_schedule, env_pool, env_states>>
    BY <1>6 DEF UpdateTasks, planning, env
  <2>2. SystemTypes' /\ (states \in Placements)'
    BY <2>1, LoopsOnlyTake DEF SystemTypes
  <2>3. started' \/ main' = "plan" => EnvIsSafe' /\ env_states' = states'
    BY <2>1, LoopsOnlyTake, SafetyIsStable
  <2>4. thread' \in {"planning", "ready"} => ProposalIsSafe'
    BY <2>1, LoopsOnlyTake, SafetyIsStable
  <2> QED BY <2>1, <2>2, <2>3, <2>4 DEF CarefulNext
<1>7. CASE ComputeSchedule
  <2>1. UNCHANGED vars /\ UNCHANGED <<main, started, states, pc>>
        /\ thread = "scheduling" /\ thread' = "planning"
    BY <1>7 DEF ComputeSchedule, vars
  <2>2. SystemTypes' /\ (states \in Placements)'
    BY <2>1 DEF SystemTypes
  <2>3. EnvIsSafe /\ env_states = states
    BY <2>1 DEF SystemTypes
  <2> QED BY <1>7, <2>1, <2>2, <2>3, ComputedIsSafe
<1>8. CASE ComputeActions
  <2>1. UNCHANGED vars
        /\ UNCHANGED <<tasks, current_assignment, main, started, states, pc,
                       proposed_schedule, env_schedule, env_pool, env_states>>
        /\ thread = "planning" /\ thread' = "ready"
    BY <1>8 DEF ComputeActions, vars, env
  <2>2. SystemTypes' /\ (states \in Placements)'
    BY <2>1 DEF SystemTypes
  <2> QED BY <2>1, <2>2, SafetyUnderStutter
<1>9. CASE UNCHANGED allvars
  <2>1. UNCHANGED vars
        /\ UNCHANGED <<tasks, current_assignment, main, started, states, pc, thread,
                       proposed_schedule, env_schedule, env_pool, env_states>>
    BY <1>9 DEF allvars, vars, planning, env
  <2>2. SystemTypes' /\ (states \in Placements)'
    BY <2>1 DEF SystemTypes
  <2> QED BY <2>1, <2>2, SafetyUnderStutter
<1> QED
  BY <1>1, <1>2, <1>3, <1>4, <1>5, <1>6, <1>7, <1>8, <1>9
     DEF SystemNext, Main, Planner

(* However late the planner answers, and whichever of its answers are      *)
(* thrown away, the task manager is driven as by a careful scheduler       *)
(* (CarefulSpec): all that is proved of CarefulSpec holds of the whole     *)
(* simulation.  And a plan that is handed over was made for the places     *)
(* where the agents are (PlanIsForCurrentStates).                          *)
THEOREM SystemIsCareful ==
  SystemSpec => CarefulSpec /\ []PlanIsForCurrentStates
<1> DEFINE I == TypeOK /\ CarefulInv /\ SystemInv
<1>1. SystemInit => I /\ Init
  <2>1. SystemInit => states \in Placements
    BY DEF SystemInit, Init
  <2> QED BY <2>1, TypeInit, CarefulInit, SystemInitInv DEF SystemInit
<1>2. I /\ [SystemNext]_allvars => I' /\ [CarefulNext]_vars
  <2> SUFFICES ASSUME I, [SystemNext]_allvars PROVE I' /\ [CarefulNext]_vars
    OBVIOUS
  <2>1. SystemInv' /\ [CarefulNext]_vars
    BY SystemStep
  <2>2. TypeOK' /\ CarefulInv'
    BY <2>1, TypeStep, CarefulStep, CarefulIsAny
  <2> QED BY <2>1, <2>2
<1>3. I => PlanIsForCurrentStates
  BY DEF PlanIsForCurrentStates, SystemInv
<1> HIDE DEF I
<1> QED BY <1>1, <1>2, <1>3, PTL DEF SystemSpec, CarefulSpec

(* In the whole simulation no two agents ever hold one task                *)
(* (OneAgentPerTask) and the task manager never crashes (NoCrash).         *)
THEOREM SystemIsSafe == SystemSpec => []OneAgentPerTask /\ []NoCrash
BY SystemIsCareful, CarefulOneAgentPerTask, CarefulNoCrash, PTL

-----------------------------------------------------------------------------
(* What throwing a run's result away costs.                                *)

(* The schedule the planner starts from, and the one it proposes, leave    *)
(* every agent the task it holds.                                          *)
EnvKeeps == \A a \in Agents :
  Dereferenced(a) => env_schedule[a] = current_assignment[a]

OrphanInv == ~discarded =>
  /\ NoTaskOrphaned
  /\ thread = "scheduling" \/ (main = "plan" /\ ~started) => EnvKeeps
  /\ thread \in {"planning", "ready"} => KeepsTasks(proposed_schedule)

(* Both outlive the steps that give no task to anybody.                    *)
LEMMA KeepingIsStable ==
  ASSUME \A a \in Agents : current_assignment'[a] \in {current_assignment[a], NoTask},
         UNCHANGED <<env_schedule, proposed_schedule>>
  PROVE  /\ EnvKeeps => EnvKeeps'
         /\ KeepsTasks(proposed_schedule) => KeepsTasks(proposed_schedule)'
BY DEF EnvKeeps, KeepsTasks, Dereferenced

(* A plan made from a schedule that keeps the tasks keeps them.            *)
LEMMA ComputedKeeps ==
  ASSUME EnvKeeps, NEW p \in SchedulePlans(env_schedule, env_pool)
  PROVE  KeepsTasks(p)
<1>1. PICK m \in 0..NumAgents : Serves(p, m, env_schedule, env_pool)
  BY DEF SchedulePlans
<1> SUFFICES ASSUME NEW a \in Agents, Dereferenced(a)
             PROVE  p[a] \in {NoTask, current_assignment[a]}
  BY DEF KeepsTasks
<1>2. env_schedule[a] = current_assignment[a] /\ env_schedule[a] # NoTask
  BY DEF EnvKeeps, Dereferenced
<1>3. CASE a \in 0..m-1
  BY <1>1, <1>2, <1>3 DEF Serves
<1>4. CASE a \in m..NumAgents-1
  BY <1>1, <1>4 DEF Serves
<1>5. a \in 0..m-1 \/ a \in m..NumAgents-1
  BY TaskManagerAssumption DEF Agents
<1> QED BY <1>3, <1>4, <1>5

(* A task is lost by no other step than throwing a result away.            *)
LEMMA OrphanSystemStep ==
  TypeOK /\ CarefulInv' /\ SystemInv /\ OrphanInv /\ [SystemNext]_allvars
    => OrphanInv'
<1> SUFFICES ASSUME TypeOK, CarefulInv', SystemInv, OrphanInv, [SystemNext]_allvars,
                    ~discarded'
             PROVE  OrphanInv'
  BY DEF OrphanInv
<1>1. CASE SyncSharedEnv
  <2>1. NoTaskOrphaned' /\ UNCHANGED <<vars, current_assignment, discarded, thread,
                                      started, proposed_schedule>>
    BY <1>1, OrphanLoops DEF SyncSharedEnv, vars, OrphanInv
  <2>2. ~started => EnvKeeps'
    BY <1>1, <2>1 DEF SyncSharedEnv, CopyState, EnvKeeps, Dereferenced
  <2>3. started => env_schedule' = env_schedule
    BY <1>1 DEF SyncSharedEnv, env
  <2>4. thread = "scheduling" => started
    BY DEF SystemInv, SystemTypes
  <2> QED BY <2>1, <2>2, <2>3, <2>4 DEF OrphanInv, EnvKeeps, KeepsTasks, Dereferenced
<1>2. CASE PlanLaunch
  <2>1. NoTaskOrphaned' /\ UNCHANGED <<vars, current_assignment, env_schedule>>
    BY <1>2, OrphanLoops DEF PlanLaunch, vars, env, OrphanInv
  <2>2. ~discarded /\ ~started /\ main = "plan" /\ thread' = "scheduling"
    BY <1>2 DEF PlanLaunch
  <2> QED BY <2>1, <2>2 DEF OrphanInv, EnvKeeps, Dereferenced
<1>3. CASE PlanStillRunning
  <2>1. NoTaskOrphaned' /\ started'
        /\ UNCHANGED <<vars, current_assignment, discarded, thread,
                       env_schedule, proposed_schedule>>
    BY <1>3, OrphanLoops DEF PlanStillRunning, PreviousRunIsOver, vars, env, OrphanInv
  <2> QED BY <2>1 DEF OrphanInv, EnvKeeps, KeepsTasks, Dereferenced
<1>4. CASE PlanInTime
  <2>1. PICK at \in Placements : SetTaskAssignment(proposed_schedule, at)
    BY <1>4 DEF PlanInTime
  <2>2. thread = "ready" /\ thread' = "none" /\ main' = "sync" /\ ~discarded
    BY <1>4 DEF PlanInTime
  <2>3. NoTaskOrphaned'
    BY <2>1, <2>2, OrphanSchedule DEF OrphanInv
  <2> QED BY <2>2, <2>3 DEF OrphanInv
<1>5. CASE PlanTimeout
  <2>1. UNCHANGED current_assignment
    BY <1>5, TimeoutChangesNothing DEF PlanTimeout
  <2>2. NoTaskOrphaned'
    BY <1>5, OrphanSchedule DEF PlanTimeout, OrphanInv
  <2>3. UNCHANGED <<thread, discarded, env_schedule, proposed_schedule>> /\ main' = "sync"
    BY <1>5 DEF PlanTimeout, env
  <2> QED BY <2>1, <2>2, <2>3, KeepingIsStable DEF OrphanInv
<1>6. CASE UpdateTasks
  <2>1. NoTaskOrphaned'
    BY <1>6, OrphanLoops DEF UpdateTasks, planning, OrphanInv
  <2>2. UNCHANGED <<main, started, thread, discarded, env_schedule, proposed_schedule>>
    BY <1>6 DEF UpdateTasks, planning, env
  <2> QED BY <1>6, <2>1, <2>2, LoopsOnlyTake, KeepingIsStable DEF UpdateTasks, OrphanInv
<1>7. CASE ComputeSchedule
  <2>1. PICK p \in SchedulePlans(env_schedule, env_pool) : proposed_schedule' = p
    BY <1>7 DEF ComputeSchedule
  <2>2. NoTaskOrphaned' /\ UNCHANGED <<vars, current_assignment, main, started, discarded>>
        /\ thread = "scheduling" /\ thread' = "planning"
    BY <1>7, OrphanLoops DEF ComputeSchedule, vars, OrphanInv
  <2>3. KeepsTasks(p) /\ started
    BY <2>2, ComputedKeeps DEF OrphanInv, SystemInv, SystemTypes
  <2> QED BY <2>1, <2>2, <2>3 DEF OrphanInv, KeepsTasks, Dereferenced
<1>8. CASE ComputeActions \/ UNCHANGED allvars
  <2>1. vars' = vars /\ UNCHANGED <<current_assignment, main, started, discarded,
                                      env_schedule, proposed_schedule>>
        /\ (thread' = thread \/ (thread = "planning" /\ thread' = "ready"))
    <3>1. CASE ComputeActions
      BY <3>1 DEF ComputeActions, env, vars
    <3>2. CASE UNCHANGED allvars
      <4>1. vars' = vars /\ planning' = planning
        BY <3>2 DEF allvars
      <4>2. current_assignment' = current_assignment
        BY <4>1 DEF vars
      <4>3. UNCHANGED <<main, started, discarded, env_schedule, proposed_schedule, thread>>
        BY <4>1 DEF planning, env
      <4> QED BY <4>1, <4>2, <4>3
    <3> QED BY <1>8, <3>1, <3>2
  <2>2. NoTaskOrphaned'
    BY <2>1, OrphanLoops DEF OrphanInv, vars
  <2> QED BY <2>1, <2>2 DEF OrphanInv, EnvKeeps, KeepsTasks, Dereferenced
<1> QED
  BY <1>1, <1>2, <1>3, <1>4, <1>5, <1>6, <1>7, <1>8 DEF SystemNext, Main, Planner

(* When no task is orphaned, a schedule that serves every agent leaves one *)
(* idle only when all the tasks are shared out.                            *)
LEMMA CompletePlanSharesOut ==
  ASSUME TypeOK, NoTaskOrphaned,
         NEW p \in CompletePlans(current_assignment, TaskPool),
         NEW a \in Agents, p[a] = NoTask,
         NEW t \in ongoing_tasks
  PROVE  \E b \in Agents : p[b] = t
<1>1. Serves(p, NumAgents, current_assignment, TaskPool)
  BY DEF CompletePlans
<1>2. \A b \in Agents : current_assignment[b] # NoTask => p[b] = current_assignment[b]
  BY <1>1 DEF Serves, Agents
<1>3. CASE agent_assigned[t] # NoAgent
  <2>1. agent_assigned[t] \in Agents /\ current_assignment[agent_assigned[t]] = t
    BY <1>3 DEF NoTaskOrphaned, Holds, TypeOK
  <2>2. t # NoTask
    BY DEF TypeOK, TaskIds, NoTask
  <2> QED BY <1>2, <2>1, <2>2
<1>4. CASE agent_assigned[t] = NoAgent
  <2>1. TasksLeft(p, a, current_assignment, TaskPool) = {}
    <3>1. NoTask \notin TasksLeft(p, a, current_assignment, TaskPool)
      BY DEF TasksLeft, TaskPool, TypeOK, TaskIds, NoTask
    <3> QED BY <1>1, <1>2, <3>1 DEF Serves, Agents
  <2>2. \E b \in 0..a-1 : p[b] = t
    BY <1>4, <2>1 DEF TasksLeft, TaskPool
  <2> QED BY <2>2, TaskManagerAssumption DEF Agents
<1> QED BY <1>3, <1>4

-----------------------------------------------------------------------------
(* Why a schedule that is handed over may be refused.                      *)

(* Agent a may hold t, unless it has finished it.                          *)
Accounted(a, t) ==
  t \in ongoing_tasks \/ \E i \in 1..Len(finished_tasks[a]) : finished_tasks[a][i] = t

(* In the planner's copies no two agents have one task, a free task is     *)
(* nobody's, here and in the assignment in force, and still ongoing.       *)
EnvIsAccounted ==
  /\ \A a, b \in Agents :
       env_schedule[a] # NoTask /\ env_schedule[a] = env_schedule[b] => a = b
  /\ \A a \in Agents : env_schedule[a] # NoTask => Accounted(a, env_schedule[a])
  /\ \A t \in DOMAIN env_pool : env_pool[t] = NoAgent =>
       /\ t \in ongoing_tasks
       /\ \A a \in Agents : env_schedule[a] # t /\ current_assignment[a] # t

ProposalIsAccounted(p) ==
  /\ \A a, b \in Agents : p[a] # NoTask /\ p[a] = p[b] => a = b
  /\ \A a \in Agents : p[a] # NoTask => Accounted(a, p[a])

(* Agents with a task are left out only from some agent on.                *)
CutShort(p) == \A a \in Agents :
  Dereferenced(a) /\ p[a] = NoTask => \A b \in a..NumAgents-1 : p[b] = NoTask

CauseInv ==
  /\ started \/ main = "plan" => EnvIsAccounted
  /\ thread \in {"planning", "ready"} =>
       /\ ProposalIsAccounted(proposed_schedule)
       /\ ~discarded => CutShort(proposed_schedule)

LEMMA CopyIsAccounted ==
  ASSUME TypeOK, CarefulInv, CopyState, UNCHANGED vars
  PROVE  EnvIsAccounted'
<1>1. /\ env_schedule' = current_assignment
      /\ env_pool' = [t \in ongoing_tasks |-> agent_assigned[t]]
      /\ UNCHANGED <<current_assignment, ongoing_tasks, finished_tasks>>
  BY DEF CopyState, TaskPool, vars, tasks, logs
<1>2. \A a, b \in Agents : Dereferenced(a) /\ current_assignment[a] = current_assignment[b]
        => a = b
  BY OneHolder DEF CarefulInv, Dereferenced
<1>3. \A a \in Agents : Dereferenced(a) => current_assignment[a] \in ongoing_tasks
  BY DEF CarefulInv, HeldTaskIsOngoing, NullTask
<1>4. \A t \in ongoing_tasks : agent_assigned[t] = NoAgent =>
        \A a \in Agents : current_assignment[a] # t
  <2>1. \A t \in ongoing_tasks : t # NoTask
    BY DEF TypeOK, TaskIds, NoTask
  <2> QED BY <2>1, AgentsFacts DEF CarefulInv, AssignedToHolder, Dereferenced
<1> QED BY <1>1, <1>2, <1>3, <1>4 DEF EnvIsAccounted, Accounted, Dereferenced

(* Who may hold a task is credited when it finishes; what nobody holds     *)
(* does not finish.                                                        *)
LEMMA AccountsGoOn ==
  ASSUME TypeOK, CarefulInv,
         Loops \/ UNCHANGED <<tasks, current_assignment, finished_tasks>>,
         NEW a \in Agents, NEW t
  PROVE  /\ Accounted(a, t) /\ OnlyFor(a, t) => Accounted(a, t)'
         /\ t \in ongoing_tasks /\ (\A b \in Agents : current_assignment[b] # t)
              => t \in ongoing_tasks'
<1>1. CASE FinishTask
  <2> DEFINE u == current_assignment[k]
  <2>1. /\ k \in Agents /\ Dereferenced(k) /\ agent_assigned[u] = k
        /\ ongoing_tasks' = ongoing_tasks \ {u}
        /\ finished_tasks' = [finished_tasks EXCEPT ![k] = Append(@, u)]
    BY <1>1, ArrivalFacts, KIsAgent DEF FinishTask, Arrived, NextAgent, CarefulInv, AssignedToHolder
  <2>2. finished_tasks[a] \in Seq(TaskIds) /\ finished_tasks \in [Agents -> Seq(TaskIds)]
    BY DEF TypeOK
  <2>3. CASE t = u
    <3>1. ASSUME OnlyFor(a, t) PROVE Accounted(a, t)'
      <4>1. a = k
        BY <2>1, <2>3, <3>1 DEF OnlyFor
      <4>2. finished_tasks'[a] = Append(finished_tasks[a], t)
        BY <2>1, <2>2, <2>3, <4>1
      <4>3. Len(finished_tasks'[a]) = Len(finished_tasks[a]) + 1
            /\ finished_tasks'[a][Len(finished_tasks[a]) + 1] = t
        BY <2>2, <4>2
      <4>4. Len(finished_tasks[a]) + 1 \in 1..Len(finished_tasks'[a])
        BY <2>2, <4>3
      <4> QED BY <4>3, <4>4 DEF Accounted
    <3> QED BY <2>1, <2>3, <3>1
  <2>4. CASE t # u
    <3>1. ASSUME NEW i \in 1..Len(finished_tasks[a]), finished_tasks[a][i] = t
          PROVE  i \in 1..Len(finished_tasks'[a]) /\ finished_tasks'[a][i] = t
      <4>1. CASE a = k
        <5>1. finished_tasks'[a] = Append(finished_tasks[a], u)
          BY <2>1, <2>2, <4>1
        <5> QED BY <2>2, <3>1, <5>1
      <4>2. CASE a # k
        BY <2>1, <2>2, <3>1, <4>2
      <4> QED BY <4>1, <4>2
    <3> QED BY <2>1, <2>4, <3>1 DEF Accounted
  <2> QED BY <2>3, <2>4
<1>2. CASE ~FinishTask
  <2>1. ongoing_tasks \subseteq ongoing_tasks' /\ finished_tasks' = finished_tasks
    BY <1>2 DEF Loops, NotArrived, OpenErrand, CrashInCheck, RevealTask, EndUpdate, Stopped,
                vars, tasks, logs
  <2> QED BY <2>1 DEF Accounted
<1> QED BY <1>1, <1>2

(* So accounts outlive the steps that give no task to anybody.             *)
LEMMA AccountsAreStable ==
  ASSUME TypeOK, CarefulInv,
         Loops \/ UNCHANGED <<tasks, current_assignment, finished_tasks>>,
         UNCHANGED <<env_schedule, env_pool, proposed_schedule>>
  PROVE  /\ EnvIsSafe /\ EnvIsAccounted => EnvIsAccounted'
         /\ ProposalIsSafe /\ ProposalIsAccounted(proposed_schedule)
              => ProposalIsAccounted(proposed_schedule)'
         /\ CutShort(proposed_schedule) => CutShort(proposed_schedule)'
<1>1. \A a \in Agents : current_assignment'[a] \in {current_assignment[a], NoTask}
  BY LoopsOnlyTake
<1>2. ASSUME EnvIsSafe, EnvIsAccounted PROVE EnvIsAccounted'
  <2>1. \A a \in Agents : env_schedule[a] # NoTask => Accounted(a, env_schedule[a])'
    BY <1>2, AccountsGoOn DEF EnvIsSafe, EnvIsAccounted
  <2>2. ASSUME NEW t \in DOMAIN env_pool, env_pool[t] = NoAgent
        PROVE  /\ t \in ongoing_tasks'
               /\ \A a \in Agents : env_schedule[a] # t /\ current_assignment'[a] # t
    <3>1. t \in ongoing_tasks /\ \A a \in Agents : current_assignment[a] # t
      BY <1>2, <2>2 DEF EnvIsAccounted
    <3>2. t # NoTask
      BY <3>1 DEF TypeOK, TaskIds, NoTask
    <3>3. t \in ongoing_tasks'
      BY <3>1, AccountsGoOn, AgentsFacts
    <3> QED BY <1>1, <1>2, <2>2, <3>1, <3>2, <3>3 DEF EnvIsAccounted
  <2> QED BY <1>2, <2>1, <2>2 DEF EnvIsAccounted, Accounted
<1>3. ASSUME ProposalIsSafe, ProposalIsAccounted(proposed_schedule)
      PROVE  ProposalIsAccounted(proposed_schedule)'
  <2>1. \A a \in Agents : proposed_schedule[a] # NoTask => Accounted(a, proposed_schedule[a])'
    BY <1>3, AccountsGoOn DEF ProposalIsSafe, ProposalIsAccounted
  <2> QED BY <1>3, <2>1 DEF ProposalIsAccounted, Accounted
<1>4. ASSUME CutShort(proposed_schedule) PROVE CutShort(proposed_schedule)'
  BY <1>1, <1>4 DEF CutShort, Dereferenced
<1> QED BY <1>2, <1>3, <1>4

(* No two agents get one task from a plan made of distinct ones.           *)
LEMMA PlanIsDistinct ==
  ASSUME NEW cur, NEW pool, NEW p \in SchedulePlans(cur, pool),
         \A a, b \in Agents : cur[a] # NoTask /\ cur[a] = cur[b] => a = b,
         \A a \in Agents : cur[a] \in DOMAIN pool => pool[cur[a]] # NoAgent,
         NEW a \in Agents, NEW b \in Agents, p[a] # NoTask, p[a] = p[b]
  PROVE  a = b
<1>1. PICK m \in 0..NumAgents : Serves(p, m, cur, pool)
  BY DEF SchedulePlans
<1>2. \A c \in Agents : p[c] # NoTask =>
        IF cur[c] # NoTask THEN p[c] = cur[c] ELSE p[c] \in TasksLeft(p, c, cur, pool)
  <2> SUFFICES ASSUME NEW c \in Agents, p[c] # NoTask
               PROVE  IF cur[c] # NoTask THEN p[c] = cur[c]
                                         ELSE p[c] \in TasksLeft(p, c, cur, pool)
    OBVIOUS
  <2>1. c \in 0..m-1 \/ c \in m..NumAgents-1
    BY TaskManagerAssumption DEF Agents
  <2> QED BY <1>1, <2>1 DEF Serves
<1>3. ASSUME NEW c \in Agents, NEW d \in Agents, c < d, p[c] # NoTask, p[c] = p[d]
      PROVE  FALSE
  <2>1. c \in 0..d-1
    BY <1>3, TaskManagerAssumption DEF Agents
  <2>2. CASE cur[c] # NoTask /\ cur[d] # NoTask
    <3>1. c = d
      BY <1>2, <1>3, <2>2
    <3> QED BY <1>3, <3>1, TaskManagerAssumption DEF Agents
  <2>3. CASE cur[c] = NoTask /\ cur[d] # NoTask
    BY <1>2, <1>3, <2>3 DEF TasksLeft
  <2>4. CASE cur[c] # NoTask /\ cur[d] = NoTask
    BY <1>2, <1>3, <2>4 DEF TasksLeft
  <2>5. CASE cur[c] = NoTask /\ cur[d] = NoTask
    BY <1>2, <1>3, <2>1, <2>5 DEF TasksLeft
  <2> QED BY <2>2, <2>3, <2>4, <2>5
<1>4. a < b \/ b < a \/ a = b
  BY TaskManagerAssumption DEF Agents
<1> QED BY <1>3, <1>4

(* The schedule computed from accounted copies is accounted for, and so    *)
(* are the copies it leaves behind.                                        *)
LEMMA ComputedIsAccounted ==
  ASSUME TypeOK, EnvIsSafe, EnvIsAccounted, ComputeSchedule
  PROVE  EnvIsAccounted' /\ ProposalIsAccounted(proposed_schedule)'
<1> DEFINE given == {a \in Agents : env_schedule[a] = NoTask}
<1>1. PICK p \in SchedulePlans(env_schedule, env_pool) :
        /\ proposed_schedule' = p
        /\ env_schedule' = p
        /\ env_pool' = [t \in DOMAIN env_pool |->
             IF \E a \in given : p[a] = t
               THEN CHOOSE a \in given : p[a] = t
               ELSE env_pool[t]]
  BY DEF ComputeSchedule
<1>2. UNCHANGED <<ongoing_tasks, current_assignment, finished_tasks>>
  BY DEF ComputeSchedule, vars, tasks, logs
<1>3. \A a, b \in Agents : p[a] # NoTask /\ p[a] = p[b] => a = b
  BY PlanIsDistinct DEF EnvIsAccounted
<1>4. \A a \in Agents : p[a] # NoTask => Accounted(a, p[a])
  BY ComputedEntry DEF EnvIsAccounted, Accounted
<1>5. ASSUME NEW t \in DOMAIN env_pool, env_pool'[t] = NoAgent
      PROVE  /\ t \in ongoing_tasks
             /\ \A a \in Agents : p[a] # t /\ current_assignment[a] # t
  <2>1. ~(\E a \in given : p[a] = t) /\ env_pool[t] = NoAgent
    BY <1>1, <1>5, AgentsFacts
  <2>2. t \in ongoing_tasks /\ \A a \in Agents : env_schedule[a] # t /\ current_assignment[a] # t
    BY <2>1 DEF EnvIsAccounted
  <2>3. t # NoTask
    BY <2>2 DEF TypeOK, TaskIds, NoTask
  <2>4. ASSUME NEW a \in Agents, p[a] = t PROVE FALSE
    <3>1. env_schedule[a] # NoTask
      BY <2>1, <2>4
    <3>2. PICK m \in 0..NumAgents : Serves(p, m, env_schedule, env_pool)
      BY DEF SchedulePlans
    <3>3. a \in 0..m-1 \/ a \in m..NumAgents-1
      BY TaskManagerAssumption DEF Agents
    <3> QED BY <2>2, <2>3, <2>4, <3>1, <3>2, <3>3 DEF Serves
  <2> QED BY <2>2, <2>4
<1>6. DOMAIN env_pool' = DOMAIN env_pool
  BY <1>1
<1> QED
  BY <1>1, <1>2, <1>3, <1>4, <1>5, <1>6 DEF EnvIsAccounted, ProposalIsAccounted, Accounted

(* Made of a schedule that keeps the tasks, it leaves some out from the    *)
(* agent on at which time ran out.                                         *)
LEMMA ComputedIsCutShort ==
  ASSUME EnvKeeps, NEW p \in SchedulePlans(env_schedule, env_pool)
  PROVE  CutShort(p)
<1>1. PICK m \in 0..NumAgents : Serves(p, m, env_schedule, env_pool)
  BY DEF SchedulePlans
<1> SUFFICES ASSUME NEW a \in Agents, Dereferenced(a), p[a] = NoTask
             PROVE  \A b \in a..NumAgents-1 : p[b] = NoTask
  BY DEF CutShort
<1>2. env_schedule[a] # NoTask
  BY DEF EnvKeeps, Dereferenced
<1>3. a \notin 0..m-1
  BY <1>1, <1>2 DEF Serves
<1>4. \A b \in a..NumAgents-1 : b \in m..NumAgents-1
  BY <1>3, TaskManagerAssumption DEF Agents
<1> QED BY <1>1, <1>4 DEF Serves

LEMMA CauseStep ==
  TypeOK /\ CarefulInv /\ SystemInv /\ OrphanInv /\ CauseInv /\ [SystemNext]_allvars
    => CauseInv'
<1> SUFFICES ASSUME TypeOK, CarefulInv, SystemInv, OrphanInv, CauseInv,
                    [SystemNext]_allvars
             PROVE  CauseInv'
  OBVIOUS
<1> USE DEF SystemInv
<1>1. CASE SyncSharedEnv
  <2>1. UNCHANGED <<vars, tasks, current_assignment, finished_tasks>>
        /\ UNCHANGED <<thread, started, proposed_schedule, discarded>>
    BY <1>1 DEF SyncSharedEnv, vars, logs
  <2>2. CASE started
    <3>1. UNCHANGED <<env_schedule, env_pool>>
      BY <1>1, <2>2 DEF SyncSharedEnv, env
    <3> QED BY <2>1, <2>2, <3>1, AccountsAreStable DEF CauseInv
  <2>3. CASE ~started
    <3>1. EnvIsAccounted'
      BY <1>1, <2>1, <2>3, CopyIsAccounted DEF SyncSharedEnv
    <3>2. thread = "none"
      BY <2>3 DEF SystemTypes
    <3> QED BY <2>1, <3>1, <3>2 DEF CauseInv
  <2> QED BY <2>2, <2>3
<1>2. CASE PlanLaunch
  <2>1. UNCHANGED <<tasks, current_assignment, finished_tasks, env_schedule, env_pool>>
        /\ main = "plan" /\ thread' = "scheduling"
    BY <1>2 DEF PlanLaunch, vars, logs, env
  <2>2. EnvIsAccounted'
    BY <2>1 DEF CauseInv, EnvIsAccounted, Accounted, tasks
  <2> QED BY <2>1, <2>2 DEF CauseInv
<1>3. CASE PlanStillRunning \/ PlanTimeout \/ UpdateTasks \/ ComputeActions
            \/ UNCHANGED allvars
  <2>1. UNCHANGED <<env_schedule, env_pool, proposed_schedule, discarded, started>>
        /\ (thread' = thread \/ (thread = "planning" /\ thread' = "ready"))
        /\ (main' = main \/ main' = "sync" \/ started)
    <3>1. CASE PlanStillRunning
      BY <3>1 DEF PlanStillRunning, PreviousRunIsOver, env
    <3>2. CASE PlanTimeout
      BY <3>2 DEF PlanTimeout, env
    <3>3. CASE UpdateTasks
      BY <3>3 DEF UpdateTasks, planning, env
    <3>4. CASE ComputeActions
      BY <3>4 DEF ComputeActions, env
    <3>5. CASE UNCHANGED allvars
      BY <3>5 DEF allvars, planning, env
    <3> QED BY <1>3, <3>1, <3>2, <3>3, <3>4, <3>5
  <2>2. Loops \/ UNCHANGED <<tasks, current_assignment, finished_tasks>>
    <3>1. CASE PlanStillRunning \/ ComputeActions \/ UNCHANGED allvars
      <4>1. UNCHANGED vars
        BY <3>1 DEF PlanStillRunning, ComputeActions, allvars
      <4> QED BY <4>1 DEF vars, logs
    <3>2. CASE PlanTimeout
      <4>1. ~AcceptAssignment(NoSchedule, states)
        BY NoScheduleIsCareful DEF AcceptAssignment
      <4> QED BY <3>2, <4>1
           DEF PlanTimeout, SetTaskAssignment, RejectAssignment, CrashInLog, CrashInValidate, logs
    <3>3. CASE UpdateTasks
      BY <3>3 DEF UpdateTasks
    <3> QED BY <1>3, <3>1, <3>2, <3>3
  <2>3. thread \in {"planning", "ready"} => started
    BY DEF SystemTypes
  <2> QED BY <2>1, <2>2, <2>3, AccountsAreStable DEF CauseInv
<1>4. CASE PlanInTime
  BY <1>4 DEF PlanInTime, CauseInv
<1>5. CASE ComputeSchedule
  <2>1. PICK p \in SchedulePlans(env_schedule, env_pool) : proposed_schedule' = p
    BY <1>5 DEF ComputeSchedule
  <2>2. UNCHANGED <<current_assignment, main, started, discarded>>
        /\ thread = "scheduling"
    BY <1>5 DEF ComputeSchedule, vars
  <2>3. started
    BY <2>2 DEF SystemTypes
  <2>4. EnvIsAccounted' /\ ProposalIsAccounted(proposed_schedule)'
    BY <1>5, <2>3, ComputedIsAccounted DEF CauseInv
  <2>5. ~discarded => CutShort(p)
    BY <2>2, ComputedIsCutShort DEF OrphanInv
  <2> QED BY <2>1, <2>2, <2>4, <2>5 DEF CauseInv, CutShort, Dereferenced
<1> QED
  BY <1>1, <1>2, <1>3, <1>4, <1>5 DEF SystemNext, Main, Planner

LEMMA CauseExplains ==
  ASSUME TypeOK, OrphanInv, CauseInv
  PROVE  RefusedForCauseOnly
<1> SUFFICES ASSUME thread = "ready", NEW a \in Agents
             PROVE  /\ ~Repeated(proposed_schedule, a)
                    /\ NotOngoing(proposed_schedule, a) =>
                         \E i \in 1..Len(finished_tasks[a]) :
                           finished_tasks[a][i] = proposed_schedule[a]
                    /\ ~discarded /\ Reassigned(proposed_schedule, a) =>
                         \A b \in a..NumAgents-1 : proposed_schedule[b] = NoTask
  BY DEF RefusedForCauseOnly
<1>1. ~Repeated(proposed_schedule, a)
  <2>1. \A b \in 0..a-1 : b \in Agents /\ b # a
    BY TaskManagerAssumption DEF Agents
  <2> QED BY <2>1 DEF CauseInv, ProposalIsAccounted, Repeated
<1>2. NotOngoing(proposed_schedule, a) =>
        \E i \in 1..Len(finished_tasks[a]) : finished_tasks[a][i] = proposed_schedule[a]
  BY DEF CauseInv, ProposalIsAccounted, NotOngoing, Accounted
<1>3. ~discarded /\ Reassigned(proposed_schedule, a) =>
        \A b \in a..NumAgents-1 : proposed_schedule[b] = NoTask
  BY DEF OrphanInv, CauseInv, KeepsTasks, CutShort, Reassigned
<1> QED BY <1>1, <1>2, <1>3

(* A task is lost, marked as given while nobody holds it, only after some  *)
(* run's result was thrown away (OrphansNeedADiscard); until then no agent *)
(* is left idle by a schedule made from the state of affairs that serves   *)
(* everybody, while there is work (WorkIsSharedOut).  And a schedule that  *)
(* is handed over fails the checks only because its agent finished the     *)
(* task meanwhile, or because it was cut short (RefusedForCauseOnly).      *)
THEOREM SystemSharesWork ==
  SystemSpec => []OrphansNeedADiscard /\ []WorkIsSharedOut /\ []RefusedForCauseOnly
<1> DEFINE I == TypeOK /\ CarefulInv /\ SystemInv /\ OrphanInv /\ CauseInv
<1>1. SystemInit => I
  <2>1. SystemInit => states \in Placements
    BY DEF SystemInit, Init
  <2>2. SystemInit => OrphanInv
    BY OrphanInit DEF SystemInit, OrphanInv
  <2>3. SystemInit => CauseInv
    BY DEF SystemInit, CauseInv
  <2> QED BY <2>1, <2>2, <2>3, TypeInit, CarefulInit, SystemInitInv DEF SystemInit
<1>2. I /\ [SystemNext]_allvars => I'
  <2> SUFFICES ASSUME I, [SystemNext]_allvars PROVE I'
    OBVIOUS
  <2>1. SystemInv' /\ [CarefulNext]_vars
    BY SystemStep
  <2>2. TypeOK' /\ CarefulInv'
    BY <2>1, TypeStep, CarefulStep, CarefulIsAny
  <2>3. OrphanInv'
    BY <2>2, OrphanSystemStep
  <2>4. CauseInv'
    BY CauseStep
  <2> QED BY <2>1, <2>2, <2>3, <2>4
<1>3. I => OrphansNeedADiscard /\ WorkIsSharedOut
  BY CompletePlanSharesOut
     DEF OrphanInv, OrphansNeedADiscard, WorkIsSharedOut, NoWorkLeftUndone
<1>4. I => RefusedForCauseOnly
  BY CauseExplains
<1> HIDE DEF I
<1> QED BY <1>1, <1>2, <1>3, <1>4, PTL DEF SystemSpec

(* What a late schedule is refused for.                                    *)
THEOREM SystemRefusesForCause == SystemSpec => []RefusedForCauseOnly
BY SystemSharesWork, PTL

(* Until a run is thrown away no agent is left idle while there is work.   *)
THEOREM SystemWorkIsSharedOut == SystemSpec => []WorkIsSharedOut
BY SystemSharesWork, PTL

(* A planner run, however long it takes, works on where the agents are.    *)
THEOREM SystemPlansWhereAgentsAre == SystemSpec => []PlanIsForCurrentStates
BY SystemIsCareful, PTL

(* What the event log and the schedules in the result file say of the      *)
(* credits holds of the whole simulation: its scheduler is a careful one.  *)
THEOREM SystemAccountsAreRight ==
  SystemSpec => []OneAgentVisitsAllErrands /\ []ScheduleExplainsCredits
BY SystemIsCareful, CarefulVisits, CarefulScheduleExplainsCredits, PTL
=============================================================================
