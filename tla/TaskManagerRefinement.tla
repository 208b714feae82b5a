------------------------ MODULE TaskManagerRefinement ------------------------
(***************************************************************************)
(* The task manager under a careful scheduler implements TaskAllocation:   *)
(* an update is one reassignment, one visit or completion per agent that   *)
(* arrives, and one reveal per task revealed.                              *)
(***************************************************************************)
EXTENDS TaskManager

(* A finished task was completed by the agent it was last assigned to.     *)
CreditOf == [t \in TaskIds |->
               IF t \in ongoing_tasks THEN NoAgent ELSE agent_assigned[t]]

Alloc == INSTANCE TaskAllocation WITH
           Agents <- Agents, NumErrands <- NumErrandsOf,
           revealed <- task_id, holder <- current_assignment,
           progress <- idx_next_loc, credit <- CreditOf

(* Tasks change hands only while unopened, one holder each; errands are    *)
(* visited in order; completion is credited to the agent that carried the  *)
(* task out.                                                               *)
ImplementsAllocation == Alloc!ASpec
=============================================================================
