--------------------------- MODULE TaskAllocation ---------------------------
(***************************************************************************)
(* What the task manager promises to its users, without saying how: tasks  *)
(* are revealed one after the other, each is held by at most one agent, an *)
(* agent that has visited the first errand of a task keeps it until its    *)
(* last errand, errands are visited in order, and a completed task is      *)
(* credited once, to the agent that carried it out.                        *)
(***************************************************************************)
EXTENDS Integers

CONSTANTS Agents,          \* the team
          NumErrands(_)    \* how many errands the task with this id has

None == -1

VARIABLES revealed,   \* tasks 0..revealed-1 have been revealed
          holder,     \* the task each agent holds, or None
          progress,   \* the errands of each task visited so far
          credit      \* the agent that completed each task, or None

avars == <<revealed, holder, progress, credit>>

AInit == /\ revealed = 0
         /\ holder = [a \in Agents |-> None]
         /\ progress = [t \in 0..-1 |-> 0]
         /\ credit = [t \in 0..-1 |-> None]

Reveal == /\ revealed' = revealed + 1
          /\ progress' = [t \in 0..revealed |->
                            IF t = revealed THEN 0 ELSE progress[t]]
          /\ credit' = [t \in 0..revealed |->
                            IF t = revealed THEN None ELSE credit[t]]
          /\ UNCHANGED holder

(* Tasks change hands only while unopened; a task that is taken from an    *)
(* agent is replaced by another one; nobody receives a completed task.     *)
Assign == /\ holder' \in [Agents -> {None} \cup 0..revealed-1]
          /\ \A a, b \in Agents :
               holder'[a] = holder'[b] /\ holder'[a] # None => a = b
          /\ \A a \in Agents : holder'[a] # None => credit[holder'[a]] = None
          /\ \A a \in Agents : holder[a] # None =>
               /\ holder'[a] # None
               /\ progress[holder[a]] > 0 => holder'[a] = holder[a]
          /\ UNCHANGED <<revealed, progress, credit>>

VisitErrand(a) ==
  /\ holder[a] # None
  /\ progress[holder[a]] + 1 < NumErrands(holder[a])
  /\ progress' = [progress EXCEPT ![holder[a]] = @ + 1]
  /\ UNCHANGED <<revealed, holder, credit>>

CompleteTask(a) ==
  /\ holder[a] # None
  /\ progress[holder[a]] + 1 = NumErrands(holder[a])
  /\ progress' = [progress EXCEPT ![holder[a]] = @ + 1]
  /\ credit' = [credit EXCEPT ![holder[a]] = a]
  /\ holder' = [holder EXCEPT ![a] = None]
  /\ UNCHANGED revealed

ANext == \/ Reveal
         \/ Assign
         \/ \E a \in Agents : VisitErrand(a) \/ CompleteTask(a)

ASpec == AInit /\ [][ANext]_avars
=============================================================================
