------------------------- MODULE TaskManager_proofs -------------------------
(***************************************************************************)
(* Machine-checked proofs about TaskManager, for every set of tasks and of *)
(* waiters: the registry is exact, and wait() returns only when the        *)
(* manager is quiet.                                                       *)
(***************************************************************************)
EXTENDS TaskManager, TLAPS

(* The inductive invariant: the types and the exactness of _tasks.         *)
IInv == TypeOK /\ RegistryExact

(* The initial registry is empty and no task exists.                       *)
LEMMA InitIInv == Init => IInv
  BY DEF Init, IInv, TypeOK, RegistryExact, Live, Dropped, TaskState, WaitState

(* CheckTasks keeps the types of what it assigns.                          *)
LEMMA CheckTasksType ==
  ASSUME TypeOK, NEW w \in Waiter, CheckTasks(w)
  PROVE  /\ waiter' \in [Waiter -> WaitState]
         /\ gathered' \in [Waiter -> SUBSET Task]
  BY DEF TypeOK, CheckTasks, WaitState

(* Every step keeps the types and the exactness of the registry; a step of*)
(* cancel() or wait() leaves the registry alone.                           *)
LEMMA StepIInv == IInv /\ [Next]_vars => IInv'
<1> SUFFICES ASSUME IInv, [Next]_vars
             PROVE  IInv'
  OBVIOUS
<1> USE DEF IInv, TypeOK, RegistryExact, Live, Dropped, TaskState
<1>1. ASSUME NEW t \in Task, CreateTask(t)
      PROVE  IInv'
  BY <1>1 DEF CreateTask
<1>2. ASSUME NEW t \in Task, NEW spawned \in SUBSET Task, StepTask(t, spawned)
      PROVE  IInv'
  <2>1. state' \in [Task -> TaskState]
    BY <1>2 DEF StepTask
  <2>2. tasks' = Live' \cup Dropped'
    BY <1>2 DEF StepTask
  <2>3. QED
    BY <1>2, <2>1, <2>2 DEF StepTask
<1>3. ASSUME NEW t \in Task, NEW spawned \in SUBSET Task, FinishTask(t, spawned)
      PROVE  IInv'
  <2>1. state' \in [Task -> TaskState]
    BY <1>3 DEF FinishTask
  <2>2. tasks' = Live' \cup Dropped'
    BY <1>3 DEF FinishTask
  <2>3. QED
    BY <1>3, <2>1, <2>2 DEF FinishTask
<1>4. ASSUME NEW t \in Task, EndCancelled(t)
      PROVE  IInv'
  BY <1>4 DEF EndCancelled
<1>5. ASSUME NEW t \in Task, CatchCancelled(t)
      PROVE  IInv'
  BY <1>5 DEF CatchCancelled
<1>6. ASSUME NEW t \in Task, DropTask(t)
      PROVE  IInv'
  BY <1>6 DEF DropTask
<1>7. CASE Cancel
  BY <1>7 DEF Cancel, CancelRequested
<1>8. ASSUME NEW w \in Waiter, BeginWait(w)
      PROVE  IInv'
  BY <1>8, CheckTasksType DEF BeginWait
<1>9. ASSUME NEW w \in Waiter, CancelAndWait(w)
      PROVE  IInv'
  BY <1>9, CheckTasksType DEF CancelAndWait, CancelRequested
<1>10. ASSUME NEW w \in Waiter, ResumeWait(w)
       PROVE  IInv'
  BY <1>10, CheckTasksType DEF ResumeWait
<1>11. CASE UNCHANGED vars
  BY <1>11 DEF vars
<1>12. QED
  BY <1>1, <1>2, <1>3, <1>4, <1>5, <1>6, <1>7, <1>8, <1>9, <1>10, <1>11
     DEF Next

(* The inductive invariant holds throughout: no step of create_task, of a  *)
(* task, of cancel() or of wait() disturbs it.                             *)
THEOREM Invariance == Spec => []IInv
<1>1. Init => IInv
  BY InitIInv
<1>2. IInv /\ [Next]_vars => IInv'
  BY StepIInv
<1>3. QED
  BY <1>1, <1>2, PTL DEF Spec

(* Every variable of the task manager keeps its type.                      *)
THEOREM TypeCorrect == Spec => []TypeOK
<1>1. IInv => TypeOK
  BY DEF IInv
<1>2. QED
  BY <1>1, Invariance, PTL

(* _tasks holds exactly the unfinished tasks and the ones cancelled before *)
(* their first step, for any number of tasks.                              *)
THEOREM RegistryIsExact == Spec => []RegistryExact
<1>1. IInv => RegistryExact
  BY DEF IInv
<1>2. QED
  BY <1>1, Invariance, PTL

(* wait() returns only at a moment when no task is unfinished, for any     *)
(* number of tasks, spawned in any order, and of concurrent waiters.       *)
THEOREM WaitIsSound == Spec => WaitReturnsOnlyWhenQuiet
<1> DEFINE Quiet == \A w \in Waiter :
                waiter[w] # "returned" /\ waiter'[w] = "returned" => Live' = {}
<1>1. ASSUME IInv, [Next]_vars
      PROVE  [Quiet]_vars
  <2> SUFFICES ASSUME NEW w \in Waiter,
                      waiter[w] # "returned", waiter'[w] = "returned"
               PROVE  Live' = {}
    OBVIOUS
  <2>1. PICK x \in Waiter : /\ CheckTasks(x)
                            /\ UNCHANGED <<state, tasks>>
    BY <1>1 DEF Next, vars, CreateTask, StepTask, FinishTask, EndCancelled,
       CatchCancelled, DropTask, Cancel, BeginWait, CancelAndWait, ResumeWait
  <2>2. w = x /\ tasks = {}
    BY <1>1, <2>1 DEF CheckTasks, IInv, TypeOK
  <2>3. Live = {}
    BY <1>1, <2>2 DEF IInv, RegistryExact
  <2>4. QED
    BY <2>1, <2>3 DEF Live
<1>2. QED
  BY <1>1, Invariance, PTL DEF Spec, WaitReturnsOnlyWhenQuiet
=============================================================================
