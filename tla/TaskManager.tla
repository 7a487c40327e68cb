---------------------------- MODULE TaskManager ----------------------------
(***************************************************************************)
(* galaxy/task_manager.py: the registry that every coroutine of the plugin *)
(* runs under.  create_task wraps a coroutine into an asyncio task and     *)
(* enters it into the dictionary _tasks; the wrapper's finally clause      *)
(* takes it out again; cancel() requests the cancellation of everything    *)
(* registered; wait() gathers what is registered until nothing is.         *)
(*                                                                         *)
(* asyncio is single-threaded, so one action is one uninterrupted run of a *)
(* coroutine between two awaits.  The order in which the event loop runs   *)
(* ready tasks is left open here; GalaxyPlugin fixes it (FIFO) and refines *)
(* this module.                                                            *)
(***************************************************************************)
CONSTANTS
    Task,   \* the tasks that may ever be created in this manager
    Waiter  \* the coroutines that call wait()

VARIABLES
    state,      \* state[t]: life cycle of task t
    cancelled,  \* the tasks with a cancellation request not yet delivered
    tasks,      \* the keys of the dictionary _tasks
    waiter,     \* waiter[w]: progress of coroutine w through wait()
    gathered    \* gathered[w]: the tasks of the gather() that w awaits

vars == <<state, cancelled, tasks, waiter, gathered>>

(***************************************************************************)
(* "created": scheduled, its first step has not run yet.                   *)
(* "running": inside the wrapper's try block, at some await of coro.       *)
(* "done":    left the wrapper through its finally clause.                 *)
(* "dropped": finished without ever entering the wrapper's body.           *)
(***************************************************************************)
TaskState == {"none", "created", "running", "done", "dropped"}
WaitState == {"idle", "gathering", "returned"}

Live == {t \in Task : state[t] \in {"created", "running"}}
Dropped == {t \in Task : state[t] = "dropped"}

TypeOK ==
    /\ state \in [Task -> TaskState]
    /\ cancelled \in SUBSET Task
    /\ tasks \in SUBSET Task
    /\ waiter \in [Waiter -> WaitState]
    /\ gathered \in [Waiter -> SUBSET Task]

Init ==
    /\ state = [t \in Task |-> "none"]
    /\ cancelled = {}
    /\ tasks = {}
    /\ waiter = [w \in Waiter |-> "idle"]
    /\ gathered = [w \in Waiter |-> {}]

-----------------------------------------------------------------------------
(* create_task called by code that is not itself a task of this manager.   *)
CreateTask(t) ==
    /\ state[t] = "none"
    /\ state' = [state EXCEPT ![t] = "created"]
    /\ tasks' = tasks \cup {t}
    /\ UNCHANGED <<cancelled, waiter, gathered>>

(* One uninterrupted run of task t: from its start or its last await to    *)
(* its next await, possibly creating the tasks `spawned` in this manager.  *)
StepTask(t, spawned) ==
    /\ t \in Live \ cancelled
    /\ \A u \in spawned : state[u] = "none"
    /\ state' = [u \in Task |-> IF u = t THEN "running"
                                ELSE IF u \in spawned THEN "created"
                                ELSE state[u]]
    /\ tasks' = tasks \cup spawned
    /\ UNCHANGED <<cancelled, waiter, gathered>>

(* Slip: the wrapper without its finally clause.                           *)
FinishTaskKept(t, spawned) ==
    /\ t \in Live \ cancelled
    /\ \A u \in spawned : state[u] = "none"
    /\ state' = [u \in Task |-> IF u = t THEN "done"
                                ELSE IF u \in spawned THEN "created"
                                ELSE state[u]]
    /\ tasks' = tasks \cup spawned
    /\ UNCHANGED <<cancelled, waiter, gathered>>

(* The last run of task t: the coroutine returns or raises, and the        *)
(* wrapper's finally clause deletes the registration.                      *)
FinishTask(t, spawned) ==
    /\ t \in Live \ cancelled
    /\ \A u \in spawned : state[u] = "none"
    /\ state' = [u \in Task |-> IF u = t THEN "done"
                                ELSE IF u \in spawned THEN "created"
                                ELSE state[u]]
    /\ tasks' = (tasks \cup spawned) \ {t}
    /\ UNCHANGED <<cancelled, waiter, gathered>>

(* A started task receives CancelledError at its await and ends.           *)
EndCancelled(t) ==
    /\ state[t] = "running"
    /\ t \in cancelled
    /\ state' = [state EXCEPT ![t] = "done"]
    /\ tasks' = tasks \ {t}
    /\ cancelled' = cancelled \ {t}
    /\ UNCHANGED <<waiter, gathered>>

(* A started task receives CancelledError, catches it, and goes on.        *)
CatchCancelled(t) ==
    /\ state[t] = "running"
    /\ t \in cancelled
    /\ cancelled' = cancelled \ {t}
    /\ UNCHANGED <<state, tasks, waiter, gathered>>

(* A task whose first step has not run receives CancelledError before the  *)
(* wrapper's try statement is entered: its finally clause does not run and *)
(* the registration stays.                                                 *)
DropTask(t) ==
    /\ state[t] = "created"
    /\ t \in cancelled
    /\ state' = [state EXCEPT ![t] = "dropped"]
    /\ cancelled' = cancelled \ {t}
    /\ UNCHANGED <<tasks, waiter, gathered>>

TaskEnds(t) ==
    \/ \E spawned \in SUBSET Task : FinishTask(t, spawned)
    \/ EndCancelled(t)
    \/ DropTask(t)

-----------------------------------------------------------------------------
(* cancel(): Task.cancel() on a task that already finished has no effect.  *)
CancelRequested == cancelled \cup (tasks \cap Live)

(* Slip: cancel() also forgets what it cancelled.                          *)
CancelAndForget ==
    /\ cancelled' = CancelRequested
    /\ tasks' = {}
    /\ UNCHANGED <<state, waiter, gathered>>

Cancel ==
    /\ cancelled' = CancelRequested
    /\ UNCHANGED <<state, tasks, waiter, gathered>>

(* The body of wait()'s loop: return when nothing is registered, otherwise *)
(* gather what is registered now.                                          *)
CheckTasks(w) ==
    /\ waiter' = [waiter EXCEPT ![w] = IF tasks = {} THEN "returned" ELSE "gathering"]
    /\ gathered' = [gathered EXCEPT ![w] = tasks]

BeginWait(w) ==
    /\ waiter[w] = "idle"
    /\ CheckTasks(w)
    /\ UNCHANGED <<state, cancelled, tasks>>

(* Plugin.close() followed by wait() with no await in between.             *)
CancelAndWait(w) ==
    /\ waiter[w] = "idle"
    /\ cancelled' = CancelRequested
    /\ CheckTasks(w)
    /\ UNCHANGED <<state, tasks>>

(* Slip: one gather() instead of a loop.                                   *)
ResumeWaitOnce(w) ==
    /\ waiter[w] = "gathering"
    /\ gathered[w] \cap Live = {}
    /\ waiter' = [waiter EXCEPT ![w] = "returned"]
    /\ UNCHANGED <<state, cancelled, tasks, gathered>>

(* gather() completes when every task it was given has finished, and the   *)
(* loop looks at the registry again: "Tasks can spawn other tasks".        *)
ResumeWait(w) ==
    /\ waiter[w] = "gathering"
    /\ gathered[w] \cap Live = {}
    /\ CheckTasks(w)
    /\ UNCHANGED <<state, cancelled, tasks>>

-----------------------------------------------------------------------------
Next ==
    \/ \E t \in Task : CreateTask(t)
    \/ \E t \in Task, spawned \in SUBSET Task : StepTask(t, spawned)
    \/ \E t \in Task, spawned \in SUBSET Task : FinishTask(t, spawned)
    \/ \E t \in Task : EndCancelled(t)
    \/ \E t \in Task : CatchCancelled(t)
    \/ \E t \in Task : DropTask(t)
    \/ Cancel
    \/ \E w \in Waiter : BeginWait(w)
    \/ \E w \in Waiter : CancelAndWait(w)
    \/ \E w \in Waiter : ResumeWait(w)

Spec == Init /\ [][Next]_vars

(***************************************************************************)
(* The event loop runs every ready callback, and the coroutines given to   *)
(* the manager terminate.                                                  *)
(***************************************************************************)
Fairness ==
    /\ \A t \in Task : WF_vars(TaskEnds(t))
    /\ \A w \in Waiter : WF_vars(ResumeWait(w))

FairSpec == Spec /\ Fairness

-----------------------------------------------------------------------------
(* The registry holds exactly the unfinished tasks and the tasks cancelled *)
(* before their first step: nothing unfinished escapes wait() and cancel(),*)
(* and nothing else keeps an entry of _tasks.                              *)
RegistryExact == tasks = Live \cup Dropped

(* wait() returns only at a moment when no task of the manager is          *)
(* unfinished, whatever tasks were spawned while it was waiting.           *)
WaitReturnsOnlyWhenQuiet ==
    [][\A w \in Waiter :
          waiter[w] # "returned" /\ waiter'[w] = "returned" => Live' = {}]_vars

(* A wait() in progress returns, provided no task was cancelled before its *)
(* first step.  (Without the proviso it does not: see GalaxyPlugin.)       *)
WaitReturns ==
    [](Dropped = {}) =>
        \A w \in Waiter : (waiter[w] = "gathering") ~> (waiter[w] = "returned")

=============================================================================
