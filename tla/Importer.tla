------------------------------ MODULE Importer ------------------------------
(***************************************************************************)
(* galaxy/api/importer.py: one Importer, or CollectionImporter, of the     *)
(* plugin.  start() takes a request unless an import is in progress,       *)
(* prepares a context and creates the import task; the task gathers one    *)
(* task per id, each of which notifies the client, and announces the end.  *)
(*                                                                         *)
(* An action is one uninterrupted run of a coroutine.  The order in which  *)
(* the event loop runs the tasks is left open.  Plugin.close() cancels     *)
(* what runs, once; afterwards no start() is called (GalaxyPlugin,         *)
(* NoNewWorkAfterClose).                                                   *)
(***************************************************************************)
EXTENDS Naturals

CONSTANTS
    Req,            \* the calls of start()
    Id,             \* what can be imported
    Collection,     \* whether this is a CollectionImporter
    MaxYields       \* bound: notifications per id of a collection

ASSUME CollectionAssumption == Collection \in BOOLEAN
ASSUME MaxYieldsAssumption == MaxYields \in Nat

VARIABLES
    inProgress,     \* _import_in_progress
    start,          \* start[r]: the call of start()
    batch,          \* batch[r]: its argument ids
    unlisted,       \* the calls whose argument is not a list
    task,           \* task[r]: its task _import_elements
    element,        \* element[r][i]: the child task _import_element for i
    cancelled,      \* calls and tasks with a cancellation not yet delivered
    cancelledIds,   \* cancelledIds[r]: the same for its child tasks
    notified,       \* notified[r][i]: success and failure notifications sent
    partial,        \* partial[r][i]: partially_finished was sent
    finished,       \* the tasks that sent the finished notification
    closed          \* Plugin.close() was called

vars == <<inProgress, start, batch, unlisted, task, element, cancelled, cancelledIds,
          notified, partial, finished, closed>>

StartState == {"none", "preparing", "accepted", "refused", "failed"}
TaskState == {"none", "created", "gathering", "done", "dropped"}
ElementState == {"none", "created", "running", "done", "dropped"}

TypeOK ==
    /\ inProgress \in BOOLEAN
    /\ start \in [Req -> StartState]
    /\ batch \in [Req -> SUBSET Id]
    /\ unlisted \in SUBSET Req
    /\ task \in [Req -> TaskState]
    /\ element \in [Req -> [Id -> ElementState]]
    /\ cancelled \in SUBSET Req
    /\ cancelledIds \in [Req -> SUBSET Id]
    /\ notified \in [Req -> [Id -> Nat]]
    /\ partial \in [Req -> [Id -> BOOLEAN]]
    /\ finished \in SUBSET Req
    /\ closed \in BOOLEAN

Init ==
    /\ inProgress = FALSE
    /\ start = [r \in Req |-> "none"]
    /\ batch = [r \in Req |-> {}]
    /\ unlisted = {}
    /\ task = [r \in Req |-> "none"]
    /\ element = [r \in Req |-> [i \in Id |-> "none"]]
    /\ cancelled = {}
    /\ cancelledIds = [r \in Req |-> {}]
    /\ notified = [r \in Req |-> [i \in Id |-> 0]]
    /\ partial = [r \in Req |-> [i \in Id |-> FALSE]]
    /\ finished = {}
    /\ closed = FALSE

(* The request that keeps _import_in_progress set.                         *)
Busy(r) == start[r] = "preparing" \/ task[r] \in {"created", "gathering", "dropped"}

(* The client knows that nothing more comes for id i.                      *)
Reported(r, i) == IF Collection THEN partial[r][i] ELSE notified[r][i] > 0

Ended(r, i) == element[r][i] \in {"done", "dropped"}

-----------------------------------------------------------------------------
(* start() while an import is in progress raises ImportInProgress.         *)
Refuse(r) ==
    /\ ~closed
    /\ start[r] = "none"
    /\ inProgress
    /\ start' = [start EXCEPT ![r] = "refused"]
    /\ UNCHANGED <<inProgress, batch, unlisted, task, element, cancelled, cancelledIds,
                   notified, partial, finished, closed>>

(* Slip: start() does not look at the flag.                                *)
MayStartAlways(r) == ~closed /\ start[r] = "none"

MayStart(r) == ~closed /\ start[r] = "none" /\ ~inProgress

(* start() sets the flag and awaits _prepare_context.                      *)
Prepare(r, ids, isList) ==
    /\ MayStart(r)
    /\ inProgress' = TRUE
    /\ start' = [start EXCEPT ![r] = "preparing"]
    /\ isList \/ ids = {}
    /\ batch' = [batch EXCEPT ![r] = ids]
    /\ unlisted' = IF isList THEN unlisted ELSE unlisted \cup {r}
    /\ UNCHANGED <<task, element, cancelled, cancelledIds, notified, partial,
                   finished, closed>>

(* The context is there: the import task is created, start() returns.      *)
Accept(r) ==
    /\ start[r] = "preparing"
    /\ r \notin cancelled
    /\ start' = [start EXCEPT ![r] = "accepted"]
    /\ task' = [task EXCEPT ![r] = "created"]
    /\ UNCHANGED <<inProgress, batch, unlisted, element, cancelled, cancelledIds, notified,
                   partial, finished, closed>>

(* _prepare_context raises, or start() is cancelled in it.                 *)
FailPrepare(r) ==
    /\ start[r] = "preparing"
    /\ start' = [start EXCEPT ![r] = "failed"]
    /\ inProgress' = FALSE
    /\ cancelled' = cancelled \ {r}
    /\ UNCHANGED <<batch, unlisted, task, element, cancelledIds, notified, partial, finished, closed>>

(* Plugin.close(): cancelling an import that gathers cancels its children. *)
Close ==
    /\ ~closed
    /\ closed' = TRUE
    /\ cancelled' = {r \in Req : start[r] = "preparing" \/ task[r] \in {"created", "gathering"}}
    /\ cancelledIds' = [r \in Req |->
           {i \in Id : task[r] = "gathering" /\ element[r][i] \in {"created", "running"}}]
    /\ UNCHANGED <<inProgress, start, batch, unlisted, task, element, notified, partial, finished>>

-----------------------------------------------------------------------------
(* The import task is cancelled before its first run: neither its finally  *)
(* clause nor the task manager's is reached.                               *)
DropTask(r) ==
    /\ task[r] = "created"
    /\ r \in cancelled
    /\ task' = [task EXCEPT ![r] = "dropped"]
    /\ cancelled' = cancelled \ {r}
    /\ UNCHANGED <<inProgress, start, batch, unlisted, element, cancelledIds, notified,
                   partial, finished, closed>>

(* One child per id is created and gathered.                               *)
Gather(r) ==
    /\ task[r] = "created"
    /\ r \notin cancelled
    /\ batch[r] # {}
    /\ task' = [task EXCEPT ![r] = "gathering"]
    /\ element' = [element EXCEPT ![r] = [i \in Id |-> IF i \in batch[r] THEN "created" ELSE "none"]]
    /\ UNCHANGED <<inProgress, start, batch, unlisted, cancelled, cancelledIds,
                   notified, partial, finished, closed>>

(* _import_elements ends: the finally clause resets the flag.              *)
EndTask(r) ==
    /\ task' = [task EXCEPT ![r] = "done"]
    /\ inProgress' = FALSE

(* Slip: the notification is forgotten.                                    *)
AnnounceNothing(r) == finished' = finished

(* _notification_finished().                                               *)
Announce(r) == finished' = finished \cup {r}

(* Slip: asyncio.wait(FIRST_COMPLETED) for gather.                         *)
FirstReturned(r) == \E i \in batch[r] : element[r][i] = "done"

(* gather() has all the results.                                           *)
AllReturned(r) == \A i \in batch[r] : element[r][i] = "done"

(* No ids: finished is sent at once.  Not a list: the task raises          *)
(* TypeError and ends without it.                                          *)
GatherNothing(r) ==
    /\ task[r] = "created"
    /\ r \notin cancelled
    /\ batch[r] = {}
    /\ EndTask(r)
    /\ IF r \in unlisted THEN UNCHANGED finished ELSE Announce(r)
    /\ UNCHANGED <<start, batch, unlisted, element, cancelled, cancelledIds, notified, partial, closed>>

(* All children are done: finished is sent, the flag is reset.             *)
Finish(r) ==
    /\ task[r] = "gathering"
    /\ r \notin cancelled
    /\ AllReturned(r)
    /\ EndTask(r)
    /\ Announce(r)
    /\ UNCHANGED <<start, batch, unlisted, element, cancelled, cancelledIds, notified, partial, closed>>

(* A cancelled gather() raises CancelledError as soon as one child ended   *)
(* cancelled, or when all have ended after swallowing the cancellation.    *)
EndCancelled(r) ==
    /\ task[r] = "gathering"
    /\ r \in cancelled
    /\ \/ \E i \in batch[r] : element[r][i] = "dropped"
       \/ \A i \in batch[r] : Ended(r, i)
    /\ EndTask(r)
    /\ cancelled' = cancelled \ {r}
    /\ UNCHANGED <<start, batch, unlisted, element, cancelledIds, notified, partial, finished, closed>>

-----------------------------------------------------------------------------
StartElement(r, i) ==
    /\ element[r][i] = "created"
    /\ i \notin cancelledIds[r]
    /\ element' = [element EXCEPT ![r][i] = "running"]
    /\ UNCHANGED <<inProgress, start, batch, unlisted, task, cancelled, cancelledIds,
                   notified, partial, finished, closed>>

(* A child cancelled before its first run ends as a cancelled task.        *)
DropElement(r, i) ==
    /\ element[r][i] = "created"
    /\ i \in cancelledIds[r]
    /\ element' = [element EXCEPT ![r][i] = "dropped"]
    /\ cancelledIds' = [cancelledIds EXCEPT ![r] = @ \ {i}]
    /\ UNCHANGED <<inProgress, start, batch, unlisted, task, cancelled, notified, partial,
                   finished, closed>>

(* A collection yields an element.                                         *)
Yield(r, i) ==
    /\ Collection
    /\ element[r][i] = "running"
    /\ notified[r][i] < MaxYields
    /\ notified' = [notified EXCEPT ![r][i] = @ + 1]
    /\ UNCHANGED <<inProgress, start, batch, unlisted, task, element, cancelled, cancelledIds,
                   partial, finished, closed>>

(* A child ends without a notification when it is cancelled, and when a    *)
(* collection is exhausted.                                                *)
MayEndUnnoticed(r, i) == Collection \/ i \in cancelledIds[r]

(* _get is through, and the client is notified.  At the end of a           *)
(* collection partially_finished is sent in every case.                    *)
EndElement(r, i) ==
    /\ element[r][i] = "running"
    /\ element' = [element EXCEPT ![r][i] = "done"]
    /\ cancelledIds' = [cancelledIds EXCEPT ![r] = @ \ {i}]
    /\ \E n \in {0, 1} :
          /\ n = 0 => MayEndUnnoticed(r, i)
          /\ notified' = [notified EXCEPT ![r][i] = @ + n]
    /\ partial' = [partial EXCEPT ![r][i] = Collection]
    /\ UNCHANGED <<inProgress, start, batch, unlisted, task, cancelled, finished, closed>>

-----------------------------------------------------------------------------
(* The steps the event loop owes a call and its task.                      *)
Step(r) ==
    \/ Accept(r)
    \/ FailPrepare(r)
    \/ DropTask(r)
    \/ Gather(r)
    \/ GatherNothing(r)
    \/ Finish(r)
    \/ EndCancelled(r)

ElementStep(r, i) == StartElement(r, i) \/ DropElement(r, i) \/ EndElement(r, i)

Next ==
    \/ \E r \in Req : Refuse(r)
    \/ \E r \in Req, ids \in SUBSET Id, isList \in BOOLEAN : Prepare(r, ids, isList)
    \/ \E r \in Req : Step(r)
    \/ \E r \in Req, i \in Id : ElementStep(r, i) \/ Yield(r, i)
    \/ Close

Spec == Init /\ [][Next]_vars

(***************************************************************************)
(* The event loop runs every task, and _prepare_context and _get end.      *)
(***************************************************************************)
Fairness ==
    /\ \A r \in Req : WF_vars(Step(r))
    /\ \A r \in Req, i \in Id : WF_vars(ElementStep(r, i))

FairSpec == Spec /\ Fairness

-----------------------------------------------------------------------------
(* At most one import is under way, and _import_in_progress tells whether. *)
(* An import cancelled before its first run keeps it set for good.         *)
OneImport ==
    /\ inProgress <=> \E r \in Req : Busy(r)
    /\ \A r, s \in Req : Busy(r) /\ Busy(s) => r = s

(* finished is sent only when every id of the request has been reported:   *)
(* with a success or a failure, or, for a collection, partially_finished.  *)
FinishedMeansReported ==
    \A r \in finished : \A i \in batch[r] : Reported(r, i)

(* After finished nothing more is sent for the request: the client would   *)
(* take it for a part of the next one.                                     *)
SilentAfterFinished ==
    [][\A r \in finished : notified'[r] = notified[r] /\ partial'[r] = partial[r]]_vars

(* A child outlives the gather() it belongs to only in a plugin that is    *)
(* closing, where no new import can be confused with it.                   *)
StragglersOnlyWhenClosed ==
    \A r \in Req, i \in Id :
        element[r][i] \in {"created", "running"} /\ task[r] # "gathering" => closed

(* An accepted import sends finished, unless the plugin is closed or the   *)
(* ids were not a list.                                                    *)
ImportsFinish ==
    \A r \in Req :
        start[r] = "accepted" ~> (r \in finished \/ closed \/ r \in unlisted)

-----------------------------------------------------------------------------
Gathering == {r \in Req : task[r] = "gathering"}

SessionState ==
    IF closed THEN "aborted"
    ELSE IF Gathering # {} THEN "reporting"
    ELSE IF inProgress THEN "preparing"
    ELSE "idle"

Awaited ==
    {i \in Id : ~closed /\ \E r \in Gathering : i \in batch[r] /\ ~Reported(r, i)}

Session == INSTANCE ImportSession WITH session <- SessionState, awaited <- Awaited

(* The importer keeps to the sessions that the client relies on.           *)
ImplementsSession == Session!Spec

=============================================================================
