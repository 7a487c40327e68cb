---------------------------- MODULE GalaxyPlugin ----------------------------
(***************************************************************************)
(* The running plugin: the read loop of galaxy/api/jsonrpc.py, the handler *)
(* task of each message, the external and internal task managers of        *)
(* galaxy/api/plugin.py, and the shutdown of all of them.                  *)
(*                                                                         *)
(* Everything runs on one asyncio event loop.  `ready` is the loop's queue *)
(* of runnable tasks, served first in, first out; an action whose guard is *)
(* Turn(t) is one uninterrupted run of task t up to its next await.  What  *)
(* is not decided by the plugin (input, timers, I/O of the handlers) puts  *)
(* a task into the queue with Wake, after an arbitrary delay.              *)
(***************************************************************************)
EXTENDS Naturals, Sequences

CONSTANTS
    MaxMsgs,    \* bound: messages the client sends in one behavior
    Kind        \* the kinds of message it may send

Kinds == {
    "query",      \* request run as an external task, e.g. import_owned_games
    "notify",     \* notification run as an external task, e.g. launch_game
    "import",     \* start_local_size_import
    "shutdown",
    "init",       \* initialize_cache: answered inline, starts a tick loop
    "ping",       \* answered inline: ping, get_capabilities, rejected messages
    "badParams",  \* request run by a task, whose params are no JSON object
    "badPing",    \* the same for a handler that is called inline
    "badNotify",  \* the same for a notification
    "misfit",     \* request run by a task, whose params do not fit the handler
    "misfitNotify", \* the same for a notification
    "fatal" }     \* request that raises out of run() before it is answered

(***************************************************************************)
(* Params are bound to the signature of the handler's wrapper, which takes *)
(* any arguments.  Hence only what is no object cannot be bound; an object *)
(* that does not fit makes the call itself raise.  For a handler called    *)
(* inline that is "fatal", and so are a line of JSON that is no object,    *)
(* and params that are none where some are to be masked for the log.       *)
(***************************************************************************)
ASSUME MaxMsgsAssumption == MaxMsgs \in Nat
ASSUME KindAssumption == Kind \subseteq Kinds

Msg == 1..MaxMsgs

Main == <<"main", 0>>               \* the coroutine given to asyncio.run
Teardown == <<"teardown", 0>>       \* the coroutine shutdown() in Plugin.close
Handle(m) == <<"handle", m>>        \* handle(), or a notification's wrapper
External(m) == <<"external", m>>    \* the handler of the integration
Import(m) == <<"import", m>>        \* Importer._import_elements
Tick(m) == <<"tick", m>>            \* _pass_control

(* The tasks of the three task managers.                                   *)
ConnectionTasks == {Handle(m) : m \in Msg}
ExternalTasks == {External(m) : m \in Msg} \cup {Import(m) : m \in Msg}
InternalTasks == {Tick(m) : m \in Msg} \cup {Teardown}
Managed == ConnectionTasks \cup ExternalTasks \cup InternalTasks
Task == Managed \cup {Main}

VARIABLES
    wire,       \* kinds of the messages received and not yet read
    eof,        \* the client closed its end of the connection
    read,       \* kinds of the messages read so far; message m is read[m]
    active,     \* Connection._active
    open,       \* Plugin._active
    ready,      \* the event loop's queue
    pc,         \* pc[t]: where task t is
    cancelled,  \* tasks whose next run raises CancelledError
    registered, \* the union of the three _tasks dictionaries
    gathered,   \* gathered[t]: tasks of the gather() in the wait() of t
    importing,  \* Importer._import_in_progress
    answers     \* answers[m]: number of replies sent for message m

vars == <<wire, eof, read, active, open, ready, pc, cancelled, registered,
          gathered, importing, answers>>

stream == <<wire, eof, read>>
flags == <<active, open>>

Waiter == {Main} \cup ConnectionTasks

(* A task that awaits a wait() has the name of the manager as its pc.      *)
PC == {"none", "created", "waiting", "done", "dropped",
       "reading", "external", "internal", "connection", "closed"}

IsRequest(k) == k \notin {"notify", "badNotify", "misfitNotify"}
Unfinished == {t \in Task : pc[t] \notin {"none", "done", "dropped", "closed"}}
Dropped == {t \in Task : pc[t] = "dropped"}

TypeOK ==
    /\ wire \in Seq(Kind)
    /\ eof \in BOOLEAN
    /\ read \in Seq(Kind)
    /\ Len(read) + Len(wire) <= MaxMsgs
    /\ active \in BOOLEAN
    /\ open \in BOOLEAN
    /\ ready \in Seq(Task)
    /\ pc \in [Task -> PC]
    /\ cancelled \in SUBSET ExternalTasks
    /\ registered \in SUBSET Managed
    /\ gathered \in [Waiter -> SUBSET Managed]
    /\ importing \in BOOLEAN
    /\ answers \in [Msg -> 0..2]

Init ==
    /\ wire = <<>>
    /\ eof = FALSE
    /\ read = <<>>
    /\ active = TRUE
    /\ open = TRUE
    /\ ready = <<Main>>
    /\ pc = [t \in Task |-> IF t = Main THEN "reading" ELSE "none"]
    /\ cancelled = {}
    /\ registered = {}
    /\ gathered = [t \in Waiter |-> {}]
    /\ importing = FALSE
    /\ answers = [m \in Msg |-> 0]

Turn(t) == ready # <<>> /\ Head(ready) = t

(* The running task leaves the queue; `woken` become runnable.             *)
Schedule(woken) == ready' = Tail(ready) \o woken

(* Every result of this integration and every error can be encoded.        *)
Replied(m) == [answers EXCEPT ![m] = @ + 1]

(* Slip: task_wrapper without its finally clause.                          *)
StillRegistered(t) == registered

(* The finally clause of task_wrapper.                                     *)
Deregistered(t) == registered \ {t}

-----------------------------------------------------------------------------
(* The client.                                                             *)
Send(k) ==
    /\ ~eof
    /\ Len(read) + Len(wire) < MaxMsgs
    /\ wire' = Append(wire, k)
    /\ UNCHANGED <<eof, read, flags, ready, pc, cancelled, registered,
                   gathered, importing, answers>>

CloseStream ==
    /\ ~eof
    /\ eof' = TRUE
    /\ UNCHANGED <<wire, read, flags, ready, pc, cancelled, registered,
                   gathered, importing, answers>>

(* What task t awaits has happened: there is something to read, a          *)
(* gathered task set has finished, I/O is complete, a timer has expired.   *)
CanWake(t) ==
    \/ t = Main /\ pc[t] = "reading" /\ (wire # <<>> \/ eof)
    \/ t \in Waiter /\ pc[t] \in {"external", "internal", "connection"}
                    /\ gathered[t] \cap Unfinished = {}
    \/ t \in ExternalTasks \cup InternalTasks /\ pc[t] = "waiting"

Wake(t) ==
    /\ CanWake(t)
    /\ \A i \in DOMAIN ready : ready[i] # t
    /\ ready' = Append(ready, t)
    /\ UNCHANGED <<stream, flags, pc, cancelled, registered,
                   gathered, importing, answers>>

-----------------------------------------------------------------------------
(* Slip: the connection's own tasks are not waited for.                    *)
FirstBusyNoConnection(t, from, regs) ==
    IF from = "external" /\ regs \cap ExternalTasks # {} THEN "external"
    ELSE IF from \in {"external", "internal"} /\ regs \cap InternalTasks # {} THEN "internal"
    ELSE "end"

(* The wait()s of wait_closed (Main) and _shutdown (a handler), starting   *)
(* with manager `from`: the first one that has something to wait for.      *)
FirstBusy(t, from, regs) ==
    IF from = "external" /\ regs \cap ExternalTasks # {} THEN "external"
    ELSE IF from \in {"external", "internal"} /\ regs \cap InternalTasks # {} THEN "internal"
    ELSE IF t = Main /\ regs \cap ConnectionTasks # {} THEN "connection"
    ELSE "end"

TasksOf(stage) ==
    CASE stage = "external" -> ExternalTasks
      [] stage = "internal" -> InternalTasks
      [] stage = "connection" -> ConnectionTasks
      [] OTHER -> {}

(* Task t goes on waiting, or is through: Main is closed, and the handler  *)
(* of the shutdown request ends, which takes it out of its manager.        *)
WaitFrom(t, from, regs, pcs) ==
    LET stage == FirstBusy(t, from, regs)
        end == IF t = Main THEN "closed" ELSE "done"
    IN  /\ pc' = [pcs EXCEPT ![t] = IF stage = "end" THEN end ELSE stage]
        /\ gathered' = [gathered EXCEPT ![t] = regs \cap TasksOf(stage)]
        /\ registered' = IF stage = "end" THEN regs \ {t} ELSE regs

(* Slip: close() cancels the internal tasks too.                           *)
CancelEverything == cancelled \cup ((registered \ ConnectionTasks) \cap Unfinished)

(* cancel() of the external manager, which has no effect on ended tasks.   *)
CancelExternals == cancelled \cup (registered \cap ExternalTasks \cap Unfinished)

(* Slip: the external tasks are not waited for.                            *)
FirstManagerIsInternal == "internal"

(* The manager that wait_closed and _shutdown wait for first.              *)
FirstManager == "external"

(* Plugin.close() and the wait()s that follow it, up to the first await.   *)
(* The first close() stops the connection, cancels the external tasks and  *)
(* starts the teardown.                                                    *)
CloseThenWait(t) ==
    /\ active' = FALSE
    /\ open' = FALSE
    /\ IF open
       THEN /\ cancelled' = CancelExternals
            /\ WaitFrom(t, FirstManager, registered \cup {Teardown}, [pc EXCEPT ![Teardown] = "created"])
            /\ Schedule(<<Teardown>>)
       ELSE /\ WaitFrom(t, FirstManager, registered, pc)
            /\ Schedule(<<>>)
            /\ UNCHANGED cancelled

(* The shutdown request is answered when its handler is through.           *)
ReplyIfDone(t) ==
    answers' = IF t # Main /\ pc'[t] = "done" THEN Replied(t[2]) ELSE answers

(* gather() is complete: wait() looks at its manager again.                *)
ResumeWait(t) ==
    /\ Turn(t)
    /\ pc[t] \in {"external", "internal", "connection"}
    /\ WaitFrom(t, pc[t], registered, pc)
    /\ ReplyIfDone(t)
    /\ Schedule(<<>>)
    /\ UNCHANGED <<stream, flags, cancelled, importing>>

-----------------------------------------------------------------------------
(* Connection.run: nothing to read.                                        *)
ReadBlocks ==
    /\ Turn(Main)
    /\ pc[Main] = "reading"
    /\ active
    /\ wire = <<>>
    /\ ~eof
    /\ Schedule(<<>>)
    /\ UNCHANGED <<stream, flags, pc, cancelled, registered,
                   gathered, importing, answers>>

(* The loop ends, at the end of the stream or after Connection.close(),    *)
(* and __aexit__ closes the plugin.                                        *)
LeaveRun ==
    /\ Turn(Main)
    /\ pc[Main] = "reading"
    /\ ~active \/ (wire = <<>> /\ eof)
    /\ CloseThenWait(Main)
    /\ UNCHANGED <<stream, importing, answers>>

NextMsg == Len(read) + 1

(* One more message is read from the stream.                               *)
Take(k) ==
    /\ Turn(Main)
    /\ pc[Main] = "reading"
    /\ active
    /\ wire # <<>>
    /\ Head(wire) = k
    /\ wire' = Tail(wire)
    /\ read' = Append(read, k)
    /\ UNCHANGED eof

(* Slip: the loop is resumed ahead of the task it created.                 *)
YieldTooLate(t) == <<Main, t>>

(* create_task(t), then sleep(0): t is in the queue before Main.           *)
YieldTo(t) == <<t, Main>>

(* A message that is answered before the next one is read.  Main goes on   *)
(* after sleep(0).                                                         *)
Ping ==
    /\ Take("ping")
    /\ answers' = Replied(NextMsg)
    /\ Schedule(<<Main>>)
    /\ UNCHANGED <<flags, pc, cancelled, registered, gathered, importing>>

InitializeCache ==
    /\ Take("init")
    /\ pc' = [pc EXCEPT ![Tick(NextMsg)] = "created"]
    /\ registered' = registered \cup {Tick(NextMsg)}
    /\ answers' = Replied(NextMsg)
    /\ Schedule(YieldTo(Tick(NextMsg)))
    /\ UNCHANGED <<flags, cancelled, gathered, importing>>

(* A notification whose params cannot be bound is answered InvalidParams,  *)
(* with no id.  What the missing binding raises is caught.                 *)
RejectNotification ==
    /\ Take("badNotify")
    /\ answers' = Replied(NextMsg)
    /\ Schedule(<<Main>>)
    /\ UNCHANGED <<flags, pc, cancelled, registered, gathered, importing>>

(* The messages that are handled by a task of the connection.              *)
TaskKinds == {"query", "notify", "import", "shutdown", "badParams", "misfit", "misfitNotify"}

(* For params that cannot be bound InvalidParams is sent, and the task is  *)
(* created all the same.                                                   *)
HandleInTask(k) ==
    /\ Take(k)
    /\ pc' = [pc EXCEPT ![Handle(NextMsg)] = "created"]
    /\ registered' = registered \cup {Handle(NextMsg)}
    /\ Schedule(YieldTo(Handle(NextMsg)))
    /\ answers' = IF k = "badParams" THEN Replied(NextMsg) ELSE answers
    /\ UNCHANGED <<flags, cancelled, gathered, importing>>

(* The handling of a message raises out of run(), after InvalidParams if   *)
(* it is the binding that is missing, and __aexit__ closes the plugin.     *)
RunFails(k) ==
    /\ Take(k)
    /\ answers' = IF k = "badPing" THEN Replied(NextMsg) ELSE answers
    /\ CloseThenWait(Main)
    /\ UNCHANGED importing

-----------------------------------------------------------------------------
(* The first run of the handler task of message m.                         *)
StartHandle(m) ==
    /\ Turn(Handle(m))
    /\ pc[Handle(m)] = "created"
    /\ read[m] \in {"query", "notify", "import"}
    /\ pc' = [pc EXCEPT ![Handle(m)] = "waiting", ![External(m)] = "created"]
    /\ registered' = registered \cup {External(m)}
    /\ Schedule(<<External(m)>>)
    /\ UNCHANGED <<stream, flags, cancelled, gathered, importing, answers>>

Shutdown(m) ==
    /\ Turn(Handle(m))
    /\ pc[Handle(m)] = "created"
    /\ read[m] = "shutdown"
    /\ CloseThenWait(Handle(m))
    /\ ReplyIfDone(Handle(m))
    /\ UNCHANGED <<stream, importing>>

(* Slip: a handler whose external task was cancelled sends nothing.        *)
OutcomeUnlessAborted(m) ==
    IF IsRequest(read[m]) /\ pc[External(m)] = "done" THEN Replied(m) ELSE answers

(* Slip: a notification is answered as well.                               *)
OutcomeAlways(m) == Replied(m)

(* A request is answered with its result, its error, or Aborted when the   *)
(* external task was cancelled.                                            *)
Outcome(m) == IF IsRequest(read[m]) THEN Replied(m) ELSE answers

(* The call of the handler raises: bound_args is unbound, or does not fit. *)
(* UnknownError is sent, which for "badParams" is the second reply; what a *)
(* notification raises is caught by task_wrapper.                          *)
FailHandle(m) ==
    /\ Turn(Handle(m))
    /\ pc[Handle(m)] = "created"
    /\ read[m] \in {"badParams", "misfit", "misfitNotify"}
    /\ pc' = [pc EXCEPT ![Handle(m)] = "done"]
    /\ registered' = Deregistered(Handle(m))
    /\ answers' = Outcome(m)
    /\ Schedule(<<>>)
    /\ UNCHANGED <<stream, flags, cancelled, gathered, importing>>

(* The external task has ended.                                            *)
FinishHandle(m) ==
    /\ Turn(Handle(m))
    /\ pc[Handle(m)] = "waiting"
    /\ pc' = [pc EXCEPT ![Handle(m)] = "done"]
    /\ registered' = Deregistered(Handle(m))
    /\ answers' = Outcome(m)
    /\ Schedule(<<>>)
    /\ UNCHANGED <<stream, flags, cancelled, gathered, importing>>

-----------------------------------------------------------------------------
(* Cancelled before its first run: CancelledError is raised outside the    *)
(* wrapper's try statement, the registration stays, the handler is woken.  *)
DropExternal(m) ==
    /\ Turn(External(m))
    /\ pc[External(m)] = "created"
    /\ External(m) \in cancelled
    /\ pc' = [pc EXCEPT ![External(m)] = "dropped"]
    /\ cancelled' = cancelled \ {External(m)}
    /\ Schedule(<<Handle(m)>>)
    /\ UNCHANGED <<stream, flags, registered, gathered, importing, answers>>

(* Slip: start() leaves the flag as it is when it fails.                   *)
FlagKeptAfter(m) == importing

(* A start() that fails or is cancelled resets the flag.                   *)
FlagAfter(m) == importing /\ read[m] # "import"

CancelExternal(m) ==
    /\ Turn(External(m))
    /\ pc[External(m)] = "waiting"
    /\ External(m) \in cancelled
    /\ pc' = [pc EXCEPT ![External(m)] = "done"]
    /\ registered' = Deregistered(External(m))
    /\ cancelled' = cancelled \ {External(m)}
    /\ importing' = FlagAfter(m)
    /\ Schedule(<<Handle(m)>>)
    /\ UNCHANGED <<stream, flags, gathered, answers>>

(* start() refuses a second import.                                        *)
RefuseImport(m) ==
    /\ Turn(External(m))
    /\ read[m] = "import"
    /\ pc[External(m)] = "created"
    /\ External(m) \notin cancelled
    /\ importing
    /\ pc' = [pc EXCEPT ![External(m)] = "done"]
    /\ registered' = Deregistered(External(m))
    /\ Schedule(<<Handle(m)>>)
    /\ UNCHANGED <<stream, flags, cancelled, gathered, importing, answers>>

(* Slip: prepare_context swallows the cancellation.                        *)
ExternalRunsRegardless(m) ==
    /\ Turn(External(m))
    /\ \/ pc[External(m)] = "waiting"
       \/ pc[External(m)] = "created" /\ ~(read[m] = "import" /\ importing)

(* The external task can go on; an import that starts is not refused.      *)
ExternalRuns(m) ==
    /\ Turn(External(m))
    /\ External(m) \notin cancelled
    /\ \/ pc[External(m)] = "waiting"
       \/ pc[External(m)] = "created" /\ ~(read[m] = "import" /\ importing)

(* The handler, or _prepare_context, awaits something.                     *)
SuspendExternal(m) ==
    /\ ExternalRuns(m)
    /\ pc[External(m)] = "created"
    /\ pc' = [pc EXCEPT ![External(m)] = "waiting"]
    /\ importing' = (importing \/ read[m] = "import")
    /\ Schedule(<<>>)
    /\ UNCHANGED <<stream, flags, cancelled, registered, gathered, answers>>

(* The handler returns or raises; for an import, _prepare_context raises.  *)
FinishExternal(m) ==
    /\ ExternalRuns(m)
    /\ pc' = [pc EXCEPT ![External(m)] = "done"]
    /\ registered' = Deregistered(External(m))
    /\ importing' = FlagAfter(m)
    /\ Schedule(<<Handle(m)>>)
    /\ UNCHANGED <<stream, flags, cancelled, gathered, answers>>

(* The context is prepared: start() creates the import and returns.        *)
StartImport(m) ==
    /\ ExternalRuns(m)
    /\ read[m] = "import"
    /\ pc' = [pc EXCEPT ![External(m)] = "done", ![Import(m)] = "created"]
    /\ registered' = Deregistered(External(m)) \cup {Import(m)}
    /\ importing' = TRUE
    /\ Schedule(<<Import(m), Handle(m)>>)
    /\ UNCHANGED <<stream, flags, cancelled, gathered, answers>>

-----------------------------------------------------------------------------
(* As DropExternal; the flag is not reset, for _import_elements never ran. *)
DropImport(m) ==
    /\ Turn(Import(m))
    /\ pc[Import(m)] = "created"
    /\ Import(m) \in cancelled
    /\ pc' = [pc EXCEPT ![Import(m)] = "dropped"]
    /\ cancelled' = cancelled \ {Import(m)}
    /\ Schedule(<<>>)
    /\ UNCHANGED <<stream, flags, registered, gathered, importing, answers>>

GatherElements(m) ==
    /\ Turn(Import(m))
    /\ pc[Import(m)] = "created"
    /\ Import(m) \notin cancelled
    /\ pc' = [pc EXCEPT ![Import(m)] = "waiting"]
    /\ Schedule(<<>>)
    /\ UNCHANGED <<stream, flags, cancelled, registered, gathered, importing, answers>>

(* The import ends: all elements are imported (at once when there are      *)
(* none), an error, or the cancellation.                                   *)
FinishImport(m) ==
    /\ Turn(Import(m))
    /\ pc[Import(m)] = "waiting" \/ (pc[Import(m)] = "created" /\ Import(m) \notin cancelled)
    /\ pc' = [pc EXCEPT ![Import(m)] = "done"]
    /\ registered' = Deregistered(Import(m))
    /\ cancelled' = cancelled \ {Import(m)}
    /\ importing' = FALSE
    /\ Schedule(<<>>)
    /\ UNCHANGED <<stream, flags, gathered, answers>>

-----------------------------------------------------------------------------
(* Slip: `while True` for `while self._active`.                            *)
KeepsTickingAlways == TRUE

(* The condition of _pass_control's loop.                                  *)
KeepsTicking == open

(* One turn of the tick loop: tick() and sleep(1), or the end.             *)
PassControl(m) ==
    /\ Turn(Tick(m))
    /\ pc' = [pc EXCEPT ![Tick(m)] = IF KeepsTicking THEN "waiting" ELSE "done"]
    /\ registered' = IF KeepsTicking THEN registered ELSE Deregistered(Tick(m))
    /\ Schedule(<<>>)
    /\ UNCHANGED <<stream, flags, cancelled, gathered, importing, answers>>

(* wait_for(self.shutdown(), 30) completes, fails or times out.            *)
RunTeardown ==
    /\ Turn(Teardown)
    /\ pc' = [pc EXCEPT ![Teardown] = IF @ = "created" THEN "waiting" ELSE "done"]
    /\ registered' = IF pc[Teardown] = "created" THEN registered ELSE Deregistered(Teardown)
    /\ Schedule(<<>>)
    /\ UNCHANGED <<stream, flags, cancelled, gathered, importing, answers>>

-----------------------------------------------------------------------------
RunMain ==
    \/ ReadBlocks \/ LeaveRun \/ Ping \/ InitializeCache \/ RejectNotification
    \/ \E k \in TaskKinds : HandleInTask(k)
    \/ \E k \in {"badPing", "fatal"} : RunFails(k)

RunHandle(m) == StartHandle(m) \/ FailHandle(m) \/ Shutdown(m) \/ FinishHandle(m)

RunExternal(m) == DropExternal(m) \/ CancelExternal(m) \/ RefuseImport(m)
                  \/ SuspendExternal(m) \/ FinishExternal(m) \/ StartImport(m)

RunImport(m) == DropImport(m) \/ GatherElements(m) \/ FinishImport(m)

(* The event loop runs the head of its queue.                              *)
RunReady ==
    \/ RunMain
    \/ \E t \in Waiter : ResumeWait(t)
    \/ \E m \in Msg : RunHandle(m) \/ RunExternal(m) \/ RunImport(m) \/ PassControl(m)
    \/ RunTeardown

(* The process has ended.                                                  *)
Exited == pc[Main] = "closed" /\ UNCHANGED vars

Next ==
    \/ \E k \in Kind : Send(k)
    \/ CloseStream
    \/ \E t \in Task : Wake(t)
    \/ RunReady
    \/ Exited

Spec == Init /\ [][Next]_vars

(***************************************************************************)
(* The event loop runs what is runnable; and what a task awaits happens:   *)
(* received data and finished tasks are noticed, the handlers' I/O ends,   *)
(* timers expire.  Nothing is assumed of the client.                       *)
(***************************************************************************)
Fairness == WF_vars(RunReady) /\ \A t \in Task : WF_vars(Wake(t))

FairSpec == Spec /\ Fairness

-----------------------------------------------------------------------------
(* The shutdown message is the last one that is read, whatever is already   *)
(* in the stream behind it: "not more messages will be read".              *)
NothingReadAfterShutdown ==
    \A m \in DOMAIN read : read[m] = "shutdown" => m = Len(read)

(* Nothing is started in the external manager once Plugin.close() has      *)
(* cancelled it: such a task would outlive the shutdown.                   *)
NoNewWorkAfterClose ==
    [][~open => \A t \in ExternalTasks : pc[t] = "none" => pc'[t] = "none"]_vars

(* When wait_closed() returns no task of any manager is left, in the       *)
(* registries or in the event loop.                                        *)
ClosedMeansQuiet ==
    pc[Main] = "closed" =>
        registered = {} /\ ready = <<>> /\ Unfinished = {}

(* When wait_closed() returns every request that was read is answered,     *)
(* whatever closed the plugin.  If that is a request which raises out of   *)
(* run(), it may itself be without an answer, but takes none of those with *)
(* it that were read before.                                               *)
ClosedMeansAnswered ==
    pc[Main] = "closed" =>
        \A m \in DOMAIN read :
            IsRequest(read[m]) /\ ~(read[m] = "fatal" /\ m = Len(read)) => answers[m] > 0

(* No request is answered twice and no notification at all, except that    *)
(* InvalidParams for params that are no object is sent to a notification   *)
(* too, and ahead of the UnknownError of a request run by a task.          *)
OneAnswer ==
    \A m \in DOMAIN read :
        answers[m] <= CASE read[m] \in {"notify", "misfitNotify"} -> 0
                        [] read[m] = "badParams" -> 2
                        [] OTHER -> 1

(* The shutdown request is acknowledged after every other request read has *)
(* been answered and every external task has ended.                        *)
ShutdownAnsweredLast ==
    [][\A m \in DOMAIN read :
          read[m] = "shutdown" /\ answers[m] # answers'[m] =>
             /\ ExternalTasks \cap Unfinished = {}
             /\ \A n \in DOMAIN read : IsRequest(read[n]) => answers'[n] > 0]_vars

(* _import_in_progress is set exactly while a start() prepares its context *)
(* or an import is under way -- or was, but was cancelled before it ran.   *)
ImportFlagExact ==
    importing <=>
        \E m \in DOMAIN read :
            \/ read[m] = "import" /\ pc[External(m)] = "waiting"
            \/ pc[Import(m)] \in {"created", "waiting", "dropped"}

(* Every request run as an external task is answered, even when shutdown   *)
(* overtakes it or never completes.                                        *)
RequestsAnswered ==
    \A m \in Msg :
        (m \in DOMAIN read /\ read[m] \in {"query", "import"}) ~> (answers[m] > 0)

(* Closing ends in wait_closed() having returned.                          *)
ShutdownCompletes == ~open ~> pc[Main] = "closed"

(* The same, provided that no task was cancelled before its first run.     *)
ShutdownCompletesUnlessDropped == [](Dropped = {}) => ShutdownCompletes

-----------------------------------------------------------------------------
(* The external task manager, its tasks, and the coroutines that wait() on *)
(* it, seen as the registry of TaskManager.                                *)
TM == INSTANCE TaskManager WITH
    Task <- ExternalTasks,
    Waiter <- Waiter,
    state <- [t \in ExternalTasks |-> IF pc[t] = "waiting" THEN "running" ELSE pc[t]],
    cancelled <- cancelled,
    tasks <- registered \cap ExternalTasks,
    waiter <- [t \in Waiter |->
                 CASE pc[t] = "external" -> "gathering"
                   [] pc[t] \in {"internal", "connection", "closed"} -> "returned"
                   [] pc[t] = "done" /\ read[t[2]] = "shutdown" -> "returned"
                   [] OTHER -> "idle"],
    gathered <- [t \in Waiter |-> IF pc[t] = "external" THEN gathered[t] ELSE {}]

(* The external task manager does what TaskManager says.                   *)
ExternalManagerImplemented == TM!Spec

=============================================================================
