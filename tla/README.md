# A TLA+ model of the Legendary integration for GOG Galaxy

The integration is a Python program that GOG Galaxy starts and talks to over a
socket: JSON-RPC messages, one per line. It consists of GOG's plugin framework
(`src/plugin/galaxy/`) and of the integration itself (`src/plugin/*.py`). All of
it runs on one asyncio event loop, so what is hard about it is not preemption
but what happens between two awaits: who runs next, what a cancellation hits,
what a `wait()` may return on, which flag is still set.

This directory holds specifications of the parts that decide this, TLC
configurations that check them on small instances, and proofs that TLAPS checks
for all values of their constants.

    tlc -config MCGalaxyPlugin.cfg MCGalaxyPlugin      # a run
    tlapm Importer_proofs.tla                          # a proof

PROJECT.json lists the runs, which definition models which lines, the mutations
that each property detects, the hazards, the findings and the theorems.

## 1. The system

| Component | Source (under src/plugin) | State | Operations | Status |
|---|---|---|---|---|
| Stream line reader | galaxy/reader.py | `_buffer`, `_processed_buffer_it` | `readline` | modelled: StreamLineReader |
| JSON-RPC connection | galaxy/api/jsonrpc.py | `_active`, method tables, task manager, `_requests_futures` | `run`, dispatch, `handle()`, replies, `close`, `wait_closed`; `send_request`, `_handle_response` | modelled: GalaxyPlugin, and OutgoingRequests for the plugin's own requests |
| Task manager | galaxy/task_manager.py | `_tasks` | `create_task`, `cancel`, `wait` | modelled: TaskManager |
| Plugin life cycle | galaxy/api/plugin.py | `_active`, two task managers, handshake | `run`, `close`, `wait_closed`, `_shutdown`, `_initialize_cache`, `_pass_control` | modelled: GalaxyPlugin |
| Importers | galaxy/api/importer.py | `_import_in_progress` | `start`, `_import_elements`, `_import_element` | modelled: Importer |
| Authenticated HTTP client | http_client.py | token, account, renewal event | `get`, `post`, refresh, retry, loss of authentication | modelled: HttpClient |
| HTTP helpers | galaxy/http.py | none | translation of exceptions | HttpClient tells apart what its caller does |
| Epic plugin | plugin.py | `_last_credentials_data`, configuration | credentials, game list, launch, install, uninstall | in part: GameList, `authenticate` in HttpClient |
| Local games provider | local.py | game states, parsed files with their modification times | installed and running checks | modelled: LocalGames, except the launcher clients |
| Process watcher | process_watcher.py | watched games, their processes | tree scan, pooling for a start | modelled: ProcessWatcher |
| Registry monitor | galaxy/registry_monitor.py | event, key | `is_updated` | not modelled, unused |
| Epic backend client | backend.py | none | paginated requests | not modelled, no caller |
| Process tools, tools, mocks, constants, errors, types | galaxy/... | none | | not modelled |
| aiohttp, psutil, ... | vendored | | | not modelled |

### How they interact

    client --bytes--> reader --lines--> Connection.run --task--> handle()
                                             |                      |
                                      (inline methods)    external task manager
                                             |              /               \
                                          replies      handler        import task
                                                                       /  |  \
                                                                   one child per id

* **The read loop** is the main coroutine. Some methods (ping, get_capabilities,
  initialize_cache) are answered inline. For any other message the loop creates
  a task in the connection's task manager and then yields with `sleep(0)`.
* **handle()** runs the integration's coroutine as a second task, in the
  *external* task manager, awaits it, and replies with the result, an error, or
  Aborted if that task was cancelled.
* **start_..._import** requests return as soon as the importer has created its
  import task, in the external manager too. That task gathers one child per id.
  The children are plain asyncio tasks, in no manager.
* **initialize_cache** starts a tick loop in the *internal* task manager. The
  teardown (`Plugin.shutdown()` under a 30 s timeout) runs there too.
* **Closing** is reached in three ways: by a shutdown request, which closes and
  then waits inside its own handler; by the end of the stream; and by an
  exception that leaves `run()`. Then the main coroutine waits in `__aexit__`,
  possibly at the same time as the shutdown handler, on the same managers.

### What is hard, and what would be correct

* *Order of the event loop's queue.* That nothing is read after shutdown depends
  on the handler task being in the queue before the read loop is resumed.
  → NothingReadAfterShutdown.
* *Cancellation before the first step.* asyncio throws CancelledError into a
  coroutine that has not started: no `try` was entered, no `finally` runs. The
  registry of the task manager and the importer's flag both depend on such a
  `finally`. → RegistryExact, ShutdownCompletes, OneImport.
* *Tasks that create tasks while someone waits.* → WaitReturnsOnlyWhenQuiet,
  ClosedMeansQuiet, NoNewWorkAfterClose.
* *Replies on every path, once.* A request ends by result, error, cancellation
  or a failure of its dispatch. → ClosedMeansAnswered, OneAnswer,
  RequestsAnswered, ShutdownAnsweredLast.
* *Notifications without a session number.* The client can attribute a
  notification to an import only if imports do not overlap, each id is reported
  before `finished`, and nothing follows it. → ImportSession and the properties
  of Importer.
* *A gather() that ends before its children do*, when it is cancelled.
  → StragglersOnlyWhenClosed.
* *Lines that span chunks*, an offset that must be reset at the right time, and
  an empty line that looks like the end of the stream.
  → ImplementsLineStream, LinesReturned, StopsOnlyAtEnd.

* *A refresh shared by concurrent requests*, which may fail, be denied or be
  cancelled while others wait for it. → OneRefresh, NoLostWakeup, NoBlindRetry,
  RequestsEnd. The token is stored before it is decoded → AccountOfToken.

* *Responses of a client that is free to answer as it likes*, to calls that a
  shutdown cancels. → OnlyUnexpectedRaises, OwnResponse, AnswerEndsCall.
* *Flags that are added and toggled* by three scans, of which any may raise and
  skip the others, while the client takes away what was updated.
  → FlagsAreScans, NoChangeUnreported, RunningChecked.
* *Files that change between two system calls*, and are not read again unless
  their modification time is another. → InstalledIsFile, ManifestsAreDisk.
* *Processes that die between two looks at them*, of games that are installed,
  moved and uninstalled meanwhile. → RunningIsCurrent, GameNoticed.
* *A parser without a grammar*, on output that contains its own markers.
  → IdsListed, TitlesListed.

## 2. The modules

### TaskManager (MCTaskManager, TaskManager_proofs)

One task manager, its tasks and the coroutines that `wait()` on it. A task is
created, runs, and is done, through the wrapper's `finally` clause; or it is
*dropped*, cancelled before its first step, and keeps its entry in `_tasks`.
`StepTask` and `FinishTask` may spawn any set of tasks of the same manager.
`CancelAndWait` is `cancel()` and `wait()` with no await between them, as the
plugin calls them. The order in which the event loop runs the tasks is left
open, which makes the module fit for refinement.

### GalaxyPlugin (MCGalaxyPlugin, GalaxyPlugin_proofs)

The composition of the read loop, the connection's handler tasks, both task
managers of the plugin and its shutdown, on an explicit event loop: `ready` is
asyncio's FIFO queue, an action guarded by `Turn(t)` is one uninterrupted run of
task `t`, and `Wake(t)` puts a task into the queue when what it awaits has
happened. Wherever the plugin does not decide when that is (input, timers, I/O
of the handlers), `Wake` comes after an arbitrary delay.

| Variable | Code |
|---|---|
| `wire`, `eof`, `read` | the stream; `read[m]` is the kind of the m-th message |
| `active`, `open` | `Connection._active`, `Plugin._active` |
| `ready`, `pc`, `cancelled` | the event loop's queue, where each task is, CancelledErrors to be thrown |
| `registered`, `gathered` | the `_tasks` of all three managers; the argument of the `gather()` a waiting coroutine is in |
| `importing` | `Importer._import_in_progress` |
| `answers` | the replies sent for each message |

A message is reduced to its kind: what its handler does to the state is the same
for all messages of a kind. One importer stands for the seven of the plugin,
which share nothing but the external task manager. The formatting of messages and
the handshake's registration of methods are left out; so is the timing of
`sleep(1)` and of the 30 s timeout: a timer expires at some time.

Params that do not suit the handler have kinds of their own. They are bound to
the signature of its wrapper, `method(*args, **kwargs)` (api/plugin.py:241 and
262), which takes any object; only params that are no object fail to bind. The
code has no `return` after it sends InvalidParams (jsonrpc.py:240 and 263), and
an object that does not fit raises when the handler itself is called:

| Params | request in a task | request handled inline | notification |
|---|---|---|---|
| no object | `badParams`: InvalidParams, then UnknownError from the task | `badPing`: InvalidParams, then out of `run()` | `badNotify`: InvalidParams with no id; what follows is caught |
| an object that does not fit | `misfit`: UnknownError from the task | `fatal`: out of `run()`, with no reply (jsonrpc.py:266) | `misfitNotify`: the task fails, with no reply |

A line of JSON that is no object leaves `run()` without a reply too
(jsonrpc.py:289), as do params that are no object where some are to be masked for
the log; both are `fatal` as well. That a result can be encoded is taken for granted
(`Replied`): those of this integration can, and a reply that cannot is dropped
(jsonrpc.py:311), which is listed among the hazards. The child tasks of an import are in Importer: here
`GatherElements` and `FinishImport` stand for what they do together.

`ExternalManagerImplemented` is the refinement: the external task manager inside
GalaxyPlugin, its tasks, and the two kinds of coroutine that wait on it behave as
TaskManager says. So what is proved about TaskManager for any number of tasks is
about the manager that the plugin really uses; the theorem ExternalWaitIsSound
says it of `wait()`.

### Importer (Importer_proofs) and ImportSession

One importer in detail: several calls of `start()`, each with its ids (a set: a
repeated id is imported twice by the code, and abstracted here), its import task,
and one child per id. The constant `Collection` chooses between Importer and
CollectionImporter, whose children notify any number of times and then send
`partially_finished` in every case. An argument that is not a list is covered by
`unlisted`. `Close` is what `Plugin.close()` does to this importer; that no call
of `start()` comes after it is checked in GalaxyPlugin (NoNewWorkAfterClose).

ImportSession is what the client may rely on: prepare, begin with a set of ids,
report each once, finish, in this order and one session at a time, until the
plugin is closed. The refinement mapping derives its two variables:
`SessionState` from the flag and the gathering task, `Awaited` from the ids of
that task that were not reported.

### StreamLineReader (Connection_proofs) and LineStream

`readline()` and its caller. An action is one round of `readline()`'s loop:
`Search` when the buffer may hold another line, `Fetch(k)` when a chunk of `k`
bytes is read first. As in `StreamReader.read(n)`, `k` is all that has arrived, or
`ChunkSize` if that is less. Bytes are model values, one of which is the newline.
LineStream is what a reader of lines promises: the bytes come in order, each
once, cut after every newline. In the refinement its `rest` is what is in the
buffer together with what `read()` has not returned, so a chunk boundary is
invisible.

### HttpClient (HttpClient_proofs)

Any number of concurrent calls of `get` and `post`, each sent with the token of
the moment, rejected by a server that may stop to accept a token at any time, and
repeated after a refresh. `renewing` is the cleared state of
`_credentials_renewal_possible`; the request in `refreshing` is inside the
callback, those in `waiting` are in the event's `wait()`, and `woken` is between
`set()` and the moment the event loop runs them, in which anything may happen,
another refresh included. The callback ends in all ways: new credentials that
decode, do not decode, or have no `dn` (`Renew`), an error of any kind (`FailRefresh`), AccessDenied
(`DenyRefresh`), or cancellation of the task that is in it (`CancelRefresh`).
`account` and `name` are the tokens that the id and the name come from, which
are assigned one after the other. `DenyRefresh` is in the code, but the callback of this integration cannot raise
it at present: an error of the client arrives as a plain JSON-RPC error. An
answer is one of three: the response, a 401, or anything else (`Fail`), by the
exceptions of galaxy/http.py.

Tokens are numbered in the order they are issued, and each is new. That is an
assumption about the server; when it hands out the same token twice, a request is
repeated with a rejected token after a good refresh, as often as `repeated`
permits.

### OutgoingRequests (Connection_proofs)

`send_request` and `_handle_response`. `futures` is `_requests_futures`, from
which nothing is ever removed, so that an id is known for good. `responses` is
everything the client has sent and `read` how much of it the read loop has
handled: the history is kept to say whose response it was that a caller got. A
response is its id, whether it is an error, and whether its body is a JSON
object, since anonymising anything else for the log raises. What raises leaves
`run()`, and `__aexit__` closes the plugin before anything else runs, so `Raise`
is one step.

Callers run in the external task manager, and only `close()` cancels them. In
the code a caller is resumed before the next message is read, because of the
`sleep(0)`; the module allows any order, which is more than can happen. That a
task is dropped before its first step, and how the waits of the shutdown end, is
in GalaxyPlugin.

### GameList (GameList_proofs)

GameList is the one pass of `generate_gamelist` over what legendary.exe prints.
The output is a sequence of tokens: the markers that the parser looks for, the
ids and sizes of the lines, and the tokens of titles, which may be markers too
(`"* "`, and a parenthesis that starts with A). An action is one round of the
`for` loop. The inner `while` loops are searches for the next marker; the one
for the title starts behind its first token, because of the `loop+1` in its
condition. Both branches of the method are the same pass; `installed` tells them
apart where they differ: only the first uses `game_name` for a game, only the
second looks for sizes.

What the properties compare with is defined on the list of lines, not on the
text: `Shown` says what is left of a title that contains markers. That two words
of a title are cut there is what the parser does, and no text says otherwise; it
is stated so that the effect is known, and so that nothing else is lost.

What the model takes for granted is that the markers which only the listing
around a title prints, `"(App name: "` and `" GiB"`, are in no title
(WordAssumption). The parser has no way to tell such a title from two entries.

### LocalGames (LocalGames_proofs)

LocalGamesProvider with both parsers and the endless checker. A round is split
at its system calls, between which files, registry and processes may change:

| Action | Code |
|---|---|
| `BeginSetup`, `ParseInSetup`, `EndSetup` | `setup()`, which may raise and be called again |
| `BeginRound`, `ParseInRound` | `_check_for_installed`: the stat, then the file |
| `StatManifests`, `LoadManifests`, `Locate` | `_check_for_third_party_installed`: stats, files, registry |
| `CheckRunning` | `_check_for_running` |
| `ConsumeUpdatedGames`, `IsThirdPartyGame` | the calls of the client, between two rounds |
| `WriteFile`, `WriteManifest`, `WriteRegistry` | the Epic launcher and Windows |

`changed` says whether a stat of LauncherInstalled.dat would differ from the one
remembered, and `differs` of which manifests it would. The comparison of
os.stat_result (local.py:151) is by whole seconds and size, so a manifest may also
be rewritten and keep its stat; such files are `silent` until the next load. A
file that was created and removed again between two looks counts
as changed, which is more than happens. A file is good, no JSON, unreadable (or
lacking what the parser looks up, which raises as well), absent, or cannot be
stated. `view` is what a client knows that takes over the games at the end of
`setup()` and then looks at those it is told of. The manifests are read by
`is_third_party_game` in one step. `get_running_games` is any set of watched
games here; which one, is the subject of the next module.

`ManifestsAreDisk` is about each manifest by itself: after `update()` it is the
one on disk, unless it has changed since, or is silent. "Reparses manifests if any
change" (local.py:149) is more than the code does, and the property says how much
less: a silent file is made up for by the next load, whatever caused it, and no
other file suffers. When a load raised, the manifests are those of before.

### ProcessWatcher (MCProcessWatcher, ProcessWatcher_proofs)

The processes, the launcher that starts some of them, and the apps that are
watched in the order in which they were inserted, which decides to whom a process
with two matching directories belongs. `watched` is `_watched_apps`. `Kept`,
`Added` and `Watchable` are the setter of `watched_games`: what stays keeps its
processes and its order, what is new comes behind it, in the order in which the
caller names it, which is left open. Its users in local.py are part of
the module: `setup()`, which looks at one process after the other with a sleep
in between, the checker with its counter, and `search_process()`. A round in which an earlier
check raises does not reach the running games, but advances the counter all the
same (`FailRound`; local.py:264-278). The time that
`pool_until_game_start` has may be over after any of its sleeps (`GiveUp`).
`TrackedAndRunning` does not look whether a process is alive, because
`proc.is_running` is not called (process_watcher.py:63).

A process descends from a launcher process or from none; what it descends from
in between does not matter, as the search is recursive. MCProcessWatcher has a
launcher, and two processes in the directories foo and foo2.

## 3. The runs

| Run | Instance | What it shows | Distinct states |
|---|---|---|---|
| task_manager | 3 tasks, 2 waiters | the registry is exact; `wait()` returns only when nothing is unfinished, and does return | 15 400 |
| galaxy_plugin | any 3 messages of 12 kinds | what closing promises about reading, tasks, answers and the import flag | 548 032 |
| plugin_live | 3 messages: import, shutdown, init | requests are answered, and closing completes unless a task was dropped; the plugin's external task manager is a TaskManager | 30 493 |
| plugin_shutdown | 1 message | **violation**: closing does not complete | 215 |
| importer | 3 calls, 2 ids, a collection with 1 notification each | imports do not overlap; `finished` is true, last, and comes; the sessions are those the client relies on | 314 482 |
| stream_line_reader | 5 bytes of 3 kinds, chunks of up to 3 | the lines are those of the stream, and every complete line comes | 7 061 |
| blank_line | 3 bytes of 2 kinds | **violation**: a blank line stops the plugin | 22 |
| http_client | 2 requests, 4 tokens | refreshes do not overlap, no lost wakeup, no retry with the rejected token; every request ends, however the refreshes end | 1 009 377 |
| outgoing_requests | 2 calls, 3 responses | a call gets its own response; only a response nobody should send closes the plugin | 353 590 |
| game_list | 3 lines, titles of 2 tokens | every game is listed, in order, with what is left of its title | 325 716 |
| local_games | 2 own games, 1 of a third party, 2 changes | the flags follow the scans, no change is unreported, no write that shows is missed; the checker goes on | 940 056 |
| process_watcher | a launcher, 2 processes, 2 games, 1 move | running games have a process, keep it, and are noticed while searching rounds succeed | 299 772 |

The type invariants of TaskManager, Importer, StreamLineReader, OutgoingRequests,
LocalGames and ProcessWatcher are proved (section 4), for all instances, and no
run lists them. Neither do the runs list LauncherStaysKnown and SearchReports of
ProcessWatcher, which are proved as well; TLC confirms them when they are added to
MCProcessWatcher.cfg.

### Bounds

* `Task`, `Waiter` (TaskManager). Three tasks are a parent, the child it spawns
  while someone waits, and a bystander; two waiters are what the plugin has: the
  shutdown handler and the main coroutine. The proofs hold for any sets.
* `MaxMsgs` (GalaxyPlugin). Three messages make possible: two imports that
  compete for the flag and a shutdown behind them; two shutdowns; a message
  already in the stream behind a shutdown; an import, a tick loop and a failing
  `run()`. Each message has up to three tasks, so up to eleven tasks are in the
  event loop. The liveness run keeps the kinds that create tasks which outlive
  their handler: a plain query has fewer steps than an import. It checks the
  refinement too, as these are the kinds that use the external manager in full.
  The proofs hold for any number of messages.
* `Req`, `Id`, `MaxYields` (Importer). Three calls: one in progress, one refused,
  one that follows. Two ids: one child that ends before and one that ends after
  any event of interest, such as a cancelled gather. The run is
  that of a collection, whose children may end without a notification, and with
  one or two; those of a plain importer do less. The proofs hold for any values
  and for both kinds.
* `MaxBytes`, `ChunkSize`, `Char` (StreamLineReader). Five bytes in chunks of up
  to three hold a line in one chunk, several lines in a chunk, a line over two
  or three chunks, a blank line and an unfinished line; two other characters show
  a change of order. The proofs hold for any values.
* `Req`, `MaxTokens` (HttpClient). Of two requests one refreshes while the other
  waits, is woken, or is rejected late. Four tokens are the one that is rejected,
  two issued by the two refreshes of a request, and one by the other request or
  by `authenticate`. The proofs hold for any values.
* `Caller`, `MaxResponses` (OutgoingRequests). Two calls, so that an answer can go
  to the wrong one; three responses are an answer to each and one too many. The
  proofs hold for any values.
* `Word`, `MaxLines`, `MaxTitle` (GameList). Three lines are a game, its DLC, and
  a game behind it. Titles of two tokens have a marker alone, before and behind a
  word or another marker. One word is enough, as words are not told apart, and
  `printed` says which line is which. The proofs hold for any words, any number of
  lines and titles of any length.
* `App`, `Third`, `MaxChanges` (LocalGames). Two games of the same file, of which
  one stays when the other goes, and one that is known by its manifest. Two
  changes: one before a step and one behind it, or one that is undone. The
  proofs hold for any values.
* `Proc`, `Game`, `Dir`, `Period`, `MaxMoves` (ProcessWatcher). One game process
  belongs to one game, the other to either. A period of two has a round that
  searches and one that does not, which is all the code distinguishes. One move
  installs, uninstalls or moves a game under a running process. The proofs hold
  for any values.

Deadlock is checked in the TaskManager, GalaxyPlugin and ProcessWatcher runs: a
plugin whose process has ended stutters explicitly (`Exited`), the checker never
stops, and no other state may. It is not checked in the other runs: Importer,
StreamLineReader, HttpClient, OutgoingRequests and LocalGames come to rest when
the bounded calls, bytes, requests, responses and changes are used up (the
checker of LocalGames goes on, but a `setup()` that raises may not be called
again), and the parser of GameList ends.

### Fairness

* TaskManager: a task that can end ends, a gather() that is complete is resumed.
  The event loop serves its queue in order and never drops a callback; that the
  coroutines given to a manager end is an assumption about the integration,
  whose handlers run external programs and return.
* GalaxyPlugin: `WF(RunReady)`, because the event loop runs whatever is ready;
  `WF(Wake(t))`, because the selector reports readable data, gather() has its
  done-callbacks, I/O ends and timers expire. The FIFO queue gives the rest: no
  task can overtake another for ever. Nothing is assumed of the client, which may
  send nothing or never close.
* Importer: weak fairness of the steps of each call and each child. `Yield` is
  not part of it: a collection may be exhausted at any time and is at some time.
* StreamLineReader: the event loop resumes `readline()` when there is something
  to read. A read that fails is possible at any time and never owed.
* HttpClient: `WF(Progress(r))` for each request. aiohttp's timeout ends a request
  that gets no answer (galaxy/http.py sets one), and the event loop runs what is
  woken. Nothing is assumed of a refresh, which waits for the client without a
  timeout: RequestsEnd has the premise that no refresh stays for ever.
* OutgoingRequests: the read loop handles what has arrived, and the event loop
  resumes a caller whose future is done. Nothing is assumed of the client.
* LocalGames: `sleep(1)` ends, and a round goes on to its end. That a `setup()`
  which raised is called again is assumed of its caller; RunningChecked has the
  premise that it ended. Nothing is assumed of those who change files.
* ProcessWatcher: the scan of `setup()` goes on after each sleep, and the checker
  after each round, `WF(Check \/ FailRound)`: whether a round raises is not up to
  the event loop. A manifest that raises in every round keeps the games from being
  looked at for good, as LocalGames shows (RunningChecked), so GameNoticed has the
  premise that from some point on no round that would search raises. The rounds in
  between may raise for ever. Nothing is assumed of processes, of games, or of who calls
  `search_process()`.

### Findings

1. **Shutdown may never complete** (run plugin_shutdown, ShutdownCompletes). A
   task that `close()` cancels before its first step is never taken out of
   `_tasks`, for the `finally` of task_wrapper (task_manager.py:34-35) is not
   reached. `wait()` then gathers a finished task, finds the registry as it was,
   and loops for ever. One request that arrives together with the end of the
   stream is enough. The comment of `Plugin.create_task` says it "takes care of
   canceling tasks on shutdown" (api/plugin.py:298). The runs task_manager and
   plugin_live show that this is the only way: when no task is dropped, `wait()`
   returns and closing completes.
2. **A blank line is taken for the end of the stream** (run blank_line,
   StopsOnlyAtEnd). `readline()` returns empty bytes, which reader.py:17 calls
   EOF, for an empty line as well (reader.py:28); the read loop reports "Received
   EOF" (jsonrpc.py:188) and the plugin closes while the client is connected.

Both are faults of the framework. Three more places, which no run of this project
refutes, do other than a text says:

* When config.txt has no third line, the fallback is the name `true`
  (plugin.py:53 and 58), which Python does not know, and importing plugin.py
  fails; README.md:16 says "If left blank will just use included version." This
  is straight-line code, and an empty file shows it.
* The final fallback of `pool_until_game_start` tests whether the game is watched
  (process_watcher.py:177), not whether it has processes, as the loop before it
  does; the docstring says "boolean if game process was found or not" (line 163).
  `GiveUp` of ProcessWatcher does the same.
* ThirdPartyAppsParser.update() compares os.stat_result objects (local.py:151),
  which are equal when size and whole seconds are; the docstring says "Reparses
  manifests if any change." (line 149). `WriteManifest` of LocalGames has such a
  rewrite, and ManifestsAreDisk excuses it.

The models show more that no text of the repository contradicts:

* GalaxyPlugin: a request with params that are no object is answered twice, and a
  notification with such params once (OneAnswer admits it, for these kinds only). A
  request with params that do not fit an inline method takes the plugin down
  without a reply (RunFails; ClosedMeansAnswered admits it for that one request).
* HttpClient: a request that has used up its repetitions wipes whatever token
  there is, a fresh one too (GiveUp), and a request that is rejected late
  refreshes a token that is already new (Refresh).
* OutgoingRequests: a second response to a request closes the plugin, and so does
  a response without an id (HandleResponse).
* GameList: the entry of a DLC has the title of its game (ReadId).
* ProcessWatcher: a game that was moved is watched in its old directory (Kept), a
  process in foo2 may be given to the game in foo (Matches), and a game that is
  uninstalled while it is waited for raises KeyError (Try).
* HttpClient: a token that does not decode is used all the same, with the account
  of the one before, and one without a `dn` leaves the new id with the old name
  (AccountOfToken admits it).
* LocalGames: a manifest without a registry key ends every round before the
  running games are looked at (Locate), and LauncherInstalled.dat is not parsed
  again after a parser that raised, until it is written once more.

## 4. The proofs

Proved with TLAPS for all values of the constants, from the named assumptions of
the modules only:

* **TaskManager_proofs.** The inductive invariant is TypeOK and RegistryExact.
  RegistryExact is inductive by itself because every action that starts or ends a
  task changes the registry in the same uninterrupted run, except `DropTask`,
  which is why the dropped tasks appear in it. WaitReturnsOnlyWhenQuiet follows:
  `wait()` returns when the registry is empty, hence nothing is unfinished.
* **Importer_proofs.** OneImport alone is inductive together with the fact that a
  call has a task exactly when it was accepted (TaskOfAccepted): otherwise a
  second task could appear for a call. FinishedMeansReported is not inductive. It
  needs to know that a child that ended has reported, except in a closed plugin
  (DoneMeansReported); that closing reached everything under way, and that
  nothing is cancelled before (ClosedCancels), so `Finish` can only happen with
  children that were not cancelled, or not after a close; that children belong to
  the batch (ElementsOfBatch); and that a task which sent `finished` has ended
  with all its children (FinishedMeansDone). The same facts give
  StragglersOnlyWhenClosed and, as an action property, SilentAfterFinished.
  The last part of the module proves that Importer implements ImportSession.
  While a request gathers, the session awaits what it has not reported
  (AwaitedOfGathering, from OneImport); each step is then a step of the session or
  a stutter. For a collection this needs that nothing is reported before the child
  ends (ReportedAtEnd).
* **GalaxyPlugin_proofs.** One inductive invariant serves all its theorems, since
  the parts lean on each other:
  - PlacesInv, MessageInv and RegistryInv: where each task can be, which tasks a
    message of each kind has at each stage of its handler, and that the registries
    hold what has begun and not ended, and what was dropped. AnswersInv settles the
    number of replies by the same two things (RepliesDue). It gives OneAnswer, and
    with RegistryInv ClosedMeansAnswered: a handler that is in no registry is done.
    The one request that may go without a reply is the last one read (FatalInv: the
    plugin is closed then, and a closed plugin reads nothing).
  - QueueInv is about the event loop: the queue holds no task twice, only
    unfinished ones, and each one that was created. Without it a step of a finished
    task, or a second first step, could not be excluded.
  - HandlerFirstInv is the argument for NothingReadAfterShutdown. A handler that
    has not begun is ahead of the read loop in the queue, the plugin is then open,
    and there is one such handler at most; so the shutdown has closed the
    connection before the loop is resumed. That a queue with a removed head and a
    longer tail keeps the order of two of its tasks is what the lemmas TailQueue and
    AppendQueue say.
  - CloseInv and WaitInv: what `close()` did stays done, and what a `wait()` has
    seen finished stays so. A wait in progress covers all unfinished external
    tasks, because none is created after `close()` (NoNewWorkAfterClose, which
    needs HandlerFirstInv: no handler is new then, and every running one of the
    external manager is cancelled). ClosedMeansQuiet follows.
  - ShutdownLastInv is again an order: the handler of the shutdown is in the queue
    behind every handler that has a reply to send. A wait for the external tasks
    is resumable only when these have ended, and their handlers were queued when
    they did. It gives ShutdownAnsweredLast.
  - FlagInv: the flag is set exactly while somebody holds it, and one at most does.

  ManagerImplemented is the refinement of TaskManager. Each kind of step of the
  manager has a lemma (Creates, Steps, Finishes, EndsCancelled, Drops, BeginsWait,
  ResumesWait), each action of the plugin is shown to be one of them or not to
  concern the manager (NotConcerned). Here WaitInv is needed once more, because
  TaskManager resumes a wait only when what was gathered has ended. With it the
  theorem WaitIsSound of TaskManager_proofs holds of the plugin, and is not proved
  again (ExternalWaitIsSound).
* **Connection_proofs, StreamLineReader.** NoByteLost, with the types and SearchedIsClean, is
  the invariant. SearchedIsClean makes the first newline that is *found*, behind
  the offset, the first newline there *is*; that is what ReaderImplementsLineStream
  rests on. The lemmas CutOfConcat and Cut, about SubSeq and concatenation, move
  from the buffer to the whole stream.
* **HttpClient_proofs.** OneRefresh and NoLostWakeup are each about the same event
  and are proved together: the lemma EventSet says what every end of a refresh
  does to the requests. TypeOK needs RepeatLeft: whoever refreshes, waits or was
  woken has a repetition left. NoBlindRetry needs to know what a woken request
  will find: a token other than the one it was rejected with, unless a refresh
  failed (WokenFindsAnother), which in turn needs that whoever is under way was
  sent with a token at all (UnderWayCarries). AccountOfToken is inductive,
  as its two parts are about the same assignments.
* **Connection_proofs, OutgoingRequests.** The module extends it beside
  StreamLineReader, which is why its specification is RequestsSpec and the flag of
  the read loop is `reading` there and `active` here; each theorem is about one of
  the two by itself. OnlyUnexpectedRaises is not inductive: that a future
  is done says nothing about why. SetByResponse adds that a future with a
  result holds a response which was read and has its id, so a second one is a
  repetition; CancelledWhenClosed that a cancelled future means a closed
  connection, so that no answer can meet it; RaisedWhenClosed that the response
  in question stays the last one read. OwnResponse needs OwnId, that no two calls
  have the same id, and GotOwn, that what a caller has got is what its future was
  set to.
* **LocalGames_proofs.** FlagsAreScans is inductive with the types, by the lemma
  StatusesFollow about one update. It rests on DisjointAssumption, which
  local.py:232 states: a name that both kinds share would be toggled off by one
  scan while the other has it. NoChangeUnreported follows from the same lemma,
  and InstalledIsFile is inductive because the time is remembered before the file
  is opened, never behind. ManifestsAreDisk is proved with two facts:
  ListedIsPresent, that a file whose stat has not changed is listed exactly if it is
  there, and LoadedIsListed, that nothing else is loaded. Both are needed between
  the stats and the files, where anything may be rewritten or removed.
* **ProcessWatcher_proofs.** The invariant (WatchList) says of the watched apps that
  the launcher is the first, that every id is there once, and that a process is
  listed only under a directory that occurs in its path. Searches and the removal
  of the dead keep it entry by entry. The setter of `watched_games` makes another
  dict. The lemma WatchableApps shows that every app that stays is in it unchanged,
  and that what is before it was before it already, so that no process changes to
  another app; it rests on the lemma Arrangement, that an injection from
  1..Cardinality(S) into a finite set S reaches all of S. RunningIsCurrent follows
  from what a round does (RoundKeepsList). Two more theorems are the steps that
  GameNoticed rests on, which itself is liveness: a known launcher stays known while
  it runs (LaunchersStayKnown), and a round that searches reports every installed
  game of which a child of it runs (ChildrenAreReported).
* **GameList_proofs.** The text is made by recursion over the lines, so the proof
  begins with what the text looks like. The induction theorems of the prover's
  library take the statement as a parameter, which no installed backend can
  instantiate; the same is had from the fact that `<` on the naturals is well-founded:
  the set of numbers for which a statement fails has a least element (LeastNatural,
  UpTo). FlattenIsLast shows that FlattenSeq is the last of the texts that grow by
  one line each, and FlattenShape that the k-th line is in the text from e[k-1] + 1
  to e[k], for an e that has no gaps and no overlaps. Layout(e) says it of the output,
  with the place of each marker.
  IInv says that such an e exists, and what has been read up to `i` (Progress):
  the lines listed are those whose App has been passed (IdsSoFar), the sizes those
  whose GiB has been (SizesSoFar), each under its own id. It is inductive because a
  marker is found in no other place (TokenIn, OneLine), so that at an App the next
  line is the one to list (AtApp), and at a GiB the last one listed is the one
  that is sized (AtGiB). Neither can fail, for there is a Bar behind each App, and
  a name before it: the first line is a game (FirstIsStar).
  For titles, NameSoFar says that between the last `"* "` of a title and its App,
  `game_name` is what Shown says, and TitlesSoFar that it was listed so. AtStar is
  the core of it. A search for the end of the name finds none only at a `"* "`
  that is the last token of the last title, which is the only way to fail; at the
  last `"* "` of any other title of a game it ends where Shown ends (ShownIsTaken).

Only model-checked:

* All liveness properties: WaitReturns, RequestsAnswered,
  ShutdownCompletesUnlessDropped, ImportsFinish, LinesReturned, RequestsEnd,
  AnswerEndsCall, RunningChecked and GameNoticed. The prover does not reason about
  fairness and ENABLED.

No module uses a RECURSIVE operator.

## 5. What is not modelled, and the plan

In this order; the first entries are done.

1. TaskManager, with proofs. *Done.*
2. GalaxyPlugin, refining TaskManager, with proofs. *Done.*
3. Importer and ImportSession, with proofs. *Done.*
4. StreamLineReader and LineStream, with proofs. *Done.*
5. HttpClient, with proofs. *Done.*
6. OutgoingRequests, with proofs. *Done.*
7. LocalGames, with proofs. *Done.*
8. ProcessWatcher, with proofs. *Done.*
9. GameList, with proofs. *Done.*

What is left: HttpClient composed with
OutgoingRequests through `refresh_credentials`, of which each side now takes the
other as something that answers in any way or not at all.

### Not modelled

* The registry monitor. Nothing uses it, and whether a change is missed is
  decided by what Windows promises of a key that is opened and re-armed.
* The Epic backend client. It has no callers, and its pagination hands its
  result from call to call without keeping any state.
* Launching, installing and uninstalling, which only start external programs,
  as do the launcher clients of local.py; `parse_manifests`, which nothing calls.
* galaxy/http.py: a table from aiohttp's exceptions to the framework's, without
  state. HttpClient distinguishes what its caller does.
* zip_folder and the process tools, pure I/O; constants, types and errors, which
  have no operations; mocks.
* The vendored libraries, the C sources of aiohttp, yarl and multidict among them.
  They are third-party code, most of it generated by Cython, and they are most of
  the lines in the repository; the program that is this repository's own is the
  Python of the table above, to which the map of PROJECT.json refers.
* The reading of config.txt: a few statements without a choice.
* How long the synchronous calls of legendary.exe block the event loop: a
  duration, which no property of states expresses.

The HTTP client's requests and the local games provider's `setup()` have no
caller at present: in plugin.py the code that used them is inside string
literals (lines 208-246, 249-252, 264-269 and 291-335). HttpClient, LocalGames
and ProcessWatcher model what the code does once it is called.
