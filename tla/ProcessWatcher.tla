--------------------------- MODULE ProcessWatcher ---------------------------
(***************************************************************************)
(* process_watcher.py: the processes of the launcher and of the watched    *)
(* games, with the two that use it in local.py: setup() and the checker,   *)
(* which ask for the running games once per second, and search_process(),  *)
(* which waits until a game has started.                                   *)
(*                                                                         *)
(* A process belongs to the first watched app whose directory occurs in    *)
(* the path of its executable.  All processes are searched before the      *)
(* first round, and by search_process() as long as no launcher is known;   *)
(* otherwise only the descendants of the known launcher processes are, in  *)
(* every Period-th round.                                                  *)
(***************************************************************************)
EXTENDS Naturals, FiniteSets, Sequences, SequencesExt

CONSTANTS
    Game,           \* ids of games
    Launcher,       \* _LAUNCHER_ID
    Dir,            \* directories of games
    LauncherDir,    \* what identifies the launcher
    Proc,           \* processes; a process is started once
    In,             \* In[p]: which of them occur in the path of p, if it can be read
    Nowhere,        \* where a game is that is not installed
    Wanted,         \* the game that search_process() is called for
    Period,         \* 7 in the code
    MaxMoves        \* bound: games installed, uninstalled or moved

ASSUME ConstantsAssumption ==
    /\ Launcher \notin Game
    /\ IsFiniteSet(Game)
    /\ Wanted \in Game
    /\ LauncherDir \notin Dir
    /\ In \in [Proc -> SUBSET (Dir \cup {LauncherDir})]
    /\ Nowhere \notin Dir
    /\ Period \in Nat \ {0}
    /\ MaxMoves \in Nat

VARIABLES
    alive,          \* the processes that run
    started,        \* those that were started
    parent,         \* parent[p]: the launcher process that p descends from, or p
    where,          \* where[g]: the directory that g is installed in
    moves,          \* how often a game was moved
    watched,        \* _watched_apps: a dict keeps the order of insertion
    pc,             \* setup() and the checker
    toScan,         \* the processes that setup() has not looked at yet
    round,          \* counter % Period
    running,        \* the running games that the checker was told last
    pool            \* whether search_process() waits, or how it ended

env == <<alive, started, parent, where, moves>>
checker == <<pc, toScan, round, running>>
search == <<pool>>
vars == <<env, watched, checker, search>>

LauncherApp == [id |-> Launcher, dir |-> LauncherDir, procs |-> {}]

IsLauncher(p) == LauncherDir \in In[p]

TypeOK ==
    /\ alive \in SUBSET started
    /\ started \in SUBSET Proc
    /\ parent \in [Proc -> Proc]
    /\ where \in [Game -> Dir \cup {Nowhere}]
    /\ moves \in 0..MaxMoves
    /\ watched \in Seq([id : Game \cup {Launcher}, dir : Dir \cup {LauncherDir}, procs : SUBSET Proc])
    /\ Head(watched).id = Launcher
    /\ \A i, j \in DOMAIN watched : watched[i].id = watched[j].id => i = j
    /\ pc \in {"scan", "check"}
    /\ toScan \in SUBSET Proc
    /\ round \in 0..(Period - 1)
    /\ running \in SUBSET Game
    /\ pool \in {"idle", "waiting", "found", "missed", "raised"}

Init ==
    /\ alive \in SUBSET {p \in Proc : IsLauncher(p)}
    /\ started = alive
    /\ parent = [p \in Proc |-> p]
    /\ where \in [Game -> Dir \cup {Nowhere}]
    /\ moves = 0
    /\ watched = <<LauncherApp>>
    /\ pc = "scan"
    /\ toScan = alive
    /\ round = 0
    /\ running = {}
    /\ pool = "idle"

-----------------------------------------------------------------------------
(* What happens on the computer.  A launcher is not started by another.    *)
Start(p) ==
    /\ p \notin started
    /\ started' = started \cup {p}
    /\ alive' = alive \cup {p}
    /\ \E q \in {p} \cup {l \in alive : IsLauncher(l) /\ ~IsLauncher(p)} :
          parent' = [parent EXCEPT ![p] = q]
    /\ UNCHANGED <<where, moves, watched, checker, search>>

Exit(p) ==
    /\ p \in alive
    /\ alive' = alive \ {p}
    /\ UNCHANGED <<started, parent, where, moves, watched, checker, search>>

(* A game is installed, uninstalled or moved.                              *)
Move(g) ==
    /\ moves < MaxMoves
    /\ moves' = moves + 1
    /\ \E d \in (Dir \cup {Nowhere}) \ {where[g]} : where' = [where EXCEPT ![g] = d]
    /\ UNCHANGED <<alive, started, parent, watched, checker, search>>

-----------------------------------------------------------------------------
(* __match_process                                                         *)
Matches(w, i, p) ==
    /\ w[i].dir \in In[p]
    /\ \A j \in 1..(i - 1) : w[j].dir \notin In[p]

SearchIn(w, S) ==
    [i \in DOMAIN w |-> [w[i] EXCEPT !.procs = @ \cup {p \in S : Matches(w, i, p)}]]

SearchInAll(w) == SearchIn(w, alive)

LauncherProcesses(w) == w[1].procs

(* A launcher that has died has no children.                               *)
SearchInChildren(w) ==
    SearchIn(w, {p \in alive : parent[p] # p /\ parent[p] \in LauncherProcesses(w) \cap alive})

(* `proc.is_running` is not called: a process is taken to be running until *)
(* remove_processes_if_dead() comes.                                       *)
TrackedAndRunning(w) == LauncherProcesses(w) # {}

(* Slip: dead processes are not removed.                                   *)
KeepDead(w) == w

RemoveDead(w) == [i \in DOMAIN w |-> [w[i] EXCEPT !.procs = @ \cap alive]]

Ids(w) == {w[i].id : i \in DOMAIN w}
Procs(w, g) == UNION {w[i].procs : i \in {k \in DOMAIN w : w[k].id = g}}
RunningGames(w) == {g \in Ids(w) \cap Game : Procs(w, g) # {}}

-----------------------------------------------------------------------------
Installed == {g \in Game : where[g] # Nowhere}

Apps == {watched[i] : i \in DOMAIN watched}

(* Slip: the games that stay are watched afresh.                           *)
KeptAfresh ==
    {[a EXCEPT !.procs = IF a.id = Launcher THEN @ ELSE {}]
        : a \in {b \in Apps : b.id \in Installed \cup {Launcher}}}

(* An app that stays keeps its processes, and the directory that it had.   *)
Kept == {a \in Apps : a.id \in Installed \cup {Launcher}}

Added == {[id |-> g, dir |-> where[g], procs |-> {}] : g \in Installed \ Ids(watched)}

(* The dict has one app before the other.                                  *)
Precedes(a, b) ==
    \E i, j \in DOMAIN watched : i < j /\ watched[i].id = a.id /\ watched[j].id = b.id

(* The setter of watched_games: what it may leave.  Those that stay keep   *)
(* their order, and the new ones are behind them, in some order.           *)
Watchable ==
    {w \in SetToSeqs(Kept \cup Added) :
        \A i, j \in DOMAIN w : i < j /\ w[j].id \in Ids(watched) => Precedes(w[i], w[j])}

(* _check_for_running of local.py, with get_running_games                  *)
CheckForRunning(checkForNew) ==
    /\ UNCHANGED <<env, search>>
    /\ \E w \in Watchable :
          watched' = RemoveDead(IF checkForNew /\ TrackedAndRunning(w)
                                THEN SearchInChildren(w) ELSE w)
    /\ running' = RunningGames(watched')

-----------------------------------------------------------------------------
(* setup() looks at one process after the other.  Games are not yet        *)
(* watched, so it does not matter which of theirs run already.             *)
Scan(p) ==
    /\ pc = "scan"
    /\ p \in toScan
    /\ toScan' = toScan \ {p}
    /\ watched' = SearchIn(watched, {p} \cap alive)
    /\ UNCHANGED <<env, pc, round, running, search>>

EndSetup ==
    /\ pc = "scan"
    /\ toScan = {}
    /\ pc' = "check"
    /\ UNCHANGED <<toScan, round>>
    /\ CheckForRunning(FALSE)

Check ==
    /\ pc = "check"
    /\ round' = (round + 1) % Period
    /\ UNCHANGED <<pc, toScan>>
    /\ CheckForRunning(round = 0)

(* A check before that of the running games raises.  The round has used up *)
(* its turn of the counter, which advances in `finally`.                   *)
FailRound ==
    /\ pc = "check"
    /\ round' = (round + 1) % Period
    /\ UNCHANGED <<env, watched, pc, toScan, running, search>>

-----------------------------------------------------------------------------
(* pool_until_game_start.  It finds that a process belongs to the game, or *)
(* sleeps and tries again; its time may be over after any sleep.           *)
Try(w) ==
    /\ watched' = w
    /\ pool' = IF ~TrackedAndRunning(watched) \/ (Wanted \in Ids(w) /\ Procs(w, Wanted) = {})
               THEN "waiting"
               ELSE IF Wanted \in Ids(w) THEN "found" ELSE "raised"

SearchProcess ==
    /\ pool \in {"idle", "waiting"}
    /\ Try(IF TrackedAndRunning(watched) THEN SearchInChildren(watched) ELSE SearchInAll(watched))
    /\ UNCHANGED <<env, checker>>

(* The final fallback, which asks whether the game is watched, not whether *)
(* a process of it was found.                                              *)
GiveUp ==
    /\ pool = "waiting"
    /\ watched' = SearchInAll(watched)
    /\ pool' = IF Wanted \in Ids(watched) THEN "found" ELSE "missed"
    /\ UNCHANGED <<env, checker>>

(* is_launcher_running                                                     *)
IsLauncherRunning ==
    /\ ~TrackedAndRunning(watched)
    /\ watched' = SearchInAll(watched)
    /\ UNCHANGED <<env, checker, search>>

-----------------------------------------------------------------------------
Next ==
    \/ \E p \in Proc : Start(p) \/ Exit(p) \/ Scan(p)
    \/ \E g \in Game : Move(g)
    \/ EndSetup
    \/ Check
    \/ FailRound
    \/ SearchProcess
    \/ GiveUp
    \/ IsLauncherRunning

Spec == Init /\ [][Next]_vars

(* The scan goes on after each sleep, and the rounds follow one another;   *)
(* whether one of them raises is not up to the loop.                       *)
FairSpec ==
    /\ Spec
    /\ \A p \in Proc : WF_vars(Scan(p))
    /\ WF_vars(EndSetup)
    /\ WF_vars(Check \/ FailRound)

-----------------------------------------------------------------------------
(* "Return set of ids of currently running games."  Each of them has a     *)
(* process that runs in the directory it is watched in; and a game that    *)
(* stays watched remains among them until its processes have ended, also   *)
(* in the rounds that search for none.                                     *)
RunningIsCurrent ==
    [][EndSetup \/ Check =>
          /\ \A g \in running' :
                \E p \in alive, i \in DOMAIN watched' :
                    watched'[i].id = g /\ watched'[i].dir \in In[p]
          /\ \A g \in running \cap Installed :
                Procs(watched, g) \cap alive # {} => g \in running']_vars

(* A launcher process that was found, in setup() or by any search, stays   *)
(* known as long as it runs, whatever is watched meanwhile.                *)
LauncherStaysKnown ==
    [][\A l \in alive' :
          \/ l \in LauncherProcesses(watched)
          \/ IsLauncher(l) /\ l \in toScan \ toScan'
          => l \in LauncherProcesses(watched')]_vars

(* A round that searches reports every installed game of which a child of  *)
(* a known launcher runs, whatever else it starts or stops to watch.       *)
SearchReports ==
    [][Check /\ round = 0 =>
          \A l \in LauncherProcesses(watched) \cap alive, p \in alive, k \in DOMAIN watched :
              /\ parent[p] = l
              /\ p # l
              /\ watched[k].id \in Installed
              /\ Matches(watched, k, p)
              => watched[k].id \in running']_vars

(* If the launcher runs from before setup() on, and from some point on no  *)
(* round that would search raises, a process that the launcher starts      *)
(* makes its game known as running for as long as it runs.  Other rounds   *)
(* may raise for ever.  (A failed round that looks like a check had        *)
(* nothing to find.)                                                       *)
GameNoticed ==
    /\ [](\A l \in Proc : IsLauncher(l) => l \in alive)
    /\ <>[][FailRound /\ round = 0 => Check]_vars
    => \A p \in Proc, g \in Game :
          <>[](/\ p \in alive
               /\ parent[p] # p
               /\ \E i \in DOMAIN watched : watched[i].id = g /\ Matches(watched, i, p))
              => <>[](g \in running)

=============================================================================
