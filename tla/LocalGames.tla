----------------------------- MODULE LocalGames -----------------------------
(***************************************************************************)
(* local.py: LocalGamesProvider.  Once per second it looks at the list of  *)
(* installed games that the Epic launcher keeps, at the manifests of third *)
(* party games and at the processes, and derives from them the state of    *)
(* each game.  A file is parsed again only when its os.stat() has changed. *)
(*                                                                         *)
(* The files, the Windows registry and the processes are changed by others *)
(* at any time, also between two system calls of a round.  All the rest    *)
(* runs on the event loop, so a client's call comes between two rounds.    *)
(*                                                                         *)
(* get_running_games() of ProcessWatcher, which has a module of its own,   *)
(* is any set of watched games here.                                       *)
(***************************************************************************)
EXTENDS Naturals

CONSTANTS
    App,            \* the AppNames of Epic's own games
    Third,          \* those of third party games
    MaxChanges      \* bound: changes of files

(* "there is no shared AppName's between third party and first party"      *)
ASSUME DisjointAssumption == App \cap Third = {}
ASSUME BoundAssumption == MaxChanges \in Nat

Game == App \cup Third

VARIABLES
    file,           \* LauncherInstalled.dat
    changed,        \* its st_mtime is not _last_modified
    disk,           \* disk[t]: the manifest file of t
    differs,        \* the files that _manifests_stats is wrong about
    silent,         \* rewritten since they were loaded, with the stat kept
    registry,       \* the third party games whose location is found
    changes,        \* changes so far
    pc,             \* the step of setup() or of the checker that is next
    first_run,
    installed,      \* _installed_games
    parseFailed,    \* the last attempt to parse LauncherInstalled.dat raised
    listed,         \* the manifests in _manifests_stats
    manifests,      \* _manifests: the kind that was loaded, or "absent"
    loadFailed,     \* the last attempt to load the manifests raised
    third,          \* _third_party_installed_games
    running,        \* _running_games
    games,          \* _games: the flags of each game
    updated,        \* _updated_games
    view            \* what the client knows of games

files == <<file, changed, disk, differs, silent, registry, changes>>
firstParty == <<installed, parseFailed>>
thirdParty == <<listed, manifests, loadFailed>>
statuses == <<games, updated>>
vars == <<files, pc, first_run, firstParty, thirdParty, third, running, statuses, view>>

Flag == {"Installed", "Running"}

(***************************************************************************)
(* "garbage" is no JSON.  "unreadable" is a file that cannot be opened or  *)
(* lacks what the parser looks up.  "denied" cannot even be stated.        *)
(* "nokey" is a manifest that names no key of the registry.                *)
(***************************************************************************)
FileState ==
    [kind : {"good"}, apps : SUBSET App]
        \cup [kind : {"garbage", "unreadable", "absent", "denied"}, apps : {{}}]

ManifestKind == {"good", "nokey", "garbage", "unreadable", "absent"}

TypeOK ==
    /\ file \in FileState
    /\ changed \in BOOLEAN
    /\ disk \in [Third -> ManifestKind]
    /\ differs \in SUBSET Third
    /\ silent \in SUBSET Third
    /\ registry \in SUBSET Third
    /\ changes \in 0..MaxChanges
    /\ pc \in {"new", "setup.parse", "setup.tree", "sleep", "parse", "third", "load",
               "locate", "running"}
    /\ first_run \in BOOLEAN
    /\ installed \in SUBSET App
    /\ parseFailed \in BOOLEAN
    /\ listed \in SUBSET Third
    /\ manifests \in [Third -> {"good", "nokey", "absent"}]
    /\ loadFailed \in BOOLEAN
    /\ third \in SUBSET Third
    /\ running \in SUBSET Game
    /\ games \in [Game -> SUBSET Flag]
    /\ updated \in SUBSET Game
    /\ view \in [Game -> SUBSET Flag]

Init ==
    /\ file \in FileState
    /\ changed = TRUE
    /\ disk \in [Third -> ManifestKind]
    /\ differs = {t \in Third : disk[t] # "absent"}
    /\ silent = {}
    /\ registry \in SUBSET Third
    /\ changes = 0
    /\ pc = "new"
    /\ first_run = TRUE
    /\ installed = {}
    /\ parseFailed = FALSE
    /\ listed = {}
    /\ manifests = [t \in Third |-> "absent"]
    /\ loadFailed = FALSE
    /\ third = {}
    /\ running = {}
    /\ games = [g \in Game |-> {}]
    /\ updated = {}
    /\ view = [g \in Game |-> {}]

-----------------------------------------------------------------------------
(* The files and the registry, as others change them.                      *)
Change ==
    /\ changes < MaxChanges
    /\ changes' = changes + 1
    /\ UNCHANGED <<pc, first_run, firstParty, thirdParty, third, running, statuses, view>>

(* Every write has a modification time of its own.                         *)
WriteFile(f) ==
    /\ Change
    /\ file' = f
    /\ changed' = TRUE
    /\ UNCHANGED <<disk, differs, silent, registry>>

(* A manifest is written or removed.  Two os.stat_result are equal if their *)
(* ten integers are, among them the size and the modification time in      *)
(* seconds: so a file may be rewritten and have the stat of before.        *)
WriteManifest(t, k) ==
    /\ Change
    /\ disk' = [disk EXCEPT ![t] = k]
    /\ \/ /\ differs' = IF k = "absent" /\ t \notin listed THEN differs \ {t} ELSE differs \cup {t}
          /\ UNCHANGED silent
       \/ /\ k # "absent" /\ t \in listed
          /\ differs' = differs \ {t}
          /\ silent' = silent \cup {t}
    /\ UNCHANGED <<file, changed, registry>>

WriteRegistry(t) ==
    /\ Change
    /\ registry' = IF t \in registry THEN registry \ {t} ELSE registry \cup {t}
    /\ UNCHANGED <<file, changed, disk, differs, silent>>

-----------------------------------------------------------------------------
Xor(S, T) == (S \ T) \cup (T \ S)

(* Slip: only what is new is reported.                                     *)
ReportedIfNew(previous, current) == current \ previous

Reported(previous, current) == Xor(previous, current)

(* Slip: a state that is gone takes the other flags with it.               *)
WithoutAny(flags, status) == {}

(* flags ^= status                                                         *)
Toggled(flags, status) == Xor(flags, {status})

UpdateGameStatuses(previous, current, status) ==
    /\ games' = [g \in Game |->
                   IF g \in current \ previous THEN games[g] \cup {status}
                   ELSE IF g \in previous \ current THEN Toggled(games[g], status)
                   ELSE games[g]]
    /\ updated' = IF first_run THEN updated ELSE updated \cup Reported(previous, current)

-----------------------------------------------------------------------------
(* _check_for_installed, up to the answer of os.stat().  The modification  *)
(* time is remembered before the file is opened.                           *)
Stat(parse, next, failed) ==
    /\ changed' = (changed /\ file.kind \in {"denied", "absent"})
    /\ pc' = CASE file.kind = "denied" -> failed
               [] file.kind # "denied" /\ changed /\ ~changed' -> parse
               [] file.kind # "denied" /\ ~(changed /\ ~changed') -> next

(* Slip: a file that is no JSON is taken for no change.                    *)
ContentOrLast == IF file.kind = "garbage" THEN installed ELSE file.apps

(* What the file lists: nothing if it is gone or no JSON.                  *)
Content == file.apps

(* The rest of _check_for_installed.                                       *)
Parse(next, failed) ==
    IF file.kind \in {"unreadable", "denied"}
    THEN /\ pc' = failed
         /\ parseFailed' = TRUE
         /\ UNCHANGED <<installed, statuses>>
    ELSE /\ pc' = next
         /\ parseFailed' = FALSE
         /\ installed' = Content
         /\ UpdateGameStatuses(installed, installed', "Installed")

(* _check_for_running: any of the watched games may be running.            *)
FindRunning ==
    \E found \in SUBSET (third \cup installed) :
        /\ running' = found
        /\ UpdateGameStatuses(running, found, "Running")

-----------------------------------------------------------------------------
(* setup().  An exception leaves it to the caller, who may call it again.  *)
BeginSetup ==
    /\ pc = "new"
    /\ Stat("setup.parse", "setup.tree", "new")
    /\ UNCHANGED <<file, disk, differs, silent, registry, changes, first_run, firstParty,
                   thirdParty, third, running, statuses, view>>

ParseInSetup ==
    /\ pc = "setup.parse"
    /\ Parse("setup.tree", "new")
    /\ UNCHANGED <<files, first_run, thirdParty, third, running, view>>

(* The processes have been searched.  The caller of setup() gets the games *)
(* as they are now.                                                        *)
EndSetup ==
    /\ pc = "setup.tree"
    /\ pc' = "sleep"
    /\ FindRunning
    /\ first_run' = FALSE
    /\ view' = games'
    /\ UNCHANGED <<files, firstParty, thirdParty, third>>

-----------------------------------------------------------------------------
(* A round of _endless_status_checker.  Whatever raises ends the round.    *)
BeginRound ==
    /\ pc = "sleep"
    /\ Stat("parse", "third", "sleep")
    /\ UNCHANGED <<file, disk, differs, silent, registry, changes, first_run, firstParty,
                   thirdParty, third, running, statuses, view>>

ParseInRound ==
    /\ pc = "parse"
    /\ Parse("third", "sleep")
    /\ UNCHANGED <<files, first_run, thirdParty, third, running, view>>

Present == {t \in Third : disk[t] # "absent"}

(* Slip: the stats are remembered once the manifests are loaded.           *)
RememberedIfLoadable(S) ==
    IF \E t \in S : disk[t] \in {"unreadable", "absent"} THEN differs ELSE {}

(* _manifests_stats is set before anything is loaded: it is right now.     *)
Remembered(S) == {}

(* update(), up to the answers of os.stat()                                *)
StatManifests ==
    /\ pc = "third"
    /\ IF differs # {}
       THEN pc' = "load" /\ listed' = Present /\ differs' = Remembered(Present)
       ELSE pc' = "locate" /\ UNCHANGED <<listed, differs>>
    /\ UNCHANGED <<file, changed, disk, silent, registry, changes, first_run, firstParty, manifests,
                   loadFailed, third, running, statuses, view>>

(* Slip: what was loaded before is kept.                                   *)
LoadedOntoOld(S) ==
    [t \in Third |-> IF t \in S /\ disk[t] # "garbage" THEN disk[t] ELSE manifests[t]]

(* A file that is no JSON is left out.                                     *)
Loaded(S) == [t \in Third |-> IF t \in S /\ disk[t] # "garbage" THEN disk[t] ELSE "absent"]

(* _load_manifests, which raises for a file that is gone or unreadable.    *)
Load(S) ==
    IF \E t \in S : disk[t] \in {"unreadable", "absent"}
    THEN loadFailed' = TRUE /\ UNCHANGED <<manifests, silent>>
    ELSE loadFailed' = FALSE /\ manifests' = Loaded(S) /\ silent' = {}

LoadManifests ==
    /\ pc = "load"
    /\ Load(listed)
    /\ pc' = IF loadFailed' THEN "sleep" ELSE "locate"
    /\ UNCHANGED <<file, changed, disk, differs, registry, changes, first_run, firstParty, listed,
                   third, running, statuses, view>>

(* get_installed_apps(), which raises FailedParsingManifest for a manifest *)
(* without a key, and the new states.                                      *)
Locate ==
    /\ pc = "locate"
    /\ IF \E t \in Third : manifests[t] = "nokey"
       THEN pc' = "sleep" /\ UNCHANGED <<third, statuses>>
       ELSE /\ pc' = "running"
            /\ third' = {t \in registry : manifests[t] = "good"}
            /\ UpdateGameStatuses(third, third', "Installed")
    /\ UNCHANGED <<files, first_run, firstParty, thirdParty, running, view>>

CheckRunning ==
    /\ pc = "running"
    /\ pc' = "sleep"
    /\ FindRunning
    /\ UNCHANGED <<files, first_run, firstParty, thirdParty, third, view>>

-----------------------------------------------------------------------------
(* consume_updated_games() and a look at the games in it.                  *)
ConsumeUpdatedGames ==
    /\ pc = "sleep"
    /\ updated # {}
    /\ updated' = {}
    /\ view' = [g \in Game |-> IF g \in updated THEN games[g] ELSE view[g]]
    /\ UNCHANGED <<files, pc, first_run, firstParty, thirdParty, third, running, games>>

(* is_third_party_game(), whose call of update() may raise to the client.  *)
IsThirdPartyGame ==
    /\ pc \in {"new", "setup.tree", "sleep"}
    /\ differs # {}
    /\ differs' = Remembered(Present)
    /\ listed' = Present
    /\ Load(Present)
    /\ UNCHANGED <<file, changed, disk, registry, changes, pc, first_run, firstParty, third,
                   running, statuses, view>>

-----------------------------------------------------------------------------
Setup == BeginSetup \/ ParseInSetup \/ EndSetup

Round == BeginRound \/ ParseInRound \/ StatManifests \/ LoadManifests \/ Locate \/ CheckRunning

Next ==
    \/ Setup
    \/ Round
    \/ ConsumeUpdatedGames
    \/ IsThirdPartyGame
    \/ \E f \in FileState : WriteFile(f)
    \/ \E t \in Third, k \in ManifestKind : WriteManifest(t, k)
    \/ \E t \in Third : WriteRegistry(t)

Spec == Init /\ [][Next]_vars

(* sleep(1) ends, and what was begun goes on.                              *)
FairSpec == Spec /\ WF_vars(Setup) /\ WF_vars(Round)

-----------------------------------------------------------------------------
(* The flags of a game, which are only ever added and toggled, are those   *)
(* that the last scans give.                                               *)
FlagsAreScans ==
    \A g \in Game :
        /\ "Installed" \in games[g] <=> g \in installed \cup third
        /\ "Running" \in games[g] <=> g \in running

(* A game that is not as the client knows it is among the updated games.   *)
(* setup() reports nothing, so the client must not look before it ends.    *)
NoChangeUnreported ==
    ~first_run => \A g \in Game : view[g] # games[g] => g \in updated

(* While the modification time is the one remembered, the installed games  *)
(* are those in the file, whenever it was written during a round -- unless *)
(* the parser raised, for then it is not called again.                     *)
InstalledIsFile ==
    ~changed /\ ~parseFailed /\ pc \notin {"setup.parse", "parse"} => installed = file.apps

(* After update() the manifests are those on disk, file by file, unless    *)
(* one of them could not be loaded.  "Reparses manifests if any change" is *)
(* said of it, but a file rewritten within the second of its last change,  *)
(* and with the same size, goes unnoticed until another one has changed.   *)
ManifestsAreDisk ==
    ~loadFailed /\ pc # "load" =>
        \A t \in Third \ (differs \cup silent) :
            manifests[t] = IF disk[t] = "garbage" THEN "absent" ELSE disk[t]

(* The running games are checked again and again.  What raises does so     *)
(* once, except a file that cannot be stated, and a manifest without a key.*)
RunningChecked ==
    <>[](/\ ~first_run
         /\ file.kind # "denied"
         /\ \A t \in Third : manifests[t] # "nokey")
        => []<><<CheckRunning>>_vars

=============================================================================
