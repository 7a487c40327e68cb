-------------------------- MODULE LocalGames_proofs --------------------------
(***************************************************************************)
(* Machine-checked proofs about LocalGames, for all sets of games and any  *)
(* number of changes of the files.                                         *)
(***************************************************************************)
EXTENDS LocalGames, TLAPS

(* Of a file that _manifests_stats is right about it tells whether there is *)
(* one; and what it does not list is not loaded.                           *)
ListedIsPresent == \A t \in Third \ differs : t \in listed <=> disk[t] # "absent"

LoadedIsListed ==
    ~loadFailed /\ pc # "load" => \A t \in Third \ listed : manifests[t] = "absent"

ManifestsInv == ManifestsAreDisk /\ ListedIsPresent /\ LoadedIsListed

IInv ==
    /\ TypeOK
    /\ FlagsAreScans
    /\ NoChangeUnreported
    /\ InstalledIsFile
    /\ ManifestsInv

(* What an update does to the states: the status is that of the current    *)
(* set, the other one stays, and whatever changes is reported.             *)
LEMMA StatusesFollow ==
  ASSUME TypeOK, NoChangeUnreported,
         NEW previous \in SUBSET Game, NEW current \in SUBSET Game, NEW status \in Flag,
         \A g \in previous : status \in games[g],
         UpdateGameStatuses(previous, current, status)
  PROVE  /\ games' \in [Game -> SUBSET Flag]
         /\ updated' \in SUBSET Game
         /\ \A g \in Game :
               /\ status \in games'[g] <=>
                     g \in current \/ (g \notin previous /\ status \in games[g])
               /\ \A other \in Flag \ {status} : other \in games'[g] <=> other \in games[g]
         /\ UNCHANGED <<first_run, view>> => NoChangeUnreported'
<1>1. games \in [Game -> SUBSET Flag] /\ updated \in SUBSET Game
  BY DEF TypeOK
<1>2. \A g \in Game : games'[g] = IF g \in current \ previous THEN games[g] \cup {status}
                                  ELSE IF g \in previous \ current
                                       THEN (games[g] \ {status}) \cup ({status} \ games[g])
                                       ELSE games[g]
  BY DEF UpdateGameStatuses, Toggled, Xor
<1>3. games' \in [Game -> SUBSET Flag]
  <2>1. \A g \in Game : games'[g] \in SUBSET Flag
    BY <1>1, <1>2
  <2>2. games' = [g \in Game |-> games'[g]]
    BY DEF UpdateGameStatuses
  <2>3. QED
    BY <2>1, <2>2
<1>4. updated' = IF first_run THEN updated
                 ELSE updated \cup ((previous \ current) \cup (current \ previous))
  BY DEF UpdateGameStatuses, Reported, Xor
<1>5. updated' \in SUBSET Game
  BY <1>1, <1>4
<1>6. ASSUME NEW g \in Game
      PROVE  /\ status \in games'[g] <=>
                   g \in current \/ (g \notin previous /\ status \in games[g])
             /\ \A other \in Flag \ {status} : other \in games'[g] <=> other \in games[g]
  BY <1>1, <1>2
<1>7. ASSUME UNCHANGED <<first_run, view>>
      PROVE  NoChangeUnreported'
  <2> SUFFICES ASSUME ~first_run, NEW g \in Game, view[g] # games'[g]
               PROVE  g \in updated'
    BY <1>7 DEF NoChangeUnreported
  <2>1. CASE games'[g] = games[g]
    BY <1>4, <2>1 DEF NoChangeUnreported
  <2>2. CASE games'[g] # games[g]
    BY <1>2, <1>4, <2>2
  <2>3. QED
    BY <2>1, <2>2
<1>8. QED
  BY <1>3, <1>5, <1>6, <1>7

LEMMA InitIInv == Init => IInv
<1> SUFFICES ASSUME Init
             PROVE  IInv
  OBVIOUS
<1>1. TypeOK
  <2>1. 0 \in 0..MaxChanges
    BY BoundAssumption
  <2>2. QED
    BY <2>1 DEF Init, TypeOK
<1>2. FlagsAreScans /\ NoChangeUnreported /\ InstalledIsFile
  BY DEF Init, FlagsAreScans, NoChangeUnreported, InstalledIsFile
<1>3. ManifestsInv
  BY DEF Init, ManifestsInv, ManifestsAreDisk, ListedIsPresent, LoadedIsListed
<1>4. QED
  BY <1>1, <1>2, <1>3 DEF IInv

-----------------------------------------------------------------------------
(* A change of a file concerns only what is to be read.                    *)
LEMMA ChangeKeepsIInv ==
  ASSUME IInv,
         \/ \E f \in FileState : WriteFile(f)
         \/ \E t \in Third, k \in ManifestKind : WriteManifest(t, k)
         \/ \E t \in Third : WriteRegistry(t)
  PROVE  IInv'
<1> USE DEF IInv
<1>1. /\ UNCHANGED <<pc, first_run, firstParty, thirdParty, third, running, statuses, view>>
      /\ changes' \in 0..MaxChanges
  <2>1. Change
    BY DEF WriteFile, WriteManifest, WriteRegistry
  <2>2. changes \in Nat /\ changes' = changes + 1 /\ changes < MaxChanges
    BY <2>1 DEF Change, TypeOK
  <2>3. changes' \in 0..MaxChanges
    BY <2>2, BoundAssumption
  <2>4. QED
    BY <2>1, <2>3 DEF Change
<1>2. FlagsAreScans' /\ NoChangeUnreported'
  BY <1>1 DEF FlagsAreScans, NoChangeUnreported, firstParty, statuses
<1>3. CASE \E f \in FileState : WriteFile(f)
  <2>1. TypeOK'
    BY <1>1, <1>3 DEF WriteFile, TypeOK, firstParty, thirdParty, statuses
  <2>2. InstalledIsFile'
    BY <1>3 DEF WriteFile, InstalledIsFile
  <2>3. ManifestsInv'
    BY <1>1, <1>3
    DEF WriteFile, ManifestsInv, ManifestsAreDisk, ListedIsPresent, LoadedIsListed, thirdParty
  <2>4. QED
    BY <1>2, <2>1, <2>2, <2>3
<1>4. CASE \E t \in Third, k \in ManifestKind : WriteManifest(t, k)
  <2>1. PICK t \in Third, k \in ManifestKind : WriteManifest(t, k)
    BY <1>4
  <2>2. disk' \in [Third -> ManifestKind] /\ differs' \in SUBSET Third /\ silent' \in SUBSET Third
    BY <2>1 DEF WriteManifest, TypeOK
  <2>3. TypeOK'
    BY <1>1, <2>1, <2>2 DEF WriteManifest, TypeOK, firstParty, thirdParty, statuses
  <2>4. InstalledIsFile'
    BY <1>1, <2>1 DEF WriteManifest, InstalledIsFile, firstParty
  <2>5. \A u \in Third : disk'[u] = IF u = t THEN k ELSE disk[u]
    BY <2>1 DEF WriteManifest, TypeOK
  <2>6. ListedIsPresent'
    BY <1>1, <2>1, <2>5 DEF WriteManifest, ManifestsInv, ListedIsPresent, thirdParty
  <2>7. ManifestsAreDisk' /\ LoadedIsListed'
    <3>1. LoadedIsListed'
      BY <1>1 DEF ManifestsInv, LoadedIsListed, thirdParty
    <3>2. ManifestsAreDisk'
      BY <1>1, <2>1, <2>5 DEF WriteManifest, ManifestsInv, ManifestsAreDisk, LoadedIsListed, thirdParty
    <3>3. QED
      BY <3>1, <3>2
  <2>8. QED
    BY <1>2, <2>3, <2>4, <2>6, <2>7 DEF ManifestsInv
<1>5. CASE \E t \in Third : WriteRegistry(t)
  <2>1. TypeOK'
    BY <1>1, <1>5 DEF WriteRegistry, TypeOK, firstParty, thirdParty, statuses
  <2>2. InstalledIsFile'
    BY <1>1, <1>5 DEF WriteRegistry, InstalledIsFile, firstParty
  <2>3. ManifestsInv'
    BY <1>1, <1>5
    DEF WriteRegistry, ManifestsInv, ManifestsAreDisk, ListedIsPresent, LoadedIsListed, thirdParty
  <2>4. QED
    BY <1>2, <2>1, <2>2, <2>3
<1>6. QED
  BY <1>3, <1>4, <1>5

(* Looking at the modification time, in setup() and in a round.            *)
LEMMA StatKeepsIInv ==
  ASSUME IInv, BeginSetup \/ BeginRound
  PROVE  IInv'
<1> USE DEF IInv
<1>1. /\ UNCHANGED <<file, disk, differs, silent, registry, changes, first_run, firstParty,
                     thirdParty, third, running, statuses, view>>
      /\ pc \in {"new", "sleep"}
      /\ \/ changed' = changed /\ pc' \in {"setup.tree", "third", "new", "sleep"}
         \/ pc' \in {"setup.parse", "parse"} /\ changed' = FALSE
  BY DEF BeginSetup, BeginRound, Stat, TypeOK
<1>2. TypeOK'
  BY <1>1 DEF TypeOK, firstParty, thirdParty, statuses
<1>3. FlagsAreScans' /\ NoChangeUnreported'
  BY <1>1 DEF FlagsAreScans, NoChangeUnreported, firstParty, statuses
<1>4. InstalledIsFile'
  BY <1>1 DEF InstalledIsFile, firstParty
<1>5. ManifestsInv'
  BY <1>1 DEF ManifestsInv, ManifestsAreDisk, ListedIsPresent, LoadedIsListed, thirdParty
<1>6. QED
  BY <1>2, <1>3, <1>4, <1>5

(* The games of the launcher's file are no third party games, so toggling  *)
(* Installed takes away what the file gave.                                *)
LEMMA ParseKeepsIInv ==
  ASSUME IInv, ParseInSetup \/ ParseInRound
  PROVE  IInv'
<1> USE DEF IInv
<1>1. /\ UNCHANGED <<files, first_run, thirdParty, third, running, view>>
      /\ pc \in {"setup.parse", "parse"}
      /\ pc' \in {"setup.tree", "new", "third", "sleep"}
      /\ \/ parseFailed' = TRUE /\ UNCHANGED <<installed, statuses>>
         \/ /\ parseFailed' = FALSE
            /\ installed' = file.apps
            /\ UpdateGameStatuses(installed, installed', "Installed")
  BY DEF ParseInSetup, ParseInRound, Parse, Content
<1>2. ManifestsInv'
  BY <1>1 DEF ManifestsInv, ManifestsAreDisk, ListedIsPresent, LoadedIsListed, thirdParty, files
<1>3. CASE parseFailed' = TRUE /\ UNCHANGED <<installed, statuses>>
  <2>1. TypeOK'
    BY <1>1, <1>3 DEF TypeOK, files, thirdParty, statuses
  <2>2. FlagsAreScans' /\ NoChangeUnreported'
    BY <1>1, <1>3 DEF FlagsAreScans, NoChangeUnreported, statuses
  <2>3. InstalledIsFile'
    BY <1>3 DEF InstalledIsFile
  <2>4. QED
    BY <1>2, <2>1, <2>2, <2>3
<1>4. CASE /\ parseFailed' = FALSE
           /\ installed' = file.apps
           /\ UpdateGameStatuses(installed, installed', "Installed")
  <2>1. installed \in SUBSET App /\ installed' \in SUBSET App
    BY <1>4 DEF TypeOK, FileState
  <2>2. /\ installed \in SUBSET Game /\ installed' \in SUBSET Game
        /\ "Installed" \in Flag
        /\ \A g \in installed : "Installed" \in games[g]
    BY <2>1 DEF Game, Flag, FlagsAreScans
  <2>3. /\ games' \in [Game -> SUBSET Flag]
        /\ updated' \in SUBSET Game
        /\ \A g \in Game :
              /\ "Installed" \in games'[g] <=>
                    g \in installed' \/ (g \notin installed /\ "Installed" \in games[g])
              /\ \A other \in Flag \ {"Installed"} : other \in games'[g] <=> other \in games[g]
        /\ UNCHANGED <<first_run, view>> => NoChangeUnreported'
    <3>1. TypeOK /\ NoChangeUnreported /\ UpdateGameStatuses(installed, installed', "Installed")
      BY <1>4
    <3>2. QED
      BY <2>2, <3>1, StatusesFollow
  <2>4. TypeOK'
    BY <1>1, <1>4, <2>1, <2>3 DEF TypeOK, files, thirdParty
  <2>5. FlagsAreScans'
    <3>1. SUFFICES ASSUME NEW g \in Game
                   PROVE  /\ "Installed" \in games'[g] <=> g \in installed' \cup third
                          /\ "Running" \in games'[g] <=> g \in running
      BY <1>1 DEF FlagsAreScans
    <3>2. "Running" \in Flag \ {"Installed"}
      BY DEF Flag
    <3>3. g \in installed => g \notin third
      BY <2>1, DisjointAssumption DEF TypeOK
    <3>4. QED
      BY <2>3, <3>2, <3>3 DEF FlagsAreScans
  <2>6. InstalledIsFile'
    BY <1>1, <1>4 DEF InstalledIsFile, files
  <2>7. QED
    BY <1>1, <1>2, <2>3, <2>4, <2>5, <2>6
<1>5. QED
  BY <1>1, <1>3, <1>4

(* Setting Running from what was found, with no other change.              *)
LEMMA FindRunningFollows ==
  ASSUME IInv, FindRunning, UNCHANGED <<installed, third>>
  PROVE  /\ running' \in SUBSET Game
         /\ games' \in [Game -> SUBSET Flag]
         /\ updated' \in SUBSET Game
         /\ FlagsAreScans'
         /\ UNCHANGED <<first_run, view>> => NoChangeUnreported'
<1> USE DEF IInv
<1>1. /\ running' \in SUBSET (third \cup installed)
      /\ UpdateGameStatuses(running, running', "Running")
  BY DEF FindRunning
<1>2. /\ running' \in SUBSET Game /\ running \in SUBSET Game
      /\ "Running" \in Flag
      /\ \A g \in running : "Running" \in games[g]
  BY <1>1 DEF TypeOK, Game, Flag, FlagsAreScans
<1>3. /\ games' \in [Game -> SUBSET Flag]
      /\ updated' \in SUBSET Game
      /\ \A g \in Game :
            /\ "Running" \in games'[g] <=>
                  g \in running' \/ (g \notin running /\ "Running" \in games[g])
            /\ \A other \in Flag \ {"Running"} : other \in games'[g] <=> other \in games[g]
      /\ UNCHANGED <<first_run, view>> => NoChangeUnreported'
  BY <1>1, <1>2, StatusesFollow
<1>4. FlagsAreScans'
  <2>1. "Installed" \in Flag \ {"Running"}
    BY DEF Flag
  <2>2. QED
    BY <1>3, <2>1 DEF FlagsAreScans
<1>5. QED
  BY <1>2, <1>3, <1>4

(* The client gets the games when setup() ends.                            *)
LEMMA EndSetupKeepsIInv == IInv /\ EndSetup => IInv'
<1> SUFFICES ASSUME IInv, EndSetup
             PROVE  IInv'
  OBVIOUS
<1>1. /\ UNCHANGED <<files, firstParty, thirdParty, third>>
      /\ FindRunning
      /\ pc = "setup.tree" /\ pc' = "sleep" /\ first_run' = FALSE /\ view' = games'
  BY DEF EndSetup
<1>2. /\ running' \in SUBSET Game
      /\ games' \in [Game -> SUBSET Flag]
      /\ updated' \in SUBSET Game
      /\ FlagsAreScans'
  BY <1>1, FindRunningFollows DEF firstParty
<1>3. TypeOK'
  BY <1>1, <1>2 DEF IInv, TypeOK, files, firstParty, thirdParty
<1>4. NoChangeUnreported'
  BY <1>1 DEF NoChangeUnreported
<1>5. InstalledIsFile' /\ ManifestsInv'
  BY <1>1 DEF IInv, InstalledIsFile, ManifestsInv, ManifestsAreDisk, ListedIsPresent, LoadedIsListed,
              files, firstParty, thirdParty
<1>6. QED
  BY <1>2, <1>3, <1>4, <1>5 DEF IInv

LEMMA CheckRunningKeepsIInv == IInv /\ CheckRunning => IInv'
<1> SUFFICES ASSUME IInv, CheckRunning
             PROVE  IInv'
  OBVIOUS
<1>1. /\ UNCHANGED <<files, first_run, firstParty, thirdParty, third, view>>
      /\ FindRunning
      /\ pc = "running" /\ pc' = "sleep"
  BY DEF CheckRunning
<1>2. /\ running' \in SUBSET Game
      /\ games' \in [Game -> SUBSET Flag]
      /\ updated' \in SUBSET Game
      /\ FlagsAreScans'
      /\ NoChangeUnreported'
  BY <1>1, FindRunningFollows DEF firstParty
<1>3. TypeOK'
  BY <1>1, <1>2 DEF IInv, TypeOK, files, firstParty, thirdParty
<1>4. InstalledIsFile' /\ ManifestsInv'
  BY <1>1 DEF IInv, InstalledIsFile, ManifestsInv, ManifestsAreDisk, ListedIsPresent, LoadedIsListed,
              files, firstParty, thirdParty
<1>5. QED
  BY <1>2, <1>3, <1>4 DEF IInv

-----------------------------------------------------------------------------
LEMMA StatManifestsKeepsIInv == IInv /\ StatManifests => IInv'
<1> SUFFICES ASSUME IInv, StatManifests
             PROVE  IInv'
  OBVIOUS
<1> USE DEF IInv
<1>1. /\ UNCHANGED <<file, changed, disk, silent, registry, changes, first_run, firstParty,
                     manifests, loadFailed, third, running, statuses, view>>
      /\ pc = "third"
      /\ \/ pc' = "load" /\ listed' = Present /\ differs' = {}
         \/ pc' = "locate" /\ UNCHANGED <<listed, differs>>
  BY DEF StatManifests, Remembered
<1>2. TypeOK'
  BY <1>1 DEF TypeOK, Present, firstParty, statuses
<1>3. FlagsAreScans' /\ NoChangeUnreported' /\ InstalledIsFile'
  BY <1>1 DEF FlagsAreScans, NoChangeUnreported, InstalledIsFile, firstParty, statuses
<1>4. ManifestsInv'
  BY <1>1 DEF ManifestsInv, ManifestsAreDisk, ListedIsPresent, LoadedIsListed, Present
<1>5. QED
  BY <1>2, <1>3, <1>4

(* What is loaded of the files that were listed.                           *)
LEMMA LoadFollows ==
  ASSUME TypeOK, NEW S \in SUBSET Third, Load(S)
  PROVE  /\ manifests' \in [Third -> {"good", "nokey", "absent"}]
         /\ loadFailed' \in BOOLEAN
         /\ silent' \in SUBSET Third
         /\ ~loadFailed' =>
               /\ \A t \in S : manifests'[t] = IF disk[t] = "garbage" THEN "absent" ELSE disk[t]
               /\ \A t \in Third \ S : manifests'[t] = "absent"
<1>1. CASE \E t \in S : disk[t] \in {"unreadable", "absent"}
  BY <1>1 DEF Load, TypeOK
<1>2. CASE ~\E t \in S : disk[t] \in {"unreadable", "absent"}
  <2>1. /\ loadFailed' = FALSE
        /\ silent' = {}
        /\ manifests' = [t \in Third |->
                           IF t \in S /\ disk[t] # "garbage" THEN disk[t] ELSE "absent"]
    BY <1>2 DEF Load, Loaded
  <2>2. \A t \in S : disk[t] \in {"good", "nokey", "garbage"}
    BY <1>2 DEF TypeOK, ManifestKind
  <2>3. QED
    BY <2>1, <2>2
<1>3. QED
  BY <1>1, <1>2

LEMMA LoadManifestsKeepsIInv == IInv /\ LoadManifests => IInv'
<1> SUFFICES ASSUME IInv, LoadManifests
             PROVE  IInv'
  OBVIOUS
<1> USE DEF IInv
<1>1. /\ UNCHANGED <<file, changed, disk, differs, registry, changes, first_run, firstParty,
                     listed, third, running, statuses, view>>
      /\ pc = "load" /\ pc' \in {"sleep", "locate"}
      /\ Load(listed)
  BY DEF LoadManifests
<1>2. /\ manifests' \in [Third -> {"good", "nokey", "absent"}]
      /\ loadFailed' \in BOOLEAN
      /\ silent' \in SUBSET Third
      /\ ~loadFailed' =>
            /\ \A t \in listed : manifests'[t] = IF disk[t] = "garbage" THEN "absent" ELSE disk[t]
            /\ \A t \in Third \ listed : manifests'[t] = "absent"
  BY <1>1, LoadFollows DEF TypeOK
<1>3. TypeOK'
  BY <1>1, <1>2 DEF TypeOK, firstParty, statuses
<1>4. FlagsAreScans' /\ NoChangeUnreported' /\ InstalledIsFile'
  BY <1>1 DEF FlagsAreScans, NoChangeUnreported, InstalledIsFile, firstParty, statuses
<1>5. ManifestsInv'
  BY <1>1, <1>2 DEF ManifestsInv, ManifestsAreDisk, ListedIsPresent, LoadedIsListed
<1>6. QED
  BY <1>3, <1>4, <1>5

LEMMA IsThirdPartyGameKeepsIInv == IInv /\ IsThirdPartyGame => IInv'
<1> SUFFICES ASSUME IInv, IsThirdPartyGame
             PROVE  IInv'
  OBVIOUS
<1> USE DEF IInv
<1>1. /\ UNCHANGED <<file, changed, disk, registry, changes, pc, first_run, firstParty, third,
                     running, statuses, view>>
      /\ differs' = {}
      /\ listed' = Present
      /\ Load(Present)
  BY DEF IsThirdPartyGame, Remembered
<1>2. Present \in SUBSET Third /\ \A t \in Third : t \in Present <=> disk[t] # "absent"
  BY DEF Present
<1>3. /\ manifests' \in [Third -> {"good", "nokey", "absent"}]
      /\ loadFailed' \in BOOLEAN
      /\ silent' \in SUBSET Third
      /\ ~loadFailed' =>
            /\ \A t \in Present : manifests'[t] = IF disk[t] = "garbage" THEN "absent" ELSE disk[t]
            /\ \A t \in Third \ Present : manifests'[t] = "absent"
  BY <1>2, <1>1, LoadFollows
<1>4. TypeOK'
  BY <1>1, <1>2, <1>3 DEF TypeOK, firstParty, statuses
<1>5. FlagsAreScans' /\ NoChangeUnreported' /\ InstalledIsFile'
  BY <1>1 DEF FlagsAreScans, NoChangeUnreported, InstalledIsFile, firstParty, statuses
<1>6. ManifestsInv'
  BY <1>1, <1>2, <1>3 DEF ManifestsInv, ManifestsAreDisk, ListedIsPresent, LoadedIsListed
<1>7. QED
  BY <1>4, <1>5, <1>6

(* As in ParseKeepsIInv, for the third party games.                        *)
LEMMA LocateKeepsIInv == IInv /\ Locate => IInv'
<1> SUFFICES ASSUME IInv, Locate
             PROVE  IInv'
  OBVIOUS
<1> USE DEF IInv
<1>1. /\ UNCHANGED <<files, first_run, firstParty, thirdParty, running, view>>
      /\ pc = "locate" /\ pc' \in {"sleep", "running"}
      /\ \/ UNCHANGED <<third, statuses>>
         \/ /\ third' \in SUBSET registry
            /\ UpdateGameStatuses(third, third', "Installed")
  BY DEF Locate
<1>2. InstalledIsFile' /\ ManifestsInv'
  BY <1>1 DEF InstalledIsFile, ManifestsInv, ManifestsAreDisk, ListedIsPresent, LoadedIsListed,
              files, firstParty, thirdParty
<1>3. CASE UNCHANGED <<third, statuses>>
  <2>1. TypeOK'
    BY <1>1, <1>3 DEF TypeOK, files, firstParty, thirdParty, statuses
  <2>2. FlagsAreScans' /\ NoChangeUnreported'
    BY <1>1, <1>3 DEF FlagsAreScans, NoChangeUnreported, firstParty, statuses
  <2>3. QED
    BY <1>2, <2>1, <2>2
<1>4. CASE /\ third' \in SUBSET registry
           /\ UpdateGameStatuses(third, third', "Installed")
  <2>1. third \in SUBSET Third /\ third' \in SUBSET Third
    BY <1>4 DEF TypeOK
  <2>2. /\ third \in SUBSET Game /\ third' \in SUBSET Game
        /\ "Installed" \in Flag
        /\ \A g \in third : "Installed" \in games[g]
    BY <2>1 DEF Game, Flag, FlagsAreScans
  <2>3. /\ games' \in [Game -> SUBSET Flag]
        /\ updated' \in SUBSET Game
        /\ \A g \in Game :
              /\ "Installed" \in games'[g] <=>
                    g \in third' \/ (g \notin third /\ "Installed" \in games[g])
              /\ \A other \in Flag \ {"Installed"} : other \in games'[g] <=> other \in games[g]
        /\ UNCHANGED <<first_run, view>> => NoChangeUnreported'
    BY <1>4, <2>2, StatusesFollow
  <2>4. TypeOK'
    BY <1>1, <2>1, <2>3 DEF TypeOK, files, firstParty, thirdParty
  <2>5. FlagsAreScans'
    <3>1. SUFFICES ASSUME NEW g \in Game
                   PROVE  /\ "Installed" \in games'[g] <=> g \in installed \cup third'
                          /\ "Running" \in games'[g] <=> g \in running
      BY <1>1 DEF FlagsAreScans, firstParty
    <3>2. "Running" \in Flag \ {"Installed"}
      BY DEF Flag
    <3>3. g \in installed => g \notin third
      BY <2>1, DisjointAssumption DEF TypeOK
    <3>4. QED
      BY <2>3, <3>2, <3>3 DEF FlagsAreScans
  <2>6. QED
    BY <1>1, <1>2, <2>3, <2>4, <2>5
<1>5. QED
  BY <1>1, <1>3, <1>4

LEMMA ConsumeKeepsIInv == IInv /\ ConsumeUpdatedGames => IInv'
<1> SUFFICES ASSUME IInv, ConsumeUpdatedGames
             PROVE  IInv'
  OBVIOUS
<1> USE DEF IInv
<1>1. /\ UNCHANGED <<files, pc, first_run, firstParty, thirdParty, third, running, games>>
      /\ updated' = {}
      /\ view' = [g \in Game |-> IF g \in updated THEN games[g] ELSE view[g]]
  BY DEF ConsumeUpdatedGames
<1>2. TypeOK'
  BY <1>1 DEF TypeOK, files, firstParty, thirdParty
<1>3. FlagsAreScans' /\ InstalledIsFile' /\ ManifestsInv'
  BY <1>1 DEF FlagsAreScans, InstalledIsFile, ManifestsInv, ManifestsAreDisk, ListedIsPresent, LoadedIsListed,
              Present, files, firstParty, thirdParty
<1>4. NoChangeUnreported'
  BY <1>1 DEF NoChangeUnreported
<1>5. QED
  BY <1>2, <1>3, <1>4

LEMMA StutterKeepsIInv == IInv /\ UNCHANGED vars => IInv'
BY DEF vars, files, firstParty, thirdParty, statuses, IInv, TypeOK, FlagsAreScans,
       NoChangeUnreported, InstalledIsFile, ManifestsInv, ManifestsAreDisk, ListedIsPresent, LoadedIsListed

LEMMA InductiveInvariant == Spec => []IInv
<1>1. IInv /\ [Next]_vars => IInv'
  BY ChangeKeepsIInv, StatKeepsIInv, ParseKeepsIInv, EndSetupKeepsIInv, StatManifestsKeepsIInv,
     LoadManifestsKeepsIInv, LocateKeepsIInv, CheckRunningKeepsIInv, ConsumeKeepsIInv,
     IsThirdPartyGameKeepsIInv, StutterKeepsIInv DEF Next, Setup, Round
<1>2. QED
  BY <1>1, InitIInv, PTL DEF Spec

-----------------------------------------------------------------------------
(* Type correctness.                                                       *)
THEOREM TypeCorrect == Spec => []TypeOK
<1>1. IInv => TypeOK
  BY DEF IInv
<1>2. QED
  BY <1>1, InductiveInvariant, PTL

(* The flags, which are only added and toggled, never drift from the scans *)
(* they are derived from, whatever fails between two scans.                *)
THEOREM FlagsFollowScans == Spec => []FlagsAreScans
<1>1. IInv => FlagsAreScans
  BY DEF IInv
<1>2. QED
  BY <1>1, InductiveInvariant, PTL

(* A client that consumes the updated games misses no change.              *)
THEOREM ChangesAreReported == Spec => []NoChangeUnreported
<1>1. IInv => NoChangeUnreported
  BY DEF IInv
<1>2. QED
  BY <1>1, InductiveInvariant, PTL

(* A write of LauncherInstalled.dat is not missed, whenever it happens.    *)
THEOREM WritesAreSeen == Spec => []InstalledIsFile
<1>1. IInv => InstalledIsFile
  BY DEF IInv
<1>2. QED
  BY <1>1, InductiveInvariant, PTL

(* A change of a manifest that shows in its stat is not missed, whenever   *)
(* it happens; and one that does not show is made up for by the next load. *)
THEOREM ManifestsAreReparsed == Spec => []ManifestsAreDisk
<1>1. IInv => ManifestsAreDisk
  BY DEF IInv, ManifestsInv
<1>2. QED
  BY <1>1, InductiveInvariant, PTL

=============================================================================
