----------------------- MODULE ProcessWatcher_proofs -----------------------
(***************************************************************************)
(* Proofs about ProcessWatcher: the types of its variables, and that the   *)
(* running games are current.                                              *)
(*                                                                         *)
(* The invariant is about the dict of watched apps: it starts with the     *)
(* launcher, has every id once, and a process is only listed under an app  *)
(* whose directory occurs in its path.  Searches and the removal of dead   *)
(* processes keep this entry by entry.  The setter of watched_games builds *)
(* another dict; that it has every app that stays, at some place, and the  *)
(* launcher at the first, follows from what an arrangement of a finite set *)
(* is (lemmas Arrangement and WatchableApps).                              *)
(***************************************************************************)
EXTENDS ProcessWatcher, FiniteSetTheorems, TLAPS

App == [id : Game \cup {Launcher}, dir : Dir \cup {LauncherDir}, procs : SUBSET Proc]

(* What _watched_apps is at any time.                                      *)
WatchList(w) ==
    /\ w \in Seq(App)
    /\ w # <<>>
    /\ w[1].id = Launcher
    /\ w[1].dir = LauncherDir
    /\ \A i, j \in DOMAIN w : w[i].id = w[j].id => i = j
    /\ \A i \in DOMAIN w : \A p \in w[i].procs : w[i].dir \in In[p]

IInv == TypeOK /\ WatchList(watched)

-----------------------------------------------------------------------------
(* An arrangement of a finite set has each of its members at one place.    *)
LEMMA Arrangement ==
    ASSUME NEW S, IsFiniteSet(S), NEW w \in SetToSeqs(S)
    PROVE  /\ w \in Seq(S)
           /\ \A s \in S : \E i \in DOMAIN w : w[i] = s
           /\ \A i, j \in DOMAIN w : w[i] = w[j] => i = j
<1> DEFINE n == Cardinality(S)
<1>1. n \in Nat
  BY FS_CardinalityType
<1>2. /\ w \in [1..n -> S]
      /\ \A i, j \in 1..n : i # j => w[i] # w[j]
  BY DEF SetToSeqs
<1>3. w \in Seq(S) /\ DOMAIN w = 1..n
  BY <1>1, <1>2
<1>4. w \in Injection(1..n, S)
  BY <1>2 DEF Injection, IsInjective
<1>5. Cardinality(1..n) = n
  BY <1>1, FS_Interval
<1>6. w \in Surjection(1..n, S)
  BY <1>4, <1>5, FS_Injection
<1> QED
  BY <1>2, <1>3, <1>6 DEF Surjection

(* The members of a sequence are finitely many.                            *)
LEMMA RangeIsFinite ==
    ASSUME NEW S, NEW w \in Seq(S)
    PROVE  IsFiniteSet({w[i] : i \in DOMAIN w})
<1> DEFINE T == {w[i] : i \in DOMAIN w}
<1>1. DOMAIN w = 1..Len(w) /\ Len(w) \in Nat
  OBVIOUS
<1>2. IsFiniteSet(DOMAIN w)
  BY <1>1, FS_Interval
<1>3. w \in Surjection(DOMAIN w, T)
  BY DEF Surjection
<1> QED
  BY <1>2, <1>3, FS_Surjection

(* The setter of watched_games makes no more than finitely many apps.      *)
LEMMA AddedIsFinite == IsFiniteSet(Added)
<1> DEFINE G == Installed \ Ids(watched)
           f == [g \in G |-> [id |-> g, dir |-> where[g], procs |-> {}]]
<1>1. IsFiniteSet(G)
  <2>1. G \in SUBSET Game
    BY DEF Installed
  <2> QED
    BY <2>1, ConstantsAssumption, FS_Subset
<1>2. f \in Surjection(G, Added)
  BY DEF Surjection, Added
<1> QED
  BY <1>1, <1>2, FS_Surjection

(* What the setter of watched_games leaves is a dict of watched apps with  *)
(* the launcher still first.  Each app that stays is in it unchanged, with *)
(* its processes, and behind none that was not before it already: what     *)
(* belonged to it still does.                                              *)
LEMMA WatchableApps ==
    ASSUME IInv, NEW w \in Watchable
    PROVE  /\ WatchList(w)
           /\ \A a \in Kept : \E i \in DOMAIN w : w[i] = a
           /\ w[1] = watched[1]
           /\ \A k \in DOMAIN w, i \in DOMAIN watched, p \in Proc :
                 w[k] = watched[i] /\ Matches(watched, i, p) => Matches(w, k, p)
<1> DEFINE S == Kept \cup Added
<1>1. /\ watched \in Seq(App)
      /\ watched # <<>>
      /\ watched[1].id = Launcher
      /\ watched[1].dir = LauncherDir
      /\ \A i, j \in DOMAIN watched : watched[i].id = watched[j].id => i = j
      /\ \A i \in DOMAIN watched : \A p \in watched[i].procs : watched[i].dir \in In[p]
  BY DEF IInv, WatchList
<1>2. where \in [Game -> Dir \cup {Nowhere}]
  BY DEF IInv, TypeOK
<1>3. IsFiniteSet(S)
  <2>1. IsFiniteSet(Apps)
    BY <1>1, RangeIsFinite DEF Apps
  <2>2. Kept \in SUBSET Apps
    BY DEF Kept
  <2>3. IsFiniteSet(Kept)
    BY <2>1, <2>2, FS_Subset
  <2> QED
    BY <2>3, AddedIsFinite, FS_Union
<1>4. /\ w \in SetToSeqs(S)
      /\ \A i, j \in DOMAIN w : i < j /\ w[j].id \in Ids(watched) => Precedes(w[i], w[j])
  BY DEF Watchable
<1>5. /\ w \in Seq(S)
      /\ \A s \in S : \E i \in DOMAIN w : w[i] = s
      /\ \A i, j \in DOMAIN w : w[i] = w[j] => i = j
  BY <1>3, <1>4, Arrangement
<1>6. DOMAIN w = 1..Len(w) /\ Len(w) \in Nat /\ \A i \in DOMAIN w : w[i] \in S
  BY <1>5
<1>7. DOMAIN watched = 1..Len(watched) /\ Len(watched) \in Nat \ {0}
  BY <1>1
<1>8. \A a \in Kept : \E i \in DOMAIN watched : a = watched[i]
  BY DEF Kept, Apps
<1>9. \A a \in Added :
         /\ a.id \in Game /\ a.id \notin Ids(watched)
         /\ a = [id |-> a.id, dir |-> where[a.id], procs |-> {}]
         /\ where[a.id] \in Dir
  BY <1>2 DEF Added, Installed
<1>10. w \in Seq(App)
  <2>1. Kept \subseteq App
    BY <1>1, <1>8
  <2>2. Added \subseteq App
    BY <1>9 DEF App
  <2> QED
    BY <2>1, <2>2, <1>5, <1>6
<1>11. \A a, b \in S : a.id = b.id => a = b
  <2> SUFFICES ASSUME NEW a \in S, NEW b \in S, a.id = b.id
               PROVE  a = b
    OBVIOUS
  <2>1. CASE a \in Kept /\ b \in Kept
    BY <2>1, <1>1, <1>8
  <2>2. CASE a \in Added /\ b \in Added
    BY <2>2, <1>9
  <2>3. CASE a \in Kept /\ b \in Added
    BY <2>3, <1>8, <1>9 DEF Ids
  <2>4. CASE a \in Added /\ b \in Kept
    BY <2>4, <1>8, <1>9 DEF Ids
  <2> QED
    BY <2>1, <2>2, <2>3, <2>4
<1>12. \A i, j \in DOMAIN w : w[i].id = w[j].id => i = j
  BY <1>5, <1>6, <1>11
<1>13. watched[1] \in Kept
  BY <1>1, <1>7 DEF Kept, Apps
<1>14. PICK k \in DOMAIN w : w[k] = watched[1]
  BY <1>5, <1>13
<1>15. w # <<>>
  BY <1>6, <1>14
<1>16. ASSUME NEW i \in DOMAIN watched, NEW j \in DOMAIN w, NEW m \in DOMAIN w,
              j < m, w[m] = watched[i]
       PROVE  \E h \in DOMAIN watched : h < i /\ w[j] = watched[h]
  <2>1. w[m].id \in Ids(watched)
    BY <1>16 DEF Ids
  <2>2. PICK h, g \in DOMAIN watched : h < g /\ watched[h].id = w[j].id /\ watched[g].id = w[m].id
    BY <2>1, <1>4, <1>16 DEF Precedes
  <2>3. g = i
    BY <2>2, <1>1, <1>16
  <2>4. w[j] \notin Added
    BY <2>2, <1>9 DEF Ids
  <2>5. PICK f \in DOMAIN watched : w[j] = watched[f]
    BY <2>4, <1>6, <1>8
  <2>6. f = h
    BY <2>2, <2>5, <1>1
  <2> QED
    BY <2>2, <2>3, <2>5, <2>6
<1>18. w[1] = watched[1]
  <2>1. 1 \in DOMAIN w /\ 1 \in DOMAIN watched
    BY <1>6, <1>7, <1>14
  <2>2. CASE k # 1
    <3>1. 1 < k
      BY <2>2, <1>6, <1>14
    <3>2. \E h \in DOMAIN watched : h < 1
      BY <3>1, <2>1, <1>14, <1>16
    <3> QED
      BY <3>2, <1>7
  <2> QED
    BY <2>2, <1>14
<1>19. ASSUME NEW m \in DOMAIN w, NEW i \in DOMAIN watched, NEW p \in Proc,
              w[m] = watched[i], Matches(watched, i, p)
       PROVE  Matches(w, m, p)
  <2>1. w[m].dir \in In[p]
    BY <1>19 DEF Matches
  <2>2. ASSUME NEW j \in 1..(m - 1) PROVE w[j].dir \notin In[p]
    <3>1. j \in DOMAIN w /\ j < m
      BY <1>6
    <3>2. PICK h \in DOMAIN watched : h < i /\ w[j] = watched[h]
      BY <3>1, <1>16, <1>19
    <3>3. h \in 1..(i - 1)
      BY <3>2, <1>7
    <3> QED
      BY <3>2, <3>3, <1>19 DEF Matches
  <2> QED
    BY <2>1, <2>2 DEF Matches
<1>17. \A i \in DOMAIN w : \A p \in w[i].procs : w[i].dir \in In[p]
  <2> SUFFICES ASSUME NEW i \in DOMAIN w, NEW p \in w[i].procs
               PROVE  w[i].dir \in In[p]
    OBVIOUS
  <2>1. CASE w[i] \in Kept
    BY <2>1, <1>1, <1>8
  <2>2. CASE w[i] \in Added
    <3>1. w[i].procs = {}
      BY <2>2, <1>9
    <3> QED
      BY <3>1
  <2> QED
    BY <2>1, <2>2, <1>6
<1>20. WatchList(w)
  BY <1>1, <1>10, <1>12, <1>15, <1>17, <1>18 DEF WatchList
<1> QED
  BY <1>5, <1>18, <1>19, <1>20

-----------------------------------------------------------------------------
(* Another set of processes is all that changes in an app.                 *)
LEMMA AppWithProcs ==
    ASSUME NEW a \in App, NEW P \in SUBSET Proc
    PROVE  /\ [a EXCEPT !.procs = P] \in App
           /\ [a EXCEPT !.procs = P].id = a.id
           /\ [a EXCEPT !.procs = P].dir = a.dir
           /\ [a EXCEPT !.procs = P].procs = P
BY DEF App

(* A search adds processes to the apps they belong to; it loses none.      *)
LEMMA SearchKeepsList ==
    ASSUME NEW w, WatchList(w), NEW S \in SUBSET Proc
    PROVE  /\ WatchList(SearchIn(w, S))
           /\ DOMAIN SearchIn(w, S) = DOMAIN w
           /\ \A i \in DOMAIN w :
                 /\ SearchIn(w, S)[i].id = w[i].id
                 /\ w[i].procs \subseteq SearchIn(w, S)[i].procs
                 /\ \A p \in S : Matches(w, i, p) => p \in SearchIn(w, S)[i].procs
<1> DEFINE v == SearchIn(w, S)
<1>1. /\ w \in Seq(App)
      /\ w # <<>>
      /\ w[1].id = Launcher
      /\ w[1].dir = LauncherDir
      /\ \A i, j \in DOMAIN w : w[i].id = w[j].id => i = j
      /\ \A i \in DOMAIN w : \A p \in w[i].procs : w[i].dir \in In[p]
  BY DEF WatchList
<1>2. DOMAIN w = 1..Len(w) /\ Len(w) \in Nat \ {0} /\ \A i \in DOMAIN w : w[i] \in App
  BY <1>1
<1>3. DOMAIN v = DOMAIN w
  BY DEF SearchIn
<1>4. \A i \in DOMAIN w :
         v[i] = [w[i] EXCEPT !.procs = @ \cup {p \in S : Matches(w, i, p)}]
  BY DEF SearchIn
<1>5. \A i \in DOMAIN w :
         /\ v[i] \in App
         /\ v[i].id = w[i].id
         /\ v[i].dir = w[i].dir
         /\ v[i].procs = w[i].procs \cup {p \in S : Matches(w, i, p)}
  <2> SUFFICES ASSUME NEW i \in DOMAIN w
               PROVE  /\ v[i] \in App
                      /\ v[i].id = w[i].id
                      /\ v[i].dir = w[i].dir
                      /\ v[i].procs = w[i].procs \cup {p \in S : Matches(w, i, p)}
    OBVIOUS
  <2> DEFINE P == w[i].procs \cup {p \in S : Matches(w, i, p)}
  <2>1. w[i] \in App
    BY <1>2
  <2>2. P \in SUBSET Proc
    BY <2>1 DEF App
  <2>3. v[i] = [w[i] EXCEPT !.procs = P]
    BY <1>4
  <2> HIDE DEF P, v
  <2>4. v[i] \in App /\ v[i].id = w[i].id /\ v[i].dir = w[i].dir /\ v[i].procs = P
    BY <2>1, <2>2, <2>3, AppWithProcs
  <2> QED
    BY <2>4 DEF P
<1>6. v \in Seq(App)
  <2>1. v \in [1..Len(w) -> App]
    BY <1>2, <1>3, <1>5 DEF SearchIn
  <2> QED
    BY <2>1, <1>2
<1>7. v # <<>> /\ 1 \in DOMAIN w
  BY <1>2, <1>3
<1>8. \A i \in DOMAIN v : \A p \in v[i].procs : v[i].dir \in In[p]
  BY <1>1, <1>3, <1>5 DEF Matches
<1>9. WatchList(v)
  BY <1>1, <1>3, <1>5, <1>6, <1>7, <1>8 DEF WatchList
<1> QED
  BY <1>3, <1>5, <1>9

(* The removal of the dead leaves exactly the processes that run.          *)
LEMMA RemovalKeepsList ==
    ASSUME NEW w, WatchList(w)
    PROVE  /\ WatchList(RemoveDead(w))
           /\ DOMAIN RemoveDead(w) = DOMAIN w
           /\ \A i \in DOMAIN w : /\ RemoveDead(w)[i].id = w[i].id
                                  /\ RemoveDead(w)[i].procs = w[i].procs \cap alive
<1> DEFINE v == RemoveDead(w)
<1>1. /\ w \in Seq(App)
      /\ w # <<>>
      /\ w[1].id = Launcher
      /\ w[1].dir = LauncherDir
      /\ \A i, j \in DOMAIN w : w[i].id = w[j].id => i = j
      /\ \A i \in DOMAIN w : \A p \in w[i].procs : w[i].dir \in In[p]
  BY DEF WatchList
<1>2. DOMAIN w = 1..Len(w) /\ Len(w) \in Nat \ {0} /\ \A i \in DOMAIN w : w[i] \in App
  BY <1>1
<1>3. DOMAIN v = DOMAIN w
  BY DEF RemoveDead
<1>4. \A i \in DOMAIN w : v[i] = [w[i] EXCEPT !.procs = @ \cap alive]
  BY DEF RemoveDead
<1>5. \A i \in DOMAIN w :
         /\ v[i] \in App
         /\ v[i].id = w[i].id
         /\ v[i].dir = w[i].dir
         /\ v[i].procs = w[i].procs \cap alive
  <2> SUFFICES ASSUME NEW i \in DOMAIN w
               PROVE  /\ v[i] \in App
                      /\ v[i].id = w[i].id
                      /\ v[i].dir = w[i].dir
                      /\ v[i].procs = w[i].procs \cap alive
    OBVIOUS
  <2> DEFINE P == w[i].procs \cap alive
  <2>1. w[i] \in App
    BY <1>2
  <2>2. P \in SUBSET Proc
    BY <2>1 DEF App
  <2>3. v[i] = [w[i] EXCEPT !.procs = P]
    BY <1>4
  <2> HIDE DEF P, v
  <2>4. v[i] \in App /\ v[i].id = w[i].id /\ v[i].dir = w[i].dir /\ v[i].procs = P
    BY <2>1, <2>2, <2>3, AppWithProcs
  <2> QED
    BY <2>4 DEF P
<1>6. v \in Seq(App)
  <2>1. v \in [1..Len(w) -> App]
    BY <1>2, <1>3, <1>5 DEF RemoveDead
  <2> QED
    BY <2>1, <1>2
<1>7. v # <<>> /\ 1 \in DOMAIN w
  BY <1>2, <1>3
<1>8. WatchList(v)
  BY <1>1, <1>3, <1>5, <1>6, <1>7 DEF WatchList
<1> QED
  BY <1>3, <1>5, <1>8

(* A round of the checker, whether or not it searches: the dict that it    *)
(* leaves is in order, lists only processes that run, and keeps each       *)
(* process that runs with the apps that stay watched.                      *)
LEMMA RoundKeepsList ==
    ASSUME IInv, NEW b \in BOOLEAN, CheckForRunning(b)
    PROVE  /\ WatchList(watched')
           /\ \A i \in DOMAIN watched' : watched'[i].procs \subseteq alive
           /\ \A i \in DOMAIN watched, p \in alive :
                 watched[i].id \in Installed \cup {Launcher} /\ p \in watched[i].procs
                 => \E k \in DOMAIN watched' :
                       watched'[k].id = watched[i].id /\ p \in watched'[k].procs
<1>1. PICK w \in Watchable :
         watched' = RemoveDead(IF b /\ TrackedAndRunning(w) THEN SearchInChildren(w) ELSE w)
  BY DEF CheckForRunning
<1>2. /\ WatchList(w)
      /\ \A a \in Kept : \E i \in DOMAIN w : w[i] = a
  BY WatchableApps
<1> DEFINE v == IF b /\ TrackedAndRunning(w) THEN SearchInChildren(w) ELSE w
<1>3. /\ WatchList(v)
      /\ DOMAIN v = DOMAIN w
      /\ \A i \in DOMAIN w : v[i].id = w[i].id /\ w[i].procs \subseteq v[i].procs
  <2> DEFINE S == {p \in alive : parent[p] # p /\ parent[p] \in LauncherProcesses(w) \cap alive}
  <2>1. S \in SUBSET Proc
    BY DEF IInv, TypeOK
  <2>2. SearchInChildren(w) = SearchIn(w, S)
    BY DEF SearchInChildren
  <2>3. /\ WatchList(SearchIn(w, S))
        /\ DOMAIN SearchIn(w, S) = DOMAIN w
        /\ \A i \in DOMAIN w : /\ SearchIn(w, S)[i].id = w[i].id
                               /\ w[i].procs \subseteq SearchIn(w, S)[i].procs
    <3> HIDE DEF S
    <3> QED
      BY <2>1, <1>2, SearchKeepsList
  <2> HIDE DEF S
  <2>4. v = SearchIn(w, S) \/ v = w
    BY <2>2
  <2> QED
    BY <2>3, <2>4, <1>2
<1>4. watched' = RemoveDead(v)
  BY <1>1
<1> HIDE DEF v
<1>5. /\ WatchList(watched')
      /\ DOMAIN watched' = DOMAIN v
      /\ \A i \in DOMAIN v : watched'[i].id = v[i].id /\ watched'[i].procs = v[i].procs \cap alive
  BY <1>3, <1>4, RemovalKeepsList
<1>6. ASSUME NEW i \in DOMAIN watched, NEW p \in alive,
             watched[i].id \in Installed \cup {Launcher}, p \in watched[i].procs
      PROVE  \E k \in DOMAIN watched' : watched'[k].id = watched[i].id /\ p \in watched'[k].procs
  <2>1. watched[i] \in Kept
    BY <1>6 DEF Kept, Apps
  <2>2. PICK k \in DOMAIN w : w[k] = watched[i]
    BY <2>1, <1>2
  <2> QED
    BY <2>2, <1>3, <1>5, <1>6
<1> QED
  BY <1>5, <1>6

-----------------------------------------------------------------------------
(* The invariant holds at the start, with the launcher alone in the dict.  *)
LEMMA InitEstablishes == Init => IInv
<1> SUFFICES ASSUME Init PROVE IInv
  OBVIOUS
<1> USE ConstantsAssumption
<1>1. LauncherApp \in App /\ LauncherApp.id = Launcher /\ LauncherApp.dir = LauncherDir
      /\ LauncherApp.procs = {}
  BY DEF LauncherApp, App
<1>2. watched = <<LauncherApp>>
  BY DEF Init
<1>3. WatchList(watched)
  BY <1>1, <1>2 DEF WatchList
<1>4. TypeOK
  BY <1>1, <1>2, <1>3 DEF TypeOK, Init, WatchList, App
<1> QED
  BY <1>3, <1>4 DEF IInv

(* A list of watched apps has the type of the variable.                    *)
LEMMA ListIsTyped ==
    ASSUME NEW w, WatchList(w)
    PROVE  /\ w \in Seq([id : Game \cup {Launcher}, dir : Dir \cup {LauncherDir}, procs : SUBSET Proc])
           /\ Head(w).id = Launcher
           /\ \A i, j \in DOMAIN w : w[i].id = w[j].id => i = j
BY DEF WatchList, App

(* Every step keeps the invariant.                                         *)
LEMMA StepPreserves == IInv /\ [Next]_vars => IInv'
<1> SUFFICES ASSUME IInv, [Next]_vars PROVE IInv'
  OBVIOUS
<1> USE ConstantsAssumption
<1>1. /\ alive \in SUBSET started
      /\ started \in SUBSET Proc
      /\ parent \in [Proc -> Proc]
      /\ where \in [Game -> Dir \cup {Nowhere}]
      /\ moves \in 0..MaxMoves
      /\ pc \in {"scan", "check"}
      /\ toScan \in SUBSET Proc
      /\ round \in 0..(Period - 1)
      /\ running \in SUBSET Game
      /\ pool \in {"idle", "waiting", "found", "missed", "raised"}
      /\ TypeOK
      /\ WatchList(watched)
  BY DEF IInv, TypeOK
<1>2. ASSUME UNCHANGED watched PROVE WatchList(watched)'
  BY <1>1, <1>2 DEF WatchList
<1>3. \A S \in SUBSET Proc : WatchList(SearchIn(watched, S))
  BY <1>1, SearchKeepsList
<1>4. WatchList(SearchInAll(watched)) /\ WatchList(SearchInChildren(watched))
  BY <1>1, <1>3 DEF SearchInAll, SearchInChildren
<1>5. ASSUME WatchList(watched)', UNCHANGED <<env, checker>>,
             pool' \in {"idle", "waiting", "found", "missed", "raised"}
      PROVE  IInv'
  <2>1. TypeOK'
    BY <1>1, <1>5, ListIsTyped DEF TypeOK, env, checker
  <2> QED
    BY <2>1, <1>5 DEF IInv
<1>6. ASSUME NEW p \in Proc, Start(p) PROVE IInv'
  <2>1. WatchList(watched)'
    BY <1>2, <1>6 DEF Start
  <2>2. parent' \in [Proc -> Proc]
    BY <1>1, <1>6 DEF Start
  <2>3. TypeOK'
    BY <1>1, <1>6, <2>2 DEF Start, TypeOK, checker, search
  <2> QED
    BY <2>1, <2>3 DEF IInv
<1>7. ASSUME NEW p \in Proc, Exit(p) PROVE IInv'
  <2>1. WatchList(watched)'
    BY <1>2, <1>7 DEF Exit
  <2>2. TypeOK'
    BY <1>1, <1>7 DEF Exit, TypeOK, checker, search
  <2> QED
    BY <2>1, <2>2 DEF IInv
<1>8. ASSUME NEW p \in Proc, Scan(p) PROVE IInv'
  <2>1. WatchList(watched)'
    BY <1>3, <1>8 DEF Scan
  <2>2. TypeOK'
    BY <1>1, <1>8, <2>1, ListIsTyped DEF Scan, TypeOK, env, search
  <2> QED
    BY <2>1, <2>2 DEF IInv
<1>9. ASSUME NEW g \in Game, Move(g) PROVE IInv'
  <2>1. WatchList(watched)'
    BY <1>2, <1>9 DEF Move
  <2>2. where' \in [Game -> Dir \cup {Nowhere}] /\ moves' \in 0..MaxMoves
    BY <1>1, <1>9 DEF Move
  <2>3. TypeOK'
    BY <1>1, <1>9, <2>2 DEF Move, TypeOK, checker, search
  <2> QED
    BY <2>1, <2>3 DEF IInv
<1>10. ASSUME NEW b \in BOOLEAN, CheckForRunning(b)
       PROVE  WatchList(watched)' /\ running' \in SUBSET Game
  <2>1. WatchList(watched')
    BY <1>10, RoundKeepsList
  <2>2. running' \in SUBSET Game
    BY <1>10 DEF CheckForRunning, RunningGames
  <2> QED
    BY <2>1, <2>2 DEF WatchList
<1>11. CASE EndSetup
  <2>1. CheckForRunning(FALSE)
    BY <1>11 DEF EndSetup
  <2>2. WatchList(watched)' /\ running' \in SUBSET Game
    BY <2>1, <1>10
  <2>3. TypeOK'
    BY <1>1, <1>11, <2>2, ListIsTyped DEF EndSetup, CheckForRunning, TypeOK, env, search
  <2> QED
    BY <2>2, <2>3 DEF IInv
<1>12. CASE Check
  <2>1. CheckForRunning(round = 0)
    BY <1>12 DEF Check
  <2>2. WatchList(watched)' /\ running' \in SUBSET Game
    BY <2>1, <1>10
  <2>3. round' \in 0..(Period - 1)
    BY <1>1, <1>12 DEF Check
  <2>4. TypeOK'
    BY <1>1, <1>12, <2>2, <2>3, ListIsTyped DEF Check, CheckForRunning, TypeOK, env, search
  <2> QED
    BY <2>2, <2>4 DEF IInv
<1>13. CASE SearchProcess
  <2>1. WatchList(watched)'
    BY <1>4, <1>13 DEF SearchProcess, Try
  <2>2. pool' \in {"waiting", "found", "raised"}
    BY <1>13 DEF SearchProcess, Try
  <2> QED
    BY <2>1, <2>2, <1>5, <1>13 DEF SearchProcess
<1>14. CASE GiveUp
  <2>1. WatchList(watched)'
    BY <1>4, <1>14 DEF GiveUp
  <2>2. pool' \in {"found", "missed"}
    BY <1>14 DEF GiveUp
  <2> QED
    BY <2>1, <2>2, <1>5, <1>14 DEF GiveUp
<1>15. CASE IsLauncherRunning
  <2>1. WatchList(watched)'
    BY <1>4, <1>15 DEF IsLauncherRunning
  <2> QED
    BY <2>1, <1>1, <1>5, <1>15 DEF IsLauncherRunning, search
<1>16. CASE FailRound
  <2>1. WatchList(watched)'
    BY <1>2, <1>16 DEF FailRound
  <2>2. round' \in 0..(Period - 1)
    BY <1>1, <1>16 DEF FailRound
  <2>3. TypeOK'
    BY <1>1, <1>16, <2>2 DEF FailRound, TypeOK, env, search
  <2> QED
    BY <2>1, <2>3 DEF IInv
<1>17. CASE UNCHANGED vars
  <2>1. UNCHANGED watched /\ UNCHANGED <<env, checker>> /\ UNCHANGED pool
    BY <1>17 DEF vars, search
  <2> QED
    BY <2>1, <1>1, <1>2, <1>5
<1> QED
  BY <1>6, <1>7, <1>8, <1>9, <1>11, <1>12, <1>13, <1>14, <1>15, <1>16, <1>17 DEF Next

(* The watched apps are always a list with the launcher first, each id     *)
(* once, and every process under an app whose directory is in its path.    *)
THEOREM Invariance == Spec => []IInv
BY InitEstablishes, StepPreserves, PTL DEF Spec

(* The variables have their types, and the launcher is always watched, as  *)
(* the first: _launcher_processes never raises KeyError.                   *)
THEOREM TypeCorrect == Spec => []TypeOK
<1>1. IInv => TypeOK
  BY DEF IInv
<1> QED
  BY <1>1, Invariance, PTL

-----------------------------------------------------------------------------
(* A game that a round reports has a process that runs in the directory    *)
(* the game is watched in; and one that was reported and stays installed   *)
(* is reported again while a process of it runs, also in the rounds that   *)
(* search for none.                                                        *)
THEOREM RunningGamesAreCurrent == Spec => RunningIsCurrent
<1> DEFINE Current ==
             EndSetup \/ Check =>
                /\ \A g \in running' :
                      \E p \in alive, i \in DOMAIN watched' :
                          watched'[i].id = g /\ watched'[i].dir \in In[p]
                /\ \A g \in running \cap Installed :
                      Procs(watched, g) \cap alive # {} => g \in running'
<1>1. ASSUME IInv, EndSetup \/ Check PROVE Current
  <2>1. PICK b \in BOOLEAN : CheckForRunning(b)
    BY <1>1 DEF EndSetup, Check
  <2>2. /\ WatchList(watched')
        /\ \A i \in DOMAIN watched' : watched'[i].procs \subseteq alive
        /\ \A i \in DOMAIN watched, p \in alive :
              watched[i].id \in Installed \cup {Launcher} /\ p \in watched[i].procs
              => \E k \in DOMAIN watched' :
                    watched'[k].id = watched[i].id /\ p \in watched'[k].procs
    BY <1>1, <2>1, RoundKeepsList
  <2>3. running' = RunningGames(watched')
    BY <2>1 DEF CheckForRunning
  <2>4. \A g : g \in running' <=>
            g \in Game /\ \E i \in DOMAIN watched' : watched'[i].id = g /\ watched'[i].procs # {}
    BY <2>3 DEF RunningGames, Ids, Procs
  <2>5. ASSUME NEW g \in running'
        PROVE  \E p \in alive, i \in DOMAIN watched' :
                   watched'[i].id = g /\ watched'[i].dir \in In[p]
    BY <2>2, <2>4 DEF WatchList
  <2>6. ASSUME NEW g \in running \cap Installed, Procs(watched, g) \cap alive # {}
        PROVE  g \in running'
    <3>1. PICK p \in alive, i \in DOMAIN watched : watched[i].id = g /\ p \in watched[i].procs
      BY <2>6 DEF Procs
    <3>2. PICK k \in DOMAIN watched' : watched'[k].id = g /\ p \in watched'[k].procs
      BY <3>1, <2>2, <2>6
    <3>3. g \in Game
      BY <2>6 DEF Installed
    <3> QED
      BY <3>2, <3>3, <2>4
  <2> QED
    BY <2>5, <2>6
<1>2. IInv /\ [Next]_vars => [Current]_vars
  BY <1>1
<1> QED
  BY <1>2, Invariance, PTL DEF Spec, RunningIsCurrent

-----------------------------------------------------------------------------
(* What a round finds that searches.                                       *)
LEMMA SearchingRound ==
    ASSUME IInv, CheckForRunning(TRUE),
           NEW l \in LauncherProcesses(watched) \cap alive, NEW p \in alive, NEW k \in DOMAIN watched,
           parent[p] = l, p # l, watched[k].id \in Installed, Matches(watched, k, p)
    PROVE  watched[k].id \in running'
<1>1. PICK w \in Watchable :
         watched' = RemoveDead(IF TrackedAndRunning(w) THEN SearchInChildren(w) ELSE w)
  BY DEF CheckForRunning
<1>2. /\ WatchList(w)
      /\ \A a \in Kept : \E i \in DOMAIN w : w[i] = a
      /\ w[1] = watched[1]
      /\ \A m \in DOMAIN w, i \in DOMAIN watched, q \in Proc :
            w[m] = watched[i] /\ Matches(watched, i, q) => Matches(w, m, q)
  BY WatchableApps
<1>3. p \in Proc
  BY DEF IInv, TypeOK
<1>4. l \in LauncherProcesses(w) \cap alive
  BY <1>2 DEF LauncherProcesses
<1>5. PICK m \in DOMAIN w : w[m] = watched[k]
  BY <1>2 DEF Kept, Apps
<1>6. Matches(w, m, p)
  BY <1>2, <1>3, <1>5
<1> DEFINE S == {q \in alive : parent[q] # q /\ parent[q] \in LauncherProcesses(w) \cap alive}
<1>7. S \in SUBSET Proc /\ p \in S
  BY <1>4 DEF IInv, TypeOK
<1>8. watched' = RemoveDead(SearchIn(w, S))
  BY <1>1, <1>4 DEF TrackedAndRunning, SearchInChildren
<1> HIDE DEF S
<1>9. /\ WatchList(SearchIn(w, S))
      /\ DOMAIN SearchIn(w, S) = DOMAIN w
      /\ SearchIn(w, S)[m].id = w[m].id
      /\ p \in SearchIn(w, S)[m].procs
  BY <1>2, <1>5, <1>6, <1>7, SearchKeepsList
<1>10. /\ m \in DOMAIN watched'
       /\ watched'[m].id = w[m].id
       /\ p \in watched'[m].procs
  BY <1>5, <1>8, <1>9, RemovalKeepsList
<1>11. running' = RunningGames(watched')
  BY DEF CheckForRunning
<1> QED
  BY <1>5, <1>10, <1>11 DEF RunningGames, Ids, Procs, Installed

(* A round that searches reports every installed game of which a child of  *)
(* a known launcher runs: the setter of watched_games never makes a        *)
(* process belong to another app, and the removal takes none that runs.    *)
THEOREM ChildrenAreReported == Spec => SearchReports
<1> DEFINE Reports ==
             Check /\ round = 0 =>
                \A l \in LauncherProcesses(watched) \cap alive, p \in alive, k \in DOMAIN watched :
                    /\ parent[p] = l
                    /\ p # l
                    /\ watched[k].id \in Installed
                    /\ Matches(watched, k, p)
                    => watched[k].id \in running'
<1>1. IInv => Reports
  <2> SUFFICES ASSUME IInv, Check, round = 0,
                      NEW l \in LauncherProcesses(watched) \cap alive,
                      NEW p \in alive, NEW k \in DOMAIN watched,
                      parent[p] = l, p # l, watched[k].id \in Installed, Matches(watched, k, p)
               PROVE  watched[k].id \in running'
    OBVIOUS
  <2>1. (round = 0) = TRUE
    OBVIOUS
  <2>2. CheckForRunning(TRUE)
    BY <2>1 DEF Check
  <2> QED
    BY <2>2, SearchingRound
<1> QED
  BY <1>1, Invariance, PTL DEF Spec, SearchReports

(* A launcher process that was found stays known as long as it runs: no    *)
(* step but the removal of the dead takes a process from the launcher.     *)
THEOREM LaunchersStayKnown == Spec => LauncherStaysKnown
<1> DEFINE Known ==
             \A l \in alive' :
                \/ l \in LauncherProcesses(watched)
                \/ IsLauncher(l) /\ l \in toScan \ toScan'
                => l \in LauncherProcesses(watched')
<1>1. IInv /\ [Next]_vars => Known
  <2> SUFFICES ASSUME IInv, [Next]_vars, NEW l \in alive',
                      \/ l \in LauncherProcesses(watched)
                      \/ IsLauncher(l) /\ l \in toScan \ toScan'
               PROVE  l \in LauncherProcesses(watched')
    OBVIOUS
  <2>1. /\ WatchList(watched)
        /\ watched[1].id = Launcher /\ watched[1].dir = LauncherDir
        /\ 1 \in DOMAIN watched
        /\ alive \in SUBSET Proc
        /\ toScan \in SUBSET Proc
    BY DEF IInv, WatchList, TypeOK
  <2>2. \A S \in SUBSET Proc :
           /\ watched' = SearchIn(watched, S)
           /\ l \in LauncherProcesses(watched) \/ (l \in S /\ IsLauncher(l))
           => l \in LauncherProcesses(watched')
    <3> SUFFICES ASSUME NEW S \in SUBSET Proc, watched' = SearchIn(watched, S),
                        l \in LauncherProcesses(watched) \/ (l \in S /\ IsLauncher(l))
                 PROVE  l \in LauncherProcesses(watched')
      OBVIOUS
    <3>1. l \in S /\ IsLauncher(l) => Matches(watched, 1, l)
      BY <2>1 DEF Matches, IsLauncher
    <3> QED
      BY <2>1, <3>1, SearchKeepsList DEF LauncherProcesses
  <2>3. ASSUME l \in LauncherProcesses(watched), l \in alive, NEW b \in BOOLEAN, CheckForRunning(b)
        PROVE  l \in LauncherProcesses(watched')
    <3>1. /\ WatchList(watched')
          /\ \A i \in DOMAIN watched, p \in alive :
                watched[i].id \in Installed \cup {Launcher} /\ p \in watched[i].procs
                => \E k \in DOMAIN watched' :
                      watched'[k].id = watched[i].id /\ p \in watched'[k].procs
      BY <2>3, RoundKeepsList
    <3>2. PICK k \in DOMAIN watched' : watched'[k].id = Launcher /\ l \in watched'[k].procs
      BY <3>1, <2>1, <2>3 DEF LauncherProcesses
    <3>3. 1 \in DOMAIN watched' /\ watched'[1].id = Launcher
      BY <3>1 DEF WatchList
    <3>4. k = 1
      BY <3>1, <3>2, <3>3 DEF WatchList
    <3> QED
      BY <3>2, <3>4 DEF LauncherProcesses
  <2>4. ASSUME UNCHANGED <<watched, toScan>> PROVE l \in LauncherProcesses(watched')
    BY <2>4
  <2>5. CASE \E p \in Proc : Start(p) \/ Exit(p)
    BY <2>4, <2>5 DEF Start, Exit, checker
  <2>6. CASE \E g \in Game : Move(g)
    BY <2>4, <2>6 DEF Move, checker
  <2>7. ASSUME NEW p \in Proc, Scan(p) PROVE l \in LauncherProcesses(watched')
    <3>1. l \in toScan \ toScan' => l \in {p} \cap alive
      BY <2>7 DEF Scan, env
    <3>2. watched' = SearchIn(watched, {p} \cap alive) /\ {p} \cap alive \in SUBSET Proc
      BY <2>7 DEF Scan
    <3>3. l \in LauncherProcesses(watched) \/ (l \in {p} \cap alive /\ IsLauncher(l))
      BY <3>1
    <3> QED
      BY <3>2, <3>3, <2>2
  <2>8. CASE EndSetup
    <3>1. CheckForRunning(FALSE) /\ toScan' = toScan /\ alive' = alive
      BY <2>8 DEF EndSetup, CheckForRunning, env
    <3> QED
      BY <3>1, <2>3
  <2>9. CASE Check
    <3>1. CheckForRunning(round = 0) /\ toScan' = toScan /\ alive' = alive
      BY <2>9 DEF Check, CheckForRunning, env
    <3> QED
      BY <3>1, <2>3
  <2>10. ASSUME SearchProcess \/ GiveUp \/ IsLauncherRunning
         PROVE  l \in LauncherProcesses(watched')
    <3>1. toScan' = toScan
      BY <2>10 DEF SearchProcess, GiveUp, IsLauncherRunning, checker
    <3>2. watched' = SearchInAll(watched) \/ watched' = SearchInChildren(watched)
      BY <2>10 DEF SearchProcess, GiveUp, IsLauncherRunning, Try
    <3>3. \E S \in SUBSET Proc : watched' = SearchIn(watched, S)
      BY <3>2, <2>1 DEF SearchInAll, SearchInChildren
    <3>4. l \in LauncherProcesses(watched)
      BY <3>1
    <3> QED
      BY <3>3, <3>4, <2>2
  <2>11. CASE FailRound
    BY <2>4, <2>11 DEF FailRound
  <2>12. CASE UNCHANGED vars
    BY <2>4, <2>12 DEF vars, checker
  <2> QED
    BY <2>5, <2>6, <2>7, <2>8, <2>9, <2>10, <2>11, <2>12 DEF Next
<1> QED
  BY <1>1, Invariance, PTL DEF Spec, LauncherStaysKnown

=============================================================================
