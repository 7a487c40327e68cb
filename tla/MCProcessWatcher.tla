-------------------------- MODULE MCProcessWatcher --------------------------
(* ProcessWatcher for TLC: a launcher, and a game in each of two           *)
(* directories, one of whose paths begins like the other.                  *)
EXTENDS ProcessWatcher

CONSTANTS epic, foo, foo2,              \* directories
          launcher, pFoo, pFoo2         \* processes

MCDir == {foo, foo2}

MCProc == {launcher, pFoo, pFoo2}

MCIn == [p \in MCProc |->
            IF p = launcher THEN {epic} ELSE IF p = pFoo THEN {foo} ELSE {foo, foo2}]

=============================================================================
