------------------------------ MODULE Restore ------------------------------
(***************************************************************************)
(* Backups: tools/migrate/platform_backup.py.                               *)
(*                                                                         *)
(* An archive holds a dump of Control's and one of the Runtime's database,  *)
(* and what the bucket held.  It is restored into an empty target, which    *)
(* keeps a row that says whose it is and how far it got: pg_restore loads a *)
(* database in one transaction of its own, and another one notes it.        *)
(***************************************************************************)
EXTENDS Naturals, Sequences, Functions

CONSTANTS
  Operators,         \* runs of the tool at one time
  Archives,
  Keys,              \* keys of objects
  ObjectsOf,         \* the objects of an archive: a function of some of the keys
  Nothing,           \* no database, object or archive
  MaxRuns            \* bound: runs of the tool

RestoreAssumption ==
  /\ Nothing \notin Archives
  /\ \A a \in Archives :
       DOMAIN ObjectsOf[a] \subseteq Keys /\ Nothing \notin Range(ObjectsOf[a])

VARIABLES
  written,           \* the archives that have been written
  target,            \* of each database: the archive it was loaded from, and the
                     \* row of platform_restore_progress, archive and phase
  bucket,            \* the object under each key; nothing checks that it is empty
  restore,           \* what each run of the tool does
  restores

vars == <<written, target, bucket, restore, restores>>

Databases == <<"control", "runtime">>
Phases == <<"pending", "database", "complete">>
Resting == [at |-> "rest", archive |-> Nothing, seen |-> <<>>]
Blank == [tables |-> Nothing, owner |-> Nothing, phase |-> "pending"]

TypeOK ==
  /\ written \subseteq Archives
  /\ \A d \in 1 .. 2 : /\ target[d].tables \in Archives \cup {Nothing}
                       /\ target[d].owner \in Archives \cup {Nothing}
                       /\ \E i \in 1 .. 3 : target[d].phase = Phases[i]
  /\ DOMAIN bucket = Keys
  /\ \A o \in Operators :
       /\ restore[o].archive \in Archives \cup {Nothing}
       /\ restore[o].at \in {"rest", "check", "load", "note", "objects", "finish", "failed", "done"}
  /\ restores \in 0 .. MaxRuns

Init ==
  /\ written = {}
  /\ target = [d \in 1 .. 2 |-> Blank]
  /\ bucket \in [Keys -> {Nothing} \cup UNION {Range(ObjectsOf[a]) : a \in Archives}]
  /\ restore = [o \in Operators |-> Resting]
  /\ restores = 0

Goes(o, at) == restore' = [restore EXCEPT ![o].at = at]
Fails(o) == Goes(o, "failed") /\ UNCHANGED <<written, target, bucket, restores>>
Mine(o, d) == target[d].owner = restore[o].archive

-----------------------------------------------------------------------------
\* With every writer stopped, what the databases and, unless it is left out, the
\* bucket hold is written to a file that is not there yet.
CreateBackup(a) ==
  /\ a \notin written /\ written' = written \cup {a}
  /\ UNCHANGED <<target, bucket, restore, restores>>

\* An archive whose every member is as the manifest has it is restored, again
\* after a failure.
StartRestore(o) ==
  /\ restore[o].at \in {"rest", "failed", "done"} /\ restores < MaxRuns
  /\ \E a \in written : restore' = [restore EXCEPT ![o] = [at |-> "check", archive |-> a, seen |-> <<>>]]
  /\ restores' = restores + 1
  /\ UNCHANGED <<written, target, bucket>>

AnyoneMay(o, d) ==                             \* mutant: whose the target is is not compared
  target[d].owner # Nothing \/ target[d].tables = Nothing
\* Whether the target may be restored into: it is empty, or its row names the archive.
MayRestore(o, d) == IF target[d].owner = Nothing THEN target[d].tables = Nothing ELSE Mine(o, d)

\* One transaction for each database reads the row, or checks that there is no
\* table and leaves one.
CheckTarget(o) ==
  LET d == Len(restore[o].seen) + 1
  IN /\ restore[o].at = "check"
     /\ IF d > 2 THEN Goes(o, "load") /\ UNCHANGED <<written, target, bucket, restores>>
        ELSE IF ~ MayRestore(o, d) THEN Fails(o)
        ELSE /\ target' = [target EXCEPT ![d].owner = IF @ = Nothing THEN restore[o].archive ELSE @]
             /\ restore' = [restore EXCEPT ![o].seen = Append(@, target[d].phase)]
             /\ UNCHANGED <<written, bucket, restores>>

\* The databases the row read did not count as loaded, from now on in order.
ToLoad(o) == {d \in 1 .. 2 : restore[o].seen[d] = "pending"}
First(S) == CHOOSE d \in S : \A e \in S : d =< e

\* pg_restore --single-transaction --exit-on-error: everything or, on a database
\* that has the tables, nothing.
LoadDatabase(o) ==
  /\ restore[o].at = "load"
  /\ IF ToLoad(o) = {} THEN Goes(o, "objects") /\ UNCHANGED <<written, target, bucket, restores>>
     ELSE LET d == First(ToLoad(o))
          IN IF target[d].tables # Nothing THEN Fails(o)
             ELSE /\ target' = [target EXCEPT ![d].tables = restore[o].archive]
                  /\ Goes(o, "note")
                  /\ UNCHANGED <<written, bucket, restores>>
\* The row is updated where it is the archive's, in a transaction of its own.
Noted(o, d, phase) == [target[d] EXCEPT !.phase = IF Mine(o, d) THEN phase ELSE @]
NoteDatabase(o) ==
  LET d == First(ToLoad(o))
  IN /\ restore[o].at = "note"
     /\ target' = [target EXCEPT ![d] = Noted(o, d, "database")]
     /\ restore' = [restore EXCEPT ![o].at = "load", ![o].seen[d] = "database"]
     /\ UNCHANGED <<written, bucket, restores>>

\* PUT with If-None-Match: what is there stays.
PutObject(o, k) == IF bucket[k] = Nothing THEN ObjectsOf[restore[o].archive][k] ELSE bucket[k]
\* An object that is there with other bytes is a conflict.
RestoreObject(o) ==
  /\ restore[o].at = "objects"
  /\ LET mine == ObjectsOf[restore[o].archive]
     IN \/ \E k \in DOMAIN mine :
             /\ bucket[k] # mine[k] /\ bucket' = [bucket EXCEPT ![k] = PutObject(o, k)]
             /\ restore' = [restore EXCEPT ![o].at = IF PutObject(o, k) = mine[k] THEN @ ELSE "failed"]
             /\ UNCHANGED <<written, target, restores>>
        \/ /\ \A k \in DOMAIN mine : bucket[k] = mine[k]
           /\ Goes(o, "finish") /\ UNCHANGED <<written, target, bucket, restores>>

\* Both rows say complete, then the service's roles are granted the tables.
Unfinished(o) == {d \in 1 .. 2 : Noted(o, d, "complete") # target[d]}
FinishRestore(o) ==
  /\ restore[o].at = "finish"
  /\ IF Unfinished(o) = {} THEN Goes(o, "done") /\ UNCHANGED target
     ELSE /\ target' = [target EXCEPT ![First(Unfinished(o))].phase = "complete"]
          /\ UNCHANGED restore
  /\ UNCHANGED <<written, bucket, restores>>

\* The tool is interrupted, or a database or the object store does not answer.
StopRestore(o) == restore[o].at \notin {"rest", "failed", "done"} /\ Fails(o)

Next ==
  \/ \E a \in Archives : CreateBackup(a)
  \/ \E o \in Operators :
       \/ StartRestore(o) \/ CheckTarget(o) \/ LoadDatabase(o) \/ NoteDatabase(o)
       \/ RestoreObject(o) \/ FinishRestore(o) \/ StopRestore(o)
Spec == Init /\ [][Next]_vars

-----------------------------------------------------------------------------
\* What a restore reports done, or notes as complete, is one archive: both
\* databases and every object, whoever else tries and wherever earlier restores
\* stopped.
Whole(a) ==
  /\ \A d \in 1 .. 2 : target[d].tables = a
  /\ \A k \in DOMAIN ObjectsOf[a] : bucket[k] = ObjectsOf[a][k]
TargetWhole ==
  /\ \A o \in Operators : restore[o].at = "done" => Whole(restore[o].archive)
  /\ \A d \in 1 .. 2 :
       /\ target[d].phase # "pending" => target[d].tables = target[d].owner
       /\ target[d].phase = "complete" => Whole(target[d].owner)
=============================================================================
