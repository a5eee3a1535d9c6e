----------------------------- MODULE Propagate ------------------------------
(***************************************************************************)
(* overlay_sync propagate --apply (tools/overlay_sync.py): files of the    *)
(* canonical project are copied over those of the target projects, by      *)
(* several processes, while the owner of the files edits and commits.      *)
(*                                                                         *)
(* A process plans from the files' digests, and for each project asks git  *)
(* whether the files to be written are clean, takes the project's lock and *)
(* copies file by file: backup, replacement, comparison.  Then it compares *)
(* all again and, if a file differs, puts back what it has replaced,       *)
(* outside of any lock.                                                    *)
(***************************************************************************)
EXTENDS Naturals, FiniteSets

CONSTANTS Proc, Project, File,
          Exempt,    \* places (of project and file) listed in exempt.yaml
          Ignored,   \* places git ignores: never reported as dirty
          Stamp,     \* Proc -> the name of its backup directory (--stamp): unless
                     \* the operator gives another, they are all "manual"
          MaxContent \* bound: contents ever written

Place == Project \X File
NoFile == 0
NoFiles == [x \in Place |-> NoFile]
NoLog == [x \in Place |-> "no"]
NoProc == "nobody"
Stamps == {Stamp[p] : p \in Proc}

ASSUME PropagateAssumption ==
  /\ Exempt \subseteq Place /\ Ignored \subseteq Place
  /\ MaxContent \in Nat /\ MaxContent >= 2
  /\ NoProc \notin Proc

VARIABLES canon,   \* File -> content in the canonical project
          disk,    \* Place -> content in the working tree, or NoFile
          head,    \* Place -> content at HEAD
          history, \* Place -> contents ever committed
          backup,  \* Stamps -> Place -> content of the backup copy, or NoFile (a part of one)
          lock,    \* Project -> the process that holds the flock
          pc, todo, cur,
          log,     \* the process's rollback log: Place -> "no", "copied", "created"
          next,    \* the next content
          owned,   \* history: contents the owner has written and not replaced
          risky,   \* history: those written to a file a running process has logged
          replaced,\* history: those whose backup gave way to a later one, or a part of one
          was,     \* history: disk as the process planned
          alone    \* history: since then nobody else has written to the targets or
                   \* to its backup directory

proc == <<pc, todo, cur, log, was>>
owner == <<canon, head, history, next, owned, risky>>
copies == <<backup, replaced>>
propagateVars == <<owner, disk, copies, lock, proc, alone>>

PropagateInit ==
  /\ canon = [f \in File |-> 1]
  /\ disk \in [Place -> 0..2]
  /\ head = [x \in Place |-> IF x \in Ignored THEN NoFile ELSE disk[x]]
  /\ history = [x \in Place |-> {head[x]}]
  /\ backup = [s \in Stamps |-> NoFiles]
  /\ lock = [q \in Project |-> NoProc]
  /\ pc = [p \in Proc |-> "idle"] /\ todo = [p \in Proc |-> {}]
  /\ cur = [p \in Proc |-> CHOOSE x \in Place : TRUE]
  /\ log = [p \in Proc |-> NoLog]
  /\ next = 3 /\ owned = {2} \cap {disk[x] : x \in Place} /\ risky = {} /\ replaced = {}
  /\ was = [p \in Proc |-> NoFiles] /\ alone = [p \in Proc |-> TRUE]

Ended == {"applied", "aborted", "rolled back"}
Running(p) == pc[p] \notin Ended \cup {"idle"}

\* The process ends: what it held in memory is gone, and its flock.
End(p, how) ==
  /\ pc' = [pc EXCEPT ![p] = how] /\ todo' = [todo EXCEPT ![p] = {}]
  /\ cur' = [cur EXCEPT ![p] = CHOOSE x \in Place : TRUE]
  /\ log' = [log EXCEPT ![p] = NoLog] /\ was' = [was EXCEPT ![p] = NoFiles]
  /\ lock' = [q \in Project |-> IF lock[q] = p THEN NoProc ELSE lock[q]]

Others(p) == [r \in Proc |-> alone[r] /\ r = p]
Sharers(p) == [r \in Proc |-> alone[r] /\ (r = p \/ Stamp[r] # Stamp[p])]

-----------------------------------------------------------------------------
\* The owner.
EditTarget(x) ==
  /\ next <= MaxContent /\ next' = next + 1
  /\ disk' = [disk EXCEPT ![x] = next]
  /\ owned' = (owned \ {disk[x]}) \cup {next}
  /\ risky' = risky \cup {c \in {next} : \E p \in Proc : Running(p) /\ log[p][x] # "no"}
  /\ alone' = [p \in Proc |-> FALSE]
  /\ UNCHANGED <<canon, head, history, copies, lock, proc>>

EditCanon(f) ==
  /\ next <= MaxContent /\ next' = next + 1
  /\ canon' = [canon EXCEPT ![f] = next]
  /\ UNCHANGED <<disk, head, history, owned, risky, copies, lock, proc, alone>>

CommitTarget(x) ==
  /\ x \notin Ignored /\ head[x] # disk[x]
  /\ head' = [head EXCEPT ![x] = disk[x]]
  /\ history' = [history EXCEPT ![x] = @ \cup {disk[x]}]
  /\ UNCHANGED <<canon, next, owned, risky, disk, copies, lock, proc, alone>>

-----------------------------------------------------------------------------
\* run_invariants, but for INV-PERSIST: the places that are missing or differ.
Differing == {x \in Place \ Exempt : disk[x] # canon[x[2]]}

\* build_manifest and build_plan; there may be nothing to propagate.
Plan(p) ==
  /\ pc[p] = "idle" /\ Differing # {}
  /\ pc' = [pc EXCEPT ![p] = "guard"] /\ todo' = [todo EXCEPT ![p] = Differing]
  /\ was' = [was EXCEPT ![p] = disk] /\ alone' = [alone EXCEPT ![p] = TRUE]
  /\ UNCHANGED <<owner, disk, copies, lock, cur, log>>

\* git status --porcelain.
Dirty(x) == x \notin Ignored /\ disk[x] # head[x]

OfProject(p, q) == {x \in todo[p] : x[1] = q}

\* git_guard, before the lock is taken; a refusal is an exception, and what
\* was written to projects before stays.
Guard(p) ==
  /\ pc[p] = "guard"
  /\ \E q \in Project :
       /\ OfProject(p, q) # {}
       /\ IF \E x \in OfProject(p, q) : Dirty(x)
          THEN End(p, "aborted")
          ELSE /\ pc' = [pc EXCEPT ![p] = "lock"]
               /\ \E x \in OfProject(p, q) : cur' = [cur EXCEPT ![p] = x]
               /\ UNCHANGED <<todo, log, was, lock>>
  /\ UNCHANGED <<owner, disk, copies, alone>>

\* project_lock does not wait.
Lock(p) ==
  /\ pc[p] = "lock"
  /\ IF lock[cur[p][1]] # NoProc
     THEN End(p, "aborted")
     ELSE /\ lock' = [lock EXCEPT ![cur[p][1]] = p]
          /\ pc' = [pc EXCEPT ![p] = "backup"]
          /\ UNCHANGED <<todo, cur, log, was>>
  /\ UNCHANGED <<owner, disk, copies, alone>>

\* Mutant: nothing is copied.
NoBackup(p) ==
  /\ pc[p] = "backup"
  /\ pc' = [pc EXCEPT ![p] = "write"]
  /\ log' = [log EXCEPT ![p][cur[p]] = IF disk[cur[p]] = NoFile THEN "created" ELSE "copied"]
  /\ UNCHANGED <<owner, disk, copies, lock, todo, cur, was, alone>>

\* A backup takes the place of an earlier one.
KeepAs(p, content) ==
  /\ backup' = [backup EXCEPT ![Stamp[p]][cur[p]] = content]
  /\ replaced' = replaced \cup ({backup[Stamp[p]][cur[p]]} \ {content})
  /\ alone' = Sharers(p)

\* The file that is there is copied (shutil.copy2), over an earlier backup.
Backup(p) ==
  /\ pc[p] = "backup"
  /\ pc' = [pc EXCEPT ![p] = "write"]
  /\ IF disk[cur[p]] = NoFile
     THEN /\ log' = [log EXCEPT ![p][cur[p]] = "created"]
          /\ UNCHANGED <<copies, alone>>
     ELSE /\ log' = [log EXCEPT ![p][cur[p]] = "copied"]
          /\ KeepAs(p, disk[cur[p]])
  /\ UNCHANGED <<owner, disk, lock, todo, cur, was>>

\* atomic_copy, of what the canonical file now is.
Write(p) ==
  /\ pc[p] = "write"
  /\ pc' = [pc EXCEPT ![p] = "verify"]
  /\ disk' = [disk EXCEPT ![cur[p]] = canon[cur[p][2]]]
  /\ alone' = Others(p)
  /\ UNCHANGED <<owner, copies, lock, todo, cur, log, was>>

\* The digests are compared, and the exception when they differ leaves the
\* lock; so does the project's last file.
Verify(p) ==
  /\ pc[p] = "verify"
  /\ IF disk[cur[p]] # canon[cur[p][2]]
     THEN End(p, "aborted")
     ELSE /\ todo' = [todo EXCEPT ![p] = @ \ {cur[p]}]
          /\ \/ \E x \in OfProject(p, cur[p][1]) \ {cur[p]} :
                  /\ cur' = [cur EXCEPT ![p] = x]
                  /\ pc' = [pc EXCEPT ![p] = "backup"] /\ UNCHANGED lock
             \/ /\ OfProject(p, cur[p][1]) = {cur[p]}
                /\ pc' = [pc EXCEPT ![p] = IF todo'[p] = {} THEN "check" ELSE "guard"]
                /\ lock' = [lock EXCEPT ![cur[p][1]] = NoProc] /\ UNCHANGED cur
          /\ UNCHANGED <<log, was>>
  /\ UNCHANGED <<owner, disk, copies, alone>>

\* ROLLBACK.json is written and all is compared again.
Check(p) ==
  /\ pc[p] = "check"
  /\ IF Differing = {}
     THEN End(p, "applied")
     ELSE /\ pc' = [pc EXCEPT ![p] = "undo"]
          /\ UNCHANGED <<lock, todo, cur, log, was>>
  /\ UNCHANGED <<owner, disk, copies, alone>>

\* Mutant: a file that was created is left.
Left(p, x) == IF log[p][x] = "created" THEN disk[x] ELSE backup[Stamp[p]][x]

\* What rollback_plan puts in the place of x.
Restored(p, x) == IF log[p][x] = "created" THEN NoFile ELSE backup[Stamp[p]][x]

\* rollback_plan, file by file.
Undo(p) ==
  /\ pc[p] = "undo"
  /\ \E x \in Place :
       /\ log[p][x] # "no"
       /\ disk' = [disk EXCEPT ![x] = Restored(p, x)]
       /\ IF \A y \in Place \ {x} : log[p][y] = "no"
          THEN End(p, "rolled back")
          ELSE /\ log' = [log EXCEPT ![p][x] = "no"]
               /\ UNCHANGED <<pc, lock, todo, cur, was>>
  /\ alone' = Others(p)
  /\ UNCHANGED <<owner, copies>>

\* The process is killed, maybe in the middle of a copy.
Crash(p) ==
  /\ Running(p) /\ End(p, "aborted")
  /\ \/ UNCHANGED <<copies, alone>>
     \/ pc[p] = "backup" /\ disk[cur[p]] # NoFile /\ KeepAs(p, NoFile)
  /\ UNCHANGED <<owner, disk>>

-----------------------------------------------------------------------------
Step(p) == \/ Plan(p) \/ Guard(p) \/ Lock(p) \/ Backup(p) \/ Write(p) \/ Verify(p)
           \/ Check(p) \/ Undo(p) \/ Crash(p)

PropagateNext ==
  \/ \E x \in Place : EditTarget(x) \/ CommitTarget(x)
  \/ \E f \in File : EditCanon(f)
  \/ \E p \in Proc : Step(p)

PropagateSpec == PropagateInit /\ [][PropagateNext]_propagateVars

-----------------------------------------------------------------------------
\* What the owner wrote is on the disk, in a commit or in a backup, whatever
\* runs meet on a file, abort, crash or are rolled back: unless it was written
\* to a file between a running process's backup and its end, or its backup was
\* replaced by that of another run with the same --stamp.
NeverLost ==
  \A c \in owned \ (risky \cup replaced) : \E x \in Place :
    \/ c = disk[x] \/ c \in history[x]
    \/ \E s \in Stamps : c = backup[s][x]

\* A run that ends rolled back has left the targets as it had found them, if
\* nobody else has written to them or to the backup directory it uses.
FailureLeavesNothing ==
  [][\A p \in Proc : pc[p] = "undo" /\ pc'[p] = "rolled back" /\ alone[p]
                       => disk' = was[p]]_propagateVars

=============================================================================
