----------------------------- MODULE FilesProof ------------------------------
(***************************************************************************)
(* Proofs about those who rewrite files: overlay_sync, which overwrites    *)
(* those of projects; skill-update, which replaces a tree.                 *)
(***************************************************************************)
EXTENDS Propagate, Vault, Policy, Skills, FiniteSetTheorems, SequenceTheorems, TLAPS

\* Files overlay_sync overwrites.

Anywhere == CHOOSE x \in Place : TRUE
Where == {"idle", "guard", "lock", "backup", "write", "verify", "check", "undo"} \cup Ended

CopyType ==
  /\ canon \in [File -> Nat] /\ disk \in [Place -> Nat] /\ DOMAIN head = Place
  /\ DOMAIN history = Place /\ backup \in [Stamps -> [Place -> Nat]] /\ DOMAIN lock = Project
  /\ todo \in [Proc -> SUBSET Place]
  /\ pc \in [Proc -> Where] /\ cur \in [Proc -> Place \cup {Anywhere}]
  /\ log \in [Proc -> [Place -> {"no", "copied", "created"}]] /\ next \in Nat
  /\ was \in [Proc -> [Place -> Nat]] /\ alone \in [Proc -> BOOLEAN]

\* Contents are new when they are written, and the owner's are not canonical.
NewContents ==
  /\ \A c \in owned : c \in Nat /\ c # NoFile /\ c < next /\ \A f \in File : canon[f] # c
  /\ \A f \in File : canon[f] < next
  /\ \A x \in Place : disk[x] < next /\ \A s \in Stamps : backup[s][x] < next

\* A process backs up a place once, before it writes there.
Untouched(p, x) == log[p][x] = "no"
AtCur(p) == pc[p] \in {"write", "verify"}

Orderly(p) ==
  /\ pc[p] \in {"guard", "lock", "backup", "write", "verify"} =>
       \A x \in todo[p] : (AtCur(p) /\ x = cur[p]) \/ Untouched(p, x)
  /\ pc[p] = "idle" => \A x \in Place : Untouched(p, x)
  /\ pc[p] \in {"lock", "backup", "write", "verify"} => cur[p] \in todo[p]
  /\ AtCur(p) => log[p][cur[p]] # "no"
  /\ ~Running(p) => log[p] = NoLog

\* What the owner wrote before a process logged the place is safe elsewhere.
Safe(c) == \E x \in Place : c \in history[x] \/ \E s \in Stamps : c = backup[s][x]
Covered ==
  \A p \in Proc, x \in Place :
    log[p][x] # "no" /\ disk[x] \in owned \ (risky \cup replaced) => Safe(disk[x])

\* Undisturbed, a process can put back what it has found.
Restorable(p) ==
  Running(p) /\ alone[p] =>
    \A x \in Place : was[p][x] = IF log[p][x] = "no" THEN disk[x] ELSE Restored(p, x)

CopyInv ==
  /\ CopyType /\ NewContents /\ Covered /\ NeverLost
  /\ \A p \in Proc : Orderly(p) /\ Restorable(p)

LEMMA CopyInitially == PropagateInit => CopyInv
<1> SUFFICES ASSUME PropagateInit PROVE CopyInv
  OBVIOUS
<1>1. CopyType
  BY DEF PropagateInit, CopyType, Anywhere, Where, NoFiles, NoLog, NoFile
<1>2. NewContents
  BY DEF PropagateInit, NewContents, NoFiles, NoFile
<1>3. NeverLost /\ Covered
  BY DEF PropagateInit, NeverLost, Covered, NoLog
<1>4. \A p \in Proc : Orderly(p) /\ Restorable(p)
  BY DEF PropagateInit, Orderly, Restorable, Running, AtCur, Untouched, NoLog, NoFiles, Stamps
<1> QED BY <1>1, <1>2, <1>3, <1>4 DEF CopyInv

\* A process moves on and neither writes nor ends.
LEMMA MovesOn ==
  ASSUME CopyInv, NEW p \in Proc, Running(p), Running(p)',
         UNCHANGED <<owner, disk, backup, replaced, alone, log, was>>, DOMAIN lock' = Project,
         NEW at0 \in Where, pc' = [pc EXCEPT ![p] = at0],
         NEW T \in SUBSET Place, todo' = [todo EXCEPT ![p] = T],
         NEW x0 \in Place \cup {Anywhere}, cur' = [cur EXCEPT ![p] = x0], Orderly(p)'
  PROVE  CopyInv'
<1>1. CopyType' /\ NewContents' /\ Covered' /\ NeverLost'
  BY DEF CopyInv, CopyType, NewContents, Covered, NeverLost, Safe, owner, Where
<1>2. ASSUME NEW r \in Proc \ {p} PROVE Orderly(r)' /\ Restorable(r)'
  <2>1. pc'[r] = pc[r] /\ todo'[r] = todo[r] /\ cur'[r] = cur[r]
    BY <1>2 DEF CopyInv, CopyType
  <2> QED BY <2>1 DEF CopyInv, Orderly, Restorable, Restored, Running, AtCur, Untouched
<1>3. Restorable(p)'
  BY DEF CopyInv, Restorable, Restored
<1> QED BY <1>1, <1>2, <1>3 DEF CopyInv

\* A process ends: nothing that holds is about one that has.
LEMMA EndKeeps ==
  ASSUME CopyInv, NEW p \in Proc, NEW how \in Ended, End(p, how), UNCHANGED <<owner, disk, backup, replaced, alone>>
  PROVE  CopyInv'
<1>1. /\ pc' = [pc EXCEPT ![p] = how] /\ todo' = [todo EXCEPT ![p] = {}]
      /\ log' = [log EXCEPT ![p] = NoLog] /\ was' = [was EXCEPT ![p] = NoFiles]
      /\ cur' = [cur EXCEPT ![p] = Anywhere] /\ DOMAIN lock' = Project
  BY DEF End, Anywhere
<1>2. NoLog \in [Place -> {"no", "copied", "created"}] /\ NoFiles \in [Place -> Nat]
  BY DEF NoLog, NoFiles, NoFile
<1>3. CopyType' /\ NewContents' /\ NeverLost'
  BY <1>1, <1>2 DEF CopyInv, CopyType, NewContents, NeverLost, owner, Where
<1>4. \A r \in Proc, x \in Place : log'[r][x] # "no" => log[r][x] # "no"
  BY <1>1 DEF NoLog, CopyInv, CopyType
<1>5. Covered'
  BY <1>4 DEF CopyInv, Covered, Safe, owner
<1>6. ASSUME NEW r \in Proc \ {p} PROVE Orderly(r)' /\ Restorable(r)'
  <2>1. pc'[r] = pc[r] /\ todo'[r] = todo[r] /\ cur'[r] = cur[r] /\ log'[r] = log[r] /\ was'[r] = was[r]
    BY <1>1, <1>6 DEF CopyInv, CopyType
  <2> QED BY <2>1 DEF CopyInv, Orderly, Restorable, Restored, Running, AtCur, Untouched, owner
<1>7. Orderly(p)' /\ Restorable(p)'
  <2>1. pc'[p] = how /\ log'[p] = NoLog
    BY <1>1 DEF CopyInv, CopyType
  <2> QED BY <2>1 DEF Orderly, Restorable, Running, AtCur, Ended
<1> QED BY <1>3, <1>5, <1>6, <1>7 DEF CopyInv

LEMMA PlanKeeps ==
  ASSUME CopyInv, NEW p \in Proc, Plan(p)
  PROVE  CopyInv'
<1>1. /\ pc[p] = "idle" /\ pc' = [pc EXCEPT ![p] = "guard"] /\ todo' = [todo EXCEPT ![p] = Differing]
      /\ was' = [was EXCEPT ![p] = disk] /\ alone' = [alone EXCEPT ![p] = TRUE]
      /\ UNCHANGED <<owner, disk, backup, replaced, lock, cur, log>> /\ Differing \subseteq Place
  BY DEF Plan, Differing, copies
<1>2. CopyType' /\ NewContents' /\ Covered' /\ NeverLost'
  BY <1>1 DEF CopyInv, CopyType, NewContents, Covered, NeverLost, Safe, owner, Where
<1>3. ASSUME NEW r \in Proc \ {p} PROVE Orderly(r)' /\ Restorable(r)'
  <2>1. /\ pc'[r] = pc[r] /\ todo'[r] = todo[r] /\ was'[r] = was[r] /\ alone'[r] = alone[r]
    BY <1>1, <1>3 DEF CopyInv, CopyType
  <2> QED BY <1>1, <2>1 DEF CopyInv, Orderly, Restorable, Restored, Running, AtCur, Untouched, owner
<1>4. Orderly(p)' /\ Restorable(p)'
  <2>1. pc'[p] = "guard" /\ todo'[p] \subseteq Place /\ was'[p] = disk
    BY <1>1 DEF CopyInv, CopyType
  <2>2. \A x \in Place : Untouched(p, x)'
    BY <1>1 DEF CopyInv, Orderly, Untouched
  <2>3. Orderly(p)'
    BY <2>1, <2>2 DEF Orderly, Running, AtCur, Ended
  <2>4. \A x \in Place : log'[p][x] = "no" /\ disk'[x] = disk[x]
    BY <1>1, <2>2 DEF Untouched
  <2>5. Restorable(p)'
    BY <2>1, <2>4 DEF Restorable
  <2> QED BY <2>3, <2>5
<1> QED BY <1>2, <1>3, <1>4 DEF CopyInv

\* A backup takes the place of one of its name, and what that held counts as
\* replaced; nobody who shares the directory relies on it.
LEMMA KeepIs ==
  ASSUME CopyInv, NEW p \in Proc, NEW x \in Place, cur[p] = x,
         NEW content \in Nat, content = disk[x] \/ content = NoFile,
         KeepAs(p, content), UNCHANGED <<owner, disk>>
  PROVE  /\ backup' \in [Stamps -> [Place -> Nat]] /\ alone' \in [Proc -> BOOLEAN]
         /\ backup'[Stamp[p]][x] = content
         /\ \A y \in Place \ {x} : backup'[Stamp[p]][y] = backup[Stamp[p]][y]
         /\ \A s \in Stamps \ {Stamp[p]} : backup'[s] = backup[s]
         /\ replaced \subseteq replaced'
         /\ \A c \in owned \ replaced' : Safe(c) => Safe(c)'
         /\ NewContents' /\ NeverLost'
         /\ \A r \in Proc : alone'[r] => alone[r] /\ (r = p \/ Stamp[r] # Stamp[p])
<1>1. Stamp[p] \in Stamps /\ backup' = [backup EXCEPT ![Stamp[p]][x] = content]
      /\ replaced' = replaced \cup ({backup[Stamp[p]][x]} \ {content})
      /\ alone' = [r \in Proc |-> alone[r] /\ (r = p \/ Stamp[r] # Stamp[p])]
  BY DEF KeepAs, Sharers, Stamps
<1>2. /\ backup' \in [Stamps -> [Place -> Nat]] /\ backup'[Stamp[p]][x] = content
      /\ \A y \in Place \ {x} : backup'[Stamp[p]][y] = backup[Stamp[p]][y]
      /\ \A s \in Stamps \ {Stamp[p]} : backup'[s] = backup[s]
  BY <1>1 DEF CopyInv, CopyType
<1>3. alone' \in [Proc -> BOOLEAN] /\ \A r \in Proc : alone'[r] => alone[r] /\ (r = p \/ Stamp[r] # Stamp[p])
  BY <1>1 DEF CopyInv, CopyType
<1>4. ASSUME NEW c \in owned \ replaced', NEW y \in Place, NEW s \in Stamps, c = backup[s][y]
      PROVE  c = backup'[s][y]
  BY <1>1, <1>2, <1>4
<1>5. \A c \in owned \ replaced' : Safe(c) => Safe(c)'
  BY <1>4 DEF Safe, owner
<1>6. NewContents'
  <2>1. content < next
    BY DEF CopyInv, CopyType, NewContents, NoFile
  <2> QED BY <1>2, <2>1 DEF CopyInv, NewContents, owner
<1>7. NeverLost'
  <2>1. replaced \subseteq replaced'
    BY <1>1
  <2> QED BY <1>4, <2>1 DEF CopyInv, NeverLost, owner
<1> QED BY <1>1, <1>2, <1>3, <1>5, <1>6, <1>7

\* A process killed as it copies: a part of a backup is left.
LEMMA CutKeeps ==
  ASSUME CopyInv, NEW p \in Proc, pc[p] = "backup", KeepAs(p, NoFile), End(p, "aborted"),
         UNCHANGED <<owner, disk>>
  PROVE  CopyInv'
<1>1. /\ pc' = [pc EXCEPT ![p] = "aborted"] /\ todo' = [todo EXCEPT ![p] = {}]
      /\ log' = [log EXCEPT ![p] = NoLog] /\ was' = [was EXCEPT ![p] = NoFiles]
      /\ cur' = [cur EXCEPT ![p] = Anywhere] /\ DOMAIN lock' = Project
  BY DEF End, Anywhere
<1>2. PICK x \in Place : x = cur[p]
  BY DEF CopyInv, CopyType, Orderly
<1>3. /\ backup' \in [Stamps -> [Place -> Nat]] /\ alone' \in [Proc -> BOOLEAN]
      /\ \A s \in Stamps \ {Stamp[p]} : backup'[s] = backup[s]
      /\ replaced \subseteq replaced' /\ \A c \in owned \ replaced' : Safe(c) => Safe(c)'
      /\ NewContents' /\ NeverLost'
      /\ \A r \in Proc : alone'[r] => alone[r] /\ (r = p \/ Stamp[r] # Stamp[p])
  BY <1>2, KeepIs DEF NoFile
<1>4. NoLog \in [Place -> {"no", "copied", "created"}] /\ NoFiles \in [Place -> Nat]
  BY DEF NoLog, NoFiles, NoFile
<1>5. CopyType'
  BY <1>1, <1>3, <1>4 DEF CopyInv, CopyType, owner, Where, Ended
<1>6. \A r \in Proc, y \in Place : log'[r][y] # "no" => log[r][y] # "no"
  BY <1>1 DEF NoLog, CopyInv, CopyType
<1>7. Covered'
  BY <1>3, <1>6 DEF CopyInv, Covered, Safe, owner
<1>8. ASSUME NEW r \in Proc \ {p} PROVE Orderly(r)' /\ Restorable(r)'
  <2>1. pc'[r] = pc[r] /\ todo'[r] = todo[r] /\ cur'[r] = cur[r] /\ log'[r] = log[r] /\ was'[r] = was[r]
    BY <1>1, <1>8 DEF CopyInv, CopyType
  <2>2. Orderly(r)'
    BY <2>1 DEF CopyInv, Orderly, Running, AtCur, Untouched
  <2>3. alone'[r] => alone[r] /\ backup'[Stamp[r]] = backup[Stamp[r]]
    BY <1>3, <1>8 DEF Stamps
  <2>4. Restorable(r)'
    BY <2>1, <2>3 DEF CopyInv, Restorable, Restored, Running
  <2> QED BY <2>2, <2>4
<1>9. Orderly(p)' /\ Restorable(p)'
  <2>1. pc'[p] = "aborted" /\ log'[p] = NoLog
    BY <1>1 DEF CopyInv, CopyType
  <2> QED BY <2>1 DEF Orderly, Restorable, Running, AtCur, Ended
<1> QED BY <1>3, <1>5, <1>7, <1>8, <1>9 DEF CopyInv

\* The steps of a process that write nothing, and its end.
LEMMA QuietKeeps ==
  ASSUME CopyInv, NEW p \in Proc, Guard(p) \/ Lock(p) \/ Verify(p) \/ Check(p) \/ Crash(p)
  PROVE  CopyInv'
<1>1. CASE \E how \in Ended : End(p, how) /\ UNCHANGED <<owner, disk, backup, replaced, alone>>
  BY <1>1, EndKeeps
<1>2. /\ todo[p] \in SUBSET Place /\ pc = [pc EXCEPT ![p] = pc[p]] /\ todo = [todo EXCEPT ![p] = todo[p]]
      /\ cur = [cur EXCEPT ![p] = cur[p]] /\ pc \in [Proc -> Where] /\ DOMAIN todo = Proc
      /\ cur \in [Proc -> Place \cup {Anywhere}] /\ DOMAIN lock = Project /\ Orderly(p)
  BY DEF CopyInv, CopyType
<1>3. CASE /\ pc[p] = "guard" /\ pc' = [pc EXCEPT ![p] = "lock"]
           /\ \E x \in todo[p] : cur' = [cur EXCEPT ![p] = x]
           /\ UNCHANGED <<todo, log, was, lock, owner, disk, backup, replaced, alone>>
  <2>1. PICK x \in todo[p] : cur' = [cur EXCEPT ![p] = x]
    BY <1>3
  <2>2. pc'[p] = "lock" /\ cur'[p] = x
    BY <1>2, <1>3, <2>1
  <2>3. Orderly(p)'
    BY <1>2, <1>3, <2>1, <2>2 DEF Orderly, AtCur, Untouched, Running, Ended
  <2> QED BY <1>2, <1>3, <2>1, <2>2, <2>3, MovesOn DEF Running, Ended, Where
<1>4. CASE /\ pc[p] = "lock" /\ pc' = [pc EXCEPT ![p] = "backup"] /\ DOMAIN lock' = Project
           /\ UNCHANGED <<todo, cur, log, was, owner, disk, backup, replaced, alone>>
  <2>1. pc'[p] = "backup"
    BY <1>2, <1>4
  <2>2. Orderly(p)'
    BY <1>2, <1>4, <2>1 DEF Orderly, AtCur, Untouched, Running, Ended
  <2> QED BY <1>2, <1>4, <2>1, <2>2, MovesOn DEF Running, Ended, Where
<1>5. CASE /\ pc[p] = "verify" /\ todo' = [todo EXCEPT ![p] = @ \ {cur[p]}] /\ DOMAIN lock' = Project
           /\ \/ \E x \in todo[p] \ {cur[p]} : cur' = [cur EXCEPT ![p] = x] /\ pc' = [pc EXCEPT ![p] = "backup"]
              \/ UNCHANGED cur /\ \E at0 \in {"check", "guard"} : pc' = [pc EXCEPT ![p] = at0]
           /\ UNCHANGED <<log, was, owner, disk, backup, replaced, alone>>
  <2> DEFINE T == todo[p] \ {cur[p]}
  <2>1. todo' = [todo EXCEPT ![p] = T] /\ T \in SUBSET Place /\ todo'[p] = T
    BY <1>2, <1>5
  <2>2. \A x \in T : Untouched(p, x)
    BY <1>2, <1>5 DEF Orderly
  <2>3. CASE \E x \in T : cur' = [cur EXCEPT ![p] = x] /\ pc' = [pc EXCEPT ![p] = "backup"]
    <3>1. PICK x \in T : cur' = [cur EXCEPT ![p] = x]
      BY <2>3
    <3>2. pc'[p] = "backup" /\ cur'[p] = x
      BY <1>2, <2>3, <3>1
    <3>3. Orderly(p)'
      BY <1>5, <2>1, <2>2, <3>1, <3>2 DEF Orderly, AtCur, Untouched, Running, Ended
    <3> QED BY <1>2, <1>5, <2>1, <2>3, <3>1, <3>2, <3>3, MovesOn DEF Running, Ended, Where
  <2>4. ASSUME NEW at0 \in {"check", "guard"}, pc' = [pc EXCEPT ![p] = at0], UNCHANGED cur
        PROVE  CopyInv'
    <3>1. pc'[p] = at0
      BY <1>2, <2>4
    <3>2. Orderly(p)'
      BY <1>5, <2>1, <2>2, <2>4, <3>1 DEF Orderly, AtCur, Untouched, Running, Ended
    <3> QED BY <1>2, <1>5, <2>1, <2>4, <3>1, <3>2, MovesOn DEF Running, Ended, Where
  <2> QED BY <1>5, <2>3, <2>4
<1>6. CASE /\ pc[p] = "check" /\ pc' = [pc EXCEPT ![p] = "undo"]
           /\ UNCHANGED <<lock, todo, cur, log, was, owner, disk, backup, replaced, alone>>
  <2>1. pc'[p] = "undo"
    BY <1>2, <1>6
  <2>2. Orderly(p)'
    BY <1>2, <1>6, <2>1 DEF Orderly, AtCur, Untouched, Running, Ended
  <2> QED BY <1>2, <1>6, <2>1, <2>2, MovesOn DEF Running, Ended, Where
<1>7. CASE Guard(p)
  BY <1>1, <1>3, <1>7 DEF Guard, OfProject, Ended, copies
<1>8. CASE Lock(p)
  BY <1>1, <1>2, <1>4, <1>8 DEF Lock, Ended, copies
<1>9. CASE Verify(p)
  <2>1. CASE disk[cur[p]] # canon[cur[p][2]]
    BY <1>1, <1>9, <2>1 DEF Verify, Ended, copies
  <2>2. CASE ~(disk[cur[p]] # canon[cur[p][2]])
    BY <1>2, <1>5, <1>9, <2>2 DEF Verify, OfProject, copies
  <2> QED BY <2>1, <2>2
<1>10. CASE Check(p)
  BY <1>1, <1>6, <1>10 DEF Check, Ended, copies
<1>11. CASE Crash(p)
  <2>1. CASE UNCHANGED <<copies, alone>>
    BY <1>1, <1>11, <2>1 DEF Crash, Ended, copies
  <2>2. CASE pc[p] = "backup" /\ KeepAs(p, NoFile)
    BY <1>11, <2>2, CutKeeps DEF Crash
  <2> QED BY <1>11, <2>1, <2>2 DEF Crash
<1> QED BY <1>7, <1>8, <1>9, <1>10, <1>11

\* The file that is there is safe once it is copied.
LEMMA BackupKeeps ==
  ASSUME CopyInv, NEW p \in Proc, Backup(p)
  PROVE  CopyInv'
<1>1. /\ pc[p] = "backup" /\ pc' = [pc EXCEPT ![p] = "write"]
      /\ UNCHANGED <<owner, disk, lock, todo, cur, was>>
  BY DEF Backup
<1>2. PICK x \in Place : x = cur[p] /\ x \in todo[p] /\ Untouched(p, x)
  <2>1. cur[p] \in todo[p] /\ todo[p] \subseteq Place
    BY <1>1 DEF CopyInv, CopyType, Orderly
  <2>2. Untouched(p, cur[p])
    BY <1>1, <2>1 DEF CopyInv, Orderly, AtCur
  <2> QED BY <2>1, <2>2
<1>3. /\ log' \in [Proc -> [Place -> {"no", "copied", "created"}]]
      /\ log'[p][x] = (IF disk[x] = NoFile THEN "created" ELSE "copied")
      /\ \A y \in Place \ {x} : log'[p][y] = log[p][y]
      /\ \A r \in Proc \ {p} : log'[r] = log[r]
  <2>1. PICK v \in {"created", "copied"} :
          /\ v = (IF disk[x] = NoFile THEN "created" ELSE "copied")
          /\ log' = [log EXCEPT ![p][x] = v]
    BY <1>2 DEF Backup
  <2> QED BY <2>1 DEF CopyInv, CopyType
<1>4. /\ backup' \in [Stamps -> [Place -> Nat]] /\ alone' \in [Proc -> BOOLEAN]
      /\ disk[x] # NoFile => backup'[Stamp[p]][x] = disk[x]
      /\ \A y \in Place \ {x} : backup'[Stamp[p]][y] = backup[Stamp[p]][y]
      /\ replaced \subseteq replaced' /\ \A c \in owned \ replaced' : Safe(c) => Safe(c)'
      /\ NewContents' /\ NeverLost'
      /\ \A r \in Proc : alone'[r] => alone[r]
      /\ \A r \in Proc \ {p} : alone'[r] => backup'[Stamp[r]] = backup[Stamp[r]]
  <2>1. CASE disk[x] = NoFile
    <3>1. UNCHANGED <<backup, replaced, alone>>
      BY <1>2, <2>1 DEF Backup, copies
    <3>2. NewContents' /\ NeverLost'
      BY <1>1, <3>1 DEF CopyInv, NewContents, NeverLost, owner
    <3>3. \A c \in owned : Safe(c) => Safe(c)'
      BY <1>1, <3>1 DEF Safe, owner
    <3> QED BY <2>1, <3>1, <3>2, <3>3 DEF CopyInv, CopyType
  <2>2. CASE disk[x] # NoFile
    <3>1. PICK content \in Nat : content = disk[x] /\ KeepAs(p, content)
      BY <1>2, <2>2 DEF Backup, CopyInv, CopyType
    <3>2. /\ backup' \in [Stamps -> [Place -> Nat]] /\ alone' \in [Proc -> BOOLEAN]
          /\ backup'[Stamp[p]][x] = content
          /\ \A y \in Place \ {x} : backup'[Stamp[p]][y] = backup[Stamp[p]][y]
          /\ \A s \in Stamps \ {Stamp[p]} : backup'[s] = backup[s]
          /\ replaced \subseteq replaced' /\ \A c \in owned \ replaced' : Safe(c) => Safe(c)'
          /\ NewContents' /\ NeverLost'
          /\ \A r \in Proc : alone'[r] => alone[r] /\ (r = p \/ Stamp[r] # Stamp[p])
      BY <1>1, <1>2, <3>1, KeepIs
    <3>3. \A r \in Proc \ {p} : alone'[r] => backup'[Stamp[r]] = backup[Stamp[r]]
      BY <3>2 DEF Stamps
    <3> QED BY <3>1, <3>2, <3>3
  <2> QED BY <2>1, <2>2
<1>5. CopyType'
  BY <1>1, <1>3, <1>4 DEF CopyInv, CopyType, owner, Where
<1>6. Covered'
  <2>1. disk[x] # NoFile => Safe(disk[x])'
    BY <1>1, <1>4 DEF Safe, Stamps
  <2>2. ASSUME NEW r \in Proc, NEW y \in Place, log'[r][y] # "no",
               disk[y] \in owned \ (risky \cup replaced')
        PROVE  Safe(disk[y])'
    <3>1. CASE y = x
      BY <2>1, <2>2, <3>1 DEF CopyInv, NewContents
    <3>2. CASE y # x
      <4>1. log[r][y] # "no"
        BY <1>3, <2>2, <3>2
      <4>2. Safe(disk[y])
        BY <1>4, <2>2, <4>1 DEF CopyInv, Covered
      <4> QED BY <1>1, <1>4, <2>2, <4>2 DEF Safe
    <3> QED BY <3>1, <3>2
  <2> QED BY <1>1, <2>2 DEF Covered, Safe, owner
<1>7. ASSUME NEW r \in Proc \ {p} PROVE Orderly(r)' /\ Restorable(r)'
  <2>1. pc'[r] = pc[r] /\ log'[r] = log[r]
    BY <1>1, <1>3, <1>7 DEF CopyInv, CopyType
  <2>2. Orderly(r)'
    BY <1>1, <2>1 DEF CopyInv, Orderly, Running, AtCur, Untouched
  <2>3. alone'[r] => alone[r] /\ backup'[Stamp[r]] = backup[Stamp[r]]
    BY <1>4, <1>7
  <2>4. Restorable(r)'
    BY <1>1, <2>1, <2>3 DEF CopyInv, Restorable, Restored, Running
  <2> QED BY <2>2, <2>4
<1>8. Orderly(p)'
  <2>1. pc'[p] = "write" /\ cur'[p] = x
    BY <1>1, <1>2 DEF CopyInv, CopyType
  <2>2. \A y \in todo[p] : y \in Place /\ Untouched(p, y)
    BY <1>1 DEF CopyInv, CopyType, Orderly, AtCur
  <2>3. \A y \in todo[p] \ {x} : Untouched(p, y)'
    BY <1>3, <2>2 DEF Untouched
  <2> QED BY <1>1, <1>2, <1>3, <2>1, <2>3 DEF Orderly, Running, AtCur, Ended
<1>9. Restorable(p)'
  <2>1. SUFFICES ASSUME alone'[p], NEW y \in Place
                 PROVE  was[p][y] = (IF log[p][y] = "no" THEN disk[y] ELSE Restored(p, y))'
    BY <1>1 DEF Restorable
  <2>2. was[p][y] = IF log[p][y] = "no" THEN disk[y] ELSE Restored(p, y)
    BY <1>1, <1>4, <2>1 DEF CopyInv, Restorable, Running, Ended
  <2>3. CASE y = x
    BY <1>1, <1>2, <1>3, <1>4, <2>2, <2>3 DEF Restored, Untouched
  <2>4. CASE y # x
    BY <1>1, <1>3, <1>4, <2>2, <2>4 DEF Restored
  <2> QED BY <2>3, <2>4
<1> QED BY <1>4, <1>5, <1>6, <1>7, <1>8, <1>9 DEF CopyInv

\* What a process puts in a place it has logged is nothing of the owner's that
\* would be lost, and what was there is safe.
LEMMA Overwrites ==
  ASSUME CopyInv, NEW p \in Proc, NEW x \in Place, log[p][x] # "no",
         NEW v \in Nat, v < next, disk' = [disk EXCEPT ![x] = v],
         v \in owned => Safe(v), UNCHANGED <<owner, backup, replaced>>,
         \A r \in Proc, y \in Place : log'[r][y] # "no" => log[r][y] # "no"
  PROVE  NewContents' /\ Covered' /\ NeverLost'
<1>1. disk'[x] = v /\ \A y \in Place \ {x} : disk'[y] = disk[y]
  BY DEF CopyInv, CopyType
<1>2. NewContents'
  BY <1>1 DEF CopyInv, NewContents, owner
<1>3. ASSUME NEW r \in Proc, NEW y \in Place, log'[r][y] # "no", disk'[y] \in owned \ (risky \cup replaced)
      PROVE  Safe(disk'[y])
  <2>1. CASE y = x
    BY <1>1, <1>3, <2>1
  <2>2. CASE y # x
    BY <1>1, <1>3, <2>2 DEF CopyInv, Covered
  <2> QED BY <2>1, <2>2
<1>4. Covered'
  BY <1>3 DEF Covered, Safe, owner
<1>5. ASSUME NEW c \in owned \ (risky \cup replaced)
      PROVE  \E y \in Place : c = disk'[y] \/ c \in history[y] \/ \E s \in Stamps : c = backup[s][y]
  <2>1. PICK y \in Place : c = disk[y] \/ c \in history[y] \/ \E s \in Stamps : c = backup[s][y]
    BY <1>5 DEF CopyInv, NeverLost
  <2>2. CASE c = disk[x]
    <3>1. Safe(c)
      BY <1>5, <2>2 DEF CopyInv, Covered
    <3> QED BY <3>1 DEF Safe
  <2>3. CASE c # disk[x]
    BY <1>1, <2>1, <2>3
  <2> QED BY <2>2, <2>3
<1>6. NeverLost'
  BY <1>5 DEF NeverLost, owner
<1> QED BY <1>2, <1>4, <1>6

\* Another process, whose files are written to, is no longer alone.
LEMMA OthersKeep ==
  ASSUME CopyInv, NEW p \in Proc, NEW r \in Proc \ {p}, UNCHANGED backup, alone' = Others(p),
         pc'[r] = pc[r], todo'[r] = todo[r], cur'[r] = cur[r], log'[r] = log[r]
  PROVE  Orderly(r)' /\ Restorable(r)'
<1>1. ~alone'[r]
  BY DEF Others
<1> QED BY <1>1 DEF CopyInv, Orderly, Restorable, Running, AtCur, Untouched

LEMMA WriteKeeps ==
  ASSUME CopyInv, NEW p \in Proc, Write(p)
  PROVE  CopyInv'
<1>1. /\ pc[p] = "write" /\ pc' = [pc EXCEPT ![p] = "verify"]
      /\ disk' = [disk EXCEPT ![cur[p]] = canon[cur[p][2]]] /\ alone' = Others(p)
      /\ UNCHANGED <<owner, backup, replaced, lock, todo, cur, log, was>>
  BY DEF Write, copies
<1>2. PICK x \in Place : x = cur[p] /\ x \in todo[p] /\ log[p][x] # "no"
  BY <1>1 DEF CopyInv, CopyType, Orderly, AtCur
<1>3. x[2] \in File /\ canon[x[2]] \in Nat /\ canon[x[2]] < next /\ canon[x[2]] \notin owned
  BY DEF CopyInv, CopyType, NewContents, Place
<1>4. NewContents' /\ Covered' /\ NeverLost'
  BY <1>1, <1>2, <1>3, Overwrites
<1>5. CopyType'
  BY <1>1, <1>2, <1>3 DEF CopyInv, CopyType, owner, Where, Others
<1>6. pc'[p] = "verify" /\ \A r \in Proc \ {p} : pc'[r] = pc[r]
  BY <1>1 DEF CopyInv, CopyType
<1>7. \A r \in Proc \ {p} : Orderly(r)' /\ Restorable(r)'
  BY <1>1, <1>6, OthersKeep
<1>8. Orderly(p)'
  BY <1>1, <1>2, <1>6 DEF CopyInv, Orderly, AtCur, Untouched, Running, Ended
<1>9. Restorable(p)'
  <2>1. SUFFICES ASSUME alone[p], NEW y \in Place
                 PROVE  was[p][y] = IF log[p][y] = "no" THEN disk'[y] ELSE Restored(p, y)'
    BY <1>1 DEF Restorable, Others
  <2>2. was[p][y] = IF log[p][y] = "no" THEN disk[y] ELSE Restored(p, y)
    BY <1>1, <2>1 DEF CopyInv, Restorable, Running, Ended
  <2>3. y # x => disk'[y] = disk[y]
    BY <1>1, <1>2 DEF CopyInv, CopyType
  <2>4. log[p][y] # "no" => Restored(p, y)' = IF log[p][y] = "created" THEN NoFile ELSE backup[Stamp[p]][y]
    BY <1>1 DEF Restored
  <2> QED BY <1>2, <2>2, <2>3, <2>4 DEF Restored
<1> QED BY <1>4, <1>5, <1>7, <1>8, <1>9 DEF CopyInv

\* A rollback puts back what is in the backup, or nothing.
LEMMA UndoKeeps ==
  ASSUME CopyInv, NEW p \in Proc, Undo(p)
  PROVE  /\ CopyInv'
         /\ pc'[p] = "rolled back" /\ alone[p] => disk' = was[p]
         /\ \A r \in Proc \ {p} : pc'[r] = pc[r]
<1>1. PICK x \in Place :
        /\ log[p][x] # "no" /\ disk' = [disk EXCEPT ![x] = Restored(p, x)]
        /\ IF \A y \in Place \ {x} : log[p][y] = "no"
           THEN End(p, "rolled back")
           ELSE /\ log' = [log EXCEPT ![p][x] = "no"]
                /\ UNCHANGED <<pc, lock, todo, cur, was>>
  BY DEF Undo, copies
<1>2. pc[p] = "undo" /\ alone' = Others(p) /\ UNCHANGED <<owner, backup, replaced>>
  BY DEF Undo, copies
<1>3. Restored(p, x) \in Nat /\ Restored(p, x) < next /\ (Restored(p, x) \in owned => Safe(Restored(p, x)))
  <2>1. Stamp[p] \in Stamps
    BY DEF Stamps
  <2>2. backup[Stamp[p]][x] \in Nat /\ backup[Stamp[p]][x] < next /\ Safe(backup[Stamp[p]][x])
    BY <2>1 DEF CopyInv, CopyType, NewContents, Safe
  <2>3. NoFile \in Nat /\ NoFile < next /\ NoFile \notin owned
    BY <2>2 DEF CopyInv, CopyType, NewContents, NoFile
  <2> QED BY <2>2, <2>3 DEF Restored
<1>4. NoLog \in [Place -> {"no", "copied", "created"}] /\ NoFiles \in [Place -> Nat]
  BY DEF NoLog, NoFiles, NoFile
<1>5. disk' \in [Place -> Nat] /\ disk'[x] = Restored(p, x) /\ \A y \in Place \ {x} : disk'[y] = disk[y]
  BY <1>1, <1>3 DEF CopyInv, CopyType
<1>6. alone[p] => \A y \in Place : was[p][y] = IF log[p][y] = "no" THEN disk[y] ELSE Restored(p, y)
  BY <1>2 DEF CopyInv, Restorable, Running, Ended
<1>7. CASE \A y \in Place \ {x} : log[p][y] = "no"
  <2>1. /\ pc' = [pc EXCEPT ![p] = "rolled back"] /\ todo' = [todo EXCEPT ![p] = {}]
        /\ log' = [log EXCEPT ![p] = NoLog] /\ was' = [was EXCEPT ![p] = NoFiles]
        /\ cur' = [cur EXCEPT ![p] = Anywhere] /\ DOMAIN lock' = Project
    BY <1>1, <1>7 DEF End, Anywhere
  <2>2. CopyType'
    BY <1>2, <1>4, <1>5, <2>1 DEF CopyInv, CopyType, owner, Where, Ended, Others
  <2>3. pc'[p] = "rolled back" /\ log'[p] = NoLog
        /\ \A r \in Proc \ {p} : /\ pc'[r] = pc[r] /\ todo'[r] = todo[r] /\ cur'[r] = cur[r]
                                 /\ log'[r] = log[r]
    BY <2>1 DEF CopyInv, CopyType
  <2>4. \A r \in Proc, y \in Place : log'[r][y] # "no" => log[r][y] # "no"
    BY <2>3 DEF NoLog
  <2>5. NewContents' /\ Covered' /\ NeverLost'
    BY <1>1, <1>2, <1>3, <2>4, Overwrites
  <2>6. \A r \in Proc \ {p} : Orderly(r)' /\ Restorable(r)'
    BY <1>2, <2>3, OthersKeep
  <2>7. Orderly(p)' /\ Restorable(p)'
    BY <2>3 DEF Orderly, Restorable, Running, AtCur, Ended
  <2>8. alone[p] => disk' = was[p]
    <3>1. SUFFICES ASSUME alone[p] PROVE \A y \in Place : disk'[y] = was[p][y]
      BY <1>5 DEF CopyInv, CopyType
    <3> QED BY <1>1, <1>5, <1>6, <1>7, <3>1
  <2> QED BY <2>2, <2>3, <2>5, <2>6, <2>7, <2>8 DEF CopyInv
<1>8. CASE ~(\A y \in Place \ {x} : log[p][y] = "no")
  <2>1. log' = [log EXCEPT ![p][x] = "no"] /\ UNCHANGED <<pc, lock, todo, cur, was>>
    BY <1>1, <1>8
  <2>2. CopyType'
    BY <1>2, <1>5, <2>1 DEF CopyInv, CopyType, owner, Others
  <2>3. /\ log'[p][x] = "no" /\ \A y \in Place \ {x} : log'[p][y] = log[p][y]
        /\ \A r \in Proc \ {p} : log'[r] = log[r]
    BY <2>1 DEF CopyInv, CopyType
  <2>4. \A r \in Proc, y \in Place : log'[r][y] # "no" => log[r][y] # "no"
    BY <2>3
  <2>5. NewContents' /\ Covered' /\ NeverLost'
    BY <1>1, <1>2, <1>3, <2>4, Overwrites
  <2>6. \A r \in Proc \ {p} : Orderly(r)' /\ Restorable(r)'
    BY <1>2, <2>1, <2>3, OthersKeep
  <2>7. Orderly(p)'
    BY <1>2, <2>1 DEF Orderly, Running, AtCur, Ended
  <2>8. Restorable(p)'
    <3>1. SUFFICES ASSUME alone[p], NEW y \in Place
                   PROVE  was[p][y] = IF log'[p][y] = "no" THEN disk'[y] ELSE Restored(p, y)'
      BY <1>2, <2>1 DEF Restorable, Others
    <3>2. y # x => Restored(p, y)' = Restored(p, y)
      BY <1>2, <2>3 DEF Restored
    <3>3. was[p][y] = IF log[p][y] = "no" THEN disk[y] ELSE Restored(p, y)
      BY <1>6, <3>1
    <3>4. CASE y = x
      BY <1>1, <1>5, <2>3, <3>3, <3>4
    <3>5. CASE y # x
      BY <1>5, <2>3, <3>2, <3>3, <3>5
    <3> QED BY <3>4, <3>5
  <2> QED BY <1>2, <2>1, <2>2, <2>5, <2>6, <2>7, <2>8 DEF CopyInv
<1> QED BY <1>7, <1>8

\* What the owner writes where a process has logged is at risk from then on.
LEMMA EditKeeps ==
  ASSUME CopyInv, NEW x \in Place, EditTarget(x)
  PROVE  CopyInv'
<1>1. /\ next' = next + 1 /\ disk' = [disk EXCEPT ![x] = next] /\ owned' = (owned \ {disk[x]}) \cup {next}
      /\ risky' = risky \cup {c \in {next} : \E p \in Proc : Running(p) /\ log[p][x] # "no"}
      /\ alone' = [p \in Proc |-> FALSE] /\ UNCHANGED <<canon, head, history, backup, replaced, lock, proc>>
  BY DEF EditTarget, copies
<1>2. next \in Nat /\ disk' \in [Place -> Nat] /\ disk'[x] = next /\ \A y \in Place \ {x} : disk'[y] = disk[y]
  BY <1>1 DEF CopyInv, CopyType
<1>3. CopyType'
  BY <1>1, <1>2 DEF CopyInv, CopyType, proc
<1>4. NewContents'
  BY <1>1, <1>2 DEF CopyInv, NewContents, CopyType, NoFile
<1>5. ASSUME NEW p \in Proc, NEW y \in Place, log[p][y] # "no", disk'[y] \in owned' \ (risky' \cup replaced')
      PROVE  Safe(disk'[y])
  <2>1. CASE y = x
    <3>1. Running(p)
      BY <1>5 DEF CopyInv, Orderly, NoLog
    <3> QED BY <1>1, <1>2, <1>5, <2>1, <3>1
  <2>2. CASE y # x
    <3>1. disk'[y] = disk[y] /\ disk[y] # next
      BY <1>2, <2>2 DEF CopyInv, CopyType, NewContents
    <3>2. disk[y] \in owned \ (risky \cup replaced)
      BY <1>1, <1>5, <3>1
    <3> QED BY <1>5, <3>1, <3>2 DEF CopyInv, Covered
  <2> QED BY <2>1, <2>2
<1>6. Covered'
  BY <1>1, <1>5 DEF Covered, Safe, proc
<1>7. NeverLost'
  <2>1. \A c \in owned' \ (risky' \cup replaced') : c = next \/ (c \in owned \ (risky \cup replaced) /\ c # disk[x])
    BY <1>1
  <2> QED BY <1>1, <1>2, <2>1 DEF CopyInv, NeverLost
<1>8. \A p \in Proc : Orderly(p)' /\ Restorable(p)'
  BY <1>1 DEF CopyInv, Orderly, Restorable, Running, AtCur, Untouched, proc
<1> QED BY <1>3, <1>4, <1>6, <1>7, <1>8 DEF CopyInv

LEMMA CanonKeeps ==
  ASSUME CopyInv, NEW f \in File, EditCanon(f)
  PROVE  CopyInv'
<1>1. /\ next' = next + 1 /\ canon' = [canon EXCEPT ![f] = next]
      /\ UNCHANGED <<disk, head, history, owned, risky, backup, replaced, lock, proc, alone>>
  BY DEF EditCanon, copies
<1>2. CopyType' /\ NewContents'
  BY <1>1 DEF CopyInv, CopyType, NewContents, proc
<1>3. Covered' /\ NeverLost'
  BY <1>1 DEF CopyInv, Covered, Safe, NeverLost, proc
<1>4. \A p \in Proc : Orderly(p)' /\ Restorable(p)'
  BY <1>1 DEF CopyInv, Orderly, Restorable, Restored, Running, AtCur, Untouched, proc
<1> QED BY <1>2, <1>3, <1>4 DEF CopyInv

LEMMA CommitKeeps ==
  ASSUME CopyInv, NEW x \in Place, CommitTarget(x)
  PROVE  CopyInv'
<1>1. /\ head' = [head EXCEPT ![x] = disk[x]] /\ history' = [history EXCEPT ![x] = @ \cup {disk[x]}]
      /\ UNCHANGED <<canon, next, owned, risky, disk, backup, replaced, lock, proc, alone>>
  BY DEF CommitTarget, copies
<1>2. CopyType' /\ NewContents'
  BY <1>1 DEF CopyInv, CopyType, NewContents, proc
<1>3. \A y \in Place : history[y] \subseteq history'[y]
  BY <1>1 DEF CopyInv, CopyType
<1>4. \A c : Safe(c) => \E y \in Place : c \in history'[y] \/ \E s \in Stamps : c = backup[s][y]
  BY <1>3 DEF Safe
<1>5. Covered'
  BY <1>1, <1>4 DEF CopyInv, Covered, Safe, proc
<1>6. NeverLost'
  BY <1>1, <1>3 DEF CopyInv, NeverLost
<1>7. \A p \in Proc : Orderly(p)' /\ Restorable(p)'
  BY <1>1 DEF CopyInv, Orderly, Restorable, Restored, Running, AtCur, Untouched, proc
<1> QED BY <1>2, <1>5, <1>6, <1>7 DEF CopyInv

\* All steps; and the one that ends a rollback.
LEMMA CopyStep ==
  ASSUME CopyInv, [PropagateNext]_propagateVars
  PROVE  /\ CopyInv'
         /\ \A p \in Proc : pc[p] = "undo" /\ pc'[p] = "rolled back" /\ alone[p] => disk' = was[p]
<1>1. CASE UNCHANGED propagateVars
  <2>1. UNCHANGED <<owner, disk, backup, replaced, lock, pc, todo, cur, log, was, alone>>
    BY <1>1 DEF propagateVars, proc, copies
  <2>2. CopyType' /\ NewContents' /\ Covered' /\ NeverLost'
    BY <2>1 DEF CopyInv, CopyType, NewContents, Covered, NeverLost, Safe, owner
  <2>3. \A p \in Proc : Orderly(p)' /\ Restorable(p)'
    BY <2>1 DEF CopyInv, Orderly, Restorable, Restored, Running, AtCur, Untouched, owner
  <2> QED BY <2>1, <2>2, <2>3 DEF CopyInv
<1>2. ASSUME NEW x \in Place, EditTarget(x) \/ CommitTarget(x)
      PROVE  CopyInv' /\ pc' = pc
  BY <1>2, EditKeeps, CommitKeeps DEF EditTarget, CommitTarget, proc
<1>3. ASSUME NEW f \in File, EditCanon(f) PROVE CopyInv' /\ pc' = pc
  BY <1>3, CanonKeeps DEF EditCanon, proc
<1>4. ASSUME NEW p \in Proc, Step(p), ~Undo(p)
      PROVE  CopyInv' /\ \A r \in Proc : pc[r] = "undo" => pc'[r] # "rolled back"
  <2>1. CASE Plan(p)
    BY <2>1, PlanKeeps DEF Plan, CopyInv, CopyType
  <2>2. CASE Guard(p) \/ Lock(p) \/ Verify(p) \/ Check(p) \/ Crash(p)
    <3>1. \E at0 \in Where \ {"rolled back"} : pc' = [pc EXCEPT ![p] = at0]
      BY <2>2 DEF Guard, Lock, Verify, Check, Crash, End, Where, Ended
    <3> QED BY <2>2, <3>1, QuietKeeps DEF CopyInv, CopyType
  <2>3. CASE Backup(p)
    BY <2>3, BackupKeeps DEF Backup, CopyInv, CopyType
  <2>4. CASE Write(p)
    BY <2>4, WriteKeeps DEF Write, CopyInv, CopyType
  <2> QED BY <1>4, <2>1, <2>2, <2>3, <2>4 DEF Step
<1>5. ASSUME NEW p \in Proc, Undo(p)
      PROVE  /\ CopyInv'
             /\ \A r \in Proc : pc[r] = "undo" /\ pc'[r] = "rolled back" /\ alone[r] => disk' = was[r]
  BY <1>5, UndoKeeps
<1> QED BY <1>1, <1>2, <1>3, <1>4, <1>5 DEF PropagateNext

LEMMA CopyAlways == PropagateSpec => []CopyInv
<1>1. CopyInv /\ [PropagateNext]_propagateVars => CopyInv'
  BY CopyStep
<1> QED BY <1>1, CopyInitially, PTL DEF PropagateSpec

\* For any number of processes, projects and files: what the owner wrote is on
\* the disk, in a commit or in a backup, whatever runs meet, abort or are killed,
\* unless it was written where a running process had made its backup already,
\* or its backup gave way to that of another run with the same --stamp
\* (git_guard, atomic_copy, rollback_plan).
THEOREM NothingIsLost == PropagateSpec => []NeverLost
<1>1. CopyInv => NeverLost
  BY DEF CopyInv
<1> QED BY <1>1, CopyAlways, PTL

\* A run that is rolled back leaves the targets as it had found them, unless
\* somebody else has written there or to the backup directory it uses.
THEOREM RollbackIsClean == PropagateSpec => FailureLeavesNothing
<1>1. CopyInv /\ [PropagateNext]_propagateVars =>
        [\A p \in Proc : pc[p] = "undo" /\ pc'[p] = "rolled back" /\ alone[p]
                           => disk' = was[p]]_propagateVars
  BY CopyStep
<1> QED BY <1>1, CopyAlways, PTL DEF PropagateSpec, FailureLeavesNothing

-----------------------------------------------------------------------------
\* The tree of skills.  A tree with a good version file is whole, and up to the
\* tidying one of the two is not touched: the one in place while the backup is
\* removed, the backup from then on.
SkillsInv ==
  /\ upstream.version = "good" => upstream.is = "whole"
  /\ saved.version = "good" => saved.is = "whole"
  /\ step \in {"idle", "begun", "cleared", "copying", "patching", "restoring", "tidying", "writing"}
  /\ upstream \in [is : {"none", "part", "raw", "whole"}, version : {"none", "torn", "good"}]
  /\ saved \in [is : {"none", "part", "raw", "whole"}, version : {"none", "torn", "good"}]
  /\ step \in {"begun", "cleared", "tidying", "writing"} => upstream.is = "whole"
  /\ step \in {"copying", "patching", "restoring"} => saved.is = "whole" /\ upstream.version = "none"
  /\ step = "idle" => upstream.is = "whole" \/ saved.is = "whole"

\* However often skill-update --apply fails, is killed and is run again, the
\* skills are there whole in one of the two places, if the source brings no
\* version file of its own (with one, a torn copy passes for a good tree).
THEOREM SkillsStay == ASSUME SourceVersioned = FALSE PROVE SkillsSpec => []TreeKept
<1>1. SkillsInit => SkillsInv
  BY DEF SkillsInit, SkillsInv, NoTree
<1>2. SkillsInv => TreeKept
  BY DEF SkillsInv, TreeKept
<1>3. SkillsInv /\ [SkillsNext]_skillsVars => SkillsInv'
  <2> SUFFICES ASSUME SkillsInv, [SkillsNext]_skillsVars PROVE SkillsInv'
    OBVIOUS
  <2>1. CASE Begin
    BY <2>1 DEF Begin, SkillsInv
  <2>2. CASE RemoveSaved
    BY <2>2 DEF RemoveSaved, SkillsInv, NoTree
  <2>3. CASE MoveAway
    BY <2>3 DEF MoveAway, SkillsInv, NoTree
  <2>4. CASE Copy
    BY <2>4 DEF Copy, Copied, SkillsInv
  <2>5. CASE Patch
    BY <2>5 DEF Patch, SkillsInv
  <2>6. CASE Restore
    BY <2>6 DEF Restore, SkillsInv, NoTree
  <2>7. CASE Tidy
    BY <2>7 DEF Tidy, SkillsInv, NoTree
  <2>8. CASE WriteVersion
    BY <2>8 DEF WriteVersion, SkillsInv
  <2>9. CASE Killed
    BY <2>9 DEF Killed, SkillsInv
  <2>10. CASE UNCHANGED skillsVars
    BY <2>10 DEF skillsVars, SkillsInv
  <2> QED BY <2>1, <2>2, <2>3, <2>4, <2>5, <2>6, <2>7, <2>8, <2>9, <2>10 DEF SkillsNext
<1> QED BY <1>1, <1>2, <1>3, PTL DEF SkillsSpec

-----------------------------------------------------------------------------
\* The vault.

\* What a step file may hold is no word for its state.
LEMMA CanonicalIsReal == \A s \in Canonical : s # None /\ s # Torn /\ s # Fails
BY VaultAssumption DEF Canonical, None, Torn, Fails

LEMMA Words == None # Torn /\ None # Fails /\ Torn # Fails
BY DEF None, Torn, Fails

Light == {s \in Canonical : s \cap Dense = {}}
Heavy == {s \in Canonical : s \cap Dense # {}}

\* What a capture has taken, or a manifest lists.
Taken == [overlay : {"none", "v1", "bad"}, fork : Canonical \cup {None}, storage : {"none", "patch", "snapshot"}]

StepFile == [up : Nat, edits : SUBSET (Edit \cup Local)]

\* What is stored as what.
VaultType ==
  /\ tF \in StepFile
  /\ planF.do \in {"skip", "conflict", "install"}
  /\ planF.do = "install" => planF.file \in StepFile
  /\ canonO \in Overlay /\ canonF \in Canonical
  /\ snap \in Heavy \cup {None, Torn} /\ patch \in Light \cup {None, Torn}
  /\ got \in Taken /\ manifest \in Taken /\ loaded \in Taken
  /\ \A m \in {got, manifest, loaded} : m.storage = "patch" => m.fork \in Light

\* A capture: what it has taken so far is in the vault, the fork from the
\* removal of its other form on.
Captured ==
  /\ cpc \in {"idle", "overlay", "base", "patch", "patched", "unsnap", "snap", "snapped", "unpatch", "manifest", "commit"}
  /\ got.overlay # "none" => vO = got.overlay /\ vO # "bad"
  /\ cpc \in {"idle", "overlay", "base"} => got.fork = None
  /\ cpc \in {"idle", "overlay"} => got.overlay = "none"
  /\ cpc \in {"patch", "patched", "unsnap"} => got.fork \in Light
  /\ cpc \in {"snap", "snapped", "unpatch"} => got.fork \in Heavy
  /\ cpc = "unsnap" => patch = got.fork
  /\ cpc = "unpatch" => snap = got.fork
  /\ cpc \in {"manifest", "commit"} /\ got.fork # None => Reconstruct(snap, patch) = {got.fork}
  /\ cpc = "commit" => manifest = got

\* An installation nobody has disturbed: what it is going to do with the step
\* file leaves the fork in it, and the owner's edits.
Planned ==
  /\ ipc = "plan patch" => mode = "post-upgrade" /\ (patch = loaded.fork \/ loaded.fork = {})
  /\ ipc \in {"decide", "write"} /\ planF.do = "skip" => loaded.fork = None \/ loaded.fork \subseteq tF.edits
  /\ ipc \in {"decide", "write"} /\ planF.do = "install" =>
       loaded.fork \subseteq planF.file.edits /\ tF.edits \ Edit \subseteq planF.file.edits
  /\ ipc = "write" => planF.do \in {"skip", "install"}

VaultInv ==
  /\ VaultType /\ Captured
  /\ clear => Planned
  /\ ipc = "idle" => loaded = Nothing

LEMMA VaultInitially == VaultInit => VaultInv
<1> SUFFICES ASSUME VaultInit PROVE VaultInv
  OBVIOUS
<1>1. Nothing \in Taken /\ Nothing.fork = None /\ Nothing.storage = "none" /\ Nothing.overlay = "none"
  BY DEF Nothing, Taken
<1>2. VaultType
  BY <1>1 DEF VaultInit, VaultType, StepFile
<1>3. Captured
  BY <1>1 DEF VaultInit, Captured
<1> QED BY <1>2, <1>3 DEF VaultInit, VaultInv

\* The step of a capture: the installation is disturbed.
LEMMA CaptureKeeps == VaultInv /\ Capture => VaultInv'
<1> SUFFICES ASSUME VaultInv, Capture PROVE VaultInv'
  OBVIOUS
<1>1. Nothing \in Taken /\ Nothing.fork = None /\ Nothing.storage = "none" /\ Nothing.overlay = "none"
  BY DEF Nothing, Taken
<1>2. VaultType /\ Captured /\ clear' = FALSE /\ loaded' = loaded /\ ipc' = ipc /\ UNCHANGED <<canonO, canonF, tF, planF>>
  BY DEF VaultInv, Capture, BeginCapture, CaptureOverlay, CaptureFork, CapturePatch, CaptureSnapshot,
         WriteManifest, EndCapture, canonVars, targetVars, installVars
<1>3. ASSUME VaultType', Captured' PROVE VaultInv'
  BY <1>2, <1>3 DEF VaultInv
<1>4. CASE BeginCapture
  <2>1. VaultType'
    BY <1>2, <1>4 DEF BeginCapture, VaultType, vaultVars
  <2>2. Captured'
    BY <1>2, <1>4 DEF BeginCapture, Captured, vaultVars
  <2> QED BY <1>3, <2>1, <2>2
<1>5. CASE CaptureOverlay
  <2>1. VaultType'
    BY <1>2, <1>5 DEF CaptureOverlay, VaultType, Taken, Overlay
  <2>2. Captured'
    BY <1>2, <1>5 DEF CaptureOverlay, AfterOverlay, Captured, VaultType, Taken, Overlay
  <2> QED BY <1>3, <2>1, <2>2
<1>6. CASE CaptureFork
  <2>1. got' = [got EXCEPT !.fork = canonF] /\ got'.fork = canonF /\ got'.overlay = got.overlay
        /\ got'.storage = got.storage /\ got' \in Taken
    BY <1>2, <1>6 DEF CaptureFork, VaultType, Taken
  <2>2. got.storage # "patch"
    BY <1>2, <1>6, CanonicalIsReal DEF CaptureFork, Captured, VaultType, Light
  <2>3. VaultType'
    BY <1>2, <1>6, <2>1, <2>2 DEF CaptureFork, VaultType
  <2>4. Captured'
    BY <1>2, <1>6, <2>1 DEF CaptureFork, Captured, VaultType, Light, Heavy
  <2> QED BY <1>3, <2>3, <2>4
<1>7. CASE CapturePatch
  <2>1. got'.fork = got.fork /\ got'.overlay = got.overlay /\ got' \in Taken /\ got'.storage \in {got.storage, "patch"}
    BY <1>2, <1>7 DEF CapturePatch, VaultType, Taken
  <2>2. got.fork \in Light /\ got.fork # None /\ got.fork # Torn
    BY <1>2, <1>7, CanonicalIsReal DEF CapturePatch, Captured, Light
  <2>3. VaultType'
    BY <1>2, <1>7, <2>1, <2>2 DEF CapturePatch, VaultType
  <2>4. Captured'
    BY <1>2, <1>7, <2>1, <2>2 DEF CapturePatch, Captured, Reconstruct
  <2> QED BY <1>3, <2>3, <2>4
<1>8. CASE CaptureSnapshot
  <2>1. got'.fork = got.fork /\ got'.overlay = got.overlay /\ got' \in Taken /\ got'.storage \in {got.storage, "snapshot"}
    BY <1>2, <1>8 DEF CaptureSnapshot, VaultType, Taken
  <2>2. got.fork \in Heavy /\ got.fork # None /\ got.fork # Torn
    BY <1>2, <1>8, CanonicalIsReal DEF CaptureSnapshot, Captured, Heavy
  <2>3. VaultType'
    BY <1>2, <1>8, <2>1, <2>2 DEF CaptureSnapshot, VaultType
  <2>4. Captured'
    BY <1>2, <1>8, <2>1, <2>2 DEF CaptureSnapshot, Captured, Reconstruct
  <2> QED BY <1>3, <2>3, <2>4
<1>9. CASE WriteManifest
  <2>1. VaultType'
    BY <1>1, <1>2, <1>9 DEF WriteManifest, NoCapture, VaultType
  <2>2. Captured'
    BY <1>1, <1>2, <1>9 DEF WriteManifest, NoCapture, Captured
  <2> QED BY <1>3, <2>1, <2>2
<1>10. CASE EndCapture
  <2>1. VaultType'
    BY <1>1, <1>2, <1>10 DEF EndCapture, NoCapture, VaultType, vaultVars
  <2>2. Captured'
    BY <1>1, <1>2, <1>10 DEF EndCapture, NoCapture, Captured, vaultVars
  <2> QED BY <1>3, <2>1, <2>2
<1> QED BY <1>4, <1>5, <1>6, <1>7, <1>8, <1>9, <1>10 DEF Capture

\* The owners' steps.
LEMMA OwnersKeep == VaultInv /\ (EditCanonical \/ EditTargetFile) => VaultInv'
<1> SUFFICES ASSUME VaultInv, EditCanonical \/ EditTargetFile PROVE VaultInv'
  OBVIOUS
<1>1. CASE EditCanonical
  <2>1. UNCHANGED <<snap, patch, vO, got, manifest, loaded, tF, planF, cpc, ipc>> /\ clear' = FALSE
        /\ canonO' \in Overlay /\ canonF' \in Canonical
    BY <1>1 DEF EditCanonical, vaultVars, captureVars, targetVars, installVars
  <2>2. VaultType' /\ Captured'
    BY <2>1 DEF VaultInv, VaultType, Captured
  <2> QED BY <2>1, <2>2 DEF VaultInv
<1>2. CASE EditTargetFile
  <2>1. UNCHANGED <<canonO, canonF, snap, patch, vO, got, manifest, loaded, planF, cpc, ipc>> /\ clear' = FALSE
    BY <1>2 DEF EditTargetFile, canonVars, vaultVars, captureVars, installVars
  <2>2. tF' \in StepFile
    BY <1>2 DEF EditTargetFile, VaultInv, VaultType, StepFile
  <2>3. VaultType' /\ Captured'
    BY <2>1, <2>2 DEF VaultInv, VaultType, Captured
  <2> QED BY <2>1, <2>3 DEF VaultInv
<1> QED BY <1>1, <1>2

\* post-upgrade reads the patch of the fork it has found whole: no snapshot
\* stands beside it, for a fork this light has none.
LEMMA PatchIsTheFork ==
  ASSUME VaultType, loaded.storage = "patch", loaded.fork \in Reconstruct(snap, patch)
  PROVE  patch = loaded.fork \/ loaded.fork = {}
<1>1. loaded.fork \in Canonical /\ loaded.fork \cap Dense = {}
  BY DEF VaultType, Light
<1>2. loaded.fork # None /\ loaded.fork # Torn /\ loaded.fork # Fails
  BY <1>1, CanonicalIsReal
<1>3. snap = None
  BY <1>1, <1>2 DEF Reconstruct, VaultType, Heavy
<1> QED BY <1>2, <1>3 DEF Reconstruct

\* The steps of an installation.
LEMMA ConsumeKeeps ==
  VaultInv /\ Consume =>
    /\ VaultInv'
    /\ ipc = "write" /\ ipc' = "applied" /\ clear
         => /\ loaded.fork = None \/ loaded.fork \subseteq tF'.edits
            /\ tF.edits \ Edit \subseteq tF'.edits
<1> DEFINE Arrived == ipc = "write" /\ ipc' = "applied" /\ clear
                        => /\ loaded.fork = None \/ loaded.fork \subseteq tF'.edits
                           /\ tF.edits \ Edit \subseteq tF'.edits
<1> SUFFICES ASSUME VaultInv, Consume PROVE VaultInv' /\ Arrived
  OBVIOUS
<1>1. UNCHANGED <<canonO, canonF, vO, snap, patch, manifest, got, cpc>>
  BY DEF Consume, BeginInstall, PlanOverlay, PlanFork, PlanPatch, Decide, Install, EndInstall,
         canonVars, vaultVars, captureVars
<1>2. Captured'
  BY <1>1 DEF VaultInv, Captured
<1>3. VaultType /\ tF \in StepFile
  BY DEF VaultInv, VaultType
<1>4. ASSUME UNCHANGED <<loaded, tF, planF>> PROVE VaultType'
  BY <1>1, <1>3, <1>4 DEF VaultType
<1>5. CASE BeginInstall
  <2>1. loaded' \in Taken /\ (loaded'.storage = "patch" => loaded'.fork \in Light)
        /\ UNCHANGED <<tF, planF>> /\ ipc' \in {"plan overlay", "plan fork"}
    BY <1>3, <1>5 DEF BeginInstall, VaultType, targetVars
  <2>2. VaultType'
    BY <1>1, <1>3, <2>1 DEF VaultType
  <2> QED BY <1>2, <2>1, <2>2 DEF VaultInv, Planned
<1>6. CASE PlanOverlay
  BY <1>2, <1>4, <1>6 DEF PlanOverlay, targetVars, VaultInv, Planned
<1>7. CASE PlanFork
  <2>1. UNCHANGED <<tF, loaded, mode, clear>> /\ ipc = "plan fork" /\ ipc' \in {"decide", "plan patch"}
    BY <1>7 DEF PlanFork, targetVars
  <2>2. CASE loaded.fork = None \/ tF = Forked
    <3>1. planF' = [do |-> "skip"] /\ ipc' = "decide"
      BY <1>7, <2>2 DEF PlanFork
    <3>2. VaultType'
      BY <1>1, <1>3, <2>1, <3>1 DEF VaultType
    <3>3. loaded.fork = None \/ loaded.fork \subseteq tF.edits
      BY <2>2 DEF Forked
    <3> QED BY <1>2, <2>1, <3>1, <3>2, <3>3 DEF VaultInv, Planned
  <2>3. CASE ~(loaded.fork = None \/ tF = Forked)
    <3>1. PICK c \in Reconstruct(snap, patch) :
            IF ~Intact(c) THEN planF' = [do |-> "conflict"] /\ ipc' = "decide"
            ELSE IF mode = "post-upgrade" /\ loaded.storage = "patch"
            THEN ipc' = "plan patch" /\ UNCHANGED planF
            ELSE /\ ipc' = "decide"
                 /\ planF' = IF tF = Pinned
                             THEN [do |-> "install", file |-> [up |-> 0, edits |-> c]]
                             ELSE [do |-> "conflict"]
      BY <1>7, <2>3 DEF PlanFork
    <3>2. CASE planF' = [do |-> "conflict"] /\ ipc' = "decide"
      <4>1. VaultType'
        BY <1>1, <1>3, <2>1, <3>2 DEF VaultType
      <4> QED BY <1>2, <2>1, <3>2, <4>1 DEF VaultInv, Planned
    <3>3. CASE Intact(c) /\ mode = "post-upgrade" /\ loaded.storage = "patch"
      <4>1. ipc' = "plan patch" /\ planF' = planF
        BY <3>1, <3>3
      <4>2. patch = loaded.fork \/ loaded.fork = {}
        BY <1>3, <3>1, <3>3, PatchIsTheFork DEF Intact
      <4>3. VaultType'
        BY <1>4, <2>1, <4>1
      <4> QED BY <1>1, <1>2, <2>1, <3>3, <4>1, <4>2, <4>3 DEF VaultInv, Planned
    <3>4. CASE Intact(c) /\ tF = Pinned /\ ~(mode = "post-upgrade" /\ loaded.storage = "patch")
      <4>1. ipc' = "decide" /\ planF' = [do |-> "install", file |-> [up |-> 0, edits |-> loaded.fork]]
        BY <3>1, <3>4 DEF Intact
      <4>2. loaded.fork \in Canonical /\ tF.edits = {}
        BY <1>3, <2>3, <3>4 DEF VaultType, Taken, Pinned
      <4>3. planF'.do = "install" /\ planF'.file \in StepFile /\ planF'.file.edits = loaded.fork
        BY <4>1, <4>2 DEF StepFile, Canonical
      <4>4. VaultType'
        BY <1>1, <1>3, <2>1, <4>3 DEF VaultType
      <4> QED BY <1>2, <2>1, <4>1, <4>2, <4>3, <4>4 DEF VaultInv, Planned
    <3> QED BY <3>1, <3>2, <3>3, <3>4
  <2> QED BY <2>2, <2>3
<1>8. CASE PlanPatch
  <2>1. UNCHANGED <<tF, loaded, mode, clear>> /\ ipc = "plan patch" /\ ipc' = "decide"
    BY <1>8 DEF PlanPatch, targetVars
  <2>2. patch \in Light \cup {Torn} /\ (clear => patch = loaded.fork \/ loaded.fork = {})
    BY <1>3, <1>8 DEF PlanPatch, VaultType, VaultInv, Planned
  <2>3. CASE planF' = [do |-> "conflict"]
    <3>1. VaultType'
      BY <1>1, <1>3, <2>1, <2>3 DEF VaultType
    <3> QED BY <1>2, <2>1, <2>3, <3>1 DEF VaultInv, Planned
  <2>4. CASE patch = Torn /\ planF' = [do |-> "install", file |-> tF]
    <3>1. planF'.do = "install" /\ planF'.file = tF
      BY <2>4
    <3>2. clear => loaded.fork = {}
      <4>1. loaded.fork # Torn
        BY <1>3, CanonicalIsReal, Words DEF VaultType, Taken
      <4> QED BY <2>2, <2>4, <4>1
    <3>3. VaultType'
      BY <1>1, <1>3, <2>1, <3>1 DEF VaultType
    <3> QED BY <1>2, <2>1, <3>1, <3>2, <3>3 DEF VaultInv, Planned
  <2>5. CASE patch # Torn /\ planF' = [do |-> "install", file |-> [tF EXCEPT !.edits = @ \cup patch]]
    <3>1. patch \subseteq Edit
      BY <2>2, <2>5 DEF Light, Canonical
    <3>2. planF'.do = "install" /\ planF'.file \in StepFile /\ planF'.file.edits = tF.edits \cup patch
      BY <1>3, <2>5, <3>1 DEF StepFile
    <3>3. VaultType'
      BY <1>1, <1>3, <2>1, <3>2 DEF VaultType
    <3> QED BY <1>2, <2>1, <2>2, <3>2, <3>3 DEF VaultInv, Planned
  <2> QED BY <1>8, <2>3, <2>4, <2>5 DEF PlanPatch
<1>9. CASE Decide
  BY <1>2, <1>3, <1>4, <1>9 DEF Decide, targetVars, VaultInv, VaultType, Planned
<1>10. CASE Install
  <2>1. UNCHANGED <<loaded, planF, mode, clear>> /\ ipc = "write" /\ ipc' \in {"write", "applied"}
    BY <1>10 DEF Install
  <2>2. (tF' = tF /\ (ipc' = "applied" => planF.do # "install"))
        \/ (planF.do = "install" /\ tF' = planF.file /\ ipc' = "applied")
    BY <1>10 DEF Install, Installs
  <2>3. VaultType'
    BY <1>1, <1>3, <2>1, <2>2 DEF VaultType
  <2>4. clear => Planned'
    BY <2>1, <2>2 DEF VaultInv, Planned
  <2>5. Arrived
    BY <2>1, <2>2 DEF VaultInv, Planned
  <2> QED BY <1>2, <2>1, <2>3, <2>4, <2>5 DEF VaultInv
<1>11. CASE EndInstall
  <2>1. Nothing \in Taken /\ Nothing.storage = "none"
    BY DEF Nothing, Taken
  <2>2. loaded' = Nothing /\ planF' = [do |-> "skip"] /\ tF' = tF /\ ~clear' /\ ipc' = "idle"
    BY <1>11 DEF EndInstall, NoInstall, targetVars
  <2>3. VaultType'
    BY <1>1, <1>3, <2>1, <2>2 DEF VaultType
  <2> QED BY <1>2, <2>2, <2>3 DEF VaultInv
<1> QED BY <1>5, <1>6, <1>7, <1>8, <1>9, <1>10, <1>11 DEF Consume

LEMMA VaultStep ==
  VaultInv /\ [VaultNext]_allVars =>
    /\ VaultInv'
    /\ ipc = "write" /\ ipc' = "applied" /\ clear
         => /\ loaded.fork = None \/ loaded.fork \subseteq tF'.edits
            /\ tF.edits \ Edit \subseteq tF'.edits
<1> SUFFICES ASSUME VaultInv, [VaultNext]_allVars
             PROVE  /\ VaultInv'
                    /\ ipc = "write" /\ ipc' = "applied" /\ clear
                         => /\ loaded.fork = None \/ loaded.fork \subseteq tF'.edits
                            /\ tF.edits \ Edit \subseteq tF'.edits
  OBVIOUS
<1>1. CASE EditCanonical \/ EditTargetFile
  BY <1>1, OwnersKeep DEF EditCanonical, EditTargetFile, installVars
<1>2. CASE Capture
  BY <1>2, CaptureKeeps DEF Capture, BeginCapture, CaptureOverlay, CaptureFork, CapturePatch,
     CaptureSnapshot, WriteManifest, EndCapture, installVars
<1>3. CASE Consume
  BY <1>3, ConsumeKeeps
<1>4. CASE UNCHANGED allVars
  <2>1. UNCHANGED <<canonO, canonF, vO, snap, patch, manifest, cpc, got, tF, ipc, mode, loaded, planF, clear>>
    BY <1>4 DEF allVars, canonVars, vaultVars, captureVars, targetVars, installVars
  <2>2. VaultType'
    BY <2>1 DEF VaultInv, VaultType
  <2>3. Captured'
    BY <2>1 DEF VaultInv, Captured
  <2> QED BY <2>1, <2>2, <2>3 DEF VaultInv, Planned
<1> QED BY <1>1, <1>2, <1>3, <1>4 DEF VaultNext

\* For any edits, however captures fail, are killed or skip an artifact: what a
\* manifest lists when it is committed is in the vault, whole.
THEOREM CaptureIsSound == VaultSpec => []CommitIsSound
<1>1. VaultInv => CommitIsSound
  BY DEF VaultInv, Captured, CommitIsSound
<1>2. VaultInv /\ [VaultNext]_allVars => VaultInv'
  BY VaultStep
<1> QED BY <1>1, <1>2, VaultInitially, PTL DEF VaultSpec

\* An undisturbed installation that ends well leaves in the step file the fork of
\* the manifest and the edits of the target's owner.
THEOREM InstallArrives == VaultSpec => ForkArrives
<1>1. VaultInv /\ [VaultNext]_allVars => VaultInv'
  BY VaultStep
<1>2. VaultInv /\ [VaultNext]_allVars =>
        [(ipc = "write" /\ ipc' = "applied" /\ clear)
           => /\ loaded.fork = None \/ loaded.fork \subseteq tF'.edits
              /\ tF.edits \ Edit \subseteq tF'.edits]_allVars
  BY VaultStep
<1> QED BY <1>1, <1>2, VaultInitially, PTL DEF VaultSpec, ForkArrives
-----------------------------------------------------------------------------
\* The policies.
Befores == UNION {[fs -> Value] : fs \in SUBSET Policies}
Batch == [stamps : Seq(1..MaxSec), before : Befores]

PolicyType ==
  /\ policy \in [Policies -> Value]
  /\ kept \in [Policies -> [1..MaxSec -> Value \cup {Absent}]]
  /\ sec \in 1..MaxSec
  /\ applying \in [Writer -> Seq(Proposal)] /\ taken \in [Writer -> 0..MaxSec]
  /\ stamps \in Seq(1..MaxSec) /\ undoing \in Seq(1..MaxSec)
  /\ batches \in Seq(Batch) /\ undoFails \in BOOLEAN
  /\ tuning \in Value \cup {Absent}

\* No backup is named for a time to come.
NoneLater == \A f \in Policies : \A t \in 1..MaxSec : t > sec => kept[f][t] = Absent

\* The last batch is being applied, or all are recorded, and the last may be
\* under way back.
Phases ==
  /\ applying["service"] # <<>> \/ stamps # <<>> =>
       /\ batches # <<>> /\ batches[Len(batches)].stamps = <<>> /\ undoing = <<>>
  /\ \A k \in 1..Len(batches) : k < Len(batches) => batches[k].stamps # <<>>
  /\ undoing # <<>> => /\ batches # <<>> /\ batches[Len(batches)].stamps # <<>>
                       /\ Range(undoing) \subseteq Range(batches[Len(batches)].stamps)

\* Backups of these names bring the files of a batch back: each file is as it was
\* or has such a backup, and each name is that of a backup of a file of the batch
\* that is not still to be written.
Undoable(pol, kep, before, names, todo0) ==
  /\ \A f \in DOMAIN before : pol[f] = before[f] \/ \E t \in names : kep[f][t] = before[f]
  /\ DOMAIN before # {} => \A t \in names : \E g \in DOMAIN before \ todo0 : kep[g][t] = before[g]

\* The names of a batch, and its files still to be written.
Names(k) == IF k = Len(batches) /\ batches[k].stamps = <<>> THEN Range(stamps) ELSE Range(batches[k].stamps)
Still(k) == IF k = Len(batches) THEN FilesOf(applying["service"]) ELSE {}

\* What is still to be written is as it was, and is written once.
ToWrite ==
  batches # <<>> /\ DOMAIN batches[Len(batches)].before # {} =>
    /\ Distinct(applying["service"])
    /\ \A f \in FilesOf(applying["service"]) :
         f \in DOMAIN batches[Len(batches)].before /\ policy[f] = batches[Len(batches)].before[f]

\* The backup the service has taken for the file it is about to write is that of
\* the file as it was, and the newest.
Ready ==
  /\ applying["service"] = <<>> => taken["service"] = 0
  /\ taken["service"] # 0 /\ batches # <<>> /\ DOMAIN batches[Len(batches)].before # {} =>
       LET g == FileOf("service") IN
       /\ kept[g][taken["service"]] = batches[Len(batches)].before[g]
       /\ \A t \in 1..MaxSec : t > taken["service"] => kept[g][t] = Absent

PolicyInv ==
  /\ PolicyType /\ NoneLater /\ Phases /\ ToWrite /\ Ready
  /\ \A k \in 1..Len(batches) : Undoable(policy, kept, batches[k].before, Names(k), Still(k))
  /\ undoing # <<>> /\ ~undoFails =>
       Undoable(policy, kept, batches[Len(batches)].before, Range(undoing), {})

\* Sequences: the values of one that is extended or consumed.
LEMMA RangeOfAppend ==
  ASSUME NEW S, NEW s \in Seq(S), NEW e \in S
  PROVE  Range(Append(s, e)) = Range(s) \cup {e}
<1> PICK t : t = Append(s, e)
  OBVIOUS
<1>1. /\ Len(t) = Len(s) + 1 /\ DOMAIN t = 1..Len(t) /\ DOMAIN s = 1..Len(s) /\ Len(s) \in Nat
      /\ t[Len(s) + 1] = e /\ \A i \in 1..Len(s) : t[i] = s[i]
  BY AppendProperties, LenProperties
<1>2. \A x : x \in Range(t) <=> \E i \in 1..Len(t) : x = t[i]
  BY <1>1 DEF Range
<1>3. \A x : x \in Range(s) <=> \E i \in 1..Len(s) : x = s[i]
  BY <1>1 DEF Range
<1>4. \A i : i \in 1..Len(t) <=> i \in 1..Len(s) \/ i = Len(s) + 1
  BY <1>1
<1> QED BY <1>1, <1>2, <1>3, <1>4

LEMMA RangeOfTail ==
  ASSUME NEW S, NEW s \in Seq(S), s # <<>>
  PROVE  Range(s) = Range(Tail(s)) \cup {Head(s)}
<1> PICK t : t = Tail(s)
  OBVIOUS
<1>1. /\ Len(t) = Len(s) - 1 /\ DOMAIN t = 1..Len(t) /\ DOMAIN s = 1..Len(s) /\ Len(s) \in Nat \ {0}
      /\ \A i \in 1..Len(t) : t[i] = s[i + 1]
  BY HeadTailProperties, LenProperties, EmptySeq
<1>2. \A x : x \in Range(t) <=> \E i \in 1..Len(t) : x = t[i]
  BY <1>1 DEF Range
<1>3. \A x : x \in Range(s) <=> \E i \in 1..Len(s) : x = s[i]
  BY <1>1 DEF Range
<1>4. Head(s) = s[1] /\ 1 \in 1..Len(s)
  BY <1>1
<1>5. ASSUME NEW x \in Range(s) PROVE x \in Range(t) \cup {Head(s)}
  <2> PICK i \in 1..Len(s) : x = s[i]
    BY <1>3
  <2>1. CASE i = 1
    BY <1>4, <2>1
  <2>2. CASE i # 1
    <3>1. i - 1 \in 1..Len(t) /\ t[i - 1] = s[i]
      BY <1>1, <2>2
    <3> QED BY <1>2, <3>1
  <2> QED BY <2>1, <2>2
<1>6. ASSUME NEW x \in Range(t) PROVE x \in Range(s)
  <2> PICK i \in 1..Len(t) : x = t[i]
    BY <1>2
  <2>1. i + 1 \in 1..Len(s) /\ t[i] = s[i + 1]
    BY <1>1
  <2> QED BY <1>3, <2>1
<1>7. Head(s) \in Range(s)
  BY <1>3, <1>4
<1> QED BY <1>5, <1>6, <1>7

\* The files of what remains of a batch.
LEMMA FilesOfTail ==
  ASSUME NEW s \in Seq(Proposal), s # <<>>
  PROVE  /\ FilesOf(Tail(s)) \subseteq FilesOf(s) /\ Head(s).file \in FilesOf(s)
         /\ Distinct(s) => Distinct(Tail(s)) /\ Head(s).file \notin FilesOf(Tail(s))
<1> PICK t : t = Tail(s)
  OBVIOUS
<1>1. /\ Len(t) = Len(s) - 1 /\ DOMAIN t = 1..Len(t) /\ DOMAIN s = 1..Len(s) /\ Len(s) \in Nat \ {0}
      /\ \A i \in 1..Len(t) : t[i] = s[i + 1]
  BY HeadTailProperties, LenProperties, EmptySeq
<1>2. \A x : x \in FilesOf(t) <=> \E i \in 1..Len(t) : x = t[i].file
  BY <1>1 DEF FilesOf
<1>3. \A x : x \in FilesOf(s) <=> \E i \in 1..Len(s) : x = s[i].file
  BY <1>1 DEF FilesOf
<1>4. Head(s) = s[1] /\ 1 \in 1..Len(s)
  BY <1>1
<1>5. ASSUME NEW i \in 1..Len(t) PROVE i + 1 \in 1..Len(s) /\ t[i] = s[i + 1] /\ i + 1 # 1
  BY <1>1
<1>6. FilesOf(t) \subseteq FilesOf(s)
  BY <1>2, <1>3, <1>5
<1>7. Head(s).file \in FilesOf(s)
  BY <1>3, <1>4
<1>8. ASSUME Distinct(s) PROVE Distinct(t) /\ Head(s).file \notin FilesOf(t)
  <2>1. \A i, j \in 1..Len(s) : i # j => s[i].file # s[j].file
    BY <1>1, <1>8 DEF Distinct
  <2>2. ASSUME NEW i \in 1..Len(t), NEW j \in 1..Len(t), i # j PROVE t[i].file # t[j].file
    <3>1. i + 1 # j + 1
      BY <2>2, <1>1
    <3> QED BY <1>5, <2>1, <3>1
  <2>3. ASSUME NEW i \in 1..Len(t) PROVE t[i].file # Head(s).file
    BY <1>4, <1>5, <2>1
  <2> QED BY <1>1, <1>2, <2>2, <2>3 DEF Distinct
<1> QED BY <1>6, <1>7, <1>8
LEMMA BatchIs ==
  ASSUME NEW b \in Batch
  PROVE  /\ b.stamps \in Seq(1..MaxSec) /\ DOMAIN b.before \subseteq Policies
         /\ \A f \in DOMAIN b.before : b.before[f] \in Value /\ b.before[f] # Absent
         /\ [b EXCEPT !.before = <<>>] \in Batch
<1>1. PICK fs \in SUBSET Policies : b.before \in [fs -> Value]
  BY DEF Batch, Befores
<1>2. \A f \in DOMAIN b.before : b.before[f] # Absent
  BY <1>1, PolicyAssumption DEF Value, Absent
<1>3. <<>> \in [{} -> Value]
  <2>1. <<>> \in [1..0 -> Value]
    BY EmptySeq, LenProperties
  <2> QED BY <2>1
<1>4. <<>> \in Befores
  BY <1>3 DEF Befores
<1> QED BY <1>1, <1>2, <1>4 DEF Batch

LEMMA TouchedIs ==
  ASSUME PolicyType, NEW fs, NEW own
  PROVE  /\ Touched(fs, own) \in Seq(Batch) /\ Len(Touched(fs, own)) = Len(batches)
         /\ \A k \in 1..Len(batches) :
              /\ Touched(fs, own)[k].stamps = batches[k].stamps
              /\ \/ DOMAIN Touched(fs, own)[k].before = {}
                 \/ /\ Touched(fs, own)[k].before = batches[k].before
                    /\ k = own \/ DOMAIN batches[k].before \cap fs = {}
              /\ k = own => Touched(fs, own)[k] = batches[k]
<1> DEFINE T == Touched(fs, own)
<1>1. Len(batches) \in Nat /\ DOMAIN batches = 1..Len(batches) /\ \A k \in 1..Len(batches) : batches[k] \in Batch
  BY LenProperties, ElementOfSeq DEF PolicyType
<1>2. \A k \in 1..Len(batches) :
        T[k] = IF k # own /\ DOMAIN batches[k].before \cap fs # {} THEN [batches[k] EXCEPT !.before = <<>>]
                                                              ELSE batches[k]
  BY <1>1 DEF Touched
<1>3. \A k \in 1..Len(batches) : T[k] \in Batch
  BY <1>1, <1>2, BatchIs
<1>4. T \in [1..Len(batches) -> Batch]
  BY <1>1, <1>3 DEF Touched
<1>5. T \in Seq(Batch) /\ Len(T) = Len(batches)
  BY <1>1, <1>4
<1>6. DOMAIN <<>> = {}
  BY EmptySeq, LenProperties
<1>7. \A k \in 1..Len(batches) : T[k].stamps = batches[k].stamps
  BY <1>1, <1>2 DEF Batch
<1>8. ASSUME NEW k \in 1..Len(batches)
      PROVE  DOMAIN T[k].before = {} \/ (T[k] = batches[k] /\ (k = own \/ DOMAIN batches[k].before \cap fs = {}))
  <2>1. CASE k # own /\ DOMAIN batches[k].before \cap fs # {}
    <3>1. T[k].before = <<>>
      BY <1>1, <1>2, <2>1 DEF Batch
    <3> QED BY <1>6, <3>1
  <2>2. CASE ~(k # own /\ DOMAIN batches[k].before \cap fs # {})
    BY <1>2, <2>2
  <2> QED BY <2>1, <2>2
<1>9. \A k \in 1..Len(batches) : k = own => T[k] = batches[k]
  BY <1>2
<1> HIDE DEF T
<1>10. /\ \A k \in 1..Len(batches) :
              /\ T[k].stamps = batches[k].stamps
              /\ \/ DOMAIN T[k].before = {}
                 \/ /\ T[k].before = batches[k].before
                    /\ k = own \/ DOMAIN batches[k].before \cap fs = {}
              /\ k = own => T[k] = batches[k]
  BY <1>7, <1>8, <1>9
<1> QED BY <1>5, <1>10 DEF T

\* Files are written; what was undoable and is not of these files still is.
LEMMA OthersUndoable ==
  ASSUME PolicyType, NEW fs, NEW own, \A f \in Policies \ fs : policy'[f] = policy[f] /\ kept'[f] = kept[f],
         NEW k \in 1..Len(batches), k # own, NEW names, NEW left,
         Undoable(policy, kept, batches[k].before, names, left)
  PROVE  Undoable(policy', kept', Touched(fs, own)[k].before, names, left)
<1> PICK T : T = Touched(fs, own)
  OBVIOUS
<1>1. CASE DOMAIN T[k].before = {}
  BY <1>1 DEF Undoable
<1>2. CASE T[k].before = batches[k].before /\ DOMAIN batches[k].before \cap fs = {}
  <2>1. DOMAIN batches[k].before \subseteq Policies
    BY BatchIs, ElementOfSeq DEF PolicyType
  <2>2. \A f \in DOMAIN batches[k].before : policy'[f] = policy[f] /\ kept'[f] = kept[f]
    BY <1>2, <2>1
  <2> QED BY <1>2, <2>2 DEF Undoable
<1> QED BY <1>1, <1>2, TouchedIs

\* Somebody other than the service writes.
LEMMA ForeignWriteKeeps ==
  ASSUME PolicyInv, NEW fs, batches' = Touched(fs, 0), PolicyType', NoneLater',
         \A f \in Policies \ fs : policy'[f] = policy[f] /\ kept'[f] = kept[f],
         applying'["service"] = applying["service"], taken'["service"] = taken["service"],
         UNCHANGED <<stamps, undoing, undoFails>>
  PROVE  PolicyInv'
<1>1. PolicyType
  BY DEF PolicyInv
<1>2. Len(batches) \in Nat /\ (batches # <<>> => Len(batches) \in 1..Len(batches))
  BY <1>1, LenProperties, EmptySeq DEF PolicyType
<1>3. /\ Len(batches') = Len(batches)
      /\ \A k \in 1..Len(batches) :
           /\ batches'[k].stamps = batches[k].stamps
           /\ \/ DOMAIN batches'[k].before = {}
              \/ /\ batches'[k].before = batches[k].before
                 /\ DOMAIN batches[k].before \cap fs = {}
  BY <1>1, <1>2, TouchedIs
<1>4. (batches' # <<>>) = (batches # <<>>)
  BY <1>1, <1>3, EmptySeq DEF PolicyType
<1>5. Phases'
  BY <1>2, <1>3, <1>4 DEF PolicyInv, Phases
<1>6. ToWrite'
  <2> SUFFICES ASSUME batches # <<>>, DOMAIN batches'[Len(batches)].before # {}
               PROVE  /\ Distinct(applying["service"])
                      /\ \A f \in FilesOf(applying["service"]) :
                           f \in DOMAIN batches'[Len(batches)].before /\ policy'[f] = batches'[Len(batches)].before[f]
    BY <1>3, <1>4 DEF ToWrite
  <2>1. batches'[Len(batches)].before = batches[Len(batches)].before /\ DOMAIN batches[Len(batches)].before \cap fs = {}
    BY <1>2, <1>3
  <2>2. DOMAIN batches[Len(batches)].before \subseteq Policies
    BY <1>1, <1>2, BatchIs, ElementOfSeq DEF PolicyType
  <2> QED BY <2>1, <2>2 DEF PolicyInv, ToWrite
<1>7. ASSUME NEW k \in 1..Len(batches)
      PROVE  Undoable(policy', kept', batches'[k].before, Names(k)', Still(k)')
  <2> PICK names, left : names = Names(k) /\ left = Still(k)
    OBVIOUS
  <2>1. Names(k)' = names /\ Still(k)' = left
    BY <1>3 DEF Names, Still
  <2>2. Undoable(policy, kept, batches[k].before, names, left) /\ k # 0
    BY <1>2 DEF PolicyInv
  <2>3. Undoable(policy', kept', Touched(fs, 0)[k].before, names, left)
    BY <1>1, <2>2, OthersUndoable
  <2> QED BY <2>1, <2>3
<1>8. undoing' # <<>> /\ ~undoFails' =>
        Undoable(policy', kept', batches'[Len(batches')].before, Range(undoing'), {})
  <2> SUFFICES ASSUME undoing # <<>>, ~undoFails
               PROVE  Undoable(policy', kept', batches'[Len(batches)].before, Range(undoing), {})
    BY <1>3
  <2>1. Undoable(policy, kept, batches[Len(batches)].before, Range(undoing), {}) /\ Len(batches) \in 1..Len(batches)
        /\ Len(batches) # 0
    BY <1>2 DEF PolicyInv, Phases
  <2> QED BY <1>1, <2>1, OthersUndoable
<1>9. Ready'
  <2> SUFFICES ASSUME taken["service"] # 0, applying["service"] # <<>>, batches # <<>>,
                      DOMAIN batches'[Len(batches)].before # {},
                      NEW g, g = FileOf("service")
               PROVE  /\ kept'[g][taken["service"]] = batches'[Len(batches)].before[g]
                      /\ \A t \in 1..MaxSec : t > taken["service"] => kept'[g][t] = Absent
    BY <1>3, <1>4 DEF PolicyInv, Ready, FileOf
  <2>1. batches'[Len(batches)].before = batches[Len(batches)].before /\ DOMAIN batches[Len(batches)].before \cap fs = {}
    BY <1>2, <1>3
  <2>2. g \in FilesOf(applying["service"])
    BY <1>1, FilesOfTail DEF FileOf, PolicyType, Writer
  <2>3. g \in DOMAIN batches[Len(batches)].before /\ DOMAIN batches[Len(batches)].before \subseteq Policies
    BY <1>1, <1>2, <2>1, <2>2, BatchIs, ElementOfSeq DEF PolicyInv, ToWrite, PolicyType
  <2>4. kept'[g] = kept[g]
    BY <2>1, <2>3
  <2> QED BY <2>1, <2>4 DEF PolicyInv, Ready
<1> QED BY <1>3, <1>5, <1>6, <1>7, <1>8, <1>9 DEF PolicyInv

\* What a writer's copy and its write do to the files and the backups.
LEMMA HeadIs ==
  ASSUME PolicyType, NEW w \in Writer, applying[w] # <<>>
  PROVE  /\ FileOf(w) \in Policies /\ Head(applying[w]).after \in Value
         /\ Tail(applying[w]) \in Seq(Proposal) /\ applying[w] \in Seq(Proposal)
<1>1. applying[w] \in Seq(Proposal)
  BY DEF PolicyType
<1>2. Head(applying[w]) \in Proposal /\ Tail(applying[w]) \in Seq(Proposal)
  BY <1>1, HeadTailProperties
<1> QED BY <1>1, <1>2 DEF Proposal, FileOf

LEMMA CopyIs ==
  ASSUME PolicyType, NoneLater, NEW f \in Policies, NEW v \in Value,
         kept' = [kept EXCEPT ![f][sec] = v], sec' = sec
  PROVE  /\ kept' \in [Policies -> [1..MaxSec -> Value \cup {Absent}]] /\ NoneLater'
         /\ \A g \in Policies \ {f} : kept'[g] = kept[g]
         /\ kept'[f][sec] = v /\ \A t \in 1..MaxSec : t > sec => kept'[f][t] = Absent
<1>1. kept \in [Policies -> [1..MaxSec -> Value \cup {Absent}]] /\ sec \in 1..MaxSec
  BY DEF PolicyType
<1>2. kept' \in [Policies -> [1..MaxSec -> Value \cup {Absent}]]
  BY <1>1
<1>3. (\A g \in Policies \ {f} : kept'[g] = kept[g]) /\ kept'[f][sec] = v
  BY <1>1
<1>4. \A t \in 1..MaxSec : t # sec => kept'[f][t] = kept[f][t]
  BY <1>1
<1>5. \A t \in 1..MaxSec : t > sec => kept'[f][t] = Absent
  BY <1>1, <1>4 DEF NoneLater
<1>6. NoneLater'
  BY <1>1, <1>3, <1>5 DEF NoneLater
<1> QED BY <1>2, <1>3, <1>5, <1>6

LEMMA WrittenIs ==
  ASSUME PolicyType, NoneLater, NEW w \in Writer, Written(w), NEW f, f = FileOf(w), sec' = sec
  PROVE  /\ policy' \in [Policies -> Value] /\ f \in Policies
         /\ kept' \in [Policies -> [1..MaxSec -> Value \cup {Absent}]] /\ NoneLater'
         /\ \A g \in Policies \ {f} : policy'[g] = policy[g] /\ kept'[g] = kept[g]
         /\ \A t \in 1..MaxSec : (\A u \in 1..MaxSec : u > t => kept[f][u] = Absent) => kept'[f][t] = kept[f][t]
<1> PICK v, b : v = Head(applying[w]).after /\ b = kept[f]
  OBVIOUS
<1>1. /\ policy' = [policy EXCEPT ![f] = v] /\ kept' = [kept EXCEPT ![f] = Pruned(@)]
      /\ f \in Policies /\ v \in Value
  BY HeadIs DEF Written
<1>2. /\ kept \in [Policies -> [1..MaxSec -> Value \cup {Absent}]] /\ policy \in [Policies -> Value]
      /\ b \in [1..MaxSec -> Value \cup {Absent}]
  BY <1>1 DEF PolicyType
<1>3. kept' = [kept EXCEPT ![f] = Pruned(b)] /\ kept'[f] = Pruned(b)
  BY <1>1, <1>2
<1>4. Pruned(b) \in [1..MaxSec -> Value \cup {Absent}] /\ \A t \in 1..MaxSec : Pruned(b)[t] \in {b[t], Absent}
  BY <1>2 DEF Pruned
<1>5. \A g \in Policies \ {f} : policy'[g] = policy[g] /\ kept'[g] = kept[g]
  BY <1>1, <1>2, <1>3
<1>6. ASSUME NEW t \in 1..MaxSec, \A u \in 1..MaxSec : u > t => b[u] = Absent PROVE Pruned(b)[t] = b[t]
  <2>1. {u \in 1..MaxSec : u > t /\ b[u] # Absent} = {}
    BY <1>6
  <2>2. Cardinality({u \in 1..MaxSec : u > t /\ b[u] # Absent}) < Keep
    BY <2>1, FS_EmptySet, PolicyAssumption
  <2> QED BY <2>2 DEF Pruned
<1>7. \A g \in Policies, t \in 1..MaxSec : kept'[g][t] \in {kept[g][t], Absent}
  BY <1>3, <1>4, <1>5
<1>8. NoneLater'
  BY <1>7 DEF NoneLater
<1>9. kept' \in [Policies -> [1..MaxSec -> Value \cup {Absent}]] /\ policy' \in [Policies -> Value]
  BY <1>1, <1>2, <1>3, <1>4
<1> QED BY <1>1, <1>3, <1>5, <1>6, <1>8, <1>9

\* A writer is done with a proposal.
LEMMA StoreIs ==
  ASSUME PolicyInv, NEW w \in Writer, Store(w), NEW f, f = FileOf(w)
  PROVE  /\ PolicyType' /\ NoneLater' /\ f \in Policies
         /\ \A g \in Policies \ {f} : policy'[g] = policy[g] /\ kept'[g] = kept[g]
         /\ \A t \in 1..MaxSec : (\A u \in 1..MaxSec : u > t => kept[f][u] = Absent) => kept'[f][t] = kept[f][t]
<1>1. PolicyType /\ NoneLater
  BY DEF PolicyInv
<1>2. /\ Written(w) /\ sec' = sec /\ taken[w] # 0 /\ applying[w] # <<>>
      /\ applying' = [applying EXCEPT ![w] = Tail(@)] /\ taken' = [taken EXCEPT ![w] = 0]
      /\ stamps' = (IF w = "service" THEN Append(stamps, taken[w]) ELSE stamps)
      /\ batches' = Touched({FileOf(w)}, For(w))
      /\ UNCHANGED <<sec, undoing, undoFails, tuning>>
  BY DEF Store, Written
<1>3. taken[w] \in 1..MaxSec /\ taken' \in [Writer -> 0..MaxSec] /\ applying' \in [Writer -> Seq(Proposal)]
  <2>1. taken \in [Writer -> 0..MaxSec] /\ applying \in [Writer -> Seq(Proposal)] /\ 0 \in 0..MaxSec
    BY <1>1, PolicyAssumption DEF PolicyType
  <2> QED BY <1>1, <1>2, <2>1, HeadIs
<1>4. stamps' \in Seq(1..MaxSec)
  BY <1>1, <1>2, <1>3, AppendProperties DEF PolicyType
<1>5. batches' \in Seq(Batch)
  BY <1>1, <1>2, TouchedIs
<1>6. /\ policy' \in [Policies -> Value] /\ f \in Policies
      /\ kept' \in [Policies -> [1..MaxSec -> Value \cup {Absent}]] /\ NoneLater'
      /\ \A g \in Policies \ {f} : policy'[g] = policy[g] /\ kept'[g] = kept[g]
      /\ \A t \in 1..MaxSec : (\A u \in 1..MaxSec : u > t => kept[f][u] = Absent) => kept'[f][t] = kept[f][t]
  BY <1>1, <1>2, WrittenIs
<1>7. PolicyType'
  BY <1>1, <1>2, <1>3, <1>4, <1>5, <1>6 DEF PolicyType
<1> QED BY <1>6, <1>7

\* What the length and the last batch of the invariant say.
LEMMA LastIs ==
  ASSUME PolicyInv
  PROVE  /\ PolicyType /\ Len(batches) \in Nat /\ (batches # <<>> <=> Len(batches) # 0)
         /\ batches # <<>> => /\ Len(batches) \in 1..Len(batches)
                              /\ batches[Len(batches)] \in Batch
                              /\ DOMAIN batches[Len(batches)].before \subseteq Policies
         /\ \A k \in 1..Len(batches) : Undoable(policy, kept, batches[k].before, Names(k), Still(k))
<1>1. PolicyType
  BY DEF PolicyInv
<1>2. Len(batches) \in Nat /\ (batches # <<>> <=> Len(batches) # 0)
  BY <1>1, LenProperties, EmptySeq DEF PolicyType
<1>3. batches # <<>> => /\ Len(batches) \in 1..Len(batches)
                        /\ batches[Len(batches)] \in Batch
                        /\ DOMAIN batches[Len(batches)].before \subseteq Policies
  <2> SUFFICES ASSUME batches # <<>>
               PROVE  /\ Len(batches) \in 1..Len(batches)
                      /\ batches[Len(batches)] \in Batch
                      /\ DOMAIN batches[Len(batches)].before \subseteq Policies
    OBVIOUS
  <2>1. Len(batches) \in 1..Len(batches)
    BY <1>2
  <2>2. batches[Len(batches)] \in Batch
    BY <1>1, <2>1, ElementOfSeq DEF PolicyType
  <2> QED BY <2>1, <2>2, BatchIs
<1> QED BY <1>1, <1>2, <1>3 DEF PolicyInv

\* The service writes a file of its batch: the backup is the one it has taken.
LEMMA ServiceStoreKeeps ==
  ASSUME PolicyInv, Store("service")
  PROVE  PolicyInv'
<1> DEFINE n == Len(batches)
<1> PICK f, tk : f = FileOf("service") /\ tk = taken["service"]
  OBVIOUS
<1>1. /\ PolicyType' /\ NoneLater' /\ f \in Policies
      /\ \A g \in Policies \ {f} : policy'[g] = policy[g] /\ kept'[g] = kept[g]
      /\ \A t \in 1..MaxSec : (\A u \in 1..MaxSec : u > t => kept[f][u] = Absent) => kept'[f][t] = kept[f][t]
      /\ batches' = Touched({f}, n)
  BY StoreIs DEF Writer, For, Store
<1>2. /\ applying["service"] # <<>> /\ applying'["service"] = Tail(applying["service"])
      /\ stamps' = Append(stamps, tk) /\ UNCHANGED <<undoing, undoFails, sec>>
      /\ taken'["service"] = 0 /\ tk # 0
      /\ applying["service"] \in Seq(Proposal) /\ stamps \in Seq(1..MaxSec) /\ tk \in 1..MaxSec
  <2>1. /\ applying \in [Writer -> Seq(Proposal)] /\ taken \in [Writer -> 0..MaxSec]
        /\ "service" \in Writer /\ stamps \in Seq(1..MaxSec)
    BY LastIs DEF PolicyType, Writer
  <2>2. taken["service"] # 0 /\ applying["service"] # <<>>
    BY DEF Store, Written
  <2>3. taken["service"] \in 1..MaxSec
    BY <2>1, <2>2, PolicyAssumption
  <2> QED BY <2>1, <2>2, <2>3 DEF Store
<1>3. /\ batches # <<>> /\ batches[n].stamps = <<>> /\ undoing = <<>>
      /\ n \in 1..n /\ n \in Nat \ {0} /\ batches[n] \in Batch /\ DOMAIN batches[n].before \subseteq Policies
  BY <1>2, LastIs DEF PolicyInv, Phases
<1>4. /\ Len(batches') = n /\ batches'[n] = batches[n]
      /\ \A k \in 1..n : batches'[k].stamps = batches[k].stamps
  BY <1>1, <1>3, LastIs, TouchedIs
<1>5. batches' # <<>>
  BY <1>1, <1>3, <1>4, EmptySeq DEF PolicyType
<1>6. PICK now, rest : now = FilesOf(applying["service"]) /\ rest = FilesOf(Tail(applying["service"]))
  OBVIOUS
<1>7. rest \subseteq now /\ f \in now
      /\ (Distinct(applying["service"]) => Distinct(Tail(applying["service"])) /\ f \notin rest)
  BY <1>2, <1>6, FilesOfTail DEF FileOf
<1>8. DOMAIN batches[n].before # {} =>
        /\ Distinct(applying["service"])
        /\ \A g \in now : g \in DOMAIN batches[n].before /\ policy[g] = batches[n].before[g]
  BY <1>3, <1>6 DEF PolicyInv, ToWrite
<1>9. Phases'
  BY <1>2, <1>3, <1>4, <1>5, LastIs DEF PolicyInv, Phases
<1>10. ToWrite'
  <2> SUFFICES ASSUME DOMAIN batches[n].before # {}
               PROVE  /\ Distinct(Tail(applying["service"]))
                      /\ \A g \in rest : g \in DOMAIN batches[n].before /\ policy'[g] = batches[n].before[g]
    BY <1>2, <1>4, <1>6 DEF ToWrite
  <2>1. \A g \in rest : g \in Policies \ {f}
    BY <1>3, <1>7, <1>8
  <2> QED BY <1>1, <1>7, <1>8, <2>1
<1>12. DOMAIN batches[n].before # {} => kept'[f][tk] = batches[n].before[f]
  <2> SUFFICES ASSUME DOMAIN batches[n].before # {} PROVE kept'[f][tk] = batches[n].before[f]
    OBVIOUS
  <2>1. kept[f][tk] = batches[n].before[f] /\ \A t \in 1..MaxSec : t > tk => kept[f][t] = Absent
    BY <1>2, <1>3 DEF PolicyInv, Ready
  <2> QED BY <1>1, <1>2, <2>1
<1>13. Ready'
  BY <1>2 DEF Ready
<1>11. ASSUME NEW k \in 1..n
       PROVE  Undoable(policy', kept', batches'[k].before, Names(k)', Still(k)')
  <2> PICK names, left : names = Names(k) /\ left = Still(k)
    OBVIOUS
  <2>1. Undoable(policy, kept, batches[k].before, names, left)
    BY LastIs
  <2>2. CASE k # n
    <3>1. Names(k)' = names /\ Still(k)' = left
      BY <1>4, <2>2 DEF Names, Still
    <3>2. Undoable(policy', kept', Touched({f}, n)[k].before, names, left)
      BY <1>1, <2>1, <2>2, LastIs, OthersUndoable
    <3> QED BY <1>1, <3>1, <3>2
  <2>3. CASE k = n
    <3>1. names = Range(stamps) /\ left = now
      BY <1>3, <1>6, <2>3 DEF Names, Still
    <3>2. Names(k)' = Range(stamps')
      BY <1>3, <1>4, <2>3 DEF Names
    <3>3. Range(stamps') = names \cup {tk}
      <4>1. PICK S : S = 1..MaxSec
        OBVIOUS
      <4>2. stamps \in Seq(S) /\ tk \in S
        BY <1>2, <4>1
      <4>3. Range(Append(stamps, tk)) = Range(stamps) \cup {tk}
        BY <4>2, RangeOfAppend
      <4> QED BY <1>2, <3>1, <4>3
    <3>4. Still(k)' = rest
      BY <1>2, <1>4, <1>6, <2>3 DEF Still
    <3>5. CASE DOMAIN batches[n].before = {}
      BY <1>4, <2>3, <3>5 DEF Undoable
    <3>6. CASE DOMAIN batches[n].before # {}
      <4>1. f \notin rest /\ f \in DOMAIN batches[n].before /\ policy[f] = batches[n].before[f]
        BY <1>7, <1>8, <3>6
      <4>2. \A g \in DOMAIN batches[n].before : g # f => policy'[g] = policy[g] /\ kept'[g] = kept[g]
        BY <1>1, <1>3
      <4>3. PICK before, pol, pol2, kep, kep2 :
              before = batches[n].before /\ pol = policy /\ kep = kept /\ pol2 = policy' /\ kep2 = kept'
        OBVIOUS
      <4>4. Undoable(pol, kep, before, names, now)
        BY <2>1, <2>3, <3>1, <4>3
      <4>5. f \in now /\ rest \subseteq now /\ f \notin rest /\ f \in DOMAIN before /\ pol[f] = before[f]
            /\ kep2[f][tk] = before[f]
            /\ \A g \in DOMAIN before : g # f => pol2[g] = pol[g] /\ kep2[g] = kep[g]
        BY <1>7, <1>12, <3>6, <4>1, <4>2, <4>3
      <4>6. ASSUME NEW g \in DOMAIN before
            PROVE  pol2[g] = before[g] \/ \E u \in names \cup {tk} : kep2[g][u] = before[g]
        <5>1. CASE g = f
          BY <4>5, <5>1
        <5>2. CASE g # f
          BY <4>4, <4>5, <5>2 DEF Undoable
        <5> QED BY <5>1, <5>2
      <4>7. ASSUME NEW u \in names \cup {tk}
            PROVE  \E g \in DOMAIN before \ rest : kep2[g][u] = before[g]
        <5>1. CASE u = tk
          BY <4>5, <5>1
        <5>2. CASE u \in names
          <6>1. PICK g \in DOMAIN before \ now : kep[g][u] = before[g]
            BY <4>4, <4>5, <5>2 DEF Undoable
          <6> QED BY <4>5, <6>1
        <5> QED BY <4>7, <5>1, <5>2
      <4>8. Undoable(policy', kept', batches[n].before, names \cup {tk}, rest)
        BY <4>3, <4>6, <4>7 DEF Undoable
      <4> QED BY <1>4, <2>3, <3>2, <3>3, <3>4, <4>8
    <3> QED BY <3>5, <3>6
  <2> QED BY <2>2, <2>3
<1> QED BY <1>1, <1>2, <1>3, <1>4, <1>9, <1>10, <1>11, <1>13 DEF PolicyInv

\* A step that leaves the files and the batches alone.
LEMMA FewerLeft ==
  ASSUME NEW pol, NEW kep, NEW before, NEW names, NEW left, NEW left2, left2 \subseteq left,
         Undoable(pol, kep, before, names, left)
  PROVE  Undoable(pol, kep, before, names, left2)
<1>1. ASSUME DOMAIN before # {}, NEW t \in names PROVE \E g \in DOMAIN before \ left2 : kep[g][t] = before[g]
  <2>1. PICK g \in DOMAIN before \ left : kep[g][t] = before[g]
    BY <1>1 DEF Undoable
  <2> QED BY <2>1
<1> QED BY <1>1 DEF Undoable

LEMMA SkipKeeps ==
  ASSUME PolicyInv, NEW w \in Writer, Skip(w)
  PROVE  PolicyInv'
<1>1. UNCHANGED <<policy, kept, sec, taken, stamps, batches, undoing, undoFails, tuning>>
      /\ applying[w] # <<>> /\ taken[w] = 0 /\ applying' = [applying EXCEPT ![w] = Tail(@)]
  BY DEF Skip
<1>2. applying \in [Writer -> Seq(Proposal)] /\ "service" \in Writer /\ PolicyType
  BY LastIs DEF PolicyType, Writer
<1>3. Tail(applying[w]) \in Seq(Proposal)
  BY <1>1, <1>2, HeadTailProperties
<1>4. PolicyType' /\ NoneLater'
  BY <1>1, <1>2, <1>3 DEF PolicyInv, PolicyType, NoneLater
<1>5. FilesOf(applying'["service"]) \subseteq FilesOf(applying["service"])
      /\ (Distinct(applying["service"]) => Distinct(applying'["service"]))
      /\ (applying'["service"] # <<>> => applying["service"] # <<>>)
  <2>1. CASE w = "service"
    BY <1>1, <1>2, <2>1, FilesOfTail
  <2>2. CASE w # "service"
    BY <1>1, <1>2, <2>2
  <2> QED BY <2>1, <2>2
<1>6. Phases' /\ ToWrite'
  BY <1>1, <1>5 DEF PolicyInv, Phases, ToWrite
<1>8. Ready'
  <2>1. CASE w = "service"
    BY <1>1, <2>1 DEF Ready
  <2>2. CASE w # "service"
    <3>1. applying'["service"] = applying["service"]
      BY <1>1, <1>2, <2>2
    <3> QED BY <1>1, <3>1 DEF PolicyInv, Ready, FileOf
  <2> QED BY <2>1, <2>2
<1>7. ASSUME NEW k \in 1..Len(batches)
      PROVE  Undoable(policy', kept', batches'[k].before, Names(k)', Still(k)')
  <2> PICK names, left, left2 : names = Names(k) /\ left = Still(k) /\ left2 = Still(k)'
    OBVIOUS
  <2>1. Names(k)' = names /\ left2 \subseteq left
    BY <1>1, <1>5 DEF Names, Still
  <2>2. Undoable(policy, kept, batches[k].before, names, left)
    BY LastIs
  <2>3. Undoable(policy, kept, batches[k].before, names, left2)
    BY <2>1, <2>2, FewerLeft
  <2> QED BY <1>1, <2>1, <2>3
<1> QED BY <1>1, <1>4, <1>6, <1>7, <1>8 DEF PolicyInv

LEMMA EmptyBatch == FilesOf(<<>>) = {} /\ Distinct(<<>>) /\ Range(<<>>) = {}
<1>1. DOMAIN <<>> = {}
  BY EmptySeq, LenProperties
<1> QED BY <1>1 DEF FilesOf, Distinct, Range

LEMMA StartBatchKeeps ==
  ASSUME PolicyInv, StartBatch
  PROVE  PolicyInv'
<1> DEFINE n == Len(batches)
<1>1. /\ applying["service"] = <<>> /\ stamps = <<>> /\ undoing = <<>>
      /\ batches # <<>> => batches[n].stamps # <<>>
      /\ UNCHANGED <<policy, kept, sec, taken, stamps, undoing, undoFails, tuning>>
  BY DEF StartBatch, Last
<1>2. PICK ps \in SeqOf([file : Policies \ Excluded, after : Value], MaxBatch - Len(batches)) :
        /\ ps # <<>> /\ applying' = [applying EXCEPT !["service"] = ps]
        /\ batches' = Append(batches, [stamps |-> <<>>, before |->
                        [f \in IF Distinct(ps) THEN FilesOf(ps) ELSE {} |-> policy[f]]])
  <2>1. Asks["service"] \subseteq Value
    BY PolicyAssumption DEF Value
  <2>2. PICK ps \in SeqOf([file : Policies \ Excluded, after : Asks["service"]], MaxBatch - Len(batches)) :
          /\ ps # <<>> /\ applying' = [applying EXCEPT !["service"] = ps]
          /\ batches' = Append(batches, [stamps |-> <<>>, before |->
                          [f \in IF Distinct(ps) THEN FilesOf(ps) ELSE {} |-> policy[f]]])
    BY DEF StartBatch
  <2>3. PICK m \in 0..(MaxBatch - Len(batches)) :
          ps \in [1..m -> [file : Policies \ Excluded, after : Asks["service"]]]
    BY <2>2 DEF SeqOf
  <2>4. ps \in [1..m -> [file : Policies \ Excluded, after : Value]]
    BY <2>1, <2>3
  <2>5. ps \in SeqOf([file : Policies \ Excluded, after : Value], MaxBatch - Len(batches))
    BY <2>4 DEF SeqOf
  <2> QED BY <2>2, <2>5
<1>3. PICK m \in 0..(MaxBatch - Len(batches)) : ps \in [1..m -> [file : Policies \ Excluded, after : Value]]
  BY <1>2 DEF SeqOf
<1>4. m \in Nat
  BY <1>3, LastIs, PolicyAssumption
<1>5. ps \in [1..m -> Proposal]
  BY <1>3 DEF Proposal
<1>6. ps \in Seq(Proposal)
  BY <1>4, <1>5
<1>7. FilesOf(ps) \subseteq Policies
  BY <1>5 DEF FilesOf, Proposal
<1>8. PICK b : b = [stamps |-> <<>>, before |-> [f \in IF Distinct(ps) THEN FilesOf(ps) ELSE {} |-> policy[f]]]
  OBVIOUS
<1>9. PICK bf : bf = [f \in IF Distinct(ps) THEN FilesOf(ps) ELSE {} |-> policy[f]]
  OBVIOUS
<1>10. /\ DOMAIN bf \subseteq Policies /\ \A f \in DOMAIN bf : bf[f] = policy[f]
       /\ DOMAIN bf # {} => Distinct(ps) /\ DOMAIN bf = FilesOf(ps)
  BY <1>7, <1>9
<1>11. bf \in Befores
  <2>1. policy \in [Policies -> Value]
    BY LastIs DEF PolicyType
  <2>2. bf \in [DOMAIN bf -> Value]
    BY <1>9, <1>10, <2>1
  <2> QED BY <1>10, <2>2 DEF Befores
<1>12. b \in Batch /\ b.stamps = <<>> /\ b.before = bf
  BY <1>8, <1>9, <1>11, EmptySeq DEF Batch
<1>13. batches \in Seq(Batch) /\ n \in Nat
  BY LastIs DEF PolicyType
<1>14. batches' = Append(batches, b)
  BY <1>2, <1>8
<1>15. /\ batches' \in Seq(Batch) /\ Len(batches') = n + 1 /\ batches'[n + 1] = b
       /\ \A k \in 1..n : batches'[k] = batches[k]
  BY <1>12, <1>13, <1>14, AppendProperties
<1>16. applying' \in [Writer -> Seq(Proposal)] /\ applying'["service"] = ps
  BY <1>2, <1>6, LastIs DEF PolicyType, Writer
<1>17. PolicyType' /\ NoneLater'
  BY <1>1, <1>15, <1>16, LastIs DEF PolicyType, PolicyInv, NoneLater
<1>18. Phases'
  <2>1. \A k \in 1..n : batches[k].stamps # <<>>
    BY <1>1, <1>13, LastIs DEF PolicyInv, Phases
  <2>2. batches' # <<>> /\ batches'[Len(batches')].stamps = <<>>
    BY <1>12, <1>13, <1>15, EmptySeq
  <2>3. ASSUME NEW k \in 1..Len(batches'), k < Len(batches') PROVE batches'[k].stamps # <<>>
    <3>1. k \in 1..n
      BY <1>13, <1>15, <2>3
    <3> QED BY <1>15, <2>1, <3>1
  <2> QED BY <1>1, <2>2, <2>3 DEF Phases
<1>19. ToWrite'
  BY <1>1, <1>10, <1>12, <1>15, <1>16 DEF ToWrite
<1>21. Ready'
  BY <1>1 DEF PolicyInv, Ready
<1>20. ASSUME NEW k \in 1..Len(batches')
       PROVE  Undoable(policy', kept', batches'[k].before, Names(k)', Still(k)')
  <2>1. CASE k = n + 1
    <3>1. Names(k)' = {}
      BY <1>1, <1>12, <1>15, <2>1, EmptyBatch DEF Names
    <3>2. \A f \in DOMAIN bf : policy'[f] = bf[f]
      BY <1>1, <1>10
    <3> QED BY <1>12, <1>15, <2>1, <3>1, <3>2 DEF Undoable
  <2>2. CASE k # n + 1
    <3>1. k \in 1..n
      BY <1>13, <1>15, <2>2
    <3> PICK names, left, left2 : names = Names(k) /\ left = Still(k) /\ left2 = Still(k)'
      OBVIOUS
    <3>2. Undoable(policy, kept, batches[k].before, names, left)
      BY <3>1, LastIs
    <3>3. batches[k].stamps # <<>>
      BY <1>1, <1>13, <3>1, LastIs DEF PolicyInv, Phases
    <3>4. Names(k)' = names
      BY <1>15, <3>1, <3>3 DEF Names
    <3>5. left2 = {}
      BY <1>15, <2>2 DEF Still
    <3>6. Undoable(policy, kept, batches[k].before, names, left2)
      BY <3>2, <3>5, FewerLeft
    <3> QED BY <1>1, <1>15, <3>1, <3>4, <3>6
  <2> QED BY <2>1, <2>2
<1> QED BY <1>1, <1>17, <1>18, <1>19, <1>20, <1>21 DEF PolicyInv

\* A batch that is recorded.
LEMMA EarlierIsUndoable ==
  ASSUME PolicyInv, NEW k \in 1..Len(batches), batches[k].stamps # <<>>
  PROVE  Undoable(policy, kept, batches[k].before, Range(batches[k].stamps), {})
<1> PICK names, left : names = Names(k) /\ left = Still(k)
  OBVIOUS
<1>1. Undoable(policy, kept, batches[k].before, names, left)
  BY LastIs
<1>2. names = Range(batches[k].stamps)
  BY DEF Names
<1> QED BY <1>1, <1>2, FewerLeft

LEMMA FrontIs ==
  ASSUME NEW S, NEW s \in Seq(S), s # <<>>
  PROVE  /\ Front(s) \in Seq(S) /\ Len(Front(s)) = Len(s) - 1
         /\ \A k \in 1..(Len(s) - 1) : Front(s)[k] = s[k]
<1>1. Len(s) \in Nat \ {0} /\ \A i \in 1..(Len(s) - 1) : s[i] \in S
  BY EmptySeq, LenProperties, ElementOfSeq
<1>2. PICK m, n : m = 1 /\ n = Len(s) - 1
  OBVIOUS
<1>3. m \in Int /\ n \in Int /\ (\A i \in m..n : s[i] \in S)
  BY <1>1, <1>2
<1>4. /\ SubSeq(s, m, n) \in Seq(S) /\ Len(SubSeq(s, m, n)) = IF m <= n THEN n - m + 1 ELSE 0
      /\ \A i \in 1..(n - m + 1) : SubSeq(s, m, n)[i] = s[m + i - 1]
  BY <1>3, SubSeqProperties
<1>5. Front(s) = SubSeq(s, m, n)
  BY <1>2 DEF Front
<1>6. Len(Front(s)) = Len(s) - 1
  BY <1>1, <1>2, <1>4, <1>5
<1>7. \A k \in 1..(Len(s) - 1) : Front(s)[k] = s[k]
  BY <1>1, <1>2, <1>4, <1>5
<1> QED BY <1>4, <1>5, <1>6, <1>7

LEMMA EndBatchKeeps ==
  ASSUME PolicyInv, EndBatch
  PROVE  PolicyInv'
<1> DEFINE n == Len(batches)
<1>1. /\ batches # <<>> /\ applying["service"] = <<>> /\ batches[n].stamps = <<>> /\ stamps' = <<>>
      /\ batches' = IF stamps = <<>> THEN Front(batches) ELSE [batches EXCEPT ![n].stamps = stamps]
      /\ UNCHANGED <<policy, kept, sec, applying, taken, undoing, undoFails, tuning>>
      /\ taken["service"] = 0
  BY DEF EndBatch, Last, PolicyInv, Ready
<1>2. /\ PolicyType /\ n \in Nat \ {0} /\ n \in 1..n /\ batches[n] \in Batch /\ batches \in Seq(Batch) /\ stamps \in Seq(1..MaxSec)
      /\ \A k \in 1..n : k < n => batches[k].stamps # <<>>
      /\ NoneLater /\ undoing = <<>>
  BY <1>1, LastIs DEF PolicyType, PolicyInv, Phases
<1>3. CASE stamps = <<>>
  <2>1. batches' \in Seq(Batch) /\ Len(batches') = n - 1 /\ \A k \in 1..(n - 1) : batches'[k] = batches[k]
    BY <1>1, <1>2, <1>3, FrontIs
  <2>2. PolicyType' /\ NoneLater'
    BY <1>1, <1>2, <2>1, EmptySeq DEF PolicyType, NoneLater
  <2>3. Phases' /\ ToWrite' /\ Ready'
    BY <1>1, <1>2, <2>1, EmptyBatch DEF Phases, ToWrite, Ready
  <2>4. ASSUME NEW k \in 1..Len(batches')
        PROVE  Undoable(policy', kept', batches'[k].before, Names(k)', Still(k)')
    <3>1. k \in 1..n /\ k < n /\ batches'[k] = batches[k] /\ batches[k].stamps # <<>>
      BY <1>2, <2>1
    <3>2. Undoable(policy, kept, batches[k].before, Range(batches[k].stamps), {})
      BY <1>1, <3>1, EarlierIsUndoable
    <3>3. Names(k)' = Range(batches[k].stamps) /\ Still(k)' = {}
      BY <1>1, <3>1, EmptyBatch DEF Names, Still
    <3> QED BY <1>1, <3>1, <3>2, <3>3
  <2> QED BY <1>1, <1>2, <2>2, <2>3, <2>4 DEF PolicyInv
<1>4. CASE stamps # <<>>
  <2>1. PICK b : b = [batches[n] EXCEPT !.stamps = stamps]
    OBVIOUS
  <2>2. b \in Batch /\ b.stamps = stamps /\ b.before = batches[n].before
    BY <1>2, <2>1 DEF Batch
  <2>3. batches' = [batches EXCEPT ![n] = b]
    BY <1>1, <1>4, <2>1
  <2>4. batches' \in Seq(Batch) /\ Len(batches') = n /\ batches'[n] = b
        /\ \A k \in 1..n : k # n => batches'[k] = batches[k]
    BY <1>2, <2>2, <2>3, ExceptSeq
  <2>5. PolicyType' /\ NoneLater'
    BY <1>1, <1>2, <2>4, EmptySeq DEF PolicyType, NoneLater
  <2>6. Phases'
    BY <1>1, <1>2, <1>4, <2>2, <2>4 DEF Phases
  <2>7. ToWrite' /\ Ready'
    BY <1>1, <2>4, EmptyBatch DEF ToWrite, Ready
  <2>8. ASSUME NEW k \in 1..Len(batches')
        PROVE  Undoable(policy', kept', batches'[k].before, Names(k)', Still(k)')
    <3>1. Still(k)' = {}
      BY <1>1, EmptyBatch DEF Still
    <3>2. CASE k = n
      <4> PICK names, left : names = Names(k) /\ left = Still(k)
        OBVIOUS
      <4>1. Undoable(policy, kept, batches[n].before, names, left)
        BY <1>2, <3>2, LastIs
      <4>2. Names(k)' = Range(stamps) /\ names = Range(stamps)
        BY <1>1, <1>4, <2>2, <2>4, <3>2 DEF Names
      <4>3. Undoable(policy, kept, batches[n].before, names, {})
        BY <4>1, FewerLeft
      <4> QED BY <1>1, <2>2, <2>4, <3>1, <3>2, <4>2, <4>3
    <3>3. CASE k # n
      <4>1. k \in 1..n /\ k < n /\ batches'[k] = batches[k] /\ batches[k].stamps # <<>>
        BY <1>2, <2>4, <3>3
      <4>2. Undoable(policy, kept, batches[k].before, Range(batches[k].stamps), {})
        BY <1>1, <4>1, EarlierIsUndoable
      <4>3. Names(k)' = Range(batches[k].stamps)
        BY <4>1 DEF Names
      <4> QED BY <1>1, <3>1, <4>1, <4>2, <4>3
    <3> QED BY <3>2, <3>3
  <2> QED BY <1>1, <1>2, <2>5, <2>6, <2>7, <2>8 DEF PolicyInv
<1> QED BY <1>3, <1>4

\* A copy is taken of the file a writer is about to write.
LEMMA SnapshotKeeps ==
  ASSUME PolicyInv, NEW w \in Writer, Snapshot(w)
  PROVE  PolicyInv'
<1> DEFINE n == Len(batches)
<1> PICK f, own : f = FileOf(w) /\ own = For(w)
  OBVIOUS
<1>1. /\ applying[w] # <<>> /\ taken[w] = 0 /\ kept' = [kept EXCEPT ![f][sec] = policy[f]]
      /\ taken' = [taken EXCEPT ![w] = sec] /\ batches' = Touched({f}, own)
      /\ UNCHANGED <<policy, sec, applying, stamps, undoing, undoFails, tuning>>
  BY DEF Snapshot, SnapshotOf
<1>2. PolicyType /\ NoneLater /\ f \in Policies /\ policy[f] \in Value /\ sec \in 1..MaxSec
  BY <1>1, HeadIs DEF PolicyInv, PolicyType
<1>3. /\ kept' \in [Policies -> [1..MaxSec -> Value \cup {Absent}]] /\ NoneLater'
      /\ \A g \in Policies \ {f} : kept'[g] = kept[g]
      /\ kept'[f][sec] = policy[f] /\ \A t \in 1..MaxSec : t > sec => kept'[f][t] = Absent
  <2>1. PICK v \in Value : v = policy[f]
    BY <1>2
  <2>2. kept' = [kept EXCEPT ![f][sec] = v] /\ sec' = sec
    BY <1>1, <2>1
  <2>3. /\ kept' \in [Policies -> [1..MaxSec -> Value \cup {Absent}]] /\ NoneLater'
        /\ \A g \in Policies \ {f} : kept'[g] = kept[g]
        /\ kept'[f][sec] = v /\ \A t \in 1..MaxSec : t > sec => kept'[f][t] = Absent
    BY <1>2, <2>2, CopyIs
  <2> QED BY <2>1, <2>3
<1>4. batches' \in Seq(Batch) /\ taken' \in [Writer -> 0..MaxSec]
  BY <1>1, <1>2, TouchedIs DEF PolicyType
<1>5. PolicyType'
  BY <1>1, <1>2, <1>3, <1>4 DEF PolicyType
<1>6. CASE w # "service"
  <2>1. applying'["service"] = applying["service"] /\ taken'["service"] = taken["service"] /\ own = 0
    BY <1>1, <1>2, <1>6 DEF For, PolicyType, Writer
  <2>2. \A g \in Policies \ {f} : policy'[g] = policy[g] /\ kept'[g] = kept[g]
    BY <1>1, <1>3
  <2> QED BY <1>1, <1>3, <1>5, <2>1, <2>2, ForeignWriteKeeps
<1>7. CASE w = "service"
  <2>1. /\ own = n /\ batches # <<>> /\ undoing = <<>> /\ n \in 1..n /\ n \in Nat \ {0}
        /\ DOMAIN batches[n].before \subseteq Policies /\ taken'["service"] = sec
        /\ applying["service"] \in Seq(Proposal)
    BY <1>1, <1>2, <1>7, LastIs DEF For, PolicyInv, Phases, PolicyType
  <2>2. /\ Len(batches') = n /\ batches'[n] = batches[n] /\ batches' # <<>>
        /\ \A k \in 1..n : batches'[k].stamps = batches[k].stamps
    BY <1>1, <1>2, <1>4, <2>1, TouchedIs, EmptySeq
  <2>3. Phases'
    BY <1>1, <2>1, <2>2 DEF PolicyInv, Phases
  <2>4. ToWrite'
    BY <1>1, <2>1, <2>2 DEF PolicyInv, ToWrite
  <2>5. f \in FilesOf(applying["service"])
    BY <1>1, <1>7, <2>1, FilesOfTail DEF FileOf
  <2>6. DOMAIN batches[n].before # {} => f \in DOMAIN batches[n].before /\ policy[f] = batches[n].before[f]
    BY <2>1, <2>5 DEF PolicyInv, ToWrite
  <2>7. Ready'
    <3>1. FileOf("service")' = f /\ applying'["service"] # <<>>
      BY <1>1, <1>7 DEF FileOf
    <3>2. DOMAIN batches[n].before # {} =>
            /\ kept'[f][sec] = batches[n].before[f] /\ \A t \in 1..MaxSec : t > sec => kept'[f][t] = Absent
      BY <1>3, <2>6
    <3> QED BY <2>1, <2>2, <3>1, <3>2 DEF Ready
  <2>8. ASSUME NEW k \in 1..n
        PROVE  Undoable(policy', kept', batches'[k].before, Names(k)', Still(k)')
    <3> PICK names, left : names = Names(k) /\ left = Still(k)
      OBVIOUS
    <3>1. Names(k)' = names /\ Still(k)' = left
      BY <1>1, <2>2 DEF Names, Still
    <3>2. Undoable(policy, kept, batches[k].before, names, left)
      BY LastIs
    <3>3. CASE k # n
      <4>1. \A g \in Policies \ {f} : policy'[g] = policy[g] /\ kept'[g] = kept[g]
        BY <1>1, <1>3
      <4>2. Undoable(policy', kept', Touched({f}, own)[k].before, names, left)
        BY <1>2, <2>1, <3>2, <3>3, <4>1, OthersUndoable
      <4> QED BY <1>1, <3>1, <4>2
    <3>4. CASE k = n
      <4>1. f \in left
        BY <2>5, <3>4 DEF Still
      <4>2. \A g \in DOMAIN batches[n].before : g # f => kept'[g] = kept[g]
        BY <1>3, <2>1
      <4>3. Undoable(policy, kept', batches[n].before, names, left)
        BY <2>6, <3>2, <3>4, <4>1, <4>2 DEF Undoable
      <4> QED BY <1>1, <2>2, <3>1, <3>4, <4>3
    <3> QED BY <3>3, <3>4
  <2> QED BY <1>1, <1>3, <1>5, <2>1, <2>2, <2>3, <2>4, <2>7, <2>8 DEF PolicyInv
<1> QED BY <1>6, <1>7

\* A writer's batch is aborted: the service has none of it on record.
LEMMA AbortKeeps ==
  ASSUME PolicyInv, NEW w \in Writer, applying[w] # <<>>, NEW fs, Abort(w, fs),
         policy' \in [Policies -> Value], NoneLater',
         kept' \in [Policies -> [1..MaxSec -> Value \cup {Absent}]],
         \A f \in Policies \ fs : policy'[f] = policy[f] /\ kept'[f] = kept[f]
  PROVE  PolicyInv'
<1> DEFINE n == Len(batches)
<1>1. /\ applying' = [applying EXCEPT ![w] = <<>>] /\ taken' = [taken EXCEPT ![w] = 0]
      /\ UNCHANGED <<sec, undoing, undoFails, tuning>> /\ PolicyType
  BY DEF Abort, PolicyInv
<1>2. applying' \in [Writer -> Seq(Proposal)] /\ taken' \in [Writer -> 0..MaxSec]
  <2>1. <<>> \in Seq(Proposal) /\ 0 \in 0..MaxSec
    BY EmptySeq, PolicyAssumption
  <2> QED BY <1>1, <2>1 DEF PolicyType
<1>3. CASE w # "service"
  <2>1. stamps' = stamps /\ batches' = Touched(fs, 0)
    BY <1>3 DEF Abort, For
  <2>2. batches' \in Seq(Batch)
    BY <1>1, <2>1, TouchedIs
  <2>3. PolicyType'
    BY <1>1, <1>2, <2>1, <2>2 DEF PolicyType
  <2>4. applying'["service"] = applying["service"] /\ taken'["service"] = taken["service"]
    BY <1>1, <1>3 DEF PolicyType, Writer
  <2> QED BY <1>1, <2>1, <2>3, <2>4, ForeignWriteKeeps
<1>4. CASE w = "service"
  <2>1. /\ stamps' = <<>> /\ batches' = Front(Touched(fs, n))
        /\ applying'["service"] = <<>> /\ taken'["service"] = 0
    BY <1>1, <1>4 DEF Abort, For, PolicyType
  <2>2. /\ batches # <<>> /\ undoing = <<>> /\ n \in Nat \ {0}
        /\ \A k \in 1..n : k < n => batches[k].stamps # <<>>
    BY <1>4, LastIs DEF PolicyInv, Phases
  <2>3. PICK touched : touched = Touched(fs, n)
    OBVIOUS
  <2>4. /\ touched \in Seq(Batch) /\ Len(touched) = n
        /\ \A k \in 1..n : touched[k].stamps = batches[k].stamps
    BY <1>1, <2>3, TouchedIs
  <2>5. batches' \in Seq(Batch) /\ Len(batches') = n - 1 /\ \A k \in 1..(n - 1) : batches'[k] = touched[k]
    <3>1. touched # <<>>
      BY <2>2, <2>4, EmptySeq
    <3>2. Front(touched) \in Seq(Batch) /\ Len(Front(touched)) = n - 1
          /\ \A k \in 1..(n - 1) : Front(touched)[k] = touched[k]
      BY <2>4, <3>1, FrontIs
    <3> QED BY <2>1, <2>3, <3>2
  <2>6. PolicyType'
    BY <1>1, <1>2, <2>1, <2>5, EmptySeq DEF PolicyType
  <2>7. \A k \in 1..Len(batches') : k \in 1..n /\ k < n /\ batches'[k].stamps = batches[k].stamps
                                      /\ batches[k].stamps # <<>>
    BY <2>2, <2>4, <2>5
  <2>8. Phases' /\ ToWrite' /\ Ready'
    BY <1>1, <2>1, <2>2, <2>7, EmptyBatch DEF Phases, ToWrite, Ready
  <2>9. ASSUME NEW k \in 1..Len(batches')
        PROVE  Undoable(policy', kept', batches'[k].before, Names(k)', Still(k)')
    <3>1. Names(k)' = Range(batches[k].stamps) /\ Still(k)' = {}
      BY <2>1, <2>7, EmptyBatch DEF Names, Still
    <3>2. Undoable(policy, kept, batches[k].before, Range(batches[k].stamps), {})
      BY <2>7, EarlierIsUndoable
    <3>3. Undoable(policy', kept', Touched(fs, n)[k].before, Range(batches[k].stamps), {})
      <4>1. PICK names : names = Range(batches[k].stamps)
        OBVIOUS
      <4>2. k \in 1..Len(batches) /\ k # n
        BY <2>2, <2>7
      <4>3. Undoable(policy', kept', Touched(fs, n)[k].before, names, {})
        BY <1>1, <3>2, <4>1, <4>2, OthersUndoable
      <4> QED BY <4>1, <4>3
    <3>4. batches'[k] = Touched(fs, n)[k]
      BY <2>3, <2>5
    <3> QED BY <3>1, <3>3, <3>4
  <2> QED BY <1>1, <2>2, <2>6, <2>8, <2>9 DEF PolicyInv
<1> QED BY <1>3, <1>4

LEMMA FailureKeeps ==
  ASSUME PolicyInv, NEW w \in Writer, CopyFails(w) \/ WriteFails(w) \/ AuditFails(w)
  PROVE  PolicyInv'
<1>1. PolicyType /\ NoneLater /\ applying[w] # <<>> /\ sec' = sec
  BY DEF PolicyInv, CopyFails, WriteFails, AuditFails, Written, Abort
<1>2. FileOf(w) \in Policies
  BY <1>1, HeadIs
<1> PICK f, fs : f = FileOf(w) /\ fs = {f}
  OBVIOUS
<1>3. policy \in [Policies -> Value] /\ kept \in [Policies -> [1..MaxSec -> Value \cup {Absent}]]
  BY <1>1 DEF PolicyType
<1>4. CASE UNCHANGED <<policy, kept>>
  <2>1. NoneLater'
    BY <1>1, <1>4 DEF NoneLater
  <2>2. PICK gs : Abort(w, gs)
    BY DEF CopyFails, WriteFails, AuditFails
  <2> QED BY <1>1, <1>3, <1>4, <2>1, <2>2, AbortKeeps
<1>5. CASE CopyFails(w) /\ kept' # kept
  <2>1. kept' = [kept EXCEPT ![f][sec] = Defaults] /\ policy' = policy /\ Abort(w, fs)
    BY <1>5 DEF CopyFails
  <2>2. PICK v \in Value : v = Defaults
    BY PolicyAssumption DEF Value, Defaults
  <2>3. kept' = [kept EXCEPT ![f][sec] = v]
    BY <2>1, <2>2
  <2>4. /\ kept' \in [Policies -> [1..MaxSec -> Value \cup {Absent}]] /\ NoneLater'
        /\ \A g \in Policies \ {f} : kept'[g] = kept[g]
    BY <1>1, <1>2, <2>3, CopyIs
  <2> QED BY <1>1, <1>3, <2>1, <2>4, AbortKeeps
<1>6. CASE AuditFails(w)
  <2>1. Written(w) /\ Abort(w, fs)
    BY <1>6 DEF AuditFails
  <2>2. /\ policy' \in [Policies -> Value]
        /\ kept' \in [Policies -> [1..MaxSec -> Value \cup {Absent}]] /\ NoneLater'
        /\ \A g \in Policies \ {f} : policy'[g] = policy[g] /\ kept'[g] = kept[g]
    BY <1>1, <2>1, WrittenIs
  <2> QED BY <1>1, <2>1, <2>2, AbortKeeps
<1> QED BY <1>4, <1>5, <1>6 DEF CopyFails, WriteFails

LEMMA RegressionKeeps ==
  ASSUME PolicyInv, Regression
  PROVE  PolicyInv'
<1> DEFINE n == Len(batches)
<1>1. /\ batches # <<>> /\ batches[n].stamps # <<>> /\ undoing' = batches[n].stamps
      /\ UNCHANGED <<policy, kept, sec, applying, taken, stamps, batches, tuning>> /\ undoFails' = FALSE
  BY DEF Regression, Last
<1>2. n \in 1..n /\ batches[n] \in Batch /\ PolicyType /\ NoneLater /\ applying["service"] = <<>> /\ stamps = <<>>
  BY <1>1, LastIs DEF PolicyInv, Phases
<1>3. PolicyType' /\ NoneLater'
  BY <1>1, <1>2, BatchIs DEF PolicyType, NoneLater
<1>4. Phases' /\ ToWrite' /\ Ready'
  BY <1>1, <1>2 DEF PolicyInv, Phases, ToWrite, Ready, FileOf
<1>5. Undoable(policy, kept, batches[n].before, Range(batches[n].stamps), {})
  BY <1>1, <1>2, EarlierIsUndoable
<1>6. ASSUME NEW k \in 1..n PROVE Undoable(policy', kept', batches'[k].before, Names(k)', Still(k)')
  <2>1. Names(k)' = Names(k) /\ Still(k)' = Still(k)
    BY <1>1 DEF Names, Still
  <2> QED BY <1>1, <2>1, LastIs
<1> QED BY <1>1, <1>3, <1>4, <1>5, <1>6 DEF PolicyInv

\* What is brought back: the one file with a backup of that name.
LEMMA RolledBackIs ==
  ASSUME PolicyType, NEW t \in 1..MaxSec, NEW fs, fs = Found(t) \/ fs = {}
  PROVE  /\ RolledBack(fs, t) \in [Policies -> Value]
         /\ \A f \in Policies \ fs : RolledBack(fs, t)[f] = policy[f]
         /\ \A f \in fs : f \in Policies /\ Named(t) = {f} /\ RolledBack(fs, t)[f] = kept[f][t]
<1>1. \A f \in fs : f \in Policies /\ Named(t) = {f} /\ kept[f][t] # Absent
  BY DEF Found, Named
<1>2. \A f \in Policies : kept[f][t] \in Value \cup {Absent} /\ policy[f] \in Value
  BY DEF PolicyType
<1>3. \A f \in Policies : RolledBack(fs, t)[f] = IF f \in fs THEN kept[f][t] ELSE policy[f]
  BY DEF RolledBack
<1>4. \A f \in Policies : RolledBack(fs, t)[f] \in Value
  BY <1>1, <1>2, <1>3
<1> QED BY <1>1, <1>3, <1>4 DEF RolledBack

\* One name of the last batch is rolled back: a file that comes back is one of
\* the batch, and comes back as it was.
LEMMA UndoneIs ==
  ASSUME PolicyInv, undoing # <<>>, NEW n, n = Len(batches), NEW t, t = Head(undoing),
         NEW before, before = batches[n].before, NEW names, names = Range(batches[n].stamps),
         NEW rest, rest = Range(Tail(undoing)), NEW fs, fs = Found(t) \/ fs = {}
  PROVE  /\ \A f \in DOMAIN before : f \in fs => RolledBack(fs, t)[f] = before[f]
         /\ Undoable(RolledBack(fs, t), kept, before, names, {})
         /\ ~undoFails /\ fs # {} => Undoable(RolledBack(fs, t), kept, before, rest, {})
<1>1. /\ applying["service"] = <<>> /\ batches # <<>> /\ batches[n].stamps # <<>> /\ n \in 1..n
      /\ Range(undoing) \subseteq names /\ undoing \in Seq(1..MaxSec) /\ batches[n] \in Batch
      /\ PolicyType
  BY LastIs DEF PolicyInv, Phases, PolicyType
<1>2. PICK S : S = 1..MaxSec
  OBVIOUS
<1>3. undoing \in Seq(S)
  BY <1>1, <1>2
<1>4. Range(undoing) = rest \cup {t} /\ t \in S
  BY <1>3, RangeOfTail, HeadTailProperties
<1>5. t \in 1..MaxSec /\ t \in names /\ rest \subseteq names
  BY <1>1, <1>2, <1>4
<1>6. Undoable(policy, kept, before, names, {})
  BY <1>1, EarlierIsUndoable
<1>7. DOMAIN before \subseteq Policies /\ \A f \in DOMAIN before : before[f] # Absent
  BY <1>1, BatchIs
<1>8. /\ \A f \in Policies \ fs : RolledBack(fs, t)[f] = policy[f]
      /\ \A f \in fs : f \in Policies /\ Named(t) = {f} /\ RolledBack(fs, t)[f] = kept[f][t]
  BY <1>1, <1>5, RolledBackIs
<1>9. ASSUME NEW f \in DOMAIN before, f \in fs PROVE RolledBack(fs, t)[f] = before[f]
  <2>1. PICK g \in DOMAIN before : kept[g][t] = before[g]
    BY <1>5, <1>6, <1>9 DEF Undoable
  <2>2. g \in Named(t)
    BY <1>7, <2>1 DEF Named
  <2> QED BY <1>8, <1>9, <2>1, <2>2
<1>10. \A f \in DOMAIN before : RolledBack(fs, t)[f] = before[f] \/ RolledBack(fs, t)[f] = policy[f]
  BY <1>7, <1>8, <1>9
<1>11. Undoable(RolledBack(fs, t), kept, before, names, {})
  BY <1>6, <1>10 DEF Undoable
<1>12. ASSUME ~undoFails, fs # {} PROVE Undoable(RolledBack(fs, t), kept, before, rest, {})
  <2>1. Undoable(policy, kept, before, Range(undoing), {})
    BY <1>1, <1>12 DEF PolicyInv
  <2>2. ASSUME NEW f \in DOMAIN before
        PROVE  RolledBack(fs, t)[f] = before[f] \/ \E u \in rest : kept[f][u] = before[f]
    <3>1. CASE policy[f] = before[f]
      BY <1>10, <2>2, <3>1
    <3>2. ASSUME NEW u \in Range(undoing), kept[f][u] = before[f]
          PROVE  RolledBack(fs, t)[f] = before[f] \/ u \in rest
      <4>1. CASE u = t
        <5>1. f \in Named(t)
          BY <1>7, <2>2, <3>2, <4>1 DEF Named
        <5>2. f \in fs
          BY <1>8, <1>12, <5>1
        <5> QED BY <1>9, <2>2, <5>2
      <4>2. CASE u # t
        BY <1>4, <3>2, <4>2
      <4> QED BY <4>1, <4>2
    <3> QED BY <2>1, <2>2, <3>1, <3>2 DEF Undoable
  <2>3. DOMAIN before # {} => \A u \in rest : \E g \in DOMAIN before \ {} : kept[g][u] = before[g]
    BY <1>5, <1>6 DEF Undoable
  <2> QED BY <2>2, <2>3 DEF Undoable
<1> QED BY <1>9, <1>11, <1>12

LEMMA UndoOneKeeps ==
  ASSUME PolicyInv, UndoOne
  PROVE  /\ PolicyInv'
         /\ Len(batches') < Len(batches) =>
              \A f \in DOMAIN Last(batches).before : policy'[f] = Last(batches).before[f]
<1>0. PICK fs \in {Found(Head(undoing)), {}}, told \in BOOLEAN :
                /\ undoing # <<>> /\ undoing' = Tail(undoing)
                /\ policy' = RolledBack(fs, Head(undoing))
                /\ undoFails' = ((undoFails \/ fs = {} \/ ~told) /\ Tail(undoing) # <<>>)
                /\ batches' = (IF undoFails \/ fs = {} \/ ~told \/ Tail(undoing) # <<>>
                               THEN Touched(fs, Len(batches)) ELSE Front(Touched(fs, Len(batches))))
                /\ UNCHANGED <<kept, sec, applying, taken, stamps, tuning>>
  BY DEF UndoOne
<1> PICK n, t, before, names, rest, touched :
      /\ n = Len(batches) /\ t = Head(undoing) /\ before = batches[n].before
      /\ names = Range(batches[n].stamps) /\ rest = Range(Tail(undoing)) /\ touched = Touched(fs, n)
  OBVIOUS
<1>1. PICK undoBad \in BOOLEAN : undoBad = (undoFails \/ fs = {} \/ ~told)
  OBVIOUS
<1>2. /\ undoing # <<>> /\ undoing' = Tail(undoing) /\ policy' = RolledBack(fs, t)
      /\ undoFails' = (undoBad /\ Tail(undoing) # <<>>)
      /\ batches' = (IF undoBad \/ Tail(undoing) # <<>> THEN touched ELSE Front(touched))
      /\ UNCHANGED <<kept, sec, applying, taken, stamps, tuning>>
      /\ fs = Found(t) \/ fs = {}
  BY <1>0, <1>1
<1>3. /\ applying["service"] = <<>> /\ stamps = <<>> /\ batches # <<>> /\ batches[n].stamps # <<>>
      /\ n \in 1..n /\ n \in Nat /\ PolicyType /\ NoneLater /\ Range(undoing) \subseteq names
      /\ \A k \in 1..n : batches[k].stamps # <<>>
      /\ undoing \in Seq(1..MaxSec) /\ batches[n] \in Batch
  <2>1. /\ applying["service"] = <<>> /\ stamps = <<>> /\ batches # <<>> /\ batches[n].stamps # <<>>
        /\ Range(undoing) \subseteq names
    BY <1>2 DEF PolicyInv, Phases
  <2>2. /\ n \in 1..n /\ n \in Nat /\ PolicyType /\ NoneLater /\ batches[n] \in Batch /\ undoing \in Seq(1..MaxSec)
    BY <2>1, LastIs DEF PolicyInv, PolicyType
  <2>3. \A k \in 1..n : k < n => batches[k].stamps # <<>>
    BY DEF PolicyInv, Phases
  <2>4. \A k \in 1..n : k < n \/ k = n
    BY <2>2
  <2> QED BY <2>1, <2>2, <2>3, <2>4
<1>4. t \in 1..MaxSec /\ Tail(undoing) \in Seq(1..MaxSec) /\ rest \subseteq names
  <2>1. PICK S : S = 1..MaxSec
    OBVIOUS
  <2>2. undoing \in Seq(S)
    BY <1>3, <2>1
  <2>3. t \in S /\ Tail(undoing) \in Seq(S) /\ Range(undoing) = rest \cup {t}
    BY <1>2, <2>2, RangeOfTail, HeadTailProperties
  <2> QED BY <1>3, <2>1, <2>3
<1>5. /\ RolledBack(fs, t) \in [Policies -> Value]
      /\ \A f \in Policies \ fs : RolledBack(fs, t)[f] = policy[f]
  BY <1>2, <1>3, <1>4, RolledBackIs
<1>6. /\ Undoable(RolledBack(fs, t), kept, before, names, {})
      /\ ~undoBad => Undoable(RolledBack(fs, t), kept, before, rest, {})
  BY <1>1, <1>2, UndoneIs
<1>7. /\ touched \in Seq(Batch) /\ Len(touched) = n /\ touched[n] = batches[n]
      /\ \A k \in 1..n : touched[k].stamps = batches[k].stamps
  BY <1>3, TouchedIs
<1>8. touched # <<>>
  BY <1>3, <1>7, EmptySeq
<1>9. ASSUME NEW k \in 1..n
      PROVE  Undoable(RolledBack(fs, t), kept, touched[k].before, Range(batches[k].stamps), {})
  <2>1. CASE k = n
    BY <1>6, <1>7, <2>1
  <2>2. CASE k # n
    <3>1. Undoable(policy, kept, batches[k].before, Range(batches[k].stamps), {})
      BY <1>3, EarlierIsUndoable
    <3>2. \A f \in Policies \ fs : policy'[f] = policy[f] /\ kept'[f] = kept[f]
      BY <1>2, <1>5
    <3>3. Undoable(policy', kept', Touched(fs, n)[k].before, Range(batches[k].stamps), {})
      BY <1>3, <2>2, <3>1, <3>2, OthersUndoable
    <3> QED BY <1>2, <3>3
  <2> QED BY <2>1, <2>2
<1>10. /\ batches' \in Seq(Batch) /\ Len(batches') \in Nat /\ Len(batches') <= n
       /\ \A k \in 1..Len(batches') : k \in 1..n /\ batches'[k] = touched[k]
       /\ batches' # touched => Len(batches') = n - 1 /\ ~undoBad /\ Tail(undoing) = <<>>
  <2>1. CASE undoBad \/ Tail(undoing) # <<>>
    BY <1>2, <1>3, <1>7, <2>1
  <2>2. CASE ~(undoBad \/ Tail(undoing) # <<>>)
    <3>1. batches' = Front(touched)
      BY <1>2, <2>2
    <3>2. Front(touched) \in Seq(Batch) /\ Len(Front(touched)) = n - 1
          /\ \A k \in 1..(n - 1) : Front(touched)[k] = touched[k]
      BY <1>7, <1>8, FrontIs
    <3> QED BY <1>3, <2>2, <3>1, <3>2
  <2> QED BY <2>1, <2>2
<1>11. PolicyType' /\ NoneLater'
  BY <1>1, <1>2, <1>3, <1>4, <1>5, <1>10 DEF PolicyType, NoneLater
<1>12. \A k \in 1..Len(batches') : batches'[k].stamps = batches[k].stamps /\ batches'[k].stamps # <<>>
  BY <1>3, <1>7, <1>10
<1>13. undoing' # <<>> => batches' = touched
  BY <1>2, <1>10
<1>14. Phases'
  <2>1. undoing' # <<>> =>
          /\ batches' # <<>> /\ batches'[Len(batches')].stamps # <<>>
          /\ Range(undoing') \subseteq Range(batches'[Len(batches')].stamps)
    BY <1>2, <1>3, <1>4, <1>7, <1>8, <1>13
  <2> QED BY <1>2, <1>3, <1>12, <2>1 DEF Phases
<1>15. ToWrite' /\ Ready'
  BY <1>2, <1>3, EmptyBatch DEF PolicyInv, ToWrite, Ready
<1>16. ASSUME NEW k \in 1..Len(batches')
       PROVE  Undoable(policy', kept', batches'[k].before, Names(k)', Still(k)')
  <2>1. Still(k)' = {}
    BY <1>2, <1>3, EmptyBatch DEF Still
  <2>2. Names(k)' = Range(batches[k].stamps)
    BY <1>12 DEF Names
  <2>3. k \in 1..n /\ batches'[k] = touched[k]
    BY <1>10
  <2> QED BY <1>2, <1>9, <2>1, <2>2, <2>3
<1>17. undoing' # <<>> /\ ~undoFails' =>
         Undoable(policy', kept', batches'[Len(batches')].before, Range(undoing'), {})
  BY <1>2, <1>6, <1>7, <1>13
<1>18. PolicyInv'
  BY <1>11, <1>14, <1>15, <1>16, <1>17 DEF PolicyInv
<1>19. ASSUME Len(batches') < n PROVE \A f \in DOMAIN before : policy'[f] = before[f]
  <2>1. ~undoBad /\ Tail(undoing) = <<>>
    BY <1>3, <1>7, <1>10, <1>19
  <2>2. rest = {}
    BY <2>1, EmptyBatch
  <2> QED BY <1>2, <1>6, <2>1, <2>2 DEF Undoable
<1> QED BY <1>18, <1>19 DEF Last

LEMMA PolicyInitially == PolicyInit => PolicyInv
<1> SUFFICES ASSUME PolicyInit PROVE PolicyInv
  OBVIOUS
<1>1. Len(batches) = 0 /\ batches = <<>> /\ \A S : <<>> \in Seq(S)
  BY EmptySeq DEF PolicyInit
<1>2. 1 \in Value /\ 1 \in 1..MaxSec /\ 0 \in 0..MaxSec
  BY PolicyAssumption DEF Value
<1>3. PolicyType /\ NoneLater
  <2>1. /\ policy \in [Policies -> Value] /\ kept \in [Policies -> [1..MaxSec -> Value \cup {Absent}]]
        /\ sec \in 1..MaxSec /\ tuning \in Value \cup {Absent} /\ taken \in [Writer -> 0..MaxSec]
    BY <1>2 DEF PolicyInit
  <2>2. /\ applying \in [Writer -> Seq(Proposal)] /\ stamps \in Seq(1..MaxSec) /\ undoing \in Seq(1..MaxSec)
        /\ batches \in Seq(Batch) /\ undoFails \in BOOLEAN
    BY <1>1 DEF PolicyInit
  <2>3. NoneLater
    BY DEF PolicyInit, NoneLater
  <2> QED BY <2>1, <2>2, <2>3 DEF PolicyType
<1>4. Phases /\ ToWrite /\ Ready
  BY <1>1 DEF PolicyInit, Phases, ToWrite, Ready, Writer
<1> QED BY <1>1, <1>3, <1>4 DEF PolicyInit, PolicyInv

\* All steps; and the one that ends a rollback.
LEMMA PolicyStep ==
  ASSUME PolicyInv, [PolicyNext]_policyVars
  PROVE  /\ PolicyInv'
         /\ UndoOne /\ Len(batches') < Len(batches) =>
              \A f \in DOMAIN Last(batches).before : policy'[f] = Last(batches).before[f]
<1>1. PolicyType /\ NoneLater
  BY DEF PolicyInv
<1>2. ASSUME UNCHANGED <<policy, kept, stamps, batches, undoing, undoFails>>,
             applying'["service"] = applying["service"], taken'["service"] = taken["service"],
             PolicyType', NoneLater'
      PROVE  PolicyInv'
  <2>1. Phases' /\ ToWrite' /\ Ready'
    BY <1>2 DEF PolicyInv, Phases, ToWrite, Ready, FileOf
  <2>2. \A k \in 1..Len(batches) : Names(k)' = Names(k) /\ Still(k)' = Still(k)
    BY <1>2 DEF Names, Still
  <2>3. ASSUME NEW k \in 1..Len(batches)
        PROVE  Undoable(policy', kept', batches'[k].before, Names(k)', Still(k)')
    BY <1>2, <2>2, LastIs
  <2>4. undoing' # <<>> /\ ~undoFails' =>
          Undoable(policy', kept', batches'[Len(batches')].before, Range(undoing'), {})
    BY <1>2 DEF PolicyInv
  <2> QED BY <1>2, <2>1, <2>3, <2>4 DEF PolicyInv
<1>3. ASSUME StartBatch PROVE PolicyInv'
  BY <1>3, StartBatchKeeps
<1>4. ASSUME StartCommand PROVE PolicyInv'
  <2>1. PICK p \in Proposal : applying' = [applying EXCEPT !["command"] = <<p>>]
    BY <1>4, PolicyAssumption DEF StartCommand, Proposal, Value
  <2>2. <<p>> \in Seq(Proposal)
    OBVIOUS
  <2>3. applying' \in [Writer -> Seq(Proposal)] /\ applying'["service"] = applying["service"]
    BY <1>1, <2>1, <2>2 DEF PolicyType, Writer
  <2> QED BY <1>1, <1>2, <1>4, <2>3 DEF StartCommand, PolicyType, NoneLater
<1>5. ASSUME EndBatch PROVE PolicyInv'
  BY <1>5, EndBatchKeeps
<1>6. ASSUME Regression PROVE PolicyInv'
  BY <1>6, RegressionKeeps
<1>7. ASSUME TuneLoad PROVE PolicyInv'
  <2>1. tuning' \in Value \cup {Absent}
    BY <1>1, <1>7, PolicyAssumption DEF TuneLoad, PolicyType
  <2> QED BY <1>1, <1>2, <1>7, <2>1 DEF TuneLoad, PolicyType, NoneLater
<1>8. ASSUME TuneStore PROVE PolicyInv'
  <2>1. UNCHANGED <<kept, sec, applying, taken, stamps, undoing, undoFails>> /\ tuning' = Absent
    BY <1>8 DEF TuneStore
  <2>2. CASE UNCHANGED <<policy, batches>>
    BY <1>1, <1>2, <2>1, <2>2 DEF PolicyType, NoneLater
  <2>3. ASSUME NEW v \in Value, policy' = [policy EXCEPT ![Gates] = v], batches' = Touched({Gates}, 0)
        PROVE  PolicyInv'
    <3>1. batches' \in Seq(Batch)
      BY <1>1, <2>3, TouchedIs
    <3>2. PolicyType' /\ NoneLater'
      BY <1>1, <2>1, <2>3, <3>1 DEF PolicyType, NoneLater
    <3>3. PICK fs : fs = {Gates}
      OBVIOUS
    <3>4. \A f \in Policies \ fs : policy'[f] = policy[f] /\ kept'[f] = kept[f]
      BY <1>1, <2>1, <2>3, <3>3 DEF PolicyType
    <3>5. batches' = Touched(fs, 0)
      BY <2>3, <3>3
    <3> QED BY <2>1, <3>2, <3>4, <3>5, ForeignWriteKeeps
  <2> QED BY <1>8, <2>2, <2>3 DEF TuneStore
<1>9. ASSUME Second PROVE PolicyInv'
  <2>1. sec' \in 1..MaxSec /\ sec' = sec + 1
    BY <1>1, <1>9, PolicyAssumption DEF Second, PolicyType
  <2>2. PolicyType' /\ NoneLater'
    BY <1>1, <1>9, <2>1 DEF Second, PolicyType, NoneLater
  <2> QED BY <1>2, <1>9, <2>2 DEF Second
<1>10. ASSUME NEW w \in Writer, Store(w) PROVE PolicyInv'
  <2>1. CASE w = "service"
    BY <1>10, <2>1, ServiceStoreKeeps
  <2>2. CASE w # "service"
    <3> PICK f : f = FileOf(w)
      OBVIOUS
    <3>1. /\ PolicyType' /\ NoneLater'
          /\ \A g \in Policies \ {f} : policy'[g] = policy[g] /\ kept'[g] = kept[g]
      BY <1>10, StoreIs
    <3>2. /\ applying'["service"] = applying["service"] /\ taken'["service"] = taken["service"]
          /\ batches' = Touched({f}, 0) /\ UNCHANGED <<stamps, undoing, undoFails>>
      BY <1>1, <1>10, <2>2 DEF Store, For, PolicyType, Writer
    <3> QED BY <3>1, <3>2, ForeignWriteKeeps
  <2> QED BY <2>1, <2>2
<1>11. ASSUME NEW t \in 1..MaxSec, Command(t) PROVE PolicyInv'
  <2>1. UNCHANGED <<kept, sec, applying, taken, stamps, undoing, undoFails, tuning>> /\ policy' = RolledBack(Found(t), t)
        /\ batches' = Touched(Found(t), 0)
    BY <1>11 DEF Command
  <2>2. batches' \in Seq(Batch) /\ RolledBack(Found(t), t) \in [Policies -> Value]
        /\ \A f \in Policies \ Found(t) : policy'[f] = policy[f] /\ kept'[f] = kept[f]
    BY <1>1, <2>1, TouchedIs, RolledBackIs
  <2>3. PolicyType' /\ NoneLater'
    BY <1>1, <2>1, <2>2 DEF PolicyType, NoneLater
  <2> QED BY <2>1, <2>2, <2>3, ForeignWriteKeeps
<1>12. ASSUME UNCHANGED policyVars PROVE PolicyInv'
  <2>1. UNCHANGED <<policy, kept, sec, applying, taken, stamps, batches, undoing, undoFails, tuning>>
    BY <1>12 DEF policyVars
  <2>2. PolicyType' /\ NoneLater'
    BY <1>1, <2>1 DEF PolicyType, NoneLater
  <2> QED BY <1>2, <2>1, <2>2
<1>13. UndoOne => PolicyInv' /\ (Len(batches') < Len(batches) =>
              \A f \in DOMAIN Last(batches).before : policy'[f] = Last(batches).before[f])
  BY UndoOneKeeps
<1>14. \A w \in Writer : Skip(w) => PolicyInv'
  BY SkipKeeps
<1>16. \A w \in Writer : Snapshot(w) \/ CopyFails(w) \/ WriteFails(w) \/ AuditFails(w) => PolicyInv'
  BY SnapshotKeeps, FailureKeeps
<1>15. PolicyInv'
  BY <1>3, <1>4, <1>5, <1>6, <1>7, <1>8, <1>9, <1>10, <1>11, <1>12, <1>13, <1>14, <1>16 DEF PolicyNext
<1> QED BY <1>13, <1>15

\* For any files, batches and backups kept: a rollback that reports success has
\* put each file of the batch back as it was, where nobody else has backed one of
\* them up or written to it since and no two proposals were for one file; copies,
\* writes, reads and the audit may fail, between a backup and its write too.
\* The names of a batch are those of backups of its own files, so that no other
\* can be found under one of them alone.
THEOREM RollbackIsWhole == PolicySpec => RollbackRestores
<1>1. PolicyInv /\ [PolicyNext]_policyVars => PolicyInv'
  BY PolicyStep
<1>2. PolicyInv /\ [PolicyNext]_policyVars =>
        [UndoOne /\ Len(batches') < Len(batches)
           => \A f \in DOMAIN Last(batches).before : policy'[f] = Last(batches).before[f]]_policyVars
  BY PolicyStep
<1> QED BY <1>1, <1>2, PolicyInitially, PTL DEF PolicySpec, RollbackRestores
=============================================================================
