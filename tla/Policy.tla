------------------------------- MODULE Policy --------------------------------
(***************************************************************************)
(* The files under skills/policy and those who rewrite them: the           *)
(* self-learning service that applies a batch of proposals and rolls the   *)
(* last batch back when the metrics regress (self_learning/apply.py), the  *)
(* policy-apply and policy-rollback commands (cli/main.py), both by way of *)
(* runtime/lesson_parser.py, and live tuning in the orchestrator           *)
(* (runtime/live_tuning.py, agent/run.py).                                 *)
(*                                                                         *)
(* A replacement of a file is atomic and under a lock.  What was read      *)
(* before it is not, nor is the backup taken before it, and the name of a  *)
(* backup is a time in whole seconds.                                      *)
(***************************************************************************)
EXTENDS Naturals, Sequences, FiniteSets, SequencesExt

CONSTANTS Policies,  \* the policy files
          Gates,     \* the one live tuning writes
          Excluded,  \* those self-learning leaves to a human
          Levels,    \* values of a policy: 0 .. Levels
          Keep,      \* backups kept of a file
          Asks,      \* bounds: the values a writer's proposals ask for,
          MaxBatch,  \* proposals of a first batch, of each next one less,
          MaxBatches, MaxSec \* batches on record, seconds

ASSUME PolicyAssumption ==
  /\ Gates \in Policies /\ Excluded \subseteq Policies
  /\ Asks \in [{"service", "command"} -> SUBSET (0..Levels)]
  /\ {MaxBatch, MaxBatches} \subseteq Nat /\ {Levels, Keep, MaxSec} \subseteq Nat \ {0}

Value == 0..Levels
Writer == {"service", "command"}
Absent == Levels + 1   \* no such backup
Defaults == 0          \* what an empty file is read as

VARIABLES policy,    \* file -> value
          kept,      \* file -> second -> the backup of that name
          sec,       \* the clock
          applying,  \* writer -> the proposals it has yet to apply
          taken,     \* writer -> the name of the backup it has taken for the first, or 0
          stamps,    \* the service: names of the batch's backups
          batches,   \* its _applied_batches: names, and (history) its files as they were before,
                     \* as long as only this batch has backed them up or written to them,
                     \* and once each
          undoing,   \* names of the last batch not yet rolled back
          undoFails,
          tuning     \* what live tuning has loaded

policyVars == <<policy, kept, sec, applying, taken, stamps, batches, undoing, undoFails,
                tuning>>

PolicyInit ==
  /\ policy = [f \in Policies |-> 1] /\ kept = [f \in Policies |-> [t \in 1..MaxSec |-> Absent]]
  /\ sec = 1 /\ applying = [w \in Writer |-> <<>>] /\ taken = [w \in Writer |-> 0]
  /\ stamps = <<>> /\ batches = <<>> /\ undoing = <<>> /\ undoFails = FALSE
  /\ tuning = Absent

\* Files are backed up or written, for the batch of that number or (0) for none.
Touched(fs, own) ==
  [k \in DOMAIN batches |->
     IF k # own /\ DOMAIN batches[k].before \cap fs # {} THEN [batches[k] EXCEPT !.before = <<>>]
                                                        ELSE batches[k]]
For(w) == IF w = "service" THEN Len(batches) ELSE 0

FilesOf(ps) == {ps[i].file : i \in DOMAIN ps}
Distinct(ps) == \A i, j \in DOMAIN ps : i # j => ps[i].file # ps[j].file
Proposal == [file : Policies, after : Value]

-----------------------------------------------------------------------------
\* Consolidator and auto_apply: proposals that are of low risk, and none for
\* an excluded file.
StartBatch ==
  /\ applying["service"] = <<>> /\ stamps = <<>> /\ undoing = <<>> /\ Len(batches) < MaxBatches
  /\ batches # <<>> => Last(batches).stamps # <<>>
  /\ \E ps \in SeqOf([file : Policies \ Excluded, after : Asks["service"]], MaxBatch - Len(batches)) :
       /\ ps # <<>> /\ applying' = [applying EXCEPT !["service"] = ps]
       /\ batches' = Append(batches, [stamps |-> <<>>, before |->
                       [f \in IF Distinct(ps) THEN FilesOf(ps) ELSE {} |-> policy[f]]])
  /\ UNCHANGED <<policy, kept, sec, taken, stamps, undoing, undoFails, tuning>>

\* policy-apply: a batch the operator confirms.
StartCommand ==
  /\ applying["command"] = <<>>
  /\ \E p \in [file : Policies, after : Asks["command"]] :
       applying' = [applying EXCEPT !["command"] = <<p>>]
  /\ UNCHANGED <<policy, kept, sec, taken, stamps, batches, undoing, undoFails, tuning>>

\* A proposal that does not validate is noted, and the next one is taken.
Skip(w) ==
  /\ applying[w] # <<>> /\ taken[w] = 0 /\ applying' = [applying EXCEPT ![w] = Tail(@)]
  /\ UNCHANGED <<policy, kept, sec, taken, stamps, batches, undoing, undoFails, tuning>>

\* _prune_old_backups: the newest Keep.
Pruned(b) == [t \in 1..MaxSec |->
  IF Cardinality({u \in 1..MaxSec : u > t /\ b[u] # Absent}) < Keep THEN b[t] ELSE Absent]

FileOf(w) == Head(applying[w]).file

SnapshotOf(w, content) ==
  /\ applying[w] # <<>> /\ taken[w] = 0
  /\ kept' = [kept EXCEPT ![FileOf(w)][sec] = content]
  /\ taken' = [taken EXCEPT ![w] = sec] /\ batches' = Touched({FileOf(w)}, For(w))
  /\ UNCHANGED <<policy, sec, applying, stamps, undoing, undoFails, tuning>>

\* Mutant: the copy is made after the write.
SnapshotLate(w) == SnapshotOf(w, Head(applying[w]).after)

\* _snapshot_backup, over one of the same second.
Snapshot(w) == SnapshotOf(w, policy[FileOf(w)])

\* The write, and the pruning.
Written(w) ==
  /\ applying[w] # <<>> /\ taken[w] # 0
  /\ policy' = [policy EXCEPT ![FileOf(w)] = Head(applying[w]).after]
  /\ kept' = [kept EXCEPT ![FileOf(w)] = Pruned(@)]

Store(w) ==
  /\ Written(w) /\ batches' = Touched({FileOf(w)}, For(w))
  /\ applying' = [applying EXCEPT ![w] = Tail(@)] /\ taken' = [taken EXCEPT ![w] = 0]
  /\ stamps' = IF w = "service" THEN Append(stamps, taken[w]) ELSE stamps
  /\ UNCHANGED <<sec, undoing, undoFails, tuning>>

\* What is no PolicyApplyError passes through apply_proposals_batch and
\* auto_apply: the rest is not applied, and what was is no batch.
Abort(w, fs) ==
  /\ applying' = [applying EXCEPT ![w] = <<>>] /\ taken' = [taken EXCEPT ![w] = 0]
  /\ stamps' = (IF w = "service" THEN <<>> ELSE stamps)
  /\ batches' = (IF w = "service" THEN Front(Touched(fs, For(w))) ELSE Touched(fs, For(w)))
  /\ UNCHANGED <<sec, undoing, undoFails, tuning>>

\* The file is not read, or its copy is cut short, over a backup of this second.
CopyFails(w) ==
  /\ applying[w] # <<>> /\ taken[w] = 0 /\ Abort(w, {FileOf(w)})
  /\ kept' \in {kept, [kept EXCEPT ![FileOf(w)][sec] = Defaults]}
  /\ UNCHANGED policy

\* The backup stays.
WriteFails(w) ==
  /\ applying[w] # <<>> /\ taken[w] # 0 /\ Abort(w, {})
  /\ UNCHANGED <<policy, kept>>

AuditFails(w) == Written(w) /\ Abort(w, {FileOf(w)})

\* auto_apply ends: a batch nothing of which was applied is not recorded.
EndBatch ==
  /\ batches # <<>> /\ applying["service"] = <<>> /\ Last(batches).stamps = <<>>
  /\ batches' = IF stamps = <<>> THEN Front(batches)
                ELSE [batches EXCEPT ![Len(batches)].stamps = stamps]
  /\ stamps' = <<>>
  /\ UNCHANGED <<policy, kept, sec, applying, taken, undoing, undoFails, tuning>>

-----------------------------------------------------------------------------
\* rollback_policy: the one file that has a backup of this name; it raises
\* when there is none, and when there are two.  A copy that was cut short
\* may be an empty mapping, and parses.
Named(t) == {f \in Policies : kept[f][t] # Absent}
Found(t) == {f \in Named(t) : Named(t) = {f}}
RolledBack(fs, t) == [f \in Policies |-> IF f \in fs THEN kept[f][t] ELSE policy[f]]

\* check_regression_and_rollback: the metrics of the last waves are worse
\* than those before by more than the threshold.
Regression ==
  /\ batches # <<>> /\ Last(batches).stamps # <<>> /\ undoing = <<>>
  /\ undoing' = Last(batches).stamps /\ undoFails' = FALSE
  /\ UNCHANGED <<policy, kept, sec, applying, taken, stamps, batches, tuning>>

\* _rollback_last_batch, name by name in the order they were made; the read or
\* the write may raise, and so may what records it.  When none has failed the
\* batch is forgotten; else it stays the last one.
UndoOne ==
  /\ undoing # <<>> /\ undoing' = Tail(undoing)
  /\ \E fs \in {Found(Head(undoing)), {}}, told \in BOOLEAN :
       LET failed == undoFails \/ fs = {} \/ ~told
           touched == Touched(fs, Len(batches))
       IN  /\ policy' = RolledBack(fs, Head(undoing))
           /\ undoFails' = (failed /\ Tail(undoing) # <<>>)
           /\ batches' = IF failed \/ Tail(undoing) # <<>> THEN touched ELSE Front(touched)
  /\ UNCHANGED <<kept, sec, applying, taken, stamps, tuning>>

\* policy-rollback.
Command(t) ==
  /\ Found(t) # {} /\ policy' = RolledBack(Found(t), t) /\ batches' = Touched(Found(t), 0)
  /\ UNCHANGED <<kept, sec, applying, taken, stamps, undoing, undoFails, tuning>>

-----------------------------------------------------------------------------
\* The review subscriber loads the gates ...
TuneLoad ==
  /\ tuning = Absent /\ tuning' = policy[Gates]
  /\ UNCHANGED <<policy, kept, sec, applying, taken, stamps, batches, undoing, undoFails>>

\* ... and _apply_live_tuning writes the whole file from what was loaded: lower
\* thresholds that are within bounds.  A higher one is a question to a human.
TuneStore ==
  /\ tuning # Absent /\ tuning' = Absent
  /\ \/ \E v \in Value : v <= tuning /\ policy' = [policy EXCEPT ![Gates] = v]
        /\ batches' = Touched({Gates}, 0)
     \/ UNCHANGED <<policy, batches>>
  /\ UNCHANGED <<kept, sec, applying, taken, stamps, undoing, undoFails>>

Second == /\ sec < MaxSec /\ sec' = sec + 1
          /\ UNCHANGED <<policy, kept, applying, taken, stamps, batches, undoing, undoFails, tuning>>

-----------------------------------------------------------------------------
PolicyNext ==
  \/ StartBatch \/ StartCommand \/ EndBatch \/ Regression \/ UndoOne \/ TuneLoad \/ TuneStore \/ Second
  \/ \E w \in Writer : \/ Skip(w) \/ Snapshot(w) \/ Store(w)
                        \/ CopyFails(w) \/ WriteFails(w) \/ AuditFails(w)
  \/ \E t \in 1..MaxSec : Command(t)

PolicySpec == PolicyInit /\ [][PolicyNext]_policyVars

\* A rollback that reports success has put every file of the batch back as it
\* was before the batch, if nothing else has backed one of them up or written to
\* it since, no other batch either, and no two of its proposals are for one file.
\* (Without the former, its backup may have been replaced, by a write that failed
\* too, or a backup of another file may be the one restored; without the latter,
\* the batch is not undone: README, 6.)
RollbackRestores ==
  [][UndoOne /\ Len(batches') < Len(batches)
       => \A f \in DOMAIN Last(batches).before : policy'[f] = Last(batches).before[f]]_policyVars

=============================================================================
