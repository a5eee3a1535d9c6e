----------------------------- MODULE SubStories -----------------------------
(***************************************************************************)
(* A story too large for one worker: runtime/auto_split.py,                *)
(* runtime/story_splitter.py, runtime/sub_story_executor.py and the place  *)
(* in agent/run.py where a pilot diverts a story to them and falls back to *)
(* one worker.                                                             *)
(*                                                                         *)
(* The story is decomposed, the sub-stories run one after the other on the *)
(* parent's branch, their commits become one.  A commit is the set of      *)
(* those whose work it holds; branch lists the commits past base_sha.      *)
(***************************************************************************)
EXTENDS Naturals, Sequences, FiniteSets, SequencesExt

CONSTANTS Sub,       \* ids a decomposition may use
          Parent,    \* the id of the story
          MaxLen,    \* bound: length of a decomposition
          MinSubs, MaxSubs,
          MaxCommits \* bound: commits of one sub-story

ASSUME SubStoriesAssumption ==
  /\ Parent \notin Sub /\ MaxLen \in Nat /\ MaxCommits \in Nat
  /\ MinSubs \in Nat \ {0} /\ MaxSubs \in Nat

VARIABLES phase,  \* "evaluate", "decompose", "spawn", "running", "exited", "squash",
                  \* "soft", "reset", "legacy", "split done", "over"
          plan,   \* the validated sub-stories, in the order of the answer
          done,   \* how many have been tried
          moved,  \* there are commits that last_head does not have
          exit0,  \* its exit code was 0
          branch, last, \* commits past base_sha; how many there were at last_head
          prior,  \* of them, those of an earlier pilot (a reused worktree)
          staged, \* work in the index: of commits reset --soft has taken back
          residue \* work that is not committed

subVars == <<phase, plan, done, moved, exit0, branch, last, prior, staged, residue>>

SubInit ==
  /\ phase = "evaluate" /\ plan = <<>> /\ done = 0 /\ moved = FALSE /\ exit0 = TRUE
  /\ prior \in 0..1 /\ branch = [i \in 1..prior |-> {"prior"}]
  /\ last = 0 /\ staged = {} /\ residue = {}

-----------------------------------------------------------------------------
\* A sub-story of the decomposer's answer: its id, and those it depends on.
Answer == [id : Sub \cup {Parent}, deps : SUBSET Sub]

\* What id d depends on in the end, within n steps.
Reach(p, d, n) ==
  LET R[k \in Nat] == IF k = 0 THEN {d}
                      ELSE R[k - 1] \cup UNION {p[i].deps : i \in {j \in DOMAIN p : p[j].id \in R[k - 1]}}
  IN  UNION {p[i].deps : i \in {j \in DOMAIN p : p[j].id \in R[n]}}

\* validate_decomposition: their number, ids that differ from each other and
\* from the parent's, dependencies that exist and do not form a cycle.  (That
\* the files they touch are disjoint and the parent's is not followed here.)
Valid(p) ==
  /\ MinSubs <= Len(p) /\ Len(p) <= MaxSubs
  /\ \A i, j \in DOMAIN p : i # j => p[i].id # p[j].id
  /\ \A i \in DOMAIN p : p[i].id # Parent
  /\ LET ids == {p[i].id : i \in DOMAIN p} IN
     /\ \A i \in DOMAIN p : p[i].deps \subseteq ids
     /\ \A d \in ids : d \notin Reach(p, d, Len(p))

-----------------------------------------------------------------------------
\* evaluate_split: a story below every threshold, a disabled diversion or no
\* decomposer leaves the story to one worker.
Evaluate ==
  /\ phase = "evaluate" /\ phase' \in {"legacy", "decompose"}
  /\ UNCHANGED <<plan, done, moved, exit0, branch, last, prior, staged, residue>>

\* The decomposer fails, or its answer is refused: the story is kept whole.
Decompose ==
  /\ phase = "decompose"
  /\ \/ \E p \in SeqOf(Answer, MaxLen) : Valid(p) /\ plan' = p /\ phase' = "spawn"
     \/ phase' = "legacy" /\ UNCHANGED plan
  /\ UNCHANGED <<done, moved, exit0, branch, last, prior, staged, residue>>

\* spawn_worker: the worktree is cleaned (reset --hard and clean).  It may
\* raise (a halt file, an MCP tool that is not ready), and the caller resets.
SpawnSub ==
  /\ phase = "spawn" /\ done < Len(plan)
  /\ phase' \in {"running", "reset"}
  /\ done' = done + 1 /\ residue' = {}
  /\ UNCHANGED <<plan, moved, exit0, branch, last, prior, staged>>

Me == plan[done].id

\* The worker commits, amends what is the last commit, or leaves work behind.
SubWorks ==
  /\ phase = "running"
  /\ \/ Len(branch) - last < MaxCommits /\ branch' = Append(branch, {Me}) /\ UNCHANGED residue
     \/ branch # <<>>
        /\ branch' = [branch EXCEPT ![Len(branch)] = @ \cup {Me}] /\ UNCHANGED residue
     \/ residue' = residue \cup {Me} /\ UNCHANGED branch
  /\ moved' = (moved \/ branch' # branch)
  /\ UNCHANGED <<phase, plan, done, exit0, last, prior, staged>>

SubExits ==
  /\ phase = "running" /\ phase' = "exited" /\ exit0' \in BOOLEAN
  /\ moved' = (moved \/ Len(branch) > last)
  /\ UNCHANGED <<plan, done, branch, last, prior, staged, residue>>

\* Mutant: the exit code alone decides.
ExitedWell == exit0

\* One sub-story's result: no commit past last_head is a failure too.
Succeeded == exit0 /\ moved

\* halt_on_failure: the loop ends, and the outcome is returned to the pilot,
\* which takes its normal way: nothing is reset.
NextSub ==
  /\ phase = "exited"
  /\ phase' = IF ~Succeeded THEN "legacy" ELSE IF done < Len(plan) THEN "spawn" ELSE "squash"
  /\ last' = Len(branch) /\ moved' = FALSE /\ exit0' = TRUE
  /\ UNCHANGED <<plan, done, branch, prior, staged, residue>>

\* squash_sub_stories: nothing to do for one commit; else reset --soft ...
Squash ==
  /\ phase = "squash"
  /\ IF Len(branch) <= 1
     THEN phase' = "split done" /\ UNCHANGED <<branch, staged>>
     ELSE phase' = "soft" /\ branch' = <<>> /\ staged' = UNION Range(branch)
  /\ UNCHANGED <<plan, done, moved, exit0, last, prior, residue>>

\* ... and commit, then commit --allow-empty; when both fail it raises.
Recommit ==
  /\ phase = "soft"
  /\ \/ phase' = "split done" /\ branch' = <<staged>> /\ staged' = {}
     \/ phase' = "reset" /\ UNCHANGED <<branch, staged>>
  /\ UNCHANGED <<plan, done, moved, exit0, last, prior, residue>>

\* _reset_worktree_to_base, which git may refuse: then all is left.
Reset ==
  /\ phase = "reset" /\ phase' = "legacy"
  /\ \/ branch' = <<>> /\ staged' = {} /\ residue' = {}
     \/ UNCHANGED <<branch, staged, residue>>
  /\ UNCHANGED <<plan, done, moved, exit0, last, prior>>

\* The worker of the whole story.
Legacy ==
  /\ phase = "legacy" /\ phase' = "over"
  /\ branch' = Append(branch, {"legacy"}) /\ staged' = {} /\ residue' = {}
  /\ UNCHANGED <<plan, done, moved, exit0, last, prior>>

-----------------------------------------------------------------------------
SubNext == Evaluate \/ Decompose \/ SpawnSub \/ SubWorks \/ SubExits \/ NextSub \/ Squash
           \/ Recommit \/ Reset \/ Legacy

SubSpec == SubInit /\ [][SubNext]_subVars

-----------------------------------------------------------------------------
\* A story reported as done by its sub-stories is one commit that holds the
\* work of every one of them.  On a reused worktree the first sub-story is
\* credited with the commits of the earlier pilot, and only the rest is sure.
SplitIsWhole ==
  phase = "split done" =>
    /\ Len(branch) = 1
    /\ \A i \in DOMAIN plan : i > prior => plan[i].id \in branch[1]

\* "Resetting before the legacy spawn lands its commits ensures the merge-gate
\* never sees a frankencommit of half-decomposition + legacy worker output"
\* (_reset_worktree_to_base).
NoFrankencommit ==
  phase = "over" =>
    \A i, j \in DOMAIN branch : branch[j] = {"legacy"} => branch[i] \cap Sub = {}

=============================================================================
