---------------------------- MODULE MergePipeline ----------------------------
(***************************************************************************)
(* The tail of a real pilot (agent/run.py): the workers of the last round  *)
(* end, the bus is drained through the gates                               *)
(*                                                                         *)
(*   stage5 -> build_check -> deletion_safety -> code_review               *)
(*                                   security_review -> merge              *)
(*                                                                         *)
(* stories left without a verdict are reconciled, the bus is drained once  *)
(* more and the outcomes are partitioned.  Everything here runs on one     *)
(* asyncio task; what is nondeterministic is what workers, reviewers, git  *)
(* and build commands answer.                                              *)
(*                                                                         *)
(* The queue holds the events some modelled code reads; any other event    *)
(* (budget hits, audit events) is an Other.  HUMAN_QUERY is the set asked. *)
(***************************************************************************)
EXTENDS Naturals, Sequences, FiniteSets

CONSTANTS Story,
          Critical,    \* stories the front matter or the epic marks critical
          ByDiff,      \* stories only a keyword of the worker's diff marks critical
          SecurityOn,  \* the security policy loads and is enabled
          ReviewRetry, \* CODE_REVIEW_ERROR_RETRY_MAX
          SecRetry,    \* error_retry_max of the security policy
          MaxDrain,    \* drain's max_events
          MaxNoise,    \* bound of the model: Other events queued by workers
          None         \* no event in hand

ASSUME PipelineAssumption ==
  /\ Critical \subseteq Story /\ ByDiff \subseteq Story
  /\ SecurityOn \in BOOLEAN
  /\ ReviewRetry \in Nat /\ SecRetry \in Nat
  /\ MaxDrain \in Nat \ {0} /\ MaxNoise \in Nat
  /\ IsFiniteSet(Story)

Verdict == {"approve", "request_changes", "reject", "error"}
Reason  == {"no_commits", "verdict_missing", "ff_conflict"}
Tag     == Verdict \cup {"success", "overridden", "halted", "-"}
Event   == [kind : {"completed", "verdict", "merged"}, story : Story, tag : Tag]
           \cup [kind : {"skipped"}, story : Story, tag : Reason]
           \cup [kind : {"other"}]
Other   == [kind |-> "other"]
Ev(k, s, t) == [kind |-> k, story |-> s, tag |-> t]

\* How a worker ended.  "cleanup" is the runner that could not delete its
\* branch; "unverified" ended well but has no handle or base_sha to count
\* its commits from (auto-split).
Ending    == {"running", "failed", "success", "unverified", "cleanup"}
Succeeded == {"success", "unverified", "cleanup"}

VARIABLES phase,      \* "work", "drain1", "reconcile", "drain2", "done", "crashed"
          ended,      \* how each worker ended
          log,        \* verdict in the runner's own Stage 6 log
          head,       \* who wrote HEAD of the feature branch
          unsafe,     \* stories whose worker's last commit deletes a protected file
          dirty,      \* stories with uncommitted work in the worktree
          gone,       \* stories whose worktree was removed
          rooted,     \* worktrees are below <target>/.worktrees, where merge looks
          queue, cur, pc, attempt, taken, noise,
          outcome,    \* what the gates last decided for the story
          cleared,    \* why SECURITY_REVIEW_PASSED was emitted for the story
          integrated, \* stories on the integration branch
          asked,      \* stories with a HUMAN_QUERY
          skipped,    \* stories with an INTEGRATION_MERGE_SKIPPED
          todo,       \* succeeded stories reconcile has not looked at
          rescued,    \* stories that got reconcile's synthetic approve
          verdictSeen, mergedSeen, skipReason  \* read off the dispatched events

tree   == <<log, head, unsafe, dirty, gone, rooted>>
seen   == <<verdictSeen, mergedSeen, skipReason>>
result == <<outcome, cleared, integrated, asked, skipped>>
vars   == <<phase, ended, tree, queue, cur, pc, attempt, taken, noise, result,
            todo, rescued, seen>>

Init ==
  /\ phase = "work" /\ ended = [s \in Story |-> "running"]
  /\ log = [s \in Story |-> "none"] /\ head = [s \in Story |-> "worker"]
  /\ unsafe = {} /\ dirty = {} /\ gone = {} /\ rooted \in BOOLEAN
  /\ queue = <<>> /\ cur = None /\ pc = "idle"
  /\ attempt = 0 /\ taken = 0 /\ noise = 0
  /\ outcome = [s \in Story |-> "none"]
  /\ cleared = [s \in Story |-> "no"] /\ integrated = {} /\ asked = {} /\ skipped = {}
  /\ todo = {} /\ rescued = {}
  /\ verdictSeen = {} /\ mergedSeen = {} /\ skipReason = [s \in Story |-> "none"]

-----------------------------------------------------------------------------
\* decide_worker_status for a worker whose exit codes are zero.
WorkerStatus(verdict) ==
  IF verdict \in {"request_changes", "reject"} THEN "failed" ELSE "success"

\* _tail_and_emit_completion.  A cleanup failure with commits is recovered:
\* the approve goes on the queue before the completion it belongs to.
TailAndEmitCompletion(s) ==
  /\ phase = "work" /\ ended[s] = "running"
  /\ \E how \in {"failed", "success", "unverified", "cleanup"},
        l \in {"none", "approve", "request_changes", "reject"},
        left, del \in BOOLEAN, t \in {"success", "overridden"} :
       /\ how \in {"success", "unverified"} => WorkerStatus(l) = "success"
       /\ t = "overridden" => how = "success"
       /\ ended' = [ended EXCEPT ![s] = how]
       /\ log' = [log EXCEPT ![s] = l]
       /\ dirty' = IF left THEN dirty \cup {s} ELSE dirty
       /\ unsafe' = IF del THEN unsafe \cup {s} ELSE unsafe
       /\ queue' = CASE how = "failed"  -> Append(queue, Other)
                     [] how = "cleanup" -> queue \o << Ev("verdict", s, "approve"),
                                                       Ev("completed", s, "success") >>
                     [] OTHER           -> Append(queue, Ev("completed", s, t))
  /\ UNCHANGED <<phase, head, gone, rooted, cur, pc, attempt, taken, noise, result,
                 todo, rescued, seen>>

\* attribute_usd and the watchdog publish events of their own.
Noise ==
  /\ phase = "work" /\ noise < MaxNoise
  /\ noise' = noise + 1 /\ queue' = Append(queue, Other)
  /\ UNCHANGED <<phase, ended, tree, cur, pc, attempt, taken, result, todo,
                 rescued, seen>>

\* gather returned: WAVE_BOUNDARY_REACHED, then the first drain.
WaveBoundary ==
  /\ phase = "work" /\ \A s \in Story : ended[s] # "running"
  /\ phase' = "drain1" /\ taken' = 0
  /\ queue' = Append(queue, Other)
  /\ UNCHANGED <<ended, tree, cur, pc, attempt, noise, result, todo, rescued, seen>>

-----------------------------------------------------------------------------
Draining == phase \in {"drain1", "drain2"}

\* dispatch_one pulls an event; subscribers that do not read its type return.
Dequeue ==
  /\ Draining /\ pc = "idle" /\ taken < MaxDrain /\ queue # <<>>
  /\ cur' = Head(queue) /\ queue' = Tail(queue) /\ attempt' = 0
  /\ pc' = CASE Head(queue).kind = "completed" -> "stage5"
             [] Head(queue).kind = "verdict"   -> "security"
             [] OTHER                          -> "end"
  /\ UNCHANGED <<phase, ended, tree, taken, noise, result, todo, rescued, seen>>

\* drain appends the event to the list it returns; reconcile reads verdicts
\* from the first list, partition_pilot_outcomes the merges from both.
Return ==
  /\ pc = "end"
  /\ pc' = "idle" /\ cur' = None /\ taken' = taken + 1
  /\ verdictSeen' = IF cur.kind = "verdict" /\ phase = "drain1"
                    THEN verdictSeen \cup {cur.story} ELSE verdictSeen
  /\ mergedSeen' = IF cur.kind = "merged"
                   THEN mergedSeen \cup {cur.story} ELSE mergedSeen
  /\ skipReason' = IF cur.kind = "skipped" /\ skipReason[cur.story] = "none"
                   THEN [skipReason EXCEPT ![cur.story] = cur.tag] ELSE skipReason
  /\ UNCHANGED <<phase, ended, tree, queue, attempt, noise, result, todo, rescued>>

Running(sub) == Draining /\ pc = sub

\* `git add -A` and `git commit` of whatever the worker left, unless git
\* fails; the recovery commit becomes HEAD.
Stage5Completeness ==
  /\ Running("stage5") /\ pc' = "build"
  /\ \E ok \in BOOLEAN :
       IF ok /\ cur.story \in dirty \ gone
       THEN /\ dirty' = dirty \ {cur.story}
            /\ head' = [head EXCEPT ![cur.story] = "recovery"]
       ELSE UNCHANGED <<dirty, head>>
  /\ UNCHANGED <<phase, ended, log, unsafe, gone, rooted, queue, cur, attempt,
                 taken, noise, result, todo, rescued, seen>>

\* Mutant: the halt is not written into the event.
HaltUnmarked(why) ==
  /\ asked' = asked \cup {cur.story}
  /\ outcome' = [outcome EXCEPT ![cur.story] = why]
  /\ UNCHANGED <<cur, cleared, integrated, skipped>>

\* A halt mutates the status in the event, so the gates behind it return.
HaltStory(why) ==
  /\ cur' = [cur EXCEPT !.tag = "halted"]
  /\ asked' = asked \cup {cur.story}
  /\ outcome' = [outcome EXCEPT ![cur.story] = why]
  /\ UNCHANGED <<cleared, integrated, skipped>>

BuildCheck ==
  /\ Running("build") /\ pc' = "deletion"
  /\ \/ UNCHANGED <<cur, result>>
     \/ HaltStory("build")
  /\ UNCHANGED <<phase, ended, tree, queue, attempt, taken, noise, todo, rescued, seen>>

\* `git show --diff-filter=D HEAD`: the deletions of the commit that is
\* HEAD, no other; a recovery commit may hold deletions of its own.
DeletionSafety ==
  /\ Running("deletion") /\ pc' = "review"
  /\ \E hit \in BOOLEAN :
       /\ head[cur.story] = "worker" => hit = (cur.story \in unsafe)
       /\ IF hit /\ cur.tag # "halted" /\ cur.story \notin gone
          THEN HaltStory("deletion")
          ELSE UNCHANGED <<cur, result>>
  /\ UNCHANGED <<phase, ended, tree, queue, attempt, taken, noise, todo, rescued, seen>>

-----------------------------------------------------------------------------
\* _merge_verdicts
Rank == [v \in Verdict |-> CASE v = "approve" -> 0 [] v = "reject" -> 1
                             [] v = "request_changes" -> 2 [] v = "error" -> 3]
Worst(a, b) == IF Rank[a] >= Rank[b] THEN a ELSE b

\* _run_merge_gate_two_stage: an unreadable spec verdict falls back to the
\* runner's log; only an approve goes on to the quality stage.
Spec1(spec, l) == IF spec = "error" /\ l # "none" THEN l ELSE spec
GateVerdict(spec, l, quality) ==
  IF Spec1(spec, l) # "approve" THEN Spec1(spec, l)
  ELSE IF quality = "error" /\ spec = "error" THEN "approve"
  ELSE Worst("approve", quality)

\* Spawning a reviewer resets a dirty worktree (auto_clean_dirty_worktree).
SpawnReviewer(s, spawned) ==
  /\ spawned => s \notin gone
  /\ dirty' = IF spawned THEN dirty \ {s} ELSE dirty

SkipReview ==
  /\ Running("review") /\ cur.tag = "halted" /\ pc' = "end"
  /\ UNCHANGED <<phase, ended, tree, queue, cur, attempt, taken, noise, result,
                 todo, rescued, seen>>

\* One run of the two-stage gate.  An error is retried; a persistent error
\* asks a human and emits no verdict, nor does a compliance hit, which only
\* the metrics of a reviewer that ran can make.  P0, coverage, iteration,
\* phrase and diff-size gates turn approve to reject.
CodeReview ==
  /\ Running("review") /\ cur.tag # "halted"
  /\ \E spec, quality \in Verdict, spawned, compliance, tripped \in BOOLEAN :
       LET s == cur.story
           stage == Spec1(spec, log[s])
           gate == GateVerdict(spec, log[s], quality)
           v == IF stage = "approve" /\ gate = "approve" /\ tripped
                THEN "reject" ELSE gate
       IN /\ SpawnReviewer(s, spawned)
          /\ ~spawned => spec = "error" /\ quality = "error"
          /\ compliance => stage = "approve" /\ spawned
          /\ \/ /\ gate = "error" /\ attempt < ReviewRetry
                /\ attempt' = attempt + 1
                /\ UNCHANGED <<queue, pc, outcome, asked>>
             \/ /\ gate = "error" /\ attempt >= ReviewRetry
                /\ asked' = asked \cup {s}
                /\ outcome' = [outcome EXCEPT ![s] = "error"]
                /\ pc' = "end" /\ UNCHANGED <<queue, attempt>>
             \/ /\ gate # "error" /\ compliance
                /\ asked' = asked \cup {s}
                /\ outcome' = [outcome EXCEPT ![s] = "compliance"]
                /\ pc' = "end" /\ UNCHANGED <<queue, attempt>>
             \/ /\ gate # "error" /\ ~compliance
                /\ queue' = Append(queue, Ev("verdict", s, v))
                /\ outcome' = [outcome EXCEPT ![s] = v]
                /\ asked' = IF /\ cur.tag = "overridden"
                               /\ stage = "approve" /\ v # "approve"
                            THEN asked \cup {s} ELSE asked
                /\ pc' = "end" /\ UNCHANGED attempt
  /\ UNCHANGED <<phase, ended, log, head, unsafe, gone, rooted, cur, taken, noise,
                 cleared, integrated, skipped, todo, rescued, seen>>

-----------------------------------------------------------------------------
\* Mutant: only the keyword scan counts.
CriticalByKeyword(s) == s \in ByDiff /\ head[s] = "worker"

\* is_security_critical; the keyword scan reads `git diff HEAD~1..HEAD`.
IsSecurityCritical(s) == s \in Critical \/ (s \in ByDiff /\ head[s] = "worker")

\* Not an approve, or no policy: the subscriber returns.  Not critical: passed.
SkipSecurity ==
  /\ Running("security") /\ pc' = "merge"
  /\ \/ /\ cur.tag # "approve" \/ ~SecurityOn
        /\ UNCHANGED cleared
     \/ /\ cur.tag = "approve" /\ SecurityOn /\ ~IsSecurityCritical(cur.story)
        /\ cleared' = [cleared EXCEPT ![cur.story] =
                         IF @ = "reviewed" THEN @ ELSE "not_critical"]
  /\ UNCHANGED <<phase, ended, tree, queue, cur, attempt, taken, noise, outcome,
                 integrated, asked, skipped, todo, rescued, seen>>

\* parse_security_runner_fallback
SecurityFallback(l) == CASE l = "approve" -> "approve"
                         [] l = "request_changes" -> "merge_with_fixes"
                         [] l = "reject" -> "block"
                         [] OTHER -> "error"

\* One run of the security reviewer; block and a lasting error turn the
\* verdict in the event into reject.
SecurityReview ==
  /\ Running("security") /\ cur.tag = "approve"
  /\ SecurityOn /\ IsSecurityCritical(cur.story)
  /\ \E ans \in {"approve", "merge_with_fixes", "block", "error"},
        spawned \in BOOLEAN :
       LET s == cur.story
           v == IF ans = "error" THEN SecurityFallback(log[s]) ELSE ans
       IN /\ SpawnReviewer(s, spawned)
          /\ ~spawned => ans = "error"
          /\ \/ /\ ans = "error" /\ attempt < SecRetry
                /\ attempt' = attempt + 1
                /\ UNCHANGED <<cur, pc, cleared, outcome, asked>>
             \/ /\ ans = "error" => attempt >= SecRetry
                /\ v \in {"approve", "merge_with_fixes"}
                /\ cleared' = [cleared EXCEPT ![s] = "reviewed"]
                /\ pc' = "merge" /\ UNCHANGED <<cur, attempt, outcome, asked>>
             \/ /\ ans = "error" => attempt >= SecRetry
                /\ v \in {"block", "error"}
                /\ cur' = [cur EXCEPT !.tag = "reject"]
                /\ outcome' = [outcome EXCEPT ![s] = "blocked"]
                /\ asked' = asked \cup {s}
                /\ pc' = "merge" /\ UNCHANGED <<attempt, cleared>>
  /\ UNCHANGED <<phase, ended, log, head, unsafe, gone, rooted, queue, taken, noise,
                 integrated, skipped, todo, rescued, seen>>

-----------------------------------------------------------------------------
\* Mutant: a refused merge asks nobody.
RefuseSilently ==
  /\ Running("merge") /\ cur.tag # "approve" /\ pc' = "end"
  /\ UNCHANGED <<phase, ended, tree, queue, cur, attempt, taken, noise, result,
                 todo, rescued, seen>>

RefuseMerge ==
  /\ Running("merge") /\ cur.tag # "approve" /\ pc' = "end"
  /\ asked' = asked \cup {cur.story}
  /\ UNCHANGED <<phase, ended, tree, queue, cur, attempt, taken, noise, outcome,
                 cleared, integrated, skipped, todo, rescued, seen>>

\* recover_pre_merge: residue in scope is committed, unless git fails.
Recovers(s, ok) == ok /\ s \in dirty \ gone
RecoverPreMerge(s, ok) ==
  IF Recovers(s, ok)
  THEN head' = [head EXCEPT ![s] = "recovery"] /\ dirty' = dirty \ {s}
  ELSE UNCHANGED <<head, dirty>>

\* Rebase or ff-merge failed.
MergeConflict ==
  /\ Running("merge") /\ cur.tag = "approve" /\ cur.story \notin gone
  /\ \E ok \in BOOLEAN : RecoverPreMerge(cur.story, ok)
  /\ queue' = Append(queue, Ev("skipped", cur.story, "ff_conflict"))
  /\ asked' = asked \cup {cur.story}
  /\ skipped' = skipped \cup {cur.story}
  /\ pc' = "end"
  /\ UNCHANGED <<phase, ended, log, unsafe, gone, rooted, cur, attempt, taken,
                 noise, outcome, cleared, integrated, todo, rescued, seen>>

\* cleanup_worktree removes a tree under <target>/.worktrees and the
\* runner's log in it, or an OSError stops it with the tree whole or partly
\* deleted; a worktree under another root is a ValueError, which nobody
\* catches up to the pilot.  "rest" is dirty after recover_pre_merge.
CleanupWorktree(s, rest) ==
  LET noLog == [log EXCEPT ![s] = "none"] IN
  \/ /\ rooted /\ gone' = gone \cup {s} /\ dirty' = rest \ {s} /\ log' = noLog
     /\ pc' = "end" /\ UNCHANGED <<phase, cur>>
  \/ /\ rooted /\ s \notin gone
     /\ \/ dirty' = rest /\ UNCHANGED log
        \/ dirty' = rest \cup {s} /\ log' \in {log, noLog}
     /\ pc' = "end" /\ UNCHANGED <<gone, phase, cur>>
  \/ /\ ~rooted /\ dirty' = rest /\ UNCHANGED <<log, gone>>
     /\ pc' = "idle" /\ cur' = None /\ phase' = "crashed"

\* Mutant: the merge is announced after the cleanup.
AnnounceLast(s) == queue' = IF rooted THEN Append(queue, Ev("merged", s, "-")) ELSE queue

\* INTEGRATION_MERGE_COMPLETED goes out before the cleanup that may raise.
Announce(s) == queue' = Append(queue, Ev("merged", s, "-"))

\* The ff-merge succeeds (at once when the branch is already contained).
\* A failing post-merge test only asks.
Merge ==
  /\ Running("merge") /\ cur.tag = "approve"
  /\ \E ok \in BOOLEAN :
       /\ head' = IF Recovers(cur.story, ok)
                  THEN [head EXCEPT ![cur.story] = "recovery"] ELSE head
       /\ CleanupWorktree(cur.story, IF ok THEN dirty \ {cur.story} ELSE dirty)
  /\ integrated' = integrated \cup {cur.story}
  /\ \E testFails \in BOOLEAN :
       asked' = IF testFails THEN asked \cup {cur.story} ELSE asked
  /\ Announce(cur.story)
  /\ UNCHANGED <<ended, unsafe, rooted, attempt, taken, noise, outcome, cleared,
                 skipped, todo, rescued, seen>>

-----------------------------------------------------------------------------
DrainEnded == pc = "idle" /\ (queue = <<>> \/ taken >= MaxDrain)

StartReconcile ==
  /\ phase = "drain1" /\ DrainEnded /\ phase' = "reconcile"
  /\ todo' = {s \in Story : ended[s] \in Succeeded}
  /\ UNCHANGED <<ended, tree, queue, cur, pc, attempt, taken, noise, result,
                 rescued, seen>>

\* Mutant: reconcile looks for merges and not for verdicts.
SurfacedIfMerged(s) == s \in mergedSeen

\* A verdict of the story was dispatched by the first drain.
Surfaced(s) == s \in verdictSeen

\* _reconcile_success_verdicts, one story of its loop: a verdict was seen;
\* there is no base to count commits from; git counts none; synthetic approve.
Reconcile(s) ==
  /\ phase = "reconcile" /\ s \in todo /\ todo' = todo \ {s}
  /\ \/ /\ Surfaced(s) /\ UNCHANGED <<queue, skipped, rescued>>
     \/ /\ ~Surfaced(s)
        /\ \E reason \in {"verdict_missing", "no_commits"} :
             /\ (reason = "verdict_missing") <=> (ended[s] = "unverified")
             /\ queue' = Append(queue, Ev("skipped", s, reason))
        /\ skipped' = skipped \cup {s} /\ UNCHANGED rescued
     \/ /\ ~Surfaced(s) /\ ended[s] # "unverified"
        /\ queue' = Append(queue, Ev("verdict", s, "approve"))
        /\ rescued' = rescued \cup {s} /\ UNCHANGED skipped
  /\ UNCHANGED <<phase, ended, tree, cur, pc, attempt, taken, noise, outcome,
                 cleared, integrated, asked, seen>>

\* Mutant: the drain after reconcile is followed by another reconcile.
Drain1Again ==
  /\ phase = "reconcile" /\ todo = {}
  /\ phase' = "drain1" /\ taken' = 0
  /\ UNCHANGED <<ended, tree, queue, cur, pc, attempt, noise, result, todo,
                 rescued, seen>>

StartDrain2 ==
  /\ phase = "reconcile" /\ todo = {}
  /\ phase' = "drain2" /\ taken' = 0
  /\ UNCHANGED <<ended, tree, queue, cur, pc, attempt, noise, result, todo,
                 rescued, seen>>

PilotDone ==
  /\ phase = "drain2" /\ DrainEnded /\ phase' = "done"
  /\ UNCHANGED <<ended, tree, queue, cur, pc, attempt, taken, noise, result,
                 todo, rescued, seen>>

\* Mutant: an approve counts as a merge.
MergedIfApproved(s) == IF s \in verdictSeen THEN "merged"
                       ELSE IF skipReason[s] = "no_commits" THEN "no_op"
                       ELSE "failed"

\* partition_pilot_outcomes
PilotOutcome(s) == IF s \in mergedSeen THEN "merged"
                   ELSE IF skipReason[s] = "no_commits" THEN "no_op"
                   ELSE "failed"

Terminated == phase \in {"done", "crashed"} /\ UNCHANGED vars

Pilot == \/ \E s \in Story : TailAndEmitCompletion(s) \/ Reconcile(s)
         \/ WaveBoundary \/ Dequeue \/ Return
         \/ Stage5Completeness \/ BuildCheck \/ DeletionSafety
         \/ SkipReview \/ CodeReview \/ SkipSecurity \/ SecurityReview
         \/ RefuseMerge \/ MergeConflict \/ Merge
         \/ StartReconcile \/ StartDrain2 \/ PilotDone

Next == Pilot \/ Noise \/ Terminated

Spec == Init /\ [][Next]_vars

\* The tail of a worker ends (by the watchdog if need be); asyncio runs on.
FairSpec == Spec /\ WF_vars(Pilot)

-----------------------------------------------------------------------------
Phase == {"work", "drain1", "reconcile", "drain2", "done", "crashed"}
PC == {"idle", "stage5", "build", "deletion", "review", "security", "merge", "end"}
Outcome == Verdict \cup {"none", "build", "deletion", "compliance", "blocked"}

\* A subscriber runs only with an event of the type it reads in hand.
InHand ==
  /\ pc = "idle" => cur = None
  /\ pc = "end" => cur \in Event
  /\ pc \in {"stage5", "build", "deletion", "review"} =>
       cur \in Event /\ cur # Other /\ cur.kind = "completed"
  /\ pc \in {"security", "merge"} =>
       cur \in Event /\ cur # Other /\ cur.kind = "verdict"

TypeOK ==
  /\ phase \in Phase /\ pc \in PC /\ InHand
  /\ ended \in [Story -> Ending]
  /\ log \in [Story -> {"none", "approve", "request_changes", "reject"}]
  /\ head \in [Story -> {"worker", "recovery"}]
  /\ unsafe \subseteq Story /\ dirty \subseteq Story /\ gone \subseteq Story
  /\ rooted \in BOOLEAN
  /\ queue \in Seq(Event)
  /\ attempt \in Nat /\ taken \in Nat /\ noise \in Nat
  /\ outcome \in [Story -> Outcome]
  /\ cleared \in [Story -> {"no", "not_critical", "reviewed"}]
  /\ integrated \subseteq Story /\ asked \subseteq Story /\ skipped \subseteq Story
  /\ todo \subseteq Story /\ rescued \subseteq Story
  /\ verdictSeen \subseteq Story /\ mergedSeen \subseteq Story
  /\ skipReason \in [Story -> Reason \cup {"none"}]

\* A story the front matter or its epic marks critical reaches integration
\* only after the security reviewer (or the runner's log in its place)
\* passed it, whichever of the three approves got it there.
SecurityBeforeMerge ==
  SecurityOn => \A s \in integrated \cap Critical : cleared[s] = "reviewed"

\* A review decision stands: a story whose last decision is a reject, a
\* request for changes or a security block is not merged after it.
Merges(s) == s \notin integrated /\ s \in integrated'
ReviewStands ==
  [][\A s \in Story : Merges(s) =>
       outcome[s] \notin {"reject", "request_changes", "blocked"}]_vars

\* The status a halt writes into the event stops every gate behind it: the
\* code review never decides about a story build_check or deletion_safety
\* halted (security may still block it after reconcile's approve).
HaltStopsReview ==
  [][\A s \in Story : outcome[s] \in {"build", "deletion"} =>
       outcome'[s] \in {outcome[s], "blocked"}]_vars

Waiting(k, s) == \E i \in DOMAIN queue : queue[i].kind = k /\ queue[i].story = s

\* What the pilot says of merges is what it did: real_pilot_done counts
\* exactly the succeeded stories that are on the integration branch; and when
\* the cleanup after a merge kills the pilot, every story on the branch has
\* its INTEGRATION_MERGE_COMPLETED, read or on the bus.
HonestMetric ==
  /\ phase = "done" => \A s \in Story : ended[s] \in Succeeded =>
       (PilotOutcome(s) = "merged") = (s \in integrated)
  /\ phase = "crashed" => \A s \in Story :
       s \in integrated <=> s \in mergedSeen \/ Waiting("merged", s)

\* No finished story is lost sight of: it is merged, or a human was asked, or
\* its skip was published.  When the cleanup after a merge kills the pilot,
\* the others may also be on the bus still, where no drain will take them.
Settled(s) == s \in integrated \/ s \in asked \/ s \in skipped
NothingStranded ==
  /\ phase = "done" => \A s \in Story : ended[s] \in Succeeded => Settled(s)
  /\ phase = "crashed" => \A s \in Story : ended[s] \in Succeeded =>
       Settled(s) \/ Waiting("completed", s) \/ Waiting("verdict", s)

\* The pilot ends however often reviewers fail.
PilotEnds == <>(phase \in {"done", "crashed"})

-----------------------------------------------------------------------------
\* What comments of the code say and the code does not do.

\* agent/run.py: a compliance violation has "no merge_to_integration approve
\* path".
ComplianceNeverMerged ==
  [][\A s \in Story : Merges(s) => outcome[s] # "compliance"]_vars

\* agent/run.py says of cleanup_worktree "cleanup failure must not block the
\* merge": a pilot that ended left no approved story on the bus unmerged.
CleanupBlocksNoMerge ==
  phase \in {"done", "crashed"} => \A i \in DOMAIN queue :
    queue[i].kind = "verdict" => queue[i].tag # "approve"

=============================================================================
