------------------------- MODULE MergePipelineProof -------------------------
(***************************************************************************)
(* Proofs about MergePipeline, for every set of stories, whichever of them *)
(* are critical, and every retry limit and drain cap.                      *)
(***************************************************************************)
EXTENDS MergePipeline, TLAPS

StoryEvent == [kind : {"completed", "verdict", "merged"}, story : Story, tag : Tag]
SkipEvent  == [kind : {"skipped"}, story : Story, tag : Reason]

LEMMA EventsTyped ==
  ASSUME NEW s \in Story
  PROVE  /\ Other \in Event
         /\ \A k \in {"completed", "verdict", "merged"}, t \in Tag : Ev(k, s, t) \in Event
         /\ \A r \in Reason : Ev("skipped", s, r) \in Event
BY DEF Event, Ev, Other

\* What an event in hand, or on the queue, may be read for.
LEMMA EventFields ==
  ASSUME NEW e \in Event
  PROVE  /\ e.kind \in {"completed", "verdict", "merged"} => e \in StoryEvent
         /\ e.kind = "skipped" => e \in SkipEvent
BY DEF Event, StoryEvent, SkipEvent

\* The event of a subscriber that runs.
LEMMA InHandFields ==
  ASSUME TypeOK
  PROVE  /\ pc \in {"stage5", "build", "deletion", "review"} =>
              cur \in StoryEvent /\ cur.kind = "completed"
         /\ pc \in {"security", "merge"} => cur \in StoryEvent /\ cur.kind = "verdict"
         /\ pc = "end" => cur \in Event
         /\ cur \in StoryEvent => /\ cur.story \in Story /\ cur.tag \in Tag
                                  /\ cur \in Event /\ cur # Other
<1>1. CASE pc \in {"stage5", "build", "deletion", "review"}
  BY <1>1, EventFields DEF TypeOK, InHand, StoryEvent, Event, Other
<1>2. CASE pc \in {"security", "merge"}
  BY <1>2, EventFields DEF TypeOK, InHand, StoryEvent, Event, Other
<1>3. CASE pc \in {"idle", "end"}
  BY <1>3 DEF TypeOK, InHand, StoryEvent, Event, Other
<1> QED
  BY <1>1, <1>2, <1>3 DEF TypeOK, PC

LEMMA InitTypeOK == Init => TypeOK
BY DEF Init, TypeOK, InHand, Phase, PC, Ending, Outcome, Verdict, Reason

LEMMA AppendTyped ==
  ASSUME TypeOK, NEW e \in Event PROVE Append(queue, e) \in Seq(Event)
BY DEF TypeOK

LEMMA NoiseType == ASSUME TypeOK, Noise PROVE TypeOK'
<1>1. Other \in Event
  BY DEF Event, Other
<1>2. queue' \in Seq(Event)
  BY <1>1, AppendTyped DEF Noise
<1> QED
  BY <1>2 DEF TypeOK, InHand, Noise, tree, result, seen

LEMMA WaveBoundaryType == ASSUME TypeOK, WaveBoundary PROVE TypeOK'
<1>1. Other \in Event
  BY DEF Event, Other
<1>2. queue' \in Seq(Event) /\ phase' \in Phase /\ taken' \in Nat
  BY <1>1, AppendTyped DEF WaveBoundary, Phase
<1> QED
  BY <1>2 DEF TypeOK, InHand, WaveBoundary, tree, result, seen

LEMMA DequeueType == ASSUME TypeOK, Dequeue PROVE TypeOK'
<1> DEFINE e == Head(queue)
<1>1. e \in Event /\ queue' \in Seq(Event)
  BY DEF Dequeue, TypeOK
<1>2. /\ e.kind = "completed" => pc' = "stage5"
      /\ e.kind = "verdict" => pc' = "security"
      /\ e.kind \notin {"completed", "verdict"} => pc' = "end"
  BY DEF Dequeue
<1>3. cur' = e /\ attempt' = 0
  BY DEF Dequeue
<1> HIDE DEF e
<1>4. pc' \in PC /\ InHand'
  BY <1>1, <1>2, <1>3 DEF PC, InHand, Other
<1> QED
  BY <1>1, <1>3, <1>4 DEF TypeOK, Dequeue, tree, result, seen

LEMMA ReturnType == ASSUME TypeOK, Return PROVE TypeOK'
<1>1. cur \in Event /\ pc' \in PC /\ cur' = None /\ InHand'
  BY DEF Return, TypeOK, InHand, PC
<1>2. verdictSeen' \subseteq Story /\ mergedSeen' \subseteq Story
  BY <1>1, EventFields DEF Return, TypeOK, StoryEvent
<1>3. skipReason' \in [Story -> Reason \cup {"none"}]
  BY <1>1, EventFields DEF Return, TypeOK, SkipEvent
<1>4. taken' \in Nat
  BY DEF Return, TypeOK
<1> QED
  BY <1>1, <1>2, <1>3, <1>4 DEF TypeOK, Return, tree, result

LEMMA Stage5CompletenessType == ASSUME TypeOK, Stage5Completeness PROVE TypeOK'
<1>1. cur \in StoryEvent /\ cur.kind = "completed" /\ cur # Other /\ cur.story \in Story
  BY InHandFields DEF Stage5Completeness, Running
<1>2. pc' \in PC /\ InHand'
  BY <1>1, InHandFields DEF Stage5Completeness, PC, InHand
<1>3. /\ dirty' \subseteq Story
      /\ head' \in [Story -> {"worker", "recovery"}]
  BY DEF Stage5Completeness, TypeOK
<1> QED
  BY <1>2, <1>3 DEF TypeOK, Stage5Completeness, result, seen

\* A halt keeps an event of the same story in hand.
LEMMA HaltType ==
  ASSUME TypeOK, cur \in StoryEvent, NEW why \in {"build", "deletion"}, HaltStory(why)
  PROVE  /\ cur' \in StoryEvent /\ cur' # Other /\ cur'.kind = cur.kind
         /\ cur' \in Event
         /\ outcome' \in [Story -> Outcome] /\ asked' \subseteq Story
<1>1. cur' \in StoryEvent /\ cur'.kind = cur.kind
  BY DEF HaltStory, StoryEvent, Tag
<1>2. cur.story \in Story
  BY DEF StoryEvent
<1>3. outcome' \in [Story -> Outcome] /\ asked' \subseteq Story
  BY <1>2 DEF HaltStory, TypeOK, Outcome
<1> QED
  BY <1>1, <1>3 DEF Event, StoryEvent, Other

LEMMA BuildCheckType == ASSUME TypeOK, BuildCheck PROVE TypeOK'
<1>1. cur \in StoryEvent /\ cur.kind = "completed" /\ cur # Other /\ cur \in Event
  BY InHandFields DEF BuildCheck, Running
<1>2. pc' = "deletion" /\ pc' \in PC
  BY DEF BuildCheck, PC
<1>3. CASE UNCHANGED <<cur, result>>
  BY <1>1, <1>2, <1>3 DEF TypeOK, InHand, BuildCheck, tree, result, seen
<1>4. CASE HaltStory("build")
  <2>1. /\ InHand' /\ outcome' \in [Story -> Outcome] /\ asked' \subseteq Story
    BY <1>1, <1>2, <1>4, HaltType DEF InHand
  <2> QED
    BY <1>2, <1>4, <2>1 DEF TypeOK, BuildCheck, HaltStory, tree, seen
<1> QED
  BY <1>3, <1>4 DEF BuildCheck

LEMMA DeletionSafetyType == ASSUME TypeOK, DeletionSafety PROVE TypeOK'
<1>1. cur \in StoryEvent /\ cur.kind = "completed" /\ cur # Other /\ cur \in Event
  BY InHandFields DEF DeletionSafety, Running
<1>2. pc' = "review" /\ pc' \in PC
  BY DEF DeletionSafety, PC
<1>3. CASE UNCHANGED <<cur, result>>
  BY <1>1, <1>2, <1>3 DEF TypeOK, InHand, DeletionSafety, tree, result, seen
<1>4. CASE HaltStory("deletion")
  <2>1. /\ InHand' /\ outcome' \in [Story -> Outcome] /\ asked' \subseteq Story
    BY <1>1, <1>2, <1>4, HaltType DEF InHand
  <2> QED
    BY <1>2, <1>4, <2>1 DEF TypeOK, DeletionSafety, HaltStory, tree, seen
<1> QED
  BY <1>3, <1>4 DEF DeletionSafety

LEMMA SkipReviewType == ASSUME TypeOK, SkipReview PROVE TypeOK'
BY InHandFields DEF TypeOK, InHand, SkipReview, tree, result, seen, Running, Draining, Phase, PC

LEMMA SkipSecurityType == ASSUME TypeOK, SkipSecurity PROVE TypeOK'
BY InHandFields DEF TypeOK, InHand, SkipSecurity, tree, result, seen, Running, Draining, Phase, PC

LEMMA RefuseMergeType == ASSUME TypeOK, RefuseMerge PROVE TypeOK'
BY InHandFields DEF TypeOK, InHand, RefuseMerge, tree, result, seen, Running, Draining, Phase, PC

LEMMA StartReconcileType == ASSUME TypeOK, StartReconcile PROVE TypeOK'
BY InHandFields DEF TypeOK, InHand, StartReconcile, tree, result, seen, Running, Draining, Phase, PC

LEMMA StartDrain2Type == ASSUME TypeOK, StartDrain2 PROVE TypeOK'
BY InHandFields DEF TypeOK, InHand, StartDrain2, tree, result, seen, Running, Draining, Phase, PC

LEMMA PilotDoneType == ASSUME TypeOK, PilotDone PROVE TypeOK'
BY InHandFields DEF TypeOK, InHand, PilotDone, tree, result, seen, Running, Draining, Phase, PC

LEMMA SpawnType ==
  ASSUME TypeOK, NEW s \in Story, NEW b, SpawnReviewer(s, b)
  PROVE  dirty' \subseteq Story
BY DEF SpawnReviewer, TypeOK

LEMMA GateTyped ==
  ASSUME NEW spec \in Verdict, NEW quality \in Verdict,
         NEW l \in {"none", "approve", "request_changes", "reject"}
  PROVE  Spec1(spec, l) \in Verdict /\ GateVerdict(spec, l, quality) \in Verdict
BY DEF Verdict, Spec1, GateVerdict, Worst

LEMMA CodeReviewType == ASSUME TypeOK, CodeReview PROVE TypeOK'
<1>1. cur \in StoryEvent /\ cur.kind = "completed" /\ cur # Other /\ cur \in Event
  BY InHandFields DEF CodeReview, Running
<1>2. cur.story \in Story /\ log[cur.story] \in {"none", "approve", "request_changes", "reject"}
  BY <1>1 DEF StoryEvent, TypeOK
<1> DEFINE s == cur.story
<1>3. PICK spec \in Verdict, quality \in Verdict, spawned \in BOOLEAN,
           compliance \in BOOLEAN, tripped \in BOOLEAN :
        LET gate == GateVerdict(spec, log[s], quality)
            v == IF Spec1(spec, log[s]) = "approve" /\ gate = "approve" /\ tripped
                 THEN "reject" ELSE gate
        IN /\ SpawnReviewer(s, spawned)
           /\ attempt' \in {attempt, attempt + 1}
           /\ pc' \in {pc, "end"}
           /\ queue' \in {queue, Append(queue, Ev("verdict", s, v))}
           /\ asked' \in {asked, asked \cup {s}}
           /\ \/ outcome' = outcome
              \/ \E w \in {"error", "compliance", v} :
                   outcome' = [outcome EXCEPT ![s] = w]
  <2>1. UNCHANGED <<asked>> \/ asked' = asked \cup {s} \/ TRUE
    OBVIOUS
  <2> QED
    BY DEF CodeReview
<1> DEFINE v == IF Spec1(spec, log[s]) = "approve"
                   /\ GateVerdict(spec, log[s], quality) = "approve" /\ tripped
                THEN "reject" ELSE GateVerdict(spec, log[s], quality)
<1>4. v \in Verdict
  BY <1>2, GateTyped DEF Verdict
<1> HIDE DEF v
<1>5. Ev("verdict", s, v) \in Event
  BY <1>2, <1>4, EventsTyped DEF Tag
<1>6. queue' \in Seq(Event)
  BY <1>3, <1>5, AppendTyped DEF v, TypeOK
<1>7. outcome' \in [Story -> Outcome]
  BY <1>2, <1>3, <1>4 DEF v, TypeOK, Outcome, Verdict
<1>8. pc' \in PC /\ InHand'
  BY <1>1, <1>3 DEF CodeReview, InHand, PC, TypeOK, Running
<1>9. dirty' \subseteq Story /\ attempt' \in Nat
      /\ asked' \subseteq Story
  BY <1>2, <1>3, SpawnType DEF TypeOK
<1> QED
  BY <1>6, <1>7, <1>8, <1>9 DEF TypeOK, CodeReview, seen

LEMMA SecurityReviewType == ASSUME TypeOK, SecurityReview PROVE TypeOK'
<1>1. cur \in StoryEvent /\ cur.kind = "verdict" /\ cur # Other /\ cur \in Event
      /\ cur.story \in Story
  BY InHandFields DEF SecurityReview, Running
<1> DEFINE s == cur.story
<1>2. /\ \E spawned \in BOOLEAN : SpawnReviewer(s, spawned)
      /\ attempt' \in {attempt, attempt + 1}
      /\ pc' \in {pc, "merge"}
      /\ cur' \in {cur, [cur EXCEPT !.tag = "reject"]}
      /\ cleared' \in {cleared, [cleared EXCEPT ![s] = "reviewed"]}
      /\ outcome' \in {outcome, [outcome EXCEPT ![s] = "blocked"]}
      /\ asked' \in {asked, asked \cup {s}}
  BY DEF SecurityReview
<1>3. cur' \in StoryEvent /\ cur'.kind = "verdict" /\ cur' # Other /\ cur' \in Event
  BY <1>1, <1>2 DEF StoryEvent, Tag, Verdict, Other, Event
<1>4. pc' \in PC /\ InHand'
  BY <1>2, <1>3 DEF SecurityReview, Running, InHand, PC
<1>5. /\ outcome' \in [Story -> Outcome]
      /\ cleared' \in [Story -> {"no", "not_critical", "reviewed"}]
  BY <1>1, <1>2 DEF TypeOK, Outcome
<1>6. dirty' \subseteq Story /\ attempt' \in Nat
      /\ asked' \subseteq Story
  BY <1>1, <1>2, SpawnType DEF TypeOK
<1> QED
  BY <1>4, <1>5, <1>6 DEF TypeOK, SecurityReview, seen

LEMMA MergeConflictType == ASSUME TypeOK, MergeConflict PROVE TypeOK'
<1>1. cur \in Event /\ cur.story \in Story
  BY InHandFields DEF MergeConflict, Running
<1>2. queue' \in Seq(Event)
  BY <1>1, EventsTyped, AppendTyped DEF MergeConflict, Reason
<1>3. /\ dirty' \subseteq Story
      /\ head' \in [Story -> {"worker", "recovery"}]
  BY DEF MergeConflict, RecoverPreMerge, TypeOK
<1>4. pc' \in PC /\ InHand'
  BY <1>1 DEF MergeConflict, InHand, PC
<1>5. asked' \subseteq Story /\ skipped' \subseteq Story
  BY <1>1 DEF MergeConflict, TypeOK
<1> QED
  BY <1>2, <1>3, <1>4, <1>5 DEF TypeOK, MergeConflict, seen

\* A merge ends the subscriber, or the pilot.
LEMMA MergeMoves ==
  ASSUME Merge
  PROVE  \/ pc' = "end" /\ UNCHANGED <<phase, cur>>
         \/ pc' = "idle" /\ cur' = None /\ phase' = "crashed"
BY DEF Merge, Announce, CleanupWorktree

LEMMA MergeType == ASSUME TypeOK, Merge PROVE TypeOK'
<1>1. cur \in Event /\ cur.story \in Story
  BY InHandFields DEF Merge, Announce, Running
<1>2. queue' \in Seq(Event)
  BY <1>1, EventsTyped, AppendTyped DEF Merge, Announce, Tag
<1>3. /\ dirty' \subseteq Story
      /\ head' \in [Story -> {"worker", "recovery"}]
      /\ log' \in [Story -> {"none", "approve", "request_changes", "reject"}]
  BY <1>1 DEF Merge, Announce, CleanupWorktree, TypeOK
<1>4. pc' \in PC /\ InHand' /\ phase' \in Phase
  BY <1>1, MergeMoves DEF InHand, PC, Phase, TypeOK
<1>5. asked' \subseteq Story /\ integrated' \subseteq Story /\ gone' \subseteq Story
  BY <1>1 DEF Merge, Announce, CleanupWorktree, TypeOK
<1> QED
  BY <1>2, <1>3, <1>4, <1>5 DEF TypeOK, Merge, Announce, seen

LEMMA TailAndEmitCompletionType ==
  ASSUME TypeOK, NEW s \in Story, TailAndEmitCompletion(s) PROVE TypeOK'
<1>1. /\ ended' \in [Story -> Ending]
      /\ log' \in [Story -> {"none", "approve", "request_changes", "reject"}]
      /\ dirty' \subseteq Story
      /\ unsafe' \subseteq Story
  BY DEF TailAndEmitCompletion, TypeOK, Ending
<1>2. \/ queue' = Append(queue, Other)
      \/ queue' = queue \o << Ev("verdict", s, "approve"), Ev("completed", s, "success") >>
      \/ \E t \in {"success", "overridden"} : queue' = Append(queue, Ev("completed", s, t))
  BY DEF TailAndEmitCompletion
<1>3. queue' \in Seq(Event)
  <2>1. /\ Other \in Event /\ \A t \in Tag : Ev("completed", s, t) \in Event
        /\ Ev("verdict", s, "approve") \in Event /\ Ev("completed", s, "success") \in Event
    BY EventsTyped DEF Tag, Verdict
  <2>2. << Ev("verdict", s, "approve"), Ev("completed", s, "success") >> \in Seq(Event)
    BY <2>1
  <2>3. queue \in Seq(Event)
    BY DEF TypeOK
  <2>4. {"success", "overridden"} \subseteq Tag
    BY DEF Tag
  <2> DEFINE two == << Ev("verdict", s, "approve"), Ev("completed", s, "success") >>
  <2> HIDE DEF two
  <2>5. queue' = queue \o two => queue' \in Seq(Event)
    BY <2>2, <2>3 DEF two
  <2>6. CASE queue' = Append(queue, Other)
    BY <2>1, <2>6, AppendTyped
  <2>7. CASE \E t \in {"success", "overridden"} : queue' = Append(queue, Ev("completed", s, t))
    BY <2>1, <2>4, <2>7, AppendTyped
  <2> QED
    BY <1>2, <2>5, <2>6, <2>7 DEF two
<1> QED
  BY <1>1, <1>3 DEF TypeOK, InHand, TailAndEmitCompletion, result, seen

LEMMA ReconcileType == ASSUME TypeOK, NEW s \in Story, Reconcile(s) PROVE TypeOK'
<1>1. /\ queue' = queue \/ \E e \in Event : queue' = Append(queue, e)
      /\ skipped' \in {skipped, skipped \cup {s}}
      /\ rescued' \in {rescued, rescued \cup {s}}
  <2>1. Ev("verdict", s, "approve") \in Event
        /\ \A r \in {"verdict_missing", "no_commits"} : Ev("skipped", s, r) \in Event
    BY EventsTyped DEF Tag, Verdict, Reason
  <2> QED
    BY <2>1 DEF Reconcile
<1>2. queue' \in Seq(Event)
  BY <1>1, AppendTyped DEF TypeOK
<1> QED
  BY <1>1, <1>2 DEF TypeOK, InHand, Reconcile, tree, seen

LEMMA StepTypeOK == TypeOK /\ [Next]_vars => TypeOK'
<1>1. CASE UNCHANGED vars
  BY <1>1 DEF vars, tree, result, seen, TypeOK, InHand
<1>2. ASSUME TypeOK, NEW s \in Story, TailAndEmitCompletion(s) \/ Reconcile(s)
      PROVE  TypeOK'
  BY <1>2, TailAndEmitCompletionType, ReconcileType
<1> QED
  BY <1>1, <1>2, NoiseType, WaveBoundaryType, DequeueType, ReturnType,
     Stage5CompletenessType, BuildCheckType, DeletionSafetyType, SkipReviewType,
     CodeReviewType, SkipSecurityType, SecurityReviewType, RefuseMergeType,
     MergeConflictType, MergeType, StartReconcileType, StartDrain2Type, PilotDoneType
     DEF Next, Pilot, Terminated

\* Every variable keeps its type, and a subscriber runs only with an event of
\* the type it reads in hand.
THEOREM TypeCorrect == Spec => []TypeOK
BY InitTypeOK, StepTypeOK, PTL DEF Spec

-----------------------------------------------------------------------------
\* The approve in hand when the merge subscriber runs has passed security.
ReviewedInHand ==
  (pc = "merge" /\ cur.tag = "approve" /\ SecurityOn /\ cur.story \in Critical)
    => cleared[cur.story] = "reviewed"

LEMMA SecurityStep ==
  TypeOK /\ SecurityBeforeMerge /\ ReviewedInHand /\ [Next]_vars
    => (SecurityBeforeMerge /\ ReviewedInHand)'
<1> SUFFICES ASSUME TypeOK, SecurityBeforeMerge, ReviewedInHand, [Next]_vars
             PROVE  (SecurityBeforeMerge /\ ReviewedInHand)'
  OBVIOUS
<1> USE DEF SecurityBeforeMerge, ReviewedInHand
<1>1. CASE /\ UNCHANGED <<integrated, cleared>>
           /\ pc' # "merge" \/ UNCHANGED <<pc, cur>>
  BY <1>1
<1>2. CASE SkipSecurity
  <2>1. cur.story \in Story /\ cleared \in [Story -> {"no", "not_critical", "reviewed"}]
    BY <1>2, InHandFields DEF SkipSecurity, Running, TypeOK
  <2>2. \A s \in Story : cleared[s] = "reviewed" => cleared'[s] = "reviewed"
    BY <1>2, <2>1 DEF SkipSecurity
  <2>3. Critical \subseteq Story /\ integrated' = integrated /\ cur' = cur
    BY <1>2, PipelineAssumption DEF SkipSecurity
  <2>4. cur.tag = "approve" /\ SecurityOn => cur.story \notin Critical
    BY <1>2 DEF SkipSecurity, IsSecurityCritical
  <2> QED
    BY <2>2, <2>3, <2>4
<1>3. CASE SecurityReview
  <2>1. cur \in StoryEvent /\ cur.story \in Story /\ pc = "security"
        /\ cleared \in [Story -> {"no", "not_critical", "reviewed"}]
    BY <1>3, InHandFields DEF SecurityReview, Running, TypeOK
  <2>2. /\ cleared' \in {cleared, [cleared EXCEPT ![cur.story] = "reviewed"]}
        /\ integrated' = integrated
        /\ pc' = "merge" => \/ cur' = cur /\ cleared' = [cleared EXCEPT ![cur.story] = "reviewed"]
                           \/ cur' = [cur EXCEPT !.tag = "reject"]
    BY <1>3, <2>1 DEF SecurityReview
  <2>3. \A s \in Story : cleared[s] = "reviewed" => cleared'[s] = "reviewed"
    BY <2>1, <2>2
  <2>4. cur' = [cur EXCEPT !.tag = "reject"] => cur'.tag = "reject"
    BY <2>1 DEF StoryEvent
  <2> QED
    BY <2>1, <2>2, <2>3, <2>4, PipelineAssumption
<1>4. CASE Merge
  BY <1>4, MergeMoves DEF Merge, Announce, Running
<1>5. ASSUME NEW s \in Story, TailAndEmitCompletion(s) \/ Reconcile(s)
      PROVE  (SecurityBeforeMerge /\ ReviewedInHand)'
  BY <1>1, <1>5 DEF TailAndEmitCompletion, Reconcile, result
<1>6. CASE BuildCheck \/ DeletionSafety
  BY <1>1, <1>6 DEF BuildCheck, DeletionSafety, HaltStory, result
<1>7. CASE Noise \/ WaveBoundary \/ StartReconcile \/ StartDrain2 \/ PilotDone \/ UNCHANGED vars
  BY <1>1, <1>7 DEF Noise, WaveBoundary, StartReconcile, StartDrain2, PilotDone, vars, result
<1>8. CASE Dequeue \/ Return \/ Stage5Completeness \/ SkipReview
  BY <1>1, <1>8 DEF Dequeue, Return, Stage5Completeness, SkipReview, result
<1>9. CASE CodeReview
  BY <1>1, <1>9 DEF CodeReview, Running
<1>10. CASE RefuseMerge \/ MergeConflict
  BY <1>1, <1>10 DEF RefuseMerge, MergeConflict
<1> QED
  BY <1>2, <1>3, <1>4, <1>5, <1>6, <1>7, <1>8, <1>9, <1>10 DEF Next, Pilot, Terminated

\* A critical story reaches the integration branch only after a security
\* review, for every set of stories and every answer of reviewers and git.
THEOREM CriticalReviewed == Spec => []SecurityBeforeMerge
<1>1. Init => SecurityBeforeMerge /\ ReviewedInHand
  BY DEF Init, SecurityBeforeMerge, ReviewedInHand
<1> QED
  BY <1>1, SecurityStep, TypeCorrect, PTL DEF Spec

-----------------------------------------------------------------------------
\* No code review decided about the story yet.
Undecided(s) == outcome[s] \in {"none", "blocked"}
InReview     == pc \in {"stage5", "build", "deletion", "review"}

\* A story completes once, and is undecided until its completion is reviewed.
CompletedOnce ==
  /\ \A i, j \in 1..Len(queue) :
       (i # j /\ queue[i].kind = "completed" /\ queue[j].kind = "completed")
         => queue[i].story # queue[j].story
  /\ InReview => \A i \in 1..Len(queue) :
       queue[i].kind = "completed" => queue[i].story # cur.story
WaitingUndecided ==
  \A i \in 1..Len(queue) : queue[i].kind = "completed" =>
    ended[queue[i].story] # "running" /\ Undecided(queue[i].story)
RunningUndecided ==
  /\ phase = "work" => pc = "idle"
  /\ phase # "work" => \A s \in Story : ended[s] # "running"
  /\ \A s \in Story : ended[s] = "running" => Undecided(s)
InHandUndecided ==
  /\ pc \in {"stage5", "build"} => Undecided(cur.story)
  /\ pc \in {"deletion", "review"} /\ cur.tag # "halted" => Undecided(cur.story)

IInv == TypeOK /\ CompletedOnce /\ WaitingUndecided /\ RunningUndecided /\ InHandUndecided

\* Nothing new to review: no completion is queued and none is taken in hand,
\* and no story but the one in hand is decided.
LEMMA NoNewCompletion ==
  ASSUME IInv, TypeOK',
         \A i \in 1..Len(queue') : queue'[i].kind = "completed" =>
            i \in 1..Len(queue) /\ queue'[i] = queue[i],
         ended' = ended,
         \A s \in Story : Undecided(s) => Undecided(s)' \/ (InReview /\ s = cur.story),
         InReview' => InReview /\ cur'.story = cur.story,
         InHandUndecided', phase' # "work" \/ UNCHANGED <<phase, pc>>,
         phase' # "work" => \A s \in Story : ended[s] # "running"
  PROVE  IInv'
<1>1. \A i \in 1..Len(queue) : queue[i] \in Event
  BY DEF IInv, TypeOK
<1>2. \A i \in 1..Len(queue) : queue[i].kind = "completed" => queue[i].story \in Story
  BY <1>1, EventFields DEF StoryEvent
<1>3. CompletedOnce'
  BY DEF IInv, CompletedOnce
<1>4. WaitingUndecided'
  BY <1>2 DEF IInv, WaitingUndecided, CompletedOnce
<1>5. RunningUndecided'
  BY DEF IInv, RunningUndecided, InReview
<1> QED
  BY <1>3, <1>4, <1>5 DEF IInv

\* The queue after one of the Appends of the pipeline.
LEMMA AppendKeeps ==
  ASSUME TypeOK, NEW e, e.kind # "completed", queue' = Append(queue, e)
  PROVE  \A i \in 1..Len(queue') : queue'[i].kind = "completed" =>
            i \in 1..Len(queue) /\ queue'[i] = queue[i]
BY DEF TypeOK

LEMMA EvKind == \A k, s, t : Ev(k, s, t).kind = k /\ Ev(k, s, t).story = s
BY DEF Ev

LEMMA OtherKind == Other.kind = "other"
BY DEF Other

\* Between gates: the queue, the verdict in hand and the stories stay.
LEMMA GateIInv ==
  ASSUME IInv, TypeOK', Stage5Completeness \/ BuildCheck \/ DeletionSafety \/ SkipReview
  PROVE  IInv'
<1>1. cur \in StoryEvent /\ cur.story \in Story /\ InReview
  BY InHandFields DEF IInv, Stage5Completeness, BuildCheck, DeletionSafety, SkipReview,
     Running, InReview
<1>2. /\ UNCHANGED <<queue, ended, phase>> /\ phase # "work"
      /\ cur' \in {cur, [cur EXCEPT !.tag = "halted"]}
      /\ outcome' = outcome \/ \E why \in {"build", "deletion"} :
           outcome' = [outcome EXCEPT ![cur.story] = why] /\ cur' = [cur EXCEPT !.tag = "halted"]
  BY DEF Stage5Completeness, BuildCheck, DeletionSafety, SkipReview, HaltStory, result,
     Running, Draining
<1>3. cur'.story = cur.story /\ [cur EXCEPT !.tag = "halted"].tag = "halted"
  BY <1>1, <1>2 DEF StoryEvent
<1>4. \A s \in Story : Undecided(s) => Undecided(s)' \/ s = cur.story
  BY <1>1, <1>2 DEF Undecided, IInv, TypeOK
<1>5. InHandUndecided'
  <2>1. CASE Stage5Completeness
    BY <2>1 DEF Stage5Completeness, result, IInv, InHandUndecided, Undecided, Running
  <2>2. CASE BuildCheck \/ DeletionSafety
    BY <1>2, <1>3, <2>2 DEF BuildCheck, DeletionSafety, HaltStory, result, IInv,
       InHandUndecided, Undecided, Running
  <2>3. CASE SkipReview
    BY <2>3 DEF SkipReview, InHandUndecided
  <2> QED
    BY <2>1, <2>2, <2>3
<1>6. \A i \in 1..Len(queue') : queue'[i].kind = "completed" =>
         i \in 1..Len(queue) /\ queue'[i] = queue[i]
  BY <1>2
<1>7. InReview' => InReview /\ cur'.story = cur.story
  BY <1>1, <1>3
<1>8. \A s \in Story : ended[s] # "running"
  BY <1>2 DEF IInv, RunningUndecided
<1> QED
  BY <1>1, <1>2, <1>4, <1>5, <1>6, <1>7, <1>8, NoNewCompletion

LEMMA CodeReviewIInv == ASSUME IInv, TypeOK', CodeReview PROVE IInv'
<1>1. cur \in StoryEvent /\ cur.story \in Story /\ InReview /\ pc = "review"
  BY InHandFields DEF IInv, CodeReview, Running, InReview
<1>2. /\ UNCHANGED <<ended, phase, cur>> /\ phase # "work"
      /\ \/ UNCHANGED <<pc, outcome, queue>>
         \/ pc' = "end" /\ \E v : outcome' = [outcome EXCEPT ![cur.story] = v]
      /\ queue' = queue \/ \E v : queue' = Append(queue, Ev("verdict", cur.story, v))
  BY DEF CodeReview, Running, Draining
<1>3. \A i \in 1..Len(queue') : queue'[i].kind = "completed" =>
         i \in 1..Len(queue) /\ queue'[i] = queue[i]
  BY <1>2, AppendKeeps, EvKind DEF IInv
<1>4. \A s \in Story : Undecided(s) => Undecided(s)' \/ s = cur.story
  BY <1>1, <1>2 DEF Undecided, IInv, TypeOK
<1>5. InHandUndecided'
  BY <1>1, <1>2 DEF InHandUndecided, IInv, Undecided
<1>6. InReview' => InReview /\ cur'.story = cur.story
  BY <1>1, <1>2
<1>7. \A s \in Story : ended[s] # "running"
  BY <1>2 DEF IInv, RunningUndecided
<1> QED
  BY <1>1, <1>2, <1>3, <1>4, <1>5, <1>6, <1>7, NoNewCompletion

\* The gates behind the verdict never take a completion in hand.
LEMMA VerdictIInv ==
  ASSUME IInv, TypeOK', SkipSecurity \/ SecurityReview \/ RefuseMerge \/ MergeConflict \/ Merge
  PROVE  IInv'
<1>1. cur \in StoryEvent /\ cur.story \in Story /\ ~InReview'
  BY InHandFields, MergeMoves DEF IInv, SkipSecurity, SecurityReview, RefuseMerge, MergeConflict, Merge, Announce,
     Running, InReview
<1>2. /\ UNCHANGED ended /\ phase # "work" /\ phase' # "work"
      /\ outcome' \in {outcome, [outcome EXCEPT ![cur.story] = "blocked"]}
      /\ queue' = queue \/ \E k \in {"skipped", "merged"} : \E v :
                               queue' = Append(queue, Ev(k, cur.story, v))
  BY MergeMoves DEF SkipSecurity, SecurityReview, RefuseMerge, MergeConflict, Merge, Announce, Running, Draining
<1>3. \A i \in 1..Len(queue') : queue'[i].kind = "completed" =>
         i \in 1..Len(queue) /\ queue'[i] = queue[i]
  BY <1>2, AppendKeeps, EvKind DEF IInv
<1>4. \A s \in Story : Undecided(s) => Undecided(s)'
  BY <1>1, <1>2 DEF Undecided, IInv, TypeOK
<1>5. InHandUndecided'
  BY <1>1 DEF InHandUndecided, InReview
<1>6. \A s \in Story : ended[s] # "running"
  BY <1>2 DEF IInv, RunningUndecided
<1> QED
  BY <1>1, <1>2, <1>3, <1>4, <1>5, <1>6, NoNewCompletion

\* Steps outside the gates.
LEMMA PhaseIInv ==
  ASSUME IInv, TypeOK',
         \/ Noise \/ WaveBoundary \/ StartReconcile \/ StartDrain2 \/ PilotDone
         \/ Return \/ \E s \in Story : Reconcile(s)
  PROVE  IInv'
<1>1. /\ UNCHANGED <<ended, outcome>>
      /\ UNCHANGED <<pc, cur>> \/ pc' = "idle"
      /\ phase' # "work" \/ UNCHANGED <<phase, pc>>
      /\ queue' = queue \/ queue' = Append(queue, Other)
         \/ \E k \in {"skipped", "verdict"} : \E s, v : queue' = Append(queue, Ev(k, s, v))
  BY DEF Noise, WaveBoundary, StartReconcile, StartDrain2, PilotDone, Return, Reconcile, result,
     Running, Draining, IInv, RunningUndecided
<1>2. \A i \in 1..Len(queue') : queue'[i].kind = "completed" =>
         i \in 1..Len(queue) /\ queue'[i] = queue[i]
  BY <1>1, AppendKeeps, EvKind, OtherKind DEF IInv
<1>3. \A s \in Story : Undecided(s) => Undecided(s)'
  BY <1>1 DEF Undecided
<1>4. InHandUndecided' /\ (InReview' => InReview /\ cur'.story = cur.story)
  BY <1>1 DEF InHandUndecided, InReview, Undecided, IInv
<1>5. phase' # "work" => \A s \in Story : ended[s] # "running"
  <2>1. phase # "work" => \A s \in Story : ended[s] # "running"
    BY DEF IInv, RunningUndecided
  <2> QED
    BY <2>1 DEF Noise, WaveBoundary, StartReconcile, StartDrain2, PilotDone, Return, Reconcile
<1> QED
  BY <1>1, <1>2, <1>3, <1>4, <1>5, NoNewCompletion

LEMMA DequeueIInv == ASSUME IInv, TypeOK', Dequeue PROVE IInv'
<1>1. /\ queue \in Seq(Event) /\ queue # <<>> /\ cur' = queue[1] /\ queue' = Tail(queue)
      /\ UNCHANGED <<phase, ended, outcome>> /\ phase # "work"
      /\ pc' \in {"stage5", "security", "end"}
      /\ pc' = "stage5" => queue[1].kind = "completed"
  BY DEF Dequeue, IInv, TypeOK, Draining, result
<1>2. /\ Len(queue) \in Nat \ {0} /\ Len(queue') = Len(queue) - 1
      /\ \A i \in 1..Len(queue') : queue'[i] = queue[i + 1]
  BY <1>1
<1>3. \A i \in 1..Len(queue') : i + 1 \in 1..Len(queue) /\ i + 1 # 1
  BY <1>2
<1>4. \A i, j \in 1..Len(queue') : i # j => i + 1 # j + 1
  BY <1>2
<1>5. 1 \in 1..Len(queue)
  BY <1>2
<1>6. CompletedOnce'
  BY <1>1, <1>2, <1>3, <1>4, <1>5 DEF IInv, CompletedOnce, InReview
<1>7. WaitingUndecided'
  BY <1>1, <1>2, <1>3 DEF IInv, WaitingUndecided, Undecided
<1>8. RunningUndecided'
  BY <1>1 DEF IInv, RunningUndecided, Undecided
<1>9. InHandUndecided'
  BY <1>1, <1>5 DEF IInv, WaitingUndecided, InHandUndecided, Undecided
<1> QED
  BY <1>6, <1>7, <1>8, <1>9 DEF IInv

LEMMA TailIInv ==
  ASSUME IInv, TypeOK', NEW s \in Story, TailAndEmitCompletion(s) PROVE IInv'
<1>1. /\ UNCHANGED <<phase, pc, cur, outcome>> /\ phase = "work" /\ ended[s] = "running"
      /\ queue \in Seq(Event) /\ ended \in [Story -> Ending]
  BY DEF TailAndEmitCompletion, result, IInv, TypeOK
<1>2. \E how \in Ending \ {"running"} : ended' = [ended EXCEPT ![s] = how]
  BY DEF TailAndEmitCompletion, Ending
<1>3. ended'[s] # "running" /\ \A r \in Story : r # s => ended'[r] = ended[r]
  BY <1>1, <1>2
<1>4. \A i \in 1..Len(queue) :
         queue[i].kind = "completed" => queue[i].story \in Story /\ queue[i].story # s
  BY <1>1, EventFields DEF IInv, WaitingUndecided, StoryEvent
\* Of what is appended only the last event is a completion.
<1>5. \A i \in 1..Len(queue') : queue'[i].kind = "completed" =>
         \/ i \in 1..Len(queue) /\ queue'[i] = queue[i]
         \/ i = Len(queue') /\ i \notin 1..Len(queue) /\ queue'[i].story = s
  <2>1. \/ queue' = Append(queue, Other)
        \/ queue' = queue \o << Ev("verdict", s, "approve"), Ev("completed", s, "success") >>
        \/ \E t \in {"success", "overridden"} : queue' = Append(queue, Ev("completed", s, t))
    BY DEF TailAndEmitCompletion
  <2>2. CASE queue' = Append(queue, Other)
    BY <1>1, <2>2, OtherKind
  <2>3. CASE \E t \in {"success", "overridden"} : queue' = Append(queue, Ev("completed", s, t))
    <3>1. PICK t : queue' = Append(queue, Ev("completed", s, t))
      BY <2>3
    <3> DEFINE e == Ev("completed", s, t)
    <3>2. e.story = s
      BY EvKind
    <3> HIDE DEF e
    <3> QED
      BY <1>1, <3>1, <3>2 DEF e
  <2>4. CASE queue' = queue \o << Ev("verdict", s, "approve"), Ev("completed", s, "success") >>
    <3> DEFINE v == Ev("verdict", s, "approve")
               c == Ev("completed", s, "success")
    <3>1. v.kind = "verdict" /\ c.story = s
      BY EvKind
    <3>2. queue' = queue \o <<v, c>>
      BY <2>4
    <3> HIDE DEF v, c
    <3>3. /\ Len(queue') = Len(queue) + 2 /\ Len(queue) \in Nat
          /\ \A i \in 1..Len(queue) : queue'[i] = queue[i]
          /\ queue'[Len(queue) + 1] = v /\ queue'[Len(queue) + 2] = c
      BY <1>1, <3>2
    <3> QED
      BY <3>1, <3>3
  <2> QED
    BY <2>1, <2>2, <2>3, <2>4
<1>6. pc = "idle" /\ Undecided(s)
  BY <1>1 DEF IInv, RunningUndecided
<1>7. CompletedOnce'
  BY <1>1, <1>4, <1>5, <1>6 DEF IInv, CompletedOnce, InReview
<1>8. WaitingUndecided'
  BY <1>1, <1>3, <1>4, <1>5, <1>6 DEF IInv, WaitingUndecided, Undecided
<1>9. RunningUndecided'
  BY <1>1, <1>3, <1>6 DEF IInv, RunningUndecided, Undecided
<1>10. InHandUndecided'
  BY <1>1, <1>6 DEF InHandUndecided
<1> QED
  BY <1>7, <1>8, <1>9, <1>10 DEF IInv

LEMMA SpecIInv == Spec => []IInv
<1>1. Init => IInv
  BY InitTypeOK DEF Init, IInv, CompletedOnce, WaitingUndecided, RunningUndecided,
     InHandUndecided, InReview, Undecided
<1>2. IInv /\ [Next]_vars => IInv'
  <2> SUFFICES ASSUME IInv, [Next]_vars PROVE IInv'
    OBVIOUS
  <2>1. TypeOK'
    BY StepTypeOK DEF IInv
  <2>2. CASE UNCHANGED vars
    BY <2>1, <2>2 DEF vars, tree, result, IInv, CompletedOnce, WaitingUndecided,
       RunningUndecided, InHandUndecided, InReview, Undecided
  <2> QED
    BY <2>1, <2>2, GateIInv, CodeReviewIInv, VerdictIInv, PhaseIInv, DequeueIInv, TailIInv
       DEF Next, Pilot, Terminated
<1> QED
  BY <1>1, <1>2, PTL DEF Spec

\* What build_check or deletion_safety halted is never decided by the code
\* review: a story completes once, and the halt marks the event in hand.
THEOREM HaltsStand == Spec => HaltStopsReview
<1>1. IInv /\ [Next]_vars =>
        [\A s \in Story : outcome[s] \in {"build", "deletion"} =>
           outcome'[s] \in {outcome[s], "blocked"}]_vars
  <2> SUFFICES ASSUME IInv, [Next]_vars, NEW s \in Story, outcome[s] \in {"build", "deletion"}
               PROVE  outcome'[s] \in {outcome[s], "blocked"}
    OBVIOUS
  <2>1. CASE UNCHANGED outcome
    BY <2>1
  <2>2. ~Undecided(s) /\ outcome \in [Story -> Outcome]
    BY DEF Undecided, IInv, TypeOK
  <2>3. CASE BuildCheck \/ DeletionSafety \/ CodeReview
    <3>1. cur.story \in Story
      BY <2>3, InHandFields DEF BuildCheck, DeletionSafety, CodeReview, Running, IInv
    <3>2. outcome' = outcome \/ \E v : outcome' = [outcome EXCEPT ![cur.story] = v]
      BY <2>3 DEF BuildCheck, DeletionSafety, CodeReview, HaltStory, result
    <3>3. outcome' # outcome => Undecided(cur.story)
      BY <2>3 DEF BuildCheck, DeletionSafety, CodeReview, HaltStory, result, IInv,
         InHandUndecided, Running
    <3> QED
      BY <2>2, <3>1, <3>2, <3>3
  <2>4. CASE SecurityReview
    BY <2>2, <2>4 DEF SecurityReview
  <2> QED
    BY <2>1, <2>3, <2>4 DEF Next, Pilot, Terminated, vars, result, TailAndEmitCompletion,
       Reconcile, Noise, WaveBoundary, Dequeue, Return, Stage5Completeness, SkipReview,
       SkipSecurity, RefuseMerge, MergeConflict, Merge, Announce, StartReconcile, StartDrain2, PilotDone
<1> QED
  BY <1>1, SpecIInv, PTL DEF Spec, HaltStopsReview

-----------------------------------------------------------------------------
\* Where an event about a story is: on the queue, or in hand.
QueuedIn(q, k, s) == \E i \in 1..Len(q) : q[i].kind = k /\ q[i].story = s
Queued(k, s)      == QueuedIn(queue, k, s)
InHandOf(k, s)    == pc # "idle" /\ cur.kind = k /\ cur.story = s

LEMMA QueuedAppend ==
  ASSUME NEW q \in Seq(Event), NEW e
  PROVE  \A k, s : QueuedIn(Append(q, e), k, s) <=> QueuedIn(q, k, s) \/ (e.kind = k /\ e.story = s)
<1>1. /\ Len(q) \in Nat /\ Len(Append(q, e)) = Len(q) + 1
      /\ \A i \in 1..Len(q) : Append(q, e)[i] = q[i]
      /\ Append(q, e)[Len(q) + 1] = e
  OBVIOUS
<1>2. \A i : i \in 1..(Len(q) + 1) <=> i \in 1..Len(q) \/ i = Len(q) + 1
  BY <1>1
<1> DEFINE q2 == Append(q, e)
<1> HIDE DEF q2
<1> QED BY <1>1, <1>2 DEF QueuedIn, q2

LEMMA QueuedTail ==
  ASSUME NEW q \in Seq(Event), q # <<>>
  PROVE  \A k, s : QueuedIn(q, k, s) <=>
                     (Head(q).kind = k /\ Head(q).story = s) \/ QueuedIn(Tail(q), k, s)
<1> DEFINE t == Tail(q)
           h == Head(q)
<1>1. /\ Len(q) \in Nat /\ Len(q) >= 1 /\ Len(t) = Len(q) - 1 /\ h = q[1]
      /\ \A i \in 1..Len(t) : t[i] = q[i + 1]
  OBVIOUS
<1> HIDE DEF t, h
<1>2. ASSUME NEW k, NEW s PROVE QueuedIn(q, k, s) => (h.kind = k /\ h.story = s) \/ QueuedIn(t, k, s)
  <2> SUFFICES ASSUME NEW i \in 1..Len(q), q[i].kind = k, q[i].story = s, i # 1
               PROVE  QueuedIn(t, k, s)
    BY <1>1 DEF QueuedIn
  <2>1. i - 1 \in 1..Len(t) /\ t[i - 1] = q[i]
    BY <1>1
  <2> QED BY <2>1 DEF QueuedIn
<1>3. ASSUME NEW k, NEW s, QueuedIn(t, k, s) PROVE QueuedIn(q, k, s)
  <2> PICK i \in 1..Len(t) : t[i].kind = k /\ t[i].story = s
    BY <1>3 DEF QueuedIn
  <2>1. i + 1 \in 1..Len(q) /\ q[i + 1] = t[i]
    BY <1>1
  <2> QED BY <2>1 DEF QueuedIn
<1>4. \A k, s : h.kind = k /\ h.story = s => QueuedIn(q, k, s)
  BY <1>1 DEF QueuedIn
<1> QED BY <1>2, <1>3, <1>4 DEF t, h

\* A worker's end puts its own completion on the queue, its own verdict
\* perhaps, and nothing else of a story.
LEMMA TailQueues ==
  ASSUME TypeOK, NEW s \in Story, TailAndEmitCompletion(s)
  PROVE  /\ \A k, r : QueuedIn(queue, k, r) => QueuedIn(queue', k, r)
         /\ \A k, r : k \notin {"other", "verdict", "completed"} /\ QueuedIn(queue', k, r) => QueuedIn(queue, k, r)
         /\ \A k, r : k # "other" /\ QueuedIn(queue', k, r) => QueuedIn(queue, k, r) \/ r = s
<1>1. queue \in Seq(Event)
  BY DEF TypeOK
<1>2. \/ queue' = Append(queue, Other)
      \/ queue' = queue \o << Ev("verdict", s, "approve"), Ev("completed", s, "success") >>
      \/ \E t \in {"success", "overridden"} : queue' = Append(queue, Ev("completed", s, t))
  BY DEF TailAndEmitCompletion
<1>3. CASE queue' = Append(queue, Other)
  BY <1>1, <1>3, QueuedAppend, OtherKind
<1>4. CASE \E t \in {"success", "overridden"} : queue' = Append(queue, Ev("completed", s, t))
  BY <1>1, <1>4, QueuedAppend, EvKind
<1>5. CASE queue' = queue \o << Ev("verdict", s, "approve"), Ev("completed", s, "success") >>
  <2> DEFINE v == Ev("verdict", s, "approve")
             c == Ev("completed", s, "success")
  <2>1. v \in Event /\ c \in Event /\ v.kind = "verdict" /\ v.story = s
        /\ c.kind = "completed" /\ c.story = s
    BY EventsTyped, EvKind DEF Tag, Verdict
  <2>2. queue' = queue \o <<v, c>>
    BY <1>5
  <2> HIDE DEF v, c
  <2>3. queue' = Append(Append(queue, v), c) /\ Append(queue, v) \in Seq(Event)
    BY <1>1, <2>1, <2>2
  <2> QED BY <1>1, <2>1, <2>3, QueuedAppend
<1> QED BY <1>2, <1>3, <1>4, <1>5

\* Only a drain takes an event in hand or gives it back; the gates between
\* pass the same one on.
LEMMA HandKept ==
  ASSUME TypeOK, [Next]_vars, ~Dequeue, ~Return, ~Merge
  PROVE  (pc' = "idle" <=> pc = "idle") /\ cur'.kind = cur.kind /\ cur'.story = cur.story
<1>1. CASE UNCHANGED <<pc, cur>>
  BY <1>1
<1>2. CASE BuildCheck \/ DeletionSafety
  BY <1>2, InHandFields DEF BuildCheck, DeletionSafety, HaltStory, result, Running, StoryEvent
<1>3. CASE SecurityReview
  BY <1>3, InHandFields DEF SecurityReview, Running, StoryEvent
<1>4. CASE CodeReview
  BY <1>4 DEF CodeReview, Running
<1>5. CASE Stage5Completeness \/ SkipReview \/ SkipSecurity \/ RefuseMerge \/ MergeConflict
  BY <1>5 DEF Stage5Completeness, SkipReview, SkipSecurity, RefuseMerge, MergeConflict, Running
<1>6. CASE Noise \/ WaveBoundary \/ StartReconcile \/ StartDrain2 \/ PilotDone
           \/ Terminated \/ UNCHANGED vars \/ \E s \in Story : TailAndEmitCompletion(s) \/ Reconcile(s)
  BY <1>1, <1>6 DEF Noise, WaveBoundary, StartReconcile, StartDrain2, PilotDone, Terminated, vars,
     TailAndEmitCompletion, Reconcile
<1> QED BY <1>2, <1>3, <1>4, <1>5, <1>6 DEF Next, Pilot

-----------------------------------------------------------------------------
\* A story is on the integration branch exactly when its merge was announced:
\* the announcement was read, is in hand, or waits on the queue.
MergedTrail ==
  \A s \in Story : s \in integrated <=> s \in mergedSeen \/ Queued("merged", s) \/ InHandOf("merged", s)

LEMMA MergedStep == ASSUME TypeOK, MergedTrail, [Next]_vars PROVE MergedTrail'
<1>1. queue \in Seq(Event)
  BY DEF TypeOK
<1>2. CASE Dequeue
  <2>1. /\ queue # <<>> /\ queue' = Tail(queue) /\ cur' = Head(queue) /\ pc = "idle" /\ pc' # "idle"
        /\ UNCHANGED <<integrated, mergedSeen>>
    BY <1>2 DEF Dequeue, result, seen
  <2> QED BY <1>1, <2>1, QueuedTail DEF MergedTrail, Queued, InHandOf
<1>3. CASE Return
  BY <1>3 DEF Return, MergedTrail, Queued, InHandOf, result
<1>4. CASE Merge
  <2>1. cur.story \in Story /\ cur.kind = "verdict"
    BY <1>4, InHandFields DEF Merge, Announce, Running
  <2>2. /\ integrated' = integrated \cup {cur.story} /\ UNCHANGED mergedSeen
        /\ queue' = Append(queue, Ev("merged", cur.story, "-"))
        /\ pc' = "idle" \/ UNCHANGED cur
    BY <1>4, MergeMoves DEF Merge, Announce, seen
  <2>3. \A s \in Story : QueuedIn(queue', "merged", s) <=> QueuedIn(queue, "merged", s) \/ s = cur.story
    BY <1>1, <2>2, QueuedAppend, EvKind
  <2>4. \A s : ~InHandOf("merged", s) /\ ~(pc' # "idle" /\ cur'.kind = "merged")
    BY <2>1, <2>2 DEF InHandOf
  <2> QED BY <2>1, <2>2, <2>3, <2>4 DEF MergedTrail, Queued, InHandOf
<1>5. CASE ~Dequeue /\ ~Return /\ ~Merge
  <2>1. UNCHANGED <<integrated, mergedSeen>>
    BY <1>5 DEF Next, Pilot, Terminated, vars, result, seen, TailAndEmitCompletion, Reconcile,
       Noise, WaveBoundary, Stage5Completeness, BuildCheck, DeletionSafety, HaltStory, SkipReview,
       CodeReview, SkipSecurity, SecurityReview, RefuseMerge, MergeConflict, StartReconcile,
       StartDrain2, PilotDone
  <2>2. \A s \in Story : QueuedIn(queue', "merged", s) <=> QueuedIn(queue, "merged", s)
    <3>1. CASE \E s \in Story : TailAndEmitCompletion(s)
      BY <3>1, TailQueues
    <3>2. CASE \/ queue' = queue \/ queue' = Append(queue, Other)
               \/ \E k \in {"skipped", "verdict"} : \E s, t : queue' = Append(queue, Ev(k, s, t))
      <4>1. Other.kind # "merged" /\ \A k \in {"skipped", "verdict"} : \A s, t : Ev(k, s, t).kind # "merged"
        BY EvKind, OtherKind
      <4>2. queue' = queue \/ \E e : e.kind # "merged" /\ queue' = Append(queue, e)
        BY <3>2, <4>1
      <4>3. ASSUME NEW e, e.kind # "merged", queue' = Append(queue, e)
            PROVE  \A s : QueuedIn(queue', "merged", s) <=> QueuedIn(queue, "merged", s)
        BY <1>1, <4>3, QueuedAppend
      <4> QED BY <4>2, <4>3
    <3> QED
      BY <1>5, <3>1, <3>2 DEF Next, Pilot, Terminated, vars, Reconcile, Noise, WaveBoundary,
         Stage5Completeness, BuildCheck, DeletionSafety, SkipReview, CodeReview, SkipSecurity,
         SecurityReview, RefuseMerge, MergeConflict, StartReconcile, StartDrain2, PilotDone
  <2> QED BY <1>5, <2>1, <2>2, HandKept DEF MergedTrail, Queued, InHandOf
<1> QED BY <1>2, <1>3, <1>4, <1>5

\* The phases between drains have no event in hand; reconcile leaves no story.
PhasesOver ==
  /\ phase \in {"work", "reconcile", "done", "crashed"} => pc = "idle"
  /\ phase \in {"drain2", "done"} => todo = {}

LEMMA PhasesStep == ASSUME TypeOK, PhasesOver, [Next]_vars PROVE PhasesOver'
<1>1. CASE phase \in {"drain1", "drain2"} /\ UNCHANGED <<phase, todo>>
  BY <1>1 DEF PhasesOver
<1>2. CASE UNCHANGED <<phase, pc, todo>>
  BY <1>2 DEF PhasesOver
<1>3. CASE Stage5Completeness \/ BuildCheck \/ DeletionSafety \/ SkipReview \/ CodeReview
           \/ SkipSecurity \/ SecurityReview \/ RefuseMerge \/ MergeConflict
  BY <1>1, <1>3 DEF Stage5Completeness, BuildCheck, DeletionSafety, SkipReview, CodeReview,
     SkipSecurity, SecurityReview, RefuseMerge, MergeConflict, Running, Draining
<1>4. CASE Merge
  BY <1>4, MergeMoves DEF Merge, Announce, Running, Draining, PhasesOver
<1>5. CASE Dequeue
  BY <1>1, <1>5 DEF Dequeue, Draining
<1>6. CASE Return
  BY <1>6 DEF Return, PhasesOver
<1>7. CASE WaveBoundary \/ StartReconcile \/ StartDrain2 \/ PilotDone
  BY <1>7 DEF WaveBoundary, StartReconcile, StartDrain2, PilotDone, DrainEnded, PhasesOver
<1>8. CASE \E s \in Story : Reconcile(s)
  BY <1>8 DEF Reconcile, PhasesOver
<1>9. CASE Noise \/ Terminated \/ UNCHANGED vars \/ \E s \in Story : TailAndEmitCompletion(s)
  BY <1>2, <1>9 DEF Noise, Terminated, vars, TailAndEmitCompletion
<1> QED
  BY <1>3, <1>4, <1>5, <1>6, <1>7, <1>8, <1>9 DEF Next, Pilot

LEMMA SpecTrail == Spec => [](TypeOK /\ PhasesOver /\ MergedTrail)
<1>1. Init => TypeOK /\ PhasesOver /\ MergedTrail
  BY InitTypeOK DEF Init, PhasesOver, MergedTrail, Queued, QueuedIn, InHandOf
<1>2. TypeOK /\ PhasesOver /\ MergedTrail /\ [Next]_vars => (TypeOK /\ PhasesOver /\ MergedTrail)'
  BY StepTypeOK, PhasesStep, MergedStep
<1> QED BY <1>1, <1>2, PTL DEF Spec

LEMMA WaitingQueued == ASSUME TypeOK PROVE \A k, s : Waiting(k, s) <=> Queued(k, s)
<1>1. DOMAIN queue = 1..Len(queue)
  BY DEF TypeOK
<1> QED BY <1>1 DEF Waiting, Queued, QueuedIn

\* When the last drain has emptied the bus, real_pilot_done counts as merged
\* exactly the stories on the integration branch, however they got there; and
\* a pilot that a cleanup killed has announced each of its merges.  A drain
\* that stops at its cap leaves announcements unread.
THEOREM MetricIsHonest == Spec => []((phase = "done" => queue = <<>>) => HonestMetric)
<1>1. TypeOK /\ PhasesOver /\ MergedTrail => ((phase = "done" => queue = <<>>) => HonestMetric)
  <2> SUFFICES ASSUME TypeOK, PhasesOver, MergedTrail, phase = "done" => queue = <<>>
               PROVE  HonestMetric
    OBVIOUS
  <2>1. ASSUME phase = "done", NEW s \in Story
        PROVE  (PilotOutcome(s) = "merged") = (s \in integrated)
    <3>1. ~Queued("merged", s) /\ ~InHandOf("merged", s)
      BY <2>1 DEF Queued, QueuedIn, InHandOf, PhasesOver
    <3>2. s \in integrated <=> s \in mergedSeen
      BY <3>1 DEF MergedTrail
    <3>3. PilotOutcome(s) = "merged" <=> s \in mergedSeen
      BY DEF PilotOutcome
    <3> QED BY <3>2, <3>3
  <2>2. ASSUME phase = "crashed", NEW s \in Story
        PROVE  s \in integrated <=> s \in mergedSeen \/ Waiting("merged", s)
    <3>1. ~InHandOf("merged", s)
      BY <2>2 DEF InHandOf, PhasesOver
    <3> QED BY <3>1, WaitingQueued DEF MergedTrail
  <2> QED BY <2>1, <2>2 DEF HonestMetric
<1> QED BY <1>1, SpecTrail, PTL

-----------------------------------------------------------------------------
AtGate(s)  == pc \in {"security", "merge"} /\ cur.story = s
AtWork(s)  == pc \in {"stage5", "build", "deletion", "review"} /\ cur.story = s

\* Every story that succeeded is settled, or an event that will settle it is
\* on the queue or in the hands of a subscriber.
Tracked(s) == Settled(s) \/ Queued("completed", s) \/ Queued("verdict", s) \/ AtGate(s) \/ AtWork(s)
AllTracked == \A s \in Story : ended[s] \in Succeeded => Tracked(s)

\* Only a subscriber halts a completion, and it asks a human as it does.
UnhaltedIn(q) == \A i \in 1..Len(q) : q[i].kind = "completed" => q[i].tag # "halted"
HaltedAsked ==
  /\ UnhaltedIn(queue)
  /\ pc \in {"stage5", "build", "deletion", "review"} /\ cur.tag = "halted" => cur.story \in asked

\* Nothing undoes what settles a story.
LEMMA SettledStays ==
  ASSUME [Next]_vars PROVE asked \subseteq asked' /\ \A s : Settled(s) => Settled(s)'
<1>1. integrated \subseteq integrated' /\ skipped \subseteq skipped'
  BY DEF Next, Pilot, Terminated, vars, result, TailAndEmitCompletion, Reconcile,
     Noise, WaveBoundary, Dequeue, Return, Stage5Completeness, BuildCheck, DeletionSafety,
     HaltStory, SkipReview, CodeReview, SkipSecurity, SecurityReview, RefuseMerge, MergeConflict,
     Merge, Announce, StartReconcile, StartDrain2, PilotDone
<1>2. asked \subseteq asked'
  <2>1. CASE CodeReview
    BY <2>1 DEF CodeReview
  <2>2. CASE SecurityReview
    BY <2>2 DEF SecurityReview
  <2>3. CASE ~CodeReview /\ ~SecurityReview
    BY <2>3 DEF Next, Pilot, Terminated, vars, result, TailAndEmitCompletion, Reconcile,
       Noise, WaveBoundary, Dequeue, Return, Stage5Completeness, BuildCheck, DeletionSafety,
       HaltStory, SkipReview, SkipSecurity, RefuseMerge, MergeConflict, Merge, Announce, StartReconcile,
       StartDrain2, PilotDone
  <2> QED BY <2>1, <2>2, <2>3
<1> QED BY <1>1, <1>2 DEF Settled

LEMMA UnhaltedMoves ==
  ASSUME NEW q \in Seq(Event), UnhaltedIn(q)
  PROVE  /\ \A e : (e.kind = "completed" => e.tag # "halted") => UnhaltedIn(Append(q, e))
         /\ q # <<>> => /\ UnhaltedIn(Tail(q))
                        /\ Head(q).kind = "completed" => Head(q).tag # "halted"
<1>1. ASSUME NEW e, e.kind = "completed" => e.tag # "halted" PROVE UnhaltedIn(Append(q, e))
  <2> DEFINE r == Append(q, e)
  <2>1. /\ Len(q) \in Nat /\ Len(r) = Len(q) + 1 /\ r[Len(q) + 1] = e
        /\ \A i \in 1..Len(q) : r[i] = q[i]
    OBVIOUS
  <2> HIDE DEF r
  <2>2. \A i \in 1..Len(r) : i \in 1..Len(q) \/ i = Len(q) + 1
    BY <2>1
  <2>3. UnhaltedIn(r)
    BY <1>1, <2>1, <2>2 DEF UnhaltedIn
  <2> QED BY <2>3 DEF r
<1>2. ASSUME q # <<>> PROVE UnhaltedIn(Tail(q)) /\ (Head(q).kind = "completed" => Head(q).tag # "halted")
  <2> DEFINE t == Tail(q)
             h == Head(q)
  <2>1. h = q[1] /\ 1 \in 1..Len(q) /\ \A i \in 1..Len(t) : t[i] = q[i + 1] /\ i + 1 \in 1..Len(q)
    BY <1>2
  <2> HIDE DEF t, h
  <2>2. UnhaltedIn(t) /\ (h.kind = "completed" => h.tag # "halted")
    BY <2>1 DEF UnhaltedIn
  <2> QED BY <2>2 DEF t, h
<1> QED BY <1>1, <1>2

LEMMA HaltedAskedStep == ASSUME TypeOK, HaltedAsked, [Next]_vars PROVE HaltedAsked'
<1>1. queue \in Seq(Event) /\ asked \subseteq asked'
  BY SettledStays DEF TypeOK
<1>2. UnhaltedIn(queue')
  <2>1. \A k, s, t : (k = "completed" => t # "halted") =>
          (Ev(k, s, t).kind = "completed" => Ev(k, s, t).tag # "halted")
    BY DEF Ev
  <2>2. ASSUME NEW s \in Story, TailAndEmitCompletion(s) PROVE UnhaltedIn(queue')
    <3>1. \/ queue' = Append(queue, Other)
          \/ queue' = queue \o << Ev("verdict", s, "approve"), Ev("completed", s, "success") >>
          \/ \E t \in {"success", "overridden"} : queue' = Append(queue, Ev("completed", s, t))
      BY <2>2 DEF TailAndEmitCompletion
    <3>2. CASE queue' = Append(queue, Other)
      BY <1>1, <3>2, OtherKind, UnhaltedMoves DEF HaltedAsked
    <3>3. CASE \E t \in {"success", "overridden"} : queue' = Append(queue, Ev("completed", s, t))
      <4> PICK t \in {"success", "overridden"} : queue' = Append(queue, Ev("completed", s, t))
        BY <3>3
      <4> QED BY <1>1, <2>1, UnhaltedMoves DEF HaltedAsked
    <3>4. CASE queue' = queue \o << Ev("verdict", s, "approve"), Ev("completed", s, "success") >>
      <4> DEFINE v == Ev("verdict", s, "approve")
                 c == Ev("completed", s, "success")
      <4>1. v \in Event /\ c \in Event /\ v.kind # "completed" /\ c.tag # "halted"
        BY EventsTyped DEF Tag, Verdict, Ev
      <4>2. queue' = queue \o <<v, c>>
        BY <3>4
      <4> HIDE DEF v, c
      <4> DEFINE q2 == Append(queue, v)
      <4>3. queue' = Append(q2, c) /\ q2 \in Seq(Event)
        BY <1>1, <4>1, <4>2
      <4>4. UnhaltedIn(q2)
        BY <1>1, <4>1, UnhaltedMoves DEF HaltedAsked
      <4> HIDE DEF q2
      <4> QED BY <4>1, <4>3, <4>4, UnhaltedMoves
    <3> QED BY <3>1, <3>2, <3>3, <3>4
  <2>3. CASE Dequeue
    BY <1>1, <2>3, UnhaltedMoves DEF Dequeue, HaltedAsked
  <2>4. CASE \/ queue' = queue \/ queue' = Append(queue, Other)
             \/ \E k \in {"skipped", "verdict", "merged"} : \E s, t : queue' = Append(queue, Ev(k, s, t))
    <3>1. Other.kind # "completed" /\ \A k \in {"skipped", "verdict", "merged"} : \A s, t : Ev(k, s, t).kind # "completed"
      BY EvKind, OtherKind
    <3>2. queue' = queue \/ \E e : e.kind # "completed" /\ queue' = Append(queue, e)
      BY <2>4, <3>1
    <3> QED BY <1>1, <3>2, UnhaltedMoves DEF HaltedAsked
  <2> QED
    BY <2>2, <2>3, <2>4 DEF Next, Pilot, Terminated, vars, Reconcile, Noise, WaveBoundary,
       Return, Stage5Completeness, BuildCheck, DeletionSafety, SkipReview, CodeReview, SkipSecurity,
       SecurityReview, RefuseMerge, MergeConflict, Merge, Announce, StartReconcile, StartDrain2, PilotDone
<1>3. pc' \in {"stage5", "build", "deletion", "review"} /\ cur'.tag = "halted" => cur'.story \in asked'
  <2>1. CASE Dequeue
    BY <1>1, <2>1, UnhaltedMoves DEF Dequeue, HaltedAsked
  <2>2. CASE BuildCheck \/ DeletionSafety
    <3>1. cur \in StoryEvent
      BY <2>2, InHandFields DEF BuildCheck, DeletionSafety, Running
    <3> QED BY <1>1, <2>2, <3>1 DEF BuildCheck, DeletionSafety, HaltStory, HaltedAsked, StoryEvent, result, Running
  <2>3. CASE Return \/ SkipReview \/ SkipSecurity \/ SecurityReview \/ RefuseMerge \/ MergeConflict \/ Merge
    <3>1. pc' \notin {"stage5", "build", "deletion", "review"}
      BY <2>3, MergeMoves DEF Return, SkipReview, SkipSecurity, SecurityReview, RefuseMerge,
         MergeConflict, Running
    <3> QED BY <3>1
  <2>4. CASE Stage5Completeness \/ CodeReview
    BY <1>1, <2>4 DEF Stage5Completeness, CodeReview, HaltedAsked, Running
  <2>5. CASE UNCHANGED <<pc, cur>>
    BY <1>1, <2>5 DEF HaltedAsked
  <2> QED
    BY <2>1, <2>2, <2>3, <2>4, <2>5 DEF Next, Pilot, Terminated, vars, Reconcile, Noise, WaveBoundary,
       TailAndEmitCompletion, StartReconcile, StartDrain2, PilotDone
<1> QED BY <1>2, <1>3 DEF HaltedAsked

LEMMA TrackedStep ==
  ASSUME TypeOK, HaltedAsked, AllTracked, [Next]_vars PROVE AllTracked'
<1> DEFINE Kept(k) == \A s : QueuedIn(queue, k, s) => QueuedIn(queue', k, s) \/ AtGate(s)' \/ AtWork(s)'
<1>1. \A s : Settled(s) => Settled(s)'
  BY SettledStays
<1>2. queue \in Seq(Event)
  BY DEF TypeOK
\* A step that passes on what tracks a story.
<1>3. ASSUME UNCHANGED ended, Kept("completed"), Kept("verdict"),
             \A s : AtGate(s) => AtGate(s)' \/ Settled(s)',
             \A s : AtWork(s) => AtWork(s)' \/ Settled(s)' \/ QueuedIn(queue', "verdict", s)
      PROVE  AllTracked'
  BY <1>1, <1>3 DEF AllTracked, Tracked, Queued
<1>4. ASSUME queue' = queue \/ \E e : queue' = Append(queue, e) PROVE Kept("completed") /\ Kept("verdict")
  <2>1. \A e : queue' = Append(queue, e) =>
          \A k, s : QueuedIn(queue, k, s) => QueuedIn(queue', k, s)
    BY <1>2, QueuedAppend
  <2> QED BY <1>4, <2>1
<1> HIDE DEF Kept
<1>5. CASE Dequeue
  <2>1. /\ queue # <<>> /\ queue' = Tail(queue) /\ cur' = Head(queue) /\ pc = "idle"
        /\ Head(queue).kind = "verdict" => pc' = "security"
        /\ Head(queue).kind = "completed" => pc' = "stage5"
        /\ UNCHANGED ended
    BY <1>5 DEF Dequeue
  <2>2. Kept("completed") /\ Kept("verdict")
    BY <1>2, <2>1, QueuedTail DEF AtGate, AtWork, Kept
  <2> QED BY <1>3, <2>1, <2>2 DEF AtGate, AtWork
<1>6. CASE Return
  BY <1>3, <1>4, <1>6 DEF Return, AtGate, AtWork
<1>7. CASE RefuseMerge \/ MergeConflict \/ Merge
  <2>1. UNCHANGED ended /\ pc = "merge"
        /\ \A s : s = cur.story => Settled(s)'
        /\ (queue' = queue \/ \E e : queue' = Append(queue, e))
    BY <1>7 DEF RefuseMerge, MergeConflict, Merge, Announce, Settled, Running
  <2> QED BY <1>3, <1>4, <2>1 DEF AtGate, AtWork
<1>8. CASE SkipSecurity \/ SecurityReview \/ Stage5Completeness \/ BuildCheck \/ DeletionSafety
  <2>1. /\ UNCHANGED <<ended, queue>>
        /\ pc \in {"security", "merge"} => pc' \in {"security", "merge"}
        /\ pc \notin {"security", "merge"} => pc' \in {"build", "deletion", "review"}
    BY <1>8 DEF SkipSecurity, SecurityReview, Stage5Completeness, BuildCheck, DeletionSafety, Running
  <2>2. cur'.story = cur.story
    BY <1>8, HandKept DEF SkipSecurity, SecurityReview, Stage5Completeness, BuildCheck,
       DeletionSafety, Dequeue, Return, Merge, Announce, Running
  <2> QED BY <1>3, <1>4, <2>1, <2>2 DEF AtGate, AtWork
<1>9. CASE SkipReview
  <2>1. UNCHANGED <<ended, queue, cur, asked>> /\ pc = "review" /\ cur.story \in asked
    BY <1>9 DEF SkipReview, Running, HaltedAsked, result
  <2> QED BY <1>3, <1>4, <2>1 DEF AtGate, AtWork, Settled
<1>10. CASE CodeReview
  <2>1. /\ UNCHANGED <<ended, cur>> /\ pc = "review"
        /\ \/ pc' = pc /\ queue' = queue
           \/ cur.story \in asked' /\ queue' = queue
           \/ \E v : queue' = Append(queue, Ev("verdict", cur.story, v))
    BY <1>10 DEF CodeReview, Running
  <2>2. pc' = pc \/ cur.story \in asked' \/ QueuedIn(queue', "verdict", cur.story)
    <3>1. \A s, v : queue' = Append(queue, Ev("verdict", s, v)) => QueuedIn(queue', "verdict", s)
      BY <1>2, QueuedAppend, EvKind
    <3> QED BY <2>1, <3>1
  <2> QED BY <1>3, <1>4, <2>1, <2>2 DEF AtGate, AtWork, Settled
<1>11. CASE Noise \/ WaveBoundary \/ StartReconcile \/ StartDrain2 \/ PilotDone
            \/ Terminated \/ UNCHANGED vars \/ \E s \in Story : Reconcile(s)
  <2>1. UNCHANGED <<ended, pc, cur>> /\ (queue' = queue \/ \E e : queue' = Append(queue, e))
    BY <1>11 DEF Noise, WaveBoundary, StartReconcile, StartDrain2, PilotDone, Terminated, vars, Reconcile
  <2> QED BY <1>3, <1>4, <2>1 DEF AtGate, AtWork
<1>12. ASSUME NEW s \in Story, TailAndEmitCompletion(s) PROVE AllTracked'
  <2>1. /\ UNCHANGED <<pc, cur>> /\ ended \in [Story -> Ending]
        /\ \E how \in Ending : ended' = [ended EXCEPT ![s] = how]
    BY <1>12 DEF TailAndEmitCompletion, TypeOK, Ending
  <2>2. \A k, r : QueuedIn(queue, k, r) => QueuedIn(queue', k, r)
    BY <1>12, TailQueues
  <2>3. ended'[s] \in Succeeded => QueuedIn(queue', "completed", s)
    <3>1. ended'[s] \in Succeeded =>
            \/ queue' = queue \o << Ev("verdict", s, "approve"), Ev("completed", s, "success") >>
            \/ \E t : queue' = Append(queue, Ev("completed", s, t))
      BY <1>12 DEF TailAndEmitCompletion, TypeOK, Succeeded
    <3>2. CASE \E t : queue' = Append(queue, Ev("completed", s, t))
      BY <1>2, <3>2, QueuedAppend, EvKind
    <3>3. CASE queue' = queue \o << Ev("verdict", s, "approve"), Ev("completed", s, "success") >>
      <4> DEFINE v == Ev("verdict", s, "approve")
                 c == Ev("completed", s, "success")
      <4>1. v \in Event /\ c \in Event /\ c.kind = "completed" /\ c.story = s
        BY EventsTyped, EvKind DEF Tag, Verdict
      <4>2. queue' = queue \o <<v, c>>
        BY <3>3
      <4> HIDE DEF v, c
      <4>3. queue' = Append(Append(queue, v), c) /\ Append(queue, v) \in Seq(Event)
        BY <1>2, <4>1, <4>2
      <4> QED BY <4>1, <4>3, QueuedAppend
    <3> QED BY <3>1, <3>2, <3>3
  <2>4. \A r \in Story : r # s => ended'[r] = ended[r]
    BY <2>1
  <2> QED BY <1>1, <2>1, <2>2, <2>3, <2>4 DEF AllTracked, Tracked, Queued, AtGate, AtWork
<1> QED BY <1>5, <1>6, <1>7, <1>8, <1>9, <1>10, <1>11, <1>12 DEF Next, Pilot

\* When the last drain has emptied the bus, no story that succeeded is lost
\* sight of: it is merged, or a human was asked, or its skip was published;
\* and when a cleanup has killed the pilot it is that, or on the bus still.
THEOREM NothingIsStranded == Spec => []((phase = "done" => queue = <<>>) => NothingStranded)
<1> DEFINE I == TypeOK /\ PhasesOver /\ HaltedAsked /\ AllTracked
<1>1. Init => I
  BY InitTypeOK DEF Init, PhasesOver, HaltedAsked, UnhaltedIn, AllTracked, Succeeded
<1>2. I /\ [Next]_vars => I'
  BY StepTypeOK, PhasesStep, HaltedAskedStep, TrackedStep
<1>3. I => ((phase = "done" => queue = <<>>) => NothingStranded)
  <2> SUFFICES ASSUME I, phase = "done" => queue = <<>>, phase \in {"done", "crashed"},
                      NEW s \in Story, ended[s] \in Succeeded
               PROVE  /\ phase = "done" => Settled(s)
                      /\ phase = "crashed" => Settled(s) \/ Waiting("completed", s) \/ Waiting("verdict", s)
    BY DEF NothingStranded
  <2>1. Settled(s) \/ Queued("completed", s) \/ Queued("verdict", s)
    BY DEF AllTracked, Tracked, AtGate, AtWork, PhasesOver
  <2>2. phase = "done" => ~Queued("completed", s) /\ ~Queued("verdict", s)
    BY DEF Queued, QueuedIn
  <2> QED BY <2>1, <2>2, WaitingQueued
<1> QED BY <1>1, <1>2, <1>3, PTL DEF Spec

-----------------------------------------------------------------------------
Against == {"reject", "request_changes", "blocked"}

\* A queue has one verdict of a story, and ahead of the story's completion.
OneVerdictIn(q) ==
  \A i, j \in 1..Len(q) : q[i].kind = "verdict" /\ q[i].story = q[j].story =>
    /\ q[j].kind = "verdict" => i = j
    /\ q[j].kind = "completed" => i < j
ApproveIn(q, s) == \E i \in 1..Len(q) : q[i].kind = "verdict" /\ q[i].story = s /\ q[i].tag = "approve"

LEMMA OneVerdictAppend ==
  ASSUME NEW q \in Seq(Event), NEW e, OneVerdictIn(q),
         e.kind = "verdict" => ~QueuedIn(q, "verdict", e.story) /\ ~QueuedIn(q, "completed", e.story)
  PROVE  OneVerdictIn(Append(q, e))
<1> DEFINE q2 == Append(q, e)
<1>1. /\ Len(q) \in Nat /\ Len(q2) = Len(q) + 1
      /\ \A i \in 1..Len(q) : q2[i] = q[i]
      /\ q2[Len(q) + 1] = e
  OBVIOUS
<1> HIDE DEF q2
<1> SUFFICES ASSUME NEW i \in 1..Len(q2), NEW j \in 1..Len(q2),
                    q2[i].kind = "verdict", q2[i].story = q2[j].story
             PROVE  (q2[j].kind = "verdict" => i = j) /\ (q2[j].kind = "completed" => i < j)
  BY DEF OneVerdictIn, q2
<1>2. CASE i \in 1..Len(q) /\ j \in 1..Len(q)
  BY <1>1, <1>2 DEF OneVerdictIn
<1>3. CASE i \in 1..Len(q) /\ j = Len(q) + 1
  <2>1. i < j /\ q2[j] = e /\ q2[i] = q[i]
    BY <1>1, <1>3
  <2>2. e.kind # "verdict"
    BY <1>3, <2>1 DEF QueuedIn
  <2> QED BY <2>1, <2>2
<1>4. CASE i = Len(q) + 1 /\ j \in 1..Len(q)
  BY <1>1, <1>4 DEF QueuedIn
<1>5. CASE i = Len(q) + 1 /\ j = Len(q) + 1
  BY <1>1, <1>5
<1> QED BY <1>1, <1>2, <1>3, <1>4, <1>5

LEMMA OneVerdictTail ==
  ASSUME NEW q \in Seq(Event), q # <<>>, OneVerdictIn(q)
  PROVE  /\ OneVerdictIn(Tail(q))
         /\ Head(q).kind \in {"verdict", "completed"} => ~QueuedIn(Tail(q), "verdict", Head(q).story)
<1> DEFINE t == Tail(q)
           h == Head(q)
<1>1. /\ Len(q) \in Nat /\ Len(q) >= 1 /\ Len(t) = Len(q) - 1 /\ h = q[1]
      /\ \A i \in 1..Len(t) : t[i] = q[i + 1] /\ i + 1 \in 1..Len(q) /\ i + 1 > 1
      /\ 1 \in 1..Len(q)
  OBVIOUS
<1> HIDE DEF t, h
<1>2. OneVerdictIn(t)
  <2> SUFFICES ASSUME NEW i \in 1..Len(t), NEW j \in 1..Len(t),
                      t[i].kind = "verdict", t[i].story = t[j].story
               PROVE  (t[j].kind = "verdict" => i = j) /\ (t[j].kind = "completed" => i < j)
    BY DEF OneVerdictIn
  <2>1. /\ q[j + 1].kind = "verdict" => i + 1 = j + 1
        /\ q[j + 1].kind = "completed" => i + 1 < j + 1
    BY <1>1 DEF OneVerdictIn
  <2> QED BY <1>1, <2>1
<1>3. ASSUME h.kind \in {"verdict", "completed"}, QueuedIn(t, "verdict", h.story) PROVE FALSE
  <2> PICK i \in 1..Len(t) : t[i].kind = "verdict" /\ t[i].story = h.story
    BY <1>3 DEF QueuedIn
  <2>1. /\ q[i + 1].kind = "verdict" /\ q[i + 1].story = q[1].story /\ i + 1 \in 1..Len(q) /\ i + 1 > 1
    BY <1>1
  <2> QED BY <1>1, <1>3, <2>1 DEF OneVerdictIn
<1> QED BY <1>2, <1>3 DEF t, h

LEMMA ApproveMoves ==
  ASSUME NEW q \in Seq(Event)
  PROVE  /\ \A s : ApproveIn(q, s) => QueuedIn(q, "verdict", s)
         /\ \A e, s : ApproveIn(Append(q, e), s) =>
              ApproveIn(q, s) \/ (e.kind = "verdict" /\ e.story = s /\ e.tag = "approve")
         /\ q # <<>> => /\ \A s : ApproveIn(Tail(q), s) => ApproveIn(q, s)
                        /\ Head(q).kind = "verdict" /\ Head(q).tag = "approve" => ApproveIn(q, Head(q).story)
<1>1. \A s : ApproveIn(q, s) => QueuedIn(q, "verdict", s)
  BY DEF ApproveIn, QueuedIn
<1>2. ASSUME NEW e, NEW s, ApproveIn(Append(q, e), s)
      PROVE  ApproveIn(q, s) \/ (e.kind = "verdict" /\ e.story = s /\ e.tag = "approve")
  <2> DEFINE q2 == Append(q, e)
  <2>1. /\ Len(q) \in Nat /\ Len(q2) = Len(q) + 1
        /\ \A i \in 1..Len(q) : q2[i] = q[i]
        /\ q2[Len(q) + 1] = e
    OBVIOUS
  <2> HIDE DEF q2
  <2> PICK i \in 1..Len(q2) : q2[i].kind = "verdict" /\ q2[i].story = s /\ q2[i].tag = "approve"
    BY <1>2 DEF ApproveIn, q2
  <2>2. i \in 1..Len(q) \/ i = Len(q) + 1
    BY <2>1
  <2> QED BY <2>1, <2>2 DEF ApproveIn
<1>3. ASSUME q # <<>>, NEW s, ApproveIn(Tail(q), s) PROVE ApproveIn(q, s)
  <2> DEFINE t == Tail(q)
  <2>1. \A i \in 1..Len(t) : t[i] = q[i + 1] /\ i + 1 \in 1..Len(q)
    BY <1>3
  <2> HIDE DEF t
  <2> PICK i \in 1..Len(t) : t[i].kind = "verdict" /\ t[i].story = s /\ t[i].tag = "approve"
    BY <1>3 DEF ApproveIn, t
  <2> QED BY <2>1 DEF ApproveIn
<1>4. q # <<>> => Head(q) = q[1] /\ 1 \in 1..Len(q)
  OBVIOUS
<1>5. q # <<>> /\ Head(q).kind = "verdict" /\ Head(q).tag = "approve" => ApproveIn(q, Head(q).story)
  BY <1>4 DEF ApproveIn
<1> QED BY <1>1, <1>2, <1>3, <1>5

\* One verdict of a story is under way, and none while the story is in review.
OneVerdict ==
  /\ OneVerdictIn(queue)
  /\ pc \notin {"idle", "end"} => ~Queued("verdict", cur.story)

\* Nothing is decided before the drains, and nothing of a story is queued
\* before its worker ends.  A first drain that was not stopped at its cap
\* leaves reconcile no completion, and no verdict but of its own making.
Fresh ==
  /\ phase = "work" => \A s \in Story : outcome[s] = "none"
  /\ \A s \in Story : ended[s] = "running" => ~Queued("verdict", s) /\ ~Queued("completed", s)
  /\ phase = "reconcile" => \A s \in Story :
       ~Queued("completed", s) /\ (s \in todo => ~Queued("verdict", s))

\* An approve under way is of a story no later decision was against.
ApproveGood ==
  /\ \A s \in Story : ApproveIn(queue, s) => outcome[s] \notin Against
  /\ pc \in {"security", "merge"} /\ cur.tag = "approve" => outcome[cur.story] \notin Against

\* What was decided against has a verdict for reconcile to find.
AgainstIsSeen ==
  phase \in {"drain1", "reconcile"} => \A s \in Story :
    outcome[s] \in Against => s \in verdictSeen \/ Queued("verdict", s) \/ InHandOf("verdict", s)

Stands == OneVerdict /\ Fresh /\ ApproveGood /\ AgainstIsSeen

LEMMA QuietQueue ==
  ASSUME NEW q \in Seq(Event), OneVerdictIn(q), NEW q2,
         q2 = q \/ \E e : e.kind \notin {"verdict", "completed"} /\ q2 = Append(q, e)
  PROVE  /\ OneVerdictIn(q2)
         /\ \A s : QueuedIn(q2, "verdict", s) <=> QueuedIn(q, "verdict", s)
         /\ \A s : QueuedIn(q2, "completed", s) <=> QueuedIn(q, "completed", s)
         /\ \A s : ApproveIn(q2, s) => ApproveIn(q, s)
<1>1. CASE q2 = q
  BY <1>1
<1>2. ASSUME NEW e, e.kind \notin {"verdict", "completed"}, q2 = Append(q, e)
      PROVE  /\ OneVerdictIn(q2)
             /\ \A s : QueuedIn(q2, "verdict", s) <=> QueuedIn(q, "verdict", s)
             /\ \A s : QueuedIn(q2, "completed", s) <=> QueuedIn(q, "completed", s)
             /\ \A s : ApproveIn(q2, s) => ApproveIn(q, s)
  BY <1>2, OneVerdictAppend, QueuedAppend, ApproveMoves
<1> QED BY <1>1, <1>2

\* The gates that decide nothing against a story.
LEMMA GateStands ==
  ASSUME IInv, PhasesOver, Stands, [Next]_vars,
         Stage5Completeness \/ BuildCheck \/ DeletionSafety \/ SkipReview \/ SkipSecurity \/ RefuseMerge
  PROVE  Stands'
<1>1. /\ UNCHANGED <<queue, phase, ended, todo, verdictSeen>> /\ pc \notin {"idle", "end"}
      /\ pc' # "idle" /\ phase \in {"drain1", "drain2"}
      /\ pc' \in {"security", "merge"} => pc = "security" /\ cur' = cur
      /\ outcome' = outcome \/ \E why \in {"build", "deletion"} : outcome' = [outcome EXCEPT ![cur.story] = why]
  BY DEF Stage5Completeness, BuildCheck, DeletionSafety, SkipReview, SkipSecurity, RefuseMerge,
     HaltStory, result, seen, Running, Draining
<1>2. cur'.kind = cur.kind /\ cur'.story = cur.story
  BY HandKept DEF Stage5Completeness, BuildCheck, DeletionSafety, SkipReview, SkipSecurity,
     RefuseMerge, Running, Dequeue, Return, Merge, Announce, IInv
<1>3. \A s \in Story : outcome'[s] \in Against => outcome[s] \in Against
  BY <1>1 DEF Against, IInv, TypeOK
<1>4. OneVerdict'
  BY <1>1, <1>2 DEF Stands, OneVerdict, Queued
<1>5. Fresh'
  BY <1>1 DEF Stands, Fresh, Queued
<1>6. ApproveGood'
  <2>1. pc' \in {"security", "merge"} => cur'.story \in Story
    BY <1>1, InHandFields DEF IInv
  <2> QED BY <1>1, <1>3, <2>1 DEF Stands, ApproveGood
<1>7. AgainstIsSeen'
  BY <1>1, <1>2, <1>3 DEF Stands, AgainstIsSeen, Queued, InHandOf
<1> QED BY <1>4, <1>5, <1>6, <1>7 DEF Stands

LEMMA SecurityStands == ASSUME IInv, PhasesOver, Stands, [Next]_vars, SecurityReview PROVE Stands'
<1>1. cur \in StoryEvent /\ cur.kind = "verdict" /\ cur.story \in Story /\ pc = "security"
  BY InHandFields DEF SecurityReview, Running, IInv
<1>2. /\ UNCHANGED <<queue, phase, ended, todo, verdictSeen>> /\ pc' \in {"security", "merge"}
      /\ phase \in {"drain1", "drain2"}
      /\ \/ UNCHANGED <<outcome, cur>>
         \/ /\ outcome' = [outcome EXCEPT ![cur.story] = "blocked"]
            /\ cur' = [cur EXCEPT !.tag = "reject"]
  BY DEF SecurityReview, Running, Draining, seen
<1>3. cur'.kind = cur.kind /\ cur'.story = cur.story /\ [cur EXCEPT !.tag = "reject"].tag = "reject"
  BY <1>1, <1>2 DEF StoryEvent
<1>4. OneVerdict'
  BY <1>1, <1>2, <1>3 DEF Stands, OneVerdict, Queued
<1>5. Fresh'
  BY <1>2 DEF Stands, Fresh, Queued
<1>6. \A s \in Story : s # cur.story => outcome'[s] = outcome[s]
  BY <1>1, <1>2 DEF IInv, TypeOK
<1>7. ApproveGood'
  <2>1. ~ApproveIn(queue, cur.story)
    BY <1>1, ApproveMoves DEF Stands, OneVerdict, Queued, IInv, TypeOK
  <2>2. CASE UNCHANGED <<outcome, cur>>
    BY <1>1, <1>2, <2>2 DEF Stands, ApproveGood
  <2>3. CASE cur' = [cur EXCEPT !.tag = "reject"]
    BY <1>2, <1>3, <1>6, <2>1, <2>3 DEF Stands, ApproveGood
  <2> QED BY <1>2, <2>2, <2>3
<1>8. AgainstIsSeen'
  BY <1>1, <1>2, <1>3, <1>6 DEF Stands, AgainstIsSeen, Queued, InHandOf
<1> QED BY <1>4, <1>5, <1>7, <1>8 DEF Stands

\* The merge announces, and is done with the verdict in hand.
LEMMA MergeStands == ASSUME IInv, PhasesOver, Stands, MergeConflict \/ Merge PROVE Stands'
<1>1. cur.kind = "verdict" /\ pc = "merge"
  BY InHandFields, MergeMoves DEF MergeConflict, Merge, Announce, Running, IInv
<1>2. /\ UNCHANGED <<ended, todo, verdictSeen, outcome>> /\ phase \in {"drain1", "drain2"}
      /\ \E k \in {"skipped", "merged"} : \E t : queue' = Append(queue, Ev(k, cur.story, t))
      /\ pc' \in {"end", "idle"}
      /\ pc' = "end" => UNCHANGED <<phase, cur>>
      /\ pc' = "idle" => phase' = "crashed"
  BY MergeMoves DEF MergeConflict, Merge, Announce, Running, Draining, seen
<1>3. \E e : e.kind \notin {"verdict", "completed"} /\ queue' = Append(queue, e)
  BY <1>2, EvKind
<1>4. /\ OneVerdictIn(queue')
      /\ \A s : QueuedIn(queue', "verdict", s) <=> QueuedIn(queue, "verdict", s)
      /\ \A s : QueuedIn(queue', "completed", s) <=> QueuedIn(queue, "completed", s)
      /\ \A s : ApproveIn(queue', s) => ApproveIn(queue, s)
  BY <1>3, QuietQueue DEF Stands, OneVerdict, IInv, TypeOK
<1>5. OneVerdict' /\ ApproveGood'
  BY <1>2, <1>4 DEF Stands, OneVerdict, ApproveGood
<1>6. Fresh'
  BY <1>2, <1>4 DEF Stands, Fresh, Queued
<1>7. AgainstIsSeen'
  BY <1>1, <1>2, <1>4 DEF Stands, AgainstIsSeen, Queued, InHandOf
<1> QED BY <1>5, <1>6, <1>7 DEF Stands

\* The review of a story's only completion: no verdict of it is queued, and
\* the one it queues says what was decided.
LEMMA ReviewStandsStep == ASSUME IInv, PhasesOver, Stands, CodeReview PROVE Stands'
<1> DEFINE s == cur.story
<1>1. cur.kind = "completed" /\ s \in Story /\ pc = "review" /\ queue \in Seq(Event)
  BY InHandFields DEF CodeReview, Running, IInv, TypeOK
<1>2. /\ UNCHANGED <<phase, ended, todo, verdictSeen, cur>> /\ phase \in {"drain1", "drain2"}
      /\ \/ UNCHANGED <<queue, outcome, pc>>
         \/ /\ queue' = queue /\ pc' = "end"
            /\ \E why \in {"error", "compliance"} : outcome' = [outcome EXCEPT ![s] = why]
         \/ /\ pc' = "end"
            /\ \E v : queue' = Append(queue, Ev("verdict", s, v)) /\ outcome' = [outcome EXCEPT ![s] = v]
  BY DEF CodeReview, Running, Draining, seen
<1>3. ~QueuedIn(queue, "verdict", s) /\ ~QueuedIn(queue, "completed", s)
  BY <1>1 DEF Stands, OneVerdict, Queued, IInv, CompletedOnce, InReview, QueuedIn
<1>4. \A r \in Story : r # s => outcome'[r] = outcome[r]
  BY <1>1, <1>2 DEF IInv, TypeOK
<1>5. CASE UNCHANGED <<queue, outcome, pc>>
  BY <1>2, <1>5 DEF Stands, OneVerdict, Fresh, ApproveGood, AgainstIsSeen, Queued, InHandOf
<1>6. ASSUME queue' = queue, pc' = "end", NEW why \in {"error", "compliance"},
             outcome' = [outcome EXCEPT ![s] = why]
      PROVE  Stands'
  <2>1. \A r \in Story : outcome'[r] \in Against => outcome[r] \in Against
    BY <1>6 DEF Against, IInv, TypeOK
  <2> QED
    BY <1>1, <1>2, <1>6, <2>1
       DEF Stands, OneVerdict, Fresh, ApproveGood, AgainstIsSeen, Queued, InHandOf
<1>7. ASSUME pc' = "end", NEW v, queue' = Append(queue, Ev("verdict", s, v)),
             outcome' = [outcome EXCEPT ![s] = v]
      PROVE  Stands'
  <2> DEFINE e == Ev("verdict", s, v)
  <2>1. e.kind = "verdict" /\ e.story = s /\ e.tag = v /\ queue' = Append(queue, e)
    BY <1>7 DEF Ev
  <2>2. outcome'[s] = v
    BY <1>1, <1>7 DEF IInv, TypeOK
  <2> HIDE DEF e
  <2>3. OneVerdict'
    BY <1>1, <1>3, <1>7, <2>1, OneVerdictAppend DEF Stands, OneVerdict
  <2>4. \A k, r : QueuedIn(queue', k, r) <=> QueuedIn(queue, k, r) \/ (k = "verdict" /\ r = s)
    BY <1>1, <2>1, QueuedAppend
  <2>5. Fresh'
    BY <1>1, <1>2, <2>4 DEF Stands, Fresh, Queued, IInv, RunningUndecided
  <2>6. ApproveGood'
    <3> SUFFICES ASSUME NEW r \in Story, ApproveIn(queue', r) PROVE outcome'[r] \notin Against
      BY <1>7 DEF ApproveGood
    <3>1. CASE r = s
      <4>1. ~ApproveIn(queue, s)
        BY <1>1, <1>3, ApproveMoves
      <4>2. e.tag = "approve"
        BY <1>1, <2>1, <3>1, <4>1, ApproveMoves
      <4> QED BY <2>1, <2>2, <3>1, <4>2 DEF Against
    <3>2. CASE r # s
      BY <1>1, <1>4, <2>1, <3>2, ApproveMoves DEF Stands, ApproveGood
    <3> QED BY <3>1, <3>2
  <2>7. AgainstIsSeen'
    BY <1>1, <1>2, <1>4, <2>4 DEF Stands, AgainstIsSeen, Queued, InHandOf
  <2> QED BY <2>3, <2>5, <2>6, <2>7 DEF Stands
<1> QED BY <1>2, <1>5, <1>6, <1>7

LEMMA DequeueStands == ASSUME IInv, PhasesOver, Stands, Dequeue PROVE Stands'
<1> DEFINE h == Head(queue)
<1>1. /\ queue \in Seq(Event) /\ queue # <<>> /\ queue' = Tail(queue) /\ cur' = h /\ pc = "idle"
      /\ UNCHANGED <<phase, ended, todo, verdictSeen, outcome>> /\ phase \in {"drain1", "drain2"}
      /\ pc' \in {"stage5", "security", "end"}
      /\ pc' = "stage5" => h.kind = "completed"
      /\ pc' = "security" => h.kind = "verdict"
      /\ h \in Event
  BY DEF Dequeue, IInv, TypeOK, Draining, result, seen
<1>2. OneVerdictIn(queue') /\ (pc' # "end" => ~QueuedIn(queue', "verdict", h.story))
  BY <1>1, OneVerdictTail DEF Stands, OneVerdict
<1>3. \A k, s : QueuedIn(queue, k, s) <=> (h.kind = k /\ h.story = s) \/ QueuedIn(queue', k, s)
  BY <1>1, QueuedTail
<1>4. OneVerdict'
  BY <1>1, <1>2 DEF OneVerdict, Queued
<1>5. Fresh'
  BY <1>1, <1>3 DEF Stands, Fresh, Queued
<1>6. ApproveGood'
  <2>1. \A s : ApproveIn(queue', s) => ApproveIn(queue, s)
    BY <1>1, ApproveMoves
  <2>2. pc' = "security" => h.story \in Story
    BY <1>1, EventFields DEF StoryEvent
  <2>3. pc' = "security" /\ h.tag = "approve" => ApproveIn(queue, h.story)
    BY <1>1, ApproveMoves
  <2> QED BY <1>1, <2>1, <2>2, <2>3 DEF Stands, ApproveGood
<1>7. AgainstIsSeen'
  BY <1>1, <1>3 DEF Stands, AgainstIsSeen, Queued, InHandOf
<1> QED BY <1>4, <1>5, <1>6, <1>7 DEF Stands

LEMMA ReturnStands == ASSUME IInv, PhasesOver, Stands, Return PROVE Stands'
<1>1. /\ pc = "end" /\ pc' = "idle" /\ UNCHANGED <<phase, ended, todo, outcome, queue>>
      /\ verdictSeen' = IF cur.kind = "verdict" /\ phase = "drain1"
                        THEN verdictSeen \cup {cur.story} ELSE verdictSeen
      /\ phase # "reconcile"
  BY DEF Return, result, PhasesOver
<1>2. OneVerdict' /\ Fresh' /\ ApproveGood'
  BY <1>1 DEF Stands, OneVerdict, Fresh, ApproveGood, Queued
<1>3. AgainstIsSeen'
  BY <1>1 DEF Stands, AgainstIsSeen, Queued, InHandOf
<1> QED BY <1>2, <1>3 DEF Stands

\* A runner that could not clean up approves, and then completes.
LEMMA WorkerEndStands ==
  ASSUME IInv, PhasesOver, Stands, NEW s \in Story, TailAndEmitCompletion(s) PROVE Stands'
<1>1. /\ UNCHANGED <<phase, pc, cur, outcome, todo, verdictSeen>> /\ phase = "work" /\ pc = "idle"
      /\ queue \in Seq(Event) /\ ended[s] = "running" /\ ended'[s] # "running"
      /\ \A r \in Story : r # s => ended'[r] = ended[r]
  BY DEF TailAndEmitCompletion, result, seen, IInv, TypeOK, PhasesOver
<1>2. ~QueuedIn(queue, "verdict", s) /\ ~QueuedIn(queue, "completed", s)
  BY <1>1 DEF Stands, Fresh, Queued
<1>3. OneVerdictIn(queue')
  <2>1. \/ queue' = Append(queue, Other)
        \/ queue' = queue \o << Ev("verdict", s, "approve"), Ev("completed", s, "success") >>
        \/ \E t \in {"success", "overridden"} : queue' = Append(queue, Ev("completed", s, t))
    BY DEF TailAndEmitCompletion
  <2>2. CASE queue' = Append(queue, Other)
    BY <1>1, <2>2, OneVerdictAppend, OtherKind DEF Stands, OneVerdict
  <2>3. ASSUME NEW t, queue' = Append(queue, Ev("completed", s, t)) PROVE OneVerdictIn(queue')
    <3>1. Ev("completed", s, t).kind # "verdict"
      BY EvKind
    <3> QED BY <1>1, <2>3, <3>1, OneVerdictAppend DEF Stands, OneVerdict
  <2>4. CASE queue' = queue \o << Ev("verdict", s, "approve"), Ev("completed", s, "success") >>
    <3> DEFINE v == Ev("verdict", s, "approve")
               c == Ev("completed", s, "success")
    <3>1. v \in Event /\ c \in Event /\ v.kind = "verdict" /\ v.story = s /\ c.kind = "completed"
      BY EventsTyped, EvKind DEF Tag, Verdict
    <3>2. queue' = queue \o <<v, c>>
      BY <2>4
    <3> HIDE DEF v, c
    <3>3. queue' = Append(Append(queue, v), c) /\ Append(queue, v) \in Seq(Event)
      BY <1>1, <3>1, <3>2
    <3>4. OneVerdictIn(Append(queue, v))
      BY <1>1, <1>2, <3>1, OneVerdictAppend DEF Stands, OneVerdict
    <3> QED BY <3>1, <3>3, <3>4, OneVerdictAppend
  <2> QED BY <2>1, <2>2, <2>3, <2>4
<1>4. OneVerdict'
  BY <1>1, <1>3 DEF OneVerdict
<1>5. Fresh'
  BY <1>1, TailQueues DEF Stands, Fresh, Queued, IInv
<1>6. ApproveGood' /\ AgainstIsSeen'
  BY <1>1 DEF Stands, Fresh, ApproveGood, AgainstIsSeen, Against
<1> QED BY <1>4, <1>5, <1>6 DEF Stands

\* Reconcile approves what no verdict was seen of; what was decided against has one.
LEMMA ReconcileStands ==
  ASSUME IInv, PhasesOver, Stands, NEW s \in Story, Reconcile(s) PROVE Stands'
<1>1. /\ UNCHANGED <<phase, ended, pc, cur, outcome, verdictSeen>> /\ phase = "reconcile" /\ pc = "idle"
      /\ queue \in Seq(Event) /\ s \in todo /\ todo' = todo \ {s}
      /\ \A r \in Story : ended[r] # "running"
  BY DEF Reconcile, seen, PhasesOver, IInv, TypeOK, RunningUndecided
<1>2. CASE queue' = queue \/ \E r : queue' = Append(queue, Ev("skipped", s, r))
  <2>1. queue' = queue \/ \E e : e.kind \notin {"verdict", "completed"} /\ queue' = Append(queue, e)
    BY <1>2, EvKind
  <2>2. /\ OneVerdictIn(queue')
        /\ \A r : QueuedIn(queue', "verdict", r) <=> QueuedIn(queue, "verdict", r)
        /\ \A r : QueuedIn(queue', "completed", r) <=> QueuedIn(queue, "completed", r)
        /\ \A r : ApproveIn(queue', r) => ApproveIn(queue, r)
    BY <1>1, <2>1, QuietQueue DEF Stands, OneVerdict
  <2> QED
    BY <1>1, <2>2 DEF Stands, OneVerdict, Fresh, ApproveGood, AgainstIsSeen, Queued, InHandOf
<1>3. CASE s \notin verdictSeen /\ queue' = Append(queue, Ev("verdict", s, "approve"))
  <2> DEFINE e == Ev("verdict", s, "approve")
  <2>1. e.kind = "verdict" /\ e.story = s /\ queue' = Append(queue, e)
    BY <1>3, EvKind
  <2> HIDE DEF e
  <2>2. ~QueuedIn(queue, "verdict", s) /\ ~QueuedIn(queue, "completed", s)
    BY <1>1 DEF Stands, Fresh, Queued
  <2>3. OneVerdict'
    BY <1>1, <2>1, <2>2, OneVerdictAppend DEF Stands, OneVerdict
  <2>4. \A k, r : QueuedIn(queue', k, r) <=> QueuedIn(queue, k, r) \/ (k = "verdict" /\ r = s)
    BY <1>1, <2>1, QueuedAppend
  <2>5. Fresh'
    BY <1>1, <2>4 DEF Stands, Fresh, Queued
  <2>6. outcome[s] \notin Against
    BY <1>1, <1>3, <2>2 DEF Stands, AgainstIsSeen, Queued, InHandOf
  <2>7. \A r : ApproveIn(queue', r) => ApproveIn(queue, r) \/ r = s
    BY <1>1, <2>1, ApproveMoves
  <2>8. ApproveGood' /\ AgainstIsSeen'
    BY <1>1, <2>4, <2>6, <2>7 DEF Stands, ApproveGood, AgainstIsSeen, Queued, InHandOf
  <2> QED BY <2>3, <2>5, <2>8 DEF Stands
<1> QED BY <1>2, <1>3 DEF Reconcile, Surfaced

LEMMA PhaseStands ==
  ASSUME IInv, PhasesOver, Stands, taken < MaxDrain,
         Noise \/ WaveBoundary \/ StartReconcile \/ StartDrain2 \/ PilotDone
  PROVE  Stands'
<1>1. /\ UNCHANGED <<ended, pc, cur, outcome, verdictSeen>> /\ queue \in Seq(Event) /\ pc = "idle"
      /\ queue' = queue \/ queue' = Append(queue, Other)
  BY DEF Noise, WaveBoundary, StartReconcile, StartDrain2, PilotDone, result, seen, IInv, TypeOK,
     PhasesOver, DrainEnded
<1>2. queue' = queue \/ \E e : e.kind \notin {"verdict", "completed"} /\ queue' = Append(queue, e)
  BY <1>1, OtherKind
<1>3. /\ OneVerdictIn(queue')
      /\ \A s : QueuedIn(queue', "verdict", s) <=> QueuedIn(queue, "verdict", s)
      /\ \A s : QueuedIn(queue', "completed", s) <=> QueuedIn(queue, "completed", s)
      /\ \A s : ApproveIn(queue', s) => ApproveIn(queue, s)
  BY <1>1, <1>2, QuietQueue DEF Stands, OneVerdict
<1>4. OneVerdict' /\ ApproveGood'
  BY <1>1, <1>3 DEF Stands, OneVerdict, ApproveGood
\* A drain below its cap has ended because the queue was empty.
<1>5. StartReconcile => queue' = <<>>
  BY PipelineAssumption DEF StartReconcile, DrainEnded, IInv, TypeOK
<1>6. phase' = "work" => phase = "work"
  BY DEF Noise, WaveBoundary, StartReconcile, StartDrain2, PilotDone
<1>7. phase' = "reconcile" => queue' = <<>>
  BY <1>5 DEF Noise, WaveBoundary, StartReconcile, StartDrain2, PilotDone
<1>8. Fresh'
  <2>1. queue' = <<>> => \A k, s : ~QueuedIn(queue', k, s)
    BY DEF QueuedIn
  <2> QED BY <1>1, <1>3, <1>6, <1>7, <2>1 DEF Stands, Fresh, Queued
<1>9. AgainstIsSeen'
  <2>1. phase' \in {"drain1", "reconcile"} => phase \in {"work", "drain1"}
    BY DEF Noise, WaveBoundary, StartReconcile, StartDrain2, PilotDone
  <2>2. CASE phase = "work"
    BY <1>1, <2>2 DEF Stands, Fresh, AgainstIsSeen, Against
  <2>3. CASE phase = "drain1"
    BY <1>1, <1>3, <2>3 DEF Stands, AgainstIsSeen, Queued, InHandOf
  <2> QED BY <2>1, <2>2, <2>3 DEF AgainstIsSeen
<1> QED BY <1>4, <1>8, <1>9 DEF Stands

LEMMA StandsStep ==
  ASSUME IInv, PhasesOver, Stands, taken < MaxDrain, [Next]_vars PROVE Stands'
<1>1. CASE Terminated \/ UNCHANGED vars
  BY <1>1 DEF Terminated, vars, result, seen, Stands, OneVerdict, Fresh, ApproveGood, AgainstIsSeen,
     Queued, InHandOf
<1> QED
  BY <1>1, GateStands, SecurityStands, MergeStands, ReviewStandsStep, DequeueStands, ReturnStands,
     WorkerEndStands, ReconcileStands, PhaseStands DEF Next, Pilot

\* While no drain stops at its cap, a story whose last decision was a reject, a
\* request for changes or a security block is not merged: neither by an approve
\* queued before it nor by reconcile's.
THEOREM DecisionsStand == Spec /\ [](taken < MaxDrain) => ReviewStands
<1>1. Init => IInv /\ PhasesOver /\ Stands
  <2> SUFFICES ASSUME Init PROVE IInv /\ PhasesOver /\ Stands
    OBVIOUS
  <2>1. IInv
    BY InitTypeOK DEF Init, IInv, CompletedOnce, WaitingUndecided, RunningUndecided,
       InHandUndecided, InReview, Undecided
  <2>2. PhasesOver
    BY DEF Init, PhasesOver
  <2>3. Stands
    BY DEF Init, Stands, OneVerdict, OneVerdictIn, Fresh, ApproveGood, ApproveIn, AgainstIsSeen,
       Queued, QueuedIn, Against
  <2> QED BY <2>1, <2>2, <2>3
<1>2. IInv /\ PhasesOver /\ Stands /\ taken < MaxDrain /\ [Next]_vars => (PhasesOver /\ Stands)'
  BY PhasesStep, StandsStep DEF IInv
<1>3. IInv /\ Stands /\ [Next]_vars =>
        [\A s \in Story : Merges(s) => outcome[s] \notin Against]_vars
  <2> SUFFICES ASSUME IInv, Stands, [Next]_vars, NEW s \in Story, Merges(s)
               PROVE  outcome[s] \notin Against
    OBVIOUS
  <2>1. CASE Merge
    BY <2>1 DEF Merge, Announce, Running, Merges, Stands, ApproveGood
  <2>2. CASE ~Merge
    BY <2>2 DEF Next, Pilot, Terminated, vars, result, Merges, TailAndEmitCompletion, Reconcile,
       Noise, WaveBoundary, Dequeue, Return, Stage5Completeness, BuildCheck, DeletionSafety,
       HaltStory, SkipReview, CodeReview, SkipSecurity, SecurityReview, RefuseMerge, MergeConflict,
       StartReconcile, StartDrain2, PilotDone
  <2> QED BY <2>1, <2>2
<1>4. ReviewStands <=> [][\A s \in Story : Merges(s) => outcome[s] \notin Against]_vars
  BY DEF ReviewStands, Against
<1> QED BY <1>1, <1>2, <1>3, <1>4, SpecIInv, PTL DEF Spec
=============================================================================
