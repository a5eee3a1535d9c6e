-------------------------------- MODULE Flows --------------------------------
(***************************************************************************)
(* The BMad workflows that are run beside the stories: retrospective,      *)
(* correct-course, investigate, sprint-planning (agent/tools), asked for   *)
(* by the agent or by an event (runtime/phase4_subscribers.py).  Each has  *)
(* an artifact: a mock writes a seed where there is none, a real one is a  *)
(* child, claude -p, that a background task of the loop watches.  A wave   *)
(* is over by what sprint-status and the retrospective's text say          *)
(* (agent/memory/gates.py, levels.py).                                     *)
(***************************************************************************)
EXTENDS Naturals

CONSTANTS FlowChild, \* children ever started
          Asks,      \* what is asked of a workflow, as an event's payload says it
          Enough,    \* RETRO_MIN_BODY_CHARS, in seeds: a seed's text is not enough
          MaxText    \* bound of the model: text of others than the seed

ASSUME FlowsAssumption == Enough \in Nat \ {0, 1} /\ MaxText \in Nat

VARIABLES
  setup,    \* claude is installed, auto_init_sprint_status is set, what epics.md is like
  artifact, \* there; and of the retrospective, which is read, its front
            \* (matter), the seed's text, the text of others
  stories,  \* sprint-status: "none", "open", "done"
  seeding,  \* the workflow whose seed is about to be written
  kid,      \* the children: of which workflow, and "none", "running", "gone"
  watch,    \* the task that waits for each: "none", "waiting", "over"
  looping,  \* the loop runs
  overtime, \* children journalled as subprocess_timeout
  boundary  \* what detect_wave_boundary has answered last, and to what

flowVars == <<setup, artifact, stories, seeding, kid, watch, looping, overtime, boundary>>

Flow == {"retro", "course", "investigate", "planning"}
Artifact(front0, seed0, own0) == [there |-> TRUE, front |-> front0, seed |-> seed0, own |-> own0]
SeedOf(f) == IF f = "retro" THEN Artifact(TRUE, 1, 0) ELSE Artifact(FALSE, 0, 0)
Texts(f) == IF f = "retro" THEN {Artifact(front0, 0, n) : front0 \in BOOLEAN, n \in 0..MaxText}
            ELSE {Artifact(FALSE, 0, 0)}
NoArtifact == [there |-> FALSE, front |-> FALSE, seed |-> 0, own |-> 0]

FlowsInit ==
  /\ setup \in [claude : BOOLEAN, auto : BOOLEAN, epics : {"missing", "no epics", "no stories", "fine"}]
  /\ artifact = [f \in Flow |-> NoArtifact] /\ stories = "none" /\ seeding = "none"
  /\ kid = [c \in FlowChild |-> [flow |-> "none", at |-> "none"]]
  /\ watch = [c \in FlowChild |-> "none"]
  /\ looping = TRUE /\ overtime = {}
  /\ boundary = [complete |-> FALSE, stories |-> "none", retro |-> NoArtifact]

-----------------------------------------------------------------------------
\* A failure is investigated that recurs or is of no known kind.
ShouldInvestigate(a) == a.retries >= 3 \/ a.unclassified

\* Events of the subscribers' own are passed over, and those that lack a field.
Wanted(f, a) ==
  /\ a.said /\ ~a.own
  /\ f = "investigate" => a.force \/ ShouldInvestigate(a)

\* ensure_sprint_status_initialized writes nothing unless it may and can.
CanSeed(f) == f = "planning" => setup.auto /\ setup.epics \notin {"missing", "no epics"}

\* What reads a sprint-status finds in a new one; a seeded story is a mapping,
\* which is no status of a story that is done.
NewStories(f) == IF f # "planning" THEN stories ELSE IF setup.epics = "fine" THEN "open" ELSE "none"

\* The mock looks for the artifact, and writes its seed.
Seed(f) ==
  /\ looping /\ seeding = "none" /\ ~artifact[f].there /\ CanSeed(f)
  /\ \E a \in Asks : ~a.real /\ Wanted(f, a)
  /\ seeding' = f
  /\ UNCHANGED <<setup, artifact, stories, kid, watch, looping, overtime, boundary>>

Seeded ==
  /\ seeding # "none" /\ seeding' = "none"
  /\ artifact' = [artifact EXCEPT ![seeding] = SeedOf(seeding)]
  /\ stories' = NewStories(seeding)
  /\ UNCHANGED <<setup, kid, watch, looping, overtime, boundary>>

\* Sprint-planning is not run where its artifact is, the others any time.
MaySpawn(f) == setup.claude /\ (f = "planning" => ~artifact[f].there)

\* A real one: the child is started, then the task that watches it.
Spawn(f, c) ==
  /\ looping /\ seeding = "none" /\ MaySpawn(f) /\ kid[c].at = "none"
  /\ \E a \in Asks : a.real /\ Wanted(f, a)
  /\ kid' = [kid EXCEPT ![c] = [flow |-> f, at |-> "running"]]
  /\ watch' = [watch EXCEPT ![c] = "waiting"]
  /\ UNCHANGED <<setup, artifact, stories, seeding, looping, overtime, boundary>>

\* The child writes its artifact anew, or some more of it.
ChildWrites(c) ==
  /\ kid[c].at = "running"
  /\ LET f == kid[c].flow
     IN /\ \/ \E text \in Texts(f) : artifact' = [artifact EXCEPT ![f] = text]
           \/ f = "retro" /\ artifact[f].there /\ artifact[f].own < MaxText /\ artifact' = [artifact EXCEPT ![f].own = @ + 1]
        /\ stories' = NewStories(f)
  /\ UNCHANGED <<setup, seeding, kid, watch, looping, overtime, boundary>>

ChildEnds(c) ==
  /\ kid[c].at = "running" /\ kid' = [kid EXCEPT ![c].at = "gone"]
  /\ watch' = [watch EXCEPT ![c] = "over"]
  /\ UNCHANGED <<setup, artifact, stories, seeding, looping, overtime, boundary>>

\* SUBPROCESS_TIMEOUT_SEC have passed: killed, whatever it has written so far.
Overtime(c) ==
  /\ kid[c].at = "running" /\ watch[c] = "waiting" /\ looping /\ seeding = "none"
  /\ kid' = [kid EXCEPT ![c].at = "gone"] /\ watch' = [watch EXCEPT ![c] = "over"]
  /\ overtime' = overtime \cup {c}
  /\ UNCHANGED <<setup, artifact, stories, seeding, looping, boundary>>

\* The loop is closed, in a command as soon as its event is dispatched: the
\* watching tasks are cancelled, which kills no child, though asyncio may when
\* it drops the pipes.
LoopEnds ==
  /\ looping /\ seeding = "none" /\ looping' = FALSE
  /\ watch' = [c \in FlowChild |-> IF watch[c] = "waiting" THEN "over" ELSE watch[c]]
  /\ \E killed \in SUBSET {c \in FlowChild : kid[c].at = "running"} :
       kid' = [c \in FlowChild |-> IF c \in killed THEN [kid[c] EXCEPT !.at = "gone"] ELSE kid[c]]
  /\ UNCHANGED <<setup, artifact, stories, seeding, overtime, boundary>>

\* write_memory: the agent's own hand on the retrospective.
WriteMemory ==
  /\ looping /\ seeding = "none"
  /\ \/ artifact["retro"].own < MaxText /\ artifact' = [artifact EXCEPT !["retro"].own = @ + 1, !["retro"].there = TRUE]
     \/ \E text \in Texts("retro") : artifact' = [artifact EXCEPT !["retro"] = text]
  /\ UNCHANGED <<setup, stories, seeding, kid, watch, looping, overtime, boundary>>

\* The pilot marks the stories, or somebody takes one up again.
StoriesGo ==
  /\ stories # "none" /\ stories' \in {"open", "done"} \ {stories}
  /\ UNCHANGED <<setup, artifact, seeding, kid, watch, looping, overtime, boundary>>

\* Mutant: a retrospective that is not empty is done.
HasText(r) == r.there /\ r.front /\ r.seed + r.own > 0

\* has_valid_retro_schema.
IsRetroDone(r) == r.there /\ r.front /\ r.seed + r.own >= Enough

DetectBoundary ==
  /\ looping /\ seeding = "none"
  /\ boundary' = [complete |-> stories = "done" /\ IsRetroDone(artifact["retro"]),
                stories |-> stories, retro |-> artifact["retro"]]
  /\ UNCHANGED <<setup, artifact, stories, seeding, kid, watch, looping, overtime>>

FlowsNext ==
  \/ Seeded \/ LoopEnds \/ WriteMemory \/ StoriesGo \/ DetectBoundary
  \/ \E f \in Flow : Seed(f) \/ \E c \in FlowChild : Spawn(f, c)
  \/ \E c \in FlowChild : ChildWrites(c) \/ ChildEnds(c) \/ Overtime(c)

FlowsSpec == FlowsInit /\ [][FlowsNext]_flowVars

-----------------------------------------------------------------------------
\* Whoever writes the retrospective and whenever it is seeded, begun anew, cut
\* short or killed: a wave is answered to be complete only when its stories are
\* done and its retrospective has text that is not the seed's
\* (detect_wave_boundary, is_retro_done).
SeedIsNoRetro ==
  boundary.complete => boundary.stories = "done" /\ boundary.retro.front /\ boundary.retro.own > 0

=============================================================================
