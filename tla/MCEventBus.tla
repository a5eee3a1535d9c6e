----------------------------- MODULE MCEventBus -----------------------------
(***************************************************************************)
(* What must end or be answered: the bus, the run that starts and stops    *)
(* it, and the tail of a pilot with one story.  They share no state but    *)
(* the bus's own stop, so they are explored side by side: part says which  *)
(* of the three moves, and the others rest in an initial state.            *)
(***************************************************************************)
EXTENDS EventBus, Lifecycle

CONSTANTS t1, t2, c1, x, y, z, s1, None

VARIABLES part,
          phase, ended, log, head, unsafe, dirty, gone, rooted, pilotQueue,
          inHand, pc, attempt, dispatched, noise, outcome, cleared, integrated,
          humans, skipped, todo, rescued, verdictSeen, mergedSeen, skipReason

Gates == INSTANCE MergePipeline WITH
  Story <- {s1}, Critical <- {s1}, ByDiff <- {}, SecurityOn <- TRUE, ReviewRetry <- 1,
  SecRetry <- 1, MaxDrain <- 12, MaxNoise <- 1,
  queue <- pilotQueue, cur <- inHand, taken <- dispatched, asked <- humans

gateVars == <<phase, ended, log, head, unsafe, dirty, gone, rooted, pilotQueue,
              inHand, pc, attempt, dispatched, noise, outcome, cleared, integrated,
              humans, skipped, todo, rescued, verdictSeen, mergedSeen, skipReason>>
loopVars == <<part, vars, lifeVars, gateVars>>

LoopInit == /\ part \in {"bus", "run", "pilot"} /\ Init /\ LifeInit /\ Gates!Init
            /\ part # "run" => before = {}
            /\ part # "pilot" => rooted

BusStep(A)   == part = "bus" /\ A /\ UNCHANGED <<part, lifeVars, gateVars>>
RunStep(A)   == part = "run" /\ A /\ UNCHANGED <<part, vars, gateVars>>
PilotStep(A) == part = "pilot" /\ A /\ UNCHANGED <<part, vars, lifeVars>>

LoopNext ==
  \/ part = "bus" /\ Next /\ UNCHANGED <<part, lifeVars, gateVars>>
  \/ part = "run" /\ LifeNext /\ UNCHANGED <<part, vars, gateVars>>
  \/ part = "pilot" /\ Gates!Next /\ UNCHANGED <<part, vars, lifeVars>>

\* The fairness of the three specifications.
LoopSpec ==
  /\ LoopInit /\ [][LoopNext]_loopVars
  /\ \A t \in Task : WF_loopVars(BusStep(Dispatch(t)))
  /\ WF_loopVars(RunStep(BackstopWakes)) /\ WF_loopVars(RunStep(Sweep)) /\ WF_loopVars(RunStep(Waited))
  /\ WF_loopVars(PilotStep(Gates!Pilot))

\* The tail of the pilot ends however often reviewers fail (MergePipeline).
PilotEnds == part = "pilot" => Gates!PilotEnds
=============================================================================
