------------------------------ MODULE Lifecycle ------------------------------
(***************************************************************************)
(* run_orchestrator (agent/run.py): the tasks alive are noted, the pilot   *)
(* runs and starts tasks of its own, the bus's backstop among them, and    *)
(* _shutdown_orchestrator ends what the run has started.  A task that is   *)
(* cancelled is told so when the asyncio loop resumes it; it may take no   *)
(* notice, as the backstop does inside its loop, or end later.             *)
(***************************************************************************)
EXTENDS Naturals

CONSTANTS Bg,         \* tasks besides the pilot's and the backstop
          MaxWakeups  \* bound of the model: SCHEDULED_WAKEUPs looked at

ASSUME LifecycleAssumption == MaxWakeups \in Nat

VARIABLES
  pilot,    \* "running", "stopping" (it awaits the backstop), "waiting" (for
            \* those it cancelled), "returned", "raised"
  task,     \* each of the others: "absent", "running", "ended"
  before,   \* those that were there before the run
  backstop, \* "none", "asleep", "ended"
  stopped,  \* the bus's _stopped
  told,     \* cancelled and not resumed since
  asked,    \* those shutdown has cancelled
  wakeups   \* SCHEDULED_WAKEUPs emitted

lifeVars == <<pilot, task, before, backstop, stopped, told, asked, wakeups>>

Alive == {t \in Bg : task[t] = "running"}

LifeInit ==
  /\ task \in [Bg -> {"absent", "running"}] /\ before = Alive
  /\ pilot = "running" /\ backstop = "none" /\ stopped = FALSE
  /\ told = {} /\ asked = {} /\ wakeups = 0

-----------------------------------------------------------------------------
\* start_backstop_task: of a real pilot; one at a time.
StartBackstop ==
  /\ pilot = "running" /\ backstop # "asleep" /\ backstop' = "asleep"
  /\ UNCHANGED <<pilot, task, before, stopped, told, asked, wakeups>>

\* The pilot or any other task starts one, the caller's among them.
Begin(t) ==
  /\ pilot = "running" \/ Alive # {}
  /\ task[t] = "absent" /\ task' = [task EXCEPT ![t] = "running"]
  /\ UNCHANGED <<pilot, before, backstop, stopped, told, asked, wakeups>>

End(t) ==
  /\ task[t] = "running" /\ task' = [task EXCEPT ![t] = "ended"] /\ told' = told \ {t}
  /\ UNCHANGED <<pilot, before, backstop, stopped, asked, wakeups>>

\* Its cancellation reaches a task that catches it and goes on.
Swallow(t) ==
  /\ t \in told /\ told' = told \ {t}
  /\ UNCHANGED <<pilot, task, before, backstop, stopped, asked, wakeups>>

\* The interval is over: an event is emitted, which does not suspend.
Wakeup ==
  /\ backstop = "asleep" /\ ~stopped /\ wakeups < MaxWakeups /\ wakeups' = wakeups + 1
  /\ UNCHANGED <<pilot, task, before, backstop, stopped, told, asked>>

\* The bus was stopped, or the backstop was cancelled, which its loop swallows
\* to look at _stopped again.
BackstopWakes ==
  /\ stopped \/ "backstop" \in told
  /\ backstop = "asleep" /\ backstop' = IF stopped THEN "ended" ELSE "asleep"
  /\ told' = told \ {"backstop"}
  /\ UNCHANGED <<pilot, task, before, stopped, asked, wakeups>>

\* The options or the pilot raise; nothing shuts the run down then.
Raises ==
  /\ pilot = "running" /\ pilot' = "raised"
  /\ UNCHANGED <<task, before, backstop, stopped, told, asked, wakeups>>

\* Mutant: the backstop is cancelled and waited for before the bus is stopped.
StopUnsaid ==
  /\ pilot = "running" /\ pilot' = "stopping"
  /\ told' = told \cup (IF backstop = "asleep" THEN {"backstop"} ELSE {})
  /\ UNCHANGED <<task, before, backstop, stopped, asked, wakeups>>

\* The pilot has returned; EventLoop.stop up to its await.
Stop ==
  /\ pilot = "running" /\ pilot' = "stopping" /\ stopped' = TRUE
  /\ told' = told \cup (IF backstop = "asleep" THEN {"backstop"} ELSE {})
  /\ UNCHANGED <<task, before, backstop, asked, wakeups>>

\* Everything the run has started, and those its callers started meanwhile.
Leftover == Alive \ before

Sweep ==
  /\ pilot = "stopping" /\ backstop # "asleep" /\ backstop' = "none"
  /\ asked' = Leftover /\ told' = told \cup Leftover
  /\ pilot' = IF Leftover = {} THEN "returned" ELSE "waiting"
  /\ UNCHANGED <<task, before, stopped, wakeups>>

\* All have ended, or ORCHESTRATOR_SHUTDOWN_TIMEOUT_S have passed.
Waited ==
  /\ pilot = "waiting" /\ pilot' = "returned"
  /\ UNCHANGED <<task, before, backstop, stopped, told, asked, wakeups>>

LifeNext ==
  \/ StartBackstop \/ Wakeup \/ BackstopWakes \/ Raises \/ Stop \/ Sweep \/ Waited
  \/ \E t \in Bg : Begin(t) \/ End(t) \/ Swallow(t)

LifeSpec == LifeInit /\ [][LifeNext]_lifeVars

\* asyncio resumes a task that can go on; timers fire.  Nothing obliges a
\* cancelled task to end.
LifeFairSpec ==
  LifeSpec /\ WF_lifeVars(BackstopWakes) /\ WF_lifeVars(Sweep) /\ WF_lifeVars(Waited)

-----------------------------------------------------------------------------
\* Once the pilot is done run_orchestrator returns, whoever takes no notice of
\* being cancelled, and every task its run has started until then, also while
\* the bus was being stopped, has ended or has been told to; a task of the
\* caller's that was there before is never told (_shutdown_orchestrator).
ShutdownReturns ==
  /\ (pilot = "stopping") ~> (pilot = "returned")
  /\ \A t \in Bg :
       /\ (pilot = "stopping" /\ t \in Alive \ before) ~> (pilot = "returned" /\ (t \in asked \/ t \notin Alive))
       /\ [](t \in before => t \notin asked)

=============================================================================
