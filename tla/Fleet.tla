-------------------------------- MODULE Fleet --------------------------------
(***************************************************************************)
(* Orchestrator processes of one machine: bmad-orchestrator run, which     *)
(* first kills what runs for the same project (agent/run.py), and          *)
(* bmad-orchestrator multi, whose child processes run one project each and *)
(* hand what they have spent back in a file (runtime/multi_run.py,         *)
(* cli/main.py).                                                           *)
(*                                                                         *)
(* A process that is killed leaves its workers behind, as the finally of   *)
(* the pilot does not run; a SIGTERM has no handler and does the same.     *)
(***************************************************************************)
EXTENDS Naturals

CONSTANTS Proc0,      \* processes somebody starts as bmad-orchestrator run
          Child,      \* the processes multi starts, one of each of its projects
          ProjectOf,  \* process -> project
          MaxSpend,   \* bound: units a pilot spends
          DayLimit    \* of multi, shared by its projects

Orch == Proc0 \cup Child

ASSUME FleetAssumption ==
  /\ Proc0 \cap Child = {} /\ MaxSpend \in Nat /\ DayLimit \in Nat

VARIABLES where,      \* process -> where it is
          named,      \* those of Proc0 whose command line names the project (--project)
          hit,        \* process -> the pids pgrep has listed for it
          missed,     \* history: pairs of a process and one its sweep could not look at
          workers,    \* process -> it has workers that live
          charged,    \* process -> spend_carry
          report,     \* process -> what is in its spend report, 0 when there is none
          multi,      \* "off", "running", "over"
          tracker,    \* SharedSpendTracker: the total of the projects
          result      \* child -> spent_usd of its ProjectRunResult, once it has one

fleetVars == <<where, named, hit, missed, workers, charged, report, multi, tracker, result>>

Pending == MaxSpend + 1
Alive(o) == where[o] \in {"started", "listed", "pilot"}

FleetInit ==
  /\ where = [o \in Orch |-> "off"] /\ named = {} /\ hit = [o \in Orch |-> {}] /\ missed = {}
  /\ workers = [o \in Orch |-> FALSE] /\ charged = [o \in Orch |-> 0]
  /\ report = [o \in Orch |-> 0] /\ multi = "off" /\ tracker = 0
  /\ result = [c \in Child |-> Pending]

-----------------------------------------------------------------------------
\* Somebody's bmad-orchestrator run names its project, or leaves it to the
\* configuration.
Launch(o) ==
  /\ where[o] = "off" /\ (o \in Child => multi = "running") /\ where' = [where EXCEPT ![o] = "started"]
  /\ named' \in {named} \cup {named \cup {p} : p \in {o} \cap Proc0}
  /\ UNCHANGED <<hit, missed, workers, charged, report, multi, tracker, result>>

\* The other processes a sweep of o should see, and those it did not look at.
Others(o) == {q \in Proc0 \ {o} : Alive(q)}
Miss(o, unseen) == missed' = missed \cup (({o} \cap Proc0) \X unseen)

\* _kill_stale_orchestrators lists, by pgrep, the processes whose command line
\* holds "bmad-orchestrator run": a child's does not.  A pgrep that is not
\* installed, or takes more than its 5 seconds, counts as one that found none.
List(o) ==
  /\ where[o] = "started" /\ where' = [where EXCEPT ![o] = "listed"]
  /\ \/ hit' = [hit EXCEPT ![o] = Others(o)] /\ Miss(o, {})
     \/ hit' = hit /\ Miss(o, Others(o))
  /\ UNCHANGED <<named, workers, charged, report, multi, tracker, result>>

\* Mutant: _cmdline_matches_project matches no process of the same project.
MatchesOther(q, o) == ProjectOf[q] # ProjectOf[o]

\* _cmdline_matches_project, on what runs under the pid by now: a run that
\* takes its project from the configuration does not match.
Matches(q, o) == Alive(q) /\ q \in named /\ ProjectOf[q] = ProjectOf[o]

\* The next pid of the list.  One whose /proc entry cannot be read is taken for
\* no match, and one that may not be signalled (another user's) is passed over.
KillStale(o) ==
  /\ where[o] = "listed"
  /\ \E q \in hit[o] :
       /\ hit' = [hit EXCEPT ![o] = @ \ {q}]
       /\ \/ where' = (IF Matches(q, o) THEN [where EXCEPT ![q] = "killed"] ELSE where) /\ Miss(o, {})
          \/ UNCHANGED where /\ Miss(o, {q})
  /\ UNCHANGED <<named, workers, charged, report, multi, tracker, result>>

\* detect_sandbox may raise, outside of the try.
BeginPilot(o) ==
  /\ where[o] = "listed" /\ hit[o] = {} /\ where' \in {[where EXCEPT ![o] = s] : s \in {"pilot", "over"}}
  /\ UNCHANGED <<named, hit, missed, workers, charged, report, multi, tracker, result>>

\* A story is charged to the day, and spawned.
Charge(o) ==
  /\ where[o] = "pilot" /\ charged[o] < MaxSpend
  /\ charged' = [charged EXCEPT ![o] = @ + 1] /\ workers' = [workers EXCEPT ![o] = TRUE]
  /\ UNCHANGED <<where, named, hit, missed, report, multi, tracker, result>>

\* The workers of a round, or those a killed process has left, end.
WorkersEnd(o) == /\ workers[o] /\ workers' = [workers EXCEPT ![o] = FALSE]
                 /\ UNCHANGED <<where, named, hit, missed, charged, report, multi, tracker, result>>

\* The pilot returns or raises.  Its finally kills the workers and writes the
\* spend report, if multi has named a file; an OSError is only logged.
EndPilot(o) ==
  /\ where[o] = "pilot" /\ where' = [where EXCEPT ![o] = "over"]
  /\ workers' = [workers EXCEPT ![o] = FALSE]
  /\ \/ report' = [report EXCEPT ![o] = IF o \in Child THEN charged[o] ELSE 0]
     \/ UNCHANGED report
  /\ UNCHANGED <<named, hit, missed, charged, multi, tracker, result>>

-----------------------------------------------------------------------------
\* run_multi: nothing is started when the day is at its limit already.
BeginMulti ==
  /\ multi = "off" /\ multi' = IF DayLimit = 0 THEN "over" ELSE "running"
  /\ UNCHANGED <<where, named, hit, missed, workers, charged, report, tracker, result>>

\* The child has used its time: terminate, and kill after 30 seconds.
TimeOutChild(c) ==
  /\ Alive(c) /\ where' = [where EXCEPT ![c] = "killed"]
  /\ UNCHANGED <<named, hit, missed, workers, charged, report, multi, tracker, result>>

\* SharedSpendTracker.add.
Add(spent) == tracker' = tracker + spent

\* _subprocess_runner reads and removes the report and tells the tracker, whose
\* answer (the day is over) it does not look at.  It may raise before the child
\* is started, or when it waits: _wrap makes a result of that.
Collect(c) ==
  /\ multi = "running" /\ result[c] = Pending
  /\ where[c] \in {"off", "over", "killed"}
  /\ result' = [result EXCEPT ![c] = report[c]] /\ Add(report[c])
  /\ report' = [report EXCEPT ![c] = 0]
  /\ where' = [where EXCEPT ![c] = IF @ = "off" THEN "never" ELSE @]
  /\ UNCHANGED <<named, hit, missed, workers, charged, multi>>

\* gather: all projects have a result.
EndMulti ==
  /\ multi = "running" /\ \A c \in Child : result[c] # Pending /\ multi' = "over"
  /\ UNCHANGED <<where, named, hit, missed, workers, charged, report, tracker, result>>

-----------------------------------------------------------------------------
FleetNext ==
  \/ BeginMulti \/ EndMulti
  \/ \E o \in Orch : Launch(o) \/ List(o) \/ KillStale(o) \/ BeginPilot(o) \/ Charge(o)
                     \/ WorkersEnd(o) \/ EndPilot(o)
  \/ \E c \in Child : TimeOutChild(c) \/ Collect(c)

FleetSpec == FleetInit /\ [][FleetNext]_fleetVars

-----------------------------------------------------------------------------
\* Of the processes that name their project at most one of each is past the
\* sweep, unless a sweep could not look at the other: of two that start at once,
\* one is listed by the other.
OneOfAProject ==
  \A o, q \in named :
    o # q /\ where[o] = "pilot" /\ where[q] = "pilot" /\ ProjectOf[o] = ProjectOf[q]
    => <<o, q>> \in missed \/ <<q, o>> \in missed

=============================================================================
