---------------------------- MODULE PilotRounds ----------------------------
(***************************************************************************)
(* The spawn rounds of a real pilot (agent/run.py, _run_real_pilot_body):  *)
(* choose ready stories (runtime/dag_planner.py), take a batch without     *)
(* file conflicts (agent/file_conflict.py), pass each story through the    *)
(* budget gates, spawn its worker, wait for the workers of the round, mark *)
(* the stories done; and the finally of _run_real_pilot.                   *)
(*                                                                         *)
(* One asyncio task; the workers are processes and end in any order.  The  *)
(* respawn queue drained at the top of a round is always empty there: its  *)
(* producer is a subscriber and the bus is drained only after the rounds.  *)
(* Money is in whole units.                                                *)
(***************************************************************************)
EXTENDS Naturals, Sequences, FiniteSets, FiniteSetsExt, Functions

CONSTANTS Story,
          Pos,         \* place of a story in list_stories, or in --story
          Deps,        \* Deps[s]: the stories s depends on
          Touches,     \* Touches[s]: files of touches_files and touches_shared
          Manual,      \* --story: stories chosen by the operator, or {}
          MaxParallel, MaxStories, MaxRounds,
          MaxSpend, DayLimit, StoryAlarm, StoryHalt,
          BudgetOff,   \* subscription mode or BMAD_DISABLE_BUDGET
          Cost,        \* costs a worker may report
          Leftover     \* reservations an earlier run left in the session

ASSUME RoundsAssumption ==
  /\ IsFiniteSet(Story) /\ Manual \subseteq Story
  /\ Pos \in Injection(Story, Nat)
  /\ Deps \in [Story -> SUBSET Story]
  /\ {MaxParallel, MaxStories, MaxRounds, MaxSpend, DayLimit, StoryAlarm,
      StoryHalt} \subseteq Nat \ {0}
  /\ BudgetOff \in BOOLEAN /\ Cost \subseteq Nat \ {0} /\ Leftover \subseteq Nat

VARIABLES phase,     \* "round", "batch", "gather", "drain", "finally", "over"
          rounds, halted,
          batch,     \* stories of the round not yet looked at
          spawned, succeeded, failed,
          handles,   \* workers this round waits for
          result,    \* how they ended
          registered,\* spawned_handles
          alive,     \* worker processes
          status,    \* sprint-status
          daily,     \* daily_spent_usd
          ledger,    \* spent_usd of each story's budget row
          recent     \* _recent_story_costs, at most three

lists  == <<spawned, succeeded, failed>>
money  == <<daily, ledger, recent>>
vars   == <<phase, rounds, halted, batch, lists, handles, result, registered,
            alive, status, money>>

Init ==
  /\ phase = "round" /\ rounds = 0 /\ halted = FALSE /\ batch = {}
  /\ spawned = {} /\ succeeded = {} /\ failed = {}
  /\ handles = {} /\ result = [s \in Story |-> "none"]
  /\ registered = {} /\ alive = {}
  /\ status \in [Story -> {"backlog", "done"}]
  /\ daily = 0 /\ ledger \in [Story -> Leftover] /\ recent = <<>>

-----------------------------------------------------------------------------
\* ready_stories: not begun, and everything it depends on is done.
IsReady(s) == status[s] = "backlog" /\ \A d \in Deps[s] : status[d] = "done"

\* The first n of a list.
FirstOf(S, n) == {s \in S : Cardinality({t \in S : Pos[t] < Pos[s]}) < n}

\* DagPlanner.find_ready cuts the list off; what was spawned is taken out
\* after that.
Window == FirstOf({s \in Story : IsReady(s)}, 2 * MaxParallel)

Candidates == (IF Manual # {} THEN Manual ELSE Window) \ spawned

\* Mutant: the batch is as large as the round allows, whatever was spawned.
SlotsOfRound == MaxParallel

Slots == Min({MaxParallel, MaxStories - Cardinality(spawned)})

\* Mutant: a story of the batch does not claim its files.
SplitUnclaimed(S, n) == {FirstOf(S, n)}

\* split_batch: going through the list, a story is taken if there is room and
\* no story taken before it touches one of its files.
SplitBatch(S, n) ==
  {b \in SUBSET S :
     \A s \in S :
       LET before == {t \in b : Pos[t] < Pos[s]}
       IN s \in b <=> /\ Cardinality(before) < n
                      /\ \A t \in before : Touches[s] \cap Touches[t] = {}}

MayGoOn == /\ rounds < MaxRounds /\ ~halted
           /\ Cardinality(spawned) < MaxStories /\ daily < MaxSpend

StartRound ==
  /\ phase = "round" /\ MayGoOn /\ Candidates # {}
  /\ phase' = "batch"
  /\ batch' \in SplitBatch(FirstOf(Candidates, 2 * Slots), Slots)
  /\ handles' = {}
  /\ UNCHANGED <<rounds, halted, lists, result, registered, alive, status, money>>

EndRounds ==
  /\ phase = "round" /\ ~(MayGoOn /\ Candidates # {})
  /\ phase' = "drain"
  /\ UNCHANGED <<rounds, halted, batch, lists, handles, result, registered, alive,
                 status, money>>

-----------------------------------------------------------------------------
\* adaptive_story_reserve: the 95th percentile of at most three costs is
\* the greatest of them.
Reserve == IF recent = <<>> THEN StoryAlarm \div 2
           ELSE Min({StoryAlarm, Max(Range(recent))})

Projected == daily + Reserve

\* --max-spend-usd, and enforce_day: at its limit it is a halt.
OverBudget == ~BudgetOff /\ (Projected > MaxSpend \/ Projected >= DayLimit)

InBatch == phase = "batch" /\ batch # {}
IsNext(s) == InBatch /\ s \in batch /\ \A t \in batch : Pos[s] <= Pos[t]

HaltForTheDay ==
  /\ InBatch /\ OverBudget
  /\ halted' = TRUE /\ batch' = {}
  /\ UNCHANGED <<phase, rounds, lists, handles, result, registered, alive, status, money>>

\* enforce_and_reserve_story on the story's row.
RowFits(s) == BudgetOff \/ ledger[s] + Reserve <= StoryHalt

\* The day's total has been charged by then.
RefuseStory(s) ==
  /\ IsNext(s) /\ ~OverBudget /\ ~RowFits(s)
  /\ daily' = Projected /\ batch' = batch \ {s}
  /\ UNCHANGED <<phase, rounds, halted, lists, handles, result, registered, alive,
                 status, ledger, recent>>

Charge(s) ==
  /\ IsNext(s) /\ ~OverBudget /\ RowFits(s)
  /\ daily' = Projected
  /\ ledger' = IF BudgetOff THEN ledger ELSE [ledger EXCEPT ![s] = @ + Reserve]

Spawn(s) ==
  /\ Charge(s) /\ batch' = batch \ {s}
  /\ handles' = handles \cup {s} /\ alive' = alive \cup {s}
  /\ result' = [result EXCEPT ![s] = "none"]
  /\ registered' = registered \cup {s} /\ spawned' = spawned \cup {s}
  /\ UNCHANGED <<phase, rounds, halted, succeeded, failed, status, recent>>

\* Sub-stories ran and were squashed: no worker to wait for.
AutoSplit(s) ==
  /\ Charge(s) /\ batch' = batch \ {s}
  /\ spawned' = spawned \cup {s} /\ succeeded' = succeeded \cup {s}
  /\ UNCHANGED <<phase, rounds, halted, failed, handles, result, registered, alive,
                 status, recent>>

\* WorkerHaltPrespawnError: the story failed and is not spawned; a later
\* round tries it again.
HaltPrespawn(s) ==
  /\ Charge(s) /\ batch' = batch \ {s}
  /\ failed' = failed \cup {s}
  /\ UNCHANGED <<phase, rounds, halted, spawned, succeeded, handles, result,
                 registered, alive, status, recent>>

\* The ledger, git or the spawn raises: out of the body, into finally.  After
\* create_subprocess_exec the process runs, and a raise in what follows (the
\* append of the spawn event, a cancellation) leaves nobody its handle.
SpawnRaises(s) ==
  /\ phase' = "finally"
  /\ \/ Charge(s) /\ alive' \in {alive, alive \cup {s}}
     \/ /\ IsNext(s) /\ ~OverBudget
        /\ daily' = Projected /\ UNCHANGED <<ledger, alive>>
  /\ UNCHANGED <<rounds, halted, batch, lists, handles, result, registered, status, recent>>

Gather ==
  /\ phase = "batch" /\ batch = {} /\ phase' = "gather"
  /\ UNCHANGED <<rounds, halted, batch, lists, handles, result, registered, alive,
                 status, money>>

-----------------------------------------------------------------------------
\* _tail_and_emit_completion returns.  When it was the stuck watchdog that
\* ended the tail, nobody killed the worker.
WorkerEnds(s) ==
  /\ phase = "gather" /\ s \in handles /\ result[s] = "none"
  /\ \E how \in {"completed", "failed"}, stuck \in BOOLEAN :
       /\ result' = [result EXCEPT ![s] = how]
       /\ alive' = IF stuck THEN alive ELSE alive \ {s}
  /\ \/ UNCHANGED recent
     \/ \E c \in Cost :
          recent' = Append(IF Len(recent) < 3 THEN recent ELSE Tail(recent), c)
  /\ UNCHANGED <<phase, rounds, halted, batch, lists, handles, registered, status,
                 daily, ledger>>

\* gather raises the first exception.
TailRaises ==
  /\ phase = "gather" /\ \E s \in handles : result[s] = "none"
  /\ phase' = "finally"
  /\ UNCHANGED <<rounds, halted, batch, lists, handles, result, registered, alive,
                 status, money>>

Ended(how) == {s \in handles : result[s] = how}

\* mark_sprint_status_done of everything that has succeeded so far.
MarkedDone == succeeded \cup Ended("completed")

\* Mutant: the failed ones of a round are forgotten.
EndRoundForgets ==
  /\ phase = "gather" /\ \A s \in handles : result[s] # "none"
  /\ succeeded' = succeeded \cup Ended("completed")
  /\ status' = [s \in Story |-> IF s \in MarkedDone THEN "done" ELSE status[s]]
  /\ rounds' = rounds + 1 /\ phase' = "round"
  /\ UNCHANGED <<halted, batch, spawned, failed, handles, result, registered, alive, money>>

EndRound ==
  /\ phase = "gather" /\ \A s \in handles : result[s] # "none"
  /\ succeeded' = succeeded \cup Ended("completed")
  /\ failed' = failed \cup Ended("failed")
  /\ status' = [s \in Story |-> IF s \in MarkedDone THEN "done" ELSE status[s]]
  /\ rounds' = rounds + 1 /\ phase' = "round"
  /\ UNCHANGED <<halted, batch, spawned, handles, result, registered, alive, money>>

\* What comes after the rounds is MergePipeline's.
Drain ==
  /\ phase = "drain" /\ phase' = "finally"
  /\ UNCHANGED <<rounds, halted, batch, lists, handles, result, registered, alive,
                 status, money>>

\* A process may end before anybody looks, or with nobody left to look.
Exit(s) ==
  /\ s \in alive
  /\ alive' = alive \ {s}
  /\ UNCHANGED <<phase, rounds, halted, batch, lists, handles, result, registered,
                 status, money>>

KillOrphanWorkers ==
  /\ phase = "finally" /\ phase' = "over"
  /\ alive' = alive \ registered
  /\ UNCHANGED <<rounds, halted, batch, lists, handles, result, registered, status, money>>

Over == phase = "over" /\ UNCHANGED vars

Next == \/ StartRound \/ EndRounds \/ HaltForTheDay \/ Gather
        \/ \E s \in Story : \/ RefuseStory(s) \/ Spawn(s) \/ AutoSplit(s)
                            \/ HaltPrespawn(s) \/ SpawnRaises(s) \/ WorkerEnds(s) \/ Exit(s)
        \/ TailRaises \/ EndRound \/ Drain \/ KillOrphanWorkers \/ Over

Spec == Init /\ [][Next]_vars

-----------------------------------------------------------------------------
TypeOK ==
  /\ phase \in {"round", "batch", "gather", "drain", "finally", "over"}
  /\ rounds \in 0..MaxRounds /\ halted \in BOOLEAN
  /\ batch \subseteq Story
  /\ spawned \subseteq Story /\ succeeded \subseteq Story /\ failed \subseteq Story
  /\ handles \subseteq Story /\ registered \subseteq Story /\ alive \subseteq Story
  /\ result \in [Story -> {"none", "completed", "failed"}]
  /\ status \in [Story -> {"backlog", "done"}]
  /\ daily \in Nat /\ ledger \in [Story -> Nat] /\ recent \in Seq(Cost)
  /\ Len(recent) <= 3

\* Two workers the pilot waits for never touch the same file.
NoFileRace ==
  \A s, t \in handles :
    s # t /\ result[s] = "none" /\ result[t] = "none" => Touches[s] \cap Touches[t] = {}

\* The planner starts a story only when each story it depends on was done
\* before the pilot or its worker succeeded in it; a failed dependency holds
\* its dependents back for good.
DependenciesDone ==
  [][\A s \in spawned' \ spawned :
       Manual = {} => \A d \in Deps[s] : status[d] = "done" /\ d \notin failed \ succeeded]_vars

\* Whatever is refused, halted or retried, the day's total never passes the
\* operator's cap or reaches the day's limit, and a reservation never takes a
\* story's row past its halt threshold.
SpendBounded ==
  /\ ~BudgetOff => daily <= MaxSpend /\ daily < DayLimit
  /\ \A s \in Story : ledger[s] <= StoryHalt \/ ledger[s] \in Leftover

\* --max-stories holds whatever is retried.
StoryCap == Cardinality(spawned) <= MaxStories

\* The caps a pilot is started with, of money and of stories: no order of
\* refusals, halts and retries gets past either.
CapsHold == SpendBounded /\ StoryCap

\* Between rounds every spawned story is counted as succeeded or failed, and
\* no story succeeded without being spawned.
EveryWorkerAccounted ==
  phase \in {"round", "drain"} =>
    spawned \subseteq succeeded \cup failed /\ succeeded \subseteq spawned

\* However the pilot ends, every story it counts as spawned has no process
\* left, stuck ones included; one process at most outlives it, that of the
\* worker whose own spawn raised after the process was there.
OneOrphanAtMost ==
  phase = "over" => alive \cap spawned = {} /\ \A s, t \in alive : s = t

\* No worker is lost sight of: between two rounds its story is counted, and
\* when the pilot is over it is dead unless its spawn never returned.
WorkersAccounted == EveryWorkerAccounted /\ OneOrphanAtMost

=============================================================================
