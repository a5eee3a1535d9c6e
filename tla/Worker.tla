------------------------------- MODULE Worker -------------------------------
(***************************************************************************)
(* Worker processes of one worktree and one events.jsonl, one attempt      *)
(* after the other (a reviewer is spawned again when its verdict is an     *)
(* error): runtime/worker_spawn.py, runtime/worker_cancellation.py,        *)
(* runtime/stuck_watchdog.py, the loop of _tail_and_emit_completion.       *)
(*                                                                         *)
(* A process is watched by two tasks: one copies its output to the file,   *)
(* one waits for its end.  A third task, the tail, reads the file; with it *)
(* runs the stuck watchdog, which ends the tail and not the process, so    *)
(* that an earlier attempt may go on writing to the file of a later one.   *)
(* Lines are those of str.splitlines: a U+2028 inside a JSON string, which *)
(* ensure_ascii=False keeps, makes two lines that are no JSON ("torn").    *)
(***************************************************************************)
EXTENDS Naturals, Sequences

CONSTANTS MaxAttempts, \* spawns into the worktree
          MaxPrinted,  \* bound: lines the processes print, by role
          MaxChange,   \* bound: commits, and dirty files
          AutoClear,   \* --resume: a halt-reason.txt is removed
          AutoClean    \* auto_clean_dirty_worktree

Attempt == 1..MaxAttempts

ASSUME WorkerAssumption ==
  /\ MaxAttempts \in Nat \ {0} /\ MaxPrinted \in [{"dev", "review"} -> Nat] /\ MaxChange \in Nat
  /\ AutoClear \in BOOLEAN /\ AutoClean \in BOOLEAN

Kind == {"event", "torn", "halt", "completed"}
Line == [by : 0..MaxAttempts, kind : Kind]

VARIABLES role,     \* "dev": writes and commits, and is spawned once unless refused;
                    \* "review": does neither, and is spawned again
          att,      \* the latest attempt, 0 before the first
          spawn,    \* of the latest: "gates", "launch", "up", "refused"
          haltFile, \* halt-reason.txt
          commits,  \* past base_sha
          dirty,    \* dirty files outside .claude
          file,     \* events.jsonl
          fresh,    \* its last event is younger than the stuck threshold
          proc,     \* "none", "running", "ended"
          printed,  \* lines the processes have printed
          copier,   \* _stream_subprocess_stdout: "none", "reading", "over"
          waiter,   \* _wait_and_finalize: "none", "waiting", "staging", "killed",
                    \* "over", "raised"
          home,     \* isolated homes on the disk
          registered, cancelled,
          watch,    \* "off", "waiting", "counting", "over"
          counted,  \* commits as last counted by the tick in progress
          lastCommits, lastDirty,
          seen, pos, upto, \* the tail: yields, place in the snapshot, its end
          pending,  \* line read by _next_event and not yet yielded, or 0
          handed,   \* history: lines yielded by the tail of this attempt
          outcome,  \* how each tail ended: "none", "line", "stuck"
          quiet     \* history: no earlier attempt could write when this began

tree  == <<haltFile, commits, dirty>>
procs == <<proc, printed, copier, waiter, home, registered, cancelled>>
tail  == <<seen, pos, upto, pending, handed>>
dog   == <<watch, counted, lastCommits, lastDirty, outcome>>
vars  == <<role, att, spawn, tree, file, fresh, procs, tail, dog, quiet>>

Init ==
  /\ role \in {"dev", "review"} /\ att = 0 /\ spawn = "up"
  /\ haltFile \in BOOLEAN /\ commits = 0 /\ dirty \in 0..MaxChange
  /\ file \in {<<>>, <<[by |-> 0, kind |-> "completed"]>>} /\ fresh = FALSE
  /\ proc = [a \in Attempt |-> "none"] /\ printed = 0
  /\ copier = [a \in Attempt |-> "none"] /\ waiter = [a \in Attempt |-> "none"]
  /\ home = {} /\ registered = {} /\ cancelled = {}
  /\ watch = "off" /\ counted = 0 /\ lastCommits = 0 /\ lastDirty = 0
  /\ seen = 0 /\ pos = 0 /\ upto = 0 /\ pending = 0 /\ handed = {}
  /\ outcome = [a \in Attempt |-> "none"] /\ quiet = [a \in Attempt |-> TRUE]

\* append_jsonl; every line has the time it is written at.
Emit(a, k) == /\ file' = Append(file, [by |-> a, kind |-> k])
              /\ fresh' = TRUE

\* A line of the orchestrator's own that nobody acts on (worker_spawned,
\* worker_cancelled, subprocess_timeout, ...) is a sign of life and else like
\* an event of the process, which stands for it.
EmitNote == fresh' = TRUE /\ UNCHANGED file

\* Attempts that have not finished writing.
Writing == {a \in Attempt : \/ copier[a] = "reading"
                            \/ waiter[a] \in {"waiting", "staging", "killed"}}

-----------------------------------------------------------------------------
\* spawn_worker, up to the first await: a halt-reason.txt refuses the spawn
\* unless it may be cleared.  The next attempt begins when the tail of the
\* last one is over.
CheckHalt ==
  /\ att < MaxAttempts /\ watch \in {"off", "over"} /\ spawn \in {"up", "refused"}
  /\ att = 0 \/ spawn = "refused" \/ role = "review"
  /\ att' = att + 1
  /\ IF haltFile /\ ~AutoClear
     THEN /\ spawn' = "refused" /\ EmitNote
          /\ UNCHANGED haltFile
     ELSE /\ spawn' = "gates" /\ haltFile' = FALSE
          /\ UNCHANGED <<file, fresh>>
  /\ watch' = "off"
  /\ UNCHANGED <<role, commits, dirty, procs, tail, counted, lastCommits, lastDirty,
                 outcome, quiet>>

\* The gate of the dirty worktree: cleaned, or the spawn is refused.
Gated == dirty = 0 \/ AutoClean

\* Mutant: the file of the attempt before is kept.
KeepFile == /\ spawn = "gates" /\ Gated
            /\ spawn' = "launch" /\ dirty' = 0
            /\ UNCHANGED <<role, att, haltFile, commits, file, fresh, procs, tail, dog, quiet>>

\* The gates passed, events.jsonl is truncated.
Truncate ==
  /\ spawn = "gates" /\ Gated
  /\ spawn' = "launch" /\ dirty' = 0
  /\ file' = <<>> /\ fresh' = FALSE
  /\ quiet' = [quiet EXCEPT ![att] = Writing = {}]
  /\ UNCHANGED <<role, att, haltFile, commits, procs, tail, dog>>

\* A dirty worktree in safe mode, or an MCP tool that is not ready.
Refuse ==
  /\ spawn = "gates"
  /\ spawn' = "refused"
  /\ dirty' \in {0, dirty} /\ (dirty' # dirty => AutoClean)
  /\ EmitNote
  /\ UNCHANGED <<role, att, haltFile, commits, procs, tail, dog, quiet>>

\* create_subprocess_exec has returned: register, worker_spawned, the tasks;
\* and the tail with its watchdog begins.
Launch ==
  /\ spawn = "launch" /\ spawn' = "up"
  /\ EmitNote
  /\ proc' = [proc EXCEPT ![att] = "running"]
  /\ copier' = [copier EXCEPT ![att] = "reading"]
  /\ waiter' = [waiter EXCEPT ![att] = "waiting"]
  /\ home' = home \cup {att} /\ registered' = registered \cup {att}
  /\ watch' = "waiting"
  /\ UNCHANGED <<role, att, tree, printed, cancelled, tail, counted, lastCommits,
                 lastDirty, outcome, quiet>>

-----------------------------------------------------------------------------
\* The process and its two tasks.
Alive(a) == proc[a] = "running"

\* A line of output, copied to the file: an event with usage, a worker_halt_file,
\* or a fragment of one whose text holds a line separator.  (The task raises
\* at a line longer than its limit; then nothing more is copied, as when
\* nothing more is printed.)
Output(a) ==
  /\ Alive(a) /\ copier[a] = "reading" /\ printed < MaxPrinted[role]
  /\ printed' = printed + 1
  /\ \E k \in {"event", "torn"} \cup IF role = "dev" THEN {"halt"} ELSE {} : Emit(a, k)
  /\ UNCHANGED <<role, att, spawn, tree, proc, copier, waiter, home, registered,
                 cancelled, tail, dog, quiet>>

\* What the process does in its worktree.
Work(a) ==
  /\ Alive(a) /\ role = "dev"
  /\ \/ dirty < MaxChange /\ dirty' = dirty + 1 /\ UNCHANGED commits
     \/ dirty > 0 /\ commits < MaxChange /\ dirty' = 0 /\ commits' = commits + 1
  /\ UNCHANGED <<role, att, spawn, haltFile, file, fresh, procs, tail, dog, quiet>>

\* The process ends, by itself or by a signal, and may leave a halt-reason.txt.
Exit(a) ==
  /\ Alive(a)
  /\ proc' = [proc EXCEPT ![a] = "ended"]
  /\ haltFile' \in {haltFile, TRUE}
  /\ UNCHANGED <<role, att, spawn, commits, dirty, file, fresh, printed, copier, waiter,
                 home, registered, cancelled, tail, dog, quiet>>

\* End of the output; what was still in the pipe is copied first (Output has
\* no order with the waiting task, so the lines may follow worker_completed).
CopierEnds(a) ==
  /\ proc[a] = "ended" /\ copier[a] = "reading"
  /\ copier' = [copier EXCEPT ![a] = "over"]
  /\ \/ UNCHANGED <<file, fresh, printed>>
     \/ /\ printed < MaxPrinted[role]
        /\ printed' = printed + 1 /\ Emit(a, "event")
  /\ UNCHANGED <<role, att, spawn, tree, proc, waiter, home, registered, cancelled,
                 tail, dog, quiet>>

\* worker_completed, the home removed, the registration withdrawn.
Finalize(a) ==
  /\ proc[a] = "ended" /\ waiter[a] \in {"waiting", "killed"}
  /\ waiter' = [waiter EXCEPT ![a] = "over"]
  /\ Emit(a, "completed")
  /\ home' = home \ {a} /\ registered' = registered \ {a}
  /\ UNCHANGED <<role, att, spawn, tree, proc, printed, copier, cancelled, tail, dog,
                 quiet>>

\* The hard ceiling: what is dirty is staged and committed first.
HardTimeout(a) ==
  /\ Alive(a) /\ waiter[a] = "waiting"
  /\ waiter' = [waiter EXCEPT ![a] = "staging"]
  /\ UNCHANGED <<role, att, spawn, tree, file, fresh, proc, printed, copier, home,
                 registered, cancelled, tail, dog, quiet>>

\* _auto_stage_worktree returns, with a commit or without.
Staged == \/ UNCHANGED <<commits, dirty>>
          \/ dirty > 0 /\ dirty' = 0 /\ commits' = commits + 1

\* Mutant: after staging, the process is waited for and not killed.
KillForgotten(a) ==
  /\ waiter[a] = "staging" /\ Staged /\ EmitNote
  /\ waiter' = [waiter EXCEPT ![a] = "killed"]
  /\ UNCHANGED <<role, att, spawn, haltFile, proc, printed, copier, home, registered,
                 cancelled, tail, dog, quiet>>

\* process.kill() is not guarded: when the process and its pipes have ended
\* during the staging it raises, and nothing of Finalize happens.
Kill(a) ==
  /\ waiter[a] = "staging" /\ Staged /\ EmitNote
  /\ \/ /\ waiter' = [waiter EXCEPT ![a] = "killed"]
        /\ proc' = [proc EXCEPT ![a] = "ended"]
     \/ /\ proc[a] = "ended" /\ copier[a] # "reading"
        /\ waiter' = [waiter EXCEPT ![a] = "raised"] /\ UNCHANGED proc
  /\ UNCHANGED <<role, att, spawn, haltFile, printed, copier, home, registered,
                 cancelled, tail, dog, quiet>>

\* cancel_worker: the token is set once.  SIGTERM, and SIGKILL after the grace
\* period, are an Exit that must come.
Cancel(a) ==
  /\ a \in registered \ cancelled
  /\ cancelled' = cancelled \cup {a} /\ EmitNote
  /\ UNCHANGED <<role, att, spawn, tree, proc, printed, copier, waiter, home, registered,
                 tail, dog, quiet>>

Stopped(a) == a \in cancelled /\ Exit(a)

-----------------------------------------------------------------------------
\* tail_jsonl_events.
Good(i) == file[i].kind # "torn"
Terminal(i) == file[i].kind \in {"completed", "halt"}
GoodLeft == {i \in (pos + 1)..upto : Good(i)}
Tailing == watch \in {"waiting", "counting"}

\* Mutant: of several new lines the newest is read.
NewestEvent ==
  /\ Tailing /\ pending = 0 /\ GoodLeft # {}
  /\ \E i \in GoodLeft : /\ \A j \in GoodLeft : j <= i
                         /\ pending' = i /\ pos' = i /\ seen' = seen + 1
  /\ UNCHANGED <<role, att, spawn, tree, file, fresh, procs, upto, handed, dog, quiet>>

\* The next line of the snapshot that is JSON.
NextEvent ==
  /\ Tailing /\ pending = 0 /\ GoodLeft # {}
  /\ \E i \in GoodLeft : /\ \A j \in GoodLeft : i <= j
                         /\ pending' = i /\ pos' = i /\ seen' = seen + 1
  /\ UNCHANGED <<role, att, spawn, tree, file, fresh, procs, upto, handed, dog, quiet>>

\* A new snapshot, from the number of yields on: after a torn line that is a
\* place already read.
Poll ==
  /\ Tailing /\ pending = 0 /\ GoodLeft = {}
  /\ <<seen, Len(file)>> # <<pos, upto>>
  /\ pos' = seen /\ upto' = Len(file)
  /\ UNCHANGED <<role, att, spawn, tree, file, fresh, procs, seen, pending, handed, dog,
                 quiet>>

\* The tail is over: its local variables are gone.
Close(how) ==
  /\ watch' = "over" /\ outcome' = [outcome EXCEPT ![att] = how]
  /\ seen' = 0 /\ pos' = 0 /\ upto' = 0 /\ pending' = 0 /\ handed' = {}
  /\ counted' = 0 /\ lastCommits' = 0 /\ lastDirty' = 0

\* tail_with_stuck_watchdog yields what is pending.
Yield ==
  /\ watch = "waiting" /\ pending # 0 /\ ~Terminal(pending)
  /\ handed' = handed \cup {pending} /\ pending' = 0
  /\ UNCHANGED <<role, att, spawn, tree, file, fresh, procs, seen, pos, upto, dog, quiet>>

\* A terminal line ends it.
YieldLast ==
  /\ watch = "waiting" /\ pending # 0 /\ Terminal(pending) /\ Close("line")
  /\ UNCHANGED <<role, att, spawn, tree, file, fresh, procs, quiet>>

\* Nothing for check_interval_seconds: the commits are counted (a failure
\* counts what was counted last); the dirty files, and the file's age, after.
Tick ==
  /\ watch = "waiting" /\ pending = 0
  /\ watch' = "counting" /\ counted' \in {commits, lastCommits}
  /\ UNCHANGED <<role, att, spawn, tree, file, fresh, procs, tail, lastCommits,
                 lastDirty, outcome, quiet>>

\* Mutant: the age of the last event is not looked at.
StuckByCounts(d) == counted <= lastCommits /\ d <= lastDirty

\* evaluate_stuck: any of three signs of life is enough.  The number of dirty
\* files is compared with the greatest so far, which a commit does not reset.
Stuck(d) == counted <= lastCommits /\ ~fresh /\ d <= lastDirty

StillAlive ==
  /\ watch = "counting"
  /\ \E d \in {dirty, lastDirty} :
       /\ ~Stuck(d)
       /\ IF counted > lastCommits
          THEN lastCommits' = counted /\ UNCHANGED lastDirty
          ELSE /\ lastDirty' = IF d > lastDirty THEN d ELSE lastDirty
               /\ UNCHANGED lastCommits
  /\ watch' = "waiting" /\ counted' = 0
  /\ UNCHANGED <<role, att, spawn, tree, file, fresh, procs, tail, outcome, quiet>>

\* The tail is closed and a completion of its own making yielded.
GiveUp ==
  /\ watch = "counting"
  /\ \E d \in {dirty, lastDirty} : Stuck(d)
  /\ Close("stuck")
  /\ UNCHANGED <<role, att, spawn, tree, file, fresh, procs, quiet>>

\* Time passes: the threshold (half an hour) is longer than a poll and a tick.
GrowOld ==
  /\ fresh /\ fresh' = FALSE
  /\ pending = 0
  /\ Tailing => GoodLeft = {} /\ upto = Len(file) /\ pos = seen
  /\ UNCHANGED <<role, att, spawn, tree, file, procs, tail, dog, quiet>>

-----------------------------------------------------------------------------
TailStep == NextEvent \/ Poll \/ Yield \/ YieldLast \/ Tick \/ StillAlive \/ GiveUp

SpawnStep == CheckHalt \/ Truncate \/ Refuse \/ Launch

ProcessStep(a) == \/ Output(a) \/ Work(a) \/ Exit(a)
                  \/ CopierEnds(a) \/ Finalize(a) \/ HardTimeout(a) \/ Kill(a)
                  \/ Cancel(a)

Next == TailStep \/ SpawnStep \/ GrowOld \/ \E a \in Attempt : ProcessStep(a)

Spec == Init /\ [][Next]_vars

\* Timers fire and tasks that are ready run.  Nothing says that a process ends
\* by itself, that it prints, or that another attempt follows.
Fairness ==
  /\ WF_vars(NextEvent) /\ WF_vars(Poll) /\ WF_vars(Yield \/ YieldLast)
  /\ WF_vars(Tick)
  /\ WF_vars(StillAlive \/ GiveUp) /\ WF_vars(GrowOld)
  /\ \A a \in Attempt : /\ WF_vars(HardTimeout(a)) /\ WF_vars(Kill(a))
                        /\ WF_vars(Finalize(a)) /\ WF_vars(Stopped(a))

FairSpec == Spec /\ Fairness

-----------------------------------------------------------------------------
\* Types.
TypeOK ==
  /\ role \in {"dev", "review"}
  /\ att \in 0..MaxAttempts /\ spawn \in {"gates", "launch", "up", "refused"}
  /\ spawn = "up" \/ att \in Attempt
  /\ haltFile \in BOOLEAN /\ commits \in Nat /\ dirty \in Nat
  /\ file \in Seq(Line) /\ fresh \in BOOLEAN
  /\ proc \in [Attempt -> {"none", "running", "ended"}]
  /\ printed \in Nat
  /\ copier \in [Attempt -> {"none", "reading", "over"}]
  /\ waiter \in [Attempt -> {"none", "waiting", "staging", "killed", "over", "raised"}]
  /\ home \subseteq Attempt /\ registered \subseteq Attempt
  /\ cancelled \subseteq Attempt
  /\ watch \in {"off", "waiting", "counting", "over"} /\ counted \in Nat
  /\ lastCommits \in Nat /\ lastDirty \in Nat
  /\ seen \in Nat /\ pos \in Nat /\ upto \in Nat /\ pending \in Nat
  /\ handed \subseteq Nat
  /\ outcome \in [Attempt -> {"none", "line", "stuck"}]
  /\ quiet \in [Attempt -> BOOLEAN]

\* The tail skips nothing: what it has passed in the file it has handed on, or
\* is about to, whatever torn lines the number of yields does not count and
\* however the file grows between two yields.
NothingSkipped ==
  Tailing => \A i \in 1..pos : Good(i) => i \in handed \cup {pending}

\* What is handed on twice is paid for: a line is yielded again only because a
\* torn one was not counted, so that the yields never outnumber the lines.
RepeatsBounded == Tailing => seen <= upto /\ upto <= Len(file)

\* The tail hands on every line it passes, the torn ones it does not count and
\* all, and a line twice only as often as it has met a torn one.
TailReadsAll == NothingSkipped /\ RepeatsBounded

\* The watchdog gives up a worker only when its consumer has been handed all
\* that was written, the completion included, though commits and files are
\* counted while lines are read.
NothingUnreadWhenGivenUp ==
  [][(watch = "counting" /\ watch' = "over")
       => \A i \in 1..Len(file) : Good(i) => i \in handed]_vars

\* A tail ends with a line of its own process: the file of the attempt before,
\* or of an earlier pilot, does not complete this one. (Said by worker_spawn.py
\* and not so: OwnCompletionWhenQuiet below is what holds.)
OwnCompletion ==
  [][\A a \in Attempt : (outcome[a] # outcome'[a] /\ outcome'[a] = "line")
                           => file[pending].by = a]_vars

\* The same where no earlier attempt could still write when this one began.
OwnCompletionWhenQuiet ==
  [][\A a \in Attempt : (outcome[a] # outcome'[a] /\ outcome'[a] = "line" /\ quiet[a])
                           => file[pending].by = a]_vars

\* Every worker is completed, halted or given up: with a process that hangs,
\* one killed whose waiting task raised, one nobody reads.
TailEnds == Tailing ~> watch = "over"

\* No process outlives its ceiling, given up or not.
ProcessEnds == \A a \in Attempt : Alive(a) ~> proc[a] = "ended"

\* Nothing waits for ever on a worker, and no worker runs for ever.
Ends == TailEnds /\ ProcessEnds

\* "The overlay is cleaned up after the worker exits" (worker_spawn.py; not so
\* when the pilot ends first, so that no run checks it).
HomeRemoved == \A a \in Attempt : proc[a] = "ended" ~> a \notin home

=============================================================================
