---------------------------- MODULE SprintStatus ----------------------------
(***************************************************************************)
(* sprint-status.yaml, which says what the planner may spawn.  The pilot   *)
(* marks it when workers succeed (runtime/bmad_format.py), two tools of    *)
(* the agent write it, each worker has the committed version in its own    *)
(* worktree, and a merge (_ff_merge_to_integration) throws away what the   *)
(* pilot has not committed.                                                *)
(*   Spellings of a story's number are forms of a key: two prose tails     *)
(* ("1-3-bar", "1-3-foo"), "dotted" ("1.3") and "number" (1.3 without      *)
(* quotes, which YAML reads as a float).                                   *)
(***************************************************************************)
EXTENDS Naturals, Sequences, FiniteSets, FiniteSetsExt

CONSTANTS Stem,       \* ids of list_stories, the names of the story files
          After,      \* After[s]: the stories s depends on
          Word,       \* what may stand in the file as a status
          Sheets,     \* [layout, rows]: files a project may begin with
          Said,       \* statuses a worker may leave in its worktree, or "nothing"
          Told,       \* statuses update_sprint_status may be called with
          Kids,       \* keys split_story may be called with
          MaxRuns     \* bound of the model: pilots, one after the other

Spelling == [num : Nat, form : {"bar", "foo", "dotted", "number"}]
Rows     == Seq([key : Spelling, status : Word])

\* No two story files have one number.
ASSUME SprintAssumption ==
  /\ Stem \subseteq Spelling /\ \A s, t \in Stem : s.num = t.num => s = t
  /\ \A f \in Sheets : f.rows \in Rows
  /\ {"done", "ready-for-dev", "superseded"} \subseteq Word
  /\ Said \subseteq Word \cup {"nothing"} /\ Told \subseteq Word /\ Kids \subseteq Spelling

VARIABLES layout,   \* "epics": a mapping of epics; "flat": development_status
          tracked,  \* the file is under git
          sheet,    \* its rows in the project's checkout
          tip,      \* its rows at the head of the branch checked out
          fork,     \* story -> [base, own]: its rows on feature/<story>
          at,       \* where the pilot is: "off", "rounds", "drain"
          runs, tried, well, \* of this pilot: its number, what it spawned, what succeeded
          seen,     \* the rows the planner has read last
          retold,   \* ghost: numbers a tool has written since the pilot began
          merged    \* ghost: story -> what its branch said when it was merged

files == <<layout, tracked, sheet, tip, fork>>
pilot == <<at, runs, tried, well, seen>>
sprintVars == <<files, pilot, retold, merged>>

NoFork == [base |-> <<>>, own |-> <<>>]

SprintInit ==
  /\ \E f \in Sheets : layout = f.layout /\ sheet = f.rows
  /\ tracked \in BOOLEAN /\ tip = sheet /\ fork = [s \in Stem |-> NoFork]
  /\ at = "off" /\ runs = 0 /\ tried = {} /\ well = {} /\ seen = <<>>
  /\ retold = {} /\ merged = [s \in Stem |-> "never"]

-----------------------------------------------------------------------------
\* What the planner reads: parse_sprint_status_bmad and _status_by_id.

KnownStatuses == {"done", "in-progress", "ready-for-dev", "backlog", "review", "deferred",
                  "optional", "drafted", "approved"}

\* A word the parser does not know, "superseded" too, counts as backlog.
Canonical(word) == IF word \in KnownStatuses THEN word ELSE "backlog"

\* The flat layout knows prose keys only.
Parsed(key) == layout = "epics" \/ key.form \in {"bar", "foo"}

\* Of two rows with one number the later stands.
RowsOf(n, rows) == {i \in DOMAIN rows : Parsed(rows[i].key) /\ rows[i].key.num = n}
StatusOf(n, rows) ==
  IF RowsOf(n, rows) = {} THEN "backlog" ELSE Canonical(rows[Max(RowsOf(n, rows))].status)

\* filter_wave, ready_stories: a file that lists nothing keeps nothing out.
InWave(s, rows) ==
  RowsOf(s.num, rows) # {} \/ \A i \in DOMAIN rows : ~Parsed(rows[i].key)
Ready(s) ==
  /\ InWave(s, seen) /\ StatusOf(s.num, seen) \in {"ready-for-dev", "backlog"}
  /\ \A d \in After[s] : InWave(d, seen) => StatusOf(d.num, seen) = "done"

-----------------------------------------------------------------------------
\* What the pilot marks: resolve_sprint_status_key and mark_sprint_status_done.

\* In the order of the alphabet; a float is not even looked at.
Place == [bar |-> 1, foo |-> 2, dotted |-> 3]
Markable(rows) == {i \in DOMAIN rows : Parsed(rows[i].key) /\ rows[i].key.form # "number"}

\* Mutant: the first key of the file, whatever it is about.
ResolveAny(s, rows) == IF Markable(rows) = {} THEN {} ELSE {Min(Markable(rows))}

\* The row with the very id, else the first with its number, else none.  In
\* the layout of epics a number is looked for in its own epic.
Resolve(s, rows) ==
  LET exact == {i \in Markable(rows) : rows[i].key = s}
      same  == {i \in Markable(rows) : rows[i].key.num = s.num}
  IN IF exact # {} THEN exact
     ELSE {i \in same : \A j \in same : Place[rows[i].key.form] <= Place[rows[j].key.form]}

Write(rows, I, word) == [i \in DOMAIN rows |-> IF i \in I THEN [rows[i] EXCEPT !.status = word] ELSE rows[i]]

Mark(rows, S) == Write(rows, UNION {Resolve(s, rows) : s \in S}, "done")

-----------------------------------------------------------------------------
StartPlanner ==
  /\ at = "off" /\ runs < MaxRuns
  /\ at' = "rounds" /\ runs' = runs + 1 /\ seen' = sheet
  /\ UNCHANGED <<files, tried, well, retold, merged>>

\* _ensure_git_worktree: a branch of what is committed, unless there is one.
Branched(s) == IF fork[s] = NoFork THEN [base |-> tip, own |-> tip] ELSE fork[s]

\* The worker of s, or its reviewer, says in its worktree how far the story is.
Edited(s, word) == LET fork0 == Branched(s) IN [fork0 EXCEPT !.own = Write(@, RowsOf(s.num, @), word)]

\* The workers of S have come back, those of good well.
Gathered(S, good) ==
  /\ at = "rounds" /\ S # {} /\ S \subseteq {s \in Stem \ tried : Ready(s)} /\ good \subseteq S
  /\ \E word \in [S -> Said] :
       fork' = [s \in Stem |-> IF ~tracked \/ s \notin S THEN fork[s]
                               ELSE IF word[s] = "nothing" THEN Branched(s) ELSE Edited(s, word[s])]

\* The pilot marks the stories in one read and write, and the planner reloads.
Round(S, good) ==
  /\ Gathered(S, good)
  /\ sheet' = Mark(sheet, good) /\ seen' = sheet'
  /\ tried' = tried \cup S /\ well' = well \cup good
  /\ UNCHANGED <<layout, tracked, tip, at, runs, retold, merged>>

\* What a pilot knows ends with its process.
Forget == at' = "off" /\ tried' = {} /\ well' = {} /\ seen' = <<>> /\ retold' = {}

\* The file is written where it is: a pilot killed meanwhile leaves its start.
KillWhileWriting(S, good) ==
  /\ Gathered(S, good)
  /\ \E n \in 0..Len(sheet) : sheet' = SubSeq(Mark(sheet, good), 1, n)
  /\ Forget /\ UNCHANGED <<layout, tracked, tip, runs, merged>>

\* The planner is not asked again.
EndPilotRounds ==
  /\ at = "rounds" /\ at' = "drain" /\ seen' = <<>>
  /\ UNCHANGED <<files, runs, tried, well, retold, merged>>

\* The run is over, or killed at any other moment.
EndOfRun == at # "off" /\ Forget /\ UNCHANGED <<files, runs, merged>>

-----------------------------------------------------------------------------
\* Mutant: the branch is not rebased, and its file taken as it is.
RebasedNot(f) == f.own

\* git rebase, row by row: the branch's where the branch has changed it.
Rebased(f) == [i \in DOMAIN tip |-> IF f.own[i] # f.base[i] THEN f.own[i] ELSE tip[i]]

\* Two that changed one row differently never fit; neighbours may not either.
Clashes(f) == \E i \in DOMAIN tip : f.own[i] # f.base[i] /\ tip[i] \notin {f.base[i], f.own[i]}

\* An approved story: rebase, check out, throw away what is not committed (the
\* pilot's marks), merge.  A file that git does not know stays as it is.
MergeStory(s) ==
  /\ at = "drain" /\ s \in well /\ ~(tracked /\ Clashes(fork[s]))
  /\ well' = well \ {s}
  /\ IF tracked
     THEN /\ tip' = Rebased(fork[s]) /\ sheet' = tip'
          /\ fork' = [fork EXCEPT ![s] = [base |-> tip', own |-> tip']]
          /\ merged' = [merged EXCEPT ![s] = StatusOf(s.num, fork[s].own)]
     ELSE merged' = [merged EXCEPT ![s] = "untold"] /\ UNCHANGED <<tip, sheet, fork>>
  /\ UNCHANGED <<layout, tracked, at, runs, tried, seen, retold>>

\* The rebase fails, or the merge after what is not committed was thrown away.
\* A story that is not approved ends here too.
MergeFailed(s) ==
  /\ at = "drain" /\ s \in well /\ well' = well \ {s}
  /\ (UNCHANGED sheet \/ (tracked /\ sheet' = tip))
  /\ UNCHANGED <<layout, tracked, tip, fork, at, runs, tried, seen, retold, merged>>

-----------------------------------------------------------------------------
\* The tools know the layout of epics only, and the key as it stands there.
Key(key) == {i \in DOMAIN sheet : layout = "epics" /\ sheet[i].key = key /\ key.form # "number"}

UpdateSprintStatus(key, word) ==
  /\ at # "off" /\ Key(key) # {} /\ sheet' = Write(sheet, Key(key), word)
  /\ retold' = retold \cup {key.num}
  /\ UNCHANGED <<layout, tracked, tip, fork, pilot, merged>>

\* split_story: the new row is written, after the others if it is new, and the
\* parent is superseded.
SplitStory(key, kid) ==
  /\ at # "off" /\ Key(key) # {}
  /\ LET added == IF Key(kid) # {} THEN Write(sheet, Key(kid), "ready-for-dev")
                  ELSE Append(sheet, [key |-> kid, status |-> "ready-for-dev"])
     IN sheet' = Write(added, Key(key), "superseded")
  /\ retold' = retold \cup {key.num, kid.num}
  /\ UNCHANGED <<layout, tracked, tip, fork, pilot, merged>>

SprintNext ==
  \/ StartPlanner \/ EndPilotRounds \/ EndOfRun
  \/ \E S \in SUBSET Stem : \E good \in SUBSET S : Round(S, good) \/ KillWhileWriting(S, good)
  \/ \E s \in Stem : MergeStory(s) \/ MergeFailed(s)
  \/ \E i \in DOMAIN sheet :
       \/ \E word \in Told : UpdateSprintStatus(sheet[i].key, word)
       \/ \E kid \in Kids : SplitStory(sheet[i].key, kid)

SprintSpec == SprintInit /\ [][SprintNext]_sprintVars

-----------------------------------------------------------------------------
\* One row of the file is about s, and its key is a text.
Plain(s, rows) == Cardinality(RowsOf(s.num, rows)) = 1 /\ RowsOf(s.num, rows) \subseteq Markable(rows)

\* What the pilot has marked the planner reads, in whichever layout and spelling,
\* although one goes by keys and the other by numbers ("every story fell through
\* ... and resume re-spawned already-done stories", agent/run.py), until a tool
\* says otherwise.
MarkedIsRead ==
  at = "rounds" => \A s \in tried : Plain(s, seen) /\ s.num \notin retold =>
    (s \in well <=> StatusOf(s.num, seen) = "done")

\* A story that was merged saying it is done is done in the file for good, though
\* its branch was forked before others were merged and knows nothing of them.
MergedStaysDone == \A s \in Stem : merged[s] = "done" => StatusOf(s.num, tip) = "done"

\* The two ways a story's end reaches the planner of this run and of the next.
StatusKept == MarkedIsRead /\ MergedStaysDone

-----------------------------------------------------------------------------
\* What a comment of the code says and the code does not do.

\* _ff_merge_to_integration: "the incoming feature branch carries the
\* authoritative version of those metadata files - so tracked residue is safe to
\* discard": a story that is merged is done in the file.
MergedIsDone ==
  \A s \in Stem : merged[s] \notin {"never", "untold"} =>
    StatusOf(s.num, sheet) = "done"
=============================================================================
