------------------------------- MODULE Review --------------------------------
(***************************************************************************)
(* One review of one story, in the detail CodeReview and SecurityReview of *)
(* MergePipeline leave out: what a reviewer's event stream says, the two   *)
(* stages of the merge gate and their retry, the gates behind them         *)
(* (agent/run.py), the size and scope of the diff (diff_size_gate.py,      *)
(* file_list_parser.py), the runner's log (verdict_fallback.py) and the    *)
(* security review that follows an approve (security_review.py).           *)
(*                                                                         *)
(* reviewers is the stream of the reviewer that runs: what of its JSONL    *)
(* the tail has yielded.  It may end at any event, as the watchdog may     *)
(* give up on it, and is empty when the reviewer could not be spawned.     *)
(***************************************************************************)
EXTENDS Naturals, Sequences, FiniteSets, FiniteSetsExt

CONSTANTS Line,         \* lines of a reviewer's stream, of the shape RawLine
          MaxStream,    \* bound: lines of one stream
          ErrorRetry,   \* CODE_REVIEW_ERROR_RETRY_MAX, error_retry_max
          IterationCap, \* max_review_iterations
          P0Tenths,     \* p0_threshold and test_coverage_threshold
          CoverTenths,
          RunnerLogs,   \* Stage 6 logs: sequences of PASS, NEEDS-FIX, BLOCKED, Unsaid
          PolicyTags,   \* compliance_tags of the policy
          StoryText,    \* story files: sequences of lines [kind, path]
          Infra,        \* the story's own file, ALWAYS_IN_SCOPE_PATHS and _GLOBS
          Diffs,        \* diffs of HEAD~1..HEAD: path -> changed lines
          MaxLines,     \* max_lines
          SecLine       \* lines of a security reviewer's stream: [key, text]

CodeVerdict == {"approve", "request_changes", "reject"}
Unsaid  == "unsaid"   \* no such key, or no verdict in it
NoCounts == [said |-> FALSE, found |-> 0, fixed |-> 0, tests |-> 0, todo |-> 0, expected |-> 0, tags |-> {}]

\* A line as json.loads returns it: the value of its verdict key, the verdict
\* its text has, its summary, and its metrics as an object or as flat keys.
RawLine(l) ==
  /\ DOMAIN l = {"key", "text", "summary", "object", "flat"}
  /\ l.text \in CodeVerdict \cup {Unsaid} /\ l.summary \in {"", "plain", "banned"}
  /\ \A m \in {l.object, l.flat} :
       /\ DOMAIN m = DOMAIN NoCounts /\ m.said \in BOOLEAN
       /\ {m.found, m.fixed, m.tests, m.todo, m.expected} \subseteq Nat

ASSUME ReviewAssumption ==
  /\ {MaxStream, ErrorRetry, IterationCap, P0Tenths, CoverTenths, MaxLines} \subseteq Nat
  /\ \A l \in Line : RawLine(l)
  /\ RunnerLogs \subseteq Seq({"PASS", "NEEDS-FIX", "BLOCKED", Unsaid})

VARIABLES at,         \* "spec", "quality", "judged", "cleared", "security", "over"
          stream,     \* the lines the tail of the running reviewer has yielded
          metrics,    \* the metrics gathered from them
          spec,       \* the stream of the spec stage, once it is over
          specMetrics, \* and its metrics
          try,
          runnerLog,  \* the Stage 6 logs of the story, newest first: their last token
          critical,   \* history: the security policy was on and the story met it
          errors,     \* CODE_REVIEW_ERROR and SECURITY_REVIEW_ERROR events
          answer,     \* the verdict in the event merge_to_integration will read
          queries,    \* verdicts of the HUMAN_QUERY events
          passed,     \* SECURITY_REVIEW_PASSED was emitted
          scope       \* history: the diff the approve was given for

reviewVars == <<at, stream, metrics, spec, specMetrics, try, runnerLog, critical, errors,
                answer, queries, passed, scope>>

Unmeasured == [measured |-> FALSE, diff |-> <<>>, text |-> <<>>]
StoryFile == {"absent", "unreadable", "flagged", "hit", "plain"}

ReviewInit ==
  /\ at = "spec" /\ stream = <<>> /\ metrics = NoCounts /\ spec = <<>> /\ specMetrics = NoCounts /\ try = 1
  /\ runnerLog \in RunnerLogs
  /\ critical = FALSE /\ errors = 0 /\ answer = "none" /\ queries = {} /\ passed = FALSE
  /\ scope = Unmeasured

-----------------------------------------------------------------------------
\* _extract_verdict_from_event: the key when it is one of the three verdicts,
\* else the first of its texts with a verdict line.
VerdictOf(l) == IF l.key \in CodeVerdict THEN l.key ELSE l.text

\* The last line with a verdict; "error" when there is none.
Spoken(s) == {i \in DOMAIN s : VerdictOf(s[i]) # Unsaid}
StreamVerdict(s) == IF Spoken(s) = {} THEN "error" ELSE VerdictOf(s[Max(Spoken(s))])
StreamSummary(s) == IF Spoken(s) = {} THEN "" ELSE s[Max(Spoken(s))].summary

\* _extract_metrics_from_event: a metrics object hides the flat keys.
MetricsOf(l) == IF l.object.said THEN l.object ELSE l.flat

\* Mutant: the metrics of the last line stand for the stage.
LatestMetrics(acc, new) == new

\* _merge_metrics: counts add up, tags unite, expected is the latest that is not 0.
MergeMetrics(acc, new) ==
  IF ~acc.said THEN new
  ELSE [said |-> TRUE, found |-> acc.found + new.found, fixed |-> acc.fixed + new.fixed,
        tests |-> acc.tests + new.tests, todo |-> acc.todo + new.todo,
        expected |-> IF new.expected # 0 THEN new.expected ELSE acc.expected,
        tags |-> acc.tags \cup new.tags]

\* The loop over the tail of a reviewer.
Gathered(l) == IF MetricsOf(l).said THEN MergeMetrics(metrics, MetricsOf(l)) ELSE metrics

-----------------------------------------------------------------------------
\* _scan_log_for_verdict and parse_runner_review_log: of the logs with a token
\* the newest, read as a verdict.
LogVerdict ==
  LET tokens == {i \in DOMAIN runnerLog : runnerLog[i] # Unsaid}
      newest == runnerLog[Min(tokens)]
  IN IF tokens = {} THEN Unsaid
     ELSE IF newest = "PASS" THEN "approve" ELSE IF newest = "NEEDS-FIX" THEN "request_changes" ELSE "reject"

SpecVerdict(s) == IF StreamVerdict(s) = "error" /\ LogVerdict # Unsaid THEN LogVerdict ELSE StreamVerdict(s)

\* _run_merge_gate_two_stage, once its last stage is over (_merge_verdicts:
\* the worse wins).  The log stands in for a quality stage without a verdict
\* only where it stood in for the spec stage.
GateOf(s, q) ==
  IF SpecVerdict(s) # "approve" THEN SpecVerdict(s)
  ELSE IF StreamVerdict(q) = "error" /\ StreamVerdict(s) = "error" THEN "approve"
  ELSE StreamVerdict(q)
Summary(s, q) ==
  IF StreamSummary(q) # "" THEN StreamSummary(q)
  ELSE IF StreamVerdict(s) = "error" THEN "plain" ELSE StreamSummary(s)
Metrics == IF metrics.said THEN metrics ELSE specMetrics

-----------------------------------------------------------------------------
\* _gate_p0_threshold, _gate_test_coverage, _gate_iteration_cap, _gate_compliance
P0Short(m) == m.found > 0 /\ P0Tenths > 0 /\ 10 * m.fixed < P0Tenths * m.found
TestsShort(m) ==
  \/ m.expected > 0 /\ CoverTenths > 0 /\ 10 * m.tests < CoverTenths * m.expected
  \/ m.todo > 0
TooManyRounds(iteration) == IterationCap > 0 /\ iteration > IterationCap
Forbidden(m) == m.tags \cap PolicyTags # {}

\* parse_file_list: the bullets between the first File List heading and the
\* next heading, in whatever bucket they are.
FileListOf(text) ==
  {text[i].path : i \in {j \in DOMAIN text :
     /\ text[j].kind = "bullet"
     /\ \E h \in 1..(j - 1) : /\ text[h].kind = "file list"
                              /\ \A k \in (h + 1)..j : text[k].kind \notin {"heading", "file list"}
                              /\ \A k \in 1..(h - 1) : text[k].kind # "file list"}}

\* collect_allow_list and AllowList.contains
AllowList(text) == FileListOf(text) \cup Infra

\* measure_diff: all of the diff; nothing when git fails.  With a File List,
\* measure_diff_per_file and partition_per_file: what is in scope counts, and
\* the rest is out of scope.
InScope(diff, text) ==
  IF FileListOf(text) = {} THEN DOMAIN diff ELSE DOMAIN diff \cap AllowList(text)
LinesOf(diff, fs) == MapThenSumSet(LAMBDA p : diff[p], fs)

\* gate_verdict: a file out of scope, or too many lines in scope.
DiffRefused(diff, text) ==
  DOMAIN diff \ InScope(diff, text) # {} \/ LinesOf(diff, InScope(diff, text)) > MaxLines

-----------------------------------------------------------------------------
Hear(l) ==
  /\ at \in {"spec", "quality"} /\ Len(stream) < MaxStream /\ stream' = Append(stream, l)
  /\ metrics' = Gathered(l)
  /\ UNCHANGED <<at, spec, specMetrics, try, runnerLog, critical, errors, answer, queries, passed, scope>>

\* _run_merge_gate_spec_stage ends; the quality stage is run on approve only.
EndSpec ==
  /\ at = "spec" /\ spec' = stream /\ stream' = <<>> /\ specMetrics' = metrics /\ metrics' = NoCounts
  /\ at' = IF SpecVerdict(stream) = "approve" THEN "quality" ELSE "judged"
  /\ UNCHANGED <<try, runnerLog, critical, errors, answer, queries, passed, scope>>

EndQuality ==
  /\ at = "quality" /\ at' = "judged"
  /\ UNCHANGED <<stream, metrics, spec, specMetrics, try, runnerLog, critical, errors, answer, queries, passed, scope>>

Gate == GateOf(spec, stream)
SpecOnly == SpecVerdict(spec) # "approve"

\* code_review_subscriber: an error is a failure of the review; the gate is run
\* once more, and at last a human is asked instead of a verdict emitted.
RetryGate ==
  /\ at = "judged" /\ Gate = "error" /\ errors' = errors + 1
  /\ IF try <= ErrorRetry
     THEN /\ at' = "spec" /\ try' = try + 1 /\ stream' = <<>> /\ metrics' = NoCounts
          /\ spec' = <<>> /\ specMetrics' = NoCounts /\ UNCHANGED queries
     ELSE /\ at' = "over" /\ queries' = queries \cup {"code_review_error"}
          /\ UNCHANGED <<try, stream, metrics, spec, specMetrics>>
  /\ UNCHANGED <<runnerLog, critical, answer, passed, scope>>

\* A spec stage that does not approve is the verdict, past all gates.
EmitSpecVerdict ==
  /\ at = "judged" /\ Gate # "error" /\ SpecOnly /\ at' = "over" /\ answer' = Gate
  /\ UNCHANGED <<stream, metrics, spec, specMetrics, try, runnerLog, critical, errors, queries, passed, scope>>

Held == Metrics.said /\ Forbidden(Metrics)

Compliance ==
  /\ at = "judged" /\ ~SpecOnly /\ Gate # "error" /\ Held
  /\ at' = "over" /\ queries' = queries \cup {"compliance_violation"}
  /\ UNCHANGED <<stream, metrics, spec, specMetrics, try, runnerLog, critical, errors, answer, passed, scope>>

\* The gates that turn an approve to reject; iteration and overridden are of
\* the WORKER_COMPLETED payload.  A diff policy that does not load and a git
\* that fails leave the diff unmeasured.
EmitVerdict ==
  /\ at = "judged" /\ ~SpecOnly /\ Gate # "error" /\ ~Held
  /\ \E diff \in Diffs, text \in StoryText, iteration \in 1..(IterationCap + 1), measured, overridden \in BOOLEAN :
       LET m == Metrics
           tripped == \/ m.said /\ (P0Short(m) \/ TestsShort(m))
                      \/ TooManyRounds(iteration)
                      \/ Summary(spec, stream) = "banned"
                      \/ measured /\ DiffRefused(diff, text)
           v == IF Gate = "approve" /\ tripped THEN "reject" ELSE Gate
       IN /\ answer' = v
          /\ queries' = IF overridden /\ v # "approve" THEN queries \cup {"both_reviewers_rejected"} ELSE queries
          /\ at' = IF v = "approve" THEN "cleared" ELSE "over"
          /\ scope' = IF measured /\ v = "approve" THEN [measured |-> TRUE, diff |-> diff, text |-> text] ELSE Unmeasured
  /\ UNCHANGED <<stream, metrics, spec, specMetrics, try, runnerLog, critical, errors, passed>>

-----------------------------------------------------------------------------
\* _read_story_file: the first of the two that exists, even if it cannot be read.
StoryRead(own, legacy) == IF own # "absent" THEN own ELSE legacy

\* is_security_critical: front matter, epic, keywords of the story, of the diff.
SecurityTrigger(story, epic, diffHit) == story \in {"flagged", "hit"} \/ epic \/ diffHit

\* security_review_subscriber, up to its runner.  A policy that does not load or
\* is off leaves the approve as it is, with no SECURITY_REVIEW_PASSED.
ScreenSecurity ==
  /\ at = "cleared" /\ try' = 1 /\ stream' = <<>> /\ metrics' = NoCounts
  /\ \E own, legacy \in StoryFile, epic, diffHit, policyOn \in BOOLEAN :
       LET hit == SecurityTrigger(StoryRead(own, legacy), epic, diffHit)
       IN /\ critical' = (policyOn /\ hit)
          /\ at' = IF critical' THEN "security" ELSE "over"
          /\ passed' = (policyOn /\ ~hit)
  /\ UNCHANGED <<spec, specMetrics, runnerLog, errors, answer, queries, scope>>

HearSecurity(l) ==
  /\ at = "security" /\ Len(stream) < MaxStream /\ stream' = Append(stream, l)
  /\ UNCHANGED <<at, metrics, spec, specMetrics, try, runnerLog, critical, errors, answer, queries, passed, scope>>

\* parse_security_verdict_from_event; _real_security_review_runner keeps the last.
SecVerdictOf(l) == IF l.key # Unsaid THEN l.key ELSE l.text
Found(s) == {i \in DOMAIN s : SecVerdictOf(s[i]) # Unsaid}

Finding(s) == IF Found(s) = {} THEN "error" ELSE SecVerdictOf(s[Max(Found(s))])

\* parse_security_runner_fallback
FromLog == CASE LogVerdict = "approve" -> "approve" [] LogVerdict = "request_changes" -> "merge_with_fixes"
             [] LogVerdict = "reject" -> "block" [] OTHER -> "error"

EndSecurity ==
  /\ at = "security"
  /\ LET ans == Finding(stream)
         v   == IF ans = "error" THEN FromLog ELSE ans
     IN /\ errors' = IF ans = "error" THEN errors + 1 ELSE errors
        /\ IF ans = "error" /\ try <= ErrorRetry
           THEN try' = try + 1 /\ stream' = <<>> /\ UNCHANGED <<at, answer, queries, passed>>
           ELSE /\ at' = "over" /\ UNCHANGED <<try, stream>>
                /\ IF v \in {"approve", "merge_with_fixes"}
                   THEN passed' = TRUE /\ UNCHANGED <<answer, queries>>
                   ELSE /\ answer' = "reject" /\ UNCHANGED passed
                        /\ queries' = queries \cup {IF v = "block" THEN "security_review_block"
                                                    ELSE "security_review_error"}
  /\ UNCHANGED <<metrics, spec, specMetrics, runnerLog, critical, scope>>

-----------------------------------------------------------------------------
ReviewNext ==
  \/ \E l \in Line : Hear(l)
  \/ EndSpec \/ EndQuality \/ RetryGate \/ EmitSpecVerdict \/ Compliance \/ EmitVerdict
  \/ ScreenSecurity \/ EndSecurity
  \/ \E l \in SecLine : HearSecurity(l)

ReviewSpec == ReviewInit /\ [][ReviewNext]_reviewVars

-----------------------------------------------------------------------------
Silent(s) == \A i \in DOMAIN s : VerdictOf(s[i]) = Unsaid

\* An approve the code review lets through is earned: the runner's newest word
\* gives it where a reviewer said nothing; no line of the stage whose numbers
\* count, by itself, names a tag of the policy or an unfinished test; and of a
\* measured diff of a story with a File List, what is in neither the list nor
\* the infra paths is nothing (agent/run.py, code_review_subscriber).
ApproveIsEarned ==
  at = "cleared" =>
    LET counting == IF \A i \in DOMAIN stream : ~MetricsOf(stream[i]).said THEN spec ELSE stream
        listed   == {scope.text[i].path : i \in DOMAIN scope.text}
    IN /\ Silent(spec) \/ Silent(stream) =>
            \E i \in DOMAIN runnerLog : runnerLog[i] = "PASS" /\ \A j \in 1..(i - 1) : runnerLog[j] = Unsaid
       /\ \A i \in DOMAIN counting : MetricsOf(counting[i]).said =>
            MetricsOf(counting[i]).tags \cap PolicyTags = {} /\ MetricsOf(counting[i]).todo = 0
       /\ FileListOf(scope.text) # {} => DOMAIN scope.diff \subseteq listed \cup Infra

=============================================================================
