------------------------------ MODULE MCParts -------------------------------
(***************************************************************************)
(* The parts that share no state with each other, each a specification of  *)
(* its own, explored by one run: part says which of them runs, and the     *)
(* others rest in one of their initial states.                             *)
(***************************************************************************)
EXTENDS BudgetLedger, SubStories, MergeToken, Fleet, Dag, Review, Questions, Sandbox, Homes,
        Mock, Flows, TLC

CONSTANTS p1, p2, p3, k1, k2

VARIABLE part

MCProjectOf == [o \in Orch |-> "p"]

\* What reviewers say: a plain approve; an approve of the text only, with
\* numbers and a summary that is banned; a line of metrics alone; flat metrics
\* with a tag of the policy; a reject.
Counts(found0, fixed0, tests0, todo0, expected0, tags0) ==
  [said |-> TRUE, found |-> found0, fixed |-> fixed0, tests |-> tests0,
   todo |-> todo0, expected |-> expected0, tags |-> tags0]
Said(key0, text0, summary0, object0) ==
  [key |-> key0, text |-> text0, summary |-> summary0, object |-> object0, flat |-> NoCounts]
MCLine ==
  {Said("approve", Unsaid, "plain", NoCounts),
   Said("junk", "approve", "banned", Counts(2, 2, 1, 0, 1, {})),
   Said(Unsaid, Unsaid, "", Counts(0, 0, 0, 1, 1, {})),
   [Said(Unsaid, Unsaid, "", NoCounts) EXCEPT !.flat = Counts(1, 0, 1, 0, 0, {"gdpr"})],
   Said("reject", Unsaid, "plain", NoCounts)}
MCLogs == {<<>>, <<"PASS">>, <<Unsaid, "BLOCKED">>, <<"NEEDS-FIX", "PASS">>}

\* A story without a File List, and one with a bullet before and one after it.
MCText ==
  {<<>>,
   <<[kind |-> "bullet", path |-> "p"], [kind |-> "file list", path |-> ""],
     [kind |-> "bullet", path |-> "q"], [kind |-> "heading", path |-> ""],
     [kind |-> "bullet", path |-> "z"]>>}
MCDiffs == {"p" :> 1, "q" :> 2, ("q" :> 2) @@ ("i" :> 3), ("q" :> 1) @@ ("z" :> 1)}
MCSecLine == {[key |-> Unsaid, text |-> "approve"], [key |-> "block", text |-> "approve"],
              [key |-> Unsaid, text |-> Unsaid]}

\* A question a rule answers, one with a hard keyword beside it, and one of no
\* story that touches a file of a conditional rule.
Question(story0, words0, topics0, files0) ==
  [story |-> story0, words |-> words0, topics |-> topics0, files |-> files0]
MCPayload == {Question("s", {"color"}, {}, {}), Question("s", {"color"}, {"auth"}, {}),
              Question("none", {}, {"other"}, {"m"})}
MCRules == <<[topics |-> {"db"}, words |-> {}, files |-> {"m"}, action |-> "conditional"],
             [topics |-> {}, words |-> {"color"}, files |-> {}, action |-> "auto_resolve"]>>
MCJudged == {[risk |-> "high", action |-> "auto_resolve"], [risk |-> "low", action |-> "auto_resolve"]}
Block(kind0, tool0, fate0) == [kind |-> kind0, tool |-> tool0, fate |-> fate0]
MCBlocks == {<<>>,
             <<Block("text", "", "ok"), Block("tool", "wave", "ok")>>,
             <<Block("tool", "merge", "ok"), Block("tool", "wave", "fails")>>,
             <<Block("tool", "wave", "ok"), Block("tool", "stop", "raises")>>}

\* Hosts: every wish of the operator, then everything about scopes, then about
\* what is mounted, then where the paths lie, each over a host that is plain
\* otherwise.
PlainHost ==
  [require |-> FALSE, confirmed |-> FALSE, allow |-> FALSE, scopeRequired |-> FALSE,
   scopeOff |-> FALSE, allowFs |-> FALSE, backend |-> "", bwrap |-> "fine", prlimit |-> TRUE,
   scopes |-> TRUE, limits |-> TRUE, docker |-> "out", userns |-> TRUE, pairs |-> TRUE,
   mode |-> "copy", home |-> "unset", has |-> {}, linked |-> TRUE, flags |-> TRUE,
   tmp |-> {}, dark |-> {}, readonly |-> {}]
MCHosts ==
  {[PlainHost EXCEPT !.require = r, !.confirmed = c, !.allow = a, !.backend = b, !.bwrap = w, !.docker = d] :
     r \in BOOLEAN, c \in BOOLEAN, a \in BOOLEAN, b \in {"", "none", "bwrap"},
     w \in {"missing", "old", "fine"}, d \in {"out", "in", "accepted"}}
  \cup {[PlainHost EXCEPT !.scopeRequired = r, !.scopeOff = o, !.scopes = s, !.limits = l, !.prlimit = p, !.pairs = e] :
          r \in BOOLEAN, o \in BOOLEAN, s \in BOOLEAN, l \in BOOLEAN, p \in BOOLEAN, e \in BOOLEAN}
  \cup {[PlainHost EXCEPT !.mode = m, !.userns = u, !.allowFs = f, !.home = t, !.has = x, !.linked = l, !.flags = g] :
          m \in {"copy", "bind", "overlayfs"}, u \in BOOLEAN, f \in BOOLEAN, t \in {"unset", "bad", "fine"},
          x \in SUBSET {".claude", ".claude.json"}, l \in BOOLEAN, g \in BOOLEAN}
  \cup {[PlainHost EXCEPT !.home = t, !.has = x, !.linked = l, !.flags = g, !.tmp = m, !.dark = k, !.readonly = o] :
          t \in {"unset", "fine"}, x \in SUBSET {".claude", ".claude.json"}, l \in BOOLEAN, g \in BOOLEAN,
          m \in {{}, {"worktree", "git"}}, k \in {{}, {"worktree"}, {"git"}, WorkerPaths \ {"worktree", "git"}, WorkerPaths},
          o \in {{}, {"worktree"}, {".claude.json"}, {"phases"}, {".claude", "phases", "flags"}}}

MCNeeds == [s \in {"a", "b", "c", "d"} |->
              CASE s = "c" -> {"a"} [] s = "d" -> {"b", "c"} [] OTHER -> {}]
MCWave == <<"d", "a", "b", "c">>

\* A mock for a failure seen three times, and a real one that is forced.
MCAsks ==
  {[real |-> FALSE, said |-> TRUE, own |-> FALSE, force |-> FALSE, retries |-> 3, unclassified |-> FALSE],
   [real |-> TRUE, said |-> TRUE, own |-> FALSE, force |-> TRUE, retries |-> 0, unclassified |-> FALSE]}

\* The parts with one action or a few initial states; the others.
Stories == <<subVars, dagVars, reviewVars>>
Spaces == <<homeVars, batchVars, sandboxVars>>
Runs == <<tokenVars, fleetVars, questionsVars>>
Waves == <<mockVars, flowVars>>

PartsInit ==
  /\ part \in {"ledger", "split", "token", "fleet", "dag", "review", "questions", "start", "homes", "batch",
             "mock", "flows"}
  /\ Init /\ (part # "ledger" => req \in [Proc -> [key : {k1}, usd : {0}]])
  /\ SubInit /\ (part # "split" => prior = 0)
  /\ TokenInit /\ FleetInit
  /\ (part # "review" => runnerLog = <<>>) /\ ReviewInit
  /\ QuestionsInit
  /\ (part # "start" => host = PlainHost) /\ SandboxInit
  /\ HomesInit /\ BatchInit
  /\ (part # "mock" => doneAtFirst = {} /\ dayLimit = 9) /\ MockInit
  /\ (part # "flows" => setup = [claude |-> TRUE, auto |-> TRUE, epics |-> "fine"]) /\ FlowsInit
  /\ (part # "dag" => declared = {} /\ blocks = {}) /\ DagInit

PartsNext ==
  \/ part = "ledger" /\ Next /\ UNCHANGED <<part, Stories, Runs, Spaces, Waves>>
  \/ part = "split" /\ SubNext /\ UNCHANGED <<part, vars, dagVars, reviewVars, Runs, Spaces, Waves>>
  \/ part = "dag" /\ Break /\ UNCHANGED <<part, vars, subVars, reviewVars, Runs, Spaces, Waves>>
  \/ part = "review" /\ ReviewNext /\ UNCHANGED <<part, vars, subVars, dagVars, Runs, Spaces, Waves>>
  \/ part = "token" /\ TokenNext /\ UNCHANGED <<part, vars, Stories, fleetVars, questionsVars, Spaces, Waves>>
  \/ part = "fleet" /\ FleetNext /\ UNCHANGED <<part, vars, Stories, tokenVars, questionsVars, Spaces, Waves>>
  \/ part = "questions" /\ QuestionsNext /\ UNCHANGED <<part, vars, Stories, tokenVars, fleetVars, Spaces, Waves>>
  \/ part = "start" /\ Start /\ UNCHANGED <<part, vars, Stories, Runs, homeVars, batchVars, Waves>>
  \/ part = "homes" /\ HomesNext /\ UNCHANGED <<part, vars, Stories, Runs, batchVars, sandboxVars, Waves>>
  \/ part = "batch" /\ BatchNext /\ UNCHANGED <<part, vars, Stories, Runs, homeVars, sandboxVars, Waves>>
  \/ part = "mock" /\ MockNext /\ UNCHANGED <<part, vars, Stories, Runs, Spaces, flowVars>>
  \/ part = "flows" /\ FlowsNext /\ UNCHANGED <<part, vars, Stories, Runs, Spaces, mockVars>>

PartsSpec == PartsInit /\ [][PartsNext]_<<part, vars, Stories, Runs, Spaces, Waves>>
=============================================================================
