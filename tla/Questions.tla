------------------------------ MODULE Questions ------------------------------
(***************************************************************************)
(* Who answers a question.  A worker's elicitation is decided by the       *)
(* engine (elicitation/engine.py, runtime/elicitation_routing.py): a rule  *)
(* or a judge answers it, or a human is asked.  A user's message, and such *)
(* a question, goes to the intent router (agent/run.py,                    *)
(* human_query_subscriber), which spends on the budget all LLM calls share *)
(* (agent/safety/budget_guard.py) and may run tools.                       *)
(*                                                                         *)
(* Subscribers of one bus run one at a time: call is the router's call     *)
(* while it is awaited, and only the spend of workers moves in between.    *)
(***************************************************************************)
EXTENDS Naturals, Sequences, FiniteSets, SequencesExt

CONSTANTS Payload,   \* elicitations: [story, words, topics, files]
          NoStory,
          Hard,      \* defaults.hard_escalate_keywords
          Rules,     \* sequence of [topics, words, files, action]
          UnknownAction, \* defaults.unknown_topic_action
          MaxAuto,   \* defaults.max_auto_resolve_per_story
          Judged,    \* what the judge may say: [risk, action]
          Blocks,    \* contents of a response: sequences of [kind, tool, fate]
          Whitelist, \* INTENT_ROUTER_TOOL_WHITELIST
          Registered,\* the names of ALL_TOOLS
          Cost,      \* costs of a call
          DailyLimit,  \* daily_limit_usd
          MaxAsked   \* bound: events

ASSUME QuestionsAssumption == MaxAuto \in Nat /\ DailyLimit \in Nat /\ MaxAsked \in Nat

VARIABLES asked,   \* the events emitted so far: the n-th has the correlation id n
          next,    \* the event the bus dispatches next
          call,    \* "none", or the router awaits messages.create
          auto,    \* _auto_resolve_counts
          audit,   \* the rows of control.events.jsonl
          told,    \* HUMAN_RESPONSE events: [corr, what]
          ran,     \* tools that were run: [corr, tool]
          lost,    \* events whose subscriber raised
          total,   \* _attributed_total
          alarms   \* BUDGET_THRESHOLD_HIT events

questionsVars == <<asked, next, call, auto, audit, told, ran, lost, total, alarms>>

QuestionsInit ==
  /\ asked = <<>> /\ next = 1 /\ call = "none"
  /\ auto = [s \in {p.story : p \in Payload} |-> 0] /\ audit = <<>>
  /\ told = {} /\ ran = {} /\ lost = {} /\ total = 0 /\ alarms = 0

-----------------------------------------------------------------------------
Emitted(e) == Len(asked) < MaxAsked /\ asked' = Append(asked, e)

\* A chat message of a user, and the elicitation of a worker.
Write ==
  /\ Emitted([type |-> "chat"])
  /\ UNCHANGED <<next, call, auto, audit, told, ran, lost, total, alarms>>
WorkerAsks(p) ==
  /\ Emitted([type |-> "elicitation", payload |-> p])
  /\ UNCHANGED <<next, call, auto, audit, told, ran, lost, total, alarms>>

Dispatched(type) == next <= Len(asked) /\ asked[next].type = type /\ call = "none"

-----------------------------------------------------------------------------
\* _check_hard_override: a keyword in the question or in its topics.
HardOverride(p) == (p.words \cup p.topics) \cap Hard # {}

\* The cap is looked at only where there is a story.
Capped(p) == p.story # NoStory /\ auto[p.story] >= MaxAuto

\* _match_rule: the first with a topic, a word or a file of the question.
Hits(p) == SelectSeq(Rules, LAMBDA r : \/ r.topics \cap p.topics # {}
                                      \/ r.words \cap p.words # {}
                                      \/ r.files \cap p.files # {})

\* Mutant: the rules are asked before the cap.
RulesFirst(p) ==
  IF HardOverride(p) THEN {"escalate"}
  ELSE IF Hits(p) # <<>> THEN {IF Head(Hits(p)).action = "auto_resolve" THEN "auto_resolve" ELSE "escalate"}
  ELSE {"escalate"}

\* ElicitationEngine.decide: what it may decide.  A conditional rule escalates,
\* and so does a judge that sees a high risk, whatever it advises.
Decide(p) ==
  IF HardOverride(p) \/ Capped(p) THEN {"escalate"}
  ELSE IF Hits(p) # <<>> THEN {IF Head(Hits(p)).action = "auto_resolve" THEN "auto_resolve" ELSE "escalate"}
  ELSE IF UnknownAction = "escalate" THEN {"escalate"}
  ELSE {IF v.risk = "high" THEN "escalate" ELSE v.action : v \in Judged}

\* elicitation_subscriber: the decision is counted (_track) and written down;
\* the question to the human has neither a chat, nor an id, nor a text.
Elicit ==
  /\ Dispatched("elicitation") /\ next' = next + 1
  /\ LET p == asked[next].payload
     IN \E action \in Decide(p) :
          /\ audit' = Append(audit, [payload |-> p, action |-> action])
          /\ auto' = IF action = "auto_resolve" /\ p.story # NoStory THEN [auto EXCEPT ![p.story] = @ + 1] ELSE auto
          /\ asked' = IF action = "escalate" THEN Append(asked, [type |-> "human_query"]) ELSE asked
  /\ UNCHANGED <<call, told, ran, lost, total, alarms>>

-----------------------------------------------------------------------------
\* _stub_human_response
Stub == told' = told \cup {[corr |-> next, what |-> "stub"]} /\ next' = next + 1

\* _publish: the day's limit is alarm and halt in one.
Published(t) == alarms' = IF t >= DailyLimit THEN alarms + 1 ELSE alarms

\* human_query_subscriber up to the call.  The skills of a chat message are
\* loaded outside of any try, and so is the client made.
Route(type) ==
  /\ Dispatched(type) /\ type \in {"chat", "human_query"}
  /\ \/ /\ Stub /\ UNCHANGED <<call, lost, alarms>>          \* no key, or not configured; no skill body
     \/ /\ total >= DailyLimit /\ alarms' = alarms + 1 /\ Stub /\ UNCHANGED <<call, lost>>
     \/ /\ total < DailyLimit /\ call' = "awaited" /\ UNCHANGED <<next, told, lost, alarms>>
     \/ /\ total < DailyLimit \/ type = "chat"                \* SkillError, OSError; the client factory
        /\ lost' = lost \cup {next} /\ next' = next + 1 /\ UNCHANGED <<call, told, alarms>>
  /\ UNCHANGED <<asked, auto, audit, ran, total>>

CallFails ==
  /\ call = "awaited" /\ call' = "none" /\ Stub
  /\ UNCHANGED <<asked, auto, audit, ran, lost, total, alarms>>

\* Mutant: any tool that exists is run.
AnyTool(bs) == {i \in DOMAIN bs : bs[i].kind = "tool" /\ bs[i].tool \in Registered}

\* The blocks the router acts on: tools of the whitelist that exist.
Usable(bs) == {i \in DOMAIN bs : bs[i].kind = "tool" /\ bs[i].tool \in Whitelist \cap Registered}

\* The response: its cost is charged, its blocks are walked.  A tool's failure
\* is told as its result; an exception that is none of the five caught ends the
\* walk and the subscriber, after the tools before it have run.
Respond ==
  /\ call = "awaited" /\ call' = "none" /\ next' = next + 1
  /\ \E bs \in Blocks, c \in Cost :
       LET raising == {i \in Usable(bs) : bs[i].fate = "raises"}
           walked  == {i \in Usable(bs) : \A j \in raising : i <= j}
       IN /\ total' = total + c /\ Published(total + c)
          /\ ran' = ran \cup {[corr |-> next, tool |-> bs[i].tool] : i \in walked}
          /\ IF raising # {} THEN lost' = lost \cup {next} /\ UNCHANGED told
             ELSE /\ told' = told \cup {[corr |-> next, what |-> IF walked # {} THEN "tools" ELSE "text"]}
                  /\ UNCHANGED lost
  /\ UNCHANGED <<asked, auto, audit>>

\* attribute_usd for a worker, whose tail runs in another task.
WorkerSpends(c) ==
  /\ total < DailyLimit /\ total' = total + c /\ Published(total + c)
  /\ UNCHANGED <<asked, next, call, auto, audit, told, ran, lost>>

-----------------------------------------------------------------------------
QuestionsNext ==
  \/ Write \/ \E p \in Payload : WorkerAsks(p)
  \/ Elicit
  \/ \E type \in {"chat", "human_query"} : Route(type)
  \/ CallFails \/ Respond
  \/ \E c \in Cost : WorkerSpends(c)

QuestionsSpec == QuestionsInit /\ [][QuestionsNext]_questionsVars

-----------------------------------------------------------------------------
\* Of the rows: those that answered a question of story s, and those that
\* handed one to a human.
AutoRows(s) == {i \in DOMAIN audit : audit[i].action = "auto_resolve" /\ audit[i].payload.story = s}
EscalateRows == {i \in DOMAIN audit : audit[i].action = "escalate"}

\* However its questions come, a story has at most MaxAuto of them answered
\* without a human, and never one with a hard keyword; and each of the others
\* is asked of a human (ElicitationEngine.decide, elicitation_subscriber).
HumansDecide ==
  /\ \A s \in DOMAIN auto \ {NoStory} : Cardinality(AutoRows(s)) <= MaxAuto
  /\ \A i \in DOMAIN audit : audit[i].action = "auto_resolve" => ~HardOverride(audit[i].payload)
  /\ Cardinality(EscalateRows) = Cardinality({i \in DOMAIN asked : asked[i].type = "human_query"})

\* A question the router has dealt with has one answer, or none where the
\* subscriber raised; what was run for it is told by its answer; and only what
\* the whitelist names is run (human_query_subscriber, _dispatch_intent_router).
OneReply ==
  /\ \A n \in 1..(next - 1) : asked[n].type # "elicitation" =>
       Cardinality({t \in told : t.corr = n}) = (IF n \in lost THEN 0 ELSE 1)
  /\ \A r \in ran : r.corr \in lost \/ [corr |-> r.corr, what |-> "tools"] \in told
  /\ {r.tool : r \in ran} \subseteq Whitelist

=============================================================================
