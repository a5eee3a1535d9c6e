----------------------------- MODULE BotBridge ------------------------------
(***************************************************************************)
(* The bridge between the Telegram bot and the agent's process             *)
(* (bot/handlers.py, bot/main.py, agent/run.py, state/db.py and two tools  *)
(* of agent/tools/operational.py): both get the id of an agent_session     *)
(* from their environment or look up or create one; a call of              *)
(* forward_to_agent puts a query in event_queue and polls that table for   *)
(* its response.                                                           *)
(*                                                                         *)
(* The bot is one asyncio loop.  Each call has a task of its own that      *)
(* polls and may claim rows of other calls.  An action is what happens     *)
(* between two awaits, or one transaction.  What answers queries is        *)
(* external to the code.                                                   *)
(***************************************************************************)
EXTENDS Naturals, FiniteSets, SequencesExt

CONSTANTS Call,        \* calls of forward_to_agent, named by their corr_id
          Chat, ChatOf,
          NoCall,
          Wave,        \* waves an orchestrator may be started for
          Project,     \* spellings of target_project
          ProjectOf,   \* the one each process uses: bot a path, agent a slug
          InflightCap, PerChatCap,
          MaxReenqueue,\* _MAX_REENQUEUE_ATTEMPTS
          MaxStarts,   \* bound: times a process may be started
          MaxSessions  \* bound: rows of agent_session before start_wave

Proc == {"bot", "agent"}

ASSUME BridgeAssumption ==
  /\ IsFiniteSet(Call) /\ NoCall \notin Call /\ {"no", "any"} \cap Wave = {}
  /\ ChatOf \in [Call -> Chat] /\ ProjectOf \in [Proc -> Project]
  /\ InflightCap \in Nat /\ PerChatCap \in Nat /\ MaxReenqueue \in Nat
  /\ MaxStarts \in [Proc -> Nat] /\ MaxSessions \in Nat

VARIABLES sessions, \* agent_session: project and wave of each row
          ended,    \* rows that are no longer running
          looking,  \* looking[p]: what p looks for, "no" when it does not
          found,    \* found[p]: sessions its SELECT may return
          attached, \* attached[p]: its session, or 0
          starts,   \* how often each was started
          pc,       \* pc[q]: "idle", "enqueue", "wait", "return", "over"
          pending,  \* calls in _HUMAN_RESPONSES
          future,   \* future[q]: "open", "cancelled", or the call answered
          outcome,
          poller,   \* calls whose poll task runs
          hand,     \* hand[q]: the call whose response its poll task claimed
          tries,    \* tries[q]: re_enqueue_attempts of its poll task
          rows,     \* unconsumed rows of event_queue, oldest first
          asked,    \* queries the agent has claimed and not answered
          said      \* history: calls the agent has answered

session == <<sessions, ended, looking, found, attached, starts>>
call    == <<pc, pending, future, outcome>>
poll    == <<poller, hand, tries>>
agent   == <<asked, said>>
vars    == <<session, call, poll, rows, agent>>

Row(k, s, q) == [kind |-> k, sess |-> s, call |-> q]

Init ==
  /\ sessions = <<>> /\ ended = {} /\ looking = [p \in Proc |-> "no"] /\ found = [p \in Proc |-> {}]
  /\ attached = [p \in Proc |-> 0] /\ starts = [p \in Proc |-> 0]
  /\ pc = [q \in Call |-> "idle"] /\ pending = {} /\ future = [q \in Call |-> "open"]
  /\ outcome = [q \in Call |-> "none"]
  /\ poller = {} /\ hand = [q \in Call |-> NoCall] /\ tries = [q \in Call |-> [r \in Call |-> 0]]
  /\ rows = <<>> /\ asked = {} /\ said = {}

-----------------------------------------------------------------------------
Session(r, w) == [project |-> r, wave |-> w]

Starting(p) ==
  /\ looking[p] = "no" /\ attached[p] = 0
  /\ starts[p] < MaxStarts[p] /\ starts' = [starts EXCEPT ![p] = @ + 1]

\* The environment names a row: it is only asked whether it exists.
AttachFromEnv(p) ==
  /\ Starting(p)
  /\ \E s \in DOMAIN sessions : attached' = [attached EXCEPT ![p] = s]
  /\ UNCHANGED <<sessions, ended, looking, found, call, poll, rows, agent>>

\* resolve_or_create_session.  The bot does not name a wave.
Live == DOMAIN sessions \ ended
Matching(p, w) ==
  {s \in Live : sessions[s].project = ProjectOf[p] /\ w \in {"any", sessions[s].wave}}

\* Mutant: a deferred transaction takes no lock at its BEGIN.
NothingLocked == TRUE

Unlocked == \A p \in Proc : looking[p] = "no"

\* BEGIN IMMEDIATE takes the write lock; then the SELECT.
Begin(p, w) ==
  /\ Unlocked /\ Starting(p)
  /\ looking' = [looking EXCEPT ![p] = w]
  /\ found' = [found EXCEPT ![p] = Matching(p, w)]
  /\ UNCHANGED <<sessions, ended, attached, call, poll, rows, agent>>

Fresh(p) == Session(ProjectOf[p], IF looking[p] = "any" THEN "default" ELSE looking[p])

\* The newest is taken; started_at counts seconds, so that any may tie.
Attach(p) ==
  /\ looking[p] # "no"
  /\ \/ \E s \in found[p] : attached' = [attached EXCEPT ![p] = s] /\ UNCHANGED sessions
     \/ /\ found[p] = {}
        /\ sessions' = Append(sessions, Fresh(p))
        /\ attached' = [attached EXCEPT ![p] = Len(sessions')]
  /\ looking' = [looking EXCEPT ![p] = "no"] /\ found' = [found EXCEPT ![p] = {}]
  /\ UNCHANGED <<ended, starts, call, poll, rows, agent>>

\* A statement raises and is rolled back: the process goes on without bridge.
ResolveFails(p) ==
  /\ looking[p] # "no"
  /\ looking' = [looking EXCEPT ![p] = "no"] /\ found' = [found EXCEPT ![p] = {}]
  /\ UNCHANGED <<sessions, ended, attached, starts, call, poll, rows, agent>>

\* start_wave, a tool of the agent: a new row, whatever is running.
StartWave(r, w) ==
  /\ attached["agent"] # 0 /\ Unlocked /\ Len(sessions) < MaxSessions
  /\ sessions' = Append(sessions, Session(r, w))
  /\ UNCHANGED <<ended, looking, found, attached, starts, call, poll, rows, agent>>

\* stop_orchestrator: a SELECT without a lock, then the UPDATEs; rows inserted
\* in between stay, and no attached process is told.
StopAll ==
  /\ attached["agent"] # 0 /\ Unlocked
  /\ ended' \in {ended \cup (Live \cap 1..n) : n \in DOMAIN sessions}
  /\ UNCHANGED <<sessions, looking, found, attached, starts, call, poll, rows, agent>>

-----------------------------------------------------------------------------
OfChat(c) == {q \in pending : ChatOf[q] = c}

Full(q) == \/ Cardinality(pending) >= InflightCap
           \/ Cardinality(OfChat(ChatOf[q])) >= PerChatCap

Finish(q, how) ==
  /\ outcome' = [outcome EXCEPT ![q] = how] /\ pc' = [pc EXCEPT ![q] = "over"]

\* A poll task ends, with the row it may hold and its counts.
EndPoll(q) ==
  /\ poller' = poller \ {q} /\ hand' = [hand EXCEPT ![q] = NoCall]
  /\ tries' = [tries EXCEPT ![q] = [r \in Call |-> 0]]

Refuse(q) ==
  /\ attached["bot"] # 0 /\ pc[q] = "idle" /\ Full(q)
  /\ Finish(q, "refused")
  /\ UNCHANGED <<session, pending, future, poll, rows, agent>>

\* Under the lock, which nobody holds across an await.
Ask(q) ==
  /\ attached["bot"] # 0 /\ pc[q] = "idle" /\ ~Full(q)
  /\ pc' = [pc EXCEPT ![q] = "enqueue"] /\ pending' = pending \cup {q}
  /\ UNCHANGED <<session, future, outcome, poll, rows, agent>>

EnqueueQuery(q) ==
  /\ pc[q] = "enqueue" /\ pc' = [pc EXCEPT ![q] = "wait"]
  /\ rows' = Append(rows, Row("query", attached["bot"], q))
  /\ poller' = poller \cup {q}
  /\ UNCHANGED <<session, pending, future, outcome, hand, tries, agent>>

\* The insert raises (the database is locked).
EnqueueFails(q) ==
  /\ pc[q] = "enqueue" /\ Finish(q, "gave_up")
  /\ pending' = pending \ {q}
  /\ UNCHANGED <<session, future, poll, rows, agent>>

\* wait_for gives up; the call goes on when the loop comes to it.
TimeOut(q) ==
  /\ pc[q] = "wait" /\ future[q] = "open"
  /\ future' = [future EXCEPT ![q] = "cancelled"]
  /\ UNCHANGED <<session, pc, pending, outcome, poll, rows, agent>>

\* The two finally: the poll task is cancelled and the slot is given back.
Return(q) ==
  /\ pc[q] = "wait" /\ future[q] # "open"
  /\ Finish(q, IF future[q] = "cancelled" THEN "gave_up" ELSE future[q])
  /\ pending' = pending \ {q} /\ EndPoll(q)
  /\ UNCHANGED <<session, future, rows, agent>>

-----------------------------------------------------------------------------
\* The oldest unconsumed row of a kind in a session.
Oldest(k, s, i) ==
  /\ i \in DOMAIN rows /\ rows[i].kind = k /\ rows[i].sess = s
  /\ \A j \in 1..(i - 1) : ~(rows[j].kind = k /\ rows[j].sess = s)

\* claim_next_event_of_type: one statement consumes and returns the row.
Claim(q) ==
  /\ q \in poller /\ hand[q] = NoCall
  /\ \E i \in DOMAIN rows :
       /\ Oldest("response", attached["bot"], i)
       /\ hand' = [hand EXCEPT ![q] = rows[i].call]
       /\ rows' = RemoveAt(rows, i)
  /\ UNCHANGED <<session, call, poller, tries, agent>>

\* Mutant: whatever is claimed is taken for the answer.
DeliverAny(q) ==
  /\ hand[q] # NoCall
  /\ future' = [future EXCEPT ![q] = IF @ = "open" THEN hand[q] ELSE @]
  /\ pending' = pending \ {q} /\ EndPoll(q)
  /\ UNCHANGED <<session, pc, outcome, rows, agent>>

\* deliver_human_response; the poll task is done.
Deliver(q) ==
  /\ hand[q] = q
  /\ future' = [future EXCEPT ![q] = IF @ = "open" THEN q ELSE @]
  /\ pending' = pending \ {q} /\ EndPoll(q)
  /\ UNCHANGED <<session, pc, outcome, rows, agent>>

Foreign(q) == hand[q] \notin {NoCall, q}

Reenqueue(q) ==
  /\ Foreign(q) /\ tries[q][hand[q]] < MaxReenqueue
  /\ tries' = [tries EXCEPT ![q][hand[q]] = @ + 1]
  /\ rows' = Append(rows, Row("response", attached["bot"], hand[q]))
  /\ hand' = [hand EXCEPT ![q] = NoCall]
  /\ UNCHANGED <<session, call, poller, agent>>

DropOrphan(q) ==
  /\ Foreign(q) /\ tries[q][hand[q]] >= MaxReenqueue
  /\ hand' = [hand EXCEPT ![q] = NoCall]
  /\ UNCHANGED <<session, call, poller, tries, rows, agent>>

\* A transaction of the poll task raises, and nobody looks at the task; or its
\* deadline passes.
PollDies(q) ==
  /\ q \in poller /\ EndPoll(q)
  /\ UNCHANGED <<session, call, rows, agent>>

-----------------------------------------------------------------------------
\* External: what answers queries, written as the tests write it.
ClaimQuery ==
  /\ attached["agent"] # 0
  /\ \E i \in DOMAIN rows :
       /\ Oldest("query", attached["agent"], i)
       /\ asked' = asked \cup {rows[i].call}
       /\ rows' = RemoveAt(rows, i)
  /\ UNCHANGED <<session, call, poll, said>>

Answer(q) ==
  /\ q \in asked /\ asked' = asked \ {q} /\ said' = said \cup {q}
  /\ rows' = Append(rows, Row("response", attached["agent"], q))
  /\ UNCHANGED <<session, call, poll>>

-----------------------------------------------------------------------------
\* The agent's process ends; a later one may be of another wave.
AgentEnds ==
  /\ attached["agent"] # 0 /\ attached' = [attached EXCEPT !["agent"] = 0]
  /\ asked' = {}
  /\ UNCHANGED <<sessions, ended, looking, found, starts, call, poll, rows, said>>

Running == {q \in Call : pc[q] \in {"enqueue", "wait"}}

\* The bot dies with everything but the tables.
BotDies ==
  /\ attached["bot"] # 0 /\ attached' = [attached EXCEPT !["bot"] = 0]
  /\ pc' = [q \in Call |-> IF q \in Running THEN "over" ELSE pc[q]]
  /\ outcome' = [q \in Call |-> IF q \in Running THEN "gave_up" ELSE outcome[q]]
  /\ pending' = {} /\ poller' = {} /\ hand' = [q \in Call |-> NoCall]
  /\ tries' = [q \in Call |-> [r \in Call |-> 0]]
  /\ UNCHANGED <<sessions, ended, looking, found, starts, future, rows, agent>>

Next == \/ Begin("bot", "any") \/ \E w \in Wave : Begin("agent", w)
        \/ \E p \in Proc : AttachFromEnv(p) \/ Attach(p) \/ ResolveFails(p)
        \/ \E r \in Project : \E w \in Wave : StartWave(r, w)
        \/ StopAll
        \/ \E q \in Call : \/ Refuse(q) \/ Ask(q) \/ EnqueueQuery(q) \/ EnqueueFails(q)
                           \/ TimeOut(q) \/ Return(q) \/ Claim(q) \/ Deliver(q)
                           \/ Reenqueue(q) \/ DropOrphan(q) \/ PollDies(q) \/ Answer(q)
        \/ ClaimQuery \/ AgentEnds \/ BotDies

Spec == Init /\ [][Next]_vars

-----------------------------------------------------------------------------
SessionType == [project : Project, wave : Wave \cup {"default"}]
RowType == [kind : {"query", "response"}, sess : 1..Len(sessions), call : Call]

TypeOK ==
  /\ sessions \in Seq(SessionType)
  /\ ended \subseteq 1..Len(sessions)
  /\ looking \in [Proc -> Wave \cup {"no", "any"}]
  /\ found \in [Proc -> SUBSET (1..Len(sessions))]
  /\ attached \in [Proc -> 0..Len(sessions)]
  /\ starts \in [Proc -> Nat] /\ \A p \in Proc : starts[p] <= MaxStarts[p]
  /\ pc \in [Call -> {"idle", "enqueue", "wait", "over"}]
  /\ pending \subseteq Call /\ poller \subseteq Call /\ asked \subseteq Call /\ said \subseteq Call
  /\ future \in [Call -> Call \cup {"open", "cancelled"}]
  /\ outcome \in [Call -> Call \cup {"none", "refused", "gave_up"}]
  /\ hand \in [Call -> Call \cup {NoCall}]
  /\ tries \in [Call -> [Call -> 0..MaxReenqueue]]
  /\ rows \in Seq(RowType)

\* A slot is held exactly as long as its call, however the call ends, and no
\* poll task outlives it.
NoLeak ==
  /\ pending \subseteq Running /\ poller \subseteq Running
  /\ \A q \in Call : hand[q] # NoCall => q \in poller
  /\ Cardinality(pending) <= InflightCap
  /\ \A c \in Chat : Cardinality(OfChat(c)) <= PerChatCap

\* A process that looks for its session joins a running one; it inserts a row
\* only if none it would accept is running, whatever is started or stopped
\* meanwhile.
JoinsRunning ==
  [][\A p \in Proc : looking[p] # "no" /\ attached'[p] # 0 =>
       /\ attached'[p] \in Live'
       /\ sessions' # sessions => Matching(p, looking[p]) = {}]_vars

\* A call returns once, and with the answer the agent gave to that call,
\* however many poll tasks claim and put back one another's responses.
AbstractAskOnce == INSTANCE AskOnce
Implements == AbstractAskOnce!Spec

=============================================================================
