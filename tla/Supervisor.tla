----------------------------- MODULE Supervisor -----------------------------
(***************************************************************************)
(* The supervisor: runtime/supervisor_subscriber.py takes an event off the *)
(* bus, supervisor/engine.py decides (rate limit, hard rule, LLM judge,    *)
(* circuit breaker) and supervisor/actions.py executes.                    *)
(*                                                                         *)
(* One asyncio task dispatches, holding the bus lock while the subscriber  *)
(* runs; workers, the watchdog and the budget guard put events on the      *)
(* queue whenever they like, and time passes whenever it likes.            *)
(***************************************************************************)
EXTENDS Naturals, Sequences, FiniteSets

CONSTANTS MaxActions,      \* defaults.max_actions_per_minute
          MaxConsecutive,  \* defaults.max_consecutive_escalations
          FailSafe,        \* defaults.fail_safe_on_judge_error
          DrainPending,    \* defaults.abort_pipeline_drain_pending
          MaxEvents        \* bound of the model: events from outside

ASSUME SupervisorAssumption ==
  /\ MaxActions \in Nat \ {0} /\ MaxConsecutive \in Nat \ {0}
  /\ FailSafe \in BOOLEAN /\ DrainPending \in BOOLEAN
  /\ MaxEvents \in Nat

\* "technical" is a HUMAN_QUERY about a review that failed technically, "own"
\* any event the supervisor emitted; "completed" stands for what nobody here
\* watches.
Watched   == {"human_query", "technical", "halt_file", "budget_hit",
              "silent_failure", "compliance", "stuck"}
External  == Watched \cup {"completed", "review_stuck"}
EventType == External \cup {"own"}

Action == {"auto_respond", "pause_workers", "abort_pipeline", "escalate_human",
           "no_op", "cancel_worker", "respawn_worker"}

VARIABLES queue,     \* the bus
          pc,        \* where the dispatching task is
          cur,       \* the event whose subscriber runs
          decision,  \* the action decided and not yet executed
          stamps,    \* tracked decisions of the last minute
          count,     \* _consecutive_escalations
          history,   \* ghost: the tracked decisions, oldest first
          published, \* ghost: number of events from outside
          answered   \* ghost: number of events decided about

supervisorVars ==
  <<queue, pc, cur, decision, stamps, count, history, published, answered>>

SupervisorInit ==
  /\ queue = <<>> /\ pc = "idle" /\ cur = "own" /\ decision = "no_op"
  /\ stamps = 0 /\ count = 0 /\ history = <<>> /\ published = 0 /\ answered = 0

-----------------------------------------------------------------------------
\* Any other task emits an event.
Publish(e) ==
  /\ published < MaxEvents
  /\ published' = published + 1 /\ queue' = Append(queue, e)
  /\ UNCHANGED <<pc, cur, decision, stamps, count, history, answered>>

\* Time passes: the oldest decisions leave the window of 60 seconds.
Expire ==
  /\ \E n \in 0..stamps : n < stamps /\ stamps' = n
  /\ UNCHANGED <<queue, pc, cur, decision, count, history, published, answered>>

\* Mutant: the supervisor listens to itself.
HeardAll(e) == e \in Watched \cup {"own"}

\* WATCHED_EVENT_TYPES, without the events that say source=supervisor.
Heard(e) == e \in Watched

\* The first hard rule of config/supervisor-policy.yaml an event matches; a
\* budget hit below the hard cap matches none.
RulesFor(e) == CASE e = "budget_hit"   -> {"pause_workers", "none"}
                 [] e = "compliance"   -> {"auto_respond"}
                 [] e \in {"silent_failure", "stuck", "review_stuck"} -> {"escalate_human"}
                 [] OTHER              -> {"none"}

Take ==
  /\ pc = "idle" /\ queue # <<>>
  /\ queue' = Tail(queue) /\ cur' = Head(queue)
  /\ pc' = IF Heard(Head(queue)) THEN "decide" ELSE "idle"
  /\ UNCHANGED <<decision, stamps, count, history, published, answered>>

\* Mutant: an escalation about a technical failure starts the count anew.
TrackResets(d) ==
  /\ stamps' = stamps + 1
  /\ history' = Append(history, [event |-> cur, action |-> d])
  /\ count' = IF d = "escalate_human" /\ cur # "technical" THEN count + 1 ELSE 0

\* _track: an escalation about a technical failure leaves the count alone.
Track(d) ==
  /\ stamps' = stamps + 1
  /\ history' = Append(history, [event |-> cur, action |-> d])
  /\ count' = IF d # "escalate_human" THEN 0
              ELSE IF cur = "technical" THEN count ELSE count + 1

Decided(d) == decision' = d /\ answered' = answered + 1 /\ pc' = "execute"

LimitTripped == stamps >= MaxActions

\* Overload: escalate, and do not track it.
RateLimited ==
  /\ pc = "decide" /\ LimitTripped
  /\ Decided("escalate_human")
  /\ UNCHANGED <<queue, cur, stamps, count, history, published>>

\* Tier 0.  The circuit breaker is not consulted.
ByRule ==
  /\ pc = "decide" /\ ~LimitTripped
  /\ \E d \in RulesFor(cur) \ {"none"} : Track(d) /\ Decided(d)
  /\ UNCHANGED <<queue, cur, published>>

\* Tier 1 awaits the judge.
AskJudge ==
  /\ pc = "decide" /\ ~LimitTripped /\ "none" \in RulesFor(cur)
  /\ pc' = "judging"
  /\ UNCHANGED <<queue, cur, decision, stamps, count, history, published,
                 answered>>

\* The judge failed.  The circuit breaker is not consulted either.
JudgeError ==
  /\ pc = "judging"
  /\ LET safe == IF FailSafe THEN "escalate_human" ELSE "no_op"
     IN Track(safe) /\ Decided(safe)
  /\ UNCHANGED <<queue, cur, published>>

\* The judge answered; below the auto threshold any answer is an escalation.
\* Then the circuit breaker.
JudgeVerdict ==
  /\ pc = "judging"
  /\ \E d \in Action :
       /\ Track(d)
       /\ IF count' >= MaxConsecutive
          THEN Decided("abort_pipeline")
          ELSE Decided(d)
  /\ UNCHANGED <<queue, cur, published>>

\* The judge raised something that is no JudgeError: logged and forgotten.
DecideRaises ==
  /\ pc = "judging" /\ pc' = "idle"
  /\ UNCHANGED <<queue, cur, decision, stamps, count, history, published,
                 answered>>

-----------------------------------------------------------------------------
\* execute_decision of anything but an abort that drains first: one event on
\* the bus.  no_op emits none, cancel_worker trips a token instead, and a
\* respawn without a story id is dropped.
Execute ==
  /\ pc = "execute" /\ ~(decision = "abort_pipeline" /\ DrainPending)
  /\ pc' = "idle"
  /\ \/ /\ decision \notin {"no_op", "cancel_worker"}
        /\ queue' = Append(queue, "own")
     \/ /\ decision \in {"no_op", "cancel_worker", "respawn_worker"}
        /\ UNCHANGED queue
  /\ UNCHANGED <<cur, decision, stamps, count, history, published, answered>>

\* _drain_pending_success_completions on an empty queue: dispatch_one times
\* out and the abort is emitted.
AbortDrained ==
  /\ pc = "execute" /\ decision = "abort_pipeline" /\ DrainPending
  /\ queue = <<>> /\ queue' = <<"own">> /\ pc' = "idle"
  /\ UNCHANGED <<cur, decision, stamps, count, history, published, answered>>

\* Otherwise the nested dispatch_one pulls the event and asks for the lock of
\* the bus.  asyncio.Lock is not reentrant and the dispatch that called this
\* subscriber holds it: no action follows.
AbortDrainLocks ==
  /\ pc = "execute" /\ decision = "abort_pipeline" /\ DrainPending
  /\ queue # <<>> /\ queue' = Tail(queue) /\ pc' = "self_wait"
  /\ UNCHANGED <<cur, decision, stamps, count, history, published, answered>>

Decide == RateLimited \/ ByRule \/ AskJudge \/ JudgeError \/ JudgeVerdict \/ DecideRaises
Act    == Execute \/ AbortDrained \/ AbortDrainLocks

\* drain found the bus empty and returned.
Drained == pc = "idle" /\ queue = <<>> /\ UNCHANGED supervisorVars

SupervisorNext ==
  \/ \E e \in External : Publish(e)
  \/ Expire \/ Take \/ Decide \/ Act \/ Drained

SupervisorSpec == SupervisorInit /\ [][SupervisorNext]_supervisorVars

-----------------------------------------------------------------------------
SupervisorTypeOK ==
  /\ queue \in Seq(EventType) /\ cur \in EventType
  /\ pc \in {"idle", "decide", "judging", "execute", "self_wait"}
  /\ decision \in Action
  /\ stamps \in 0..MaxActions /\ count \in Nat
  /\ history \in Seq([event : Watched, action : Action])
  /\ published \in Nat /\ answered \in Nat

\* The circuit breaker counts what it says: the escalations since the last
\* decision of another kind, technical failures of a review left out.
Streak(h) == {i \in 1..Len(h) : /\ h[i].event # "technical"
                               /\ \A j \in i..Len(h) : h[j].action = "escalate_human"}
CountIsStreak == count = Cardinality(Streak(history))

\* The loop does not feed itself: each decision answers an event of its own
\* from outside, none is answered twice, whatever the supervisor emits.
Outside(q) == {i \in 1..Len(q) : q[i] # "own"}
AnsweredOnce ==
  answered + Cardinality(Outside(queue))
           + (IF pc \in {"decide", "judging"} THEN 1 ELSE 0) <= published

-----------------------------------------------------------------------------
\* What a comment of the code says and the code does not do.

\* _drain_pending_success_completions: "the function returns promptly when
\* the queue is empty", and gives finished stories "a chance to reach the
\* merge gate": the abort never waits for the dispatch it is called from.
AbortDrainReturns == pc # "self_wait"
=============================================================================
