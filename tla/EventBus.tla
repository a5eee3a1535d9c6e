------------------------------ MODULE EventBus ------------------------------
(***************************************************************************)
(* runtime/event_loop.py: an asyncio.Queue of events, a list of            *)
(* subscribers run one after the other under one asyncio.Lock, and the     *)
(* table of single-shot correlation futures.                               *)
(*                                                                         *)
(* A task is an asyncio task that calls drain or dispatch_one.  Everything *)
(* between two awaits is one action.  asyncio.Lock hands itself over in    *)
(* the order in which it was asked for, so the lock is the sequence of the *)
(* tasks that asked: its head holds it.                                    *)
(***************************************************************************)
EXTENDS Naturals, Sequences

CONSTANTS Task,       \* asyncio tasks that drain the bus
          NSubs,      \* number of subscribers registered with on(...)
          Corr,       \* correlation ids a caller may wait for
          NoCorr,     \* the correlation id of any event that is no HUMAN_RESPONSE
          MaxEvents,  \* bound of the model: events ever emitted
          MaxDrain    \* drain's max_events

ASSUME BusAssumption == /\ NSubs \in Nat \ {0}
                        /\ MaxEvents \in Nat
                        /\ MaxDrain \in Nat \ {0}
                        /\ NoCorr \notin Corr

Sub   == 1..NSubs
Event == [id : Nat, corr : Corr \cup {NoCorr}]
NoEvent == [id |-> 0, corr |-> NoCorr]

VARIABLES queue,      \* events put and not yet pulled
          emitted,    \* number of events ever emitted; the id of the last
          lockq,      \* tasks that asked for the lock, its holder first
          cur,        \* the event each task pulled and has not finished
          nextSub,    \* the subscriber the task will call next
          draining,   \* the task is inside drain
          taken,      \* events this call of drain has dispatched
          corr,       \* state of the future registered for each corr_id
          lastSeen,   \* id of the last event each subscriber was given
          retired,    \* number of events dispatch_one has finished with
          abandoned     \* how many of those a subscriber has raised on

vars == <<queue, emitted, lockq, cur, nextSub, draining, taken, corr,
          lastSeen, retired, abandoned>>

Init == /\ queue = <<>> /\ emitted = 0
        /\ lockq = <<>>
        /\ cur = [t \in Task |-> NoEvent]
        /\ nextSub = [t \in Task |-> 1]
        /\ draining = [t \in Task |-> FALSE]
        /\ taken = [t \in Task |-> 0]
        /\ corr = [c \in Corr |-> "none"]
        /\ lastSeen = [s \in Sub |-> 0]
        /\ retired = 0 /\ abandoned = 0

-----------------------------------------------------------------------------
\* _resolve_correlation: the future is popped from the table and resolved.
Resolve(table, c) ==
  [d \in Corr |-> IF d = c /\ table[d] = "pending" THEN "resolved" ELSE table[d]]

\* emit: the queue is unbounded, so put does not suspend; waiters are woken
\* at once, before anybody drains the queue.  Cascades emit the same way.
Emit(c) ==
  /\ emitted < MaxEvents
  /\ emitted' = emitted + 1
  /\ queue' = Append(queue, [id |-> emitted + 1, corr |-> c])
  /\ corr' = Resolve(corr, c)
  /\ UNCHANGED <<lockq, cur, nextSub, draining, taken, lastSeen, retired, abandoned>>

\* subscribe_one_correlation: an unresolved future is joined (nothing
\* changes), anything else is replaced by a fresh one.
Subscribe(c) ==
  /\ corr[c] # "pending"
  /\ corr' = [corr EXCEPT ![c] = "pending"]
  /\ UNCHANGED <<queue, emitted, lockq, cur, nextSub, draining, taken,
                 lastSeen, retired, abandoned>>

\* unsubscribe_correlation: the caller's finally block.
Unsubscribe(c) ==
  /\ corr[c] # "none"
  /\ corr' = [corr EXCEPT ![c] = "none"]
  /\ UNCHANGED <<queue, emitted, lockq, cur, nextSub, draining, taken,
                 lastSeen, retired, abandoned>>

StartDrain(t) ==
  /\ ~draining[t]
  /\ draining' = [draining EXCEPT ![t] = TRUE]
  /\ taken' = [taken EXCEPT ![t] = 0]
  /\ UNCHANGED <<queue, emitted, lockq, cur, nextSub, corr, lastSeen, retired, abandoned>>

\* Mutant: the queue is peeked, the event stays on it.
PullPeek(t) ==
  /\ draining[t] /\ cur[t] = NoEvent
  /\ taken[t] < MaxDrain
  /\ queue # <<>>
  /\ cur' = [cur EXCEPT ![t] = Head(queue)]
  /\ corr' = Resolve(corr, Head(queue).corr)
  /\ lockq' = Append(lockq, t)
  /\ nextSub' = [nextSub EXCEPT ![t] = 1]
  /\ UNCHANGED <<queue, emitted, draining, taken, lastSeen, retired, abandoned>>

\* Mutant: futures are resolved by emit alone.
PullUnresolved(t) ==
  /\ draining[t] /\ cur[t] = NoEvent
  /\ taken[t] < MaxDrain
  /\ queue # <<>>
  /\ cur' = [cur EXCEPT ![t] = Head(queue)]
  /\ queue' = Tail(queue)
  /\ lockq' = Append(lockq, t)
  /\ nextSub' = [nextSub EXCEPT ![t] = 1]
  /\ UNCHANGED <<emitted, draining, taken, corr, lastSeen, retired, abandoned>>

\* dispatch_one up to the lock: pull, resolve once more (a future may have
\* been registered after the emit), ask for the lock.
Pull(t) ==
  /\ draining[t] /\ cur[t] = NoEvent
  /\ taken[t] < MaxDrain
  /\ queue # <<>>
  /\ cur' = [cur EXCEPT ![t] = Head(queue)]
  /\ queue' = Tail(queue)
  /\ corr' = Resolve(corr, Head(queue).corr)
  /\ lockq' = Append(lockq, t)
  /\ nextSub' = [nextSub EXCEPT ![t] = 1]
  /\ UNCHANGED <<emitted, draining, taken, lastSeen, retired, abandoned>>

\* Mutant: dispatch_one does not take the lock.
HoldsAny(t) == \E i \in 1..Len(lockq) : lockq[i] = t

Holds(t) == lockq # <<>> /\ Head(lockq) = t

\* The holder calls its next subscriber.  The subscriber may await, so any
\* other action may come before the one after it.
CallSub(t) ==
  /\ Holds(t)
  /\ nextSub[t] <= NSubs
  /\ lastSeen' = [lastSeen EXCEPT ![nextSub[t]] = cur[t].id]
  /\ nextSub' = [nextSub EXCEPT ![t] = @ + 1]
  /\ UNCHANGED <<queue, emitted, lockq, cur, draining, taken, corr, retired, abandoned>>

\* All subscribers ran: the lock is released and drain counts the event.
Return(t) ==
  /\ Holds(t)
  /\ nextSub[t] = NSubs + 1
  /\ lockq' = Tail(lockq)
  /\ cur' = [cur EXCEPT ![t] = NoEvent]
  /\ taken' = [taken EXCEPT ![t] = @ + 1]
  /\ retired' = retired + 1
  /\ UNCHANGED <<queue, emitted, nextSub, draining, corr, lastSeen, abandoned>>

\* A subscriber raises: `async with` releases the lock, the subscribers
\* after it never see the event, and the exception leaves dispatch_one and
\* drain.
Raise(t) ==
  /\ Holds(t)
  /\ nextSub[t] > 1
  /\ lockq' = Tail(lockq)
  /\ cur' = [cur EXCEPT ![t] = NoEvent]
  /\ draining' = [draining EXCEPT ![t] = FALSE]
  /\ retired' = retired + 1
  /\ abandoned' = abandoned + 1
  /\ UNCHANGED <<queue, emitted, nextSub, taken, corr, lastSeen>>

\* drain's loop ends: idle_timeout passed with nothing queued, or the cap.
EndDrain(t) ==
  /\ draining[t] /\ cur[t] = NoEvent
  /\ queue = <<>> \/ taken[t] >= MaxDrain
  /\ draining' = [draining EXCEPT ![t] = FALSE]
  /\ UNCHANGED <<queue, emitted, lockq, cur, nextSub, taken, corr,
                 lastSeen, retired, abandoned>>

Dispatch(t) == Pull(t) \/ CallSub(t) \/ Return(t) \/ EndDrain(t)

Next == \/ \E c \in Corr \cup {NoCorr} : Emit(c)
        \/ \E c \in Corr : Subscribe(c) \/ Unsubscribe(c)
        \/ \E t \in Task : StartDrain(t) \/ Dispatch(t) \/ Raise(t)

Spec == Init /\ [][Next]_vars

\* A task that is not blocked is eventually resumed by the asyncio loop.
\* Nothing obliges a task to begin a drain.
FairSpec == Spec /\ \A t \in Task : WF_vars(Dispatch(t))

-----------------------------------------------------------------------------
TypeOK == /\ queue \in Seq(Event)
          /\ emitted \in Nat /\ retired \in Nat /\ abandoned \in Nat
          /\ lockq \in Seq(Task)
          /\ cur \in [Task -> Event]
          /\ nextSub \in [Task -> 1..(NSubs + 1)]
          /\ draining \in [Task -> BOOLEAN]
          /\ taken \in [Task -> Nat]
          /\ corr \in [Corr -> {"none", "pending", "resolved"}]
          /\ lastSeen \in [Sub -> Nat]

\* Subscribers see events in registration order: one registered later is
\* never ahead of one registered earlier, whichever tasks drain the bus.
RegistrationOrder ==
  \A r, s \in Sub : r < s => lastSeen[s] <= lastSeen[r]

\* Events do not interleave: while an event is being dispatched every
\* subscriber has been given either that event or nothing newer than the one
\* before it, and (unless a subscriber raised) exactly the one before it.
OneEventAtATime ==
  \A s \in Sub : /\ lastSeen[s] <= retired + 1
                 /\ abandoned = 0 => lastSeen[s] >= retired

\* A subscriber is never shown an event out of order or a second time: each
\* call hands it an event newer than every event it was given before.
InOrderOnce ==
  [][\A t \in Task : CallSub(t) => lastSeen[nextSub[t]] < cur[t].id]_vars

\* The bus implements the numbered broadcast: whichever tasks drain it, the
\* subscribers are given the events in the order of their numbers, one event
\* at a time and each in the order of registration; an event is over when all
\* have it, or when one of those that have it raised.
Abstract == INSTANCE Broadcast
Implements == Abstract!Spec

\* A caller waiting for a response that is on the queue of a bus somebody
\* drains is woken or gives up, even when it registered after the response
\* was emitted (unless a subscriber raises and ends the drain; MaxDrain must
\* not be below MaxEvents).
Answered ==
  \A c \in Corr :
    (/\ corr[c] = "pending"
     /\ \E i \in 1..Len(queue) : queue[i].corr = c
     /\ \E t \in Task : draining[t])
      ~> (corr[c] # "pending" \/ abandoned > 0)

=============================================================================
