----------------------------- MODULE Broadcast -----------------------------
(***************************************************************************)
(* What EventLoop (runtime/event_loop.py) promises its subscribers: events *)
(* are numbered in the order they are emitted; the oldest one not retired  *)
(* is given to the subscribers in the order they were registered, each of  *)
(* them once, and it is retired when all were given it.  A subscriber that *)
(* raises has the event abandoned: those after it are never given it.      *)
(***************************************************************************)
EXTENDS Naturals

CONSTANT NSubs       \* number of subscribers, in the order of registration

VARIABLES emitted,   \* how many events were put on the queue: the last number
          retired,   \* how many of them are over: the numbers up to it
          abandoned, \* how many of those a subscriber has raised on
          lastSeen   \* the number of the last event each subscriber was given

Sub  == 1..NSubs
vars == <<emitted, retired, abandoned, lastSeen>>

Init == /\ emitted = 0 /\ retired = 0 /\ abandoned = 0
        /\ lastSeen = [s \in Sub |-> 0]

\* The event that is being given out, and who has it.
Current == retired + 1
HasIt(s) == lastSeen[s] = Current

Emit == emitted' = emitted + 1 /\ UNCHANGED <<retired, abandoned, lastSeen>>

\* The next subscriber in the order is given the oldest event left.
Give(s) == /\ retired < emitted
           /\ \A r \in Sub : r < s => HasIt(r)
           /\ \A r \in Sub : s <= r => lastSeen[r] < Current
           /\ lastSeen' = [lastSeen EXCEPT ![s] = Current]
           /\ UNCHANGED <<emitted, retired, abandoned>>

Retire == /\ retired < emitted
          /\ \A s \in Sub : HasIt(s)
          /\ retired' = retired + 1
          /\ UNCHANGED <<emitted, abandoned, lastSeen>>

\* The last subscriber that was given the event raises.
Abandon == /\ retired < emitted
           /\ \E s \in Sub : HasIt(s)
           /\ retired' = retired + 1
           /\ abandoned' = abandoned + 1
           /\ UNCHANGED <<emitted, lastSeen>>

Next == Emit \/ (\E s \in Sub : Give(s)) \/ Retire \/ Abandon

Spec == Init /\ [][Next]_vars
=============================================================================
