--------------------------- MODULE EventBusProof ---------------------------
(***************************************************************************)
(* For any number of tasks, subscribers and events: the bus runs one event *)
(* at a time, in emission order, in registration order, and implements the *)
(* numbered broadcast.                                                     *)
(*                                                                         *)
(* The invariant says where each event is: those that wait for the lock    *)
(* carry the next ids in the order of the lock queue, and those on the     *)
(* event queue carry the ids after them.                                   *)
(***************************************************************************)
EXTENDS EventBus, SequenceTheorems, TLAPS

\* The ids, from the holder of the lock to the end of the queue, are
\* consecutive.
Ids == /\ retired + Len(lockq) + Len(queue) = emitted
       /\ \A i \in 1..Len(queue) : queue[i].id = retired + Len(lockq) + i
       /\ \A i \in 1..Len(lockq) : cur[lockq[i]].id = retired + i

\* A task is in the lock queue at most once.
OncePerTask == \A i, j \in 1..Len(lockq) : lockq[i] = lockq[j] => i = j

\* Only the holder has called subscribers for its event.
WaitersNotStarted == \A i \in 2..Len(lockq) : nextSub[lockq[i]] = 1

\* What each subscriber was last given.
Given ==
  \A s \in Sub :
    IF lockq # <<>> /\ s < nextSub[lockq[1]]
    THEN lastSeen[s] = retired + 1
    ELSE lastSeen[s] <= retired /\ (abandoned = 0 => lastSeen[s] = retired)

IInv == /\ TypeOK /\ Ids /\ OncePerTask /\ WaitersNotStarted /\ Given
        /\ RegistrationOrder

LEMMA InitIInv == Init => IInv
<1> SUFFICES ASSUME Init PROVE IInv
  OBVIOUS
<1> USE DEF Init
<1>1. TypeOK
  <2>1. queue \in Seq(Event) /\ lockq \in Seq(Task)
    OBVIOUS
  <2>2. NoEvent \in Event
    BY BusAssumption DEF NoEvent, Event
  <2>3. cur \in [Task -> Event]
    BY <2>2
  <2>4. nextSub \in [Task -> 1..(NSubs + 1)]
    BY BusAssumption
  <2> QED
    BY <2>1, <2>3, <2>4 DEF TypeOK
<1>2. Len(lockq) = 0 /\ Len(queue) = 0
  OBVIOUS
<1>3. Ids /\ OncePerTask /\ WaitersNotStarted
  BY <1>2 DEF Ids, OncePerTask, WaitersNotStarted
<1>4. Given /\ RegistrationOrder
  BY <1>2 DEF Given, RegistrationOrder
<1> QED
  BY <1>1, <1>3, <1>4 DEF IInv

\* The lock queue and its holder's progress do not change: only the tables
\* beside them do.
LEMMA Beside ==
  ASSUME IInv, TypeOK',
         UNCHANGED <<queue, emitted, lockq, cur, nextSub, lastSeen, retired, abandoned>>
  PROVE  IInv'
BY DEF IInv, Ids, OncePerTask, WaitersNotStarted, Given, RegistrationOrder

LEMMA TableType ==
  ASSUME TypeOK, NEW c PROVE Resolve(corr, c) \in [Corr -> {"none", "pending", "resolved"}]
BY DEF TypeOK, Resolve

LEMMA EmitIInv == ASSUME IInv, NEW c \in Corr \cup {NoCorr}, Emit(c) PROVE IInv'
<1> DEFINE e == [id |-> emitted + 1, corr |-> c]
<1>0. /\ queue \in Seq(Event) /\ lockq \in Seq(Task) /\ emitted \in Nat /\ retired \in Nat
      /\ e \in Event
  BY DEF IInv, TypeOK, Event
<1>1. TypeOK'
  <2>1. queue' \in Seq(Event)
    BY <1>0 DEF Emit
  <2> QED
    BY <2>1, <1>0, TableType DEF IInv, TypeOK, Emit
<1>2. /\ Len(queue') = Len(queue) + 1
      /\ queue'[Len(queue) + 1] = e
      /\ \A i \in 1..Len(queue) : queue'[i] = queue[i]
  BY <1>0 DEF Emit
<1>3. Ids'
  BY <1>0, <1>2 DEF IInv, Ids, Emit
<1>4. OncePerTask' /\ WaitersNotStarted' /\ Given' /\ RegistrationOrder'
  BY DEF Emit, IInv, OncePerTask, WaitersNotStarted, Given, RegistrationOrder
<1> QED
  BY <1>1, <1>3, <1>4 DEF IInv

LEMMA PullIInv == ASSUME IInv, NEW t \in Task, Pull(t) PROVE IInv'
<1>0. /\ queue \in Seq(Event) /\ lockq \in Seq(Task) /\ emitted \in Nat /\ retired \in Nat
      /\ Len(queue) \in Nat \ {0} /\ Len(lockq) \in Nat
      /\ cur \in [Task -> Event] /\ nextSub \in [Task -> 1..(NSubs + 1)]
  BY DEF IInv, TypeOK, Pull
<1>1. /\ Tail(queue) \in Seq(Event)
      /\ Len(Tail(queue)) = Len(queue) - 1
      /\ \A i \in 1..Len(Tail(queue)) : Tail(queue)[i] = queue[i + 1]
      /\ Head(queue) = queue[1] /\ Head(queue) \in Event
  BY <1>0, HeadTailProperties DEF Pull
<1>2. /\ lockq' \in Seq(Task)
      /\ Len(lockq') = Len(lockq) + 1
      /\ lockq'[Len(lockq) + 1] = t
      /\ \A i \in 1..Len(lockq) : lockq'[i] = lockq[i]
  BY <1>0 DEF Pull
<1>3. \A i \in 1..Len(lockq) : lockq[i] # t
  BY <1>0 DEF IInv, Ids, Pull, NoEvent
<1>4. TypeOK'
  <2>1. nextSub' \in [Task -> 1..(NSubs + 1)]
    BY <1>0, BusAssumption DEF Pull
  <2>2. cur' \in [Task -> Event]
    BY <1>0, <1>1 DEF Pull
  <2> QED
    BY <1>1, <1>2, <2>1, <2>2, TableType DEF IInv, TypeOK, Pull
<1>5. Ids'
  <2>1. ASSUME NEW i \in 1..Len(lockq') PROVE cur'[lockq'[i]].id = retired' + i
    <3>1. CASE i \in 1..Len(lockq)
      <4>1. lockq'[i] = lockq[i] /\ lockq[i] # t /\ lockq[i] \in Task
        BY <1>0, <1>2, <1>3, <3>1
      <4>2. cur[lockq[i]].id = retired + i
        BY <3>1 DEF IInv, Ids
      <4> QED
        BY <1>0, <4>1, <4>2 DEF Pull
    <3>2. CASE i = Len(lockq) + 1
      <4>1. Head(queue).id = retired + Len(lockq) + 1
        BY <1>0, <1>1 DEF IInv, Ids
      <4> QED
        BY <1>0, <1>2, <3>2, <4>1 DEF Pull
    <3>3. i \in 1..Len(lockq) \/ i = Len(lockq) + 1
      BY <1>0, <1>2
    <3> QED
      BY <3>1, <3>2, <3>3
  <2>2. \A i \in 1..Len(queue') : queue'[i].id = retired' + Len(lockq') + i
    BY <1>0, <1>1, <1>2 DEF IInv, Ids, Pull
  <2>3. retired' + Len(lockq') + Len(queue') = emitted'
    <3>1. retired + Len(lockq) + Len(queue) = emitted
      BY DEF IInv, Ids
    <3>2. retired' = retired /\ emitted' = emitted /\ queue' = Tail(queue)
      BY DEF Pull
    <3>3. Len(queue') = Len(queue) - 1 /\ Len(lockq') = Len(lockq) + 1
      BY <1>1, <1>2, <3>2
    <3> DEFINE l == Len(lockq)  m == Len(queue)
    <3>4. l \in Nat /\ m \in Nat /\ retired \in Nat /\ emitted \in Nat
      BY <1>0
    <3>5. retired + (l + 1) + (m - 1) = emitted
      <4>1. retired + l + m = emitted
        BY <3>1
      <4> HIDE DEF l, m
      <4> QED
        BY <3>4, <4>1
    <3> QED
      BY <3>2, <3>3, <3>5
  <2> QED
    BY <2>1, <2>2, <2>3 DEF Ids
<1>6. OncePerTask'
  <2> SUFFICES ASSUME NEW i \in 1..Len(lockq'), NEW j \in 1..Len(lockq'),
                      lockq'[i] = lockq'[j]
               PROVE  i = j
    BY DEF OncePerTask
  <2>1. /\ i \in 1..Len(lockq) \/ i = Len(lockq) + 1
        /\ j \in 1..Len(lockq) \/ j = Len(lockq) + 1
    BY <1>0, <1>2
  <2>2. QED
    <3>1. \A k, l \in 1..Len(lockq) : lockq[k] = lockq[l] => k = l
      BY DEF IInv, OncePerTask
    <3> QED
      BY <1>0, <1>2, <1>3, <2>1, <3>1
<1>7. WaitersNotStarted'
  BY <1>0, <1>2, <1>3 DEF IInv, WaitersNotStarted, Pull
<1>8. Given'
  <2>1. CASE Len(lockq) = 0
    <3>1. lockq = <<>>
      BY <1>0, <2>1
    <3>2. lockq'[1] = t /\ nextSub'[t] = 1
      BY <1>0, <1>2, <2>1 DEF Pull
    <3> QED
      BY <3>1, <3>2 DEF IInv, Given, Pull, Sub
  <2>2. CASE Len(lockq) # 0
    <3>1. lockq # <<>> /\ lockq' # <<>> /\ lockq'[1] = lockq[1] /\ lockq[1] # t /\ lockq[1] \in Task
      BY <1>0, <1>2, <1>3, <2>2
    <3>2. nextSub'[lockq'[1]] = nextSub[lockq[1]]
      BY <1>0, <3>1 DEF Pull
    <3> QED
      BY <3>1, <3>2 DEF IInv, Given, Pull
  <2> QED
    BY <2>1, <2>2
<1>9. RegistrationOrder'
  BY DEF IInv, RegistrationOrder, Pull
<1> QED
  BY <1>4, <1>5, <1>6, <1>7, <1>8, <1>9 DEF IInv

\* The holder and its event, spelt out.
LEMMA HolderFacts ==
  ASSUME IInv, NEW t \in Task, Holds(t)
  PROVE  /\ lockq # <<>> /\ lockq[1] = t /\ cur[t].id = retired + 1
         /\ Len(lockq) \in Nat \ {0}
         /\ retired \in Nat /\ emitted \in Nat /\ Len(queue) \in Nat
         /\ retired < emitted
         /\ nextSub[t] \in 1..(NSubs + 1)
         /\ \A i \in 2..Len(lockq) : lockq[i] # t /\ nextSub[lockq[i]] = 1
<1>1. /\ lockq \in Seq(Task) /\ queue \in Seq(Event) /\ retired \in Nat /\ emitted \in Nat
      /\ nextSub \in [Task -> 1..(NSubs + 1)] /\ lockq # <<>> /\ Head(lockq) = t
  BY DEF IInv, TypeOK, Holds
<1>2. Len(lockq) \in Nat \ {0} /\ lockq[1] = t /\ Len(queue) \in Nat
  BY <1>1
<1> QED
  BY <1>1, <1>2 DEF IInv, Ids, OncePerTask, WaitersNotStarted

LEMMA CallSubIInv == ASSUME IInv, NEW t \in Task, CallSub(t) PROVE IInv'
<1>0. /\ Holds(t) /\ nextSub[t] \in Sub
      /\ lastSeen \in [Sub -> Nat] /\ nextSub \in [Task -> 1..(NSubs + 1)]
      /\ cur \in [Task -> Event] /\ NSubs \in Nat
  BY HolderFacts, BusAssumption DEF CallSub, Sub, IInv, TypeOK
<1>1. /\ lockq # <<>> /\ lockq[1] = t /\ cur[t].id = retired + 1 /\ retired \in Nat
      /\ \A i \in 2..Len(lockq) : lockq[i] # t /\ nextSub[lockq[i]] = 1
  BY <1>0, HolderFacts
<1>2. /\ lastSeen' = [lastSeen EXCEPT ![nextSub[t]] = retired + 1]
      /\ nextSub' = [nextSub EXCEPT ![t] = nextSub[t] + 1]
      /\ nextSub[t] + 1 \in 1..(NSubs + 1)
      /\ lockq' = lockq /\ retired' = retired /\ abandoned' = abandoned
      /\ cur' = cur /\ queue' = queue /\ emitted' = emitted
  BY <1>0, <1>1 DEF CallSub, Sub
<1>3. TypeOK'
  BY <1>0, <1>1, <1>2 DEF IInv, TypeOK, CallSub
<1>4. Ids' /\ OncePerTask'
  BY <1>2 DEF IInv, Ids, OncePerTask
<1>5. WaitersNotStarted'
  <2> SUFFICES ASSUME NEW i \in 2..Len(lockq) PROVE nextSub'[lockq[i]] = 1
    BY <1>2 DEF WaitersNotStarted
  <2>1. lockq[i] \in Task
    BY DEF IInv, TypeOK
  <2> QED
    BY <1>0, <1>1, <1>2, <2>1
<1>6. nextSub'[t] = nextSub[t] + 1
  BY <1>0, <1>2
<1>7. Given'
  <2> SUFFICES ASSUME NEW s \in Sub
               PROVE  IF s < nextSub[t] + 1 THEN lastSeen'[s] = retired + 1
                      ELSE lastSeen'[s] <= retired /\ (abandoned = 0 => lastSeen'[s] = retired)
    BY <1>1, <1>2, <1>6 DEF Given
  <2>1. IF s < nextSub[t] THEN lastSeen[s] = retired + 1
        ELSE lastSeen[s] <= retired /\ (abandoned = 0 => lastSeen[s] = retired)
    BY <1>1 DEF IInv, Given
  <2>2. CASE s = nextSub[t]
    BY <1>0, <1>2, <2>2 DEF Sub
  <2>3. CASE s # nextSub[t]
    BY <1>0, <1>2, <2>1, <2>3 DEF Sub
  <2> QED
    BY <2>2, <2>3
<1>8. RegistrationOrder'
  <2> SUFFICES ASSUME NEW r \in Sub, NEW s \in Sub, r < s PROVE lastSeen'[s] <= lastSeen'[r]
    BY DEF RegistrationOrder
  <2> QED
    BY <1>0, <1>1, <1>2 DEF IInv, Given, RegistrationOrder, Sub
<1> QED
  BY <1>3, <1>4, <1>5, <1>7, <1>8 DEF IInv

\* The holder lets go of the lock with its event retired: Return and Raise.
LEMMA ReleaseIInv ==
  ASSUME IInv, TypeOK', NEW t \in Task, Holds(t), NEW b \in {0, 1},
         b = 0 => nextSub[t] = NSubs + 1,
         lockq' = Tail(lockq), cur' = [cur EXCEPT ![t] = NoEvent],
         retired' = retired + 1, abandoned' = abandoned + b,
         UNCHANGED <<queue, emitted, nextSub, lastSeen>>
  PROVE  IInv'
<1>0. /\ lockq # <<>> /\ lockq[1] = t /\ retired \in Nat /\ emitted \in Nat
      /\ Len(lockq) \in Nat \ {0} /\ Len(queue) \in Nat
      /\ nextSub[t] \in 1..(NSubs + 1) /\ NSubs \in Nat
      /\ \A i \in 2..Len(lockq) : lockq[i] # t /\ nextSub[lockq[i]] = 1
      /\ lockq \in Seq(Task) /\ cur \in [Task -> Event] /\ lastSeen \in [Sub -> Nat]
      /\ abandoned \in Nat
  BY HolderFacts, BusAssumption DEF IInv, TypeOK
<1>1. /\ Len(lockq') = Len(lockq) - 1
      /\ \A i \in 1..Len(lockq') : /\ lockq'[i] = lockq[i + 1]
                                   /\ lockq[i + 1] # t /\ lockq[i + 1] \in Task
  BY <1>0
<1>2. Ids'
  <2>1. \A i \in 1..Len(lockq') : cur'[lockq'[i]].id = retired' + i
    BY <1>0, <1>1 DEF IInv, Ids
  <2>2. \A i \in 1..Len(queue') : queue'[i].id = retired' + Len(lockq') + i
    BY <1>0, <1>1 DEF IInv, Ids
  <2>3. retired' + Len(lockq') + Len(queue') = emitted'
    <3>1. retired + Len(lockq) + Len(queue) = emitted
      BY DEF IInv, Ids
    <3>2. retired' = retired + 1 /\ emitted' = emitted /\ Len(queue') = Len(queue)
      OBVIOUS
    <3>3. Len(lockq') = Len(lockq) - 1
      BY <1>1
    <3> DEFINE l == Len(lockq)  m == Len(queue)
    <3>4. l \in Nat /\ m \in Nat /\ retired \in Nat /\ emitted \in Nat
      BY <1>0
    <3>5. (retired + 1) + (l - 1) + m = emitted
      <4>1. retired + l + m = emitted
        BY <3>1
      <4> HIDE DEF l, m
      <4> QED
        BY <3>4, <4>1
    <3> QED
      BY <3>2, <3>3, <3>5
  <2> QED
    BY <2>1, <2>2, <2>3 DEF Ids
<1>3. OncePerTask'
  BY <1>0, <1>1 DEF IInv, OncePerTask
<1>4. WaitersNotStarted'
  BY <1>0, <1>1 DEF IInv, WaitersNotStarted
<1>5. Given'
  <2>1. \A s \in Sub : /\ lastSeen[s] <= retired'
                       /\ abandoned' = 0 => lastSeen[s] = retired'
    BY <1>0 DEF IInv, Given, Sub
  <2>2. lockq' # <<>> => nextSub'[lockq'[1]] = 1
    BY <1>0, <1>1
  <2> QED
    BY <2>1, <2>2 DEF Given, Sub
<1>6. RegistrationOrder'
  BY DEF IInv, RegistrationOrder
<1> QED
  BY <1>2, <1>3, <1>4, <1>5, <1>6 DEF IInv

LEMMA ReturnIInv == ASSUME IInv, NEW t \in Task, Return(t) PROVE IInv'
<1>1. TypeOK'
  <2>1. NoEvent \in Event
    BY DEF NoEvent, Event
  <2>2. lockq \in Seq(Task) /\ lockq # <<>>
    BY DEF Return, Holds, IInv, TypeOK
  <2>3. lockq' \in Seq(Task)
    BY <2>2 DEF Return
  <2> QED
    BY <2>1, <2>3 DEF Return, IInv, TypeOK
<1>2. abandoned' = abandoned + 0
  BY DEF Return, IInv, TypeOK
<1> QED
  BY <1>1, <1>2, ReleaseIInv, 0 \in {0, 1} DEF Return, IInv, TypeOK

LEMMA RaiseIInv == ASSUME IInv, NEW t \in Task, Raise(t) PROVE IInv'
<1>1. TypeOK'
  <2>1. NoEvent \in Event
    BY DEF NoEvent, Event
  <2>2. lockq \in Seq(Task) /\ lockq # <<>>
    BY DEF Raise, Holds, IInv, TypeOK
  <2>3. lockq' \in Seq(Task)
    BY <2>2 DEF Raise
  <2> QED
    BY <2>1, <2>3 DEF Raise, IInv, TypeOK
<1>2. abandoned' = abandoned + 1
  BY DEF Raise
<1>3. /\ Holds(t) /\ lockq' = Tail(lockq) /\ cur' = [cur EXCEPT ![t] = NoEvent]
      /\ retired' = retired + 1 /\ UNCHANGED <<queue, emitted, nextSub, lastSeen>>
  BY DEF Raise
<1> QED
  BY <1>1, <1>2, <1>3, ReleaseIInv, 1 \in {0, 1}, 1 # 0

LEMMA NextIInv == IInv /\ [Next]_vars => IInv'
<1> SUFFICES ASSUME IInv, [Next]_vars PROVE IInv'
  OBVIOUS
<1>1. CASE UNCHANGED vars
  BY <1>1, Beside DEF vars, IInv, TypeOK
<1>2. ASSUME NEW c \in Corr \cup {NoCorr}, Emit(c) PROVE IInv'
  BY <1>2, EmitIInv
<1>3. ASSUME NEW c \in Corr, Subscribe(c) \/ Unsubscribe(c) PROVE IInv'
  <2>1. TypeOK'
    BY <1>3 DEF Subscribe, Unsubscribe, IInv, TypeOK
  <2> QED
    BY <1>3, <2>1, Beside DEF Subscribe, Unsubscribe
<1>4. ASSUME NEW t \in Task, StartDrain(t) \/ EndDrain(t) PROVE IInv'
  <2>1. TypeOK'
    <3>1. CASE StartDrain(t)
      <4>1. draining' \in [Task -> BOOLEAN] /\ taken' \in [Task -> Nat]
        BY <3>1 DEF StartDrain, IInv, TypeOK
      <4> QED
        BY <3>1, <4>1 DEF StartDrain, IInv, TypeOK
    <3>2. CASE EndDrain(t)
      <4>1. draining' \in [Task -> BOOLEAN]
        BY <3>2 DEF EndDrain, IInv, TypeOK
      <4> QED
        BY <3>2, <4>1 DEF EndDrain, IInv, TypeOK
    <3> QED
      BY <1>4, <3>1, <3>2
  <2> QED
    BY <1>4, <2>1, Beside DEF StartDrain, EndDrain
<1>5. ASSUME NEW t \in Task, Pull(t) PROVE IInv'
  BY <1>5, PullIInv
<1>6. ASSUME NEW t \in Task, CallSub(t) PROVE IInv'
  BY <1>6, CallSubIInv
<1>7. ASSUME NEW t \in Task, Return(t) \/ Raise(t) PROVE IInv'
  BY <1>7, ReturnIInv, RaiseIInv
<1> QED
  BY <1>1, <1>2, <1>3, <1>4, <1>5, <1>6, <1>7 DEF Next, Dispatch

THEOREM SpecIInv == Spec => []IInv
BY InitIInv, NextIInv, PTL DEF Spec

\* The state variables keep their types.
THEOREM TypeCorrect == Spec => []TypeOK
<1>1. IInv => TypeOK
  BY DEF IInv
<1> QED
  BY <1>1, SpecIInv, PTL

\* Subscribers are served in registration order, one event at a time, however
\* many tasks drain the bus at once.
THEOREM SubscribersInOrder == Spec => [](RegistrationOrder /\ OneEventAtATime)
<1>1. IInv => RegistrationOrder /\ OneEventAtATime
  <2> SUFFICES ASSUME IInv, NEW s \in Sub
               PROVE  /\ lastSeen[s] <= retired + 1
                      /\ abandoned = 0 => lastSeen[s] >= retired
    BY DEF IInv, OneEventAtATime
  <2>1. lastSeen[s] \in Nat /\ retired \in Nat
    BY DEF IInv, TypeOK
  <2> QED
    BY <2>1 DEF IInv, Given
<1> QED
  BY <1>1, SpecIInv, PTL

\* No subscriber is given an event twice or out of order.
THEOREM DeliveredInOrderOnce == Spec => InOrderOnce
<1>1. IInv => \A t \in Task : CallSub(t) => lastSeen[nextSub[t]] < cur[t].id
  <2> SUFFICES ASSUME IInv, NEW t \in Task, CallSub(t)
               PROVE  lastSeen[nextSub[t]] < cur[t].id
    OBVIOUS
  <2>1. /\ lockq # <<>> /\ lockq[1] = t /\ cur[t].id = retired + 1 /\ retired \in Nat
        /\ nextSub[t] \in 1..NSubs
    BY HolderFacts, BusAssumption DEF CallSub
  <2>2. lastSeen \in [Sub -> Nat] /\ lastSeen[nextSub[t]] <= retired
    BY <2>1 DEF IInv, TypeOK, Given, Sub
  <2> QED
    BY <2>1, <2>2 DEF Sub
<1> QED
  BY <1>1, SpecIInv, PTL DEF Spec, InOrderOnce

\* EventLoop implements the broadcast it promises: every step numbers a new
\* event, gives the oldest one left to the next subscriber in the order of
\* registration, retires it once all have it, abandons it because one that
\* has it raised, or touches none of this.
THEOREM ImplementsBroadcast == Spec => Implements
<1>1. Init => Abstract!Init
  BY DEF Init, Abstract!Init, Sub, Abstract!Sub
<1>2. IInv /\ [Next]_vars => [Abstract!Next]_(Abstract!vars)
  <2> SUFFICES ASSUME IInv, [Next]_vars PROVE [Abstract!Next]_(Abstract!vars)
    OBVIOUS
  <2> USE DEF Abstract!Sub, Abstract!Current, Abstract!HasIt
  <2>1. ASSUME NEW c \in Corr \cup {NoCorr}, Emit(c) PROVE Abstract!Emit
    BY <2>1 DEF Emit, Abstract!Emit
  <2>2. ASSUME NEW t \in Task, CallSub(t) PROVE \E s \in Abstract!Sub : Abstract!Give(s)
    <3> DEFINE s == nextSub[t]
    <3>1. /\ lockq # <<>> /\ lockq[1] = t /\ cur[t].id = retired + 1
          /\ retired \in Nat /\ retired < emitted /\ s \in 1..NSubs
      BY <2>2, HolderFacts, BusAssumption DEF CallSub
    <3>2. \A r \in Sub : IF r < s THEN lastSeen[r] = retired + 1 ELSE lastSeen[r] <= retired
      BY <3>1 DEF IInv, Given
    <3>3. \A r \in 1..NSubs : r < s => lastSeen[r] = retired + 1
      BY <3>2 DEF Sub
    <3>4. \A r \in 1..NSubs : s <= r => lastSeen[r] < retired + 1
      <4> SUFFICES ASSUME NEW r \in 1..NSubs, s <= r PROVE lastSeen[r] < retired + 1
        OBVIOUS
      <4>1. r \in Sub /\ ~(r < s)
        BY <3>1 DEF Sub
      <4>2. lastSeen[r] \in Nat /\ lastSeen[r] <= retired
        BY <3>2, <4>1 DEF IInv, TypeOK
      <4> QED
        BY <3>1, <4>2
    <3>5. /\ lastSeen' = [lastSeen EXCEPT ![s] = retired + 1]
          /\ UNCHANGED <<emitted, retired, abandoned>>
      BY <2>2, <3>1 DEF CallSub
    <3>6. Abstract!Give(s)
      BY <3>1, <3>3, <3>4, <3>5 DEF Abstract!Give
    <3> QED
      BY <3>1, <3>6
  <2>3. ASSUME NEW t \in Task, Return(t) PROVE Abstract!Retire
    <3>1. /\ lockq # <<>> /\ lockq[1] = t /\ retired < emitted /\ nextSub[t] = NSubs + 1
      BY <2>3, HolderFacts DEF Return
    <3>2. \A s \in 1..NSubs : lastSeen[s] = retired + 1
      BY <3>1, BusAssumption DEF IInv, Given, Sub
    <3> QED
      BY <2>3, <3>1, <3>2 DEF Return, Abstract!Retire
  <2>4. ASSUME NEW t \in Task, Raise(t) PROVE Abstract!Abandon
    <3>1. /\ lockq # <<>> /\ lockq[1] = t /\ retired < emitted
          /\ nextSub[t] > 1 /\ 1 \in 1..NSubs
      BY <2>4, HolderFacts, BusAssumption DEF Raise
    <3>2. lastSeen[1] = retired + 1
      BY <3>1 DEF IInv, Given, Sub
    <3> QED
      BY <2>4, <3>1, <3>2 DEF Raise, Abstract!Abandon
  <2>5. CASE UNCHANGED <<emitted, retired, abandoned, lastSeen>>
    BY <2>5 DEF Abstract!vars
  <2> QED
    BY <2>1, <2>2, <2>3, <2>4, <2>5 DEF Next, Dispatch, vars, Subscribe, Unsubscribe,
       StartDrain, Pull, EndDrain, Abstract!Next
<1> QED
  BY <1>1, <1>2, SpecIInv, PTL DEF Spec, Implements, Abstract!Spec
=============================================================================
