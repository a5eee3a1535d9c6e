--------------------------- MODULE BotBridgeProof ---------------------------
(***************************************************************************)
(* For every number of calls, chats and waves and for all caps: the bridge *)
(* implements AskOnce, its slots are neither leaked nor exceeded, and a    *)
(* process that starts joins a running session when there is one.          *)
(***************************************************************************)
EXTENDS BotBridge, SequenceTheorems, FiniteSetTheorems, TLAPS

\* Taking a row out leaves a sequence of the same kind of rows.
LEMMA Removed ==
  ASSUME NEW S, NEW s \in Seq(S), NEW i \in DOMAIN s
  PROVE  RemoveAt(s, i) \in Seq(S)
<1>1. Len(s) \in Nat /\ i \in 1..Len(s) /\ \A j \in 1..Len(s) : s[j] \in S
  BY LenProperties, ElementOfSeq
<1>2. SubSeq(s, 1, i - 1) \in Seq(S)
  <2>1. 1 \in Int /\ i - 1 \in Int /\ \A j \in 1..(i - 1) : s[j] \in S
    BY <1>1
  <2> QED BY <2>1, SubSeqProperties
<1>3. SubSeq(s, i + 1, Len(s)) \in Seq(S)
  <2>1. i + 1 \in Int /\ Len(s) \in Int /\ \A j \in (i + 1)..Len(s) : s[j] \in S
    BY <1>1
  <2> QED BY <2>1, SubSeqProperties
<1> QED BY <1>2, <1>3, ConcatProperties DEF RemoveAt

\* What the agent's tools do to the sessions.
Tool == StopAll \/ \E r \in Project : \E w \in Wave : StartWave(r, w)

\* A process that is not attached writes no rows.
BotThere == pending # {} \/ poller # {} \/ Running # {} => attached["bot"] # 0
AgentThere == asked # {} => attached["agent"] # 0

LEMMA TypeInit == Init => TypeOK
<1> SUFFICES ASSUME Init PROVE TypeOK
  OBVIOUS
<1>1. sessions \in Seq(SessionType) /\ Len(sessions) = 0
  BY DEF Init
<1>2. rows \in Seq(RowType)
  BY DEF Init
<1>3. attached \in [Proc -> 0..Len(sessions)]
  BY <1>1 DEF Init
<1>4. starts \in [Proc -> Nat] /\ \A p \in Proc : starts[p] <= MaxStarts[p]
  BY BridgeAssumption DEF Init
<1>5. tries \in [Call -> [Call -> 0..MaxReenqueue]]
  BY BridgeAssumption DEF Init
<1>6. found \in [Proc -> SUBSET (1..Len(sessions))] /\ looking \in [Proc -> Wave \cup {"no", "any"}]
  BY DEF Init
<1> QED BY <1>1, <1>2, <1>3, <1>4, <1>5, <1>6 DEF Init, TypeOK

LEMMA FreshType ==
  ASSUME TypeOK, NEW p \in Proc, looking[p] # "no"
  PROVE  Fresh(p) \in SessionType
BY BridgeAssumption DEF Fresh, Session, SessionType, TypeOK

LEMMA TriesReset ==
  ASSUME NEW q \in Call, tries \in [Call -> [Call -> 0..MaxReenqueue]],
         \/ UNCHANGED tries \/ EndPoll(q) \/ tries' = [c \in Call |-> [r \in Call |-> 0]]
  PROVE  tries' \in [Call -> [Call -> 0..MaxReenqueue]]
<1>1. [r \in Call |-> 0] \in [Call -> 0..MaxReenqueue]
  BY BridgeAssumption
<1> QED BY <1>1 DEF EndPoll

\* Only a running poll task holds a row.
Holds == \A q \in Call : hand[q] # NoCall => q \in poller

LEMMA HoldsStep == TypeOK /\ Holds /\ [Next]_vars => Holds'
<1> SUFFICES ASSUME TypeOK, Holds, [Next]_vars PROVE Holds'
  OBVIOUS
<1> USE DEF session, call, poll, agent
<1>1. ASSUME NEW q \in Call,
             \/ Claim(q) \/ Deliver(q) \/ Reenqueue(q) \/ DropOrphan(q) \/ PollDies(q)
             \/ Return(q) \/ EnqueueQuery(q)
      PROVE  Holds'
  BY <1>1 DEF Claim, Deliver, Reenqueue, DropOrphan, PollDies, Return, EndPoll, EnqueueQuery, TypeOK,
     Holds
<1>2. ASSUME UNCHANGED <<hand, poller>> PROVE Holds'
  BY <1>2 DEF Holds
<1>3. ASSUME NEW q \in Call,
             Refuse(q) \/ Ask(q) \/ EnqueueFails(q) \/ TimeOut(q) \/ Answer(q)
      PROVE  Holds'
  BY <1>2, <1>3 DEF Refuse, Ask, EnqueueFails, TimeOut, Answer
<1>4. ASSUME NEW p \in Proc, AttachFromEnv(p) \/ Attach(p) \/ ResolveFails(p) \/ \E w \in Wave \cup {"any"} : Begin(p, w)
      PROVE  Holds'
  BY <1>2, <1>4 DEF AttachFromEnv, Attach, ResolveFails, Begin
<1>5. CASE ClaimQuery \/ AgentEnds \/ Tool \/ UNCHANGED vars
  BY <1>2, <1>5 DEF ClaimQuery, AgentEnds, Tool, StartWave, StopAll, vars
<1>6. CASE BotDies
  BY <1>6 DEF BotDies, Holds
<1> QED BY <1>1, <1>3, <1>4, <1>5, <1>6 DEF Next, Tool, Proc

LEMMA TypeStep ==
  TypeOK /\ BotThere /\ AgentThere /\ Holds /\ [Next]_vars => TypeOK' /\ BotThere' /\ AgentThere'
<1> SUFFICES ASSUME TypeOK, BotThere, AgentThere, Holds, [Next]_vars
             PROVE  TypeOK' /\ BotThere' /\ AgentThere'
  OBVIOUS
<1> USE DEF session, call, poll, agent
<1>0. /\ sessions \in Seq(SessionType) /\ Len(sessions) \in Nat
      /\ DOMAIN sessions = 1..Len(sessions)
  BY DEF TypeOK
<1>a. rows \in Seq(RowType)
  BY DEF TypeOK
<1>b. \A p \in Proc : MaxStarts[p] \in Nat
  BY BridgeAssumption
<1>1. ASSUME NEW p \in Proc, NEW w \in Wave \cup {"any"}, Begin(p, w)
      PROVE  TypeOK' /\ BotThere' /\ AgentThere'
  <2>1. Matching(p, w) \subseteq 1..Len(sessions)
    BY <1>0 DEF Matching, Live
  <2>2. starts' \in [Proc -> Nat] /\ \A r \in Proc : starts'[r] <= MaxStarts[r]
    BY <1>b, <1>1 DEF Begin, Starting, TypeOK
  <2>3. looking' \in [Proc -> Wave \cup {"no", "any"}] /\ found' \in [Proc -> SUBSET (1..Len(sessions))]
    BY <1>1, <2>1 DEF Begin, TypeOK
  <2> QED BY <1>1, <2>2, <2>3 DEF Begin, TypeOK, RowType, BotThere, AgentThere, Running
<1>2. ASSUME NEW p \in Proc, Attach(p)
      PROVE  TypeOK' /\ BotThere' /\ AgentThere'
  <2>1. CASE \E s \in found[p] : attached' = [attached EXCEPT ![p] = s] /\ UNCHANGED sessions
    <3>1. PICK s \in found[p] : attached' = [attached EXCEPT ![p] = s] /\ UNCHANGED sessions
      BY <2>1
    <3>2. s \in 1..Len(sessions)
      BY <1>0, <1>2 DEF TypeOK
    <3>3. attached' \in [Proc -> 0..Len(sessions)] /\ \A r \in Proc : attached[r] # 0 => attached'[r] # 0
      BY <1>0, <1>2, <3>1, <3>2 DEF TypeOK
    <3>4. looking' \in [Proc -> Wave \cup {"no", "any"}] /\ found' \in [Proc -> SUBSET (1..Len(sessions))]
      BY <1>2 DEF Attach, TypeOK
    <3> QED BY <1>2, <3>1, <3>3, <3>4 DEF Attach, TypeOK, RowType, BotThere, AgentThere, Running, Proc
  <2>2. CASE /\ sessions' = Append(sessions, Fresh(p))
             /\ attached' = [attached EXCEPT ![p] = Len(sessions')]
    <3>1. Fresh(p) \in SessionType
      BY <1>2, FreshType DEF Attach
    <3>2. /\ sessions' \in Seq(SessionType) /\ Len(sessions') = Len(sessions) + 1
          /\ 1..Len(sessions) \subseteq 1..Len(sessions')
      BY <1>0, <2>2, <3>1
    <3>3. attached' \in [Proc -> 0..Len(sessions')] /\ \A r \in Proc : attached[r] # 0 => attached'[r] # 0
      BY <1>0, <2>2, <3>2 DEF TypeOK
    <3>4. /\ looking' \in [Proc -> Wave \cup {"no", "any"}]
          /\ found' \in [Proc -> SUBSET (1..Len(sessions'))]
      BY <1>2, <3>2 DEF Attach, TypeOK
    <3>6. ended' \subseteq 1..Len(sessions')
      BY <1>2, <3>2 DEF Attach, TypeOK
    <3>5. rows' \in Seq(RowType')
      <4>1. RowType \subseteq RowType'
        BY <3>2 DEF RowType
      <4> HIDE DEF RowType
      <4> QED BY <1>a, <1>2, <4>1, SeqMonotonic DEF Attach
    <3> QED BY <1>2, <3>2, <3>3, <3>4, <3>5, <3>6 DEF Attach, TypeOK, RowType, BotThere, AgentThere, Running, Proc
  <2> QED BY <1>2, <2>1, <2>2 DEF Attach
<1>c. ASSUME rows' = rows, sessions' = sessions PROVE rows' \in Seq(RowType')
  BY <1>a, <1>c DEF RowType
<1>3. ASSUME NEW q \in Call, Refuse(q) \/ Ask(q) \/ EnqueueFails(q) \/ TimeOut(q) \/ Return(q)
      PROVE  TypeOK' /\ BotThere' /\ AgentThere'
  <2>1. /\ rows' = rows /\ sessions' = sessions /\ UNCHANGED <<session, asked, said>>
        /\ UNCHANGED tries \/ EndPoll(q)
    BY <1>3 DEF Refuse, Ask, EnqueueFails, TimeOut, Return
  <2>2. pc' \in [Call -> {"idle", "enqueue", "wait", "over"}]
    <3>1. \/ pc' = pc \/ pc' = [pc EXCEPT ![q] = "over"] \/ pc' = [pc EXCEPT ![q] = "enqueue"]
      BY <1>3 DEF Refuse, Ask, EnqueueFails, TimeOut, Return, Finish
    <3> QED BY <3>1 DEF TypeOK
  <2>3. pending' \subseteq Call /\ poller' \subseteq Call /\ hand' \in [Call -> Call \cup {NoCall}]
    BY <1>3 DEF Refuse, Ask, EnqueueFails, TimeOut, Return, EndPoll, TypeOK
  <2>4. /\ future' \in [Call -> Call \cup {"open", "cancelled"}]
        /\ outcome' \in [Call -> Call \cup {"none", "refused", "gave_up"}]
    <3>1. ASSUME Return(q), future[q] # "cancelled"
          PROVE  future[q] \in Call
      BY <3>1 DEF Return, TypeOK
    <3>2. CASE Return(q)
      BY <3>1, <3>2 DEF Return, EndPoll, Finish, TypeOK
    <3>3. CASE ~Return(q)
      BY <1>3, <3>3 DEF Refuse, Ask, EnqueueFails, TimeOut, Finish, TypeOK
    <3> QED BY <3>2, <3>3
  <2>7. tries' \in [Call -> [Call -> 0..MaxReenqueue]]
    BY <2>1, TriesReset DEF TypeOK
  <2>5. TypeOK'
    BY <2>1, <2>2, <2>3, <2>4, <2>7, <1>c DEF TypeOK
  <2>6. pending' # {} \/ poller' # {} \/ Running' # {} => attached["bot"] # 0
    <3>1. CASE Refuse(q) \/ Ask(q)
      BY <3>1 DEF Refuse, Ask
    <3>2. CASE EnqueueFails(q) \/ TimeOut(q) \/ Return(q)
      <4>1. q \in Running
        BY <3>2 DEF EnqueueFails, TimeOut, Return, Running
      <4> QED BY <4>1 DEF BotThere
    <3> QED BY <1>3, <3>1, <3>2
  <2> QED BY <2>1, <2>5, <2>6 DEF BotThere, AgentThere
<1>4. ASSUME NEW q \in Call, EnqueueQuery(q)
      PROVE  TypeOK' /\ BotThere' /\ AgentThere'
  <2>1. attached["bot"] \in 1..Len(sessions)
    BY <1>0, <1>4 DEF EnqueueQuery, BotThere, Running, TypeOK, Proc
  <2>2. Row("query", attached["bot"], q) \in RowType
    BY <2>1 DEF Row, RowType
  <2>3. rows' \in Seq(RowType)
    <3> HIDE DEF RowType
    <3> QED BY <1>a, <1>4, <2>2 DEF EnqueueQuery
  <2> QED BY <1>4, <2>1, <2>3 DEF EnqueueQuery, TypeOK, RowType, BotThere, AgentThere, Running
<1>5. ASSUME NEW q \in Call, Claim(q)
      PROVE  TypeOK' /\ BotThere' /\ AgentThere'
  <2>1. PICK i \in DOMAIN rows : hand' = [hand EXCEPT ![q] = rows[i].call] /\ rows' = RemoveAt(rows, i)
    BY <1>5 DEF Claim
  <2>2. rows[i].call \in Call
    <3>1. DOMAIN rows = 1..Len(rows)
      BY <1>a, LenProperties
    <3>2. rows[i] \in RowType
      <4> HIDE DEF RowType
      <4> QED BY <1>a, <3>1, ElementOfSeq
    <3> QED BY <3>2 DEF RowType
  <2>3. rows' \in Seq(RowType)
    BY <1>a, <2>1, Removed
  <2> QED BY <1>5, <2>1, <2>2, <2>3 DEF Claim, TypeOK, RowType, BotThere, AgentThere, Running
<1>6. ASSUME NEW q \in Call, Deliver(q) \/ DropOrphan(q) \/ PollDies(q)
      PROVE  TypeOK' /\ BotThere' /\ AgentThere'
  <2>1. /\ rows' = rows /\ sessions' = sessions /\ UNCHANGED <<session, pc, outcome, agent>>
        /\ pending' \subseteq pending /\ poller' \subseteq poller
        /\ UNCHANGED tries \/ EndPoll(q)
    BY <1>6 DEF Deliver, DropOrphan, PollDies, EndPoll
  <2>2. hand' \in [Call -> Call \cup {NoCall}] /\ future' \in [Call -> Call \cup {"open", "cancelled"}]
    <3>1. /\ hand' = [hand EXCEPT ![q] = NoCall]
          /\ future' = future \/ future' = [future EXCEPT ![q] = q]
      BY <1>6 DEF Deliver, DropOrphan, PollDies, EndPoll, TypeOK
    <3>2. hand' \in [Call -> Call \cup {NoCall}]
      BY <3>1 DEF TypeOK
    <3>3. future' \in [Call -> Call \cup {"open", "cancelled"}]
      BY <3>1 DEF TypeOK
    <3> QED BY <3>2, <3>3
  <2>4. tries' \in [Call -> [Call -> 0..MaxReenqueue]]
    BY <2>1, TriesReset DEF TypeOK
  <2>3. TypeOK'
    BY <2>1, <2>2, <2>4, <1>c DEF TypeOK
  <2> QED BY <2>1, <2>3 DEF BotThere, AgentThere, Running
<1>7. ASSUME NEW q \in Call, Reenqueue(q)
      PROVE  TypeOK' /\ BotThere' /\ AgentThere'
  <2>1. q \in poller /\ hand[q] \in Call
    BY <1>7 DEF Reenqueue, Foreign, Holds, TypeOK
  <2>2. attached["bot"] \in 1..Len(sessions)
    BY <1>0, <2>1 DEF BotThere, TypeOK, Proc
  <2>3. Row("response", attached["bot"], hand[q]) \in RowType
    BY <2>1, <2>2 DEF Row, RowType
  <2>4. rows' \in Seq(RowType)
    <3> HIDE DEF RowType
    <3> QED BY <1>a, <1>7, <2>3 DEF Reenqueue
  <2>5. tries' \in [Call -> [Call -> 0..MaxReenqueue]]
    <3> DEFINE h == hand[q]
    <3>1. /\ tries \in [Call -> [Call -> 0..MaxReenqueue]] /\ tries[q][h] < MaxReenqueue /\ h \in Call
          /\ tries' = [tries EXCEPT ![q][h] = @ + 1]
      BY <1>7, <2>1 DEF Reenqueue, TypeOK
    <3> HIDE DEF h
    <3>2. tries[q][h] + 1 \in 0..MaxReenqueue
      <4>1. tries[q][h] \in 0..MaxReenqueue
        BY <3>1
      <4> QED BY <3>1, <4>1, BridgeAssumption
    <3> QED BY <3>1, <3>2
  <2> QED BY <1>7, <2>4, <2>5 DEF Reenqueue, TypeOK, RowType, BotThere, AgentThere, Running
<1>8. CASE ClaimQuery
  <2>1. PICK i \in DOMAIN rows : asked' = asked \cup {rows[i].call} /\ rows' = RemoveAt(rows, i)
    BY <1>8 DEF ClaimQuery
  <2>2. rows[i].call \in Call
    <3>1. DOMAIN rows = 1..Len(rows)
      BY <1>a, LenProperties
    <3>2. rows[i] \in RowType
      <4> HIDE DEF RowType
      <4> QED BY <1>a, <3>1, ElementOfSeq
    <3> QED BY <3>2 DEF RowType
  <2>3. rows' \in Seq(RowType)
    BY <1>a, <2>1, Removed
  <2> QED BY <1>8, <2>1, <2>2, <2>3 DEF ClaimQuery, TypeOK, RowType, BotThere, AgentThere, Running
<1>10. ASSUME NEW q \in Call, Answer(q)
       PROVE  TypeOK' /\ BotThere' /\ AgentThere'
  <2>1. attached["agent"] \in 1..Len(sessions)
    BY <1>0, <1>10 DEF Answer, AgentThere, TypeOK, Proc
  <2>2. Row("response", attached["agent"], q) \in RowType
    BY <2>1 DEF Row, RowType
  <2>3. rows' \in Seq(RowType)
    <3> HIDE DEF RowType
    <3> QED BY <1>a, <1>10, <2>2 DEF Answer
  <2> QED BY <1>10, <2>3 DEF Answer, TypeOK, RowType, BotThere, AgentThere, Running
<1>11. CASE AgentEnds \/ BotDies
  <2>1. CASE AgentEnds
    <3>1. /\ rows' = rows /\ sessions' = sessions /\ asked' = {} /\ attached'["bot"] = attached["bot"]
          /\ attached' \in [Proc -> 0..Len(sessions)]
      BY <1>0, <2>1 DEF AgentEnds, TypeOK, Proc
    <3> QED BY <2>1, <3>1, <1>c DEF AgentEnds, TypeOK, BotThere, AgentThere, Running
  <2>2. CASE BotDies
    <3>1. /\ rows' = rows /\ sessions' = sessions /\ attached'["agent"] = attached["agent"]
          /\ attached' \in [Proc -> 0..Len(sessions)]
      BY <1>0, <2>2 DEF BotDies, TypeOK, Proc
    <3>2. /\ pc' \in [Call -> {"idle", "enqueue", "wait", "over"}] /\ Running' = {}
          /\ outcome' \in [Call -> Call \cup {"none", "refused", "gave_up"}]
          /\ hand' \in [Call -> Call \cup {NoCall}] /\ pending' = {} /\ poller' = {}
      BY <2>2 DEF BotDies, TypeOK, Running
    <3>4. tries' \in [Call -> [Call -> 0..MaxReenqueue]]
      BY <2>2, BridgeAssumption DEF BotDies
    <3>3. TypeOK'
      BY <2>2, <3>1, <3>2, <3>4, <1>c DEF BotDies, TypeOK
    <3> QED BY <2>2, <3>1, <3>2, <3>3 DEF BotDies, BotThere, AgentThere
  <2> QED BY <1>11, <2>1, <2>2
<1>12. ASSUME NEW r \in Project, NEW w \in Wave, StartWave(r, w)
       PROVE  TypeOK' /\ BotThere' /\ AgentThere'
  <2>1. /\ sessions' \in Seq(SessionType) /\ Len(sessions') = Len(sessions) + 1
        /\ 1..Len(sessions) \subseteq 1..Len(sessions')
    <3>1. Session(r, w) \in SessionType
      BY DEF Session, SessionType
    <3> QED BY <1>0, <1>12, <3>1 DEF StartWave
  <2>2. attached' \in [Proc -> 0..Len(sessions')] /\ found' \in [Proc -> SUBSET (1..Len(sessions'))]
    BY <1>0, <1>12, <2>1 DEF StartWave, TypeOK
  <2>3. rows' \in Seq(RowType')
    <3>1. RowType \subseteq RowType'
      BY <2>1 DEF RowType
    <3> HIDE DEF RowType
    <3> QED BY <1>a, <1>12, <3>1, SeqMonotonic DEF StartWave
  <2>4. ended' \subseteq 1..Len(sessions')
    BY <1>12, <2>1 DEF StartWave, TypeOK
  <2> QED BY <1>12, <2>1, <2>2, <2>3, <2>4 DEF StartWave, TypeOK, BotThere, AgentThere, Running
<1>14. ASSUME NEW p \in Proc, AttachFromEnv(p)
       PROVE  TypeOK' /\ BotThere' /\ AgentThere'
  <2>1. UNCHANGED <<sessions, ended, looking, found, call, poll, rows, agent>>
    BY <1>14 DEF AttachFromEnv
  <2>2. attached' \in [Proc -> 0..Len(sessions)] /\ \A r \in Proc : attached[r] # 0 => attached'[r] # 0
    <3>1. PICK s \in 1..Len(sessions) : attached' = [attached EXCEPT ![p] = s]
      BY <1>0, <1>14 DEF AttachFromEnv
    <3> QED BY <1>0, <3>1 DEF TypeOK
  <2>3. starts' \in [Proc -> Nat] /\ \A r \in Proc : starts'[r] <= MaxStarts[r]
    BY <1>b, <1>14 DEF AttachFromEnv, Starting, TypeOK
  <2> QED BY <2>1, <2>2, <2>3, <1>c DEF TypeOK, BotThere, AgentThere, Running, Proc
<1>15. ASSUME NEW p \in Proc, ResolveFails(p)
       PROVE  TypeOK' /\ BotThere' /\ AgentThere'
  <2>1. looking' \in [Proc -> Wave \cup {"no", "any"}] /\ found' \in [Proc -> SUBSET (1..Len(sessions))]
    BY <1>15 DEF ResolveFails, TypeOK
  <2>2. UNCHANGED <<sessions, ended, attached, starts, call, poll, rows, agent>>
    BY <1>15 DEF ResolveFails
  <2> QED BY <2>1, <2>2, <1>c DEF TypeOK, BotThere, AgentThere, Running
<1>13. CASE StopAll
  <2>1. UNCHANGED <<sessions, looking, found, attached, starts, call, poll, rows, agent>>
    BY <1>13 DEF StopAll
  <2>2. ended' \subseteq 1..Len(sessions)
    BY <1>0, <1>13 DEF StopAll, Live, TypeOK
  <2> QED BY <2>1, <2>2, <1>c DEF TypeOK, BotThere, AgentThere, Running
<1>9. CASE UNCHANGED vars
  BY <1>9 DEF vars, TypeOK, RowType, BotThere, AgentThere, Running
<1> QED BY <1>1, <1>2, <1>3, <1>4, <1>5, <1>6, <1>7, <1>8, <1>9, <1>10, <1>11, <1>12, <1>13, <1>14, <1>15
        DEF Next, Proc

\* TypeOK: every value stays in its range; in particular a row is put back at
\* most _MAX_REENQUEUE_ATTEMPTS times by one poll task.
THEOREM TypeCorrect == Spec => []TypeOK
<1>1. Init => BotThere /\ AgentThere /\ Holds
  BY DEF Init, BotThere, AgentThere, Holds, Running
<1> QED BY <1>1, TypeInit, TypeStep, HoldsStep, PTL DEF Spec

-----------------------------------------------------------------------------
\* While one process looks, no other does, and what it found is still all that
\* is running.
LookInv ==
  /\ \A p, r \in Proc : looking[p] # "no" /\ looking[r] # "no" => p = r
  /\ \A p \in Proc : looking[p] # "no" => attached[p] = 0 /\ found[p] = Matching(p, looking[p])

LEMMA LookStep == TypeOK /\ LookInv /\ [Next]_vars => LookInv'
<1> SUFFICES ASSUME TypeOK, LookInv, [Next]_vars PROVE LookInv'
  OBVIOUS
<1> USE DEF session, call, poll, agent
<1>1. ASSUME NEW p \in Proc, NEW w \in Wave \cup {"any"}, Begin(p, w) PROVE LookInv'
  <2>1. /\ UNCHANGED <<sessions, ended, attached>> /\ attached[p] = 0 /\ looking' = [looking EXCEPT ![p] = w]
        /\ found' = [found EXCEPT ![p] = Matching(p, w)] /\ \A r \in Proc : looking[r] = "no"
    BY <1>1 DEF Begin, Starting, Unlocked
  <2>2. \A r \in Proc : looking'[r] # "no" => r = p
    BY <2>1 DEF TypeOK
  <2>3. looking'[p] = w /\ found'[p] = Matching(p, w)
    BY <2>1 DEF TypeOK
  <2> QED BY <2>1, <2>2, <2>3 DEF LookInv, Matching, Live
<1>2. ASSUME NEW p \in Proc, Attach(p) \/ ResolveFails(p) PROVE LookInv'
  <2>1. \A r \in Proc : looking'[r] = "no"
    <3>1. looking[p] # "no" /\ looking' = [looking EXCEPT ![p] = "no"]
      BY <1>2 DEF Attach, ResolveFails
    <3> QED BY <3>1 DEF LookInv, TypeOK
  <2> QED BY <2>1 DEF LookInv
<1>3. ASSUME UNCHANGED <<sessions, ended, looking, found>>,
             \A p \in Proc : attached'[p] \in {0, attached[p]} \/ looking[p] = "no"
      PROVE  LookInv'
  BY <1>3 DEF LookInv, Matching, Live
<1>4. ASSUME NEW q \in Call,
             \/ Refuse(q) \/ Ask(q) \/ EnqueueQuery(q) \/ EnqueueFails(q) \/ TimeOut(q)
             \/ Return(q) \/ Claim(q) \/ Deliver(q) \/ Reenqueue(q) \/ DropOrphan(q)
             \/ PollDies(q) \/ Answer(q)
      PROVE  UNCHANGED <<sessions, ended, looking, found, attached>>
  BY <1>4 DEF Refuse, Ask, EnqueueQuery, EnqueueFails, TimeOut, Return, Claim, Deliver, Reenqueue,
     DropOrphan, PollDies, Answer
<1>5. ASSUME ClaimQuery \/ AgentEnds \/ BotDies \/ UNCHANGED vars
      PROVE  /\ UNCHANGED <<sessions, ended, looking, found>>
             /\ \A p \in Proc : attached'[p] \in {0, attached[p]}
  BY <1>5 DEF ClaimQuery, AgentEnds, BotDies, vars, TypeOK
<1>7. ASSUME NEW p \in Proc, AttachFromEnv(p) PROVE LookInv'
  <2>1. /\ UNCHANGED <<sessions, ended, looking, found>> /\ looking[p] = "no"
        /\ \A r \in Proc : r # p => attached'[r] = attached[r]
    BY <1>7 DEF AttachFromEnv, Starting, TypeOK
  <2> QED BY <1>3, <2>1
<1>6. ASSUME StopAll \/ \E r \in Project : \E w \in Wave : StartWave(r, w) PROVE LookInv'
  <2>1. Unlocked /\ looking' = looking
    BY <1>6 DEF StopAll, StartWave
  <2> QED BY <2>1 DEF LookInv, Unlocked
<1> QED BY <1>1, <1>2, <1>3, <1>4, <1>5, <1>6, <1>7 DEF Next, Proc

\* JoinsRunning: BEGIN IMMEDIATE makes the look and the insert one step with
\* respect to whatever else starts, is started or is stopped.
THEOREM Joins == Spec => JoinsRunning
<1> DEFINE Joined ==
      \A p \in Proc : looking[p] # "no" /\ attached'[p] # 0 =>
         /\ attached'[p] \in Live'
         /\ sessions' # sessions => Matching(p, looking[p]) = {}
<1>1. Init => BotThere /\ AgentThere /\ Holds /\ LookInv
  BY DEF Init, BotThere, AgentThere, Holds, Running, LookInv
<1>2. TypeOK /\ LookInv /\ [Next]_vars => Joined
  <2> SUFFICES ASSUME TypeOK, LookInv, [Next]_vars PROVE Joined
    OBVIOUS
  <2> USE DEF session, call, poll, agent
  <2>0. /\ sessions \in Seq(SessionType) /\ Len(sessions) \in Nat
        /\ DOMAIN sessions = 1..Len(sessions) /\ ended \subseteq 1..Len(sessions)
    BY DEF TypeOK
  <2>1. ASSUME NEW p \in Proc, Attach(p) PROVE Joined
    <3>0. looking[p] # "no" /\ found[p] = Matching(p, looking[p]) /\ ended' = ended
          /\ \A r \in Proc : r # p => looking[r] = "no"
      BY <2>1 DEF Attach, LookInv, TypeOK
    <3>1. CASE \E s \in found[p] : attached' = [attached EXCEPT ![p] = s] /\ UNCHANGED sessions
      <4>1. PICK s \in found[p] : attached' = [attached EXCEPT ![p] = s] /\ UNCHANGED sessions
        BY <3>1
      <4>2. s \in Live' /\ attached'[p] = s
        BY <3>0, <4>1 DEF Matching, Live, TypeOK
      <4> QED BY <3>0, <4>1, <4>2
    <3>2. CASE /\ found[p] = {}
               /\ sessions' = Append(sessions, Fresh(p))
               /\ attached' = [attached EXCEPT ![p] = Len(sessions')]
      <4>1. Fresh(p) \in SessionType
        BY <3>0, FreshType
      <4>2. Len(sessions') = Len(sessions) + 1 /\ DOMAIN sessions' = 1..(Len(sessions) + 1)
        BY <2>0, <3>2, <4>1, AppendProperties
      <4>3. attached'[p] = Len(sessions) + 1
        BY <3>2, <4>2 DEF TypeOK
      <4>4. Len(sessions) + 1 \in Live'
        BY <2>0, <3>0, <4>2 DEF Live
      <4> QED BY <3>0, <3>2, <4>3, <4>4
    <3> QED BY <2>1, <3>1, <3>2 DEF Attach
  <2>2. ASSUME \A p \in Proc : attached'[p] \in {0, attached[p]} PROVE Joined
    BY <2>2 DEF LookInv
  <2>3. ASSUME NEW q \in Call,
               \/ Refuse(q) \/ Ask(q) \/ EnqueueQuery(q) \/ EnqueueFails(q) \/ TimeOut(q)
               \/ Return(q) \/ Claim(q) \/ Deliver(q) \/ Reenqueue(q) \/ DropOrphan(q)
               \/ PollDies(q) \/ Answer(q)
        PROVE  attached' = attached
    BY <2>3 DEF Refuse, Ask, EnqueueQuery, EnqueueFails, TimeOut, Return, Claim, Deliver, Reenqueue,
       DropOrphan, PollDies, Answer
  <2>4. ASSUME \/ ClaimQuery \/ Tool \/ UNCHANGED vars
               \/ \E p \in Proc : ResolveFails(p) \/ \E w \in Wave \cup {"any"} : Begin(p, w)
        PROVE  attached' = attached
    BY <2>4 DEF ClaimQuery, Tool, StartWave, StopAll, ResolveFails, Begin, vars
  <2>5. ASSUME AgentEnds \/ BotDies
        PROVE  \A p \in Proc : attached'[p] \in {0, attached[p]}
    BY <2>5 DEF AgentEnds, BotDies, TypeOK
  <2>6. ASSUME NEW p \in Proc, AttachFromEnv(p) PROVE Joined
    <3>1. looking[p] = "no" /\ sessions' = sessions /\ \A r \in Proc : r # p => attached'[r] = attached[r]
      BY <2>6 DEF AttachFromEnv, Starting, TypeOK
    <3>2. \A r \in Proc : looking[r] # "no" => attached[r] = 0
      BY DEF LookInv
    <3> QED BY <3>1, <3>2
  <2> HIDE DEF Joined
  <2> QED BY <2>1, <2>2, <2>3, <2>4, <2>5, <2>6 DEF Next, Tool, Proc
<1> QED BY <1>1, <1>2, TypeInit, TypeStep, HoldsStep, LookStep, PTL DEF Spec, JoinsRunning

-----------------------------------------------------------------------------
\* NoLeak: with fewer calls pending, no cap is exceeded.
Caps == /\ Cardinality(pending) <= InflightCap
        /\ \A c \in Chat : Cardinality(OfChat(c)) <= PerChatCap

LEMMA CapsShrink == TypeOK /\ Caps /\ pending' \subseteq pending => Caps'
<1> SUFFICES ASSUME TypeOK, Caps, pending' \subseteq pending PROVE Caps'
  OBVIOUS
<1>1. IsFiniteSet(pending)
  BY BridgeAssumption, FS_Subset DEF TypeOK
<1>2. Cardinality(pending') <= Cardinality(pending) /\ Cardinality(pending) \in Nat
      /\ Cardinality(pending') \in Nat
  BY <1>1, FS_Subset, FS_CardinalityType
<1>3. ASSUME NEW c \in Chat PROVE Cardinality(OfChat(c)') <= PerChatCap
  <2>1. OfChat(c)' \subseteq OfChat(c) /\ IsFiniteSet(OfChat(c))
    BY <1>1, FS_Subset DEF OfChat
  <2>2. Cardinality(OfChat(c)') <= Cardinality(OfChat(c)) /\ Cardinality(OfChat(c)) \in Nat
        /\ Cardinality(OfChat(c)') \in Nat
    BY <2>1, FS_Subset, FS_CardinalityType
  <2> QED BY <2>2, BridgeAssumption DEF Caps
<1> QED BY <1>2, <1>3, BridgeAssumption DEF Caps

LEMMA CapsAsk == ASSUME TypeOK, Caps, NEW q \in Call, Ask(q) PROVE Caps'
<1>1. pending' = pending \cup {q} /\ ~Full(q)
  BY DEF Ask
<1>2. IsFiniteSet(pending)
  BY BridgeAssumption, FS_Subset DEF TypeOK
<1>3. Cardinality(pending') <= InflightCap
  <2>1. Cardinality(pending) \in Nat /\ Cardinality(pending) < InflightCap
    BY <1>1, <1>2, FS_CardinalityType, BridgeAssumption DEF Full
  <2>2. \/ Cardinality(pending') = Cardinality(pending)
        \/ Cardinality(pending') = Cardinality(pending) + 1
    BY <1>1, <1>2, FS_AddElement
  <2> QED BY <2>1, <2>2, BridgeAssumption
<1>4. ASSUME NEW c \in Chat PROVE Cardinality(OfChat(c)') <= PerChatCap
  <2>1. CASE ChatOf[q] # c
    <3>1. OfChat(c)' = OfChat(c)
      BY <1>1, <2>1 DEF OfChat
    <3> QED BY <3>1 DEF Caps
  <2>2. CASE ChatOf[q] = c
    <3>1. OfChat(c)' = OfChat(c) \cup {q} /\ IsFiniteSet(OfChat(c))
      BY <1>1, <1>2, <2>2, FS_Subset DEF OfChat
    <3>2. Cardinality(OfChat(c)) \in Nat /\ Cardinality(OfChat(c)) < PerChatCap
      BY <1>1, <2>2, <3>1, FS_CardinalityType, BridgeAssumption DEF Full
    <3>3. \/ Cardinality(OfChat(c)') = Cardinality(OfChat(c))
          \/ Cardinality(OfChat(c)') = Cardinality(OfChat(c)) + 1
      BY <3>1, FS_AddElement
    <3> QED BY <3>2, <3>3, BridgeAssumption
  <2> QED BY <2>1, <2>2
<1> QED BY <1>3, <1>4 DEF Caps

\* A poll task runs only while its call waits, not yet while it inserts.
PollWaits == \A q \in poller : pc[q] = "wait"

LEMMA WaitsStep == TypeOK /\ PollWaits /\ [Next]_vars => PollWaits'
<1> SUFFICES ASSUME TypeOK, PollWaits, [Next]_vars PROVE PollWaits'
  OBVIOUS
<1> USE DEF session, call, poll, agent
<1>1. ASSUME NEW q \in Call, Refuse(q) \/ Ask(q) \/ EnqueueQuery(q) \/ EnqueueFails(q) \/ Return(q)
      PROVE  PollWaits'
  BY <1>1 DEF Refuse, Ask, EnqueueQuery, EnqueueFails, Return, EndPoll, Finish, TypeOK, PollWaits
<1>2. ASSUME poller' \subseteq poller, pc' = pc PROVE PollWaits'
  BY <1>2 DEF PollWaits
<1>3. ASSUME NEW q \in Call,
             \/ TimeOut(q) \/ Claim(q) \/ Deliver(q) \/ Reenqueue(q) \/ DropOrphan(q)
             \/ PollDies(q) \/ Answer(q)
      PROVE  poller' \subseteq poller /\ pc' = pc
  BY <1>3 DEF TimeOut, Claim, Deliver, Reenqueue, DropOrphan, PollDies, EndPoll, Answer
<1>4. ASSUME NEW p \in Proc, AttachFromEnv(p) \/ Attach(p) \/ ResolveFails(p) \/ \E w \in Wave \cup {"any"} : Begin(p, w)
      PROVE  poller' \subseteq poller /\ pc' = pc
  BY <1>4 DEF AttachFromEnv, Attach, ResolveFails, Begin
<1>5. ASSUME ClaimQuery \/ AgentEnds \/ Tool \/ UNCHANGED vars
      PROVE  poller' \subseteq poller /\ pc' = pc
  BY <1>5 DEF ClaimQuery, AgentEnds, Tool, StartWave, StopAll, vars
<1>6. ASSUME BotDies PROVE PollWaits'
  BY <1>6 DEF BotDies, PollWaits
<1> QED BY <1>1, <1>2, <1>3, <1>4, <1>5, <1>6 DEF Next, Tool, Proc

LEMMA LeakStep == TypeOK /\ PollWaits /\ NoLeak /\ [Next]_vars => NoLeak'
<1> SUFFICES ASSUME TypeOK, PollWaits, NoLeak, [Next]_vars PROVE NoLeak'
  OBVIOUS
<1> USE DEF session, call, poll, agent
<1>0. /\ pending \subseteq Running /\ poller \subseteq Running /\ Holds /\ Caps
      /\ Holds'
  BY HoldsStep DEF NoLeak, Holds, Caps
<1>q. ASSUME pending' \subseteq Running', poller' \subseteq Running', Caps' PROVE NoLeak'
  BY <1>0, <1>q DEF NoLeak, Caps, Holds
<1>1. ASSUME NEW q \in Call, Ask(q) PROVE NoLeak'
  <2>1. Running' = Running \cup {q} /\ pending' = pending \cup {q} /\ poller' = poller
    BY <1>1 DEF Ask, Running, TypeOK
  <2> QED BY <1>0, <1>1, <1>q, <2>1, CapsAsk
<1>2. ASSUME NEW q \in Call, EnqueueQuery(q) PROVE NoLeak'
  <2>1. Running' = Running /\ q \in Running /\ pending' = pending /\ poller' = poller \cup {q}
    BY <1>2 DEF EnqueueQuery, Running, TypeOK
  <2> QED BY <1>0, <1>q, <2>1, CapsShrink
<1>3. ASSUME NEW q \in Call, EnqueueFails(q) \/ Return(q) PROVE NoLeak'
  <2>1. Running' = Running \ {q} /\ pending' = pending \ {q}
    BY <1>3 DEF EnqueueFails, Return, EndPoll, Finish, Running, TypeOK
  <2>2. poller' \subseteq Running \ {q}
    <3>1. CASE Return(q)
      BY <1>0, <3>1 DEF Return, EndPoll
    <3>2. CASE EnqueueFails(q)
      BY <1>0, <3>2 DEF EnqueueFails, PollWaits
    <3> QED BY <1>3, <3>1, <3>2
  <2> QED BY <1>0, <1>q, <2>1, <2>2, CapsShrink
<1>4. ASSUME NEW q \in Call, Refuse(q) PROVE NoLeak'
  <2>1. Running' = Running /\ pending' = pending /\ poller' = poller
    BY <1>4 DEF Refuse, Finish, Running, TypeOK
  <2> QED BY <1>0, <1>q, <2>1, CapsShrink
<1>5. ASSUME pending' \subseteq pending, poller' \subseteq poller, pc' = pc PROVE NoLeak'
  <2>1. Running' = Running
    BY <1>5 DEF Running
  <2> QED BY <1>0, <1>5, <1>q, <2>1, CapsShrink
<1>6. ASSUME NEW q \in Call,
             \/ TimeOut(q) \/ Claim(q) \/ Deliver(q) \/ Reenqueue(q) \/ DropOrphan(q)
             \/ PollDies(q) \/ Answer(q)
      PROVE  pending' \subseteq pending /\ poller' \subseteq poller /\ pc' = pc
  BY <1>6 DEF TimeOut, Claim, Deliver, Reenqueue, DropOrphan, PollDies, EndPoll, Answer
<1>7. ASSUME NEW p \in Proc, AttachFromEnv(p) \/ Attach(p) \/ ResolveFails(p) \/ \E w \in Wave \cup {"any"} : Begin(p, w)
      PROVE  pending' \subseteq pending /\ poller' \subseteq poller /\ pc' = pc
  BY <1>7 DEF AttachFromEnv, Attach, ResolveFails, Begin
<1>8. ASSUME ClaimQuery \/ AgentEnds \/ Tool \/ UNCHANGED vars
      PROVE  pending' \subseteq pending /\ poller' \subseteq poller /\ pc' = pc
  BY <1>8 DEF ClaimQuery, AgentEnds, Tool, StartWave, StopAll, vars
<1>9. ASSUME BotDies PROVE NoLeak'
  <2>1. pending' = {} /\ poller' = {}
    BY <1>9 DEF BotDies
  <2> QED BY <1>0, <1>q, <2>1, CapsShrink
<1> QED BY <1>1, <1>2, <1>3, <1>4, <1>5, <1>6, <1>7, <1>8, <1>9 DEF Next, Tool, Proc

\* NoLeak: however a call ends, its slot is given back with it, so that the
\* caps count what runs and nothing else.
THEOREM SlotsHold == Spec => []NoLeak
<1>1. Init => BotThere /\ AgentThere /\ Holds
  BY DEF Init, BotThere, AgentThere, Holds, Running
<1>2. Init => NoLeak
  <2> SUFFICES ASSUME Init PROVE NoLeak
    OBVIOUS
  <2>1. pending = {} /\ \A c \in Chat : OfChat(c) = {}
    BY DEF Init, OfChat
  <2>2. Cardinality({}) = 0
    BY FS_EmptySet
  <2>3. Cardinality(pending) <= InflightCap
    BY <2>1, <2>2, BridgeAssumption
  <2>4. ASSUME NEW c \in Chat PROVE Cardinality(OfChat(c)) <= PerChatCap
    BY <2>1, <2>2, BridgeAssumption
  <2>5. pending = {} /\ poller = {} /\ \A q \in Call : hand[q] = NoCall
    BY DEF Init
  <2> QED BY <2>3, <2>4, <2>5 DEF NoLeak
<1>3. Init => PollWaits
  BY DEF Init, PollWaits
<1> QED BY <1>1, <1>2, <1>3, TypeInit, TypeStep, HoldsStep, WaitsStep, LeakStep, PTL DEF Spec

-----------------------------------------------------------------------------
\* Implements: every copy of a response, in the table, in a poll task's hand or
\* in its future, is of a call the agent has answered.
Event == [kind : {"query", "response"}, sess : Nat, call : Call]
RespRow == {r \in Event : r.kind = "response" => r.call \in said}

AskInv ==
  /\ rows \in Seq(RespRow)
  /\ \A q \in Call : hand[q] # NoCall => hand[q] \in said
  /\ \A q \in Call : future[q] \notin {"open", "cancelled"} => future[q] = q /\ q \in said
  /\ \A q \in Call : pc[q] # "over" => outcome[q] = "none"

LEMMA RespGrows == ASSUME rows \in Seq(RespRow), said \subseteq said' PROVE rows \in Seq(RespRow')
<1>1. RespRow \subseteq RespRow'
  BY DEF RespRow, Event
<1> HIDE DEF RespRow
<1> QED BY <1>1, SeqMonotonic

LEMMA RespAppend ==
  ASSUME NEW k \in {"query", "response"}, NEW n \in Nat, NEW q \in Call,
         k = "response" => q \in said, rows \in Seq(RespRow)
  PROVE  Append(rows, Row(k, n, q)) \in Seq(RespRow)
<1>1. Row(k, n, q) \in RespRow
  BY DEF Row, RespRow, Event
<1> HIDE DEF RespRow
<1> QED BY <1>1, AppendProperties

LEMMA AskStep == TypeOK /\ AskInv /\ [Next]_vars => AskInv'
<1> SUFFICES ASSUME TypeOK, AskInv, [Next]_vars PROVE AskInv'
  OBVIOUS
<1> USE DEF session, call, poll, agent
<1>0. rows \in Seq(RespRow) /\ \A p \in Proc : attached[p] \in Nat
  BY DEF AskInv, TypeOK
<1>a. ASSUME said' = said PROVE RespRow' = RespRow
  BY <1>a DEF RespRow, Event
<1>1. ASSUME NEW q \in Call, Refuse(q) \/ Ask(q) \/ EnqueueFails(q) PROVE AskInv'
  <2>1. /\ UNCHANGED <<rows, said, hand, future>>
        /\ \/ pc' = [pc EXCEPT ![q] = "over"]
           \/ pc' = [pc EXCEPT ![q] = "enqueue"] /\ outcome' = outcome /\ pc[q] = "idle"
        /\ \A r \in Call : r # q => outcome'[r] = outcome[r]
    BY <1>1 DEF Refuse, Ask, EnqueueFails, Finish, TypeOK
  <2>2. \A r \in Call : pc'[r] # "over" => outcome'[r] = "none"
    BY <2>1 DEF TypeOK, AskInv
  <2> QED BY <1>0, <1>a, <2>1, <2>2 DEF AskInv
<1>2. ASSUME NEW q \in Call, EnqueueQuery(q) PROVE AskInv'
  <2>1. /\ UNCHANGED <<said, hand, future, outcome>> /\ attached["bot"] \in Nat
        /\ pc[q] = "enqueue" /\ pc' = [pc EXCEPT ![q] = "wait"]
        /\ rows' = Append(rows, Row("query", attached["bot"], q))
    BY <1>0, <1>2 DEF EnqueueQuery, Proc
  <2>2. rows' \in Seq(RespRow')
    BY <1>0, <1>a, <2>1, RespAppend
  <2>3. \A r \in Call : pc'[r] # "over" => outcome'[r] = "none"
    BY <2>1 DEF TypeOK, AskInv
  <2> QED BY <2>1, <2>2, <2>3 DEF AskInv
<1>3. ASSUME NEW q \in Call, TimeOut(q) PROVE AskInv'
  <2>1. UNCHANGED <<rows, said, hand, pc, outcome>> /\ future' = [future EXCEPT ![q] = "cancelled"]
    BY <1>3 DEF TimeOut
  <2>2. \A r \in Call : future'[r] \notin {"open", "cancelled"} => future'[r] = r /\ r \in said
    BY <2>1 DEF TypeOK, AskInv
  <2> QED BY <1>0, <1>a, <2>1, <2>2 DEF AskInv
<1>4. ASSUME NEW q \in Call, Return(q) PROVE AskInv'
  <2>1. /\ UNCHANGED <<rows, said, future>> /\ pc' = [pc EXCEPT ![q] = "over"]
        /\ hand' = [hand EXCEPT ![q] = NoCall] /\ \A r \in Call : r # q => outcome'[r] = outcome[r]
    BY <1>4 DEF Return, EndPoll, Finish, TypeOK
  <2>2. \A r \in Call : pc'[r] # "over" => outcome'[r] = "none"
    BY <2>1 DEF TypeOK, AskInv
  <2>3. \A r \in Call : hand'[r] # NoCall => hand'[r] \in said
    BY <2>1 DEF TypeOK, AskInv
  <2> QED BY <1>0, <1>a, <2>1, <2>2, <2>3 DEF AskInv
<1>5. ASSUME NEW q \in Call, Claim(q) PROVE AskInv'
  <2>1. PICK i \in DOMAIN rows :
          /\ rows[i].kind = "response"
          /\ hand' = [hand EXCEPT ![q] = rows[i].call] /\ rows' = RemoveAt(rows, i)
    BY <1>5 DEF Claim, Oldest
  <2>2. rows[i].call \in said
    <3>1. rows[i] \in RespRow
      <4> HIDE DEF RespRow
      <4> QED BY <1>0, ElementOfSeq, LenProperties
    <3> QED BY <2>1, <3>1 DEF RespRow
  <2>3. rows' \in Seq(RespRow)
    BY <1>0, <2>1, Removed
  <2>4. UNCHANGED <<said, future, pc, outcome>>
    BY <1>5 DEF Claim
  <2>5. \A r \in Call : hand'[r] # NoCall => hand'[r] \in said
    BY <2>1, <2>2 DEF TypeOK, AskInv
  <2> QED BY <1>a, <2>3, <2>4, <2>5 DEF AskInv
<1>6. ASSUME NEW q \in Call, Deliver(q) \/ DropOrphan(q) \/ PollDies(q) PROVE AskInv'
  <2>1. /\ UNCHANGED <<rows, said, pc, outcome>> /\ hand' = [hand EXCEPT ![q] = NoCall]
        /\ \/ future' = future
           \/ hand[q] = q /\ future' = [future EXCEPT ![q] = q]
    BY <1>6 DEF Deliver, DropOrphan, PollDies, EndPoll, TypeOK
  <2>2. \A r \in Call : hand'[r] # NoCall => hand'[r] \in said
    BY <2>1 DEF TypeOK, AskInv
  <2>3. \A r \in Call : future'[r] \notin {"open", "cancelled"} => future'[r] = r /\ r \in said
    BY <2>1, BridgeAssumption DEF TypeOK, AskInv
  <2> QED BY <1>0, <1>a, <2>1, <2>2, <2>3 DEF AskInv
<1>7. ASSUME NEW q \in Call, Reenqueue(q) PROVE AskInv'
  <2>1. /\ UNCHANGED <<said, future, pc, outcome>> /\ attached["bot"] \in Nat
        /\ hand' = [hand EXCEPT ![q] = NoCall] /\ hand[q] \in Call /\ hand[q] \in said
        /\ rows' = Append(rows, Row("response", attached["bot"], hand[q]))
    BY <1>0, <1>7 DEF Reenqueue, Foreign, TypeOK, AskInv, Proc
  <2>2. rows' \in Seq(RespRow')
    BY <1>0, <1>a, <2>1, RespAppend
  <2>3. \A r \in Call : hand'[r] # NoCall => hand'[r] \in said
    BY <2>1 DEF TypeOK, AskInv
  <2> QED BY <2>1, <2>2, <2>3 DEF AskInv
<1>8. ASSUME NEW q \in Call, Answer(q) PROVE AskInv'
  <2>1. /\ UNCHANGED <<hand, future, pc, outcome>> /\ said' = said \cup {q} /\ attached["agent"] \in Nat
        /\ rows' = Append(rows, Row("response", attached["agent"], q))
    BY <1>0, <1>8 DEF Answer, Proc
  <2>2. rows' \in Seq(RespRow')
    <3>1. rows \in Seq(RespRow')
      BY <1>0, <2>1, RespGrows
    <3>2. Row("response", attached["agent"], q) \in RespRow'
      BY <2>1 DEF Row, RespRow, Event
    <3> HIDE DEF RespRow
    <3> QED BY <2>1, <3>1, <3>2, AppendProperties
  <2> QED BY <2>1, <2>2 DEF AskInv
<1>9. CASE ClaimQuery
  <2>1. PICK i \in DOMAIN rows : rows' = RemoveAt(rows, i)
    BY <1>9 DEF ClaimQuery
  <2>2. rows' \in Seq(RespRow) /\ UNCHANGED <<said, hand, future, pc, outcome>>
    BY <1>0, <1>9, <2>1, Removed DEF ClaimQuery
  <2> QED BY <1>a, <2>2 DEF AskInv
<1>10. CASE BotDies
  <2>1. UNCHANGED <<rows, said, future>> /\ \A r \in Call : hand'[r] = NoCall
    BY <1>10 DEF BotDies
  <2>2. \A r \in Call : pc'[r] # "over" => outcome'[r] = "none"
    BY <1>10 DEF BotDies, AskInv, TypeOK
  <2> QED BY <1>0, <1>a, <2>1, <2>2 DEF AskInv
<1>11. ASSUME UNCHANGED <<rows, said, hand, future, pc, outcome>> PROVE AskInv'
  BY <1>0, <1>a, <1>11 DEF AskInv
<1>12. ASSUME NEW p \in Proc, AttachFromEnv(p) \/ Attach(p) \/ ResolveFails(p) \/ \E w \in Wave \cup {"any"} : Begin(p, w)
       PROVE  UNCHANGED <<rows, said, hand, future, pc, outcome>>
  BY <1>12 DEF AttachFromEnv, Attach, ResolveFails, Begin
<1>13. ASSUME AgentEnds \/ Tool \/ UNCHANGED vars
       PROVE  UNCHANGED <<rows, said, hand, future, pc, outcome>>
  BY <1>13 DEF AgentEnds, Tool, StartWave, StopAll, vars
<1> QED BY <1>1, <1>2, <1>3, <1>4, <1>5, <1>6, <1>7, <1>8, <1>9, <1>10, <1>11, <1>12, <1>13
        DEF Next, Tool, Proc

LEMMA StepMaps ==
  AskInv /\ [Next]_vars => [AbstractAskOnce!Next]_<<outcome, said>>
<1> SUFFICES ASSUME AskInv, [Next]_vars
             PROVE  [AbstractAskOnce!Next]_<<outcome, said>>
  OBVIOUS
<1> USE DEF session, call, poll, agent, AbstractAskOnce!Next
<1>1. ASSUME NEW q \in Call, Refuse(q) PROVE AbstractAskOnce!Return(q, "refused")
  BY <1>1 DEF Refuse, Finish, AskInv, AbstractAskOnce!Return
<1>2. ASSUME NEW q \in Call, EnqueueFails(q) PROVE AbstractAskOnce!Return(q, "gave_up")
  BY <1>2 DEF EnqueueFails, Finish, AskInv, AbstractAskOnce!Return
<1>3. ASSUME NEW q \in Call, Return(q)
      PROVE  \/ AbstractAskOnce!Return(q, "gave_up")
             \/ q \in said /\ AbstractAskOnce!Return(q, q)
  BY <1>3 DEF Return, Finish, AskInv, AbstractAskOnce!Return
<1>4. ASSUME NEW q \in Call, Answer(q) PROVE AbstractAskOnce!Say(q)
  BY <1>4 DEF Answer, AbstractAskOnce!Say
<1>5. ASSUME BotDies PROVE AbstractAskOnce!Die(Running)
  BY <1>5 DEF BotDies, AbstractAskOnce!Die, Running, AskInv
<1>6. ASSUME NEW q \in Call,
             \/ Ask(q) \/ EnqueueQuery(q) \/ TimeOut(q) \/ Claim(q) \/ Deliver(q) \/ Reenqueue(q)
             \/ DropOrphan(q) \/ PollDies(q)
      PROVE  UNCHANGED <<outcome, said>>
  BY <1>6 DEF Ask, EnqueueQuery, TimeOut, Claim, Deliver, Reenqueue, DropOrphan, PollDies
<1>7. ASSUME NEW p \in Proc, AttachFromEnv(p) \/ Attach(p) \/ ResolveFails(p) \/ \E w \in Wave \cup {"any"} : Begin(p, w)
      PROVE  UNCHANGED <<outcome, said>>
  BY <1>7 DEF AttachFromEnv, Attach, ResolveFails, Begin
<1>8. ASSUME ClaimQuery \/ AgentEnds \/ Tool \/ UNCHANGED vars PROVE UNCHANGED <<outcome, said>>
  BY <1>8 DEF ClaimQuery, AgentEnds, Tool, StartWave, StopAll, vars
<1>9. Running \in SUBSET Call
  BY DEF Running
<1> QED BY <1>1, <1>2, <1>3, <1>4, <1>5, <1>6, <1>7, <1>8, <1>9 DEF Next, Tool, Proc

\* Implements: for any number of calls, a call that returns an answer returns
\* the one given to it, and no call returns twice.
THEOREM ImplementsAskOnce == Spec => Implements
<1>1. Init => BotThere /\ AgentThere /\ Holds
  BY DEF Init, BotThere, AgentThere, Holds, Running
<1>2. Init => AskInv
  <2> SUFFICES ASSUME Init PROVE AskInv
    OBVIOUS
  <2>1. rows \in Seq(RespRow)
    <3> HIDE DEF RespRow
    <3> QED BY DEF Init
  <2> QED BY <2>1 DEF Init, AskInv
<1>3. Init => AbstractAskOnce!Init
  BY DEF Init, AbstractAskOnce!Init
<1> QED BY <1>1, <1>2, <1>3, TypeInit, TypeStep, HoldsStep, AskStep, StepMaps, PTL
        DEF Spec, Implements, AbstractAskOnce!Spec
=============================================================================
