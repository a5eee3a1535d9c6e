-------------------------- MODULE PilotRoundsProof --------------------------
(***************************************************************************)
(* What holds of the spawn rounds for every set of stories, every          *)
(* dependency graph, every cap and every cost.                             *)
(***************************************************************************)
EXTENDS PilotRounds, FiniteSetTheorems, TLAPS

-----------------------------------------------------------------------------
\* split_batch returns at most n stories: two different stories of the batch
\* have different numbers of stories before them, all below n.
LEMMA SplitSmall ==
  ASSUME NEW S \in SUBSET Story, NEW n \in Nat, NEW b \in SplitBatch(S, n)
  PROVE  /\ b \subseteq S /\ IsFiniteSet(b)
         /\ Cardinality(b) <= n
<1> DEFINE before(s) == {t \in b : Pos[t] < Pos[s]}
<1>1. b \subseteq S /\ IsFiniteSet(b)
  BY FS_Subset, RoundsAssumption DEF SplitBatch
<1>2. \A s \in b : IsFiniteSet(before(s)) /\ Cardinality(before(s)) \in 0..(n - 1)
  <2> SUFFICES ASSUME NEW s \in b
               PROVE  IsFiniteSet(before(s)) /\ Cardinality(before(s)) \in 0..(n - 1)
    OBVIOUS
  <2>1. IsFiniteSet(before(s)) /\ Cardinality(before(s)) \in Nat
    BY <1>1, FS_Subset, FS_CardinalityType
  <2>2. Cardinality(before(s)) < n
    BY <1>1 DEF SplitBatch
  <2> QED BY <2>1, <2>2
<1>3. \A s, t \in b : s # t => Cardinality(before(s)) # Cardinality(before(t))
  <2>1. ASSUME NEW s \in b, NEW t \in b, Pos[s] < Pos[t]
        PROVE  Cardinality(before(s)) < Cardinality(before(t))
    <3>1. Pos[s] \in Nat /\ Pos[t] \in Nat /\ \A u \in b : Pos[u] \in Nat
      BY <1>1, RoundsAssumption DEF Injection
    <3>2. before(s) \cup {s} \subseteq before(t) /\ s \notin before(s)
      BY <2>1, <3>1
    <3>3. Cardinality(before(s) \cup {s}) = Cardinality(before(s)) + 1
      BY <1>2, <3>2, FS_AddElement
    <3>4. Cardinality(before(s) \cup {s}) <= Cardinality(before(t))
      BY <1>2, <3>2, FS_Subset
    <3> QED BY <1>2, <3>3, <3>4, FS_CardinalityType
  <2>2. \A s, t \in b : s # t => Pos[s] < Pos[t] \/ Pos[t] < Pos[s]
    <3>1. \A s, t \in b : Pos[s] \in Nat /\ Pos[t] \in Nat /\ (s # t => Pos[s] # Pos[t])
      BY <1>1, RoundsAssumption DEF Injection, IsInjective
    <3> QED BY <3>1
  <2>3. TAKE s \in b, t \in b
  <2>4. /\ Pos[s] < Pos[t] => Cardinality(before(s)) < Cardinality(before(t))
        /\ Pos[t] < Pos[s] => Cardinality(before(t)) < Cardinality(before(s))
    BY <2>1
  <2>5. Cardinality(before(s)) \in Nat /\ Cardinality(before(t)) \in Nat
    BY <1>2
  <2> HIDE DEF before
  <2> QED BY <2>2, <2>4, <2>5
<1>4. ASSUME ~(Cardinality(b) <= n) PROVE FALSE
  <2> DEFINE f == [s \in b |-> Cardinality(before(s))]
  <2>1. f \in [b -> 0..(n - 1)]
    BY <1>2
  <2>2. IsFiniteSet(0..(n - 1)) /\ Cardinality(0..(n - 1)) = n
    BY FS_Interval
  <2>3. Cardinality(b) \in Nat
    BY <1>1, FS_CardinalityType
  <2>4. Cardinality(0..(n - 1)) < Cardinality(b)
    BY <1>4, <2>2, <2>3
  <2>5. \E s, t \in b : s # t /\ f[s] = f[t]
    <3> HIDE DEF f
    <3> QED BY <1>1, <2>1, <2>2, <2>4, FS_PigeonHole
  <2> QED BY <2>5, <1>3
<1> QED BY <1>1, <1>4

\* The stories of a batch touch different files.
LEMMA SplitApart ==
  ASSUME NEW S \in SUBSET Story, NEW n \in Nat, NEW b \in SplitBatch(S, n)
  PROVE  \A s, t \in b : s # t => Touches[s] \cap Touches[t] = {}
<1>1. b \subseteq S
  BY DEF SplitBatch
<1>2. \A s, t \in b : Pos[t] < Pos[s] => Touches[s] \cap Touches[t] = {}
  BY <1>1 DEF SplitBatch
<1>3. \A s, t \in b : s # t => Pos[s] < Pos[t] \/ Pos[t] < Pos[s]
  <2>1. \A s, t \in b : Pos[s] \in Nat /\ Pos[t] \in Nat /\ (s # t => Pos[s] # Pos[t])
    BY <1>1, RoundsAssumption DEF Injection, IsInjective
  <2> QED BY <2>1
<1> QED BY <1>2, <1>3

\* The reservation is an amount: its maximum exists because the window holds
\* at most three costs.
LEMMA ReserveTyped == ASSUME TypeOK PROVE Reserve \in Nat
<1>1. CASE recent = <<>>
  BY <1>1, RoundsAssumption DEF Reserve
<1>2. CASE recent # <<>>
  <2>1. /\ Len(recent) \in 1..3 /\ Range(recent) = {recent[i] : i \in 1..Len(recent)}
        /\ \A i \in 1..Len(recent) : recent[i] \in Nat
    <3>1. recent \in Seq(Cost) /\ Len(recent) <= 3 /\ Cost \subseteq Nat
      BY RoundsAssumption DEF TypeOK
    <3>2. Len(recent) \in Nat /\ Len(recent) # 0 /\ DOMAIN recent = 1..Len(recent)
      BY <1>2, <3>1
    <3>3. \A i \in 1..Len(recent) : recent[i] \in Cost
      BY <3>1
    <3>4. Range(recent) = {recent[i] : i \in 1..Len(recent)}
      BY <3>2 DEF Range
    <3>5. Len(recent) \in 1..3
      BY <3>1, <3>2
    <3> QED BY <3>1, <3>3, <3>4, <3>5
  <2>2. /\ Range(recent) \subseteq Nat
        /\ \E x \in Range(recent) : \A y \in Range(recent) : x >= y
    <3>1. Range(recent) \subseteq Nat
      BY <2>1
    <3>3. CASE Len(recent) = 1 BY <2>1, <3>3
    <3>4. CASE Len(recent) = 2 BY <2>1, <3>4
    <3>5. CASE Len(recent) = 3
      <4>1. \E i \in 1..3 : \A j \in 1..3 : recent[i] >= recent[j]
        BY <2>1, <3>5
      <4> QED BY <4>1, <2>1, <3>5
    <3> QED BY <2>1, <3>1, <3>3, <3>4, <3>5
  <2>3. Max(Range(recent)) \in Nat
    BY <2>2 DEF Max
  <2>4. StoryAlarm \in Nat
    BY RoundsAssumption
  <2>5. Min({StoryAlarm, Max(Range(recent))}) \in Nat
    BY <2>3, <2>4 DEF Min
  <2> QED BY <1>2, <2>5 DEF Reserve
<1> QED BY <1>1, <1>2

LEMMA SlotsTyped ==
  ASSUME TypeOK, Cardinality(spawned) < MaxStories
  PROVE  Slots \in Nat /\ Slots <= MaxStories - Cardinality(spawned)
<1>1. MaxParallel \in Nat /\ MaxStories \in Nat
  BY RoundsAssumption
<1>2. Cardinality(spawned) \in Nat
  BY FS_Subset, FS_CardinalityType, RoundsAssumption DEF TypeOK
<1> DEFINE left == MaxStories - Cardinality(spawned)
<1>3. left \in Nat
  BY <1>1, <1>2
<1> HIDE DEF left
<1>4. Min({MaxParallel, left}) \in Nat /\ Min({MaxParallel, left}) <= left
  BY <1>1, <1>3 DEF Min
<1> QED BY <1>4 DEF Slots, left

LEMMA Batched ==
  ASSUME TypeOK, StartRound
  PROVE  /\ batch' \subseteq Candidates /\ IsFiniteSet(batch')
         /\ Cardinality(batch') <= MaxStories - Cardinality(spawned)
         /\ \A s, t \in batch' : s # t => Touches[s] \cap Touches[t] = {}
<1> DEFINE S == FirstOf(Candidates, 2 * Slots)
<1>1. Candidates \subseteq Story /\ S \in SUBSET Candidates
  BY RoundsAssumption DEF Candidates, Window, FirstOf
<1>2. Slots \in Nat /\ Slots <= MaxStories - Cardinality(spawned)
  BY SlotsTyped DEF StartRound, MayGoOn
<1>3. batch' \in SplitBatch(S, Slots)
  BY DEF StartRound
<1> HIDE DEF S
<1>4. batch' \subseteq S /\ IsFiniteSet(batch') /\ Cardinality(batch') <= Slots
  BY <1>1, <1>2, <1>3, SplitSmall
<1>5. Cardinality(batch') \in Nat /\ Cardinality(spawned) \in Nat /\ MaxStories \in Nat
  BY <1>4, FS_CardinalityType, FS_Subset, RoundsAssumption DEF TypeOK
<1>6. \A s, t \in batch' : s # t => Touches[s] \cap Touches[t] = {}
  BY <1>1, <1>2, <1>3, SplitApart
<1> QED BY <1>1, <1>2, <1>4, <1>5, <1>6

-----------------------------------------------------------------------------
\* A story is looked at while the batch is worked off; what becomes of it
\* beyond the money is one of five things.
LEMMA Charged ==
  ASSUME TypeOK, NEW s \in Story, Charge(s)
  PROVE  daily' \in Nat /\ ledger' \in [Story -> Nat]
<1>1. Reserve \in Nat
  BY ReserveTyped
<1>2. daily \in Nat /\ ledger \in [Story -> Nat]
  BY DEF TypeOK
<1>3. daily' = daily + Reserve /\ ledger' \in {ledger, [ledger EXCEPT ![s] = @ + Reserve]}
  BY DEF Charge, Projected
<1> HIDE DEF Reserve
<1> QED BY <1>1, <1>2, <1>3

LEMMA TypeInit == Init => TypeOK
<1> SUFFICES ASSUME Init PROVE TypeOK
  OBVIOUS
<1>1. rounds \in 0..MaxRounds
  BY RoundsAssumption DEF Init
<1>2. daily \in Nat /\ ledger \in [Story -> Nat]
  BY RoundsAssumption DEF Init
<1>3. recent \in Seq(Cost) /\ Len(recent) <= 3
  BY DEF Init
<1>4. result \in [Story -> {"none", "completed", "failed"}]
  BY DEF Init
<1> QED BY <1>1, <1>2, <1>3, <1>4 DEF Init, TypeOK

\* A round begun is a round that still fits under max_rounds.
InTime == phase \in {"batch", "gather"} => rounds < MaxRounds

LEMMA TypeStep == TypeOK /\ InTime /\ [Next]_vars => TypeOK' /\ InTime'
<1> SUFFICES ASSUME TypeOK, InTime, [Next]_vars PROVE TypeOK' /\ InTime'
  OBVIOUS
<1> USE DEF lists, money
<1>0. MaxRounds \in Nat /\ Cost \subseteq Nat
  BY RoundsAssumption
<1>1. CASE StartRound
  <2>1. batch' \subseteq Story
    BY <1>1, Batched, RoundsAssumption DEF Candidates, Window, FirstOf
  <2> QED BY <1>1, <2>1 DEF StartRound, MayGoOn, TypeOK, InTime
<1>2. CASE EndRounds \/ HaltForTheDay \/ Gather \/ TailRaises \/ Drain \/ KillOrphanWorkers
  BY <1>2 DEF EndRounds, HaltForTheDay, InBatch, Gather, TailRaises, Drain, KillOrphanWorkers,
     TypeOK, InTime
<1>3. ASSUME NEW s \in Story, RefuseStory(s) PROVE TypeOK' /\ InTime'
  <2>1. daily' \in Nat
    <3>1. daily' = daily + Reserve
      BY <1>3 DEF RefuseStory, Projected
    <3> QED BY <3>1, ReserveTyped DEF TypeOK
  <2> QED BY <1>3, <2>1 DEF RefuseStory, TypeOK, InTime
<1>4. ASSUME NEW s \in Story, Spawn(s) \/ AutoSplit(s) \/ HaltPrespawn(s)
      PROVE  TypeOK' /\ InTime'
  <2>1. daily' \in Nat /\ ledger' \in [Story -> Nat]
    BY <1>4, Charged DEF Spawn, AutoSplit, HaltPrespawn
  <2> QED BY <1>4, <2>1 DEF Spawn, AutoSplit, HaltPrespawn, TypeOK, InTime
<1>5. ASSUME NEW s \in Story, SpawnRaises(s) PROVE TypeOK' /\ InTime'
  <2>1. daily' \in Nat /\ ledger' \in [Story -> Nat]
    <3>1. CASE Charge(s) BY <3>1, Charged
    <3>2. CASE daily' = Projected /\ UNCHANGED ledger
      BY <3>2, ReserveTyped DEF Projected, TypeOK
    <3> QED BY <1>5, <3>1, <3>2 DEF SpawnRaises
  <2> QED BY <1>5, <2>1 DEF SpawnRaises, TypeOK, InTime
<1>6. ASSUME NEW s \in Story, WorkerEnds(s) PROVE TypeOK' /\ InTime'
  <2>1. recent' \in Seq(Cost) /\ Len(recent') <= 3
    <3>1. recent \in Seq(Cost) /\ Len(recent) <= 3 /\ Len(recent) \in Nat
      BY DEF TypeOK
    <3>2. CASE UNCHANGED recent BY <3>1, <3>2
    <3>3. ASSUME NEW c \in Cost, recent' = Append(recent, c), Len(recent) < 3
          PROVE  recent' \in Seq(Cost) /\ Len(recent') <= 3
      BY <3>1, <3>3
    <3>4. ASSUME NEW c \in Cost, recent' = Append(Tail(recent), c), ~(Len(recent) < 3)
          PROVE  recent' \in Seq(Cost) /\ Len(recent') <= 3
      <4>1. recent # <<>> BY <3>1, <3>4
      <4>2. Tail(recent) \in Seq(Cost) /\ Len(Tail(recent)) = Len(recent) - 1
        BY <3>1, <4>1
      <4> QED BY <3>1, <3>4, <4>2
    <3> QED BY <1>6, <3>2, <3>3, <3>4 DEF WorkerEnds
  <2>2. /\ alive' \subseteq Story /\ result' \in [Story -> {"none", "completed", "failed"}]
        /\ UNCHANGED <<phase, rounds, halted, batch, lists, handles, registered, status,
                       daily, ledger>>
    BY <1>6 DEF WorkerEnds, TypeOK
  <2> QED BY <2>1, <2>2 DEF TypeOK, InTime
<1>7. ASSUME NEW s \in Story, Exit(s) PROVE TypeOK' /\ InTime'
  BY <1>7 DEF Exit, TypeOK, InTime
<1>8. CASE EndRound
  <2>1. rounds' \in 0..MaxRounds
    BY <1>0, <1>8 DEF EndRound, TypeOK, InTime
  <2>2. succeeded' \subseteq Story /\ failed' \subseteq Story
        /\ status' \in [Story -> {"backlog", "done"}]
    BY <1>8 DEF EndRound, TypeOK, Ended
  <2> QED BY <1>8, <2>1, <2>2 DEF EndRound, TypeOK, InTime
<1>9. CASE UNCHANGED vars
  BY <1>9 DEF vars, TypeOK, InTime
<1> QED BY <1>1, <1>2, <1>3, <1>4, <1>5, <1>6, <1>7, <1>8, <1>9 DEF Next, Over

\* TypeOK: every value stays in its range, and no pilot runs more than
\* max_rounds rounds (_run_real_pilot_body).
THEOREM TypeCorrect == Spec => []TypeOK
<1>1. Init => InTime
  BY DEF Init, InTime
<1> QED BY <1>1, TypeInit, TypeStep, PTL DEF Spec

-----------------------------------------------------------------------------
\* What is in the batch and what was spawned fit under --max-stories together.
RoomLeft ==
  /\ Cardinality(spawned) <= MaxStories
  /\ phase = "batch" => Cardinality(spawned) + Cardinality(batch) <= MaxStories

LEMMA RoomLeftStep == TypeOK /\ RoomLeft /\ [Next]_vars => RoomLeft'
<1> SUFFICES ASSUME TypeOK, RoomLeft, [Next]_vars PROVE RoomLeft'
  OBVIOUS
<1> USE DEF lists, money
<1>0. /\ IsFiniteSet(spawned) /\ IsFiniteSet(batch) /\ MaxStories \in Nat
      /\ Cardinality(spawned) \in Nat /\ Cardinality(batch) \in Nat
  BY FS_Subset, FS_CardinalityType, RoundsAssumption DEF TypeOK
<1>1. CASE StartRound
  <2>1. Cardinality(batch') \in Nat /\ Cardinality(batch') <= MaxStories - Cardinality(spawned)
    BY <1>1, Batched, FS_CardinalityType
  <2>2. spawned' = spawned
    BY <1>1 DEF StartRound
  <2> QED BY <1>0, <2>1, <2>2 DEF RoomLeft
<1>2. CASE HaltForTheDay
  <2>1. spawned' = spawned /\ batch' = {} /\ Cardinality(batch') = 0
    BY <1>2, FS_EmptySet DEF HaltForTheDay
  <2> QED BY <1>0, <2>1 DEF RoomLeft
<1>3. ASSUME NEW s \in Story, IsNext(s), phase' = phase, batch' = batch \ {s},
             spawned' \in {spawned, spawned \cup {s}}
      PROVE  RoomLeft'
  <2>1. s \in batch /\ phase = "batch"
    BY <1>3 DEF IsNext, InBatch
  <2>2. Cardinality(batch') = Cardinality(batch) - 1
    BY <1>0, <1>3, <2>1, FS_RemoveElement
  <2>3. Cardinality(spawned \cup {s}) \in {Cardinality(spawned), Cardinality(spawned) + 1}
    BY <1>0, FS_AddElement
  <2>4. Cardinality(spawned') \in {Cardinality(spawned), Cardinality(spawned) + 1}
    BY <1>3, <2>3
  <2>5. Cardinality(spawned) + Cardinality(batch) <= MaxStories
    BY <2>1 DEF RoomLeft
  <2>6. Cardinality(spawned') <= MaxStories
        /\ Cardinality(spawned') + Cardinality(batch') <= MaxStories
    <3>1. Cardinality(batch) - 1 \in Nat
      BY <1>0, <1>3, <2>2, FS_Subset, FS_CardinalityType
    <3> QED BY <1>0, <2>2, <2>4, <2>5, <3>1
  <2> QED BY <2>6 DEF RoomLeft
<1>4. ASSUME NEW s \in Story,
             RefuseStory(s) \/ Spawn(s) \/ AutoSplit(s) \/ HaltPrespawn(s)
      PROVE  RoomLeft'
  BY <1>3, <1>4 DEF RefuseStory, Spawn, AutoSplit, HaltPrespawn, Charge
<1>5. ASSUME spawned' = spawned, batch' = batch, phase' = "batch" => phase = "batch"
      PROVE  RoomLeft'
  BY <1>5 DEF RoomLeft
<1>6. ASSUME NEW s \in Story, SpawnRaises(s) \/ WorkerEnds(s) \/ Exit(s)
      PROVE  RoomLeft'
  BY <1>5, <1>6 DEF SpawnRaises, WorkerEnds, Exit
<1>7. CASE \/ EndRounds \/ Gather \/ TailRaises \/ EndRound \/ Drain
           \/ KillOrphanWorkers \/ UNCHANGED vars
  BY <1>5, <1>7 DEF EndRounds, Gather, TailRaises, EndRound, Drain, KillOrphanWorkers, vars
<1> QED BY <1>1, <1>2, <1>4, <1>6, <1>7 DEF Next, Over

\* StoryCap: --max-stories bounds what a run spawns, through retries, refused
\* stories, auto-splits and prespawn halts (the slots of _run_real_pilot_body).
THEOREM CapHolds == Spec => []StoryCap
<1>1. Init => RoomLeft
  BY FS_EmptySet, RoundsAssumption DEF Init, RoomLeft
<1>2. RoomLeft => StoryCap
  BY DEF RoomLeft, StoryCap
<1> QED BY <1>1, <1>2, RoomLeftStep, TypeCorrect, PTL DEF Spec

-----------------------------------------------------------------------------
\* While the day is not over its limits every story refused or spawned leaves
\* it so; the ledger grows only by what its row had room for.
LEMMA SpendStep == TypeOK /\ SpendBounded /\ [Next]_vars => SpendBounded'
<1> SUFFICES ASSUME TypeOK, SpendBounded, [Next]_vars PROVE SpendBounded'
  OBVIOUS
<1> USE DEF lists, money
<1>0. /\ Reserve \in Nat /\ daily \in Nat /\ MaxSpend \in Nat /\ DayLimit \in Nat
      /\ StoryHalt \in Nat /\ ledger \in [Story -> Nat]
  BY ReserveTyped, RoundsAssumption DEF TypeOK
<1>1. ASSUME ~OverBudget, daily' = Projected
      PROVE  ~BudgetOff => daily' <= MaxSpend /\ daily' < DayLimit
  <2>1. Projected \in Nat
    BY <1>0 DEF Projected
  <2> QED BY <1>0, <1>1, <2>1 DEF OverBudget
<1>2. ASSUME UNCHANGED ledger
      PROVE  \A s \in Story : ledger'[s] <= StoryHalt \/ ledger'[s] \in Leftover
  BY <1>2 DEF SpendBounded
<1>3. ASSUME NEW s \in Story, Charge(s)
      PROVE  SpendBounded'
  <2>1. \A t \in Story : ledger'[t] <= StoryHalt \/ ledger'[t] \in Leftover
    <3>1. CASE BudgetOff
      BY <1>2, <1>3, <3>1 DEF Charge
    <3>2. CASE ~BudgetOff
      <4>1. ledger' = [ledger EXCEPT ![s] = @ + Reserve] /\ ledger[s] + Reserve <= StoryHalt
        BY <1>3, <3>2 DEF Charge, RowFits
      <4> HIDE DEF Reserve
      <4> QED BY <1>0, <4>1 DEF SpendBounded
    <3> QED BY <3>1, <3>2
  <2> QED BY <1>1, <1>3, <2>1 DEF Charge, SpendBounded
<1>4. ASSUME NEW s \in Story,
             \/ RefuseStory(s)
             \/ IsNext(s) /\ ~OverBudget /\ daily' = Projected /\ UNCHANGED ledger
      PROVE  SpendBounded'
  BY <1>1, <1>2, <1>4 DEF RefuseStory, SpendBounded
<1>5. ASSUME NEW s \in Story, Spawn(s) \/ AutoSplit(s) \/ HaltPrespawn(s) \/ SpawnRaises(s)
      PROVE  SpendBounded'
  BY <1>3, <1>4, <1>5 DEF Spawn, AutoSplit, HaltPrespawn, SpawnRaises
<1>6. ASSUME UNCHANGED <<daily, ledger>> PROVE SpendBounded'
  BY <1>6 DEF SpendBounded
<1>7. ASSUME NEW s \in Story, WorkerEnds(s) \/ Exit(s) PROVE SpendBounded'
  BY <1>6, <1>7 DEF WorkerEnds, Exit
<1>8. CASE \/ StartRound \/ EndRounds \/ HaltForTheDay \/ Gather \/ TailRaises
           \/ EndRound \/ Drain \/ KillOrphanWorkers \/ UNCHANGED vars
  BY <1>6, <1>8 DEF StartRound, EndRounds, HaltForTheDay, Gather, TailRaises, EndRound,
     Drain, KillOrphanWorkers, vars
<1> QED BY <1>4, <1>5, <1>7, <1>8 DEF Next, Over

\* SpendBounded: the day's total never passes --max-spend-usd or reaches the
\* day's limit, and a reservation never takes a story's row past its halt
\* threshold, whatever the workers cost (the gates of _run_real_pilot_body).
THEOREM SpendHolds == Spec => []SpendBounded
<1>1. Init => SpendBounded
  BY RoundsAssumption DEF Init, SpendBounded
<1> QED BY <1>1, SpendStep, TypeCorrect, PTL DEF Spec

\* Neither the money nor the number of stories passes its cap.
THEOREM CapsStay == Spec => []CapsHold
BY SpendHolds, CapHolds, PTL DEF CapsHold

-----------------------------------------------------------------------------
\* Every spawned story is in one of the three places that will count it.
Accounts ==
  /\ succeeded \subseteq spawned /\ handles \subseteq spawned
  /\ phase \in {"batch", "gather"} => spawned \subseteq succeeded \cup failed \cup handles
  /\ phase \in {"round", "drain"} => spawned \subseteq succeeded \cup failed

LEMMA AccountsStep == TypeOK /\ Accounts /\ [Next]_vars => Accounts'
<1> SUFFICES ASSUME TypeOK, Accounts, [Next]_vars PROVE Accounts'
  OBVIOUS
<1> USE DEF lists, money, Accounts
<1>1. CASE StartRound \/ EndRounds \/ HaltForTheDay \/ Gather
  BY <1>1 DEF StartRound, EndRounds, HaltForTheDay, Gather, InBatch
<1>2. ASSUME NEW s \in Story,
             RefuseStory(s) \/ Spawn(s) \/ AutoSplit(s) \/ HaltPrespawn(s) \/ SpawnRaises(s)
      PROVE  Accounts'
  <2>1. phase = "batch"
    BY <1>2 DEF RefuseStory, Spawn, AutoSplit, HaltPrespawn, SpawnRaises, Charge, IsNext, InBatch
  <2> QED BY <1>2, <2>1 DEF RefuseStory, Spawn, AutoSplit, HaltPrespawn, SpawnRaises
<1>3. ASSUME NEW s \in Story, WorkerEnds(s) \/ Exit(s) PROVE Accounts'
  BY <1>3 DEF WorkerEnds, Exit
<1>4. CASE EndRound
  <2>1. handles \subseteq Ended("completed") \cup Ended("failed")
    BY <1>4 DEF EndRound, Ended, TypeOK
  <2>2. Ended("completed") \subseteq handles
    BY DEF Ended
  <2> QED BY <1>4, <2>1, <2>2 DEF EndRound
<1>5. CASE TailRaises \/ Drain \/ KillOrphanWorkers \/ UNCHANGED vars
  BY <1>5 DEF TailRaises, Drain, KillOrphanWorkers, vars
<1> QED BY <1>1, <1>2, <1>3, <1>4, <1>5 DEF Next, Over

\* EveryWorkerAccounted: between rounds every spawned story has succeeded or
\* failed, and what succeeded was spawned (the gather and the lists of
\* _run_real_pilot_body).
THEOREM AccountsHold == Spec => []EveryWorkerAccounted
<1>1. Init => Accounts
  BY DEF Init, Accounts
<1>2. Accounts => EveryWorkerAccounted
  BY DEF Accounts, EveryWorkerAccounted
<1> QED BY <1>1, <1>2, AccountsStep, TypeCorrect, PTL DEF Spec

-----------------------------------------------------------------------------
\* A process without a handle appears only in the step that ends the rounds,
\* and its story is not counted as spawned.
Strays == alive \ registered

Watched ==
  /\ registered \subseteq spawned
  /\ phase = "batch" => batch \cap spawned = {}
  /\ phase \notin {"finally", "over"} => Strays = {}
  /\ Strays \cap spawned = {} /\ \A s, t \in Strays : s = t
  /\ phase = "over" => alive \cap registered = {}

LEMMA WatchedStep == TypeOK /\ Watched /\ [Next]_vars => Watched'
<1> SUFFICES ASSUME TypeOK, Watched, [Next]_vars PROVE Watched'
  OBVIOUS
<1> USE DEF lists, money, Watched, Strays
<1>1. CASE StartRound
  <2>1. batch' \subseteq Candidates
    BY <1>1, Batched
  <2>2. batch' \cap spawned = {}
    BY <2>1 DEF Candidates
  <2> QED BY <1>1, <2>2 DEF StartRound
<1>2. CASE \/ EndRounds \/ HaltForTheDay \/ Gather \/ TailRaises \/ EndRound
           \/ Drain \/ UNCHANGED vars
  BY <1>2 DEF EndRounds, HaltForTheDay, Gather, TailRaises, EndRound, Drain, InBatch, vars
<1>3. CASE KillOrphanWorkers
  BY <1>3 DEF KillOrphanWorkers
<1>4. ASSUME NEW s \in Story,
             RefuseStory(s) \/ Spawn(s) \/ AutoSplit(s) \/ HaltPrespawn(s)
      PROVE  Watched'
  <2>1. phase = "batch" /\ s \in batch /\ s \notin spawned
    BY <1>4 DEF RefuseStory, Spawn, AutoSplit, HaltPrespawn, Charge, IsNext, InBatch
  <2> QED BY <1>4, <2>1 DEF RefuseStory, Spawn, AutoSplit, HaltPrespawn
<1>5. ASSUME NEW s \in Story, SpawnRaises(s) PROVE Watched'
  <2>1. phase = "batch" /\ s \in batch /\ s \notin spawned
    BY <1>5 DEF SpawnRaises, Charge, IsNext, InBatch
  <2>2. /\ phase' = "finally" /\ alive' \in {alive, alive \cup {s}}
        /\ registered' = registered /\ spawned' = spawned
    BY <1>5 DEF SpawnRaises
  <2>3. Strays' \subseteq {s}
    BY <2>1, <2>2
  <2> QED BY <2>1, <2>2, <2>3
<1>6. ASSUME NEW s \in Story, WorkerEnds(s) \/ Exit(s) PROVE Watched'
  <2>1. alive' \subseteq alive /\ UNCHANGED <<phase, batch, registered, spawned>>
    BY <1>6 DEF WorkerEnds, Exit
  <2> QED BY <2>1
<1> QED BY <1>1, <1>2, <1>3, <1>4, <1>5, <1>6 DEF Next, Over

\* OneOrphanAtMost: however the rounds end, no process of a story counted as
\* spawned outlives the pilot, and at most one other does, the one whose spawn
\* raised after its process was there (spawned_handles and the finally of
\* _run_real_pilot).
THEOREM OneLeftAtMost == Spec => []OneOrphanAtMost
<1>1. Init => Watched
  BY DEF Init, Watched, Strays
<1>2. Watched => OneOrphanAtMost
  BY DEF Watched, Strays, OneOrphanAtMost
<1> QED BY <1>1, <1>2, WatchedStep, TypeCorrect, PTL DEF Spec

\* WorkersAccounted: between two rounds every worker's story is counted; when
\* the pilot is over its process is dead, and the one process that may be left
\* is of a spawn that never returned.
THEOREM AccountedFor == Spec => []WorkersAccounted
BY AccountsHold, OneLeftAtMost, PTL DEF WorkersAccounted

-----------------------------------------------------------------------------
\* The stories of a round, spawned or still to be looked at, share no file.
Apart == \A s, t \in handles \cup batch : s # t => Touches[s] \cap Touches[t] = {}

LEMMA ApartStep == TypeOK /\ Apart /\ [Next]_vars => Apart'
<1> SUFFICES ASSUME TypeOK, Apart, [Next]_vars PROVE Apart'
  OBVIOUS
<1> USE DEF lists, money
<1>1. CASE StartRound
  <2>1. \A s, t \in batch' : s # t => Touches[s] \cap Touches[t] = {}
    BY <1>1, Batched
  <2>2. handles' = {}
    BY <1>1 DEF StartRound
  <2> QED BY <2>1, <2>2 DEF Apart
<1>2. ASSUME handles' \cup batch' \subseteq handles \cup batch PROVE Apart'
  BY <1>2 DEF Apart
<1>3. ASSUME NEW s \in Story,
             RefuseStory(s) \/ Spawn(s) \/ AutoSplit(s) \/ HaltPrespawn(s) \/ SpawnRaises(s)
      PROVE  Apart'
  <2>1. s \in batch
    BY <1>3 DEF RefuseStory, Spawn, AutoSplit, HaltPrespawn, SpawnRaises, Charge, IsNext
  <2>2. handles' \in {handles, handles \cup {s}} /\ batch' \in {batch, batch \ {s}}
    BY <1>3 DEF RefuseStory, Spawn, AutoSplit, HaltPrespawn, SpawnRaises
  <2>3. handles' \cup batch' \subseteq handles \cup batch
    BY <2>1, <2>2
  <2> QED BY <1>2, <2>3
<1>4. ASSUME NEW s \in Story, WorkerEnds(s) \/ Exit(s) PROVE Apart'
  BY <1>2, <1>4 DEF WorkerEnds, Exit
<1>5. CASE \/ EndRounds \/ HaltForTheDay \/ Gather \/ TailRaises \/ EndRound \/ Drain
           \/ KillOrphanWorkers \/ UNCHANGED vars
  <2>1. handles' = handles /\ batch' \subseteq batch
    BY <1>5 DEF EndRounds, HaltForTheDay, Gather, TailRaises, EndRound, Drain,
       KillOrphanWorkers, vars
  <2> QED BY <1>2, <2>1
<1> QED BY <1>1, <1>3, <1>4, <1>5 DEF Next, Over

\* NoFileRace: two workers the pilot waits for touch different files, for
\* every list of files and every order of the stories (split_batch).
THEOREM FilesApart == Spec => []NoFileRace
<1>1. Init => Apart
  BY DEF Init, Apart
<1>2. Apart => NoFileRace
  BY DEF Apart, NoFileRace
<1> QED BY <1>1, <1>2, ApartStep, TypeCorrect, PTL DEF Spec

-----------------------------------------------------------------------------
\* A story whose worker failed stays undone, because a story is spawned only
\* while it is still to do, and only a success marks it.
FailedUndone ==
  Manual = {} =>
    /\ phase = "batch" => \A s \in batch : IsReady(s)
    /\ phase \in {"batch", "gather"} => \A s \in handles : status[s] = "backlog"
    /\ \A d \in (failed \ succeeded) \cap Story : status[d] # "done"

LEMMA FailedUndoneStep == TypeOK /\ FailedUndone /\ [Next]_vars => FailedUndone'
<1> SUFFICES ASSUME TypeOK, FailedUndone, [Next]_vars, Manual = {} PROVE FailedUndone'
  BY DEF FailedUndone
<1> USE DEF lists, money
<1>0. status' = status => \A s : IsReady(s)' <=> IsReady(s)
  BY DEF IsReady
<1>1. CASE StartRound
  <2>1. /\ phase' = "batch" /\ handles' = {}
        /\ UNCHANGED <<status, failed, succeeded>>
    BY <1>1 DEF StartRound
  <2>2. \A s \in batch' : IsReady(s)
    BY <1>1, Batched DEF Candidates, Window, FirstOf
  <2> QED BY <1>0, <2>1, <2>2 DEF FailedUndone
<1>2. ASSUME NEW s \in Story,
             RefuseStory(s) \/ Spawn(s) \/ AutoSplit(s) \/ HaltPrespawn(s) \/ SpawnRaises(s)
      PROVE  FailedUndone'
  <2>1. phase = "batch" /\ s \in batch /\ status[s] = "backlog"
    <3>1. IsNext(s)
      BY <1>2 DEF RefuseStory, Spawn, AutoSplit, HaltPrespawn, SpawnRaises, Charge
    <3> QED BY <3>1 DEF IsNext, InBatch, FailedUndone, IsReady
  <2>2. /\ status' = status /\ batch' \in {batch, batch \ {s}}
        /\ handles' \in {handles, handles \cup {s}}
        /\ failed' \in {failed, failed \cup {s}} /\ succeeded \subseteq succeeded'
    BY <1>2 DEF RefuseStory, Spawn, AutoSplit, HaltPrespawn, SpawnRaises
  <2> QED BY <1>0, <2>1, <2>2 DEF FailedUndone
<1>3. ASSUME /\ UNCHANGED <<status, failed, succeeded, handles>>
             /\ phase' \in {"batch", "gather"} => phase \in {"batch", "gather"}
             /\ phase' = "batch" => phase = "batch" /\ batch' \subseteq batch
      PROVE  FailedUndone'
  BY <1>0, <1>3 DEF FailedUndone
<1>4. ASSUME NEW s \in Story, WorkerEnds(s) \/ Exit(s) PROVE FailedUndone'
  BY <1>3, <1>4 DEF WorkerEnds, Exit
<1>5. CASE EndRound
  <2>1. /\ phase = "gather" /\ phase' = "round"
        /\ failed' = failed \cup Ended("failed")
        /\ succeeded' = MarkedDone /\ succeeded \subseteq succeeded'
        /\ status' = [t \in Story |-> IF t \in succeeded' THEN "done" ELSE status[t]]
    BY <1>5 DEF EndRound, MarkedDone
  <2>2. ASSUME NEW d \in Story, d \in failed', d \notin succeeded'
        PROVE  status'[d] # "done"
    <3>1. status'[d] = status[d] /\ d \notin succeeded
      BY <2>1, <2>2
    <3>2. d \in failed \/ d \in handles
      BY <2>1, <2>2 DEF Ended
    <3> QED BY <2>1, <3>1, <3>2 DEF FailedUndone
  <2> QED BY <2>1, <2>2 DEF FailedUndone
<1>6. CASE \/ EndRounds \/ HaltForTheDay \/ Gather \/ TailRaises \/ Drain
           \/ KillOrphanWorkers \/ UNCHANGED vars
  BY <1>3, <1>6 DEF EndRounds, HaltForTheDay, Gather, TailRaises, Drain, KillOrphanWorkers,
     InBatch, vars
<1> QED BY <1>1, <1>2, <1>4, <1>5, <1>6 DEF Next, Over

LEMMA SpawnsReady ==
  TypeOK /\ FailedUndone /\ [Next]_vars =>
    \A s \in spawned' \ spawned :
       Manual = {} => \A d \in Deps[s] : status[d] = "done" /\ d \notin failed \ succeeded
<1> SUFFICES ASSUME TypeOK, FailedUndone, [Next]_vars, NEW s \in spawned' \ spawned,
                    Manual = {}, NEW d \in Deps[s]
             PROVE  status[d] = "done" /\ d \notin failed \ succeeded
  OBVIOUS
<1> USE DEF lists, money
<1>1. s \in Story /\ (Spawn(s) \/ AutoSplit(s))
  <2>1. CASE \E t \in Story : Spawn(t) \/ AutoSplit(t)
    BY <2>1 DEF Spawn, AutoSplit
  <2>2. CASE \E t \in Story : \/ RefuseStory(t) \/ HaltPrespawn(t) \/ SpawnRaises(t)
                             \/ WorkerEnds(t) \/ Exit(t)
    BY <2>2 DEF RefuseStory, HaltPrespawn, SpawnRaises, WorkerEnds, Exit
  <2>3. CASE \/ StartRound \/ EndRounds \/ HaltForTheDay \/ Gather \/ TailRaises \/ EndRound
             \/ Drain \/ KillOrphanWorkers \/ UNCHANGED vars
    BY <2>3 DEF StartRound, EndRounds, HaltForTheDay, Gather, TailRaises, EndRound, Drain,
       KillOrphanWorkers, vars
  <2> QED BY <2>1, <2>2, <2>3 DEF Next, Over
<1>2. phase = "batch" /\ s \in batch
  BY <1>1 DEF Spawn, AutoSplit, Charge, IsNext, InBatch
<1>3. status[d] = "done" /\ d \in Story
  BY <1>1, <1>2, RoundsAssumption DEF FailedUndone, IsReady
<1> QED BY <1>3 DEF FailedUndone

\* DependenciesDone: a story the planner chose is spawned only after each story
\* it depends on, and a failed dependency is never taken for a done one
\* (ready_stories, mark_sprint_status_done), for every dependency graph.
THEOREM DependenciesHold == Spec => DependenciesDone
<1>1. Init => FailedUndone
  BY DEF Init, FailedUndone
<1> QED BY <1>1, FailedUndoneStep, SpawnsReady, TypeCorrect, PTL DEF Spec, DependenciesDone
=============================================================================
