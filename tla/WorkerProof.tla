---------------------------- MODULE WorkerProof ----------------------------
(***************************************************************************)
(* What the tail of a worker's events.jsonl guarantees for any number of   *)
(* attempts and lines.                                                     *)
(***************************************************************************)
EXTENDS Worker, TLAPS

USE DEF Attempt

LEMMA EmitType ==
  ASSUME TypeOK, NEW a \in Attempt, NEW k \in Kind, Emit(a, k)
  PROVE  /\ file' \in Seq(Line) /\ fresh' = TRUE
         /\ Len(file') = Len(file) + 1
         /\ \A i \in 1..Len(file) : file'[i] = file[i]
         /\ file'[Len(file) + 1].by = a
<1>1. [by |-> a, kind |-> k] \in Line
  BY WorkerAssumption DEF Line
<1> QED BY <1>1 DEF Emit, TypeOK

\* Every variable keeps its type.
THEOREM TypeCorrect == Spec => []TypeOK
<1>1. Init => TypeOK
  <2> SUFFICES ASSUME Init PROVE TypeOK
    OBVIOUS
  <2>1. [by |-> 0, kind |-> "completed"] \in Line
    BY WorkerAssumption DEF Line, Kind
  <2>2. file \in Seq(Line)
    <3>1. <<>> \in Seq(Line) /\ \A x \in Line : <<x>> \in Seq(Line)
      OBVIOUS
    <3> QED BY <2>1, <3>1 DEF Init
  <2>3. quiet \in [Attempt -> BOOLEAN]
    BY DEF Init
  <2>4. att \in 0..MaxAttempts /\ dirty \in Nat
    BY WorkerAssumption DEF Init
  <2> QED BY <2>2, <2>3, <2>4 DEF Init, TypeOK
<1>2. TypeOK /\ [Next]_vars => TypeOK'
  <2> SUFFICES ASSUME TypeOK, [Next]_vars PROVE TypeOK'
    OBVIOUS
  <2>1. CASE TailStep
    <3>1. CASE NextEvent BY <3>1 DEF NextEvent, TypeOK, tree, procs, dog, GoodLeft
    <3>2. CASE Poll BY <3>2 DEF Poll, TypeOK, tree, procs, dog
    <3>3. CASE Yield BY <3>3 DEF Yield, TypeOK, tree, procs, dog
    <3>4. CASE YieldLast BY <3>4 DEF YieldLast, Close, TypeOK, tree, procs
    <3>5. CASE Tick BY <3>5 DEF Tick, TypeOK, tree, procs, tail
    <3>6. CASE StillAlive BY <3>6 DEF StillAlive, TypeOK, tree, procs, tail
    <3>7. CASE GiveUp BY <3>7 DEF GiveUp, Close, TypeOK, tree, procs
    <3> QED BY <2>1, <3>1, <3>2, <3>3, <3>4, <3>5, <3>6, <3>7 DEF TailStep
  <2>2. CASE SpawnStep
    <3>1. CASE CheckHalt
      <4>1. att' \in Attempt
        BY <3>1, WorkerAssumption DEF CheckHalt, TypeOK
      <4>2. /\ spawn' \in {"gates", "launch", "up", "refused"}
            /\ haltFile' \in BOOLEAN /\ fresh' \in BOOLEAN /\ file' = file
        BY <3>1 DEF CheckHalt, EmitNote, TypeOK
      <4> QED BY <3>1, <4>1, <4>2, WorkerAssumption DEF CheckHalt, TypeOK, procs, tail
    <3>2. CASE Truncate
      <4>1. quiet' \in [Attempt -> BOOLEAN]
        BY <3>2 DEF Truncate, TypeOK
      <4>2. file' \in Seq(Line) /\ dirty' \in Nat
        BY <3>2 DEF Truncate
      <4> QED BY <3>2, <4>1, <4>2 DEF Truncate, TypeOK, procs, tail, dog
    <3>3. CASE Refuse BY <3>3 DEF Refuse, EmitNote, TypeOK, procs, tail, dog
    <3>4. CASE Launch
      <4>1. att \in Attempt
        BY <3>4 DEF Launch, TypeOK
      <4>2. fresh' \in BOOLEAN /\ file' = file
        BY <3>4 DEF Launch, EmitNote
      <4> QED BY <3>4, <4>1, <4>2 DEF Launch, TypeOK, tree, tail
    <3> QED BY <2>2, <3>1, <3>2, <3>3, <3>4 DEF SpawnStep
  <2>3. CASE GrowOld BY <2>3 DEF GrowOld, TypeOK, tree, procs, tail, dog
  <2>4. ASSUME NEW a \in Attempt, ProcessStep(a) PROVE TypeOK'
    <3>1. CASE Output(a)
      <4>1. PICK k \in Kind : Emit(a, k)
        BY <3>1 DEF Output, Kind
      <4>2. file' \in Seq(Line) /\ fresh' \in BOOLEAN
        BY <4>1, EmitType
      <4> QED BY <3>1, <4>2 DEF Output, TypeOK, tree, tail, dog
    <3>2. CASE Work(a) BY <3>2 DEF Work, TypeOK, procs, tail, dog
    <3>3. CASE Exit(a) BY <3>3 DEF Exit, TypeOK, tail, dog
    <3>4. CASE CopierEnds(a)
      <4>1. CASE Emit(a, "event")
        <5>1. file' \in Seq(Line) /\ fresh' \in BOOLEAN
          BY <4>1, EmitType DEF Kind
        <5>2. printed' \in Nat
          BY <3>4 DEF CopierEnds, TypeOK
        <5> QED BY <3>4, <5>1, <5>2 DEF CopierEnds, TypeOK, tree, tail, dog
      <4>2. CASE UNCHANGED <<file, fresh, printed>>
        BY <3>4, <4>2 DEF CopierEnds, TypeOK, tree, tail, dog
      <4> QED BY <3>4, <4>1, <4>2 DEF CopierEnds
    <3>5. CASE Finalize(a)
      BY <3>5, EmitType DEF Finalize, TypeOK, tree, tail, dog, Kind
    <3>6. CASE HardTimeout(a) BY <3>6 DEF HardTimeout, TypeOK, tree, tail, dog
    <3>7. CASE Kill(a)
      <4>1. commits' \in Nat /\ dirty' \in Nat
        BY <3>7 DEF Kill, Staged, TypeOK
      <4>2. waiter' \in [Attempt -> {"none", "waiting", "staging", "killed", "over", "raised"}]
        BY <3>7 DEF Kill, TypeOK
      <4>3. proc' \in [Attempt -> {"none", "running", "ended"}]
        BY <3>7 DEF Kill, TypeOK
      <4> QED BY <3>7, <4>1, <4>2, <4>3 DEF Kill, EmitNote, TypeOK, tail, dog
    <3>8. CASE Cancel(a) BY <3>8 DEF Cancel, EmitNote, TypeOK, tree, tail, dog
    <3> QED BY <2>4, <3>1, <3>2, <3>3, <3>4, <3>5, <3>6, <3>7, <3>8 DEF ProcessStep
  <2>5. CASE UNCHANGED vars
    BY <2>5 DEF vars, TypeOK, tree, procs, tail, dog
  <2> QED BY <2>1, <2>2, <2>3, <2>4, <2>5 DEF Next
<1> QED BY <1>1, <1>2, PTL DEF Spec

-----------------------------------------------------------------------------
\* Where the tail is in the file.
TailInv ==
  /\ Tailing => spawn = "up" /\ att \in Attempt
  /\ Tailing => seen <= pos /\ pos <= upto /\ upto <= Len(file) /\ pending <= pos
  /\ NothingSkipped
  /\ ~Tailing => /\ seen = 0 /\ pos = 0 /\ upto = 0 /\ pending = 0 /\ handed = {}

\* An old file is a file read to its end.
OldIsRead ==
  (Tailing /\ ~fresh) =>
    pending = 0 /\ GoodLeft = {} /\ upto = Len(file) /\ pos = seen

\* The file of an attempt begun in quiet is its own.
QuietInv ==
  /\ \A b \in Attempt : b > att \/ (b = att /\ spawn # "up") => b \notin Writing
  /\ (att \in Attempt /\ spawn \in {"launch", "up"} /\ quiet[att])
       => Writing \subseteq {att} /\ \A i \in 1..Len(file) : file[i].by = att

Inv == TypeOK /\ TailInv /\ OldIsRead /\ QuietInv

-----------------------------------------------------------------------------
\* A step of a process or of its tasks leaves the tail alone, makes no attempt
\* write that did not, and writes in the name of one that does.
Aside == /\ UNCHANGED <<role, att, spawn, tail, dog, quiet>>
         /\ Writing' \subseteq Writing
         /\ \/ file' = file /\ (fresh' = fresh \/ fresh' = TRUE)
            \/ \E a \in Writing, k \in Kind : Emit(a, k)

LEMMA ProcessAside ==
  ASSUME TypeOK, NEW a \in Attempt, ProcessStep(a)
  PROVE  Aside
<1>1. CASE Output(a)
  BY <1>1 DEF Output, Aside, Writing, Kind
<1>2. CASE Work(a)
  BY <1>2 DEF Work, Aside, Writing, procs
<1>3. CASE Exit(a)
  BY <1>3 DEF Exit, Aside, Writing
<1>4. CASE CopierEnds(a)
  <2>1. Writing' \subseteq Writing /\ a \in Writing
    BY <1>4 DEF CopierEnds, Writing, TypeOK
  <2>2. UNCHANGED <<file, fresh>> \/ Emit(a, "event")
    BY <1>4 DEF CopierEnds
  <2> QED BY <1>4, <2>1, <2>2 DEF CopierEnds, Aside, Kind
<1>5. CASE Finalize(a)
  <2>1. Writing' \subseteq Writing /\ a \in Writing
    BY <1>5 DEF Finalize, Writing, TypeOK
  <2>2. UNCHANGED <<role, att, spawn, tail, dog, quiet>> /\ Emit(a, "completed")
    BY <1>5 DEF Finalize
  <2> QED BY <2>1, <2>2 DEF Aside, Kind
<1>6. CASE HardTimeout(a)
  <2>1. Writing' \subseteq Writing
    BY <1>6 DEF HardTimeout, Writing, TypeOK
  <2> QED BY <1>6, <2>1 DEF HardTimeout, Aside
<1>7. CASE Kill(a)
  <2>1. Writing' \subseteq Writing
    BY <1>7 DEF Kill, Writing, TypeOK
  <2> QED BY <1>7, <2>1 DEF Kill, EmitNote, Aside
<1>8. CASE Cancel(a)
  BY <1>8 DEF Cancel, EmitNote, Aside, Writing
<1> QED BY <1>1, <1>2, <1>3, <1>4, <1>5, <1>6, <1>7, <1>8 DEF ProcessStep

LEMMA AsideKeeps ==
  ASSUME Inv, Aside PROVE TailInv' /\ OldIsRead' /\ QuietInv'
<1>1. /\ Len(file) <= Len(file')
      /\ \A i \in 1..Len(file) : file'[i] = file[i]
      /\ fresh' = TRUE \/ UNCHANGED <<file, fresh>>
  <2>1. CASE file' = file /\ (fresh' = fresh \/ fresh' = TRUE)
    BY <2>1 DEF Inv, TypeOK
  <2>2. ASSUME NEW a \in Writing, NEW k \in Kind, Emit(a, k)
        PROVE  /\ Len(file) <= Len(file')
               /\ \A i \in 1..Len(file) : file'[i] = file[i]
               /\ fresh' = TRUE
    <3>1. Len(file) \in Nat
      BY DEF Inv, TypeOK
    <3>2. a \in Attempt /\ TypeOK
      BY DEF Inv, Writing
    <3>3. /\ Len(file') = Len(file) + 1 /\ fresh' = TRUE
          /\ \A i \in 1..Len(file) : file'[i] = file[i]
      BY <2>2, <3>2, EmitType
    <3> QED BY <3>1, <3>3
  <2> QED BY <2>1, <2>2 DEF Aside
<1>2. Len(file) \in Nat /\ Len(file') \in Nat
  <2>1. CASE file' = file
    BY <2>1 DEF Inv, TypeOK
  <2>2. ASSUME NEW a \in Writing, NEW k \in Kind, Emit(a, k)
        PROVE  Len(file) \in Nat /\ Len(file') \in Nat
    <3>1. Len(file) \in Nat
      BY DEF Inv, TypeOK
    <3> QED BY <2>2, <3>1, EmitType DEF Inv, Writing
  <2> QED BY <2>1, <2>2 DEF Aside
<1>3. TailInv'
  BY <1>1, <1>2 DEF Inv, TypeOK, TailInv, NothingSkipped, Good, Tailing, Aside, tail, dog
<1>4. OldIsRead'
  BY <1>1 DEF Inv, OldIsRead, Tailing, GoodLeft, Good, Aside, tail, dog
<1>5. QuietInv'
  <2>1. CASE file' = file
    BY <2>1 DEF Inv, QuietInv, Aside
  <2>2. ASSUME NEW a \in Writing, NEW k \in Kind, Emit(a, k) PROVE QuietInv'
    <3>1. a \in Attempt
      BY DEF Writing
    <3>2. Len(file') = Len(file) + 1 /\ file'[Len(file) + 1].by = a
      BY <2>2, <3>1, EmitType DEF Inv
    <3>3. \A b \in Attempt : b > att \/ (b = att /\ spawn # "up") => b \notin Writing'
      BY DEF Inv, QuietInv, Aside
    <3>4. ASSUME att \in Attempt, spawn \in {"launch", "up"}, quiet[att]
          PROVE  Writing' \subseteq {att} /\ \A i \in 1..Len(file') : file'[i].by = att
      <4>1. Writing \subseteq {att} /\ \A i \in 1..Len(file) : file[i].by = att
        BY <3>4 DEF Inv, QuietInv
      <4>2. a = att
        BY <4>1
      <4> QED BY <1>1, <1>2, <3>2, <4>1, <4>2 DEF Aside
    <3> QED BY <3>3, <3>4 DEF QuietInv, Aside
  <2> QED BY <2>1, <2>2 DEF Aside
<1> QED BY <1>3, <1>4, <1>5

-----------------------------------------------------------------------------
\* What a tail that is over leaves behind.
LEMMA Closed ==
  ASSUME NEW how, Close(how), Inv, UNCHANGED <<role, att, spawn, tree, file, fresh, procs, quiet>>
  PROVE  TailInv' /\ OldIsRead' /\ QuietInv'
<1>1. ~Tailing'
  BY DEF Close, Tailing
<1>2. TailInv' /\ OldIsRead'
  BY <1>1 DEF TailInv, NothingSkipped, OldIsRead, Close
<1>3. QuietInv'
  BY DEF Inv, QuietInv, Writing, procs
<1> QED BY <1>2, <1>3

LEMMA TailKeeps ==
  ASSUME Inv, TailStep PROVE TailInv' /\ OldIsRead' /\ QuietInv'
<1> DEFINE Rest == UNCHANGED <<role, att, spawn, tree, file, fresh, procs, quiet>>
<1>a. TypeOK /\ TailInv /\ OldIsRead /\ QuietInv
  BY DEF Inv
<1>0. Rest => QuietInv'
  BY <1>a DEF QuietInv, Writing, procs
<1>1. CASE NextEvent
  <2>0. PICK i \in GoodLeft : /\ \A j \in GoodLeft : i <= j
                             /\ pending' = i /\ pos' = i /\ seen' = seen + 1
    BY <1>1 DEF NextEvent
  <2>1. /\ Tailing /\ pending = 0 /\ i \in (pos + 1)..upto /\ Good(i)
        /\ UNCHANGED <<role, att, spawn, file, fresh, upto, handed, dog>>
    BY <1>1 DEF NextEvent, GoodLeft
  <2>2. TailInv'
    <3>1. /\ Tailing' /\ seen' <= pos' /\ pos' <= upto' /\ upto' <= Len(file') /\ pending' <= pos'
          /\ spawn' = "up" /\ att' \in Attempt
      BY <1>a, <2>0, <2>1 DEF TailInv, TypeOK, Tailing, dog
    <3>2. ASSUME NEW j \in 1..pos', Good(j)
          PROVE  j \in handed \cup {i}
      <4>1. CASE j <= pos
        BY <1>a, <2>1, <3>2, <4>1 DEF TailInv, NothingSkipped, TypeOK
      <4>2. CASE j > pos
        <5>1. j \in (pos + 1)..upto
          BY <1>a, <2>0, <2>1, <3>2, <4>2 DEF TypeOK
        <5>2. j \in GoodLeft
          BY <3>2, <5>1 DEF GoodLeft
        <5> QED BY <1>a, <2>0, <2>1, <3>2, <5>1, <5>2 DEF TypeOK
      <4> QED BY <1>a, <2>0, <2>1, <3>2, <4>1, <4>2 DEF TypeOK
    <3> QED BY <2>0, <2>1, <3>1, <3>2 DEF TailInv, NothingSkipped, Good
  <2>3. OldIsRead'
    BY <1>a, <2>1 DEF OldIsRead
  <2> QED BY <1>0, <1>1, <2>2, <2>3 DEF NextEvent
<1>2. CASE Poll
  <2>1. /\ Tailing /\ pending = 0 /\ GoodLeft = {} /\ pos' = seen /\ upto' = Len(file)
        /\ UNCHANGED <<role, att, spawn, file, fresh, seen, pending, handed, dog>>
    BY <1>2 DEF Poll
  <2>2. TailInv'
    BY <1>a, <2>1 DEF TailInv, TypeOK, NothingSkipped, Good, Tailing, dog
  <2>3. OldIsRead'
    <3>1. ~fresh => pos = seen /\ upto = Len(file)
      BY <1>a, <2>1 DEF OldIsRead
    <3>2. fresh
      BY <1>2, <3>1, <1>a DEF Poll, TypeOK
    <3> QED BY <2>1, <3>2 DEF OldIsRead
  <2> QED BY <1>0, <1>2, <2>2, <2>3 DEF Poll
<1>3. CASE Yield
  <2>1. /\ Tailing /\ pending # 0 /\ handed' = handed \cup {pending} /\ pending' = 0
        /\ UNCHANGED <<role, att, spawn, file, fresh, seen, pos, upto, dog>>
    BY <1>3 DEF Yield, Tailing
  <2>2. TailInv'
    BY <1>a, <2>1 DEF TailInv, TypeOK, NothingSkipped, Good, Tailing, dog
  <2>3. OldIsRead'
    BY <1>a, <2>1 DEF OldIsRead
  <2> QED BY <1>0, <1>3, <2>2, <2>3 DEF Yield
<1>4. CASE YieldLast
  BY <1>4, Closed DEF YieldLast
<1>5. CASE GiveUp
  BY <1>5, Closed DEF GiveUp
<1>6. CASE Tick \/ StillAlive
  <2>1. /\ Tailing /\ Tailing'
        /\ UNCHANGED <<role, att, spawn, tree, file, fresh, procs, tail, quiet>>
    BY <1>6 DEF Tick, StillAlive, Tailing
  <2>2. TailInv' /\ OldIsRead'
    BY <1>a, <2>1 DEF TailInv, OldIsRead, NothingSkipped, Good, GoodLeft, tail
  <2> QED BY <1>0, <2>1, <2>2
<1> QED BY <1>1, <1>2, <1>3, <1>4, <1>5, <1>6 DEF TailStep

LEMMA SpawnKeeps ==
  ASSUME Inv, SpawnStep PROVE TailInv' /\ OldIsRead' /\ QuietInv'
<1>a. TypeOK /\ TailInv /\ OldIsRead /\ QuietInv
  BY DEF Inv
<1>1. CASE CheckHalt
  <2>1. /\ ~Tailing /\ ~Tailing' /\ att' = att + 1 /\ spawn' \in {"refused", "gates"}
        /\ UNCHANGED <<procs, tail, file>>
    BY <1>1 DEF CheckHalt, Tailing, EmitNote
  <2>2. TailInv' /\ OldIsRead'
    BY <1>a, <2>1 DEF TailInv, OldIsRead, NothingSkipped, tail
  <2>3. QuietInv'
    <3>1. Writing' = Writing
      BY <2>1 DEF Writing, procs
    <3>2. \A b \in Attempt : b >= att' => b \notin Writing'
      BY <1>a, <2>1, <3>1 DEF QuietInv, TypeOK
    <3> QED BY <1>a, <2>1, <3>2 DEF QuietInv, TypeOK
  <2> QED BY <2>2, <2>3
<1>2. CASE Truncate
  <2>1. /\ ~Tailing /\ ~Tailing' /\ UNCHANGED <<att, procs, tail, watch>> /\ spawn = "gates"
        /\ spawn' = "launch" /\ file' = <<>> /\ att \in Attempt
        /\ quiet' = [quiet EXCEPT ![att] = Writing = {}]
    BY <1>2, <1>a DEF Truncate, Tailing, TailInv, dog, TypeOK
  <2>2. TailInv' /\ OldIsRead'
    BY <1>a, <2>1 DEF TailInv, OldIsRead, NothingSkipped, tail
  <2>3. QuietInv'
    <3>1. Writing' = Writing
      BY <2>1 DEF Writing, procs
    <3>2. quiet'[att] => Writing = {}
      BY <2>1, <1>a DEF TypeOK
    <3>3. Len(file') = 0
      BY <2>1
    <3> QED BY <1>a, <2>1, <3>1, <3>2, <3>3 DEF QuietInv
  <2> QED BY <2>2, <2>3
<1>3. CASE Refuse
  <2>1. /\ ~Tailing /\ ~Tailing' /\ UNCHANGED <<att, procs, tail, watch, file, quiet>>
        /\ spawn = "gates" /\ spawn' = "refused"
    BY <1>3, <1>a DEF Refuse, Tailing, TailInv, dog, EmitNote
  <2>2. TailInv' /\ OldIsRead'
    BY <1>a, <2>1 DEF TailInv, OldIsRead, NothingSkipped, tail
  <2>3. QuietInv'
    BY <1>a, <2>1 DEF QuietInv, Writing, procs
  <2> QED BY <2>2, <2>3
<1>4. CASE Launch
  <2>1. /\ ~Tailing /\ Tailing' /\ UNCHANGED <<att, tail, file, quiet>>
        /\ fresh' = TRUE /\ spawn = "launch" /\ spawn' = "up" /\ att \in Attempt
        /\ copier' = [copier EXCEPT ![att] = "reading"]
        /\ waiter' = [waiter EXCEPT ![att] = "waiting"]
    BY <1>4, <1>a DEF Launch, Tailing, TailInv, EmitNote, TypeOK
  <2>2. TailInv' /\ OldIsRead'
    BY <1>a, <2>1 DEF TailInv, TypeOK, OldIsRead, NothingSkipped, tail
  <2>3. QuietInv'
    <3>1. Writing' \subseteq Writing \cup {att}
      BY <1>a, <2>1 DEF Writing, TypeOK
    <3> QED BY <1>a, <2>1, <3>1 DEF QuietInv, TypeOK
  <2> QED BY <2>2, <2>3
<1> QED BY <1>1, <1>2, <1>3, <1>4 DEF SpawnStep

LEMMA InvHolds == Spec => []Inv
<1>1. Init => TailInv /\ OldIsRead /\ QuietInv
  <2> SUFFICES ASSUME Init PROVE TailInv /\ OldIsRead /\ QuietInv
    OBVIOUS
  <2>1. ~Tailing
    BY DEF Init, Tailing
  <2>2. TailInv /\ OldIsRead
    BY <2>1 DEF Init, TailInv, OldIsRead, NothingSkipped
  <2>3. Writing = {}
    BY DEF Init, Writing
  <2> QED BY <2>2, <2>3 DEF Init, QuietInv
<1>2. Inv /\ TypeOK' /\ [Next]_vars => Inv'
  <2> SUFFICES ASSUME Inv, TypeOK', [Next]_vars PROVE TailInv' /\ OldIsRead' /\ QuietInv'
    BY DEF Inv
  <2>1. CASE GrowOld
    <3>1. UNCHANGED <<role, att, spawn, file, procs, tail, dog, quiet>>
      BY <2>1 DEF GrowOld
    <3>2. TailInv' /\ QuietInv'
      BY <3>1 DEF Inv, TailInv, NothingSkipped, Good, Tailing, QuietInv, Writing, tail, dog, procs
    <3>3. OldIsRead'
      BY <2>1, <3>1 DEF GrowOld, OldIsRead, Tailing, GoodLeft, Good, tail, dog
    <3> QED BY <3>2, <3>3
  <2>2. CASE UNCHANGED vars
    BY <2>2 DEF vars, Inv, TailInv, NothingSkipped, Good, GoodLeft, Tailing, OldIsRead, QuietInv,
       Writing, tail, dog, procs
  <2>3. ASSUME NEW a \in Attempt, ProcessStep(a) PROVE TailInv' /\ OldIsRead' /\ QuietInv'
    BY <2>3, ProcessAside, AsideKeeps DEF Inv
  <2> QED BY <2>1, <2>2, <2>3, TailKeeps, SpawnKeeps DEF Next
<1>3. Init /\ TypeOK /\ TailInv /\ OldIsRead /\ QuietInv => Inv
  BY DEF Inv
<1> QED BY <1>1, <1>2, <1>3, TypeCorrect, PTL DEF Spec

\* The tail hands on every line of the file it has passed, for any file.
THEOREM TailSkipsNothing == Spec => []NothingSkipped
<1>1. Inv => NothingSkipped
  BY DEF Inv, TailInv
<1> QED BY <1>1, InvHolds, PTL

\* The yields never outnumber the lines of the file.
THEOREM TailRepeatsBounded == Spec => []RepeatsBounded
<1>1. Inv => RepeatsBounded
  BY DEF Inv, TailInv, TypeOK, RepeatsBounded
<1> QED BY <1>1, InvHolds, PTL

\* Whatever the worker prints, tears and commits, the tail hands on all it passes.
THEOREM TailIsComplete == Spec => []TailReadsAll
BY TailSkipsNothing, TailRepeatsBounded, PTL DEF TailReadsAll

\* A worker is given up only by a consumer that has read all it wrote.
THEOREM GivenUpAfterReading == Spec => NothingUnreadWhenGivenUp
<1>1. Inv /\ [Next]_vars =>
        ((watch = "counting" /\ watch' = "over")
           => \A i \in 1..Len(file) : Good(i) => i \in handed)
  <2> SUFFICES ASSUME Inv, [Next]_vars, watch = "counting", watch' = "over",
                      NEW i \in 1..Len(file), Good(i)
               PROVE  i \in handed
    OBVIOUS
  <2>1. GiveUp
    <3>1. watch' # watch /\ watch = "counting" /\ watch' = "over"
      OBVIOUS
    <3>2. ASSUME NEW a \in Attempt PROVE ~ProcessStep(a)
      <4>1. ProcessStep(a) => watch' = watch
        BY ProcessAside DEF Inv, Aside, dog
      <4> QED BY <3>1, <4>1
    <3>3. ~SpawnStep /\ ~GrowOld /\ ~(UNCHANGED vars)
      BY <3>1 DEF SpawnStep, CheckHalt, Truncate, Refuse, Launch, GrowOld, vars, dog
    <3>4. ~NextEvent /\ ~Poll /\ ~Yield /\ ~YieldLast /\ ~Tick /\ ~StillAlive
      BY <3>1 DEF NextEvent, Poll, Yield, YieldLast, Tick, StillAlive, dog
    <3> QED BY <3>2, <3>3, <3>4 DEF Next, TailStep
  <2>2. Tailing /\ ~fresh
    BY <2>1 DEF GiveUp, Stuck, Tailing
  <2>3. pending = 0 /\ GoodLeft = {} /\ upto = Len(file)
    BY <2>2 DEF Inv, OldIsRead
  <2>4. i <= pos
    <3>1. i \notin (pos + 1)..upto
      BY <2>3 DEF GoodLeft
    <3> QED BY <2>3, <3>1 DEF Inv, TypeOK
  <2>5. i \in handed \cup {pending}
    BY <2>2, <2>4 DEF Inv, TailInv, NothingSkipped, TypeOK
  <2> QED BY <2>3, <2>5
<1>2. Inv /\ [Next]_vars
      => [(watch = "counting" /\ watch' = "over")
           => \A i \in 1..Len(file) : Good(i) => i \in handed]_vars
  BY <1>1
<1> QED BY <1>2, InvHolds, PTL DEF Spec, NothingUnreadWhenGivenUp

\* A completion is the attempt's own, unless an earlier one could still write.
THEOREM CompletionIsOwn == Spec => OwnCompletionWhenQuiet
<1>1. Inv /\ [Next]_vars =>
        \A a \in Attempt : (outcome[a] # outcome'[a] /\ outcome'[a] = "line" /\ quiet[a])
                             => file[pending].by = a
  <2> SUFFICES ASSUME Inv, [Next]_vars, NEW a \in Attempt, outcome[a] # outcome'[a],
                      outcome'[a] = "line", quiet[a]
               PROVE  file[pending].by = a
    OBVIOUS
  <2>1. YieldLast
    <3>1. outcome' # outcome
      OBVIOUS
    <3>2. ASSUME NEW b \in Attempt PROVE ~ProcessStep(b)
      <4>1. ProcessStep(b) => outcome' = outcome
        BY ProcessAside DEF Inv, Aside, dog
      <4> QED BY <3>1, <4>1
    <3>3. ~SpawnStep /\ ~GrowOld /\ ~(UNCHANGED vars)
      BY <3>1 DEF SpawnStep, CheckHalt, Truncate, Refuse, Launch, GrowOld, vars, dog
    <3>4. ~NextEvent /\ ~Poll /\ ~Yield /\ ~Tick /\ ~StillAlive
      BY <3>1 DEF NextEvent, Poll, Yield, Tick, StillAlive, dog
    <3>5. ~GiveUp
      <4> SUFFICES ASSUME GiveUp PROVE FALSE
        OBVIOUS
      <4>1. outcome' = [outcome EXCEPT ![att] = "stuck"]
        BY DEF GiveUp, Close
      <4> QED BY <4>1 DEF Inv, TypeOK
    <3> QED BY <3>2, <3>3, <3>4, <3>5 DEF Next, TailStep
  <2>2. Tailing /\ pending # 0 /\ outcome' = [outcome EXCEPT ![att] = "line"]
    BY <2>1 DEF YieldLast, Close, Tailing
  <2>3. a = att /\ spawn = "up"
    BY <2>2 DEF Inv, TypeOK, TailInv
  <2>4. pending \in 1..Len(file)
    BY <2>2 DEF Inv, TypeOK, TailInv
  <2> QED BY <2>3, <2>4 DEF Inv, QuietInv
<1>2. Inv /\ [Next]_vars
      => [\A a \in Attempt : (outcome[a] # outcome'[a] /\ outcome'[a] = "line" /\ quiet[a])
                             => file[pending].by = a]_vars
  BY <1>1
<1> QED BY <1>2, InvHolds, PTL DEF Spec, OwnCompletionWhenQuiet

=============================================================================
