-------------------------- MODULE AroundPilotProof --------------------------
(***************************************************************************)
(* Proofs about what is around a pilot: the supervisor's breaker and what  *)
(* it answers, for all events; and the file the planner reads, for every   *)
(* set of story files of which no two have one number, every file to begin *)
(* with, and every word a worker or a tool may write.                      *)
(***************************************************************************)
EXTENDS SprintStatus, Supervisor, FiniteSetTheorems, TLAPS

\* A nonempty set of positions has a greatest one.
LEMMA MaxIsIn ==
  ASSUME NEW n \in Nat, NEW R \in SUBSET (1..n), R # {}
  PROVE  Max(R) \in R
<1> DEFINE T == {x \in Nat : \E i \in R : i = n - x}
<1>1. T \subseteq Nat /\ T # {}
  <2> PICK i : i \in R
    OBVIOUS
  <2>1. n - i \in Nat /\ i = n - (n - i)
    OBVIOUS
  <2> QED BY <2>1
<1>2. PICK x \in T : \A y \in T : ~ (<<y, x>> \in OpToRel(<, Nat))
  <2> HIDE DEF T
  <2> QED BY <1>1, NatLessThanWellFounded, WFMin
<1>3. \A y \in T : x <= y
  <2> SUFFICES ASSUME NEW y \in T PROVE x <= y
    OBVIOUS
  <2>1. x \in Nat /\ y \in Nat /\ ~ (<<y, x>> \in OpToRel(<, Nat))
    BY <1>1, <1>2
  <2>2. y < x => <<y, x>> \in OpToRel(<, Nat)
    BY <2>1 DEF OpToRel
  <2>3. ~ (y < x)
    BY <2>1, <2>2
  <2>4. \A a, b \in Nat : ~ (b < a) => a <= b
    OBVIOUS
  <2> HIDE DEF T
  <2> QED BY <2>1, <2>3, <2>4, Zenon
<1>4. n - x \in R /\ \A i \in R : n - x >= i
  <2>1. x \in Nat /\ n - x \in R
    OBVIOUS
  <2>2. ASSUME NEW i \in R PROVE n - x >= i
    <3>1. i \in 1..n /\ n - i \in Nat /\ i = n - (n - i)
      OBVIOUS
    <3>2. n - i \in T
      BY <3>1
    <3> QED BY <1>3, <2>1, <3>1, <3>2
  <2> QED BY <2>1, <2>2
<1> QED BY <1>4 DEF Max

-----------------------------------------------------------------------------
\* Two versions of a file: the same keys in the same rows.
SameKeys(p, q) == Len(p) = Len(q) /\ \A i \in 1..Len(p) : p[i].key = q[i].key

LEMMA RowTypes ==
  ASSUME NEW q \in Rows
  PROVE  /\ Len(q) \in Nat /\ DOMAIN q = 1..Len(q)
         /\ \A i \in 1..Len(q) : /\ q[i] \in [key : Spelling, status : Word]
                                 /\ q[i].key \in Spelling /\ q[i].status \in Word
<1> DEFINE R == [key : Spelling, status : Word]
<1>1. q \in Seq(R)
  BY DEF Rows
<1>2. \A r \in R : r.key \in Spelling /\ r.status \in Word
  OBVIOUS
<1> HIDE DEF R
<1>3. Len(q) \in Nat /\ DOMAIN q = 1..Len(q) /\ \A i \in 1..Len(q) : q[i] \in R
  BY <1>1
<1> QED BY <1>2, <1>3 DEF R

LEMMA WriteRows ==
  ASSUME NEW q \in Rows, NEW I, NEW w \in Word
  PROVE  /\ Write(q, I, w) \in Rows /\ SameKeys(q, Write(q, I, w))
         /\ \A i \in 1..Len(q) : /\ i \notin I => Write(q, I, w)[i] = q[i]
                                 /\ i \in I => Write(q, I, w)[i].status = w
<1> DEFINE r == Write(q, I, w)
<1>1. r = [i \in 1..Len(q) |-> IF i \in I THEN [q[i] EXCEPT !.status = w] ELSE q[i]]
  BY RowTypes DEF Write
<1>2. \A i \in 1..Len(q) : /\ [q[i] EXCEPT !.status = w] \in [key : Spelling, status : Word]
                           /\ [q[i] EXCEPT !.status = w].key = q[i].key
                           /\ [q[i] EXCEPT !.status = w].status = w
  BY RowTypes
<1> HIDE DEF r
<1>3. \A i \in 1..Len(q) : r[i] \in [key : Spelling, status : Word]
  BY <1>1, <1>2, RowTypes
<1>4. r \in Rows /\ Len(r) = Len(q)
  <2>1. r \in [1..Len(q) -> [key : Spelling, status : Word]]
    BY <1>1, <1>3
  <2> QED BY <2>1, RowTypes DEF Rows
<1>5. SameKeys(q, r)
  BY <1>1, <1>2, <1>4 DEF SameKeys
<1> QED BY <1>1, <1>2, <1>4, <1>5 DEF r

\* What depends on the keys alone.
LEMMA KeysAlone ==
  ASSUME NEW p \in Rows, NEW q \in Rows, SameKeys(p, q)
  PROVE  /\ \A n : RowsOf(n, p) = RowsOf(n, q)
         /\ Markable(p) = Markable(q)
         /\ \A s : Plain(s, p) <=> Plain(s, q)
<1>1. DOMAIN p = 1..Len(p) /\ DOMAIN q = 1..Len(p) /\ \A i \in 1..Len(p) : p[i].key = q[i].key
  BY RowTypes DEF SameKeys
<1>2. \A n : RowsOf(n, p) = RowsOf(n, q)
  BY <1>1 DEF RowsOf
<1>3. Markable(p) = Markable(q)
  BY <1>1 DEF Markable
<1> QED BY <1>2, <1>3 DEF Plain

LEMMA RowsFinite == ASSUME NEW q \in Rows, NEW n PROVE IsFiniteSet(RowsOf(n, q))
<1>1. RowsOf(n, q) \subseteq 1..Len(q) /\ Len(q) \in Nat
  BY RowTypes DEF RowsOf
<1>2. IsFiniteSet(1..Len(q))
  BY <1>1, FS_Interval
<1> QED BY <1>1, <1>2, FS_Subset

\* A story's status is that of its rows.
LEMMA StatusOfRows ==
  ASSUME NEW p \in Rows, NEW q \in Rows, NEW n, RowsOf(n, p) = RowsOf(n, q),
         \A i \in RowsOf(n, p) : p[i].status = q[i].status
  PROVE  StatusOf(n, p) = StatusOf(n, q)
<1>1. RowsOf(n, p) # {} => Max(RowsOf(n, p)) \in RowsOf(n, p)
  <2>1. RowsOf(n, p) \in SUBSET (1..Len(p)) /\ Len(p) \in Nat
    BY RowTypes DEF RowsOf
  <2> QED BY <2>1, MaxIsIn
<1> QED BY <1>1 DEF StatusOf

\* A key is resolved to rows with the story's number.
LEMMA ResolveRows ==
  ASSUME NEW q \in Rows, NEW s \in Stem
  PROVE  /\ Resolve(s, q) \subseteq RowsOf(s.num, q)
         /\ Plain(s, q) => Resolve(s, q) = RowsOf(s.num, q)
<1>1. Resolve(s, q) \subseteq RowsOf(s.num, q)
  BY DEF Resolve, Markable, RowsOf
<1>2. ASSUME Plain(s, q) PROVE Resolve(s, q) = RowsOf(s.num, q)
  <2>1. PICK i : RowsOf(s.num, q) = {i}
    BY <1>2, RowsFinite, FS_Singleton DEF Plain
  <2>2. i \in Markable(q) /\ q[i].key.num = s.num /\ i \in 1..Len(q)
    BY <1>2, <2>1, RowTypes DEF Plain, RowsOf
  <2>3. \A j \in Markable(q) : q[j].key.num = s.num <=> j = i
    BY <2>1, <2>2, RowTypes DEF Markable, RowsOf
  <2>4. Place[q[i].key.form] <= Place[q[i].key.form]
    <3>1. q[i].key.form \in {"bar", "foo", "dotted"}
      BY <2>2, RowTypes DEF Markable, Spelling
    <3> QED BY <3>1 DEF Place
  <2>5. \A j \in Markable(q) : q[j].key = s => j = i
    BY <2>3
  <2> QED BY <2>1, <2>2, <2>3, <2>4, <2>5 DEF Resolve
<1> QED BY <1>1, <1>2

-----------------------------------------------------------------------------
\* Two versions of the file with the same rows of one number.
Same(n, p, q) == RowsOf(n, p) = RowsOf(n, q) /\ \A i \in RowsOf(n, p) : p[i] = q[i]

LEMMA SameRows ==
  ASSUME NEW p \in Rows, NEW q \in Rows, NEW n, Same(n, p, q)
  PROVE  /\ StatusOf(n, p) = StatusOf(n, q)
         /\ \A s : s.num = n => (Plain(s, p) <=> Plain(s, q))
<1>1. StatusOf(n, p) = StatusOf(n, q)
  BY StatusOfRows DEF Same
<1>2. RowsOf(n, p) \subseteq Markable(p) <=> RowsOf(n, q) \subseteq Markable(q)
  BY DEF Same, RowsOf, Markable
<1>3. RowsOf(n, p) = RowsOf(n, q)
  BY DEF Same
<1> QED BY <1>1, <1>2, <1>3 DEF Plain

\* What is written into other rows leaves those of n as they are.
LEMMA WriteElsewhere ==
  ASSUME NEW q \in Rows, NEW I, NEW w \in Word, NEW n, I \cap RowsOf(n, q) = {}
  PROVE  Same(n, q, Write(q, I, w))
<1>1. Write(q, I, w) \in Rows /\ SameKeys(q, Write(q, I, w))
  BY WriteRows
<1>2. RowsOf(n, q) = RowsOf(n, Write(q, I, w))
  BY <1>1, KeysAlone
<1>3. RowsOf(n, q) \subseteq 1..Len(q)
  BY RowTypes DEF RowsOf
<1>4. \A i \in RowsOf(n, q) : Write(q, I, w)[i] = q[i]
  BY <1>3, WriteRows
<1> QED BY <1>2, <1>4 DEF Same

\* The pilot's marks: the stories of S are done, and no other row is written.
LEMMA MarkRows ==
  ASSUME NEW q \in Rows, NEW S \in SUBSET Stem
  PROVE  /\ Mark(q, S) \in Rows /\ SameKeys(q, Mark(q, S))
         /\ \A t \in Stem \ S : Same(t.num, q, Mark(q, S))
         /\ \A s \in S : Plain(s, q) => StatusOf(s.num, Mark(q, S)) = "done"
<1> DEFINE I == UNION {Resolve(s, q) : s \in S}
<1>1. Mark(q, S) = Write(q, I, "done")
  BY DEF Mark
<1>0. \A x : x \in I <=> \E s \in S : x \in Resolve(s, q)
  OBVIOUS
<1> HIDE DEF I
<1>9. "done" \in Word
  BY SprintAssumption
<1>2. Mark(q, S) \in Rows /\ SameKeys(q, Mark(q, S))
  BY <1>1, <1>9, WriteRows
<1>3. ASSUME NEW t \in Stem \ S PROVE Same(t.num, q, Mark(q, S))
  <2>1. \A s \in S : s.num # t.num
    BY SprintAssumption
  <2>2. \A s \in S : Resolve(s, q) \cap RowsOf(t.num, q) = {}
    BY <2>1, ResolveRows DEF RowsOf
  <2>3. I \cap RowsOf(t.num, q) = {}
    BY <1>0, <2>2
  <2> QED BY <1>1, <1>9, <2>3, WriteElsewhere
<1>4. ASSUME NEW s \in S, Plain(s, q) PROVE StatusOf(s.num, Mark(q, S)) = "done"
  <2> DEFINE R == RowsOf(s.num, q)
  <2>1. Resolve(s, q) = R
    BY <1>4, ResolveRows
  <2>6. R = RowsOf(s.num, Mark(q, S))
    BY <1>2, KeysAlone
  <2>7. R \subseteq 1..Len(q) /\ Len(q) \in Nat
    BY RowTypes DEF RowsOf
  <2>2. R = RowsOf(s.num, Mark(q, S)) /\ R \subseteq 1..Len(q) /\ Len(q) \in Nat
    BY <2>6, <2>7
  <2>3. R # {}
    BY <1>4, FS_EmptySet DEF Plain
  <2>4. R \subseteq I
    BY <1>0, <2>1
  <2> HIDE DEF R
  <2>5. Max(R) \in R
    BY <2>2, <2>3, MaxIsIn
  <2>8. Mark(q, S)[Max(R)].status = "done"
    BY <1>1, <1>9, <2>2, <2>4, <2>5, WriteRows
  <2> QED BY <2>2, <2>3, <2>8 DEF StatusOf, Canonical, KnownStatuses
<1> QED BY <1>2, <1>3, <1>4

-----------------------------------------------------------------------------
\* A branch of s against the rows of the branch checked out: it differs from
\* what it was forked from in rows of s only, and nobody else has written those.
Good(s, f, q) ==
  /\ f \in [base : Rows, own : Rows] /\ SameKeys(f.base, q) /\ SameKeys(f.own, q)
  /\ \A i \in 1..Len(q) : f.own[i] # f.base[i] => i \in RowsOf(s.num, q)
  /\ \A i \in RowsOf(s.num, q) : q[i] = f.base[i]

SprintType ==
  /\ sheet \in Rows /\ tip \in Rows /\ seen \in Rows
  /\ fork \in [Stem -> [base : Rows, own : Rows]] /\ DOMAIN merged = Stem

Branches ==
  \A s \in Stem :
    /\ fork[s] = NoFork \/ Good(s, fork[s], tip)
    /\ tracked /\ s \in well => Good(s, fork[s], tip)
    /\ ~tracked => merged[s] # "done"

Pilots == well \subseteq tried /\ tried \subseteq Stem /\ (at = "off" => tried = {})

\* Only a tool parts what the planner has read from what the file says.
Read == at = "rounds" => \A n : n \notin retold => Same(n, sheet, seen)

SprintInv == SprintType /\ Branches /\ Pilots /\ Read /\ MarkedIsRead /\ MergedStaysDone

-----------------------------------------------------------------------------
\* The layout does not change, and the operators depend on no other variable.
LEMMA LayoutStands ==
  ASSUME [SprintNext]_sprintVars
  PROVE  layout' = layout /\ tracked' = tracked
BY DEF SprintNext, sprintVars, files, StartPlanner, EndPilotRounds, EndOfRun, Round, KillWhileWriting,
       Forget, MergeStory, MergeFailed, UpdateSprintStatus, SplitStory

LEMMA Later ==
  ASSUME layout' = layout
  PROVE  /\ \A n : Same(n, sheet, seen)' <=> Same(n, sheet', seen')
         /\ \A n : StatusOf(n, seen)' = StatusOf(n, seen') /\ StatusOf(n, tip)' = StatusOf(n, tip')
         /\ \A s : Plain(s, seen)' <=> Plain(s, seen')
         /\ \A s : Good(s, fork[s], tip)' <=> Good(s, fork'[s], tip')
<1>1. \A n : /\ RowsOf(n, sheet)' = RowsOf(n, sheet') /\ RowsOf(n, seen)' = RowsOf(n, seen')
             /\ RowsOf(n, tip)' = RowsOf(n, tip')
  BY DEF RowsOf, Parsed
<1>2. Markable(seen)' = Markable(seen')
  BY DEF Markable, Parsed
<1>3. \A n : Same(n, sheet, seen)' <=> Same(n, sheet', seen')
  BY <1>1 DEF Same
<1>4. \A n : StatusOf(n, seen)' = StatusOf(n, seen') /\ StatusOf(n, tip)' = StatusOf(n, tip')
  BY <1>1 DEF StatusOf
<1>5. \A s : Plain(s, seen)' <=> Plain(s, seen')
  BY <1>1, <1>2 DEF Plain
<1>6. \A s : Good(s, fork[s], tip)' <=> Good(s, fork'[s], tip')
  BY <1>1 DEF Good
<1> QED BY <1>3, <1>4, <1>5, <1>6

\* Same is an equivalence, and so is having the same keys.
LEMMA SameTwice ==
  ASSUME NEW n, NEW p, NEW q, NEW r
  PROVE  /\ Same(n, p, p) /\ (Same(n, p, q) => Same(n, q, p))
         /\ Same(n, p, q) /\ Same(n, q, r) => Same(n, p, r)
BY DEF Same

LEMMA KeysTwice ==
  ASSUME NEW p \in Rows, NEW q \in Rows, NEW r \in Rows
  PROVE  /\ SameKeys(p, p) /\ (SameKeys(p, q) => SameKeys(q, p))
         /\ SameKeys(p, q) /\ SameKeys(q, r) => SameKeys(p, r)
BY RowTypes DEF SameKeys

-----------------------------------------------------------------------------
\* A branch that is forked now, and one its worker has written into.
LEMMA BranchedGood ==
  ASSUME SprintType, Branches, NEW s \in Stem
  PROVE  Good(s, Branched(s), tip)
<1>1. fork[s] # NoFork => Good(s, Branched(s), tip)
  BY DEF Branches, Branched
<1>2. Good(s, [base |-> tip, own |-> tip], tip)
  <2>1. SameKeys(tip, tip)
    BY KeysTwice DEF SprintType
  <2> QED BY <2>1 DEF Good, SprintType
<1> QED BY <1>1, <1>2 DEF Branched

LEMMA EditedGood ==
  ASSUME SprintType, Branches, NEW s \in Stem, NEW w \in Word
  PROVE  Good(s, Edited(s, w), tip)
<1> DEFINE f == Branched(s)
           new == Write(f.own, RowsOf(s.num, f.own), w)
<1>1. Good(s, f, tip)
  BY BranchedGood
<1> HIDE DEF f
<1>2. f.own \in Rows /\ f.base \in Rows /\ tip \in Rows
  BY <1>1 DEF Good, SprintType
<1>3. Edited(s, w) = [base |-> f.base, own |-> new]
  BY <1>1 DEF Edited, Good, f
<1>4. new \in Rows /\ SameKeys(f.own, new)
  BY <1>2, WriteRows
<1>5. RowsOf(s.num, f.own) = RowsOf(s.num, tip)
  BY <1>1, <1>2, KeysAlone DEF Good
<1>6. SameKeys(new, tip)
  BY <1>1, <1>2, <1>4, KeysTwice DEF Good
<1>7. \A i \in 1..Len(tip) : new[i] # f.base[i] => i \in RowsOf(s.num, tip)
  <2>1. Len(f.own) = Len(tip)
    BY <1>1 DEF Good, SameKeys
  <2>2. \A i \in 1..Len(tip) : i \notin RowsOf(s.num, f.own) => new[i] = f.own[i]
    BY <1>2, <2>1, WriteRows
  <2> HIDE DEF new
  <2> QED BY <1>1, <1>5, <2>2 DEF Good
<1> HIDE DEF new
<1> QED BY <1>1, <1>2, <1>3, <1>4, <1>6, <1>7 DEF Good

\* A rebase leaves the rows of the other stories, and takes those of its own.
LEMMA RebasedRows ==
  ASSUME SprintType, NEW s \in Stem, NEW f, Good(s, f, tip)
  PROVE  /\ Rebased(f) \in Rows /\ SameKeys(Rebased(f), tip)
         /\ Same(s.num, Rebased(f), f.own)
         /\ \A n : n # s.num => Same(n, tip, Rebased(f))
<1> DEFINE r == Rebased(f)
<1>1. tip \in Rows /\ f.own \in Rows /\ f.base \in Rows
  BY DEF SprintType, Good
<1>2. r = [i \in 1..Len(tip) |-> IF f.own[i] # f.base[i] THEN f.own[i] ELSE tip[i]]
  BY <1>1, RowTypes DEF Rebased
<1> HIDE DEF r
<1>3. Len(f.own) = Len(tip) /\ Len(tip) \in Nat /\ \A i \in 1..Len(tip) : f.own[i].key = tip[i].key
  BY <1>1, RowTypes DEF Good, SameKeys
<1>4. \A i \in 1..Len(tip) : r[i] \in {f.own[i], tip[i]}
  BY <1>2
<1>5. r \in Rows /\ Len(r) = Len(tip)
  <2>1. \A i \in 1..Len(tip) : r[i] \in [key : Spelling, status : Word]
    BY <1>1, <1>3, <1>4, RowTypes
  <2> DEFINE R == [key : Spelling, status : Word]
  <2>2. r \in [1..Len(tip) -> R]
    BY <1>2, <2>1
  <2> HIDE DEF R
  <2>3. r \in Seq(R) /\ Len(r) = Len(tip)
    BY <1>3, <2>2
  <2> QED BY <2>3 DEF Rows, R
<1>6. SameKeys(r, tip)
  BY <1>3, <1>4, <1>5 DEF SameKeys
<1>7. \A n : RowsOf(n, r) = RowsOf(n, tip)
  BY <1>1, <1>5, <1>6, KeysAlone
<1>8. \A n : RowsOf(n, f.own) = RowsOf(n, tip)
  BY <1>1, KeysAlone DEF Good
<1>9. \A n : RowsOf(n, tip) \subseteq 1..Len(tip)
  BY <1>1, RowTypes DEF RowsOf
<1>10. Same(s.num, r, f.own)
  <2>1. \A i \in RowsOf(s.num, tip) : tip[i] = f.base[i]
    BY DEF Good
  <2>2. \A i \in RowsOf(s.num, tip) : r[i] = f.own[i]
    BY <1>2, <1>9, <2>1
  <2> QED BY <1>7, <1>8, <2>2 DEF Same
<1>11. ASSUME NEW n, n # s.num PROVE Same(n, tip, r)
  <2>1. \A i \in RowsOf(n, tip) : i \notin RowsOf(s.num, tip)
    BY <1>11 DEF RowsOf
  <2>2. \A i \in RowsOf(n, tip) : r[i] = tip[i]
    BY <1>2, <1>9, <2>1 DEF Good
  <2> QED BY <1>7, <2>2 DEF Same
<1> QED BY <1>5, <1>6, <1>10, <1>11 DEF r

-----------------------------------------------------------------------------
\* What stands while nobody branches, merges or marks.
LEMMA BranchesStand ==
  ASSUME Branches, MergedStaysDone, layout' = layout, tracked' = tracked, tip' = tip,
         fork' = fork, merged' = merged, well' \subseteq well
  PROVE  Branches' /\ MergedStaysDone'
<1>1. \A s \in Stem : Good(s, fork[s], tip)' <=> Good(s, fork[s], tip)
  BY Later
<1>2. Branches'
  BY <1>1 DEF Branches
<1>3. \A s \in Stem : StatusOf(s.num, tip)' = StatusOf(s.num, tip)
  BY Later
<1>4. MergedStaysDone'
  BY <1>3 DEF MergedStaysDone
<1> QED BY <1>2, <1>4

\* The workers of a round leave good branches.
LEMMA GatheredGood ==
  ASSUME SprintInv, NEW S, NEW good, Gathered(S, good)
  PROVE  /\ S \subseteq Stem \ tried /\ good \subseteq S /\ at = "rounds"
         /\ \A s \in S : Ready(s)
         /\ fork' \in [Stem -> [base : Rows, own : Rows]]
         /\ \A s \in Stem : /\ fork'[s] = NoFork \/ Good(s, fork'[s], tip)
                            /\ tracked /\ (s \in S \/ s \in well) => Good(s, fork'[s], tip)
<1>1. S \subseteq Stem \ tried /\ good \subseteq S /\ at = "rounds" /\ \A s \in S : Ready(s)
  BY DEF Gathered
<1>2. PICK word \in [S -> Said] :
        fork' = [s \in Stem |-> IF ~tracked \/ s \notin S THEN fork[s]
                                ELSE IF word[s] = "nothing" THEN Branched(s) ELSE Edited(s, word[s])]
  BY DEF Gathered
<1>3. ASSUME NEW s \in Stem
      PROVE  /\ fork'[s] \in [base : Rows, own : Rows]
             /\ fork'[s] = NoFork \/ Good(s, fork'[s], tip)
             /\ tracked /\ (s \in S \/ s \in well) => Good(s, fork'[s], tip)
  <2>1. CASE ~tracked \/ s \notin S
    <3>1. fork'[s] = fork[s]
      BY <1>2, <2>1
    <3>2. fork[s] \in [base : Rows, own : Rows]
      BY DEF SprintInv, SprintType
    <3> QED BY <2>1, <3>1, <3>2 DEF SprintInv, Branches
  <2>2. CASE tracked /\ s \in S /\ word[s] = "nothing"
    <3>1. fork'[s] = Branched(s)
      BY <1>2, <2>2
    <3>2. Good(s, Branched(s), tip)
      BY BranchedGood DEF SprintInv
    <3> QED BY <3>1, <3>2 DEF Good
  <2>3. CASE tracked /\ s \in S /\ word[s] # "nothing"
    <3>1. word[s] \in Word /\ fork'[s] = Edited(s, word[s])
      BY <1>2, <2>3, SprintAssumption
    <3>2. Good(s, Edited(s, word[s]), tip)
      BY <3>1, EditedGood DEF SprintInv
    <3> QED BY <3>1, <3>2 DEF Good
  <2> QED BY <2>1, <2>2, <2>3
<1>4. fork' \in [Stem -> [base : Rows, own : Rows]]
  BY <1>2, <1>3
<1> QED BY <1>1, <1>3, <1>4

\* A round: the planner reads the marks, and what it has not marked stands.
LEMMA RoundKeeps ==
  ASSUME SprintInv, NEW S, NEW good, Round(S, good)
  PROVE  SprintInv'
<1>1. /\ sheet' = Mark(sheet, good) /\ seen' = sheet' /\ tried' = tried \cup S /\ well' = well \cup good
      /\ layout' = layout /\ tracked' = tracked /\ tip' = tip /\ at' = at /\ retold' = retold
      /\ merged' = merged /\ Gathered(S, good)
  BY DEF Round
<1>2. /\ S \subseteq Stem \ tried /\ good \subseteq S /\ at = "rounds" /\ \A s \in S : Ready(s)
      /\ fork' \in [Stem -> [base : Rows, own : Rows]]
      /\ \A s \in Stem : /\ fork'[s] = NoFork \/ Good(s, fork'[s], tip)
                         /\ tracked /\ (s \in S \/ s \in well) => Good(s, fork'[s], tip)
  BY <1>1, GatheredGood
<1>3. /\ sheet' \in Rows /\ SameKeys(sheet, sheet')
      /\ \A t \in Stem \ good : Same(t.num, sheet, sheet')
      /\ \A s \in good : Plain(s, sheet) => StatusOf(s.num, sheet') = "done"
  BY <1>1, <1>2, MarkRows DEF SprintInv, SprintType
<1>4. SprintType'
  BY <1>1, <1>2, <1>3 DEF SprintInv, SprintType
<1>5. Branches' /\ MergedStaysDone'
  <2>1. \A s \in Stem : Good(s, fork[s], tip)' <=> Good(s, fork'[s], tip)
    BY <1>1, Later
  <2>2. \A s \in Stem : StatusOf(s.num, tip)' = StatusOf(s.num, tip)
    BY <1>1, Later
  <2>3. Branches'
    BY <1>1, <1>2, <2>1 DEF Branches, SprintInv
  <2>4. MergedStaysDone'
    BY <1>1, <2>2 DEF MergedStaysDone, SprintInv
  <2> QED BY <2>3, <2>4
<1>6. Pilots'
  BY <1>1, <1>2 DEF SprintInv, Pilots
<1>7. Read'
  <2>1. \A n : Same(n, sheet', seen')
    BY <1>1, SameTwice
  <2>2. \A n : Same(n, sheet, seen)'
    BY <1>1, <2>1, Later
  <2> QED BY <2>2 DEF Read
<1>8. MarkedIsRead'
  <2>1. SUFFICES ASSUME NEW s \in tried', Plain(s, seen'), s.num \notin retold
                 PROVE  s \in well' <=> StatusOf(s.num, seen') = "done"
    BY <1>1, Later DEF MarkedIsRead
  <2>2. s \in Stem /\ sheet \in Rows /\ seen \in Rows
    BY <1>1, <1>2, <2>1 DEF SprintInv, SprintType, Pilots
  <2>3. Plain(s, sheet)
    BY <1>1, <1>3, <2>1, <2>2, KeysAlone
  <2>4. Same(s.num, sheet, seen)
    BY <1>2, <2>1 DEF SprintInv, Read
  <2>5. StatusOf(s.num, sheet) = StatusOf(s.num, seen) /\ Plain(s, seen)
    BY <2>2, <2>3, <2>4, SameRows
  <2>6. CASE s \in good
    BY <1>1, <1>3, <2>3, <2>6
  <2>7. CASE s \notin good
    <3>1. StatusOf(s.num, sheet) = StatusOf(s.num, sheet')
      BY <1>3, <2>2, <2>7, SameRows
    <3>2. CASE s \in S
      <4>1. StatusOf(s.num, seen) # "done"
        BY <1>2, <3>2 DEF Ready
      <4>2. s \notin well'
        BY <1>1, <1>2, <2>7, <3>2 DEF SprintInv, Pilots
      <4> QED BY <1>1, <2>5, <3>1, <4>1, <4>2
    <3>3. CASE s \in tried
      <4>1. s \in well <=> StatusOf(s.num, seen) = "done"
        BY <1>2, <2>1, <2>5, <3>3 DEF SprintInv, MarkedIsRead
      <4> QED BY <1>1, <2>5, <2>7, <3>1, <4>1
    <3> QED BY <1>1, <2>1, <3>2, <3>3
  <2> QED BY <2>6, <2>7
<1> QED BY <1>4, <1>5, <1>6, <1>7, <1>8 DEF SprintInv

\* A pilot starts with nothing tried, and has read what the file says.
LEMMA StartKeeps ==
  ASSUME SprintInv, StartPlanner
  PROVE  SprintInv'
<1>1. /\ at = "off" /\ seen' = sheet /\ sheet' = sheet /\ layout' = layout /\ tracked' = tracked
      /\ tip' = tip /\ fork' = fork /\ merged' = merged /\ well' = well /\ tried' = tried
      /\ at' = "rounds"
  BY DEF StartPlanner, files
<1>2. tried' = {} /\ well' = {}
  BY <1>1 DEF SprintInv, Pilots
<1>3. Branches' /\ MergedStaysDone'
  BY <1>1, BranchesStand DEF SprintInv
<1>4. \A n : Same(n, sheet, seen)'
  BY <1>1, Later, SameTwice
<1> QED BY <1>1, <1>2, <1>3, <1>4 DEF SprintInv, SprintType, Pilots, Read, MarkedIsRead

\* What leaves the rounds, or is outside them, and merges nothing.
LEMMA OutsideKeeps ==
  ASSUME SprintInv, layout' = layout, tracked' = tracked, tip' = tip, merged' = merged, fork' = fork,
         sheet' \in Rows, seen' \in Rows, at' # "rounds", well' \subseteq well, well' \subseteq tried',
         tried' \subseteq tried, at' = "off" => tried' = {}
  PROVE  SprintInv'
<1>1. Branches' /\ MergedStaysDone'
  BY BranchesStand DEF SprintInv
<1>2. SprintType' /\ Pilots' /\ Read' /\ MarkedIsRead'
  BY DEF SprintInv, SprintType, Pilots, Read, MarkedIsRead
<1> QED BY <1>1, <1>2 DEF SprintInv

\* A pilot killed while it writes leaves good branches and a file that is short.
LEMMA KillKeeps ==
  ASSUME SprintInv, NEW S, NEW good, KillWhileWriting(S, good)
  PROVE  SprintInv'
<1>1. /\ Gathered(S, good) /\ layout' = layout /\ tracked' = tracked /\ tip' = tip /\ merged' = merged
      /\ at' = "off" /\ tried' = {} /\ well' = {} /\ seen' = <<>>
  BY DEF KillWhileWriting, Forget
<1>2. /\ good \subseteq Stem /\ fork' \in [Stem -> [base : Rows, own : Rows]]
      /\ \A s \in Stem : fork'[s] = NoFork \/ Good(s, fork'[s], tip)
  BY <1>1, GatheredGood
<1>3. sheet' \in Rows
  <2>1. PICK n \in 0..Len(sheet) : sheet' = SubSeq(Mark(sheet, good), 1, n)
    BY DEF KillWhileWriting
  <2>2. Mark(sheet, good) \in Rows /\ Len(Mark(sheet, good)) = Len(sheet) /\ Len(sheet) \in Nat
    BY <1>2, MarkRows, RowTypes DEF SprintInv, SprintType, SameKeys
  <2> DEFINE R == [key : Spelling, status : Word]
             q == Mark(sheet, good)
  <2>3. q \in Seq(R) /\ n \in 0..Len(q)
    BY <2>2 DEF Rows
  <2> HIDE DEF R, q
  <2>4. SubSeq(q, 1, n) \in Seq(R)
    BY <2>3
  <2> QED BY <2>1, <2>4 DEF Rows, R, q
<1>4. \A s \in Stem : Good(s, fork[s], tip)' <=> Good(s, fork'[s], tip)
  BY <1>1, Later
<1>5. Branches'
  BY <1>1, <1>2, <1>4 DEF Branches, SprintInv
<1>6. MergedStaysDone'
  <2>1. \A s \in Stem : StatusOf(s.num, tip)' = StatusOf(s.num, tip)
    BY <1>1, Later
  <2> QED BY <1>1, <2>1 DEF MergedStaysDone, SprintInv
<1>7. <<>> \in Rows
  BY DEF Rows
<1> QED BY <1>1, <1>2, <1>3, <1>5, <1>6, <1>7
        DEF SprintInv, SprintType, Pilots, Read, MarkedIsRead

\* A merge: the other branches stay good, and what was done stays done.
LEMMA MergeKeeps ==
  ASSUME SprintInv, NEW s \in Stem, MergeStory(s)
  PROVE  SprintInv'
<1>1. /\ at = "drain" /\ s \in well /\ well' = well \ {s} /\ layout' = layout /\ tracked' = tracked
      /\ at' = at /\ tried' = tried /\ seen' = seen
  BY DEF MergeStory
<1>2. Pilots' /\ Read' /\ MarkedIsRead'
  BY <1>1 DEF SprintInv, Pilots, Read, MarkedIsRead
<1>3. CASE ~tracked
  <2>1. merged' = [merged EXCEPT ![s] = "untold"] /\ tip' = tip /\ sheet' = sheet /\ fork' = fork
    BY <1>3 DEF MergeStory
  <2>2. \A t \in Stem : Good(t, fork[t], tip)' <=> Good(t, fork[t], tip)
    BY <1>1, <2>1, Later
  <2>3. \A t \in Stem : merged'[t] # "done"
    BY <1>3, <2>1 DEF SprintInv, SprintType, Branches
  <2>4. SprintType' /\ Branches' /\ MergedStaysDone'
    BY <1>1, <1>3, <2>1, <2>2, <2>3 DEF SprintInv, SprintType, Branches, MergedStaysDone
  <2> QED BY <1>2, <2>4 DEF SprintInv
<1>4. CASE tracked
  <2> DEFINE f == fork[s]
             r == Rebased(f)
  <2>1. /\ tip' = r /\ sheet' = r /\ fork' = [fork EXCEPT ![s] = [base |-> r, own |-> r]]
        /\ merged' = [merged EXCEPT ![s] = StatusOf(s.num, f.own)]
    BY <1>4 DEF MergeStory
  <2>2. Good(s, f, tip)
    BY <1>1, <1>4 DEF SprintInv, Branches
  <2>3. /\ r \in Rows /\ SameKeys(r, tip) /\ Same(s.num, r, f.own)
        /\ \A n : n # s.num => Same(n, tip, r)
    BY <2>2, RebasedRows DEF SprintInv
  <2>4. tip \in Rows /\ f.own \in Rows
    BY <2>2 DEF Good, SprintInv, SprintType
  <2> HIDE DEF f, r
  <2>5. SprintType'
    BY <1>1, <2>1, <2>3 DEF SprintInv, SprintType
  <2>6. ASSUME NEW t \in Stem, t # s, Good(t, fork[t], tip) PROVE Good(t, fork[t], r)
    <3>1. t.num # s.num
      BY <2>6, SprintAssumption
    <3>2. Same(t.num, tip, r)
      BY <2>3, <3>1
    <3>3. SameKeys(tip, r) /\ Len(r) = Len(tip)
      BY <2>3, <2>4, KeysTwice DEF SameKeys
    <3>4. fork[t].base \in Rows /\ fork[t].own \in Rows
      BY <2>6 DEF Good
    <3>5. SameKeys(fork[t].base, r) /\ SameKeys(fork[t].own, r)
      BY <2>3, <2>4, <2>6, <3>3, <3>4, KeysTwice DEF Good
    <3> QED BY <2>6, <3>2, <3>3, <3>5 DEF Good, Same
  <2>7. Good(s, [base |-> r, own |-> r], r)
    <3>1. SameKeys(r, r)
      BY <2>3, KeysTwice
    <3> QED BY <2>3, <3>1 DEF Good
  <2>8. \A t \in Stem : Good(t, fork[t], tip)' <=> Good(t, fork'[t], r)
    BY <1>1, <2>1, Later
  <2>9. fork'[s] = [base |-> r, own |-> r] /\ \A t \in Stem \ {s} : fork'[t] = fork[t]
    BY <2>1 DEF SprintInv, SprintType
  <2>10. Branches'
    BY <1>1, <1>4, <2>6, <2>7, <2>8, <2>9 DEF SprintInv, Branches
  <2>11. MergedStaysDone'
    <3>1. SUFFICES ASSUME NEW t \in Stem, merged'[t] = "done" PROVE StatusOf(t.num, r) = "done"
      BY <1>1, <2>1, Later DEF MergedStaysDone
    <3>2. CASE t = s
      <4>1. StatusOf(s.num, f.own) = "done"
        BY <2>1, <3>1, <3>2 DEF SprintInv, SprintType
      <4> QED BY <2>3, <2>4, <3>2, <4>1, SameRows
    <3>3. CASE t # s
      <4>1. merged[t] = "done" /\ t.num # s.num
        BY <2>1, <3>1, <3>3, SprintAssumption DEF SprintInv, SprintType
      <4>2. StatusOf(t.num, tip) = "done"
        BY <4>1 DEF SprintInv, MergedStaysDone
      <4> QED BY <2>3, <2>4, <4>1, <4>2, SameRows
    <3> QED BY <3>2, <3>3
  <2> QED BY <1>2, <2>5, <2>10, <2>11 DEF SprintInv
<1> QED BY <1>3, <1>4

\* What a tool writes is about the numbers it is told of.
LEMMA ToldKeeps ==
  ASSUME SprintInv, layout' = layout, tracked' = tracked, tip' = tip, fork' = fork, merged' = merged,
         at' = at, tried' = tried, well' = well, seen' = seen, sheet' \in Rows,
         retold \subseteq retold', \A n : n \notin retold' => Same(n, sheet, sheet')
  PROVE  SprintInv'
<1>1. Branches' /\ MergedStaysDone'
  BY BranchesStand DEF SprintInv
<1>2. SprintType' /\ Pilots'
  BY DEF SprintInv, SprintType, Pilots
<1>3. Read'
  <2>1. \A n : Same(n, sheet, seen)' <=> Same(n, sheet', seen)
    BY Later
  <2> QED BY <2>1, SameTwice DEF SprintInv, Read
<1>4. MarkedIsRead'
  <2>1. \A s : /\ Plain(s, seen)' <=> Plain(s, seen)
               /\ StatusOf(s.num, seen)' = StatusOf(s.num, seen)
    BY Later
  <2> QED BY <2>1 DEF SprintInv, MarkedIsRead
<1> QED BY <1>1, <1>2, <1>3, <1>4 DEF SprintInv

LEMMA KeyRows ==
  ASSUME NEW key, NEW n, n # key.num
  PROVE  Key(key) \cap RowsOf(n, sheet) = {}
BY DEF Key, RowsOf

LEMMA UpdateKeeps ==
  ASSUME SprintInv, NEW key, NEW word \in Told, UpdateSprintStatus(key, word)
  PROVE  SprintInv'
<1>1. word \in Word /\ sheet \in Rows
  BY SprintAssumption DEF SprintInv, SprintType
<1>2. sheet' = Write(sheet, Key(key), word) /\ retold' = retold \cup {key.num}
  BY DEF UpdateSprintStatus
<1>3. sheet' \in Rows
  BY <1>1, <1>2, WriteRows
<1>4. \A n : n \notin retold' => Same(n, sheet, sheet')
  BY <1>1, <1>2, KeyRows, WriteElsewhere
<1> QED BY <1>2, <1>3, <1>4, ToldKeeps DEF UpdateSprintStatus, pilot

LEMMA AppendRows ==
  ASSUME NEW q \in Rows, NEW r \in [key : Spelling, status : Word]
  PROVE  /\ Append(q, r) \in Rows
         /\ \A n : n # r.key.num => Same(n, q, Append(q, r))
<1> DEFINE R == [key : Spelling, status : Word]
           p == Append(q, r)
<1>1. q \in Seq(R) /\ r \in R
  BY DEF Rows
<1> HIDE DEF R
<1>2. /\ p \in Seq(R) /\ Len(p) = Len(q) + 1 /\ Len(q) \in Nat
      /\ p[Len(q) + 1] = r /\ \A i \in 1..Len(q) : p[i] = q[i]
  BY <1>1
<1>3. p \in Rows
  BY <1>2 DEF Rows, R
<1>4. DOMAIN p = 1..(Len(q) + 1) /\ DOMAIN q = 1..Len(q)
  BY <1>2, <1>3, RowTypes
<1> HIDE DEF p
<1>5. ASSUME NEW n, n # r.key.num PROVE Same(n, q, p)
  <2>1. RowsOf(n, p) = RowsOf(n, q)
    BY <1>2, <1>4, <1>5 DEF RowsOf
  <2>2. RowsOf(n, q) \subseteq 1..Len(q)
    BY <1>4 DEF RowsOf
  <2> QED BY <1>2, <2>1, <2>2 DEF Same
<1> QED BY <1>3, <1>5 DEF p

LEMMA SplitKeeps ==
  ASSUME SprintInv, NEW key, NEW kid \in Kids, SplitStory(key, kid)
  PROVE  SprintInv'
<1> DEFINE added == IF Key(kid) # {} THEN Write(sheet, Key(kid), "ready-for-dev")
                    ELSE Append(sheet, [key |-> kid, status |-> "ready-for-dev"])
<1>1. sheet \in Rows /\ kid \in Spelling /\ "ready-for-dev" \in Word /\ "superseded" \in Word
  BY SprintAssumption DEF SprintInv, SprintType
<1>2. sheet' = Write(added, Key(key), "superseded") /\ retold' = retold \cup {key.num, kid.num}
  BY DEF SplitStory
<1>3. added \in Rows /\ \A n : n # kid.num => Same(n, sheet, added)
  <2>1. CASE Key(kid) # {}
    <3>1. Write(sheet, Key(kid), "ready-for-dev") \in Rows
      BY <1>1, WriteRows
    <3>2. \A n : n # kid.num => Same(n, sheet, Write(sheet, Key(kid), "ready-for-dev"))
      BY <1>1, KeyRows, WriteElsewhere
    <3> QED BY <2>1, <3>1, <3>2
  <2>2. CASE Key(kid) = {}
    <3> DEFINE r == [key |-> kid, status |-> "ready-for-dev"]
    <3>1. r \in [key : Spelling, status : Word] /\ r.key = kid
      BY <1>1
    <3> HIDE DEF r
    <3>2. Append(sheet, r) \in Rows /\ \A n : n # kid.num => Same(n, sheet, Append(sheet, r))
      BY <1>1, <3>1, AppendRows
    <3> QED BY <2>2, <3>2 DEF r
  <2> QED BY <2>1, <2>2
<1> HIDE DEF added
<1>4. sheet' \in Rows
  BY <1>1, <1>2, <1>3, WriteRows
<1>5. ASSUME NEW n, n \notin retold' PROVE Same(n, sheet, sheet')
  <2>1. n # key.num /\ n # kid.num
    BY <1>2, <1>5
  <2>2. Same(n, sheet, added)
    BY <1>3, <2>1
  <2>3. Key(key) \cap RowsOf(n, added) = {}
    BY <2>1, <2>2, KeyRows DEF Same
  <2>4. Same(n, added, sheet')
    BY <1>1, <1>2, <1>3, <2>3, WriteElsewhere
  <2> QED BY <2>2, <2>4, SameTwice
<1> QED BY <1>2, <1>4, <1>5, ToldKeeps DEF SplitStory, pilot

-----------------------------------------------------------------------------
LEMMA SprintInitInv == SprintInit => SprintInv
<1> SUFFICES ASSUME SprintInit PROVE SprintInv
  OBVIOUS
<1>1. PICK f \in Sheets : layout = f.layout /\ sheet = f.rows
  BY DEF SprintInit
<1>2. <<>> \in Rows /\ sheet \in Rows
  <2>1. <<>> \in Rows
    BY DEF Rows
  <2> QED BY <1>1, <2>1, SprintAssumption
<1>3. SprintType
  <2>1. NoFork \in [base : Rows, own : Rows]
    BY <1>2 DEF NoFork
  <2>2. fork \in [Stem -> [base : Rows, own : Rows]]
    BY <2>1 DEF SprintInit
  <2> QED BY <1>2, <2>2 DEF SprintInit, SprintType
<1>4. Branches /\ Pilots /\ Read /\ MarkedIsRead /\ MergedStaysDone
  BY DEF SprintInit, Branches, Pilots, Read, MarkedIsRead, MergedStaysDone
<1> QED BY <1>3, <1>4 DEF SprintInv

LEMMA SprintStep == SprintInv /\ [SprintNext]_sprintVars => SprintInv'
<1> SUFFICES ASSUME SprintInv, [SprintNext]_sprintVars PROVE SprintInv'
  OBVIOUS
<1>1. CASE StartPlanner
  BY <1>1, StartKeeps
<1>2. CASE EndPilotRounds \/ EndOfRun
  <2>1. <<>> \in Rows
    BY DEF Rows
  <2> QED BY <1>2, <2>1, OutsideKeeps
          DEF EndPilotRounds, EndOfRun, Forget, files, SprintInv, SprintType, Pilots
<1>3. CASE \E S \in SUBSET Stem : \E good \in SUBSET S : Round(S, good) \/ KillWhileWriting(S, good)
  BY <1>3, RoundKeeps, KillKeeps
<1>4. CASE \E s \in Stem : MergeStory(s) \/ MergeFailed(s)
  <2>1. ASSUME NEW s \in Stem, MergeFailed(s) PROVE SprintInv'
    BY <2>1, OutsideKeeps DEF MergeFailed, SprintInv, SprintType, Pilots
  <2> QED BY <1>4, <2>1, MergeKeeps
<1>5. CASE \E i \in DOMAIN sheet :
             \/ \E word \in Told : UpdateSprintStatus(sheet[i].key, word)
             \/ \E kid \in Kids : SplitStory(sheet[i].key, kid)
  BY <1>5, UpdateKeeps, SplitKeeps
<1>6. CASE UNCHANGED sprintVars
  <2>1. /\ layout' = layout /\ tracked' = tracked /\ tip' = tip /\ fork' = fork /\ merged' = merged
        /\ at' = at /\ tried' = tried /\ well' = well /\ seen' = seen /\ sheet' = sheet
        /\ retold' = retold
    BY <1>6 DEF sprintVars, files, pilot
  <2>2. sheet' \in Rows /\ \A n : Same(n, sheet, sheet')
    BY <2>1, SameTwice DEF SprintInv, SprintType
  <2> QED BY <2>1, <2>2, ToldKeeps
<1> QED BY <1>1, <1>2, <1>3, <1>4, <1>5, <1>6 DEF SprintNext

\* For every number of stories, file and word: what the pilot has marked done
\* the planner reads as done, and no other story it has tried, until a tool
\* rewrites it; and a story merged as done is done at the head of the branch
\* whatever is merged after it (mark_sprint_status_done, _status_by_id,
\* _ff_merge_to_integration).
THEOREM KeptStatus == SprintSpec => []StatusKept
<1>1. SprintInv => StatusKept
  BY DEF SprintInv, StatusKept
<1> QED BY <1>1, SprintInitInv, SprintStep, PTL DEF SprintSpec

-----------------------------------------------------------------------------
\* The supervisor.

\* Whoever decides is heard, and the judge was asked below the limit.
SupervisorInv ==
  /\ SupervisorTypeOK
  /\ pc \in {"decide", "judging"} => cur \in Watched
  /\ pc = "judging" => stamps < MaxActions

LEMMA SupervisorInitially == SupervisorInit => SupervisorInv
BY SupervisorAssumption DEF SupervisorInit, SupervisorInv, SupervisorTypeOK, EventType, Action

\* What a tracked decision adds to the history is of its type.
LEMMA DecidedType ==
  ASSUME SupervisorInv, cur \in Watched, stamps < MaxActions, UNCHANGED <<queue, cur, published>>,
         NEW d \in Action, Track(d), NEW a \in Action, Decided(a)
  PROVE  SupervisorTypeOK'
<1>1. stamps' \in 0..MaxActions
  BY SupervisorAssumption DEF SupervisorInv, SupervisorTypeOK, Track
<1>2. count' \in Nat
  BY DEF SupervisorInv, SupervisorTypeOK, Track
<1>3. [event |-> cur, action |-> d] \in [event : Watched, action : Action]
  OBVIOUS
<1>4. history' \in Seq([event : Watched, action : Action])
  BY <1>3 DEF SupervisorInv, SupervisorTypeOK, Track
<1> QED BY <1>1, <1>2, <1>4 DEF SupervisorInv, SupervisorTypeOK, Decided

LEMMA RulesType == \A e : RulesFor(e) \ {"none"} \subseteq Action
BY DEF RulesFor, Action

LEMMA SupervisorStep == SupervisorInv /\ [SupervisorNext]_supervisorVars => SupervisorInv'
<1> SUFFICES ASSUME SupervisorInv, [SupervisorNext]_supervisorVars PROVE SupervisorInv'
    OBVIOUS
<1>1. ASSUME NEW e \in External, Publish(e) PROVE SupervisorInv'
  BY <1>1 DEF Publish, SupervisorInv, SupervisorTypeOK, EventType
<1>2. CASE Expire
  BY <1>2, SupervisorAssumption DEF Expire, SupervisorInv, SupervisorTypeOK
<1>3. CASE Take
  <2>1. Head(queue) \in EventType /\ Tail(queue) \in Seq(EventType)
    BY <1>3 DEF Take, SupervisorInv, SupervisorTypeOK
  <2> QED BY <1>3, <2>1 DEF Take, Heard, SupervisorInv, SupervisorTypeOK
<1>4. CASE RateLimited
  BY <1>4 DEF RateLimited, Decided, SupervisorInv, SupervisorTypeOK, Action
<1>5. CASE ByRule
  <2> PICK d \in RulesFor(cur) \ {"none"} : Track(d) /\ Decided(d)
    BY <1>5 DEF ByRule
  <2>1. d \in Action /\ stamps < MaxActions /\ cur \in Watched
    BY <1>5, RulesType, SupervisorAssumption
       DEF ByRule, LimitTripped, SupervisorInv, SupervisorTypeOK
  <2>2. SupervisorTypeOK'
    BY <1>5, <2>1, DecidedType DEF ByRule
  <2> QED BY <2>2 DEF Decided, SupervisorInv
<1>6. CASE AskJudge
  BY <1>6, SupervisorAssumption DEF AskJudge, LimitTripped, SupervisorInv, SupervisorTypeOK
<1>7. CASE JudgeError
  <2> PICK d \in Action : Track(d) /\ Decided(d)
    BY <1>7 DEF JudgeError, Action
  <2>1. SupervisorTypeOK'
    BY <1>7, DecidedType DEF JudgeError, SupervisorInv
  <2> QED BY <2>1 DEF Decided, SupervisorInv
<1>8. CASE JudgeVerdict
  <2> PICK d \in Action : Track(d) /\ \E a \in Action : Decided(a)
    BY <1>8 DEF JudgeVerdict, Action
  <2> PICK a \in Action : Decided(a)
    OBVIOUS
  <2>1. SupervisorTypeOK'
    BY <1>8, DecidedType DEF JudgeVerdict, SupervisorInv
  <2> QED BY <2>1 DEF Decided, SupervisorInv
<1>9. CASE DecideRaises
  BY <1>9 DEF DecideRaises, SupervisorInv, SupervisorTypeOK
<1>10. CASE Execute
  BY <1>10 DEF Execute, SupervisorInv, SupervisorTypeOK, EventType
<1>11. CASE AbortDrained
  BY <1>11 DEF AbortDrained, SupervisorInv, SupervisorTypeOK, EventType
<1>12. CASE AbortDrainLocks
  BY <1>12 DEF AbortDrainLocks, SupervisorInv, SupervisorTypeOK
<1>13. CASE Drained \/ UNCHANGED supervisorVars
  BY <1>13 DEF Drained, supervisorVars, SupervisorInv, SupervisorTypeOK
<1> QED
  BY <1>1, <1>2, <1>3, <1>4, <1>5, <1>6, <1>7, <1>8, <1>9, <1>10, <1>11, <1>12, <1>13
     DEF SupervisorNext, Decide, Act

\* One more escalation lengthens the streak by one, unless it is about a
\* technical failure; anything else ends it.
LEMMA StreakGrows ==
  ASSUME NEW h \in Seq([event : Watched, action : Action]), NEW r \in [event : Watched, action : Action]
  PROVE  /\ IsFiniteSet(Streak(h))
         /\ Cardinality(Streak(Append(h, r))) =
              IF r.action # "escalate_human" THEN 0
              ELSE IF r.event = "technical" THEN Cardinality(Streak(h)) ELSE Cardinality(Streak(h)) + 1
<1> DEFINE g == Append(h, r)
           n == Len(h)
<1>1. /\ n \in Nat /\ Len(g) = n + 1 /\ g[n + 1] = r
      /\ \A i \in 1..n : g[i] = h[i]
  OBVIOUS
<1>2. IsFiniteSet(Streak(h))
  <2>1. IsFiniteSet(1..n)
    BY <1>1, FS_Interval
  <2>2. Streak(h) \in SUBSET (1..n)
    BY DEF Streak
  <2> QED BY <2>1, <2>2, FS_Subset
<1> HIDE DEF g, n
<1>3. CASE r.action # "escalate_human"
  <2>1. Streak(g) = {}
    BY <1>1, <1>3 DEF Streak
  <2> QED BY <1>2, <1>3, <2>1, FS_EmptySet DEF g
<1>4. ASSUME r.action = "escalate_human", NEW i \in 1..n PROVE i \in Streak(g) <=> i \in Streak(h)
  BY <1>1, <1>4 DEF Streak, n
<1>5. r.action = "escalate_human" => (n + 1 \in Streak(g) <=> r.event # "technical")
  BY <1>1 DEF Streak
<1>6. Streak(g) \subseteq 1..(n + 1) /\ Streak(h) \subseteq 1..n /\ n + 1 \notin 1..n
      /\ \A i \in 1..(n + 1) : i \in 1..n \/ i = n + 1
  BY <1>1 DEF Streak, n
<1>7. CASE r.action = "escalate_human" /\ r.event = "technical"
  <2>1. Streak(g) = Streak(h)
    BY <1>4, <1>5, <1>6, <1>7
  <2> QED BY <1>2, <1>7, <2>1 DEF g
<1>8. CASE r.action = "escalate_human" /\ r.event # "technical"
  <2>1. Streak(g) = Streak(h) \cup {n + 1} /\ n + 1 \notin Streak(h)
    BY <1>4, <1>5, <1>6, <1>8
  <2> QED BY <1>2, <1>8, <2>1, FS_AddElement DEF g
<1> QED BY <1>2, <1>3, <1>7, <1>8

\* Whatever is decided about whatever events: the circuit breaker counts what
\* it says, the escalations since the last decision of another kind.
THEOREM BreakerCounts == SupervisorSpec => []CountIsStreak
<1>1. SupervisorInit => SupervisorInv /\ CountIsStreak
  <2>1. Streak(<<>>) = {}
    BY DEF Streak
  <2> QED BY <2>1, SupervisorInitially, FS_EmptySet DEF SupervisorInit, CountIsStreak
<1>2. SupervisorInv /\ CountIsStreak /\ [SupervisorNext]_supervisorVars => (SupervisorInv /\ CountIsStreak)'
  <2> SUFFICES ASSUME SupervisorInv, CountIsStreak, [SupervisorNext]_supervisorVars PROVE CountIsStreak'
    BY SupervisorStep
  <2>1. ASSUME NEW d \in Action, Track(d), cur \in Watched PROVE CountIsStreak'
    <3> DEFINE r == [event |-> cur, action |-> d]
    <3>1. r \in [event : Watched, action : Action] /\ r.event = cur /\ r.action = d
      BY <2>1
    <3>2. history' = Append(history, r) /\ history \in Seq([event : Watched, action : Action])
      BY <2>1 DEF Track, SupervisorInv, SupervisorTypeOK
    <3> HIDE DEF r
    <3>3. Cardinality(Streak(history')) =
            IF d # "escalate_human" THEN 0
            ELSE IF cur = "technical" THEN Cardinality(Streak(history)) ELSE Cardinality(Streak(history)) + 1
      BY <3>1, <3>2, StreakGrows
    <3> QED BY <2>1, <3>3 DEF Track, CountIsStreak
  <2>2. CASE UNCHANGED <<count, history>>
    BY <2>2 DEF CountIsStreak
  <2>3. CASE ByRule \/ JudgeError \/ JudgeVerdict
    <3>1. \E d \in Action : Track(d)
      BY <2>3, RulesType DEF ByRule, JudgeError, JudgeVerdict, Action
    <3>2. cur \in Watched
      BY <2>3 DEF ByRule, JudgeError, JudgeVerdict, SupervisorInv
    <3> QED BY <2>1, <3>1, <3>2
  <2> QED
    BY <2>2, <2>3 DEF SupervisorNext, Decide, Act, Publish, Expire, Take, RateLimited, AskJudge,
       DecideRaises, Execute, AbortDrained, AbortDrainLocks, Drained, supervisorVars
<1> QED BY <1>1, <1>2, PTL DEF SupervisorSpec

LEMMA OutsideFinite ==
  ASSUME NEW q \in Seq(EventType)
  PROVE  IsFiniteSet(Outside(q)) /\ Cardinality(Outside(q)) \in Nat
<1>1. IsFiniteSet(1..Len(q))
  BY FS_Interval
<1>2. Outside(q) \in SUBSET (1..Len(q))
  BY DEF Outside
<1> QED BY <1>1, <1>2, FS_Subset, FS_CardinalityType

LEMMA OutsideAppend ==
  ASSUME NEW q \in Seq(EventType), NEW e
  PROVE  Cardinality(Outside(Append(q, e))) = Cardinality(Outside(q)) + (IF e = "own" THEN 0 ELSE 1)
<1> DEFINE g == Append(q, e)
           n == Len(q)
<1>1. /\ n \in Nat /\ Len(g) = n + 1 /\ g[n + 1] = e
      /\ \A i \in 1..n : g[i] = q[i]
  OBVIOUS
<1> HIDE DEF g
<1>2. Outside(g) = IF e = "own" THEN Outside(q) ELSE Outside(q) \cup {n + 1}
  BY <1>1 DEF Outside
<1>3. n + 1 \notin Outside(q)
  BY <1>1 DEF Outside
<1>4. Cardinality(Outside(q) \cup {n + 1}) = Cardinality(Outside(q)) + 1
  BY <1>3, OutsideFinite, FS_AddElement
<1>5. Cardinality(Outside(g)) = Cardinality(Outside(q)) + (IF e = "own" THEN 0 ELSE 1)
  BY <1>2, <1>4, OutsideFinite
<1> QED BY <1>5 DEF g

LEMMA OutsideTail ==
  ASSUME NEW q \in Seq(EventType), q # <<>>
  PROVE  Cardinality(Outside(q)) = Cardinality(Outside(Tail(q))) + (IF Head(q) = "own" THEN 0 ELSE 1)
<1> DEFINE t == Tail(q)
           S == Outside(q) \ {1}
           f == [i \in Outside(t) |-> i + 1]
<1>1. /\ Len(q) \in Nat /\ Len(q) >= 1 /\ Len(t) = Len(q) - 1 /\ Head(q) = q[1]
      /\ \A i \in 1..Len(t) : t[i] = q[i + 1]
      /\ t \in Seq(EventType)
  OBVIOUS
<1> HIDE DEF t
<1>2. IsFiniteSet(Outside(q)) /\ IsFiniteSet(Outside(t))
  BY <1>1, OutsideFinite
<1>3. f \in Bijection(Outside(t), S)
  <2>1. \A i \in Outside(t) : i \in Nat /\ i + 1 \in S
    BY <1>1 DEF Outside
  <2>2. \A j \in S : j - 1 \in Outside(t) /\ (j - 1) + 1 = j
    BY <1>1 DEF Outside
  <2>3. \A j \in S : \E i \in Outside(t) : f[i] = j
    BY <2>2
  <2>4. f \in [Outside(t) -> S] /\ \A i, j \in Outside(t) : f[i] = f[j] => i = j
    BY <2>1
  <2>5. f \in Injection(Outside(t), S)
    BY <2>4 DEF Injection, IsInjective
  <2>6. f \in Surjection(Outside(t), S)
    BY <2>3, <2>4 DEF Surjection
  <2> QED BY <2>5, <2>6 DEF Bijection
<1>4. Cardinality(S) = Cardinality(Outside(t)) /\ Cardinality(S) \in Nat
  BY <1>2, <1>3, FS_Bijection, FS_CardinalityType DEF ExistsBijection
<1>5. Cardinality(S) = IF 1 \in Outside(q) THEN Cardinality(Outside(q)) - 1 ELSE Cardinality(Outside(q))
  BY <1>2, FS_RemoveElement
<1>6. 1 \in Outside(q) <=> Head(q) # "own"
  BY <1>1 DEF Outside
<1>7. Cardinality(Outside(q)) \in Nat
  BY <1>2, FS_CardinalityType
<1> QED BY <1>4, <1>5, <1>6, <1>7 DEF t

\* However many events arrive, and whatever the supervisor emits: each decision
\* answers an event of its own from outside.
THEOREM NoneAnsweredTwice == SupervisorSpec => []AnsweredOnce
<1>1. SupervisorInit => SupervisorInv /\ AnsweredOnce
  <2>1. Outside(<<>>) = {}
    BY DEF Outside
  <2> QED BY <2>1, SupervisorInitially, FS_EmptySet DEF SupervisorInit, AnsweredOnce
<1>2. SupervisorInv /\ AnsweredOnce /\ [SupervisorNext]_supervisorVars => (SupervisorInv /\ AnsweredOnce)'
  <2> SUFFICES ASSUME SupervisorInv, AnsweredOnce, [SupervisorNext]_supervisorVars PROVE AnsweredOnce'
    BY SupervisorStep
  <2>1. /\ answered \in Nat /\ published \in Nat /\ queue \in Seq(EventType)
        /\ Cardinality(Outside(queue)) \in Nat
    BY OutsideFinite DEF SupervisorInv, SupervisorTypeOK
  <2>2. ASSUME NEW e \in External, Publish(e) PROVE AnsweredOnce'
    <3>1. e # "own"
      BY DEF External, Watched
    <3> QED BY <2>1, <2>2, <3>1, OutsideAppend DEF Publish, AnsweredOnce
  <2>3. CASE Take
    <3>1. Heard(Head(queue)) => Head(queue) # "own"
      BY DEF Heard, Watched
    <3>2. Cardinality(Outside(queue')) \in Nat
          /\ Cardinality(Outside(queue)) = Cardinality(Outside(queue')) + (IF Head(queue) = "own" THEN 0 ELSE 1)
      <4>1. queue' \in Seq(EventType) /\ queue # <<>> /\ queue' = Tail(queue)
        BY <2>1, <2>3 DEF Take
      <4> QED BY <2>1, <4>1, OutsideTail, OutsideFinite
    <3> QED BY <2>1, <2>3, <3>1, <3>2 DEF Take, AnsweredOnce
  <2>4. CASE RateLimited \/ ByRule \/ JudgeError \/ JudgeVerdict
    <3>1. UNCHANGED <<queue, published>> /\ pc \in {"decide", "judging"} /\ pc' = "execute"
          /\ answered' = answered + 1
      BY <2>4 DEF RateLimited, ByRule, JudgeError, JudgeVerdict, Decided
    <3> QED BY <2>1, <3>1 DEF AnsweredOnce
  <2>5. CASE AskJudge \/ DecideRaises \/ Expire \/ Drained \/ UNCHANGED supervisorVars
    BY <2>1, <2>5 DEF AskJudge, DecideRaises, Expire, Drained, supervisorVars, AnsweredOnce
  <2>6. CASE Execute \/ AbortDrained
    <3>1. /\ UNCHANGED <<answered, published>> /\ pc' = "idle" /\ pc = "execute"
          /\ queue' = queue \/ queue' = Append(queue, "own")
      <4>1. <<"own">> = Append(<<>>, "own")
        OBVIOUS
      <4> QED BY <2>6, <4>1 DEF Execute, AbortDrained
    <3>2. Cardinality(Outside(Append(queue, "own"))) = Cardinality(Outside(queue)) + 0
      BY <2>1, OutsideAppend
    <3>3. Cardinality(Outside(queue')) = Cardinality(Outside(queue))
      <4>1. CASE queue' = queue
        BY <4>1
      <4>2. CASE queue' = Append(queue, "own")
        BY <2>1, <3>2, <4>2
      <4> QED BY <3>1, <4>1, <4>2
    <3> QED BY <2>1, <3>1, <3>3 DEF AnsweredOnce
  <2>7. CASE AbortDrainLocks
    <3>1. queue' \in Seq(EventType) /\ queue # <<>> /\ queue' = Tail(queue)
      BY <2>1, <2>7 DEF AbortDrainLocks
    <3>2. Cardinality(Outside(queue')) \in Nat /\ Cardinality(Outside(queue)) >= Cardinality(Outside(queue'))
      <4>1. Cardinality(Outside(queue')) \in Nat
        BY <3>1, OutsideFinite
      <4>2. Cardinality(Outside(queue)) =
              Cardinality(Outside(queue')) + (IF Head(queue) = "own" THEN 0 ELSE 1)
        BY <2>1, <3>1, OutsideTail
      <4> QED BY <4>1, <4>2
    <3> QED BY <2>1, <2>7, <3>2 DEF AbortDrainLocks, AnsweredOnce
  <2> QED BY <2>2, <2>3, <2>4, <2>5, <2>6, <2>7 DEF SupervisorNext, Decide, Act
<1> QED BY <1>1, <1>2, PTL DEF SupervisorSpec
=============================================================================
