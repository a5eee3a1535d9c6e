----------------------------- MODULE PartsProof ------------------------------
(***************************************************************************)
(* Proofs about small specifications, those the run parts explores: the    *)
(* orchestrators of one host, of which one for a project is left by the    *)
(* sweep; the breaking of cycles in a wave's graph; the token for a merge  *)
(* to main; the homes of workers; the budget ledger; the seed of a wave    *)
(* from stored flows; the mock wave; sub-stories; the sandbox a worker is  *)
(* started in; questions and who answers them; one review of one story.    *)
(***************************************************************************)
EXTENDS BudgetLedger, SubStories, MergeToken, Fleet, Dag, Sandbox, Homes, Mock, Flows,
        Questions, Review,
        FiniteSetTheorems, SequenceTheorems, TLAPS

FleetType ==
  /\ where \in [Orch -> {"off", "started", "listed", "pilot", "over", "killed", "never"}]
  /\ hit \in [Orch -> SUBSET Orch]
  /\ named \subseteq {o \in Proc0 : where[o] # "off"}

\* Of two that have looked and still run, one has yet to kill the other, or
\* could not look at it.
Listed ==
  \A o, q \in named :
    /\ o # q /\ ProjectOf[o] = ProjectOf[q]
    /\ where[o] \in {"listed", "pilot"} /\ where[q] \in {"listed", "pilot"}
    => \/ q \in hit[o] \/ o \in hit[q]
       \/ <<o, q>> \in missed \/ <<q, o>> \in missed

PilotHasKilled == \A o \in Orch : where[o] = "pilot" => hit[o] = {}

FleetInv == FleetType /\ Listed /\ PilotHasKilled

LEMMA FleetInitially == FleetInit => FleetInv
BY DEF FleetInit, FleetInv, FleetType, Listed, PilotHasKilled, Orch

LEMMA FleetStep == FleetInv /\ [FleetNext]_fleetVars => FleetInv'
<1> SUFFICES ASSUME FleetInv, [FleetNext]_fleetVars PROVE FleetInv'
    OBVIOUS
<1> USE DEF FleetInv, FleetType, Orch
<1>1. ASSUME NEW o \in Orch, Launch(o) PROVE FleetInv'
  BY <1>1 DEF Launch, Listed, PilotHasKilled
<1>2. ASSUME NEW o \in Orch, List(o) PROVE FleetInv'
  <2>1. FleetType'
    BY <1>2 DEF List, Others
  <2>2. Listed'
    BY <1>2 DEF List, Listed, Alive, Others, Miss
  <2>3. PilotHasKilled'
    BY <1>2 DEF List, PilotHasKilled
  <2> QED BY <2>1, <2>2, <2>3
<1>3. ASSUME NEW o \in Orch, KillStale(o) PROVE FleetInv'
  <2> PICK q \in hit[o] :
        /\ hit' = [hit EXCEPT ![o] = @ \ {q}]
        /\ \/ where' = (IF Matches(q, o) THEN [where EXCEPT ![q] = "killed"] ELSE where) /\ Miss(o, {})
           \/ UNCHANGED where /\ Miss(o, {q})
    BY <1>3 DEF KillStale
  <2> named' = named
    BY <1>3 DEF KillStale
  <2>1. FleetType'
    OBVIOUS
  <2>2. \A r \in Orch : where'[r] # "killed" => where'[r] = where[r]
    OBVIOUS
  <2>3. missed \subseteq missed'
    BY DEF Miss
  <2>4. ASSUME q \in named, o \in named, ProjectOf[o] = ProjectOf[q], where[q] \in {"listed", "pilot"}
        PROVE  where'[q] = "killed" \/ <<o, q>> \in missed'
    <3>1. Matches(q, o)
      BY <2>4 DEF Matches, Alive
    <3>2. o \in Proc0
      BY <2>4
    <3> QED BY <3>1, <3>2 DEF Miss
  <2>5. Listed'
    BY <2>2, <2>3, <2>4 DEF Listed
  <2>6. PilotHasKilled'
    BY <2>2 DEF PilotHasKilled
  <2> QED BY <2>1, <2>5, <2>6
<1>4. ASSUME NEW o \in Orch, BeginPilot(o) PROVE FleetInv'
  BY <1>4 DEF BeginPilot, Listed, PilotHasKilled
<1>5. ASSUME NEW o \in Orch, EndPilot(o) PROVE FleetInv'
  BY <1>5 DEF EndPilot, Listed, PilotHasKilled
<1>6. ASSUME NEW c \in Child, TimeOutChild(c) PROVE FleetInv'
  BY <1>6 DEF TimeOutChild, Listed, PilotHasKilled
<1>7. ASSUME NEW c \in Child, Collect(c) PROVE FleetInv'
  BY <1>7 DEF Collect, Listed, PilotHasKilled
<1>8. CASE UNCHANGED <<where, named, hit, missed>>
  BY <1>8 DEF Listed, PilotHasKilled
<1> QED
  BY <1>1, <1>2, <1>3, <1>4, <1>5, <1>6, <1>7, <1>8
     DEF FleetNext, fleetVars, Charge, WorkersEnd, BeginMulti, EndMulti

\* However many are started, in whatever order, and however long pgrep takes: of
\* the processes whose command line names a project two are past the sweep only
\* when one of them could not look at the other.
THEOREM OneIsLeft == FleetSpec => []OneOfAProject
<1>1. FleetInv => OneOfAProject
  BY DEF FleetInv, FleetType, Listed, PilotHasKilled, OneOfAProject, Orch
<1> QED BY <1>1, FleetInitially, FleetStep, PTL DEF FleetSpec

-----------------------------------------------------------------------------
\* What is in the graph is of one kind, and a depends_on was declared.
Kinds == depends \subseteq declared /\ depends \cap blocks = {}

\* Whatever the order in which cycles are found.
THEOREM DependenciesStay == DagSpec => []DependsKept
<1>1. DagInit => Kinds /\ DependsKept
  BY DEF DagInit, Kinds, DependsKept
<1>2. Kinds /\ DependsKept /\ [Break]_dagVars => (Kinds /\ DependsKept)'
  <2> SUFFICES ASSUME Kinds, DependsKept, Break PROVE (Kinds /\ DependsKept)'
      BY DEF dagVars, Kinds, DependsKept, Cycles, EdgesOf
  <2> PICK c \in Cycles(depends \cup blocks) : \E e \in Victims(c) :
        depends' = depends \ {e} /\ blocks' = blocks \ {e} /\ declared' = declared
      BY DEF Break
  <2> PICK e \in Victims(c) :
        depends' = depends \ {e} /\ blocks' = blocks \ {e} /\ declared' = declared
      OBVIOUS
  <2>1. Kinds'
    BY DEF Kinds
  <2>2. e \in depends => c \in Cycles(declared) /\ e \in EdgesOf(c)
    <3> HAVE e \in depends
    <3>1. e \in EdgesOf(c) /\ EdgesOf(c) \cap blocks = {}
      BY DEF Victims, Kinds
    <3>2. EdgesOf(c) \subseteq declared
      BY <3>1 DEF Cycles, Kinds
    <3> QED BY <3>1, <3>2 DEF Cycles
  <2>3. Cycles(declared)' = Cycles(declared) /\ \A d : EdgesOf(d)' = EdgesOf(d)
    BY DEF Cycles, EdgesOf
  <2>4. DependsKept'
    BY <2>2, <2>3 DEF DependsKept
  <2> QED BY <2>1, <2>4
<1> QED BY <1>1, <1>2, PTL DEF DagSpec

-----------------------------------------------------------------------------
\* The token for a merge to main.

TokenFile == [token : Nat, used : BOOLEAN, expired : BOOLEAN]

TokenType ==
  /\ file \in TokenFile /\ tokens \in Nat /\ burnt \subseteq 1..tokens /\ late \subseteq Merger
  /\ shown \in [Merger -> Nat] /\ hand \in [Merger -> TokenFile]
  /\ mergerAt \in [Merger -> {"idle", "called", "valid", "read", "merging"}]

\* Whatever old state of the file is written back, it is written as used.
TokenInv ==
  /\ TokenType
  /\ \A m \in Merger : mergerAt[m] # "idle" => shown[m] \in 1..tokens
  /\ file.token \in burnt => file.used
  /\ \A m \in late : mergerAt[m] \in {"idle", "called"} /\ (mergerAt[m] = "called" => shown[m] \in burnt)

LEMMA TokenInitially == TokenInit => TokenInv
BY DEF TokenInit, TokenInv, TokenType, TokenFile, Unread

LEMMA TokenStep == TokenInv /\ [TokenNext]_tokenVars => TokenInv'
<1> SUFFICES ASSUME TokenInv, [TokenNext]_tokenVars PROVE TokenInv'
  OBVIOUS
<1> USE DEF TokenInv, TokenType
<1>1. CASE Generate
  <2>1. tokens' = tokens + 1 /\ tokens' \notin burnt /\ burnt \subseteq 1..tokens'
    BY <1>1 DEF Generate
  <2>2. file' \in TokenFile /\ file'.token = tokens'
    BY <1>1, <2>1 DEF Generate, TokenFile
  <2> QED BY <1>1, <2>1, <2>2 DEF Generate
<1>2. CASE Revoke
  BY <1>2 DEF Revoke, Unread, TokenFile
<1>3. CASE Expire
  BY <1>3 DEF Expire, TokenFile
<1>4. ASSUME NEW m \in Merger, Present(m) PROVE TokenInv'
  <2>1. PICK t \in 1..tokens :
          /\ shown' = [shown EXCEPT ![m] = t]
          /\ late' = IF t \in burnt THEN late \cup {m} ELSE late \ {m}
    BY <1>4 DEF Present
  <2>2. mergerAt[m] = "idle" /\ mergerAt' = [mergerAt EXCEPT ![m] = "called"]
        /\ UNCHANGED <<file, tokens, hand, burnt>>
    BY <1>4 DEF Present
  <2>3. t \in Nat /\ shown'[m] = t /\ mergerAt'[m] = "called"
        /\ \A k \in Merger \ {m} : shown'[k] = shown[k] /\ mergerAt'[k] = mergerAt[k]
    BY <2>1, <2>2
  <2> QED BY <2>1, <2>2, <2>3
<1>5. ASSUME NEW m \in Merger, Validate(m) PROVE TokenInv'
  <2>1. m \in late => ~TokenValid(m)
    BY <1>5 DEF Validate, TokenValid
  <2> QED BY <1>5, <2>1 DEF Validate
<1>6. ASSUME NEW m \in Merger, ReadAgain(m) PROVE TokenInv'
  BY <1>6 DEF ReadAgain
<1>7. ASSUME NEW m \in Merger, Burn(m) PROVE TokenInv'
  <2>1. file' \in TokenFile /\ (file'.token = 0 \/ file'.used)
    BY <1>7 DEF Burn, TokenFile, Unread
  <2>2. burnt' \subseteq 1..tokens /\ burnt \subseteq burnt' /\ 0 \notin burnt'
    BY <1>7 DEF Burn
  <2>3. hand' \in [Merger -> TokenFile]
    BY <1>7 DEF Burn, TokenFile, Unread
  <2>4. m \notin late
    BY <1>7 DEF Burn
  <2> QED BY <1>7, <2>1, <2>2, <2>3, <2>4 DEF Burn
<1>8. ASSUME NEW m \in Merger, Merged(m) PROVE TokenInv'
  BY <1>8 DEF Merged
<1>9. CASE UNCHANGED tokenVars
  BY <1>9 DEF tokenVars
<1> QED BY <1>1, <1>2, <1>3, <1>4, <1>5, <1>6, <1>7, <1>8, <1>9 DEF TokenNext

\* For any number of processes and tokens: a token that was consumed admits
\* nobody who presents it afterwards, although consume_token writes back what
\* it has read (agent/safety/main_merge_token.py).
THEOREM TokenIsSpent == TokenSpec => []BurntStaysBurnt
<1>1. TokenInv => BurntStaysBurnt
  BY DEF TokenInv, BurntStaysBurnt
<1> QED BY <1>1, TokenInitially, TokenStep, PTL DEF TokenSpec

-----------------------------------------------------------------------------
\* Homes of workers.

HomesInv ==
  /\ tenant \in [Tenant -> [of : Pilot \cup {"nobody"}, runs : BOOLEAN, home : BOOLEAN, age : Nat]]
  /\ \A w \in Tenant : tenant[w].runs => tenant[w].home /\ tenant[w].age <= Longest

LEMMA HomesStep == HomesInv /\ [HomesNext]_homeVars => HomesInv'
<1> SUFFICES ASSUME HomesInv, [HomesNext]_homeVars PROVE HomesInv'
  OBVIOUS
<1> USE HomesAssumption DEF HomesInv
<1>1. CASE HourPasses
  BY <1>1 DEF HourPasses
<1>2. ASSUME NEW p \in Pilot, StartPilot(p) PROVE HomesInv'
  <2> DEFINE Away(w) == tenant[w].home /\ IsStale(tenant[w].age)
  <2>1. tenant' = [w \in Tenant |-> IF Away(w) THEN [tenant[w] EXCEPT !.home = FALSE] ELSE tenant[w]]
    BY <1>2 DEF StartPilot
  <2>2. \A w \in Tenant : tenant[w].runs => ~Away(w)
    BY DEF IsStale
  <2> HIDE DEF Away
  <2> QED BY <2>1, <2>2
<1>3. ASSUME NEW p \in Pilot, KillPilot(p) PROVE HomesInv'
  BY <1>3 DEF KillPilot
<1>4. ASSUME NEW p \in Pilot, NEW w \in Tenant, SpawnTenant(p, w) PROVE HomesInv'
  BY <1>4 DEF SpawnTenant
<1>5. ASSUME NEW w \in Tenant, EndTenant(w) PROVE HomesInv'
  BY <1>5 DEF EndTenant, Nobody
<1>6. CASE UNCHANGED homeVars
  BY <1>6 DEF homeVars
<1> QED BY <1>1, <1>2, <1>3, <1>4, <1>5, <1>6 DEF HomesNext

LEMMA LiveHomes == HomesSpec => []LiveHomesKept
<1>1. HomesInit => HomesInv
  BY DEF HomesInit, HomesInv, Nobody
<1>2. HomesInv => LiveHomesKept
  BY DEF HomesInv, LiveHomesKept
<1> QED BY <1>1, <1>2, HomesStep, PTL DEF HomesSpec

-----------------------------------------------------------------------------
\* The snapshot of a batch.

LEMMA PathsAre ==
  /\ Len(Copied) = 2 /\ DOMAIN Copied = 1..2 /\ Copied[1] # Copied[2]
  /\ Paths = {Copied[1], Copied[2]}
BY DEF Copied, Paths

BatchType ==
  /\ version \in [Paths -> Nat] /\ master \in [Paths -> Seq(Nat)] /\ batchLock \subseteq Dispatcher
  /\ prep \in [Dispatcher -> [pc : {"idle", "waits", "copies", "hashes", "own"}, at : 1..3, half : BOOLEAN]]
  /\ overlay \in [Dispatcher -> [Paths -> Seq(Nat)]] /\ torn \subseteq Dispatcher

\* The master has something of everything, and nobody is in the middle of it:
\* from then on whoever copies finds all there.
Frozen ==
  /\ \A path \in Paths : master[path] # <<>>
  /\ \A d \in Dispatcher : ~(prep[d].pc = "copies" /\ prep[d].half)

\* Where a dispatcher is in copying.
Copying(d) ==
  /\ prep[d].half => prep[d].pc \in {"copies", "own"} /\ prep[d].at \in 1..2
  /\ prep[d].pc = "copies" =>
       /\ d \in batchLock /\ \A i \in 1..2 : i < prep[d].at => master[Copied[i]] # <<>>
       /\ prep[d].half => Len(master[At(d)]) = 1
  /\ prep[d].pc \in {"hashes", "own"} => Frozen
  /\ prep[d].pc = "own" => hash = master

\* What a dispatcher has of its own.
First(path) == Append(<<>>, master[path][1])
Owning(d) ==
  /\ prep[d].pc = "own" /\ d \notin torn =>
       \A i \in 1..2 : i < prep[d].at => overlay[d][Copied[i]] = master[Copied[i]]
  /\ \A path \in Paths : overlay[d][path] # <<>> => Frozen /\ hash = master
  /\ d \notin torn => \A path \in Paths :
       \/ overlay[d][path] \in {<<>>, master[path]}
       \/ prep[d].pc = "own" /\ prep[d].half /\ At(d) = path
  /\ prep[d].pc = "own" /\ prep[d].half =>
       overlay[d][At(d)] = First(At(d)) /\ Len(master[At(d)]) = 2

BatchGood ==
  /\ \A d, e \in batchLock : d = e
  /\ \A path \in Paths : Len(master[path]) <= 2
  /\ hash # Unhashed => Frozen /\ hash = master
  /\ \A d \in Dispatcher : Copying(d) /\ Owning(d)

BatchInv == BatchType /\ (batch = "there" => BatchGood)

LEMMA BatchInitially == BatchInit => BatchInv
<1> SUFFICES ASSUME BatchInit PROVE BatchInv
  OBVIOUS
<1>1. EmptyTree \in [Paths -> Seq(Nat)] /\ \A path \in Paths : EmptyTree[path] = <<>>
  BY DEF EmptyTree
<1>2. BatchType
  BY <1>1 DEF BatchInit, BatchType
<1>3. BatchGood
  BY <1>1 DEF BatchInit, BatchGood, Copying, Owning
<1> QED BY <1>2, <1>3 DEF BatchInv

\* A dispatcher goes to another place with nothing half done, and neither the
\* master nor an overlay changes.
LEMMA GoesKeeps ==
  ASSUME BatchInv, batch = "there", NEW d \in Dispatcher,
         NEW pc0 \in {"idle", "waits", "copies", "hashes", "own"}, Goes(d, pc0),
         UNCHANGED <<version, master, overlay, batch>>, torn \subseteq torn', torn' \subseteq Dispatcher,
         batchLock' \subseteq Dispatcher, \A e, f \in batchLock' : e = f,
         \A e \in batchLock \ {d} : e \in batchLock',
         pc0 = "copies" => d \in batchLock', pc0 = "hashes" => Frozen, pc0 = "own" => Frozen /\ hash' = master,
         hash' = hash \/ (hash' = master /\ Frozen),
         prep[d].pc = "own" /\ prep[d].half => d \in torn'
  PROVE  BatchInv'
<1>1. /\ prep' = [prep EXCEPT ![d] = [pc |-> pc0, at |-> 1, half |-> FALSE]]
      /\ prep'[d] = [pc |-> pc0, at |-> 1, half |-> FALSE] /\ \A e \in Dispatcher \ {d} : prep'[e] = prep[e]
  BY DEF Goes, BatchInv, BatchType
<1>2. BatchType'
  BY <1>1 DEF BatchInv, BatchType
<1>3. Frozen => Frozen'
  BY <1>1 DEF Frozen
<1>4. hash' # Unhashed => Frozen' /\ hash' = master
  BY <1>3 DEF BatchInv, BatchGood
<1>5. hash = master => hash' = master
  OBVIOUS
<1>6. Copying(d)'
  BY <1>1, <1>3 DEF Copying
<1>7. Owning(d)'
  <2>1. \A path \in Paths : overlay[d][path] # <<>> => Frozen' /\ hash' = master
    BY <1>3, <1>5 DEF BatchInv, BatchGood, Owning
  <2>2. d \notin torn' => \A path \in Paths : overlay[d][path] \in {<<>>, master[path]}
    BY DEF BatchInv, BatchGood, Owning
  <2> QED BY <1>1, <2>1, <2>2 DEF Owning
<1>8. ASSUME NEW e \in Dispatcher \ {d} PROVE Copying(e)' /\ Owning(e)'
  <2>1. prep'[e] = prep[e] /\ Copying(e) /\ Owning(e) /\ (e \in batchLock => e \in batchLock')
    BY <1>1, <1>8 DEF BatchInv, BatchGood
  <2>2. Copying(e)'
    BY <1>3, <1>5, <2>1 DEF Copying, At
  <2>3. Owning(e)'
    BY <1>3, <1>5, <2>1 DEF Owning, At, First
  <2> QED BY <2>2, <2>3
<1>9. BatchGood'
  BY <1>4, <1>6, <1>7, <1>8 DEF BatchInv, BatchGood
<1> QED BY <1>2, <1>9 DEF BatchInv

\* A sequence of one or two is what its pieces make.
LEMMA Pieces ==
  ASSUME NEW s \in Seq(Nat), Len(s) <= 2, s # <<>>
  PROVE  /\ Len(s) \in 1..2
         /\ Len(s) = 1 => Append(<<>>, s[1]) = s
         /\ Len(s) = 2 => Append(Append(<<>>, s[1]), s[2]) = s
<1>1. Len(s) \in Nat /\ Len(s) # 0
  OBVIOUS
<1>2. Len(s) \in 1..2 /\ \A i \in 1..Len(s) : s[i] \in Nat
  <2>1. Len(s) \in 1..2
    <3>1. PICK n \in Nat : n = Len(s) /\ n # 0 /\ n <= 2
      BY <1>1
    <3>2. n \in 1..2
      BY <3>1
    <3> QED BY <3>1, <3>2
  <2>2. \A i \in 1..Len(s) : s[i] \in Nat
    OBVIOUS
  <2> QED BY <2>1, <2>2
<1>3. ASSUME Len(s) = 1 PROVE Append(<<>>, s[1]) = s
  <2>1. Append(<<>>, s[1]) \in Seq(Nat) /\ Len(Append(<<>>, s[1])) = 1 /\ Append(<<>>, s[1])[1] = s[1]
    BY <1>2, <1>3
  <2> QED BY <2>1, <1>3, SeqEqual
<1>4. ASSUME Len(s) = 2 PROVE Append(Append(<<>>, s[1]), s[2]) = s
  <2>1. s[1] \in Nat /\ s[2] \in Nat
    BY <1>2, <1>4
  <2>2. Append(<<>>, s[1]) \in Seq(Nat) /\ Len(Append(<<>>, s[1])) = 1 /\ Append(<<>>, s[1])[1] = s[1]
    BY <2>1
  <2>3. PICK t : t \in Seq(Nat) /\ t = Append(<<>>, s[1]) /\ Len(t) = 1 /\ t[1] = s[1]
    BY <2>2
  <2>4. PICK n \in Nat : n = s[2]
    BY <2>1
  <2>5. PICK u : u = Append(t, n)
    OBVIOUS
  <2>6. u \in Seq(Nat) /\ Len(u) = Len(t) + 1 /\ u[1] = t[1] /\ u[Len(t) + 1] = n
    BY <2>3, <2>5, AppendProperties
  <2>7. u \in Seq(Nat) /\ Len(u) = 2 /\ u[1] = s[1] /\ u[2] = s[2]
    BY <2>3, <2>4, <2>6
  <2>8. \A i \in 1..Len(u) : u[i] = s[i]
    BY <2>7
  <2>9. u = s
    BY <2>7, <2>8, <1>4, SeqEqual
  <2> QED BY <2>3, <2>4, <2>5, <2>9
<1> QED BY <1>2, <1>3, <1>4

LEMMA BatchActions ==
  ASSUME BatchInv, batch = "there", NEW d \in Dispatcher,
         OpenBatch(d) \/ EnterBatch(d) \/ LeaveBatch(d) \/ HashMaster(d) \/ PrepDies(d)
  PROVE  BatchInv'
<1> USE DEF Working
<1>1. Copying(d) /\ Owning(d) /\ BatchType /\ BatchGood
  BY DEF BatchInv, BatchGood
<1>2. CASE OpenBatch(d)
  <2>1. CASE hash # Unhashed /\ master[".claude"] # <<>>
    <3>1. Goes(d, "own") /\ Frozen /\ hash = master
      BY <1>1, <1>2, <2>1 DEF OpenBatch, BatchGood
    <3> QED BY <1>1, <1>2, <3>1, GoesKeeps DEF OpenBatch, BatchGood, BatchType
  <2>2. CASE ~(hash # Unhashed /\ master[".claude"] # <<>>)
    <3>1. Goes(d, "waits") /\ prep[d].pc # "own"
      BY <1>1, <1>2, <2>2 DEF OpenBatch
    <3> QED BY <1>1, <1>2, <3>1, GoesKeeps DEF OpenBatch, BatchGood, BatchType
  <2> QED BY <2>1, <2>2
<1>3. CASE EnterBatch(d)
  BY <1>1, <1>3, GoesKeeps DEF EnterBatch, LockBatch, BatchGood, BatchType
<1>4. CASE LeaveBatch(d)
  <2>1. \A path \in Paths : master[path] # <<>>
    BY <1>1, <1>4, PathsAre DEF LeaveBatch, Copying, BatchType
  <2>2. ASSUME NEW e \in Dispatcher, prep[e].pc = "copies", prep[e].half PROVE FALSE
    <3>1. Copying(e) /\ e = d
      BY <1>1, <1>4, <2>2 DEF BatchGood, Copying, LeaveBatch
    <3> QED BY <3>1, <2>2, <1>4, PathsAre DEF Copying, LeaveBatch
  <2>3. Frozen
    BY <2>1, <2>2 DEF Frozen
  <2> QED BY <1>1, <1>4, <2>3, GoesKeeps DEF LeaveBatch, BatchGood, BatchType
<1>5. CASE HashMaster(d)
  <2>1. Frozen
    BY <1>1, <1>5 DEF HashMaster, Copying
  <2> QED BY <1>1, <1>5, <2>1, GoesKeeps DEF HashMaster, BatchGood, BatchType
<1>6. CASE PrepDies(d)
  BY <1>1, <1>6, GoesKeeps DEF PrepDies, BatchGood, BatchType
<1> QED BY <1>2, <1>3, <1>4, <1>5, <1>6

\* A piece more of the master.  Whoever copies while it is not whole is the one
\* who holds the lock, and nobody has got further.
LEMMA CopyMasterKeeps ==
  ASSUME BatchInv, NEW d \in Dispatcher, CopyMaster(d)
  PROVE  BatchInv'
<1>1. /\ BatchType /\ BatchGood /\ batch = "there" /\ batch' = "there" /\ prep[d].pc = "copies"
      /\ UNCHANGED <<version, hash, batchLock, overlay, torn>>
  BY DEF BatchInv, CopyMaster, Working
<1>2. prep[d].at \in 1..2 /\ At(d) \in Paths
  <2>1. prep[d].at \in 1..3 /\ prep[d].at <= 2
    BY <1>1, PathsAre DEF BatchType, CopyMaster
  <2>2. prep[d].at \in 1..2
    BY <2>1
  <2>3. prep[d].at = 1 \/ prep[d].at = 2
    BY <2>1
  <2> QED BY <2>2, <2>3, PathsAre DEF At
<1>3. /\ BatchType /\ BatchGood /\ Copying(d) /\ batch = "there" /\ batch' = "there"
      /\ prep[d].pc = "copies" /\ prep[d].at \in 1..2 /\ At(d) \in Paths
      /\ UNCHANGED <<version, hash, batchLock, overlay, torn>>
  BY <1>1, <1>2 DEF BatchGood
<1>4. /\ prep' \in [Dispatcher -> [pc : {"idle", "waits", "copies", "hashes", "own"}, at : 1..3, half : BOOLEAN]]
      /\ prep'[d].pc = "copies"
      /\ \A e \in Dispatcher \ {d} : prep'[e] = prep[e]
  <2>1. PICK whole \in BOOLEAN :
          prep' = [prep EXCEPT ![d].at = IF whole THEN @ + 1 ELSE @, ![d].half = ~whole]
    BY DEF CopyMaster, Advance, Skips
  <2>2. prep[d].at + 1 \in 1..3 /\ prep[d].at \in 1..3
    BY <1>3
  <2> QED BY <1>3, <2>1, <2>2 DEF BatchType
<1>5. ASSUME NEW e \in Dispatcher \ {d} PROVE prep[e].pc # "copies"
  BY <1>3, <1>5 DEF BatchGood, Copying
<1>6. CASE Skips(d, master, 2)
  <2>1. /\ master' = master /\ ~prep[d].half /\ ~prep'[d].half /\ prep'[d].at = prep[d].at + 1
        /\ master[At(d)] # <<>>
    BY <1>3, <1>6 DEF CopyMaster, CopyOf, Advance, Skips, BatchType
  <2>2. Frozen => Frozen'
    BY <1>4, <2>1 DEF Frozen
  <2>3. Copying(d)'
    BY <1>3, <1>4, <2>1, PathsAre DEF Copying, At
  <2>4. Owning(d)'
    BY <1>3, <1>4, <2>1, <2>2 DEF Owning, BatchGood, At
  <2>5. ASSUME NEW e \in Dispatcher \ {d} PROVE Copying(e)' /\ Owning(e)'
    <3>1. Copying(e) /\ Owning(e) /\ prep'[e] = prep[e]
      BY <1>3, <1>4, <2>5 DEF BatchGood
    <3>2. Copying(e)'
      BY <1>3, <1>5, <2>1, <2>2, <2>5, <3>1 DEF Copying
    <3>3. Owning(e)'
      BY <1>3, <2>1, <2>2, <3>1 DEF Owning, At, First
    <3> QED BY <3>2, <3>3
  <2>6. BatchGood'
    BY <1>3, <2>1, <2>2, <2>3, <2>4, <2>5 DEF BatchGood
  <2>7. BatchType'
    BY <1>3, <1>4, <2>1 DEF BatchType
  <2> QED BY <2>6, <2>7 DEF BatchInv
<1>7. CASE ~Skips(d, master, 2)
  <2>1. PICK n \in Nat, m \in Seq(Nat) : n = version[At(d)] /\ m = master[At(d)]
    BY <1>3 DEF BatchType
  <2>2. Len(m) = IF prep[d].half THEN 1 ELSE 0
    BY <1>3, <1>7, <2>1 DEF Skips, Copying
  <2>3. PICK p : p = Append(m, n) /\ p \in Seq(Nat) /\ p # <<>> /\ Len(p) = Len(m) + 1
    BY <2>1, AppendProperties
  <2>4. master' = [master EXCEPT ![At(d)] = p]
    BY <1>3, <1>7, <2>1, <2>3 DEF CopyMaster, CopyOf
  <2>5. /\ prep'[d].half = ~(Len(m) + 1 = 2)
        /\ prep'[d].at = IF Len(m) + 1 = 2 THEN prep[d].at + 1 ELSE prep[d].at
    BY <1>3, <1>7, <2>1 DEF CopyMaster, Advance, BatchType
  <2>6. ~Frozen
    BY <1>3, <1>7 DEF Skips, Frozen
  <2>7. /\ hash = Unhashed
        /\ \A e \in Dispatcher : prep[e].pc \notin {"hashes", "own"}
        /\ \A e \in Dispatcher, path \in Paths : overlay[e][path] = <<>>
    BY <1>3, <2>6 DEF BatchGood, Copying, Owning
  <2>8. /\ master' \in [Paths -> Seq(Nat)] /\ master'[At(d)] = p /\ Len(p) <= 2
        /\ \A path \in Paths \ {At(d)} : master'[path] = master[path]
    BY <1>3, <2>2, <2>3, <2>4 DEF BatchType
  <2>9. Copying(d)'
    <3>1. prep'[d].half => prep'[d].at = prep[d].at /\ Len(p) = 1
      <4>1. CASE prep[d].half
        <5>1. Len(m) + 1 = 2
          BY <2>2, <4>1
        <5> QED BY <2>5, <5>1
      <4>2. CASE ~prep[d].half
        <5>1. Len(m) = 0 /\ Len(p) = 1
          BY <2>2, <2>3, <4>2
        <5> QED BY <2>5, <5>1
      <4> QED BY <4>1, <4>2
    <3>2. \A i \in 1..2 : i < prep'[d].at => master'[Copied[i]] # <<>>
      <4>1. ASSUME NEW i \in 1..2, i < prep'[d].at PROVE master'[Copied[i]] # <<>>
        <5>1. CASE i < prep[d].at
          <6>1. Copied[i] # At(d) /\ Copied[i] \in Paths
            BY <1>3, <5>1, PathsAre DEF At
          <6>2. master[Copied[i]] # <<>>
            BY <1>3, <5>1 DEF Copying
          <6> QED BY <2>8, <6>1, <6>2
        <5>2. CASE ~(i < prep[d].at)
          BY <1>3, <2>3, <2>5, <2>8, <4>1, <5>2 DEF At, BatchType
        <5> QED BY <5>1, <5>2
      <4> QED BY <4>1
    <3>3. d \in batchLock'
      BY <1>3 DEF Copying
    <3>4. prep'[d].half => Len(master'[Copied[prep'[d].at]]) = 1
      BY <2>8, <3>1 DEF At
    <3> QED BY <1>3, <1>4, <3>1, <3>2, <3>3, <3>4 DEF Copying, At
  <2>10. Owning(d)'
    BY <1>3, <1>4, <2>7 DEF Owning
  <2>11. ASSUME NEW e \in Dispatcher \ {d} PROVE Copying(e)' /\ Owning(e)'
    <3>1. Copying(e) /\ Owning(e) /\ prep'[e] = prep[e] /\ prep[e].pc \notin {"copies", "hashes", "own"}
      BY <1>3, <1>4, <1>5, <2>7, <2>11 DEF BatchGood
    <3> QED BY <1>3, <2>7, <3>1 DEF Copying, Owning
  <2>12. \A path \in Paths : Len(master'[path]) <= 2
    BY <1>3, <2>8 DEF BatchGood
  <2>13. BatchGood'
    BY <1>3, <2>7, <2>9, <2>10, <2>11, <2>12 DEF BatchGood
  <2>14. BatchType'
    BY <1>3, <1>4, <2>8 DEF BatchType
  <2> QED BY <2>13, <2>14 DEF BatchInv
<1> QED BY <1>6, <1>7

\* A piece more of an overlay, of a master that no longer changes.
LEMMA CopyOwnKeeps ==
  ASSUME BatchInv, NEW d \in Dispatcher, CopyOwn(d)
  PROVE  BatchInv'
<1>1. /\ BatchType /\ BatchGood /\ batch = "there" /\ batch' = "there" /\ prep[d].pc = "own"
      /\ UNCHANGED <<version, master, hash, batchLock, torn>>
  BY DEF BatchInv, CopyOwn, Working
<1>2. Copying(d) /\ Owning(d) /\ Frozen /\ hash = master
  BY <1>1 DEF BatchGood, Copying
<1>3. prep[d].at \in 1..2 /\ At(d) \in Paths
  <2>1. prep[d].at \in 1..3 /\ prep[d].at <= 2
    BY <1>1, PathsAre DEF BatchType, CopyOwn
  <2>2. prep[d].at \in 1..2
    BY <2>1
  <2>3. prep[d].at = 1 \/ prep[d].at = 2
    BY <2>1
  <2> QED BY <2>2, <2>3, PathsAre DEF At
<1>4. /\ prep' \in [Dispatcher -> [pc : {"idle", "waits", "copies", "hashes", "own"}, at : 1..3, half : BOOLEAN]]
      /\ prep'[d].pc = "own"
      /\ \A e \in Dispatcher \ {d} : prep'[e] = prep[e]
  <2>1. PICK whole \in BOOLEAN :
          prep' = [prep EXCEPT ![d].at = IF whole THEN @ + 1 ELSE @, ![d].half = ~whole]
    BY DEF CopyOwn, Advance, Skips
  <2>2. prep[d].at + 1 \in 1..3 /\ prep[d].at \in 1..3
    BY <1>3
  <2> QED BY <1>1, <2>1, <2>2 DEF BatchType
<1>5. Frozen'
  <2>1. ASSUME NEW e \in Dispatcher PROVE ~(prep'[e].pc = "copies" /\ prep'[e].half)
    BY <1>2, <1>4 DEF Frozen
  <2> QED BY <1>1, <1>2, <2>1 DEF Frozen
<1>6. Copying(d)' <=> (prep'[d].half => prep'[d].at \in 1..2)
  BY <1>1, <1>2, <1>4, <1>5 DEF Copying
<1>7. PICK s \in Seq(Nat), o \in Seq(Nat) :
        /\ s = master[At(d)] /\ s # <<>> /\ Len(s) <= 2
        /\ o = overlay[d][At(d)]
  BY <1>1, <1>2, <1>3 DEF BatchType, BatchGood, Frozen
<1>8. /\ Len(s) \in 1..2
      /\ Len(s) = 1 => Append(<<>>, s[1]) = s
      /\ Len(s) = 2 => Append(Append(<<>>, s[1]), s[2]) = s
  BY <1>7, Pieces
\* What is to show of the overlay and of how far the dispatcher is.
<1>9. ASSUME NEW p \in Seq(Nat),
             overlay' = [overlay EXCEPT ![d] = [overlay[d] EXCEPT ![At(d)] = p]],
             prep'[d].half => prep'[d].at = prep[d].at /\ p = First(At(d)) /\ Len(s) = 2,
             ~prep'[d].half => prep'[d].at = prep[d].at + 1 /\ (d \in torn \/ p = s)
      PROVE  BatchInv'
  <2>1. /\ overlay' \in [Dispatcher -> [Paths -> Seq(Nat)]] /\ overlay'[d][At(d)] = p
        /\ \A path \in Paths \ {At(d)} : overlay'[d][path] = overlay[d][path]
        /\ \A e \in Dispatcher \ {d} : overlay'[e] = overlay[e]
    BY <1>1, <1>3, <1>9 DEF BatchType
  <2>2. Copying(d)'
    BY <1>3, <1>6, <1>9
  <2>3. d \notin torn => \A i \in 1..2 : i < prep'[d].at => overlay'[d][Copied[i]] = master[Copied[i]]
    <3>1. ASSUME NEW i \in 1..2, i < prep'[d].at, d \notin torn PROVE overlay'[d][Copied[i]] = master[Copied[i]]
      <4>1. CASE i < prep[d].at
        <5>1. Copied[i] # At(d) /\ Copied[i] \in Paths
          BY <1>3, <4>1, PathsAre DEF At
        <5>2. overlay[d][Copied[i]] = master[Copied[i]]
          BY <1>1, <1>2, <3>1, <4>1 DEF Owning
        <5> QED BY <2>1, <5>1, <5>2
      <4>2. CASE ~(i < prep[d].at)
        <5>1. ~prep'[d].half
          BY <1>3, <1>9, <3>1, <4>2
        <5>2. i = prep[d].at /\ p = s
          BY <1>3, <1>9, <3>1, <4>2, <5>1
        <5> QED BY <1>7, <2>1, <5>2 DEF At
      <4> QED BY <4>1, <4>2
    <3> QED BY <3>1
  <2>4. \A path \in Paths : d \notin torn =>
          \/ overlay'[d][path] \in {<<>>, master[path]}
          \/ prep'[d].half /\ Copied[prep'[d].at] = path
    <3>1. ASSUME NEW path \in Paths, d \notin torn, path # At(d) PROVE overlay'[d][path] \in {<<>>, master[path]}
      BY <1>2, <2>1, <3>1 DEF Owning
    <3>2. d \notin torn => p = s \/ (prep'[d].half /\ Copied[prep'[d].at] = At(d))
      BY <1>9 DEF At
    <3> QED BY <1>7, <2>1, <3>1, <3>2
  <2>5. prep'[d].half => overlay'[d][Copied[prep'[d].at]] = First(At(d)) /\ Copied[prep'[d].at] = At(d) /\ Len(s) = 2
    BY <1>9, <2>1 DEF At
  <2>6. Owning(d)'
    BY <1>1, <1>2, <1>4, <1>5, <1>7, <2>3, <2>4, <2>5 DEF Owning, At, First
  <2>7. ASSUME NEW e \in Dispatcher \ {d} PROVE Copying(e)' /\ Owning(e)'
    <3>1. Copying(e) /\ Owning(e) /\ prep'[e] = prep[e] /\ overlay'[e] = overlay[e]
      BY <1>1, <1>4, <2>1, <2>7 DEF BatchGood
    <3>2. Copying(e)'
      BY <1>1, <1>5, <3>1 DEF Copying, At
    <3>3. Owning(e)'
      BY <1>1, <1>5, <3>1 DEF Owning, At, First
    <3> QED BY <3>2, <3>3
  <2>8. BatchGood'
    BY <1>1, <1>2, <1>5, <2>2, <2>6, <2>7 DEF BatchGood
  <2>9. BatchType'
    BY <1>1, <1>4, <2>1 DEF BatchType
  <2> QED BY <2>8, <2>9 DEF BatchInv
<1>10. CASE Skips(d, overlay[d], Len(s))
  <2>1. ~prep[d].half /\ o # <<>>
    BY <1>7, <1>8, <1>10 DEF Skips
  <2>2. overlay' = [overlay EXCEPT ![d] = overlay[d]]
    BY <1>7, <1>10 DEF CopyOwn, CopyOf
  <2>3. overlay' = [overlay EXCEPT ![d] = [overlay[d] EXCEPT ![At(d)] = o]]
    BY <1>1, <1>3, <1>7, <2>2 DEF BatchType
  <2>4. ~prep'[d].half /\ prep'[d].at = prep[d].at + 1
    BY <1>1, <1>7, <1>10 DEF CopyOwn, Advance, BatchType
  <2>5. d \in torn \/ o = s
    BY <1>2, <1>3, <1>7, <2>1 DEF Owning
  <2> QED BY <1>7, <1>9, <2>3, <2>4, <2>5
<1>11. CASE ~Skips(d, overlay[d], Len(s))
  <2>1. overlay' = [overlay EXCEPT ![d] = [overlay[d] EXCEPT ![At(d)] = Append(o, s[Len(o) + 1])]]
    BY <1>1, <1>3, <1>7, <1>11 DEF CopyOwn, CopyOf, BatchType
  <2>2. /\ prep'[d].half = ~(Len(o) + 1 = Len(s))
        /\ prep'[d].at = IF Len(o) + 1 = Len(s) THEN prep[d].at + 1 ELSE prep[d].at
    BY <1>1, <1>7, <1>11 DEF CopyOwn, Advance, BatchType
  <2>3. CASE prep[d].half
    <3>1. o = Append(<<>>, s[1]) /\ Len(s) = 2
      BY <1>1, <1>2, <1>7, <2>3 DEF Owning, First
    <3>2. Len(o) = 1
      BY <1>7, <3>1
    <3>3. Append(o, s[Len(o) + 1]) = s
      BY <1>8, <3>1, <3>2
    <3>4. ~prep'[d].half /\ prep'[d].at = prep[d].at + 1
      <4>1. Len(o) + 1 = 2 /\ Len(s) = 2
        BY <3>1, <3>2
      <4>2. Len(o) + 1 = Len(s)
        BY <4>1
      <4> QED BY <2>2, <4>2
    <3>5. overlay' = [overlay EXCEPT ![d] = [overlay[d] EXCEPT ![At(d)] = s]]
      BY <2>1, <3>3
    <3> QED BY <1>9, <3>4, <3>5
  <2>4. CASE ~prep[d].half
    <3>1. o = <<>> /\ Len(o) = 0
      BY <1>7, <1>11, <2>4 DEF Skips
    <3>2. Append(o, s[Len(o) + 1]) = First(At(d)) /\ First(At(d)) = Append(<<>>, s[1])
      BY <1>7, <3>1 DEF First
    <3>3. Append(<<>>, s[1]) \in Seq(Nat)
      BY <1>7, <1>8
    <3>4. Len(s) = 1 \/ Len(s) = 2
      BY <1>8
    <3>5. PICK p \in Seq(Nat) : p = Append(o, s[Len(o) + 1]) /\ p = First(At(d)) /\ p = Append(<<>>, s[1])
      BY <3>2, <3>3
    <3>6. CASE Len(s) = 1
      <4>1. ~prep'[d].half /\ prep'[d].at = prep[d].at + 1 /\ p = s
        <5>1. Len(o) + 1 = Len(s)
          BY <3>1, <3>6
        <5>2. p = s
          BY <1>8, <3>5, <3>6
        <5> QED BY <2>2, <5>1, <5>2
      <4>2. overlay' = [overlay EXCEPT ![d] = [overlay[d] EXCEPT ![At(d)] = p]]
        BY <2>1, <3>5
      <4> QED BY <1>9, <4>1, <4>2
    <3>7. CASE Len(s) = 2
      <4>1. prep'[d].half /\ prep'[d].at = prep[d].at
        <5>1. ~(Len(o) + 1 = Len(s))
          BY <3>1, <3>7
        <5> QED BY <2>2, <5>1
      <4>2. overlay' = [overlay EXCEPT ![d] = [overlay[d] EXCEPT ![At(d)] = p]] /\ p = First(At(d))
        BY <2>1, <3>5
      <4> QED BY <1>9, <3>7, <4>1, <4>2
    <3> QED BY <3>4, <3>6, <3>7
  <2> QED BY <2>3, <2>4
<1> QED BY <1>10, <1>11

LEMMA BatchStep == BatchInv /\ [BatchNext]_batchVars => BatchInv'
<1> SUFFICES ASSUME BatchInv, [BatchNext]_batchVars PROVE BatchInv'
  OBVIOUS
<1>1. CASE UNCHANGED batchVars
  <2>1. BatchType' /\ (BatchGood => BatchGood')
    BY <1>1 DEF batchVars, BatchInv, BatchType, BatchGood, Copying, Owning, Frozen, At, First
  <2> QED BY <1>1, <2>1 DEF batchVars, BatchInv
<1>2. CASE RemoveBatch
  <2>1. EmptyTree \in [Paths -> Seq(Nat)]
    BY DEF EmptyTree
  <2>2. BatchType' /\ batch' # "there"
    BY <1>2, <2>1 DEF RemoveBatch, BatchInv, BatchType
  <2> QED BY <2>2 DEF BatchInv
<1>3. ASSUME NEW path \in Paths, HostWrites(path) PROVE BatchInv'
  <2>1. BatchType'
    BY <1>3 DEF HostWrites, BatchInv, BatchType
  <2>2. BatchGood => BatchGood'
    BY <1>3 DEF HostWrites, BatchGood, Copying, Owning, Frozen, At, First
  <2>3. batch' = batch
    BY <1>3 DEF HostWrites
  <2> QED BY <2>1, <2>2, <2>3 DEF BatchInv
<1>4. ASSUME NEW d \in Dispatcher,
             OpenBatch(d) \/ EnterBatch(d) \/ LeaveBatch(d) \/ HashMaster(d) \/ PrepDies(d)
      PROVE  BatchInv'
  <2>1. batch = "there"
    BY <1>4 DEF OpenBatch, EnterBatch, LeaveBatch, HashMaster, PrepDies, Working
  <2> QED BY <1>4, <2>1, BatchActions
<1> QED BY <1>1, <1>2, <1>3, <1>4, CopyMasterKeeps, CopyOwnKeeps DEF BatchNext

LEMMA OneSnapshot == BatchInv => SameSnapshot
<1> SUFFICES ASSUME BatchInv, NEW d \in Dispatcher, batch = "there", Ready(d), d \notin torn
             PROVE  overlay[d] = hash /\ hash = master
  BY DEF SameSnapshot
<1>1. BatchType /\ Copying(d) /\ Owning(d) /\ prep[d].pc = "own" /\ prep[d].at > 2
  BY PathsAre DEF BatchInv, BatchGood, Ready
<1>2. \A i \in 1..2 : overlay[d][Copied[i]] = master[Copied[i]]
  <2>1. prep[d].at \in 1..3
    BY <1>1 DEF BatchType
  <2>2. \A i \in 1..2 : i < prep[d].at
    BY <1>1, <2>1
  <2> QED BY <1>1, <2>2 DEF Owning
<1>3. \A path \in Paths : overlay[d][path] = master[path]
  BY <1>2, PathsAre
<1>4. overlay[d] = master
  BY <1>1, <1>3 DEF BatchType
<1> QED BY <1>1, <1>4 DEF Copying

\* The home of a running worker is there, however many pilots start and sweep
\* beside its own, and all workers of a batch start from one snapshot, whose hash
\* is on record, whoever of any number of dispatchers prepared it and however
\* often they died at it (worker_spawn.cleanup_stale_worker_homes;
\* sandbox._prepare_overlays_master).
THEOREM StateIsThere == HomesSpec /\ BatchSpec => []WorkersHaveState
<1>1. HomesSpec => []LiveHomesKept
  BY LiveHomes
<1>2. BatchSpec => []SameSnapshot
  BY BatchInitially, BatchStep, OneSnapshot, PTL DEF BatchSpec
<1>3. LiveHomesKept /\ SameSnapshot => WorkersHaveState
  BY DEF WorkersHaveState
<1> QED BY <1>1, <1>2, <1>3, PTL

-----------------------------------------------------------------------------
\* The budget ledger.  Who is in a transaction holds the write lock, so at most
\* one is; what it has selected is still what is stored; and the row it is about
\* to commit is the stored one plus its reservation, which fits.

USE LedgerAssumption

OneWriter == \A p \in Proc : InTransaction(p) <=> lock = p

Fresh == \A p \in Proc :
           pc[p] \in {"check", "commit"} => seen[p] = db[req[p].key].spent

TxIsCurrent == \A p \in Proc :
             pc[p] = "commit" =>
               /\ tx[p] = Row(db[req[p].key].spent + req[p].usd)
               /\ db[req[p].key].spent + req[p].usd <= Halt
               /\ req[p].usd \in Amount

Asked == \A p \in Proc :
           pc[p] \in {"begin", "select", "check"} => req[p].usd \in Amount

LedgerInv == TypeOK /\ OneWriter /\ Fresh /\ Asked /\ TxIsCurrent
        /\ UnderHalt /\ NothingLost /\ FlagsAgree

-----------------------------------------------------------------------------
\* A row is well-formed whatever its total.
LEMMA RowType ==
  ASSUME NEW usd \in Nat
  PROVE  /\ Row(usd) \in [spent : Nat, alarm : BOOLEAN, halt : BOOLEAN]
         /\ Row(usd).spent = usd
  BY DEF Row

LEMMA LedgerInitially == Init => LedgerInv
  BY RowType DEF Init, LedgerInv, TypeOK, OneWriter, InTransaction, Fresh, Asked, TxIsCurrent,
                 UnderHalt, NothingLost, FlagsAgree, Row

\* A commit, the only step that writes a row.
LEMMA CommitKeeps ==
  ASSUME LedgerInv, NEW p \in Proc, Commit(p)
  PROVE  LedgerInv'
  <1> USE DEF Commit
  <1> DEFINE k == req[p].key
  <1>0. k \in Key /\ req[p].usd \in Nat /\ db[k].spent \in Nat
    BY DEF LedgerInv, TypeOK
  <1>1. /\ tx[p] = Row(db[k].spent + req[p].usd)
        /\ db[k].spent + req[p].usd <= Halt
    BY DEF LedgerInv, TxIsCurrent
  <1>2. /\ tx[p].spent = db[k].spent + req[p].usd
        /\ tx[p] \in [spent : Nat, alarm : BOOLEAN, halt : BOOLEAN]
    BY <1>0, <1>1, RowType
  <1>3. lock = p /\ \A q \in Proc : InTransaction(q) => q = p
    BY DEF LedgerInv, OneWriter, InTransaction
  <1>4. \A q \in Proc : pc'[q] \in {"select", "check", "commit"} => FALSE
    BY <1>3 DEF LedgerInv, TypeOK, InTransaction
  <1>5. TypeOK'
    BY <1>0, <1>2 DEF LedgerInv, TypeOK
  <1>6. OneWriter' /\ Fresh' /\ TxIsCurrent'
    BY <1>4 DEF OneWriter, InTransaction, Fresh, TxIsCurrent
  <1>7. Asked'
    BY <1>4 DEF Asked, LedgerInv, TypeOK
  <1>8. \A j \in Key : db'[j] = IF j = k THEN tx[p] ELSE db[j]
    BY DEF LedgerInv, TypeOK
  <1>9. UnderHalt'
    BY <1>1, <1>2, <1>8 DEF UnderHalt, LedgerInv
  <1>10. NothingLost'
    BY <1>0, <1>2, <1>8 DEF NothingLost, LedgerInv, TypeOK
  <1>11. FlagsAgree'
    BY <1>1, <1>2, <1>8 DEF FlagsAgree, LedgerInv
  <1>12. QED
    BY <1>5, <1>6, <1>7, <1>9, <1>10, <1>11 DEF LedgerInv

\* Every other step of a caller leaves the rows alone.
LEMMA CallKeeps ==
  ASSUME LedgerInv, NEW p \in Proc,
         Request(p) \/ Begin(p) \/ Busy(p) \/ Select(p) \/ Refuse(p) \/ Upsert(p)
         \/ Fail(p) \/ Crash(p) \/ Return(p)
  PROVE  LedgerInv'
  <1> USE DEF LedgerInv, TypeOK
  <1>1. UNCHANGED <<db, granted>>
    BY DEF Request, Begin, Busy, Select, Refuse, Upsert, Fail, Crash, Return
  <1>2. UnderHalt' /\ NothingLost' /\ FlagsAgree'
    BY <1>1 DEF UnderHalt, NothingLost, FlagsAgree
  <1>3. CASE Request(p)
    <2>1. TypeOK'
      <3>1. req' \in [Proc -> [key : Key, usd : Nat]]
        BY <1>3, LedgerAssumption DEF Request
      <3>2. pc' \in [Proc -> {"idle", "begin", "select", "check", "commit", "allowed",
                              "denied", "raised"}]
        BY <1>3 DEF Request
      <3>3. QED
        BY <1>3, <3>1, <3>2 DEF Request
    <2>2. OneWriter' /\ Fresh' /\ TxIsCurrent'
      BY <1>3 DEF Request, OneWriter, InTransaction, Fresh, TxIsCurrent
    <2>3. Asked'
      BY <1>3 DEF Request, Asked
    <2>4. QED
      BY <1>2, <2>1, <2>2, <2>3
  <1>4. CASE Begin(p)
    BY <1>2, <1>4 DEF Begin, OneWriter, InTransaction, Fresh, Asked, TxIsCurrent
  <1>5. CASE Busy(p) \/ Return(p)
    BY <1>2, <1>5 DEF Busy, Return, OneWriter, InTransaction, Fresh, Asked, TxIsCurrent
  <1>6. CASE Select(p)
    BY <1>2, <1>6 DEF Select, OneWriter, InTransaction, Fresh, Asked, TxIsCurrent
  <1>7. CASE Refuse(p) \/ Fail(p) \/ Crash(p)
    <2>1. OneWriter'
      BY <1>7 DEF Refuse, Fail, Crash, OneWriter, InTransaction
    <2>2. Fresh' /\ Asked' /\ TxIsCurrent'
      BY <1>7 DEF Refuse, Fail, Crash, Fresh, Asked, TxIsCurrent
    <2>3. TypeOK'
      BY <1>7 DEF Refuse, Fail, Crash
    <2>4. QED
      BY <1>2, <2>1, <2>2, <2>3
  <1>8. CASE Upsert(p)
    <2> USE <1>8 DEF Upsert, Fits
    <2>1. /\ seen[p] = db[req[p].key].spent /\ req[p].usd \in Amount
          /\ db[req[p].key].spent + req[p].usd \in Nat
      BY DEF Fresh, Asked
    <2>2. Row(db[req[p].key].spent + req[p].usd)
            \in [spent : Nat, alarm : BOOLEAN, halt : BOOLEAN]
      BY <2>1, RowType
    <2>3. TypeOK'
      BY <2>2
    <2>4. OneWriter' /\ Fresh' /\ Asked'
      BY DEF OneWriter, InTransaction, Fresh, Asked
    <2>5. TxIsCurrent'
      BY <2>1 DEF TxIsCurrent, Row
    <2>6. QED
      BY <1>2, <2>3, <2>4, <2>5
  <1>9. QED
    BY <1>3, <1>4, <1>5, <1>6, <1>7, <1>8

LEMMA LedgerStep == LedgerInv /\ [Next]_vars => LedgerInv'
  <1> SUFFICES ASSUME LedgerInv, [Next]_vars PROVE LedgerInv'
    OBVIOUS
  <1>1. CASE UNCHANGED vars
    BY <1>1 DEF vars, LedgerInv, TypeOK, OneWriter, InTransaction, Fresh, Asked, TxIsCurrent,
                UnderHalt, NothingLost, FlagsAgree
  <1>2. ASSUME NEW p \in Proc, Request(p) \/ Statement(p) \/ Crash(p)
        PROVE  LedgerInv'
    BY <1>2, CommitKeeps, CallKeeps DEF Statement
  <1>3. QED
    BY <1>1, <1>2 DEF Next, Finished

THEOREM LedgerAlways == Spec => []LedgerInv
  BY LedgerInitially, LedgerStep, PTL DEF Spec

-----------------------------------------------------------------------------
\* The type invariant.
THEOREM LedgerTyped == Spec => []TypeOK
  <1>1. LedgerInv => TypeOK
    BY DEF LedgerInv
  <1>2. QED
    BY LedgerAlways, <1>1, PTL

\* No row of budget_tracker passes its halt threshold, however many
\* orchestrators race.
THEOREM NeverPastHalt == Spec => []UnderHalt
  <1>1. LedgerInv => UnderHalt
    BY DEF LedgerInv
  <1>2. QED
    BY LedgerAlways, <1>1, PTL

\* No reservation is lost, none of an aborted transaction stays.
THEOREM ReservationsAddUp == Spec => []NothingLost
  <1>1. LedgerInv => NothingLost
    BY DEF LedgerInv
  <1>2. QED
    BY LedgerAlways, <1>1, PTL

\* The breached flags agree with the total.
THEOREM FlagsAreTotals == Spec => []FlagsAgree
  <1>1. LedgerInv => FlagsAgree
    BY DEF LedgerInv
  <1>2. QED
    BY LedgerAlways, <1>1, PTL

-----------------------------------------------------------------------------
\* A commit is the abstract reservation; every other step is a stutter.
LEMMA ReservesOrStutters == LedgerInv /\ [Next]_vars => [Abstract!Next]_[k \in Key |-> db[k].spent]
  <1> SUFFICES ASSUME LedgerInv, [Next]_vars
               PROVE  [Abstract!Next]_[k \in Key |-> db[k].spent]
    OBVIOUS
  <1>1. CASE UNCHANGED db
    BY <1>1
  <1>2. ASSUME NEW p \in Proc, Commit(p)
        PROVE  Abstract!Next
    <2> DEFINE k == req[p].key
    <2>1. k \in Key /\ req[p].usd \in Amount /\ db[k].spent + req[p].usd <= Halt
      BY <1>2 DEF Commit, LedgerInv, TypeOK, TxIsCurrent
    <2>2. tx[p].spent = db[k].spent + req[p].usd
      BY <1>2 DEF Commit, LedgerInv, TypeOK, TxIsCurrent, Row
    <2>3. \A j \in Key : db'[j].spent = IF j = k THEN db[k].spent + req[p].usd
                                        ELSE db[j].spent
      BY <1>2, <2>2 DEF Commit, LedgerInv, TypeOK
    <2>4. QED
      BY <2>1, <2>3 DEF Abstract!Next, Abstract!Reserve
  <1>3. CASE \E p \in Proc : Commit(p)
    BY <1>2, <1>3
  <1>4. CASE ~(\E p \in Proc : Commit(p)) /\ Next
    BY <1>1, <1>4 DEF Next, Statement, Request, Begin, Busy, Select, Refuse, Upsert,
                      Fail, Crash, Return, Finished, vars
  <1>5. QED
    BY <1>1, <1>3, <1>4 DEF vars

\* Racing, failing and dying transactions implement the atomic ledger.
THEOREM ImplementsLedger == Spec => Implements
  <1>1. Init => Abstract!Init
    BY DEF Init, Abstract!Init, Row
  <1>2. QED
    BY <1>1, ReservesOrStutters, LedgerAlways, PTL DEF Spec, Implements, Abstract!Spec
-----------------------------------------------------------------------------
\* The workflows beside the stories.
ArtifactType == [there : BOOLEAN, front : BOOLEAN, seed : 0..1, own : Nat]

FlowsInv ==
  /\ artifact \in [Flow -> ArtifactType]
  /\ seeding \in Flow \cup {"none"}
  /\ \A c \in FlowChild : kid[c].at = "running" => kid[c].flow \in Flow
  /\ kid \in [FlowChild -> [flow : Flow \cup {"none"}, at : {"none", "running", "gone"}]]
  /\ boundary.complete => boundary.stories = "done" /\ boundary.retro.front /\ boundary.retro.own > 0

LEMMA ArtifactsAre ==
  /\ NoArtifact \in ArtifactType
  /\ \A f \in Flow : SeedOf(f) \in ArtifactType /\ Texts(f) \subseteq ArtifactType
<1>1. NoArtifact \in ArtifactType
  BY DEF NoArtifact, ArtifactType
<1>2. \A front0 \in BOOLEAN : \A seed0 \in 0..1 : \A own0 \in Nat : Artifact(front0, seed0, own0) \in ArtifactType
  BY DEF Artifact, ArtifactType
<1>3. \A n \in 0..MaxText : n \in Nat
  BY FlowsAssumption
<1>4. 0 \in 0..1 /\ 1 \in 0..1
  OBVIOUS
<1>5. Artifact(TRUE, 1, 0) \in ArtifactType /\ Artifact(FALSE, 0, 0) \in ArtifactType
      /\ \A front0 \in BOOLEAN : \A n \in 0..MaxText : Artifact(front0, 0, n) \in ArtifactType
  BY <1>2, <1>3, <1>4
<1>6. \A f \in Flow : SeedOf(f) \in ArtifactType
  BY <1>5 DEF SeedOf
<1>7. \A f \in Flow : Texts(f) \subseteq ArtifactType
  <2> SUFFICES ASSUME NEW f \in Flow, NEW r \in Texts(f) PROVE r \in ArtifactType
    OBVIOUS
  <2>1. CASE f = "retro"
    <3>1. r \in {Artifact(front0, 0, n) : front0 \in BOOLEAN, n \in 0..MaxText}
      BY <2>1 DEF Texts
    <3>2. PICK front0 \in BOOLEAN, n \in 0..MaxText : r = Artifact(front0, 0, n)
      BY <3>1
    <3> QED BY <1>5, <3>2
  <2>2. CASE f # "retro"
    <3>1. r = Artifact(FALSE, 0, 0)
      BY <2>2 DEF Texts
    <3> QED BY <1>5, <3>1
  <2> QED BY <2>1, <2>2
<1> QED BY <1>1, <1>6, <1>7

LEMMA OneMore ==
  ASSUME NEW r \in ArtifactType
  PROVE  [r EXCEPT !.own = @ + 1] \in ArtifactType /\ [r EXCEPT !.own = @ + 1, !.there = TRUE] \in ArtifactType
<1>1. r.own \in Nat /\ r.own + 1 \in Nat
  BY DEF ArtifactType
<1>2. PICK n \in Nat : n = r.own + 1
  BY <1>1
<1>3. [r EXCEPT !.own = n] \in ArtifactType /\ [r EXCEPT !.own = n, !.there = TRUE] \in ArtifactType
  BY <1>2 DEF ArtifactType
<1> QED BY <1>2, <1>3

\* A seed alone is not enough.
LEMMA DoneHasOwn == ASSUME NEW r \in ArtifactType, IsRetroDone(r) PROVE r.front /\ r.own > 0
<1>1. r.seed \in 0..1 /\ r.own \in Nat /\ r.seed + r.own >= Enough /\ r.front
  BY DEF ArtifactType, IsRetroDone
<1> QED BY <1>1, FlowsAssumption

LEMMA FlowsStep == FlowsInv /\ [FlowsNext]_flowVars => FlowsInv'
<1> SUFFICES ASSUME FlowsInv, [FlowsNext]_flowVars PROVE FlowsInv'
  OBVIOUS
<1> USE DEF FlowsInv
<1>1. CASE Seeded
  <2>1. seeding \in Flow /\ artifact' = [artifact EXCEPT ![seeding] = SeedOf(seeding)]
        /\ seeding' = "none" /\ UNCHANGED <<kid, boundary>>
    BY <1>1 DEF Seeded
  <2>2. artifact' \in [Flow -> ArtifactType]
    BY <2>1, ArtifactsAre
  <2> QED BY <2>1, <2>2
<1>2. CASE LoopEnds
  <2>1. PICK killed : kid' = [c \in FlowChild |-> IF c \in killed THEN [kid[c] EXCEPT !.at = "gone"] ELSE kid[c]]
    BY <1>2 DEF LoopEnds
  <2>2. UNCHANGED <<artifact, seeding, boundary>>
    BY <1>2 DEF LoopEnds
  <2>3. \A c \in FlowChild : kid'[c] \in [flow : Flow \cup {"none"}, at : {"none", "running", "gone"}]
                             /\ (kid'[c].at = "running" => kid'[c] = kid[c])
    BY <2>1
  <2>4. kid' \in [FlowChild -> [flow : Flow \cup {"none"}, at : {"none", "running", "gone"}]]
    BY <2>1, <2>3
  <2> QED BY <2>2, <2>3, <2>4
<1>3. CASE WriteMemory
  <2>1. "retro" \in Flow /\ artifact["retro"] \in ArtifactType
    BY DEF Flow
  <2>2. PICK r \in ArtifactType : artifact' = [artifact EXCEPT !["retro"] = r]
    <3>1. CASE artifact' = [artifact EXCEPT !["retro"].own = @ + 1, !["retro"].there = TRUE]
      <4>1. PICK r : r = [artifact["retro"] EXCEPT !.own = @ + 1, !.there = TRUE]
        OBVIOUS
      <4>2. r \in ArtifactType
        BY <2>1, <4>1, OneMore
      <4>3. artifact' = [artifact EXCEPT !["retro"] = r]
        BY <2>1, <3>1, <4>1
      <4> QED BY <4>2, <4>3
    <3>2. CASE \E text \in Texts("retro") : artifact' = [artifact EXCEPT !["retro"] = text]
      BY <2>1, <3>2, ArtifactsAre
    <3> QED BY <1>3, <3>1, <3>2 DEF WriteMemory
  <2>3. artifact' \in [Flow -> ArtifactType]
    BY <2>2
  <2> QED BY <1>3, <2>3 DEF WriteMemory
<1>4. CASE StoriesGo
  BY <1>4 DEF StoriesGo
<1>5. CASE DetectBoundary
  <2>1. artifact["retro"] \in ArtifactType
    BY DEF Flow
  <2>2. boundary' = [complete |-> stories = "done" /\ IsRetroDone(artifact["retro"]),
                     stories |-> stories, retro |-> artifact["retro"]]
        /\ UNCHANGED <<artifact, seeding, kid>>
    BY <1>5 DEF DetectBoundary
  <2>3. boundary'.complete => boundary'.stories = "done" /\ IsRetroDone(boundary'.retro)
        /\ boundary'.retro \in ArtifactType
    BY <2>1, <2>2
  <2> QED BY <2>2, <2>3, DoneHasOwn
<1>6. ASSUME NEW f \in Flow, Seed(f) PROVE FlowsInv'
  BY <1>6 DEF Seed
<1>7. ASSUME NEW f \in Flow, NEW c \in FlowChild, Spawn(f, c) PROVE FlowsInv'
  BY <1>7 DEF Spawn
<1>8. ASSUME NEW c \in FlowChild, ChildWrites(c) PROVE FlowsInv'
  <2> PICK f : f = kid[c].flow
    OBVIOUS
  <2>1. f \in Flow /\ artifact[f] \in ArtifactType /\ UNCHANGED <<seeding, kid, boundary>>
    BY <1>8 DEF ChildWrites
  <2>2. PICK r \in ArtifactType : artifact' = [artifact EXCEPT ![f] = r]
    <3>1. CASE artifact' = [artifact EXCEPT ![f].own = @ + 1]
      <4>1. PICK r : r = [artifact[f] EXCEPT !.own = @ + 1]
        OBVIOUS
      <4>2. r \in ArtifactType
        BY <2>1, <4>1, OneMore
      <4>3. artifact' = [artifact EXCEPT ![f] = r]
        BY <2>1, <3>1, <4>1
      <4> QED BY <4>2, <4>3
    <3>2. CASE \E text \in Texts(f) : artifact' = [artifact EXCEPT ![f] = text]
      BY <2>1, <3>2, ArtifactsAre
    <3> QED BY <1>8, <3>1, <3>2 DEF ChildWrites
  <2>3. artifact' \in [Flow -> ArtifactType]
    BY <2>2
  <2> QED BY <2>1, <2>3
<1>9. ASSUME NEW c \in FlowChild, ChildEnds(c) \/ Overtime(c) PROVE FlowsInv'
  BY <1>9 DEF ChildEnds, Overtime
<1>10. CASE UNCHANGED flowVars
  BY <1>10 DEF flowVars
<1> QED BY <1>1, <1>2, <1>3, <1>4, <1>5, <1>6, <1>7, <1>8, <1>9, <1>10 DEF FlowsNext

\* Whatever writes the retrospective, and however often: a wave is complete only
\* with stories that are done and a text that is not the seed's alone.
THEOREM SeedNeverCounts == FlowsSpec => []SeedIsNoRetro
<1>1. ASSUME FlowsInit PROVE FlowsInv
  <2>1. artifact \in [Flow -> ArtifactType]
    BY <1>1, ArtifactsAre DEF FlowsInit
  <2>2. boundary.complete = FALSE
    BY <1>1 DEF FlowsInit
  <2>3. seeding = "none" /\ kid = [c \in FlowChild |-> [flow |-> "none", at |-> "none"]]
    BY <1>1 DEF FlowsInit
  <2> QED BY <2>1, <2>2, <2>3 DEF FlowsInv
<1>2. FlowsInv => SeedIsNoRetro
  BY DEF FlowsInv, SeedIsNoRetro
<1> QED BY <1>1, <1>2, FlowsStep, PTL DEF FlowsSpec

-----------------------------------------------------------------------------
\* The mock pilot.
Did == {mocked[k] : k \in 1..Len(mocked)}

MockInv ==
  /\ mocked \in Seq(ToSet(Wave)) /\ left \subseteq DOMAIN Wave
  /\ spentDay \in Nat /\ mockAt \in {"round", "batch", "over"}
  /\ marked \subseteq doneAtFirst \cup (Did \ Misspelt) /\ doneAtFirst \subseteq marked
  /\ mockAt # "batch" => marked = doneAtFirst \cup (Did \ Misspelt) /\ left = {}
  /\ \A i \in left : Wave[i] \notin marked /\ Wave[i] \notin Did /\ Needs[Wave[i]] \subseteq marked
  /\ \A i, j \in 1..Len(mocked) : mocked[i] = mocked[j] => i = j
  /\ Did \cap doneAtFirst = {}
  /\ \A i \in 1..Len(mocked) : Needs[mocked[i]] \subseteq doneAtFirst \cup {mocked[j] : j \in 1..(i - 1)}
  /\ spentDay < dayLimit \/ spentDay = 0
  /\ mockAt = "over" => waveTold = mocked

LEMMA DidIs == ASSUME NEW S, NEW t \in Seq(S) PROVE ToSet(t) = {t[k] : k \in 1..Len(t)}
BY LenProperties DEF ToSet

\* A story is done: it is in no place that is still left.
LEMMA MockStoryKeeps == MockInv /\ MockStory => MockInv'
<1> SUFFICES ASSUME MockInv, MockStory PROVE MockInv'
  OBVIOUS
<1>1. PICK i \in left :
        /\ left' = left \ {i}
        /\ mocked' = IF Wave[i] \in Refusing THEN mocked ELSE Append(mocked, Wave[i])
  BY DEF MockStory
<1>2. /\ mockAt = "batch" /\ spentDay' = spentDay + 1 /\ spentDay' < dayLimit
      /\ UNCHANGED <<doneAtFirst, marked, dayLimit, mockAt, waveTold>>
  BY DEF MockStory
<1>3. /\ mocked \in Seq(ToSet(Wave)) /\ left \subseteq DOMAIN Wave /\ spentDay \in Nat
      /\ marked \subseteq doneAtFirst \cup (Did \ Misspelt) /\ doneAtFirst \subseteq marked
      /\ \A k \in left : Wave[k] \notin marked /\ Wave[k] \notin Did /\ Needs[Wave[k]] \subseteq marked
      /\ \A k, j \in 1..Len(mocked) : mocked[k] = mocked[j] => k = j
      /\ Did \cap doneAtFirst = {}
      /\ \A k \in 1..Len(mocked) : Needs[mocked[k]] \subseteq doneAtFirst \cup {mocked[j] : j \in 1..(k - 1)}
  BY DEF MockInv
<1>4. spentDay' \in Nat /\ left' \subseteq DOMAIN Wave
  BY <1>1, <1>2, <1>3
<1>5. CASE Wave[i] \in Refusing
  BY <1>1, <1>2, <1>4, <1>5 DEF MockInv, Did
<1>6. CASE Wave[i] \notin Refusing
  <2>1. PICK m, n, x : m = mocked' /\ n = Len(mocked) /\ x = Wave[i]
    OBVIOUS
  <2>2. x \in ToSet(Wave) /\ x \notin Did /\ x \notin marked /\ Needs[x] \subseteq marked
    BY <1>3, <2>1 DEF ToSet
  <2>3. m = Append(mocked, x)
    BY <1>1, <1>6, <2>1
  <2>4. /\ m \in Seq(ToSet(Wave)) /\ Len(m) = n + 1 /\ n \in Nat /\ m[n + 1] = x
        /\ \A k \in 1..n : m[k] = mocked[k]
    BY <1>3, <2>1, <2>2, <2>3, AppendProperties, LenProperties
  <2>5. \A k : k \in 1..Len(m) <=> k \in 1..n \/ k = n + 1
    BY <2>4
  <2>6. \A y : y \in Did' <=> \E k \in 1..Len(m) : y = m[k]
    BY <2>1 DEF Did
  <2>7. \A y : y \in Did <=> \E k \in 1..n : y = mocked[k]
    BY <2>1 DEF Did
  <2>8. \A y : y \in Did' <=> y \in Did \/ y = x
    BY <2>4, <2>5, <2>6, <2>7
  <2>9. \A k \in left' : Wave[k] # x
    BY <1>1, <1>3, <2>1, MockAssumption DEF IsInjective
  <2>10. \A k \in left' : Wave[k] \notin marked' /\ Wave[k] \notin Did' /\ Needs[Wave[k]] \subseteq marked'
    BY <1>1, <1>2, <1>3, <2>8, <2>9
  <2>11. \A k, j \in 1..Len(m) : m[k] = m[j] => k = j
    <3> SUFFICES ASSUME NEW k \in 1..Len(m), NEW j \in 1..Len(m), m[k] = m[j] PROVE k = j
      OBVIOUS
    <3>1. CASE k \in 1..n /\ j \in 1..n
      BY <1>3, <2>1, <2>4, <3>1
    <3>2. CASE k \in 1..n /\ j = n + 1
      BY <2>2, <2>4, <2>7, <3>2
    <3>3. CASE k = n + 1 /\ j \in 1..n
      BY <2>2, <2>4, <2>7, <3>3
    <3> QED BY <2>5, <3>1, <3>2, <3>3
  <2>12. Did' \cap doneAtFirst' = {}
    BY <1>2, <1>3, <2>2, <2>8
  <2>13. ASSUME NEW k \in 1..Len(m)
         PROVE  Needs[m[k]] \subseteq doneAtFirst \cup {m[j] : j \in 1..(k - 1)}
    <3>1. CASE k \in 1..n
      <4>1. \A j \in 1..(k - 1) : m[j] = mocked[j]
        BY <2>4, <3>1
      <4>2. {m[j] : j \in 1..(k - 1)} = {mocked[j] : j \in 1..(k - 1)}
        BY <4>1
      <4> QED BY <1>3, <2>1, <2>4, <3>1, <4>2
    <3>2. CASE k = n + 1
      <4>1. 1..(k - 1) = 1..n
        BY <2>4, <3>2
      <4>2. \A y \in Did : \E j \in 1..(k - 1) : y = m[j]
        BY <2>4, <2>7, <4>1
      <4>3. Needs[x] \subseteq doneAtFirst \cup Did
        BY <1>3, <2>2
      <4> QED BY <2>4, <3>2, <4>2, <4>3
    <3> QED BY <2>5, <3>1, <3>2
  <2>14. marked' \subseteq doneAtFirst' \cup (Did' \ Misspelt)
    BY <1>2, <1>3, <2>8
  <2> QED BY <1>2, <1>3, <1>4, <2>1, <2>4, <2>10, <2>11, <2>12, <2>13, <2>14 DEF MockInv
<1> QED BY <1>5, <1>6

LEMMA MockStep == MockInv /\ [MockNext]_mockVars => MockInv'
<1> SUFFICES ASSUME MockInv, [MockNext]_mockVars PROVE MockInv'
  OBVIOUS
<1>1. ToSet(mocked) = Did
  BY DidIs DEF MockInv, Did
<1>2. CASE StartRound
  <2>1. left' \subseteq MockReady
    BY <1>2 DEF StartRound, Cut
  <2>2. \A i \in MockReady : i \in DOMAIN Wave /\ Wave[i] \notin marked /\ Needs[Wave[i]] \subseteq marked
                             /\ Wave[i] \notin Did
    BY <1>1 DEF MockReady, Cut
  <2>3. mockAt' = "batch" /\ UNCHANGED <<doneAtFirst, marked, mocked, spentDay, dayLimit, waveTold>>
    BY <1>2 DEF StartRound
  <2> QED BY <2>1, <2>2, <2>3 DEF MockInv, Did
<1>3. CASE HaltDay
  BY <1>3 DEF HaltDay, MockInv, Did
<1>4. CASE MockStory
  BY <1>4, MockStoryKeeps
<1>5. CASE EndRound
  <2>1. /\ left = {} /\ left' = left /\ mockAt' = "round" /\ marked' = marked \cup (Did \ Misspelt)
        /\ UNCHANGED <<doneAtFirst, mocked, spentDay, dayLimit, waveTold>>
    BY <1>1, <1>5 DEF EndRound
  <2>2. marked' = doneAtFirst \cup (Did \ Misspelt)
    BY <2>1 DEF MockInv
  <2>3. Did' = Did
    BY <2>1 DEF Did
  <2> QED BY <2>1, <2>2, <2>3 DEF MockInv
<1>6. CASE Boundary
  BY <1>6 DEF Boundary, MockInv, Did
<1>7. CASE UNCHANGED mockVars
  BY <1>7 DEF mockVars, MockInv, Did
<1> QED BY <1>2, <1>3, <1>4, <1>5, <1>6, <1>7 DEF MockNext

\* For any wave, limits and statuses: what the boundary of a mock wave reports.
THEOREM MockWaveIsTold == MockSpec => []MockWave
<1>1. ASSUME MockInit PROVE MockInv
  <2>1. mocked = <<>> /\ Len(mocked) = 0 /\ mocked \in Seq(ToSet(Wave)) /\ 1..Len(mocked) = {}
    BY <1>1, EmptySeq DEF MockInit
  <2>2. Did = {}
    BY <2>1 DEF Did
  <2> QED BY <1>1, <2>1, <2>2 DEF MockInit, MockInv
<1>2. ASSUME MockInv PROVE MockWave
  <2> SUFFICES ASSUME mockAt = "over"
               PROVE  /\ marked = doneAtFirst \cup (ToSet(waveTold) \ Misspelt)
                      /\ IsInjective(waveTold) /\ ToSet(waveTold) \cap doneAtFirst = {}
                      /\ \A i \in DOMAIN waveTold :
                           Needs[waveTold[i]] \subseteq doneAtFirst \cup {waveTold[j] : j \in 1..(i - 1)}
                      /\ spentDay < dayLimit \/ spentDay = 0
    BY DEF MockWave
  <2>1. waveTold = mocked /\ DOMAIN mocked = 1..Len(mocked) /\ ToSet(mocked) = Did
    BY <1>2, DidIs, LenProperties DEF MockInv, Did
  <2> QED BY <1>2, <2>1 DEF MockInv, IsInjective
<1> QED BY <1>1, <1>2, MockStep, PTL DEF MockSpec
-----------------------------------------------------------------------------
\* A story split into sub-stories.  What a commit may hold, whether one of a
\* list of commits holds it, and whether those of the first k are all there.
Work == Sub \cup {Parent, "prior", "legacy"}
InSome(b, x) == \E j \in 1..Len(b) : x \in b[j]
Credited(k) == \A i \in 1..k : i > prior => InSome(branch, plan[i].id)

SubType ==
  /\ plan \in Seq(Answer) /\ done \in 0..Len(plan) /\ moved \in BOOLEAN
  /\ branch \in Seq(SUBSET Work) /\ last \in Nat /\ prior \in 0..1 /\ staged \subseteq Work

SubInv ==
  /\ SubType
  /\ phase \in {"evaluate", "decompose"} => done = 0 /\ Len(branch) = prior /\ last = 0 /\ ~moved
  /\ phase \in {"spawn", "running", "exited", "squash"} => Len(branch) >= prior /\ Len(plan) > 0
  /\ phase = "spawn" => /\ done < Len(plan) /\ Credited(done) /\ ~moved
                        /\ done + 1 > prior => last = Len(branch)
  /\ phase \in {"running", "exited"} =>
       /\ done > 0 /\ Credited(done - 1)
       /\ done > prior /\ (moved \/ Len(branch) > last) => InSome(branch, Me)
  /\ phase = "squash" => Credited(Len(plan))
  /\ phase = "soft" => \A i \in 1..Len(plan) : i > prior => plan[i].id \in staged
  /\ SplitIsWhole

\* A commit more, or more work in one of them, takes nothing away.
LEMMA MoreCommits ==
  ASSUME NEW b \in Seq(SUBSET Work), NEW b2 \in Seq(SUBSET Work), NEW x, Len(b) <= Len(b2),
         \A j \in 1..Len(b) : b[j] \subseteq b2[j], InSome(b, x)
  PROVE  InSome(b2, x)
<1>1. Len(b) \in Nat /\ Len(b2) \in Nat
  BY LenProperties
<1>2. PICK j \in 1..Len(b) : x \in b[j]
  BY DEF InSome
<1>3. j \in 1..Len(b2)
  BY <1>1
<1> QED BY <1>2, <1>3 DEF InSome

\* The two ways a sub-story's work gets into the history.
LEMMA CommitOne ==
  ASSUME NEW b \in Seq(SUBSET Work), NEW me \in Work
  PROVE  /\ Append(b, {me}) \in Seq(SUBSET Work) /\ Len(Append(b, {me})) = Len(b) + 1
         /\ InSome(Append(b, {me}), me)
         /\ \A x : InSome(b, x) => InSome(Append(b, {me}), x)
<1>1. {me} \in SUBSET Work
  OBVIOUS
<1>2. PICK c : c = Append(b, {me})
  OBVIOUS
<1>3. c \in Seq(SUBSET Work) /\ Len(c) = Len(b) + 1 /\ c[Len(b) + 1] = {me}
      /\ \A j \in 1..Len(b) : c[j] = b[j]
  BY <1>1, <1>2, AppendProperties
<1>4. Len(b) \in Nat /\ Len(c) \in Nat
  BY <1>3, LenProperties
<1>5. \A x : InSome(b, x) => InSome(c, x)
  BY <1>3, <1>4, MoreCommits
<1>6. InSome(c, me)
  BY <1>3, <1>4 DEF InSome
<1> QED BY <1>2, <1>3, <1>5, <1>6

LEMMA AmendOne ==
  ASSUME NEW b \in Seq(SUBSET Work), NEW me \in Work, b # <<>>
  PROVE  LET c == [b EXCEPT ![Len(b)] = @ \cup {me}]
         IN  /\ c \in Seq(SUBSET Work) /\ Len(c) = Len(b)
             /\ InSome(c, me)
             /\ \A x : InSome(b, x) => InSome(c, x)
<1>1. Len(b) \in Nat \ {0} /\ DOMAIN b = 1..Len(b)
  BY EmptySeq, LenProperties
<1>2. PICK n : n = Len(b)
  OBVIOUS
<1>3. n \in 1..Len(b) /\ b[n] \in SUBSET Work
  BY <1>1, <1>2, ElementOfSeq
<1>4. PICK e : e = b[n] \cup {me}
  OBVIOUS
<1>5. e \in SUBSET Work /\ b[n] \subseteq e /\ me \in e
  BY <1>3, <1>4
<1>6. PICK c : c = [b EXCEPT ![n] = e]
  OBVIOUS
<1>7. c \in Seq(SUBSET Work) /\ Len(c) = Len(b) /\ \A j \in 1..Len(b) : c[j] = IF j = n THEN e ELSE b[j]
  BY <1>3, <1>5, <1>6, ExceptSeq
<1>8. \A j \in 1..Len(b) : b[j] \subseteq c[j]
  BY <1>5, <1>7
<1>9. \A x : InSome(b, x) => InSome(c, x)
  BY <1>1, <1>7, <1>8, MoreCommits
<1>10. InSome(c, me)
  BY <1>3, <1>5, <1>7 DEF InSome
<1>11. c = [b EXCEPT ![Len(b)] = @ \cup {me}]
  BY <1>2, <1>4, <1>6
<1> QED BY <1>7, <1>9, <1>10, <1>11

LEMMA MeWorks == SubType /\ done > 0 => Me \in Work
<1> SUFFICES ASSUME SubType, done > 0 PROVE Me \in Work
  OBVIOUS
<1>1. done \in 1..Len(plan)
  BY DEF SubType
<1>2. plan[done] \in Answer
  BY <1>1, ElementOfSeq DEF SubType
<1> QED BY <1>2 DEF Answer, Me, Work

LEMMA SubWorksKeeps == ASSUME SubInv, SubWorks PROVE SubInv'
<1>1. /\ phase = "running" /\ UNCHANGED <<phase, plan, done, exit0, last, prior, staged>>
      /\ moved' = (moved \/ branch' # branch)
  BY DEF SubWorks
<1>2. SubType /\ done > 0 /\ Credited(done - 1) /\ Len(branch) >= prior /\ Len(plan) > 0
  BY <1>1 DEF SubInv
<1>3. Me \in Work /\ branch \in Seq(SUBSET Work) /\ Len(branch) \in Nat
  BY <1>2, MeWorks, LenProperties DEF SubType
<1>4. /\ branch' \in Seq(SUBSET Work) /\ Len(branch') >= Len(branch)
      /\ \A x : InSome(branch, x) => InSome(branch', x)
      /\ branch' # branch => InSome(branch', Me)
  <2>0. PICK b, me, c : b = branch /\ me = Me /\ c = branch'
    OBVIOUS
  <2>4. Len(b) \in Nat /\ b \in Seq(SUBSET Work) /\ me \in Work
    BY <1>3, <2>0
  <2>1. CASE branch' = Append(branch, {Me})
    <3>1. c = Append(b, {me})
      BY <2>0, <2>1
    <3>2. /\ c \in Seq(SUBSET Work) /\ Len(c) = Len(b) + 1 /\ InSome(c, me)
          /\ \A x : InSome(b, x) => InSome(c, x)
      BY <2>4, <3>1, CommitOne
    <3>3. Len(c) >= Len(b)
      BY <2>4, <3>2
    <3> QED BY <2>0, <3>2, <3>3
  <2>2. CASE branch # <<>> /\ branch' = [branch EXCEPT ![Len(branch)] = @ \cup {Me}]
    <3>1. b # <<>> /\ c = [b EXCEPT ![Len(b)] = @ \cup {me}]
      BY <2>0, <2>2
    <3>2. /\ c \in Seq(SUBSET Work) /\ Len(c) = Len(b) /\ InSome(c, me)
          /\ \A x : InSome(b, x) => InSome(c, x)
      BY <2>4, <3>1, AmendOne
    <3>3. Len(c) >= Len(b)
      BY <2>4, <3>2
    <3> QED BY <2>0, <3>2, <3>3
  <2>3. CASE branch' = branch
    BY <1>3, <2>3
  <2> QED BY <2>1, <2>2, <2>3 DEF SubWorks
<1>5. Me' = Me
  BY <1>1 DEF Me
<1>6. Credited(done - 1)'
  BY <1>1, <1>2, <1>4 DEF Credited
<1>7. ASSUME done > prior, moved' \/ Len(branch') > last PROVE InSome(branch', Me)
  <2>1. CASE branch' = branch
    BY <1>1, <1>7, <2>1 DEF SubInv
  <2>2. CASE branch' # branch
    BY <1>4, <2>2
  <2> QED BY <2>1, <2>2
<1>8. SubType' /\ Len(branch') >= prior
  BY <1>1, <1>2, <1>3, <1>4, LenProperties DEF SubType
<1> QED BY <1>1, <1>2, <1>5, <1>6, <1>7, <1>8 DEF SubInv, SplitIsWhole

LEMMA NextSubKeeps == ASSUME SubInv, NextSub PROVE SubInv'
<1>1. /\ phase = "exited" /\ last' = Len(branch) /\ moved' = FALSE
      /\ phase' = IF ~Succeeded THEN "legacy" ELSE IF done < Len(plan) THEN "spawn" ELSE "squash"
      /\ UNCHANGED <<plan, done, branch, prior, staged>>
  BY DEF NextSub
<1>2. SubType /\ done > 0 /\ Credited(done - 1) /\ Len(branch) >= prior /\ Len(plan) > 0
  BY <1>1 DEF SubInv
<1>3. SubType'
  BY <1>1, <1>2, LenProperties DEF SubType
<1>4. CASE ~Succeeded
  BY <1>1, <1>3, <1>4 DEF SubInv, SplitIsWhole
<1>5. CASE Succeeded
  <2>1. done > prior => InSome(branch, Me)
    BY <1>1, <1>5 DEF Succeeded, SubInv
  <2>2. done \in Nat /\ Len(plan) \in Nat /\ done <= Len(plan) /\ prior \in 0..1
    BY <1>2, LenProperties DEF SubType
  <2>3. Credited(done)
    BY <1>2, <2>1, <2>2 DEF Credited, Me
  <2>4. Credited(done)'
    BY <1>1, <2>3 DEF Credited
  <2>5. CASE done < Len(plan)
    BY <1>1, <1>2, <1>3, <1>5, <2>2, <2>4, <2>5 DEF SubInv, SplitIsWhole
  <2>6. CASE done = Len(plan)
    <3>1. Credited(Len(plan))'
      BY <1>1, <2>4, <2>6
    <3> QED BY <1>1, <1>2, <1>3, <1>5, <2>2, <2>6, <3>1 DEF SubInv, SplitIsWhole
  <2> QED BY <2>2, <2>5, <2>6
<1> QED BY <1>4, <1>5

\* One commit is left as it is; of several, each one's work is staged.
LEMMA SquashKeeps == ASSUME SubInv, Squash PROVE SubInv'
<1>1. /\ phase = "squash" /\ UNCHANGED <<plan, done, moved, exit0, last, prior, residue>>
      /\ IF Len(branch) <= 1
         THEN phase' = "split done" /\ UNCHANGED <<branch, staged>>
         ELSE phase' = "soft" /\ branch' = <<>> /\ staged' = UNION Range(branch)
  BY DEF Squash
<1>2. SubType /\ Len(branch) >= prior /\ Len(plan) > 0 /\ Credited(Len(plan))
  BY <1>1 DEF SubInv
<1>3. Len(branch) \in Nat /\ Len(plan) \in Nat /\ prior \in 0..1 /\ branch \in Seq(SUBSET Work)
      /\ plan \in Seq(Answer)
  BY <1>2, LenProperties DEF SubType
<1>4. DOMAIN plan = 1..Len(plan) /\ DOMAIN branch = 1..Len(branch)
  BY <1>3, LenProperties
<1>5. CASE Len(branch) <= 1
  <2>1. Len(branch) = 1
    <3>0. PICK n \in Nat : n = Len(branch)
      BY <1>3
    <3>1. CASE prior = 1
      <4>1. n >= 1 /\ n <= 1
        BY <1>2, <1>5, <3>0, <3>1
      <4> QED BY <3>0, <4>1
    <3>2. CASE prior = 0
      <4>1. InSome(branch, plan[1].id)
        BY <1>2, <1>3, <3>2 DEF Credited
      <4>2. PICK j \in 1..Len(branch) : TRUE
        BY <4>1 DEF InSome
      <4>3. n <= 1 /\ j \in 1..n
        BY <1>5, <3>0, <4>2
      <4>4. n = 1
        BY <4>3
      <4> QED BY <3>0, <4>4
    <3> QED BY <1>3, <3>1, <3>2
  <2>2. \A i \in 1..Len(plan) : i > prior => plan[i].id \in branch[1]
    <3> SUFFICES ASSUME NEW i \in 1..Len(plan), i > prior PROVE plan[i].id \in branch[1]
      OBVIOUS
    <3>1. InSome(branch, plan[i].id)
      BY <1>2 DEF Credited
    <3> QED BY <2>1, <3>1 DEF InSome
  <2>3. SubType'
    BY <1>1, <1>2, <1>5 DEF SubType
  <2> QED BY <1>1, <1>4, <1>5, <2>1, <2>2, <2>3 DEF SubInv, SplitIsWhole
<1>6. CASE ~(Len(branch) <= 1)
  <2>1. UNION Range(branch) \subseteq Work
    BY <1>3, RangeOfSeq
  <2>2. \A i \in 1..Len(plan) : i > prior => plan[i].id \in UNION Range(branch)
    <3> SUFFICES ASSUME NEW i \in 1..Len(plan), i > prior PROVE plan[i].id \in UNION Range(branch)
      OBVIOUS
    <3>1. PICK j \in 1..Len(branch) : plan[i].id \in branch[j]
      BY <1>2 DEF Credited, InSome
    <3> QED BY <1>4, <3>1 DEF Range
  <2>3. SubType'
    BY <1>1, <1>2, <1>6, <2>1, EmptySeq DEF SubType
  <2> QED BY <1>1, <1>6, <2>2, <2>3 DEF SubInv, SplitIsWhole
<1> QED BY <1>5, <1>6

LEMMA RecommitKeeps == ASSUME SubInv, Recommit PROVE SubInv'
<1>1. phase = "soft" /\ UNCHANGED <<plan, done, moved, exit0, last, prior, residue>>
  BY DEF Recommit
<1>2. SubType /\ \A i \in 1..Len(plan) : i > prior => plan[i].id \in staged
  BY <1>1 DEF SubInv
<1>3. CASE phase' = "split done" /\ branch' = <<staged>> /\ staged' = {}
  <2>1. PICK c : c = <<staged>>
    OBVIOUS
  <2>2. c \in Seq(SUBSET Work) /\ Len(c) = 1 /\ c[1] = staged
    BY <1>2, <2>1 DEF SubType
  <2>3. SubType'
    BY <1>1, <1>2, <1>3, <2>1, <2>2 DEF SubType
  <2>4. DOMAIN plan = 1..Len(plan)
    BY <1>2, LenProperties DEF SubType
  <2>5. SplitIsWhole'
    BY <1>1, <1>2, <1>3, <2>1, <2>2, <2>4 DEF SplitIsWhole
  <2> QED BY <1>3, <2>3, <2>5 DEF SubInv
<1>4. CASE phase' = "reset" /\ UNCHANGED <<branch, staged>>
  BY <1>1, <1>2, <1>4 DEF SubInv, SubType, SplitIsWhole
<1> QED BY <1>3, <1>4 DEF Recommit

LEMMA SubStep == SubInv /\ [SubNext]_subVars => SubInv'
<1> SUFFICES ASSUME SubInv, [SubNext]_subVars PROVE SubInv'
  OBVIOUS
<1>0. SubType /\ Len(branch) \in Nat /\ Len(plan) \in Nat
  BY LenProperties DEF SubInv, SubType
<1>1. CASE Evaluate
  BY <1>1 DEF Evaluate, SubInv, SubType, SplitIsWhole
<1>2. CASE Decompose
  <2>1. /\ phase = "decompose" /\ done = 0 /\ Len(branch) = prior /\ last = 0 /\ ~moved
        /\ UNCHANGED <<done, moved, exit0, branch, last, prior, staged, residue>>
    BY <1>2 DEF Decompose, SubInv
  <2>2. CASE phase' = "legacy" /\ UNCHANGED plan
    BY <2>1, <2>2 DEF SubInv, SubType, SplitIsWhole
  <2>3. ASSUME NEW p \in SeqOf(Answer, MaxLen), Valid(p), plan' = p, phase' = "spawn" PROVE SubInv'
    <3>1. PICK m \in 0..MaxLen : p \in [1..m -> Answer]
      BY DEF SeqOf
    <3>2. m \in Nat /\ p \in Seq(Answer) /\ Len(p) = m
      BY <3>1, SubStoriesAssumption
    <3>3. Len(p) > 0
      BY <2>3, <3>2, SubStoriesAssumption DEF Valid
    <3>4. SubType'
      BY <1>0, <2>1, <2>3, <3>2 DEF SubType
    <3>5. Credited(done)'
      BY <2>1 DEF Credited
    <3>6. done + 1 > prior => last = Len(branch)
      BY <1>0, <2>1 DEF SubType
    <3> QED BY <1>0, <2>1, <2>3, <3>2, <3>3, <3>4, <3>5, <3>6 DEF SubInv, SplitIsWhole
  <2> QED BY <1>2, <2>2, <2>3 DEF Decompose
<1>3. CASE SpawnSub
  <2>1. /\ phase = "spawn" /\ done < Len(plan) /\ phase' \in {"running", "reset"} /\ done' = done + 1
        /\ UNCHANGED <<plan, moved, exit0, branch, last, prior, staged>>
    BY <1>3 DEF SpawnSub
  <2>2. Credited(done) /\ ~moved /\ (done + 1 > prior => last = Len(branch)) /\ Len(branch) >= prior
    BY <2>1 DEF SubInv
  <2>3. SubType' /\ done' > 0 /\ done' - 1 = done
    BY <1>0, <2>1 DEF SubType
  <2>4. Credited(done - 1)'
    BY <2>1, <2>2, <2>3 DEF Credited
  <2>5. ~(done' > prior' /\ (moved' \/ Len(branch') > last'))
    BY <1>0, <2>1, <2>2
  <2> QED BY <1>0, <2>1, <2>2, <2>3, <2>4, <2>5 DEF SubInv, SplitIsWhole
<1>4. CASE SubWorks
  BY <1>4, SubWorksKeeps
<1>5. CASE SubExits
  <2>1. /\ phase = "running" /\ phase' = "exited" /\ moved' = (moved \/ Len(branch) > last)
        /\ UNCHANGED <<plan, done, branch, last, prior, staged>>
    BY <1>5 DEF SubExits
  <2>2. Me' = Me /\ (Credited(done - 1) => Credited(done - 1)')
    BY <2>1 DEF Me, Credited
  <2>3. SubType'
    BY <1>0, <2>1 DEF SubType
  <2> QED BY <2>1, <2>2, <2>3 DEF SubInv, SplitIsWhole
<1>6. CASE NextSub
  BY <1>6, NextSubKeeps
<1>7. CASE Squash
  BY <1>7, SquashKeeps
<1>8. CASE Recommit
  BY <1>8, RecommitKeeps
<1>9. CASE Reset
  <2>1. phase' = "legacy" /\ UNCHANGED <<plan, done, moved, last, prior>>
        /\ (branch' = <<>> \/ branch' = branch) /\ (staged' = {} \/ staged' = staged)
    BY <1>9 DEF Reset
  <2>2. SubType'
    BY <1>0, <2>1, EmptySeq DEF SubType
  <2> QED BY <2>1, <2>2 DEF SubInv, SplitIsWhole
<1>10. CASE Legacy
  <2>1. phase' = "over" /\ UNCHANGED <<plan, done, moved, last, prior>>
        /\ branch' = Append(branch, {"legacy"}) /\ staged' = {}
    BY <1>10 DEF Legacy
  <2>2. branch' \in Seq(SUBSET Work)
    BY <1>0, <2>1, CommitOne DEF SubType, Work
  <2>3. SubType'
    BY <1>0, <2>1, <2>2 DEF SubType
  <2> QED BY <2>1, <2>3 DEF SubInv, SplitIsWhole
<1>11. CASE UNCHANGED subVars
  BY <1>11 DEF subVars, SubInv, SubType, SplitIsWhole, Credited, InSome, Me
<1> QED BY <1>1, <1>2, <1>3, <1>4, <1>5, <1>6, <1>7, <1>8, <1>9, <1>10, <1>11 DEF SubNext

\* For any ids, any number of sub-stories and of commits: a story its
\* sub-stories finish is one commit that holds the work of each.
THEOREM SubStoriesAreWhole == SubSpec => []SplitIsWhole
<1>1. ASSUME SubInit PROVE SubInv
  <2>1. prior \in 0..1 /\ branch = [i \in 1..prior |-> {"prior"}] /\ plan = <<>> /\ done = 0
        /\ moved = FALSE /\ last = 0 /\ staged = {} /\ phase = "evaluate"
    BY <1>1 DEF SubInit
  <2>2. branch \in Seq(SUBSET Work) /\ Len(branch) = prior
    BY <2>1 DEF Work
  <2>3. plan \in Seq(Answer) /\ Len(plan) = 0
    BY <2>1, EmptySeq
  <2>4. done \in 0..Len(plan) /\ last \in Nat /\ prior \in 0..1 /\ staged \subseteq Work
    BY <2>1, <2>3
  <2>5. SubType
    BY <2>1, <2>2, <2>3, <2>4 DEF SubType
  <2> QED BY <2>1, <2>2, <2>5 DEF SubInv, SplitIsWhole
<1>2. SubInv => SplitIsWhole
  BY DEF SubInv
<1> QED BY <1>1, <1>2, SubStep, PTL DEF SubSpec
-----------------------------------------------------------------------------
(***************************************************************************)
(* How a worker is started.                                                *)
(***************************************************************************)
\* Of a set of positions that is not empty, the first and the last.
LEMMA MinIsFirst ==
  ASSUME NEW S \in SUBSET Nat, S # {}
  PROVE  Min(S) \in S /\ \A i \in S : Min(S) <= i
<1>1. PICK x \in S : \A y \in S : ~ (<<y, x>> \in OpToRel(<, Nat))
  BY NatLessThanWellFounded, WFMin
<1>2. \A y \in S : x <= y
  <2> SUFFICES ASSUME NEW y \in S PROVE x <= y
    OBVIOUS
  <2>1. x \in Nat /\ y \in Nat /\ ~ (<<y, x>> \in OpToRel(<, Nat))
    BY <1>1
  <2>2. y < x => <<y, x>> \in OpToRel(<, Nat)
    BY <2>1 DEF OpToRel
  <2>3. ~ (y < x)
    BY <2>1, <2>2
  <2>4. \A a, b \in Nat : ~ (b < a) => a <= b
    OBVIOUS
  <2> QED BY <2>1, <2>3, <2>4, Zenon
<1> QED BY <1>1, <1>2 DEF Min

LEMMA MaxIsLast ==
  ASSUME NEW S \in SUBSET Nat, NEW i \in S, \A j \in S : j <= i
  PROVE  Max(S) = i
<1>1. i \in S /\ \A j \in S : i >= j
  OBVIOUS
<1>2. PICK m : m = Max(S)
  OBVIOUS
<1>3. m \in S /\ \A j \in S : m >= j
  BY <1>1, <1>2 DEF Max
<1>4. m \in Nat /\ i \in Nat /\ m >= i /\ i >= m
  BY <1>1, <1>3
<1>5. m = i
  BY <1>4
<1> QED BY <1>2, <1>5

\* A nonempty set of positions has a greatest one.
LEMMA MaxIsIn ==
  ASSUME NEW n \in Nat, NEW R \in SUBSET (1..n), R # {}
  PROVE  Max(R) \in R
<1> DEFINE T == {x \in Nat : \E i \in R : i = n - x}
<1>1. T \subseteq Nat /\ T # {}
  <2> PICK i : i \in R
    OBVIOUS
  <2>1. n - i \in Nat /\ i = n - (n - i)
    OBVIOUS
  <2> QED BY <2>1
<1>2. PICK x \in T : \A y \in T : ~ (<<y, x>> \in OpToRel(<, Nat))
  <2> HIDE DEF T
  <2> QED BY <1>1, NatLessThanWellFounded, WFMin
<1>3. \A y \in T : x <= y
  <2> SUFFICES ASSUME NEW y \in T PROVE x <= y
    OBVIOUS
  <2>1. x \in Nat /\ y \in Nat /\ ~ (<<y, x>> \in OpToRel(<, Nat))
    BY <1>1, <1>2
  <2>2. y < x => <<y, x>> \in OpToRel(<, Nat)
    BY <2>1 DEF OpToRel
  <2>3. ~ (y < x)
    BY <2>1, <2>2
  <2>4. \A a, b \in Nat : ~ (b < a) => a <= b
    OBVIOUS
  <2> HIDE DEF T
  <2> QED BY <2>1, <2>3, <2>4, Zenon
<1>4. n - x \in R /\ \A i \in R : n - x >= i
  <2>1. x \in Nat /\ n - x \in R
    OBVIOUS
  <2>2. ASSUME NEW i \in R PROVE n - x >= i
    <3>1. i \in 1..n /\ n - i \in Nat /\ i = n - (n - i)
      OBVIOUS
    <3>2. n - i \in T
      BY <3>1
    <3>3. x <= n - i
      BY <1>3, <3>2
    <3> HIDE DEF T
    <3> QED BY <2>1, <3>1, <3>3
  <2> QED BY <2>1, <2>2
<1> QED BY <1>4 DEF Max

\* The start ends as the first check that holds says, or, when none does, as
\* is said for that case.
LEMMA FirstIs ==
  ASSUME NEW checks, NEW n \in Nat, DOMAIN checks = 1..n, NEW else0
  PROVE  \/ /\ \A i \in 1..n : ~checks[i].holds
            /\ FirstOf(checks, else0) = else0
         \/ \E i \in 1..n : /\ checks[i].holds /\ \A j \in 1..(i - 1) : ~checks[j].holds
                            /\ FirstOf(checks, else0) = checks[i].end
<1> DEFINE held == {i \in 1..n : checks[i].holds}
<1>1. FirstOf(checks, else0) = IF held = {} THEN else0 ELSE checks[Min(held)].end
  BY DEF FirstOf
<1>2. CASE held = {}
  BY <1>1, <1>2
<1>3. CASE held # {}
  <2>1. PICK i : i = Min(held)
    OBVIOUS
  <2>2. i \in held /\ \A j \in held : i <= j
    <3> HIDE DEF held
    <3>1. held \in SUBSET Nat
      BY DEF held
    <3> QED BY <1>3, <2>1, <3>1, MinIsFirst
  <2>3. \A j \in 1..(i - 1) : ~checks[j].holds
    BY <2>2
  <2> QED BY <1>1, <1>3, <2>1, <2>2, <2>3
<1> QED BY <1>2, <1>3

\* detect_sandbox on any host.
LEMMA DetectedAs ==
  ASSUME NEW h \in Host
  PROVE  /\ Detected(h).as = "bare" => ~h.require /\ (h.bwrap # "missing" => h.confirmed)
         /\ Detected(h).as = "isolated" /\ h.scopeRequired /\ h.limits => Detected(h).scoped
<1> DEFINE bare == h.backend = "none" \/ h.bwrap = "missing"
           C == <<Check(h.backend = "none" /\ ~h.confirmed, Refused),
                  Check(bare /\ h.require, Refused),
                  Check(bare, Bare),
                  Check(~h.prlimit, Refused),
                  Check(h.home = "bad", Refused),
                  Check(h.limits /\ ~h.scopes /\ h.scopeRequired, Refused)>>
<1>1. PICK c : c = C
  OBVIOUS
<1>2. /\ DOMAIN c = 1..6
      /\ c[1].end = Refused /\ (c[1].holds <=> h.backend = "none" /\ ~h.confirmed)
      /\ c[2].end = Refused /\ (c[2].holds <=> bare /\ h.require)
      /\ c[3].end = Bare /\ (c[3].holds <=> bare)
      /\ c[4].end = Refused /\ c[5].end = Refused
      /\ c[6].end = Refused /\ (c[6].holds <=> h.limits /\ ~h.scopes /\ h.scopeRequired)
  <2>1. DOMAIN c = 1..6
    BY <1>1
  <2>2. /\ c[1].end = Refused /\ c[2].end = Refused /\ c[3].end = Bare
        /\ c[4].end = Refused /\ c[5].end = Refused /\ c[6].end = Refused
    BY <1>1 DEF Check
  <2>3. c[1].holds <=> h.backend = "none" /\ ~h.confirmed
    BY <1>1 DEF Check
  <2>4. c[2].holds <=> bare /\ h.require
    BY <1>1 DEF Check
  <2>5. c[3].holds <=> bare
    BY <1>1 DEF Check
  <2>6. c[6].holds <=> h.limits /\ ~h.scopes /\ h.scopeRequired
    BY <1>1 DEF Check
  <2> HIDE DEF C
  <2> QED BY <2>1, <2>2, <2>3, <2>4, <2>5, <2>6
<1>3. PICK d : d = Detected(h)
  OBVIOUS
<1>4. d = FirstOf(c, Isolated(h.limits /\ h.scopes))
  BY <1>1, <1>3 DEF Detected
<1>5. CASE /\ \A i \in 1..6 : ~c[i].holds
           /\ d = Isolated(h.limits /\ h.scopes)
  <2>1. ~c[6].holds
    BY <1>5
  <2>2. ~(h.limits /\ ~h.scopes /\ h.scopeRequired)
    BY <1>2, <2>1
  <2>3. d.as = "isolated" /\ (d.scoped <=> h.limits /\ h.scopes)
    BY <1>5 DEF Isolated
  <2> QED BY <1>3, <2>2, <2>3
<1>6. CASE \E i \in 1..6 : /\ c[i].holds /\ \A j \in 1..(i - 1) : ~c[j].holds
                           /\ d = c[i].end
  <2>1. PICK i \in 1..6 : c[i].holds /\ (\A j \in 1..(i - 1) : ~c[j].holds) /\ d = c[i].end
    BY <1>6
  <2>2. CASE i = 3
    <3>1. c[3].holds /\ ~c[1].holds /\ ~c[2].holds
      BY <2>1, <2>2
    <3>2. bare /\ ~(h.backend = "none" /\ ~h.confirmed) /\ ~(bare /\ h.require)
      BY <1>2, <3>1
    <3>3. d.as = "bare"
      BY <1>2, <2>1, <2>2 DEF Bare
    <3> QED BY <1>3, <3>2, <3>3
  <2>3. CASE i # 3
    <3>1. d = Refused
      BY <1>2, <2>1, <2>3
    <3>2. d.as = "refused"
      BY <3>1 DEF Refused
    <3> QED BY <1>3, <3>2
  <2> QED BY <2>2, <2>3
<1>7. PICK e : e = Isolated(h.limits /\ h.scopes)
  OBVIOUS
<1>8. PICK n \in Nat : n = 6
  OBVIOUS
<1>9. DOMAIN c = 1..n /\ d = FirstOf(c, e)
  BY <1>2, <1>4, <1>7, <1>8
<1>10. \/ (\A i \in 1..n : ~c[i].holds) /\ d = e
       \/ \E i \in 1..n : c[i].holds /\ (\A j \in 1..(i - 1) : ~c[j].holds) /\ d = c[i].end
  BY <1>9, FirstIs
<1> HIDE DEF C
<1> QED BY <1>5, <1>6, <1>7, <1>8, <1>10

\* The wrap subcommand on any host.
LEMMA WrappedAs ==
  ASSUME NEW h \in Host
  PROVE  /\ Wrapped(h).as = "bare" => ~h.require /\ h.allow
         /\ Wrapped(h).as = "isolated" /\ h.scopeRequired => Wrapped(h).scoped
<1> DEFINE unfit == h.bwrap = "missing" \/ TooOld(h)
           A == <<Check(WishesRefused(h), Refused), Check(DockerRefused(h), Refused)>>
           B == <<Check(unfit /\ h.allow, Bare), Check(unfit, Refused)>>
           D == <<Check(~h.prlimit, Refused), Check(OptionsRefused(h), Refused), Check(ScopeRefused(h), Refused)>>
<1>1. PICK c : c = A \o B \o D
  OBVIOUS
<1>2. /\ DOMAIN c = 1..7
      /\ c[1].end = Refused /\ (c[1].holds <=> WishesRefused(h))
      /\ c[2].end = Refused
      /\ c[3].end = Bare /\ (c[3].holds <=> unfit /\ h.allow)
      /\ c[4].end = Refused /\ c[5].end = Refused /\ c[6].end = Refused
      /\ c[7].end = Refused /\ (c[7].holds <=> ScopeRefused(h))
  <2>1. PICK a, b, d : a = A /\ b = B /\ d = D
    OBVIOUS
  <2>2. PICK E : E = {a[1], a[2], b[1], b[2], d[1], d[2], d[3]}
    OBVIOUS
  <2>3. a \in Seq(E) /\ b \in Seq(E) /\ d \in Seq(E) /\ Len(a) = 2 /\ Len(b) = 2 /\ Len(d) = 3
    BY <2>1, <2>2
  <2>4. PICK ab : ab = a \o b
    OBVIOUS
  <2>5. ab \in Seq(E) /\ Len(ab) = 4 /\ ab[1] = a[1] /\ ab[2] = a[2] /\ ab[3] = b[1] /\ ab[4] = b[2]
    <3>1. /\ ab \in Seq(E) /\ Len(ab) = Len(a) + Len(b)
          /\ \A i \in 1..(Len(a) + Len(b)) : ab[i] = IF i <= Len(a) THEN a[i] ELSE b[i - Len(a)]
      BY <2>3, <2>4, ConcatProperties
    <3>2. \A i \in 1..4 : ab[i] = IF i <= 2 THEN a[i] ELSE b[i - 2]
      BY <2>3, <3>1
    <3> HIDE DEF A, B, D
    <3> QED BY <2>3, <3>1, <3>2
  <2>6. c = ab \o d
    BY <1>1, <2>1, <2>4
  <2>7. c \in Seq(E) /\ Len(c) = 7 /\ c[1] = a[1] /\ c[2] = a[2] /\ c[3] = b[1] /\ c[4] = b[2]
        /\ c[5] = d[1] /\ c[6] = d[2] /\ c[7] = d[3]
    <3>1. /\ c \in Seq(E) /\ Len(c) = Len(ab) + Len(d)
          /\ \A i \in 1..(Len(ab) + Len(d)) : c[i] = IF i <= Len(ab) THEN ab[i] ELSE d[i - Len(ab)]
      BY <2>3, <2>5, <2>6, ConcatProperties
    <3>2. \A i \in 1..7 : c[i] = IF i <= 4 THEN ab[i] ELSE d[i - 4]
      BY <2>3, <2>5, <3>1
    <3> HIDE DEF A, B, D
    <3> QED BY <2>3, <2>5, <3>1, <3>2
  <2>8. DOMAIN c = 1..7
    BY <2>7, LenProperties
  <2>9. /\ a[1].end = Refused /\ (a[1].holds <=> WishesRefused(h)) /\ a[2].end = Refused
        /\ b[1].end = Bare /\ (b[1].holds <=> unfit /\ h.allow) /\ b[2].end = Refused
        /\ d[1].end = Refused /\ d[2].end = Refused
        /\ d[3].end = Refused /\ (d[3].holds <=> ScopeRefused(h))
    BY <2>1 DEF Check
  <2> QED BY <2>7, <2>8, <2>9
<1>3. PICK d : d = Wrapped(h)
  OBVIOUS
<1>4. d = FirstOf(c, Isolated(~h.scopeOff /\ h.scopes))
  BY <1>1, <1>3 DEF Wrapped, BwrapChecks
<1>5. CASE /\ \A i \in 1..7 : ~c[i].holds
           /\ d = Isolated(~h.scopeOff /\ h.scopes)
  <2>1. ~c[7].holds
    BY <1>5
  <2>2. ~(h.scopeRequired /\ (h.scopeOff \/ ~h.scopes))
    BY <1>2, <2>1 DEF ScopeRefused
  <2>3. d.as = "isolated" /\ (d.scoped <=> ~h.scopeOff /\ h.scopes)
    BY <1>5 DEF Isolated
  <2> QED BY <1>3, <2>2, <2>3
<1>6. CASE \E i \in 1..7 : /\ c[i].holds /\ \A j \in 1..(i - 1) : ~c[j].holds
                           /\ d = c[i].end
  <2>1. PICK i \in 1..7 : c[i].holds /\ (\A j \in 1..(i - 1) : ~c[j].holds) /\ d = c[i].end
    BY <1>6
  <2>2. CASE i = 3
    <3>1. c[3].holds /\ ~c[1].holds
      BY <2>1, <2>2
    <3>2. h.allow /\ ~(h.require /\ h.allow)
      BY <1>2, <3>1 DEF WishesRefused
    <3>3. d.as = "bare"
      BY <1>2, <2>1, <2>2 DEF Bare
    <3> QED BY <1>3, <3>2, <3>3
  <2>3. CASE i # 3
    <3>1. d = Refused
      BY <1>2, <2>1, <2>3
    <3>2. d.as = "refused"
      BY <3>1 DEF Refused
    <3> QED BY <1>3, <3>2
  <2> QED BY <2>2, <2>3
<1>7. PICK e : e = Isolated(~h.scopeOff /\ h.scopes)
  OBVIOUS
<1>8. PICK n \in Nat : n = 7
  OBVIOUS
<1>9. DOMAIN c = 1..n /\ d = FirstOf(c, e)
  BY <1>2, <1>4, <1>7, <1>8
<1>10. \/ (\A i \in 1..n : ~c[i].holds) /\ d = e
       \/ \E i \in 1..n : c[i].holds /\ (\A j \in 1..(i - 1) : ~c[j].holds) /\ d = c[i].end
  BY <1>9, FirstIs
<1> HIDE DEF A, B, D
<1> QED BY <1>5, <1>6, <1>7, <1>8, <1>10

\* The mounts, and what each of them covers.
LEMMA MountsAre ==
  ASSUME NEW h \in Host, NEW way
  PROVE  LET s == Mounts(h, way)
         IN  /\ DOMAIN s = 1..11
             /\ s[3] = Worktree /\ s[4] = CommitStore(h) /\ s[6] = StateMount(h, ".claude")
             /\ s[7] = StateMount(h, ".claude.json") /\ s[8] = Installation /\ s[9] = Phases
             /\ s[10] = Flags(h) /\ s[11] = ReadOnly(h, way)
             /\ s[3].over = {"worktree"} /\ s[4].over = When(h.linked, {"git"}) /\ s[5].over = h.dark
             /\ s[6].over \subseteq {".claude", "phases", "flags"} /\ s[7].over \subseteq {".claude.json"}
             /\ s[8].over = {"installation"} /\ s[9].over = {"phases"} /\ s[10].over = When(h.flags, {"flags"})
             /\ s[11].over = Fixed(h, way)
<1> DEFINE s == Mounts(h, way)
<1>1. /\ DOMAIN s = 1..11 /\ s[3] = Worktree /\ s[4] = CommitStore(h) /\ s[5] = BlackedOut(h)
      /\ s[6] = StateMount(h, ".claude") /\ s[7] = StateMount(h, ".claude.json") /\ s[8] = Installation
      /\ s[9] = Phases /\ s[10] = Flags(h) /\ s[11] = ReadOnly(h, way)
  BY DEF Mounts
<1>2. /\ Worktree.over = {"worktree"} /\ CommitStore(h).over = When(h.linked, {"git"})
      /\ BlackedOut(h).over = h.dark /\ Installation.over = {"installation"} /\ Phases.over = {"phases"}
      /\ Flags(h).over = When(h.flags, {"flags"}) /\ ReadOnly(h, way).over = Fixed(h, way)
  BY DEF Worktree, CommitStore, BlackedOut, Installation, Phases, Flags, ReadOnly, Mount
<1>3. /\ Below(".claude") = {".claude", "phases", "flags"} /\ Below(".claude.json") = {".claude.json"}
  BY DEF Below, When
<1>4. \A path : StateMount(h, path).over \subseteq Below(path)
  BY DEF StateMount, Mount, When
<1> QED BY <1>1, <1>2, <1>3, <1>4

\* What is seen at a path is what the last mount that covers it shows.
LEMMA SeenIsTop ==
  ASSUME NEW h \in Host, NEW way, NEW path, NEW i \in 1..11, path \in Mounts(h, way)[i].over,
         \A j \in (i + 1)..11 : path \notin Mounts(h, way)[j].over
  PROVE  Seen(h, way, path) = Mounts(h, way)[i]
<1>1. PICK s : s = Mounts(h, way)
  OBVIOUS
<1>2. DOMAIN s = 1..11
  BY <1>1, MountsAre
<1>3. PICK S : S = {k \in 1..11 : path \in s[k].over}
  OBVIOUS
<1>4. S \in SUBSET Nat /\ i \in S
  BY <1>1, <1>3
<1>5. \A j \in S : j <= i
  BY <1>1, <1>3
<1>6. Max(S) = i
  BY <1>4, <1>5, MaxIsLast
<1>7. Seen(h, way, path) = s[Max(S)]
  BY <1>1, <1>2, <1>3 DEF Seen
<1> QED BY <1>1, <1>6, <1>7

\* What an isolated worker finds, on any host.
LEMMA MountsKeep ==
  ASSUME NEW h \in Host, NEW way
  PROVE  /\ "worktree" \notin h.dark \cup Fixed(h, way) => Seen(h, way, "worktree") = Worktree
         /\ h.linked /\ "git" \notin h.dark \cup Fixed(h, way) => Seen(h, way, "git").writable
         /\ h.home = "fine" => \A path \in h.has \ Fixed(h, way) : Seen(h, way, path).from = "own"
         /\ Seen(h, way, "installation").from = "host"
         /\ Seen(h, way, "phases").writable => Seen(h, way, "phases").from = "empty"
         /\ h.flags => ~Seen(h, way, "flags").writable
<1>1. PICK s : s = Mounts(h, way)
  OBVIOUS
<1>2. /\ s[3] = Worktree /\ s[4] = CommitStore(h) /\ s[6] = StateMount(h, ".claude")
      /\ s[7] = StateMount(h, ".claude.json") /\ s[8] = Installation /\ s[9] = Phases
      /\ s[10] = Flags(h) /\ s[11] = ReadOnly(h, way)
  BY <1>1, MountsAre
<1>3. /\ s[3].over = {"worktree"} /\ s[4].over = When(h.linked, {"git"}) /\ s[5].over = h.dark
      /\ s[6].over \subseteq {".claude", "phases", "flags"} /\ s[7].over \subseteq {".claude.json"}
      /\ s[8].over = {"installation"} /\ s[9].over = {"phases"} /\ s[10].over = When(h.flags, {"flags"})
      /\ s[11].over = Fixed(h, way)
  BY <1>1, MountsAre
<1>4. ASSUME NEW path, NEW i \in 1..11, path \in s[i].over, \A j \in (i + 1)..11 : path \notin s[j].over
      PROVE  Seen(h, way, path) = s[i]
  BY <1>1, <1>4, SeenIsTop
<1>5. ~s[11].writable /\ s[11].from = "host"
  BY <1>2 DEF ReadOnly, Mount
<1>6. \A path \in Fixed(h, way) : Seen(h, way, path) = s[11]
  BY <1>3, <1>4
<1>7. ASSUME "worktree" \notin h.dark \cup Fixed(h, way) PROVE Seen(h, way, "worktree") = Worktree
  <2>1. \A j \in 4..11 : "worktree" \notin s[j].over
    BY <1>3, <1>7 DEF When
  <2> QED BY <1>2, <1>3, <1>4, <2>1
<1>8. ASSUME h.linked, "git" \notin h.dark \cup Fixed(h, way) PROVE Seen(h, way, "git").writable
  <2>1. "git" \in s[4].over /\ \A j \in 5..11 : "git" \notin s[j].over
    BY <1>3, <1>8 DEF When
  <2>2. Seen(h, way, "git") = CommitStore(h)
    BY <1>2, <1>4, <2>1
  <2> QED BY <2>2 DEF CommitStore, Mount
<1>9. ASSUME h.home = "fine", NEW path \in h.has, path \notin Fixed(h, way) PROVE Seen(h, way, path).from = "own"
  <2>1. path \in {".claude", ".claude.json"}
    BY ZenonT(60) DEF Host
  <2>2. StateMount(h, path) = Mount(Below(path), "own", TRUE)
    BY <1>9 DEF StateMount, When
  <2>3. path \in StateMount(h, path).over /\ StateMount(h, path).from = "own"
    BY <2>2 DEF Mount, Below
  <2>4. CASE path = ".claude"
    <3>1. \A j \in 7..11 : path \notin s[j].over
      BY <1>3, <1>9, <2>4 DEF When
    <3> QED BY <1>2, <1>4, <2>3, <2>4, <3>1
  <2>5. CASE path = ".claude.json"
    <3>1. \A j \in 8..11 : path \notin s[j].over
      BY <1>3, <1>9, <2>5 DEF When
    <3> QED BY <1>2, <1>4, <2>3, <2>5, <3>1
  <2> QED BY <2>1, <2>4, <2>5
<1>10. ASSUME "installation" \notin Fixed(h, way) PROVE Seen(h, way, "installation").from = "host"
  <2>1. \A j \in 9..11 : "installation" \notin s[j].over
    BY <1>3, <1>10 DEF When
  <2>2. Seen(h, way, "installation") = Installation
    BY <1>2, <1>3, <1>4, <2>1
  <2> QED BY <2>2 DEF Installation, Mount
<1>11. ASSUME "phases" \notin Fixed(h, way) PROVE Seen(h, way, "phases").from = "empty"
  <2>1. \A j \in 10..11 : "phases" \notin s[j].over
    BY <1>3, <1>11 DEF When
  <2>2. Seen(h, way, "phases") = Phases
    BY <1>2, <1>3, <1>4, <2>1
  <2> QED BY <2>2 DEF Phases, Mount
<1>12. ASSUME h.flags, "flags" \notin Fixed(h, way) PROVE ~Seen(h, way, "flags").writable
  <2>1. "flags" \in s[10].over /\ "flags" \notin s[11].over
    BY <1>3, <1>12 DEF When
  <2>2. Seen(h, way, "flags") = Flags(h)
    BY <1>2, <1>4, <2>1
  <2> QED BY <2>2 DEF Flags, Mount
<1> QED BY <1>5, <1>6, <1>7, <1>8, <1>9, <1>10, <1>11, <1>12

\* On every host one may describe: how a worker is started.
THEOREM WorkersStartAsPromised == SandboxSpec => []StartedAsPromised
<1> DEFINE Inv == host \in Hosts /\ StartedAsPromised
<1>1. SandboxInit => Inv
  BY DEF SandboxInit, Refused, StartedAsPromised
<1>2. Inv /\ [Start]_sandboxVars => Inv'
  <2> SUFFICES ASSUME Inv, [Start]_sandboxVars PROVE Inv'
    OBVIOUS
  <2>1. CASE UNCHANGED sandboxVars
    BY <2>1 DEF sandboxVars, StartedAsPromised
  <2>2. CASE Start
    <3>1. PICK h \in Host : h = host /\ host' = h
      BY <2>2, SandboxAssumption DEF Start
    <3>2. PICK d : d = started'
      OBVIOUS
    <3>3. /\ d.as = "bare" => /\ ~h.require
                              /\ by' = "wrap" => h.allow
                              /\ by' = "detect" /\ h.bwrap # "missing" => h.confirmed
          /\ d.as = "isolated" /\ h.scopeRequired /\ (by' = "detect" => h.limits) => d.scoped
      <4>1. CASE by' = "detect" /\ started' = Detected(host)
        BY <3>1, <3>2, <4>1, DetectedAs
      <4>2. CASE by' = "wrap" /\ started' = Wrapped(host)
        BY <3>1, <3>2, <4>2, WrappedAs
      <4> QED BY <2>2, <4>1, <4>2 DEF Start
    <3>4. StartedAsPromised'
      BY <3>1, <3>2, <3>3, MountsKeep DEF StartedAsPromised
    <3> QED BY <3>1, <3>4
  <2> QED BY <2>1, <2>2
<1>3. Inv => StartedAsPromised
  OBVIOUS
<1> HIDE DEF Inv
<1> QED BY <1>1, <1>2, <1>3, PTL DEF SandboxSpec

-----------------------------------------------------------------------------
\* Questions and who answers them.  The events, the stories, what the engine
\* may decide, and the positions of the questions to a human.
Event == {[type |-> "chat"], [type |-> "human_query"]} \cup {[type |-> "elicitation", payload |-> p] : p \in Payload}
Stories == {p.story : p \in Payload}
Action == {"escalate", "auto_resolve"} \cup {v.action : v \in Judged}
QueriesIn(events) == {i \in DOMAIN events : events[i].type = "human_query"}

\* The engine and the log of its decisions.
DecideInv ==
  /\ asked \in Seq(Event) /\ audit \in Seq([payload : Payload, action : Action])
  /\ auto \in [Stories -> Nat]
  /\ \A s \in Stories \ {NoStory} : Cardinality(AutoRows(s)) = auto[s] /\ auto[s] <= MaxAuto
  /\ \A i \in DOMAIN audit : audit[i].action = "auto_resolve" => ~HardOverride(audit[i].payload)
  /\ Cardinality(EscalateRows) = Cardinality(QueriesIn(asked))

\* The router and its answers.
ReplyInv ==
  /\ next \in Nat \ {0} /\ next - 1 <= Len(asked) /\ (call = "awaited" => next <= Len(asked))
  /\ told \subseteq [corr : 1..(next - 1), what : {"stub", "tools", "text"}]
  /\ lost \subseteq 1..(next - 1)
  /\ ran \subseteq [corr : 1..(next - 1), tool : Whitelist]
  /\ OneReply

LEMMA CountOne ==
  ASSUME NEW n \in Nat, NEW R \in SUBSET (1..n)
  PROVE  /\ Cardinality(R) \in Nat /\ Cardinality(R \cup {n + 1}) = Cardinality(R) + 1
<1>1. IsFiniteSet(1..n)
  BY FS_Interval
<1>2. IsFiniteSet(R)
  BY <1>1, FS_Subset
<1>3. n + 1 \notin R
  OBVIOUS
<1> QED BY <1>2, <1>3, FS_AddElement, FS_CardinalityType

\* What Decision gives a question with a hard keyword, and one past the cap.
LEMMA DecisionIs ==
  ASSUME NEW p \in Payload, NEW action \in Decide(p)
  PROVE  /\ action \in Action
         /\ action = "auto_resolve" => ~HardOverride(p) /\ (p.story # NoStory => ~(auto[p.story] >= MaxAuto))
<1>1. CASE HardOverride(p) \/ Capped(p)
  BY <1>1 DEF Decide, Action
<1>2. CASE ~(HardOverride(p) \/ Capped(p))
  <2>1. p.story # NoStory => ~(auto[p.story] >= MaxAuto)
    BY <1>2 DEF Capped
  <2>2. action \in Action
    BY <1>2 DEF Decide, Action
  <2> QED BY <1>2, <2>1, <2>2
<1> QED BY <1>1, <1>2

LEMMA EventTypes ==
  ASSUME NEW e \in Event
  PROVE  e.type \in {"chat", "human_query", "elicitation"} /\ (e.type = "elicitation" => e.payload \in Payload)
<1>1. CASE e = [type |-> "chat"]
  BY <1>1
<1>2. CASE e = [type |-> "human_query"]
  BY <1>2
<1>3. CASE \E p \in Payload : e = [type |-> "elicitation", payload |-> p]
  BY <1>3
<1> QED BY <1>1, <1>2, <1>3 DEF Event

\* An event more: a question to a human is counted, any other is not.
LEMMA AskedMore ==
  ASSUME NEW q \in Seq(Event), NEW e \in Event
  PROVE  /\ Append(q, e) \in Seq(Event)
         /\ Cardinality(QueriesIn(Append(q, e))) =
              IF e.type = "human_query" THEN Cardinality(QueriesIn(q)) + 1 ELSE Cardinality(QueriesIn(q))
<1>1. PICK n, a : n = Len(q) /\ n \in Nat /\ a = Append(q, e) /\ DOMAIN q = 1..n
  BY LenProperties
<1>2. a \in Seq(Event) /\ Len(a) = n + 1 /\ (\A i \in 1..n : a[i] = q[i]) /\ a[n + 1] = e
  BY <1>1, AppendProperties
<1>3. DOMAIN a = 1..(n + 1)
  BY <1>2, LenProperties
<1>4. PICK R : R = QueriesIn(q)
  OBVIOUS
<1>5. R \in SUBSET (1..n)
  BY <1>1, <1>4 DEF QueriesIn
<1>6. QueriesIn(a) = IF e.type = "human_query" THEN R \cup {n + 1} ELSE R
  <2>1. \A i : i \in 1..(n + 1) <=> i \in 1..n \/ i = n + 1
    BY <1>1
  <2>2. \A i : i \in 1..n => i # n + 1
    BY <1>1
  <2> QED BY <1>1, <1>2, <1>3, <1>4, <2>1, <2>2 DEF QueriesIn
<1>7. Cardinality(R) \in Nat /\ Cardinality(R \cup {n + 1}) = Cardinality(R) + 1
  BY <1>1, <1>5, CountOne
<1> QED BY <1>1, <1>2, <1>4, <1>6, <1>7

LEMMA DecideStep == DecideInv /\ ReplyInv /\ [QuestionsNext]_questionsVars => DecideInv'
<1> SUFFICES ASSUME DecideInv, ReplyInv, [QuestionsNext]_questionsVars PROVE DecideInv'
  OBVIOUS
<1>0. PICK n \in Nat : n = Len(audit) /\ DOMAIN audit = 1..n
  BY LenProperties DEF DecideInv
<1>1. ASSUME UNCHANGED <<audit, auto>>, asked' = asked PROVE DecideInv'
  BY <1>1 DEF DecideInv, AutoRows, EscalateRows, QueriesIn
<1>2. ASSUME UNCHANGED <<audit, auto>>, NEW e \in Event, asked' = Append(asked, e), e.type # "human_query"
      PROVE  DecideInv'
  <2>1. asked' \in Seq(Event) /\ Cardinality(QueriesIn(asked')) = Cardinality(QueriesIn(asked))
    BY <1>2, AskedMore DEF DecideInv
  <2> QED BY <1>2, <2>1 DEF DecideInv, AutoRows, EscalateRows
<1>3. CASE Write
  <2>1. [type |-> "chat"] \in Event /\ [type |-> "chat"].type = "chat"
    BY DEF Event
  <2> QED BY <1>2, <1>3, <2>1 DEF Write, Emitted
<1>4. ASSUME NEW p \in Payload, WorkerAsks(p) PROVE DecideInv'
  <2>1. PICK e : e = [type |-> "elicitation", payload |-> p]
    OBVIOUS
  <2>2. e \in Event /\ e.type = "elicitation"
    BY <2>1 DEF Event
  <2> QED BY <1>2, <1>4, <2>1, <2>2 DEF WorkerAsks, Emitted
<1>5. CASE Elicit
  <2>0. PICK p : p = asked[next].payload
    OBVIOUS
  <2>1. PICK action, row :
           /\ asked[next].type = "elicitation" /\ next <= Len(asked) /\ action \in Decide(p)
           /\ row = [payload |-> p, action |-> action] /\ audit' = Append(audit, row)
           /\ auto' = IF action = "auto_resolve" /\ p.story # NoStory THEN [auto EXCEPT ![p.story] = @ + 1] ELSE auto
           /\ asked' = IF action = "escalate" THEN Append(asked, [type |-> "human_query"]) ELSE asked
    BY <1>5, <2>0 DEF Elicit, Dispatched
  <2>2. /\ p \in Payload /\ p.story \in Stories
    <3>1. next \in 1..Len(asked)
      BY <2>1 DEF ReplyInv
    <3>2. asked[next] \in Event
      BY <3>1, ElementOfSeq DEF DecideInv
    <3> QED BY <2>0, <2>1, <3>2, EventTypes DEF Stories
  <2>3. action \in Action /\ (action = "auto_resolve" => ~HardOverride(p) /\ (p.story # NoStory => ~(auto[p.story] >= MaxAuto)))
    BY <2>1, <2>2, DecisionIs
  <2>4. PICK w : w = audit'
    OBVIOUS
  <2>5. /\ w \in Seq([payload : Payload, action : Action]) /\ Len(w) = n + 1
        /\ w[n + 1] = row /\ \A i \in 1..n : w[i] = audit[i]
    BY <1>0, <2>1, <2>2, <2>3, <2>4, AppendProperties DEF DecideInv
  <2>6. DOMAIN w = 1..(n + 1) /\ n + 1 \notin 1..n /\ \A i : i \in 1..(n + 1) <=> i \in 1..n \/ i = n + 1
    BY <2>5, LenProperties
  <2>7. row.action = action /\ row.payload = p
    BY <2>1
  <2>8. \A i \in DOMAIN w : w[i].action = "auto_resolve" => ~HardOverride(w[i].payload)
    BY <1>0, <2>3, <2>5, <2>6, <2>7 DEF DecideInv
  <2>9. Cardinality(EscalateRows') = Cardinality(QueriesIn(asked'))
    <3>1. PICK R \in SUBSET (1..n) : R = EscalateRows
      BY <1>0 DEF EscalateRows
    <3>2. EscalateRows' = IF action = "escalate" THEN R \cup {n + 1} ELSE R
      BY <1>0, <2>4, <2>5, <2>6, <2>7, <3>1 DEF EscalateRows
    <3>3. Cardinality(R) = Cardinality(QueriesIn(asked))
      BY <3>1 DEF DecideInv
    <3>4. Cardinality(QueriesIn(asked')) = IF action = "escalate" THEN Cardinality(QueriesIn(asked)) + 1 ELSE Cardinality(QueriesIn(asked))
      <4>1. [type |-> "human_query"] \in Event /\ [type |-> "human_query"].type = "human_query"
        BY DEF Event
      <4>2. CASE action = "escalate"
        BY <2>1, <4>1, <4>2, AskedMore DEF DecideInv
      <4>3. CASE action # "escalate"
        BY <2>1, <4>3
      <4> QED BY <4>2, <4>3
    <3> QED BY <3>1, <3>2, <3>3, <3>4, CountOne
  <2>10. ASSUME NEW s \in Stories \ {NoStory}
         PROVE  Cardinality(AutoRows(s)') = auto'[s] /\ auto'[s] <= MaxAuto
    <3>1. PICK R \in SUBSET (1..n) : R = AutoRows(s)
      BY <1>0 DEF AutoRows
    <3>2. Cardinality(R) = auto[s] /\ auto[s] <= MaxAuto /\ auto[s] \in Nat /\ Cardinality(R \cup {n + 1}) = Cardinality(R) + 1
      BY <3>1, CountOne DEF DecideInv
    <3>3. CASE action = "auto_resolve" /\ p.story = s
      <4>1. AutoRows(s)' = R \cup {n + 1}
        BY <1>0, <2>4, <2>5, <2>6, <2>7, <3>1, <3>3 DEF AutoRows
      <4>2. auto'[s] = auto[s] + 1
        BY <2>1, <3>3 DEF DecideInv
      <4>3. ~(auto[s] >= MaxAuto)
        BY <2>3, <3>3
      <4> QED BY <3>2, <4>1, <4>2, <4>3, QuestionsAssumption
    <3>4. CASE ~(action = "auto_resolve" /\ p.story = s)
      <4>1. AutoRows(s)' = R
        BY <1>0, <2>4, <2>5, <2>6, <2>7, <3>1, <3>4 DEF AutoRows
      <4>2. auto'[s] = auto[s]
        BY <2>1, <3>4 DEF DecideInv
      <4> QED BY <3>2, <4>1, <4>2
    <3> QED BY <3>3, <3>4
  <2>11. auto' \in [Stories -> Nat]
    BY <2>1, <2>2 DEF DecideInv
  <2>12. asked' \in Seq(Event)
    <3>1. [type |-> "human_query"] \in Event
      BY DEF Event
    <3> QED BY <2>1, <3>1, AppendProperties DEF DecideInv
  <2> QED BY <2>4, <2>5, <2>8, <2>9, <2>10, <2>11, <2>12 DEF DecideInv
<1>6. ASSUME NEW type \in {"chat", "human_query"}, Route(type) PROVE DecideInv'
  BY <1>1, <1>6 DEF Route
<1>7. CASE CallFails
  BY <1>1, <1>7 DEF CallFails
<1>8. CASE Respond
  BY <1>1, <1>8 DEF Respond
<1>9. ASSUME NEW c \in Cost, WorkerSpends(c) PROVE DecideInv'
  BY <1>1, <1>9 DEF WorkerSpends
<1>10. CASE UNCHANGED questionsVars
  BY <1>1, <1>10 DEF questionsVars
<1> QED BY <1>3, <1>4, <1>5, <1>6, <1>7, <1>8, <1>9, <1>10 DEF QuestionsNext

\* A step that answers nothing.
LEMMA NothingAnswered ==
  ASSUME ReplyInv, DecideInv, UNCHANGED <<told, lost, ran, next>>,
         asked' = asked \/ \E e \in Event : asked' = Append(asked, e),
         call' = "awaited" => next <= Len(asked)
  PROVE  ReplyInv'
<1>1. PICK m \in Nat : m = Len(asked)
  BY LenProperties DEF DecideInv
<1>2. Len(asked') \in Nat /\ m <= Len(asked') /\ \A i \in 1..m : asked'[i] = asked[i]
  <2>1. CASE asked' = asked
    BY <1>1, <2>1
  <2>2. ASSUME NEW e \in Event, asked' = Append(asked, e)
        PROVE  Len(asked') = m + 1 /\ \A i \in 1..m : asked'[i] = asked[i]
    BY <1>1, <2>2, AppendProperties DEF DecideInv
  <2> QED BY <1>1, <2>1, <2>2
<1>3. \A k \in 1..(next - 1) : k \in 1..m
  BY <1>1 DEF ReplyInv
<1>4. OneReply'
  BY <1>2, <1>3 DEF ReplyInv, OneReply
<1>5. next - 1 <= Len(asked') /\ (next <= m => next <= Len(asked'))
  BY <1>1, <1>2 DEF ReplyInv
<1> QED BY <1>1, <1>4, <1>5 DEF ReplyInv

\* A step that deals with the next event: at most one answer to it, none when
\* its subscriber raises; the tools that were run for it.
LEMMA OneAnswered ==
  ASSUME ReplyInv, DecideInv, next <= Len(asked), next' = next + 1, call' = "none",
         asked' = asked \/ \E e \in Event : asked' = Append(asked, e),
         NEW tools \in SUBSET Whitelist,
         ran' = ran \cup {[corr |-> next, tool |-> t] : t \in tools},
         \/ /\ asked[next].type = "elicitation" /\ tools = {} /\ UNCHANGED <<told, lost>>
         \/ lost' = lost \cup {next} /\ told' = told
         \/ \E what \in {"stub", "tools", "text"} :
              /\ told' = told \cup {[corr |-> next, what |-> what]} /\ lost' = lost
              /\ tools # {} => what = "tools"
  PROVE  ReplyInv'
<1>1. PICK m \in Nat : m = Len(asked)
  BY LenProperties DEF DecideInv
<1>2. Len(asked') \in Nat /\ m <= Len(asked') /\ \A i \in 1..m : asked'[i] = asked[i]
  <2>1. CASE asked' = asked
    BY <1>1, <2>1
  <2>2. ASSUME NEW e \in Event, asked' = Append(asked, e)
        PROVE  Len(asked') = m + 1 /\ \A i \in 1..m : asked'[i] = asked[i]
    BY <1>1, <2>2, AppendProperties DEF DecideInv
  <2> QED BY <1>1, <2>1, <2>2
<1>3. PICK x \in Nat \ {0} : x = next /\ x <= m /\ next' = x + 1 /\ next' - 1 = x
  BY <1>1 DEF ReplyInv
<1>4. /\ 1..(next - 1) \subseteq 1..x /\ x \in 1..x /\ x \notin 1..(next - 1)
      /\ \A k \in 1..x : k \in 1..m /\ (k \in 1..(next - 1) \/ k = x)
  BY <1>3
<1>5. /\ told \subseteq [corr : 1..x, what : {"stub", "tools", "text"}] /\ lost \subseteq 1..x
      /\ ran \subseteq [corr : 1..x, tool : Whitelist]
      /\ \A t \in told : t.corr # x
      /\ x \notin lost
  <2>1. PICK Y : Y = 1..(next - 1)
    OBVIOUS
  <2>2. /\ told \subseteq [corr : Y, what : {"stub", "tools", "text"}] /\ lost \subseteq Y
        /\ ran \subseteq [corr : Y, tool : Whitelist] /\ Y \subseteq 1..x /\ x \notin Y
    BY <1>4, <2>1 DEF ReplyInv
  <2>3. told \subseteq [corr : 1..x, what : {"stub", "tools", "text"}] /\ \A t \in told : t.corr # x
    BY <2>2
  <2>4. ran \subseteq [corr : 1..x, tool : Whitelist]
    BY <2>2
  <2> QED BY <2>2, <2>3, <2>4
<1>6. /\ told' \subseteq [corr : 1..x, what : {"stub", "tools", "text"}] /\ lost' \subseteq 1..x
  <2>1. lost' \subseteq lost \cup {x}
    BY <1>3
  <2>2. ASSUME NEW t \in told', t \notin told PROVE t \in [corr : 1..x, what : {"stub", "tools", "text"}]
    <3>1. PICK what \in {"stub", "tools", "text"} : t = [corr |-> x, what |-> what]
      BY <1>3, <2>2
    <3> QED BY <1>4, <3>1
  <2> QED BY <1>4, <1>5, <2>1, <2>2
<1>7. ran' \subseteq [corr : 1..x, tool : Whitelist]
  BY <1>3, <1>4, <1>5
<1>8. ASSUME NEW k \in 1..(next' - 1), asked'[k].type # "elicitation"
      PROVE  Cardinality({t \in told' : t.corr = k}) = (IF k \in lost' THEN 0 ELSE 1)
  <2>1. k \in 1..x /\ asked'[k] = asked[k]
    BY <1>2, <1>3, <1>4
  <2>2. CASE k # x
    <3>1. k \in 1..(next - 1) /\ (k \in lost' <=> k \in lost)
      BY <1>3, <1>4, <2>1, <2>2
    <3>2. {t \in told' : t.corr = k} = {t \in told : t.corr = k}
      BY <1>3, <2>2
    <3> QED BY <1>8, <2>1, <3>1, <3>2 DEF ReplyInv, OneReply
  <2>3. CASE k = x
    <3>1. CASE lost' = lost \cup {next} /\ told' = told
      <4>1. {t \in told' : t.corr = k} = {} /\ k \in lost'
        BY <1>3, <1>5, <2>3, <3>1
      <4> QED BY <4>1, FS_EmptySet
    <3>2. ASSUME NEW what, told' = told \cup {[corr |-> next, what |-> what]}, lost' = lost
          PROVE  Cardinality({t \in told' : t.corr = k}) = (IF k \in lost' THEN 0 ELSE 1)
      <4>1. {t \in told' : t.corr = k} = {[corr |-> next, what |-> what]} /\ k \notin lost'
        BY <1>3, <1>5, <2>3, <3>2
      <4> QED BY <4>1, FS_Singleton
    <3> QED BY <1>3, <1>8, <2>1, <2>3, <3>1, <3>2
  <2> QED BY <2>2, <2>3
<1>9. ASSUME NEW r \in ran' PROVE r.corr \in lost' \/ [corr |-> r.corr, what |-> "tools"] \in told'
  <2>1. CASE r \in ran
    BY <2>1 DEF ReplyInv, OneReply
  <2>2. CASE r \in {[corr |-> next, tool |-> t] : t \in tools}
    <3>1. r.corr = next /\ tools # {}
      BY <2>2
    <3> QED BY <3>1
  <2> QED BY <1>9, <2>1, <2>2
<1>10. {r.tool : r \in ran'} \subseteq Whitelist
  BY <1>7
<1>11. next' - 1 <= Len(asked')
  BY <1>2, <1>3
<1>12. OneReply'
  BY <1>8, <1>9, <1>10 DEF OneReply
<1>13. next' \in Nat \ {0} /\ 1..(next' - 1) = 1..x
  BY <1>3
<1> QED BY <1>6, <1>7, <1>11, <1>12, <1>13 DEF ReplyInv

LEMMA ReplyStep == DecideInv /\ ReplyInv /\ [QuestionsNext]_questionsVars => ReplyInv'
<1> SUFFICES ASSUME DecideInv, ReplyInv, [QuestionsNext]_questionsVars PROVE ReplyInv'
  OBVIOUS
<1>0. PICK m \in Nat : m = Len(asked)
  BY LenProperties DEF DecideInv
<1>1. [type |-> "chat"] \in Event /\ [type |-> "human_query"] \in Event
      /\ \A p \in Payload : [type |-> "elicitation", payload |-> p] \in Event
  BY DEF Event
<1>2. {} \in SUBSET Whitelist /\ {[corr |-> next, tool |-> t] : t \in {}} = {}
  OBVIOUS
<1>3. CASE Write
  BY <1>1, <1>3, NothingAnswered DEF Write, Emitted, ReplyInv
<1>4. ASSUME NEW p \in Payload, WorkerAsks(p) PROVE ReplyInv'
  BY <1>1, <1>4, NothingAnswered DEF WorkerAsks, Emitted, ReplyInv
<1>5. CASE Elicit
  <2>1. /\ next <= Len(asked) /\ asked[next].type = "elicitation" /\ next' = next + 1 /\ call' = "none"
        /\ UNCHANGED <<told, ran, lost>>
        /\ asked' = asked \/ asked' = Append(asked, [type |-> "human_query"])
    BY <1>5 DEF Elicit, Dispatched
  <2> QED BY <1>1, <1>2, <2>1, OneAnswered
<1>6. ASSUME NEW type \in {"chat", "human_query"}, Route(type) PROVE ReplyInv'
  <2>1. next <= Len(asked) /\ asked' = asked /\ ran' = ran /\ call = "none"
    BY <1>6 DEF Route, Dispatched
  <2>2. CASE Stub /\ UNCHANGED <<call, lost>>
    BY <1>2, <2>1, <2>2, OneAnswered DEF Stub
  <2>3. CASE call' = "awaited" /\ UNCHANGED <<next, told, lost>>
    BY <2>1, <2>3, NothingAnswered
  <2>4. CASE lost' = lost \cup {next} /\ next' = next + 1 /\ UNCHANGED <<call, told>>
    BY <1>2, <2>1, <2>4, OneAnswered
  <2> QED BY <1>6, <2>2, <2>3, <2>4 DEF Route
<1>7. CASE CallFails
  <2>1. next <= Len(asked) /\ asked' = asked /\ ran' = ran /\ call' = "none" /\ Stub /\ lost' = lost
    BY <1>7 DEF CallFails, ReplyInv
  <2> QED BY <1>2, <2>1, OneAnswered DEF Stub
<1>8. CASE Respond
  <2>1. next <= Len(asked) /\ asked' = asked /\ call' = "none" /\ next' = next + 1
    BY <1>8 DEF Respond, ReplyInv
  <2>2. PICK bs, c :
           LET raising == {i \in Usable(bs) : bs[i].fate = "raises"}
               walked  == {i \in Usable(bs) : \A j \in raising : i <= j}
           IN /\ total' = total + c /\ Published(total + c)
              /\ ran' = ran \cup {[corr |-> next, tool |-> bs[i].tool] : i \in walked}
              /\ IF raising # {} THEN lost' = lost \cup {next} /\ UNCHANGED told
                 ELSE /\ told' = told \cup {[corr |-> next, what |-> IF walked # {} THEN "tools" ELSE "text"]}
                      /\ UNCHANGED lost
    BY <1>8 DEF Respond
  <2>3. PICK raising : raising = {i \in Usable(bs) : bs[i].fate = "raises"}
    OBVIOUS
  <2>4. PICK walked :
           /\ walked = {i \in Usable(bs) : \A j \in raising : i <= j}
           /\ ran' = ran \cup {[corr |-> next, tool |-> bs[i].tool] : i \in walked}
           /\ IF raising # {} THEN lost' = lost \cup {next} /\ UNCHANGED told
              ELSE /\ told' = told \cup {[corr |-> next, what |-> IF walked # {} THEN "tools" ELSE "text"]}
                   /\ UNCHANGED lost
    BY <2>2, <2>3
  <2>5. PICK tools : tools = {bs[i].tool : i \in walked}
    OBVIOUS
  <2>6. tools \in SUBSET Whitelist /\ (tools # {} <=> walked # {})
    BY <2>4, <2>5 DEF Usable
  <2>7. {[corr |-> next, tool |-> bs[i].tool] : i \in walked} = {[corr |-> next, tool |-> t] : t \in tools}
    BY <2>5
  <2>8. PICK what \in {"tools", "text"} : what = IF walked # {} THEN "tools" ELSE "text"
    OBVIOUS
  <2> QED BY <2>1, <2>4, <2>6, <2>7, <2>8, OneAnswered
<1>9. ASSUME NEW c \in Cost, WorkerSpends(c) PROVE ReplyInv'
  BY <1>9, NothingAnswered DEF WorkerSpends, ReplyInv
<1>10. CASE UNCHANGED questionsVars
  BY <1>10, NothingAnswered DEF questionsVars, ReplyInv
<1> QED BY <1>3, <1>4, <1>5, <1>6, <1>7, <1>8, <1>9, <1>10 DEF QuestionsNext

LEMMA QuestionsInvInitially == QuestionsInit => DecideInv /\ ReplyInv
<1> SUFFICES ASSUME QuestionsInit PROVE DecideInv /\ ReplyInv
  OBVIOUS
<1>1. /\ asked = <<>> /\ next = 1 /\ call = "none" /\ auto = [s \in Stories |-> 0] /\ audit = <<>>
      /\ told = {} /\ ran = {} /\ lost = {}
  BY DEF QuestionsInit, Stories
<1>2. asked \in Seq(Event) /\ audit \in Seq([payload : Payload, action : Action]) /\ Len(asked) = 0
  BY <1>1, EmptySeq
<1>3. DOMAIN asked = {} /\ DOMAIN audit = {}
  BY <1>1
<1>4. EscalateRows = {} /\ QueriesIn(asked) = {} /\ \A s : AutoRows(s) = {}
  BY <1>3 DEF EscalateRows, QueriesIn, AutoRows
<1>5. \A s \in Stories \ {NoStory} : Cardinality(AutoRows(s)) = auto[s] /\ auto[s] <= MaxAuto
  <2>1. Cardinality({}) = 0 /\ 0 <= MaxAuto
    BY FS_EmptySet, QuestionsAssumption
  <2> QED BY <1>1, <1>4, <2>1
<1>6. DecideInv
  BY <1>1, <1>2, <1>3, <1>4, <1>5 DEF DecideInv
<1>7. 1..(next - 1) = {}
  BY <1>1
<1>8. OneReply
  BY <1>1, <1>7 DEF OneReply
<1>9. ReplyInv
  BY <1>1, <1>2, <1>7, <1>8 DEF ReplyInv
<1> QED BY <1>6, <1>9

LEMMA DecideInvHolds == DecideInv => HumansDecide
<1> SUFFICES ASSUME DecideInv PROVE HumansDecide
  OBVIOUS
<1>1. DOMAIN auto = Stories
  BY DEF DecideInv
<1>2. \A s \in DOMAIN auto \ {NoStory} : Cardinality(AutoRows(s)) <= MaxAuto
  BY <1>1 DEF DecideInv
<1> QED BY <1>2 DEF DecideInv, HumansDecide, QueriesIn

\* For any questions, rules and judge, and any cap: who answers them.
THEOREM HumansAreAsked == QuestionsSpec => []HumansDecide
<1>1. QuestionsInit => DecideInv /\ ReplyInv
  BY QuestionsInvInitially
<1>2. DecideInv => HumansDecide
  BY DecideInvHolds
<1> QED BY <1>1, <1>2, DecideStep, ReplyStep, PTL DEF QuestionsSpec

\* For any response of the router's model: one answer to each question.
THEOREM RepliesAreOne == QuestionsSpec => []OneReply
<1>1. QuestionsInit => DecideInv /\ ReplyInv
  BY QuestionsInvInitially
<1>2. ReplyInv => OneReply
  BY DEF ReplyInv
<1> QED BY <1>1, <1>2, DecideStep, ReplyStep, PTL DEF QuestionsSpec

-----------------------------------------------------------------------------
\* One review of one story.  The metrics gathered from a stream: they are there
\* when some line has any, and no line says more than they do.
Gathers(acc, s) ==
  /\ acc.said \in BOOLEAN /\ acc.todo \in Nat
  /\ acc.said <=> \E i \in DOMAIN s : MetricsOf(s[i]).said
  /\ \A i \in DOMAIN s : MetricsOf(s[i]).said =>
       MetricsOf(s[i]).tags \subseteq acc.tags /\ MetricsOf(s[i]).todo <= acc.todo

ReviewInv ==
  /\ DOMAIN runnerLog = 1..Len(runnerLog) /\ Len(runnerLog) \in Nat
  /\ at \in {"spec", "quality", "judged", "cleared"} => stream \in Seq(Line) /\ Gathers(metrics, stream)
  /\ at \in {"quality", "judged", "cleared"} => spec \in Seq(Line) /\ Gathers(specMetrics, spec)
  /\ ApproveIsEarned

LEMMA LineMetrics ==
  ASSUME NEW l \in Line
  PROVE  MetricsOf(l).said \in BOOLEAN /\ MetricsOf(l).todo \in Nat
BY ReviewAssumption DEF RawLine, MetricsOf

LEMMA NothingGathered == <<>> \in Seq(Line) /\ Gathers(NoCounts, <<>>)
<1>1. PICK s, c : s = <<>> /\ c = NoCounts
  OBVIOUS
<1>2. s \in Seq(Line) /\ DOMAIN s = {}
  BY <1>1, EmptySeq
<1>3. c.said = FALSE /\ c.todo = 0
  BY <1>1 DEF NoCounts
<1>4. c.said <=> \E i \in DOMAIN s : MetricsOf(s[i]).said
  <2>1. ~(\E i \in DOMAIN s : MetricsOf(s[i]).said)
    BY <1>2
  <2> QED BY <1>3, <2>1
<1>5. \A i \in DOMAIN s : MetricsOf(s[i]).said =>
        MetricsOf(s[i]).tags \subseteq c.tags /\ MetricsOf(s[i]).todo <= c.todo
  BY <1>2
<1>6. c.said \in BOOLEAN /\ c.todo \in Nat
  <2>1. c.said \in BOOLEAN
    BY <1>3, Zenon
  <2> QED BY <1>3, <2>1
<1>7. Gathers(c, s)
  BY <1>4, <1>5, <1>6, Zenon DEF Gathers
<1> QED BY <1>1, <1>2, <1>7

\* The metrics of a line, and those of one more.
LEMMA GathersMore ==
  ASSUME NEW s \in Seq(Line), NEW l \in Line, Gathers(metrics, s)
  PROVE  Append(s, l) \in Seq(Line) /\ Gathers(Gathered(l), Append(s, l))
<1>1. PICK n, a, g, m : n = Len(s) /\ a = Append(s, l) /\ g = Gathered(l) /\ m = MetricsOf(l)
  OBVIOUS
<1>2. /\ n \in Nat /\ DOMAIN s = 1..n /\ a \in Seq(Line) /\ DOMAIN a = 1..(n + 1)
      /\ a[n + 1] = l /\ \A i \in 1..n : a[i] = s[i]
  BY <1>1, LenProperties, AppendProperties
<1>3. n + 1 \in 1..(n + 1) /\ \A i \in 1..(n + 1) : i \in 1..n \/ i = n + 1
  BY <1>2
<1>4. \A i \in 1..n : i \in 1..(n + 1)
  BY <1>2
<1>5. m.said \in BOOLEAN /\ m.todo \in Nat
  BY <1>1, LineMetrics
<1>6. metrics.said \in BOOLEAN /\ metrics.todo \in Nat
  BY DEF Gathers
<1>7. /\ g.said \in BOOLEAN /\ g.todo \in Nat /\ (g.said <=> m.said \/ metrics.said)
      /\ metrics.said => metrics.tags \subseteq g.tags /\ metrics.todo <= g.todo
      /\ m.said => m.tags \subseteq g.tags /\ m.todo <= g.todo
  <2>1. CASE ~m.said
    <3>1. g = metrics
      BY <1>1, <2>1 DEF Gathered
    <3> QED BY <1>5, <1>6, <2>1, <3>1
  <2>2. CASE m.said /\ ~metrics.said
    <3>1. g = m
      BY <1>1, <2>2 DEF Gathered, MergeMetrics
    <3>2. m.todo <= m.todo
      BY <1>5
    <3> QED BY <1>5, <2>2, <3>1, <3>2
  <2>3. CASE m.said /\ metrics.said
    <3>1. g.said = TRUE /\ g.todo = metrics.todo + m.todo /\ g.tags = metrics.tags \cup m.tags
      BY <1>1, <2>3 DEF Gathered, MergeMetrics
    <3>2. g.todo \in Nat /\ metrics.todo <= g.todo /\ m.todo <= g.todo
      BY <1>5, <1>6, <3>1
    <3> QED BY <2>3, <3>1, <3>2
  <2> QED BY <1>5, <1>6, <2>1, <2>2, <2>3
<1>8. g.said <=> \E i \in DOMAIN a : MetricsOf(a[i]).said
  BY <1>1, <1>2, <1>3, <1>4, <1>7 DEF Gathers
<1>9. ASSUME NEW i \in DOMAIN a, MetricsOf(a[i]).said
      PROVE  MetricsOf(a[i]).tags \subseteq g.tags /\ MetricsOf(a[i]).todo <= g.todo
  <2>1. CASE i \in 1..n
    <3>1. a[i] = s[i] /\ i \in DOMAIN s /\ s[i] \in Line
      BY <1>2, <2>1
    <3>2. MetricsOf(s[i]).todo \in Nat
      BY <3>1, LineMetrics
    <3>3. metrics.said /\ MetricsOf(s[i]).tags \subseteq metrics.tags /\ MetricsOf(s[i]).todo <= metrics.todo
      BY <1>9, <3>1 DEF Gathers
    <3>4. metrics.tags \subseteq g.tags /\ metrics.todo <= g.todo
      BY <1>7, <3>3
    <3>5. MetricsOf(s[i]).todo <= g.todo
      BY <1>6, <1>7, <3>2, <3>3, <3>4
    <3> QED BY <3>1, <3>3, <3>4, <3>5
  <2>2. CASE i = n + 1
    BY <1>1, <1>2, <1>7, <1>9, <2>2
  <2> QED BY <1>2, <1>3, <2>1, <2>2
<1> QED BY <1>1, <1>2, <1>7, <1>8, <1>9 DEF Gathers

\* A stream without a verdict is one all of whose lines are silent.
LEMMA SilentIsError ==
  ASSUME NEW s \in Seq(Line)
  PROVE  Silent(s) <=> StreamVerdict(s) = "error"
<1>1. PICK n, T : n = Len(s) /\ T = Spoken(s)
  OBVIOUS
<1>2. n \in Nat /\ DOMAIN s = 1..n
  BY <1>1, LenProperties
<1>3. CASE T = {}
  BY <1>1, <1>3 DEF Silent, Spoken, StreamVerdict
<1>4. CASE T # {}
  <2>1. T \in SUBSET (1..n)
    BY <1>1, <1>2 DEF Spoken
  <2>2. PICK i \in T : i = Max(T)
    BY <1>2, <1>4, <2>1, MaxIsIn
  <2>3. s[i] \in Line /\ VerdictOf(s[i]) # Unsaid
    BY <1>1, <1>2, <2>1, <2>2 DEF Spoken
  <2>4. VerdictOf(s[i]) \in CodeVerdict
    BY <2>3, ReviewAssumption DEF VerdictOf, RawLine
  <2>5. StreamVerdict(s) = VerdictOf(s[i])
    BY <1>1, <1>4, <2>2 DEF StreamVerdict
  <2>6. ~Silent(s)
    BY <1>1, <1>4 DEF Silent, Spoken
  <2> QED BY <2>4, <2>5, <2>6 DEF CodeVerdict
<1> QED BY <1>3, <1>4

\* The runner's logs approve only where the newest with a word says PASS.
LEMMA LogApproves ==
  ASSUME DOMAIN runnerLog = 1..Len(runnerLog), Len(runnerLog) \in Nat, LogVerdict = "approve"
  PROVE  \E i \in DOMAIN runnerLog : runnerLog[i] = "PASS" /\ \A j \in 1..(i - 1) : runnerLog[j] = Unsaid
<1>1. PICK T : T = {i \in DOMAIN runnerLog : runnerLog[i] # Unsaid}
  OBVIOUS
<1>2. T # {}
  BY <1>1 DEF LogVerdict, Unsaid
<1>3. PICK n \in Nat : n = Len(runnerLog)
  OBVIOUS
<1>4. T \in SUBSET Nat /\ T \subseteq 1..n
  BY <1>1, <1>3
<1>5. PICK i : i = Min(T)
  OBVIOUS
<1>6. i \in T /\ \A j \in T : i <= j
  BY <1>2, <1>4, <1>5, MinIsFirst
<1>7. runnerLog[i] = "PASS"
  BY <1>1, <1>2, <1>5 DEF LogVerdict
<1>8. ASSUME NEW j \in 1..(i - 1) PROVE runnerLog[j] = Unsaid
  <2>1. i \in 1..n /\ j \in 1..n /\ ~(i <= j)
    BY <1>4, <1>6
  <2>2. j \notin T
    BY <1>6, <2>1
  <2> QED BY <1>1, <1>3, <2>1, <2>2
<1> QED BY <1>1, <1>6, <1>7, <1>8

\* An approve with a silent reviewer is the log's.
LEMMA GateApproves ==
  ASSUME NEW s \in Seq(Line), NEW q \in Seq(Line), GateOf(s, q) = "approve", Silent(s) \/ Silent(q)
  PROVE  LogVerdict = "approve"
<1>1. StreamVerdict(s) = "error" \/ StreamVerdict(q) = "error"
  BY SilentIsError
<1>2. SpecVerdict(s) = "approve"
  BY DEF GateOf
<1>3. StreamVerdict(s) = "error"
  BY <1>1, <1>2 DEF GateOf
<1> QED BY <1>2, <1>3 DEF SpecVerdict

\* The verdict that clears a story for the security review.
LEMMA EmitKeeps == ASSUME ReviewInv, EmitVerdict PROVE ReviewInv'
<1>1. /\ at = "judged" /\ ~Held /\ at' \in {"cleared", "over"}
      /\ UNCHANGED <<stream, metrics, spec, specMetrics, runnerLog>>
  BY DEF EmitVerdict
<1>2. stream \in Seq(Line) /\ Gathers(metrics, stream) /\ spec \in Seq(Line) /\ Gathers(specMetrics, spec)
  BY <1>1 DEF ReviewInv
<1>3. ASSUME at' = "cleared" PROVE ApproveIsEarned'
  <2>0. PICK m : m = Metrics
    OBVIOUS
  <2>1. PICK diff, text, measured :
           /\ measured \in BOOLEAN /\ Gate = "approve"
           /\ ~(m.said /\ (P0Short(m) \/ TestsShort(m))) /\ ~(measured /\ DiffRefused(diff, text))
           /\ scope' = IF measured THEN [measured |-> TRUE, diff |-> diff, text |-> text] ELSE Unmeasured
    <3>1. PICK diff \in Diffs, text \in StoryText, iteration \in 1..(IterationCap + 1), measured, overridden \in BOOLEAN :
             LET tripped == \/ Metrics.said /\ (P0Short(Metrics) \/ TestsShort(Metrics))
                            \/ TooManyRounds(iteration)
                            \/ Summary(spec, stream) = "banned"
                            \/ measured /\ DiffRefused(diff, text)
                 v == IF Gate = "approve" /\ tripped THEN "reject" ELSE Gate
             IN /\ answer' = v
                /\ queries' = IF overridden /\ v # "approve" THEN queries \cup {"both_reviewers_rejected"} ELSE queries
                /\ at' = IF v = "approve" THEN "cleared" ELSE "over"
                /\ scope' = IF measured /\ v = "approve" THEN [measured |-> TRUE, diff |-> diff, text |-> text] ELSE Unmeasured
      BY DEF EmitVerdict
    <3> DEFINE tripped == \/ m.said /\ (P0Short(m) \/ TestsShort(m))
                          \/ TooManyRounds(iteration)
                          \/ Summary(spec, stream) = "banned"
                          \/ measured /\ DiffRefused(diff, text)
    <3>2. Gate = "approve" /\ ~tripped
      BY <1>3, <2>0, <3>1
    <3> QED BY <3>1, <3>2
  <2>2. ASSUME Silent(spec) \/ Silent(stream)
        PROVE  \E i \in DOMAIN runnerLog : runnerLog[i] = "PASS" /\ \A j \in 1..(i - 1) : runnerLog[j] = Unsaid
    BY <1>2, <2>1, <2>2, GateApproves, LogApproves DEF Gate, ReviewInv
  <2>3. PICK counting : counting = IF \A i \in DOMAIN stream : ~MetricsOf(stream[i]).said THEN spec ELSE stream
    OBVIOUS
  <2>4. counting \in Seq(Line) /\ Gathers(m, counting)
    BY <1>2, <2>0, <2>3 DEF Metrics, Gathers
  <2>5. ASSUME NEW i \in DOMAIN counting, MetricsOf(counting[i]).said
        PROVE  MetricsOf(counting[i]).tags \cap PolicyTags = {} /\ MetricsOf(counting[i]).todo = 0
    <3>1. m.said /\ m.todo \in Nat /\ MetricsOf(counting[i]).tags \subseteq m.tags
          /\ MetricsOf(counting[i]).todo <= m.todo
      BY <2>4, <2>5 DEF Gathers
    <3>2. m.tags \cap PolicyTags = {}
      BY <1>1, <2>0, <3>1 DEF Held, Forbidden
    <3>3. ~(m.todo > 0)
      BY <2>1, <3>1 DEF TestsShort
    <3>4. counting[i] \in Line
      BY <2>4, LenProperties, ElementOfSeq
    <3>5. MetricsOf(counting[i]).todo \in Nat
      BY <3>4, LineMetrics
    <3>6. MetricsOf(counting[i]).todo = 0
      BY <3>1, <3>3, <3>5
    <3> QED BY <3>1, <3>2, <3>6
  <2>6. ASSUME FileListOf(scope'.text) # {}
        PROVE  DOMAIN scope'.diff \subseteq {scope'.text[i].path : i \in DOMAIN scope'.text} \cup Infra
    <3>1. CASE measured
      <4>1. scope'.text = text /\ scope'.diff = diff
        BY <2>1, <3>1
      <4>2. DOMAIN diff \ InScope(diff, text) = {} /\ FileListOf(text) # {}
        BY <2>1, <2>6, <3>1, <4>1 DEF DiffRefused
      <4>3. DOMAIN diff \subseteq FileListOf(text) \cup Infra
        BY <4>2 DEF InScope, AllowList
      <4>4. FileListOf(text) \subseteq {text[i].path : i \in DOMAIN text}
        BY DEF FileListOf
      <4> QED BY <4>1, <4>3, <4>4
    <3>2. CASE ~measured
      <4>1. DOMAIN scope'.diff = {}
        BY <2>1, <3>2 DEF Unmeasured
      <4> QED BY <4>1
    <3> QED BY <2>1, <3>1, <3>2
  <2> QED BY <1>1, <2>2, <2>3, <2>5, <2>6 DEF ApproveIsEarned
<1> QED BY <1>1, <1>2, <1>3 DEF ReviewInv, ApproveIsEarned

LEMMA ReviewStep == ReviewInv /\ [ReviewNext]_reviewVars => ReviewInv'
<1> SUFFICES ASSUME ReviewInv, [ReviewNext]_reviewVars PROVE ReviewInv'
  OBVIOUS
<1>1. ASSUME NEW l \in Line, Hear(l) PROVE ReviewInv'
  <2>1. /\ at \in {"spec", "quality"} /\ stream' = Append(stream, l) /\ metrics' = Gathered(l)
        /\ UNCHANGED <<at, spec, specMetrics, runnerLog>>
    BY <1>1 DEF Hear
  <2>2. stream' \in Seq(Line) /\ Gathers(metrics', stream')
    BY <2>1, GathersMore DEF ReviewInv
  <2> QED BY <2>1, <2>2 DEF ReviewInv, ApproveIsEarned
<1>2. CASE EndSpec
  <2>1. /\ at = "spec" /\ spec' = stream /\ stream' = <<>> /\ specMetrics' = metrics /\ metrics' = NoCounts
        /\ at' \in {"quality", "judged"} /\ runnerLog' = runnerLog
    BY <1>2 DEF EndSpec
  <2>2. stream' \in Seq(Line) /\ Gathers(metrics', stream')
    BY <2>1, NothingGathered
  <2> QED BY <2>1, <2>2 DEF ReviewInv, ApproveIsEarned
<1>3. CASE EndQuality
  BY <1>3 DEF EndQuality, ReviewInv, ApproveIsEarned
<1>4. CASE RetryGate
  <2>1. /\ runnerLog' = runnerLog
        /\ \/ at' = "over"
           \/ at' = "spec" /\ stream' = <<>> /\ metrics' = NoCounts
    BY <1>4 DEF RetryGate
  <2>2. CASE at' = "over"
    BY <2>1, <2>2 DEF ReviewInv, ApproveIsEarned
  <2>3. CASE at' = "spec" /\ stream' = <<>> /\ metrics' = NoCounts
    <3>1. stream' \in Seq(Line) /\ Gathers(metrics', stream')
      BY <2>3, NothingGathered
    <3> QED BY <2>1, <2>3, <3>1 DEF ReviewInv, ApproveIsEarned
  <2> QED BY <2>1, <2>2, <2>3
<1>5. ASSUME at' \in {"over", "security"}, runnerLog' = runnerLog PROVE ReviewInv'
  BY <1>5 DEF ReviewInv, ApproveIsEarned
<1>6. CASE EmitSpecVerdict
  BY <1>5, <1>6 DEF EmitSpecVerdict
<1>7. CASE Compliance
  BY <1>5, <1>7 DEF Compliance
<1>8. CASE EmitVerdict
  BY <1>8, EmitKeeps
<1>9. CASE ScreenSecurity
  <2>1. at' \in {"over", "security"} /\ runnerLog' = runnerLog
    BY <1>9 DEF ScreenSecurity
  <2> QED BY <1>5, <2>1
<1>10. CASE EndSecurity
  <2>1. at' \in {"over", "security"} /\ runnerLog' = runnerLog
    BY <1>10 DEF EndSecurity
  <2> QED BY <1>5, <2>1
<1>11. ASSUME NEW l \in SecLine, HearSecurity(l) PROVE ReviewInv'
  BY <1>5, <1>11 DEF HearSecurity
<1>12. CASE UNCHANGED reviewVars
  BY <1>12 DEF reviewVars, ReviewInv, ApproveIsEarned
<1> QED BY <1>1, <1>2, <1>3, <1>4, <1>6, <1>7, <1>8, <1>9, <1>10, <1>11, <1>12 DEF ReviewNext

\* For any streams of the reviewers, logs, policies and diffs: what an approve
\* that reaches the security review rests on.
THEOREM ApprovesAreEarned == ReviewSpec => []ApproveIsEarned
<1>1. ReviewInit => ReviewInv
  <2> SUFFICES ASSUME ReviewInit PROVE ReviewInv
    OBVIOUS
  <2>1. at = "spec" /\ stream = <<>> /\ metrics = NoCounts /\ runnerLog \in RunnerLogs
    BY DEF ReviewInit
  <2>2. DOMAIN runnerLog = 1..Len(runnerLog) /\ Len(runnerLog) \in Nat
    BY <2>1, ReviewAssumption, LenProperties
  <2> QED BY <2>1, <2>2, NothingGathered DEF ReviewInv, ApproveIsEarned
<1>2. ReviewInv => ApproveIsEarned
  BY DEF ReviewInv
<1> QED BY <1>1, <1>2, ReviewStep, PTL DEF ReviewSpec

=============================================================================
