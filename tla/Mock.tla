-------------------------------- MODULE Mock --------------------------------
(***************************************************************************)
(* The mock pilot (agent/run.py, _run_mock_pilot): rounds over the stories *)
(* that are ready, a budget of the day that is counted in the pilot, a     *)
(* reservation for each story, and sprint-status rewritten after each      *)
(* round.  A mock worker completes its story at once.                      *)
(***************************************************************************)
EXTENDS Naturals, Sequences, FiniteSets, SequencesExt

CONSTANTS Wave,      \* the stories, in the order of the graph's nodes
          Needs,     \* what each of them depends on
          Parallel,  \* max_parallel
          MaxRounds, \* max_rounds
          Refusing,  \* stories whose own budget has no room for one more reserve
          MockDays,  \* what the day's limit may be, in reserves
          Parked,    \* stories of a status that is neither done nor to be done
          Misspelt   \* stories whose id is not the key sprint-status has for them

ASSUME MockAssumption ==
  /\ Parallel \in Nat /\ MaxRounds \in Nat /\ MockDays \subseteq Nat
  /\ Wave \in Seq(ToSet(Wave)) /\ IsInjective(Wave)

VARIABLES
  doneAtFirst, marked, \* stories sprint-status calls done
  mocked,   \* stories completed, in that order
  left,     \* what is left of the round, by the place in Wave
  spentDay, dayLimit,
  round,
  mockAt,   \* "round", "batch", "over"
  dayHalt,  \* the day's limit was met
  waveTold  \* what WAVE_BOUNDARY_REACHED said, or <<>>

mockVars == <<doneAtFirst, marked, mocked, left, spentDay, dayLimit, round, mockAt, dayHalt, waveTold>>

MockInit ==
  /\ doneAtFirst \in SUBSET ToSet(Wave) /\ marked = doneAtFirst
  /\ dayLimit \in MockDays
  /\ mocked = <<>> /\ left = {} /\ spentDay = 0 /\ round = 0
  /\ mockAt = "round" /\ dayHalt = FALSE /\ waveTold = <<>>

-----------------------------------------------------------------------------
\* The first n.
Cut(places, n) == {i \in places : Cardinality({j \in places : j < i}) < n}

\* find_ready, which cuts its list before those spawned are taken out.
MockReady ==
  LET ready == {i \in DOMAIN Wave : Wave[i] \notin marked \cup Parked /\ Needs[Wave[i]] \subseteq marked}
  IN {i \in Cut(ready, 2 * Parallel) : Wave[i] \notin ToSet(mocked)}

StartRound ==
  /\ mockAt = "round" /\ round < MaxRounds /\ ~dayHalt /\ MockReady # {}
  /\ left' = Cut(MockReady, Parallel) /\ mockAt' = "batch"
  /\ UNCHANGED <<doneAtFirst, marked, mocked, spentDay, dayLimit, round, dayHalt, waveTold>>

\* enforce_day halts at its limit and leaves the round; the status is written
\* all the same.
HaltDay ==
  /\ mockAt = "batch" /\ left # {} /\ spentDay + 1 >= dayLimit
  /\ dayHalt' = TRUE /\ left' = {}
  /\ UNCHANGED <<doneAtFirst, marked, mocked, spentDay, dayLimit, round, mockAt, waveTold>>

\* A story that is refused has been counted for the day.
MockStory ==
  /\ mockAt = "batch" /\ left # {} /\ spentDay + 1 < dayLimit
  /\ spentDay' = spentDay + 1
  /\ \E i \in left :
       /\ \A j \in left : i <= j
       /\ left' = left \ {i}
       /\ mocked' = IF Wave[i] \in Refusing THEN mocked ELSE Append(mocked, Wave[i])
  /\ UNCHANGED <<doneAtFirst, marked, dayLimit, round, mockAt, dayHalt, waveTold>>

\* Mutant: the day's halt leaves before sprint-status is written.
EndUnmarked ==
  /\ mockAt = "batch" /\ left = {}
  /\ marked' = IF dayHalt THEN marked ELSE marked \cup (ToSet(mocked) \ Misspelt)
  /\ round' = round + 1 /\ mockAt' = "round"
  /\ UNCHANGED <<doneAtFirst, mocked, left, spentDay, dayLimit, dayHalt, waveTold>>

\* Those completed are marked where the status has their id; the planner reads
\* it again.
EndRound ==
  /\ mockAt = "batch" /\ left = {}
  /\ marked' = marked \cup (ToSet(mocked) \ Misspelt)
  /\ round' = round + 1 /\ mockAt' = "round"
  /\ UNCHANGED <<doneAtFirst, mocked, left, spentDay, dayLimit, dayHalt, waveTold>>

\* Whatever ended the rounds, the boundary is reported.
Boundary ==
  /\ mockAt = "round" /\ (round >= MaxRounds \/ dayHalt \/ MockReady = {})
  /\ mockAt' = "over" /\ waveTold' = mocked
  /\ UNCHANGED <<doneAtFirst, marked, mocked, left, spentDay, dayLimit, round, dayHalt>>

MockNext == StartRound \/ HaltDay \/ MockStory \/ EndRound \/ Boundary
MockSpec == MockInit /\ [][MockNext]_mockVars

-----------------------------------------------------------------------------
\* When the boundary is reported sprint-status has gained just the stories
\* reported (of those it can name), each once and after all it depends on, and
\* the stories tried are worth less than the day's limit (_run_mock_pilot).
MockWave ==
  mockAt = "over" =>
    /\ marked = doneAtFirst \cup (ToSet(waveTold) \ Misspelt)
    /\ IsInjective(waveTold) /\ ToSet(waveTold) \cap doneAtFirst = {}
    /\ \A i \in DOMAIN waveTold :
         Needs[waveTold[i]] \subseteq doneAtFirst \cup {waveTold[j] : j \in 1..(i - 1)}
    /\ spentDay < dayLimit \/ spentDay = 0

=============================================================================
