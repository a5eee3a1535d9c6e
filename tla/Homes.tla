-------------------------------- MODULE Homes --------------------------------
(***************************************************************************)
(* The private copies of Claude's state that workers run with.             *)
(*   A home (worker_spawn.py) is made for one worker of a pilot and taken  *)
(* away when it ends; those a dead pilot leaves behind go when another one *)
(* starts, by their age.                                                   *)
(*   A batch (runtime/sandbox.py) is copied once from the host, a master,  *)
(* and from the master for every worker; dispatchers of one batch prepare  *)
(* it side by side, and a preparation that fails or dies is tried again.   *)
(***************************************************************************)
EXTENDS Naturals, Sequences

CONSTANTS Pilot,      \* orchestrator processes of one user on one host
          Tenant,     \* workers of pilots, each with a home of its own
          Stale,      \* cleanup_stale_worker_homes: max_age_seconds
          Longest,    \* _worker_hard_timeout_sec: how long a worker may run
          Dispatcher, \* processes that prepare an overlay of the batch
          MaxVersion  \* bound: how often the host's files change

\* The hard timeout of a worker is well below the age at which a home is stale.
ASSUME HomesAssumption == Stale \in Nat /\ Longest \in Nat /\ Longest < Stale /\ MaxVersion \in Nat

VARIABLES pilots, \* the pilots that are up
          tenant  \* worker -> [of, runs, home, age]: its pilot, whether it runs,
                  \*   whether its home is there, how long ago that was made

homeVars == <<pilots, tenant>>

Nobody == [of |-> "nobody", runs |-> FALSE, home |-> FALSE, age |-> 0]

HomesInit == pilots = {} /\ tenant = [w \in Tenant |-> Nobody]

\* Mutant: a home is stale from the first moment on.
AnyAge(age) == TRUE

IsStale(age) == age >= Stale

\* _run_real_pilot starts by sweeping the homes under /tmp, whoever made them.
StartPilot(p) ==
  /\ p \notin pilots /\ pilots' = pilots \cup {p}
  /\ tenant' = [w \in Tenant |->
                  IF tenant[w].home /\ IsStale(tenant[w].age) THEN [tenant[w] EXCEPT !.home = FALSE]
                  ELSE tenant[w]]

\* A home is made, and then the worker's process: what is raised in between
\* leaves the home behind.  Nothing but its making changes the age of a home.
SpawnTenant(p, w) ==
  /\ p \in pilots /\ ~tenant[w].runs /\ ~tenant[w].home
  /\ \E runs0 \in BOOLEAN : tenant' = [tenant EXCEPT ![w] = [of |-> p, runs |-> runs0, home |-> TRUE, age |-> 0]]
  /\ UNCHANGED pilots

\* _wait_and_finalize: the worker has ended or was killed; its home is removed.
EndTenant(w) ==
  /\ tenant[w].runs /\ tenant[w].of \in pilots
  /\ tenant' = [tenant EXCEPT ![w] = Nobody]
  /\ UNCHANGED pilots

\* A pilot is killed, and its workers die with it (--die-with-parent).
KillPilot(p) ==
  /\ p \in pilots /\ pilots' = pilots \ {p}
  /\ tenant' = [w \in Tenant |-> IF tenant[w].of = p THEN [tenant[w] EXCEPT !.runs = FALSE] ELSE tenant[w]]

\* No worker outlives its timeout.  An age of Stale stands for all from there on.
HourPasses ==
  /\ \A w \in Tenant : tenant[w].runs => tenant[w].age < Longest
  /\ tenant' = [w \in Tenant |-> IF tenant[w].home /\ tenant[w].age < Stale
                                 THEN [tenant[w] EXCEPT !.age = @ + 1] ELSE tenant[w]]
  /\ UNCHANGED pilots

HomesNext ==
  \/ HourPasses
  \/ \E p \in Pilot : StartPilot(p) \/ KillPilot(p) \/ \E w \in Tenant : SpawnTenant(p, w)
  \/ \E w \in Tenant : EndTenant(w)

HomesSpec == HomesInit /\ [][HomesNext]_homeVars

\* The home of a worker that runs is there, whatever pilots start and die beside
\* its own (cleanup_stale_worker_homes: "an in-flight sibling pilot ... is never
\* touched").
LiveHomesKept == \A w \in Tenant : tenant[w].runs => tenant[w].home

-----------------------------------------------------------------------------
(***************************************************************************)
(* The batch.  A path is copied in two pieces, and a tree maps each path   *)
(* to the versions its pieces were read at: none, one (the copy is not     *)
(* done, or died there) or two.                                            *)
(***************************************************************************)
Copied == <<".claude", ".claude.json">>
Paths == {Copied[i] : i \in DOMAIN Copied}
EmptyTree == [path \in Paths |-> <<>>]
Unhashed == [path \in Paths |-> <<0>>]

VARIABLES version,  \* path -> the version of the host's
          master,   \* the tree of master-snapshot
          hash,     \* .snapshot.sha256: the tree it was computed from, or Unhashed
          batchLock,\* the dispatchers that hold .batch-snapshot.lock
          prep,     \* dispatcher -> [pc, at, half]: where it is in its preparation
          overlay,  \* dispatcher -> the tree of its worker's overlay
          torn,     \* history: dispatchers whose own copy once died half done
          batch     \* "there", or "gone": cleaned up, or swept by its age

batchVars == <<version, master, hash, batchLock, prep, overlay, torn, batch>>

BatchInit ==
  /\ version = [path \in Paths |-> 1] /\ master = EmptyTree /\ hash = Unhashed
  /\ batchLock = {} /\ torn = {} /\ batch = "there"
  /\ prep = [d \in Dispatcher |-> [pc |-> "idle", at |-> 1, half |-> FALSE]]
  /\ overlay = [d \in Dispatcher |-> EmptyTree]

At(d) == Copied[prep[d].at]
Working(d, pc0) == batch = "there" /\ prep[d].pc = pc0
Goes(d, pc0) == prep' = [prep EXCEPT ![d] = [pc |-> pc0, at |-> 1, half |-> FALSE]]

\* One step of copying what source holds at the path into tree: a path that is
\* there already is taken as copied.  last is the piece after which it is done.
Skips(d, tree, last) == ~prep[d].half /\ (tree[At(d)] # <<>> \/ last = 0)

CopyOf(d, tree, source, last) ==
  IF Skips(d, tree, last) THEN tree ELSE [tree EXCEPT ![At(d)] = Append(@, source)]

Advance(d, tree, last) ==
  LET done == Skips(d, tree, last) \/ Len(tree[At(d)]) + 1 = last
  IN prep' = [prep EXCEPT ![d].at = IF done THEN @ + 1 ELSE @, ![d].half = ~done]

\* _prepare_overlays_master: what is there with its hash is used as it is.
OpenBatch(d) ==
  /\ Working(d, "idle")
  /\ Goes(d, IF hash # Unhashed /\ master[".claude"] # <<>> THEN "own" ELSE "waits")
  /\ UNCHANGED <<version, master, hash, batchLock, overlay, torn, batch>>

\* Mutant: the master is copied without the lock.
TakeNoLock(d) == batchLock' = batchLock \cup {d}

LockBatch(d) == batchLock = {} /\ batchLock' = {d}

EnterBatch(d) ==
  /\ Working(d, "waits") /\ LockBatch(d) /\ Goes(d, "copies")
  /\ UNCHANGED <<version, master, hash, overlay, torn, batch>>

\* cp -R from the host, whose Claude writes on and takes no lock.
CopyMaster(d) ==
  /\ Working(d, "copies") /\ prep[d].at <= Len(Copied)
  /\ master' = CopyOf(d, master, version[At(d)], 2) /\ Advance(d, master, 2)
  /\ UNCHANGED <<version, hash, batchLock, overlay, torn, batch>>

LeaveBatch(d) ==
  /\ Working(d, "copies") /\ prep[d].at > Len(Copied)
  /\ batchLock' = batchLock \ {d} /\ Goes(d, "hashes")
  /\ UNCHANGED <<version, master, hash, overlay, torn, batch>>

HashMaster(d) ==
  /\ Working(d, "hashes") /\ hash' = master /\ Goes(d, "own")
  /\ UNCHANGED <<version, master, batchLock, overlay, torn, batch>>

\* _prepare_overlay_for_worker: cp -R from the master.
CopyOwn(d) ==
  /\ Working(d, "own") /\ prep[d].at <= Len(Copied)
  /\ LET pieces == master[At(d)]
         last == Len(pieces)
         next == IF Skips(d, overlay[d], last) THEN 0 ELSE pieces[Len(overlay[d][At(d)]) + 1]
     IN overlay' = [overlay EXCEPT ![d] = CopyOf(d, @, next, last)] /\ Advance(d, overlay[d], last)
  /\ UNCHANGED <<version, master, hash, batchLock, torn, batch>>

Ready(d) == prep[d].pc = "own" /\ prep[d].at > Len(Copied)

\* cp fails, or the process dies: the lock goes, what was copied stays, and the
\* preparation may be tried again.
PrepDies(d) ==
  /\ batch = "there" /\ prep[d].pc # "idle" /\ ~Ready(d)
  /\ Goes(d, "idle") /\ batchLock' = batchLock \ {d}
  /\ torn' = IF prep[d].pc = "own" /\ prep[d].half THEN torn \cup {d} ELSE torn
  /\ UNCHANGED <<version, master, hash, overlay, batch>>

HostWrites(path) ==
  /\ version[path] < MaxVersion /\ version' = [version EXCEPT ![path] = @ + 1]
  /\ UNCHANGED <<master, hash, batchLock, prep, overlay, torn, batch>>

\* _cleanup_overlays when the batch is over, or _sweep_stale_overlays of a later
\* start, which goes by the age of the directory alone.  What a preparation that
\* is under way meets then is left out.
RemoveBatch ==
  /\ batch = "there" /\ batch' = "gone"
  /\ master' = EmptyTree /\ hash' = Unhashed /\ overlay' = [d \in Dispatcher |-> EmptyTree]
  /\ UNCHANGED <<version, batchLock, prep, torn>>

BatchNext ==
  \/ RemoveBatch
  \/ \E path \in Paths : HostWrites(path)
  \/ \E d \in Dispatcher : \/ OpenBatch(d) \/ EnterBatch(d) \/ CopyMaster(d) \/ LeaveBatch(d)
                           \/ HashMaster(d) \/ CopyOwn(d) \/ PrepDies(d)

BatchSpec == BatchInit /\ [][BatchNext]_batchVars

\* All workers of a batch start from one snapshot, the one whose hash is on
\* record, whoever prepared first and whatever the host's Claude wrote meanwhile
\* (_prepare_overlays_master, "concurrent-safety"; a worker whose own copy died
\* half done and was tried again is out of it: what is there is taken as copied).
SameSnapshot ==
  \A d \in Dispatcher : batch = "there" /\ Ready(d) /\ d \notin torn => overlay[d] = hash /\ hash = master

\* What a worker is given of Claude's state is there and whole as long as it may
\* need it: its home while it runs, its batch's snapshot while the batch lasts.
WorkersHaveState == LiveHomesKept /\ SameSnapshot
=============================================================================
