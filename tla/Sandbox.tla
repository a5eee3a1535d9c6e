------------------------------- MODULE Sandbox -------------------------------
(***************************************************************************)
(* How a worker is started in isolation (runtime/sandbox.py): what the     *)
(* host offers and the operator asks for decide whether it starts, in      *)
(* bubblewrap or bare, in a cgroup scope or not, and a list of mounts,     *)
(* applied in order, decides what it finds at a path.  There are two ways  *)
(* in: the orchestrator's (detect_sandbox, then wrap_command) and the wrap *)
(* subcommand of the command line.                                         *)
(***************************************************************************)
EXTENDS Naturals, Sequences, FiniteSetsExt

\* What a worker finds; phases and flags lie below .claude.
WorkerPaths == {"worktree", "git", ".claude", ".claude.json", "phases", "flags", "installation"}

\* A host and what is asked of it.
Host == [require : BOOLEAN, confirmed : BOOLEAN, allow : BOOLEAN, scopeRequired : BOOLEAN,
         scopeOff : BOOLEAN, allowFs : BOOLEAN,                     \* settings
         backend : {"", "none", "bwrap"}, bwrap : {"missing", "old", "fine"},
         prlimit : BOOLEAN, scopes : BOOLEAN,                       \* what is installed
         limits : BOOLEAN,                                          \* the caller's wish
         docker : {"out", "in", "accepted"}, userns : BOOLEAN,
         pairs : BOOLEAN,                                           \* the --env arguments parse
         mode : {"copy", "bind", "overlayfs"},                      \* of the overlay
         home : {"unset", "bad", "fine"},                           \* the overlay given, and
         has : SUBSET {".claude", ".claude.json"},                  \* what it holds
         linked : BOOLEAN,                                          \* the worktree is a linked one
         flags : BOOLEAN,                                           \* the flag file is there
         tmp : SUBSET WorkerPaths,                                  \* what lies in /tmp,
         dark : SUBSET WorkerPaths,                                 \* below a blacked-out directory,
         readonly : SUBSET WorkerPaths]                             \* or a --readonly-path

CONSTANT Hosts
ASSUME SandboxAssumption == Hosts \subseteq Host

VARIABLES by,     \* "none", "detect", "wrap": the way the worker was started
          host,   \* the host it was started on
          started \* what came of it

sandboxVars == <<by, host, started>>

Refused == [as |-> "refused", scoped |-> FALSE]
Bare == [as |-> "bare", scoped |-> FALSE]
Isolated(scoped0) == [as |-> "isolated", scoped |-> scoped0]

Check(holds0, end0) == [holds |-> holds0, end |-> end0]

\* The checks are made in order, and the first that holds ends the start.
FirstOf(checks, else0) ==
  LET hit == {i \in DOMAIN checks : checks[i].holds}
  IN IF hit = {} THEN else0 ELSE checks[Min(hit)].end

\* detect_sandbox, the constructor of BwrapSandbox and what wrap_command raises.
\* A bare start leaves the limits of a scope out of account.
Detected(h) ==
  LET bare == h.backend = "none" \/ h.bwrap = "missing"
  IN FirstOf(<<Check(h.backend = "none" /\ ~h.confirmed, Refused),
               Check(bare /\ h.require, Refused),
               Check(bare, Bare),
               Check(~h.prlimit, Refused),
               Check(h.home = "bad", Refused),
               Check(h.limits /\ ~h.scopes /\ h.scopeRequired, Refused)>>,
             Isolated(h.limits /\ h.scopes))

\* The operator's wishes, before the host is looked at.
WishesRefused(h) == (h.require /\ h.allow) \/ (h.backend = "none" /\ ~h.allow)

DockerRefused(h) == h.docker = "in" /\ ~h.allow

\* bwrap --version fails, says nothing one can parse or a version below the floor.
TooOld(h) == h.bwrap = "old"

BwrapChecks(h) ==
  LET unfit == h.bwrap = "missing" \/ TooOld(h)
  IN <<Check(unfit /\ h.allow, Bare), Check(unfit, Refused)>>

\* overlayfs turns into copy where the kernel lets anyone make a user namespace.
ModeOf(h) == IF h.mode = "overlayfs" /\ h.userns /\ ~h.allowFs THEN "copy" ELSE h.mode

OptionsRefused(h) == ~h.pairs \/ ModeOf(h) # "copy" \/ h.home = "bad"

ScopeRefused(h) == h.scopeRequired /\ (h.scopeOff \/ ~h.scopes)

\* The subcommand.
Wrapped(h) ==
  FirstOf(<<Check(WishesRefused(h), Refused), Check(DockerRefused(h), Refused)>>
            \o BwrapChecks(h)
            \o <<Check(~h.prlimit, Refused), Check(OptionsRefused(h), Refused), Check(ScopeRefused(h), Refused)>>,
          Isolated(~h.scopeOff /\ h.scopes))

-----------------------------------------------------------------------------
(***************************************************************************)
(* The mounts, those of wrap_command in their order.  over is what a mount *)
(* covers (nothing when it is left out), from what is seen there.          *)
(***************************************************************************)
Mount(over0, from0, writable0) == [over |-> over0, from |-> from0, writable |-> writable0]

When(holds0, over0) == IF holds0 THEN over0 ELSE {}
Below(path) == {path} \cup When(path = ".claude", {"phases", "flags"})

\* The host's tree read-only, over it an empty /tmp and the worktree.
Root == Mount(WorkerPaths, "host", FALSE)
Tmp(h) == Mount(h.tmp, "empty", TRUE)
Worktree == Mount({"worktree"}, "host", TRUE)

\* A linked worktree commits to the store of the repository it is linked to.
CommitStore(h) == Mount(When(h.linked, {"git"}), "host", TRUE)

\* _SANDBOX_BLACKOUT_PATHS.
BlackedOut(h) == Mount(h.dark, "empty", TRUE)

\* Claude's own state: the worker's copy where it was given one, else the
\* host's; what a copy lacks is not mounted.  The installation is the host's.
StateMount(h, path) ==
  IF h.home = "unset" THEN Mount(Below(path), "host", TRUE)
  ELSE Mount(When(path \in h.has, Below(path)), "own", TRUE)

Installation == Mount({"installation"}, "host", TRUE)

\* What the supervisor owns below .claude, over what was just mounted.
Phases == Mount({"phases"}, "empty", TRUE)
Flags(h) == Mount(When(h.flags, {"flags"}), "host", FALSE)

\* The orchestrator names no read-only path.
Fixed(h, way) == When(way = "wrap", h.readonly)
ReadOnly(h, way) == Mount(Fixed(h, way), "host", FALSE)

\* Mutant: all blackouts in one pass, before Claude's state.
OnePass(h, way) ==
  <<Root, Tmp(h), Worktree, CommitStore(h), BlackedOut(h), Phases, Flags(h),
    StateMount(h, ".claude"), StateMount(h, ".claude.json"), Installation, ReadOnly(h, way)>>

Mounts(h, way) ==
  <<Root, Tmp(h), Worktree, CommitStore(h), BlackedOut(h),
    StateMount(h, ".claude"), StateMount(h, ".claude.json"), Installation, Phases, Flags(h), ReadOnly(h, way)>>

\* A later mount hides what an earlier one showed.
Seen(h, way, path) ==
  LET mounts == Mounts(h, way)
  IN mounts[Max({i \in DOMAIN mounts : path \in mounts[i].over})]

-----------------------------------------------------------------------------
SandboxInit == by = "none" /\ host \in Hosts /\ started = Refused

Start ==
  /\ by = "none" /\ host' = host
  /\ \/ by' = "detect" /\ started' = Detected(host)
     \/ by' = "wrap" /\ started' = Wrapped(host)

SandboxSpec == SandboxInit /\ [][Start]_sandboxVars

\* A worker runs bare only where nothing requires isolation and somebody has
\* agreed to it (or, for the orchestrator, where bubblewrap is not there).  An
\* isolated one is in a scope where one is required, can write its worktree and
\* commit unless these are blacked out or fixed as read-only, has the state of
\* Claude it was given for itself and the installation wherever the home lies,
\* and cannot write what the supervisor owns below that state (detect_sandbox,
\* _cmd_wrap and the order of the mounts of wrap_command).
StartedAsPromised ==
  /\ started.as = "bare" => /\ ~host.require
                            /\ by = "wrap" => host.allow
                            /\ by = "detect" /\ host.bwrap # "missing" => host.confirmed
  /\ started.as = "isolated" =>
       /\ host.scopeRequired /\ (by = "detect" => host.limits) => started.scoped
       /\ "worktree" \notin host.dark \cup Fixed(host, by) => Seen(host, by, "worktree") = Worktree
       /\ host.linked /\ "git" \notin host.dark \cup Fixed(host, by) => Seen(host, by, "git").writable
       /\ host.home = "fine" => \A path \in host.has \ Fixed(host, by) : Seen(host, by, path).from = "own"
       /\ Seen(host, by, "installation").from = "host"
       /\ Seen(host, by, "phases").writable => Seen(host, by, "phases").from = "empty"
       /\ host.flags => ~Seen(host, by, "flags").writable
=============================================================================
