--------------------------- MODULE MCPilotRounds ---------------------------
(***************************************************************************)
(* The rounds of a pilot, the supervisor and the file the planner reads:   *)
(* specifications that share no state, explored by one run.  part says     *)
(* which of them runs; the others rest in one of their initial states.     *)
(***************************************************************************)
EXTENDS PilotRounds, Supervisor, MCSprint, TLC

CONSTANTS a, b, c, d, f, g, h

VARIABLE part

ThePos     == (a :> 1) @@ (b :> 2) @@ (c :> 3) @@ (d :> 4)
TheDeps    == [s \in Story |-> IF s = c THEN {a} ELSE {}]
TheTouches == [s \in Story |-> IF s = c THEN {g} ELSE IF s = d THEN {g, h} ELSE {f}]

PilotInit ==
  /\ part \in {"rounds", "supervisor", "sprint"}
  /\ Init
  /\ part # "rounds" => status = [s \in Story |-> "backlog"] /\ ledger = [s \in Story |-> 0]
  /\ SupervisorInit
  /\ SprintInit /\ (part # "sprint" => tracked /\ layout = MCFlat.layout /\ sheet = MCFlat.rows)

\* Only the rounds have an end of their own; the others may rest for ever.
PilotNext ==
  \/ part = "rounds" /\ Next /\ UNCHANGED <<part, supervisorVars, sprintVars>>
  \/ part = "supervisor" /\ SupervisorNext /\ UNCHANGED <<part, vars, sprintVars>>
  \/ part = "sprint" /\ SprintNext /\ UNCHANGED <<part, vars, supervisorVars>>
  \/ part # "rounds" /\ UNCHANGED <<part, vars, supervisorVars, sprintVars>>

PilotSpec == PilotInit /\ [][PilotNext]_<<part, vars, supervisorVars, sprintVars>>
=============================================================================
