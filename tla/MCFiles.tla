------------------------------ MODULE MCFiles -------------------------------
(***************************************************************************)
(* Those who rewrite files of a project or of the user's: specifications   *)
(* that share no state, explored by one run.  part says which of them      *)
(* runs; the others rest in one of their initial states.                   *)
(***************************************************************************)
EXTENDS Propagate, Vault, Policy, Skills, TLC

CONSTANTS p1, p2, a, b, f1

VARIABLE part

MCIgnored == {<<b, f1>>}
\* The default of --stamp.
MCStamp == [p \in Proc |-> "manual"]
MCAsks == [service |-> {0, 1}, command |-> {0}]
MCSymmetry == Permutations(Proc)

FilesInit ==
  /\ part \in {"propagate", "vault", "policy", "skills"}
  /\ PropagateInit /\ (part # "propagate" => disk = NoFiles)
  /\ VaultInit
  /\ part # "vault" => kinds = (CHOOSE k \in Followed : TRUE)
  /\ part # "vault" \/ "overlay" \notin kinds => canonO = "v1" /\ tO = "none"
  /\ part # "vault" \/ "fork" \notin kinds => canonF = {} /\ tF.edits = {}
  /\ PolicyInit /\ SkillsInit

FilesNext ==
  \/ part = "propagate" /\ PropagateNext /\ UNCHANGED <<part, allVars, policyVars, skillsVars>>
  \/ part = "vault" /\ VaultNext /\ UNCHANGED <<part, propagateVars, policyVars, skillsVars>>
  \/ part = "policy" /\ PolicyNext /\ UNCHANGED <<part, propagateVars, allVars, skillsVars>>
  \/ part = "skills" /\ SkillsNext /\ UNCHANGED <<part, propagateVars, allVars, policyVars>>

FilesSpec == FilesInit /\ [][FilesNext]_<<part, propagateVars, allVars, policyVars, skillsVars>>
=============================================================================
