------------------------------- MODULE Skills --------------------------------
(***************************************************************************)
(* skill-update --apply (runtime/skill_update.py): the tree                *)
(* skills/upstream is moved aside to upstream.backup, a new one is copied  *)
(* from its source and patched, and on an error the old one is moved back. *)
(* The version file is in the tree, moves with it and is written last.     *)
(* The command may be killed at any point (a Ctrl-C is no Exception and    *)
(* is not caught either) and run again.                                    *)
(***************************************************************************)
CONSTANT SourceVersioned  \* the source has a version file of its own

ASSUME SkillsAssumption == SourceVersioned \in BOOLEAN

VARIABLES upstream, saved, \* the two trees
          step             \* where the command is; "idle"

skillsVars == <<upstream, saved, step>>

\* A tree is "none", "part", "raw" (complete and not patched) or "whole"; its
\* version file is "none", "torn" or "good".
NoTree == [is |-> "none", version |-> "none"]

SkillsInit ==
  /\ upstream = [is |-> "whole", version |-> "good"] /\ saved = NoTree /\ step = "idle"

\* Mutant: with --source the version file is not looked at.
BeginAnyhow == step = "idle" /\ step' = "begun" /\ UNCHANGED <<upstream, saved>>

\* read_bmad_version, whose error ends the command, _resolve_source, compute_diff.
Begin == step = "idle" /\ upstream.version = "good" /\ step' = "begun" /\ UNCHANGED <<upstream, saved>>

\* An old backup is removed; shutil.rmtree takes its time.
RemoveSaved ==
  /\ step = "begun"
  /\ IF saved.is = "none" THEN step' = "cleared" /\ UNCHANGED saved
     ELSE \/ saved' = [is |-> "part", version |-> "none"] /\ UNCHANGED step
          \/ saved' = NoTree /\ step' = "cleared"
  /\ UNCHANGED upstream

MoveAway == /\ step = "cleared" /\ step' = "copying"
            /\ saved' = upstream /\ upstream' = NoTree

Copied == IF SourceVersioned THEN "good" ELSE "none"

\* copytree, which may fail.
Copy ==
  /\ step = "copying"
  /\ \/ upstream' = [is |-> "part", version |-> Copied] /\ step' \in {"copying", "restoring"}
     \/ upstream' = [is |-> "raw", version |-> Copied] /\ step' = "patching"
  /\ UNCHANGED saved

\* apply_patches: patch by patch; a conflict is reported in a file and raised.
Patch ==
  /\ step = "patching"
  /\ \/ upstream' = [upstream EXCEPT !.is = "whole"] /\ step' = "tidying"
     \/ UNCHANGED upstream /\ step' = "restoring"
  /\ UNCHANGED saved

\* except Exception: the new tree is removed, which may fail, and the old one
\* moved back.
Restore ==
  /\ step = "restoring"
  /\ \/ upstream.is # "none" /\ upstream' = [is |-> "part", version |-> "none"]
        /\ step' \in {"restoring", "idle"} /\ UNCHANGED saved
     \/ upstream' = saved /\ saved' = NoTree /\ step' = "idle"

Tidy == /\ step = "tidying"
        /\ \/ saved' = [is |-> "part", version |-> "none"] /\ step' \in {"tidying", "idle"}
           \/ saved' = NoTree /\ step' = "writing"
        /\ UNCHANGED upstream

\* write_bmad_version, in place.
WriteVersion ==
  /\ step = "writing"
  /\ \/ upstream' = [upstream EXCEPT !.version = "torn"] /\ UNCHANGED step
     \/ upstream' = [upstream EXCEPT !.version = "good"] /\ step' = "idle"
  /\ UNCHANGED saved

Killed == step # "idle" /\ step' = "idle" /\ UNCHANGED <<upstream, saved>>

SkillsNext == Begin \/ RemoveSaved \/ MoveAway \/ Copy \/ Patch \/ Restore \/ Tidy
              \/ WriteVersion \/ Killed

SkillsSpec == SkillsInit /\ [][SkillsNext]_skillsVars

-----------------------------------------------------------------------------
\* However often the command is killed and run again, one of the two places
\* holds a tree that is complete and patched: no run removes the backup an
\* earlier one has left unless what is in place is good.
TreeKept == upstream.is = "whole" \/ saved.is = "whole"

=============================================================================
