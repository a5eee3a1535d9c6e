------------------------------- MODULE Vault --------------------------------
(***************************************************************************)
(* overlay_sync capture, init-project and post-upgrade                     *)
(* (tools/overlay_sync.py): artifacts of the canonical project are         *)
(* captured into a vault, file by file, and installed from the vault's     *)
(* working tree into a target project.  One overlay stands for the         *)
(* overlays and for the files of the own skill, which are captured and     *)
(* installed alike; one step file stands for the forks.                    *)
(*                                                                         *)
(* A step file is an upstream version with edits on it.  A fork is kept as *)
(* a patch or as a snapshot; these files, unlike overlays, are written in  *)
(* place, so that a capture that is killed leaves one torn.                *)
(***************************************************************************)
EXTENDS Naturals, FiniteSets

CONSTANTS Edit,          \* edits of the canonical step file
          Dense,         \* those that touch half of the file, or whose patch does
                         \* not lead back to it: kept as a snapshot
          MaxUp,         \* bound: upstream versions; 0 is the pinned one
          Followed,      \* bound: the sets of artifacts followed at once
          ExemptOverlay  \* the overlay is exempt in the target

\* An edit is none of the words that stand for the state of a file.
ASSUME VaultAssumption ==
  /\ Dense \subseteq Edit /\ MaxUp \in Nat
  /\ Edit \cap {"none", "torn", "fails", "local"} = {}
  /\ Followed \subseteq SUBSET {"overlay", "fork"} /\ ExemptOverlay \in BOOLEAN

Overlay == {"v1", "bad"}       \* "bad" is not TOML
None == {"none"}               \* no such file
Torn == {"torn"}               \* written in part, or empty
Canonical == {{}} \cup {{e} : e \in Edit}
Local == {"local"}             \* an edit of the target's owner

VARIABLES kinds,          \* the artifacts followed
          canonO, canonF, \* the canonical overlay, and the edits of its step file
          vO, snap, patch, \* files of the vault
          manifest,       \* what manifest.yaml lists
          cpc, items, got, failed, \* the capture
          tO, tF, tClean, \* files of the target, and whether both are committed
          ipc, mode, loaded, planO, planF,   \* the installation
          clear           \* history: nobody else has made a step since it began

canonVars == <<kinds, canonO, canonF>>
vaultVars == <<vO, snap, patch, manifest>>
captureVars == <<cpc, items, got, failed>>
targetVars == <<tO, tF, tClean>>
installVars == <<ipc, mode, loaded, planO, planF>>
allVars == <<canonVars, vaultVars, captureVars, targetVars, installVars, clear>>

Nothing == [overlay |-> "none", fork |-> None, storage |-> "none"]

VaultInit ==
  /\ kinds \in Followed
  /\ canonO \in Overlay /\ canonF \in Canonical
  /\ vO = "none" /\ snap = None /\ patch = None
  /\ manifest = Nothing
  /\ cpc = "idle" /\ items = {} /\ got = Nothing /\ failed = FALSE
  /\ tO \in {"none", "v1"} /\ tF \in [up : {0}, edits : {{}, Local}] /\ tClean = TRUE
  /\ ipc = "idle" /\ mode = "init" /\ loaded = Nothing /\ planO = "skip"
  /\ planF = [do |-> "skip"] /\ clear = FALSE

-----------------------------------------------------------------------------
\* The owner of the canonical project.
EditCanonical ==
  /\ canonO' \in Overlay /\ canonF' \in Canonical
  /\ canonO' = canonO \/ "overlay" \in kinds
  /\ canonF' = canonF \/ "fork" \in kinds
  /\ clear' = FALSE
  /\ UNCHANGED <<kinds, vaultVars, captureVars, targetVars, installVars>>

\* The target: its upstream is installed anew, its owner edits the step file,
\* all is committed.
EditTargetFile ==
  /\ \/ tF.up < MaxUp /\ tF' = [up |-> tF.up + 1, edits |-> {}] /\ tClean' = FALSE
     \/ Local \cap tF.edits = {} /\ tF' = [tF EXCEPT !.edits = @ \cup Local] /\ tClean' = FALSE
     \/ ~tClean /\ tClean' = TRUE /\ UNCHANGED tF
  /\ clear' = FALSE
  /\ UNCHANGED <<canonVars, vaultVars, captureVars, tO, installVars>>

-----------------------------------------------------------------------------
\* plan_capture and vault_lock (one capture at a time).  A fork is a step file
\* that differs from upstream; what is not committed is skipped, unless allowed.
BeginCapture ==
  /\ cpc = "idle"
  /\ items' \in SUBSET (kinds \ IF canonF = {} THEN {"fork"} ELSE {}) \ {{}}
  /\ cpc' = IF "overlay" \in items' THEN "overlay" ELSE "base"
  /\ clear' = FALSE
  /\ UNCHANGED <<canonVars, vaultVars, got, failed, targetVars, installVars>>

\* The capture ends.
NoCapture == cpc' = "idle" /\ items' = {} /\ got' = Nothing /\ failed' = FALSE

AfterOverlay == IF "fork" \in items THEN "base" ELSE "manifest"

\* The overlay is in the vault when its canary, parsing it, fails.
CaptureOverlay ==
  /\ cpc = "overlay" /\ vO' = canonO
  /\ IF canonO = "bad"
     THEN failed' = TRUE /\ UNCHANGED got
     ELSE got' = [got EXCEPT !.overlay = canonO] /\ UNCHANGED failed
  /\ cpc' = AfterOverlay /\ clear' = FALSE
  /\ UNCHANGED <<canonVars, snap, patch, manifest, items, targetVars,
                 installVars>>

\* The fork is read and the pinned upstream file written.
CaptureFork ==
  /\ cpc = "base"
  /\ got' = [got EXCEPT !.fork = canonF] /\ clear' = FALSE
  /\ cpc' = IF canonF \cap Dense = {} THEN "patch" ELSE "snap"
  /\ UNCHANGED <<canonVars, vO, snap, patch, manifest, items, failed,
                 targetVars, installVars>>

\* Mutant: the snapshot of an earlier capture stays beside the patch.
KeepSnapshot ==
  /\ \/ cpc = "patch" /\ patch' = Torn /\ cpc' = "patched" /\ UNCHANGED <<got, snap>>
     \/ cpc = "patched" /\ patch' = got.fork /\ cpc' = "unsnap" /\ UNCHANGED <<got, snap>>
     \/ cpc = "unsnap" /\ cpc' = "manifest"
        /\ got' = [got EXCEPT !.storage = "patch"] /\ UNCHANGED <<patch, snap>>
  /\ clear' = FALSE
  /\ UNCHANGED <<canonVars, vO, manifest, items, failed,
                 targetVars, installVars>>

\* A patch is written (write_text truncates first), then a snapshot removed.
CapturePatch ==
  /\ \/ cpc = "patch" /\ patch' = Torn /\ cpc' = "patched" /\ UNCHANGED <<got, snap>>
     \/ cpc = "patched" /\ patch' = got.fork /\ cpc' = "unsnap" /\ UNCHANGED <<got, snap>>
     \/ cpc = "unsnap" /\ snap' = None /\ cpc' = "manifest"
        /\ got' = [got EXCEPT !.storage = "patch"] /\ UNCHANGED patch
  /\ clear' = FALSE
  /\ UNCHANGED <<canonVars, vO, manifest, items, failed,
                 targetVars, installVars>>

\* A snapshot is written, then a patch removed.
CaptureSnapshot ==
  /\ \/ cpc = "snap" /\ snap' = Torn /\ cpc' = "snapped" /\ UNCHANGED <<got, patch>>
     \/ cpc = "snapped" /\ snap' = got.fork /\ cpc' = "unpatch" /\ UNCHANGED <<got, patch>>
     \/ cpc = "unpatch" /\ patch' = None /\ cpc' = "manifest"
        /\ got' = [got EXCEPT !.storage = "snapshot"] /\ UNCHANGED snap
  /\ clear' = FALSE
  /\ UNCHANGED <<canonVars, vO, manifest, items, failed,
                 targetVars, installVars>>

\* A failed canary halts the capture and leaves the files; else the manifest
\* lists what this capture has taken, and nothing else.
WriteManifest ==
  /\ cpc = "manifest"
  /\ IF failed THEN NoCapture /\ UNCHANGED manifest
               ELSE cpc' = "commit" /\ manifest' = got /\ UNCHANGED <<items, got, failed>>
  /\ clear' = FALSE
  /\ UNCHANGED <<canonVars, vO, snap, patch, targetVars, installVars>>

\* git add -A and commit (or --no-commit, or git fails); or it is killed.
EndCapture ==
  /\ cpc # "idle" /\ NoCapture /\ clear' = FALSE
  /\ UNCHANGED <<canonVars, vaultVars, targetVars, installVars>>

-----------------------------------------------------------------------------
\* reconstruct_fork: the snapshot if there is one, else the patch applied to
\* the pinned upstream, an empty patch giving just that.
Fails == {"fails"}
Reconstruct(s, p) == IF s # None THEN {s}
                     ELSE IF p = None THEN {Fails}
                     ELSE IF p = Torn THEN {Fails, {}} ELSE {p}

\* The installation ends.
NoInstall == /\ ipc' = "idle" /\ mode' = "init" /\ loaded' = Nothing /\ planO' = "skip"
             /\ planF' = [do |-> "skip"] /\ clear' = FALSE

\* load_manifest.
BeginInstall ==
  /\ ipc = "idle" /\ manifest # Nothing
  /\ mode' \in {"init", "post-upgrade"} /\ loaded' = manifest
  /\ ipc' = IF mode' = "init" /\ manifest.overlay # "none" THEN "plan overlay" ELSE "plan fork"
  /\ clear' = TRUE
  /\ UNCHANGED <<canonVars, vaultVars, captureVars, targetVars, planO, planF>>

\* The overlay of the vault, not compared with the manifest's digest: never
\* over one that differs.
PlanOverlay ==
  /\ ipc = "plan overlay" /\ ipc' = "plan fork"
  /\ planO' = IF ExemptOverlay THEN "skip"
              ELSE IF vO = "none" THEN "conflict"
              ELSE IF tO = "none" THEN vO
              ELSE IF tO = vO THEN "skip" ELSE "conflict"
  /\ UNCHANGED <<canonVars, vaultVars, captureVars, targetVars, mode, loaded, planF, clear>>

Forked == [up |-> 0, edits |-> loaded.fork]
Pinned == [up |-> 0, edits |-> {}]

\* Mutant: the digest of the reconstructed fork is not compared.
AnyFork(c) == c # Fails

\* Vault integrity.
Intact(c) == c = loaded.fork

\* What is done with the fork, c being the one reconstructed; the patch of
\* post-upgrade is read in a step of its own.
PlanFork ==
  /\ ipc = "plan fork"
  /\ IF loaded.fork = None \/ tF = Forked
     THEN planF' = [do |-> "skip"] /\ ipc' = "decide"
     ELSE \E c \in Reconstruct(snap, patch) :
       IF ~Intact(c) THEN planF' = [do |-> "conflict"] /\ ipc' = "decide"
       ELSE IF mode = "post-upgrade" /\ loaded.storage = "patch"
       THEN ipc' = "plan patch" /\ UNCHANGED planF
       ELSE /\ ipc' = "decide"
            /\ planF' = IF tF = Pinned
                        THEN [do |-> "install", file |-> [up |-> 0, edits |-> c]]
                        ELSE [do |-> "conflict"]
  /\ UNCHANGED <<canonVars, vaultVars, captureVars, targetVars, mode, loaded, planO, clear>>

\* apply_patch_onto the file on the disk: rejected where an edit is in already
\* or cannot be placed; an empty patch applies to everything.
PlanPatch ==
  /\ ipc = "plan patch" /\ patch # None
  /\ ipc' = "decide"
  /\ \/ patch = Torn
        /\ planF' \in {[do |-> "conflict"], [do |-> "install", file |-> tF]}
     \/ patch # Torn /\ patch \cap tF.edits = {}
        /\ planF' = [do |-> "install", file |-> [tF EXCEPT !.edits = @ \cup patch]]
     \/ patch # Torn /\ tF # Pinned
        /\ planF' = [do |-> "conflict"]
  /\ UNCHANGED <<canonVars, vaultVars, captureVars, targetVars, mode, loaded, planO, clear>>

Installs == {x \in {"overlay", "fork"} :
               IF x = "overlay" THEN planO \notin {"skip", "conflict"}
                                ELSE planF.do = "install"}

\* No conflict, something to install, and git_guard and the lock allow it.
Decide ==
  /\ ipc = "decide" /\ planO # "conflict" /\ planF.do # "conflict" /\ Installs # {}
  /\ tClean /\ ipc' = "write"
  /\ UNCHANGED <<canonVars, vaultVars, captureVars, targetVars, mode, loaded, planO, planF,
                 clear>>

\* apply_install, one file after the other.
Install ==
  /\ ipc = "write" /\ tClean' = FALSE
  /\ \/ /\ "overlay" \in Installs /\ tO # planO /\ tO' = planO /\ UNCHANGED tF
        /\ ipc' = IF "fork" \in Installs THEN "write" ELSE "applied"
     \/ /\ "overlay" \in Installs => tO = planO
        /\ "fork" \in Installs /\ tF' = planF.file /\ UNCHANGED tO
        /\ ipc' = "applied"
  /\ UNCHANGED <<canonVars, vaultVars, captureVars, mode, loaded, planO, planF, clear>>

\* It ends well, or anywhere before: on a conflict, with nothing to install,
\* refused by the guard or the lock, by a file that is missing or not what was
\* written, or killed.
EndInstall ==
  /\ ipc # "idle" /\ NoInstall
  /\ UNCHANGED <<canonVars, vaultVars, captureVars, targetVars>>

-----------------------------------------------------------------------------
Capture == BeginCapture \/ CaptureOverlay \/ CaptureFork \/ CapturePatch \/ CaptureSnapshot
           \/ WriteManifest \/ EndCapture

Consume == BeginInstall \/ PlanOverlay \/ PlanFork \/ PlanPatch \/ Decide \/ Install \/ EndInstall

VaultNext == EditCanonical \/ EditTargetFile \/ Capture \/ Consume

VaultSpec == VaultInit /\ [][VaultNext]_allVars

-----------------------------------------------------------------------------
\* A manifest that is committed lists what is committed with it, whole: the
\* overlay parses, and the fork is the one it can be rebuilt from, whatever
\* captures failed, were killed, or skipped an artifact before.
CommitIsSound ==
  cpc = "commit" =>
    /\ manifest.overlay # "none" => vO = manifest.overlay /\ vO # "bad"
    /\ manifest.fork # None => Reconstruct(snap, patch) = {manifest.fork}

\* An installation that ends well, nobody else being active, leaves in the
\* target the fork the manifest lists and every edit of the target's owner:
\* whatever a capture that was killed has left in the vault.
ForkArrives ==
  [][(ipc = "write" /\ ipc' = "applied" /\ clear)
       => /\ loaded.fork = None \/ loaded.fork \subseteq tF'.edits
          /\ tF.edits \ Edit \subseteq tF'.edits]_allVars

=============================================================================
