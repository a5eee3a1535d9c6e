--------------------------- MODULE MCMergePipeline ---------------------------
(***************************************************************************)
(* Two stories of a wave.  Bounds: the worker of at most one of them       *)
(* deletes a protected file, as what a worker has deleted is looked at in  *)
(* the gates of its own story only; and an event nobody reads is queued    *)
(* only where workers leave nothing uncommitted and no log, as it meets    *)
(* the others nowhere but in the queue.                                    *)
(***************************************************************************)
EXTENDS MergePipeline
CONSTANTS s1, s2

OneDeletes == unsafe \subseteq {s1}
PlainNoise ==
  noise > 0 => /\ dirty = {} /\ unsafe = {}
               /\ \A s \in Story : ended[s] = "running" \/ log[s] = "none"
=============================================================================
