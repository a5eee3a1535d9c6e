------------------------------ MODULE MCSprint ------------------------------
(***************************************************************************)
(* Three stories, the third after the first, and files that spell them in  *)
(* every way: flat, dotted, without quotes, one number twice, one story    *)
(* that is missing.                                                        *)
(***************************************************************************)
EXTENDS SprintStatus

Spelt(n, form0) == [num |-> n, form |-> form0]
Row(n, form0, word) == [key |-> Spelt(n, form0), status |-> word]

MCStem == {Spelt(1, "foo"), Spelt(2, "dotted"), Spelt(3, "foo")}
MCAfter == [s \in Stem |-> IF s.num = 3 THEN {Spelt(1, "foo")} ELSE {}]
MCFlat == [layout |-> "flat", rows |-> <<Row(1, "foo", "backlog"), Row(2, "bar", "ready-for-dev")>>]
MCSheets ==
  {MCFlat,
   [layout |-> "epics", rows |-> <<Row(1, "dotted", "ready-for-dev"), Row(3, "number", "backlog")>>],
   [layout |-> "epics", rows |-> <<Row(2, "number", "backlog"), Row(1, "foo", "superseded")>>],
   [layout |-> "flat", rows |-> <<Row(1, "bar", "done"), Row(1, "foo", "backlog"), Row(2, "dotted", "backlog")>>]}
MCKids == {Spelt(3, "dotted")}
MCFlatOnly == {MCFlat}
=============================================================================
