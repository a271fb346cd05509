-------------------------- MODULE MCRevisionRepair --------------------------
(***************************************************************************)
(* Instances of RevisionRepair for TLC.                                    *)
(*                                                                         *)
(* Four ClusterObjectSets: one assigned set every other set can build on,  *)
(* and two crashed ones, so that a crashed set with a collected and with a *)
(* kept previous set, two crashed siblings, and (when Stacked) a crashed   *)
(* set on top of another all occur.  Revisions up to 3 leave room for      *)
(* gaps between assigned revisions.  One transient fault and one write of  *)
(* the in-cluster controller make every failure path happen once.          *)
(***************************************************************************)
EXTENDS RevisionRepair

\* Set 1 is the oldest; 3 and 4 crashed; 1 was collected by the history limit.
MCCrashes == {3, 4}
MCCollected == {1}

\* Stacked crashes without collected history: 3 crashed, 4 crashed on top.
MCStackedCollected == {}

=============================================================================
