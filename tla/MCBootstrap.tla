----------------------------- MODULE MCBootstrap -----------------------------
(***************************************************************************)
(* Bootstrap on a small installation: the package, one ClusterObject-      *)
(* Deployment and two ClusterObjectSets it owns.  Two sets make the        *)
(* cascade loop over a list, and the order of the List, matter; one fault *)
(* and one status write reach every error path and a Conflict from a      *)
(* concurrent writer.  MCStuck makes s2 a set stuck at revision 0 whose    *)
(* previous set was collected, so that the repair can panic.               *)
(***************************************************************************)
EXTENDS Bootstrap

CONSTANTS d1, s1, s2

MCCODs == {d1}
MCCOSs == {s1, s2}
MCOwnerOf == [s \in MCCOSs |-> d1]
MCNoCODs == {}
MCNoCOSs == {}
MCNoOwnerOf == [s \in {} |-> d1]
MCStuck == {s2}
MCNoStuck == {}
=============================================================================
