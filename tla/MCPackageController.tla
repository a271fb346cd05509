------------------------ MODULE MCPackageController ------------------------
(***************************************************************************)
(* Instances of PackageController for TLC: two packages and two workers,   *)
(* so that both keys are processed at once and a worker can hold a copy    *)
(* of a package while it is deleted.                                       *)
(***************************************************************************)
EXTENDS PackageController

CONSTANTS p1, p2, w1, w2

MCPkgs == {p1}
MCTwoPkgs == {p1, p2}
MCWorkers == {w1, w2}
MCOneWorker == {w1}

=============================================================================
