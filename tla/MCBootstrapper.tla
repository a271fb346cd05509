--------------------------- MODULE MCBootstrapper ---------------------------
(***************************************************************************)
(* Bootstrapper for TLC: every state the Deployment and the package can be *)
(* in at the start, and up to two failed attempts.                         *)
(***************************************************************************)
EXTENDS Bootstrapper

=============================================================================
