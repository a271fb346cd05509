------------------------- MODULE AbstractBootstrap -------------------------
(***************************************************************************)
(* What the self-bootstrap promises (spec 4.4), as a state machine:        *)
(*                                                                         *)
(*   Uninitialized -> Checking -> AlreadyAvailable                         *)
(*                            \-> SelfInstalling -> Polling -> Converged   *)
(*                                                                         *)
(* with Failed reachable from every unfinished state and restarted by the  *)
(* Job.  It hands off to the running instance only when the operator's     *)
(* Deployment is Available, self-installs only when it is not, and         *)
(* converges only once the package reports Available.  The cluster may    *)
(* make the Deployment or the package Available at any time, and the      *)
(* installation step makes the package exist.                             *)
(***************************************************************************)
VARIABLES
  phase,        \* the state of the bootstrap
  deployAvail,  \* is the operator's Deployment Available?
  pkgPresent,   \* does the package exist?
  pkgAvail      \* does the package report Available?

avars == <<phase, deployAvail, pkgPresent, pkgAvail>>

Phases == {"Uninitialized", "Checking", "AlreadyAvailable", "SelfInstalling",
           "Polling", "Converged", "Failed"}
Finished == {"AlreadyAvailable", "Converged"}

AInit ==
  /\ phase = "Uninitialized"
  /\ deployAvail \in BOOLEAN
  /\ pkgPresent \in BOOLEAN
  /\ pkgAvail \in BOOLEAN
  /\ pkgAvail => pkgPresent

Move(from, to) == phase = from /\ phase' = to

\* The package is ensured before the check.
Install ==
  /\ Move("Uninitialized", "Checking")
  /\ pkgPresent' = TRUE
  /\ pkgAvail' = (pkgPresent /\ pkgAvail)
  /\ UNCHANGED deployAvail

HandOff ==
  /\ Move("Checking", "AlreadyAvailable")
  /\ deployAvail
  /\ UNCHANGED <<deployAvail, pkgPresent, pkgAvail>>

SelfInstall ==
  /\ Move("Checking", "SelfInstalling")
  /\ ~deployAvail
  /\ UNCHANGED <<deployAvail, pkgPresent, pkgAvail>>

StartPolling ==
  /\ Move("SelfInstalling", "Polling")
  /\ UNCHANGED <<deployAvail, pkgPresent, pkgAvail>>

Converge ==
  /\ Move("Polling", "Converged")
  /\ pkgPresent /\ pkgAvail
  /\ UNCHANGED <<deployAvail, pkgPresent, pkgAvail>>

Fail ==
  /\ phase \notin Finished \cup {"Failed"}
  /\ phase' = "Failed"
  /\ UNCHANGED <<deployAvail, pkgPresent, pkgAvail>>

Restart ==
  /\ Move("Failed", "Uninitialized")
  /\ UNCHANGED <<deployAvail, pkgPresent, pkgAvail>>

\* The cluster: the Deployment rolls out, an existing package becomes
\* Available, or both at once.
Cluster ==
  /\ deployAvail' = deployAvail \/ deployAvail' = TRUE
  /\ pkgAvail' = pkgAvail \/ (pkgPresent /\ pkgAvail' = TRUE)
  /\ UNCHANGED <<phase, pkgPresent>>

ANext ==
  \/ Install \/ HandOff \/ SelfInstall \/ StartPolling \/ Converge
  \/ Fail \/ Restart \/ Cluster

ASpec == AInit /\ [][ANext]_avars

=============================================================================
