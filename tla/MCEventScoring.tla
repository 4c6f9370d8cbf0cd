---------------------------- MODULE MCEventScoring ----------------------------
(***************************************************************************)
(* Instances of EventScoring small enough for TLC: up to three jobs on two *)
(* worker processes.                                                       *)
(***************************************************************************)
EXTENDS EventScoring, TLC

CONSTANTS wedding, home, scan1, scan2, nightly

OneEvent == wedding :> 1
TwoEvents == wedding :> 1 @@ home :> 2
TwoConfidences == wedding :> 1 @@ home :> 2

Symmetry == Permutations({scan1, scan2})

==============================================================================
