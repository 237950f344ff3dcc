--------------------------- MODULE MCGearmanWorker ---------------------------
(* Small instances of GearmanWorker for TLC.                               *)
EXTENDS GearmanWorker, TLC

CONSTANTS j1

(* One job with two performance data. *)
ItemsOfJobs == j1 :> 1

=============================================================================
