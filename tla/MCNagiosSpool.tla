---------------------------- MODULE MCNagiosSpool ----------------------------
(* Small instances of NagiosSpool for TLC.                                 *)
EXTENDS NagiosSpool, TLC

CONSTANTS f1

(* A file with two performance data.                                       *)
ItemsOfFiles == f1 :> 2

=============================================================================
