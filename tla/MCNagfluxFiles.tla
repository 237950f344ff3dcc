--------------------------- MODULE MCNagfluxFiles ---------------------------
(* Small instances of NagfluxFiles for TLC.                                *)
EXTENDS NagfluxFiles, TLC

CONSTANTS f1, f2

(* A file with two records, one without a line. *)
RecordsOfFiles == (f1 :> 2) @@ (f2 :> 0)

=============================================================================
