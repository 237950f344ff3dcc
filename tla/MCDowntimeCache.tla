--------------------------- MODULE MCDowntimeCache ---------------------------
(* Small instances of DowntimeCache for TLC.                               *)
EXTENDS DowntimeCache, TLC

CONSTANTS host, service, d1, d2

(* One downtime later than the other, both of the host. *)
KeysOfDowntimes == d1 :> host @@ d2 :> host
Starts == d1 :> 1 @@ d2 :> 2

=============================================================================
