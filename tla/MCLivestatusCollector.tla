----------------------- MODULE MCLivestatusCollector -----------------------
(* Small instances of LivestatusCollector for TLC.                         *)
EXTENDS LivestatusCollector, TLC

CONSTANTS comment, comments

KindOfEvents == comment :> comments

=============================================================================
