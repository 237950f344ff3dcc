--------------------------- MODULE MCInfluxTarget ---------------------------
(* Small instances of InfluxTarget for TLC.                                *)
EXTENDS InfluxTarget, TLC
=============================================================================
