-------------------------- MODULE MCElasticTarget --------------------------
(* A small instance of ElasticTarget for TLC.                              *)
EXTENDS ElasticTarget, TLC
=============================================================================
