---------------------------- MODULE MCDumpReplay ----------------------------
(* Small instances of DumpReplay for TLC.                                  *)
EXTENDS DumpReplay, TLC

CONSTANTS old1, new1

(* What an earlier life left in the dump file.                             *)
OldLines == <<old1>>

=============================================================================
