----------------------------- MODULE MCJSONFile -----------------------------
(* Small instances of JSONFile for TLC.                                    *)
EXTENDS JSONFile, TLC

=============================================================================
