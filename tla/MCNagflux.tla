------------------------------ MODULE MCNagflux ------------------------------
(* A small instance of Nagflux for TLC.                                    *)
EXTENDS Nagflux

CONSTANTS influx, elastic, file

InfluxThenElastic == <<influx, elastic>>

FilesOfCollectors == [c \in Collectors |-> IF c = "nagflux" THEN {file} ELSE {}]

=============================================================================
