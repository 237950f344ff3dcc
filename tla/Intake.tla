------------------------------- MODULE Intake -------------------------------
(***************************************************************************)
(* What a collector of files promises to the program that writes the files *)
(* and to the targets: everything in a file is offered to every target     *)
(* before the file is removed, and files are only removed, never lost.     *)
(***************************************************************************)
CONSTANTS
    Files,       \* the files that may be written
    Deliveries   \* tuples whose first component is a file

VARIABLES
    folder,      \* the files that are there
    arrived,     \* the files that ever were there
    settled      \* the deliveries that were made or given up

vars == <<folder, arrived, settled>>

Init == folder = {} /\ arrived = {} /\ settled = {}

Arrive(f) ==
    /\ f \notin arrived
    /\ folder' = folder \cup {f} /\ arrived' = arrived \cup {f}
    /\ UNCHANGED settled

Settle(d) ==
    /\ d[1] \in folder
    /\ settled' = settled \cup {d}
    /\ UNCHANGED <<folder, arrived>>

Remove(f) ==
    /\ f \in folder
    /\ \A d \in Deliveries : d[1] = f => d \in settled
    /\ folder' = folder \ {f}
    /\ UNCHANGED <<arrived, settled>>

Next ==
    \/ \E f \in Files : Arrive(f) \/ Remove(f)
    \/ \E d \in Deliveries : Settle(d)

Spec == Init /\ [][Next]_vars

=============================================================================
