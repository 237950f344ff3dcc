------------------------------ MODULE Forwarder ------------------------------
(***************************************************************************)
(* What a target of nagflux promises to the collectors, without workers,   *)
(* retries or a server: a record that was handed over is queued, then in   *)
(* the hands of the target, then settled (written to the database or to a  *)
(* file).  It never goes back and never disappears, a record nobody handed *)
(* over is never written, and when the target has closed nothing is left   *)
(* in its hands and nothing is settled any more.  What is still queued at  *)
(* that moment is lost: the promise does not cover it.                     *)
(***************************************************************************)

CONSTANT Records

VARIABLES
    queued,     \* handed over, not taken yet
    held,       \* taken, not settled yet
    settled,    \* written somewhere
    open        \* the target has not stopped

fvars == <<queued, held, settled, open>>

FInit ==
    /\ queued = {} /\ held = {} /\ settled = {}
    /\ open = TRUE

Accept(r) ==
    /\ open
    /\ r \notin queued \cup held \cup settled
    /\ queued' = queued \cup {r}
    /\ UNCHANGED <<held, settled, open>>

Take(r) ==
    /\ open
    /\ r \in queued
    /\ queued' = queued \ {r}
    /\ held' = held \cup {r}
    /\ UNCHANGED <<settled, open>>

Settle(S) ==
    /\ open
    /\ S \subseteq held
    /\ held' = held \ S
    /\ settled' = settled \cup S
    /\ UNCHANGED <<queued, open>>

Close ==
    /\ open
    /\ held = {}
    /\ open' = FALSE
    /\ UNCHANGED <<queued, held, settled>>

FNext ==
    \/ \E r \in Records : Accept(r) \/ Take(r)
    \/ \E S \in SUBSET Records : Settle(S)
    \/ Close

FSpec == FInit /\ [][FNext]_fvars

=============================================================================
