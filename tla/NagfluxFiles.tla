---------------------------- MODULE NagfluxFiles ----------------------------
(***************************************************************************)
(* The intake of nagflux's own CSV files (nagfluxFileCollector.go in       *)
(* src/collector/nagflux): one goroutine lists the folder, parses a file,  *)
(* delivers its records to the channel of every target and removes it;     *)
(* Stop talks to it over a channel with a buffer.  The process may end at  *)
(* any moment and start again; the folder survives.                        *)
(*                                                                         *)
(* A file is what parseFile makes of it: a number of records, none for a   *)
(* file that it cannot read, or a panic for one without any line.  It      *)
(* arrives when it has reached MinFileAge.                                 *)
(***************************************************************************)
EXTENDS Naturals

CONSTANTS
    Files,      \* files that may be put into the folder
    NoFile,
    Empty,      \* the files without any line
    MaxRecords,
    Records,    \* number of records parseFile returns for a file
    Targets,    \* keys of results
    QueueCap,   \* capacity of a target's channel (Main.BufferSize)
    MaxLives,   \* bound on the lives of the process
    MaxFailures \* bound on the removals of a file that fail

ASSUME FilesAssumption ==
    /\ NoFile \notin Files /\ Empty \subseteq Files
    /\ MaxRecords \in Nat /\ Records \in [Files -> 0..MaxRecords]
ASSUME NumbersAssumption ==
    QueueCap \in Nat \ {0} /\ MaxLives \in Nat \ {0} /\ MaxFailures \in Nat

VARIABLES
    \* the folder, the files that ever were in it, the answer of
    \* IsAnyTargetOnPause
    folder, arrived, pause,
    \* run: where it is, the rest of the listing, the file, the record, and
    \* the targets that have not had it yet
    run, listing, current, record, todo,
    \* how full the channels of the targets are
    filled,
    \* Stop: where it is, and the tokens in quit
    stop, quit,
    \* history: copies a target got, what timed out, lives of the process,
    \* and removals that failed
    copies, dropped, lives, failures

disk    == <<folder, arrived, pause>>
reader  == <<run, listing, current, record, todo>>
history == <<copies, dropped, lives, failures>>
vars    == <<disk, reader, filled, stop, quit, history>>

-----------------------------------------------------------------------------
(* What can be delivered: the i-th record of a file, to a target.          *)
Deliveries == {d \in Files \X (1..MaxRecords) \X Targets : d[2] <= Records[d[1]]}

TypeOK ==
    /\ folder \subseteq arrived /\ arrived \subseteq Files /\ pause \in BOOLEAN
    /\ run \in {"wait", "next", "read", "deliver", "ack", "stopped", "down"}
    /\ listing \subseteq folder
    /\ current \in Files \cup {NoFile} /\ record \in Nat /\ todo \subseteq Targets
    /\ filled \in [Targets -> 0..QueueCap]
    /\ stop \in {"none", "wait", "done"} /\ quit \in 0..1
    /\ copies \in [Deliveries -> Nat] /\ dropped \subseteq Deliveries
    /\ lives \in 1..MaxLives
    /\ failures \in [Files -> 0..MaxFailures]

Init ==
    /\ folder = {} /\ arrived = {} /\ pause \in BOOLEAN
    /\ run = "wait" /\ listing = {} /\ current = NoFile /\ record = 0 /\ todo = {}
    /\ filled = [t \in Targets |-> 0]
    /\ stop = "none" /\ quit = 0
    /\ copies = [d \in Deliveries |-> 0] /\ dropped = {}
    /\ lives = 1
    /\ failures = [f \in Files |-> 0]

-----------------------------------------------------------------------------
(* The writers of files, and the targets.                                  *)

Arrive(f) ==
    /\ f \notin arrived
    /\ folder' = folder \cup {f} /\ arrived' = arrived \cup {f}
    /\ UNCHANGED <<pause, reader, filled, stop, quit, history>>

(* StoreValue by some target.                                              *)
ChangePause ==
    /\ pause' = ~pause
    /\ UNCHANGED <<folder, arrived, reader, filled, stop, quit, history>>

Consume(t) ==
    /\ filled[t] > 0
    /\ filled' = [filled EXCEPT ![t] = @ - 1]
    /\ UNCHANGED <<disk, reader, stop, quit, history>>

-----------------------------------------------------------------------------
(* FileCollector.run *)

(* case <-time.After(IntervalToCheckDirectory), not in pause.              *)
Tick ==
    /\ run = "wait" /\ ~pause
    /\ listing' = folder
    /\ run' = "next"
    /\ UNCHANGED <<disk, current, record, todo, filled, stop, quit, history>>

ParseFile(f) ==
    /\ run = "next" /\ f \in listing \ Empty
    /\ listing' = listing \ {f}
    /\ current' = f /\ record' = 0
    /\ run' = "read"
    /\ UNCHANGED <<disk, todo, filled, stop, quit, history>>

EndOfListing ==
    /\ run = "next" /\ listing = {}
    /\ run' = "wait"
    /\ UNCHANGED <<disk, listing, current, record, todo, filled, stop, quit, history>>

(* The next record of the file, for all targets.                           *)
NextRecord ==
    /\ run = "read" /\ record < Records[current] /\ Targets # {}
    /\ record' = record + 1
    /\ todo' = Targets
    /\ run' = "deliver"
    /\ UNCHANGED <<disk, listing, current, filled, stop, quit, history>>

(* The loop over the results has done target t.                            *)
Done(t) ==
    /\ todo' = todo \ {t}
    /\ run' = IF todo = {t} THEN "read" ELSE "deliver"
    /\ UNCHANGED <<listing, current, record>>

(* case r <- p                                                             *)
Deliver(t) ==
    /\ run = "deliver" /\ t \in todo /\ filled[t] < QueueCap
    /\ filled' = [filled EXCEPT ![t] = @ + 1]
    /\ copies' = [copies EXCEPT ![<<current, record, t>>] = @ + 1]
    /\ Done(t)
    /\ UNCHANGED <<disk, stop, quit, dropped, lives, failures>>

(* Slip: no timeout, run waits until the target has room.                  *)
DropNothing(t) == t \in todo /\ run = "waiting" /\ UNCHANGED vars

(* case <-time.After(1 minute): this target does not get it.               *)
Drop(t) ==
    /\ run = "deliver" /\ t \in todo /\ filled[t] = QueueCap
    /\ dropped' = dropped \cup {<<current, record, t>>}
    /\ Done(t)
    /\ UNCHANGED <<disk, filled, stop, quit, copies, lives, failures>>

EndOfFile == run = "read" /\ (record = Records[current] \/ Targets = {})

(* Slip: the file is not removed.                                          *)
KeepFile ==
    /\ EndOfFile
    /\ run' = "next"
    /\ UNCHANGED <<disk, listing, current, record, todo, filled, stop, quit, history>>

RemoveFile ==
    /\ EndOfFile
    /\ folder' = folder \ {current}
    /\ run' = "next"
    /\ UNCHANGED <<arrived, pause, listing, current, record, todo, filled, stop, quit, history>>

(* os.Remove fails: a warning, and the next tick reads the file again.     *)
RemoveFails ==
    /\ EndOfFile /\ failures[current] < MaxFailures
    /\ failures' = [failures EXCEPT ![current] = @ + 1]
    /\ run' = "next"
    /\ UNCHANGED <<disk, listing, current, record, todo, filled, stop, quit, copies, dropped, lives>>

(* Everything in memory is gone.                                           *)
Down ==
    /\ run' = "down"
    /\ listing' = {} /\ current' = NoFile /\ record' = 0 /\ todo' = {}
    /\ filled' = [t \in Targets |-> 0]
    /\ stop' = "none" /\ quit' = 0
    /\ UNCHANGED <<disk, history>>

(* records[0] of a file without any line: index out of range.              *)
ParsePanics == run = "next" /\ listing \cap Empty # {} /\ Down

(* Slip: break leaves the select only, and the loops go on.                *)
TakeTokenAndGoOn ==
    /\ run \in {"wait", "deliver"} /\ quit = 1
    /\ quit' = 0
    /\ IF run = "wait" THEN run' = "ack" /\ UNCHANGED <<listing, current, record, todo>>
                       ELSE \E t \in todo : Done(t)
    /\ UNCHANGED <<disk, filled, stop, history>>

(* case <-nfc.quit, between ticks or in front of a delivery.               *)
TakeToken ==
    /\ run \in {"wait", "deliver"} /\ quit = 1
    /\ quit' = 0 /\ run' = "ack"
    /\ UNCHANGED <<disk, listing, current, record, todo, filled, stop, history>>

(* nfc.quit <- true; return                                                *)
PutTokenBack ==
    /\ run = "ack" /\ quit = 0
    /\ quit' = 1 /\ run' = "stopped"
    /\ UNCHANGED <<disk, listing, current, record, todo, filled, stop, history>>

Run ==
    \/ Tick \/ EndOfListing \/ NextRecord \/ RemoveFile \/ RemoveFails \/ ParsePanics \/ PutTokenBack
    \/ \E f \in Files : ParseFile(f)
    \/ \E t \in Targets : Deliver(t) \/ Drop(t)

-----------------------------------------------------------------------------
(* FileCollector.Stop, and the life of the process                         *)

StopPutsToken ==
    /\ run # "down" /\ stop = "none"
    /\ stop' = "wait" /\ quit' = 1
    /\ UNCHANGED <<disk, reader, filled, history>>

(* <-nfc.quit finds the token run has put back, or its own.                *)
StopTakesToken ==
    /\ stop = "wait" /\ quit = 1
    /\ stop' = "done" /\ quit' = 0
    /\ UNCHANGED <<disk, reader, filled, history>>

(* The process is killed, or main returns.                                 *)
End == run # "down" /\ Down

Start ==
    /\ run = "down" /\ lives < MaxLives
    /\ run' = "wait" /\ lives' = lives + 1
    /\ UNCHANGED <<disk, listing, current, record, todo, filled, stop, quit, copies, dropped, failures>>

Next ==
    \/ \E f \in Files : Arrive(f)
    \/ ChangePause
    \/ \E t \in Targets : Consume(t)
    \/ Run \/ TakeToken
    \/ StopPutsToken \/ StopTakesToken
    \/ End \/ Start

Spec == Init /\ [][Next]_vars

(* Both goroutines run when they can, and a select that finds its quit     *)
(* branch ready again and again takes it.                                  *)
FairSpec == Spec /\ WF_vars(Run) /\ SF_vars(TakeToken) /\ WF_vars(StopTakesToken)

-----------------------------------------------------------------------------
(* Properties *)

(* d was put into its target's channel, or that was full for a minute.     *)
Settled(d) == d \in dropped \/ copies[d] > 0

(* The collector keeps the promise of an intake, whenever it is stopped or *)
(* killed in the middle of a file.                                         *)
Promise == INSTANCE Intake WITH settled <- {d \in Deliveries : Settled(d)}

KeepsPromise == Promise!Spec

(* A record reaches a target once per life of the process, and once more   *)
(* for every time its file could not be removed.                           *)
CopiesBounded == \A d \in Deliveries : copies[d] <= lives + failures[d[1]]

(* While the process runs on without a pause, the files are worked off,    *)
(* even if the targets do not read.                                        *)
Running == run # "down" /\ stop = "none" /\ ~pause

FilesAreWorkedOff ==
    <>[]Running => \A f \in Files : (f \in folder) ~> (f \notin folder)

=============================================================================
