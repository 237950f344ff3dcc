------------------------------ MODULE JSONFile ------------------------------
(***************************************************************************)
(* The target that writes JSON files (src/target/file/json/Worker.go): run *)
(* appends what it receives to the slice queries, a second goroutine       *)
(* writes the slice to a file after every rotationDuration and sets its    *)
(* length to zero, and Stop talks to run over a channel with a buffer.     *)
(* Nothing orders the accesses to queries.                                 *)
(*                                                                         *)
(* queries is its length and the elements of the array below it; append    *)
(* reads the length, stores the element and then the new length.  A reader *)
(* that gets the array of before and the length of after the array has     *)
(* grown is left out.  With rotation the name of a file is the second it   *)
(* is written in; the file may be there, from another target or process.   *)
(*                                                                         *)
(* What ElasticTarget has, too, has another name here, so that one module  *)
(* can extend both.                                                        *)
(***************************************************************************)
EXTENDS Naturals, Sequences, FiniteSets

CONSTANTS
    Printables,    \* what collectors put into the channel
    Matching,      \* those that pass the filter of the target
    NoRecord,
    FileQueueCap,  \* capacity of the channel (Main.BufferSize)
    Rotation,      \* AutomaticFileRotation is not zero
    MaxClashes,    \* bound on the writes that find a file of this second
    MaxFailures    \* bound on the writes that fail

ASSUME PrintablesAssumption ==
    IsFiniteSet(Printables) /\ Matching \subseteq Printables /\ NoRecord \notin Printables
ASSUME FileNumbersAssumption ==
    /\ FileQueueCap \in Nat \ {0} /\ MaxClashes \in Nat /\ MaxFailures \in Nat
    /\ Rotation \in BOOLEAN

VARIABLES
    \* the channel jobs, and what was put into it ever
    fileJobs, sent,
    \* the elements of queries, and its length
    array, length,
    \* run: where it is, the record it appends and the length append has read
    run, query, seen,
    \* the writer: where it is, and the slice it has passed to writeData
    writer, data,
    \* IsRunning as run and the writer see it
    isRunning,
    \* Stop: where it is, and the tokens in quit
    stop, quit,
    \* history: how often a record is in the files; those that were appended
    \* while the writer had taken the slice and not reset it, those whose
    \* write failed, and the number of either kind of bad write
    copies, overtaken, failed, clashes, failures

channel  == <<fileJobs, sent>>
slice    == <<array, length>>
receiver == <<run, query, seen>>
writing  == <<writer, data>>
stopping == <<stop, quit>>
history  == <<copies, overtaken, failed, clashes, failures>>
fileVars == <<channel, slice, receiver, writing, isRunning, stopping, history>>

-----------------------------------------------------------------------------
ToSet(s) == {s[i] : i \in 1..Len(s)}

(* The records in queries.                                                 *)
Queries == {array[i] : i \in 1..length}

FileTypeOK ==
    /\ fileJobs \in Seq(sent) /\ Len(fileJobs) <= FileQueueCap /\ sent \subseteq Printables
    /\ array \in Seq(Matching) /\ length \in 0..Len(array)
    /\ run \in {"select", "append", "ack", "stopped"}
    /\ query \in Matching \cup {NoRecord} /\ seen \in 0..Len(array)
    /\ writer \in {"sleep", "write", "reset", "check", "stopped"} /\ data \in Seq(Matching)
    /\ isRunning \in BOOLEAN
    /\ stop \in {"none", "wait", "done"} /\ quit \in 0..1
    /\ copies \in [Matching -> Nat]
    /\ overtaken \subseteq Matching /\ failed \subseteq Matching
    /\ clashes \in 0..MaxClashes /\ failures \in 0..MaxFailures

FileInit ==
    /\ fileJobs = <<>> /\ sent = {}
    /\ array = <<>> /\ length = 0
    /\ run = "select" /\ query = NoRecord /\ seen = 0
    /\ writer = "sleep" /\ data = <<>>
    /\ isRunning = TRUE
    /\ stop = "none" /\ quit = 0
    /\ copies = [r \in Matching |-> 0] /\ overtaken = {} /\ failed = {}
    /\ clashes = 0 /\ failures = 0

-----------------------------------------------------------------------------
(* A collector puts a record into the channel.                             *)
Send(r) ==
    /\ r \notin sent /\ Len(fileJobs) < FileQueueCap
    /\ fileJobs' = Append(fileJobs, r) /\ sent' = sent \cup {r}
    /\ UNCHANGED <<slice, receiver, writing, isRunning, stopping, history>>

-----------------------------------------------------------------------------
(* JSONFileWorker.run                                                      *)

(* case query = <-t.jobs; a record that passes the filter is appended, and *)
(* append reads the length.                                                *)
Receive ==
    /\ run = "select" /\ fileJobs # <<>>
    /\ fileJobs' = Tail(fileJobs)
    /\ IF Head(fileJobs) \in Matching THEN run' = "append" /\ query' = Head(fileJobs) /\ seen' = length
                                  ELSE UNCHANGED receiver
    /\ UNCHANGED <<sent, slice, writing, isRunning, stopping, history>>

(* Slip: the new length without the element.                               *)
StoreLength ==
    /\ run = "append"
    /\ length' = seen + 1
    /\ run' = "select" /\ query' = NoRecord /\ seen' = 0
    /\ UNCHANGED <<channel, array, writing, isRunning, stopping, history>>

(* queries = append(queries, query) stores the element and the length.     *)
StoreQuery ==
    /\ run = "append"
    /\ array' = Append(SubSeq(array, 1, seen), query) \o SubSeq(array, seen + 2, Len(array))
    /\ length' = seen + 1
    /\ overtaken' = IF writer \in {"write", "reset"} THEN overtaken \cup {query} ELSE overtaken
    /\ run' = "select" /\ query' = NoRecord /\ seen' = 0
    /\ UNCHANGED <<channel, writing, isRunning, stopping, copies, failed, clashes, failures>>

(* case <-t.quit                                                           *)
TakeToken ==
    /\ run = "select" /\ quit = 1
    /\ quit' = 0 /\ isRunning' = FALSE
    /\ run' = "ack"
    /\ UNCHANGED <<channel, slice, query, seen, writing, stop, history>>

(* t.quit <- true; return                                                  *)
PutTokenBack ==
    /\ run = "ack"
    /\ quit' = 1 /\ run' = "stopped"
    /\ UNCHANGED <<channel, slice, query, seen, writing, isRunning, stop, history>>

-----------------------------------------------------------------------------
(* The writer, and writeData                                               *)

(* Slip: the reset comes before the write.                                 *)
ResetAndTakeSlice ==
    /\ writer = "sleep"
    /\ data' = <<>> /\ length' = 0
    /\ writer' = "write"
    /\ UNCHANGED <<channel, array, receiver, isRunning, stopping, history>>

(* case <-time.After(t.rotationDuration): the slice is passed on.          *)
TakeSlice ==
    /\ writer = "sleep"
    /\ data' = SubSeq(array, 1, length)
    /\ writer' = "write"
    /\ UNCHANGED <<channel, slice, receiver, isRunning, stopping, history>>

EndWrite ==
    /\ writer' = "reset" /\ data' = <<>>
    /\ UNCHANGED <<channel, slice, receiver, isRunning, stopping, overtaken>>

WrittenToFile(n) == copies' = [r \in Matching |-> IF r \in ToSet(data) THEN copies[r] + n ELSE copies[r]]

(* Into a new file, or appended to the one file without rotation; nothing  *)
(* at all for an empty slice.                                              *)
WriteFile ==
    /\ writer = "write"
    /\ WrittenToFile(1)
    /\ EndWrite
    /\ UNCHANGED <<failed, clashes, failures>>

(* A file of this second is there: a second later the data goes into a new *)
(* file, and then over the one that was there.                             *)
WriteTwice ==
    /\ writer = "write" /\ data # <<>> /\ Rotation /\ clashes < MaxClashes
    /\ WrittenToFile(2)
    /\ clashes' = clashes + 1
    /\ EndWrite
    /\ UNCHANGED <<failed, failures>>

(* The data cannot be marshalled or written: a log entry.                  *)
WriteFails ==
    /\ writer = "write" /\ data # <<>> /\ failures < MaxFailures
    /\ failed' = failed \cup ToSet(data) /\ failures' = failures + 1
    /\ EndWrite
    /\ UNCHANGED <<copies, clashes>>

(* Slip: no reset.                                                         *)
SkipReset ==
    /\ writer = "reset"
    /\ writer' = "check"
    /\ UNCHANGED <<channel, slice, receiver, data, isRunning, stopping, history>>

(* queries = queries[:0]                                                   *)
Reset ==
    /\ writer = "reset"
    /\ length' = 0
    /\ writer' = "check"
    /\ UNCHANGED <<channel, array, receiver, data, isRunning, stopping, history>>

(* Slip: one write only.                                                   *)
WriteOnce ==
    /\ writer = "check"
    /\ writer' = "stopped"
    /\ UNCHANGED <<channel, slice, receiver, data, isRunning, stopping, history>>

(* for t.IsRunning                                                         *)
CheckRunning ==
    /\ writer = "check"
    /\ writer' = IF isRunning THEN "sleep" ELSE "stopped"
    /\ UNCHANGED <<channel, slice, receiver, data, isRunning, stopping, history>>

-----------------------------------------------------------------------------
(* JSONFileWorker.Stop                                                     *)

StopPutsToken ==
    /\ stop = "none"
    /\ stop' = "wait" /\ quit' = 1
    /\ UNCHANGED <<channel, slice, receiver, writing, isRunning, history>>

(* <-t.quit finds the token run has put back, or its own.                  *)
StopTakesToken ==
    /\ stop = "wait" /\ quit = 1
    /\ stop' = "done" /\ quit' = 0
    /\ UNCHANGED <<channel, slice, receiver, writing, isRunning, history>>

Run == Receive \/ StoreQuery \/ PutTokenBack

Write == TakeSlice \/ WriteFile \/ WriteTwice \/ WriteFails \/ Reset \/ CheckRunning

FileNext ==
    \/ \E r \in Printables : Send(r)
    \/ Run \/ TakeToken \/ Write
    \/ StopPutsToken \/ StopTakesToken

FileSpec == FileInit /\ [][FileNext]_fileVars

FairFileSpec == FileSpec /\ WF_fileVars(Run) /\ WF_fileVars(Write) /\ WF_fileVars(StopTakesToken)

-----------------------------------------------------------------------------
(* Properties *)

(* A record was received and is neither in run's hand nor in queries nor   *)
(* with the writer.                                                        *)
Passed == Matching \cap (sent \ (ToSet(fileJobs) \cup {query} \cup Queries \cup ToSet(data)))

(* What has left the memory is in a file, unless its write failed or it    *)
(* was appended between the moment the writer took the slice and the reset.*)
LossNeedsCause == \A r \in Passed : copies[r] > 0 \/ r \in failed \cup overtaken

(* A record is written once, and again for every file of the same second   *)
(* and for every record that was appended over a reset.                    *)
CopiesBounded == \A r \in Matching : copies[r] <= 1 + clashes + Cardinality(Matching \ {r})

(* As long as nobody stops the worker it gets on with what is in queries.  *)
QueriesAreWritten ==
    [](stop = "none") => \A r \in Matching : (r \in Queries) ~> (copies[r] > 0 \/ r \in failed \cup overtaken)

=============================================================================
