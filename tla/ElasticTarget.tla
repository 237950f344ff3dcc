--------------------------- MODULE ElasticTarget ---------------------------
(***************************************************************************)
(* One Elasticsearch target: its Connector, which panics when the server   *)
(* is not there at the start, and the Workers that drain the channel into  *)
(* batches for the bulk API (src/target/elasticsearch/Connector.go,        *)
(* src/target/elasticsearch/Worker.go).                                    *)
(*                                                                         *)
(* Nobody probes the server once the factory has returned, so the branches *)
(* of Worker.run for a server that is down are never taken.  sendData      *)
(* takes every answer without "errors":true for a success, panics at one   *)
(* with it, and its client has no time-out.  Time and the external server  *)
(* are treated as in InfluxTarget.                                         *)
(***************************************************************************)
EXTENDS Naturals, Sequences, FiniteSets, Functions

CONSTANTS
    Workers,    \* indices of Connector.workers
    Records,    \* printables the collectors may produce
    Bad,        \* those the server answers with "errors":true
    QueueCap,   \* capacity of the channel (Main.BufferSize)
    BatchSize,  \* 10000 in Worker.run
    StartTries, \* 5 in ConnectorFactory
    MaxFaults   \* bound on the answers that mislead sendData

ASSUME SetsAssumption == IsFiniteSet(Workers) /\ Bad \subseteq Records
ASSUME NumbersAssumption ==
    /\ QueueCap \in Nat \ {0} /\ BatchSize \in Nat \ {0}
    /\ StartTries \in Nat /\ MaxFaults \in Nat

VARIABLES
    \* the server, whether it has the template, its misleading answers
    server, template, faults,
    \* the life of the connector, and the loop counter of its factory
    conn, tries,
    \* the channel, and the records put into it so far (history)
    jobs, accepted,
    \* run of each worker: where it is, its batch, the resends so far, what
    \* it read from the channel after an interrupt; its Stop goroutine
    pc, queries, round, drained, stopPc,
    \* what was written: points of the server, records in the dump file
    \* (which nobody reads back), and in the "-errors" file, if there is one
    stored, dump, errors, errorsThere,
    \* history: records the server answered without storing them, and those
    \* in the "-errors" file when it was cut to nothing
    believed, cut

env    == <<server, template, faults>>
life   == <<conn, tries>>
chan   == <<jobs, accepted>>
send   == <<queries, round, drained>>
files  == <<dump, errors, errorsThere, cut>>
vars   == <<env, life, chan, pc, send, stopPc, stored, believed, files>>

TypeOK ==
    /\ server \in {"up", "down", "hangs"} /\ template \in BOOLEAN /\ faults \in 0..MaxFaults
    /\ conn \in {"probing", "checking", "running", "stopping", "stopped", "dead"}
    /\ tries \in 0..StartTries
    /\ jobs \in Seq(Records) /\ Len(jobs) <= QueueCap /\ accepted \subseteq Records
    /\ pc \in [Workers -> {"new", "select", "post", "wait", "drain", "resend", "stat",
                           "create", "append", "panic", "ack", "stopped"}]
    /\ queries \in [Workers -> SUBSET Records] /\ drained \in [Workers -> SUBSET Records]
    /\ round \in [Workers -> 0..3]
    /\ stopPc \in [Workers -> {"none", "token", "send", "ack", "done"}]
    /\ stored \subseteq Records /\ errors \subseteq Records /\ errorsThere \in BOOLEAN
    /\ dump \subseteq Records
    /\ believed \subseteq Records /\ cut \subseteq Records

Init ==
    /\ server \in {"up", "down"} /\ template \in BOOLEAN /\ faults = 0
    /\ conn = "probing" /\ tries = 0
    /\ jobs = <<>> /\ accepted = {}
    /\ pc = [w \in Workers |-> "new"]
    /\ queries = [w \in Workers |-> {}] /\ drained = [w \in Workers |-> {}]
    /\ round = [w \in Workers |-> 0]
    /\ stopPc = [w \in Workers |-> "none"]
    /\ stored = {} /\ errors = {} /\ errorsThere \in BOOLEAN
    /\ dump = {}
    /\ believed = {} /\ cut = {}

-----------------------------------------------------------------------------
(* The server comes and goes, or keeps connections open without answering. *)
ServerChanges ==
    /\ server' \in {"up", "down", "hangs"} \ {server}
    /\ UNCHANGED <<template, faults, life, chan, pc, send, stopPc, stored, believed, files>>

(* What sendData makes of the answers to a POST of the records S, and what *)
(* the server has stored then.  A 429 or 503 has no "errors":true.         *)
Replies(S) ==
    LET Reply(result, saved, fault) == [result |-> result, saved |-> saved, fault |-> fault]
    IN  CASE server = "hangs" -> {}
          [] server = "down"  -> {Reply("httpClient", {}, 0)}
          [] server = "up"    ->
               {IF S \cap Bad = {} THEN Reply("nil", S, 0) ELSE Reply("panic", S \ Bad, 0)}
               \cup (IF faults = MaxFaults THEN {}
                     ELSE {Reply("nil", {}, 1), Reply("httpClient", S \ Bad, 1)})

-----------------------------------------------------------------------------
(* ConnectorFactory: main waits in it.  The client of the connector has a  *)
(* time-out, so a server that hangs is one that is not there.              *)

(* One more round of a loop of the factory, or s.log.Panic after the last. *)
TryAgainOrPanic == IF tries < StartTries THEN tries' = tries + 1 /\ conn' = conn
                   ELSE tries' = tries /\ conn' = "dead"

FactoryProbe ==
    /\ conn = "probing"
    /\ IF server = "up" THEN conn' = "checking" /\ tries' = 0 ELSE TryAgainOrPanic
    /\ UNCHANGED <<env, chan, pc, send, stopPc, stored, believed, files>>

FactoryStart ==
    /\ conn = "checking" /\ server = "up" /\ template
    /\ conn' = "running" /\ tries' = 0
    /\ pc' = [w \in Workers |-> "select"]
    /\ UNCHANGED <<env, chan, send, stopPc, stored, believed, files>>

(* The template is not there: createTemplate, which may fail, and once     *)
(* more.                                                                   *)
FactoryCreateTemplate ==
    /\ conn = "checking" /\ ~(server = "up" /\ template)
    /\ TryAgainOrPanic
    /\ template' \in {template, template \/ (server = "up" /\ conn' # "dead")}
    /\ UNCHANGED <<server, faults, chan, pc, send, stopPc, stored, believed, files>>

(* A collector, or the replay of the dump file, puts a record into the     *)
(* channel.                                                                *)
Enqueue(r) ==
    /\ conn \in {"running", "stopping"}
    /\ r \notin accepted /\ Len(jobs) < QueueCap
    /\ jobs' = Append(jobs, r) /\ accepted' = accepted \cup {r}
    /\ UNCHANGED <<env, life, pc, send, stopPc, stored, believed, files>>

-----------------------------------------------------------------------------
(* Worker.run *)

Goto(w, l) == pc' = [pc EXCEPT ![w] = l]

(* case query = <-worker.jobs, whatever the filter of the record           *)
ReceiveJob(w) ==
    /\ pc[w] = "select" /\ jobs # <<>>
    /\ jobs' = Tail(jobs)
    /\ queries' = [queries EXCEPT ![w] = @ \cup {Head(jobs)}]
    /\ Goto(w, IF Cardinality(queries'[w]) = BatchSize THEN "post" ELSE "select")
    /\ UNCHANGED <<env, life, accepted, round, drained, stopPc, stored, believed, files>>

(* Slip: only a full batch is sent.                                        *)
FlushFullBatch(w) ==
    /\ pc[w] = "select" /\ jobs = <<>> /\ Cardinality(queries[w]) = BatchSize
    /\ Goto(w, "post")
    /\ UNCHANGED <<env, life, chan, send, stopPc, stored, believed, files>>

(* case <-time.After(dataTimeout): the channel was empty for 20 seconds.   *)
FlushTimeout(w) ==
    /\ pc[w] = "select" /\ jobs = <<>> /\ queries[w] # {}
    /\ Goto(w, "post")
    /\ UNCHANGED <<env, life, chan, send, stopPc, stored, believed, files>>

(* case <-worker.quit, with a last sendBuffer.                             *)
ReceiveQuit(w) ==
    /\ pc[w] = "select" /\ stopPc[w] = "send"
    /\ stopPc' = [stopPc EXCEPT ![w] = "ack"]
    /\ Goto(w, IF queries[w] = {} THEN "ack" ELSE "post")
    /\ UNCHANGED <<env, life, chan, send, stored, believed, files>>

(* worker.quit <- true, and the rest of Worker.Stop.                       *)
AckQuit(w) ==
    /\ pc[w] = "ack" /\ stopPc[w] = "ack"
    /\ stopPc' = [stopPc EXCEPT ![w] = "done"]
    /\ Goto(w, "stopped")
    /\ UNCHANGED <<env, life, chan, send, stored, believed, files>>

-----------------------------------------------------------------------------
(* Worker.sendBuffer *)

(* Slip: run goes on after the last sendBuffer.                            *)
EndSendGoesOn(w) ==
    /\ queries' = [queries EXCEPT ![w] = {}]
    /\ round' = [round EXCEPT ![w] = 0]
    /\ Goto(w, "select")

(* Return to run, which empties the batch.                                 *)
EndSend(w) ==
    /\ queries' = [queries EXCEPT ![w] = {}]
    /\ round' = [round EXCEPT ![w] = 0]
    /\ Goto(w, IF stopPc[w] = "ack" THEN "ack" ELSE "select")

(* sendData for the first time or in a round of the loop; the third error  *)
(* of the loop is the last.                                                *)
SendData(w) ==
    /\ pc[w] \in {"post", "resend"}
    /\ \E a \in Replies(queries[w]) :
          /\ stored' = stored \cup a.saved
          /\ believed' = IF a.result = "nil" THEN believed \cup (queries[w] \ a.saved) ELSE believed
          /\ faults' = faults + a.fault
          /\ \/ a.result = "nil" /\ EndSend(w)
             \/ /\ a.result = "httpClient"
                /\ round' = [round EXCEPT ![w] = IF pc[w] = "post" THEN 0 ELSE @ + 1]
                /\ Goto(w, IF round'[w] = 3 THEN "stat" ELSE "wait")
                /\ UNCHANGED queries
             \/ a.result = "panic" /\ Goto(w, "panic") /\ UNCHANGED <<queries, round>>
    /\ UNCHANGED <<server, template, life, chan, drained, stopPc, files>>

(* printErrors writes what the server refused to files and panics: nobody  *)
(* recovers, so this ends the process.                                     *)
PrintErrors(w) ==
    /\ pc[w] = "panic"
    /\ conn' = "dead"
    /\ UNCHANGED <<env, tries, chan, pc, send, stopPc, stored, believed, files>>

(* waitForQuitOrGoOn: the token of Worker.Stop is there and is put back.   *)
QuitRequested(w) == stopPc[w] \in {"send", "ack", "done"}

WaitTimeout(w) ==
    /\ pc[w] = "wait" /\ ~QuitRequested(w)
    /\ Goto(w, "resend")
    /\ UNCHANGED <<env, life, chan, send, stopPc, stored, believed, files>>

(* dumpRemainingQueries under the package's mutex: read the channel until  *)
(* it is idle ...                                                          *)
WaitInterrupted(w) ==
    /\ pc[w] = "wait" /\ QuitRequested(w)
    /\ \A v \in Workers : pc[v] # "drain"
    /\ Goto(w, "drain")
    /\ UNCHANGED <<env, life, chan, send, stopPc, stored, believed, files>>

DrainJob(w) ==
    /\ pc[w] = "drain" /\ jobs # <<>>
    /\ jobs' = Tail(jobs)
    /\ drained' = [drained EXCEPT ![w] = @ \cup {Head(jobs)}]
    /\ UNCHANGED <<env, life, accepted, pc, queries, round, stopPc, stored, believed, files>>

(* Slip: what was read from the channel is not appended to the batch.      *)
DumpOwnQueriesOnly(w) ==
    /\ pc[w] = "drain" /\ jobs = <<>>
    /\ dump' = dump \cup queries[w]
    /\ drained' = [drained EXCEPT ![w] = {}]
    /\ Goto(w, "resend")
    /\ UNCHANGED <<env, life, chan, queries, round, stopPc, stored, believed, errors,
                   errorsThere, cut>>

(* ... and dump it with the batch, which is sent again all the same.       *)
DumpRemainingQueries(w) ==
    /\ pc[w] = "drain" /\ jobs = <<>>
    /\ dump' = dump \cup queries[w] \cup drained[w]
    /\ drained' = [drained EXCEPT ![w] = {}]
    /\ Goto(w, "resend")
    /\ UNCHANGED <<env, life, chan, queries, round, stopPc, stored, believed, errors,
                   errorsThere, cut>>

(* dumpErrorQueries after the last round, without the mutex: two workers   *)
(* may both find no file, and the later os.Create cuts what the other one  *)
(* has written.                                                            *)
StatErrors(w) ==
    /\ pc[w] = "stat"
    /\ Goto(w, IF errorsThere THEN "append" ELSE "create")
    /\ UNCHANGED <<env, life, chan, send, stopPc, stored, believed, files>>

CreateErrors(w) ==
    /\ pc[w] = "create"
    /\ errorsThere' = TRUE /\ errors' = {} /\ cut' = cut \cup errors
    /\ Goto(w, "append")
    /\ UNCHANGED <<env, life, chan, send, stopPc, stored, believed, dump>>

AppendErrors(w) ==
    /\ pc[w] = "append"
    /\ errors' = errors \cup queries[w]
    /\ EndSend(w)
    /\ UNCHANGED <<env, life, chan, drained, stopPc, stored, believed, dump, errorsThere, cut>>

-----------------------------------------------------------------------------
(* Connector.Stop, Connector.run and Worker.Stop *)

StopConnector ==
    /\ conn = "running"
    /\ conn' = "stopping"
    /\ stopPc' = [w \in Workers |-> "token"]
    /\ UNCHANGED <<env, tries, chan, pc, send, stored, believed, files>>

(* worker.quitInternal <- true *)
PutToken(w) ==
    /\ stopPc[w] = "token"
    /\ stopPc' = [stopPc EXCEPT ![w] = "send"]
    /\ UNCHANGED <<env, life, chan, pc, send, stored, believed, files>>

(* run has seen IsRunning = false for every worker and lets Stop return.   *)
ConnectorStopped ==
    /\ conn = "stopping"
    /\ \A w \in Workers : stopPc[w] = "done"
    /\ conn' = "stopped"
    /\ UNCHANGED <<env, tries, chan, pc, send, stopPc, stored, believed, files>>

-----------------------------------------------------------------------------
Factory == FactoryProbe \/ FactoryStart \/ FactoryCreateTemplate

Select(w) == ReceiveJob(w) \/ FlushTimeout(w) \/ ReceiveQuit(w) \/ AckQuit(w)

SendBuffer(w) ==
    \/ SendData(w) \/ PrintErrors(w)
    \/ WaitTimeout(w) \/ WaitInterrupted(w) \/ DrainJob(w) \/ DumpRemainingQueries(w)
    \/ StatErrors(w) \/ CreateErrors(w) \/ AppendErrors(w)

(* The process has ended, or the target has stopped.                       *)
Ended == conn \in {"stopped", "dead"}

Next ==
    \/ /\ ~Ended
       /\ \/ ServerChanges \/ Factory
          \/ \E r \in Records : Enqueue(r)
          \/ \E w \in Workers : Select(w) \/ SendBuffer(w) \/ PutToken(w)
          \/ StopConnector \/ ConnectorStopped
    \/ Ended /\ UNCHANGED vars

Spec == Init /\ [][Next]_vars

(* As in InfluxTarget: goroutines that can run do, and a select that finds *)
(* quit ready again and again takes it.                                    *)
Fairness ==
    /\ WF_vars(~Ended /\ Factory)
    /\ \A w \in Workers :
          /\ WF_vars(~Ended /\ Select(w)) /\ SF_vars(~Ended /\ ReceiveQuit(w))
          /\ WF_vars(~Ended /\ SendBuffer(w)) /\ WF_vars(~Ended /\ PutToken(w))
    /\ WF_vars(ConnectorStopped)

FairSpec == Spec /\ Fairness

-----------------------------------------------------------------------------
(* Properties *)

(* Where a record may end: with the server, in a file, or lost for one of  *)
(* the two reasons of this code.                                           *)
Settled == stored \cup dump \cup errors \cup believed \cup cut

(* The target implements Forwarder, when an answer that is no error counts *)
(* as success and a file that was cut as written: no record disappears for *)
(* another reason, and Stop returns only when the workers hold nothing.    *)
(* (A panic leaves the records where they are in memory.)                  *)
Promise == INSTANCE Forwarder WITH
    queued  <- Range(jobs),
    held    <- (UNION {queries[w] \cup drained[w] : w \in Workers}) \ Settled,
    settled <- Settled,
    open    <- conn # "stopped"

KeepsPromise == Promise!FSpec

(* Connector.Stop returns, or a panic ends the process, unless the server  *)
(* leaves a request unanswered for ever: the client has no time-out.       *)
StopTerminates == <>[](server # "hangs") => (conn = "stopping" ~> Ended)

(* When the server has recovered for good every record is settled, unless  *)
(* the target ends first.                                                  *)
EventuallySettled ==
    <>[](server = "up") => \A r \in Records : r \in accepted ~> (r \in Settled \/ Ended)

=============================================================================
