----------------------------- MODULE NagiosSpool -----------------------------
(***************************************************************************)
(* The intake of Nagios spool files: the collector that lists the folder   *)
(* and hands the file names to its workers, the workers that read a file,  *)
(* deliver its performance data to the channel of every target and remove  *)
(* it, and the Stop of both (nagiosSpoolfileCollector.go and               *)
(* nagiosSpoolfileWorker.go in src/collector/spoolfile).                   *)
(*                                                                         *)
(* A file is what its lines yield until the first one that does not fit    *)
(* into the buffer.  The contents of the target channels do not matter,    *)
(* only how full they are.  The collector lists every file again until it  *)
(* is gone, so a name may be in the channel several times, and two workers *)
(* may read one file.                                                      *)
(***************************************************************************)
EXTENDS Naturals, Sequences, FiniteSets, Functions

CONSTANTS
    Workers,    \* NagiosSpoolfileCollector.workers
    NoWorker,
    Files,      \* files Nagios may put into the folder, each under its own name
    NoFile,
    MaxItems,
    Items,      \* number of performance data in a file, at most MaxItems
    Targets,    \* keys of resultQueues
    JobsCap,    \* capacity of the channel of names, 100
    QueueCap    \* capacity of a target's channel (Main.BufferSize)

ASSUME WorkersAssumption == IsFiniteSet(Workers) /\ NoWorker \notin Workers
ASSUME FilesAssumption == NoFile \notin Files /\ MaxItems \in Nat /\ Items \in [Files -> 0..MaxItems]
ASSUME TargetsAssumption == Targets # {}
ASSUME CapsAssumption == JobsCap \in Nat \ {0} /\ QueueCap \in Nat \ {0}

VARIABLES
    \* the folder, the files that ever were in it, the answer of
    \* IsAnyTargetOnPause
    spool, arrived, pause,
    \* the collector: where run is, and the rest of the listing
    run, listing,
    \* the channel of names
    jobs,
    \* the workers: where run is, the file, the performance data, and the
    \* targets that have not had it yet
    pc, current, item, todo,
    \* how full the channels of the targets are
    filled,
    \* Stop: where it is, the workers it has not stopped yet, the one it stops
    stop, toStop, victim,
    \* history: how often a worker delivered something, and what timed out
    delivered, dropped

folder   == <<spool, arrived, pause>>
lister   == <<run, listing>>
reader   == <<pc, current, item, todo>>
stopping == <<stop, toStop, victim>>
history  == <<delivered, dropped>>
vars     == <<folder, lister, jobs, reader, filled, stopping, history>>

-----------------------------------------------------------------------------
(* What can be delivered: the i-th performance data of a file, to a target. *)
Deliveries == {d \in Files \X (1..MaxItems) \X Targets : d[2] <= Items[d[1]]}

TypeOK ==
    /\ spool \subseteq arrived /\ arrived \subseteq Files /\ pause \in BOOLEAN
    /\ run \in {"wait", "list", "enqueue", "ack", "stopped"}
    /\ listing \subseteq Files
    /\ jobs \in Seq(Files) /\ Len(jobs) <= JobsCap
    /\ pc \in [Workers -> {"idle", "open", "read", "deliver", "ack", "stopped"}]
    /\ current \in [Workers -> Files \cup {NoFile}]
    /\ item \in [Workers -> Nat]
    /\ todo \in [Workers -> SUBSET Targets]
    /\ filled \in [Targets -> 0..QueueCap]
    /\ stop \in {"none", "collector", "collectorAck", "next", "worker", "workerAck", "done"}
    /\ toStop \subseteq Workers /\ victim \in Workers \cup {NoWorker}
    /\ delivered \in [Workers -> [Deliveries -> Nat]]
    /\ dropped \subseteq Deliveries

Init ==
    /\ spool = {} /\ arrived = {} /\ pause \in BOOLEAN
    /\ run = "wait" /\ listing = {}
    /\ jobs = <<>>
    /\ pc = [w \in Workers |-> "idle"]
    /\ current = [w \in Workers |-> NoFile]
    /\ item = [w \in Workers |-> 0]
    /\ todo = [w \in Workers |-> {}]
    /\ filled = [t \in Targets |-> 0]
    /\ stop = "none" /\ toStop = Workers /\ victim = NoWorker
    /\ delivered = [w \in Workers |-> [d \in Deliveries |-> 0]]
    /\ dropped = {}

-----------------------------------------------------------------------------
(* Nagios, and the targets.                                                *)

Arrive(f) ==
    /\ f \notin arrived
    /\ spool' = spool \cup {f} /\ arrived' = arrived \cup {f}
    /\ UNCHANGED <<pause, lister, jobs, reader, filled, stopping, history>>

(* StoreValue by some target.                                              *)
ChangePause ==
    /\ pause' = ~pause
    /\ UNCHANGED <<spool, arrived, lister, jobs, reader, filled, stopping, history>>

Consume(t) ==
    /\ filled[t] > 0
    /\ filled' = [filled EXCEPT ![t] = @ - 1]
    /\ UNCHANGED <<folder, lister, jobs, reader, stopping, history>>

-----------------------------------------------------------------------------
(* NagiosSpoolfileCollector.run *)

(* case <-time.After(IntervalToCheckDirectory), not in pause.              *)
Tick ==
    /\ run = "wait" /\ ~pause
    /\ run' = "list"
    /\ UNCHANGED <<folder, listing, jobs, reader, filled, stopping, history>>

(* ioutil.ReadDir: all files, whatever became of them in earlier ticks.    *)
ReadDir ==
    /\ run = "list"
    /\ listing' = spool
    /\ run' = "enqueue"
    /\ UNCHANGED <<folder, jobs, reader, filled, stopping, history>>

EnqueueFile(f) ==
    /\ run = "enqueue" /\ f \in listing /\ Len(jobs) < JobsCap
    /\ jobs' = Append(jobs, f)
    /\ listing' = listing \ {f}
    /\ UNCHANGED <<folder, run, reader, filled, stopping, history>>

(* case <-time.After(1 minute): the file stays for the next tick.          *)
SkipFile(f) ==
    /\ run = "enqueue" /\ f \in listing /\ Len(jobs) = JobsCap
    /\ listing' = listing \ {f}
    /\ UNCHANGED <<folder, run, jobs, reader, filled, stopping, history>>

EndOfListing ==
    /\ run = "enqueue" /\ listing = {}
    /\ run' = "wait"
    /\ UNCHANGED <<folder, listing, jobs, reader, filled, stopping, history>>

(* case <-s.quit, in front of a tick or of a file: rendezvous with Stop.   *)
CollectorQuits ==
    /\ stop = "collector"
    /\ run = "wait" \/ (run = "enqueue" /\ listing # {})
    /\ run' = "ack" /\ stop' = "collectorAck"
    /\ UNCHANGED <<folder, listing, jobs, reader, filled, toStop, victim, history>>

(* s.quit <- true; return                                                  *)
CollectorAcks ==
    /\ stop = "collectorAck"
    /\ run' = "stopped" /\ stop' = "next"
    /\ UNCHANGED <<folder, listing, jobs, reader, filled, toStop, victim, history>>

Collector ==
    \/ Tick \/ ReadDir \/ EndOfListing
    \/ \E f \in Files : EnqueueFile(f) \/ SkipFile(f)

-----------------------------------------------------------------------------
(* NagiosSpoolfileWorker.run *)

Goto(w, l) == pc' = [pc EXCEPT ![w] = l]

(* case file = <-w.jobs                                                    *)
TakeJob(w) ==
    /\ pc[w] = "idle" /\ jobs # <<>>
    /\ current' = [current EXCEPT ![w] = Head(jobs)]
    /\ jobs' = Tail(jobs)
    /\ Goto(w, "open")
    /\ UNCHANGED <<folder, lister, item, todo, filled, stopping, history>>

(* OpenFile fails when another worker has removed the file.                *)
OpenFile(w) ==
    /\ pc[w] = "open"
    /\ IF current[w] \in spool
       THEN Goto(w, "read") /\ UNCHANGED current
       ELSE Goto(w, "idle") /\ current' = [current EXCEPT ![w] = NoFile]
    /\ item' = [item EXCEPT ![w] = 0]
    /\ UNCHANGED <<folder, lister, jobs, todo, filled, stopping, history>>

(* The next performance data of the file, for all targets.                 *)
NextItem(w) ==
    /\ pc[w] = "read" /\ item[w] < Items[current[w]]
    /\ item' = [item EXCEPT ![w] = @ + 1]
    /\ todo' = [todo EXCEPT ![w] = Targets]
    /\ Goto(w, "deliver")
    /\ UNCHANGED <<folder, lister, jobs, current, filled, stopping, history>>

(* The loop over the results has done target t.                            *)
Done(w, t) ==
    /\ todo' = [todo EXCEPT ![w] = @ \ {t}]
    /\ Goto(w, IF todo[w] = {t} THEN "read" ELSE "deliver")

(* case r <- singlePerfdata                                                *)
Deliver(w, t) ==
    /\ pc[w] = "deliver" /\ t \in todo[w] /\ filled[t] < QueueCap
    /\ filled' = [filled EXCEPT ![t] = @ + 1]
    /\ delivered' = [delivered EXCEPT ![w][<<current[w], item[w], t>>] = @ + 1]
    /\ Done(w, t)
    /\ UNCHANGED <<folder, lister, jobs, current, item, stopping, dropped>>

(* Slip: no timeout, the worker waits until the target has room.           *)
DropNothing(w, t) == t \in todo[w] /\ pc[w] = "waiting" /\ UNCHANGED vars

(* case <-time.After(10 seconds): this target does not get it.             *)
Drop(w, t) ==
    /\ pc[w] = "deliver" /\ t \in todo[w] /\ filled[t] = QueueCap
    /\ dropped' = dropped \cup {<<current[w], item[w], t>>}
    /\ Done(w, t)
    /\ UNCHANGED <<folder, lister, jobs, current, item, filled, stopping, delivered>>

(* Slip: the file is removed after its first line.                         *)
RemoveFileEarly(w) ==
    /\ pc[w] = "read" /\ item[w] > 0
    /\ spool' = spool \ {current[w]}
    /\ current' = [current EXCEPT ![w] = NoFile]
    /\ item' = [item EXCEPT ![w] = 0]
    /\ Goto(w, "idle")
    /\ UNCHANGED <<arrived, pause, lister, jobs, todo, filled, stopping, history>>

(* Slip: the file is closed but not removed.                               *)
CloseFile(w) ==
    /\ pc[w] = "read" /\ item[w] = Items[current[w]]
    /\ current' = [current EXCEPT ![w] = NoFile]
    /\ item' = [item EXCEPT ![w] = 0]
    /\ Goto(w, "idle")
    /\ UNCHANGED <<folder, lister, jobs, todo, filled, stopping, history>>

(* No more lines: os.Remove, which fails when another worker was faster.   *)
RemoveFile(w) ==
    /\ pc[w] = "read" /\ item[w] = Items[current[w]]
    /\ spool' = spool \ {current[w]}
    /\ current' = [current EXCEPT ![w] = NoFile]
    /\ item' = [item EXCEPT ![w] = 0]
    /\ Goto(w, "idle")
    /\ UNCHANGED <<arrived, pause, lister, jobs, todo, filled, stopping, history>>

(* case <-w.quit, between files or in front of a delivery: the file stays. *)
WorkerQuits(w) ==
    /\ stop = "worker" /\ victim = w
    /\ pc[w] \in {"idle", "deliver"}
    /\ Goto(w, "ack") /\ stop' = "workerAck"
    /\ UNCHANGED <<folder, lister, jobs, current, item, todo, filled, toStop, victim, history>>

(* Slip: break leaves the select only, and the worker reads on.            *)
WorkerAcksAndReadsOn(w) ==
    /\ stop = "workerAck" /\ victim = w
    /\ Goto(w, IF current[w] = NoFile THEN "stopped" ELSE "read")
    /\ toStop' = toStop \ {w} /\ stop' = "next" /\ victim' = NoWorker
    /\ UNCHANGED <<folder, lister, jobs, current, item, todo, filled, history>>

(* Slip: return without the acknowledgement.                               *)
WorkerReturnsSilently(w) ==
    /\ stop = "workerAck" /\ victim = w /\ pc[w] = "ack"
    /\ Goto(w, "stopped")
    /\ UNCHANGED <<folder, lister, jobs, current, item, todo, filled, stopping, history>>

(* w.quit <- true; return                                                  *)
WorkerAcks(w) ==
    /\ stop = "workerAck" /\ victim = w
    /\ Goto(w, "stopped")
    /\ toStop' = toStop \ {w} /\ stop' = "next" /\ victim' = NoWorker
    /\ UNCHANGED <<folder, lister, jobs, current, item, todo, filled, history>>

Worker(w) ==
    \/ TakeJob(w) \/ OpenFile(w) \/ NextItem(w) \/ RemoveFile(w)
    \/ \E t \in Targets : Deliver(w, t) \/ Drop(w, t)

-----------------------------------------------------------------------------
(* NagiosSpoolfileCollector.Stop: itself first, then worker after worker.  *)

StopCollector ==
    /\ stop = "none"
    /\ stop' = "collector"
    /\ UNCHANGED <<folder, lister, jobs, reader, filled, toStop, victim, history>>

StopWorker(w) ==
    /\ stop = "next" /\ w \in toStop
    /\ stop' = "worker" /\ victim' = w
    /\ UNCHANGED <<folder, lister, jobs, reader, filled, toStop, history>>

StopReturns ==
    /\ stop = "next" /\ toStop = {}
    /\ stop' = "done"
    /\ UNCHANGED <<folder, lister, jobs, reader, filled, toStop, victim, history>>

Stop == CollectorAcks \/ StopReturns \/ \E w \in Workers : StopWorker(w) \/ WorkerAcks(w)

Next ==
    \/ \E f \in Files : Arrive(f)
    \/ ChangePause
    \/ \E t \in Targets : Consume(t)
    \/ Collector \/ CollectorQuits
    \/ \E w \in Workers : Worker(w) \/ WorkerQuits(w)
    \/ StopCollector \/ Stop

Spec == Init /\ [][Next]_vars

(* Every goroutine runs when it can; a select that finds its quit branch   *)
(* ready again and again takes it.  Nothing is assumed of Nagios, of the   *)
(* targets or of the moment main stops the collector.                      *)
FairSpec ==
    /\ Spec
    /\ WF_vars(Collector) /\ SF_vars(CollectorQuits)
    /\ \A w \in Workers : WF_vars(Worker(w)) /\ SF_vars(WorkerQuits(w))
    /\ WF_vars(Stop)

-----------------------------------------------------------------------------
(* Properties *)

(* d reached its target, or its target was full for ten seconds.           *)
Settled(d) == d \in dropped \/ \E w \in Workers : delivered[w][d] > 0

(* The workers that race for a file, and Stop, which may leave one at any  *)
(* point, keep the promise of an intake: a file is removed only when it    *)
(* was delivered completely to every target, apart from what timed out.    *)
Promise == INSTANCE Intake WITH folder <- spool, settled <- {d \in Deliveries : Settled(d)}

KeepsPromise == Promise!Spec

(* The collector hands out a name again and again, but no worker delivers  *)
(* anything twice: a target gets at most one copy per worker.              *)
AtMostOncePerWorker == \A w \in Workers : \A d \in Deliveries : delivered[w][d] <= 1

(* When Stop has returned nothing is delivered or removed any more.        *)
QuietAfterStop == [][stop = "done" => UNCHANGED <<delivered, dropped>> /\ spool \subseteq spool']_vars

(* Stop returns, however full the channels are and whatever Nagios adds.   *)
StopTerminates == (stop # "none") ~> (stop = "done")

(* When the pause ends for good, every file is worked off, even if each    *)
(* target stops reading: a full channel costs data but not progress.       *)
FilesAreWorkedOff ==
    <>[]~pause => \A f \in Files : (f \in spool) ~> (f \notin spool \/ stop # "none")

=============================================================================
