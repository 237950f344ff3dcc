------------------------------ MODULE Nagflux ------------------------------
(***************************************************************************)
(* The process as main puts it together (src/main.go): the targets with    *)
(* the collectors of their dump files are started one after the other,     *)
(* then the collectors of new data; a signal stops everything in the       *)
(* opposite order; a target that cannot be started, a kill and the end of  *)
(* main end all goroutines at once.                                        *)
(*                                                                         *)
(* Each component is here what its own module shows of it: a target is a   *)
(* Forwarder, a collector of files or jobs an Intake, Stop returns when    *)
(* InfluxTarget, NagiosSpool, NagfluxFiles and GearmanWorker say.  The     *)
(* livestatus collector and cache, whose Stop never waits, and the JSON    *)
(* targets, which have no server and no dump file, are left out.           *)
(***************************************************************************)
EXTENDS Naturals, Sequences, FiniteSets, Functions, SequencesExt

CONSTANTS
    TargetOrder,  \* the enabled targets, the InfluxDBs first
    Influx,       \* those that are InfluxDBs; the others are Elasticsearchs
    Pausing,      \* the InfluxDBs with StopPullingDataIfDown
    FilesOf,      \* for each collector the files or jobs of one record
    Nothing,      \* a collector works on no record
    QueueCap,     \* Main.BufferSize
    MaxOutages,   \* bound on the outages of the servers
    MaxLives      \* bound on the starts of the process

Targets    == ToSet(TargetOrder)
Collectors == {"gearman", "nagios", "nagflux"}
Records    == UNION {FilesOf[c] : c \in Collectors}

ASSUME TargetsAssumption == Pausing \subseteq Influx /\ Influx \subseteq Targets
ASSUME RecordsAssumption == Nothing \notin Records
ASSUME NumbersAssumption == QueueCap \in Nat \ {0} /\ MaxOutages \in Nat /\ MaxLives \in Nat \ {0}

VARIABLES
    \* the servers of the targets, and how often one went down
    server, outages,
    \* main: starting, running, in cleanUp or ended; the component it starts
    \* or stops; the lives of the process
    phase, at, lives,
    \* the components with a goroutine, the pause map, and isAlive of the
    \* connectors that write to it
    running, pause, alive,
    \* the files and jobs that are there, and what each collector works on:
    \* the record and the targets that have not got it
    source, task, todo,
    \* for each target what its workers and its channel hold, in this order,
    \* and what a worker does with the first of it: it has a batch to send,
    \* the batch has failed, it is sent again
    queue, held,
    \* what was written: points of the server (or a file nobody reads back),
    \* the dump file, and what its collector has read of it
    settled, dumpFile, replayed,
    \* history, as pairs of a record and a target: timed out at a full
    \* channel; in memory when the process ended; appended to the dump file
    \* behind the end its collector has seen, and removed with it; given up
    \* by a worker in this life of the process
    timedOut, forgotten, unread, givenUp

servers    == <<server, outages>>
process    == <<phase, at, lives>>
probed     == <<pause, alive>>
collecting == <<source, task, todo>>
written    == <<settled, dumpFile, replayed>>
history    == <<timedOut, forgotten, unread, givenUp>>
vars       == <<servers, process, running, probed, collecting, queue, held, written, history>>

-----------------------------------------------------------------------------
(* The order in which main starts the components; it gives the collector   *)
(* of a dump file some time, a minute at most, before it goes on.          *)
StartOrder ==
    FlattenSeq([n \in DOMAIN TargetOrder |->
                   <<<<"target", TargetOrder[n]>>, <<"dump", TargetOrder[n]>>>>])
    \o <<<<"collector", "gearman">>, <<"collector", "nagios">>, <<"collector", "nagflux">>>>

(* Slip: cleanUp stops the components in the order of their start.         *)
StopInStartOrder == StartOrder

(* cleanUp walks stoppables from the last to the first.                    *)
StopOrder == Reverse(StartOrder)

(* A server that is down at the start has failed before the first step.    *)
Init ==
    /\ server = [t \in Targets |-> "up"] /\ outages = 0
    /\ phase = "start" /\ at = 1 /\ lives = 1
    /\ running = {}
    /\ pause = [t \in Targets |-> FALSE] /\ alive = [t \in Targets |-> FALSE]
    /\ source = Records
    /\ task = [c \in Collectors |-> Nothing] /\ todo = [c \in Collectors |-> {}]
    /\ queue = [t \in Targets |-> <<>>] /\ held = [t \in Targets |-> "none"]
    /\ settled = [t \in Targets |-> {}]
    /\ dumpFile = [t \in Targets |-> {}] /\ replayed = [t \in Targets |-> {}]
    /\ timedOut = {} /\ forgotten = {} /\ unread = {} /\ givenUp = {}

ServerFails(t) ==
    /\ server[t] = "up" /\ outages < MaxOutages
    /\ server' = [server EXCEPT ![t] = "down"] /\ outages' = outages + 1
    /\ UNCHANGED <<process, running, probed, collecting, queue, held, written, history>>

ServerRecovers(t) ==
    /\ server[t] = "down"
    /\ server' = [server EXCEPT ![t] = "up"]
    /\ UNCHANGED <<outages, process, running, probed, collecting, queue, held, written, history>>

-----------------------------------------------------------------------------
(* The end of the process, and its next start.                             *)

ProcessEnds ==
    /\ phase' = "off" /\ at' = 1
    /\ running' = {}
    /\ pause' = [t \in Targets |-> FALSE] /\ alive' = [t \in Targets |-> FALSE]
    /\ task' = [c \in Collectors |-> Nothing] /\ todo' = [c \in Collectors |-> {}]
    /\ queue' = [t \in Targets |-> <<>>] /\ held' = [t \in Targets |-> "none"]
    /\ replayed' = [t \in Targets |-> {}]
    /\ forgotten' = forgotten \cup UNION {ToSet(queue[t]) \X {t} : t \in Targets}
    /\ givenUp' = {}
    /\ UNCHANGED <<servers, lives, source, settled, dumpFile, timedOut, unread>>

(* A kill, or a signal before main listens to it.                          *)
Kill == phase # "off" /\ lives < MaxLives /\ ProcessEnds

Restart ==
    /\ phase = "off" /\ lives < MaxLives
    /\ phase' = "start" /\ lives' = lives + 1
    /\ UNCHANGED <<servers, at, running, probed, collecting, queue, held, written, history>>

-----------------------------------------------------------------------------
(* main until it listens to signals                                        *)

Starts(kind, x) == phase = "start" /\ at <= Len(StartOrder) /\ StartOrder[at] = <<kind, x>>

Started(component) == running' = running \cup {component} /\ at' = at + 1

(* The factory of an InfluxDB that pauses waits for the server; the other  *)
(* ones start their workers in any case.                                   *)
StartTarget(t) ==
    /\ Starts("target", t)
    /\ server[t] = "up" \/ t \in Influx \ Pausing
    /\ Started(<<"target", t>>)
    /\ pause' = [pause EXCEPT ![t] = FALSE]
    /\ alive' = [alive EXCEPT ![t] = t \in Pausing]
    /\ UNCHANGED <<servers, phase, lives, collecting, queue, held, written, history>>

FactoryPauses(t) ==
    /\ Starts("target", t) /\ server[t] = "down" /\ t \in Pausing /\ ~pause[t]
    /\ pause' = [pause EXCEPT ![t] = TRUE]
    /\ UNCHANGED <<servers, process, running, alive, collecting, queue, held, written, history>>

(* An Elasticsearch that is not there in time: the panic takes with it     *)
(* what the targets started before have in memory.                         *)
FactoryPanics(t) ==
    /\ Starts("target", t) /\ server[t] = "down" /\ t \notin Influx
    /\ ProcessEnds

(* Neither the collectors of dump files nor those of new data wait for     *)
(* anything.                                                               *)
StartComponent(kind, x) ==
    /\ kind \in {"dump", "collector"} /\ Starts(kind, x)
    /\ Started(<<kind, x>>)
    /\ UNCHANGED <<servers, phase, lives, probed, collecting, queue, held, written, history>>

ListenToSignals ==
    /\ phase = "start" /\ at > Len(StartOrder)
    /\ phase' = "run"
    /\ UNCHANGED <<servers, at, lives, running, probed, collecting, queue, held, written, history>>

-----------------------------------------------------------------------------
(* Intake: the collectors                                                  *)

Runs(kind, x) == <<kind, x>> \in running

(* cleanUp is past component <<kind, x>>.                                  *)
Stopped(kind, x) == phase = "cleanUp" /\ \E n \in 1..(at - 1) : StopOrder[n] = <<kind, x>>

AnyTargetOnPause == \E t \in Targets : pause[t]

(* The collectors of files do not start while a target pauses; a closed    *)
(* Gearman worker gets no jobs.                                            *)
PickUp(c, r) ==
    /\ Runs("collector", c) /\ task[c] = Nothing /\ r \in FilesOf[c] \cap source
    /\ IF c = "gearman" THEN ~Stopped("collector", c) ELSE ~AnyTargetOnPause
    /\ task' = [task EXCEPT ![c] = r] /\ todo' = [todo EXCEPT ![c] = Targets]
    /\ UNCHANGED <<servers, process, running, probed, source, queue, held, written, history>>

(* What is in the channel; what a worker holds is not.                     *)
Load(t)    == Len(queue[t]) - (IF held[t] = "none" THEN 0 ELSE 1)
HasRoom(t) == Load(t) < QueueCap

Deliver(c, t) ==
    /\ t \in todo[c] /\ HasRoom(t)
    /\ queue' = [queue EXCEPT ![t] = Append(@, task[c])]
    /\ todo' = [todo EXCEPT ![c] = @ \ {t}]
    /\ UNCHANGED <<servers, process, running, probed, source, task, held, written, history>>

(* The channel is full for ten seconds or a minute.                        *)
Drop(c, t) ==
    /\ t \in todo[c] /\ ~HasRoom(t)
    /\ timedOut' = timedOut \cup {<<task[c], t>>}
    /\ todo' = [todo EXCEPT ![c] = @ \ {t}]
    /\ UNCHANGED <<servers, process, running, probed, source, task, queue, held, written,
                   forgotten, unread, givenUp>>

(* Slip: the file is removed before every target has the record.           *)
FinishEarly(c) ==
    /\ task[c] # Nothing
    /\ source' = IF Stopped("collector", c) /\ c = "gearman" THEN source ELSE source \ {task[c]}
    /\ task' = [task EXCEPT ![c] = Nothing] /\ todo' = [todo EXCEPT ![c] = {}]
    /\ UNCHANGED <<servers, process, running, probed, queue, held, written, history>>

(* The file is removed; a job is answered unless the worker is closed.     *)
Finish(c) ==
    /\ task[c] # Nothing /\ todo[c] = {}
    /\ source' = IF Stopped("collector", c) /\ c = "gearman" THEN source ELSE source \ {task[c]}
    /\ task' = [task EXCEPT ![c] = Nothing]
    /\ UNCHANGED <<servers, process, running, probed, todo, queue, held, written, history>>

(* The collector of a dump file reads a record of it; if the channel is    *)
(* full for twenty seconds it goes on with the next one.                   *)
ReplayLine(t, r) ==
    /\ Runs("dump", t) /\ ~Runs("remove", t) /\ r \in dumpFile[t] \ replayed[t]
    /\ IF HasRoom(t)
       THEN queue' = [queue EXCEPT ![t] = Append(@, r)] /\ UNCHANGED timedOut
       ELSE timedOut' = timedOut \cup {<<r, t>>} /\ UNCHANGED queue
    /\ replayed' = [replayed EXCEPT ![t] = @ \cup {r}]
    /\ UNCHANGED <<servers, process, running, probed, collecting, held, settled, dumpFile,
                   forgotten, unread, givenUp>>

ReplayEnds(t) ==
    /\ Runs("dump", t) /\ ~Runs("remove", t) /\ dumpFile[t] \subseteq replayed[t]
    /\ running' = running \cup {<<"remove", t>>}
    /\ UNCHANGED <<servers, process, probed, collecting, queue, held, written, history>>

(* It removes the file, and what a worker has appended since its end.      *)
RemoveDump(t) ==
    /\ Runs("remove", t)
    /\ unread' = unread \cup (dumpFile[t] \ replayed[t]) \X {t}
    /\ dumpFile' = [dumpFile EXCEPT ![t] = {}] /\ replayed' = [replayed EXCEPT ![t] = {}]
    /\ running' = running \ {<<"dump", t>>, <<"remove", t>>}
    /\ UNCHANGED <<servers, process, probed, collecting, queue, held, settled,
                   timedOut, forgotten, givenUp>>

-----------------------------------------------------------------------------
(* Forwarder: the targets                                                  *)

(* The workers of a target that pauses do not read once a ping has failed. *)
Reads(t) == Runs("target", t) /\ (t \in Pausing => alive[t])

Take(t) ==
    /\ Reads(t) /\ held[t] = "none" /\ queue[t] # <<>>
    /\ held' = [held EXCEPT ![t] = "batch"]
    /\ UNCHANGED <<servers, process, running, probed, collecting, queue, written, history>>

Store(t) ==
    /\ held[t] \in {"batch", "retry"} /\ server[t] = "up"
    /\ settled' = [settled EXCEPT ![t] = @ \cup {Head(queue[t])}]
    /\ queue' = [queue EXCEPT ![t] = Tail(@)] /\ held' = [held EXCEPT ![t] = "none"]
    /\ UNCHANGED <<servers, process, running, probed, collecting, dumpFile, replayed, history>>

(* A worker of a target that pauses pings the server next.                 *)
SendFails(t) ==
    /\ held[t] = "batch" /\ server[t] = "down"
    /\ held' = [held EXCEPT ![t] = IF t \in Pausing THEN "failed" ELSE "retry"]
    /\ UNCHANGED <<servers, process, running, probed, collecting, queue, written, history>>

Stops(kind, x) == phase = "cleanUp" /\ at <= Len(StopOrder) /\ StopOrder[at] = <<kind, x>>

(* The retries have ended: the batch goes to the dump file, and when Stop  *)
(* interrupts them the rest of the channel goes with it.  What a worker of *)
(* an Elasticsearch dumps is in files that nobody reads.                   *)
GiveUp(t) ==
    /\ held[t] = "retry" /\ server[t] = "down"
    /\ LET given == IF Stops("target", t) THEN ToSet(queue[t]) ELSE {Head(queue[t])}
       IN  IF t \in Influx
           THEN /\ dumpFile' = [dumpFile EXCEPT ![t] = @ \cup given]
                /\ replayed' = [replayed EXCEPT ![t] = @ \ given]
                /\ givenUp' = givenUp \cup given \X {t}
                /\ UNCHANGED settled
           ELSE /\ settled' = [settled EXCEPT ![t] = @ \cup given]
                /\ UNCHANGED <<dumpFile, replayed, givenUp>>
    /\ queue' = [queue EXCEPT ![t] = IF Stops("target", t) THEN <<>> ELSE Tail(@)]
    /\ held' = [held EXCEPT ![t] = "none"]
    /\ UNCHANGED <<servers, process, running, probed, collecting, timedOut, forgotten, unread>>

(* A worker pings while isAlive is FALSE, and after a batch has failed.    *)
Pings(t) ==
    /\ Runs("target", t) /\ t \in Pausing
    /\ ~alive[t] \/ held[t] = "failed"
    /\ held' = [held EXCEPT ![t] = IF @ = "failed" THEN "retry" ELSE @]

(* Slip: only an answer that fails is noted.                               *)
ProbeOnlyPauses(t) ==
    /\ Pings(t)
    /\ alive' = [alive EXCEPT ![t] = @ /\ server[t] = "up"]
    /\ pause' = [pause EXCEPT ![t] = @ \/ server[t] = "down"]
    /\ UNCHANGED <<servers, process, running, collecting, queue, written, history>>

(* TestIfIsAlive notes the answer in isAlive and then in the pause map.    *)
(* Another worker, with the answer to an earlier ping, may do the second   *)
(* of it last: the pause then does not follow isAlive, and a pause of a    *)
(* target that is alive stays until a batch fails.                         *)
Probe(t) ==
    /\ Pings(t)
    /\ alive' = [alive EXCEPT ![t] = server[t] = "up"]
    /\ \/ pause' = [pause EXCEPT ![t] = server[t] = "down"]
       \/ UNCHANGED pause
    /\ UNCHANGED <<servers, process, running, collecting, queue, written, history>>

-----------------------------------------------------------------------------
(* The signal, and cleanUp                                                 *)

Signal ==
    /\ phase = "run"
    /\ phase' = "cleanUp" /\ at' = 1
    /\ UNCHANGED <<servers, lives, running, probed, collecting, queue, held, written, history>>

(* The component no longer runs.  A collector leaves the file behind that  *)
(* it has not delivered in full.                                           *)
StopComponent(kind, x) ==
    /\ kind = "collector" => (task[x] = Nothing \/ todo[x] # {})
    /\ running' = running \ {<<kind, x>>} /\ at' = at + 1
    /\ task' = IF kind = "collector" THEN [task EXCEPT ![x] = Nothing] ELSE task
    /\ todo' = IF kind = "collector" THEN [todo EXCEPT ![x] = {}] ELSE todo
    /\ UNCHANGED <<servers, phase, lives, probed, source, queue, held, written, history>>

(* Stop returns and the component runs on: with a buffered quit Stop may   *)
(* read its own token.                                                     *)
StopReturns ==
    /\ at' = at + 1
    /\ UNCHANGED <<servers, phase, lives, running, probed, collecting, queue, held, written, history>>

StopCollector ==
    \/ Stops("collector", "nagios") /\ StopComponent("collector", "nagios")
    \/ /\ Stops("collector", "nagflux")
       /\ StopComponent("collector", "nagflux") \/ StopReturns
    \/ \E t \in Targets :
          /\ Stops("dump", t)
          /\ (~Runs("remove", t) /\ StopComponent("dump", t)) \/ StopReturns

(* worker.Close needs the mutex that is held while a target pauses or a    *)
(* channel is loaded; a job that is being executed goes on.                *)
StopGearman ==
    /\ Stops("collector", "gearman")
    /\ ~AnyTargetOnPause /\ \A t \in Targets : Load(t) <= (QueueCap * 9) \div 10
    /\ StopReturns

(* Workers stop from their select with nothing in hand.                    *)
StopTarget(t) ==
    /\ Stops("target", t) /\ Reads(t) /\ held[t] = "none"
    /\ StopComponent("target", t)

(* main returns.                                                           *)
Return == phase = "cleanUp" /\ at > Len(StopOrder) /\ ProcessEnds

-----------------------------------------------------------------------------
Environment == Kill \/ Restart \/ Signal \/ \E t \in Targets : ServerFails(t) \/ ServerRecovers(t)

Main ==
    \/ \E t \in Targets : StartTarget(t) \/ FactoryPauses(t) \/ FactoryPanics(t)
    \/ \E t \in Targets : StartComponent("dump", t)
    \/ \E c \in Collectors : StartComponent("collector", c)
    \/ ListenToSignals

Stop == StopCollector \/ StopGearman \/ (\E t \in Targets : StopTarget(t)) \/ Return

Collect(c) ==
    \/ \E r \in Records : PickUp(c, r)
    \/ \E t \in Targets : Deliver(c, t) \/ Drop(c, t)
    \/ Finish(c)

Replay(t) == ReplayEnds(t) \/ RemoveDump(t) \/ \E r \in Records : ReplayLine(t, r)

Forward(t) == Take(t) \/ Store(t) \/ SendFails(t) \/ GiveUp(t)

Next ==
    \/ Environment \/ Main \/ Stop
    \/ \E c \in Collectors : Collect(c)
    \/ \E t \in Targets : Replay(t) \/ Forward(t) \/ Probe(t)

Spec == Init /\ [][Next]_vars

(* Every goroutine that can run does; a mutex or a select that is ready    *)
(* again and again lets Stop through.  Nothing is assumed of the servers   *)
(* and of the moment of a signal or a kill.                                *)
FairSpec ==
    /\ Spec
    /\ WF_vars(Main) /\ SF_vars(Stop)
    /\ \A c \in Collectors : WF_vars(Collect(c))
    /\ \A t \in Targets : WF_vars(Replay(t)) /\ WF_vars(Forward(t)) /\ WF_vars(Probe(t))

-----------------------------------------------------------------------------
(* Properties *)

AllUp == \A t \in Targets : server[t] = "up"

(* What the two workers of an InfluxDB can leave behind (see Probe): the   *)
(* collectors pause for a target that every worker takes for alive.        *)
StuckPause == \E t \in Targets : pause[t] /\ alive[t] /\ server[t] = "up"

Lost == timedOut \cup forgotten \cup unread

(* From the file to the server: at every moment of every life a record     *)
(* that a target has not got is in its file or with gearmand, in memory or *)
(* in the dump file, unless the channel was full for too long, it was in   *)
(* memory when the process ended, or a worker appended it to the dump file *)
(* after the collector had seen the end of it and before it removed it.    *)
LossNeedsCause ==
    \A r \in Records, t \in Targets :
        \/ r \in source \/ r \in ToSet(queue[t])
        \/ r \in settled[t] \cup dumpFile[t]
        \/ <<r, t>> \in Lost

(* A signal ends the process once the servers are there for good and the   *)
(* pause map says so: every Stop in turn gets what it waits for from       *)
(* components that still run.  With a pause that is stuck handlePause      *)
(* keeps the mutex that worker.Close needs, and the process does not end.  *)
ShutdownTerminates ==
    <>[](AllUp /\ ~StuckPause) => (phase = "cleanUp" ~> phase = "off")

(* A process that stays up with its servers, and whose pause is not stuck, *)
(* works off everything: files, jobs, channels and the dump files of       *)
(* earlier lives.  Only what a worker has given up in this very life may   *)
(* have to wait in the dump file for the next one.                         *)
EverythingArrives ==
    <>[](AllUp /\ phase = "run" /\ ~StuckPause) =>
        <>[](\A r \in Records, t \in Targets :
                \/ r \in settled[t] \/ <<r, t>> \in Lost
                \/ r \in dumpFile[t] /\ <<r, t>> \in givenUp)

=============================================================================
