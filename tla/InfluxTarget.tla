---------------------------- MODULE InfluxTarget ----------------------------
(***************************************************************************)
(* One InfluxDB target of nagflux: the bounded channel of printables that  *)
(* the collectors fill, the Connector that is created by main and probes   *)
(* the server, and the Workers that drain the channel into batches and     *)
(* POST them (src/target/influx/Connector.go, src/target/influx/Worker.go).*)
(*                                                                         *)
(* A batch ends in one of three places: in the database, in the dump file  *)
(* that the next start of nagflux reads back, or in the dump file for bad  *)
(* lines.  Time is abstracted: a time.After branch of a select is an       *)
(* action without a clock, and a time.Sleep is a gap between two actions.  *)
(*                                                                         *)
(* The database is external.  It is modelled by what sendData and the two  *)
(* probes can observe of it: connection refused, 404 for a missing         *)
(* database, 400 with the valid lines stored or not, 500, an answer that   *)
(* is lost after the lines were stored, and 204.                           *)
(***************************************************************************)
EXTENDS Naturals, Sequences, FiniteSets, Functions

CONSTANTS
    Workers,                   \* indices of Connector.workers
    Records,                   \* printables the collectors may produce
    Matching,                  \* those whose filter names this target
    Bad,                       \* those InfluxDB answers with 400
    QueueCap,                  \* capacity of the channel (Main.BufferSize)
    BatchSize,                 \* 500 in Worker.run
    CreateTries,               \* 5 in ConnectorFactory
    StopReadingDataIfDown,     \* InfluxDB.StopPullingDataIfDown
    CreateDatabaseIfNotExists, \* InfluxDBGlobal.CreateDatabaseIfNotExists
    MaxFaults                  \* bound on the faults of the database

ASSUME WorkersAssumption == Workers # {} /\ IsFiniteSet(Workers)
ASSUME RecordsAssumption == Matching \subseteq Records /\ Bad \subseteq Records
ASSUME NumbersAssumption ==
    /\ QueueCap \in Nat \ {0}
    /\ BatchSize \in Nat \ {0}
    /\ CreateTries \in Nat
    /\ MaxFaults \in Nat
ASSUME FlagsAssumption ==
    /\ StopReadingDataIfDown \in BOOLEAN
    /\ CreateDatabaseIfNotExists \in BOOLEAN

VARIABLES
    \* the database, and how often it misbehaved
    server, dbThere, faults,
    \* Connector.isAlive, Connector.databaseExists, PauseMap[target]
    isAlive, databaseExists, pause,
    \* the channel, and the records put into it so far (history)
    jobs, accepted,
    \* the life of the connector, and the loop counter of its factory
    conn, tries,
    \* run goroutine of each worker: where it is, and sendBuffer's locals
    pc, queries, sendErr, attempt, unsent, collected,
    \* the answer of a probe that is not stored in the connector yet
    answer,
    \* the Stop goroutine of each worker
    stopPc,
    \* what was written: points in the database, copies of each record in
    \* the dump file, records in the "-errors" dump file
    stored, dump, errors

env    == <<server, dbThere, faults>>
flags  == <<isAlive, databaseExists, pause>>
chan   == <<jobs, accepted>>
life   == <<conn, tries>>
send   == <<queries, sendErr, attempt, unsent, collected>>
output == <<stored, dump, errors>>
vars   == <<env, flags, chan, life, pc, send, answer, stopPc, output>>

-----------------------------------------------------------------------------
ConnStates == {"connecting", "checkingDb", "running", "stopping", "stopped"}

PcStates == {"new", "loop", "select", "post", "ping", "setAlive", "setPause",
             "testDb", "setDb", "retry", "oneByOne", "drain", "resend",
             "ack", "stopped"}

SendErrors == {"nil", "badRequest", "other"}

TypeOK ==
    /\ server \in {"up", "down"} /\ dbThere \in BOOLEAN /\ faults \in 0..MaxFaults
    /\ isAlive \in BOOLEAN /\ databaseExists \in BOOLEAN /\ pause \in BOOLEAN
    /\ jobs \in Seq(Records) /\ Len(jobs) <= QueueCap
    /\ accepted \subseteq Records
    /\ conn \in ConnStates /\ tries \in 0..CreateTries
    /\ pc \in [Workers -> PcStates]
    /\ queries \in [Workers -> SUBSET Matching]
    /\ sendErr \in [Workers -> SendErrors]
    /\ attempt \in [Workers -> 0..2]
    /\ unsent \in [Workers -> SUBSET Matching]
    /\ collected \in [Workers -> SUBSET Matching]
    /\ answer \in [Workers -> BOOLEAN]
    /\ stopPc \in [Workers -> {"none", "token", "send", "ack", "done"}]
    /\ stored \subseteq Records /\ errors \subseteq Records
    /\ dump \in [Records -> Nat]

Init ==
    /\ server \in {"up", "down"} /\ dbThere \in BOOLEAN /\ faults = 0
    /\ isAlive = FALSE /\ databaseExists = FALSE /\ pause = FALSE
    /\ jobs = <<>> /\ accepted = {}
    /\ conn = "connecting" /\ tries = 0
    /\ pc = [w \in Workers |-> "new"]
    /\ queries = [w \in Workers |-> {}]
    /\ sendErr = [w \in Workers |-> "nil"]
    /\ attempt = [w \in Workers |-> 0]
    /\ unsent = [w \in Workers |-> {}]
    /\ collected = [w \in Workers |-> {}]
    /\ answer = [w \in Workers |-> FALSE]
    /\ stopPc = [w \in Workers |-> "none"]
    /\ stored = {} /\ errors = {}
    /\ dump = [r \in Records |-> 0]

-----------------------------------------------------------------------------
(* The database.                                                           *)

Crash == /\ server = "up" /\ faults < MaxFaults
         /\ server' = "down" /\ faults' = faults + 1
         /\ UNCHANGED <<dbThere, flags, chan, life, pc, send, answer, stopPc, output>>

Recover == /\ server = "down"
           /\ server' = "up"
           /\ UNCHANGED <<dbThere, faults, flags, chan, life, pc, send, answer, stopPc, output>>

DropDatabase == /\ server = "up" /\ dbThere /\ faults < MaxFaults
                /\ dbThere' = FALSE /\ faults' = faults + 1
                /\ UNCHANGED <<server, flags, chan, life, pc, send, answer, stopPc, output>>

RestoreDatabase == /\ server = "up" /\ ~dbThere
                   /\ dbThere' = TRUE
                   /\ UNCHANGED <<server, faults, flags, chan, life, pc, send, answer, stopPc, output>>

(* What sendData can return for the lines S, the lines the database then   *)
(* has in addition, and whether the answer was a fault.  A 500 and a lost  *)
(* answer leave it open whether the lines were stored.                     *)
Reply(S) ==
    LET Refused == [err |-> "other", saved |-> {}, fault |-> 0]
        Stored  == [err |-> "nil", saved |-> S, fault |-> 0]
        BadRequest(T) == [err |-> "badRequest", saved |-> T, fault |-> 0]
        Flaky(T) == [err |-> "other", saved |-> T, fault |-> 1]
    IN  IF server = "down" \/ ~dbThere THEN {Refused}
        ELSE (IF S \cap Bad = {} THEN {Stored}
              ELSE {BadRequest(T) : T \in SUBSET (S \ Bad)})
             \cup (IF faults < MaxFaults THEN {Flaky(T) : T \in {{}, S \ Bad}} ELSE {})

(* sendData: one POST of the lines S by worker w.                          *)
SendData(w, S, a) ==
    /\ a \in Reply(S)
    /\ stored' = stored \cup a.saved
    /\ faults' = faults + a.fault
    /\ UNCHANGED <<server, dbThere, flags, life, answer, stopPc, dump, errors>>

-----------------------------------------------------------------------------
(* ConnectorFactory: main waits in it, so nothing else of the target runs. *)

StartWorkers == /\ conn' = "running"
                /\ pc' = [w \in Workers |-> "loop"]

(* The first probe, and the loop that waits for the server when reading    *)
(* stops while it is down.                                                 *)
FactoryPing ==
    /\ conn = "connecting"
    /\ isAlive' = (server = "up")
    /\ pause' = IF StopReadingDataIfDown THEN server = "down" ELSE pause
    /\ IF server = "up" THEN conn' = "checkingDb" /\ UNCHANGED pc
       ELSE IF StopReadingDataIfDown THEN UNCHANGED <<conn, pc>>
       ELSE StartWorkers
    /\ UNCHANGED <<env, databaseExists, chan, tries, send, answer, stopPc, output>>

(* Test the database; the workers start when it exists or after the last   *)
(* attempt, otherwise the factory goes on to create it.                    *)
FactoryTestDb ==
    /\ conn = "checkingDb"
    /\ databaseExists' = IF server = "up" THEN dbThere ELSE databaseExists
    /\ IF databaseExists' \/ tries = CreateTries
       THEN StartWorkers /\ tries' = 0 /\ UNCHANGED dbThere
       ELSE /\ tries' = tries + 1
            /\ dbThere' = (dbThere \/ (CreateDatabaseIfNotExists /\ server = "up"))
            /\ UNCHANGED <<conn, pc>>
    /\ UNCHANGED <<server, faults, isAlive, pause, chan, send, answer, stopPc, output>>

(* A collector puts a record into the channel.  Collectors stop before the *)
(* target does, but some of them may still run when main goes on, so the   *)
(* channel stays open until the connector has stopped.                     *)
Enqueue(r) ==
    /\ conn \in {"running", "stopping"}
    /\ r \notin accepted
    /\ Len(jobs) < QueueCap
    /\ jobs' = Append(jobs, r)
    /\ accepted' = accepted \cup {r}
    /\ UNCHANGED <<env, flags, life, pc, send, answer, stopPc, output>>

-----------------------------------------------------------------------------
(* Worker.run *)

Goto(w, l) == pc' = [pc EXCEPT ![w] = l]

(* The two conditions in front of the select.                              *)
Loop(w) ==
    /\ pc[w] = "loop"
    /\ Goto(w, IF ~StopReadingDataIfDown \/ (isAlive /\ databaseExists) THEN "select"
               ELSE IF isAlive THEN "testDb" ELSE "ping")
    /\ UNCHANGED <<env, flags, chan, life, send, answer, stopPc, output>>

(* case query = <-worker.jobs *)
ReceiveJob(w) ==
    LET batch == queries[w] \cup ({Head(jobs)} \cap Matching)
    IN  /\ pc[w] = "select" /\ jobs # <<>>
        /\ jobs' = Tail(jobs)
        /\ queries' = [queries EXCEPT ![w] = batch]
        /\ Goto(w, IF Head(jobs) \in Matching /\ Cardinality(batch) = BatchSize
                   THEN "post" ELSE "loop")
        /\ UNCHANGED <<env, flags, accepted, life, sendErr, attempt, unsent,
                       collected, answer, stopPc, output>>

(* Slip: a batch is only sent when it is full.                             *)
FlushTimeoutKeepsBatch(w) ==
    /\ pc[w] = "select" /\ jobs = <<>>
    /\ Goto(w, "loop")
    /\ UNCHANGED <<env, flags, chan, life, send, answer, stopPc, output>>

(* case <-time.After(dataTimeout): the channel was empty for 5 seconds.    *)
FlushTimeout(w) ==
    /\ pc[w] = "select" /\ jobs = <<>>
    /\ Goto(w, IF queries[w] = {} THEN "loop" ELSE "post")
    /\ UNCHANGED <<env, flags, chan, life, send, answer, stopPc, output>>

(* case <-worker.quit: rendezvous with Worker.Stop, last sendBuffer.       *)
ReceiveQuit(w) ==
    /\ pc[w] = "select" /\ stopPc[w] = "send"
    /\ stopPc' = [stopPc EXCEPT ![w] = "ack"]
    /\ Goto(w, IF queries[w] = {} THEN "ack" ELSE "post")
    /\ UNCHANGED <<env, flags, chan, life, send, answer, output>>

(* worker.quit <- true, and the rest of Worker.Stop.                       *)
AckQuit(w) ==
    /\ pc[w] = "ack" /\ stopPc[w] = "ack"
    /\ stopPc' = [stopPc EXCEPT ![w] = "done"]
    /\ Goto(w, "stopped")
    /\ UNCHANGED <<env, flags, chan, life, send, answer, output>>

-----------------------------------------------------------------------------
(* TestIfIsAlive and TestDatabaseExists, called by run when sendErr is nil *)
(* and by sendBuffer when it is not.  Each step is one access to state the *)
(* workers share.                                                          *)

Ping(w) ==
    /\ pc[w] = "ping"
    /\ answer' = [answer EXCEPT ![w] = (server = "up")]
    /\ Goto(w, "setAlive")
    /\ UNCHANGED <<env, flags, chan, life, send, stopPc, output>>

SetAlive(w) ==
    /\ pc[w] = "setAlive"
    /\ isAlive' = answer[w]
    /\ Goto(w, "setPause")
    /\ UNCHANGED <<env, databaseExists, pause, chan, life, send, answer, stopPc, output>>

(* Slip: the negation in StoreValue(target, !result) is missing.           *)
SetPauseInverted(w) ==
    /\ pc[w] = "setPause"
    /\ pause' = IF StopReadingDataIfDown THEN answer[w] ELSE pause
    /\ answer' = [answer EXCEPT ![w] = FALSE]
    /\ Goto(w, IF sendErr[w] = "nil" THEN "loop" ELSE "testDb")
    /\ UNCHANGED <<env, isAlive, databaseExists, chan, life, send, stopPc, output>>

SetPause(w) ==
    /\ pc[w] = "setPause"
    /\ pause' = IF StopReadingDataIfDown THEN ~answer[w] ELSE pause
    /\ answer' = [answer EXCEPT ![w] = FALSE]
    /\ Goto(w, IF sendErr[w] = "nil" THEN "loop" ELSE "testDb")
    /\ UNCHANGED <<env, isAlive, databaseExists, chan, life, send, stopPc, output>>

(* Where the caller of TestDatabaseExists goes on.                         *)
AfterTestDb(w) == IF sendErr[w] = "nil" THEN "loop" ELSE "retry"

(* The query for the databases fails when the server is down, and then     *)
(* databaseExists keeps its value.                                         *)
TestDb(w) ==
    /\ pc[w] = "testDb"
    /\ answer' = [answer EXCEPT ![w] = (server = "up" /\ dbThere)]
    /\ Goto(w, IF server = "up" THEN "setDb" ELSE AfterTestDb(w))
    /\ UNCHANGED <<env, flags, chan, life, send, stopPc, output>>

(* Slip: the positive answer is returned but not stored.                   *)
SetDbForgets(w) ==
    /\ pc[w] = "setDb"
    /\ databaseExists' = FALSE
    /\ answer' = [answer EXCEPT ![w] = FALSE]
    /\ Goto(w, AfterTestDb(w))
    /\ UNCHANGED <<env, isAlive, pause, chan, life, send, stopPc, output>>

SetDb(w) ==
    /\ pc[w] = "setDb"
    /\ databaseExists' = answer[w]
    /\ answer' = [answer EXCEPT ![w] = FALSE]
    /\ Goto(w, AfterTestDb(w))
    /\ UNCHANGED <<env, isAlive, pause, chan, life, send, stopPc, output>>

-----------------------------------------------------------------------------
(* Worker.sendBuffer *)

(* Return to run: the batch is emptied, and a worker that received quit    *)
(* leaves its loop.                                                        *)
EndSend(w) ==
    /\ queries' = [queries EXCEPT ![w] = {}]
    /\ sendErr' = [sendErr EXCEPT ![w] = "nil"]
    /\ attempt' = [attempt EXCEPT ![w] = 0]
    /\ Goto(w, IF stopPc[w] = "ack" THEN "ack" ELSE "loop")

(* The first POST of the whole batch.                                      *)
Post(w) ==
    /\ pc[w] = "post"
    /\ \E a \in Reply(queries[w]) :
          /\ SendData(w, queries[w], a)
          /\ \/ a.err = "nil" /\ EndSend(w)
             \/ /\ a.err # "nil"
                /\ sendErr' = [sendErr EXCEPT ![w] = a.err]
                /\ Goto(w, "ping")
                /\ UNCHANGED <<queries, attempt>>
    /\ UNCHANGED <<chan, unsent, collected>>

Retrying(w) == pc[w] = "retry" /\ attempt[w] < 2

(* case errorBadRequest: send line by line.                                *)
StartOneByOne(w) ==
    /\ Retrying(w) /\ sendErr[w] = "badRequest"
    /\ unsent' = [unsent EXCEPT ![w] = queries[w]]
    /\ Goto(w, "oneByOne")
    /\ UNCHANGED <<env, flags, chan, life, queries, sendErr, attempt, collected,
                   answer, stopPc, output>>

(* A line that fails for whatever reason is a bad query.                   *)
SendLine(w) ==
    /\ pc[w] = "oneByOne"
    /\ \E r \in unsent[w] : \E a \in Reply({r}) :
          /\ SendData(w, {r}, a)
          /\ unsent' = [unsent EXCEPT ![w] = @ \ {r}]
          /\ collected' = [collected EXCEPT ![w] =
                              IF a.err = "nil" THEN @ ELSE @ \cup {r}]
    /\ UNCHANGED <<chan, pc, queries, sendErr, attempt>>

(* Slip: the whole batch is dumped instead of the bad queries.             *)
DumpErrorBatch(w) ==
    /\ pc[w] = "oneByOne" /\ unsent[w] = {}
    /\ errors' = errors \cup queries[w]
    /\ collected' = [collected EXCEPT ![w] = {}]
    /\ EndSend(w)
    /\ UNCHANGED <<env, flags, chan, life, unsent, answer, stopPc, stored, dump>>

(* dumpErrorQueries of the bad queries; sendErr = nil ends the retries.    *)
DumpErrorQueries(w) ==
    /\ pc[w] = "oneByOne" /\ unsent[w] = {}
    /\ errors' = errors \cup collected[w]
    /\ collected' = [collected EXCEPT ![w] = {}]
    /\ EndSend(w)
    /\ UNCHANGED <<env, flags, chan, life, unsent, answer, stopPc, stored, dump>>

(* waitForQuitOrGoOn: the token of Worker.Stop is there and is put back.   *)
QuitRequested(w) == stopPc[w] \in {"send", "ack", "done"}

(* default: the timeout of waitForQuitOrGoOn, so send the batch again.     *)
WaitTimeout(w) ==
    /\ Retrying(w) /\ sendErr[w] = "other"
    /\ ~QuitRequested(w)
    /\ Goto(w, "resend")
    /\ UNCHANGED <<env, flags, chan, life, send, answer, stopPc, output>>

(* default: interrupted, so dumpRemainingQueries reads the rest of the     *)
(* channel ...                                                             *)
WaitInterrupted(w) ==
    /\ Retrying(w) /\ sendErr[w] = "other"
    /\ QuitRequested(w)
    /\ collected' = [collected EXCEPT ![w] = queries[w]]
    /\ Goto(w, "drain")
    /\ UNCHANGED <<env, flags, chan, life, queries, sendErr, attempt, unsent,
                   answer, stopPc, output>>

DrainJob(w) ==
    /\ pc[w] = "drain" /\ jobs # <<>>
    /\ jobs' = Tail(jobs)
    /\ collected' = [collected EXCEPT ![w] = @ \cup ({Head(jobs)} \cap Matching)]
    /\ UNCHANGED <<env, flags, accepted, life, pc, queries, sendErr, attempt,
                   unsent, answer, stopPc, output>>

(* One more copy in the dump file of each line of S.                       *)
AppendToDump(S) == dump' = [r \in Records |-> IF r \in S THEN dump[r] + 1 ELSE dump[r]]

(* Slip: what was read from the channel is not appended to the batch.      *)
DumpOwnQueriesOnly(w) ==
    /\ pc[w] = "drain" /\ jobs = <<>>
    /\ AppendToDump(queries[w])
    /\ collected' = [collected EXCEPT ![w] = {}]
    /\ Goto(w, "resend")
    /\ UNCHANGED <<env, flags, chan, life, queries, sendErr, attempt, unsent,
                   answer, stopPc, stored, errors>>

(* ... until it is idle, and dumps it with the batch.  sendErr = nil is    *)
(* overwritten by the send that follows.                                   *)
DumpRemainingQueries(w) ==
    /\ pc[w] = "drain" /\ jobs = <<>>
    /\ AppendToDump(collected[w])
    /\ collected' = [collected EXCEPT ![w] = {}]
    /\ Goto(w, "resend")
    /\ UNCHANGED <<env, flags, chan, life, queries, sendErr, attempt, unsent,
                   answer, stopPc, stored, errors>>

(* Resend Data: the result decides what the next round does.               *)
Resend(w) ==
    /\ pc[w] = "resend"
    /\ \E a \in Reply(queries[w]) :
          /\ SendData(w, queries[w], a)
          /\ \/ a.err = "nil" /\ EndSend(w)
             \/ /\ a.err # "nil"
                /\ sendErr' = [sendErr EXCEPT ![w] = a.err]
                /\ attempt' = [attempt EXCEPT ![w] = @ + 1]
                /\ Goto(w, "retry")
                /\ UNCHANGED queries
    /\ UNCHANGED <<chan, unsent, collected>>

(* Still an error after the last round: dump the batch and go on.          *)
DumpQueries(w) ==
    /\ pc[w] = "retry" /\ attempt[w] = 2
    /\ AppendToDump(queries[w])
    /\ EndSend(w)
    /\ UNCHANGED <<env, flags, chan, life, unsent, collected, answer, stopPc,
                   stored, errors>>

-----------------------------------------------------------------------------
(* Connector.Stop, Connector.run and Worker.Stop *)

(* The rendezvous of Connector.Stop with run, which starts Worker.Stop for *)
(* every worker.                                                           *)
StopConnector ==
    /\ conn = "running"
    /\ conn' = "stopping"
    /\ stopPc' = [w \in Workers |-> "token"]
    /\ UNCHANGED <<env, flags, chan, tries, pc, send, answer, output>>

(* worker.quitInternal <- true *)
PutToken(w) ==
    /\ stopPc[w] = "token"
    /\ stopPc' = [stopPc EXCEPT ![w] = "send"]
    /\ UNCHANGED <<env, flags, chan, life, pc, send, answer, output>>

(* run has seen IsRunning = false for every worker and lets Stop return.   *)
ConnectorStopped ==
    /\ conn = "stopping"
    /\ \A w \in Workers : stopPc[w] = "done"
    /\ conn' = "stopped"
    /\ UNCHANGED <<env, flags, chan, tries, pc, send, answer, stopPc, output>>

(* Nothing more to do: not a deadlock.                                     *)
Terminated == conn = "stopped" /\ UNCHANGED vars

-----------------------------------------------------------------------------
Environment == Crash \/ Recover \/ DropDatabase \/ RestoreDatabase

Factory == FactoryPing \/ FactoryTestDb

(* The run goroutine of a worker, without the rendezvous ones.             *)
Select(w) == Loop(w) \/ ReceiveJob(w) \/ FlushTimeout(w) \/ ReceiveQuit(w) \/ AckQuit(w)
Probe(w) == Ping(w) \/ SetAlive(w) \/ SetPause(w) \/ TestDb(w) \/ SetDb(w)
SendBuffer(w) ==
    \/ Post(w)
    \/ StartOneByOne(w) \/ SendLine(w) \/ DumpErrorQueries(w)
    \/ WaitTimeout(w) \/ WaitInterrupted(w) \/ DrainJob(w) \/ DumpRemainingQueries(w)
    \/ Resend(w) \/ DumpQueries(w)

Next ==
    \/ Environment
    \/ Factory
    \/ \E r \in Records : Enqueue(r)
    \/ \E w \in Workers : Select(w) \/ Probe(w) \/ SendBuffer(w) \/ PutToken(w)
    \/ StopConnector \/ ConnectorStopped
    \/ Terminated

Spec == Init /\ [][Next]_vars

(* The Go scheduler runs every goroutine that can run.  A select that finds *)
(* several channels ready chooses among them at random, so the quit branch *)
(* is taken when it is ready again and again.  Nothing is assumed of the   *)
(* database, of the collectors or of the moment main stops the target.     *)
Fairness ==
    /\ WF_vars(Factory)
    /\ \A w \in Workers :
          /\ WF_vars(Select(w)) /\ WF_vars(Probe(w)) /\ WF_vars(SendBuffer(w))
          /\ SF_vars(ReceiveQuit(w))
          /\ WF_vars(PutToken(w))
    /\ WF_vars(ConnectorStopped)

FairSpec == Spec /\ Fairness

-----------------------------------------------------------------------------
(* Properties *)

(* The records with a copy in the dump file.                               *)
Dumped == {r \in Records : dump[r] > 0}

(* The records that reached one of the three places a batch can end in.    *)
Settled == stored \cup Dumped \cup errors

(* The records a worker has taken from the channel and still answers for.  *)
Held(w) == queries[w] \cup collected[w]

(* No record that a collector handed over is dropped without a trace: it   *)
(* waits in the channel, a worker holds it, or it is in the database or in *)
(* one of the dump files.  This is about every path through sendBuffer,    *)
(* its retries, and the two ways a stop can interrupt them.                *)
NoSilentLoss ==
    \A r \in accepted \cap Matching :
        r \in Range(jobs) \/ (\E w \in Workers : r \in Held(w)) \/ r \in Settled

(* When Worker.Stop has returned, whatever its worker had taken from the   *)
(* channel has been settled: the batch the worker held when quit arrived   *)
(* is sent or dumped before the acknowledgement.                           *)
StoppedIsSettled ==
    (\A w \in Workers : stopPc[w] = "done") =>
        accepted \cap Matching \subseteq Range(jobs) \cup Settled

(* The interrupted retries of one batch write it to the dump file at most  *)
(* once per round and once more at the end, whatever other workers drain.  *)
DumpCopiesBounded == \A r \in Records : dump[r] <= 3

(* A value the database refuses does not take the rest of its batch with   *)
(* it: as long as the database does not misbehave, only bad values end in  *)
(* the "-errors" file.                                                     *)
BadIsolated == faults = 0 => errors \subseteq Bad

Healthy == server = "up" /\ dbThere

(* Once the database has recovered for good, every record handed over is   *)
(* settled, unless the target is stopped first.                            *)
EventuallySettled ==
    <>[]Healthy => []<>(accepted \cap Matching \subseteq Settled \/ conn = "stopped")

(* Connector.Stop returns when the database recovers for good.             *)
StopTerminatesWhenHealthy == <>[]Healthy => (conn = "stopping" ~> conn = "stopped")

(* A worker whose batch meets an outage that lasts makes the collectors    *)
(* pause, also when other workers probe at the same time.                  *)
OutagePauses ==
    [](((\E w \in Workers : pc[w] = "post") /\ [](server = "down")) => <>pause)

(* The pause of the collectors ends when the database has recovered for    *)
(* good (or nagflux is stopped).                                           *)
ResumesAfterOutage == <>[]Healthy => <>[](~pause \/ conn # "running")

(* The target implements the promise of Forwarder: matching records go     *)
(* from the channel to a worker to a file or the database, through all     *)
(* retries and drains, and the target does not report that it has stopped  *)
(* while it holds one.                                                     *)
Promise == INSTANCE Forwarder WITH
    Records <- Matching,
    queued  <- Range(jobs) \cap Matching,
    held    <- {r \in Matching : \E w \in Workers : r \in Held(w)} \ Settled,
    settled <- Settled \cap Matching,
    open    <- conn # "stopped"

KeepsPromise == Promise!FSpec

=============================================================================
