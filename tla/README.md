# Verification of nagflux

nagflux reads performance data of Nagios (spool files, Mod-Gearman jobs, its own
CSV files, Livestatus logs) and writes it to databases (InfluxDB, Elasticsearch) or JSON
files. This directory holds TLA+ models of its concurrent core, TLC
configurations that check them on small instances, and TLAPS proofs of the main
results for every instance. Paths below are relative to `src/`.

## 1. The system

Every arrow is a bounded Go channel of `Printable`s, one per target
(`Main.BufferSize`); every box is one or more goroutines.

    Nagios spool collector -> its workers --+
    Nagflux file collector -----------------+     per target
    Livestatus collector -------------------+--> channel --> workers --> server
    Mod-Gearman workers --------------------+       ^            |
                                                    |            v (append)
                             DumpfileCollector -----+------- dump file

| Component | State | Operations | What makes it correct |
|---|---|---|---|
| InfluxDB connector (`target/influx/Connector.go`) | `isAlive`, `databaseExists`, list of workers, entry of the pause map | factory (waits for the server, creates the database, starts workers), `TestIfIsAlive`, `TestDatabaseExists`, `Stop` | the flags follow the server; a stop ends and leaves no batch behind |
| InfluxDB worker (`target/influx/Worker.go`) | own batch, two quit channels | receive, flush on timeout or at 500, send, retry, send one by one, drain, dump, stop | no record is lost between channel, database and files; bad lines do not take good ones along; bounded duplication |
| Pause map (`config/GlobalObjects.go`) | target -> Boolean, under a mutex | `StoreValue`, `IsAnyTargetOnPause` | paused during an outage, not after it |
| Dump file collector (`collector/nagflux/dumpfileCollector.go`) | position in the dump file, `IsRunning`, buffered quit | replay lines into the channel, remove the file, `Stop` | the file goes only when its lines are safe; the replay ends |
| Nagios spool collector and workers (`collector/spoolfile`) | channel of file names, a file per worker | list folder, enqueue names, read lines, deliver to every target, remove, `Stop` | every line of a file reaches every target before the file goes; stop ends |
| Nagflux file collector (`collector/nagflux/nagfluxFileCollector.go`) | buffered quit | the same for CSV files, in one goroutine | the same |
| Livestatus collector (`collector/livestatus/Collector.go`, `Connector.go`) | buffered quit | ask for notifications, comments and downtimes in rounds, deliver them | no event falls between two rounds; a round ends and is complete |
| Downtime cache (`collector/livestatus/CacheBuilder.go`, `Cache.go`) | map of downtime starts, under a mutex | rebuild from three queries, replace, look up | an undisturbed rebuild is exact; downtimes and their ends are noticed |
| Mod-Gearman worker (`collector/modGearman`) | mutex of the library's worker, unbuffered quit with two listeners | connect, take jobs, lock on load or pause, stop | a job is answered when it is delivered; the mutex has one owner; no deadlock between pause and stop |
| Elasticsearch target (`target/elasticsearch`) | the same fields, set only by the factory | factory (gives up with a panic), receive, flush on timeout or at 10000, send, retry, drain, dump, panic on refused values, stop | a record is lost only for a known reason; a stop ends |
| JSON file target (`target/file/json`) | slice shared by two goroutines | collect, write, rotate, stop | no record is lost or overwritten |
| `main.go` | list of stoppables | start in order, stop in reverse order, end all goroutines | collectors stop before the targets they feed; a signal ends the process; nothing is lost that is not in memory at the end |
| Perfdata parser (`PerformanceDataIterator` in `nagiosSpoolfileWorker.go`) | check_multi prefix carried along a line | one record per item; skip malformed items | one record per well-formed item, in order and under the right label |
| Target filter (`collector/Filterable.go`) | none | compare the tag of a record with the name of a target | a record goes to the targets its tag names |
| key padding, configuration, statistics, logging | none | pure functions or output | as their tests say |

The hard behaviours: several workers of a target share the connector's flags
without a lock; a stop meets a worker in any step of a retry; a server that stores
data and fails to say so; a collector and a worker that use the same file; stop
hand-shakes over buffered channels; time-outs that drop data. `PROJECT.json` lists them under
`hazards`, each at its line.

## 2. Modules

| Module | Models |
|---|---|
| `Forwarder` | the promise of a target to the collectors: queued, then held, then settled; closes only with empty hands |
| `InfluxTarget` | one InfluxDB target: factory, channel, workers, stop, with the database as environment |
| `DumpReplay` | the dump file of a target: its workers append, the collector replays and removes, the process restarts |
| `Intake` | the promise of a file collector: everything in a file is offered to every target before the file goes |
| `NagiosSpool` | Nagios spool files: collector, workers, channel of names, stop |
| `NagfluxFiles` | nagflux's own CSV files: one goroutine, stop over a buffered channel, restarts |
| `GearmanWorker` | one Mod-Gearman worker: connection, executions of jobs, the two handlers that lock the library's worker, stop |
| `LivestatusCollector` | rounds of queries over a moving window, delivery without time-out, stop |
| `DowntimeCache` | the build of the downtime cache from three answers that come at different times |
| `JSONFile` | the JSON file target: receiver and writer with a slice between them |
| `ElasticTarget` | one Elasticsearch target: factory, channel, workers, stop |
| `PerfData` | the records the parser makes of one line |
| `Nagflux` | the process: `main` with all targets, dump files and collectors, signals, kills and restarts |
| `InfluxTargetProofs`, `DumpReplayProofs`, `NagiosSpoolProofs`, `NagfluxFilesProofs`, `GearmanWorkerProofs`, `NagfluxProofs` | theorems about the module they are named after; `NagiosSpoolProofs` also about `PerfData` |
| `TargetProofs` | theorems about `ElasticTarget` and `JSONFile` |
| `LivestatusProofs` | theorems about `LivestatusCollector` and `DowntimeCache` |
| `MC...` | instances of the module they are named after for TLC |

`InfluxTarget` and `ElasticTarget` implement `Forwarder`; `NagiosSpool`, `NagfluxFiles` and `GearmanWorker` implement `Intake`. (The
Livestatus collector does not: its source is not consumed, and the JSON target is no `Forwarder`, because it loses records.) The file
collectors see a target as a bounded channel and a pause answer that change arbitrarily, which covers
whatever a target does with them; `InfluxTarget` sees a dump as one atomic append, and
`DumpReplay` opens that step up into the system calls it consists of. `Nagflux` puts the parts together: each of them is reduced to
what the other parts see of it, so that records can be followed from the file to the server over the lives of the process.

### InfluxTarget

State and code: `isAlive`, `databaseExists` and `pause` are the connector's
fields and the target's entry in the pause map; `jobs` is the channel; `conn` and `tries` are
where `ConnectorFactory`, `Connector.run` and `Connector.Stop` are. For worker `w`,
`pc[w]` is where its `run` goroutine is, `queries[w]` the local batch, `sendErr[w]` and `attempt[w]` the
variables of the retry loop (`sendErr`, `i`), `unsent[w]` the lines the one-by-one loop has
still to send, `collected[w]` `badQueries` in that loop and `remainingQueries` in
`dumpRemainingQueries`, `answer[w]` the result of a probe that is not stored yet, and `stopPc[w]`
the goroutine that runs `Worker.Stop`. The database is `server`, `dbThere` and
`stored`; the files are `dump` (copies per record) and `errors`. `accepted` is a history variable.

An action is the code between two accesses to something another goroutine
can see: the channel, the quit channels, a connector flag, the server or a dump
file. `TestIfIsAlive` is three actions (`Ping`, `SetAlive`, `SetPause`) because
any other worker can run between them. `sendBuffer` is `Post`, the two probes, and
up to two rounds, each of which is either the one-by-one loop or wait, perhaps
drain and dump, and resend.

Abstractions. Time is left out: a `time.After` branch can be taken whenever the
other branches of its `select` that it competes with in practice are idle, a
`time.Sleep` is a gap between actions. A batch is a set; the order of its lines
and the text of a record do not matter to any property. Every record is
produced once. `Matching` are the records that pass the filter of the target and `Bad`
those with a value the database refuses (it may still store the other lines of the
request). A dump to a file is one step, as package-level `mutex` makes it for the
other workers; the collector that reads the file back is not part of this module. An HTTP probe either gives the
truth or meets a server that is down for that moment.

### DumpReplay

`disk` are the lines of the file that are still to be read and `read` those the collector has behind it, `inode` is the file the name stands for
(0: none, a new number for each `Create`, so that a descriptor held over a `Remove` is a different one). `run` and `isRunning` are the
collector, `quit` the tokens in its channel (capacity 2), `jobs` the target's channel. A worker
holds a batch (`held`) and goes through `dumpQueries` under the package's `mutex`: `StatDump`,
`CreateDump`, `OpenDump`, `WriteLine`, `CloseDump`. `main` is where `main` is: waiting for the replay, running, stopping, down. `skipped`,
`returned` and `forgotten` are history: the line timed out or did not fit the
reader, a worker gave it back while the replay was on, or it was in memory when the process ended.
A line that is too long ends the replay and keeps the file (`ReadLongLine`): at each start the
lines before it are replayed again and those behind it never.

The workers may give the same lines up as often as they like. While an outage lasts, workers and collector feed
each other: the file grows and the collector never comes to the end of it. The states are finite nevertheless, because `read` keeps a line once. Nothing looks at the
lines behind the collector before the next life, and what the next life does with a line it has read already it can also do
with a line that is there again.

### NagiosSpool and NagfluxFiles

`spool`/`folder` are the files that are there, `arrived` those that ever were. A file is the number of
performance data (`Items`) or records (`Records`) the code gets out of it: up to the first line
that does not fit the buffer for spool files - the rest goes with the file - and none for a CSV
file that cannot be parsed. A worker is at `item`, and `todo` are the targets that have not had it.
A target's channel is only its fill level. In `NagiosSpool` the collector lists every file at every tick, also those in
`jobs` or at a worker; Stop meets the collector and then each worker over unbuffered channels, which is one
step for the rendezvous (`WorkerQuits`) and one for the answer (`WorkerAcks`). In `NagfluxFiles` `quit` is a
buffer with one place, so that `StopTakesToken` may find its own token. (Go hands a value directly to a
goroutine that already waits in a `select`; `run = "wait"` and `"deliver"` also stand for the moment before that.)
`ParsePanics` is the index into an empty list of records: it ends the process.
`Intake` is the shared promise; `settled` is what was put into the channel or timed out.

### GearmanWorker

`mutex`, `running` and `closed` are the library's worker as far as the code uses it: `AddFunc` and `Close` take the
mutex, the loop that gets jobs does not (`vendor/github.com/mikespook/gearman-go/worker/worker.go:163`). `run` and
`connected` are `run` with its retries, which the `ErrorHandler` starts again when the connection breaks. Every assignment of
a job is an execution of its own, in a goroutine of its own; gearmand waits for the answer to the last one (`owner`) and
gives the job out again if the connection breaks. `handler` are `handleLoad` and `handlePause`; `paused` is the local `pause`. `quit` has no
buffer, so a token is always in a hand: `SendQuit`, `PassToken` and `StopReturns` are the meetings it allows. For
`Intake` the folder is gearmand's queue, and a job leaves it when it is answered.

### LivestatusCollector

Time is kept as ages up to `Window`, which is enough to know what a query finds. `StartQuery` fixes the events
that are too old, `Answer` the ones it brings: an event may arrive in between. `PartialAnswer` is a connection that fails or
breaks; the requester takes either for the whole. `Deliver` waits for room without a time-out. `since` and `late` are
history: the time since the last complete answer of a query, and whether a query was asked later than its window after that.

### DowntimeCache

`conn` are the three connectors of a build, whose answers are taken at different moments while downtimes change; `ids` is the map `downtimes` and
`result` the cache under construction, `cache` the published one; `builder`, `builderQuit` and `builderStop` are the goroutine, its channel and its `Stop`. A row is a key with all its downtimes, begun or not.
`AddDowntimes` is `Cache.addDowntime` for a row: the earliest start stays, an id without a row counts as the
empty string, which is before all times. `Timeout` publishes what there is. `exact` is history: no change, time-out
or broken connection since the build of the published cache began. (What this module and `LivestatusCollector` both have is named differently in the two, so that one module of proofs can extend both;
so are `JSONFile` and `ElasticTarget`, `PerfData` and `NagiosSpool`.)

### JSONFile

`array` and `length` are the slice `queries`; `append` is two steps, reading the length (`Receive`) and storing element and new length
(`StoreQuery`), the writer three: `TakeSlice`, the write, `Reset`. So an append may be reset away or bring written records back. `WriteTwice`
is the clash of two files of one second, after which the data is written to a new file and over the old one - whose content,
of another target or process, is outside the module. The history variable `overtaken` are the records that were appended during a write.

### ElasticTarget

The state is that of `InfluxTarget` without the flags, which nobody changes once `ConnectorFactory` has returned, and without a filter,
which the worker does not ask. The connector's client has a time-out of five seconds, the workers' client has none: the server may be `"hangs"`, and then
`SendData` waits. `Replies` is what `sendData` makes of an answer: anything without `"errors":true` is a success, also a 429 or 503 that stored nothing
(`believed`), and an answer with it makes `printErrors` panic, which ends the process (`conn = "dead"`). An interrupted wait goes on with the loop
(`round`, three rounds). `dumpRemainingQueries` holds a mutex over draining and writing; `dumpErrorQueries` holds none, so that its
`Stat`, `Create` and append are steps of their own and `cut` are the records that a second `Create` cuts away.

### PerfData

One line is a constant of a behaviour, `next` the position in `perfSlice`, `prefix` `currentCheckMultiLabel`, `out` what went into the channel.
A text is reduced to the distinctions the iterator makes: the check_multi prefix of a label and its rest, and whether value, minimum and maximum are a number, `U` (the
value), absent or neither. `NextPerfItem` is one round of the loop; a malformed number skips the item, but its prefix is kept. Whether a line uses prefixes at all is decided by its first item.

Thresholds, tags, fields and filters are left out: none of them decides whether there is a record, or under which label. What a threshold becomes is not always a number:
`rangeRegex` also finds `1.2.3`, `5-10` or a lone `-`, and they are written without a look at `IsStringANumber` (`nagiosSpoolfileWorker.go:238-254`). A database refuses such a
line; it is one of the `Bad` records of `InfluxTarget`.

### Nagflux

`phase` and `at` are where `main` is: the next component of `StartOrder` to start, listening, or the next one of `StopOrder` that `cleanUp` stops. `running` are the components
with a goroutine (`"remove"`: a dump file collector that is past its loop). A collector works on one record (`task`) for the targets in `todo`; `queue[t]` is what a target's workers and its
channel hold, `held[t]` what a worker does with the first of it: `"batch"` before it is sent, `"failed"` when the send has failed and the server is not pinged yet, `"retry"` before it is sent
again or given up. `settled` is stored (or in a file nobody reads back), `dumpFile` the dump file of an InfluxDB, `replayed` what its collector has passed.
`Stop` of each component returns when the module of that component says so: a target with empty hands and, if it pauses, with its server there; a spool collector between two deliveries; a
collector with a buffered quit at any time, perhaps without having stopped; a Gearman worker when it gets the library's mutex. `ProcessEnds` ends every goroutine.
`waitForDumpfileCollector` waits a minute at most and then goes on, so it is a delay of any length.

`alive` and `pause` are `isAlive` of a connector and the entry of its target in the pause map. A worker pings only while `isAlive` is false or after a batch has failed (`Pings`), and `Probe`
notes the answer in both - or in `isAlive` only: that is the interleaving of finding 1, in which another worker with an older answer writes the pause entry last. After it the
pause of a target that is alive stays until a batch fails, so the consequences of the finding are in this module, too.

Three sets are history and together are what may be lost: `timedOut` (a channel was full for too long), `forgotten` (in memory when the process ended) and `unread` (appended
to the dump file behind the end its collector has seen, and removed with it); `givenUp` is what workers have appended to a dump file in this life.
Left out are the livestatus collector and cache, whose `Stop` waits for nobody, and the JSON targets, which have no server and no dump file. A target has one batch under way here;
what two workers do to each other's batches is in the modules of the targets, and what they do to the pause is in `Probe`.

### What the runs show

| Run | Instance | Result |
|---|---|---|
| `influx` | 2 workers that stop reading while the server is down, a good and a bad record, queue 1, batch 2, 1 fault | `BadIsolated`, refinement of `Forwarder`, `EventuallySettled`, `StopTerminatesWhenHealthy`, `OutagePauses` in 246 000 states |
| `influx_stuckpause` | the same with two good records, batch 1 | violates `ResumesAfterOutage` (finding 1) |
| `elastic` | 2 workers, a good and a bad record, queue 1, batch 2, 1 misleading answer | refinement of `Forwarder`, `StopTerminates`, `EventuallySettled` in 187 000 states |
| `dump_replay` | 2 workers, an old line and a new one that is too long, queue 1, batch 2, 2 lives | `LossNeedsCause`, `ReplayEnds` in 46 000 states |
| `nagios_spool` | 2 workers, 1 file with 2 data, 1 target, channel of 2 names, queue 1 | refinement of `Intake`, `QuietAfterStop`, `StopTerminates`, `FilesAreWorkedOff` in 66 000 states |
| `nagflux_files` | a file with 2 records and an empty one, 2 targets, queue 1, 2 lives, 1 failing removal | `CopiesBounded`, refinement of `Intake`, `FilesAreWorkedOff` in 206 000 states |
| `gearman` | 1 job with 1 datum, assigned up to twice, 1 target, queue 1 | `TypeOK`, `LocksAreOwned`, refinement of `Intake`, `StopTerminates` in 225 000 states |
| `livestatus` | 2 queries, 1 event, 2 targets, queue 1, interval 2, window 3 | `TypeOK`, `NothingBetweenAnswers`, `CopiesBounded`, `RoundIsComplete`, `AnsweredIsDelivered` in 128 000 states |
| `downtime_cache` | a host with 2 downtimes, a service without any | `CacheTypeOK`, `SteadyBuildIsExact`, `DowntimeIsNoticed`, `EndIsNoticed` in 64 000 states |
| `json_file` | 3 records of the target, 1 foreign, queue 1, 1 clash, 1 failure | `FileTypeOK`, `LossNeedsCause`, `CopiesBounded`, `QueriesAreWritten` in 203 000 states |
| `perfdata` | lines of up to 3 items out of 23, known and unknown type | `IteratorIsExact` in 63 000 states |
| `main` | an InfluxDB that pauses and an Elasticsearch, a CSV file, queue 1, 1 outage, 2 lives | `LossNeedsCause`, `ShutdownTerminates`, `EverythingArrives` in 343 000 states |

Where a type invariant or another safety invariant is proved for every instance (section 3), no run repeats it: `TypeOK` of `InfluxTarget`, `ElasticTarget`, `DumpReplay`,
`NagiosSpool` and `NagfluxFiles`, `NoSilentLoss`, `StoppedIsSettled`, `DumpCopiesBounded` and `AtMostOncePerWorker`. A target that reads on while its server is
down (`StopReadingDataIfDown = FALSE`) has no run of its own; the theorems about `InfluxTarget` cover both values.

Bounds. Two workers are what the shared flags, the shared channel and the
polling of `IsRunning` need; records of each kind, a batch of two and a queue of two give full and
part-full batches, a batch with a good and a bad line, and a queue at its limit. `CreateTries` (5 in the code) and
`MaxFaults` only bound loops and the environment. In `DumpReplay` two workers are needed for the race on
`Stat` and `Create`, two lives for a replay that a stop interrupts; how often a worker
gives a batch back has no bound. In `NagiosSpool` two workers can have the same file open, with the name a second time in the channel;
in `NagfluxFiles` two targets make a record that only one of them got. In `GearmanWorker` two assignments of a job are
two executions at once; a channel with one place is loaded when it is full. In `LivestatusCollector` the window is one and a half
intervals, as in the code, so that an event falls into one query or two. Two overlapping downtimes are
what `addDowntime` has to choose from. In `PerfData` three items are one that sets a prefix, one that is skipped and one that
needs it. In `ElasticTarget` two workers are needed for the race on the `-errors` file, and `StartTries` (5 in the code) only bounds the loops of the factory. In `Nagflux` one target of each
kind gives a channel that is full while the other one has room, a pause of one target that holds up the other, and a start-up that panics behind a replay; of the three collectors
only the CSV one has a record, while the other two are started, pause and are stopped; the second life replays what the first has dumped. In `JSONFile` three records are one in the file, one in the slice and one in the hand of `run`. The theorems hold for all values.

Fairness. A goroutine that can run does run (`WF` for every worker's
steps, the factory and `Connector.run`). Go's `select` chooses at random among the ready branches, so
a worker that comes back to its select again and again takes the quit branch
(`SF` of `ReceiveQuit`). Nothing is assumed about the database, the collectors or
the moment of a stop; where progress needs a healthy database the property
says so (`<>[]Healthy`). The same holds for the other modules: their goroutines have `WF`, the quit branches of
their selects `SF`; nothing is assumed about Nagios, the consumers of a channel (a full one times out),
the end of a process or its start. `GearmanWorker` has `SF` for whoever waits for the mutex (Go's mutex does not starve a
goroutine), and `StopTerminates` assumes that in the end no target pauses and the channels drain; `LivestatusCollector` has `SF` for a send to
a channel that has room again and again. In `ElasticTarget` `StopTerminates` needs a server that does not hang for ever, and `EventuallySettled`
one that stays up. In `Nagflux` `cleanUp` has `SF`, because what it waits for (the select of a worker, the mutex of the
Gearman library) is offered again and again; `ShutdownTerminates` and `EverythingArrives` need servers that stay up in the end and a pause that is not stuck
(`<>[](AllUp /\ ~StuckPause)`); `EverythingArrives` also a process that runs on. The process may end for good, so deadlock is not checked there. In `DumpReplay` the collector and the second
half of its `Stop` have `WF` and the workers, which may hang in a request, nothing; `ReplayEnds` needs an outage that ends (`OutageEnds`: from some moment on no batch is given up),
because in one that lasts the replay does not end. In `JSONFile` both goroutines end after a stop, so deadlock is not checked there.

### Findings

1. *Stuck pause.* Two workers probe around the recovery of the server, w1 before it and w2 after it.
   w1 stores `isAlive = false`, w2 stores `isAlive = true` and clears the pause entry, then w1
   sets the pause entry. With `isAlive` true nobody probes again, the
   collectors stay paused, so no new data arrives that could fail and trigger a probe. (The run is of `InfluxTarget`; `influx.InfluxWorker`
   workers share a connector.) A Mod-Gearman worker makes it worse: `handlePause` keeps the library's mutex, `worker.Close` at `gearmanWorker.go:83` waits for it,
   and a signal does not end the process although every server is up. `ShutdownTerminates` and `EverythingArrives` of `Nagflux` therefore exclude a pause that is stuck (`StuckPause`);
   without this premise TLC finds both violated, the second one as soon as there is a second file.

Met on the way, without a run of their own:

- *A paused Mod-Gearman worker reads on.* `handlePause` locks the library's worker while a target is on pause
  (`gearmanWorker.go:132`), but the library does not ask for that mutex when it takes a job. So the jobs go on, their
  data is dropped where the channels stay full for a minute, and the jobs are answered. `README.md:37` says that the
  pause is there "to stop reading new data"; as it is, it has no effect on the jobs. The model lets gearmand assign jobs whatever the mutex is.
- With `StopPullingDataIfDown`, `Connector.Stop` returns only when the server is back (`Worker.go:113`); `StopTerminatesWhenHealthy` is what does hold.
- A healthy stop loses what the workers have not received (`Worker.go:91`), although the comment on `cleanUp` (`main.go:218`) says
  "Wait till the Performance Data is sent."; `StoppedIsSettled` is what does hold for a target, `LossNeedsCause` of `Nagflux` for the process.
- During an outage of a target that pauses, a signal does not end a process with a Gearman worker: its `Stop` waits for the mutex that `handlePause` holds until the server is back
  (`gearmanWorker.go:83`), and only behind it come the targets. `ShutdownTerminates` therefore needs servers that come back.
- An Elasticsearch that is not there at the start makes its factory panic (`elasticsearch/Connector.go:49`) while the InfluxDB targets before it already replay their dump
  files: what is in memory goes with the process, at every start again.
- An Elasticsearch worker takes a 429 or 503 for a success (`elasticsearch/Worker.go:243`), panics at an answer with `"errors":true`
  (`:265`; the line behind it says `TODO: return error`), and waits without a time-out for an answer (`:54`). What it dumps when it is interrupted goes to `Main.DumpFile` itself, where no collector looks; what it gives up
  goes to `-errors`, where a second worker may cut it (`:290`).
- The collector removes the dump file without the mutex (`dumpfileCollector.go:91`); a worker that has found the file in `Stat` cannot open
  it any more, or has already appended to it: the batch is gone. `LossNeedsCause` says that this is one of only three ways to lose a line.
- While `FileCollector.run` is between two selects, `Stop` reads back what it has put into the buffered channel and returns
  (`nagfluxFileCollector.go:48`); `run` goes on, and removes files whose records nobody will take from the channels. `DumpfileCollector`,
  `Collector` and `CacheBuilder` of `collector/livestatus`, and `JSONFileWorker` have the same hand-shake with a buffer of two.
- `GearmanWorker.Stop` ends one of its two handlers; the other one listens on. A stop during the 30 seconds between two attempts to connect closes nothing.
- The JSON file target forgets what it receives while it writes (`json/Worker.go:75`).
- The comment `Cache.go:20` says that the newer timestamp is taken; the code keeps the older one, and is right.
- An empty CSV file makes `parseFile` panic (`nagfluxFileCollector.go:103`) at every start.
- `defaultTarget` of the spool workers is stored but never read: a line without `NAGFLUX:TARGET` goes to every target (`nagiosSpoolfileWorker.go:194`), whatever `Main.DefaultTarget` says,
  although `CHANGELOG.md:14-16` and `config.gcfg.example:11-15` give it the decision. Elasticsearch workers take every record whatever its tag is (`elasticsearch/Worker.go:83-89`); only InfluxDB and JSON targets ask the filter.
- A threshold is written as `rangeRegex` finds it, number or not (`nagiosSpoolfileWorker.go:238-254`).
- A prefix of check_multi is only looked for when the first item of a line has one (`nagiosSpoolfileWorker.go:176`); otherwise the later items keep their own labels.
- During an outage workers and dump file collector feed each other the same lines, because the collector reads what is appended behind it. Nothing bounds this but the end of the outage:
  the file grows as long as it lasts. `ReplayEnds` is violated without `OutageEnds`.
- `README.md:53` sends undeliverable data to the `.dump-errors` file, the code (`Worker.go:174`) to the dump file; an interrupted batch
  is written to the dump file up to three times (`DumpCopiesBounded` is that bound).

### Not modelled

Configuration, statistics, logging and the conversions of strings and numbers have no state the properties depend on. Inside the
modelled parts these are left out: `AddWorker` and `RemoveWorker` of the connectors (their callers are commented out), the branch
of the dump file collector for targets that are no InfluxDB (no worker writes the file it looks for), the branches of the Elasticsearch worker
for a server that is down (`Worker.go:94-109`: nobody probes after the start), the detection of the Livestatus version (`Collector.go:81-103` and `239-280`, one question at the start), the columns of all formats and the rendering of records
(`NagfluxPrintable.go`, `performanceData.go`, the livestatus data types), the thresholds, tags and fields of a line and its alternative command, the filter of `collector/Filterable.go` (what it decides is `Matching` in `InfluxTarget` and the foreign records of `JSONFile`), decryption of jobs, torn reads of the JSON slice, `WatchResultQueueLength`, which
iterates over the map of channels while `main` still adds to it (`main.go:82`).

## 3. Proofs

`InfluxTargetProofs` proves, for every finite set of workers, every set of
records and all values of the other constants (the named assumptions of `InfluxTarget`),
`TypeOK`, `NoSilentLoss`, `StoppedIsSettled`, `DumpCopiesBounded`, `BadIsolated` and the refinement of `Forwarder`.

None of the invariants is inductive by itself. `IndInv` adds

- `Phases`: what the locals of a worker hold at each `pc`, and how `pc`, `stopPc` and `conn`
  go together (an acknowledged quit means empty hands; nothing runs before the factory is done);
- `Ownership`: a record is in one place - once in the channel, with one worker, or
  settled. Without it a second worker could dump a record again, and `DumpCopiesBounded` and the refinement would fail;
- `Copies`: the copies of a record in the dump file are bounded by the rounds its
  holder has behind it;
- `Isolation`: without faults, a 400 means a healthy database, so that only bad
  lines fail one by one.

The argument: a step does one of four things to the places of a record
(`Still`, `Entered` the channel, `Taken` from the channel by one worker, `Written` and perhaps
given up by one worker), proved once per action; the invariants and
the refinement then follow from these instead of from the thirty actions.

`TargetProofs` proves of `ElasticTarget` `TypeOK` and the refinement of `Forwarder` along the same lines: `Phases` (a round is left before every resend; only a worker that drains holds
anything of the channel; an acknowledged quit means empty hands) and `Ownership`, and the effect of a step on the places of a record
(`Still`, `Entered`, `Taken`, `Written`), once per action. A record is in one place although the worker resends
what it has just dumped, because dumping settles it; two workers never hold the same one.

`DumpReplayProofs` proves `TypeOK` and `LossNeedsCause`, the latter by an invariant that follows the file: `Replayed` (every
line the collector has behind it is accounted for, and once it has seen the end of the file only lines that were
given back during the replay are appended), `Dumpers` (a worker in `dumpQueries` holds the mutex; its
batch is excused by the replay, or the replay is over and the file it has open is the one that stays) and `Token`.
That nobody removes a file after the replay is what makes the worker's `Stat` reliable then.

`NagiosSpoolProofs` proves `TypeOK`, `AtMostOncePerWorker`, `QuietAfterStop` and that the module implements `Intake`; `NagfluxFilesProofs`
proves `TypeOK`, `CopiesBounded` and the same refinement. Both rest on the position of a reader:
what it has passed is settled (`BehindIsSettled`), so it is settled when the file is
removed (`RemovedIsDelivered`). For the copies: what a running worker has delivered is behind it or from a file that
is gone (`DeliveredIsBehind`), thus nothing it is about to deliver was delivered by it before;
and in `NagfluxFiles` whatever may still be delivered in this life has a copy left (`CopyLeft`).
`Stopped` relates the position of `Stop` to the workers it has stopped.

`TargetProofs` also proves of `JSONFile` `FileTypeOK`, `LossNeedsCause` and `CopiesBounded`, although nothing orders its two goroutines. `FileInv` adds

- `Hand`: a record is once in the channel or in the hand of `run`, and the length that `append` has read is
  at least the present one (only `Reset` can come between the two);
- `UnstoredIsNew`: what was not stored yet (`Stored`) is in no array, in no data of the writer and in no file;
- `SliceIsWritten`: an element of the array that is behind the length, or will be after the reset the writer has before it, is excused: in a file, failed or overtaken;
- `WritesAreCaused`: a record that will be written once more (`ToBeWritten`) has a copy left. To be written again it has to be
  brought back by an append over a reset, and that append stores another record for the first time.

`GearmanWorkerProofs` proves `TypeOK`, `LocksAreOwned` and the refinement of `Intake`. An execution has a position in its job, like a spool worker in its file
(`Behind`), and what it has passed is settled (`BehindIsSettled`); it answers behind its last datum (`Executions`), so a job that gearmand has no more was
settled (`AnsweredIsSettled`), whichever of its executions answered and however often the connection broke. `LocksAreOwned` is inductive with the types: it follows the mutex
through both handlers, while `AddFunc` and `Close` only pass when it is free.

`NagfluxProofs` proves `TypeOK` (the types of what holds records) and `LossNeedsCause` over all lives of the process. A record is `Safe` with a target if it is
in the target's queue, settled or among `Lost`, and `Placed` if it is safe or in the dump file. What is no longer in a file is placed with every target
(`GoneIsPlaced`) because a collector places it target by target (`DoneIsPlaced`) before the file goes; what the dump file collector has passed is safe (`ReplayedIsSafe`),
so that the dump file can go, except for what was appended behind it (`unread`), which is the third cause of a loss. The order of start and stop plays no part in this:
it decides how much is lost, and `ShutdownTerminates`.

`LivestatusProofs` proves of `LivestatusCollector` `TypeOK`, `NothingBetweenAnswers`, `RoundIsComplete` and `CopiesBounded`, for every interval and window. `Holds` and `Reader` say what the requesters
and `queryData` hold where; no event is at two places. `AnsweredIsUnderWay`: an event of an answer has been delivered to a target or still will be in this round, and
at its end nothing is under way. `ExcludedIsKnown`: a query that is not late leaves out only what an earlier answer had. The copies need an argument about time: every answer that has an event counts
(`Count`) as soon as it is there, and `Paced` compares `Count * Interval` with the age of the event at each point of a round, since a round that has the event begins an interval after
the one before, and none has it from the age `Window` on.

It also proves of `DowntimeCache` `CacheTypeOK` and `SteadyBuildIsExact`. As long as a build is undisturbed, it has read the ids of all downtimes before the first row of a key (`IdsAreKnown`), the rows it
has yet to read are those of the keys in downtime (`RowsAreTrue`), and what it has of a key tells the truth unless the row is still to come (`ResultIsTrue`): `addDowntime` for a row
computes the least of the starts, and a time is in the downtime exactly if it is not before that one. That a set of numbers has a least element is itself a lemma (`MinOfNaturals`, from the
well-foundedness of the strict subsets of a finite set).

`NagiosSpoolProofs` finally proves of `PerfData` `IteratorIsExact`, for lines of any length. `PrefixIsNearest` is the invariant of `currentCheckMultiLabel`: the
prefix of the nearest item before that has one, well-formed or not. With it the record of a well-formed item gets the prefix `ExpectedPrefix` asks for, and its place in `out` is its `Rank`, the number of well-formed
items up to it (`SentIsExact`), since a record is appended for each of them.

Each of these invariants was checked by TLC on the instance of its run before it was proved. The assumptions are the named ones of the modules: sets that are finite where a number of elements is taken, capacities
that are not zero, and model values that differ.

Only model-checked: liveness (`ReplayEnds`, `StopTerminates`, `FilesAreWorkedOff`, `EventuallySettled`, `OutagePauses`,
`StopTerminatesWhenHealthy`, `AnsweredIsDelivered`, `DowntimeIsNoticed`, `EndIsNoticed`, `QueriesAreWritten`, `ShutdownTerminates`, `EverythingArrives`), which the prover cannot do.

## 4. Plan

Done: models of both database targets, the dump file, both file collectors, the Mod-Gearman worker, the Livestatus collector and its cache, the JSON file target,
the parser, and the process as `main` composes it; theorems for every safety property and refinement the runs check, and for the type invariants.

1. Action properties that follow from the invariants above, such as that a component that has acknowledged its stop never reads from a channel again.
