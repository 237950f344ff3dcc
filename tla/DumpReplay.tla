----------------------------- MODULE DumpReplay -----------------------------
(***************************************************************************)
(* The dump file of one InfluxDB target over several lives of the process: *)
(* the DumpfileCollector reads back what earlier lives left in it and then *)
(* removes it (src/collector/nagflux/dumpfileCollector.go), while the      *)
(* workers of the same target append the batches they cannot send          *)
(* (dumpQueries in src/target/influx/Worker.go), and main waits for the    *)
(* collector at the start and stops both at the end (src/main.go).         *)
(*                                                                         *)
(* A file that is open stays readable and writable after it was removed,   *)
(* so the file has an inode number: a worker that writes through an older  *)
(* number writes to a file nobody can find any more.  The retries of a     *)
(* worker are those of InfluxTarget; here a batch is either stored or      *)
(* given up, as often as the outage of the database wants it.              *)
(*                                                                         *)
(* While a replay meets an outage the file grows for ever: the workers     *)
(* append what the collector has just read.  Nothing looks at the lines    *)
(* behind the collector again but the next life, for which only matters    *)
(* which they are, so a line is kept once there; this and not a bound on   *)
(* what the workers do makes the states finite.                            *)
(***************************************************************************)
EXTENDS Naturals, Sequences, FiniteSets, Functions

CONSTANTS
    Workers,    \* workers of the target
    NoWorker,   \* nobody holds the mutex of the dump files
    Lines,      \* printables, each with a line of its own
    OldDump,    \* what an earlier life left in the dump file
    LongLines,  \* lines that do not fit into Main.FileBufferSize
    QueueCap,   \* capacity of the channel (Main.BufferSize)
    BatchSize,  \* lines a worker collects
    MaxStarts   \* bound on the lives of the process

ASSUME WorkersAssumption == IsFiniteSet(Workers) /\ NoWorker \notin Workers
ASSUME LinesAssumption == OldDump \in Seq(Lines) /\ LongLines \subseteq Lines
ASSUME NumbersAssumption ==
    /\ QueueCap \in Nat \ {0} /\ BatchSize \in Nat \ {0}
    /\ MaxStarts \in Nat \ {0}

VARIABLES
    \* the file the path leads to (0: none), the lines of it that are still
    \* to be read, those the collector has behind it, the last inode used
    inode, disk, read, lastInode,
    \* the process: its lives, and where main is
    starts, main,
    \* DumpfileCollector: run, IsRunning, tokens in quit
    run, isRunning, quit,
    \* the channel, and the records the other collectors put into it
    jobs, fresh,
    \* the workers: phase, batch, the file opened for appending, the mutex
    pc, held, fd, mutex,
    \* the points in the database
    stored,
    \* history: lines that timed out, that a worker began to append during
    \* a replay, and that were in memory when the process ended
    skipped, returned, forgotten

file      == <<inode, disk, read, lastInode>>
process   == <<starts, main>>
collector == <<run, isRunning, quit>>
chan      == <<jobs, fresh>>
workers   == <<pc, held, fd, mutex>>
history   == <<skipped, returned, forgotten>>
vars      == <<file, process, collector, chan, workers, stored, history>>

-----------------------------------------------------------------------------
TypeOK ==
    /\ inode \in 0..lastInode /\ lastInode \in Nat
    /\ disk \in Seq(Lines) /\ (inode = 0 => disk = <<>>)
    /\ read \in Seq(Lines) /\ (inode = 0 => read = <<>>)
    /\ starts \in 1..MaxStarts
    /\ main \in {"waiting", "running", "stopDump", "stopTarget", "exit", "down"}
    /\ run \in {"open", "read", "remove", "done"}
    /\ isRunning \in BOOLEAN /\ quit \in 0..1
    /\ jobs \in Seq(Lines) /\ Len(jobs) <= QueueCap
    /\ fresh \subseteq Lines
    /\ pc \in [Workers -> {"idle", "dump", "create", "open", "write", "stopped"}]
    /\ held \in [Workers -> Seq(Lines)]
    /\ fd \in [Workers -> Nat]
    /\ mutex \in Workers \cup {NoWorker}
    /\ stored \subseteq Lines
    /\ skipped \subseteq Lines /\ returned \subseteq Lines /\ forgotten \subseteq Lines

(* Nothing of the memory of a process survives it.                         *)
ClearMemory ==
    /\ run' = "open"
    /\ isRunning' = TRUE /\ quit' = 0
    /\ jobs' = <<>>
    /\ pc' = [w \in Workers |-> "idle"]
    /\ held' = [w \in Workers |-> <<>>]
    /\ fd' = [w \in Workers |-> 0]
    /\ mutex' = NoWorker

Init ==
    /\ inode = (IF OldDump = <<>> THEN 0 ELSE 1)
    /\ disk = OldDump /\ read = <<>> /\ lastInode = inode
    /\ starts = 1 /\ main = "waiting"
    /\ run = "open" /\ isRunning = TRUE /\ quit = 0
    /\ jobs = <<>> /\ fresh = {}
    /\ pc = [w \in Workers |-> "idle"]
    /\ held = [w \in Workers |-> <<>>]
    /\ fd = [w \in Workers |-> 0]
    /\ mutex = NoWorker
    /\ stored = {}
    /\ skipped = {} /\ returned = {} /\ forgotten = {}

Alive == main # "down"

(* The lines in the channel and in the hands of the workers.               *)
InMemory == Range(jobs) \cup UNION {Range(held[w]) : w \in Workers}

-----------------------------------------------------------------------------
(* DumpfileCollector.run *)

(* Stat and Open.  Nobody else removes the file in between.                *)
OpenFile ==
    /\ Alive /\ run = "open"
    /\ run' = IF inode = 0 THEN "done" ELSE "read"
    /\ isRunning' = IF inode = 0 THEN FALSE ELSE isRunning
    /\ UNCHANGED <<file, process, quit, chan, workers, stored, history>>

(* reader.ReadLine has returned a line that fits: run is at its select.    *)
LineRead == Alive /\ run = "read" /\ disk # <<>> /\ Head(disk) \notin LongLines

(* The line is dealt with and the next one is read.                        *)
NextLine ==
    /\ disk' = Tail(disk)
    /\ read' = IF Head(disk) \in Range(read) THEN read ELSE Append(read, Head(disk))

(* isPrefix: the rest of the file is not read, and the file stays.         *)
ReadLongLine ==
    /\ Alive /\ run = "read" /\ disk # <<>> /\ Head(disk) \in LongLines
    /\ run' = "done" /\ isRunning' = FALSE
    /\ UNCHANGED <<file, process, quit, chan, workers, stored, history>>

ReadEOF ==
    /\ Alive /\ run = "read" /\ disk = <<>>
    /\ run' = "remove"
    /\ UNCHANGED <<file, process, isRunning, quit, chan, workers, stored, history>>

(* case dump.jobs <- line                                                  *)
EnqueueLine ==
    /\ LineRead /\ Len(jobs) < QueueCap
    /\ jobs' = Append(jobs, Head(disk))
    /\ NextLine
    /\ UNCHANGED <<inode, lastInode, process, collector, fresh, workers, stored, history>>

(* Slip: the line is tried again, without looking at quit or the time.     *)
RetryLine ==
    /\ LineRead /\ Len(jobs) = QueueCap
    /\ skipped' = skipped \cup {Head(disk)}
    /\ UNCHANGED <<file, process, collector, chan, workers, stored, returned, forgotten>>

(* case <-time.After(20 seconds): the channel was full all the time.       *)
SkipLine ==
    /\ LineRead /\ Len(jobs) = QueueCap
    /\ skipped' = skipped \cup {Head(disk)}
    /\ NextLine
    /\ UNCHANGED <<inode, lastInode, process, collector, chan, workers, stored,
                   returned, forgotten>>

(* case <-dump.quit: the token is put back for Stop, the file stays.       *)
QuitReplay ==
    /\ LineRead /\ quit > 0
    /\ run' = "done"
    /\ UNCHANGED <<file, process, isRunning, quit, chan, workers, stored, history>>

(* os.Remove, whatever was appended since the end of the file was seen.    *)
RemoveFile ==
    /\ Alive /\ run = "remove"
    /\ inode' = 0 /\ disk' = <<>> /\ read' = <<>>
    /\ run' = "done" /\ isRunning' = FALSE
    /\ UNCHANGED <<lastInode, process, quit, chan, workers, stored, history>>

Replay ==
    \/ OpenFile \/ ReadLongLine \/ ReadEOF
    \/ EnqueueLine \/ SkipLine \/ QuitReplay \/ RemoveFile

-----------------------------------------------------------------------------
(* The workers of the target *)

Receive(w) ==
    /\ Alive /\ pc[w] = "idle" /\ jobs # <<>> /\ Len(held[w]) < BatchSize
    /\ held' = [held EXCEPT ![w] = Append(@, Head(jobs))]
    /\ jobs' = Tail(jobs)
    /\ UNCHANGED <<file, process, collector, fresh, pc, fd, mutex, stored, history>>

Store(w) ==
    /\ Alive /\ pc[w] = "idle" /\ held[w] # <<>>
    /\ stored' = stored \cup Range(held[w])
    /\ held' = [held EXCEPT ![w] = <<>>]
    /\ UNCHANGED <<file, process, collector, chan, pc, fd, mutex, history>>

(* The batch cannot be sent and goes to the dump file, the same lines      *)
(* again and again while the outage lasts.  A worker that is being stopped *)
(* takes the rest of the channel with it (dumpRemainingQueries).           *)
GiveUp(w) ==
    /\ Alive /\ pc[w] = "idle" /\ held[w] # <<>>
    /\ \/ UNCHANGED <<held, jobs>>
       \/ /\ main = "stopTarget"
          /\ held' = [held EXCEPT ![w] = @ \o jobs]
          /\ jobs' = <<>>
    /\ pc' = [pc EXCEPT ![w] = "dump"]
    /\ UNCHANGED <<file, process, collector, fresh, fd, mutex, stored, history>>

(* Slip: the mutex does not keep another worker out.                       *)
StatDumpUnlocked(w) ==
    /\ Alive /\ pc[w] = "dump"
    /\ mutex' = w
    /\ pc' = [pc EXCEPT ![w] = IF inode = 0 THEN "create" ELSE "open"]
    /\ returned' = IF run = "done" THEN returned ELSE returned \cup Range(held[w])
    /\ UNCHANGED <<file, process, collector, chan, held, fd, stored,
                   skipped, forgotten>>

(* mutex.Lock and Stat.                                                    *)
StatDump(w) ==
    /\ Alive /\ pc[w] = "dump" /\ mutex = NoWorker
    /\ mutex' = w
    /\ pc' = [pc EXCEPT ![w] = IF inode = 0 THEN "create" ELSE "open"]
    /\ returned' = IF run = "done" THEN returned ELSE returned \cup Range(held[w])
    /\ UNCHANGED <<file, process, collector, chan, held, fd, stored,
                   skipped, forgotten>>

(* os.Create: a new file, or the present one cut to nothing.               *)
CreateDump(w) ==
    /\ Alive /\ pc[w] = "create"
    /\ lastInode' = IF inode = 0 THEN lastInode + 1 ELSE lastInode
    /\ inode' = lastInode'
    /\ disk' = <<>> /\ read' = <<>>
    /\ pc' = [pc EXCEPT ![w] = "open"]
    /\ UNCHANGED <<process, collector, chan, held, fd, mutex, stored, history>>

(* OpenFile(O_APPEND|O_WRONLY): the collector may have removed the file    *)
(* since the Stat, and without O_CREATE the batch is dropped then.         *)
OpenDump(w) ==
    /\ Alive /\ pc[w] = "open"
    /\ \/ /\ inode # 0
          /\ fd' = [fd EXCEPT ![w] = inode]
          /\ pc' = [pc EXCEPT ![w] = "write"]
          /\ UNCHANGED <<held, mutex>>
       \/ /\ inode = 0
          /\ held' = [held EXCEPT ![w] = <<>>]
          /\ pc' = [pc EXCEPT ![w] = "idle"]
          /\ mutex' = NoWorker
          /\ UNCHANGED fd
    /\ UNCHANGED <<file, process, collector, chan, stored, history>>

(* f.WriteString of one line, seen by the reader when the file is still    *)
(* the one the path leads to.                                              *)
WriteLine(w) ==
    /\ Alive /\ pc[w] = "write" /\ held[w] # <<>>
    /\ disk' = IF fd[w] = inode THEN Append(disk, Head(held[w])) ELSE disk
    /\ held' = [held EXCEPT ![w] = Tail(@)]
    /\ UNCHANGED <<inode, read, lastInode, process, collector, chan, pc, fd, mutex, stored,
                   history>>

CloseDump(w) ==
    /\ Alive /\ pc[w] = "write" /\ held[w] = <<>>
    /\ pc' = [pc EXCEPT ![w] = "idle"]
    /\ fd' = [fd EXCEPT ![w] = 0]
    /\ mutex' = NoWorker
    /\ UNCHANGED <<file, process, collector, chan, held, stored, history>>

(* The worker has sent or dumped its last batch and acknowledges quit.     *)
QuitWorker(w) ==
    /\ main = "stopTarget" /\ pc[w] = "idle" /\ held[w] = <<>>
    /\ pc' = [pc EXCEPT ![w] = "stopped"]
    /\ UNCHANGED <<file, process, collector, chan, held, fd, mutex, stored, history>>

Worker(w) ==
    \/ Receive(w) \/ Store(w) \/ GiveUp(w)
    \/ StatDump(w) \/ CreateDump(w) \/ OpenDump(w) \/ WriteLine(w) \/ CloseDump(w)
    \/ QuitWorker(w)

-----------------------------------------------------------------------------
(* main, and the other collectors it starts once the replay is over or 60  *)
(* seconds have passed                                                     *)

WaitForDumpfileCollector ==
    /\ main = "waiting"
    /\ main' = "running"
    /\ UNCHANGED <<file, starts, collector, chan, workers, stored, history>>

EnqueueFresh(l) ==
    /\ main = "running" /\ l \notin fresh \cup Range(OldDump)
    /\ Len(jobs) < QueueCap
    /\ jobs' = Append(jobs, l)
    /\ fresh' = fresh \cup {l}
    /\ UNCHANGED <<file, process, collector, workers, stored, history>>

(* DumpfileCollector.Stop: if the collector runs, put a token into quit.   *)
StopDump ==
    /\ main = "running"
    /\ IF isRunning THEN main' = "stopDump" /\ quit' = quit + 1
                    ELSE main' = "stopTarget" /\ UNCHANGED quit
    /\ UNCHANGED <<file, starts, run, isRunning, chan, workers, stored, history>>

(* <-dump.quit, the token of run or the one just put there.                *)
StopDumpReturns ==
    /\ main = "stopDump" /\ quit > 0
    /\ quit' = quit - 1 /\ isRunning' = FALSE
    /\ main' = "stopTarget"
    /\ UNCHANGED <<file, starts, run, chan, workers, stored, history>>

TargetStopped ==
    /\ main = "stopTarget" /\ \A w \in Workers : pc[w] = "stopped"
    /\ main' = "exit"
    /\ UNCHANGED <<file, starts, collector, chan, workers, stored, history>>

(* The process ends, after a stop or because it is killed; a signal that   *)
(* arrives while main is waiting finds no handler yet.                     *)
End ==
    /\ Alive
    /\ main' = "down"
    /\ forgotten' = forgotten \cup InMemory
    /\ disk' = read \o disk /\ read' = <<>>
    /\ ClearMemory
    /\ UNCHANGED <<inode, lastInode, starts, fresh, stored, skipped, returned>>

Start ==
    /\ main = "down" /\ starts < MaxStarts
    /\ starts' = starts + 1
    /\ main' = "waiting"
    /\ UNCHANGED <<file, collector, chan, workers, stored, history>>

Terminated == main = "down" /\ starts = MaxStarts /\ UNCHANGED vars

Main == WaitForDumpfileCollector \/ StopDump \/ StopDumpReturns \/ TargetStopped

Next ==
    \/ Replay
    \/ \E w \in Workers : Worker(w)
    \/ Main
    \/ \E l \in Lines : EnqueueFresh(l)
    \/ End \/ Start \/ Terminated

Spec == Init /\ [][Next]_vars

(* The collector's goroutine and the second half of its Stop run when they *)
(* can.  Nothing is assumed of the workers, which may hang in a request.   *)
FairSpec == Spec /\ WF_vars(Replay) /\ WF_vars(StopDumpReturns)

-----------------------------------------------------------------------------
(* Properties *)

(* The lines that ever were in the dump file or in the channel.            *)
Known == Range(OldDump) \cup fresh

(* In the database, in the file the next life will find, or in memory.     *)
Kept == stored \cup Range(read) \cup Range(disk) \cup InMemory

(* A line is lost for one of three reasons only: it could not be enqueued  *)
(* for 20 seconds, a worker appended it while the replay was not over yet, *)
(* or it was in memory when the process ended.  Whatever is appended after *)
(* the replay, and whatever a replay that is cut short has not read, is    *)
(* there for the next life.                                                *)
LossNeedsCause == Known \subseteq Kept \cup skipped \cup returned \cup forgotten

(* From some moment on no worker gives up a batch.                         *)
OutageEnds == <>[][\A w \in Workers : ~GiveUp(w)]_vars

(* A full channel, a worker that hangs for ever, a Stop and what was       *)
(* appended so far cannot block the collector: the replay ends, or the     *)
(* process does, once the workers no longer hand back what they get.       *)
(* While they do, in an outage that lasts, the collector reads on.         *)
ReplayEnds == OutageEnds => ((run # "done") ~> (run = "done" \/ main = "down"))

=============================================================================
