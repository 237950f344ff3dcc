---------------------------- MODULE GearmanWorker ----------------------------
(***************************************************************************)
(* One Mod-Gearman worker (src/collector/modGearman/gearmanWorker.go): the *)
(* goroutine that connects, the handlers that lock the library's worker    *)
(* when a channel is nearly full or a target pauses, the jobs gearmand     *)
(* assigns, each in a goroutine of its own, and Stop.                      *)
(*                                                                         *)
(* Of the library (mikespook/gearman-go) the model has what the code uses: *)
(* the mutex, which AddFunc and Close take and the loop that gets the jobs *)
(* does not; the flag running; and the channel of packets, closed for good *)
(* by Close.  gearmand keeps a job until it is answered, and assigns it    *)
(* again when the connection breaks before that.  Panics of a job and      *)
(* errors gearmand reports are left out.  A job is the number of           *)
(* performance data it yields, none if it cannot be decrypted.             *)
(***************************************************************************)
EXTENDS Naturals

CONSTANTS
    Jobs,       \* jobs that may be put into the queue
    MaxItems,
    Items,      \* number of performance data in a job
    Targets,    \* keys of results
    QueueCap,   \* capacity of a target's channel (Main.BufferSize)
    MaxAssign   \* bound on how often gearmand assigns a job

ASSUME JobsAssumption == MaxItems \in Nat /\ Items \in [Jobs -> 0..MaxItems]
ASSUME NumbersAssumption == QueueCap \in Nat \ {0} /\ MaxAssign \in Nat \ {0}

(* The two goroutines that listen to quit.                                 *)
Handlers == {"load", "pause"}

(* The executions of the jobs, by the number of the assignment.            *)
Execs == Jobs \X (1..MaxAssign)

(* What a job can deliver: the i-th performance data, to a target.         *)
Deliveries == {d \in Jobs \X (1..MaxItems) \X Targets : d[2] <= Items[d[1]]}

VARIABLES
    \* the answer of IsAnyTargetOnPause, and how full the channels are
    pause, filled,
    \* the library's worker: who holds its mutex, running, and whether Close
    \* has closed the channel in
    mutex, running, closed,
    \* run: where it is; whether gearmand is connected
    run, connected,
    \* gearmand: the jobs in its queue and all that ever were, how often it
    \* has assigned a job, and the assignment it waits for (0 for none)
    queue, arrived, assigned, owner,
    \* the executions: where they are, the performance data, and the
    \* targets that have not had it
    pc, item, todo,
    \* the handlers: where they are; the targets handleLoad has still to
    \* check, those of them it waits for, and the pause of handlePause
    handler, toCheck, waitFor, paused,
    \* Stop: where it is
    stop,
    \* history: copies a target got, and what timed out
    copies, dropped

environment == <<pause, filled>>
library     == <<mutex, running, closed>>
connection  == <<run, connected>>
gearmand    == <<queue, arrived, assigned, owner>>
executions  == <<pc, item, todo>>
handling    == <<handler, toCheck, waitFor, paused>>
history     == <<copies, dropped>>
vars == <<environment, library, connection, gearmand, executions, handling, stop, history>>

-----------------------------------------------------------------------------
TypeOK ==
    /\ pause \in BOOLEAN /\ filled \in [Targets -> 0..QueueCap]
    /\ mutex \in {"free", "load", "pause"} /\ running \in BOOLEAN /\ closed \in BOOLEAN
    /\ run \in {"add", "ready", "sleep", "returned"} /\ connected \in BOOLEAN
    /\ queue \subseteq arrived /\ arrived \subseteq Jobs
    /\ assigned \in [Jobs -> 0..MaxAssign] /\ \A j \in Jobs : owner[j] \in 0..assigned[j]
    /\ pc \in [Execs -> {"none", "next", "deliver", "answer", "done"}]
    /\ item \in [Execs -> Nat] /\ todo \in [Execs -> SUBSET Targets]
    /\ handler \in [Handlers -> {"check", "select", "lock", "locked", "ack", "stopped"}]
    /\ waitFor \subseteq toCheck /\ toCheck \subseteq Targets /\ paused \in BOOLEAN
    /\ stop \in {"none", "close", "send", "wait", "done"}
    /\ copies \in [Deliveries -> Nat] /\ dropped \subseteq Deliveries

Init ==
    /\ pause \in BOOLEAN /\ filled = [t \in Targets |-> 0]
    /\ mutex = "free" /\ running = FALSE /\ closed = FALSE
    /\ run = "add" /\ connected = FALSE
    /\ queue = {} /\ arrived = {}
    /\ assigned = [j \in Jobs |-> 0] /\ owner = [j \in Jobs |-> 0]
    /\ pc = [e \in Execs |-> "none"]
    /\ item = [e \in Execs |-> 0] /\ todo = [e \in Execs |-> {}]
    /\ handler = [h \in Handlers |-> IF h = "load" THEN "check" ELSE "select"]
    /\ toCheck = Targets /\ waitFor = {} /\ paused = FALSE
    /\ stop = "none"
    /\ copies = [d \in Deliveries |-> 0] /\ dropped = {}

-----------------------------------------------------------------------------
(* The targets and the other collectors                                    *)

ChangePause ==
    /\ pause' = ~pause
    /\ UNCHANGED <<filled, library, connection, gearmand, executions, handling, stop, history>>

Consume(t) ==
    /\ filled[t] > 0
    /\ filled' = [filled EXCEPT ![t] = @ - 1]
    /\ UNCHANGED <<pause, library, connection, gearmand, executions, handling, stop, history>>

(* Another collector feeds the channel.                                    *)
Fill(t) ==
    /\ filled[t] < QueueCap
    /\ filled' = [filled EXCEPT ![t] = @ + 1]
    /\ UNCHANGED <<pause, library, connection, gearmand, executions, handling, stop, history>>

-----------------------------------------------------------------------------
(* GearmanWorker.run and the connection                                    *)

(* worker.AddFunc takes the mutex for a moment.                            *)
AddFunc ==
    /\ run = "add" /\ mutex = "free"
    /\ run' = "ready"
    /\ UNCHANGED <<environment, library, connected, gearmand, executions, handling, stop, history>>

(* worker.Ready connects, and Work sets running.                           *)
Ready ==
    /\ run = "ready"
    /\ run' = "returned" /\ connected' = TRUE /\ running' = TRUE
    /\ UNCHANGED <<environment, mutex, closed, gearmand, executions, handling, stop, history>>

(* No connection: the next attempt is in 30 seconds.                       *)
ReadyFails ==
    /\ run = "ready"
    /\ run' = "sleep"
    /\ UNCHANGED <<environment, library, connected, gearmand, executions, handling, stop, history>>

Retry ==
    /\ run = "sleep"
    /\ run' = "add"
    /\ UNCHANGED <<environment, library, connected, gearmand, executions, handling, stop, history>>

Run == AddFunc \/ Ready \/ ReadyFails \/ Retry

NoOwner == owner' = [j \in Jobs |-> 0]

(* The connection breaks, or its reader panics on the closed channel: the  *)
(* ErrorHandler runs run again, and gearmand takes its jobs back.          *)
ConnectionLost ==
    /\ connected
    /\ connected' = FALSE /\ run' = "add"
    /\ NoOwner
    /\ UNCHANGED <<environment, library, queue, arrived, assigned, executions, handling, stop, history>>

-----------------------------------------------------------------------------
(* Jobs: gearmand, Worker.exec of the library, and handelJob               *)

Submit(j) ==
    /\ j \notin arrived
    /\ queue' = queue \cup {j} /\ arrived' = arrived \cup {j}
    /\ UNCHANGED <<environment, library, connection, assigned, owner, executions, handling, stop, history>>

(* The library takes a job, whoever holds the mutex, and executes it in a  *)
(* goroutine of its own.                                                   *)
Assign(j) ==
    /\ connected /\ ~closed
    /\ j \in queue /\ owner[j] = 0 /\ assigned[j] < MaxAssign
    /\ assigned' = [assigned EXCEPT ![j] = @ + 1]
    /\ owner' = [owner EXCEPT ![j] = assigned[j] + 1]
    /\ pc' = [pc EXCEPT ![<<j, assigned[j] + 1>>] = "next"]
    /\ UNCHANGED <<environment, library, connection, queue, arrived, item, todo, handling, stop, history>>

(* What is left of the job e executes.                                     *)
Unread(e) == item[e] < Items[e[1]] /\ Targets # {}

NextItem(e) ==
    /\ pc[e] = "next" /\ Unread(e)
    /\ item' = [item EXCEPT ![e] = @ + 1]
    /\ todo' = [todo EXCEPT ![e] = Targets]
    /\ pc' = [pc EXCEPT ![e] = "deliver"]
    /\ UNCHANGED <<environment, library, connection, gearmand, handling, stop, history>>

(* The loop over the results has done target t.                            *)
Done(e, t) ==
    /\ todo' = [todo EXCEPT ![e] = @ \ {t}]
    /\ pc' = [pc EXCEPT ![e] = IF todo[e] = {t} THEN "next" ELSE "deliver"]
    /\ UNCHANGED item

(* Slip: the channel takes any number of results.                          *)
DeliverIntoFull(e, t) ==
    /\ pc[e] = "deliver" /\ t \in todo[e]
    /\ filled' = [filled EXCEPT ![t] = @ + 1]
    /\ copies' = [copies EXCEPT ![<<e[1], item[e], t>>] = @ + 1]
    /\ Done(e, t)
    /\ UNCHANGED <<pause, library, connection, gearmand, handling, stop, dropped>>

(* case r <- singlePerfdata                                                *)
Deliver(e, t) ==
    /\ pc[e] = "deliver" /\ t \in todo[e] /\ filled[t] < QueueCap
    /\ filled' = [filled EXCEPT ![t] = @ + 1]
    /\ copies' = [copies EXCEPT ![<<e[1], item[e], t>>] = @ + 1]
    /\ Done(e, t)
    /\ UNCHANGED <<pause, library, connection, gearmand, handling, stop, dropped>>

(* case <-time.After(1 minute): this target does not get it.               *)
Drop(e, t) ==
    /\ pc[e] = "deliver" /\ t \in todo[e] /\ filled[t] = QueueCap
    /\ dropped' = dropped \cup {<<e[1], item[e], t>>}
    /\ Done(e, t)
    /\ UNCHANGED <<environment, library, connection, gearmand, handling, stop, copies>>

(* Slip: the job is answered before all of it is delivered.                *)
ReturnEarly(e) ==
    /\ pc[e] = "next"
    /\ pc' = [pc EXCEPT ![e] = "answer"]
    /\ UNCHANGED <<environment, library, connection, gearmand, item, todo, handling, stop, history>>

(* return job.Data(), nil                                                  *)
Return(e) ==
    /\ pc[e] = "next" /\ ~Unread(e)
    /\ pc' = [pc EXCEPT ![e] = "answer"]
    /\ UNCHANGED <<environment, library, connection, gearmand, item, todo, handling, stop, history>>

(* Worker.exec answers if the worker is running; gearmand removes the job  *)
(* if it waits for this execution.                                         *)
Answer(e) ==
    /\ pc[e] = "answer"
    /\ pc' = [pc EXCEPT ![e] = "done"]
    /\ queue' = IF running /\ connected /\ owner[e[1]] = e[2] THEN queue \ {e[1]} ELSE queue
    /\ UNCHANGED <<environment, library, connection, arrived, assigned, owner, item, todo, handling, stop, history>>

Execute(e) ==
    \/ NextItem(e) \/ Return(e) \/ Answer(e)
    \/ \E t \in Targets : Deliver(e, t) \/ Drop(e, t)

-----------------------------------------------------------------------------
(* handleLoad and handlePause                                              *)

Goto(h, l) == handler' = [handler EXCEPT ![h] = l]

bufferLimit == (QueueCap * 9) \div 10

(* for _, r := range g.results: this one has room.                         *)
CheckTarget(t) ==
    /\ handler["load"] = "check" /\ t \in toCheck /\ filled[t] <= bufferLimit
    /\ toCheck' = toCheck \ {t}
    /\ UNCHANGED <<environment, library, connection, gearmand, executions, handler, waitFor, paused, stop, history>>

(* if len(r) > bufferLimit                                                 *)
TargetIsLoaded(t) ==
    /\ handler["load"] = "check" /\ t \in toCheck /\ filled[t] > bufferLimit
    /\ waitFor' = {t}
    /\ Goto("load", "lock")
    /\ UNCHANGED <<environment, library, connection, gearmand, executions, toCheck, paused, stop, history>>

Lock(h) ==
    /\ handler[h] = "lock" /\ mutex = "free"
    /\ mutex' = h
    /\ UNCHANGED <<environment, running, closed, connection, gearmand, executions, toCheck, waitFor, stop, history>>

LoadLocks == Lock("load") /\ Goto("load", "locked") /\ UNCHANGED paused

(* Slip: no Unlock behind the inner loop.                                  *)
LoadKeepsLock ==
    /\ handler["load"] = "locked" /\ \A t \in waitFor : filled[t] <= bufferLimit
    /\ toCheck' = toCheck \ waitFor /\ waitFor' = {}
    /\ Goto("load", "check")
    /\ UNCHANGED <<environment, library, connection, gearmand, executions, paused, stop, history>>

(* The inner loop ends.                                                    *)
LoadUnlocks ==
    /\ handler["load"] = "locked" /\ \A t \in waitFor : filled[t] <= bufferLimit
    /\ mutex' = "free"
    /\ toCheck' = toCheck \ waitFor /\ waitFor' = {}
    /\ Goto("load", "check")
    /\ UNCHANGED <<environment, running, closed, connection, gearmand, executions, paused, stop, history>>

EndOfCheck ==
    /\ handler["load"] = "check" /\ toCheck = {}
    /\ Goto("load", "select")
    /\ UNCHANGED <<environment, library, connection, gearmand, executions, toCheck, waitFor, paused, stop, history>>

(* case <-time.After(1 second)                                             *)
LoadTick ==
    /\ handler["load"] = "select"
    /\ toCheck' = Targets
    /\ Goto("load", "check")
    /\ UNCHANGED <<environment, library, connection, gearmand, executions, waitFor, paused, stop, history>>

(* handlePause finds a new globalPause.                                    *)
PauseBegins ==
    /\ handler["pause"] = "select" /\ pause /\ ~paused
    /\ Goto("pause", "lock")
    /\ UNCHANGED <<environment, library, connection, gearmand, executions, toCheck, waitFor, paused, stop, history>>

PauseLocks == Lock("pause") /\ Goto("pause", "select") /\ paused' = TRUE

(* Slip: pause keeps its old value.                                        *)
PauseEndsUnnoticed ==
    /\ handler["pause"] = "select" /\ ~pause /\ paused
    /\ mutex' = "free"
    /\ UNCHANGED <<environment, running, closed, connection, gearmand, executions, handling, stop, history>>

PauseEnds ==
    /\ handler["pause"] = "select" /\ ~pause /\ paused
    /\ mutex' = "free" /\ paused' = FALSE
    /\ UNCHANGED <<environment, running, closed, connection, gearmand, executions, handler, toCheck, waitFor, stop, history>>

HandleLoad ==
    \/ \E t \in Targets : CheckTarget(t) \/ TargetIsLoaded(t)
    \/ LoadUnlocks \/ EndOfCheck \/ LoadTick

HandlePause == PauseBegins \/ PauseEnds

-----------------------------------------------------------------------------
(* Stop; quit has no buffer, so a token goes from hand to hand.            *)

StopCalled ==
    /\ stop = "none"
    /\ stop' = "close"
    /\ UNCHANGED <<environment, library, connection, gearmand, executions, handling, history>>

(* worker.Close.  The reader of the connection takes the end of it for a   *)
(* disconnect if it looks before Close has cleared agent.conn.             *)
Close ==
    /\ stop = "close" /\ mutex = "free"
    /\ stop' = "send"
    /\ IF running THEN /\ running' = FALSE /\ closed' = TRUE /\ connected' = FALSE
                       /\ run' \in {run} \cup (IF connected THEN {"add"} ELSE {})
                       /\ NoOwner
                  ELSE UNCHANGED <<running, closed, connection, owner>>
    /\ UNCHANGED <<environment, mutex, queue, arrived, assigned, executions, handling, history>>

(* g.quit <- true reaches the select of handler h.                         *)
SendQuit(h) ==
    /\ stop = "send" /\ handler[h] = "select"
    /\ stop' = "wait"
    /\ Goto(h, "ack")
    /\ UNCHANGED <<environment, library, connection, gearmand, executions, toCheck, waitFor, paused, history>>

(* The handler's token reaches Stop.                                       *)
StopReturns(h) ==
    /\ stop = "wait" /\ handler[h] = "ack"
    /\ stop' = "done"
    /\ Goto(h, "stopped")
    /\ UNCHANGED <<environment, library, connection, gearmand, executions, toCheck, waitFor, paused, history>>

(* The handler's token reaches the select of the other one.                *)
PassToken(h, other) ==
    /\ handler[h] = "ack" /\ handler[other] = "select"
    /\ handler' = [handler EXCEPT ![h] = "stopped", ![other] = "ack"]
    /\ UNCHANGED <<environment, library, connection, gearmand, executions, toCheck, waitFor, paused, stop, history>>

Quit ==
    \/ \E h \in Handlers : SendQuit(h) \/ StopReturns(h)
    \/ \E h, other \in Handlers : PassToken(h, other)

Next ==
    \/ ChangePause
    \/ \E t \in Targets : Consume(t) \/ Fill(t)
    \/ Run \/ ConnectionLost
    \/ \E j \in Jobs : Submit(j) \/ Assign(j)
    \/ \E e \in Execs : Execute(e)
    \/ HandleLoad \/ LoadLocks \/ HandlePause \/ PauseLocks
    \/ StopCalled \/ Close \/ Quit

Spec == Init /\ [][Next]_vars

(* Goroutines run when they can; a mutex that is free again and again, and *)
(* a select that is ready again and again, do not pass anybody over.       *)
FairSpec ==
    /\ Spec
    /\ WF_vars(Run) /\ WF_vars(HandleLoad) /\ WF_vars(HandlePause) /\ \A e \in Execs : WF_vars(Execute(e))
    /\ SF_vars(LoadLocks) /\ SF_vars(PauseLocks) /\ SF_vars(Close)
    /\ SF_vars(Quit)

-----------------------------------------------------------------------------
(* Properties *)

(* d was put into its target's channel, or that was full for a minute.     *)
Settled(d) == d \in dropped \/ copies[d] > 0

(* The worker keeps the promise of an intake, with the jobs in gearmand's  *)
(* queue for the files: a job is answered only when all of it is settled.  *)
Promise == INSTANCE Intake
    WITH Files <- Jobs, folder <- queue, settled <- {d \in Deliveries : Settled(d)}

KeepsPromise == Promise!Spec

(* Unlock panics on a mutex that is not locked, and would let go of the    *)
(* other's lock: the handlers unlock what they have locked.                *)
LocksAreOwned ==
    /\ mutex = "load" <=> handler["load"] = "locked"
    /\ mutex = "pause" <=> paused

(* Stop returns if in the end no target pauses and the channels drain.     *)
Healthy == ~pause /\ \A t \in Targets : filled[t] <= bufferLimit
StopTerminates == <>[]Healthy => (stop = "close" ~> stop = "done")

=============================================================================
