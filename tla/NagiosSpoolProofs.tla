-------------------------- MODULE NagiosSpoolProofs --------------------------
(***************************************************************************)
(* Proofs about NagiosSpool for every number of workers, files and         *)
(* targets, every content of the files and all capacities; and about       *)
(* PerfData, the parser of the workers, for lines of any length.           *)
(***************************************************************************)
EXTENDS NagiosSpool, PerfData, FiniteSetTheorems, SequenceTheorems, TLAPS

-----------------------------------------------------------------------------
(* The inductive invariant *)

(* A worker with an open file: the file has been in the folder, and what   *)
(* the worker is at is in the file.                                        *)
Reader(w) ==
    /\ pc[w] \in {"open", "read", "deliver"} => current[w] \in Files
    /\ pc[w] \in {"read", "deliver"} =>
          current[w] \in arrived /\ item[w] <= Items[current[w]]
    /\ pc[w] = "deliver" => item[w] > 0
    /\ pc[w] \in {"idle", "open", "read"} => todo[w] = {}

Readers == \A w \in Workers : Reader(w)

(* Worker w has passed d in the file it reads.                             *)
Reads(w, d)  == pc[w] \in {"read", "deliver"} /\ current[w] = d[1]
Behind(w, d) == d[2] < item[w] \/ (d[2] = item[w] /\ d[3] \notin todo[w])

(* A file that is gone was delivered completely.                           *)
RemovedIsDelivered ==
    \A d \in Deliveries : d[1] \in arrived \ spool => Settled(d)

BehindIsSettled ==
    \A w \in Workers : \A d \in Deliveries : Reads(w, d) /\ Behind(w, d) => Settled(d)

(* What a worker that still runs has delivered is behind it in the file it *)
(* reads, or it is from a file that is gone.                               *)
DeliveredIsBehind ==
    \A w \in Workers : \A d \in Deliveries :
        delivered[w][d] > 0 /\ pc[w] \notin {"ack", "stopped"} =>
            IF Reads(w, d) THEN Behind(w, d) ELSE d[1] \in arrived \ spool

(* Stop has stopped the collector and the workers it has been at.          *)
Stopped ==
    /\ stop \in {"none", "collector", "collectorAck"} => toStop = Workers
    /\ stop = "collectorAck" => run = "ack"
    /\ stop \in {"next", "worker", "workerAck", "done"} =>
          run = "stopped" /\ \A w \in Workers \ toStop : pc[w] = "stopped"
    /\ stop \in {"worker", "workerAck"} => victim \in toStop
    /\ stop = "workerAck" => pc[victim] = "ack"
    /\ stop = "done" => toStop = {}

IndInv ==
    /\ TypeOK /\ Readers /\ Stopped
    /\ RemovedIsDelivered /\ BehindIsSettled
    /\ AtMostOncePerWorker /\ DeliveredIsBehind

-----------------------------------------------------------------------------
(* Type correctness *)

(* What a worker that delivers is at.                                      *)
LEMMA DeliveryOf ==
    ASSUME TypeOK, Readers, NEW w \in Workers, pc[w] = "deliver", NEW t \in Targets
    PROVE  <<current[w], item[w], t>> \in Deliveries
  <1>1. current[w] \in Files /\ item[w] \in 1..Items[current[w]] /\ Items[current[w]] \in 0..MaxItems
    BY FilesAssumption DEF TypeOK, Readers, Reader
  <1> QED BY <1>1, FilesAssumption DEF Deliveries

(* What counting a delivery changes.                                       *)
LEMMA CountUp ==
    ASSUME TypeOK, NEW w \in Workers, NEW d \in Deliveries,
           delivered' = [delivered EXCEPT ![w][d] = @ + 1]
    PROVE  /\ delivered' \in [Workers -> [Deliveries -> Nat]]
           /\ \A v \in Workers : \A e \in Deliveries :
                 delivered'[v][e] = IF v = w /\ e = d THEN delivered[v][e] + 1 ELSE delivered[v][e]
  <1>1. delivered \in [Workers -> [Deliveries -> Nat]]
    BY DEF TypeOK
  <1> QED BY <1>1

LEMMA TypeInit == Init => TypeOK
  BY WorkersAssumption, FilesAssumption, TargetsAssumption, CapsAssumption DEF Init, TypeOK

LEMMA TypeCollector ==
    ASSUME TypeOK, Collector \/ CollectorQuits
    PROVE  TypeOK'
  <1> USE DEF TypeOK, folder, lister, reader, stopping, history
  <1>1. CASE Tick
    BY <1>1 DEF Tick
  <1>2. CASE ReadDir
    BY <1>2 DEF ReadDir
  <1>3. CASE EndOfListing
    BY <1>3 DEF EndOfListing
  <1>4. ASSUME NEW f \in Files, EnqueueFile(f) PROVE TypeOK'
    <2>1. jobs' \in Seq(Files) /\ Len(jobs') <= JobsCap
      BY <1>4, AppendProperties, LenProperties, CapsAssumption DEF EnqueueFile
    <2> QED BY <1>4, <2>1 DEF EnqueueFile
  <1>5. ASSUME NEW f \in Files, SkipFile(f) PROVE TypeOK'
    BY <1>5 DEF SkipFile
  <1>6. CASE CollectorQuits
    BY <1>6 DEF CollectorQuits
  <1> QED BY <1>1, <1>2, <1>3, <1>4, <1>5, <1>6 DEF Collector

LEMMA TypeWorker ==
    ASSUME TypeOK, Readers, NEW w \in Workers, Worker(w) \/ WorkerQuits(w)
    PROVE  TypeOK'
  <1> USE DEF TypeOK, folder, lister, reader, stopping, history, Goto, Done
  <1>1. CASE TakeJob(w)
    <2>1. jobs' \in Seq(Files) /\ Len(jobs') <= JobsCap /\ Head(jobs) \in Files
      BY <1>1, HeadTailProperties, EmptySeq, CapsAssumption DEF TakeJob
    <2> QED BY <1>1, <2>1 DEF TakeJob
  <1>2. CASE OpenFile(w)
    <2>1. pc' \in [Workers -> {"idle", "open", "read", "deliver", "ack", "stopped"}]
      BY <1>2 DEF OpenFile
    <2>2. current' \in [Workers -> Files \cup {NoFile}]
      BY <1>2 DEF OpenFile
    <2>3. item' \in [Workers -> Nat]
      BY <1>2 DEF OpenFile
    <2> QED BY <1>2, <2>1, <2>2, <2>3 DEF OpenFile
  <1>3. CASE NextItem(w)
    BY <1>3 DEF NextItem
  <1>4. CASE RemoveFile(w)
    BY <1>4 DEF RemoveFile
  <1>5. ASSUME NEW t \in Targets, Deliver(w, t) PROVE TypeOK'
    <2>1. pc' \in [Workers -> {"idle", "open", "read", "deliver", "ack", "stopped"}]
      BY <1>5 DEF Deliver
    <2>2. filled' \in [Targets -> 0..QueueCap]
      BY <1>5, CapsAssumption DEF Deliver
    <2>3. delivered' \in [Workers -> [Deliveries -> Nat]]
      BY <1>5, DeliveryOf, CountUp DEF Deliver
    <2> QED BY <1>5, <2>1, <2>2, <2>3 DEF Deliver
  <1>6. ASSUME NEW t \in Targets, Drop(w, t) PROVE TypeOK'
    <2>1. <<current[w], item[w], t>> \in Deliveries
      BY <1>6, DeliveryOf DEF Drop
    <2> QED BY <1>6, <2>1 DEF Drop
  <1>7. CASE WorkerQuits(w)
    BY <1>7 DEF WorkerQuits
  <1> QED BY <1>1, <1>2, <1>3, <1>4, <1>5, <1>6, <1>7 DEF Worker

LEMMA TypeStop ==
    ASSUME TypeOK, Stop \/ StopCollector
    PROVE  TypeOK'
  <1> USE DEF TypeOK, folder, lister, reader, stopping, history
  <1>1. CASE CollectorAcks
    BY <1>1 DEF CollectorAcks
  <1>2. CASE StopReturns
    BY <1>2 DEF StopReturns
  <1>3. ASSUME NEW w \in Workers, StopWorker(w) PROVE TypeOK'
    BY <1>3 DEF StopWorker
  <1>4. ASSUME NEW w \in Workers, WorkerAcks(w) PROVE TypeOK'
    BY <1>4 DEF WorkerAcks, Goto
  <1>5. CASE StopCollector
    BY <1>5 DEF StopCollector
  <1> QED BY <1>1, <1>2, <1>3, <1>4, <1>5 DEF Stop

LEMMA TypeNext ==
    ASSUME TypeOK, Readers, [Next]_vars
    PROVE  TypeOK'
  <1>1. ASSUME NEW f \in Files, Arrive(f) PROVE TypeOK'
    BY <1>1 DEF TypeOK, Arrive, lister, reader, stopping, history
  <1>2. CASE ChangePause
    BY <1>2 DEF TypeOK, ChangePause, lister, reader, stopping, history
  <1>3. ASSUME NEW t \in Targets, Consume(t) PROVE TypeOK'
    BY <1>3, CapsAssumption DEF TypeOK, Consume, folder, lister, reader, stopping, history
  <1>4. CASE UNCHANGED vars
    BY <1>4 DEF TypeOK, vars, folder, lister, reader, stopping, history
  <1> QED BY <1>1, <1>2, <1>3, <1>4, TypeCollector, TypeWorker, TypeStop DEF Next

-----------------------------------------------------------------------------
(* The workers and Stop *)

(* The steps that neither the folder nor a worker takes part in.           *)
LEMMA Aside ==
    ASSUME Next
    PROVE  \/ \E f \in Files : Arrive(f)
           \/ \E w \in Workers : Worker(w) \/ WorkerQuits(w) \/ WorkerAcks(w)
           \/ UNCHANGED <<spool, arrived, reader, history>>
  <1>1. ChangePause => UNCHANGED <<spool, arrived, reader, history>>
    BY DEF ChangePause
  <1>2. ASSUME NEW t \in Targets, Consume(t) PROVE UNCHANGED <<spool, arrived, reader, history>>
    BY <1>2 DEF Consume, folder
  <1>3. Collector => UNCHANGED <<spool, arrived, reader, history>>
    BY DEF Collector, Tick, ReadDir, EndOfListing, EnqueueFile, SkipFile, folder
  <1>4. CollectorQuits \/ StopCollector => UNCHANGED <<spool, arrived, reader, history>>
    BY DEF CollectorQuits, StopCollector, folder
  <1>5. CollectorAcks \/ StopReturns => UNCHANGED <<spool, arrived, reader, history>>
    BY DEF CollectorAcks, StopReturns, folder
  <1>6. ASSUME NEW w \in Workers, StopWorker(w) PROVE UNCHANGED <<spool, arrived, reader, history>>
    BY <1>6 DEF StopWorker, folder
  <1> QED BY <1>1, <1>2, <1>3, <1>4, <1>5, <1>6 DEF Next, Stop

LEMMA ReadersInit == Init => Readers
  BY DEF Init, Readers, Reader

LEMMA ReadersNext ==
    ASSUME TypeOK, Readers, [Next]_vars
    PROVE  Readers'
  <1> USE DEF Readers, Reader
  <1>1. CASE UNCHANGED <<spool, arrived, reader, history>>
    BY <1>1 DEF reader
  <1>2. ASSUME NEW f \in Files, Arrive(f) PROVE Readers'
    BY <1>2 DEF Arrive, reader
  <1>3. ASSUME NEW w \in Workers, TakeJob(w) PROVE Readers'
    <2>1. Head(jobs) \in Files
      BY <1>3, HeadTailProperties, EmptySeq DEF TypeOK, TakeJob
    <2> QED BY <1>3, <2>1 DEF TypeOK, TakeJob, Goto, folder
  <1>4. ASSUME NEW w \in Workers, OpenFile(w) PROVE Readers'
    <2>1. current[w] \in Files /\ Items[current[w]] \in Nat
      BY <1>4, FilesAssumption DEF OpenFile
    <2>2. UNCHANGED <<arrived, todo>>
      BY <1>4 DEF OpenFile, folder
    <2>3. CASE current[w] \in spool
      BY <1>4, <2>1, <2>2, <2>3 DEF TypeOK, OpenFile, Goto
    <2>4. CASE current[w] \notin spool
      BY <1>4, <2>2, <2>4 DEF TypeOK, OpenFile, Goto
    <2> QED BY <2>3, <2>4
  <1>5. ASSUME NEW w \in Workers, NextItem(w) PROVE Readers'
    <2>1. current[w] \in Files /\ Items[current[w]] \in Nat
      BY <1>5, FilesAssumption DEF NextItem
    <2> QED BY <1>5, <2>1 DEF TypeOK, NextItem, Goto, folder
  <1>6. ASSUME NEW w \in Workers, RemoveFile(w) PROVE Readers'
    BY <1>6 DEF TypeOK, RemoveFile, Goto
  <1>7. ASSUME NEW w \in Workers, NEW t \in Targets, Deliver(w, t) \/ Drop(w, t) PROVE Readers'
    <2>1. pc[w] = "deliver" /\ UNCHANGED <<arrived, current, item>> /\ Done(w, t)
      BY <1>7 DEF Deliver, Drop, folder
    <2> QED BY <2>1 DEF TypeOK, Done, Goto
  <1>8. ASSUME NEW w \in Workers, WorkerQuits(w) \/ WorkerAcks(w) PROVE Readers'
    BY <1>8 DEF TypeOK, WorkerQuits, WorkerAcks, Goto, folder
  <1>9. CASE UNCHANGED vars
    BY <1>1, <1>9 DEF vars, folder
  <1> QED BY <1>1, <1>2, <1>3, <1>4, <1>5, <1>6, <1>7, <1>8, <1>9, Aside DEF Worker

LEMMA StoppedInit == Init => Stopped
  BY DEF Init, Stopped

LEMMA StoppedNext ==
    ASSUME TypeOK, Stopped, [Next]_vars
    PROVE  Stopped'
  <1> USE DEF Stopped
  <1>2. CASE Collector
    <2>1. run # "stopped" /\ run # "ack" /\ UNCHANGED <<pc, stop, toStop, victim>>
      BY <1>2 DEF Collector, Tick, ReadDir, EndOfListing, EnqueueFile, SkipFile, reader, stopping
    <2> QED BY <2>1
  <1>3. CASE CollectorQuits
    BY <1>3 DEF CollectorQuits, reader
  <1>4. ASSUME NEW w \in Workers, Worker(w) PROVE Stopped'
    <2>1. /\ pc[w] \notin {"ack", "stopped"} /\ \A v \in Workers \ {w} : pc'[v] = pc[v]
          /\ UNCHANGED <<run, stop, toStop, victim>>
      BY <1>4 DEF TypeOK, Worker, TakeJob, OpenFile, NextItem, RemoveFile, Deliver, Drop, Done, Goto, lister, stopping
    <2>2. w \in toStop \/ stop \notin {"next", "worker", "workerAck", "done"}
      BY <2>1
    <2>3. ~(stop = "workerAck" /\ victim = w)
      BY <2>1
    <2> QED BY <2>1, <2>2, <2>3 DEF TypeOK
  <1>5. ASSUME NEW w \in Workers, WorkerQuits(w) PROVE Stopped'
    BY <1>5 DEF TypeOK, WorkerQuits, Goto, lister
  <1>6. ASSUME NEW w \in Workers, WorkerAcks(w) PROVE Stopped'
    BY <1>6 DEF TypeOK, WorkerAcks, Goto, lister
  <1>7. CASE CollectorAcks
    <2>1. stop = "collectorAck" /\ run' = "stopped" /\ stop' = "next" /\ UNCHANGED <<pc, toStop>>
      BY <1>7 DEF CollectorAcks, reader
    <2>2. \A w \in Workers \ toStop' : pc'[w] = "stopped"
      BY <2>1
    <2> QED BY <2>1, <2>2
  <1>8. CASE StopReturns
    BY <1>8 DEF StopReturns, lister, reader
  <1>9. ASSUME NEW w \in Workers, StopWorker(w) PROVE Stopped'
    BY <1>9 DEF StopWorker, lister, reader
  <1>10. CASE StopCollector
    BY <1>10 DEF StopCollector, lister, reader
  <1>11. ASSUME NEW f \in Files, Arrive(f) PROVE Stopped'
    BY <1>11 DEF Arrive, lister, reader, stopping
  <1>12. CASE ChangePause
    BY <1>12 DEF ChangePause, lister, reader, stopping
  <1>13. ASSUME NEW t \in Targets, Consume(t) PROVE Stopped'
    BY <1>13 DEF Consume, lister, reader, stopping
  <1>14. CASE UNCHANGED vars
    BY <1>14 DEF vars, lister, reader, stopping
  <1> QED BY <1>2, <1>3, <1>4, <1>5, <1>6, <1>7, <1>8, <1>9, <1>10, <1>11, <1>12, <1>13, <1>14 DEF Next, Stop

-----------------------------------------------------------------------------
(* Deliveries *)

(* What was delivered or dropped stays so.                                 *)
LEMMA SettledStays ==
    ASSUME TypeOK, Readers, [Next]_vars, NEW d \in Deliveries
    PROVE  Settled(d) => Settled(d)'
  <1> USE DEF Settled
  <1>1. CASE UNCHANGED history
    BY <1>1 DEF history
  <1>2. ASSUME NEW w \in Workers, NEW t \in Targets, Deliver(w, t) PROVE Settled(d) => Settled(d)'
    <2>1. <<current[w], item[w], t>> \in Deliveries
      BY <1>2, DeliveryOf DEF Deliver
    <2>2. \A v \in Workers : delivered[v][d] > 0 => delivered'[v][d] > 0
      BY <1>2, <2>1, CountUp DEF TypeOK, Deliver
    <2> QED BY <1>2, <2>2 DEF Deliver
  <1>3. ASSUME NEW w \in Workers, NEW t \in Targets, Drop(w, t) PROVE Settled(d) => Settled(d)'
    BY <1>3 DEF Drop
  <1>4. ASSUME NEW w \in Workers,
               TakeJob(w) \/ OpenFile(w) \/ NextItem(w) \/ RemoveFile(w) \/ WorkerQuits(w) \/ WorkerAcks(w)
        PROVE  UNCHANGED history
    BY <1>4 DEF TakeJob, OpenFile, NextItem, RemoveFile, WorkerQuits, WorkerAcks
  <1>5. ASSUME NEW f \in Files, Arrive(f) PROVE UNCHANGED history
    BY <1>5 DEF Arrive
  <1> QED BY <1>1, <1>2, <1>3, <1>4, <1>5, Aside DEF Worker, vars

LEMMA BehindNext ==
    ASSUME TypeOK, Readers, BehindIsSettled, [Next]_vars
    PROVE  BehindIsSettled'
  <1> SUFFICES ASSUME NEW v \in Workers, NEW d \in Deliveries, Reads(v, d)', Behind(v, d)'
               PROVE  Settled(d)'
    BY DEF BehindIsSettled, Deliveries
  <1>1. Settled(d) => Settled(d)'
    BY SettledStays
  <1>2. Reads(v, d) /\ Behind(v, d) => Settled(d)
    BY DEF BehindIsSettled
  <1>3. d[1] \in Files /\ d[2] \in 1..MaxItems /\ d[3] \in Targets /\ MaxItems \in Nat
    BY FilesAssumption DEF Deliveries
  <1> USE DEF Reads, Behind
  <1>4. CASE UNCHANGED <<pc, current, item, todo>>
    BY <1>1, <1>2, <1>4
  <1>5. ASSUME NEW w \in Workers, TakeJob(w) PROVE Settled(d)'
    BY <1>1, <1>2, <1>5 DEF TypeOK, TakeJob, Goto
  <1>6. ASSUME NEW w \in Workers, OpenFile(w) PROVE Settled(d)'
    <2>1. v # w => UNCHANGED <<pc[v], current[v], item[v], todo[v]>>
      BY <1>6 DEF TypeOK, OpenFile, Goto
    <2>2. v = w => item'[v] = 0 /\ todo'[v] = todo[v] /\ todo[v] = {}
      BY <1>6 DEF TypeOK, OpenFile, Readers, Reader
    <2> QED BY <1>1, <1>2, <1>3, <2>1, <2>2
  <1>7. ASSUME NEW w \in Workers, NextItem(w) PROVE Settled(d)'
    <2>1. v # w => UNCHANGED <<pc[v], current[v], item[v], todo[v]>>
      BY <1>7 DEF TypeOK, NextItem, Goto
    <2>2. v = w => /\ item[v] \in Nat /\ item'[v] = item[v] + 1 /\ todo'[v] = Targets
                   /\ pc[v] = "read" /\ todo[v] = {} /\ current'[v] = current[v]
      BY <1>7 DEF TypeOK, NextItem, Readers, Reader
    <2>3. v = w => d[2] < item[v] \/ d[2] = item[v]
      BY <1>3, <2>2
    <2> QED BY <1>1, <1>2, <1>3, <2>1, <2>2, <2>3
  <1>8. ASSUME NEW w \in Workers, RemoveFile(w) PROVE Settled(d)'
    BY <1>1, <1>2, <1>8 DEF TypeOK, RemoveFile, Goto
  <1>9. ASSUME NEW w \in Workers, NEW t \in Targets, Deliver(w, t) \/ Drop(w, t) PROVE Settled(d)'
    <2>1. v # w => UNCHANGED <<pc[v], current[v], item[v], todo[v]>>
      BY <1>9 DEF TypeOK, Deliver, Drop, Done, Goto
    <2>2. v = w => /\ UNCHANGED <<current[v], item[v]>> /\ todo'[v] = todo[v] \ {t}
                   /\ pc[v] = "deliver"
      BY <1>9 DEF TypeOK, Deliver, Drop, Done, Goto
    <2>3. CASE d = <<current[w], item[w], t>>
      <3>1. CASE Drop(w, t)
        BY <2>3, <3>1 DEF Drop, Settled
      <3>2. CASE Deliver(w, t)
        <4>1. delivered'[w][d] = delivered[w][d] + 1 /\ delivered[w][d] \in Nat
          BY <2>3, <3>2, CountUp DEF Deliver, TypeOK
        <4> QED BY <4>1 DEF Settled
      <3> QED BY <1>9, <3>1, <3>2
    <2>4. CASE d # <<current[w], item[w], t>>
      <3>1. d = <<d[1], d[2], d[3]>>
        BY DEF Deliveries
      <3>2. v = w => Behind(v, d)
        BY <2>2, <2>4, <3>1
      <3> QED BY <1>1, <1>2, <2>1, <2>2, <3>2
    <2> QED BY <2>3, <2>4
  <1>10. ASSUME NEW w \in Workers, WorkerQuits(w) \/ WorkerAcks(w) PROVE Settled(d)'
    BY <1>1, <1>2, <1>10 DEF TypeOK, WorkerQuits, WorkerAcks, Goto
  <1>11. ASSUME NEW f \in Files, Arrive(f) PROVE Settled(d)'
    BY <1>4, <1>11 DEF Arrive, reader
  <1> QED BY <1>4, <1>5, <1>6, <1>7, <1>8, <1>9, <1>10, <1>11, Aside DEF Worker, vars, reader

LEMMA RemovedNext ==
    ASSUME TypeOK, Readers, BehindIsSettled, RemovedIsDelivered, [Next]_vars
    PROVE  RemovedIsDelivered'
  <1> SUFFICES ASSUME NEW d \in Deliveries, d[1] \in arrived' \ spool'
               PROVE  Settled(d)'
    BY DEF RemovedIsDelivered, Deliveries
  <1>1. Settled(d) => Settled(d)'
    BY SettledStays
  <1>2. d[1] \in arrived \ spool => Settled(d)
    BY DEF RemovedIsDelivered
  <1>3. CASE UNCHANGED <<spool, arrived>>
    BY <1>1, <1>2, <1>3
  <1>4. ASSUME NEW f \in Files, Arrive(f) PROVE Settled(d)'
    BY <1>1, <1>2, <1>4 DEF Arrive
  <1>5. ASSUME NEW w \in Workers, RemoveFile(w) PROVE Settled(d)'
    <2>1. arrived' = arrived /\ spool' = spool \ {current[w]}
      BY <1>5 DEF RemoveFile
    <2>2. CASE d[1] = current[w]
      <3>1. Reads(w, d) /\ todo[w] = {} /\ item[w] = Items[d[1]] /\ item[w] \in Nat
        BY <1>5, <2>2 DEF RemoveFile, Reads, Readers, Reader, TypeOK
      <3>2. d[2] <= item[w] /\ d[2] \in Nat
        BY <3>1 DEF Deliveries
      <3>3. Behind(w, d)
        BY <3>1, <3>2 DEF Behind
      <3> QED BY <1>1, <3>1, <3>3 DEF BehindIsSettled
    <2> QED BY <1>1, <1>2, <2>1, <2>2
  <1>6. ASSUME NEW w \in Workers, WorkerQuits(w) \/ WorkerAcks(w) PROVE Settled(d)'
    BY <1>3, <1>6 DEF WorkerQuits, WorkerAcks, folder
  <1>7. ASSUME NEW w \in Workers, TakeJob(w) \/ OpenFile(w) \/ NextItem(w) PROVE Settled(d)'
    BY <1>3, <1>7 DEF TakeJob, OpenFile, NextItem, folder
  <1>8. ASSUME NEW w \in Workers, NEW t \in Targets, Deliver(w, t) \/ Drop(w, t) PROVE Settled(d)'
    BY <1>3, <1>8 DEF Deliver, Drop, folder
  <1> QED BY <1>3, <1>4, <1>5, <1>6, <1>7, <1>8, Aside DEF Worker, vars, folder

(* A worker delivers only what it has not passed, thus not delivered yet.  *)
LEMMA OnceNext ==
    ASSUME TypeOK, Readers, DeliveredIsBehind, AtMostOncePerWorker, [Next]_vars
    PROVE  AtMostOncePerWorker'
  <1> USE DEF AtMostOncePerWorker
  <1>1. CASE UNCHANGED delivered
    BY <1>1 DEF Deliveries
  <1>2. ASSUME NEW w \in Workers, NEW t \in Targets, Deliver(w, t) PROVE AtMostOncePerWorker'
    <2> DEFINE d == <<current[w], item[w], t>>
    <2>1. d \in Deliveries /\ pc[w] = "deliver"
      BY <1>2, DeliveryOf DEF Deliver
    <2>2. Reads(w, d) /\ ~Behind(w, d)
      BY <1>2, <2>1 DEF Reads, Behind, Deliver, TypeOK
    <2>3. delivered' = [delivered EXCEPT ![w][d] = @ + 1]
      BY <1>2 DEF Deliver
    <2> HIDE DEF d
    <2>4. delivered[w][d] = 0
      <3>1. delivered[w][d] \in Nat
        BY <2>1 DEF TypeOK
      <3>2. ~(delivered[w][d] > 0)
        BY <2>1, <2>2 DEF DeliveredIsBehind
      <3> QED BY <3>1, <3>2
    <2>5. \A v \in Workers : \A e \in Deliveries :
             delivered'[v][e] = IF v = w /\ e = d THEN delivered[v][e] + 1 ELSE delivered[v][e]
      BY <2>1, <2>3, CountUp
    <2> QED BY <2>4, <2>5 DEF Deliveries
  <1>3. ASSUME NEW w \in Workers, NEW t \in Targets, Drop(w, t) PROVE UNCHANGED delivered
    BY <1>3 DEF Drop
  <1>4. ASSUME NEW w \in Workers,
               TakeJob(w) \/ OpenFile(w) \/ NextItem(w) \/ RemoveFile(w) \/ WorkerQuits(w) \/ WorkerAcks(w)
        PROVE  UNCHANGED delivered
    BY <1>4 DEF TakeJob, OpenFile, NextItem, RemoveFile, WorkerQuits, WorkerAcks, history
  <1>5. ASSUME NEW f \in Files, Arrive(f) PROVE UNCHANGED delivered
    BY <1>5 DEF Arrive, history
  <1> QED BY <1>1, <1>2, <1>3, <1>4, <1>5, Aside DEF Worker, vars, history

LEMMA DeliveredNext ==
    ASSUME TypeOK, Readers, DeliveredIsBehind, [Next]_vars
    PROVE  DeliveredIsBehind'
  <1> DEFINE Covered(v, d) == IF Reads(v, d) THEN Behind(v, d) ELSE d[1] \in arrived \ spool
  <1> SUFFICES ASSUME NEW v \in Workers, NEW d \in Deliveries,
                      delivered'[v][d] > 0, pc'[v] \notin {"ack", "stopped"}
               PROVE  Covered(v, d)'
    BY DEF DeliveredIsBehind, Deliveries
  <1>1. delivered[v][d] > 0 /\ pc[v] \notin {"ack", "stopped"} => Covered(v, d)
    BY DEF DeliveredIsBehind
  <1>2. d[1] \in Files /\ d[2] \in 1..MaxItems /\ d[3] \in Targets /\ MaxItems \in Nat
    BY FilesAssumption DEF Deliveries
  <1> USE DEF Reads, Behind
  <1>3. CASE UNCHANGED <<spool, arrived, reader, history>>
    BY <1>1, <1>3 DEF reader, history
  <1>4. ASSUME NEW f \in Files, Arrive(f) PROVE Covered(v, d)'
    <2>1. UNCHANGED <<pc, current, item, todo, delivered>>
      BY <1>4 DEF Arrive, reader, history
    <2>2. d[1] \in arrived \ spool => d[1] \in arrived' \ spool'
      BY <1>4 DEF Arrive
    <2> QED BY <1>1, <2>1, <2>2
  <1>5. ASSUME NEW w \in Workers, TakeJob(w) PROVE Covered(v, d)'
    BY <1>1, <1>5 DEF TypeOK, TakeJob, Goto, folder, history
  <1>6. ASSUME NEW w \in Workers, OpenFile(w) PROVE Covered(v, d)'
    <2>1. UNCHANGED <<spool, arrived, delivered>>
      BY <1>6 DEF OpenFile, folder, history
    <2>2. v # w => UNCHANGED <<pc[v], current[v], item[v], todo[v]>>
      BY <1>6 DEF TypeOK, OpenFile, Goto
    <2>3. v = w => pc[v] = "open" /\ ~(pc'[v] = "read" /\ current'[v] \notin spool) /\ pc'[v] # "deliver"
      BY <1>6 DEF TypeOK, OpenFile, Goto
    <2> QED BY <1>1, <2>1, <2>2, <2>3
  <1>7. ASSUME NEW w \in Workers, NextItem(w) PROVE Covered(v, d)'
    <2>1. UNCHANGED <<spool, arrived, delivered>>
      BY <1>7 DEF NextItem, folder, history
    <2>2. v # w => UNCHANGED <<pc[v], current[v], item[v], todo[v]>>
      BY <1>7 DEF TypeOK, NextItem, Goto
    <2>3. v = w => /\ item[v] \in Nat /\ item'[v] = item[v] + 1 /\ current'[v] = current[v]
                   /\ pc[v] = "read" /\ pc'[v] = "deliver"
      BY <1>7 DEF TypeOK, NextItem, Goto
    <2> QED BY <1>1, <1>2, <2>1, <2>2, <2>3
  <1>8. ASSUME NEW w \in Workers, RemoveFile(w) PROVE Covered(v, d)'
    <2>1. UNCHANGED <<arrived, delivered>> /\ spool' = spool \ {current[w]}
      BY <1>8 DEF RemoveFile, history
    <2>2. v # w => UNCHANGED <<pc[v], current[v], item[v], todo[v]>>
      BY <1>8 DEF TypeOK, RemoveFile, Goto
    <2>3. v = w => pc[v] = "read" /\ pc'[v] = "idle" /\ current[v] \in arrived
      BY <1>8 DEF TypeOK, RemoveFile, Goto, Readers, Reader
    <2> QED BY <1>1, <2>1, <2>2, <2>3
  <1>9. ASSUME NEW w \in Workers, NEW t \in Targets, Deliver(w, t) \/ Drop(w, t) PROVE Covered(v, d)'
    <2>1. UNCHANGED <<spool, arrived, current, item>>
      BY <1>9 DEF Deliver, Drop, folder
    <2>2. v # w => UNCHANGED <<pc[v], todo[v]>>
      BY <1>9 DEF TypeOK, Deliver, Drop, Done, Goto
    <2>3. v = w => todo'[v] = todo[v] \ {t} /\ pc[v] = "deliver" /\ pc'[v] \in {"read", "deliver"}
      BY <1>9 DEF TypeOK, Deliver, Drop, Done, Goto
    <2>4. delivered[v][d] > 0 \/ (v = w /\ d = <<current[w], item[w], t>>)
      <3>1. CASE Drop(w, t)
        BY <3>1 DEF Drop
      <3>2. CASE Deliver(w, t)
        <4>1. <<current[w], item[w], t>> \in Deliveries
          BY <3>2, DeliveryOf DEF Deliver
        <4> QED BY <3>2, <4>1, CountUp DEF Deliver
      <3> QED BY <1>9, <3>1, <3>2
    <2>5. CASE delivered[v][d] > 0
      BY <1>1, <2>1, <2>2, <2>3, <2>5
    <2>6. CASE v = w /\ d = <<current[w], item[w], t>>
      BY <2>1, <2>3, <2>6
    <2> QED BY <2>4, <2>5, <2>6
  <1>10. ASSUME NEW w \in Workers, WorkerQuits(w) PROVE Covered(v, d)'
    BY <1>1, <1>10 DEF TypeOK, WorkerQuits, Goto, folder, history
  <1>11. ASSUME NEW w \in Workers, WorkerAcks(w) PROVE Covered(v, d)'
    BY <1>1, <1>11 DEF TypeOK, WorkerAcks, Goto, folder, history
  <1> QED BY <1>3, <1>4, <1>5, <1>6, <1>7, <1>8, <1>9, <1>10, <1>11, Aside DEF Worker, vars, folder

-----------------------------------------------------------------------------
(* The promise of an intake *)

LEMMA PromiseInit == Init => Promise!Init
  BY DEF Init, Promise!Init, Settled

(* A step that settles nothing new.                                        *)
LEMMA PromiseStutter ==
    ASSUME TypeOK, UNCHANGED <<spool, arrived, history>>
    PROVE  UNCHANGED Promise!vars
  <1>1. \A d \in Deliveries : Settled(d)' <=> Settled(d)
    BY DEF Settled, history
  <1>2. Deliveries' = Deliveries
    BY DEF Deliveries
  <1> QED BY <1>1, <1>2 DEF Promise!vars

(* A delivery to target t, or its timeout: the file is still there or this *)
(* is not the first worker.                                                *)
LEMMA PromiseSettle ==
    ASSUME TypeOK, Readers, RemovedIsDelivered, NEW w \in Workers, NEW t \in Targets,
           Deliver(w, t) \/ Drop(w, t)
    PROVE  [Promise!Next]_Promise!vars
  <1> DEFINE d == <<current[w], item[w], t>>
             Before == {e \in Deliveries : Settled(e)}
             After  == {e \in Deliveries : Settled(e)'}
  <1>1. d \in Deliveries /\ d[1] \in arrived
    BY DeliveryOf DEF Deliver, Drop, Readers, Reader
  <1>2. UNCHANGED <<spool, arrived>>
    BY DEF Deliver, Drop, folder
  <1>3. \/ dropped' = dropped \cup {d} /\ delivered' = delivered
        \/ dropped' = dropped /\ delivered' = [delivered EXCEPT ![w][d] = @ + 1]
    BY DEF Deliver, Drop
  <1>4. d[1] \notin spool => Settled(d)
    BY <1>1 DEF RemovedIsDelivered
  <1> HIDE DEF d
  <1>5. \A e \in Deliveries : Settled(e)' <=> Settled(e) \/ e = d
    <2>1. CASE dropped' = dropped \cup {d} /\ delivered' = delivered
      BY <2>1 DEF Settled
    <2>2. CASE dropped' = dropped /\ delivered' = [delivered EXCEPT ![w][d] = @ + 1]
      <3>1. \A v \in Workers : \A e \in Deliveries :
               delivered'[v][e] = IF v = w /\ e = d THEN delivered[v][e] + 1 ELSE delivered[v][e]
        BY <1>1, <2>2, CountUp
      <3>2. \A v \in Workers : \A e \in Deliveries : delivered[v][e] \in Nat
        BY DEF TypeOK
      <3>3. \A e \in Deliveries : \A v \in Workers :
               delivered'[v][e] > 0 <=> delivered[v][e] > 0 \/ (v = w /\ e = d)
        BY <3>1, <3>2
      <3> QED BY <2>2, <3>3 DEF Settled
    <2> QED BY <1>3, <2>1, <2>2
  <1>6. After = Before \cup {d}
    BY <1>1, <1>5
  <1>7. {e \in Deliveries : Settled(e)}' = After
    BY DEF Deliveries
  <1>8. CASE d[1] \in spool
    BY <1>1, <1>2, <1>6, <1>7, <1>8 DEF Promise!Next, Promise!Settle
  <1>9. CASE d[1] \notin spool
    <2>1. After = Before
      BY <1>1, <1>4, <1>6, <1>9
    <2> QED BY <1>2, <1>7, <2>1 DEF Promise!vars
  <1> QED BY <1>8, <1>9

LEMMA PromiseRemove ==
    ASSUME TypeOK, Readers, BehindIsSettled, NEW w \in Workers, RemoveFile(w)
    PROVE  [Promise!Next]_Promise!vars
  <1>1. current[w] \in Files /\ spool' = spool \ {current[w]} /\ UNCHANGED <<arrived, history>>
    BY DEF RemoveFile, Readers, Reader
  <1>2. \A d \in Deliveries : Settled(d)' <=> Settled(d)
    BY <1>1 DEF Settled, history
  <1>3. {d \in Deliveries : Settled(d)}' = {d \in Deliveries : Settled(d)}
    BY <1>2 DEF Deliveries
  <1>4. ASSUME NEW d \in Deliveries, d[1] = current[w] PROVE Settled(d)
    <2>1. Reads(w, d) /\ todo[w] = {} /\ item[w] = Items[d[1]] /\ item[w] \in Nat
      BY <1>4 DEF RemoveFile, Reads, Readers, Reader, TypeOK
    <2>2. d[2] <= item[w] /\ d[2] \in Nat
      BY <2>1 DEF Deliveries
    <2> QED BY <2>1, <2>2 DEF Behind, BehindIsSettled
  <1>5. CASE current[w] \in spool
    BY <1>1, <1>3, <1>4, <1>5 DEF Promise!Next, Promise!Remove
  <1>6. CASE current[w] \notin spool
    BY <1>1, <1>3, <1>6 DEF Promise!vars
  <1> QED BY <1>5, <1>6

LEMMA PromiseNext ==
    ASSUME IndInv, [Next]_vars
    PROVE  [Promise!Next]_Promise!vars
  <1> USE DEF IndInv
  <1>1. CASE UNCHANGED <<spool, arrived, history>>
    BY <1>1, PromiseStutter
  <1>2. ASSUME NEW f \in Files, Arrive(f) PROVE [Promise!Next]_Promise!vars
    <2>1. \A d \in Deliveries : Settled(d)' <=> Settled(d)
      BY <1>2 DEF Arrive, Settled, history
    <2>2. {d \in Deliveries : Settled(d)}' = {d \in Deliveries : Settled(d)}
      BY <2>1 DEF Deliveries
    <2> QED BY <1>2, <2>2 DEF Arrive, Promise!Next, Promise!Arrive
  <1>3. ASSUME NEW w \in Workers, NEW t \in Targets, Deliver(w, t) \/ Drop(w, t)
        PROVE  [Promise!Next]_Promise!vars
    BY <1>3, PromiseSettle
  <1>4. ASSUME NEW w \in Workers, RemoveFile(w) PROVE [Promise!Next]_Promise!vars
    BY <1>4, PromiseRemove
  <1>5. ASSUME NEW w \in Workers,
               TakeJob(w) \/ OpenFile(w) \/ NextItem(w) \/ WorkerQuits(w) \/ WorkerAcks(w)
        PROVE  UNCHANGED <<spool, arrived, history>>
    BY <1>5 DEF TakeJob, OpenFile, NextItem, WorkerQuits, WorkerAcks, folder
  <1> QED BY <1>1, <1>2, <1>3, <1>4, <1>5, Aside DEF Worker, vars, folder

-----------------------------------------------------------------------------
(* The theorems *)

LEMMA IndInvInit == Init => IndInv
  <1> SUFFICES ASSUME Init PROVE IndInv
    OBVIOUS
  <1>1. TypeOK /\ Readers /\ Stopped
    BY TypeInit, ReadersInit, StoppedInit
  <1>2. RemovedIsDelivered
    BY DEF Init, RemovedIsDelivered
  <1>3. BehindIsSettled
    BY DEF Init, BehindIsSettled, Reads
  <1>4. AtMostOncePerWorker /\ DeliveredIsBehind
    BY DEF Init, AtMostOncePerWorker, DeliveredIsBehind
  <1> QED BY <1>1, <1>2, <1>3, <1>4 DEF IndInv

LEMMA IndInvNext == IndInv /\ [Next]_vars => IndInv'
  BY TypeNext, ReadersNext, StoppedNext, RemovedNext, BehindNext, OnceNext, DeliveredNext DEF IndInv

LEMMA Inductive == Spec => []IndInv
  BY IndInvInit, IndInvNext, PTL DEF Spec

(* Every variable keeps its type: the channels keep to their capacities.   *)
THEOREM TypeCorrect == Spec => []TypeOK
  BY Inductive, PTL DEF IndInv

(* However often NagiosSpoolfileCollector.run hands out the name of a      *)
(* file, no worker delivers a part of it twice to a target.                *)
THEOREM NoWorkerRepeatsItself == Spec => []AtMostOncePerWorker
  BY Inductive, PTL DEF IndInv

(* NagiosSpoolfileCollector.Stop returns only when nobody delivers or      *)
(* removes anything any more.                                              *)
THEOREM StopSilences == Spec => QuietAfterStop
  <1> DEFINE Quiet == stop = "done" => UNCHANGED <<delivered, dropped>> /\ spool \subseteq spool'
  <1>1. ASSUME IndInv, [Next]_vars PROVE Quiet
    <2> SUFFICES ASSUME stop = "done" PROVE UNCHANGED <<delivered, dropped>> /\ spool \subseteq spool'
      OBVIOUS
    <2>1. \A w \in Workers : pc[w] = "stopped"
      BY <1>1 DEF IndInv, Stopped
    <2>2. ASSUME NEW w \in Workers, Worker(w) \/ WorkerQuits(w) \/ WorkerAcks(w) PROVE FALSE
      BY <2>1, <2>2 DEF Worker, TakeJob, OpenFile, NextItem, RemoveFile, Deliver, Drop, WorkerQuits, WorkerAcks
    <2>3. ASSUME NEW f \in Files, Arrive(f) PROVE UNCHANGED <<delivered, dropped>> /\ spool \subseteq spool'
      BY <2>3 DEF Arrive, history
    <2> QED BY <1>1, <2>2, <2>3, Aside DEF vars, folder, history
  <1> QED BY <1>1, Inductive, PTL DEF Spec, QuietAfterStop

(* The collector and its workers keep the promise of an intake: a file     *)
(* that NagiosSpoolfileWorker.run has removed was delivered to every       *)
(* target, apart from what timed out, however many workers race for it and *)
(* whenever Stop interrupts them.                                          *)
THEOREM Refinement == Spec => KeepsPromise
  BY Inductive, PromiseInit, PromiseNext, PTL DEF Spec, KeepsPromise, Promise!Spec

-----------------------------------------------------------------------------
(* The parser: the inductive invariant *)

(* The parser is in the line or at its end.                                *)
Position ==
    /\ line \in Lines
    /\ next \in 1..(Len(line.items) + 1)
    /\ \E S : out \in Seq(S)

(* If the line starts with a prefix, the parser has the nearest one at or  *)
(* before the last item it has seen, and none otherwise.                   *)
PrefixIsNearest ==
    IF line.items = <<>> \/ line.items[1].prefix = NoPrefix THEN prefix = NoPrefix
    ELSE \E k \in 1..Len(line.items) :
            /\ k = 1 \/ k < next
            /\ line.items[k].prefix = prefix /\ prefix # NoPrefix
            /\ \A j \in (k + 1)..(next - 1) : line.items[j].prefix = NoPrefix

(* The well-formed items that the loop has passed, and their records.      *)
Sent == {n \in WellFormed : n < next}

SentIsExact ==
    IF line.known
      THEN /\ Len(out) = Cardinality(Sent)
           /\ \A n \in Sent :
                 /\ out[Rank(n)].label = line.items[n].label
                 /\ out[Rank(n)].prefix = ExpectedPrefix(n)
      ELSE out = <<>>

ParserInv == Position /\ PrefixIsNearest /\ SentIsExact

-----------------------------------------------------------------------------
(* The parser: lines and prefixes *)

LEMMA LineTypes ==
    ASSUME line \in Lines
    PROVE  /\ line.items \in Seq(PerfItems) /\ Len(line.items) \in Nat
           /\ DOMAIN line.items = 1..Len(line.items)
           /\ WellFormed = {n \in 1..Len(line.items) : ~Malformed(line.items[n])}
  <1>1. line.items \in BoundedSeq(PerfItems, MaxPerfItems)
    BY DEF Lines
  <1>2. line.items \in Seq(PerfItems)
    BY <1>1, MaxPerfItemsAssumption DEF BoundedSeq, SeqOf
  <1>3. Len(line.items) \in Nat /\ DOMAIN line.items = 1..Len(line.items)
    BY <1>2, LenProperties
  <1> QED BY <1>2, <1>3 DEF WellFormed

(* Max finds the nearest prefix.                                           *)
LEMMA NearestPrefix ==
    ASSUME NEW n \in Nat, NEW k \in 1..n, line.items[k].prefix # NoPrefix,
           \A j \in (k + 1)..n : line.items[j].prefix = NoPrefix
    PROVE  Max({j \in 1..n : line.items[j].prefix # NoPrefix}) = k
  <1> DEFINE S == {j \in 1..n : line.items[j].prefix # NoPrefix}
  <1>1. k \in S /\ \A j \in S : k >= j
    OBVIOUS
  <1>2. \A x \in S : (\A y \in S : x >= y) => x = k
    BY <1>1
  <1> HIDE DEF S
  <1>3. Max(S) = k
    BY <1>1, <1>2 DEF Max
  <1> QED BY <1>3 DEF S

(* The label of the next record gets the prefix the check meant.           *)
LEMMA NextPrefix ==
    ASSUME Position, PrefixIsNearest, next <= Len(line.items)
    PROVE  (IF line.items[next].prefix = NoPrefix THEN prefix ELSE line.items[next].prefix)
             = ExpectedPrefix(next)
  <1> DEFINE S == {j \in 1..next : line.items[j].prefix # NoPrefix}
  <1>0. Len(line.items) \in Nat /\ next \in Nat \ {0} /\ line.items # <<>>
    BY LineTypes, EmptySeq DEF Position
  <1>1. CASE line.items[1].prefix = NoPrefix
    BY <1>0, <1>1 DEF PrefixIsNearest, ExpectedPrefix
  <1>2. CASE line.items[1].prefix # NoPrefix
    <2>1. ExpectedPrefix(next) = line.items[Max(S)].prefix
      BY <1>2 DEF ExpectedPrefix
    <2>2. CASE line.items[next].prefix # NoPrefix
      <3>1. Max(S) = next
        BY <1>0, <2>2, NearestPrefix
      <3> QED BY <2>1, <2>2, <3>1
    <2>3. CASE line.items[next].prefix = NoPrefix
      <3>1. PICK k \in 1..Len(line.items) :
                /\ k = 1 \/ k < next
                /\ line.items[k].prefix = prefix /\ prefix # NoPrefix
                /\ \A j \in (k + 1)..(next - 1) : line.items[j].prefix = NoPrefix
        BY <1>0, <1>2 DEF PrefixIsNearest
      <3>2. k \in 1..next /\ \A j \in (k + 1)..next : line.items[j].prefix = NoPrefix
        BY <1>0, <2>3, <3>1
      <3>3. Max(S) = k
        BY <1>0, <3>1, <3>2, NearestPrefix
      <3> QED BY <2>1, <2>3, <3>1, <3>3
    <2> QED BY <2>2, <2>3
  <1> QED BY <1>1, <1>2

LEMMA PrefixStep ==
    ASSUME Position, PrefixIsNearest, NextPerfItem
    PROVE  PrefixIsNearest'
  <1>0. /\ Len(line.items) \in Nat /\ next \in 1..Len(line.items) /\ line.items # <<>>
        /\ line' = line /\ next' = next + 1
        /\ prefix' = NewPrefix(line.items[next])
    BY LineTypes, EmptySeq DEF Position, NextPerfItem
  <1>1. CASE line.items[1].prefix = NoPrefix
    BY <1>0, <1>1 DEF PrefixIsNearest, NewPrefix
  <1>2. CASE line.items[1].prefix # NoPrefix
    <2>1. PICK k \in 1..Len(line.items) :
              /\ k = 1 \/ k < next
              /\ line.items[k].prefix = prefix /\ prefix # NoPrefix
              /\ \A j \in (k + 1)..(next - 1) : line.items[j].prefix = NoPrefix
      BY <1>0, <1>2 DEF PrefixIsNearest
    <2>2. CASE line.items[next].prefix = NoPrefix
      <3>1. prefix' = prefix /\ (k = 1 \/ k < next')
        BY <1>0, <2>1, <2>2 DEF NewPrefix
      <3>2. \A j \in (k + 1)..(next' - 1) : line.items[j].prefix = NoPrefix
        BY <1>0, <2>1, <2>2
      <3> QED BY <1>0, <1>2, <2>1, <3>1, <3>2 DEF PrefixIsNearest
    <2>3. CASE line.items[next].prefix # NoPrefix
      <3>1. prefix' = line.items[next].prefix /\ next < next'
        BY <1>0, <2>1, <2>3 DEF NewPrefix
      <3>2. (next + 1)..(next' - 1) = {}
        BY <1>0
      <3> QED BY <1>0, <1>2, <2>3, <3>1, <3>2 DEF PrefixIsNearest
    <2> QED BY <2>2, <2>3
  <1> QED BY <1>1, <1>2

-----------------------------------------------------------------------------
(* The parser: the records *)

(* A well-formed item adds its record to the channel, and takes the place  *)
(* behind all well-formed items before it.                                 *)
LEMMA SentStep ==
    ASSUME Position, PrefixIsNearest, SentIsExact, NextPerfItem
    PROVE  SentIsExact'
  <1> DEFINE i == line.items[next]
  <1>0. /\ Len(line.items) \in Nat /\ next \in 1..Len(line.items) /\ line.known
        /\ line' = line /\ next' = next + 1
        /\ WellFormed = {n \in 1..Len(line.items) : ~Malformed(line.items[n])}
    BY LineTypes DEF Position, NextPerfItem
  <1>1. /\ Len(out) = Cardinality(Sent)
        /\ \A n \in Sent : /\ out[Rank(n)].label = line.items[n].label
                           /\ out[Rank(n)].prefix = ExpectedPrefix(n)
    BY <1>0 DEF SentIsExact
  <1>2. WellFormed' = WellFormed /\ \A n : Rank(n)' = Rank(n) /\ ExpectedPrefix(n)' = ExpectedPrefix(n)
    BY <1>0 DEF WellFormed, Rank, ExpectedPrefix
  <1>3. IsFiniteSet(WellFormed)
    <2>1. IsFiniteSet(1..Len(line.items))
      BY <1>0, FS_Interval
    <2>2. WellFormed \subseteq 1..Len(line.items)
      BY <1>0
    <2> QED BY <2>1, <2>2, FS_Subset
  <1>4. IsFiniteSet(Sent) /\ Cardinality(Sent) \in Nat
    BY <1>3, FS_Subset, FS_CardinalityType DEF Sent
  <1>5. CASE Malformed(i)
    <2>1. Sent' = Sent
      BY <1>0, <1>2, <1>5 DEF Sent
    <2>2. out' = out
      BY <1>5 DEF NextPerfItem
    <2>3. \A n \in Sent : /\ out'[Rank(n)].label = line'.items[n].label
                          /\ out'[Rank(n)].prefix = ExpectedPrefix(n)
      BY <1>0, <1>1, <2>2
    <2> QED BY <1>0, <1>1, <1>2, <2>1, <2>2, <2>3 DEF SentIsExact
  <1>6. CASE ~Malformed(i)
    <2>1. Sent' = Sent \cup {next} /\ next \notin Sent
      BY <1>0, <1>2, <1>6 DEF Sent
    <2>2. out' = Append(out, Record(i))
      BY <1>6 DEF NextPerfItem
    <2>3. /\ Len(out) \in Nat /\ Len(out') = Len(out) + 1 /\ out'[Len(out) + 1] = Record(i)
          /\ \A m \in 1..Len(out) : out'[m] = out[m]
      <3>1. PICK S : out \in Seq(S)
        BY DEF Position
      <3>2. out \in Seq(S \cup {Record(i)})
        BY <3>1
      <3> QED BY <2>2, <3>2, AppendProperties, LenProperties
    <2>4. Len(out') = Cardinality(Sent')
      BY <1>1, <1>4, <2>1, <2>3, FS_AddElement
    <2>5. Rank(next) = Len(out) + 1
      <3>1. {m \in WellFormed : m <= next} = Sent \cup {next}
        BY <1>0, <1>6 DEF Sent
      <3> QED BY <1>1, <1>4, <2>1, <3>1, FS_AddElement DEF Rank
    <2>6. ASSUME NEW n \in Sent PROVE Rank(n) \in 1..Len(out)
      <3>1. {m \in WellFormed : m <= n} \subseteq Sent
        BY <1>0, <2>6 DEF Sent
      <3>2. n \in {m \in WellFormed : m <= n}
        BY <1>0, <2>6 DEF Sent
      <3>3. IsFiniteSet({m \in WellFormed : m <= n}) /\ Rank(n) <= Cardinality(Sent)
        BY <1>4, <3>1, FS_Subset DEF Rank
      <3>4. Rank(n) \in Nat /\ Rank(n) # 0
        BY <3>2, <3>3, FS_CardinalityType, FS_EmptySet DEF Rank
      <3> QED BY <1>1, <1>4, <3>3, <3>4
    <2>7. Record(i).label = i.label /\ Record(i).prefix = ExpectedPrefix(next)
      <3>1. ExpectedPrefix(next) = IF i.prefix = NoPrefix THEN prefix ELSE i.prefix
        BY <1>0, NextPrefix
      <3> QED BY <3>1 DEF Record
    <2>8. ASSUME NEW n \in Sent'
          PROVE  /\ out'[Rank(n)].label = line.items[n].label
                 /\ out'[Rank(n)].prefix = ExpectedPrefix(n)
      <3>1. CASE n = next
        BY <2>3, <2>5, <2>7, <3>1
      <3>2. CASE n \in Sent
        BY <1>1, <2>3, <2>6, <3>2
      <3> QED BY <2>1, <3>1, <3>2
    <2> QED BY <1>0, <1>2, <2>4, <2>8 DEF SentIsExact
  <1> QED BY <1>5, <1>6

-----------------------------------------------------------------------------
(* The parser: theorems *)

LEMMA ParserInvInit == ParserInit => ParserInv
  <1> SUFFICES ASSUME ParserInit PROVE ParserInv
    OBVIOUS
  <1>0. /\ line \in Lines /\ next = 1 /\ out = <<>>
        /\ prefix = IF line.items = <<>> THEN NoPrefix ELSE line.items[1].prefix
    BY DEF ParserInit
  <1>1. /\ line.items \in Seq(PerfItems) /\ Len(line.items) \in Nat
        /\ WellFormed = {n \in 1..Len(line.items) : ~Malformed(line.items[n])}
    BY <1>0, LineTypes
  <1>2. Position
    <2>1. <<>> \in Seq({})
      BY EmptySeq
    <2> QED BY <1>0, <1>1, <2>1 DEF Position
  <1>3. PrefixIsNearest
    <2>1. CASE line.items = <<>>
      BY <1>0, <2>1 DEF PrefixIsNearest
    <2>2. CASE line.items # <<>>
      <3>1. 1 \in 1..Len(line.items) /\ 2..0 = {}
        BY <1>1, <2>2, EmptySeq
      <3> QED BY <1>0, <2>2, <3>1 DEF PrefixIsNearest
    <2> QED BY <2>1, <2>2
  <1>4. SentIsExact
    <2>1. Sent = {}
      BY <1>0, <1>1 DEF Sent
    <2> QED BY <1>0, <2>1, FS_EmptySet DEF SentIsExact
  <1> QED BY <1>2, <1>3, <1>4 DEF ParserInv

LEMMA ParserInvNext == ParserInv /\ [ParserNext]_parserVars => ParserInv'
  <1> SUFFICES ASSUME ParserInv, [ParserNext]_parserVars PROVE ParserInv'
    OBVIOUS
  <1> USE DEF ParserInv
  <1>1. CASE NextPerfItem
    <2>1. Position'
      <3>1. Len(line.items) \in Nat /\ next \in 1..Len(line.items) /\ next' = next + 1
        BY <1>1, LineTypes DEF Position, NextPerfItem
      <3>2. line' = line
        BY <1>1 DEF NextPerfItem
      <3>3. \E S : out' \in Seq(S)
        <4> DEFINE e == Record(line.items[next])
        <4> HIDE DEF e
        <4>1. PICK S : out \in Seq(S)
          BY DEF Position
        <4>2. out \in Seq(S \cup {e})
          BY <4>1
        <4>3. Append(out, e) \in Seq(S \cup {e})
          BY <4>2, AppendProperties
        <4>4. out' = out \/ out' = Append(out, e)
          BY <1>1 DEF NextPerfItem, e
        <4> QED BY <4>2, <4>3, <4>4
      <3> QED BY <3>1, <3>2, <3>3 DEF Position
    <2>2. PrefixIsNearest' /\ SentIsExact'
      BY <1>1, PrefixStep, SentStep
    <2> QED BY <2>1, <2>2
  <1>2. CASE UNCHANGED parserVars
    <2>1. line' = line /\ next' = next /\ prefix' = prefix /\ out' = out
      BY <1>2 DEF parserVars
    <2>2. Position' /\ PrefixIsNearest'
      BY <2>1 DEF Position, PrefixIsNearest
    <2>3. Sent' = Sent /\ \A n : Rank(n)' = Rank(n) /\ ExpectedPrefix(n)' = ExpectedPrefix(n)
      BY <2>1 DEF Sent, Rank, WellFormed, ExpectedPrefix
    <2>4. SentIsExact'
      BY <2>1, <2>3 DEF SentIsExact
    <2> QED BY <2>2, <2>4
  <1> QED BY <1>1, <1>2 DEF ParserNext, ParserDone

LEMMA ParserInvariant == ParserSpec => []ParserInv
  BY ParserInvInit, ParserInvNext, PTL DEF ParserSpec

(* IteratorIsExact: PerformanceDataIterator sends one record for each item *)
(* whose numbers are numbers, in the order of the line, and the prefix of  *)
(* the nearest check_multi label goes in front, also across skipped items. *)
THEOREM ParserIsExact == ParserSpec => []IteratorIsExact
  <1>1. ParserInv => IteratorIsExact
    <2> SUFFICES ASSUME ParserInv, Closed PROVE IteratorIsExact
      BY DEF IteratorIsExact
    <2>1. CASE line.known
      <3>1. Sent = WellFormed
        BY <2>1, LineTypes DEF ParserInv, Position, Closed, Sent
      <3> QED BY <2>1, <3>1 DEF ParserInv, SentIsExact, IteratorIsExact
    <2>2. CASE ~line.known
      BY <2>2 DEF ParserInv, SentIsExact, IteratorIsExact
    <2> QED BY <2>1, <2>2
  <1> QED BY ParserInvariant, <1>1, PTL

=============================================================================
