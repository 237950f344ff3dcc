------------------------- MODULE GearmanWorkerProofs -------------------------
(***************************************************************************)
(* Proofs about GearmanWorker for every set of jobs and of targets, every  *)
(* content of the jobs, all capacities and any number of assignments.      *)
(***************************************************************************)
EXTENDS GearmanWorker, TLAPS

-----------------------------------------------------------------------------
(* The inductive invariant *)

(* handleLoad waits for a target only between its lock and its unlock.     *)
Waiting == handler["load"] \notin {"lock", "locked"} => waitFor = {}

(* An execution there is: its job was submitted, it is at a performance    *)
(* datum of the job, and it answers at the end of the job.                 *)
Execution(e) ==
    /\ e[2] > assigned[e[1]] => pc[e] = "none"
    /\ pc[e] # "none" => e[1] \in arrived
    /\ item[e] <= Items[e[1]]
    /\ pc[e] = "deliver" => item[e] > 0
    /\ pc[e] # "deliver" => todo[e] = {}
    /\ pc[e] \in {"answer", "done"} => ~Unread(e)

Executions == owner \in [Jobs -> Nat] /\ \A e \in Execs : Execution(e)

(* Execution e has passed d.                                               *)
Behind(e, d) == e[1] = d[1] /\ (d[2] < item[e] \/ (d[2] = item[e] /\ d[3] \notin todo[e]))

BehindIsSettled == \A e \in Execs : \A d \in Deliveries : Behind(e, d) => Settled(d)

(* A job that gearmand no longer has was delivered completely.             *)
AnsweredIsSettled == \A d \in Deliveries : d[1] \in arrived \ queue => Settled(d)

IndInv ==
    /\ TypeOK /\ Waiting /\ LocksAreOwned
    /\ Executions /\ BehindIsSettled /\ AnsweredIsSettled

-----------------------------------------------------------------------------
(* Types *)

LEMMA TypeInit == Init => TypeOK
  <1> SUFFICES ASSUME Init PROVE TypeOK
    OBVIOUS
  <1>1. handler \in [Handlers -> {"check", "select", "lock", "locked", "ack", "stopped"}]
    BY DEF Init
  <1>2. filled \in [Targets -> 0..QueueCap] /\ assigned \in [Jobs -> 0..MaxAssign]
    BY NumbersAssumption DEF Init
  <1>3. item \in [Execs -> Nat] /\ todo \in [Execs -> SUBSET Targets] /\ copies \in [Deliveries -> Nat]
    BY DEF Init
  <1>4. ASSUME NEW j \in Jobs PROVE owner[j] \in 0..assigned[j]
    <2>1. owner[j] = 0 /\ assigned[j] = 0
      BY DEF Init
    <2> QED BY <2>1
  <1>5. pc \in [Execs -> {"none", "next", "deliver", "answer", "done"}]
    BY DEF Init
  <1> QED BY <1>1, <1>2, <1>3, <1>4, <1>5 DEF Init, TypeOK

(* What an execution that delivers is at.                                  *)
LEMMA DeliveryOf ==
    ASSUME TypeOK, Executions, NEW e \in Execs, pc[e] = "deliver", NEW t \in Targets
    PROVE  <<e[1], item[e], t>> \in Deliveries
  <1>1. e[1] \in Jobs /\ Items[e[1]] \in 0..MaxItems
    BY JobsAssumption DEF Execs
  <1>2. item[e] \in 1..MaxItems /\ item[e] <= Items[e[1]]
    BY <1>1, JobsAssumption DEF TypeOK, Executions, Execution
  <1> QED BY <1>1, <1>2 DEF Deliveries

LEMMA TypeConnection ==
    ASSUME TypeOK, Run \/ ConnectionLost \/ Close \/ StopCalled
    PROVE  TypeOK'
  <1> USE DEF TypeOK, environment, library, connection, gearmand, executions, handling, history, NoOwner
  <1>1. CASE AddFunc
    BY <1>1 DEF AddFunc
  <1>2. CASE Ready
    BY <1>2 DEF Ready
  <1>3. CASE ReadyFails
    BY <1>3 DEF ReadyFails
  <1>4. CASE Retry
    BY <1>4 DEF Retry
  <1>5. CASE ConnectionLost
    <2>1. \A j \in Jobs : assigned[j] \in Nat /\ owner'[j] = 0
      BY <1>5, NumbersAssumption DEF ConnectionLost
    <2>2. \A j \in Jobs : owner'[j] \in 0..assigned'[j]
      BY <1>5, <2>1 DEF ConnectionLost
    <2> QED BY <1>5, <2>2 DEF ConnectionLost
  <1>6. CASE Close
    <2>1. \A j \in Jobs : assigned[j] \in Nat /\ owner'[j] \in {0, owner[j]}
      BY <1>6, NumbersAssumption DEF Close
    <2>2. \A j \in Jobs : owner'[j] \in 0..assigned'[j]
      BY <1>6, <2>1 DEF Close
    <2>3. run' \in {"add", "ready", "sleep", "returned"} /\ running' \in BOOLEAN
      BY <1>6 DEF Close
    <2>4. connected' \in BOOLEAN /\ closed' \in BOOLEAN
      BY <1>6 DEF Close
    <2> QED BY <1>6, <2>2, <2>3, <2>4 DEF Close
  <1>7. CASE StopCalled
    BY <1>7 DEF StopCalled
  <1> QED BY <1>1, <1>2, <1>3, <1>4, <1>5, <1>6, <1>7 DEF Run

LEMMA TypeEnvironment ==
    ASSUME TypeOK, ChangePause \/ \E t \in Targets : Consume(t) \/ Fill(t)
    PROVE  TypeOK'
  <1> USE DEF TypeOK, library, connection, gearmand, executions, handling, history
  <1>1. CASE ChangePause
    BY <1>1 DEF ChangePause
  <1>2. ASSUME NEW t \in Targets, Consume(t) PROVE TypeOK'
    BY <1>2, NumbersAssumption DEF Consume
  <1>3. ASSUME NEW t \in Targets, Fill(t) PROVE TypeOK'
    BY <1>3, NumbersAssumption DEF Fill
  <1> QED BY <1>1, <1>2, <1>3

LEMMA TypeJobs ==
    ASSUME TypeOK, Executions, NEW j \in Jobs, Submit(j) \/ Assign(j)
    PROVE  TypeOK'
  <1> USE DEF TypeOK, environment, library, connection, handling, history
  <1>1. CASE Submit(j)
    BY <1>1 DEF Submit, executions
  <1>2. CASE Assign(j)
    <2>1. assigned[j] + 1 \in 1..MaxAssign
      BY <1>2, NumbersAssumption DEF Assign
    <2>2. assigned' \in [Jobs -> 0..MaxAssign] /\ assigned'[j] = assigned[j] + 1
      BY <1>2, <2>1 DEF Assign
    <2>3. \A i \in Jobs : owner'[i] \in 0..assigned'[i]
      BY <1>2, <2>2 DEF Assign, Executions
    <2>4. pc' \in [Execs -> {"none", "next", "deliver", "answer", "done"}]
      BY <1>2 DEF Assign
    <2> QED BY <1>2, <2>2, <2>3, <2>4 DEF Assign
  <1> QED BY <1>1, <1>2

LEMMA TypeExecute ==
    ASSUME TypeOK, Executions, NEW e \in Execs, Execute(e)
    PROVE  TypeOK'
  <1> USE DEF TypeOK, environment, library, connection, gearmand, handling, history, Done
  <1>1. CASE NextItem(e)
    BY <1>1 DEF NextItem
  <1>2. CASE Return(e)
    BY <1>2 DEF Return
  <1>3. CASE Answer(e)
    BY <1>3 DEF Answer
  <1>4. ASSUME NEW t \in Targets, Deliver(e, t) PROVE TypeOK'
    <2>1. copies' \in [Deliveries -> Nat]
      <3>1. <<e[1], item[e], t>> \in Deliveries
        BY <1>4, DeliveryOf DEF Deliver
      <3> QED BY <1>4, <3>1 DEF Deliver
    <2>2. filled' \in [Targets -> 0..QueueCap]
      BY <1>4, NumbersAssumption DEF Deliver
    <2>3. pc' \in [Execs -> {"none", "next", "deliver", "answer", "done"}]
      BY <1>4 DEF Deliver
    <2>4. todo' \in [Execs -> SUBSET Targets]
      BY <1>4 DEF Deliver
    <2> QED BY <1>4, <2>1, <2>2, <2>3, <2>4 DEF Deliver
  <1>5. ASSUME NEW t \in Targets, Drop(e, t) PROVE TypeOK'
    <2>1. <<e[1], item[e], t>> \in Deliveries
      BY <1>5, DeliveryOf DEF Drop
    <2>2. pc' \in [Execs -> {"none", "next", "deliver", "answer", "done"}]
      BY <1>5 DEF Drop
    <2>3. todo' \in [Execs -> SUBSET Targets]
      BY <1>5 DEF Drop
    <2> QED BY <1>5, <2>1, <2>2, <2>3 DEF Drop
  <1> QED BY <1>1, <1>2, <1>3, <1>4, <1>5 DEF Execute

LEMMA TypeHandlers ==
    ASSUME TypeOK, Waiting, HandleLoad \/ LoadLocks \/ HandlePause \/ PauseLocks \/ Quit
    PROVE  TypeOK' /\ Waiting'
  <1> USE DEF TypeOK, Waiting, Handlers, environment, library, connection, gearmand, executions,
              history, Goto, Lock
  <1>1. ASSUME NEW t \in Targets, CheckTarget(t) PROVE TypeOK' /\ Waiting'
    BY <1>1 DEF CheckTarget
  <1>2. ASSUME NEW t \in Targets, TargetIsLoaded(t) PROVE TypeOK' /\ Waiting'
    BY <1>2 DEF TargetIsLoaded
  <1>3. CASE LoadLocks
    BY <1>3 DEF LoadLocks
  <1>4. CASE LoadUnlocks
    BY <1>4 DEF LoadUnlocks
  <1>5. CASE EndOfCheck
    BY <1>5 DEF EndOfCheck
  <1>6. CASE LoadTick
    BY <1>6 DEF LoadTick
  <1>7. CASE PauseBegins
    BY <1>7 DEF PauseBegins
  <1>8. CASE PauseLocks
    BY <1>8 DEF PauseLocks
  <1>9. CASE PauseEnds
    BY <1>9 DEF PauseEnds
  <1>10. ASSUME NEW h \in Handlers, SendQuit(h) PROVE TypeOK' /\ Waiting'
    BY <1>10 DEF SendQuit
  <1>11. ASSUME NEW h \in Handlers, StopReturns(h) PROVE TypeOK' /\ Waiting'
    BY <1>11 DEF StopReturns
  <1>12. ASSUME NEW h \in Handlers, NEW other \in Handlers, PassToken(h, other)
         PROVE  TypeOK' /\ Waiting'
    BY <1>12 DEF PassToken
  <1> QED BY <1>1, <1>2, <1>3, <1>4, <1>5, <1>6, <1>7, <1>8, <1>9, <1>10, <1>11, <1>12
          DEF HandleLoad, HandlePause, Quit

-----------------------------------------------------------------------------
(* The mutex *)

(* The steps that leave the mutex and the handlers alone.                  *)
LEMMA LocksAside ==
    ASSUME Next
    PROVE  \/ HandleLoad \/ LoadLocks \/ HandlePause \/ PauseLocks \/ Quit
           \/ UNCHANGED <<mutex, handling>>
  <1> USE DEF library, handling
  <1>1. ASSUME NEW t \in Targets, Consume(t) \/ Fill(t) PROVE UNCHANGED <<mutex, handling>>
    BY <1>1 DEF Consume, Fill
  <1>2. ASSUME NEW j \in Jobs, Submit(j) \/ Assign(j) PROVE UNCHANGED <<mutex, handling>>
    BY <1>2 DEF Submit, Assign
  <1>3. ASSUME NEW e \in Execs, Execute(e) PROVE UNCHANGED <<mutex, handling>>
    BY <1>3 DEF Execute, NextItem, Return, Answer, Deliver, Drop
  <1>4. ChangePause \/ Run \/ ConnectionLost \/ StopCalled \/ Close => UNCHANGED <<mutex, handling>>
    BY DEF ChangePause, Run, AddFunc, Ready, ReadyFails, Retry, ConnectionLost, StopCalled, Close
  <1> QED BY <1>1, <1>2, <1>3, <1>4 DEF Next

LEMMA LocksNext ==
    ASSUME TypeOK, LocksAreOwned, [Next]_vars
    PROVE  LocksAreOwned'
  <1> USE DEF LocksAreOwned, Handlers, Goto, Lock
  <1>0. handler \in [Handlers -> {"check", "select", "lock", "locked", "ack", "stopped"}] /\ paused \in BOOLEAN
    BY DEF TypeOK
  <1>1. ASSUME NEW t \in Targets, CheckTarget(t) \/ TargetIsLoaded(t) PROVE LocksAreOwned'
    BY <1>0, <1>1 DEF CheckTarget, TargetIsLoaded, library
  <1>2. CASE LoadLocks
    BY <1>0, <1>2 DEF LoadLocks
  <1>3. CASE LoadUnlocks
    BY <1>0, <1>3 DEF LoadUnlocks
  <1>4. CASE EndOfCheck \/ LoadTick \/ PauseBegins
    BY <1>0, <1>4 DEF EndOfCheck, LoadTick, PauseBegins, library
  <1>5. CASE PauseLocks
    BY <1>0, <1>5 DEF PauseLocks
  <1>6. CASE PauseEnds
    BY <1>0, <1>6 DEF PauseEnds
  <1>7. ASSUME NEW h \in Handlers, SendQuit(h) \/ StopReturns(h) PROVE LocksAreOwned'
    BY <1>0, <1>7 DEF SendQuit, StopReturns, library
  <1>8. ASSUME NEW h \in Handlers, NEW other \in Handlers, PassToken(h, other) PROVE LocksAreOwned'
    BY <1>0, <1>8 DEF PassToken, library
  <1>9. CASE UNCHANGED <<mutex, handling>>
    BY <1>9 DEF handling
  <1> QED BY <1>1, <1>2, <1>3, <1>4, <1>5, <1>6, <1>7, <1>8, <1>9, LocksAside
          DEF HandleLoad, HandlePause, Quit, vars, library

-----------------------------------------------------------------------------
(* The executions *)

(* The steps that neither a job nor an execution takes part in; some of    *)
(* them make gearmand take its jobs back.                                  *)
LEMMA JobsAside ==
    ASSUME Next
    PROVE  \/ \E j \in Jobs : Submit(j) \/ Assign(j)
           \/ \E e \in Execs : Execute(e)
           \/ UNCHANGED <<queue, arrived, assigned, executions, history>> /\ (NoOwner \/ UNCHANGED owner)
  <1> DEFINE Aside == UNCHANGED <<queue, arrived, assigned, executions, history>> /\ (NoOwner \/ UNCHANGED owner)
  <1> USE DEF gearmand
  <1>1. ASSUME NEW t \in Targets, Consume(t) \/ Fill(t) PROVE Aside
    BY <1>1 DEF Consume, Fill
  <1>2. ChangePause \/ Run \/ ConnectionLost \/ StopCalled => Aside
    BY DEF ChangePause, Run, AddFunc, Ready, ReadyFails, Retry, ConnectionLost, StopCalled
  <1>3. Close => Aside
    BY DEF Close
  <1>4. ASSUME NEW t \in Targets, CheckTarget(t) \/ TargetIsLoaded(t) PROVE Aside
    BY <1>4 DEF CheckTarget, TargetIsLoaded
  <1>5. LoadLocks \/ LoadUnlocks \/ EndOfCheck \/ LoadTick => Aside
    BY DEF LoadLocks, LoadUnlocks, EndOfCheck, LoadTick, Lock
  <1>6. HandlePause \/ PauseLocks => Aside
    BY DEF HandlePause, PauseBegins, PauseEnds, PauseLocks, Lock
  <1>7. ASSUME NEW h \in Handlers, SendQuit(h) \/ StopReturns(h) PROVE Aside
    BY <1>7 DEF SendQuit, StopReturns
  <1>8. ASSUME NEW h \in Handlers, NEW other \in Handlers, PassToken(h, other) PROVE Aside
    BY <1>8 DEF PassToken
  <1> QED BY <1>1, <1>2, <1>3, <1>4, <1>5, <1>6, <1>7, <1>8 DEF Next, HandleLoad, Quit

LEMMA ExecutionsInit == Init => Executions
  <1> SUFFICES ASSUME Init PROVE Executions
    OBVIOUS
  <1>1. owner \in [Jobs -> Nat]
    BY DEF Init
  <1>2. ASSUME NEW e \in Execs PROVE Execution(e)
    <2>1. pc[e] = "none" /\ item[e] = 0 /\ todo[e] = {} /\ Items[e[1]] \in 0..MaxItems
      BY JobsAssumption DEF Init, Execs
    <2> QED BY <2>1, JobsAssumption DEF Execution
  <1> QED BY <1>1, <1>2 DEF Executions

(* Only execution e moves, and gearmand assigns nothing meanwhile.         *)
LEMMA OthersRest ==
    ASSUME TypeOK, NEW e \in Execs, Execute(e)
    PROVE  /\ UNCHANGED <<arrived, assigned, owner>>
           /\ \A f \in Execs \ {e} : UNCHANGED <<pc[f], item[f], todo[f]>>
  <1> USE DEF TypeOK, gearmand
  <1>1. CASE NextItem(e)
    BY <1>1 DEF NextItem
  <1>2. CASE Return(e)
    BY <1>2 DEF Return
  <1>3. CASE Answer(e)
    BY <1>3 DEF Answer
  <1>4. ASSUME NEW t \in Targets, Deliver(e, t) \/ Drop(e, t)
        PROVE  /\ UNCHANGED <<arrived, assigned, owner>>
               /\ \A f \in Execs \ {e} : UNCHANGED <<pc[f], item[f], todo[f]>>
    BY <1>4 DEF Deliver, Drop, Done
  <1> QED BY <1>1, <1>2, <1>3, <1>4 DEF Execute

LEMMA ExecutionMoves ==
    ASSUME TypeOK, Executions, NEW e \in Execs, Execute(e)
    PROVE  Execution(e)'
  <1>0. /\ Execution(e) /\ Items[e[1]] \in 0..MaxItems /\ MaxItems \in Nat /\ item[e] \in Nat
        /\ UNCHANGED <<arrived, assigned>>
    BY JobsAssumption, OthersRest DEF Executions, TypeOK, Execs
  <1> USE DEF Execution, Unread
  <1>1. CASE NextItem(e)
    <2>1. pc[e] = "next" /\ pc'[e] = "deliver" /\ item'[e] = item[e] + 1 /\ item[e] < Items[e[1]]
      BY <1>1 DEF NextItem, TypeOK
    <2> QED BY <1>0, <2>1
  <1>2. CASE Return(e)
    <2>1. pc[e] = "next" /\ pc'[e] = "answer" /\ UNCHANGED <<item, todo>> /\ ~Unread(e)
      BY <1>2 DEF Return, TypeOK
    <2> QED BY <1>0, <2>1
  <1>3. CASE Answer(e)
    <2>1. pc[e] = "answer" /\ pc'[e] = "done" /\ UNCHANGED <<item, todo>>
      BY <1>3 DEF Answer, TypeOK
    <2> QED BY <1>0, <2>1
  <1>4. ASSUME NEW t \in Targets, Deliver(e, t) \/ Drop(e, t) PROVE Execution(e)'
    <2>1. pc[e] = "deliver" /\ t \in todo[e] /\ item' = item /\ todo'[e] = todo[e] \ {t}
      BY <1>4 DEF Deliver, Drop, Done, TypeOK
    <2>2. pc'[e] = IF todo[e] = {t} THEN "next" ELSE "deliver"
      BY <1>4 DEF Deliver, Drop, Done, TypeOK
    <2> QED BY <1>0, <2>1, <2>2
  <1> QED BY <1>1, <1>2, <1>3, <1>4 DEF Execute

LEMMA ExecutionsNext ==
    ASSUME TypeOK, Executions, [Next]_vars
    PROVE  Executions'
  <1>1. CASE UNCHANGED <<queue, arrived, assigned, executions, history>> /\ (NoOwner \/ UNCHANGED owner)
    BY <1>1 DEF Executions, Execution, Unread, executions, NoOwner
  <1>2. ASSUME NEW j \in Jobs, Submit(j) PROVE Executions'
    BY <1>2 DEF Submit, Executions, Execution, Unread, executions
  <1>3. ASSUME NEW j \in Jobs, Assign(j) PROVE Executions'
    <2>1. owner' \in [Jobs -> Nat]
      BY <1>3, NumbersAssumption DEF Assign, Executions, TypeOK
    <2>2. ASSUME NEW e \in Execs PROVE Execution(e)'
      <3>1. /\ j \in arrived /\ UNCHANGED <<arrived, item, todo>>
            /\ assigned[e[1]] \in Nat
            /\ assigned'[e[1]] = IF e[1] = j THEN assigned[j] + 1 ELSE assigned[e[1]]
        BY <1>3, NumbersAssumption DEF Assign, TypeOK, Execs
      <3>2. CASE e = <<j, assigned[j] + 1>>
        <4>1. pc[e] = "none" /\ pc'[e] = "next"
          BY <1>3, <3>1, <3>2 DEF Assign, Executions, Execution, TypeOK
        <4> QED BY <3>1, <3>2, <4>1 DEF Executions, Execution
      <3>3. CASE e # <<j, assigned[j] + 1>>
        <4>1. pc'[e] = pc[e]
          BY <1>3, <3>3 DEF Assign, TypeOK
        <4>2. e[2] \in Nat /\ e = <<e[1], e[2]>>
          BY NumbersAssumption DEF Execs
        <4>3. e[2] > assigned'[e[1]] => e[2] > assigned[e[1]]
          BY <3>1, <4>2
        <4> QED BY <3>1, <4>1, <4>3 DEF Executions, Execution, Unread
      <3> QED BY <3>2, <3>3
    <2> QED BY <2>1, <2>2 DEF Executions, Execs
  <1>4. ASSUME NEW e \in Execs, Execute(e) PROVE Executions'
    <2>1. ASSUME NEW f \in Execs, f # e PROVE Execution(f)'
      BY <1>4, <2>1, OthersRest DEF Executions, Execution, Unread
    <2>2. Execution(e)'
      BY <1>4, ExecutionMoves
    <2> QED BY <1>4, <2>1, <2>2, OthersRest DEF Executions, Execs
  <1>5. CASE UNCHANGED vars
    BY <1>1, <1>5 DEF vars, gearmand
  <1> QED BY <1>1, <1>2, <1>3, <1>4, <1>5, JobsAside

-----------------------------------------------------------------------------
(* Deliveries *)

(* Of an execution's steps, a delivery and its time-out settle what it is  *)
(* at, and no other step settles anything.                                 *)
LEMMA Settles ==
    ASSUME TypeOK, Executions, NEW e \in Execs, NEW t \in Targets, Deliver(e, t) \/ Drop(e, t)
    PROVE  /\ <<e[1], item[e], t>> \in Deliveries
           /\ \A d \in Deliveries : Settled(d)' <=> Settled(d) \/ d = <<e[1], item[e], t>>
  <1> DEFINE x == <<e[1], item[e], t>>
  <1>1. x \in Deliveries
    BY DeliveryOf DEF Deliver, Drop
  <1>2. \/ dropped' = dropped \cup {x} /\ copies' = copies
        \/ dropped' = dropped /\ copies' = [copies EXCEPT ![x] = @ + 1]
    BY DEF Deliver, Drop
  <1> HIDE DEF x
  <1>3. CASE dropped' = dropped \cup {x} /\ copies' = copies
    BY <1>1, <1>3 DEF Settled, x
  <1>4. CASE dropped' = dropped /\ copies' = [copies EXCEPT ![x] = @ + 1]
    <2>1. \A d \in Deliveries : copies[d] \in Nat /\ copies'[d] = IF d = x THEN copies[d] + 1 ELSE copies[d]
      BY <1>1, <1>4 DEF TypeOK
    <2> QED BY <1>1, <1>4, <2>1 DEF Settled, x
  <1> QED BY <1>1, <1>2, <1>3, <1>4 DEF x

LEMMA SettledStays ==
    ASSUME TypeOK, Executions, [Next]_vars
    PROVE  \A d \in Deliveries : Settled(d) => Settled(d)'
  <1>1. CASE UNCHANGED history
    BY <1>1 DEF history, Settled
  <1>2. ASSUME NEW j \in Jobs, Submit(j) \/ Assign(j) PROVE UNCHANGED history
    BY <1>2 DEF Submit, Assign
  <1>3. ASSUME NEW e \in Execs, Execute(e) PROVE \A d \in Deliveries : Settled(d) => Settled(d)'
    <2>1. CASE NextItem(e) \/ Return(e) \/ Answer(e)
      BY <1>1, <2>1 DEF NextItem, Return, Answer
    <2>2. ASSUME NEW t \in Targets, Deliver(e, t) \/ Drop(e, t)
          PROVE  \A d \in Deliveries : Settled(d) => Settled(d)'
      BY <2>2, Settles
    <2> QED BY <1>3, <2>1, <2>2 DEF Execute
  <1> QED BY <1>1, <1>2, <1>3, JobsAside DEF vars

LEMMA BehindNext ==
    ASSUME TypeOK, Executions, BehindIsSettled, [Next]_vars
    PROVE  BehindIsSettled'
  <1> SUFFICES ASSUME NEW f \in Execs, NEW d \in Deliveries, Behind(f, d)'
               PROVE  Settled(d)'
    BY DEF BehindIsSettled, Execs, Deliveries
  <1>1. Behind(f, d) => Settled(d)'
    BY SettledStays DEF BehindIsSettled
  <1>2. d[1] \in Jobs /\ d[2] \in 1..MaxItems /\ d[3] \in Targets /\ MaxItems \in Nat /\ item[f] \in Nat
    BY JobsAssumption DEF Deliveries, TypeOK
  <1>3. CASE UNCHANGED <<item, todo>>
    BY <1>1, <1>3 DEF Behind
  <1>4. ASSUME NEW j \in Jobs, Submit(j) \/ Assign(j) PROVE UNCHANGED <<item, todo>>
    BY <1>4 DEF Submit, Assign, executions
  <1>5. ASSUME NEW e \in Execs, Execute(e) PROVE Settled(d)'
    <2>1. CASE f # e
      BY <1>1, <1>5, <2>1, OthersRest DEF Behind
    <2>2. CASE NextItem(e) /\ f = e
      <3>1. item'[f] = item[f] + 1 /\ todo'[f] = Targets /\ pc[f] = "next"
        BY <2>2 DEF NextItem, TypeOK
      <3>2. todo[f] = {}
        BY <3>1 DEF Executions, Execution
      <3> QED BY <1>1, <1>2, <3>1, <3>2 DEF Behind
    <2>3. CASE Return(e) \/ Answer(e)
      BY <1>3, <2>3 DEF Return, Answer
    <2>4. ASSUME NEW t \in Targets, Deliver(e, t) \/ Drop(e, t), f = e PROVE Settled(d)'
      <3>1. item' = item /\ todo'[f] = todo[f] \ {t}
        BY <2>4 DEF Deliver, Drop, Done, TypeOK
      <3>2. CASE d = <<f[1], item[f], t>>
        BY <2>4, <3>2, Settles
      <3>3. CASE d # <<f[1], item[f], t>>
        <4>1. d = <<d[1], d[2], d[3]>>
          BY DEF Deliveries
        <4>2. Behind(f, d)
          BY <3>1, <3>3, <4>1 DEF Behind
        <4> QED BY <1>1, <4>2
      <3> QED BY <3>2, <3>3
    <2> QED BY <1>5, <2>1, <2>2, <2>3, <2>4 DEF Execute
  <1> QED BY <1>3, <1>4, <1>5, JobsAside DEF vars, executions

(* An execution that is about to answer has settled all of its job.        *)
LEMMA AnswersAll ==
    ASSUME TypeOK, Executions, BehindIsSettled, NEW e \in Execs, pc[e] = "answer",
           NEW d \in Deliveries, d[1] = e[1]
    PROVE  Settled(d)
  <1>1. ~(item[e] < Items[e[1]]) /\ todo[e] = {} /\ item[e] \in Nat /\ Items[e[1]] \in 0..MaxItems
    <2>1. Targets # {} /\ e[1] \in Jobs
      BY DEF Deliveries, Execs
    <2> QED BY <2>1, JobsAssumption DEF Executions, Execution, Unread, TypeOK
  <1>2. d[2] \in Nat /\ d[2] <= Items[e[1]]
    BY JobsAssumption DEF Deliveries
  <1>3. Behind(e, d)
    BY <1>1, <1>2, JobsAssumption DEF Behind
  <1> QED BY <1>3 DEF BehindIsSettled

LEMMA AnsweredNext ==
    ASSUME TypeOK, Executions, BehindIsSettled, AnsweredIsSettled, [Next]_vars
    PROVE  AnsweredIsSettled'
  <1> SUFFICES ASSUME NEW d \in Deliveries, d[1] \in arrived' \ queue' PROVE Settled(d)'
    BY DEF AnsweredIsSettled, Deliveries
  <1>1. d[1] \in arrived \ queue => Settled(d)'
    BY SettledStays DEF AnsweredIsSettled
  <1>2. CASE UNCHANGED <<queue, arrived>>
    BY <1>1, <1>2
  <1>3. ASSUME NEW j \in Jobs, Submit(j) \/ Assign(j) PROVE Settled(d)'
    BY <1>1, <1>3 DEF Submit, Assign
  <1>4. ASSUME NEW e \in Execs, Answer(e) PROVE Settled(d)'
    <2>1. pc[e] = "answer" /\ arrived' = arrived /\ queue' \in {queue, queue \ {e[1]}}
      BY <1>4 DEF Answer
    <2>2. CASE d[1] = e[1]
      BY <2>1, <2>2, AnswersAll, SettledStays
    <2> QED BY <1>1, <2>1, <2>2
  <1>5. ASSUME NEW e \in Execs, Execute(e), ~Answer(e) PROVE UNCHANGED <<queue, arrived>>
    BY <1>5 DEF Execute, NextItem, Return, Deliver, Drop, gearmand
  <1> QED BY <1>2, <1>3, <1>4, <1>5, JobsAside DEF vars, gearmand

-----------------------------------------------------------------------------
(* The promise of an intake *)

LEMMA PromiseInit == Init => Promise!Init
  BY DEF Init, Promise!Init, Settled

(* A step that settles nothing new.                                        *)
LEMMA SettlesNothing ==
    ASSUME UNCHANGED history
    PROVE  {d \in Deliveries : Settled(d)}' = {d \in Deliveries : Settled(d)}
  <1>1. \A d \in Deliveries : Settled(d)' <=> Settled(d)
    BY DEF Settled, history
  <1> QED BY <1>1 DEF Deliveries

(* A delivery to target t, or its time-out: gearmand still has the job, or *)
(* another execution has answered it and settled this delivery before.     *)
LEMMA PromiseSettle ==
    ASSUME TypeOK, Executions, AnsweredIsSettled,
           NEW e \in Execs, NEW t \in Targets, Deliver(e, t) \/ Drop(e, t)
    PROVE  [Promise!Next]_Promise!vars
  <1> DEFINE d == <<e[1], item[e], t>>
             Before == {x \in Deliveries : Settled(x)}
             After  == {x \in Deliveries : Settled(x)'}
  <1>1. d \in Deliveries /\ \A x \in Deliveries : Settled(x)' <=> Settled(x) \/ x = d
    BY Settles
  <1>2. d[1] \in arrived /\ UNCHANGED <<queue, arrived>>
    BY DEF Deliver, Drop, Executions, Execution, gearmand
  <1> HIDE DEF d
  <1>3. After = Before \cup {d}
    BY <1>1
  <1>4. {x \in Deliveries : Settled(x)}' = After
    BY DEF Deliveries
  <1>5. CASE d[1] \in queue
    BY <1>1, <1>2, <1>3, <1>4, <1>5 DEF Promise!Next, Promise!Settle
  <1>6. CASE d[1] \notin queue
    <2>1. After = Before
      BY <1>1, <1>2, <1>3, <1>6 DEF AnsweredIsSettled
    <2> QED BY <1>2, <1>4, <2>1 DEF Promise!vars
  <1> QED BY <1>5, <1>6

LEMMA PromiseRemove ==
    ASSUME TypeOK, Executions, BehindIsSettled, NEW e \in Execs, Answer(e)
    PROVE  [Promise!Next]_Promise!vars
  <1>1. /\ pc[e] = "answer" /\ e[1] \in Jobs /\ UNCHANGED <<arrived, history>>
        /\ queue' \in {queue, queue \ {e[1]}}
    BY DEF Answer, Execs
  <1>2. {d \in Deliveries : Settled(d)}' = {d \in Deliveries : Settled(d)}
    BY <1>1, SettlesNothing
  <1>3. CASE queue' = queue
    BY <1>1, <1>2, <1>3 DEF Promise!vars
  <1>4. CASE queue' = queue \ {e[1]} /\ e[1] \in queue
    <2>1. \A d \in Deliveries : d[1] = e[1] => Settled(d)
      BY <1>1, AnswersAll
    <2> QED BY <1>1, <1>2, <1>4, <2>1 DEF Promise!Next, Promise!Remove
  <1> QED BY <1>1, <1>3, <1>4

LEMMA PromiseNext ==
    ASSUME IndInv, [Next]_vars
    PROVE  [Promise!Next]_Promise!vars
  <1> USE DEF IndInv
  <1>1. CASE UNCHANGED <<queue, arrived, history>>
    BY <1>1, SettlesNothing DEF Promise!vars
  <1>2. ASSUME NEW j \in Jobs, Submit(j) PROVE [Promise!Next]_Promise!vars
    BY <1>2, SettlesNothing DEF Submit, Promise!Next, Promise!Arrive
  <1>3. ASSUME NEW j \in Jobs, Assign(j) PROVE UNCHANGED <<queue, arrived, history>>
    BY <1>3 DEF Assign
  <1>4. ASSUME NEW e \in Execs, Execute(e) PROVE [Promise!Next]_Promise!vars
    <2>1. CASE NextItem(e) \/ Return(e)
      BY <1>1, <2>1 DEF NextItem, Return, gearmand
    <2>2. ASSUME NEW t \in Targets, Deliver(e, t) \/ Drop(e, t) PROVE [Promise!Next]_Promise!vars
      BY <2>2, PromiseSettle
    <2> QED BY <1>4, <2>1, <2>2, PromiseRemove DEF Execute
  <1> QED BY <1>1, <1>2, <1>3, <1>4, JobsAside DEF vars, gearmand

-----------------------------------------------------------------------------
(* The theorems *)

LEMMA IndInvInit == Init => IndInv
  <1> SUFFICES ASSUME Init PROVE IndInv
    OBVIOUS
  <1>1. Waiting /\ LocksAreOwned
    BY DEF Init, Waiting, LocksAreOwned, Handlers
  <1>2. ASSUME NEW e \in Execs, NEW d \in Deliveries PROVE ~Behind(e, d)
    BY JobsAssumption DEF Init, Behind, Deliveries
  <1>3. AnsweredIsSettled
    BY DEF Init, AnsweredIsSettled
  <1> QED BY <1>1, <1>2, <1>3, TypeInit, ExecutionsInit DEF IndInv, BehindIsSettled

LEMMA IndInvNext ==
    ASSUME IndInv, [Next]_vars
    PROVE  IndInv'
  <1> USE DEF IndInv
  <1>1. CASE HandleLoad \/ LoadLocks \/ HandlePause \/ PauseLocks \/ Quit
    BY <1>1, TypeHandlers, LocksNext, ExecutionsNext, BehindNext, AnsweredNext
  <1>2. CASE UNCHANGED <<mutex, handling>> /\ Next
    <2>1. Waiting'
      BY <1>2 DEF Waiting, handling
    <2>2. TypeOK' \/ HandleLoad \/ LoadLocks \/ HandlePause \/ PauseLocks \/ Quit
      BY <1>2, TypeEnvironment, TypeConnection, TypeJobs, TypeExecute DEF Next
    <2> QED BY <1>1, <2>1, <2>2, LocksNext, ExecutionsNext, BehindNext, AnsweredNext
  <1>3. CASE UNCHANGED vars
    <2>1. TypeOK' /\ Waiting'
      BY <1>3 DEF TypeOK, Waiting, vars, environment, library, connection, gearmand, executions,
                  handling, history
    <2> QED BY <2>1, LocksNext, ExecutionsNext, BehindNext, AnsweredNext
  <1> QED BY <1>1, <1>2, <1>3, LocksAside

LEMMA Inductive == Spec => []IndInv
  BY IndInvInit, IndInvNext, PTL DEF Spec

(* Every variable keeps its type: no channel is filled beyond its          *)
(* capacity, and gearmand waits for an execution it has assigned.          *)
THEOREM TypeCorrect == Spec => []TypeOK
  BY Inductive, PTL DEF IndInv

(* handleLoad and handlePause never unlock the library's mutex for each    *)
(* other, nor when it is free (which would panic).                         *)
THEOREM LocksOwned == Spec => []LocksAreOwned
  BY Inductive, PTL DEF IndInv

(* The worker keeps the promise of an intake: however often connections    *)
(* break and jobs are assigned again, and wherever Close interrupts it, a  *)
(* job leaves gearmand's queue only when every target got all of it, apart *)
(* from what timed out.                                                    *)
THEOREM Refinement == Spec => KeepsPromise
  BY Inductive, PromiseInit, PromiseNext, PTL DEF Spec, KeepsPromise, Promise!Spec

=============================================================================
