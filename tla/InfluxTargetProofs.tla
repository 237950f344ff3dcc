-------------------------- MODULE InfluxTargetProofs --------------------------
(***************************************************************************)
(* Proofs about InfluxTarget for every set of workers and records and      *)
(* every value of the other constants.                                     *)
(***************************************************************************)
EXTENDS InfluxTarget, SequenceTheorems, TLAPS

-----------------------------------------------------------------------------
(* The channel *)

(* What is put into a channel is what it holds in addition.                *)
LEMMA RangeAppend ==
    ASSUME NEW S, NEW s \in Seq(S), NEW e \in S
    PROVE  Range(Append(s, e)) = Range(s) \cup {e}
  <1>1. Append(s, e) = s \o <<e>> /\ <<e>> \in Seq(S)
    OBVIOUS
  <1>2. Range(<<e>>) = {e}
    BY DEF Range
  <1>3. Range(s \o <<e>>) = Range(s) \cup Range(<<e>>)
    BY <1>1, RangeConcatenation
  <1> QED BY <1>1, <1>2, <1>3

(* What is taken from a channel was at its head.                           *)
LEMMA RangeTail ==
    ASSUME NEW S, NEW s \in Seq(S), s # <<>>
    PROVE  Range(s) = {Head(s)} \cup Range(Tail(s))
  <1>1. s = <<Head(s)>> \o Tail(s) /\ <<Head(s)>> \in Seq(S) /\ Tail(s) \in Seq(S)
    OBVIOUS
  <1>2. Range(<<Head(s)>>) = {Head(s)}
    BY DEF Range
  <1>3. Range(<<Head(s)>> \o Tail(s)) = Range(<<Head(s)>>) \cup Range(Tail(s))
    BY <1>1, RangeConcatenation
  <1> QED BY <1>1, <1>2, <1>3

(* The head of a channel without duplicates is not in its tail.            *)
LEMMA HeadNotInTail ==
    ASSUME NEW S, NEW s \in Seq(S), s # <<>>,
           \A i, j \in 1..Len(s) : s[i] = s[j] => i = j
    PROVE  /\ Head(s) \notin Range(Tail(s))
           /\ \A i, j \in 1..Len(Tail(s)) : Tail(s)[i] = Tail(s)[j] => i = j
  <1>1. /\ DOMAIN Tail(s) = 1..(Len(s) - 1) /\ Len(Tail(s)) = Len(s) - 1 /\ Len(s) \in Nat \ {0}
        /\ \A i \in 1..(Len(s) - 1) : Tail(s)[i] = s[i + 1]
        /\ Head(s) = s[1]
    OBVIOUS
  <1> QED BY <1>1 DEF Range

-----------------------------------------------------------------------------
(* The inductive invariant *)

(* How far a worker may have got, and what its local variables hold there. *)
(* A batch is only resent in one of its two rounds; collected is only in   *)
(* use while a dump file is being prepared; a line of a batch that is sent *)
(* one by one is still to be sent, refused or stored; a worker             *)
(* acknowledges quit with empty hands; Worker.Stop returns after that; and *)
(* no worker runs, or is stopped, before its time.                         *)
Phase(w) ==
    /\ pc[w] \in {"drain", "resend"} => attempt[w] < 2
    /\ pc[w] \notin {"oneByOne", "drain"} => collected[w] = {}
    /\ pc[w] = "oneByOne" =>
          /\ queries[w] \subseteq unsent[w] \cup collected[w] \cup stored
          /\ unsent[w] \cup collected[w] \subseteq queries[w]
    /\ pc[w] \in {"ack", "stopped"} => queries[w] = {}
    /\ stopPc[w] = "done" => pc[w] = "stopped"
    /\ conn \in {"connecting", "checkingDb"} => pc[w] = "new"
    /\ conn \in {"connecting", "checkingDb", "running"} => stopPc[w] = "none"
    /\ conn = "stopped" => stopPc[w] = "done"

Phases == \A w \in Workers : Phase(w)

(* A record is in one place: once in the channel, or with one worker, or   *)
(* gone; and all of them were handed over by a collector.                  *)
Ownership ==
    /\ \A i, j \in 1..Len(jobs) : jobs[i] = jobs[j] => i = j
    /\ Range(jobs) \cup Settled \subseteq accepted
    /\ Range(jobs) \cap Settled = {}
    /\ Settled \subseteq Matching
    /\ \A w \in Workers :
          /\ Held(w) \subseteq accepted
          /\ Range(jobs) \cap Held(w) = {}
          /\ \A v \in Workers \ {w} : Held(v) \cap Held(w) = {}

(* The copies in the dump file of a record: one for every interrupted      *)
(* round that its batch has behind it, none while it is only collected.    *)
CopiesOf(w) ==
    /\ \A r \in queries[w] :
          dump[r] <= attempt[w] + (IF pc[w] = "resend" THEN 1 ELSE 0)
    /\ \A r \in collected[w] \ queries[w] : dump[r] = 0

Copies ==
    /\ DumpCopiesBounded
    /\ \A w \in Workers : CopiesOf(w)

(* As long as the database has not misbehaved, 400 means that it is up, so *)
(* only a bad line is refused when the lines are sent one by one.          *)
Isolation ==
    faults = 0 =>
        /\ errors \subseteq Bad
        /\ \A w \in Workers :
              /\ sendErr[w] = "badRequest" => Healthy
              /\ pc[w] = "oneByOne" => sendErr[w] = "badRequest" /\ collected[w] \subseteq Bad

IndInv == TypeOK /\ Phases /\ NoSilentLoss /\ Ownership /\ Copies /\ Isolation

-----------------------------------------------------------------------------
(* The replies of the database *)

(* What a caller of sendData may rely on: nothing but its own lines is     *)
(* stored, and all of them when there is no error.                         *)
LEMMA ReplyFacts ==
    ASSUME TypeOK, NEW S, NEW a \in Reply(S)
    PROVE  /\ a.err \in SendErrors
           /\ a.saved \subseteq S
           /\ a.err = "nil" => a.saved = S
           /\ faults + a.fault \in 0..MaxFaults
  BY NumbersAssumption DEF Reply, TypeOK, SendErrors
(* What SendLine does once its line r and the reply a are fixed.           *)
LineSent(w, r, a) ==
    /\ SendData(w, {r}, a)
    /\ unsent' = [unsent EXCEPT ![w] = @ \ {r}]
    /\ collected' = [collected EXCEPT ![w] = IF a.err = "nil" THEN @ ELSE @ \cup {r}]

-----------------------------------------------------------------------------
(* Type correctness *)

LEMMA TypeInit == Init => TypeOK
  <1> SUFFICES ASSUME Init PROVE TypeOK
    OBVIOUS
  <1>1. faults \in 0..MaxFaults /\ tries \in 0..CreateTries
    BY NumbersAssumption DEF Init
  <1>2. jobs \in Seq(Records) /\ Len(jobs) <= QueueCap
    BY NumbersAssumption DEF Init
  <1>3. /\ pc \in [Workers -> PcStates]
        /\ sendErr \in [Workers -> SendErrors]
        /\ conn \in ConnStates
    BY DEF Init, ConnStates, PcStates, SendErrors
  <1>4. /\ queries \in [Workers -> SUBSET Matching]
        /\ unsent \in [Workers -> SUBSET Matching]
        /\ collected \in [Workers -> SUBSET Matching]
    BY DEF Init
  <1>5. /\ attempt \in [Workers -> 0..2]
        /\ answer \in [Workers -> BOOLEAN]
        /\ stopPc \in [Workers -> {"none", "token", "send", "ack", "done"}]
        /\ dump \in [Records -> Nat]
    BY DEF Init
  <1> QED BY <1>1, <1>2, <1>3, <1>4, <1>5 DEF Init, TypeOK

LEMMA TypeEnvironment == TypeOK /\ Environment => TypeOK'
  <1> SUFFICES ASSUME TypeOK, Environment PROVE TypeOK'
    OBVIOUS
  <1>1. server' \in {"up", "down"} /\ dbThere' \in BOOLEAN
    BY DEF TypeOK, Environment, Crash, Recover, DropDatabase, RestoreDatabase
  <1>2. faults' \in 0..MaxFaults
    BY NumbersAssumption
       DEF TypeOK, Environment, Crash, Recover, DropDatabase, RestoreDatabase
  <1>3. UNCHANGED <<flags, chan, life, pc, send, answer, stopPc, output>>
    BY DEF Environment, Crash, Recover, DropDatabase, RestoreDatabase
  <1> QED BY <1>1, <1>2, <1>3 DEF TypeOK, flags, chan, life, send, output

LEMMA TypeFactory == TypeOK /\ Factory => TypeOK'
  <1> SUFFICES ASSUME TypeOK, Factory PROVE TypeOK'
    OBVIOUS
  <1> USE DEF StartWorkers, ConnStates, PcStates, env, flags, chan, life, send, output
  <1>1. CASE FactoryPing
    BY <1>1, FlagsAssumption DEF TypeOK, FactoryPing
  <1>2. CASE FactoryTestDb
    <2>1. conn' \in ConnStates /\ pc' \in [Workers -> PcStates]
      BY <1>2 DEF TypeOK, FactoryTestDb
    <2>2. tries' \in 0..CreateTries
      BY <1>2, NumbersAssumption DEF TypeOK, FactoryTestDb
    <2>3. databaseExists' \in BOOLEAN /\ dbThere' \in BOOLEAN
      BY <1>2 DEF TypeOK, FactoryTestDb
    <2>4. UNCHANGED <<server, faults, isAlive, pause, chan, send, answer, stopPc, output>>
      BY <1>2 DEF FactoryTestDb
    <2> QED BY <2>1, <2>2, <2>3, <2>4 DEF TypeOK
  <1> QED BY <1>1, <1>2 DEF Factory

LEMMA TypeSelect ==
    ASSUME TypeOK, NEW w \in Workers, Select(w)
    PROVE  TypeOK'
  <1> USE DEF env, flags, chan, life, send, output, Goto, PcStates
  <1>1. CASE Loop(w)
    BY <1>1 DEF TypeOK, Loop
  <1>2. CASE ReceiveJob(w)
    <2>1. Tail(jobs) \in Seq(Records) /\ Len(Tail(jobs)) <= QueueCap
      BY <1>2, NumbersAssumption DEF TypeOK, ReceiveJob
    <2> QED BY <1>2, <2>1 DEF TypeOK, ReceiveJob
  <1>3. CASE FlushTimeout(w)
    BY <1>3 DEF TypeOK, FlushTimeout
  <1>4. CASE ReceiveQuit(w)
    BY <1>4 DEF TypeOK, ReceiveQuit
  <1>5. CASE AckQuit(w)
    BY <1>5 DEF TypeOK, AckQuit
  <1> QED BY <1>1, <1>2, <1>3, <1>4, <1>5 DEF Select

LEMMA TypeProbe ==
    ASSUME TypeOK, NEW w \in Workers, Probe(w)
    PROVE  TypeOK'
  BY DEF TypeOK, Probe, Ping, SetAlive, SetPause, TestDb, SetDb, AfterTestDb, Goto, PcStates,
         env, flags, chan, life, send, output

LEMMA TypeSendBuffer ==
    ASSUME TypeOK, Phases, NEW w \in Workers, SendBuffer(w)
    PROVE  TypeOK'
  <1> USE DEF env, flags, chan, life, send, output, Goto, PcStates, SendErrors
  <1>1. CASE Post(w)
    <2>1. PICK a \in Reply(queries[w]) :
             /\ SendData(w, queries[w], a)
             /\ \/ EndSend(w)
                \/ /\ sendErr' = [sendErr EXCEPT ![w] = a.err]
                   /\ Goto(w, "ping")
                   /\ UNCHANGED <<queries, attempt>>
      BY <1>1 DEF Post
    <2>2. a.err \in SendErrors /\ a.saved \subseteq Records /\ faults + a.fault \in 0..MaxFaults
      BY ReplyFacts, RecordsAssumption DEF TypeOK
    <2>3. UNCHANGED <<chan, unsent, collected>>
      BY <1>1 DEF Post
    <2>4. CASE EndSend(w)
      BY <2>1, <2>2, <2>3, <2>4 DEF TypeOK, SendData, EndSend
    <2> QED BY <2>1, <2>2, <2>3, <2>4 DEF TypeOK, SendData
  <1>2. CASE StartOneByOne(w)
    BY <1>2 DEF TypeOK, StartOneByOne
  <1>3. CASE SendLine(w)
    <2>1. PICK r \in unsent[w] : \E a \in Reply({r}) : LineSent(w, r, a)
      BY <1>3 DEF SendLine, LineSent
    <2>2. PICK a \in Reply({r}) : LineSent(w, r, a)
      BY <2>1
    <2>3. r \in Matching /\ r \in Records
      BY RecordsAssumption DEF TypeOK
    <2>4. a.saved \subseteq Records /\ faults + a.fault \in 0..MaxFaults
      BY <2>3, ReplyFacts
    <2>5. UNCHANGED <<chan, pc, queries, sendErr, attempt>>
      BY <1>3 DEF SendLine
    <2> QED BY <2>2, <2>3, <2>4, <2>5 DEF TypeOK, LineSent, SendData
  <1>4. CASE DumpErrorQueries(w)
    <2>1. errors' \subseteq Records
      BY <1>4, RecordsAssumption DEF TypeOK, DumpErrorQueries
    <2> QED BY <1>4, <2>1 DEF TypeOK, DumpErrorQueries, EndSend
  <1>5. CASE WaitTimeout(w)
    BY <1>5 DEF TypeOK, WaitTimeout
  <1>6. CASE WaitInterrupted(w)
    BY <1>6 DEF TypeOK, WaitInterrupted
  <1>7. CASE DrainJob(w)
    <2>1. Tail(jobs) \in Seq(Records) /\ Len(Tail(jobs)) <= QueueCap
      BY <1>7, NumbersAssumption DEF TypeOK, DrainJob
    <2> QED BY <1>7, <2>1 DEF TypeOK, DrainJob
  <1>8. CASE DumpRemainingQueries(w)
    BY <1>8 DEF TypeOK, DumpRemainingQueries, AppendToDump
  <1>9. CASE Resend(w)
    <2>1. PICK a \in Reply(queries[w]) :
             /\ SendData(w, queries[w], a)
             /\ \/ EndSend(w)
                \/ /\ sendErr' = [sendErr EXCEPT ![w] = a.err]
                   /\ attempt' = [attempt EXCEPT ![w] = @ + 1]
                   /\ Goto(w, "retry")
                   /\ UNCHANGED queries
      BY <1>9 DEF Resend
    <2>2. a.err \in SendErrors /\ a.saved \subseteq Records /\ faults + a.fault \in 0..MaxFaults
      BY ReplyFacts, RecordsAssumption DEF TypeOK
    <2>3. UNCHANGED <<chan, unsent, collected>> /\ attempt[w] + 1 \in 0..2
      BY <1>9 DEF Resend, Phases, Phase, TypeOK
    <2>4. CASE EndSend(w)
      BY <2>1, <2>2, <2>3, <2>4 DEF TypeOK, SendData, EndSend
    <2>5. CASE /\ sendErr' = [sendErr EXCEPT ![w] = a.err]
               /\ attempt' = [attempt EXCEPT ![w] = @ + 1]
               /\ Goto(w, "retry")
               /\ UNCHANGED queries
      <3>1. attempt' \in [Workers -> 0..2]
        BY <2>3, <2>5 DEF TypeOK
      <3>2. UNCHANGED <<server, dbThere, flags, life, answer, stopPc, dump, errors>>
        BY <2>1 DEF SendData
      <3>3. stored' \subseteq Records /\ faults' \in 0..MaxFaults
        BY <2>1, <2>2 DEF SendData, TypeOK
      <3> QED BY <2>2, <2>3, <2>5, <3>1, <3>2, <3>3 DEF TypeOK
    <2> QED BY <2>1, <2>4, <2>5
  <1>10. CASE DumpQueries(w)
    <2>1. dump' \in [Records -> Nat]
      BY <1>10 DEF TypeOK, DumpQueries, AppendToDump
    <2> QED BY <1>10, <2>1 DEF TypeOK, DumpQueries, EndSend
  <1> QED BY <1>1, <1>2, <1>3, <1>4, <1>5, <1>6, <1>7, <1>8, <1>9, <1>10 DEF SendBuffer

LEMMA TypeStop ==
    ASSUME TypeOK, StopConnector \/ ConnectorStopped \/ \E w \in Workers : PutToken(w)
    PROVE  TypeOK'
  BY DEF TypeOK, StopConnector, ConnectorStopped, PutToken, ConnStates,
         env, flags, chan, life, send, output

LEMMA TypeEnqueue ==
    ASSUME TypeOK, NEW r \in Records, Enqueue(r)
    PROVE  TypeOK'
  <1>1. Append(jobs, r) \in Seq(Records) /\ Len(Append(jobs, r)) <= QueueCap
    BY NumbersAssumption DEF TypeOK, Enqueue
  <1> QED BY <1>1 DEF TypeOK, Enqueue, env, flags, life, send, output

LEMMA TypeStep == TypeOK /\ Phases /\ [Next]_vars => TypeOK'
  <1> SUFFICES ASSUME TypeOK, Phases, [Next]_vars PROVE TypeOK'
    OBVIOUS
  <1>1. CASE UNCHANGED vars
    BY <1>1 DEF TypeOK, vars, env, flags, chan, life, send, output
  <1>2. CASE Terminated
    BY <1>1, <1>2 DEF Terminated
  <1> QED BY <1>1, <1>2, TypeEnvironment, TypeFactory, TypeEnqueue, TypeSelect, TypeProbe,
             TypeSendBuffer, TypeStop DEF Next

-----------------------------------------------------------------------------
(* Phases *)

LEMMA PhasesInit == Init => Phases
  BY DEF Init, Phases, Phase

LEMMA PhasesEnvironment == TypeOK /\ Phases /\ Environment => Phases'
  BY DEF Phases, Phase, Environment, Crash, Recover, DropDatabase, RestoreDatabase,
         flags, chan, life, send, output

LEMMA PhasesFactory == TypeOK /\ Phases /\ Factory => Phases'
  BY DEF Phases, Phase, Factory, FactoryPing, FactoryTestDb, StartWorkers, TypeOK,
         flags, chan, send, output

LEMMA PhasesEnqueue ==
    ASSUME TypeOK, Phases, NEW r \in Records, Enqueue(r)
    PROVE  Phases'
  BY DEF Phases, Phase, Enqueue, life, send, output

LEMMA PhasesSelect ==
    ASSUME TypeOK, Phases, NEW w \in Workers, Select(w)
    PROVE  Phases'
  <1> USE DEF TypeOK, Phases, Phase, Goto, life, send, output
  <1>1. CASE Loop(w)
    BY <1>1 DEF Loop
  <1>2. CASE ReceiveJob(w)
    BY <1>2 DEF ReceiveJob
  <1>3. CASE FlushTimeout(w)
    BY <1>3 DEF FlushTimeout
  <1>4. CASE ReceiveQuit(w)
    BY <1>4 DEF ReceiveQuit
  <1>5. CASE AckQuit(w)
    BY <1>5 DEF AckQuit
  <1> QED BY <1>1, <1>2, <1>3, <1>4, <1>5 DEF Select

LEMMA PhasesProbe ==
    ASSUME TypeOK, Phases, NEW w \in Workers, Probe(w)
    PROVE  Phases'
  BY DEF Probe, Ping, SetAlive, SetPause, TestDb, SetDb, AfterTestDb,
         TypeOK, Phases, Phase, Goto, life, send, output

LEMMA PhasesSendBuffer ==
    ASSUME TypeOK, Phases, NEW w \in Workers, SendBuffer(w)
    PROVE  Phases'
  <1> USE DEF TypeOK, Phases, Phase, Goto, life, send, output, SendData, EndSend
  <1>1. CASE Post(w)
    BY <1>1 DEF Post
  <1>2. CASE StartOneByOne(w)
    BY <1>2 DEF StartOneByOne, Retrying
  <1>3. CASE SendLine(w)
    <2>0. PICK r \in unsent[w] : \E a \in Reply({r}) : LineSent(w, r, a)
      BY <1>3 DEF SendLine, LineSent
    <2>1. PICK a \in Reply({r}) : LineSent(w, r, a)
      BY <2>0
    <2>2. a.err = "nil" => a.saved = {r}
      BY ReplyFacts
    <2>3. pc[w] = "oneByOne" /\ UNCHANGED <<pc, queries, attempt>>
      BY <1>3 DEF SendLine
    <2>4. queries[w] \subseteq unsent'[w] \cup collected'[w] \cup stored'
      BY <2>1, <2>2, <2>3 DEF LineSent
    <2>5. unsent'[w] \cup collected'[w] \subseteq queries[w]
      BY <2>1, <2>3 DEF LineSent
    <2>6. Phase(w)'
      BY <2>1, <2>3, <2>4, <2>5 DEF LineSent
    <2>7. ASSUME NEW v \in Workers, v # w PROVE Phase(v)'
      <3>1. UNCHANGED <<unsent[v], collected[v], queries[v], pc[v], attempt[v], stopPc, conn>>
        BY <2>1, <2>3, <2>7 DEF LineSent
      <3>2. stored \subseteq stored'
        BY <2>1 DEF LineSent
      <3> QED BY <3>1, <3>2
    <2> QED BY <2>6, <2>7
  <1>4. CASE DumpErrorQueries(w)
    <2>1. Phase(w)'
      BY <1>4 DEF DumpErrorQueries
    <2>2. ASSUME NEW v \in Workers, v # w PROVE Phase(v)'
      BY <1>4, <2>2 DEF DumpErrorQueries
    <2> QED BY <2>1, <2>2
  <1>5. CASE WaitTimeout(w)
    BY <1>5 DEF WaitTimeout, Retrying
  <1>6. CASE WaitInterrupted(w)
    BY <1>6 DEF WaitInterrupted, Retrying
  <1>7. CASE DrainJob(w)
    BY <1>7 DEF DrainJob
  <1>8. CASE DumpRemainingQueries(w)
    BY <1>8 DEF DumpRemainingQueries
  <1>9. CASE Resend(w)
    <2>1. Phase(w)'
      BY <1>9 DEF Resend
    <2>2. ASSUME NEW v \in Workers, v # w PROVE Phase(v)'
      BY <1>9, <2>2 DEF Resend
    <2> QED BY <2>1, <2>2
  <1>10. CASE DumpQueries(w)
    BY <1>10 DEF DumpQueries
  <1> QED BY <1>1, <1>2, <1>3, <1>4, <1>5, <1>6, <1>7, <1>8, <1>9, <1>10 DEF SendBuffer

LEMMA PhasesStop ==
    ASSUME TypeOK, Phases, StopConnector \/ ConnectorStopped \/ \E w \in Workers : PutToken(w)
    PROVE  Phases'
  BY DEF TypeOK, Phases, Phase, StopConnector, ConnectorStopped, PutToken, life, send, output

LEMMA PhasesStep == TypeOK /\ Phases /\ [Next]_vars => Phases'
  <1> SUFFICES ASSUME TypeOK, Phases, [Next]_vars PROVE Phases'
    OBVIOUS
  <1>1. CASE UNCHANGED vars
    BY <1>1 DEF Phases, Phase, vars, life, send, output
  <1>2. CASE Terminated
    BY <1>1, <1>2 DEF Terminated
  <1> QED BY <1>1, <1>2, PhasesEnvironment, PhasesFactory, PhasesEnqueue, PhasesSelect,
             PhasesProbe, PhasesSendBuffer, PhasesStop DEF Next

-----------------------------------------------------------------------------
(* The four things a step can do to the records *)

(* Nothing.  The connector stops only when no worker holds a record.       *)
Still ==
    /\ jobs' = jobs /\ accepted' = accepted /\ Settled' = Settled
    /\ \A v \in Workers : Held(v)' = Held(v)
    /\ conn = "stopped" => conn' = "stopped"
    /\ conn # "stopped" /\ conn' = "stopped" => \A v \in Workers : Held(v) = {}

(* A new record enters the channel.                                        *)
Entered(r) ==
    /\ r \notin accepted
    /\ jobs' = Append(jobs, r) /\ accepted' = accepted \cup {r} /\ Settled' = Settled
    /\ \A v \in Workers : Held(v)' = Held(v)
    /\ conn # "stopped" /\ conn' = conn

(* Worker w takes the record at the head of the channel.                   *)
Taken(w) ==
    /\ jobs # <<>>
    /\ jobs' = Tail(jobs) /\ accepted' = accepted /\ Settled' = Settled
    /\ Held(w)' = Held(w) \cup ({Head(jobs)} \cap Matching)
    /\ \A v \in Workers \ {w} : Held(v)' = Held(v)
    /\ conn # "stopped" /\ conn' = conn

(* Worker w writes some of what it holds, and only lets go of that.        *)
Written(w) ==
    /\ jobs' = jobs /\ accepted' = accepted
    /\ Settled \subseteq Settled' /\ Settled' \subseteq Settled \cup Held(w)
    /\ Held(w)' \subseteq Held(w) /\ Held(w) \subseteq Held(w)' \cup Settled'
    /\ \A v \in Workers \ {w} : Held(v)' = Held(v)
    /\ conn # "stopped" /\ conn' = conn

Effect == Still \/ (\E r \in Records : Entered(r)) \/ (\E w \in Workers : Taken(w) \/ Written(w))

LEMMA EffectEnvironment == Environment \/ Factory => Still
  BY DEF Environment, Crash, Recover, DropDatabase, RestoreDatabase,
         Factory, FactoryPing, FactoryTestDb, StartWorkers,
         Still, Held, Settled, Dumped, flags, chan, life, send, output

LEMMA EffectEnqueue ==
    ASSUME NEW r \in Records, Enqueue(r)
    PROVE  Entered(r)
  BY DEF Enqueue, Entered, Held, Settled, Dumped, life, send, output

(* A worker that still runs has not acknowledged quit.                     *)
LEMMA RunningWorker ==
    ASSUME TypeOK, Phases, NEW w \in Workers, pc[w] # "stopped"
    PROVE  conn # "stopped"
  BY DEF Phases, Phase

LEMMA EffectSelect ==
    ASSUME TypeOK, Phases, NEW w \in Workers, Select(w)
    PROVE  Still \/ Taken(w)
  <1> USE DEF Held, Settled, Dumped, life, send, output
  <1>1. CASE ReceiveJob(w)
    BY <1>1, RunningWorker DEF ReceiveJob, Taken, TypeOK
  <1>2. CASE Loop(w) \/ FlushTimeout(w) \/ ReceiveQuit(w) \/ AckQuit(w)
    BY <1>2 DEF Loop, FlushTimeout, ReceiveQuit, AckQuit, Still, chan
  <1> QED BY <1>1, <1>2 DEF Select

LEMMA EffectProbe ==
    ASSUME NEW w \in Workers, Probe(w)
    PROVE  Still
  BY DEF Probe, Ping, SetAlive, SetPause, TestDb, SetDb, Still, Held, Settled, Dumped,
         chan, life, send, output

LEMMA EffectStop ==
    ASSUME TypeOK, Phases, StopConnector \/ ConnectorStopped \/ \E w \in Workers : PutToken(w)
    PROVE  Still
  BY DEF StopConnector, ConnectorStopped, PutToken, Phases, Phase,
         Still, Held, Settled, Dumped, chan, life, send, output

(* One more copy of the lines S in the dump file settles S.                *)
LEMMA DumpedAfterAppend ==
    ASSUME TypeOK, NEW S \in SUBSET Records, AppendToDump(S)
    PROVE  Dumped' = Dumped \cup S
  BY DEF TypeOK, AppendToDump, Dumped

(* POST of the whole batch, the first time or again: either the batch is   *)
(* stored and let go of, or it is kept.                                    *)
LEMMA EffectOfPost ==
    ASSUME TypeOK, Phases, NEW w \in Workers, pc[w] \in {"post", "resend"},
           NEW a \in Reply(queries[w]), SendData(w, queries[w], a),
           UNCHANGED <<chan, collected>>,
           \/ a.err = "nil" /\ queries' = [queries EXCEPT ![w] = {}]
           \/ UNCHANGED queries
    PROVE  Written(w)
  <1>1. a.saved \subseteq queries[w] /\ (a.err = "nil" => a.saved = queries[w])
    BY ReplyFacts
  <1>2. stored' = stored \cup a.saved /\ UNCHANGED <<dump, errors, conn>>
    BY DEF SendData, life
  <1>3. Settled' = Settled \cup a.saved
    BY <1>2 DEF Settled, Dumped
  <1>4. conn # "stopped"
    BY RunningWorker
  <1>5. \A v \in Workers \ {w} : Held(v)' = Held(v)
    BY DEF TypeOK, Held
  <1>6. Held(w)' \subseteq Held(w) /\ Held(w) \subseteq Held(w)' \cup Settled'
    BY <1>1, <1>3 DEF TypeOK, Held
  <1> QED BY <1>1, <1>2, <1>3, <1>4, <1>5, <1>6 DEF Written, Held, chan

LEMMA EffectSendBuffer ==
    ASSUME TypeOK, Phases, NEW w \in Workers, SendBuffer(w)
    PROVE  Still \/ Taken(w) \/ Written(w)
  <1> USE DEF chan, life, send, output
  <1>1. CASE Post(w)
    <2>1. PICK a \in Reply(queries[w]) :
             /\ SendData(w, queries[w], a)
             /\ \/ a.err = "nil" /\ EndSend(w)
                \/ UNCHANGED queries
      BY <1>1 DEF Post
    <2> QED BY <1>1, <2>1, EffectOfPost DEF Post, EndSend
  <1>2. CASE StartOneByOne(w) \/ WaitTimeout(w)
    BY <1>2 DEF StartOneByOne, WaitTimeout, Still, Held, Settled, Dumped
  <1>3. CASE SendLine(w)
    <2>1. PICK r \in unsent[w] : \E a \in Reply({r}) : LineSent(w, r, a)
      BY <1>3 DEF SendLine, LineSent
    <2>2. PICK a \in Reply({r}) : LineSent(w, r, a)
      BY <2>1
    <2>3. a.saved \subseteq {r}
      BY ReplyFacts
    <2>4. pc[w] = "oneByOne" /\ UNCHANGED <<jobs, accepted, queries>>
      BY <1>3 DEF SendLine
    <2>5. r \in queries[w]
      BY <2>4 DEF Phases, Phase
    <2>6. Settled' = Settled \cup a.saved /\ conn' = conn
      BY <2>2 DEF LineSent, SendData, Settled, Dumped
    <2>7. Held(w)' = Held(w)
      BY <2>2, <2>4, <2>5 DEF LineSent, TypeOK, Held
    <2>8. \A v \in Workers \ {w} : Held(v)' = Held(v)
      BY <2>2, <2>4 DEF LineSent, TypeOK, Held
    <2>9. conn # "stopped"
      BY <2>4, RunningWorker
    <2>10. a.saved \subseteq Held(w)
      BY <2>3, <2>5 DEF Held
    <2> QED BY <2>4, <2>6, <2>7, <2>8, <2>9, <2>10 DEF Written
  <1>4. CASE DumpErrorQueries(w)
    <2>1. Settled' = Settled \cup collected[w]
      BY <1>4 DEF DumpErrorQueries, Settled, Dumped
    <2>2. Held(w)' = {} /\ Held(w) \subseteq collected[w] \cup stored
      BY <1>4 DEF DumpErrorQueries, EndSend, Phases, Phase, TypeOK, Held
    <2>3. \A v \in Workers \ {w} : Held(v)' = Held(v)
      BY <1>4 DEF DumpErrorQueries, EndSend, TypeOK, Held
    <2>4. conn # "stopped"
      BY <1>4, RunningWorker DEF DumpErrorQueries
    <2>5. UNCHANGED <<jobs, accepted, conn, stored>>
      BY <1>4 DEF DumpErrorQueries
    <2>6. collected[w] \subseteq Held(w)
      BY DEF Held
    <2>7. stored \subseteq Settled'
      BY <2>1 DEF Settled
    <2> QED BY <2>1, <2>2, <2>3, <2>4, <2>5, <2>6, <2>7 DEF Written
  <1>5. CASE WaitInterrupted(w)
    <2>1. Held(w)' = Held(w)
      BY <1>5 DEF WaitInterrupted, Retrying, Phases, Phase, TypeOK, Held
    <2>2. \A v \in Workers \ {w} : Held(v)' = Held(v)
      BY <1>5 DEF WaitInterrupted, TypeOK, Held
    <2> QED BY <1>5, <2>1, <2>2 DEF WaitInterrupted, Still, Settled, Dumped
  <1>6. CASE DrainJob(w)
    <2>1. Held(w)' = Held(w) \cup ({Head(jobs)} \cap Matching)
      BY <1>6 DEF DrainJob, TypeOK, Held
    <2>2. \A v \in Workers \ {w} : Held(v)' = Held(v)
      BY <1>6 DEF DrainJob, TypeOK, Held
    <2>3. conn # "stopped"
      BY <1>6, RunningWorker DEF DrainJob
    <2> QED BY <1>6, <2>1, <2>2, <2>3 DEF DrainJob, Taken, Settled, Dumped
  <1>7. CASE DumpRemainingQueries(w)
    <2>1. collected[w] \in SUBSET Records /\ AppendToDump(collected[w])
      BY <1>7, RecordsAssumption DEF DumpRemainingQueries, TypeOK
    <2>2. Settled' = Settled \cup collected[w]
      BY <1>7, <2>1, DumpedAfterAppend DEF DumpRemainingQueries, Settled
    <2>3. Held(w)' = queries[w] /\ Held(w) = queries[w] \cup collected[w]
      BY <1>7 DEF DumpRemainingQueries, TypeOK, Held
    <2>4. \A v \in Workers \ {w} : Held(v)' = Held(v)
      BY <1>7 DEF DumpRemainingQueries, TypeOK, Held
    <2>5. conn # "stopped"
      BY <1>7, RunningWorker DEF DumpRemainingQueries
    <2>6. UNCHANGED <<jobs, accepted, conn>>
      BY <1>7 DEF DumpRemainingQueries
    <2> QED BY <2>2, <2>3, <2>4, <2>5, <2>6 DEF Written
  <1>8. CASE Resend(w)
    <2>1. PICK a \in Reply(queries[w]) :
             /\ SendData(w, queries[w], a)
             /\ \/ a.err = "nil" /\ EndSend(w)
                \/ UNCHANGED queries
      BY <1>8 DEF Resend
    <2> QED BY <1>8, <2>1, EffectOfPost DEF Resend, EndSend
  <1>9. CASE DumpQueries(w)
    <2>1. queries[w] \in SUBSET Records /\ AppendToDump(queries[w])
      BY <1>9, RecordsAssumption DEF DumpQueries, TypeOK
    <2>2. Settled' = Settled \cup queries[w]
      BY <1>9, <2>1, DumpedAfterAppend DEF DumpQueries, Settled
    <2>3. Held(w)' = {} /\ Held(w) = queries[w]
      BY <1>9 DEF DumpQueries, EndSend, Phases, Phase, TypeOK, Held
    <2>4. \A v \in Workers \ {w} : Held(v)' = Held(v)
      BY <1>9 DEF DumpQueries, EndSend, TypeOK, Held
    <2>5. conn # "stopped"
      BY <1>9, RunningWorker DEF DumpQueries
    <2>6. UNCHANGED <<jobs, accepted, conn>>
      BY <1>9 DEF DumpQueries
    <2> QED BY <2>2, <2>3, <2>4, <2>5, <2>6 DEF Written
  <1> QED BY <1>1, <1>2, <1>3, <1>4, <1>5, <1>6, <1>7, <1>8, <1>9 DEF SendBuffer

LEMMA EffectStep == TypeOK /\ Phases /\ [Next]_vars => Effect
  <1> SUFFICES ASSUME TypeOK, Phases, [Next]_vars PROVE Effect
    OBVIOUS
  <1>1. CASE UNCHANGED vars
    BY <1>1 DEF Effect, Still, Held, Settled, Dumped, vars, chan, life, send, output
  <1>2. CASE Terminated
    BY <1>1, <1>2 DEF Terminated
  <1> QED BY <1>1, <1>2, EffectEnvironment, EffectEnqueue, EffectSelect, EffectProbe,
             EffectSendBuffer, EffectStop DEF Effect, Next

-----------------------------------------------------------------------------
(* No record is lost, and each is in one place *)

LEMMA NoLossStep == TypeOK /\ NoSilentLoss /\ Effect => NoSilentLoss'
  <1> SUFFICES ASSUME TypeOK, NoSilentLoss, Effect,
                      NEW r \in Matching, r \in accepted',
                      r \notin Range(jobs)', r \notin Settled'
               PROVE  \E v \in Workers : r \in Held(v)'
    BY DEF NoSilentLoss
  <1>1. CASE Still
    BY <1>1 DEF Still, NoSilentLoss
  <1>2. ASSUME NEW e \in Records, Entered(e) PROVE \E v \in Workers : r \in Held(v)'
    <2>1. Range(jobs)' = Range(jobs) \cup {e}
      BY <1>2, RangeAppend DEF Entered, TypeOK
    <2> QED BY <1>2, <2>1 DEF Entered, NoSilentLoss
  <1>3. ASSUME NEW w \in Workers, Taken(w) PROVE \E v \in Workers : r \in Held(v)'
    <2>1. Range(jobs) = {Head(jobs)} \cup Range(jobs)'
      BY <1>3, RangeTail DEF Taken, TypeOK
    <2>2. CASE r = Head(jobs)
      BY <1>3, <2>2 DEF Taken
    <2>3. CASE r # Head(jobs)
      <3>1. PICK v \in Workers : r \in Held(v)
        BY <1>3, <2>1, <2>3 DEF Taken, NoSilentLoss
      <3>2. r \in Held(v)'
        BY <1>3, <3>1 DEF Taken
      <3> QED BY <3>2
    <2> QED BY <2>2, <2>3
  <1>4. ASSUME NEW w \in Workers, Written(w) PROVE \E v \in Workers : r \in Held(v)'
    <2>1. PICK v \in Workers : r \in Held(v)
      BY <1>4 DEF Written, NoSilentLoss
    <2>2. r \in Held(v)'
      BY <1>4, <2>1 DEF Written
    <2> QED BY <2>2
  <1> QED BY <1>1, <1>2, <1>3, <1>4 DEF Effect

LEMMA OwnershipStep == TypeOK /\ Ownership /\ Effect => Ownership'
  <1> SUFFICES ASSUME TypeOK, Ownership, Effect PROVE Ownership'
    OBVIOUS
  <1>1. CASE Still
    BY <1>1 DEF Still, Ownership
  <1>2. ASSUME NEW e \in Records, Entered(e) PROVE Ownership'
    <2>1. Range(jobs)' = Range(jobs) \cup {e}
      BY <1>2, RangeAppend DEF Entered, TypeOK
    <2>2. e \notin Range(jobs) \cup Settled /\ \A v \in Workers : e \notin Held(v)
      BY <1>2 DEF Entered, Ownership
    <2>3. \A i, j \in 1..Len(jobs') : jobs'[i] = jobs'[j] => i = j
      <3>1. Len(jobs) \in Nat /\ Len(jobs') = Len(jobs) + 1 /\ jobs'[Len(jobs) + 1] = e
        BY <1>2 DEF Entered, TypeOK
      <3>2. \A i \in 1..Len(jobs) : jobs'[i] = jobs[i]
        BY <1>2 DEF Entered, TypeOK
      <3>3. \A i \in 1..Len(jobs) : jobs[i] # e
        BY <2>2 DEF Range, TypeOK
      <3> QED BY <3>1, <3>2, <3>3 DEF Ownership
    <2> QED BY <1>2, <2>1, <2>2, <2>3 DEF Entered, Ownership
  <1>3. ASSUME NEW w \in Workers, Taken(w) PROVE Ownership'
    <2>1. Range(jobs) = {Head(jobs)} \cup Range(jobs)'
      BY <1>3, RangeTail DEF Taken, TypeOK
    <2>2. /\ Head(jobs) \notin Range(jobs)'
          /\ \A i, j \in 1..Len(jobs') : jobs'[i] = jobs'[j] => i = j
      BY <1>3, HeadNotInTail DEF Taken, TypeOK, Ownership
    <2>3. \A v \in Workers : Held(v)' \subseteq Held(v) \cup {Head(jobs)}
      BY <1>3 DEF Taken
    <2>4. ASSUME NEW u \in Workers, NEW v \in Workers \ {u} PROVE Held(v)' \cap Held(u)' = {}
      BY <1>3, <2>1 DEF Taken, Ownership
    <2> QED BY <1>3, <2>1, <2>2, <2>3, <2>4 DEF Taken, Ownership
  <1>4. ASSUME NEW w \in Workers, Written(w) PROVE Ownership'
    <2>1. \A v \in Workers : Held(v)' \subseteq Held(v)
      BY <1>4 DEF Written
    <2>2. Held(w) \subseteq Matching
      BY DEF TypeOK, Held
    <2> QED BY <1>4, <2>1, <2>2 DEF Written, Ownership
  <1> QED BY <1>1, <1>2, <1>3, <1>4 DEF Effect

-----------------------------------------------------------------------------
(* The copies in the dump file *)

(* A step that leaves the dump file, the batches and the rounds alone and  *)
(* takes no worker out of "resend".                                        *)
LEMMA CopiesUntouched ==
    ASSUME Copies, UNCHANGED <<dump, queries, collected, attempt>>,
           \A v \in Workers : pc[v] = "resend" => pc'[v] = "resend",
           TypeOK
    PROVE  Copies'
  <1>1. DumpCopiesBounded'
    BY DEF Copies, DumpCopiesBounded
  <1>2. ASSUME NEW v \in Workers PROVE CopiesOf(v)'
    <2>1. attempt[v] \in 0..2
      BY DEF TypeOK
    <2>2. queries[v] \subseteq Records
      BY RecordsAssumption DEF TypeOK
    <2>3. \A r \in Records : dump[r] \in Nat
      BY DEF TypeOK
    <2> QED BY <2>1, <2>2, <2>3 DEF Copies, CopiesOf
  <1> QED BY <1>1, <1>2 DEF Copies

(* A step of worker w that leaves the dump file and the others alone and   *)
(* ends the batch of w.                                                    *)
LEMMA CopiesEndSend ==
    ASSUME TypeOK, Copies, NEW w \in Workers, EndSend(w), UNCHANGED dump,
           \/ UNCHANGED collected /\ collected[w] = {}
           \/ collected' = [collected EXCEPT ![w] = {}]
    PROVE  Copies'
  <1>1. DumpCopiesBounded'
    BY DEF Copies, DumpCopiesBounded
  <1>2. ASSUME NEW v \in Workers PROVE CopiesOf(v)'
    BY DEF TypeOK, Copies, CopiesOf, EndSend, Goto
  <1> QED BY <1>1, <1>2 DEF Copies

(* A record that waits in the channel has no copy in the dump file.        *)
LEMMA HeadNotDumped ==
    ASSUME TypeOK, Ownership, jobs # <<>>
    PROVE  dump[Head(jobs)] = 0
  <1>1. Head(jobs) \in Range(jobs) /\ Head(jobs) \in Records
    BY RangeTail DEF TypeOK
  <1>2. Head(jobs) \notin Dumped
    BY <1>1 DEF Ownership, Settled
  <1> QED BY <1>1, <1>2 DEF TypeOK, Dumped

LEMMA CopiesSelect ==
    ASSUME TypeOK, Ownership, Copies, NEW w \in Workers, Select(w)
    PROVE  Copies'
  <1>1. CASE ReceiveJob(w)
    <2>1. dump[Head(jobs)] = 0
      BY <1>1, HeadNotDumped DEF ReceiveJob
    <2>2. DumpCopiesBounded'
      BY <1>1 DEF ReceiveJob, output, Copies, DumpCopiesBounded
    <2>3. ASSUME NEW v \in Workers PROVE CopiesOf(v)'
      <3>1. attempt[v] \in Nat /\ UNCHANGED <<attempt, dump, collected>>
        BY <1>1 DEF ReceiveJob, output, TypeOK
      <3>2. queries'[v] \subseteq queries[v] \cup {Head(jobs)} /\ queries[v] \subseteq queries'[v]
        BY <1>1 DEF ReceiveJob, TypeOK
      <3>3. pc[v] = "resend" <=> pc'[v] = "resend"
        BY <1>1 DEF ReceiveJob, TypeOK, Goto
      <3> QED BY <2>1, <3>1, <3>2, <3>3 DEF Copies, CopiesOf
    <2> QED BY <2>2, <2>3 DEF Copies
  <1>2. CASE Loop(w) \/ FlushTimeout(w) \/ ReceiveQuit(w) \/ AckQuit(w)
    BY <1>2, CopiesUntouched
       DEF Loop, FlushTimeout, ReceiveQuit, AckQuit, TypeOK, Goto, send, output
  <1> QED BY <1>1, <1>2 DEF Select

LEMMA CopiesProbe ==
    ASSUME TypeOK, Copies, NEW w \in Workers, Probe(w)
    PROVE  Copies'
  BY CopiesUntouched
     DEF Probe, Ping, SetAlive, SetPause, TestDb, SetDb, TypeOK, Goto, send, output

LEMMA CopiesOthers ==
    ASSUME TypeOK, Phases, Copies,
           \/ Environment \/ Factory \/ StopConnector \/ ConnectorStopped
           \/ \E r \in Records : Enqueue(r)
           \/ \E w \in Workers : PutToken(w)
    PROVE  Copies'
  <1>1. UNCHANGED <<dump, queries, collected, attempt>>
    BY DEF Environment, Crash, Recover, DropDatabase, RestoreDatabase, Factory, FactoryPing,
           FactoryTestDb, StopConnector, ConnectorStopped, Enqueue, PutToken, send, output
  <1>2. \A v \in Workers : pc[v] = "resend" => pc'[v] = "resend"
    BY DEF Environment, Crash, Recover, DropDatabase, RestoreDatabase, Factory, FactoryPing,
           FactoryTestDb, StopConnector, ConnectorStopped, Enqueue, PutToken, Phases, Phase
  <1> QED BY <1>1, <1>2, CopiesUntouched

LEMMA CopiesSendBuffer ==
    ASSUME TypeOK, Phases, Ownership, Copies, NEW w \in Workers, SendBuffer(w)
    PROVE  Copies'
  <1>1. CASE Post(w)
    <2>1. pc[w] = "post" /\ UNCHANGED <<collected, dump>> /\ collected[w] = {}
      BY <1>1 DEF Post, SendData, Phases, Phase
    <2>2. CASE EndSend(w)
      BY <2>1, <2>2, CopiesEndSend
    <2>3. CASE Goto(w, "ping") /\ UNCHANGED <<queries, attempt>>
      BY <2>1, <2>3, CopiesUntouched DEF TypeOK, Goto
    <2> QED BY <1>1, <2>2, <2>3 DEF Post
  <1>2. CASE StartOneByOne(w) \/ WaitTimeout(w)
    BY <1>2, CopiesUntouched DEF StartOneByOne, WaitTimeout, Retrying, TypeOK, Goto, send, output
  <1>3. CASE SendLine(w)
    <2>1. PICK r \in unsent[w] : \E a \in Reply({r}) : LineSent(w, r, a)
      BY <1>3 DEF SendLine, LineSent
    <2>2. UNCHANGED dump /\ \A v \in Workers : collected'[v] \subseteq collected[v] \cup queries[v]
      BY <1>3, <2>1 DEF SendLine, LineSent, SendData, TypeOK, Phases, Phase
    <2>3. UNCHANGED <<pc, queries, attempt>>
      BY <1>3 DEF SendLine
    <2>4. DumpCopiesBounded'
      BY <2>2 DEF Copies, DumpCopiesBounded
    <2>5. ASSUME NEW v \in Workers PROVE CopiesOf(v)'
      BY <2>2, <2>3 DEF Copies, CopiesOf
    <2> QED BY <2>4, <2>5 DEF Copies
  <1>4. CASE DumpErrorQueries(w)
    BY <1>4, CopiesEndSend DEF DumpErrorQueries
  <1>5. CASE WaitInterrupted(w)
    <2>1. UNCHANGED <<dump, queries, attempt>> /\ pc' = [pc EXCEPT ![w] = "drain"]
      BY <1>5 DEF WaitInterrupted, Goto, output
    <2>2. pc[w] # "resend" /\ collected' = [collected EXCEPT ![w] = queries[w]]
      BY <1>5 DEF WaitInterrupted, Retrying
    <2>3. DumpCopiesBounded'
      BY <2>1 DEF Copies, DumpCopiesBounded
    <2>4. ASSUME NEW v \in Workers PROVE CopiesOf(v)'
      BY <2>1, <2>2 DEF Copies, CopiesOf, TypeOK
    <2> QED BY <2>3, <2>4 DEF Copies
  <1>6. CASE DrainJob(w)
    <2>1. dump[Head(jobs)] = 0
      BY <1>6, HeadNotDumped DEF DrainJob
    <2>2. UNCHANGED <<dump, queries, attempt, pc>>
      BY <1>6 DEF DrainJob, output
    <2>3. \A v \in Workers : collected'[v] \subseteq collected[v] \cup {Head(jobs)}
      BY <1>6 DEF DrainJob, TypeOK
    <2>4. DumpCopiesBounded'
      BY <2>2 DEF Copies, DumpCopiesBounded
    <2>5. ASSUME NEW v \in Workers PROVE CopiesOf(v)'
      BY <2>1, <2>2, <2>3 DEF Copies, CopiesOf
    <2> QED BY <2>4, <2>5 DEF Copies
  <1>7. CASE DumpRemainingQueries(w)
    <2>1. /\ UNCHANGED <<queries, attempt>>
          /\ pc[w] = "drain" /\ pc' = [pc EXCEPT ![w] = "resend"]
          /\ collected' = [collected EXCEPT ![w] = {}]
      BY <1>7 DEF DumpRemainingQueries, Goto
    <2>2. \A r \in Records : dump'[r] = IF r \in collected[w] THEN dump[r] + 1 ELSE dump[r]
      BY <1>7 DEF DumpRemainingQueries, AppendToDump
    <2>3. \A r \in collected[w] : dump[r] <= 1
      <3>1. attempt[w] \in 0..1
        BY <2>1 DEF Phases, Phase, TypeOK
      <3>2. ASSUME NEW r \in queries[w] PROVE dump[r] <= 1
        <4>1. dump[r] <= attempt[w] + 0
          BY <2>1 DEF Copies, CopiesOf
        <4>2. dump[r] \in Nat
          BY RecordsAssumption DEF TypeOK
        <4> QED BY <3>1, <4>1, <4>2
      <3>3. \A r \in collected[w] \ queries[w] : dump[r] <= 1
        BY DEF Copies, CopiesOf
      <3> QED BY <3>2, <3>3
    <2>4. DumpCopiesBounded'
      BY <2>2, <2>3 DEF Copies, DumpCopiesBounded, TypeOK
    <2>5. CopiesOf(w)'
      <3>1. ASSUME NEW r \in queries[w] PROVE dump'[r] <= attempt[w] + 1
        <4>1. dump[r] <= attempt[w] + 0
          BY <2>1 DEF Copies, CopiesOf
        <4>2. dump[r] \in Nat /\ attempt[w] \in Nat /\ r \in Records
          BY RecordsAssumption DEF TypeOK
        <4> QED BY <2>2, <4>1, <4>2
      <3> QED BY <2>1, <3>1 DEF CopiesOf, TypeOK
    <2>6. ASSUME NEW v \in Workers, v # w PROVE CopiesOf(v)'
      <3>1. \A r \in Held(v) : r \in Records /\ r \notin collected[w]
        BY <2>6, RecordsAssumption DEF Ownership, Held, TypeOK
      <3>2. \A r \in Held(v) : dump'[r] = dump[r]
        BY <2>2, <3>1
      <3>3. UNCHANGED <<queries[v], collected[v], attempt[v], pc[v]>>
        BY <2>1, <2>6 DEF TypeOK
      <3> QED BY <3>2, <3>3 DEF Copies, CopiesOf, Held
    <2> QED BY <2>4, <2>5, <2>6 DEF Copies
  <1>8. CASE Resend(w)
    <2>1. pc[w] = "resend" /\ UNCHANGED <<collected, dump>> /\ collected[w] = {}
      BY <1>8 DEF Resend, SendData, Phases, Phase
    <2>2. CASE EndSend(w)
      BY <2>1, <2>2, CopiesEndSend
    <2>3. CASE /\ attempt' = [attempt EXCEPT ![w] = @ + 1]
               /\ Goto(w, "retry") /\ UNCHANGED queries
      <3>1. DumpCopiesBounded'
        BY <2>1 DEF Copies, DumpCopiesBounded
      <3>2. ASSUME NEW v \in Workers PROVE CopiesOf(v)'
        BY <2>1, <2>3 DEF Copies, CopiesOf, TypeOK, Goto
      <3> QED BY <3>1, <3>2 DEF Copies
    <2> QED BY <1>8, <2>2, <2>3 DEF Resend
  <1>9. CASE DumpQueries(w)
    <2>1. pc[w] = "retry" /\ attempt[w] = 2 /\ EndSend(w) /\ UNCHANGED collected
      BY <1>9 DEF DumpQueries
    <2>2. \A r \in Records : dump'[r] = IF r \in queries[w] THEN dump[r] + 1 ELSE dump[r]
      BY <1>9 DEF DumpQueries, AppendToDump
    <2>3. \A r \in queries[w] : dump[r] <= 2
      BY <2>1 DEF Copies, CopiesOf
    <2>4. DumpCopiesBounded'
      BY <2>2, <2>3 DEF Copies, DumpCopiesBounded, TypeOK
    <2>5. CopiesOf(w)'
      BY <2>1 DEF EndSend, CopiesOf, Phases, Phase, TypeOK
    <2>6. ASSUME NEW v \in Workers, v # w PROVE CopiesOf(v)'
      <3>1. \A r \in Held(v) : r \in Records /\ r \notin queries[w]
        BY <2>6, RecordsAssumption DEF Ownership, Held, TypeOK
      <3>2. \A r \in Held(v) : dump'[r] = dump[r]
        BY <2>2, <3>1
      <3>3. UNCHANGED <<queries[v], collected[v], attempt[v], pc[v]>>
        BY <2>1, <2>6 DEF TypeOK, EndSend, Goto
      <3> QED BY <3>2, <3>3 DEF Copies, CopiesOf, Held
    <2> QED BY <2>4, <2>5, <2>6 DEF Copies
  <1> QED BY <1>1, <1>2, <1>3, <1>4, <1>5, <1>6, <1>7, <1>8, <1>9 DEF SendBuffer

LEMMA CopiesStep == TypeOK /\ Phases /\ Ownership /\ Copies /\ [Next]_vars => Copies'
  <1> SUFFICES ASSUME TypeOK, Phases, Ownership, Copies, [Next]_vars PROVE Copies'
    OBVIOUS
  <1>1. CASE UNCHANGED vars
    BY <1>1, CopiesUntouched DEF vars, send, output
  <1>2. CASE Terminated
    BY <1>1, <1>2 DEF Terminated
  <1> QED BY <1>1, <1>2, CopiesOthers, CopiesSelect, CopiesProbe, CopiesSendBuffer DEF Next

-----------------------------------------------------------------------------
(* Bad lines are isolated *)

(* The database answers 400 only when it is up, and refuses a single good  *)
(* line then only when it misbehaves.                                      *)
LEMMA ReplyWhenHealthy ==
    ASSUME TypeOK, NEW S, NEW a \in Reply(S)
    PROVE  /\ a.err = "badRequest" => Healthy
           /\ Healthy /\ a.fault = 0 /\ S \cap Bad = {} => a.err = "nil"
           /\ a.fault \in {0, 1}
  BY DEF Reply, Healthy, TypeOK

(* A step that does not touch what Isolation is about, except that the     *)
(* database may recover or misbehave.                                      *)
LEMMA IsolationUntouched ==
    ASSUME TypeOK, Isolation, UNCHANGED <<errors, sendErr, collected>>,
           faults' = 0 => faults = 0 /\ (Healthy => Healthy'),
           \A v \in Workers : pc'[v] = "oneByOne" => pc[v] = "oneByOne"
    PROVE  Isolation'
  BY DEF Isolation

LEMMA IsolationOthers ==
    ASSUME TypeOK, Phases, Isolation,
           \/ Environment \/ Factory \/ StopConnector \/ ConnectorStopped
           \/ \E r \in Records : Enqueue(r)
           \/ \E w \in Workers : PutToken(w)
    PROVE  Isolation'
  <1>1. UNCHANGED <<errors, sendErr, collected>>
    BY DEF Environment, Crash, Recover, DropDatabase, RestoreDatabase, Factory, FactoryPing,
           FactoryTestDb, StopConnector, ConnectorStopped, Enqueue, PutToken, send, output
  <1>2. \A v \in Workers : pc'[v] = "oneByOne" => pc[v] = "oneByOne"
    BY DEF Environment, Crash, Recover, DropDatabase, RestoreDatabase, Factory, FactoryPing,
           FactoryTestDb, StartWorkers, StopConnector, ConnectorStopped, Enqueue, PutToken
  <1>3. faults' = 0 => faults = 0 /\ (Healthy => Healthy')
    BY DEF Environment, Crash, Recover, DropDatabase, RestoreDatabase, Factory, FactoryPing,
           FactoryTestDb, StopConnector, ConnectorStopped, Enqueue, PutToken, env,
           Healthy, TypeOK
  <1> QED BY <1>1, <1>2, <1>3, IsolationUntouched

LEMMA IsolationSelect ==
    ASSUME TypeOK, Isolation, NEW w \in Workers, Select(w) \/ Probe(w)
    PROVE  Isolation'
  <1>1. UNCHANGED <<errors, sendErr, collected, env>>
    BY DEF Select, Loop, ReceiveJob, FlushTimeout, ReceiveQuit, AckQuit,
           Probe, Ping, SetAlive, SetPause, TestDb, SetDb, send, output
  <1>2. \A v \in Workers : pc'[v] = "oneByOne" => pc[v] = "oneByOne"
    BY DEF Select, Loop, ReceiveJob, FlushTimeout, ReceiveQuit, AckQuit,
           Probe, Ping, SetAlive, SetPause, TestDb, SetDb, AfterTestDb, Goto, TypeOK
  <1> QED BY <1>1, <1>2, IsolationUntouched DEF env, Healthy

(* sendData with any reply: the database itself does not change, and a     *)
(* fault is counted.                                                       *)
LEMMA IsolationPost ==
    ASSUME TypeOK, Isolation, NEW w \in Workers, NEW S, NEW a \in Reply(S),
           SendData(w, S, a), UNCHANGED collected, pc[w] # "oneByOne",
           \/ EndSend(w)
           \/ /\ sendErr' = [sendErr EXCEPT ![w] = a.err]
              /\ Goto(w, "ping") \/ Goto(w, "retry")
    PROVE  Isolation'
  <1>1. UNCHANGED <<errors, server, dbThere>> /\ faults' = faults + a.fault
    BY DEF SendData
  <1>2. faults' = 0 => faults = 0
    BY <1>1, ReplyWhenHealthy DEF TypeOK
  <1>3. ASSUME NEW v \in Workers PROVE pc'[v] = "oneByOne" => v # w /\ pc[v] = "oneByOne"
    BY DEF EndSend, Goto, TypeOK
  <1>4. ASSUME NEW v \in Workers PROVE sendErr'[v] = "badRequest" =>
                \/ v # w /\ sendErr[v] = "badRequest"
                \/ v = w /\ a.err = "badRequest"
    BY DEF EndSend, TypeOK
  <1>5. ASSUME NEW v \in Workers, v # w PROVE sendErr'[v] = sendErr[v]
    BY <1>5 DEF EndSend, TypeOK
  <1> QED BY <1>1, <1>2, <1>3, <1>4, <1>5, ReplyWhenHealthy DEF Isolation, Healthy

LEMMA IsolationSendBuffer ==
    ASSUME TypeOK, Phases, Isolation, NEW w \in Workers, SendBuffer(w)
    PROVE  Isolation'
  <1>1. CASE Post(w)
    <2>1. PICK a \in Reply(queries[w]) :
             /\ SendData(w, queries[w], a)
             /\ \/ EndSend(w)
                \/ sendErr' = [sendErr EXCEPT ![w] = a.err] /\ Goto(w, "ping")
      BY <1>1 DEF Post
    <2> QED BY <1>1, <2>1, IsolationPost DEF Post
  <1>2. CASE StartOneByOne(w)
    <2>1. /\ UNCHANGED <<env, errors, sendErr, collected>> /\ pc' = [pc EXCEPT ![w] = "oneByOne"]
          /\ sendErr[w] = "badRequest" /\ collected[w] = {}
      BY <1>2 DEF StartOneByOne, Retrying, Goto, output, Phases, Phase
    <2> QED BY <2>1 DEF Isolation, Healthy, env, TypeOK
  <1>3. CASE SendLine(w)
    <2>1. PICK r \in unsent[w] : \E a \in Reply({r}) : LineSent(w, r, a)
      BY <1>3 DEF SendLine, LineSent
    <2>2. PICK a \in Reply({r}) : LineSent(w, r, a)
      BY <2>1
    <2>3. /\ pc[w] = "oneByOne" /\ UNCHANGED <<pc, sendErr, errors, server, dbThere>>
          /\ faults' = faults + a.fault
          /\ collected' = [collected EXCEPT ![w] = IF a.err = "nil" THEN @ ELSE @ \cup {r}]
      BY <1>3, <2>2 DEF SendLine, LineSent, SendData
    <2>4. faults' = 0 => faults = 0 /\ a.fault = 0
      BY <2>3, ReplyWhenHealthy DEF TypeOK
    <2>5. faults' = 0 => a.err = "nil" \/ r \in Bad
      BY <2>3, <2>4, ReplyWhenHealthy DEF Isolation
    <2> QED BY <2>3, <2>4, <2>5 DEF Isolation, Healthy, TypeOK
  <1>4. CASE DumpErrorQueries(w)
    <2>1. /\ pc[w] = "oneByOne" /\ UNCHANGED env /\ errors' = errors \cup collected[w]
          /\ collected' = [collected EXCEPT ![w] = {}]
          /\ sendErr' = [sendErr EXCEPT ![w] = "nil"]
          /\ \A v \in Workers : pc'[v] = "oneByOne" => pc[v] = "oneByOne" /\ v # w
      BY <1>4 DEF DumpErrorQueries, EndSend, Goto, TypeOK
    <2> QED BY <2>1 DEF Isolation, Healthy, env, TypeOK
  <1>5. CASE WaitTimeout(w)
    BY <1>5, IsolationUntouched DEF WaitTimeout, Goto, TypeOK, env, send, output, Healthy
  <1>6. CASE WaitInterrupted(w) \/ DrainJob(w) \/ DumpRemainingQueries(w)
    <2>1. UNCHANGED <<env, errors, sendErr>>
      BY <1>6 DEF WaitInterrupted, DrainJob, DumpRemainingQueries, output
    <2>2. \A v \in Workers : pc'[v] = "oneByOne" =>
             pc[v] = "oneByOne" /\ collected'[v] = collected[v]
      BY <1>6 DEF WaitInterrupted, DrainJob, DumpRemainingQueries, Retrying, Goto, TypeOK
    <2> QED BY <2>1, <2>2 DEF Isolation, Healthy, env
  <1>7. CASE Resend(w)
    <2>1. PICK a \in Reply(queries[w]) :
             /\ SendData(w, queries[w], a)
             /\ \/ EndSend(w)
                \/ sendErr' = [sendErr EXCEPT ![w] = a.err] /\ Goto(w, "retry")
      BY <1>7 DEF Resend
    <2> QED BY <1>7, <2>1, IsolationPost DEF Resend
  <1>8. CASE DumpQueries(w)
    <2>1. /\ UNCHANGED <<env, errors, collected>>
          /\ sendErr' = [sendErr EXCEPT ![w] = "nil"]
          /\ \A v \in Workers : pc'[v] = "oneByOne" => pc[v] = "oneByOne" /\ v # w
      BY <1>8 DEF DumpQueries, EndSend, Goto, TypeOK
    <2> QED BY <2>1 DEF Isolation, Healthy, env, TypeOK
  <1> QED BY <1>1, <1>2, <1>3, <1>4, <1>5, <1>6, <1>7, <1>8 DEF SendBuffer

LEMMA IsolationStep == TypeOK /\ Phases /\ Isolation /\ [Next]_vars => Isolation'
  <1> SUFFICES ASSUME TypeOK, Phases, Isolation, [Next]_vars PROVE Isolation'
    OBVIOUS
  <1>1. CASE UNCHANGED vars
    BY <1>1, IsolationUntouched DEF vars, env, send, output, Healthy
  <1>2. CASE Terminated
    BY <1>1, <1>2 DEF Terminated
  <1> QED BY <1>1, <1>2, IsolationOthers, IsolationSelect, IsolationSendBuffer DEF Next

-----------------------------------------------------------------------------
(* The theorems *)

LEMMA IndInvInit == Init => IndInv
  <1> SUFFICES ASSUME Init PROVE IndInv
    OBVIOUS
  <1>1. Range(jobs) = {}
    BY DEF Init, Range
  <1>2. Settled = {} /\ \A w \in Workers : Held(w) = {}
    BY DEF Init, Settled, Dumped, Held
  <1>3. NoSilentLoss
    BY DEF Init, NoSilentLoss
  <1>4. Ownership
    BY <1>1, <1>2 DEF Init, Ownership
  <1>5. Copies
    BY DEF Init, Copies, CopiesOf, DumpCopiesBounded
  <1>6. Isolation
    BY DEF Init, Isolation
  <1> QED BY <1>3, <1>4, <1>5, <1>6, TypeInit, PhasesInit DEF IndInv

LEMMA IndInvStep == IndInv /\ [Next]_vars => IndInv'
  BY TypeStep, PhasesStep, EffectStep, NoLossStep, OwnershipStep, CopiesStep, IsolationStep
     DEF IndInv

LEMMA Invariance == Spec => []IndInv
  BY IndInvInit, IndInvStep, PTL DEF Spec

(* Every variable keeps its type: in particular the channel never holds    *)
(* more than its capacity, and sendBuffer makes at most two more rounds.   *)
THEOREM TypeCorrect == Spec => []TypeOK
  <1>1. IndInv => TypeOK
    BY DEF IndInv
  <1> QED BY <1>1, Invariance, PTL

(* No record that a collector handed over to the target disappears: not in *)
(* a retry, not in the dumps, not when a stop interrupts the retries,      *)
(* however many workers there are.                                         *)
THEOREM NoRecordLost == Spec => []NoSilentLoss
  <1>1. IndInv => NoSilentLoss
    BY DEF IndInv
  <1> QED BY <1>1, Invariance, PTL

(* When every Worker.Stop has returned, only what still waits in the       *)
(* channel is not written anywhere.                                        *)
THEOREM StopSettles == Spec => []StoppedIsSettled
  <1>1. IndInv => StoppedIsSettled
    <2> SUFFICES ASSUME IndInv, \A w \in Workers : stopPc[w] = "done",
                        NEW r \in accepted \cap Matching
                 PROVE  r \in Range(jobs) \cup Settled
      BY DEF StoppedIsSettled
    <2>1. \A w \in Workers : Held(w) = {}
      BY DEF IndInv, Phases, Phase, Held
    <2> QED BY <2>1 DEF IndInv, NoSilentLoss
  <1> QED BY <1>1, Invariance, PTL

(* A record is written to the dump file at most three times.               *)
THEOREM DumpsBounded == Spec => []DumpCopiesBounded
  <1>1. IndInv => DumpCopiesBounded
    BY DEF IndInv, Copies
  <1> QED BY <1>1, Invariance, PTL

(* Without a fault of the database only bad lines get to the "-errors"     *)
(* file.                                                                   *)
THEOREM BadLinesIsolated == Spec => []BadIsolated
  <1>1. IndInv => BadIsolated
    BY DEF IndInv, Isolation, BadIsolated
  <1> QED BY <1>1, Invariance, PTL

-----------------------------------------------------------------------------
(* The target keeps the promise of Forwarder *)

(* The records in the hands of the workers, as the refinement maps them.   *)
InHands == {r \in Matching : \E w \in Workers : r \in Held(w)} \ Settled

LEMMA PromiseInit == Init => Promise!FInit
  <1> SUFFICES ASSUME Init PROVE Promise!FInit
    OBVIOUS
  <1>1. Range(jobs) = {}
    BY DEF Init, Range
  <1>2. Settled = {} /\ \A w \in Workers : Held(w) = {}
    BY DEF Init, Settled, Dumped, Held
  <1> QED BY <1>1, <1>2 DEF Init, Promise!FInit

LEMMA PromiseStill ==
    ASSUME IndInv, Still, conn' \in ConnStates
    PROVE  Promise!Close \/ UNCHANGED Promise!fvars
  <1>1. Range(jobs)' = Range(jobs) /\ Settled' = Settled /\ InHands' = InHands
    BY DEF Still, InHands
  <1>2. CASE (conn # "stopped") = (conn' # "stopped")
    BY <1>1, <1>2 DEF Promise!fvars, InHands
  <1>3. CASE conn # "stopped" /\ conn' = "stopped"
    <2>1. InHands = {}
      BY <1>3 DEF Still, InHands
    <2> QED BY <1>1, <1>3, <2>1 DEF Promise!Close, InHands
  <1> QED BY <1>2, <1>3 DEF Still

LEMMA PromiseEntered ==
    ASSUME IndInv, NEW e \in Records, Entered(e)
    PROVE  (e \in Matching /\ Promise!Accept(e)) \/ UNCHANGED Promise!fvars
  <1>1. Range(jobs)' = Range(jobs) \cup {e}
    BY RangeAppend DEF Entered, IndInv, TypeOK
  <1>2. Settled' = Settled /\ InHands' = InHands /\ (conn # "stopped")' = (conn # "stopped")
    BY DEF Entered, InHands
  <1>3. e \notin Range(jobs) \cup InHands \cup Settled
    BY DEF Entered, IndInv, Ownership, InHands
  <1>4. CASE e \in Matching
    BY <1>1, <1>2, <1>3, <1>4 DEF Promise!Accept, InHands, Entered
  <1>5. CASE e \notin Matching
    BY <1>1, <1>2, <1>5 DEF Promise!fvars, InHands
  <1> QED BY <1>4, <1>5

LEMMA PromiseTaken ==
    ASSUME IndInv, NEW w \in Workers, Taken(w)
    PROVE  (Head(jobs) \in Matching /\ Promise!Take(Head(jobs))) \/ UNCHANGED Promise!fvars
  <1>1. Range(jobs) = {Head(jobs)} \cup Range(jobs)' /\ Head(jobs) \notin Range(jobs)'
    BY RangeTail, HeadNotInTail DEF Taken, IndInv, TypeOK, Ownership
  <1>2. Settled' = Settled /\ (conn # "stopped")' = (conn # "stopped") /\ conn # "stopped"
    BY DEF Taken
  <1>3. Head(jobs) \notin Settled
    BY <1>1 DEF IndInv, Ownership
  <1>4. InHands' = InHands \cup ({Head(jobs)} \cap Matching)
    BY <1>2, <1>3 DEF Taken, InHands
  <1>5. CASE Head(jobs) \in Matching
    BY <1>1, <1>2, <1>4, <1>5 DEF Promise!Take, InHands
  <1>6. CASE Head(jobs) \notin Matching
    BY <1>1, <1>2, <1>4, <1>6 DEF Promise!fvars, InHands
  <1> QED BY <1>5, <1>6

LEMMA PromiseWritten ==
    ASSUME IndInv, NEW w \in Workers, Written(w)
    PROVE  \E S \in SUBSET Matching : Promise!Settle(S)
  <1> DEFINE S == Settled' \ Settled
  <1>1. Settled \subseteq Matching /\ Held(w) \subseteq Matching
    BY DEF IndInv, Ownership, TypeOK, Held
  <1>2. S \subseteq InHands /\ S \in SUBSET Matching
    BY <1>1 DEF Written, InHands
  <1>3. Settled' \cap Matching = (Settled \cap Matching) \cup S
    BY <1>2 DEF Written
  <1>4. InHands' = InHands \ S
    BY DEF Written, InHands
  <1>5. Range(jobs)' = Range(jobs) /\ conn # "stopped" /\ conn' # "stopped"
    BY DEF Written
  <1>6. Promise!Settle(S)
    BY <1>2, <1>3, <1>4, <1>5 DEF Promise!Settle, InHands
  <1> QED BY <1>2, <1>6

LEMMA PromiseStep == IndInv /\ IndInv' /\ [Next]_vars => [Promise!FNext]_Promise!fvars
  <1> SUFFICES ASSUME IndInv, IndInv', [Next]_vars PROVE [Promise!FNext]_Promise!fvars
    OBVIOUS
  <1>1. Effect /\ conn' \in ConnStates
    BY EffectStep DEF IndInv, TypeOK
  <1>2. CASE Still
    BY <1>1, <1>2, PromiseStill DEF Promise!FNext
  <1>3. ASSUME NEW e \in Records, Entered(e) PROVE [Promise!FNext]_Promise!fvars
    BY <1>3, PromiseEntered DEF Promise!FNext
  <1>4. ASSUME NEW w \in Workers, Taken(w) PROVE [Promise!FNext]_Promise!fvars
    BY <1>4, PromiseTaken DEF Promise!FNext
  <1>5. ASSUME NEW w \in Workers, Written(w) PROVE [Promise!FNext]_Promise!fvars
    BY <1>5, PromiseWritten DEF Promise!FNext
  <1> QED BY <1>1, <1>2, <1>3, <1>4, <1>5 DEF Effect

(* The target with its workers, retries and dump files implements the      *)
(* promise of Forwarder: a record is queued, held and settled in this      *)
(* order, never goes back, and the target closes with empty hands.         *)
THEOREM Refinement == Spec => KeepsPromise
  BY Invariance, PromiseInit, PromiseStep, PTL DEF Spec, KeepsPromise, Promise!FSpec

=============================================================================
