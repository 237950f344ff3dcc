---------------------------- MODULE TargetProofs ----------------------------
(***************************************************************************)
(* Proofs about ElasticTarget and about JSONFile for every set of workers  *)
(* and records and every value of the other constants.                     *)
(***************************************************************************)
EXTENDS ElasticTarget, JSONFile, FiniteSetTheorems, SequenceTheorems, TLAPS

(* What worker w has taken from the channel and has not let go of.         *)
Held(w) == queries[w] \cup drained[w]

PcStates == {"new", "select", "post", "wait", "drain", "resend", "stat", "create", "append",
             "panic", "ack", "stopped"}

-----------------------------------------------------------------------------
(* The channel *)

(* What is put into a channel is what it holds in addition.                *)
LEMMA RangeAppend ==
    ASSUME NEW S, NEW s \in Seq(S), NEW e \in S
    PROVE  Range(Append(s, e)) = Range(s) \cup {e}
  <1>1. Append(s, e) = s \o <<e>> /\ <<e>> \in Seq(S)
    OBVIOUS
  <1>2. Range(<<e>>) = {e}
    BY DEF Range
  <1>3. Range(s \o <<e>>) = Range(s) \cup Range(<<e>>)
    BY <1>1, RangeConcatenation
  <1> QED BY <1>1, <1>2, <1>3

(* What is taken from a channel was at its head.                           *)
LEMMA RangeTail ==
    ASSUME NEW S, NEW s \in Seq(S), s # <<>>
    PROVE  Range(s) = {Head(s)} \cup Range(Tail(s))
  <1>1. s = <<Head(s)>> \o Tail(s) /\ <<Head(s)>> \in Seq(S) /\ Tail(s) \in Seq(S)
    OBVIOUS
  <1>2. Range(<<Head(s)>>) = {Head(s)}
    BY DEF Range
  <1>3. Range(<<Head(s)>> \o Tail(s)) = Range(<<Head(s)>>) \cup Range(Tail(s))
    BY <1>1, RangeConcatenation
  <1> QED BY <1>1, <1>2, <1>3

(* The head of a channel without duplicates is not in its tail.            *)
LEMMA HeadNotInTail ==
    ASSUME NEW S, NEW s \in Seq(S), s # <<>>,
           \A i, j \in 1..Len(s) : s[i] = s[j] => i = j
    PROVE  /\ Head(s) \notin Range(Tail(s))
           /\ \A i, j \in 1..Len(Tail(s)) : Tail(s)[i] = Tail(s)[j] => i = j
  <1>1. /\ DOMAIN Tail(s) = 1..(Len(s) - 1) /\ Len(Tail(s)) = Len(s) - 1 /\ Len(s) \in Nat \ {0}
        /\ \A i \in 1..(Len(s) - 1) : Tail(s)[i] = s[i + 1]
        /\ Head(s) = s[1]
    OBVIOUS
  <1> QED BY <1>1 DEF Range

-----------------------------------------------------------------------------
(* The inductive invariant *)

(* There is a round left before every resend; only a worker that drains    *)
(* the channel has something of it; a worker acknowledges quit with empty  *)
(* hands; Worker.Stop returns after that.                                  *)
Phase(w) ==
    /\ pc[w] \in {"wait", "drain", "resend"} => round[w] < 3
    /\ pc[w] # "drain" => drained[w] = {}
    /\ pc[w] \in {"new", "ack", "stopped"} => queries[w] = {}
    /\ conn \in {"probing", "checking"} => pc[w] = "new"
    /\ stopPc[w] = "done" => pc[w] = "stopped"
    /\ conn = "stopped" => stopPc[w] = "done"

Phases == \A w \in Workers : Phase(w)

(* A record is in one place at a time: once in the channel, or with        *)
(* workers, or settled.                                                    *)
Ownership ==
    /\ \A i, j \in 1..Len(jobs) : jobs[i] = jobs[j] => i = j
    /\ Range(jobs) \subseteq accepted /\ Settled \subseteq accepted
    /\ Range(jobs) \cap Settled = {}
    /\ \A w \in Workers : Held(w) \subseteq accepted /\ Held(w) \cap Range(jobs) = {}

IndInv == TypeOK /\ Phases /\ Ownership

-----------------------------------------------------------------------------
(* Types and phases *)

(* What a server may have stored is part of what was sent.                 *)
LEMMA ReplyFacts ==
    ASSUME NEW S \in SUBSET Records, NEW a \in Replies(S), faults \in 0..MaxFaults,
           server \in {"up", "down", "hangs"}
    PROVE  /\ a.saved \in SUBSET S /\ a.fault \in {0, 1}
           /\ faults + a.fault \in 0..MaxFaults
           /\ a.result \in {"nil", "httpClient", "panic"}
  <1> DEFINE Reply(result, saved, fault) == [result |-> result, saved |-> saved, fault |-> fault]
  <1>1. \/ a = Reply("httpClient", {}, 0)
        \/ a = Reply("nil", S, 0) \/ a = Reply("panic", S \ Bad, 0)
        \/ faults # MaxFaults /\ (a = Reply("nil", {}, 1) \/ a = Reply("httpClient", S \ Bad, 1))
    BY DEF Replies
  <1> QED BY <1>1, NumbersAssumption

LEMMA TypeInit == Init => TypeOK
  BY NumbersAssumption, EmptySeq DEF Init, TypeOK

LEMMA TypeFactory == TypeOK /\ Factory => TypeOK'
  <1> SUFFICES ASSUME TypeOK, Factory PROVE TypeOK'
    OBVIOUS
  <1> USE DEF env, life, chan, send, files
  <1>1. CASE FactoryProbe
    BY <1>1, NumbersAssumption DEF TypeOK, FactoryProbe, TryAgainOrPanic
  <1>2. CASE FactoryStart
    BY <1>2, NumbersAssumption DEF TypeOK, FactoryStart
  <1>3. CASE FactoryCreateTemplate
    <2>1. template' \in BOOLEAN
      <3>1. template' = template \/ template' = (template \/ (server = "up" /\ conn' # "dead"))
        BY <1>3, Zenon DEF FactoryCreateTemplate
      <3>2. template \in BOOLEAN
        BY DEF TypeOK
      <3> QED BY <3>1, <3>2, Zenon
    <2>2. conn' \in {conn, "dead"} /\ tries' \in 0..StartTries
      BY <1>3, NumbersAssumption DEF TypeOK, FactoryCreateTemplate, TryAgainOrPanic
    <2>3. UNCHANGED <<server, faults, chan, pc, send, stopPc, stored, believed, files>>
      BY <1>3 DEF FactoryCreateTemplate
    <2> QED BY <2>1, <2>2, <2>3 DEF TypeOK
  <1> QED BY <1>1, <1>2, <1>3 DEF Factory

LEMMA TypeEnqueue ==
    ASSUME TypeOK, NEW r \in Records, Enqueue(r)
    PROVE  TypeOK'
  <1>1. Append(jobs, r) \in Seq(Records) /\ Len(Append(jobs, r)) <= QueueCap
    BY AppendProperties, LenProperties, NumbersAssumption DEF TypeOK, Enqueue
  <1> QED BY <1>1 DEF TypeOK, Enqueue, env, life, send, files

LEMMA TypeTail ==
    ASSUME TypeOK, jobs # <<>>
    PROVE  Head(jobs) \in Records /\ Tail(jobs) \in Seq(Records) /\ Len(Tail(jobs)) <= QueueCap
  BY HeadTailProperties, EmptySeq, NumbersAssumption DEF TypeOK

LEMMA TypeSelect ==
    ASSUME TypeOK, NEW w \in Workers, Select(w)
    PROVE  TypeOK'
  <1> USE DEF env, life, chan, send, files, Goto
  <1>1. CASE ReceiveJob(w)
    BY <1>1, TypeTail DEF TypeOK, ReceiveJob
  <1>2. CASE FlushTimeout(w)
    BY <1>2 DEF TypeOK, FlushTimeout
  <1>3. CASE ReceiveQuit(w)
    BY <1>3 DEF TypeOK, ReceiveQuit
  <1>4. CASE AckQuit(w)
    BY <1>4 DEF TypeOK, AckQuit
  <1> QED BY <1>1, <1>2, <1>3, <1>4 DEF Select

LEMMA TypeSendData ==
    ASSUME TypeOK, Phases, NEW w \in Workers, SendData(w)
    PROVE  TypeOK'
  <1>1. PICK a \in Replies(queries[w]) :
           /\ stored' = stored \cup a.saved
           /\ believed' = IF a.result = "nil" THEN believed \cup (queries[w] \ a.saved) ELSE believed
           /\ faults' = faults + a.fault
           /\ \/ a.result = "nil" /\ EndSend(w)
              \/ /\ a.result = "httpClient"
                 /\ round' = [round EXCEPT ![w] = IF pc[w] = "post" THEN 0 ELSE @ + 1]
                 /\ Goto(w, IF round'[w] = 3 THEN "stat" ELSE "wait")
                 /\ UNCHANGED queries
              \/ a.result = "panic" /\ Goto(w, "panic") /\ UNCHANGED <<queries, round>>
    BY DEF SendData
  <1>2. queries[w] \in SUBSET Records /\ faults \in 0..MaxFaults /\ server \in {"up", "down", "hangs"}
    BY DEF TypeOK
  <1>3. a.saved \in SUBSET queries[w] /\ faults' \in 0..MaxFaults
    BY <1>1, <1>2, ReplyFacts
  <1>4. stored' \subseteq Records /\ believed' \subseteq Records
    BY <1>1, <1>2, <1>3 DEF TypeOK
  <1>5. round[w] \in 0..3 /\ (pc[w] # "post" => round[w] < 3)
    BY DEF TypeOK, Phases, Phase, SendData
  <1>6. round' \in [Workers -> 0..3]
    BY <1>1, <1>5 DEF TypeOK, EndSend
  <1>7. queries' \in [Workers -> SUBSET Records] /\ pc' \in [Workers -> PcStates]
    BY <1>1 DEF TypeOK, EndSend, Goto, PcStates
  <1>8. UNCHANGED <<server, template, life, chan, drained, stopPc, files>>
    BY DEF SendData
  <1> QED BY <1>3, <1>4, <1>6, <1>7, <1>8 DEF TypeOK, life, chan, files, PcStates

LEMMA TypeSendBuffer ==
    ASSUME TypeOK, Phases, NEW w \in Workers, SendBuffer(w)
    PROVE  TypeOK'
  <1> USE DEF env, life, chan, send, files, Goto
  <1>1. CASE SendData(w)
    BY <1>1, TypeSendData
  <1>2. CASE PrintErrors(w) \/ WaitTimeout(w) \/ WaitInterrupted(w) \/ StatErrors(w)
    BY <1>2 DEF TypeOK, PrintErrors, WaitTimeout, WaitInterrupted, StatErrors
  <1>3. CASE DrainJob(w)
    BY <1>3, TypeTail DEF TypeOK, DrainJob
  <1>4. CASE DumpRemainingQueries(w)
    BY <1>4 DEF TypeOK, DumpRemainingQueries
  <1>5. CASE CreateErrors(w)
    BY <1>5 DEF TypeOK, CreateErrors
  <1>6. CASE AppendErrors(w)
    BY <1>6 DEF TypeOK, AppendErrors, EndSend
  <1> QED BY <1>1, <1>2, <1>3, <1>4, <1>5, <1>6 DEF SendBuffer

LEMMA TypeOthers ==
    ASSUME TypeOK,
           ServerChanges \/ StopConnector \/ ConnectorStopped \/ \E w \in Workers : PutToken(w)
    PROVE  TypeOK'
  BY DEF TypeOK, ServerChanges, StopConnector, ConnectorStopped, PutToken,
         env, life, chan, send, files

LEMMA TypeStep == TypeOK /\ Phases /\ [Next]_vars => TypeOK'
  <1> SUFFICES ASSUME TypeOK, Phases, [Next]_vars PROVE TypeOK'
    OBVIOUS
  <1>1. CASE UNCHANGED vars
    BY <1>1 DEF TypeOK, vars, env, life, chan, send, files
  <1> QED BY <1>1, TypeFactory, TypeEnqueue, TypeSelect, TypeSendBuffer, TypeOthers DEF Next

LEMMA PhasesInit == Init => Phases
  BY DEF Init, Phases, Phase

LEMMA PhasesOthers ==
    ASSUME TypeOK, Phases,
           \/ ServerChanges \/ Factory \/ StopConnector \/ ConnectorStopped
           \/ \E w \in Workers : PutToken(w)
    PROVE  Phases'
  BY DEF TypeOK, Phases, Phase, ServerChanges, StopConnector, ConnectorStopped, PutToken,
         Factory, FactoryProbe, FactoryStart, FactoryCreateTemplate, TryAgainOrPanic,
         env, life, send

LEMMA PhasesWorker ==
    ASSUME TypeOK, Phases, NEW w \in Workers, Select(w) \/ SendBuffer(w), conn # "stopped"
    PROVE  Phases'
  <1> SUFFICES ASSUME NEW v \in Workers PROVE Phase(v)'
    BY DEF Phases
  <1> USE DEF TypeOK, Phases, Phase, life, chan, send, Goto
  <1>1. CASE ReceiveJob(w)
    BY <1>1 DEF ReceiveJob
  <1>2. CASE FlushTimeout(w) \/ ReceiveQuit(w) \/ AckQuit(w)
    BY <1>2 DEF FlushTimeout, ReceiveQuit, AckQuit
  <1>3. CASE SendData(w)
    BY <1>3 DEF SendData, EndSend
  <1>4. CASE PrintErrors(w) \/ WaitTimeout(w) \/ WaitInterrupted(w) \/ StatErrors(w)
    BY <1>4 DEF PrintErrors, WaitTimeout, WaitInterrupted, StatErrors
  <1>5. CASE DrainJob(w) \/ DumpRemainingQueries(w)
    BY <1>5 DEF DrainJob, DumpRemainingQueries
  <1>6. CASE CreateErrors(w) \/ AppendErrors(w)
    BY <1>6 DEF CreateErrors, AppendErrors, EndSend
  <1> QED BY <1>1, <1>2, <1>3, <1>4, <1>5, <1>6 DEF Select, SendBuffer

LEMMA PhasesStep == TypeOK /\ Phases /\ [Next]_vars => Phases'
  <1> SUFFICES ASSUME TypeOK, Phases, [Next]_vars PROVE Phases'
    OBVIOUS
  <1>1. CASE UNCHANGED vars
    BY <1>1 DEF Phases, Phase, vars, life, send
  <1>2. ASSUME NEW r \in Records, Enqueue(r) PROVE Phases'
    BY <1>2 DEF Enqueue, Phases, Phase, life, send
  <1> QED BY <1>1, <1>2, PhasesOthers, PhasesWorker DEF Next, Ended

-----------------------------------------------------------------------------
(* The four things a step can do to the records *)

(* Nothing.  The connector stops only when no worker holds a record.       *)
Still ==
    /\ UNCHANGED <<jobs, accepted, Settled>>
    /\ \A v \in Workers : Held(v)' = Held(v)
    /\ conn = "stopped" => conn' = "stopped"
    /\ conn # "stopped" /\ conn' = "stopped" => \A v \in Workers : Held(v) = {}

(* The rest happens while the target runs, and does not stop it.           *)
Open == conn # "stopped" /\ conn' # "stopped"

(* A new record enters the channel.                                        *)
Entered(r) ==
    /\ Open
    /\ r \notin accepted /\ accepted' = accepted \cup {r}
    /\ jobs' = Append(jobs, r)
    /\ Settled' = Settled /\ \A v \in Workers : Held(v)' = Held(v)

(* Worker w takes the record at the head of the channel.                   *)
Taken(w) ==
    /\ Open
    /\ jobs # <<>> /\ jobs' = Tail(jobs)
    /\ Held(w)' = Held(w) \cup {Head(jobs)}
    /\ UNCHANGED <<accepted, Settled>> /\ \A v \in Workers \ {w} : Held(v)' = Held(v)

(* Some of what worker w holds is settled, and it only lets go of that.    *)
Written(w) ==
    /\ Open
    /\ Settled \subseteq Settled' /\ Settled' \subseteq Settled \cup Held(w)
    /\ Held(w)' \subseteq Held(w) /\ Held(w) \subseteq Held(w)' \cup Settled'
    /\ UNCHANGED <<jobs, accepted>> /\ \A v \in Workers \ {w} : Held(v)' = Held(v)

Effect == Still \/ (\E r \in Records : Entered(r)) \/ (\E w \in Workers : Taken(w) \/ Written(w))

LEMMA EffectOthers ==
    ASSUME Phases, conn # "stopped",
           \/ ServerChanges \/ Factory \/ StopConnector \/ ConnectorStopped
           \/ \E w \in Workers : PutToken(w)
    PROVE  Still
  BY DEF Phases, Phase, ServerChanges, StopConnector, ConnectorStopped, PutToken,
         Factory, FactoryProbe, FactoryStart, FactoryCreateTemplate, TryAgainOrPanic,
         Still, Held, Settled, env, life, chan, send, files

LEMMA EffectEnqueue ==
    ASSUME NEW r \in Records, Enqueue(r), conn # "stopped"
    PROVE  Entered(r)
  BY DEF Enqueue, Entered, Open, Held, Settled, life, send, files

LEMMA EffectSelect ==
    ASSUME TypeOK, NEW w \in Workers, Select(w), conn # "stopped"
    PROVE  Still \/ Taken(w)
  <1> USE DEF Held, Settled, life, chan, send, files
  <1>1. CASE ReceiveJob(w)
    BY <1>1 DEF ReceiveJob, Taken, Open, TypeOK
  <1>2. CASE FlushTimeout(w) \/ ReceiveQuit(w) \/ AckQuit(w)
    BY <1>2 DEF FlushTimeout, ReceiveQuit, AckQuit, Still
  <1> QED BY <1>1, <1>2 DEF Select

(* After an answer that is no error the whole batch counts as settled.     *)
LEMMA EffectSendData ==
    ASSUME TypeOK, Phases, NEW w \in Workers, SendData(w), conn # "stopped"
    PROVE  Written(w)
  <1>1. PICK a \in Replies(queries[w]) :
           /\ stored' = stored \cup a.saved
           /\ believed' = IF a.result = "nil" THEN believed \cup (queries[w] \ a.saved) ELSE believed
           /\ \/ a.result = "nil" /\ EndSend(w)
              \/ a.result # "nil" /\ UNCHANGED queries
    BY DEF SendData
  <1>2. a.saved \subseteq queries[w]
    BY ReplyFacts DEF TypeOK
  <1>3. UNCHANGED <<jobs, accepted, conn, drained, dump, errors, cut>> /\ drained[w] = {}
    BY DEF SendData, life, chan, files, Phases, Phase
  <1>4. \A v \in Workers \ {w} : Held(v)' = Held(v)
    BY <1>1, <1>3 DEF TypeOK, EndSend, Held
  <1>5. CASE a.result = "nil"
    <2>1. Held(w)' = {} /\ Held(w) = queries[w]
      BY <1>1, <1>3, <1>5 DEF TypeOK, EndSend, Held
    <2>2. Settled' = Settled \cup queries[w]
      BY <1>1, <1>2, <1>3, <1>5 DEF Settled
    <2> QED BY <1>3, <1>4, <2>1, <2>2 DEF Written, Open
  <1>6. CASE a.result # "nil"
    <2>1. Held(w)' = Held(w) /\ a.saved \subseteq Held(w)
      BY <1>1, <1>2, <1>3, <1>6 DEF Held
    <2>2. Settled' = Settled \cup a.saved
      BY <1>1, <1>3, <1>6 DEF Settled
    <2> QED BY <1>3, <1>4, <2>1, <2>2 DEF Written, Open
  <1> QED BY <1>5, <1>6

LEMMA EffectSendBuffer ==
    ASSUME TypeOK, Phases, NEW w \in Workers, SendBuffer(w), conn # "stopped"
    PROVE  Still \/ Taken(w) \/ Written(w)
  <1> USE DEF life, chan, send, files
  <1>1. CASE SendData(w)
    BY <1>1, EffectSendData
  <1>2. CASE PrintErrors(w) \/ WaitTimeout(w) \/ WaitInterrupted(w) \/ StatErrors(w)
    BY <1>2 DEF PrintErrors, WaitTimeout, WaitInterrupted, StatErrors, Still, Held, Settled
  <1>3. CASE DrainJob(w)
    BY <1>3 DEF DrainJob, Taken, Open, TypeOK, Held, Settled
  <1>4. CASE DumpRemainingQueries(w)
    <2>1. Settled' = Settled \cup Held(w)
      BY <1>4 DEF DumpRemainingQueries, Settled, Held
    <2>2. Held(w)' \subseteq Held(w) /\ \A v \in Workers \ {w} : Held(v)' = Held(v)
      BY <1>4 DEF DumpRemainingQueries, TypeOK, Held
    <2> QED BY <1>4, <2>1, <2>2 DEF DumpRemainingQueries, Written, Open
  <1>5. CASE CreateErrors(w)
    <2>1. Settled' = Settled
      BY <1>5 DEF CreateErrors, Settled
    <2> QED BY <1>5, <2>1 DEF CreateErrors, Still, Held
  <1>6. CASE AppendErrors(w)
    <2>1. Settled' = Settled \cup queries[w]
      BY <1>6 DEF AppendErrors, Settled
    <2>2. Held(w) = queries[w]
      BY <1>6 DEF AppendErrors, Phases, Phase, Held
    <2>3. Held(w)' = {} /\ \A v \in Workers \ {w} : Held(v)' = Held(v)
      BY <1>6 DEF AppendErrors, EndSend, Phases, Phase, TypeOK, Held
    <2> QED BY <1>6, <2>1, <2>2, <2>3 DEF AppendErrors, Written, Open
  <1> QED BY <1>1, <1>2, <1>3, <1>4, <1>5, <1>6 DEF SendBuffer

LEMMA EffectStep == TypeOK /\ Phases /\ [Next]_vars => Effect
  <1> SUFFICES ASSUME TypeOK, Phases, [Next]_vars PROVE Effect
    OBVIOUS
  <1>1. CASE UNCHANGED vars
    BY <1>1 DEF Effect, Still, Held, Settled, vars, life, chan, send, files
  <1> QED BY <1>1, EffectOthers, EffectEnqueue, EffectSelect, EffectSendBuffer
             DEF Effect, Next, Ended

-----------------------------------------------------------------------------
(* Each record is in one place *)

LEMMA OwnershipStep == TypeOK /\ Ownership /\ Effect => Ownership'
  <1> SUFFICES ASSUME TypeOK, Ownership, Effect PROVE Ownership'
    OBVIOUS
  <1>1. CASE Still
    BY <1>1 DEF Still, Ownership
  <1>2. ASSUME NEW r \in Records, Entered(r) PROVE Ownership'
    <2>1. Range(jobs)' = Range(jobs) \cup {r}
      BY <1>2, RangeAppend DEF Entered, TypeOK
    <2>2. \A i, j \in 1..Len(jobs') : jobs'[i] = jobs'[j] => i = j
      <3>1. jobs \in Seq(Records) /\ r \notin Range(jobs) /\ jobs' = Append(jobs, r)
        BY <1>2 DEF Entered, Ownership, TypeOK
      <3>2. Len(jobs') = Len(jobs) + 1 /\ Len(jobs) \in Nat /\ DOMAIN jobs = 1..Len(jobs)
        BY <3>1
      <3>3. jobs'[Len(jobs) + 1] = r /\ \A i \in 1..Len(jobs) : jobs'[i] = jobs[i]
        BY <3>1
      <3>4. \A i \in 1..Len(jobs) : jobs[i] # r
        BY <3>1, <3>2 DEF Range
      <3> QED BY <3>2, <3>3, <3>4 DEF Ownership
    <2>3. Settled' = Settled /\ r \notin Settled /\ Settled \subseteq accepted'
      BY <1>2 DEF Entered, Ownership
    <2>4. \A v \in Workers : Held(v)' \subseteq accepted' /\ Held(v)' \cap Range(jobs)' = {}
      BY <1>2, <2>1 DEF Entered, Ownership
    <2> QED BY <1>2, <2>1, <2>2, <2>3, <2>4 DEF Entered, Ownership
  <1>3. ASSUME NEW w \in Workers, Taken(w) PROVE Ownership'
    <2>1. /\ Range(jobs) = {Head(jobs)} \cup Range(jobs)' /\ Head(jobs) \notin Range(jobs)'
          /\ \A i, j \in 1..Len(jobs') : jobs'[i] = jobs'[j] => i = j
      BY <1>3, RangeTail, HeadNotInTail DEF Taken, TypeOK, Ownership
    <2>2. Settled' = Settled /\ accepted' = accepted
      BY <1>3 DEF Taken
    <2>3. ASSUME NEW v \in Workers
          PROVE  Held(v)' \subseteq accepted /\ Held(v)' \cap Range(jobs)' = {}
      BY <1>3, <2>1 DEF Taken, Ownership
    <2> QED BY <2>1, <2>2, <2>3 DEF Ownership
  <1>4. ASSUME NEW w \in Workers, Written(w) PROVE Ownership'
    <2>1. jobs' = jobs /\ accepted' = accepted /\ \A v \in Workers : Held(v)' \subseteq Held(v)
      BY <1>4 DEF Written
    <2>2. Settled' \subseteq accepted /\ Settled' \cap Range(jobs) = {}
      BY <1>4 DEF Written, Ownership
    <2> QED BY <2>1, <2>2 DEF Ownership
  <1> QED BY <1>1, <1>2, <1>3, <1>4 DEF Effect

LEMMA IndInvInit == Init => IndInv
  <1> SUFFICES ASSUME Init PROVE IndInv
    OBVIOUS
  <1>1. Range(jobs) = {} /\ Len(jobs) = 0
    BY DEF Init, Range
  <1>2. Settled = {} /\ \A w \in Workers : Held(w) = {}
    BY DEF Init, Settled, Held
  <1>3. Ownership
    BY <1>1, <1>2 DEF Ownership
  <1> QED BY <1>3, TypeInit, PhasesInit DEF IndInv

LEMMA IndInvStep == IndInv /\ [Next]_vars => IndInv'
  BY TypeStep, PhasesStep, EffectStep, OwnershipStep DEF IndInv

LEMMA Invariance == Spec => []IndInv
  BY IndInvInit, IndInvStep, PTL DEF Spec

-----------------------------------------------------------------------------
(* The theorems *)

(* Every variable keeps its type: the channel never holds more than its    *)
(* capacity, and sendBuffer makes at most three more rounds.               *)
THEOREM TypeCorrect == Spec => []TypeOK
  <1>1. IndInv => TypeOK
    BY DEF IndInv
  <1> QED BY <1>1, Invariance, PTL

(* The records in the hands of the workers, as the refinement maps them.   *)
InHands == (UNION {Held(w) : w \in Workers}) \ Settled

LEMMA PromiseInit == Init => Promise!FInit
  <1> SUFFICES ASSUME Init PROVE Promise!FInit
    OBVIOUS
  <1>1. Range(jobs) = {}
    BY DEF Init, Range
  <1>2. Settled = {} /\ InHands = {}
    BY DEF Init, Settled, InHands, Held
  <1> QED BY <1>1, <1>2 DEF Init, Promise!FInit, InHands, Held

LEMMA PromiseStill ==
    ASSUME Still
    PROVE  Promise!Close \/ UNCHANGED Promise!fvars
  <1>1. Range(jobs)' = Range(jobs) /\ Settled' = Settled /\ InHands' = InHands
    BY DEF Still, InHands
  <1>2. CASE (conn # "stopped") = (conn' # "stopped")
    BY <1>1, <1>2 DEF Promise!fvars, InHands, Held
  <1>3. CASE conn # "stopped" /\ conn' = "stopped"
    <2>1. InHands = {}
      BY <1>3 DEF Still, InHands
    <2> QED BY <1>1, <1>3, <2>1 DEF Promise!Close, InHands, Held
  <1> QED BY <1>2, <1>3 DEF Still

LEMMA PromiseEntered ==
    ASSUME IndInv, NEW r \in Records, Entered(r)
    PROVE  Promise!Accept(r)
  <1>1. Range(jobs)' = Range(jobs) \cup {r}
    BY RangeAppend DEF Entered, IndInv, TypeOK
  <1>2. Settled' = Settled /\ InHands' = InHands /\ (conn # "stopped")' = (conn # "stopped")
    BY DEF Entered, Open, InHands
  <1>3. r \notin Range(jobs) \cup InHands \cup Settled /\ conn # "stopped"
    BY DEF Entered, Open, IndInv, Ownership, InHands
  <1> QED BY <1>1, <1>2, <1>3 DEF Promise!Accept, InHands, Held

LEMMA PromiseTaken ==
    ASSUME IndInv, NEW w \in Workers, Taken(w)
    PROVE  \E r \in Records : Promise!Take(r)
  <1>1. /\ Range(jobs) = {Head(jobs)} \cup Range(jobs)' /\ Head(jobs) \notin Range(jobs)'
        /\ Head(jobs) \in Records
    BY RangeTail, HeadNotInTail, HeadTailProperties, EmptySeq DEF Taken, IndInv, TypeOK, Ownership
  <1>2. Settled' = Settled /\ (conn # "stopped")' = (conn # "stopped") /\ conn # "stopped"
    BY DEF Taken, Open
  <1>3. Head(jobs) \notin Settled
    BY <1>1 DEF IndInv, Ownership
  <1>4. InHands' = InHands \cup {Head(jobs)}
    BY <1>2, <1>3 DEF Taken, InHands
  <1>5. PICK r \in Records : r = Head(jobs)
    BY <1>1
  <1>6. Promise!Take(r)
    BY <1>1, <1>2, <1>4, <1>5 DEF Promise!Take, InHands, Held
  <1> QED BY <1>6

LEMMA PromiseWritten ==
    ASSUME IndInv, NEW w \in Workers, Written(w)
    PROVE  \E S \in SUBSET Records : Promise!Settle(S)
  <1>1. Settled' \ Settled \subseteq InHands /\ Settled' \ Settled \in SUBSET Records
    BY DEF Written, InHands, IndInv, TypeOK, Held
  <1>2. PICK S \in SUBSET Records : S = Settled' \ Settled
    BY <1>1
  <1>3. Settled' = Settled \cup S /\ InHands' = InHands \ S /\ S \subseteq InHands
    BY <1>1, <1>2 DEF Written, InHands
  <1>4. Range(jobs)' = Range(jobs) /\ conn # "stopped" /\ conn' # "stopped"
    BY DEF Written, Open
  <1>5. Promise!Settle(S)
    BY <1>3, <1>4 DEF Promise!Settle, InHands, Held
  <1> QED BY <1>5

LEMMA PromiseStep == IndInv /\ [Next]_vars => [Promise!FNext]_Promise!fvars
  <1> SUFFICES ASSUME IndInv, [Next]_vars PROVE [Promise!FNext]_Promise!fvars
    OBVIOUS
  <1>1. Effect
    BY EffectStep DEF IndInv
  <1>2. CASE Still
    BY <1>2, PromiseStill DEF Promise!FNext
  <1>3. ASSUME NEW r \in Records, Entered(r) PROVE [Promise!FNext]_Promise!fvars
    BY <1>3, PromiseEntered DEF Promise!FNext
  <1>4. ASSUME NEW w \in Workers, Taken(w) PROVE [Promise!FNext]_Promise!fvars
    BY <1>4, PromiseTaken DEF Promise!FNext
  <1>5. ASSUME NEW w \in Workers, Written(w) PROVE [Promise!FNext]_Promise!fvars
    BY <1>5, PromiseWritten DEF Promise!FNext
  <1> QED BY <1>1, <1>2, <1>3, <1>4, <1>5 DEF Effect

(* The target implements the promise of Forwarder for every number of      *)
(* workers and every behaviour of the server, hangs and panics included: a *)
(* record only disappears by an answer that is taken for a success or by   *)
(* the cut of the "-errors" file, and Stop returns with empty hands.       *)
THEOREM Refinement == Spec => KeepsPromise
  BY Invariance, PromiseInit, PromiseStep, PTL DEF Spec, KeepsPromise, Promise!FSpec

-----------------------------------------------------------------------------
(* The JSON file: the inductive invariant *)

(* The records that run has stored in queries.                             *)
Stored == Matching \cap (sent \ (ToSet(fileJobs) \cup {query}))

(* A record is once in the channel or in the hand of run; between its two  *)
(* accesses to queries, run has seen a length that is the length still or  *)
(* was reset; only writeData has data.                                     *)
Hand ==
    /\ \A i, j \in 1..Len(fileJobs) : fileJobs[i] = fileJobs[j] => i = j
    /\ query \notin ToSet(fileJobs)
    /\ query \in sent \cup {NoRecord}
    /\ IF run = "append" THEN query \in Matching /\ length <= seen ELSE query = NoRecord
    /\ writer # "write" => data = <<>>

(* A record that was not stored yet is nowhere.                            *)
UnstoredIsNew ==
    \A r \in Matching \ Stored : copies[r] = 0 /\ r \notin ToSet(array) /\ r \notin ToSet(data)

(* The record is in a file, or there is a cause for its loss.              *)
Excused(r) == copies[r] > 0 \/ r \in failed \cup overtaken

(* The elements of the array that are not, or soon will not be, in queries *)
(* any more have been written.                                             *)
SliceIsWritten ==
    /\ \A i \in 1..Len(array) : i > length => Excused(array[i])
    /\ writer = "reset" => \A i \in 1..length : Excused(array[i])
    /\ writer = "write" => \A i \in 1..length : Excused(array[i]) \/ array[i] \in ToSet(data)

(* The record will be written once more as things stand.                   *)
ToBeWritten(r) ==
    IF writer = "write" THEN r \in ToSet(data) ELSE writer # "reset" /\ r \in Queries

(* It takes a file of the same second, or another record that is stored    *)
(* over a reset, for a record to be written once more.                     *)
WritesAreCaused ==
    \A r \in Matching :
        copies[r] + (IF ToBeWritten(r) THEN 1 ELSE 0) <= 1 + clashes + Cardinality(Stored \ {r})

FileInv ==
    /\ FileTypeOK /\ Hand /\ UnstoredIsNew /\ SliceIsWritten /\ LossNeedsCause
    /\ WritesAreCaused


-----------------------------------------------------------------------------
(* The JSON file: types *)

(* What append makes of the array a when it has read the length n.         *)
StoredBehind(a, n, q) == Append(SubSeq(a, 1, n), q) \o SubSeq(a, n + 2, Len(a))

(* The element is stored behind the first n, and the others stay.          *)
LEMMA StoredArray ==
    ASSUME NEW S, NEW a \in Seq(S), NEW n \in 0..Len(a), NEW q \in S
    PROVE  LET b == StoredBehind(a, n, q)
           IN /\ b \in Seq(S) /\ (n < Len(a) => Len(b) = Len(a)) /\ (n = Len(a) => Len(b) = n + 1)
              /\ \A i \in 1..Len(b) : b[i] = IF i = n + 1 THEN q ELSE a[i]
  <1> DEFINE front == SubSeq(a, 1, n)
             whole == Append(front, q)
             back  == SubSeq(a, n + 2, Len(a))
             b == whole \o back
  <1>1. Len(a) \in Nat /\ n \in Nat /\ n <= Len(a) /\ \A i \in 1..Len(a) : a[i] \in S
    BY LenProperties, ElementOfSeq
  <1>2. front \in Seq(S) /\ Len(front) = n /\ \A i \in 1..n : front[i] = a[i]
    BY <1>1, SubSeqProperties
  <1>3. /\ back \in Seq(S) /\ Len(back) \in Nat
        /\ (n < Len(a) => Len(back) = Len(a) - (n + 1)) /\ (n = Len(a) => Len(back) = 0)
        /\ \A i \in 1..Len(back) : back[i] = a[n + 1 + i]
    BY <1>1, SubSeqProperties
  <1> HIDE DEF front, back
  <1>4. /\ whole \in Seq(S) /\ Len(whole) = n + 1
        /\ \A i \in 1..(n + 1) : whole[i] = IF i = n + 1 THEN q ELSE a[i]
    BY <1>1, <1>2, AppendProperties
  <1> HIDE DEF whole
  <1>5. /\ b \in Seq(S) /\ Len(b) = Len(whole) + Len(back)
        /\ \A i \in 1..Len(b) : b[i] = IF i <= Len(whole) THEN whole[i] ELSE back[i - Len(whole)]
    <2>1. /\ b \in Seq(S) /\ Len(b) = Len(whole) + Len(back)
          /\ \A i \in 1..(Len(whole) + Len(back)) :
                 b[i] = IF i <= Len(whole) THEN whole[i] ELSE back[i - Len(whole)]
      BY <1>3, <1>4, ConcatProperties
    <2> QED BY <2>1
  <1> HIDE DEF b
  <1>6. Len(b) = n + 1 + Len(back) /\ (n < Len(a) => Len(b) = Len(a)) /\ (n = Len(a) => Len(b) = n + 1)
    BY <1>1, <1>3, <1>4, <1>5
  <1>7. ASSUME NEW i \in 1..Len(b) PROVE b[i] = IF i = n + 1 THEN q ELSE a[i]
    <2>1. CASE i <= n + 1
      BY <2>1, <1>1, <1>4, <1>5, <1>6
    <2>2. CASE i > n + 1
      <3>1. i - (n + 1) \in 1..Len(back)
        BY <2>2, <1>1, <1>3, <1>6
      <3>2. b[i] = back[i - (n + 1)]
        BY <2>2, <1>1, <1>4, <1>5
      <3>3. back[i - (n + 1)] = a[n + 1 + (i - (n + 1))]
        BY <3>1, <1>3
      <3>4. n + 1 + (i - (n + 1)) = i /\ i # n + 1
        BY <2>2, <1>1, <1>6
      <3> QED BY <3>2, <3>3, <3>4
    <2> QED BY <2>1, <2>2, <1>1, <1>6
  <1>8. /\ b \in Seq(S) /\ (n < Len(a) => Len(b) = Len(a)) /\ (n = Len(a) => Len(b) = n + 1)
        /\ \A i \in 1..Len(b) : b[i] = IF i = n + 1 THEN q ELSE a[i]
    BY <1>5, <1>6, <1>7
  <1> QED BY <1>8 DEF b, whole, front, back, StoredBehind

LEMMA StoreQueryArray ==
    ASSUME FileTypeOK, query \in Matching, StoreQuery
    PROVE  /\ array' \in Seq(Matching)
           /\ seen < Len(array) => Len(array') = Len(array)
           /\ seen = Len(array) => Len(array') = seen + 1
           /\ \A i \in 1..Len(array') : array'[i] = IF i = seen + 1 THEN query ELSE array[i]
  <1> DEFINE b == StoredBehind(array, seen, query)
  <1>1. array \in Seq(Matching) /\ seen \in 0..Len(array)
    BY DEF FileTypeOK
  <1>2. /\ b \in Seq(Matching)
        /\ (seen < Len(array) => Len(b) = Len(array)) /\ (seen = Len(array) => Len(b) = seen + 1)
        /\ \A i \in 1..Len(b) : b[i] = IF i = seen + 1 THEN query ELSE array[i]
    BY <1>1, StoredArray
  <1>3. array' = b
    BY DEF StoreQuery, StoredBehind
  <1> QED BY <1>2, <1>3, Zenon

(* Of the channel the first element is taken, and it is not in the rest.   *)
LEMMA ReceivedFromChannel ==
    ASSUME NEW S, NEW s \in Seq(S), s # <<>>
    PROVE  /\ Head(s) \in S /\ Tail(s) \in Seq(S) /\ Len(Tail(s)) = Len(s) - 1
           /\ Len(s) \in Nat \ {0} /\ Head(s) = s[1]
           /\ \A i \in 1..(Len(s) - 1) : Tail(s)[i] = s[i + 1]
  OBVIOUS

LEMMA PutIntoChannel ==
    ASSUME NEW S, NEW s \in Seq(S), NEW e
    PROVE  /\ Append(s, e) \in Seq(S \cup {e}) /\ Len(Append(s, e)) = Len(s) + 1 /\ Len(s) \in Nat
           /\ \A i \in 1..(Len(s) + 1) : Append(s, e)[i] = IF i = Len(s) + 1 THEN e ELSE s[i]
  <1>1. s \in Seq(S \cup {e})
    <2>1. Len(s) \in Nat /\ s \in [1..Len(s) -> S]
      BY LenProperties
    <2>2. s \in [1..Len(s) -> S \cup {e}]
      BY <2>1
    <2> QED BY <2>1, <2>2, SeqDef
  <1> QED BY <1>1, AppendProperties, LenProperties

LEMMA FileTypeInit == FileInit => FileTypeOK
  BY FileNumbersAssumption, EmptySeq DEF FileInit, FileTypeOK

LEMMA FileTypeChannel ==
    ASSUME FileTypeOK, (\E r \in Printables : Send(r)) \/ Receive
    PROVE  FileTypeOK'
  <1> USE DEF slice, receiver, writing, stopping, history
  <1>1. ASSUME NEW r \in Printables, Send(r) PROVE FileTypeOK'
    <2>1. fileJobs' \in Seq(sent') /\ Len(fileJobs') <= FileQueueCap
      BY <1>1, PutIntoChannel, FileNumbersAssumption DEF FileTypeOK, Send
    <2>2. sent' \subseteq Printables
      BY <1>1 DEF FileTypeOK, Send
    <2> QED BY <1>1, <2>1, <2>2 DEF FileTypeOK, Send
  <1>2. CASE Receive
    <2>1. fileJobs' \in Seq(sent') /\ Len(fileJobs') <= FileQueueCap
      BY <1>2, ReceivedFromChannel, FileNumbersAssumption DEF FileTypeOK, Receive
    <2>2. run' \in {run, "append"} /\ query' \in Matching \cup {NoRecord} /\ seen' \in {seen, length}
      BY <1>2 DEF FileTypeOK, Receive
    <2> QED BY <1>2, <2>1, <2>2 DEF FileTypeOK, Receive
  <1> QED BY <1>1, <1>2

LEMMA FileTypeStore ==
    ASSUME FileTypeOK, query \in Matching, StoreQuery
    PROVE  FileTypeOK'
  <1> USE DEF channel, writing, stopping
  <1>0. array \in Seq(Matching) /\ Len(array) \in Nat /\ seen \in 0..Len(array)
    BY LenProperties DEF FileTypeOK
  <1>1. array' \in Seq(Matching) /\ length' \in 0..Len(array') /\ seen' \in 0..Len(array')
    <2>1. length' = seen + 1 /\ seen' = 0
      BY DEF StoreQuery
    <2>2. /\ array' \in Seq(Matching)
          /\ seen < Len(array) => Len(array') = Len(array)
          /\ seen = Len(array) => Len(array') = seen + 1
      BY StoreQueryArray
    <2> QED BY <1>0, <2>1, <2>2
  <1>2. overtaken' \subseteq Matching
    BY DEF FileTypeOK, StoreQuery
  <1> QED BY <1>1, <1>2 DEF FileTypeOK, StoreQuery

LEMMA FileTypeWrite ==
    ASSUME FileTypeOK, Write
    PROVE  FileTypeOK'
  <1> USE DEF channel, slice, receiver, stopping, history
  <1>0. array \in Seq(Matching) /\ Len(array) \in Nat /\ length \in 0..Len(array) /\ data \in Seq(Matching)
    BY LenProperties DEF FileTypeOK
  <1>1. CASE TakeSlice
    <2>1. data' \in Seq(Matching)
      BY <1>0, <1>1, SubSeqProperties, ElementOfSeq DEF TakeSlice
    <2> QED BY <1>1, <2>1 DEF FileTypeOK, TakeSlice
  <1>2. \A n \in Nat : WrittenToFile(n) => copies' \in [Matching -> Nat]
    BY DEF FileTypeOK, WrittenToFile
  <1>3. CASE WriteFile
    <2>1. copies' \in [Matching -> Nat]
      BY <1>2, <1>3 DEF WriteFile
    <2> QED BY <1>3, <2>1, EmptySeq DEF FileTypeOK, WriteFile, EndWrite
  <1>4. CASE WriteTwice
    <2>1. copies' \in [Matching -> Nat]
      BY <1>2, <1>4 DEF WriteTwice
    <2>2. clashes' \in 0..MaxClashes
      BY <1>4, FileNumbersAssumption DEF FileTypeOK, WriteTwice
    <2> QED BY <1>4, <2>1, <2>2, EmptySeq DEF FileTypeOK, WriteTwice, EndWrite
  <1>5. CASE WriteFails
    <2>1. failed' \subseteq Matching
      BY <1>0, <1>5, ElementOfSeq DEF FileTypeOK, WriteFails, ToSet
    <2>2. failures' \in 0..MaxFailures
      BY <1>5, FileNumbersAssumption DEF FileTypeOK, WriteFails
    <2> QED BY <1>5, <2>1, <2>2, EmptySeq DEF FileTypeOK, WriteFails, EndWrite
  <1>6. CASE Reset
    BY <1>0, <1>6 DEF FileTypeOK, Reset
  <1>7. CASE CheckRunning
    BY <1>7 DEF FileTypeOK, CheckRunning
  <1> QED BY <1>1, <1>3, <1>4, <1>5, <1>6, <1>7 DEF Write

LEMMA FileTypeQuit ==
    ASSUME FileTypeOK, TakeToken \/ PutTokenBack \/ StopPutsToken \/ StopTakesToken
    PROVE  FileTypeOK'
  <1> USE DEF channel, slice, receiver, writing, history
  <1>1. CASE TakeToken
    <2>1. run' = "ack" /\ quit' = 0 /\ isRunning' \in BOOLEAN
      BY <1>1 DEF TakeToken
    <2>2. UNCHANGED <<fileJobs, sent, array, length, query, seen, writer, data, stop, copies,
                      overtaken, failed, clashes, failures>>
      BY <1>1 DEF TakeToken
    <2> QED BY <2>1, <2>2 DEF FileTypeOK
  <1>2. CASE PutTokenBack
    BY <1>2 DEF FileTypeOK, PutTokenBack
  <1>3. CASE StopPutsToken
    BY <1>3 DEF FileTypeOK, StopPutsToken
  <1>4. CASE StopTakesToken
    BY <1>4 DEF FileTypeOK, StopTakesToken
  <1> QED BY <1>1, <1>2, <1>3, <1>4

LEMMA FileTypeStep ==
    ASSUME FileTypeOK, Hand, [FileNext]_fileVars
    PROVE  FileTypeOK'
  <1>1. CASE UNCHANGED fileVars
    BY <1>1 DEF FileTypeOK, fileVars, channel, slice, receiver, writing, stopping, history
  <1>2. CASE FileNext
    <2>1. StoreQuery => query \in Matching
      BY DEF Hand, StoreQuery
    <2> QED BY <1>2, <2>1, FileTypeChannel, FileTypeStore, FileTypeWrite, FileTypeQuit
          DEF FileNext, Run
  <1> QED BY <1>1, <1>2


-----------------------------------------------------------------------------
(* The JSON file: where a record is *)

LEMMA HandStep ==
    ASSUME FileTypeOK, Hand, [FileNext]_fileVars
    PROVE  Hand'
  <1> DEFINE Once == \A i, j \in 1..Len(fileJobs) : fileJobs[i] = fileJobs[j] => i = j
             InHand == IF run = "append" THEN query \in Matching /\ length <= seen ELSE query = NoRecord
             Handed == writer # "write" => data = <<>>
  <1> USE DEF channel, slice, receiver, writing, stopping, history
  <1>0. /\ fileJobs \in Seq(sent) /\ Len(fileJobs) \in Nat /\ length \in Nat /\ seen \in Nat
        /\ length \in 0..Len(array) /\ Len(array) \in Nat
        /\ \A i \in 1..Len(fileJobs) : fileJobs[i] \in sent
        /\ NoRecord \notin Printables /\ sent \subseteq Printables
    BY LenProperties, ElementOfSeq, PrintablesAssumption DEF FileTypeOK
  <1>1. ASSUME NEW r \in Printables, Send(r) PROVE Hand'
    <2>1. /\ Len(fileJobs') = Len(fileJobs) + 1
          /\ \A i \in 1..(Len(fileJobs) + 1) :
                 fileJobs'[i] = IF i = Len(fileJobs) + 1 THEN r ELSE fileJobs[i]
      BY <1>0, <1>1, PutIntoChannel DEF Send
    <2>2. r \notin sent /\ sent' = sent \cup {r}
      BY <1>1 DEF Send
    <2>3. UNCHANGED <<run, query, length, seen, writer, data>>
      BY <1>1 DEF Send
    <2>4. Once'
      BY <1>0, <2>1, <2>2 DEF Hand
    <2>5. query \in sent \cup {NoRecord} /\ query # r
      BY <1>0, <2>2 DEF Hand
    <2>6. query' \notin ToSet(fileJobs') /\ query' \in sent' \cup {NoRecord}
      BY <1>0, <2>1, <2>2, <2>3, <2>5 DEF Hand, ToSet
    <2> QED BY <2>3, <2>4, <2>6 DEF Hand
  <1>2. CASE Receive
    <2>1. /\ Head(fileJobs) = fileJobs[1] /\ Len(fileJobs) \in Nat \ {0}
          /\ Len(fileJobs') = Len(fileJobs) - 1
          /\ \A i \in 1..(Len(fileJobs) - 1) : fileJobs'[i] = fileJobs[i + 1]
      BY <1>0, <1>2, ReceivedFromChannel DEF Receive
    <2>2. Once'
      BY <2>1 DEF Hand
    <2>3. ToSet(fileJobs') \subseteq ToSet(fileJobs) \ {Head(fileJobs)}
      BY <2>1 DEF Hand, ToSet
    <2>4. /\ run = "select" /\ query = NoRecord
          /\ UNCHANGED <<sent, length, writer, data>>
          /\ \/ Head(fileJobs) \in Matching /\ run' = "append" /\ query' = Head(fileJobs) /\ seen' = length
             \/ UNCHANGED <<run, query, seen>>
      BY <1>2 DEF Hand, Receive
    <2>5. query' \notin ToSet(fileJobs') /\ query' \in sent' \cup {NoRecord}
      BY <1>0, <2>1, <2>3, <2>4 DEF Hand
    <2>6. InHand'
      BY <1>0, <2>4
    <2> QED BY <2>2, <2>4, <2>5, <2>6 DEF Hand
  <1>3. CASE StoreQuery
    <2>1. /\ UNCHANGED <<fileJobs, sent, writer, data>>
          /\ run' = "select" /\ query' = NoRecord
      BY <1>3 DEF StoreQuery
    <2>2. query' \notin ToSet(fileJobs')
      BY <1>0, <2>1 DEF ToSet
    <2> QED BY <2>1, <2>2 DEF Hand
  <1>4. CASE TakeToken \/ PutTokenBack \/ StopPutsToken \/ StopTakesToken
    <2>1. /\ UNCHANGED <<fileJobs, sent, writer, data, query, length, seen>>
          /\ run' = run \/ (run # "append" /\ run' # "append")
      BY <1>4 DEF TakeToken, PutTokenBack, StopPutsToken, StopTakesToken
    <2> QED BY <2>1 DEF Hand
  <1>5. CASE Write
    <2>1. UNCHANGED <<fileJobs, sent, run, query, seen>>
      BY <1>5 DEF Write, TakeSlice, WriteFile, WriteTwice, WriteFails, EndWrite, Reset, CheckRunning
    <2>2. length' = length \/ length' = 0
      BY <1>5 DEF Write, TakeSlice, WriteFile, WriteTwice, WriteFails, EndWrite, Reset, CheckRunning
    <2>3. Handed'
      BY <1>5 DEF Hand, Write, TakeSlice, WriteFile, WriteTwice, WriteFails, EndWrite, Reset, CheckRunning
    <2>4. InHand'
      BY <1>0, <2>1, <2>2 DEF Hand
    <2> QED BY <2>1, <2>3, <2>4 DEF Hand
  <1>6. CASE UNCHANGED fileVars
    BY <1>6 DEF Hand, fileVars
  <1> QED BY <1>1, <1>2, <1>3, <1>4, <1>5, <1>6 DEF FileNext, Run

(* What a step does to the records that were stored: run stores the one in *)
(* its hand, and nothing else changes them.                                *)
LEMMA StoredSteps ==
    ASSUME FileTypeOK, Hand, [FileNext]_fileVars
    PROVE  IF StoreQuery THEN query \in Matching \ Stored /\ Stored' = Stored \cup {query}
                         ELSE Stored' = Stored
  <1> USE DEF channel, slice, receiver, writing, stopping, history
  <1>0. /\ fileJobs \in Seq(sent) /\ Len(fileJobs) \in Nat
        /\ \A i \in 1..Len(fileJobs) : fileJobs[i] \in sent
        /\ NoRecord \notin Matching
    BY LenProperties, ElementOfSeq, PrintablesAssumption DEF FileTypeOK
  <1>1. ASSUME NEW r \in Printables, Send(r) PROVE Stored' = Stored
    <2>1. /\ Len(fileJobs') = Len(fileJobs) + 1
          /\ \A i \in 1..(Len(fileJobs) + 1) :
                 fileJobs'[i] = IF i = Len(fileJobs) + 1 THEN r ELSE fileJobs[i]
      BY <1>0, <1>1, PutIntoChannel DEF Send
    <2>2. ToSet(fileJobs') = ToSet(fileJobs) \cup {r}
      BY <1>0, <2>1 DEF ToSet
    <2>3. r \notin sent /\ sent' = sent \cup {r} /\ query' = query
      BY <1>1 DEF Send
    <2> QED BY <2>2, <2>3 DEF Stored
  <1>2. ASSUME Receive PROVE Stored' = Stored
    <2>1. /\ Head(fileJobs) = fileJobs[1] /\ Len(fileJobs) \in Nat \ {0}
          /\ Len(fileJobs') = Len(fileJobs) - 1
          /\ \A i \in 1..(Len(fileJobs) - 1) : fileJobs'[i] = fileJobs[i + 1]
      BY <1>0, <1>2, ReceivedFromChannel DEF Receive
    <2>2. ToSet(fileJobs) = ToSet(fileJobs') \cup {Head(fileJobs)}
      <3>1. ASSUME NEW i \in 1..Len(fileJobs) PROVE fileJobs[i] \in ToSet(fileJobs') \cup {Head(fileJobs)}
        <4>1. CASE i = 1
          BY <2>1, <4>1
        <4>2. CASE i # 1
          <5>1. i - 1 \in 1..Len(fileJobs') /\ (i - 1) + 1 = i
            BY <2>1, <4>2
          <5>2. fileJobs'[i - 1] = fileJobs[i]
            BY <2>1, <5>1
          <5> QED BY <5>1, <5>2 DEF ToSet
        <4> QED BY <4>1, <4>2
      <3>2. ASSUME NEW i \in 1..Len(fileJobs') PROVE fileJobs'[i] \in ToSet(fileJobs)
        BY <2>1 DEF ToSet
      <3>3. Head(fileJobs) \in ToSet(fileJobs)
        BY <2>1 DEF ToSet
      <3>4. ToSet(fileJobs') \subseteq ToSet(fileJobs)
        BY <3>2 DEF ToSet
      <3>5. ToSet(fileJobs) \subseteq ToSet(fileJobs') \cup {Head(fileJobs)}
        BY <3>1 DEF ToSet
      <3> QED BY <3>3, <3>4, <3>5
    <2>3. /\ query = NoRecord /\ sent' = sent
          /\ \/ Head(fileJobs) \in Matching /\ query' = Head(fileJobs)
             \/ Head(fileJobs) \notin Matching /\ query' = query
      BY <1>2 DEF Hand, Receive
    <2> QED BY <1>0, <2>2, <2>3 DEF Stored
  <1>3. CASE StoreQuery
    <2>1. query \in Matching /\ query \in sent /\ query \notin ToSet(fileJobs)
      BY <1>0, <1>3 DEF Hand, StoreQuery
    <2>2. query' = NoRecord /\ sent' = sent /\ fileJobs' = fileJobs
      BY <1>3 DEF StoreQuery
    <2> QED BY <1>0, <1>3, <2>1, <2>2 DEF Stored
  <1>4. ASSUME TakeToken \/ PutTokenBack \/ StopPutsToken \/ StopTakesToken \/ Write \/ UNCHANGED fileVars
        PROVE  Stored' = Stored
    <2>1. UNCHANGED <<fileJobs, sent, query>>
      BY <1>4 DEF TakeToken, PutTokenBack, StopPutsToken, StopTakesToken, Write, TakeSlice, WriteFile,
                  WriteTwice, WriteFails, EndWrite, Reset, CheckRunning, fileVars
    <2> QED BY <2>1 DEF Stored, ToSet
  <1> QED BY <1>1, <1>2, <1>3, <1>4 DEF FileNext, Run


-----------------------------------------------------------------------------
(* The JSON file: written, or lost for a cause *)

(* A record that was in a file, or whose loss has a cause, stays so.       *)
LEMMA ExcusedStays ==
    ASSUME FileTypeOK, [FileNext]_fileVars, NEW r \in Matching, Excused(r)
    PROVE  Excused(r)'
  <1> USE DEF channel, slice, receiver, writing, stopping, history
  <1>1. overtaken \subseteq overtaken' /\ failed \subseteq failed'
    BY DEF FileNext, Run, Send, Receive, StoreQuery, TakeToken, PutTokenBack, StopPutsToken,
           StopTakesToken, Write, TakeSlice, WriteFile, WriteTwice, WriteFails, EndWrite, Reset,
           CheckRunning, fileVars
  <1>2. \/ copies' = copies
        \/ WrittenToFile(1) \/ WrittenToFile(2)
    BY DEF FileNext, Run, Send, Receive, StoreQuery, TakeToken, PutTokenBack, StopPutsToken,
           StopTakesToken, Write, TakeSlice, WriteFile, WriteTwice, WriteFails, EndWrite, Reset,
           CheckRunning, fileVars
  <1>3. copies[r] \in Nat
    BY DEF FileTypeOK
  <1>4. copies'[r] >= copies[r]
    BY <1>2, <1>3 DEF WrittenToFile
  <1>5. copies'[r] \in Nat
    BY <1>2, <1>3 DEF WrittenToFile
  <1> QED BY <1>1, <1>3, <1>4, <1>5 DEF Excused

(* What a write does to one record.                                        *)
LEMMA WriteEffect ==
    ASSUME FileTypeOK, NEW n \in Nat, WrittenToFile(n), NEW r \in Matching
    PROVE  copies'[r] = IF r \in ToSet(data) THEN copies[r] + n ELSE copies[r]
  BY DEF WrittenToFile

(* The slice that the writer takes is what is in queries.                  *)
LEMMA TakenSlice ==
    ASSUME FileTypeOK, TakeSlice
    PROVE  ToSet(data') = Queries
  <1>1. array \in Seq(Matching) /\ Len(array) \in Nat /\ length \in 0..Len(array)
    BY LenProperties DEF FileTypeOK
  <1>2. data' = SubSeq(array, 1, length)
    BY DEF TakeSlice
  <1>3. Len(data') = length /\ \A i \in 1..length : data'[i] = array[i]
    BY <1>1, <1>2, SubSeqProperties, ElementOfSeq
  <1> QED BY <1>3 DEF ToSet, Queries

LEMMA NoData == data = <<>> => ToSet(data) = {}
  BY DEF ToSet

(* What leaves queries and the writer in a step that writes or resets.     *)
LEMMA SliceStep ==
    ASSUME FileTypeOK, Hand, SliceIsWritten, [FileNext]_fileVars
    PROVE  SliceIsWritten'
  <1> DEFINE After(r) == copies'[r] > 0 \/ r \in failed' \cup overtaken'
  <1> USE DEF channel, slice, receiver, writing, stopping, history
  <1>0. /\ Len(array) \in Nat /\ length \in 0..Len(array)
        /\ \A i \in 1..Len(array) : array[i] \in Matching
    BY LenProperties, ElementOfSeq DEF FileTypeOK
  <1>stays. \A r \in Matching : Excused(r) => After(r)
    BY ExcusedStays DEF Excused
  <1>1. CASE StoreQuery
    <2>1. query \in Matching /\ length <= seen /\ seen \in 0..Len(array)
      BY <1>1 DEF FileTypeOK, Hand, StoreQuery
    <2>2. /\ seen < Len(array) => Len(array') = Len(array)
          /\ seen = Len(array) => Len(array') = seen + 1
          /\ \A i \in 1..Len(array') : array'[i] = IF i = seen + 1 THEN query ELSE array[i]
      BY <1>1, <2>1, StoreQueryArray
    <2>3. length' = seen + 1 /\ data' = data /\ writer' = writer
      BY <1>1 DEF StoreQuery
    <2>4. writer = "write" \/ writer = "reset" => After(query)
      BY <1>1 DEF StoreQuery, Excused
    <2>5. ASSUME NEW i \in 1..Len(array'), i > length' PROVE After(array'[i])
      <3>1. i \in 1..Len(array) /\ i > length /\ array'[i] = array[i]
        BY <1>0, <2>1, <2>2, <2>3, <2>5
      <3>2. Excused(array[i]) /\ array[i] \in Matching
        BY <1>0, <3>1 DEF SliceIsWritten
      <3> QED BY <1>stays, <3>1, <3>2
    <2>6. ASSUME NEW i \in 1..length', writer = "reset" PROVE After(array'[i])
      <3>1. CASE i = seen + 1
        <4>1. array'[i] = query
          BY <1>0, <2>1, <2>2, <2>3, <3>1
        <4> QED BY <2>4, <2>6, <4>1
      <3>2. CASE i # seen + 1
        <4>1. i \in 1..Len(array) /\ array'[i] = array[i]
          BY <1>0, <2>1, <2>2, <2>3, <3>2
        <4>2. Excused(array[i])
          BY <1>0, <2>6, <4>1 DEF SliceIsWritten
        <4> QED BY <1>0, <1>stays, <4>1, <4>2
      <3> QED BY <3>1, <3>2
    <2>7. ASSUME NEW i \in 1..length', writer = "write"
          PROVE  After(array'[i]) \/ array'[i] \in ToSet(data)
      <3>1. CASE i = seen + 1
        <4>1. array'[i] = query
          BY <1>0, <2>1, <2>2, <2>3, <3>1
        <4> QED BY <2>4, <2>7, <4>1
      <3>2. CASE i # seen + 1
        <4>1. i \in 1..Len(array) /\ array'[i] = array[i]
          BY <1>0, <2>1, <2>2, <2>3, <3>2
        <4>2. Excused(array[i]) \/ array[i] \in ToSet(data)
          BY <1>0, <2>7, <4>1 DEF SliceIsWritten
        <4> QED BY <1>0, <1>stays, <4>1, <4>2
      <3> QED BY <3>1, <3>2
    <2> QED BY <2>3, <2>5, <2>6, <2>7 DEF SliceIsWritten, ToSet, Excused
  <1>2. CASE TakeSlice
    <2>1. ToSet(data') = Queries /\ writer' = "write"
      BY <1>2, TakenSlice DEF TakeSlice
    <2>2. \A i \in 1..length : array[i] \in ToSet(data')
      BY <2>1 DEF Queries
    <2>3. UNCHANGED <<array, length, copies, failed, overtaken>>
      BY <1>2 DEF TakeSlice
    <2> QED BY <2>1, <2>2, <2>3 DEF SliceIsWritten, Excused
  <1>3. CASE WriteFile \/ WriteTwice \/ WriteFails
    <2>1. writer = "write" /\ writer' = "reset" /\ UNCHANGED <<array, length>>
      BY <1>3 DEF WriteFile, WriteTwice, WriteFails, EndWrite
    <2>2. ASSUME NEW r \in Matching, r \in ToSet(data) PROVE After(r)
      <3>1. CASE WriteFile
        BY <2>2, <3>1, WriteEffect DEF FileTypeOK, WriteFile, Excused
      <3>2. CASE WriteTwice
        BY <2>2, <3>2, WriteEffect DEF FileTypeOK, WriteTwice, Excused
      <3>3. CASE WriteFails
        BY <2>2, <3>3 DEF WriteFails, Excused
      <3> QED BY <1>3, <3>1, <3>2, <3>3
    <2>3. \A i \in 1..Len(array) : Excused(array[i]) => After(array[i])
      BY <1>0, <1>stays, <2>1 DEF Excused
    <2>4. ASSUME NEW i \in 1..length PROVE After(array[i])
      BY <1>0, <2>1, <2>2, <2>3 DEF SliceIsWritten, Excused
    <2> QED BY <1>0, <2>1, <2>3, <2>4 DEF SliceIsWritten, Excused
  <1>4. CASE Reset
    <2>1. writer = "reset" /\ writer' = "check" /\ length' = 0
          /\ UNCHANGED <<array, copies, failed, overtaken>>
      BY <1>4 DEF Reset
    <2>2. \A i \in 1..Len(array) : Excused(array[i])
      BY <1>0, <2>1 DEF SliceIsWritten
    <2> QED BY <2>1, <2>2 DEF SliceIsWritten, Excused
  <1>5. CASE \/ \E r \in Printables : Send(r)
             \/ Receive \/ TakeToken \/ PutTokenBack \/ StopPutsToken \/ StopTakesToken \/ CheckRunning
             \/ UNCHANGED fileVars
    <2>1. /\ UNCHANGED <<array, length, data, copies, failed, overtaken>>
          /\ writer' \in {"sleep", "stopped"} \/ writer' = writer
      BY <1>5 DEF Send, Receive, TakeToken, PutTokenBack, StopPutsToken, StopTakesToken, CheckRunning,
                  fileVars
    <2> QED BY <2>1 DEF SliceIsWritten, Excused, ToSet
  <1> QED BY <1>1, <1>2, <1>3, <1>4, <1>5 DEF FileNext, Run, Write


LEMMA UnstoredStep ==
    ASSUME FileTypeOK, Hand, UnstoredIsNew, [FileNext]_fileVars
    PROVE  UnstoredIsNew'
  <1> USE DEF channel, slice, receiver, writing, stopping, history
  <1>1. SUFFICES ASSUME NEW r \in Matching, r \notin Stored'
                 PROVE  copies'[r] = 0 /\ r \notin ToSet(array') /\ r \notin ToSet(data')
    BY DEF UnstoredIsNew
  <1>2. /\ r \notin Stored
        /\ StoreQuery => query \in Matching /\ r # query
    BY <1>1, StoredSteps
  <1>3. copies[r] = 0 /\ r \notin ToSet(array) /\ r \notin ToSet(data)
    BY <1>2 DEF UnstoredIsNew
  <1>4. CASE StoreQuery
    <2>1. \A i \in 1..Len(array') : array'[i] = IF i = seen + 1 THEN query ELSE array[i]
      BY <1>2, <1>4, StoreQueryArray
    <2>2. /\ Len(array) \in Nat /\ seen \in 0..Len(array)
          /\ seen < Len(array) => Len(array') = Len(array)
          /\ seen = Len(array) => Len(array') = seen + 1
      BY <1>2, <1>4, StoreQueryArray, LenProperties DEF FileTypeOK
    <2>3. ASSUME NEW i \in 1..Len(array'), array'[i] = r PROVE FALSE
      <3>1. i # seen + 1 /\ array[i] = r
        BY <1>2, <1>4, <2>1, <2>3
      <3>2. i \in 1..Len(array)
        BY <2>2, <3>1
      <3> QED BY <1>3, <3>1, <3>2 DEF ToSet
    <2>4. r \notin ToSet(array')
      BY <2>3 DEF ToSet
    <2>5. copies' = copies /\ data' = data
      BY <1>4 DEF StoreQuery
    <2> QED BY <1>3, <2>4, <2>5 DEF ToSet
  <1>5. CASE TakeSlice
    <2>1. Queries \subseteq ToSet(array)
      BY LenProperties DEF FileTypeOK, Queries, ToSet
    <2>2. ToSet(data') = Queries
      BY <1>5, TakenSlice
    <2>3. copies' = copies /\ array' = array
      BY <1>5 DEF TakeSlice
    <2>4. r \notin ToSet(data')
      BY <1>3, <2>1, <2>2
    <2> QED BY <1>3, <2>3, <2>4 DEF ToSet
  <1>6. CASE WriteFile \/ WriteTwice \/ WriteFails
    <2>1. array' = array /\ data' = <<>>
      BY <1>6 DEF WriteFile, WriteTwice, WriteFails, EndWrite
    <2>2. copies'[r] = copies[r]
      BY <1>3, <1>6, WriteEffect DEF WriteFile, WriteTwice, WriteFails
    <2> QED BY <1>3, <2>1, <2>2 DEF ToSet
  <1>7. CASE \/ \E q \in Printables : Send(q)
             \/ Receive \/ TakeToken \/ PutTokenBack \/ StopPutsToken \/ StopTakesToken
             \/ Reset \/ CheckRunning \/ UNCHANGED fileVars
    <2>1. UNCHANGED <<array, data, copies>>
      BY <1>7 DEF Send, Receive, TakeToken, PutTokenBack, StopPutsToken, StopTakesToken, Reset,
                  CheckRunning, fileVars
    <2> QED BY <1>3, <2>1 DEF ToSet
  <1> QED BY <1>4, <1>5, <1>6, <1>7 DEF FileNext, Run, Write

LEMMA PassedIsStored == Passed = Stored \ (Queries \cup ToSet(data))
  BY DEF Passed, Stored

LEMMA LossStep ==
    ASSUME FileTypeOK, Hand, SliceIsWritten, LossNeedsCause, [FileNext]_fileVars
    PROVE  LossNeedsCause'
  <1> DEFINE After(r) == copies'[r] > 0 \/ r \in failed' \cup overtaken'
  <1> USE DEF channel, slice, receiver, writing, stopping, history
  <1>1. SUFFICES ASSUME NEW r \in Passed' PROVE After(r)
    BY DEF LossNeedsCause
  <1>2. r \in Matching /\ r \in Stored' /\ r \notin Queries' /\ r \notin ToSet(data')
    BY <1>1 DEF Passed, Stored
  <1>3. Excused(r) => After(r)
    BY <1>2, ExcusedStays DEF Excused
  <1>4. r \in Stored /\ r \notin Queries /\ r \notin ToSet(data) => After(r)
    BY <1>3, PassedIsStored DEF LossNeedsCause, Excused
  <1>5. /\ Len(array) \in Nat /\ length \in 0..Len(array)
        /\ \A i \in 1..Len(array) : array[i] \in Matching
    BY LenProperties, ElementOfSeq DEF FileTypeOK
  <1>6. CASE StoreQuery
    <2>1. query \in Matching /\ length <= seen /\ seen \in 0..Len(array)
      BY <1>6 DEF FileTypeOK, Hand, StoreQuery
    <2>2. /\ seen < Len(array) => Len(array') = Len(array)
          /\ seen = Len(array) => Len(array') = seen + 1
          /\ \A i \in 1..Len(array') : array'[i] = IF i = seen + 1 THEN query ELSE array[i]
      BY <1>6, <2>1, StoreQueryArray
    <2>3. length' = seen + 1 /\ data' = data
      BY <1>6 DEF StoreQuery
    <2>4. seen + 1 \in 1..length' /\ array'[seen + 1] = query
      BY <1>5, <2>1, <2>2, <2>3
    <2>5. query \in Queries'
      BY <2>4 DEF Queries
    <2>6. ASSUME NEW i \in 1..length, array[i] = r PROVE FALSE
      <3>1. i \in 1..length' /\ array'[i] = array[i]
        BY <1>5, <2>1, <2>2, <2>3
      <3> QED BY <1>2, <2>6, <3>1 DEF Queries
    <2>7. r \in Stored /\ r \notin ToSet(data)
      BY <1>2, <1>6, <2>3, <2>5, StoredSteps DEF ToSet
    <2>8. r \notin Queries
      BY <2>6 DEF Queries
    <2> QED BY <1>4, <2>7, <2>8
  <1>7. CASE ~StoreQuery
    <2>1. r \in Stored
      BY <1>2, <1>7, StoredSteps
    <2>2. CASE TakeSlice
      <3>1. ToSet(data') = Queries /\ writer = "sleep"
        BY <2>2, TakenSlice DEF TakeSlice
      <3>2. r \notin Queries /\ r \notin ToSet(data)
        BY <1>2, <3>1, NoData DEF Hand
      <3> QED BY <1>4, <2>1, <3>2
    <2>3. CASE WriteFile \/ WriteTwice \/ WriteFails
      <3>1. r \notin Queries
        BY <1>2, <2>3 DEF WriteFile, WriteTwice, WriteFails, EndWrite, Queries
      <3>2. CASE r \in ToSet(data)
        BY <1>2, <2>3, <3>2, WriteEffect DEF FileTypeOK, WriteFile, WriteTwice, WriteFails
      <3> QED BY <1>4, <2>1, <3>1, <3>2
    <2>4. CASE Reset
      <3>1. writer = "reset" /\ data = <<>>
        BY <2>4 DEF Reset, Hand
      <3>2. CASE r \in Queries
        <4>1. PICK i \in 1..length : array[i] = r
          BY <3>2 DEF Queries
        <4>2. Excused(r)
          BY <3>1, <4>1 DEF SliceIsWritten
        <4> QED BY <1>3, <4>2
      <3> QED BY <1>4, <2>1, <3>1, <3>2, NoData
    <2>5. CASE \/ \E q \in Printables : Send(q)
               \/ Receive \/ TakeToken \/ PutTokenBack \/ StopPutsToken \/ StopTakesToken
               \/ CheckRunning \/ UNCHANGED fileVars
      <3>1. UNCHANGED <<array, length, data>>
        BY <2>5 DEF Send, Receive, TakeToken, PutTokenBack, StopPutsToken, StopTakesToken,
                    CheckRunning, fileVars
      <3> QED BY <1>2, <1>4, <2>1, <3>1 DEF Queries, ToSet
    <2> QED BY <1>7, <2>2, <2>3, <2>4, <2>5 DEF FileNext, Run, Write
  <1> QED BY <1>6, <1>7

-----------------------------------------------------------------------------
(* The JSON file: how often a record is written *)

LEMMA OthersAreFinite ==
    ASSUME NEW r
    PROVE  /\ IsFiniteSet(Matching \ {r}) /\ IsFiniteSet(Stored \ {r})
           /\ Cardinality(Stored \ {r}) \in Nat /\ Cardinality(Matching \ {r}) \in Nat
           /\ Cardinality(Stored \ {r}) <= Cardinality(Matching \ {r})
  <1>1. IsFiniteSet(Matching \ {r})
    BY PrintablesAssumption, FS_Subset
  <1>2. Stored \ {r} \subseteq Matching \ {r}
    BY DEF Stored
  <1> QED BY <1>1, <1>2, FS_Subset, FS_CardinalityType

LEMMA WritesStep ==
    ASSUME FileTypeOK, Hand, UnstoredIsNew, WritesAreCaused, [FileNext]_fileVars
    PROVE  WritesAreCaused'
  <1> DEFINE Once(r)  == IF ToBeWritten(r) THEN 1 ELSE 0
             Others(r) == Cardinality(Stored \ {r})
  <1> USE DEF channel, slice, receiver, writing, stopping, history
  <1>1. SUFFICES ASSUME NEW r \in Matching
                 PROVE  copies'[r] + Once(r)' <= 1 + clashes' + Others(r)'
    BY DEF WritesAreCaused
  <1>2. copies[r] \in Nat /\ Others(r) \in Nat /\ clashes \in Nat
    <2>1. copies[r] \in Nat /\ clashes \in Nat
      BY FileNumbersAssumption DEF FileTypeOK
    <2>2. Others(r) \in Nat
      BY OthersAreFinite
    <2> QED BY <2>1, <2>2
  <1>3. copies[r] + Once(r) <= 1 + clashes + Others(r)
    BY DEF WritesAreCaused
  <1>4. CASE StoreQuery
    <2>1. query \in Matching \ Stored /\ Stored' = Stored \cup {query}
      BY <1>4, StoredSteps
    <2>2. UNCHANGED <<copies, clashes, data, writer>>
      BY <1>4 DEF StoreQuery
    <2>3. CASE r = query
      <3>1. copies[r] = 0
        BY <2>1, <2>3 DEF UnstoredIsNew
      <3>2. Stored' \ {r} = Stored \ {r}
        BY <2>1, <2>3
      <3> QED BY <1>2, <2>2, <3>1, <3>2
    <2>4. CASE r # query
      <3>1. Stored' \ {r} = (Stored \ {r}) \cup {query} /\ query \notin Stored \ {r}
        BY <2>1, <2>4
      <3>2. Cardinality(Stored' \ {r}) = Others(r) + 1
        BY <3>1, OthersAreFinite, FS_AddElement
      <3>3. copies[r] <= 1 + clashes + Others(r)
        BY <1>2, <1>3
      <3> QED BY <1>2, <2>2, <3>2, <3>3
    <2> QED BY <2>3, <2>4
  <1>5. CASE ~StoreQuery
    <2>1. Others(r)' = Others(r)
      BY <1>5, StoredSteps
    <2>2. CASE TakeSlice
      <3>1. writer = "sleep" /\ writer' = "write" /\ UNCHANGED <<copies, clashes>>
        BY <2>2 DEF TakeSlice
      <3>2. ToBeWritten(r)' = ToBeWritten(r)
        BY <2>2, <3>1, TakenSlice DEF ToBeWritten
      <3> QED BY <1>3, <2>1, <3>1, <3>2
    <2>3. CASE WriteFile \/ WriteTwice \/ WriteFails
      <3>1. ~ToBeWritten(r)' /\ (ToBeWritten(r) <=> r \in ToSet(data))
        BY <2>3 DEF ToBeWritten, WriteFile, WriteTwice, WriteFails, EndWrite
      <3>2. CASE WriteFile
        <4>1. copies'[r] = (IF r \in ToSet(data) THEN copies[r] + 1 ELSE copies[r]) /\ clashes' = clashes
          BY <3>2, WriteEffect DEF WriteFile
        <4> QED BY <1>2, <1>3, <2>1, <3>1, <4>1
      <3>3. CASE WriteTwice
        <4>1. copies'[r] = (IF r \in ToSet(data) THEN copies[r] + 2 ELSE copies[r])
              /\ clashes' = clashes + 1
          BY <3>3, WriteEffect DEF WriteTwice
        <4> QED BY <1>2, <1>3, <2>1, <3>1, <4>1
      <3>4. CASE WriteFails
        <4>1. copies' = copies /\ clashes' = clashes
          BY <3>4 DEF WriteFails
        <4> QED BY <1>2, <1>3, <2>1, <3>1, <4>1
      <3> QED BY <2>3, <3>2, <3>3, <3>4
    <2>4. CASE Reset
      <3>1. writer' = "check" /\ length' = 0 /\ UNCHANGED <<copies, clashes>>
        BY <2>4 DEF Reset
      <3>2. ~ToBeWritten(r)'
        BY <3>1 DEF ToBeWritten, Queries
      <3> QED BY <1>2, <1>3, <2>1, <3>1, <3>2
    <2>5. CASE \/ \E q \in Printables : Send(q)
               \/ Receive \/ TakeToken \/ PutTokenBack \/ StopPutsToken \/ StopTakesToken
               \/ CheckRunning \/ UNCHANGED fileVars
      <3>1. /\ UNCHANGED <<array, length, data, copies, clashes>>
            /\ writer' = writer \/ (writer = "check" /\ writer' \in {"sleep", "stopped"})
        BY <2>5 DEF Send, Receive, TakeToken, PutTokenBack, StopPutsToken, StopTakesToken,
                    CheckRunning, fileVars
      <3>2. ToBeWritten(r)' <=> ToBeWritten(r)
        BY <3>1 DEF ToBeWritten, Queries, ToSet
      <3> QED BY <1>2, <1>3, <2>1, <3>1, <3>2
    <2> QED BY <1>5, <2>2, <2>3, <2>4, <2>5 DEF FileNext, Run, Write
  <1> QED BY <1>4, <1>5

-----------------------------------------------------------------------------
(* The JSON file: theorems *)

LEMMA FileInvInit == FileInit => FileInv
  <1> SUFFICES ASSUME FileInit PROVE FileInv
    OBVIOUS
  <1>1. FileTypeOK
    BY FileTypeInit
  <1>2. fileJobs = <<>> /\ sent = {} /\ array = <<>> /\ data = <<>> /\ length = 0
        /\ run = "select" /\ query = NoRecord /\ writer = "sleep" /\ clashes = 0
        /\ copies = [r \in Matching |-> 0]
    BY DEF FileInit
  <1>3. Hand /\ UnstoredIsNew /\ SliceIsWritten /\ LossNeedsCause
    BY <1>2, EmptySeq DEF Hand, UnstoredIsNew, SliceIsWritten, LossNeedsCause, Passed, ToSet
  <1>4. WritesAreCaused
    <2>1. ASSUME NEW r \in Matching
          PROVE  /\ copies[r] + (IF ToBeWritten(r) THEN 1 ELSE 0) = 0 /\ clashes = 0
                 /\ Cardinality(Stored \ {r}) \in Nat
      <3>1. copies[r] = 0 /\ ~ToBeWritten(r)
        BY <1>2 DEF ToBeWritten, Queries
      <3>2. Cardinality(Stored \ {r}) \in Nat
        BY OthersAreFinite
      <3> QED BY <1>2, <3>1, <3>2
    <2> QED BY <2>1 DEF WritesAreCaused
  <1> QED BY <1>1, <1>3, <1>4 DEF FileInv

LEMMA FileInvInvariant == FileSpec => []FileInv
  <1>1. FileInv /\ [FileNext]_fileVars => FileInv'
    BY FileTypeStep, HandStep, UnstoredStep, SliceStep, LossStep, WritesStep DEF FileInv
  <1> QED BY FileInvInit, <1>1, PTL DEF FileSpec

(* FileTypeOK: the JSON file worker keeps its variables in their sets.     *)
THEOREM FileTypeCorrect == FileSpec => []FileTypeOK
  <1>1. FileInv => FileTypeOK
    BY DEF FileInv
  <1> QED BY FileInvInvariant, <1>1, PTL

(* LossNeedsCause: what has left the memory of the JSON file target is in  *)
(* a file, unless its write failed or run appended it between the moment   *)
(* the writer passed the slice on and the moment it reset its length.      *)
THEOREM FileLossesHaveACause == FileSpec => []LossNeedsCause
  <1>1. FileInv => LossNeedsCause
    BY DEF FileInv
  <1> QED BY FileInvInvariant, <1>1, PTL

(* CopiesBounded: a record is written once, and once more at most for      *)
(* every file of the same second and every other record run has stored.    *)
THEOREM FileCopiesAreBounded == FileSpec => []CopiesBounded
  <1>1. FileInv => CopiesBounded
    <2>1. SUFFICES ASSUME FileInv, NEW r \in Matching
                   PROVE  copies[r] <= 1 + clashes + Cardinality(Matching \ {r})
      BY DEF CopiesBounded
    <2>2. copies[r] \in Nat /\ clashes \in Nat
      BY <2>1, FileNumbersAssumption DEF FileInv, FileTypeOK
    <2>3. /\ Cardinality(Stored \ {r}) \in Nat /\ Cardinality(Matching \ {r}) \in Nat
          /\ Cardinality(Stored \ {r}) <= Cardinality(Matching \ {r})
      BY OthersAreFinite
    <2>4. copies[r] <= 1 + clashes + Cardinality(Stored \ {r})
      <3>1. copies[r] + (IF ToBeWritten(r) THEN 1 ELSE 0) <= 1 + clashes + Cardinality(Stored \ {r})
        BY <2>1 DEF FileInv, WritesAreCaused
      <3> QED BY <2>2, <2>3, <3>1
    <2> QED BY <2>2, <2>3, <2>4
  <1> QED BY FileInvInvariant, <1>1, PTL

=============================================================================
