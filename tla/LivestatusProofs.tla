-------------------------- MODULE LivestatusProofs --------------------------
(***************************************************************************)
(* Proofs about the two loops of src/collector/livestatus: about           *)
(* LivestatusCollector for all events, kinds and targets and every pause,  *)
(* window and capacity, and about DowntimeCache for all downtimes, hosts   *)
(* and services and all starts of downtimes.                               *)
(***************************************************************************)
EXTENDS LivestatusCollector, DowntimeCache, FiniteSetTheorems, TLAPS


-----------------------------------------------------------------------------
(* The collector: the inductive invariant *)

(* What a requester holds where: it has lines of its own kind, once its    *)
(* query was answered, and one more line in hand while it gives.           *)
Holds(k) ==
    /\ req[k] \notin {"lines", "give"} => lines[k] = {}
    /\ hand[k] # NoEvent <=> req[k] = "give"
    /\ hand[k] \notin lines[k]
    /\ \A e \in Events : e \in lines[k] \/ hand[k] = e => KindOf[e] = k
    /\ req[k] # "asked" => excluded[k] = {}
    /\ run \notin {"query", "deliver"} => req[k] = "off"

Requesters == \A k \in Kinds : Holds(k)

(* queryData has a job while it delivers; the requester of the job was     *)
(* answered in this round and does not hold the job any more.              *)
Reader ==
    /\ job # NoEvent <=> run = "deliver"
    /\ todo # {} => run = "deliver"
    /\ \A e \in Events : job = e =>
          /\ req[KindOf[e]] \notin {"start", "asked"}
          /\ e \notin lines[KindOf[e]] /\ hand[KindOf[e]] # e

(* Only what Livestatus answered is on its way.                            *)
HeldIsAnswered ==
    /\ \A k \in Kinds : hand[k] \in fetched \cup {NoEvent}
    /\ job \in fetched \cup {NoEvent}

(* An event that was not entered yet has no history.                       *)
NewIsFresh ==
    \A e \in Events \ entered : age[e] = 0 /\ \A t \in Targets : copies[<<e, t>>] = 0

(* Target t still gets e in this round.                                    *)
Outstanding(e, t) ==
    e \in lines[KindOf[e]] \/ hand[KindOf[e]] = e \/ (job = e /\ t \in todo)

(* A query excludes an event that was in no answer only if it is late.     *)
ExcludedIsKnown ==
    \A k \in Kinds : \A e \in excluded[k] \ fetched : KindOf[e] = k => late[k]

(* The answers that had e, as far as target t is concerned.                *)
Count(e, t) == copies[<<e, t>>] + (IF Outstanding(e, t) THEN 1 ELSE 0)

(* What Livestatus answered is in the channels or on its way to them.      *)
AnsweredIsUnderWay == \A e \in Useful, t \in Targets : Count(e, t) > 0

(* The first answer with e may be to a query from before its entry; after  *)
(* that, each round that has e begins an Interval after the one before.    *)
Paced(e, t) ==
    LET k    == KindOf[e]
        time == Count(e, t) * Interval
    IN  /\ time <= (Window - 1) + Interval
        /\ age[e] = Window \/ time <= age[e] + Interval
        /\ req[k] \in {"start", "asked"} => age[e] = Window \/ time <= age[e]
        /\ req[k] = "asked" => e \in excluded[k] \/ time <= Window - 1
        /\ run = "select" => age[e] = Window \/ time <= age[e] + timer

Pace == \A e \in Events, t \in Targets : Paced(e, t)

IndInv ==
    /\ TypeOK /\ Requesters /\ Reader /\ HeldIsAnswered /\ NewIsFresh
    /\ AnsweredIsUnderWay /\ ExcludedIsKnown /\ NothingBetweenAnswers /\ Pace

-----------------------------------------------------------------------------
(* The collector: types *)

Locations == {"off", "start", "asked", "lines", "give"}

LEMMA TypeInit == Init => TypeOK
  BY NumbersAssumption DEF Init, TypeOK

(* The steps that only touch channels or the token in quit.                *)
LEMMA TypeAside ==
    ASSUME TypeOK,
           StopPutsToken \/ StopTakesToken \/ TakeToken \/ PutTokenBack
              \/ \E t \in Targets : Consume(t) \/ Fill(t)
    PROVE  TypeOK'
  <1> USE DEF TypeOK, livestatus, requesters, reader, stopping, history
  <1>1. CASE StopPutsToken \/ StopTakesToken
    BY <1>1 DEF StopPutsToken, StopTakesToken
  <1>2. CASE TakeToken \/ PutTokenBack
    BY <1>2 DEF TakeToken, PutTokenBack
  <1>3. ASSUME NEW t \in Targets, Consume(t) PROVE TypeOK'
    BY <1>3, NumbersAssumption DEF Consume
  <1>4. ASSUME NEW t \in Targets, Fill(t) PROVE TypeOK'
    BY <1>4, NumbersAssumption DEF Fill
  <1> QED BY <1>1, <1>2, <1>3, <1>4

LEMMA OlderType ==
    ASSUME NEW n \in 0..Window
    PROVE  Older(n) \in 0..Window /\ n <= Older(n) /\ (Older(n) = Window \/ Older(n) = n + 1)
  BY NumbersAssumption DEF Older

LEMMA TypeTime ==
    ASSUME TypeOK, Tick \/ \E e \in Events : Enter(e)
    PROVE  TypeOK'
  <1> USE DEF TypeOK, livestatus, requesters, reader, stopping, history
  <1>1. CASE Tick
    <2>1. age' \in [Events -> 0..Window] /\ since' \in [Kinds -> 0..Window]
      BY <1>1, OlderType, NumbersAssumption DEF Tick
    <2>2. timer' \in 0..Interval
      BY <1>1, NumbersAssumption DEF Tick
    <2> QED BY <1>1, <2>1, <2>2 DEF Tick
  <1>2. ASSUME NEW e \in Events, Enter(e) PROVE TypeOK'
    BY <1>2 DEF Enter
  <1> QED BY <1>1, <1>2

LEMMA TypeRequesters ==
    ASSUME TypeOK, NEW k \in Kinds, Request(k) \/ Answer(k) \/ PartialAnswer(k)
    PROVE  TypeOK'
  <1> USE DEF TypeOK, livestatus, requesters, reader, stopping, history, Goto
  <1>1. CASE StartQuery(k)
    <2>1. excluded' \in [Kinds -> SUBSET entered]
      BY <1>1 DEF StartQuery
    <2>2. late' \in [Kinds -> BOOLEAN] /\ req' \in [Kinds -> Locations]
      BY <1>1 DEF StartQuery, Locations
    <2> QED BY <1>1, <2>1, <2>2 DEF StartQuery, Locations
  <1>2. ASSUME NEW e \in Events, ReadLine(k, e) PROVE TypeOK'
    <2>1. lines' \in [Kinds -> SUBSET fetched] /\ hand' \in [Kinds -> Events \cup {NoEvent}]
      BY <1>2 DEF ReadLine
    <2>2. req' \in [Kinds -> Locations]
      BY <1>2 DEF ReadLine, Locations
    <2> QED BY <1>2, <2>1, <2>2 DEF ReadLine, Locations
  <1>3. ASSUME NEW answer \in SUBSET Matches(k), Read(k, answer), since' \in [Kinds -> 0..Window]
        PROVE  TypeOK'
    <2>1. answer \subseteq entered
      BY DEF Matches
    <2>2. fetched' \subseteq entered' /\ excluded' \in [Kinds -> SUBSET entered]
      BY <1>3, <2>1 DEF Read
    <2>3. \A kind \in Kinds : lines'[kind] \subseteq fetched'
      BY <1>3 DEF Read
    <2>4. lines' \in [Kinds -> SUBSET fetched']
      BY <1>3, <2>3 DEF Read
    <2>5. req' \in [Kinds -> Locations]
      BY <1>3 DEF Read, Locations
    <2> QED BY <1>3, <2>2, <2>4, <2>5 DEF Read, Locations
  <1>4. CASE Answer(k)
    <2>1. since' \in [Kinds -> 0..Window]
      BY <1>4, NumbersAssumption DEF Answer
    <2> QED BY <1>3, <1>4, <2>1 DEF Answer
  <1>5. CASE PartialAnswer(k)
    BY <1>3, <1>5 DEF PartialAnswer
  <1> QED BY <1>1, <1>2, <1>4, <1>5 DEF Request

LEMMA TypeReader ==
    ASSUME TypeOK, Reader, NextRound \/ (\E k \in Kinds : TakePrintable(k) \/ Finished(k))
                             \/ (\E t \in Targets : Deliver(t))
    PROVE  TypeOK'
  <1> USE DEF TypeOK, livestatus, requesters, reader, stopping, history, Goto
  <1>1. CASE NextRound
    BY <1>1 DEF NextRound
  <1>2. ASSUME NEW k \in Kinds, TakePrintable(k) PROVE TypeOK'
    <2>1. hand' \in [Kinds -> Events \cup {NoEvent}] /\ req' \in [Kinds -> Locations]
      BY <1>2 DEF TakePrintable, Locations
    <2>2. job' \in Events \cup {NoEvent} /\ todo' \subseteq Targets
      BY <1>2 DEF TakePrintable
    <2>3. run' \in {"query", "deliver", "select", "ack", "stopped"}
      BY <1>2 DEF TakePrintable
    <2> QED BY <1>2, <2>1, <2>2, <2>3 DEF TakePrintable, Locations
  <1>3. ASSUME NEW k \in Kinds, Finished(k) PROVE TypeOK'
    <2>1. req' \in [Kinds -> Locations]
      BY <1>3 DEF Finished, Locations
    <2>2. timer' \in 0..Interval /\ run' \in {"query", "deliver", "select", "ack", "stopped"}
      BY <1>3, NumbersAssumption DEF Finished
    <2> QED BY <1>3, <2>1, <2>2 DEF Finished, Locations
  <1>4. ASSUME NEW t \in Targets, Deliver(t) PROVE TypeOK'
    <2>1. filled' \in [Targets -> 0..QueueCap]
      BY <1>4, NumbersAssumption DEF Deliver
    <2>2. copies' \in [Events \X Targets -> Nat]
      <3>1. <<job, t>> \in Events \X Targets
        BY <1>4 DEF Deliver, Reader
      <3>2. \A d \in Events \X Targets : copies[d] + 1 \in Nat
        OBVIOUS
      <3> QED BY <1>4, <3>1, <3>2 DEF Deliver
    <2>3. todo' \subseteq Targets /\ job' \in Events \cup {NoEvent}
      BY <1>4 DEF Deliver
    <2>4. run' \in {"query", "deliver", "select", "ack", "stopped"}
      BY <1>4 DEF Deliver
    <2> QED BY <1>4, <2>1, <2>2, <2>3, <2>4 DEF Deliver
  <1> QED BY <1>1, <1>2, <1>3, <1>4

LEMMA TypeNext ==
    ASSUME TypeOK, Reader, [Next]_vars
    PROVE  TypeOK'
  <1>1. CASE UNCHANGED vars
    BY <1>1 DEF TypeOK, vars, livestatus, requesters, reader, stopping, history
  <1> QED BY <1>1, TypeAside, TypeTime, TypeRequesters, TypeReader DEF Next, Loop

-----------------------------------------------------------------------------
(* The collector: the requesters and queryData *)

(* Nothing that a requester or queryData holds.                            *)
rounds == <<requesters, run, job, todo>>

(* The steps that leave the requesters and queryData alone.                *)
LEMMA RoundsAside ==
    ASSUME Tick \/ StopPutsToken \/ StopTakesToken
              \/ (\E e \in Events : Enter(e)) \/ (\E t \in Targets : Consume(t) \/ Fill(t))
    PROVE  UNCHANGED rounds
  BY DEF Tick, StopPutsToken, StopTakesToken, Enter, Consume, Fill, rounds, requesters, reader

(* The steps of the requester of one kind.                                 *)
LEMMA HoldsRequest ==
    ASSUME TypeOK, Requesters, NEW k \in Kinds, Request(k) \/ Answer(k) \/ PartialAnswer(k)
    PROVE  /\ Requesters' /\ UNCHANGED <<run, job, todo>>
           /\ \A kind \in Kinds \ {k} : UNCHANGED <<req[kind], lines[kind], hand[kind], excluded[kind]>>
  <1> DEFINE Rest == /\ UNCHANGED <<run, job, todo>>
                     /\ \A kind \in Kinds \ {k} :
                           UNCHANGED <<req[kind], lines[kind], hand[kind], excluded[kind]>>
  <1>0. ASSUME Rest, Holds(k)' PROVE Requesters'
    <2>1. ASSUME NEW kind \in Kinds \ {k} PROVE Holds(kind)'
      BY <1>0 DEF Requesters, Holds
    <2> QED BY <1>0, <2>1 DEF Requesters
  <1> USE DEF TypeOK, Goto, requesters, reader
  <1>1. CASE StartQuery(k)
    <2>1. Rest
      BY <1>1 DEF StartQuery
    <2>2. req[k] = "start" /\ req'[k] = "asked" /\ UNCHANGED <<lines, hand, run>>
      BY <1>1 DEF StartQuery
    <2>3. Holds(k)'
      BY <2>2 DEF Requesters, Holds
    <2> QED BY <1>0, <2>1, <2>3
  <1>2. ASSUME NEW e \in Events, ReadLine(k, e) PROVE Requesters' /\ Rest
    <2>1. Rest
      BY <1>2 DEF ReadLine
    <2>2. /\ req[k] = "lines" /\ e \in lines[k] /\ lines'[k] = lines[k] \ {e} /\ UNCHANGED excluded
          /\ \/ UNCHANGED <<req[k], hand[k]>>
             \/ req'[k] = "give" /\ hand'[k] = e
      BY <1>2 DEF ReadLine
    <2>3. e # NoEvent
      BY EventsAssumption
    <2>4. Holds(k)'
      BY <2>1, <2>2, <2>3 DEF Requesters, Holds
    <2> QED BY <1>0, <2>1, <2>4
  <1>3. ASSUME NEW answer \in SUBSET Matches(k), Read(k, answer) PROVE Requesters' /\ Rest
    <2>1. Rest
      BY <1>3 DEF Read
    <2>2. /\ req[k] = "asked" /\ req'[k] = "lines" /\ lines'[k] = answer /\ excluded'[k] = {}
          /\ UNCHANGED hand
      BY <1>3 DEF Read
    <2>3. answer \subseteq Events /\ \A e \in answer : KindOf[e] = k
      BY DEF Matches
    <2>4. hand[k] = NoEvent /\ NoEvent \notin answer
      BY <2>2, <2>3, EventsAssumption DEF Requesters, Holds
    <2>5. Holds(k)'
      BY <2>1, <2>2, <2>3, <2>4 DEF Requesters, Holds
    <2> QED BY <1>0, <2>1, <2>5
  <1>4. CASE Answer(k) \/ PartialAnswer(k)
    BY <1>3, <1>4 DEF Answer, PartialAnswer
  <1> QED BY <1>1, <1>2, <1>4 DEF Request

(* The steps of queryData and run, and of the requesters in a rendezvous   *)
(* with them.                                                              *)
LEMMA HoldsLoop ==
    ASSUME TypeOK, Requesters, Reader, Loop \/ TakeToken \/ \E t \in Targets : Deliver(t)
    PROVE  Requesters'
  <1> SUFFICES ASSUME NEW kind \in Kinds PROVE Holds(kind)'
    BY DEF Requesters
  <1>0. Holds(kind)
    BY DEF Requesters
  <1> USE <1>0 DEF TypeOK, Holds, Goto, requesters, reader
  <1>1. CASE NextRound
    <2>1. req[kind] = "off" /\ req'[kind] = "start" /\ run' = "query"
      BY <1>1 DEF NextRound
    <2> QED BY <1>1, <2>1 DEF NextRound
  <1>2. CASE PutTokenBack \/ TakeToken
    BY <1>2 DEF PutTokenBack, TakeToken
  <1>3. ASSUME NEW k \in Kinds, TakePrintable(k) PROVE Holds(kind)'
    <2>1. run' \in {"query", "deliver"} /\ UNCHANGED <<lines, excluded>>
      BY <1>3 DEF TakePrintable
    <2>2. CASE kind = k
      <3>1. req[k] = "give" /\ req'[k] = "lines" /\ hand'[k] = NoEvent /\ NoEvent \notin lines[k]
        BY <1>3, EventsAssumption DEF TakePrintable
      <3> QED BY <2>1, <2>2, <3>1, EventsAssumption
    <2>3. CASE kind # k
      <3>1. UNCHANGED <<req[kind], hand[kind]>>
        BY <1>3, <2>3 DEF TakePrintable
      <3> QED BY <2>1, <3>1
    <2> QED BY <2>2, <2>3
  <1>4. ASSUME NEW k \in Kinds, Finished(k) PROVE Holds(kind)'
    <2>1. UNCHANGED <<lines, hand, excluded>>
      BY <1>4 DEF Finished
    <2>2. run' \notin {"query", "deliver"} => req'[kind] = "off"
      BY <1>4 DEF Finished
    <2>3. CASE kind = k
      <3>1. req[k] = "lines" /\ lines[k] = {} /\ req'[k] = "off"
        BY <1>4 DEF Finished
      <3> QED BY <2>1, <2>2, <2>3, <3>1
    <2>4. CASE kind # k
      <3>1. UNCHANGED req[kind]
        BY <1>4, <2>4 DEF Finished
      <3> QED BY <2>1, <2>2, <3>1
    <2> QED BY <2>3, <2>4
  <1>5. ASSUME NEW t \in Targets, Deliver(t) PROVE Holds(kind)'
    <2>1. UNCHANGED requesters /\ run = "deliver" /\ run' \in {"query", "deliver"}
      BY <1>5 DEF Deliver
    <2> QED BY <2>1
  <1> QED BY <1>1, <1>2, <1>3, <1>4, <1>5 DEF Loop

LEMMA RequestersNext ==
    ASSUME TypeOK, Requesters, Reader, [Next]_vars
    PROVE  Requesters'
  <1>1. CASE UNCHANGED vars \/ UNCHANGED rounds
    BY <1>1 DEF Requesters, Holds, vars, rounds, requesters, reader
  <1> QED BY <1>1, HoldsRequest, HoldsLoop, RoundsAside DEF Next

LEMMA ReaderNext ==
    ASSUME TypeOK, Requesters, Reader, [Next]_vars
    PROVE  Reader'
  <1> USE DEF Reader
  <1>1. CASE UNCHANGED vars \/ UNCHANGED rounds
    BY <1>1 DEF vars, rounds, requesters, reader
  <1>2. ASSUME NEW k \in Kinds, Request(k) \/ Answer(k) \/ PartialAnswer(k) PROVE Reader'
    <2>1. ASSUME NEW e \in Events, job' = e
          PROVE  /\ req'[KindOf[e]] \notin {"start", "asked"}
                 /\ e \notin lines'[KindOf[e]] /\ hand'[KindOf[e]] # e
      <3>1. job = e /\ KindOf[e] \in Kinds
        BY <1>2, <2>1, HoldsRequest, EventsAssumption
      <3>2. CASE KindOf[e] # k
        BY <1>2, <3>1, <3>2, HoldsRequest
      <3>3. CASE KindOf[e] = k
        <4>1. req[k] \notin {"start", "asked"} /\ e \notin lines[k] /\ hand[k] # e
          BY <3>1, <3>3
        <4>2. PICK l \in Events : ReadLine(k, l)
          BY <1>2, <4>1 DEF Request, StartQuery, Answer, PartialAnswer, Read
        <4> QED BY <3>3, <4>1, <4>2 DEF ReadLine, TypeOK, Goto
      <3> QED BY <3>2, <3>3
    <2> QED BY <1>2, <2>1, HoldsRequest
  <1>3. CASE NextRound \/ PutTokenBack \/ TakeToken
    BY <1>3, EventsAssumption DEF NextRound, PutTokenBack, TakeToken, requesters
  <1>4. ASSUME NEW k \in Kinds, TakePrintable(k) PROVE Reader'
    <2>1. hand[k] \in Events /\ KindOf[hand[k]] = k /\ hand[k] \notin lines[k]
      BY <1>4, EventsAssumption DEF TakePrintable, Requesters, Holds, TypeOK
    <2>2. req'[k] = "lines" /\ hand'[k] = NoEvent /\ UNCHANGED lines /\ NoEvent \notin Events
      BY <1>4, EventsAssumption DEF TakePrintable, TypeOK, Goto
    <2> QED BY <1>4, <2>1, <2>2 DEF TakePrintable
  <1>5. ASSUME NEW k \in Kinds, Finished(k) PROVE Reader'
    BY <1>5, EventsAssumption DEF Finished, TypeOK
  <1>6. ASSUME NEW t \in Targets, Deliver(t) PROVE Reader'
    BY <1>6, EventsAssumption DEF Deliver, requesters
  <1> QED BY <1>1, <1>2, <1>3, <1>4, <1>5, <1>6, RoundsAside DEF Next, Loop

LEMMA HeldNext ==
    ASSUME TypeOK, HeldIsAnswered, [Next]_vars
    PROVE  HeldIsAnswered' /\ fetched \subseteq fetched'
  <1> USE DEF TypeOK, HeldIsAnswered, livestatus, requesters, reader, stopping, history, Goto
  <1>1. CASE Tick \/ StopPutsToken \/ StopTakesToken \/ NextRound \/ PutTokenBack \/ TakeToken
    BY <1>1 DEF Tick, StopPutsToken, StopTakesToken, NextRound, PutTokenBack, TakeToken
  <1>2. ASSUME NEW e \in Events, Enter(e) PROVE HeldIsAnswered' /\ fetched \subseteq fetched'
    BY <1>2 DEF Enter
  <1>3. ASSUME NEW t \in Targets, Consume(t) \/ Fill(t) \/ Deliver(t)
        PROVE  HeldIsAnswered' /\ fetched \subseteq fetched'
    BY <1>3 DEF Consume, Fill, Deliver
  <1>4. ASSUME NEW k \in Kinds, NEW e \in Events, ReadLine(k, e)
        PROVE  HeldIsAnswered' /\ fetched \subseteq fetched'
    BY <1>4 DEF ReadLine
  <1>5. ASSUME NEW k \in Kinds, StartQuery(k) \/ Finished(k)
        PROVE  HeldIsAnswered' /\ fetched \subseteq fetched'
    BY <1>5 DEF StartQuery, Finished
  <1>6. ASSUME NEW k \in Kinds, Answer(k) \/ PartialAnswer(k)
        PROVE  HeldIsAnswered' /\ fetched \subseteq fetched'
    BY <1>6 DEF Answer, PartialAnswer, Read
  <1>7. ASSUME NEW k \in Kinds, TakePrintable(k)
        PROVE  HeldIsAnswered' /\ fetched \subseteq fetched'
    BY <1>7 DEF TakePrintable
  <1> QED BY <1>1, <1>2, <1>3, <1>4, <1>5, <1>6, <1>7 DEF Next, Loop, Request, vars

-----------------------------------------------------------------------------
(* The collector: the answers *)

(* The steps that leave events and history alone.                          *)
LEMMA HistoryAside ==
    ASSUME Next
    PROVE  \/ Tick \/ (\E e \in Events : Enter(e)) \/ (\E t \in Targets : Deliver(t))
           \/ \E k \in Kinds : StartQuery(k) \/ Answer(k) \/ PartialAnswer(k)
           \/ UNCHANGED <<livestatus, excluded, history>>
  BY DEF Next, Request, ReadLine, Loop, NextRound, PutTokenBack, TakePrintable, Finished,
         TakeToken, StopPutsToken, StopTakesToken, Consume, Fill, requesters

LEMMA FreshNext ==
    ASSUME TypeOK, Reader, HeldIsAnswered, NewIsFresh, [Next]_vars
    PROVE  NewIsFresh'
  <1> USE DEF TypeOK, NewIsFresh, livestatus, history
  <1>1. CASE Tick
    BY <1>1 DEF Tick
  <1>2. ASSUME NEW e \in Events, Enter(e) PROVE NewIsFresh'
    BY <1>2 DEF Enter
  <1>3. ASSUME NEW t \in Targets, Deliver(t) PROVE NewIsFresh'
    <2>1. job \in entered
      BY <1>3 DEF Deliver, Reader, HeldIsAnswered
    <2>2. \A e \in Events \ {job}, other \in Targets : copies'[<<e, other>>] = copies[<<e, other>>]
      BY <1>3 DEF Deliver
    <2> QED BY <1>3, <2>1, <2>2 DEF Deliver
  <1>4. ASSUME NEW k \in Kinds, StartQuery(k) \/ Answer(k) \/ PartialAnswer(k) PROVE NewIsFresh'
    BY <1>4 DEF StartQuery, Answer, PartialAnswer, Read
  <1>5. CASE UNCHANGED <<livestatus, excluded, history>> \/ UNCHANGED vars
    BY <1>5 DEF vars
  <1> QED BY <1>1, <1>2, <1>3, <1>4, <1>5, HistoryAside

(* A query excludes only what its answers and lateness account for.        *)
LEMMA WindowsNext ==
    ASSUME TypeOK, NewIsFresh, ExcludedIsKnown, NothingBetweenAnswers, [Next]_vars
    PROVE  ExcludedIsKnown' /\ NothingBetweenAnswers'
  <1> USE DEF TypeOK, ExcludedIsKnown, NothingBetweenAnswers, livestatus, requesters, history
  <1>0. \A e \in Events : KindOf[e] \in Kinds
    BY EventsAssumption
  <1>1. CASE Tick
    <2>1. UNCHANGED <<entered, excluded, fetched, late>>
      BY <1>1 DEF Tick
    <2>2. ASSUME NEW e \in entered \ fetched, ~late[KindOf[e]] PROVE age'[e] <= since'[KindOf[e]]
      <3>1. age'[e] = Older(age[e]) /\ since'[KindOf[e]] = Older(since[KindOf[e]])
        BY <1>0, <1>1 DEF Tick
      <3>2. age[e] <= since[KindOf[e]] /\ age[e] \in 0..Window /\ since[KindOf[e]] \in 0..Window
        BY <1>0, <2>2
      <3> QED BY <3>1, <3>2, NumbersAssumption DEF Older
    <2> QED BY <2>1, <2>2
  <1>2. ASSUME NEW e \in Events, Enter(e) PROVE ExcludedIsKnown' /\ NothingBetweenAnswers'
    <2>1. age[e] = 0 /\ since[KindOf[e]] >= 0
      BY <1>0, <1>2 DEF Enter, NewIsFresh
    <2> QED BY <1>2, <2>1 DEF Enter
  <1>3. ASSUME NEW t \in Targets, Deliver(t) PROVE ExcludedIsKnown' /\ NothingBetweenAnswers'
    BY <1>3 DEF Deliver
  <1>4. ASSUME NEW k \in Kinds, StartQuery(k) PROVE ExcludedIsKnown' /\ NothingBetweenAnswers'
    <2>1. \A kind \in Kinds : late[kind] => late'[kind]
      BY <1>4 DEF StartQuery
    <2>2. UNCHANGED <<entered, age, fetched, since>>
      BY <1>4 DEF StartQuery
    <2>3. ASSUME NEW e \in excluded'[k] \ fetched, KindOf[e] = k PROVE late'[k]
      <3>1. e \in entered /\ age[e] >= Window
        BY <1>4, <2>3 DEF StartQuery
      <3>2. late[k] \/ since[k] >= Window
        BY <2>3, <3>1, NumbersAssumption
      <3> QED BY <1>4, <3>2 DEF StartQuery
    <2>4. \A kind \in Kinds \ {k} : excluded'[kind] = excluded[kind]
      BY <1>4 DEF StartQuery
    <2> QED BY <1>0, <2>1, <2>2, <2>3, <2>4
  <1>5. ASSUME NEW k \in Kinds, Answer(k) \/ PartialAnswer(k)
        PROVE  ExcludedIsKnown' /\ NothingBetweenAnswers'
    <2>1. UNCHANGED <<entered, age, late>> /\ fetched \subseteq fetched'
      BY <1>5 DEF Answer, PartialAnswer, Read
    <2>2. \A kind \in Kinds : excluded'[kind] \subseteq excluded[kind]
      BY <1>5 DEF Answer, PartialAnswer, Read
    <2>3. ASSUME NEW e \in entered \ fetched', ~late[KindOf[e]] PROVE age[e] <= since'[KindOf[e]]
      <3>1. since' = since \/ (KindOf[e] # k /\ since'[KindOf[e]] = since[KindOf[e]])
        <4>1. CASE Answer(k)
          <5>1. e \notin Matches(k)
            BY <2>3, <4>1 DEF Answer, Read
          <5>2. KindOf[e] # k
            BY <2>1, <2>3, <5>1 DEF Matches
          <5> QED BY <1>0, <4>1, <5>2 DEF Answer
        <4>2. CASE PartialAnswer(k)
          BY <4>2 DEF PartialAnswer
        <4> QED BY <1>5, <4>1, <4>2
      <3> QED BY <2>1, <2>3, <3>1
    <2> QED BY <2>1, <2>2, <2>3
  <1>6. CASE UNCHANGED <<livestatus, excluded, history>> \/ UNCHANGED vars
    BY <1>6 DEF vars
  <1> QED BY <1>1, <1>2, <1>3, <1>4, <1>5, <1>6, HistoryAside

-----------------------------------------------------------------------------
(* The collector: the copies *)

LEMMA CountType ==
    ASSUME TypeOK, NEW e \in Events, NEW t \in Targets
    PROVE  /\ copies[<<e, t>>] \in Nat /\ Count(e, t) \in Nat
           /\ Count(e, t) = IF Outstanding(e, t) THEN copies[<<e, t>>] + 1 ELSE copies[<<e, t>>]
  <1>1. copies[<<e, t>>] \in Nat
    BY DEF TypeOK
  <1> QED BY <1>1 DEF Count

(* The answer to a query counts; the copies that follow from it do not     *)
(* count again.                                                            *)
LEMMA CountAnswer ==
    ASSUME TypeOK, Requesters, Reader, NEW e \in Events, NEW t \in Targets,
           NEW k \in Kinds, Answer(k) \/ PartialAnswer(k)
    PROVE  /\ Count(e, t)' = IF e \in lines'[k] THEN Count(e, t) + 1 ELSE Count(e, t)
           /\ fetched' = fetched \cup lines'[k] /\ lines'[k] \subseteq Matches(k)
  <1>1. /\ req[k] = "asked" /\ lines'[k] \subseteq Matches(k) /\ UNCHANGED <<hand, job, todo, copies>>
        /\ fetched' = fetched \cup lines'[k]
        /\ \A kind \in Kinds \ {k} : lines'[kind] = lines[kind]
    BY DEF Answer, PartialAnswer, Read, TypeOK, Matches, reader
  <1>2. lines[k] = {} /\ hand[k] = NoEvent /\ KindOf[e] \in Kinds /\ e # NoEvent
    BY <1>1, EventsAssumption DEF Requesters, Holds
  <1>3. CASE e \in lines'[k]
    <2>1. KindOf[e] = k
      BY <1>1, <1>3 DEF Matches
    <2>2. ~Outstanding(e, t) /\ Outstanding(e, t)'
      BY <1>1, <1>2, <1>3, <2>1 DEF Outstanding, Reader
    <2> QED BY <1>1, <1>3, <2>2, CountType DEF Count
  <1>4. CASE e \notin lines'[k]
    <2>1. Outstanding(e, t)' <=> Outstanding(e, t)
      BY <1>1, <1>2, <1>4 DEF Outstanding
    <2> QED BY <1>1, <1>4, <2>1 DEF Count
  <1> QED BY <1>1, <1>3, <1>4

LEMMA CountRead ==
    ASSUME TypeOK, Requesters, Reader, NEW e \in Events, NEW t \in Targets,
           NEW k \in Kinds, NEW l \in Events, ReadLine(k, l)
    PROVE  IF e \in Ignored THEN Count(e, t)' <= Count(e, t) ELSE Count(e, t)' = Count(e, t)
  <1>1. /\ req[k] = "lines" /\ l \in lines[k] /\ lines'[k] = lines[k] \ {l}
        /\ \A kind \in Kinds \ {k} : UNCHANGED <<lines[kind], hand[kind]>>
        /\ hand'[k] = IF l \in Ignored THEN hand[k] ELSE l
        /\ UNCHANGED <<job, todo, copies>>
    BY DEF ReadLine, TypeOK, reader, history
  <1>2. hand[k] = NoEvent /\ KindOf[l] = k /\ KindOf[e] \in Kinds /\ e # NoEvent
    BY <1>1, EventsAssumption DEF Requesters, Holds
  <1>3. CASE e # l
    <2>1. Outstanding(e, t)' <=> Outstanding(e, t)
      BY <1>1, <1>2, <1>3 DEF Outstanding
    <2> QED BY <1>1, <2>1, CountType DEF Count
  <1>4. CASE e = l
    <2>1. Outstanding(e, t)
      BY <1>1, <1>2, <1>4 DEF Outstanding
    <2>2. e \notin Ignored => Outstanding(e, t)'
      BY <1>1, <1>2, <1>4 DEF Outstanding
    <2> QED BY <1>1, <2>1, <2>2, CountType DEF Count
  <1> QED BY <1>3, <1>4

LEMMA CountTake ==
    ASSUME TypeOK, Requesters, Reader, NEW e \in Events, NEW t \in Targets,
           NEW k \in Kinds, TakePrintable(k)
    PROVE  Count(e, t)' = Count(e, t)
  <1>1. /\ run = "query" /\ req[k] = "give" /\ hand'[k] = NoEvent
        /\ \A kind \in Kinds \ {k} : hand'[kind] = hand[kind]
        /\ job' = hand[k] /\ todo' = Targets /\ UNCHANGED <<lines, copies>>
    BY DEF TakePrintable, TypeOK, history
  <1>2. /\ hand[k] \in Events /\ KindOf[hand[k]] = k /\ job = NoEvent
        /\ KindOf[e] \in Kinds /\ e # NoEvent
    BY <1>1, EventsAssumption DEF Requesters, Holds, Reader, TypeOK
  <1>3. Outstanding(e, t)' <=> Outstanding(e, t)
    BY <1>1, <1>2 DEF Outstanding
  <1> QED BY <1>1, <1>3 DEF Count

LEMMA CountDeliver ==
    ASSUME TypeOK, Requesters, Reader, NEW e \in Events, NEW t \in Targets,
           NEW target \in Targets, Deliver(target)
    PROVE  Count(e, t)' = Count(e, t)
  <1>1. /\ job \in Events /\ target \in todo /\ todo' = todo \ {target}
        /\ job' = IF todo = {target} THEN NoEvent ELSE job
        /\ UNCHANGED <<lines, hand>> /\ e # NoEvent
    BY EventsAssumption DEF Deliver, Reader, TypeOK, requesters
  <1>2. CASE e = job /\ t = target
    <2>1. copies'[<<e, t>>] = copies[<<e, t>>] + 1
      BY <1>2 DEF Deliver, TypeOK
    <2>2. Outstanding(e, t) /\ ~Outstanding(e, t)'
      BY <1>1, <1>2 DEF Outstanding, Reader
    <2> QED BY <2>1, <2>2, CountType DEF Count
  <1>3. CASE ~(e = job /\ t = target)
    <2>1. copies'[<<e, t>>] = copies[<<e, t>>]
      BY <1>1, <1>3 DEF Deliver, TypeOK
    <2>2. Outstanding(e, t)' <=> Outstanding(e, t)
      BY <1>1, <1>3 DEF Outstanding
    <2> QED BY <2>1, <2>2 DEF Count
  <1> QED BY <1>2, <1>3

(* The steps that leave the counts alone.                                  *)
LEMMA CountAside ==
    ASSUME Next
    PROVE  \/ \E k \in Kinds : \/ Answer(k) \/ PartialAnswer(k) \/ TakePrintable(k)
                               \/ \E l \in Events : ReadLine(k, l)
           \/ \E t \in Targets : Deliver(t)
           \/ UNCHANGED <<lines, hand, job, todo, copies, fetched>>
  BY DEF Next, Request, StartQuery, Tick, Enter, Consume, Fill, Loop, NextRound, PutTokenBack,
         Finished, TakeToken, StopPutsToken, StopTakesToken, requesters, reader, history

LEMMA UnderWayNext ==
    ASSUME TypeOK, Requesters, Reader, AnsweredIsUnderWay, [Next]_vars
    PROVE  AnsweredIsUnderWay'
  <1> SUFFICES ASSUME NEW e \in Useful', NEW t \in Targets PROVE Count(e, t)' > 0
    BY DEF AnsweredIsUnderWay
  <1> USE DEF Useful, AnsweredIsUnderWay
  <1>0. e \in Events /\ e \notin Ignored
    BY TypeNext DEF TypeOK
  <1>1. ASSUME NEW k \in Kinds, Answer(k) \/ PartialAnswer(k) PROVE Count(e, t)' > 0
    <2>1. e \in fetched \/ e \in lines'[k]
      BY <1>0, <1>1, CountAnswer
    <2>2. Count(e, t) \in Nat /\ (e \in fetched => Count(e, t) > 0)
      BY <1>0, CountType
    <2>3. Count(e, t)' = IF e \in lines'[k] THEN Count(e, t) + 1 ELSE Count(e, t)
      BY <1>0, <1>1, CountAnswer
    <2> QED BY <2>1, <2>2, <2>3
  <1>2. ASSUME NEW k \in Kinds, NEW l \in Events, ReadLine(k, l) PROVE Count(e, t)' > 0
    BY <1>0, <1>2, CountRead DEF ReadLine, history
  <1>3. ASSUME NEW k \in Kinds, TakePrintable(k) PROVE Count(e, t)' > 0
    BY <1>0, <1>3, CountTake DEF TakePrintable, history
  <1>4. ASSUME NEW target \in Targets, Deliver(target) PROVE Count(e, t)' > 0
    BY <1>0, <1>4, CountDeliver DEF Deliver
  <1>5. CASE UNCHANGED <<lines, hand, job, todo, copies, fetched>> \/ UNCHANGED vars
    BY <1>5 DEF Count, Outstanding, vars, requesters, reader, history
  <1> QED BY <1>1, <1>2, <1>3, <1>4, <1>5, CountAside

-----------------------------------------------------------------------------
(* The collector: the pace of the rounds *)

(* What count answers take, at one Interval each.                          *)
LEMMA TimeOfCounts ==
    ASSUME NEW c \in Nat
    PROVE  /\ c * Interval \in Nat
           /\ (c + 1) * Interval = (c * Interval) + Interval
           /\ c = 0 => c * Interval = 0
           /\ \A d \in Nat : d <= c => d * Interval <= c * Interval
  <1>1. Interval \in Nat
    BY NumbersAssumption
  <1>2. ASSUME NEW d \in Nat, d <= c PROVE d * Interval <= c * Interval
    BY <1>1, <1>2
  <1> QED BY <1>1, <1>2

LEMMA NewIsNotCounted ==
    ASSUME TypeOK, HeldIsAnswered, NewIsFresh, NEW e \in Events \ entered, NEW t \in Targets
    PROVE  Count(e, t) = 0
  <1>1. e \notin fetched /\ KindOf[e] \in Kinds /\ e # NoEvent
    BY EventsAssumption DEF TypeOK
  <1>2. ~Outstanding(e, t)
    BY <1>1 DEF TypeOK, HeldIsAnswered, Outstanding
  <1> QED BY <1>2, CountType DEF NewIsFresh

(* The numbers that Paced compares.                                        *)
LEMMA PaceNumbers ==
    ASSUME TypeOK, NEW e \in Events, NEW t \in Targets
    PROVE  /\ KindOf[e] \in Kinds /\ age[e] \in 0..Window /\ timer \in Nat
           /\ Interval \in Nat \ {0} /\ Window \in Nat \ {0}
           /\ Count(e, t) \in Nat /\ Count(e, t) * Interval \in Nat
  <1>1. Count(e, t) \in Nat
    BY CountType
  <1>2. Count(e, t) * Interval \in Nat
    BY <1>1, TimeOfCounts
  <1>3. KindOf[e] \in Kinds /\ age[e] \in 0..Window /\ timer \in Nat
    BY EventsAssumption, NumbersAssumption DEF TypeOK
  <1> QED BY <1>1, <1>2, <1>3, NumbersAssumption

(* Nothing that Paced looks at changes, or the count falls.                *)
LEMMA PaceKept ==
    ASSUME TypeOK, TypeOK', NEW e \in Events, NEW t \in Targets, Paced(e, t),
           Count(e, t)' <= Count(e, t), UNCHANGED <<age, timer, run, excluded>>,
           \/ UNCHANGED req[KindOf[e]]
           \/ req'[KindOf[e]] \notin {"start", "asked"}
    PROVE  Paced(e, t)'
  <1>1. copies'[<<e, t>>] \in Nat
    BY DEF TypeOK
  <1>2. Count(e, t)' \in Nat
    BY <1>1 DEF Count
  <1>3. Count(e, t)' * Interval <= Count(e, t) * Interval /\ Count(e, t)' * Interval \in Nat
    BY <1>2, PaceNumbers, TimeOfCounts
  <1> QED BY <1>3, PaceNumbers DEF Paced

LEMMA PaceTick ==
    ASSUME TypeOK, HeldIsAnswered, NewIsFresh, NEW e \in Events, NEW t \in Targets,
           Paced(e, t), Tick
    PROVE  Paced(e, t)'
  <1>1. Count(e, t)' = Count(e, t) /\ UNCHANGED <<req, excluded, run>>
    BY DEF Tick, Count, Outstanding, requesters
  <1>2. timer' = IF timer > 0 THEN timer - 1 ELSE 0
    BY DEF Tick
  <1>3. CASE e \in entered
    <2>1. age'[e] = IF age[e] < Window THEN age[e] + 1 ELSE age[e]
      BY <1>3 DEF Tick, Older
    <2> QED BY <1>1, <1>2, <2>1, PaceNumbers DEF Paced
  <1>4. CASE e \notin entered
    <2>1. Count(e, t) * Interval = 0
      BY <1>4, NewIsNotCounted, PaceNumbers, TimeOfCounts
    <2>2. age'[e] = 0 /\ timer' \in Nat
      BY <1>2, <1>4, PaceNumbers DEF Tick
    <2> QED BY <1>1, <2>1, <2>2, PaceNumbers DEF Paced
  <1> QED BY <1>3, <1>4

(* An event that is too old for the query is excluded from it; one that is *)
(* not yet entered has not been in any answer.                             *)
LEMMA PaceStart ==
    ASSUME TypeOK, Requesters, HeldIsAnswered, NewIsFresh, NEW e \in Events, NEW t \in Targets,
           Paced(e, t), NEW k \in Kinds, StartQuery(k)
    PROVE  Paced(e, t)'
  <1>1. /\ Count(e, t)' = Count(e, t) /\ UNCHANGED <<age, timer, run>>
        /\ req[k] = "start" /\ req'[k] = "asked"
        /\ excluded'[k] = {x \in entered : age[x] >= Window}
        /\ \A kind \in Kinds \ {k} : UNCHANGED <<req[kind], excluded[kind]>>
    BY DEF StartQuery, Count, Outstanding, livestatus, reader, TypeOK, Goto
  <1>2. CASE KindOf[e] # k
    BY <1>1, <1>2, PaceNumbers DEF Paced
  <1>3. CASE KindOf[e] = k /\ e \in entered
    <2>1. age[e] = Window => e \in excluded'[k]
      BY <1>1, <1>3, PaceNumbers
    <2>2. run # "select"
      BY <1>1 DEF Requesters, Holds
    <2> QED BY <1>1, <1>3, <2>1, <2>2, PaceNumbers DEF Paced
  <1>4. CASE KindOf[e] = k /\ e \notin entered
    <2>1. Count(e, t) * Interval = 0
      BY <1>4, NewIsNotCounted, PaceNumbers, TimeOfCounts
    <2> QED BY <1>1, <1>4, <2>1, PaceNumbers DEF Paced
  <1> QED BY <1>2, <1>3, <1>4

(* The event of an answer was not excluded when the query was asked.       *)
LEMMA PaceAnswer ==
    ASSUME TypeOK, Requesters, Reader, NEW e \in Events, NEW t \in Targets,
           Paced(e, t), NEW k \in Kinds, Answer(k) \/ PartialAnswer(k)
    PROVE  Paced(e, t)'
  <1>1. /\ UNCHANGED <<age, timer, run>> /\ req[k] = "asked" /\ req'[k] = "lines"
        /\ lines'[k] \subseteq Matches(k)
        /\ \A kind \in Kinds \ {k} : UNCHANGED <<req[kind], excluded[kind]>>
    BY DEF Answer, PartialAnswer, Read, livestatus, reader, TypeOK, Goto, Matches
  <1>2. Count(e, t)' = IF e \in lines'[k] THEN Count(e, t) + 1 ELSE Count(e, t)
    BY CountAnswer
  <1>3. CASE e \in lines'[k]
    <2>1. KindOf[e] = k /\ e \notin excluded[k]
      BY <1>1, <1>3 DEF Matches
    <2>2. Count(e, t)' * Interval = (Count(e, t) * Interval) + Interval
      BY <1>2, <1>3, PaceNumbers, TimeOfCounts
    <2>3. run # "select"
      BY <1>1 DEF Requesters, Holds
    <2> QED BY <1>1, <2>1, <2>2, <2>3, PaceNumbers DEF Paced
  <1>4. CASE e \notin lines'[k]
    <2>1. Count(e, t)' = Count(e, t)
      BY <1>2, <1>4
    <2> QED BY <1>1, <2>1, PaceNumbers DEF Paced
  <1> QED BY <1>3, <1>4

LEMMA PaceLoop ==
    ASSUME TypeOK, Requesters, NEW e \in Events, NEW t \in Targets, Paced(e, t),
           Loop, \A k \in Kinds : ~TakePrintable(k)
    PROVE  Paced(e, t)'
  <1>0. Count(e, t)' = Count(e, t) /\ UNCHANGED <<age, excluded>>
    BY DEF Loop, NextRound, PutTokenBack, Finished, Count, Outstanding, livestatus, requesters,
           history
  <1>1. CASE NextRound
    <2>1. /\ run = "select" /\ timer = 0 /\ timer' = timer /\ run' = "query"
          /\ req'[KindOf[e]] = "start"
      BY <1>1, PaceNumbers DEF NextRound
    <2> QED BY <1>0, <2>1, PaceNumbers DEF Paced
  <1>2. CASE PutTokenBack
    BY <1>0, <1>2, PaceNumbers DEF Paced, PutTokenBack, requesters
  <1>3. ASSUME NEW k \in Kinds, Finished(k) PROVE Paced(e, t)'
    <2>1. /\ req[k] = "lines" /\ req'[k] = "off" /\ run = "query"
          /\ \A kind \in Kinds \ {k} : UNCHANGED req[kind]
      BY <1>3 DEF Finished, TypeOK, Goto
    <2>2. CASE \A kind \in Kinds \ {k} : req[kind] = "off"
      <3>1. timer' = Interval /\ req'[KindOf[e]] = "off" /\ req[KindOf[e]] \in {"off", "lines"}
        BY <1>3, <2>1, <2>2, PaceNumbers DEF Finished
      <3> QED BY <1>0, <3>1, PaceNumbers DEF Paced
    <2>3. CASE ~\A kind \in Kinds \ {k} : req[kind] = "off"
      <3>1. UNCHANGED <<run, timer>>
        BY <1>3, <2>3 DEF Finished
      <3>2. UNCHANGED req[KindOf[e]] \/ req'[KindOf[e]] = "off"
        BY <2>1, PaceNumbers
      <3> QED BY <1>0, <2>1, <3>1, <3>2, PaceNumbers DEF Paced
    <2> QED BY <2>2, <2>3
  <1> QED BY <1>1, <1>2, <1>3 DEF Loop

LEMMA PaceNext ==
    ASSUME TypeOK, Requesters, Reader, HeldIsAnswered, NewIsFresh, Pace, [Next]_vars
    PROVE  Pace'
  <1> SUFFICES ASSUME NEW e \in Events, NEW t \in Targets PROVE Paced(e, t)'
    BY DEF Pace
  <1>0. Paced(e, t) /\ TypeOK' /\ Count(e, t) \in Nat
    BY TypeNext, CountType DEF Pace
  <1>1. CASE Tick
    BY <1>0, <1>1, PaceTick
  <1>2. ASSUME NEW k \in Kinds, StartQuery(k) PROVE Paced(e, t)'
    BY <1>0, <1>2, PaceStart
  <1>3. ASSUME NEW k \in Kinds, Answer(k) \/ PartialAnswer(k) PROVE Paced(e, t)'
    BY <1>0, <1>3, PaceAnswer
  <1>4. ASSUME NEW k \in Kinds, NEW l \in Events, ReadLine(k, l) PROVE Paced(e, t)'
    <2>1. Count(e, t)' <= Count(e, t)
      BY <1>0, <1>4, CountRead
    <2>2. UNCHANGED <<age, timer, run, excluded>>
      BY <1>4 DEF ReadLine, livestatus, reader
    <2>3. UNCHANGED req[KindOf[e]] \/ req'[KindOf[e]] = "give"
      BY <1>4, PaceNumbers DEF ReadLine, Goto, TypeOK
    <2> QED BY <1>0, <2>1, <2>2, <2>3, PaceKept
  <1>5. ASSUME NEW k \in Kinds, TakePrintable(k) PROVE Paced(e, t)'
    <2>1. Count(e, t)' = Count(e, t)
      BY <1>5, CountTake
    <2>2. UNCHANGED <<age, timer, excluded>> /\ run' # "select"
      BY <1>5 DEF TakePrintable, livestatus
    <2>3. UNCHANGED req[KindOf[e]] \/ (req'[KindOf[e]] = "lines" /\ req[KindOf[e]] = "give")
      <3>1. req[k] = "give" /\ req' = [req EXCEPT ![k] = "lines"]
        BY <1>5 DEF TakePrintable, Goto
      <3> QED BY <3>1, PaceNumbers DEF TypeOK
    <2> QED BY <1>0, <2>1, <2>2, <2>3, PaceNumbers DEF Paced
  <1>6. ASSUME NEW target \in Targets, Deliver(target) PROVE Paced(e, t)'
    <2>1. Count(e, t)' = Count(e, t)
      BY <1>6, CountDeliver
    <2>2. UNCHANGED <<age, timer, req, excluded>> /\ run' # "select"
      BY <1>6 DEF Deliver, livestatus, requesters
    <2> QED BY <1>0, <2>1, <2>2, PaceNumbers DEF Paced
  <1>7. CASE Loop /\ \A k \in Kinds : ~TakePrintable(k)
    BY <1>0, <1>7, PaceLoop
  <1>8. CASE TakeToken
    <2>1. UNCHANGED <<age, timer, excluded, req, lines, hand, job, todo, copies>> /\ run' = "ack"
      BY <1>8 DEF TakeToken, livestatus, requesters, history
    <2>2. Count(e, t)' = Count(e, t)
      BY <2>1 DEF Count, Outstanding
    <2> QED BY <1>0, <2>1, <2>2, PaceNumbers DEF Paced
  <1>9. CASE \/ StopPutsToken \/ StopTakesToken \/ UNCHANGED vars
             \/ (\E x \in Events : Enter(x)) \/ (\E x \in Targets : Consume(x) \/ Fill(x))
    <2>1. UNCHANGED <<age, timer, excluded, req, run, lines, hand, job, todo, copies>>
      BY <1>9 DEF StopPutsToken, StopTakesToken, Enter, Consume, Fill, vars, livestatus,
                  requesters, reader, history
    <2>2. Count(e, t)' = Count(e, t)
      BY <2>1 DEF Count, Outstanding
    <2> QED BY <1>0, <2>1, <2>2, PaceKept
  <1> QED BY <1>1, <1>2, <1>3, <1>4, <1>5, <1>6, <1>7, <1>8, <1>9 DEF Next, Request, Loop

-----------------------------------------------------------------------------
(* The collector: the theorems *)

LEMMA IndInit == Init => IndInv
  <1> SUFFICES ASSUME Init PROVE IndInv
    OBVIOUS
  <1>1. TypeOK
    BY TypeInit
  <1>2. Requesters /\ Reader /\ HeldIsAnswered
    BY EventsAssumption DEF Init, Requesters, Holds, Reader, HeldIsAnswered
  <1>3. NewIsFresh /\ AnsweredIsUnderWay /\ ExcludedIsKnown /\ NothingBetweenAnswers
    BY DEF Init, NewIsFresh, AnsweredIsUnderWay, Useful, ExcludedIsKnown, NothingBetweenAnswers
  <1>4. ASSUME NEW e \in Events, NEW t \in Targets PROVE Paced(e, t)
    <2>1. Count(e, t) * Interval = 0
      BY <1>1, <1>2, <1>3, NewIsNotCounted, PaceNumbers, TimeOfCounts DEF Init
    <2> QED BY <1>1, <2>1, PaceNumbers DEF Paced
  <1> QED BY <1>1, <1>2, <1>3, <1>4 DEF IndInv, Pace

LEMMA IndNext == IndInv /\ [Next]_vars => IndInv'
  BY TypeNext, RequestersNext, ReaderNext, HeldNext, FreshNext, UnderWayNext, WindowsNext,
     PaceNext DEF IndInv

LEMMA Invariance == Spec => []IndInv
  BY IndInit, IndNext, PTL DEF Spec

(* Every variable has its type: a requester is where the code is, a        *)
(* channel holds at most QueueCap, quit at most one token.                 *)
THEOREM TypeCorrect == Spec => []TypeOK
  <1>1. IndInv => TypeOK
    BY DEF IndInv
  <1> QED BY <1>1, Invariance, PTL

(* Livestatus loses an event between two answers only if more than Window  *)
(* passed between them, whatever the pause and the window are.             *)
THEOREM NothingLost == Spec => []NothingBetweenAnswers
  <1>1. IndInv => NothingBetweenAnswers
    BY DEF IndInv
  <1> QED BY <1>1, Invariance, PTL

(* A round ends when all that Livestatus answered is in the channels of    *)
(* all targets.                                                            *)
THEOREM RoundsAreComplete == Spec => []RoundIsComplete
  <1>1. ASSUME IndInv PROVE RoundIsComplete
    <2> SUFFICES ASSUME run \notin {"query", "deliver"}
                 PROVE  /\ \A e \in Useful, t \in Targets : copies[<<e, t>>] > 0
                        /\ \A k \in Kinds : req[k] = "off" /\ lines[k] = {}
      BY DEF RoundIsComplete
    <2>1. \A k \in Kinds : req[k] = "off" /\ lines[k] = {} /\ hand[k] = NoEvent
      BY <1>1 DEF IndInv, Requesters, Holds
    <2>2. job = NoEvent
      BY <1>1 DEF IndInv, Reader
    <2>3. ASSUME NEW e \in Useful, NEW t \in Targets PROVE copies[<<e, t>>] > 0
      <3>1. e \in Events /\ KindOf[e] \in Kinds /\ e # NoEvent
        BY <1>1, EventsAssumption DEF IndInv, TypeOK, Useful
      <3>2. ~Outstanding(e, t)
        BY <2>1, <2>2, <3>1 DEF Outstanding
      <3> QED BY <1>1, <3>1, <3>2, CountType DEF IndInv, AnsweredIsUnderWay
    <2> QED BY <2>1, <2>3
  <1> QED BY <1>1, Invariance, PTL

(* The number of whole Intervals in a time.                                *)
LEMMA Quotient ==
    ASSUME NEW c \in Nat, NEW time \in Nat, c * Interval <= time
    PROVE  c <= time \div Interval
  <1> DEFINE q == time \div Interval
  <1>1. Interval \in Nat \ {0}
    BY NumbersAssumption
  <1>2. q \in Nat /\ time < (q + 1) * Interval
    BY <1>1
  <1>3. ASSUME c > q PROVE FALSE
    <2>1. (q + 1) * Interval <= c * Interval
      BY <1>2, <1>3, TimeOfCounts
    <2> QED BY <1>1, <1>2, <2>1
  <1> QED BY <1>2, <1>3

(* The overlap of the windows costs no more copies than rounds begin in a  *)
(* window, and one for the query that was under way.                       *)
THEOREM CopiesAreBounded == Spec => []CopiesBounded
  <1>1. ASSUME IndInv PROVE CopiesBounded
    <2> SUFFICES ASSUME NEW e \in Events, NEW t \in Targets
                 PROVE  copies[<<e, t>>] <= 1 + (Window - 1) \div Interval
      BY <1>1 DEF IndInv, TypeOK, CopiesBounded
    <2>1. /\ Count(e, t) \in Nat /\ copies[<<e, t>>] \in Nat /\ copies[<<e, t>>] <= Count(e, t)
          /\ Window - 1 \in Nat /\ Interval \in Nat \ {0}
          /\ Count(e, t) * Interval <= (Window - 1) + Interval
      BY <1>1, CountType, NumbersAssumption DEF IndInv, Pace, Paced
    <2>2. (Window - 1) \div Interval \in Nat
      BY <2>1
    <2>3. CASE Count(e, t) = 0
      BY <2>1, <2>2, <2>3
    <2>4. CASE Count(e, t) # 0
      <3>1. PICK c \in Nat : Count(e, t) = c + 1
        <4>1. Count(e, t) - 1 \in Nat /\ Count(e, t) = (Count(e, t) - 1) + 1
          BY <2>1, <2>4
        <4> QED BY <4>1
      <3>2. c * Interval <= Window - 1
        BY <2>1, <3>1, TimeOfCounts
      <3>3. c <= (Window - 1) \div Interval
        BY <2>1, <3>2, Quotient
      <3> QED BY <2>1, <2>2, <3>1, <3>3
    <2> QED BY <2>3, <2>4
  <1> QED BY <1>1, Invariance, PTL

-----------------------------------------------------------------------------
(* The downtime cache: the inductive invariant *)

(* A build that nothing has disturbed so far.                              *)
Undisturbed == steady /\ builder \in {"downtimes", "keys", "publish"}

(* It has read, or will read, the ids of all downtimes there are, and has  *)
(* read them all before it reads the first key.                            *)
IdsAreKnown ==
    Undisturbed =>
        /\ conn["downtimes"] = "asked" => ids = {} /\ idRows = {}
        /\ conn["downtimes"] # "asked" => ids \cup idRows = Ids
        /\ builder # "downtimes" => conn["downtimes"] # "asked" /\ idRows = {}

(* Its rows are those of the keys in downtime, and it ends when both       *)
(* queries for keys are through.                                           *)
RowsAreTrue ==
    Undisturbed =>
        \A q \in KeyQueries :
            /\ keyRows[q] \subseteq RowsOf(q)
            /\ conn[q] # "rows" => keyRows[q] = {}
            /\ builder = "publish" => conn[q] = "off"

(* What it has of a key tells the truth, except for a key whose row it has *)
(* not read yet.                                                           *)
Tells(key) == \A time \in Unknown..MaxStart : result[key] <= time <=> Truth(key, time)

ResultIsTrue ==
    Undisturbed =>
        \A q \in KeyQueries : \A key \in KeysOf(q) :
            IF conn[q] = "asked" \/ <<key, Known(key)>> \in keyRows[q]
              THEN result[key] = Absent
              ELSE Tells(key)

CacheInv ==
    CacheTypeOK /\ IdsAreKnown /\ RowsAreTrue /\ ResultIsTrue /\ SteadyBuildIsExact
-----------------------------------------------------------------------------
(* The downtime cache: types *)

(* Min is what its name says.                                              *)
LEMMA MinOfNaturals ==
    ASSUME NEW S, S \subseteq Nat, S # {}
    PROVE  Min(S) \in S /\ \A x \in S : Min(S) <= x
  <1> DEFINE Below == {0..x : x \in S}
  <1>1. Below \subseteq FiniteSubsetsOf(Nat) /\ Below # {}
    <2>1. ASSUME NEW x \in S PROVE 0..x \in SUBSET Nat /\ IsFiniteSet(0..x)
      BY FS_Interval
    <2> QED BY <2>1 DEF FiniteSubsetsOf
  <1>2. IsWellFoundedOn(StrictSubsetOrdering(Nat), FiniteSubsetsOf(Nat))
    BY FS_StrictSubsetOrderingWellFounded
  <1>3. \E b \in Below : \A c \in Below : ~(<<c, b>> \in StrictSubsetOrdering(Nat))
    <2> HIDE DEF Below
    <2> QED BY <1>1, <1>2, WFMin
  <1>4. PICK x \in S : \A y \in S : ~(<<0..y, 0..x>> \in StrictSubsetOrdering(Nat))
    BY <1>3
  <1>5. ASSUME NEW y \in S, y < x PROVE FALSE
    <2>1. /\ 0..y \subseteq 0..x /\ x \in 0..x /\ x \notin 0..y
          /\ 0..y \in SUBSET Nat /\ 0..x \in SUBSET Nat
      BY <1>5
    <2>2. 0..y # 0..x
      BY <2>1
    <2>3. <<0..y, 0..x>> \in StrictSubsetOrdering(Nat)
      BY <2>1, <2>2, Zenon DEF StrictSubsetOrdering
    <2> QED BY <1>4, <2>3
  <1>6. \A y \in S : x <= y
    BY <1>5
  <1> QED BY <1>6 DEF Min

(* What a cache that has n of a key has after a row of it.                 *)
Earliest(n, row) == Min({n} \cup {IF d \in ids THEN Start[d] ELSE Unknown : d \in row})

LEMMA EarliestIs ==
    ASSUME NEW n \in Unknown..Absent, NEW row \in SUBSET Downtimes
    PROVE  /\ Earliest(n, row) \in Unknown..Absent
           /\ Earliest(n, row) <= n
           /\ \A d \in row : Earliest(n, row) <= IF d \in ids THEN Start[d] ELSE Unknown
           /\ \/ Earliest(n, row) = n
              \/ \E d \in row : Earliest(n, row) = IF d \in ids THEN Start[d] ELSE Unknown
  <1> DEFINE of(d) == IF d \in ids THEN Start[d] ELSE Unknown
             S     == {n} \cup {of(d) : d \in row}
  <1>1. \A d \in row : of(d) \in Unknown..Absent
    BY DowntimesAssumption DEF Unknown, Absent
  <1>2. S \subseteq Unknown..Absent /\ S # {} /\ Unknown..Absent \subseteq Nat
    BY <1>1, DowntimesAssumption DEF Unknown, Absent
  <1>3. Min(S) \in S /\ \A x \in S : Min(S) <= x
    <2> HIDE DEF S
    <2> QED BY <1>2, MinOfNaturals
  <1>4. Earliest(n, row) = Min(S)
    BY DEF Earliest
  <1>5. n \in S /\ \A d \in row : of(d) \in S
    OBVIOUS
  <1> QED BY <1>2, <1>3, <1>4, <1>5

LEMMA NothingCached == NoEntries \in Entries
  BY DowntimesAssumption DEF NoEntries, Entries, Unknown, Absent

LEMMA CacheTypeInit == CacheInit => CacheTypeOK
  <1> SUFFICES ASSUME CacheInit PROVE CacheTypeOK
    OBVIOUS
  <1> USE DEF CacheInit
  <1>1. /\ state \in [Downtimes -> {"none", "scheduled", "active"}]
        /\ conn \in [KeyQueries \cup {"downtimes"} -> {"asked", "rows", "off"}]
        /\ keyRows \in [KeyQueries -> SUBSET Rows]
    OBVIOUS
  <1>2. result \in Entries /\ cache \in Entries
    BY NothingCached
  <1>3. steady \in BOOLEAN /\ exact \in BOOLEAN
    OBVIOUS
  <1>4. builder = "downtimes" /\ ids = {} /\ idRows = {} /\ builderStop = "none" /\ builderQuit = 0
    OBVIOUS
  <1> HIDE DEF CacheInit
  <1> QED BY <1>1, <1>2, <1>3, <1>4 DEF CacheTypeOK

LEMMA RowsAreRows ==
    ASSUME NEW q \in KeyQueries
    PROVE  KeysOf(q) \subseteq Keys /\ RowsOf(q) \subseteq Rows /\ Ids \subseteq Downtimes
  BY DowntimesAssumption DEF KeysOf, RowsOf, Rows, Known, Ids

LEMMA CacheTypeAnswers ==
    ASSUME CacheTypeOK,
           AnswerIds \/ BrokenIds \/ \E q \in KeyQueries : AnswerKeys(q) \/ BrokenKeys(q)
    PROVE  CacheTypeOK'
  <1> USE DEF CacheTypeOK, building, stoppingBuilder
  <1>1. ASSUME NEW q \in KeyQueries \cup {"downtimes"}, Connected(q)
        PROVE  /\ UNCHANGED <<state, builder, ids, result, cache, builderStop, builderQuit, exact>>
               /\ conn' \in [KeyQueries \cup {"downtimes"} -> {"asked", "rows", "off"}]
    BY <1>1 DEF Connected
  <1>2. CASE AnswerIds \/ BrokenIds
    <2>1. idRows' \subseteq Downtimes /\ steady' \in BOOLEAN /\ UNCHANGED keyRows
      BY <1>2 DEF AnswerIds, BrokenIds, Ids
    <2> QED BY <1>1, <1>2, <2>1 DEF AnswerIds, BrokenIds
  <1>3. ASSUME NEW q \in KeyQueries, AnswerKeys(q) \/ BrokenKeys(q) PROVE CacheTypeOK'
    <2>1. PICK part \in SUBSET RowsOf(q) : keyRows' = [keyRows EXCEPT ![q] = part]
      BY <1>3 DEF AnswerKeys, BrokenKeys
    <2>2. keyRows' \in [KeyQueries -> SUBSET Rows]
      BY <2>1, RowsAreRows
    <2>3. steady' \in BOOLEAN /\ UNCHANGED idRows
      BY <1>3 DEF AnswerKeys, BrokenKeys
    <2> QED BY <1>1, <1>3, <2>2, <2>3 DEF AnswerKeys, BrokenKeys
  <1> QED BY <1>2, <1>3

LEMMA CacheTypeBuild ==
    ASSUME CacheTypeOK, Build
    PROVE  CacheTypeOK'
  <1> USE DEF CacheTypeOK, connectors, stoppingBuilder
  <1>1. ASSUME NEW d \in Downtimes, ReadId(d) PROVE CacheTypeOK'
    BY <1>1 DEF ReadId
  <1>2. ASSUME NEW q \in KeyQueries, NEW row \in keyRows[q], ReadKey(q, row) PROVE CacheTypeOK'
    <2>1. row[1] \in Keys /\ row[2] \in SUBSET Downtimes
      BY DEF Rows
    <2>2. result' = [result EXCEPT ![row[1]] = Earliest(result[row[1]], row[2])]
      BY <1>2 DEF ReadKey, AddDowntimes, Earliest
    <2>3. result' \in Entries
      BY <2>1, <2>2, EarliestIs DEF Entries
    <2>4. keyRows' \in [KeyQueries -> SUBSET Rows]
      BY <1>2 DEF ReadKey
    <2> QED BY <1>2, <2>3, <2>4 DEF ReadKey
  <1>3. ASSUME NEW q \in KeyQueries, KeysFinished(q) PROVE CacheTypeOK'
    <2>1. conn' \in [KeyQueries \cup {"downtimes"} -> {"asked", "rows", "off"}]
      BY <1>3 DEF KeysFinished
    <2>2. builder' \in {"keys", "publish"}
      BY <1>3 DEF KeysFinished
    <2> QED BY <1>3, <2>1, <2>2 DEF KeysFinished
  <1>4. CASE IdsFinished \/ Timeout
    BY <1>4 DEF IdsFinished, Timeout
  <1>5. CASE Publish \/ BuilderPutsTokenBack
    BY <1>5 DEF Publish, BuilderPutsTokenBack
  <1>6. CASE StartBuild
    BY <1>6, NothingCached DEF StartBuild
  <1> QED BY <1>1, <1>2, <1>3, <1>4, <1>5, <1>6 DEF Build

LEMMA CacheTypeNext ==
    ASSUME CacheTypeOK, [CacheNext]_cacheVars
    PROVE  CacheTypeOK'
  <1> USE DEF CacheTypeOK, connectors, building, stoppingBuilder
  <1>1. ASSUME NEW d \in Downtimes, Schedule(d) \/ Begin(d) \/ End(d) PROVE CacheTypeOK'
    BY <1>1 DEF Schedule, Begin, End, Change
  <1>2. CASE BuilderTakesToken \/ StopPutsBuilderToken \/ StopTakesBuilderToken
    BY <1>2 DEF BuilderTakesToken, StopPutsBuilderToken, StopTakesBuilderToken
  <1>3. CASE UNCHANGED cacheVars
    BY <1>3 DEF cacheVars
  <1> QED BY <1>1, <1>2, <1>3, CacheTypeAnswers, CacheTypeBuild DEF CacheNext
-----------------------------------------------------------------------------
(* The downtime cache: an undisturbed build                                *)

(* A step disturbs the build or ends it, is one of the build, or leaves it *)
(* alone.                                                                  *)
LEMMA BuildAside ==
    ASSUME [CacheNext]_cacheVars
    PROVE  \/ ~Undisturbed'
           \/ AnswerIds \/ (\E q \in KeyQueries : AnswerKeys(q))
           \/ (\E d \in Downtimes : ReadId(d)) \/ IdsFinished
           \/ (\E q \in KeyQueries : KeysFinished(q) \/ \E row \in keyRows[q] : ReadKey(q, row))
           \/ StartBuild
           \/ UNCHANGED <<state, connectors, building, steady>>
  BY DEF Undisturbed, CacheNext, Schedule, Begin, End, Change, BrokenIds, BrokenKeys, Build,
         Timeout, Publish, BuilderPutsTokenBack, BuilderTakesToken, StopPutsBuilderToken,
         StopTakesBuilderToken, cacheVars, connectors, building

(* Livestatus does not change meanwhile.                                   *)
LEMMA SameTruth ==
    ASSUME UNCHANGED state
    PROVE  /\ Ids' = Ids /\ \A q \in KeyQueries : RowsOf(q)' = RowsOf(q)
           /\ \A key \in Keys : Known(key)' = Known(key) /\ InDowntime(key)' = InDowntime(key)
           /\ \A key \in Keys, time \in Unknown..MaxStart : Truth(key, time)' <=> Truth(key, time)
  BY DEF Ids, RowsOf, Known, InDowntime, Truth

LEMMA IdsNext ==
    ASSUME CacheTypeOK, IdsAreKnown, [CacheNext]_cacheVars
    PROVE  IdsAreKnown'
  <1> USE DEF IdsAreKnown, Undisturbed, CacheTypeOK
  <1>1. CASE AnswerIds
    <2>1. /\ UNCHANGED <<state, steady, builder, ids>> /\ idRows' = Ids
          /\ conn["downtimes"] = "asked" /\ conn'["downtimes"] = "rows"
      BY <1>1 DEF AnswerIds, Connected, building
    <2> QED BY <2>1, SameTruth
  <1>2. ASSUME NEW q \in KeyQueries, AnswerKeys(q) PROVE IdsAreKnown'
    <2>1. UNCHANGED <<state, steady, builder, ids, idRows, conn["downtimes"]>>
      BY <1>2 DEF AnswerKeys, Connected, building, KeyQueries
    <2> QED BY <2>1, SameTruth
  <1>3. ASSUME NEW d \in Downtimes, ReadId(d) PROVE IdsAreKnown'
    <2>1. /\ UNCHANGED <<state, steady, builder, conn>> /\ builder = "downtimes"
          /\ ids' \cup idRows' = ids \cup idRows /\ d \in idRows
      BY <1>3 DEF ReadId
    <2> QED BY <2>1, SameTruth
  <1>4. CASE IdsFinished
    <2>1. /\ UNCHANGED <<state, steady, ids, idRows>> /\ idRows = {} /\ builder = "downtimes"
          /\ conn["downtimes"] = "rows" /\ conn'["downtimes"] = "off"
      BY <1>4 DEF IdsFinished
    <2> QED BY <2>1, SameTruth
  <1>5. ASSUME NEW q \in KeyQueries, KeysFinished(q) PROVE IdsAreKnown'
    <2>1. UNCHANGED <<state, steady, ids, idRows, conn["downtimes"]>> /\ builder = "keys"
      BY <1>5 DEF KeysFinished, KeyQueries
    <2> QED BY <2>1, SameTruth
  <1>6. ASSUME NEW q \in KeyQueries, NEW row \in keyRows[q], ReadKey(q, row) PROVE IdsAreKnown'
    <2>1. UNCHANGED <<state, steady, ids, idRows, conn, builder>>
      BY <1>6 DEF ReadKey
    <2> QED BY <2>1, SameTruth
  <1>7. CASE StartBuild
    BY <1>7 DEF StartBuild
  <1>8. CASE ~Undisturbed' \/ UNCHANGED <<state, connectors, building, steady>>
    BY <1>8, SameTruth DEF connectors, building
  <1> QED BY <1>1, <1>2, <1>3, <1>4, <1>5, <1>6, <1>7, <1>8, BuildAside

LEMMA RowsNext ==
    ASSUME CacheTypeOK, RowsAreTrue, [CacheNext]_cacheVars
    PROVE  RowsAreTrue'
  <1> USE DEF RowsAreTrue, Undisturbed, CacheTypeOK
  <1>1. CASE AnswerIds
    <2>1. UNCHANGED <<state, steady, builder, keyRows>> /\ \A q \in KeyQueries : conn'[q] = conn[q]
      BY <1>1 DEF AnswerIds, Connected, building, KeyQueries
    <2> QED BY <2>1, SameTruth
  <1>2. ASSUME NEW q \in KeyQueries, AnswerKeys(q) PROVE RowsAreTrue'
    <2>1. /\ UNCHANGED <<state, steady, builder>> /\ builder # "publish"
          /\ conn'[q] = "rows" /\ keyRows'[q] = RowsOf(q)
          /\ \A other \in KeyQueries \ {q} : UNCHANGED <<conn[other], keyRows[other]>>
      BY <1>2 DEF AnswerKeys, Connected, building
    <2> QED BY <2>1, SameTruth
  <1>3. CASE IdsFinished \/ \E d \in Downtimes : ReadId(d)
    <2>1. UNCHANGED <<state, steady, keyRows>> /\ \A q \in KeyQueries : conn'[q] = conn[q]
      BY <1>3 DEF IdsFinished, ReadId, KeyQueries
    <2>2. builder = "downtimes" /\ builder' # "publish"
      BY <1>3 DEF IdsFinished, ReadId
    <2> QED BY <2>1, <2>2, SameTruth
  <1>4. ASSUME NEW q \in KeyQueries, KeysFinished(q) PROVE RowsAreTrue'
    <2>1. /\ UNCHANGED <<state, steady, keyRows>> /\ builder = "keys"
          /\ conn'[q] = "off" /\ keyRows[q] = {}
          /\ \A other \in KeyQueries \ {q} :
                conn'[other] = conn[other] /\ (builder' = "publish" => conn[other] = "off")
      BY <1>4 DEF KeysFinished
    <2> QED BY <2>1, SameTruth
  <1>5. ASSUME NEW q \in KeyQueries, NEW row \in keyRows[q], ReadKey(q, row) PROVE RowsAreTrue'
    <2>1. /\ UNCHANGED <<state, steady, conn, builder>>
          /\ \A other \in KeyQueries : keyRows'[other] \subseteq keyRows[other]
      BY <1>5 DEF ReadKey
    <2> QED BY <2>1, SameTruth
  <1>6. CASE StartBuild
    BY <1>6 DEF StartBuild
  <1>7. CASE ~Undisturbed' \/ UNCHANGED <<state, connectors, building, steady>>
    BY <1>7, SameTruth DEF connectors, building
  <1> QED BY <1>1, <1>2, <1>3, <1>4, <1>5, <1>6, <1>7, BuildAside

(* The query that finds a key.                                             *)
LEMMA QueriesAreDisjoint ==
    ASSUME NEW p \in KeyQueries, NEW q \in KeyQueries, NEW key \in KeysOf(p), key \in KeysOf(q)
    PROVE  p = q
  BY DEF KeyQueries, KeysOf

(* The row of a key is read once all ids are known.                        *)
LEMMA ReadTells ==
    ASSUME CacheTypeOK, IdsAreKnown, RowsAreTrue, ResultIsTrue, Undisturbed,
           NEW q \in KeyQueries, NEW row \in keyRows[q], ReadKey(q, row)
    PROVE  /\ row[1] \in KeysOf(q) /\ row = <<row[1], Known(row[1])>>
           /\ \A time \in Unknown..MaxStart : result'[row[1]] <= time <=> Truth(row[1], time)
  <1> DEFINE key == row[1]
  <1>1. key \in KeysOf(q) /\ InDowntime(key) /\ row = <<key, Known(key)>>
    BY DEF RowsAreTrue, RowsOf
  <1>2. conn[q] = "rows"
    BY DEF RowsAreTrue
  <1>3. key \in Keys /\ result[key] = Absent /\ Known(key) \in SUBSET Downtimes
    BY <1>1, <1>2, RowsAreRows DEF ResultIsTrue, Known
  <1>4. ids = Ids /\ \A d \in Known(key) : d \in Ids /\ Start[d] \in 1..MaxStart
    BY DowntimesAssumption DEF ReadKey, IdsAreKnown, Undisturbed, Known, Ids
  <1>5. result'[key] = Earliest(Absent, Known(key))
    <2>1. result' = [result EXCEPT ![key] = Earliest(result[key], row[2])]
      BY DEF ReadKey, AddDowntimes, Earliest
    <2>2. row[2] = Known(key)
      BY <1>1
    <2> QED BY <1>3, <2>1, <2>2 DEF CacheTypeOK, Entries
  <1>6. Absent \in Unknown..Absent /\ MaxStart \in Nat /\ Absent = MaxStart + 1 /\ Unknown = 0
    BY DowntimesAssumption DEF Absent, Unknown
  <1>7. /\ Earliest(Absent, Known(key)) \in Unknown..Absent
        /\ \A d \in Known(key) : Earliest(Absent, Known(key)) <= Start[d]
        /\ \/ Earliest(Absent, Known(key)) = Absent
           \/ \E d \in Known(key) : Earliest(Absent, Known(key)) = Start[d]
    BY <1>3, <1>4, <1>6, EarliestIs
  <1>8. ASSUME NEW time \in Unknown..MaxStart PROVE result'[key] <= time <=> Truth(key, time)
    <2>1. Truth(key, time) <=> \E d \in Known(key) : Start[d] <= time
      BY <1>1 DEF Truth
    <2> QED BY <1>4, <1>5, <1>6, <1>7, <2>1
  <1> QED BY <1>1, <1>8

LEMMA ResultNext ==
    ASSUME CacheTypeOK, IdsAreKnown, RowsAreTrue, ResultIsTrue, [CacheNext]_cacheVars
    PROVE  ResultIsTrue'
  <1> DEFINE Right(q, key) ==
               IF conn[q] = "asked" \/ <<key, Known(key)>> \in keyRows[q]
                 THEN result[key] = Absent
                 ELSE Tells(key)
  <1>0. ASSUME Undisturbed', UNCHANGED state => Undisturbed,
               \A q \in KeyQueries : \A key \in KeysOf(q) : Right(q, key)'
        PROVE  ResultIsTrue'
    BY <1>0 DEF ResultIsTrue, KeysOf
  <1>1. CASE ~Undisturbed'
    BY <1>1 DEF ResultIsTrue
  <1> SUFFICES ASSUME Undisturbed' PROVE ResultIsTrue'
    BY <1>1
  <1> USE DEF CacheTypeOK
  <1> HIDE DEF Right
  <1>2. ASSUME UNCHANGED state, Undisturbed, NEW q \in KeyQueries, NEW key \in KeysOf(q),
               UNCHANGED <<conn[q], keyRows[q], result[key]>>
        PROVE  Right(q, key)'
    <2>1. Right(q, key) /\ key \in Keys
      BY <1>2, RowsAreRows DEF ResultIsTrue, Right
    <2> QED BY <1>2, <2>1, SameTruth DEF Right, Tells
  <1>3. CASE AnswerIds \/ IdsFinished \/ \E d \in Downtimes : ReadId(d)
    <2>1. /\ UNCHANGED <<state, steady, keyRows, result>>
          /\ \A q \in KeyQueries : conn'[q] = conn[q]
          /\ builder \in {"downtimes", "keys"}
      BY <1>3 DEF AnswerIds, Connected, IdsFinished, ReadId, building, KeyQueries
    <2> QED BY <1>0, <1>2, <2>1 DEF Undisturbed
  <1>4. ASSUME NEW q \in KeyQueries, AnswerKeys(q) PROVE ResultIsTrue'
    <2>1. /\ UNCHANGED <<state, steady, builder, result>> /\ builder \in {"downtimes", "keys"}
          /\ conn[q] = "asked" /\ conn'[q] = "rows" /\ keyRows'[q] = RowsOf(q)
          /\ \A other \in KeyQueries \ {q} : UNCHANGED <<conn[other], keyRows[other]>>
      BY <1>4 DEF AnswerKeys, Connected, building
    <2>2. Undisturbed
      BY <2>1 DEF Undisturbed
    <2>3. ASSUME NEW key \in KeysOf(q) PROVE Right(q, key)'
      <3>1. key \in Keys /\ result'[key] = Absent
        BY <2>1, <2>2, RowsAreRows DEF ResultIsTrue
      <3>2. CASE InDowntime(key)
        <4>1. <<key, Known(key)>> \in RowsOf(q)
          BY <3>2 DEF RowsOf
        <4> QED BY <2>1, <3>1, <4>1, SameTruth DEF Right
      <3>3. CASE ~InDowntime(key)
        <4>1. \A time \in Unknown..MaxStart : ~(Absent <= time) /\ ~Truth(key, time)
          BY <3>3, DowntimesAssumption DEF Absent, Unknown, Truth
        <4>2. <<key, Known(key)>> \notin RowsOf(q)
          BY <3>3 DEF RowsOf
        <4> QED BY <2>1, <3>1, <4>1, <4>2, SameTruth DEF Right, Tells
      <3> QED BY <3>2, <3>3
    <2> QED BY <1>0, <1>2, <2>1, <2>2, <2>3
  <1>5. ASSUME NEW q \in KeyQueries, NEW row \in keyRows[q], ReadKey(q, row) PROVE ResultIsTrue'
    <2>1. /\ UNCHANGED <<state, steady, builder, conn>>
          /\ keyRows'[q] = keyRows[q] \ {row}
          /\ \A other \in KeyQueries \ {q} : keyRows'[other] = keyRows[other]
          /\ \A key \in Keys \ {row[1]} : result'[key] = result[key]
      BY <1>5 DEF ReadKey, AddDowntimes, Entries
    <2>2. Undisturbed
      BY <2>1 DEF Undisturbed
    <2>3. /\ row[1] \in KeysOf(q) /\ row = <<row[1], Known(row[1])>> /\ row[1] \in Keys
          /\ \A time \in Unknown..MaxStart : result'[row[1]] <= time <=> Truth(row[1], time)
      BY <1>5, <2>2, ReadTells, RowsAreRows
    <2>4. Right(q, row[1])'
      <3>1. conn[q] # "asked"
        BY <2>2 DEF RowsAreTrue
      <3> QED BY <2>1, <2>3, <3>1, SameTruth DEF Right, Tells
    <2>5. ASSUME NEW key \in KeysOf(q) \ {row[1]} PROVE Right(q, key)'
      <3>1. Right(q, key) /\ key \in Keys
        BY <2>2, RowsAreRows DEF ResultIsTrue, Right
      <3>2. <<key, Known(key)>> \in keyRows'[q] <=> <<key, Known(key)>> \in keyRows[q]
        BY <2>1, <2>3
      <3> QED BY <2>1, <3>1, <3>2, SameTruth DEF Right, Tells
    <2>6. ASSUME NEW other \in KeyQueries \ {q}, NEW key \in KeysOf(other) PROVE Right(other, key)'
      <3>1. key # row[1] /\ key \in Keys
        BY <2>3, QueriesAreDisjoint, RowsAreRows
      <3> QED BY <1>2, <2>1, <2>2, <3>1
    <2> QED BY <1>0, <2>1, <2>2, <2>4, <2>5, <2>6
  <1>6. ASSUME NEW q \in KeyQueries, KeysFinished(q) PROVE ResultIsTrue'
    <2>1. /\ UNCHANGED <<state, steady, keyRows, result>> /\ builder = "keys"
          /\ conn[q] = "rows" /\ conn'[q] = "off"
          /\ \A other \in KeyQueries \ {q} : conn'[other] = conn[other]
      BY <1>6 DEF KeysFinished
    <2>2. Undisturbed
      BY <2>1 DEF Undisturbed
    <2>3. ASSUME NEW key \in KeysOf(q) PROVE Right(q, key)'
      <3>1. Right(q, key) /\ key \in Keys
        BY <2>2, RowsAreRows DEF ResultIsTrue, Right
      <3> QED BY <2>1, <3>1, SameTruth DEF Right, Tells
    <2> QED BY <1>0, <1>2, <2>1, <2>2, <2>3
  <1>7. CASE StartBuild
    <2>1. ASSUME NEW q \in KeyQueries, NEW key \in KeysOf(q)
          PROVE  conn'[q] = "asked" /\ result'[key] = Absent
      BY <1>7, RowsAreRows DEF StartBuild, NoEntries
    <2> QED BY <1>7, <2>1 DEF ResultIsTrue, StartBuild, KeysOf
  <1>8. CASE UNCHANGED <<state, connectors, building, steady>>
    <2>1. UNCHANGED <<state, steady, builder, conn, keyRows, result>>
      BY <1>8 DEF connectors, building
    <2> QED BY <1>0, <1>2, <2>1 DEF Undisturbed
  <1> QED BY <1>1, <1>3, <1>4, <1>5, <1>6, <1>7, <1>8, BuildAside

(* The steps that the published cache, or the truth about it, notices.     *)
LEMMA ExactNext ==
    ASSUME CacheTypeOK, RowsAreTrue, ResultIsTrue, SteadyBuildIsExact, [CacheNext]_cacheVars
    PROVE  SteadyBuildIsExact'
  <1> USE DEF SteadyBuildIsExact, IsServiceInDowntime
  <1>1. CASE Publish
    <2>1. /\ cache' = result /\ exact' = steady /\ builder = "publish" /\ UNCHANGED state
      BY <1>1 DEF Publish
    <2> SUFFICES ASSUME steady, NEW key \in Keys, NEW time \in Unknown..MaxStart
                 PROVE  result[key] <= time <=> Truth(key, time)
      BY <2>1, SameTruth
    <2>2. Undisturbed
      BY <2>1 DEF Undisturbed
    <2>3. PICK q \in KeyQueries : key \in KeysOf(q)
      BY DEF KeyQueries, KeysOf
    <2>4. conn[q] = "off" /\ keyRows[q] = {}
      BY <2>1, <2>2 DEF RowsAreTrue
    <2> QED BY <2>2, <2>3, <2>4 DEF ResultIsTrue, Tells
  <1>2. ASSUME NEW d \in Downtimes, Schedule(d) \/ Begin(d) \/ End(d) PROVE SteadyBuildIsExact'
    BY <1>2 DEF Schedule, Begin, End, Change
  <1>3. CASE UNCHANGED <<state, cache, exact>>
    BY <1>3, SameTruth
  <1>4. AnswerIds \/ BrokenIds => UNCHANGED <<state, cache, exact>>
    BY DEF AnswerIds, BrokenIds, Connected
  <1>5. ASSUME NEW q \in KeyQueries, AnswerKeys(q) \/ BrokenKeys(q)
        PROVE  UNCHANGED <<state, cache, exact>>
    BY <1>5 DEF AnswerKeys, BrokenKeys, Connected
  <1>6. Build => Publish \/ UNCHANGED <<state, cache, exact>>
    BY DEF Build, ReadId, ReadKey, KeysFinished, IdsFinished, Timeout, StartBuild,
           BuilderPutsTokenBack
  <1>7. BuilderTakesToken \/ StopPutsBuilderToken \/ StopTakesBuilderToken \/ UNCHANGED cacheVars
           => UNCHANGED <<state, cache, exact>>
    BY DEF BuilderTakesToken, StopPutsBuilderToken, StopTakesBuilderToken, cacheVars
  <1> QED BY <1>1, <1>2, <1>3, <1>4, <1>5, <1>6, <1>7 DEF CacheNext

LEMMA CacheInvInit == CacheInit => CacheInv
  <1> SUFFICES ASSUME CacheInit PROVE CacheInv
    OBVIOUS
  <1>1. IdsAreKnown /\ RowsAreTrue
    BY DEF CacheInit, IdsAreKnown, RowsAreTrue, KeyQueries
  <1>2. ASSUME NEW q \in KeyQueries, NEW key \in KeysOf(q)
        PROVE  conn[q] = "asked" /\ result[key] = Absent
    BY RowsAreRows DEF CacheInit, NoEntries
  <1>3. ResultIsTrue
    BY <1>2 DEF ResultIsTrue
  <1>4. SteadyBuildIsExact
    BY DEF CacheInit, SteadyBuildIsExact
  <1> QED BY <1>1, <1>3, <1>4, CacheTypeInit DEF CacheInv

LEMMA CacheInvNext == CacheInv /\ [CacheNext]_cacheVars => CacheInv'
  BY CacheTypeNext, IdsNext, RowsNext, ResultNext, ExactNext DEF CacheInv

LEMMA CacheInvariance == CacheSpec => []CacheInv
  BY CacheInvInit, CacheInvNext, PTL DEF CacheSpec

-----------------------------------------------------------------------------
(* The downtime cache: the theorems *)

(* Every variable of the cache builder has its type: an entry is the start *)
(* of a downtime, unknown or absent, and quit has at most one token.       *)
THEOREM CacheTypeCorrect == CacheSpec => []CacheTypeOK
  <1>1. CacheInv => CacheTypeOK
    BY DEF CacheInv
  <1> QED BY <1>1, CacheInvariance, PTL

(* A cache that was built without disturbance tells of every host and      *)
(* service at every time what Livestatus would have, until a downtime      *)
(* changes.                                                                *)
THEOREM SteadyBuildsAreExact == CacheSpec => []SteadyBuildIsExact
  <1>1. CacheInv => SteadyBuildIsExact
    BY DEF CacheInv
  <1> QED BY <1>1, CacheInvariance, PTL

=============================================================================
