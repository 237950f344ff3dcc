---------------------------- MODULE NagfluxProofs ----------------------------
(***************************************************************************)
(* Proofs about Nagflux for all targets, files and jobs, every capacity    *)
(* and any number of outages and lives of the process.                     *)
(***************************************************************************)
EXTENDS Nagflux, SequenceTheorems, TLAPS

-----------------------------------------------------------------------------
(* The channel *)

(* What is put into a channel is what it holds in addition.                *)
LEMMA RangeAppend ==
    ASSUME NEW S, NEW s \in Seq(S), NEW e \in S
    PROVE  Range(Append(s, e)) = Range(s) \cup {e}
  <1>1. Append(s, e) = s \o <<e>> /\ <<e>> \in Seq(S)
    OBVIOUS
  <1>2. Range(<<e>>) = {e}
    BY DEF Range
  <1>3. Range(s \o <<e>>) = Range(s) \cup Range(<<e>>)
    BY <1>1, RangeConcatenation
  <1> QED BY <1>1, <1>2, <1>3

(* What is taken from a channel was at its head.                           *)
LEMMA RangeTail ==
    ASSUME NEW S, NEW s \in Seq(S), s # <<>>
    PROVE  Range(s) = {Head(s)} \cup Range(Tail(s))
  <1>1. s = <<Head(s)>> \o Tail(s) /\ <<Head(s)>> \in Seq(S) /\ Tail(s) \in Seq(S)
    OBVIOUS
  <1>2. Range(<<Head(s)>>) = {Head(s)}
    BY DEF Range
  <1>3. Range(<<Head(s)>> \o Tail(s)) = Range(<<Head(s)>>) \cup Range(Tail(s))
    BY <1>1, RangeConcatenation
  <1> QED BY <1>1, <1>2, <1>3

-----------------------------------------------------------------------------
(* The inductive invariant *)

TypeOK ==
    /\ queue \in [Targets -> Seq(Records)] /\ held \in [Targets -> {"none", "batch", "failed", "retry"}]
    /\ source \subseteq Records
    /\ task \in [Collectors -> Records \cup {Nothing}] /\ todo \in [Collectors -> SUBSET Targets]
    /\ settled \in [Targets -> SUBSET Records]
    /\ dumpFile \in [Targets -> SUBSET Records] /\ replayed \in [Targets -> SUBSET Records]

(* Workers hold something of the channel only, collectors deliver          *)
(* something only.                                                         *)
Hands ==
    /\ \A t \in Targets : held[t] # "none" => queue[t] # <<>>
    /\ \A c \in Collectors : task[c] = Nothing => todo[c] = {}

(* Target t has got r, or will get it from memory, or has lost it.         *)
Safe(r, t) == r \in ToSet(queue[t]) \/ r \in settled[t] \/ <<r, t>> \in Lost

(* As Safe, but t may also get it from the dump file.                      *)
Placed(r, t) == Safe(r, t) \/ r \in dumpFile[t]

(* A record whose file is gone is placed with every target.                *)
GoneIsPlaced == \A r \in Records \ source : \A t \in Targets : Placed(r, t)

(* What a collector works on is placed with the targets it has done.       *)
DoneIsPlaced ==
    \A c \in Collectors : task[c] # Nothing => \A t \in Targets \ todo[c] : Placed(task[c], t)

(* What was read from the dump file does not need the file any more.       *)
ReplayedIsSafe == \A t \in Targets : \A r \in replayed[t] : Safe(r, t)

IndInv == TypeOK /\ Hands /\ GoneIsPlaced /\ DoneIsPlaced /\ ReplayedIsSafe

-----------------------------------------------------------------------------
(* What the channels hold *)

LEMMA ToSetIsRange == \A s : ToSet(s) = Range(s)
  BY DEF ToSet, Range

(* A channel after a send and after its first record is gone.              *)
LEMMA ToSetAppend ==
    ASSUME NEW s \in Seq(Records), NEW r \in Records
    PROVE  Append(s, r) \in Seq(Records) /\ Append(s, r) # <<>> /\ ToSet(Append(s, r)) = ToSet(s) \cup {r}
  <1>1. Append(s, r) \in Seq(Records) /\ Len(Append(s, r)) = Len(s) + 1 /\ Len(s) \in Nat
    BY AppendProperties, LenProperties
  <1>2. Range(Append(s, r)) = Range(s) \cup {r}
    BY RangeAppend
  <1>3. Len(<<>>) = 0
    OBVIOUS
  <1> QED BY <1>1, <1>2, <1>3, ToSetIsRange

LEMMA ToSetTail ==
    ASSUME NEW s \in Seq(Records), s # <<>>
    PROVE  /\ Head(s) \in Records /\ Tail(s) \in Seq(Records)
           /\ ToSet(s) = {Head(s)} \cup ToSet(Tail(s)) /\ ToSet(s) \subseteq Records
  <1>1. Head(s) \in Records /\ Tail(s) \in Seq(Records)
    BY HeadTailProperties, EmptySeq
  <1>2. Range(s) = {Head(s)} \cup Range(Tail(s))
    BY RangeTail
  <1>3. Range(s) \subseteq Records
    BY DEF Range
  <1> QED BY <1>1, <1>2, <1>3, ToSetIsRange

LEMMA ToSetEmpty == <<>> \in Seq(Records) /\ ToSet(<<>>) = {}
  BY EmptySeq DEF ToSet

-----------------------------------------------------------------------------
(* Steps that touch neither records nor their places *)

places == <<collecting, queue, held, settled, dumpFile, replayed, Lost>>

LEMMA Still ==
    ASSUME IndInv, UNCHANGED places
    PROVE  IndInv'
  BY DEF IndInv, TypeOK, Hands, Safe, Placed, GoneIsPlaced, DoneIsPlaced, ReplayedIsSafe, places, collecting

LEMMA MainIsStill ==
    ASSUME Main \/ Restart \/ Signal \/ StopGearman
           \/ \E t \in Targets : ServerFails(t) \/ ServerRecovers(t) \/ ReplayEnds(t)
    PROVE  UNCHANGED places \/ ProcessEnds
  <1> USE DEF places, written, history, Lost
  <1>1. ASSUME NEW t \in Targets, StartTarget(t) \/ FactoryPauses(t) PROVE UNCHANGED places
    BY <1>1 DEF StartTarget, FactoryPauses
  <1>2. ASSUME NEW t \in Targets, FactoryPanics(t) PROVE ProcessEnds
    BY <1>2 DEF FactoryPanics
  <1>3. ASSUME NEW kind, NEW x, StartComponent(kind, x) PROVE UNCHANGED places
    BY <1>3 DEF StartComponent
  <1>4. ListenToSignals \/ Restart \/ Signal => UNCHANGED places
    BY DEF ListenToSignals, Restart, Signal
  <1>5. StopGearman => UNCHANGED places
    BY DEF StopGearman, StopReturns
  <1>6. ASSUME NEW t \in Targets, ServerFails(t) \/ ServerRecovers(t) \/ ReplayEnds(t)
        PROVE  UNCHANGED places
    BY <1>6 DEF ServerFails, ServerRecovers, ReplayEnds
  <1> QED BY <1>1, <1>2, <1>3, <1>4, <1>5, <1>6 DEF Main

-----------------------------------------------------------------------------
(* The collectors *)

LEMMA PickUpKeeps ==
    ASSUME IndInv, NEW c \in Collectors, NEW r \in Records, PickUp(c, r)
    PROVE  IndInv'
  <1> USE DEF IndInv
  <1>1. UNCHANGED <<source, queue, held, settled, dumpFile, replayed, Lost>>
    BY DEF PickUp, written, history, Lost
  <1>2. /\ task' = [task EXCEPT ![c] = r] /\ todo' = [todo EXCEPT ![c] = Targets]
        /\ r # Nothing
    BY RecordsAssumption DEF PickUp
  <1>3. TypeOK' /\ Hands'
    BY <1>1, <1>2 DEF TypeOK, Hands
  <1>4. GoneIsPlaced' /\ ReplayedIsSafe'
    BY <1>1 DEF GoneIsPlaced, ReplayedIsSafe, Safe, Placed
  <1>5. DoneIsPlaced'
    BY <1>1, <1>2 DEF TypeOK, DoneIsPlaced, Safe, Placed
  <1> QED BY <1>3, <1>4, <1>5

(* A delivery to target t, or its time-out, places the record with t.      *)
LEMMA DeliverKeeps ==
    ASSUME IndInv, NEW c \in Collectors, NEW t \in Targets, Deliver(c, t) \/ Drop(c, t)
    PROVE  IndInv'
  <1> USE DEF IndInv
  <1>1. UNCHANGED <<source, task, held, settled, dumpFile, replayed>>
    BY DEF Deliver, Drop, written
  <1>2. task[c] \in Records /\ queue[t] \in Seq(Records) /\ t \in todo[c] /\ todo' = [todo EXCEPT ![c] = @ \ {t}]
    BY DEF Deliver, Drop, Hands, TypeOK
  <1>3. \/ queue' = [queue EXCEPT ![t] = Append(@, task[c])] /\ Lost' = Lost
        \/ queue' = queue /\ Lost' = Lost \cup {<<task[c], t>>}
    BY DEF Deliver, Drop, history, Lost
  <1>4. TypeOK' /\ Hands'
    <2>1. queue' \in [Targets -> Seq(Records)] /\ \A u \in Targets : queue[u] # <<>> => queue'[u] # <<>>
      BY <1>2, <1>3, ToSetAppend DEF TypeOK
    <2> QED BY <1>1, <1>2, <2>1 DEF TypeOK, Hands
  <1>10. /\ Lost \subseteq Lost' /\ \A u \in Targets : ToSet(queue[u]) \subseteq ToSet(queue'[u])
         /\ task[c] \in ToSet(queue'[t]) \/ <<task[c], t>> \in Lost'
    <2>1. CASE queue' = [queue EXCEPT ![t] = Append(@, task[c])] /\ Lost' = Lost
      <3>1. queue'[t] = Append(queue[t], task[c]) /\ \A u \in Targets \ {t} : queue'[u] = queue[u]
        BY <2>1 DEF TypeOK
      <3> QED BY <1>2, <2>1, <3>1, ToSetAppend
    <2>2. CASE queue' = queue /\ Lost' = Lost \cup {<<task[c], t>>}
      BY <2>2
    <2> QED BY <1>3, <2>1, <2>2
  <1>5. ASSUME NEW r \in Records, NEW u \in Targets PROVE Safe(r, u) => Safe(r, u)'
    BY <1>1, <1>10 DEF Safe
  <1>6. Safe(task[c], t)'
    BY <1>1, <1>10 DEF Safe
  <1>7. GoneIsPlaced'
    BY <1>1, <1>5 DEF GoneIsPlaced, Placed
  <1>8. ReplayedIsSafe'
    BY <1>1, <1>5 DEF ReplayedIsSafe, TypeOK
  <1>9. DoneIsPlaced'
    <2> SUFFICES ASSUME NEW d \in Collectors, task[d] # Nothing, NEW u \in Targets \ todo'[d]
                 PROVE  Placed(task[d], u)'
      BY <1>1 DEF DoneIsPlaced
    <2>1. CASE d = c /\ u = t
      BY <1>1, <1>6, <2>1 DEF Placed
    <2>2. CASE ~(d = c /\ u = t)
      <3>1. u \notin todo[d] /\ task[d] \in Records
        BY <1>2, <2>2 DEF TypeOK
      <3> QED BY <1>1, <1>5, <3>1 DEF DoneIsPlaced, Placed
    <2> QED BY <2>1, <2>2
  <1> QED BY <1>4, <1>7, <1>8, <1>9

(* The file is only removed when the record is placed with every target.   *)
LEMMA FinishKeeps ==
    ASSUME IndInv, NEW c \in Collectors, Finish(c)
    PROVE  IndInv'
  <1> USE DEF IndInv
  <1>1. UNCHANGED <<todo, queue, held, settled, dumpFile, replayed, Lost>>
    BY DEF Finish, written, history, Lost
  <1>2. /\ task[c] \in Records /\ task[c] # Nothing /\ todo[c] = {}
        /\ task' = [task EXCEPT ![c] = Nothing] /\ source' \in {source, source \ {task[c]}}
    BY DEF Finish, TypeOK
  <1>3. TypeOK' /\ Hands'
    BY <1>1, <1>2 DEF TypeOK, Hands
  <1>4. \A r, t : Placed(r, t)' <=> Placed(r, t)
    BY <1>1 DEF Placed, Safe
  <1>5. \A t \in Targets : Placed(task[c], t)
    BY <1>2 DEF DoneIsPlaced
  <1>6. GoneIsPlaced'
    BY <1>2, <1>4, <1>5 DEF GoneIsPlaced
  <1>7. DoneIsPlaced'
    BY <1>1, <1>2, <1>4 DEF DoneIsPlaced, TypeOK
  <1>8. ReplayedIsSafe'
    BY <1>1 DEF ReplayedIsSafe, Safe
  <1> QED BY <1>3, <1>6, <1>7, <1>8

LEMMA StopKeeps ==
    ASSUME IndInv, NEW kind, NEW x, kind = "collector" => x \in Collectors,
           StopComponent(kind, x) \/ StopReturns
    PROVE  IndInv'
  <1> USE DEF IndInv
  <1>1. CASE StopReturns
    BY <1>1, Still DEF StopReturns, places, written, history, Lost
  <1>2. CASE StopComponent(kind, x)
    <2>1. UNCHANGED <<source, queue, held, settled, dumpFile, replayed, Lost>>
      BY <1>2 DEF StopComponent, written, history, Lost
    <2>2. CASE kind = "collector"
      <3>1. task' = [task EXCEPT ![x] = Nothing] /\ todo' = [todo EXCEPT ![x] = {}]
        BY <1>2, <2>2 DEF StopComponent
      <3>2. TypeOK' /\ Hands'
        BY <2>1, <2>2, <3>1 DEF TypeOK, Hands
      <3>3. GoneIsPlaced' /\ ReplayedIsSafe'
        BY <2>1 DEF GoneIsPlaced, ReplayedIsSafe, Safe, Placed
      <3>4. DoneIsPlaced'
        BY <2>1, <2>2, <3>1 DEF TypeOK, DoneIsPlaced, Safe, Placed
      <3> QED BY <3>2, <3>3, <3>4
    <2>3. CASE kind # "collector"
      BY <1>2, <2>1, <2>3, Still DEF StopComponent, places, collecting
    <2> QED BY <2>2, <2>3
  <1> QED BY <1>1, <1>2

-----------------------------------------------------------------------------
(* The dump files *)

(* Nothing but places in the channels, the files and what is lost changes. *)
LEMMA KeepsPlaces ==
    ASSUME IndInv, UNCHANGED collecting,
           \A t \in Targets : \A r \in Records : Placed(r, t) => Placed(r, t)'
    PROVE  GoneIsPlaced' /\ DoneIsPlaced'
  <1> USE DEF IndInv, collecting
  <1>1. GoneIsPlaced'
    BY DEF GoneIsPlaced
  <1>2. DoneIsPlaced'
    <2> SUFFICES ASSUME NEW c \in Collectors, task[c] # Nothing, NEW t \in Targets \ todo[c]
                 PROVE  Placed(task[c], t)'
      BY DEF DoneIsPlaced
    <2>1. task[c] \in Records /\ Placed(task[c], t)
      BY DEF DoneIsPlaced, TypeOK
    <2> QED BY <2>1
  <1> QED BY <1>1, <1>2

LEMMA ReplayLineKeeps ==
    ASSUME IndInv, NEW t \in Targets, NEW r \in Records, ReplayLine(t, r)
    PROVE  IndInv'
  <1> USE DEF IndInv
  <1>1. UNCHANGED <<collecting, held, settled, dumpFile>> /\ replayed' = [replayed EXCEPT ![t] = @ \cup {r}]
    BY DEF ReplayLine
  <1>2. \/ queue' = [queue EXCEPT ![t] = Append(@, r)] /\ Lost' = Lost
        \/ queue' = queue /\ Lost' = Lost \cup {<<r, t>>}
    BY DEF ReplayLine, Lost
  <1>3. /\ queue' \in [Targets -> Seq(Records)] /\ \A u \in Targets : queue[u] # <<>> => queue'[u] # <<>>
        /\ Lost \subseteq Lost' /\ \A u \in Targets : ToSet(queue[u]) \subseteq ToSet(queue'[u])
        /\ r \in ToSet(queue'[t]) \/ <<r, t>> \in Lost'
    <2>1. CASE queue' = [queue EXCEPT ![t] = Append(@, r)] /\ Lost' = Lost
      <3>1. queue'[t] = Append(queue[t], r) /\ \A u \in Targets \ {t} : queue'[u] = queue[u]
        BY <2>1 DEF TypeOK
      <3>2. queue[t] \in Seq(Records)
        BY DEF TypeOK
      <3>3. queue' \in [Targets -> Seq(Records)]
        BY <2>1, <3>2, ToSetAppend DEF TypeOK
      <3> QED BY <2>1, <3>1, <3>2, <3>3, ToSetAppend
    <2>2. CASE queue' = queue /\ Lost' = Lost \cup {<<r, t>>}
      BY <2>2 DEF TypeOK
    <2> QED BY <1>2, <2>1, <2>2
  <1>4. TypeOK' /\ Hands'
    BY <1>1, <1>3 DEF TypeOK, Hands, collecting
  <1>5. \A q \in Records : \A u \in Targets : (Safe(q, u) => Safe(q, u)') /\ (Placed(q, u) => Placed(q, u)')
    BY <1>1, <1>3 DEF Safe, Placed
  <1>6. ReplayedIsSafe'
    <2>1. Safe(r, t)'
      BY <1>3 DEF Safe
    <2>2. \A u \in Targets : \A q \in replayed'[u] : q \in Records /\ (q \in replayed[u] \/ (q = r /\ u = t))
      BY <1>1 DEF TypeOK
    <2> QED BY <1>5, <2>1, <2>2 DEF ReplayedIsSafe
  <1> QED BY <1>1, <1>4, <1>5, <1>6, KeepsPlaces

(* What is removed with the file was replayed, or is lost.                 *)
LEMMA RemoveDumpKeeps ==
    ASSUME IndInv, NEW t \in Targets, RemoveDump(t)
    PROVE  IndInv'
  <1> USE DEF IndInv
  <1>1. /\ UNCHANGED <<collecting, queue, held, settled>>
        /\ dumpFile' = [dumpFile EXCEPT ![t] = {}] /\ replayed' = [replayed EXCEPT ![t] = {}]
        /\ Lost' = Lost \cup (dumpFile[t] \ replayed[t]) \X {t}
    BY DEF RemoveDump, Lost
  <1>2. TypeOK' /\ Hands'
    BY <1>1 DEF TypeOK, Hands, collecting
  <1>3. \A r : \A u \in Targets : Safe(r, u) => Safe(r, u)'
    BY <1>1 DEF Safe
  <1>4. ASSUME NEW u \in Targets, NEW r \in Records, Placed(r, u) PROVE Placed(r, u)'
    <2>1. CASE u # t
      BY <1>1, <1>3, <1>4, <2>1 DEF Placed, TypeOK
    <2>2. CASE u = t /\ r \in dumpFile[t] \ replayed[t]
      BY <1>1, <2>2 DEF Placed, Safe
    <2>3. CASE u = t /\ r \in replayed[t]
      BY <1>3, <2>3 DEF Placed, ReplayedIsSafe
    <2> QED BY <1>3, <1>4, <2>1, <2>2, <2>3 DEF Placed
  <1>5. ReplayedIsSafe'
    BY <1>1, <1>3 DEF ReplayedIsSafe, TypeOK
  <1> QED BY <1>1, <1>2, <1>4, <1>5, KeepsPlaces

-----------------------------------------------------------------------------
(* The targets *)

(* Of what a worker holds only the first of the channel is in its hands.   *)
LEMMA HeldKeeps ==
    ASSUME IndInv, NEW t \in Targets, Take(t) \/ SendFails(t) \/ Probe(t)
    PROVE  IndInv'
  <1> USE DEF IndInv
  <1>1. UNCHANGED <<collecting, queue, settled, dumpFile, replayed, Lost>>
    BY DEF Take, SendFails, Probe, written, history, Lost
  <1>2. /\ held' \in [Targets -> {"none", "batch", "failed", "retry"}]
        /\ \A u \in Targets : held'[u] # "none" => queue[u] # <<>>
    BY DEF Take, SendFails, Probe, Pings, TypeOK, Hands
  <1>3. TypeOK' /\ Hands'
    BY <1>1, <1>2 DEF TypeOK, Hands, collecting
  <1> QED BY <1>1, <1>3 DEF GoneIsPlaced, DoneIsPlaced, ReplayedIsSafe, Placed, Safe, collecting

(* A record that leaves the channel is settled.                            *)
LEMMA StoreKeeps ==
    ASSUME IndInv, NEW t \in Targets, Store(t)
    PROVE  IndInv'
  <1> USE DEF IndInv
  <1>1. /\ UNCHANGED <<collecting, dumpFile, replayed, Lost>>
        /\ settled' = [settled EXCEPT ![t] = @ \cup {Head(queue[t])}]
        /\ queue' = [queue EXCEPT ![t] = Tail(@)] /\ held' = [held EXCEPT ![t] = "none"]
    BY DEF Store, history, Lost
  <1>2. /\ Head(queue[t]) \in Records /\ Tail(queue[t]) \in Seq(Records)
        /\ ToSet(queue[t]) = {Head(queue[t])} \cup ToSet(Tail(queue[t]))
    <2>1. queue[t] \in Seq(Records) /\ queue[t] # <<>>
      BY DEF Store, TypeOK, Hands
    <2> QED BY <2>1, ToSetTail
  <1>3. TypeOK'
    BY <1>1, <1>2 DEF TypeOK, collecting
  <1>4. Hands'
    BY <1>1 DEF TypeOK, Hands, collecting
  <1>5. \A r : \A u \in Targets : (Safe(r, u) => Safe(r, u)') /\ (Placed(r, u) => Placed(r, u)')
    <2>1. /\ queue'[t] = Tail(queue[t]) /\ settled'[t] = settled[t] \cup {Head(queue[t])}
          /\ \A u \in Targets \ {t} : queue'[u] = queue[u] /\ settled'[u] = settled[u]
      BY <1>1 DEF TypeOK
    <2> QED BY <1>1, <1>2, <2>1 DEF Safe, Placed
  <1>6. ReplayedIsSafe'
    BY <1>1, <1>5 DEF ReplayedIsSafe
  <1> QED BY <1>1, <1>3, <1>4, <1>5, <1>6, KeepsPlaces

(* What a worker gives up goes to the dump file, to be replayed from there *)
(* again, or to where an Elasticsearch puts it.                            *)
LEMMA GiveUpKeeps ==
    ASSUME IndInv, NEW t \in Targets, GiveUp(t)
    PROVE  IndInv'
  <1> USE DEF IndInv
  <1> DEFINE given == IF Stops("target", t) THEN ToSet(queue[t]) ELSE {Head(queue[t])}
             rest  == IF Stops("target", t) THEN <<>> ELSE Tail(queue[t])
  <1>1. /\ UNCHANGED <<collecting, Lost>>
        /\ queue' = [queue EXCEPT ![t] = rest] /\ held' = [held EXCEPT ![t] = "none"]
    BY DEF GiveUp, Lost
  <1>2. \/ /\ dumpFile' = [dumpFile EXCEPT ![t] = @ \cup given]
           /\ replayed' = [replayed EXCEPT ![t] = @ \ given] /\ UNCHANGED settled
        \/ /\ settled' = [settled EXCEPT ![t] = @ \cup given] /\ UNCHANGED <<dumpFile, replayed>>
    BY DEF GiveUp
  <1>3. rest \in Seq(Records) /\ given \subseteq Records /\ ToSet(queue[t]) = given \cup ToSet(rest)
    <2>1. queue[t] \in Seq(Records) /\ queue[t] # <<>>
      BY DEF GiveUp, TypeOK, Hands
    <2> QED BY <2>1, ToSetTail, ToSetEmpty
  <1> HIDE DEF given, rest
  <1>4. TypeOK'
    <2>1. queue' \in [Targets -> Seq(Records)] /\ held' \in [Targets -> {"none", "batch", "failed", "retry"}]
      BY <1>1, <1>3 DEF TypeOK
    <2>2. /\ settled' \in [Targets -> SUBSET Records]
          /\ dumpFile' \in [Targets -> SUBSET Records] /\ replayed' \in [Targets -> SUBSET Records]
      <3>1. ASSUME NEW f \in [Targets -> SUBSET Records]
            PROVE  /\ [f EXCEPT ![t] = @ \cup given] \in [Targets -> SUBSET Records]
                   /\ [f EXCEPT ![t] = @ \ given] \in [Targets -> SUBSET Records]
        BY <1>3
      <3> QED BY <1>2, <3>1 DEF TypeOK
    <2> QED BY <1>1, <2>1, <2>2 DEF TypeOK, collecting
  <1>5. Hands'
    BY <1>1 DEF TypeOK, Hands, collecting
  <1>6. \A u \in Targets : queue'[u] = IF u = t THEN rest ELSE queue[u]
    BY <1>1 DEF TypeOK
  <1>7. CASE /\ dumpFile' = [dumpFile EXCEPT ![t] = @ \cup given]
             /\ replayed' = [replayed EXCEPT ![t] = @ \ given] /\ UNCHANGED settled
    <2>1. \A u \in Targets : /\ dumpFile'[u] = IF u = t THEN dumpFile[t] \cup given ELSE dumpFile[u]
                             /\ replayed'[u] = IF u = t THEN replayed[t] \ given ELSE replayed[u]
      BY <1>7 DEF TypeOK
    <2>2. \A r : \A u \in Targets : Safe(r, u) => Safe(r, u)' \/ (u = t /\ r \in given)
      BY <1>1, <1>3, <1>6, <1>7 DEF Safe
    <2>3. \A r : \A u \in Targets : Placed(r, u) => Placed(r, u)'
      BY <2>1, <2>2 DEF Placed
    <2>4. ReplayedIsSafe'
      BY <2>1, <2>2 DEF ReplayedIsSafe
    <2> QED BY <1>1, <1>4, <1>5, <2>3, <2>4, KeepsPlaces
  <1>8. CASE settled' = [settled EXCEPT ![t] = @ \cup given] /\ UNCHANGED <<dumpFile, replayed>>
    <2>1. \A u \in Targets : settled'[u] = IF u = t THEN settled[t] \cup given ELSE settled[u]
      BY <1>8 DEF TypeOK
    <2>2. \A r : \A u \in Targets : (Safe(r, u) => Safe(r, u)') /\ (Placed(r, u) => Placed(r, u)')
      BY <1>1, <1>3, <1>6, <1>8, <2>1 DEF Safe, Placed
    <2>3. ReplayedIsSafe'
      BY <1>8, <2>2 DEF ReplayedIsSafe
    <2> QED BY <1>1, <1>4, <1>5, <2>2, <2>3, KeepsPlaces
  <1> QED BY <1>2, <1>7, <1>8

-----------------------------------------------------------------------------
(* The end of the process *)

(* What was in the channels is lost; files and dump files remain.          *)
LEMMA EndKeeps ==
    ASSUME IndInv, ProcessEnds
    PROVE  IndInv'
  <1> USE DEF IndInv
  <1>1. /\ UNCHANGED <<source, settled, dumpFile>>
        /\ task' = [c \in Collectors |-> Nothing] /\ todo' = [c \in Collectors |-> {}]
        /\ queue' = [t \in Targets |-> <<>>] /\ held' = [t \in Targets |-> "none"]
        /\ replayed' = [t \in Targets |-> {}]
        /\ Lost' = Lost \cup UNION {ToSet(queue[t]) \X {t} : t \in Targets}
    BY DEF ProcessEnds, Lost
  <1>2. TypeOK' /\ Hands' /\ DoneIsPlaced' /\ ReplayedIsSafe'
    BY <1>1, ToSetEmpty DEF TypeOK, Hands, DoneIsPlaced, ReplayedIsSafe
  <1>3. \A r : \A t \in Targets : Placed(r, t) => Placed(r, t)'
    BY <1>1 DEF Placed, Safe
  <1> QED BY <1>1, <1>2, <1>3 DEF GoneIsPlaced

-----------------------------------------------------------------------------
(* The theorems *)

LEMMA IndInvInit == Init => IndInv
  <1> SUFFICES ASSUME Init PROVE IndInv
    OBVIOUS
  <1>1. TypeOK /\ Hands
    BY ToSetEmpty DEF Init, TypeOK, Hands
  <1>2. GoneIsPlaced /\ DoneIsPlaced /\ ReplayedIsSafe
    BY DEF Init, GoneIsPlaced, DoneIsPlaced, ReplayedIsSafe
  <1> QED BY <1>1, <1>2 DEF IndInv

LEMMA IndInvNext ==
    ASSUME IndInv, [Next]_vars
    PROVE  IndInv'
  <1>1. CASE Environment \/ Main \/ StopGearman \/ Return
    <2>1. ProcessEnds => IndInv'
      BY EndKeeps
    <2>2. Kill \/ Return => ProcessEnds
      BY DEF Kill, Return
    <2>3. CASE ~(Kill \/ Return)
      BY <1>1, <2>1, <2>3, MainIsStill, Still DEF Environment
    <2> QED BY <2>1, <2>2, <2>3
  <1>2. CASE StopCollector \/ \E t \in Targets : StopTarget(t)
    <2>1. ASSUME NEW kind, NEW x, kind = "collector" => x \in Collectors, StopComponent(kind, x) PROVE IndInv'
      BY <2>1, StopKeeps
    <2>2. CASE StopReturns
      BY <2>2, Still DEF StopReturns, places, written, history, Lost
    <2> QED BY <1>2, <2>1, <2>2 DEF StopCollector, StopTarget, Collectors
  <1>3. ASSUME NEW c \in Collectors, Collect(c) PROVE IndInv'
    BY <1>3, PickUpKeeps, DeliverKeeps, FinishKeeps DEF Collect
  <1>4. ASSUME NEW t \in Targets, Replay(t) \/ Forward(t) \/ Probe(t) PROVE IndInv'
    <2>1. CASE ReplayEnds(t)
      BY <2>1, MainIsStill, Still, EndKeeps
    <2> QED BY <1>4, <2>1, RemoveDumpKeeps, ReplayLineKeeps, HeldKeeps, StoreKeeps, GiveUpKeeps
            DEF Replay, Forward
  <1>5. CASE UNCHANGED vars
    BY <1>5, Still DEF vars, places, written, history, Lost
  <1> QED BY <1>1, <1>2, <1>3, <1>4, <1>5 DEF Next, Stop

LEMMA Inductive == Spec => []IndInv
  BY IndInvInit, IndInvNext, PTL DEF Spec

(* Nobody appends nothing to a channel or reads from an empty one, and     *)
(* what stands in the channels, files and dump files are records.          *)
THEOREM TypeCorrect == Spec => []TypeOK
  BY Inductive, PTL DEF IndInv

(* Across outages, kills, restarts and shutdowns: a record that a target   *)
(* neither has nor will get from its file, from memory or from the dump    *)
(* file timed out at a full channel, was in memory when the process ended, *)
(* or was appended to the dump file just before its collector removed it.  *)
THEOREM LossHasCause == Spec => []LossNeedsCause
  <1>1. IndInv => LossNeedsCause
    BY DEF IndInv, GoneIsPlaced, Placed, Safe, LossNeedsCause
  <1> QED BY <1>1, Inductive, PTL

=============================================================================
