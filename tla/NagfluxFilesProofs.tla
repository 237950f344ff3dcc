-------------------------- MODULE NagfluxFilesProofs --------------------------
(***************************************************************************)
(* Proofs about NagfluxFiles for every set of files and targets, every     *)
(* number of records and lives, and all capacities.                        *)
(***************************************************************************)
EXTENDS NagfluxFiles, TLAPS

-----------------------------------------------------------------------------
(* The inductive invariant *)

Reads == run \in {"read", "deliver"}

(* The file that is read is in the folder and not in the listing any more. *)
Reader ==
    /\ Reads => current \in folder \ listing /\ record <= Records[current]
    /\ run = "deliver" => record > 0
    /\ run \in {"wait", "next", "read", "down"} => todo = {}

(* run has passed d in the file it reads.                                  *)
Behind(d) == current = d[1] /\ (d[2] < record \/ (d[2] = record /\ d[3] \notin todo))

BehindIsSettled == \A d \in Deliveries : Reads /\ Behind(d) => Settled(d)

RemovedIsDelivered == \A d \in Deliveries : d[1] \in arrived \ folder => Settled(d)

(* d cannot be delivered again in this life unless a removal fails.        *)
Spent(d) ==
    \/ Reads /\ Behind(d)
    \/ run \in {"ack", "stopped", "down"}
    \/ d[1] \in arrived \ folder

(* What is not spent has a copy left.                                      *)
CopyLeft == \A d \in Deliveries : Spent(d) \/ copies[d] < lives + failures[d[1]]

IndInv == TypeOK /\ Reader /\ BehindIsSettled /\ RemovedIsDelivered /\ CopiesBounded /\ CopyLeft

-----------------------------------------------------------------------------
(* Deliveries *)

LEMMA Parts ==
    ASSUME NEW d \in Deliveries
    PROVE  /\ d[1] \in Files /\ d[2] \in Nat \ {0} /\ d[3] \in Targets
           /\ d[2] <= Records[d[1]] /\ Records[d[1]] \in Nat
           /\ d = <<d[1], d[2], d[3]>>
  BY FilesAssumption DEF Deliveries

(* What run is at when it delivers.                                        *)
LEMMA DeliveryOf ==
    ASSUME TypeOK, Reader, run = "deliver", NEW t \in Targets
    PROVE  <<current, record, t>> \in Deliveries
  <1>1. current \in Files /\ record \in 1..Records[current] /\ Records[current] \in 0..MaxRecords
    BY FilesAssumption DEF TypeOK, Reader, Reads
  <1> QED BY <1>1, FilesAssumption DEF Deliveries

(* The steps that take no part in the reading of files.                    *)
LEMMA Aside ==
    ASSUME [Next]_vars
    PROVE  \/ UNCHANGED <<folder, arrived, reader, history>>
           \/ \E f \in Files : Arrive(f) \/ ParseFile(f)
           \/ Tick \/ EndOfListing \/ NextRecord \/ RemoveFile \/ RemoveFails
           \/ \E t \in Targets : Deliver(t) \/ Drop(t)
           \/ TakeToken \/ PutTokenBack \/ Down \/ Start
  <1>1. ChangePause => UNCHANGED <<folder, arrived, reader, history>>
    BY DEF ChangePause
  <1>2. ASSUME NEW t \in Targets, Consume(t) PROVE UNCHANGED <<folder, arrived, reader, history>>
    BY <1>2 DEF Consume, disk
  <1>3. StopPutsToken \/ StopTakesToken => UNCHANGED <<folder, arrived, reader, history>>
    BY DEF StopPutsToken, StopTakesToken, disk
  <1>4. ParsePanics \/ End => Down
    BY DEF ParsePanics, End
  <1> QED BY <1>1, <1>2, <1>3, <1>4 DEF Next, Run, vars, disk

-----------------------------------------------------------------------------
(* Type correctness *)

LEMMA TypeInit == Init => TypeOK
  BY FilesAssumption, NumbersAssumption DEF Init, TypeOK

LEMMA TypeNext ==
    ASSUME TypeOK, Reader, [Next]_vars
    PROVE  TypeOK'
  <1> USE DEF TypeOK, disk, reader, history
  <1>1. ASSUME NEW f \in Files, Arrive(f) PROVE TypeOK'
    BY <1>1 DEF Arrive
  <1>2. CASE ChangePause
    BY <1>2 DEF ChangePause
  <1>3. ASSUME NEW t \in Targets, Consume(t) PROVE TypeOK'
    BY <1>3, NumbersAssumption DEF Consume
  <1>4. CASE Tick
    BY <1>4 DEF Tick
  <1>5. ASSUME NEW f \in Files, ParseFile(f) PROVE TypeOK'
    BY <1>5 DEF ParseFile
  <1>6. CASE EndOfListing
    BY <1>6 DEF EndOfListing
  <1>7. CASE NextRecord
    BY <1>7 DEF NextRecord
  <1>8. ASSUME NEW t \in Targets, Deliver(t) PROVE TypeOK'
    <2>1. filled' \in [Targets -> 0..QueueCap]
      BY <1>8, NumbersAssumption DEF Deliver
    <2>2. copies' \in [Deliveries -> Nat]
      <3> DEFINE d == <<current, record, t>>
      <3>1. d \in Deliveries /\ copies' = [copies EXCEPT ![d] = @ + 1]
        BY <1>8, DeliveryOf DEF Deliver
      <3> HIDE DEF d
      <3> QED BY <3>1
    <2> QED BY <1>8, <2>1, <2>2 DEF Deliver, Done
  <1>9. ASSUME NEW t \in Targets, Drop(t) PROVE TypeOK'
    BY <1>9, DeliveryOf DEF Drop, Done
  <1>10. CASE RemoveFile
    BY <1>10 DEF RemoveFile, EndOfFile, Reader, Reads
  <1>11. CASE RemoveFails
    BY <1>11, NumbersAssumption DEF RemoveFails, EndOfFile, Reader, Reads
  <1>12. CASE TakeToken
    BY <1>12 DEF TakeToken
  <1>13. CASE PutTokenBack
    BY <1>13 DEF PutTokenBack
  <1>14. CASE StopPutsToken
    BY <1>14 DEF StopPutsToken
  <1>15. CASE StopTakesToken
    BY <1>15 DEF StopTakesToken
  <1>16. CASE Down
    BY <1>16, NumbersAssumption DEF Down
  <1>17. CASE Start
    BY <1>17, NumbersAssumption DEF Start
  <1>18. CASE UNCHANGED vars
    BY <1>18 DEF vars
  <1> QED BY <1>1, <1>2, <1>3, <1>4, <1>5, <1>6, <1>7, <1>8, <1>9, <1>10, <1>11, <1>12, <1>13,
             <1>14, <1>15, <1>16, <1>17, <1>18 DEF Next, Run, ParsePanics, End

LEMMA ReaderNext ==
    ASSUME TypeOK, Reader, [Next]_vars
    PROVE  Reader'
  <1> USE DEF Reader, Reads
  <1>1. CASE UNCHANGED <<folder, arrived, reader, history>>
    BY <1>1 DEF reader
  <1>2. ASSUME NEW f \in Files, Arrive(f) PROVE Reader'
    BY <1>2 DEF Arrive, reader
  <1>3. ASSUME NEW f \in Files, ParseFile(f) PROVE Reader'
    <2>1. f \in folder /\ Records[f] \in Nat
      BY <1>3, FilesAssumption DEF ParseFile, TypeOK
    <2> QED BY <1>3, <2>1 DEF ParseFile, disk
  <1>4. CASE Tick \/ EndOfListing
    BY <1>4 DEF Tick, EndOfListing, disk
  <1>5. CASE NextRecord
    <2>1. Records[current] \in Nat /\ record \in Nat
      BY <1>5, FilesAssumption DEF NextRecord, TypeOK
    <2> QED BY <1>5, <2>1 DEF NextRecord, disk
  <1>6. CASE RemoveFile \/ RemoveFails
    BY <1>6 DEF RemoveFile, RemoveFails, EndOfFile
  <1>7. ASSUME NEW t \in Targets, Deliver(t) \/ Drop(t) PROVE Reader'
    BY <1>7 DEF Deliver, Drop, Done, disk
  <1>8. CASE TakeToken \/ PutTokenBack
    BY <1>8 DEF TakeToken, PutTokenBack
  <1>9. CASE Down
    BY <1>9 DEF Down
  <1>10. CASE Start
    BY <1>10 DEF Start
  <1> QED BY <1>1, <1>2, <1>3, <1>4, <1>5, <1>6, <1>7, <1>8, <1>9, <1>10, Aside

-----------------------------------------------------------------------------
(* What is settled *)

(* A delivery or its timeout settles what run is at, every other step      *)
(* leaves alone what is settled.                                           *)
LEMMA SettledBy ==
    ASSUME TypeOK, Reader, NEW t \in Targets, Deliver(t) \/ Drop(t), NEW d \in Deliveries
    PROVE  Settled(d)' <=> Settled(d) \/ d = <<current, record, t>>
  <1>1. CASE Deliver(t)
    <2>1. copies' = [copies EXCEPT ![<<current, record, t>>] = @ + 1] /\ dropped' = dropped
      BY <1>1 DEF Deliver
    <2>2. copies[d] \in Nat
      BY DEF TypeOK
    <2>3. copies'[d] = IF d = <<current, record, t>> THEN copies[d] + 1 ELSE copies[d]
      BY <2>1 DEF TypeOK
    <2> QED BY <2>1, <2>2, <2>3 DEF Settled
  <1>2. CASE Drop(t)
    BY <1>2 DEF Drop, Settled
  <1> QED BY <1>1, <1>2

LEMMA SettledStays ==
    ASSUME TypeOK, Reader, [Next]_vars, NEW d \in Deliveries
    PROVE  /\ Settled(d) => Settled(d)'
           /\ (\A t \in Targets : ~Deliver(t) /\ ~Drop(t)) => (Settled(d)' <=> Settled(d))
  <1>1. CASE UNCHANGED <<copies, dropped>>
    BY <1>1 DEF Settled
  <1>2. ASSUME NEW t \in Targets, Deliver(t) \/ Drop(t) PROVE Settled(d) => Settled(d)'
    BY <1>2, SettledBy
  <1>3. CASE \E f \in Files : Arrive(f) \/ ParseFile(f)
    BY <1>1, <1>3 DEF Arrive, ParseFile, history
  <1>4. CASE Tick \/ EndOfListing \/ NextRecord \/ RemoveFile \/ RemoveFails
    BY <1>1, <1>4 DEF Tick, EndOfListing, NextRecord, RemoveFile, RemoveFails, history
  <1>5. CASE TakeToken \/ PutTokenBack \/ Down \/ Start
    BY <1>1, <1>5 DEF TakeToken, PutTokenBack, Down, Start, history
  <1> QED BY <1>1, <1>2, <1>3, <1>4, <1>5, Aside DEF history

LEMMA BehindNext ==
    ASSUME TypeOK, Reader, BehindIsSettled, [Next]_vars
    PROVE  BehindIsSettled'
  <1> SUFFICES ASSUME NEW d \in Deliveries, Reads', Behind(d)'
               PROVE  Settled(d)'
    BY DEF BehindIsSettled, Deliveries
  <1>1. Reads /\ Behind(d) => Settled(d)'
    BY SettledStays DEF BehindIsSettled
  <1> USE DEF Reads, Behind
  <1>2. CASE UNCHANGED reader
    BY <1>1, <1>2 DEF reader
  <1>3. ASSUME NEW f \in Files, ParseFile(f) PROVE Settled(d)'
    BY <1>3, Parts DEF ParseFile, Reader
  <1>4. CASE NextRecord
    <2>1. record \in Nat /\ record' = record + 1 /\ todo' = Targets /\ todo = {} /\ run = "read" /\ current' = current
      BY <1>4 DEF NextRecord, TypeOK, Reader
    <2>2. d[2] < record \/ d[2] = record
      BY <2>1, Parts
    <2> QED BY <1>1, <2>1, <2>2
  <1>5. ASSUME NEW t \in Targets, Deliver(t) \/ Drop(t) PROVE Settled(d)'
    <2>1. run = "deliver" /\ UNCHANGED <<current, record>> /\ todo' = todo \ {t}
      BY <1>5 DEF Deliver, Drop, Done
    <2>2. d # <<current, record, t>> => Behind(d)
      BY <2>1, Parts
    <2> QED BY <1>1, <1>5, <2>1, <2>2, SettledBy
  <1>6. CASE Tick \/ EndOfListing \/ RemoveFile \/ RemoveFails \/ TakeToken \/ PutTokenBack \/ Down \/ Start
    BY <1>6 DEF Tick, EndOfListing, RemoveFile, RemoveFails, TakeToken, PutTokenBack, Down, Start
  <1>7. ASSUME NEW f \in Files, Arrive(f) PROVE UNCHANGED reader
    BY <1>7 DEF Arrive
  <1> QED BY <1>2, <1>3, <1>4, <1>5, <1>6, <1>7, Aside

(* At the end of the file everything in it is settled.                     *)
LEMMA FileIsSettled ==
    ASSUME TypeOK, Reader, BehindIsSettled, EndOfFile, NEW d \in Deliveries, d[1] = current
    PROVE  Reads /\ Behind(d) /\ Settled(d)
  <1>1. run = "read" /\ todo = {} /\ record = Records[current] /\ record \in Nat
    BY Parts DEF EndOfFile, Reader, TypeOK
  <1>2. Reads /\ Behind(d)
    BY <1>1, Parts DEF Reads, Behind
  <1> QED BY <1>2 DEF BehindIsSettled

LEMMA RemovedNext ==
    ASSUME TypeOK, Reader, BehindIsSettled, RemovedIsDelivered, [Next]_vars
    PROVE  RemovedIsDelivered'
  <1> SUFFICES ASSUME NEW d \in Deliveries, d[1] \in arrived' \ folder'
               PROVE  Settled(d)'
    BY DEF RemovedIsDelivered, Deliveries
  <1>1. Settled(d) => Settled(d)'
    BY SettledStays
  <1>2. CASE UNCHANGED <<folder, arrived>>
    BY <1>1, <1>2 DEF RemovedIsDelivered
  <1>3. ASSUME NEW f \in Files, Arrive(f) PROVE Settled(d)'
    BY <1>1, <1>3 DEF Arrive, RemovedIsDelivered
  <1>4. CASE RemoveFile
    BY <1>1, <1>4, FileIsSettled DEF RemoveFile, RemovedIsDelivered
  <1>5. CASE Tick \/ EndOfListing \/ NextRecord \/ RemoveFails \/ TakeToken \/ PutTokenBack \/ Down \/ Start
    BY <1>2, <1>5 DEF Tick, EndOfListing, NextRecord, RemoveFails, TakeToken, PutTokenBack, Down, Start, disk
  <1>6. ASSUME NEW f \in Files, ParseFile(f) PROVE Settled(d)'
    BY <1>2, <1>6 DEF ParseFile, disk
  <1>7. ASSUME NEW t \in Targets, Deliver(t) \/ Drop(t) PROVE Settled(d)'
    BY <1>2, <1>7 DEF Deliver, Drop, disk
  <1> QED BY <1>2, <1>3, <1>4, <1>5, <1>6, <1>7, Aside

-----------------------------------------------------------------------------
(* How many copies *)

LEMMA CopiesNext ==
    ASSUME TypeOK, Reader, BehindIsSettled, CopiesBounded, CopyLeft, [Next]_vars
    PROVE  CopiesBounded' /\ CopyLeft'
  <1> SUFFICES ASSUME NEW d \in Deliveries
               PROVE  /\ copies'[d] <= lives' + failures'[d[1]]
                      /\ Spent(d)' \/ copies'[d] < lives' + failures'[d[1]]
    BY DEF CopiesBounded, CopyLeft, Deliveries
  <1> DEFINE Goal == /\ copies'[d] <= lives' + failures'[d[1]]
                     /\ Spent(d)' \/ copies'[d] < lives' + failures'[d[1]]
  <1>1. /\ copies[d] <= lives + failures[d[1]]
        /\ Spent(d) \/ copies[d] < lives + failures[d[1]]
    BY DEF CopiesBounded, CopyLeft
  <1>2. copies[d] \in Nat /\ lives \in Nat /\ failures[d[1]] \in Nat
    BY Parts, NumbersAssumption DEF TypeOK
  <1>3. UNCHANGED history /\ (Spent(d) => Spent(d)') => Goal
    BY <1>1 DEF history
  <1> HIDE DEF Goal
  <1>4. CASE UNCHANGED <<folder, arrived, reader, history>>
    BY <1>3, <1>4 DEF Goal, Spent, Reads, Behind, reader
  <1>5. ASSUME NEW f \in Files, Arrive(f) PROVE Goal
    BY <1>3, <1>5 DEF Arrive, Spent, Reads, Behind, reader
  <1>6. ASSUME NEW f \in Files, ParseFile(f) PROVE Goal
    BY <1>3, <1>6 DEF ParseFile, Spent, Reads, Behind, disk
  <1>7. CASE Tick \/ EndOfListing
    BY <1>3, <1>7 DEF Goal, Tick, EndOfListing, Spent, Reads, Behind, disk
  <1>8. CASE NextRecord
    <2>1. record \in Nat /\ record' = record + 1 /\ run' = "deliver" /\ current' = current
          /\ run = "read" /\ UNCHANGED <<folder, arrived, history>>
      BY <1>8 DEF NextRecord, TypeOK, disk
    <2> QED BY <1>3, <2>1, Parts DEF Goal, Spent, Reads, Behind
  <1>9. CASE RemoveFile
    <2>1. current \in arrived
      BY <1>9 DEF RemoveFile, EndOfFile, Reader, Reads, TypeOK
    <2> QED BY <1>3, <1>9, <2>1 DEF Goal, RemoveFile, EndOfFile, Spent, Reads, Behind, disk
  <1>10. CASE RemoveFails
    <2>1. run = "read" /\ run' = "next" /\ UNCHANGED <<copies, lives, folder, arrived>>
          /\ failures' = [failures EXCEPT ![current] = @ + 1] /\ current \in Files
      BY <1>10 DEF RemoveFails, EndOfFile, Reader, Reads, TypeOK, disk
    <2>2. CASE d[1] = current
      <3>1. failures'[d[1]] = failures[d[1]] + 1
        BY <2>1, <2>2 DEF TypeOK
      <3> QED BY <1>1, <1>2, <2>1, <3>1 DEF Goal
    <2>3. CASE d[1] # current
      <3>1. failures'[d[1]] = failures[d[1]]
        BY <2>1, <2>3, Parts DEF TypeOK
      <3>2. Spent(d) => Spent(d)'
        BY <2>1, <2>3 DEF Spent, Reads, Behind
      <3> QED BY <1>1, <2>1, <3>1, <3>2 DEF Goal
    <2> QED BY <2>2, <2>3
  <1>11. ASSUME NEW t \in Targets, Deliver(t) \/ Drop(t) PROVE Goal
    <2>1. /\ run = "deliver" /\ run' \in {"read", "deliver"}
          /\ UNCHANGED <<folder, arrived, current, record, lives, failures>>
          /\ todo' = todo \ {t} /\ t \in todo /\ record \in Nat
      BY <1>11 DEF Deliver, Drop, Done, disk, TypeOK
    <2>2. Spent(d) => Spent(d)'
      BY <2>1 DEF Spent, Reads, Behind
    <2>3. d # <<current, record, t>> => copies'[d] = copies[d]
      BY <1>11 DEF Deliver, Drop, TypeOK
    <2>4. CASE d # <<current, record, t>>
      BY <1>1, <2>1, <2>2, <2>3, <2>4 DEF Goal
    <2>5. CASE d = <<current, record, t>>
      <3>1. ~Spent(d)
        BY <2>1, <2>5 DEF Spent, Behind, Reader, Reads
      <3>2. Spent(d)'
        BY <2>1, <2>5 DEF Spent, Behind, Reads
      <3>3. copies'[d] = copies[d] + 1 \/ copies'[d] = copies[d]
        BY <1>11, <2>5 DEF Deliver, Drop, TypeOK
      <3> QED BY <1>1, <1>2, <2>1, <3>1, <3>2, <3>3 DEF Goal
    <2> QED BY <2>4, <2>5
  <1>12. CASE TakeToken \/ PutTokenBack \/ Down
    <2>1. Spent(d)' /\ UNCHANGED history
      BY <1>12 DEF TakeToken, PutTokenBack, Down, Spent
    <2> QED BY <1>3, <2>1 DEF Goal
  <1>13. CASE Start
    BY <1>1, <1>2, <1>13 DEF Start, Goal
  <1> QED BY <1>4, <1>5, <1>6, <1>7, <1>8, <1>9, <1>10, <1>11, <1>12, <1>13, Aside DEF Goal

-----------------------------------------------------------------------------
(* The promise of an intake *)

LEMMA PromiseInit == Init => Promise!Init
  BY DEF Init, Promise!Init, Settled

LEMMA PromiseNext ==
    ASSUME IndInv, [Next]_vars
    PROVE  [Promise!Next]_Promise!vars
  <1> USE DEF IndInv
  <1>1. ASSUME NEW t \in Targets, Deliver(t) \/ Drop(t)
        PROVE  [Promise!Next]_Promise!vars
    <2>1. /\ <<current, record, t>> \in Deliveries
          /\ <<current, record, t>>[1] \in folder
      BY <1>1, DeliveryOf DEF Deliver, Drop, Reader, Reads
    <2>2. UNCHANGED <<folder, arrived>>
      BY <1>1 DEF Deliver, Drop, disk
    <2>3. {d \in Deliveries : Settled(d)}' = {d \in Deliveries : Settled(d)} \cup {<<current, record, t>>}
      BY <1>1, <2>1, SettledBy DEF Deliveries
    <2> QED BY <2>1, <2>2, <2>3 DEF Promise!Next, Promise!Settle
  <1>2. CASE \A t \in Targets : ~Deliver(t) /\ ~Drop(t)
    <2>1. {d \in Deliveries : Settled(d)}' = {d \in Deliveries : Settled(d)}
      BY <1>2, SettledStays DEF Deliveries
    <2>2. CASE UNCHANGED <<folder, arrived>>
      BY <2>1, <2>2 DEF Promise!vars
    <2>3. ASSUME NEW f \in Files, Arrive(f) PROVE [Promise!Next]_Promise!vars
      BY <2>1, <2>3 DEF Arrive, Promise!Next, Promise!Arrive
    <2>4. CASE RemoveFile
      <3>1. current \in Files /\ current \in folder
        BY <2>4 DEF RemoveFile, EndOfFile, Reader, Reads, TypeOK
      <3>2. \A d \in Deliveries : d[1] = current => Settled(d)
        BY <2>4, FileIsSettled DEF RemoveFile
      <3> QED BY <2>1, <2>4, <3>1, <3>2 DEF RemoveFile, Promise!Next, Promise!Remove
    <2>5. ASSUME NEW f \in Files, ParseFile(f) PROVE UNCHANGED <<folder, arrived>>
      BY <2>5 DEF ParseFile, disk
    <2>6. Tick \/ EndOfListing \/ NextRecord \/ RemoveFails => UNCHANGED <<folder, arrived>>
      BY DEF Tick, EndOfListing, NextRecord, RemoveFails, disk
    <2>7. TakeToken \/ PutTokenBack \/ Down \/ Start => UNCHANGED <<folder, arrived>>
      BY DEF TakeToken, PutTokenBack, Down, Start, disk
    <2> QED BY <1>2, <2>2, <2>3, <2>4, <2>5, <2>6, <2>7, Aside
  <1> QED BY <1>1, <1>2

-----------------------------------------------------------------------------
(* The theorems *)

LEMMA IndInvInit == Init => IndInv
  <1> SUFFICES ASSUME Init PROVE IndInv
    OBVIOUS
  <1>1. TypeOK
    BY TypeInit
  <1>2. Reader /\ BehindIsSettled /\ RemovedIsDelivered
    BY DEF Init, Reader, Reads, BehindIsSettled, RemovedIsDelivered
  <1>3. \A d \in Deliveries : copies[d] = 0 /\ lives = 1 /\ failures[d[1]] = 0
    BY Parts DEF Init
  <1>4. CopiesBounded /\ CopyLeft
    BY <1>3 DEF CopiesBounded, CopyLeft
  <1> QED BY <1>1, <1>2, <1>4 DEF IndInv

LEMMA IndInvNext == IndInv /\ [Next]_vars => IndInv'
  BY TypeNext, ReaderNext, BehindNext, RemovedNext, CopiesNext DEF IndInv

LEMMA Inductive == Spec => []IndInv
  BY IndInvInit, IndInvNext, PTL DEF Spec

(* Every variable keeps its type; what is listed is in the folder, since   *)
(* FileCollector.run alone removes files.                                  *)
THEOREM TypeCorrect == Spec => []TypeOK
  BY Inductive, PTL DEF IndInv

(* A record of a file reaches a target at most once per life of the        *)
(* process and once more for each os.Remove of the file that failed.       *)
THEOREM CopiesAreBounded == Spec => []CopiesBounded
  BY Inductive, PTL DEF IndInv

(* FileCollector.run keeps the promise of an intake: it removes a file     *)
(* only when every record was offered to every target, whenever the        *)
(* process is stopped or killed.                                           *)
THEOREM Refinement == Spec => KeepsPromise
  BY Inductive, PromiseInit, PromiseNext, PTL DEF Spec, KeepsPromise, Promise!Spec

=============================================================================
