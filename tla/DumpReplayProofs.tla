-------------------------- MODULE DumpReplayProofs --------------------------
(***************************************************************************)
(* Proofs about DumpReplay for every set of workers and lines, every old   *)
(* dump file and every value of the other constants.                       *)
(***************************************************************************)
EXTENDS DumpReplay, SequenceTheorems, TLAPS

-----------------------------------------------------------------------------
(* The channel *)

(* What is put into a channel is what it holds in addition.                *)
LEMMA RangeAppend ==
    ASSUME NEW S, NEW s \in Seq(S), NEW e \in S
    PROVE  Range(Append(s, e)) = Range(s) \cup {e}
  <1>1. Append(s, e) = s \o <<e>> /\ <<e>> \in Seq(S)
    OBVIOUS
  <1>2. Range(<<e>>) = {e}
    BY DEF Range
  <1>3. Range(s \o <<e>>) = Range(s) \cup Range(<<e>>)
    BY <1>1, RangeConcatenation
  <1> QED BY <1>1, <1>2, <1>3

(* What is taken from a channel was at its head.                           *)
LEMMA RangeTail ==
    ASSUME NEW S, NEW s \in Seq(S), s # <<>>
    PROVE  Range(s) = {Head(s)} \cup Range(Tail(s))
  <1>1. s = <<Head(s)>> \o Tail(s) /\ <<Head(s)>> \in Seq(S) /\ Tail(s) \in Seq(S)
    OBVIOUS
  <1>2. Range(<<Head(s)>>) = {Head(s)}
    BY DEF Range
  <1>3. Range(<<Head(s)>> \o Tail(s)) = Range(<<Head(s)>>) \cup Range(Tail(s))
    BY <1>1, RangeConcatenation
  <1> QED BY <1>1, <1>2, <1>3

-----------------------------------------------------------------------------
(* The inductive invariant *)

(* A line need not be in the dump file any more: it is in the database or  *)
(* in memory, or it has one of the three excuses.                          *)
Accounted(l) ==
    \/ l \in stored \cup skipped \cup returned \cup forgotten
    \/ l \in Range(jobs)
    \/ \E w \in Workers : l \in Range(held[w])

(* What the collector has behind it is accounted for, and once it has seen *)
(* the end of the file only workers that know of the replay append.        *)
Replayed ==
    /\ run \in {"read", "remove"} => inode # 0 /\ \A l \in Range(read) : Accounted(l)
    /\ run = "open" => read = <<>>
    /\ run = "remove" => Range(disk) \subseteq returned

(* A worker at the dump file holds the mutex.  Either its batch counts as  *)
(* returned during a replay, or the replay is over and the file the worker *)
(* has found, made or opened is there to stay.                             *)
Dumper(w) ==
    /\ pc[w] \in {"create", "open", "write"} => mutex = w
    /\ pc[w] = "create" => inode = 0
    /\ pc[w] \in {"create", "open", "write"} =>
          \/ Range(held[w]) \subseteq returned
          \/ /\ run = "done"
             /\ pc[w] = "open" => inode # 0
             /\ pc[w] = "write" => inode # 0 /\ fd[w] = inode
    /\ pc[w] = "write" => fd[w] # 0

Dumpers == \A w \in Workers : Dumper(w)

(* The token of Stop is in quit as long as Stop waits for it.              *)
Token == quit = (IF main = "stopDump" THEN 1 ELSE 0)

IndInv == TypeOK /\ LossNeedsCause /\ Replayed /\ Dumpers /\ Token

-----------------------------------------------------------------------------
(* Type correctness *)

LEMMA TypeInit == Init => TypeOK
  BY LinesAssumption, WorkersAssumption, NumbersAssumption DEF Init, TypeOK

(* The line at the head of the file, and the file once it is behind.       *)
LEMMA NextLineForm ==
    ASSUME TypeOK, LineRead, NextLine
    PROVE  /\ inode # 0
           /\ Head(disk) \in Lines
           /\ disk' \in Seq(Lines) /\ read' \in Seq(Lines)
           /\ Range(disk) = {Head(disk)} \cup Range(disk')
           /\ Range(read') = Range(read) \cup {Head(disk)}
  <1> USE DEF TypeOK, LineRead, NextLine
  <1>1. Head(disk) \in Lines /\ disk' \in Seq(Lines)
    BY HeadTailProperties, EmptySeq
  <1>2. Range(disk) = {Head(disk)} \cup Range(disk')
    BY RangeTail
  <1>3. read' \in Seq(Lines)
    BY <1>1, AppendProperties
  <1>4. Range(read') = Range(read) \cup {Head(disk)}
    BY <1>1, RangeAppend
  <1> QED BY <1>1, <1>2, <1>3, <1>4

LEMMA TypeReplay ==
    ASSUME TypeOK, Replayed, Replay
    PROVE  TypeOK'
  <1> USE DEF TypeOK, process, chan, workers, history, file
  <1>1. CASE OpenFile
    BY <1>1 DEF OpenFile
  <1>3. CASE ReadLongLine
    BY <1>3 DEF ReadLongLine
  <1>4. CASE ReadEOF
    BY <1>4 DEF ReadEOF
  <1>5. CASE EnqueueLine
    <2>1. /\ inode # 0 /\ Head(disk) \in Lines
          /\ disk' \in Seq(Lines) /\ read' \in Seq(Lines)
      BY <1>5, NextLineForm DEF EnqueueLine
    <2>2. jobs' \in Seq(Lines) /\ Len(jobs') <= QueueCap
      BY <1>5, <2>1, AppendProperties, LenProperties, NumbersAssumption DEF EnqueueLine
    <2>3. UNCHANGED <<inode, lastInode, process, collector, fresh, workers, stored, history>>
      BY <1>5 DEF EnqueueLine
    <2> QED BY <2>1, <2>2, <2>3 DEF collector
  <1>6. CASE SkipLine
    <2>1. /\ inode # 0 /\ Head(disk) \in Lines
          /\ disk' \in Seq(Lines) /\ read' \in Seq(Lines)
      BY <1>6, NextLineForm DEF SkipLine
    <2>2. skipped' \subseteq Lines
      BY <1>6, <2>1 DEF SkipLine
    <2>3. UNCHANGED <<inode, lastInode, process, collector, chan, workers, stored,
                      returned, forgotten>>
      BY <1>6 DEF SkipLine
    <2> QED BY <2>1, <2>2, <2>3 DEF collector
  <1>7. CASE QuitReplay
    BY <1>7 DEF QuitReplay
  <1>8. CASE RemoveFile
    <2>1. disk' \in Seq(Lines) /\ read' \in Seq(Lines)
      BY <1>8, EmptySeq DEF RemoveFile
    <2>2. /\ inode' = 0 /\ inode' \in 0..lastInode' /\ disk' = <<>> /\ read' = <<>>
          /\ run' = "done" /\ isRunning' = FALSE
      BY <1>8 DEF RemoveFile
    <2>3. UNCHANGED <<lastInode, process, quit, chan, workers, stored, history>>
      BY <1>8 DEF RemoveFile
    <2> QED BY <2>1, <2>2, <2>3
  <1> QED BY <1>1, <1>3, <1>4, <1>5, <1>6, <1>7, <1>8 DEF Replay

LEMMA TypeWorker ==
    ASSUME TypeOK, Dumpers, NEW w \in Workers, Worker(w)
    PROVE  TypeOK'
  <1> USE DEF TypeOK, process, collector, chan, workers, history, file
  <1>1. CASE Receive(w)
    <2>1. jobs' \in Seq(Lines) /\ Len(jobs') <= QueueCap /\ Head(jobs) \in Lines
      BY <1>1, HeadTailProperties, EmptySeq, NumbersAssumption DEF Receive
    <2>2. held' \in [Workers -> Seq(Lines)]
      BY <1>1, <2>1, AppendProperties, LenProperties DEF Receive
    <2> QED BY <1>1, <2>1, <2>2 DEF Receive
  <1>2. CASE Store(w)
    BY <1>2 DEF Store, Range
  <1>3. CASE GiveUp(w)
    <2>1. jobs' \in Seq(Lines) /\ Len(jobs') <= QueueCap
      <3>1. jobs' = jobs \/ jobs' = <<>>
        BY <1>3 DEF GiveUp
      <3>2. <<>> \in Seq(Lines) /\ Len(<<>>) <= QueueCap
        BY EmptySeq, NumbersAssumption
      <3> QED BY <3>1, <3>2
    <2>2. held' \in [Workers -> Seq(Lines)]
      <3>1. held[w] \o jobs \in Seq(Lines)
        BY ConcatProperties
      <3> QED BY <1>3, <3>1 DEF GiveUp
    <2>3. pc' \in [Workers -> {"idle", "dump", "create", "open", "write", "stopped"}]
      BY <1>3 DEF GiveUp
    <2>5. UNCHANGED <<file, process, collector, fresh, fd, mutex, stored, history>>
      BY <1>3 DEF GiveUp
    <2> QED BY <2>1, <2>2, <2>3, <2>5
  <1>4. CASE StatDump(w)
    BY <1>4 DEF StatDump, Range
  <1>5. CASE CreateDump(w)
    BY <1>5, EmptySeq DEF CreateDump, Dumpers, Dumper
  <1>6. CASE OpenDump(w)
    <2>1. held' \in [Workers -> Seq(Lines)]
      BY <1>6, EmptySeq DEF OpenDump
    <2>2. inode \in Nat
      OBVIOUS
    <2>5. fd' \in [Workers -> Nat]
      BY <1>6, <2>2 DEF OpenDump
    <2>6. mutex' \in Workers \cup {NoWorker}
      BY <1>6 DEF OpenDump
    <2>3. pc' \in [Workers -> {"idle", "dump", "create", "open", "write", "stopped"}]
      BY <1>6 DEF OpenDump
    <2>4. UNCHANGED <<file, process, collector, chan, stored, history>>
      BY <1>6 DEF OpenDump
    <2> QED BY <2>1, <2>3, <2>4, <2>5, <2>6
  <1>7. CASE WriteLine(w)
    <2>1. disk' \in Seq(Lines) /\ Len(disk) <= Len(disk') /\ (inode = 0 => disk' = <<>>)
      BY <1>7, HeadTailProperties, EmptySeq, AppendProperties, LenProperties DEF WriteLine, Dumpers, Dumper
    <2>2. held' \in [Workers -> Seq(Lines)]
      BY <1>7, HeadTailProperties, EmptySeq DEF WriteLine
    <2> QED BY <1>7, <2>1, <2>2 DEF WriteLine
  <1>8. CASE CloseDump(w)
    BY <1>8 DEF CloseDump
  <1>9. CASE QuitWorker(w)
    BY <1>9 DEF QuitWorker
  <1> QED BY <1>1, <1>2, <1>3, <1>4, <1>5, <1>6, <1>7, <1>8, <1>9 DEF Worker

LEMMA TypeMain ==
    ASSUME TypeOK, Token, Main \/ (\E l \in Lines : EnqueueFresh(l)) \/ End \/ Start
    PROVE  TypeOK'
  <1> USE DEF TypeOK, process, collector, chan, workers, history, file
  <1>1. CASE WaitForDumpfileCollector \/ StopDump \/ StopDumpReturns \/ TargetStopped
    <2>1. quit' \in 0..1
      BY <1>1 DEF WaitForDumpfileCollector, StopDump, StopDumpReturns, TargetStopped, Token
    <2>4. isRunning' \in BOOLEAN
      BY <1>1 DEF WaitForDumpfileCollector, StopDump, StopDumpReturns, TargetStopped
    <2>2. main' \in {"running", "stopDump", "stopTarget", "exit"}
      BY <1>1 DEF WaitForDumpfileCollector, StopDump, StopDumpReturns, TargetStopped
    <2>3. UNCHANGED <<file, starts, run, chan, workers, stored, history>>
      BY <1>1 DEF WaitForDumpfileCollector, StopDump, StopDumpReturns, TargetStopped
    <2> QED BY <2>1, <2>2, <2>3, <2>4
  <1>2. CASE \E l \in Lines : EnqueueFresh(l)
    <2>1. jobs' \in Seq(Lines) /\ Len(jobs') <= QueueCap /\ fresh' \subseteq Lines
      BY <1>2, AppendProperties, LenProperties, NumbersAssumption DEF EnqueueFresh
    <2> QED BY <1>2, <2>1 DEF EnqueueFresh
  <1>3. CASE End
    <2>1. InMemory \subseteq Lines
      BY DEF InMemory, Range
    <2>2. jobs' \in Seq(Lines) /\ Len(jobs') <= QueueCap
      BY <1>3, EmptySeq, NumbersAssumption DEF End, ClearMemory
    <2>4. disk' \in Seq(Lines) /\ read' \in Seq(Lines)
      BY <1>3, ConcatProperties, EmptySeq DEF End
    <2>5. inode = 0 => disk' = <<>> /\ read' = <<>>
      BY <1>3, EmptySeq DEF End
    <2>3. held' \in [Workers -> Seq(Lines)]
      BY <1>3, EmptySeq DEF End, ClearMemory
    <2> QED BY <1>3, <2>1, <2>2, <2>3, <2>4, <2>5, NumbersAssumption DEF End, ClearMemory
  <1>4. CASE Start
    BY <1>4, NumbersAssumption DEF Start
  <1> QED BY <1>1, <1>2, <1>3, <1>4 DEF Main

LEMMA TypeStep == IndInv /\ [Next]_vars => TypeOK'
  <1> SUFFICES ASSUME IndInv, [Next]_vars PROVE TypeOK'
    OBVIOUS
  <1>1. CASE UNCHANGED vars
    BY <1>1 DEF IndInv, TypeOK, vars, process, collector, chan, workers, history, file
  <1>2. CASE Terminated
    BY <1>1, <1>2 DEF Terminated
  <1> QED BY <1>1, <1>2, TypeReplay, TypeWorker, TypeMain DEF IndInv, Next, Dumpers

-----------------------------------------------------------------------------
(* The token of Stop and the workers at the dump file *)

LEMMA TokenStep == IndInv /\ [Next]_vars => Token'
  <1> SUFFICES ASSUME IndInv, [Next]_vars PROVE Token'
    OBVIOUS
  <1> USE DEF IndInv, Token
  <1>1. CASE Replay
    BY <1>1 DEF Replay, OpenFile, ReadLongLine, ReadEOF, EnqueueLine, SkipLine,
                QuitReplay, RemoveFile, process, collector
  <1>2. CASE \E w \in Workers : Worker(w)
    BY <1>2 DEF Worker, Receive, Store, GiveUp, StatDump, CreateDump, OpenDump, WriteLine,
                CloseDump, QuitWorker, process, collector
  <1>3. CASE Main
    BY <1>3 DEF Main, WaitForDumpfileCollector, StopDump, StopDumpReturns, TargetStopped,
                collector
  <1>4. CASE (\E l \in Lines : EnqueueFresh(l)) \/ End \/ Start \/ Terminated \/ UNCHANGED vars
    BY <1>4 DEF EnqueueFresh, End, Start, ClearMemory, Terminated, vars, process, collector
  <1> QED BY <1>1, <1>2, <1>3, <1>4 DEF Next

(* A step of the collector that does not remove the file.                  *)
LEMMA DumpersReplay ==
    ASSUME TypeOK, Dumpers, Replayed, Replay
    PROVE  Dumpers'
  <1> SUFFICES ASSUME NEW w \in Workers PROVE Dumper(w)'
    BY DEF Dumpers
  <1>1. Dumper(w) /\ UNCHANGED <<pc, held, fd, mutex, returned>>
    BY DEF Dumpers, Replay, OpenFile, ReadLongLine, ReadEOF, EnqueueLine, SkipLine,
           QuitReplay, RemoveFile, workers, history
  <1>2. run # "done"
    BY DEF Replay, OpenFile, ReadLongLine, ReadEOF, EnqueueLine, SkipLine,
           QuitReplay, RemoveFile, LineRead
  <1>3. inode' = inode \/ inode' = 0
    BY DEF Replay, OpenFile, ReadLongLine, ReadEOF, EnqueueLine, SkipLine,
           QuitReplay, RemoveFile, file
  <1> QED BY <1>1, <1>2, <1>3 DEF Dumper

(* Only the worker that holds the mutex is at the dump file, so a step of  *)
(* another worker finds it elsewhere.                                      *)
LEMMA DumpersWorker ==
    ASSUME TypeOK, Dumpers, NEW w \in Workers, Worker(w)
    PROVE  Dumpers'
  <1> SUFFICES ASSUME NEW v \in Workers PROVE Dumper(v)'
    BY DEF Dumpers
  <1> USE DEF Dumpers, Dumper, TypeOK, process, collector, history, file
  <1>1. CASE Receive(w)
    BY <1>1 DEF Receive
  <1>2. CASE Store(w)
    BY <1>2 DEF Store
  <1>3. CASE GiveUp(w)
    BY <1>3 DEF GiveUp
  <1>4. CASE StatDump(w)
    BY <1>4, WorkersAssumption DEF StatDump
  <1>5. CASE CreateDump(w)
    BY <1>5 DEF CreateDump
  <1>6. CASE OpenDump(w)
    BY <1>6, WorkersAssumption DEF OpenDump
  <1>7. CASE WriteLine(w)
    <2>1. Range(held'[w]) \subseteq Range(held[w])
      BY <1>7, RangeTail DEF WriteLine
    <2> QED BY <1>7, <2>1 DEF WriteLine
  <1>8. CASE CloseDump(w)
    BY <1>8 DEF CloseDump
  <1>9. CASE QuitWorker(w)
    BY <1>9 DEF QuitWorker
  <1> QED BY <1>1, <1>2, <1>3, <1>4, <1>5, <1>6, <1>7, <1>8, <1>9 DEF Worker

LEMMA DumpersStep == IndInv /\ [Next]_vars => Dumpers'
  <1> SUFFICES ASSUME IndInv, [Next]_vars PROVE Dumpers'
    OBVIOUS
  <1>1. CASE Main \/ (\E l \in Lines : EnqueueFresh(l)) \/ Start \/ Terminated \/ UNCHANGED vars
    BY <1>1 DEF IndInv, Dumpers, Dumper, Main, WaitForDumpfileCollector, StopDump,
                StopDumpReturns, TargetStopped, EnqueueFresh, Start, Terminated, vars,
                collector, file, workers, history
  <1>2. CASE End
    BY <1>2 DEF Dumpers, Dumper, End, ClearMemory
  <1> QED BY <1>1, <1>2, DumpersReplay, DumpersWorker DEF IndInv, Next

-----------------------------------------------------------------------------
(* Where lines go *)

LEMMA InMemoryForm ==
    \A l : l \in InMemory <=> l \in Range(jobs) \/ \E w \in Workers : l \in Range(held[w])
  BY DEF InMemory

LEMMA LossForm ==
    LossNeedsCause <=>
        \A l \in Known : Accounted(l) \/ l \in Range(read) \cup Range(disk)
  BY InMemoryForm DEF LossNeedsCause, Kept, Accounted

(* A line that is accounted for stays so, unless a worker appends it after *)
(* the replay; the step that appends it puts it into the file that stays.  *)
Stays(l) == Accounted(l)' \/ (run = "done" /\ run' = "done" /\ l \in Range(disk'))

(* The collector only adds to the channel and to what it skipped.          *)
LEMMA StaysReplay ==
    ASSUME TypeOK, Replayed, Replay, NEW l, Accounted(l)
    PROVE  Accounted(l)'
  <1>1. UNCHANGED <<held, stored, returned, forgotten>>
    BY DEF Replay, OpenFile, ReadLongLine, ReadEOF, EnqueueLine, SkipLine,
           QuitReplay, RemoveFile, workers, history
  <1>2. skipped \subseteq skipped'
    BY DEF Replay, OpenFile, ReadLongLine, ReadEOF, EnqueueLine, SkipLine,
           QuitReplay, RemoveFile, history
  <1>3. CASE EnqueueLine
    <2>1. Head(disk) \in Lines
      BY <1>3, NextLineForm DEF EnqueueLine
    <2>2. Range(jobs') = Range(jobs) \cup {Head(disk)}
      BY <1>3, <2>1, RangeAppend DEF EnqueueLine, TypeOK
    <2> QED BY <1>1, <1>2, <2>2 DEF Accounted
  <1>4. CASE jobs' = jobs
    BY <1>1, <1>2, <1>4 DEF Accounted
  <1> QED BY <1>3, <1>4 DEF Replay, OpenFile, ReadLongLine, ReadEOF, SkipLine,
           QuitReplay, RemoveFile, chan

LEMMA StaysWorker ==
    ASSUME TypeOK, Dumpers, NEW w \in Workers, Worker(w), NEW l, Accounted(l)
    PROVE  Stays(l)
  <1> USE DEF Stays, Accounted, TypeOK, history, chan
  <1>1. CASE Receive(w)
    <2>1. Range(jobs) = {Head(jobs)} \cup Range(jobs')
      BY <1>1, RangeTail DEF Receive
    <2>2. Range(held'[w]) = Range(held[w]) \cup {Head(jobs)}
      BY <1>1, RangeAppend, HeadTailProperties, EmptySeq DEF Receive
    <2>3. \A v \in Workers \ {w} : held'[v] = held[v]
      BY <1>1 DEF Receive
    <2> QED BY <1>1, <2>1, <2>2, <2>3 DEF Receive
  <1>2. CASE Store(w)
    BY <1>2 DEF Store
  <1>3. CASE GiveUp(w)
    <2>1. CASE UNCHANGED <<held, jobs>>
      BY <1>3, <2>1 DEF GiveUp
    <2>2. CASE held' = [held EXCEPT ![w] = @ \o jobs]
      <3>1. Range(held'[w]) = Range(held[w]) \cup Range(jobs)
        BY <2>2, RangeConcatenation
      <3>2. \A v \in Workers \ {w} : held'[v] = held[v]
        BY <2>2
      <3> QED BY <1>3, <3>1, <3>2 DEF GiveUp
    <2> QED BY <1>3, <2>1, <2>2 DEF GiveUp
  <1>4. CASE StatDump(w)
    BY <1>4 DEF StatDump
  <1>5. CASE CreateDump(w)
    BY <1>5 DEF CreateDump
  <1>6. CASE OpenDump(w)
    <2>1. CASE inode # 0
      BY <1>6, <2>1 DEF OpenDump
    <2>2. CASE inode = 0
      <3>1. Range(held[w]) \subseteq returned
        BY <1>6, <2>2 DEF OpenDump, Dumpers, Dumper
      <3>2. \A v \in Workers \ {w} : held'[v] = held[v]
        BY <1>6, <2>2 DEF OpenDump
      <3> QED BY <1>6, <2>2, <3>1, <3>2 DEF OpenDump
    <2> QED BY <2>1, <2>2
  <1>7. CASE WriteLine(w)
    <2>1. Range(held[w]) = {Head(held[w])} \cup Range(held'[w])
      BY <1>7, RangeTail DEF WriteLine
    <2>2. \A v \in Workers \ {w} : held'[v] = held[v]
      BY <1>7 DEF WriteLine
    <2>3. UNCHANGED <<jobs, stored, skipped, returned, forgotten, run>>
      BY <1>7 DEF WriteLine, collector
    <2>4. CASE Range(held[w]) \subseteq returned
      BY <2>1, <2>2, <2>3, <2>4
    <2>5. CASE run = "done" /\ fd[w] = inode
      <3>1. Range(disk') = Range(disk) \cup {Head(held[w])}
        BY <1>7, <2>5, RangeAppend, HeadTailProperties, EmptySeq DEF WriteLine
      <3> QED BY <2>1, <2>2, <2>3, <2>5, <3>1
    <2> QED BY <1>7, <2>4, <2>5 DEF WriteLine, Dumpers, Dumper
  <1>8. CASE CloseDump(w)
    BY <1>8 DEF CloseDump
  <1>9. CASE QuitWorker(w)
    BY <1>9 DEF QuitWorker
  <1> QED BY <1>1, <1>2, <1>3, <1>4, <1>5, <1>6, <1>7, <1>8, <1>9 DEF Worker

LEMMA StaysOthers ==
    ASSUME TypeOK, NEW l, Accounted(l),
           Main \/ (\E r \in Lines : EnqueueFresh(r)) \/ End \/ Start \/ Terminated \/ UNCHANGED vars
    PROVE  Accounted(l)'
  <1> USE DEF Accounted, TypeOK, history, chan, workers
  <1>1. CASE Main \/ Start \/ Terminated \/ UNCHANGED vars
    BY <1>1 DEF Main, WaitForDumpfileCollector, StopDump, StopDumpReturns, TargetStopped,
                Start, Terminated, vars
  <1>2. CASE \E r \in Lines : EnqueueFresh(r)
    <2>1. Range(jobs) \subseteq Range(jobs')
      BY <1>2, RangeAppend DEF EnqueueFresh
    <2> QED BY <1>2, <2>1 DEF EnqueueFresh
  <1>3. CASE End
    BY <1>3, InMemoryForm DEF End
  <1> QED BY <1>1, <1>2, <1>3

LEMMA StaysStep ==
    ASSUME IndInv, [Next]_vars, NEW l, Accounted(l)
    PROVE  Stays(l)
  BY StaysReplay, StaysWorker, StaysOthers DEF IndInv, Next, Stays

-----------------------------------------------------------------------------
(* What the collector has behind it *)

(* The steps that are not the collector's leave it where it is.  The file  *)
(* only grows then, and only by what a worker writes that knows of a       *)
(* replay, if there is one.                                                *)
LEMMA FileGrows ==
    ASSUME IndInv, [Next]_vars, ~Replay, ~End
    PROVE  /\ UNCHANGED <<run, read>> /\ returned \subseteq returned'
           /\ Range(disk) \subseteq Range(disk')
           /\ run # "done" => Range(disk') \subseteq Range(disk) \cup returned
           /\ inode # 0 => inode' = inode
  <1> USE DEF IndInv, TypeOK
  <1>1. CASE \E w \in Workers : WriteLine(w)
    <2>1. PICK w \in Workers : WriteLine(w)
      BY <1>1
    <2>2. UNCHANGED <<inode, run, read, returned>>
      BY <2>1 DEF WriteLine, collector, history
    <2>3. CASE fd[w] = inode
      <3>1. Head(held[w]) \in Lines /\ disk' = Append(disk, Head(held[w]))
        BY <2>1, <2>3, HeadTailProperties, EmptySeq DEF WriteLine
      <3>2. Range(disk') = Range(disk) \cup {Head(held[w])}
        BY <3>1, RangeAppend
      <3>3. Head(held[w]) \in Range(held[w])
        BY <2>1, RangeTail DEF WriteLine
      <3>4. run # "done" => Head(held[w]) \in returned
        BY <2>1, <3>3 DEF WriteLine, Dumpers, Dumper
      <3> QED BY <2>2, <3>2, <3>4
    <2>4. CASE fd[w] # inode
      BY <2>1, <2>2, <2>4 DEF WriteLine
    <2> QED BY <2>3, <2>4
  <1>2. CASE \E w \in Workers : CreateDump(w)
    BY <1>2 DEF CreateDump, Dumpers, Dumper, collector, history
  <1>3. CASE \E w \in Workers : Worker(w)
    BY <1>1, <1>2, <1>3 DEF Worker, Receive, Store, GiveUp, StatDump, OpenDump, CloseDump,
                     QuitWorker, file, collector, history
  <1>4. CASE Main \/ (\E r \in Lines : EnqueueFresh(r)) \/ Start \/ Terminated \/ UNCHANGED vars
    BY <1>4 DEF Main, WaitForDumpfileCollector, StopDump, StopDumpReturns, TargetStopped,
                EnqueueFresh, Start, Terminated, vars, file, collector, history
  <1> QED BY <1>3, <1>4 DEF Next

(* The line the collector deals with is accounted for afterwards.          *)
LEMMA ReplayedReplay ==
    ASSUME IndInv, Replay
    PROVE  Replayed'
  <1> USE DEF IndInv
  <1>1. CASE OpenFile
    BY <1>1 DEF OpenFile, Replayed, file, Range
  <1>2. CASE ReadLongLine
    BY <1>2 DEF ReadLongLine, Replayed
  <1>3. CASE ReadEOF
    <2>1. \A l \in Range(read) : Accounted(l)'
      BY <1>3, StaysReplay DEF ReadEOF, Replayed
    <2>2. Range(disk) = {}
      BY <1>3 DEF ReadEOF, Range
    <2> QED BY <1>3, <2>1, <2>2 DEF ReadEOF, Replayed, file
  <1>4. CASE EnqueueLine
    <2>1. \A l \in Range(read) : Accounted(l)'
      BY <1>4, StaysReplay DEF EnqueueLine, LineRead, Replayed
    <2>2. Head(disk) \in Lines /\ inode # 0 /\ Range(read') = Range(read) \cup {Head(disk)}
      BY <1>4, NextLineForm DEF EnqueueLine
    <2>3. Head(disk) \in Range(jobs')
      BY <1>4, <2>2, RangeAppend DEF EnqueueLine, TypeOK
    <2>4. ASSUME NEW l, l = Head(disk) PROVE Accounted(l)'
      BY <2>3, <2>4 DEF Accounted
    <2>5. \A l \in Range(read') : Accounted(l)'
      BY <2>1, <2>2, <2>4
    <2>6. run' = "read" /\ inode' = inode
      BY <1>4 DEF EnqueueLine, LineRead, collector
    <2> QED BY <2>2, <2>5, <2>6 DEF Replayed
  <1>5. CASE SkipLine
    <2>1. \A l \in Range(read) : Accounted(l)'
      BY <1>5, StaysReplay DEF SkipLine, LineRead, Replayed
    <2>2. inode # 0 /\ Range(read') = Range(read) \cup {Head(disk)}
      BY <1>5, NextLineForm DEF SkipLine
    <2>3. Head(disk) \in skipped'
      BY <1>5 DEF SkipLine
    <2>4. ASSUME NEW l, l = Head(disk) PROVE Accounted(l)'
      BY <2>3, <2>4 DEF Accounted
    <2>5. \A l \in Range(read') : Accounted(l)'
      BY <2>1, <2>2, <2>4
    <2>6. run' = "read" /\ inode' = inode
      BY <1>5 DEF SkipLine, LineRead, collector
    <2> QED BY <2>2, <2>5, <2>6 DEF Replayed
  <1>6. CASE QuitReplay
    BY <1>6 DEF QuitReplay, Replayed
  <1>7. CASE RemoveFile
    BY <1>7 DEF RemoveFile, Replayed
  <1> QED BY <1>1, <1>2, <1>3, <1>4, <1>5, <1>6, <1>7 DEF Replay

(* What a worker appends now is known to be returned.                      *)
LEMMA ReplayedOthers ==
    ASSUME IndInv, [Next]_vars, ~Replay, ~End
    PROVE  Replayed'
  <1>1. /\ UNCHANGED <<run, read>> /\ returned \subseteq returned'
        /\ run # "done" => Range(disk') \subseteq Range(disk) \cup returned
        /\ inode # 0 => inode' = inode
    BY FileGrows
  <1>2. CASE run \in {"read", "remove"}
    <2>1. inode # 0 /\ \A l \in Range(read) : Accounted(l)
      BY <1>2 DEF IndInv, Replayed
    <2>2. \A l \in Range(read) : Accounted(l)'
      BY <1>2, <2>1, StaysStep DEF Stays
    <2>3. run = "remove" => Range(disk') \subseteq returned'
      BY <1>1 DEF IndInv, Replayed
    <2> QED BY <1>1, <1>2, <2>1, <2>2, <2>3 DEF Replayed
  <1>3. CASE run \notin {"read", "remove"}
    BY <1>1, <1>3 DEF IndInv, Replayed
  <1> QED BY <1>2, <1>3

LEMMA ReplayedStep == IndInv /\ [Next]_vars => Replayed'
  <1>1. ASSUME End PROVE Replayed'
    BY <1>1 DEF End, ClearMemory, Replayed
  <1> QED BY <1>1, ReplayedReplay, ReplayedOthers

-----------------------------------------------------------------------------
(* Losses need a cause *)

(* Only the removal takes lines out of the file.                           *)
LEMMA FileKept ==
    ASSUME IndInv, [Next]_vars, ~RemoveFile
    PROVE  Range(read) \cup Range(disk) \subseteq Range(read') \cup Range(disk')
  <1>1. CASE EnqueueLine \/ SkipLine
    BY <1>1, NextLineForm DEF IndInv, EnqueueLine, SkipLine
  <1>2. CASE OpenFile \/ ReadLongLine \/ ReadEOF \/ QuitReplay
    BY <1>2 DEF OpenFile, ReadLongLine, ReadEOF, QuitReplay, file
  <1>3. CASE End
    BY <1>3, RangeConcatenation DEF End, IndInv, TypeOK
  <1>4. CASE ~Replay /\ ~End
    BY <1>4, FileGrows
  <1> QED BY <1>1, <1>2, <1>3, <1>4 DEF Replay

LEMMA LossStep == IndInv /\ [Next]_vars => LossNeedsCause'
  <1> SUFFICES ASSUME IndInv, [Next]_vars, NEW l \in Known'
               PROVE  Accounted(l)' \/ l \in Range(read') \cup Range(disk')
    BY LossForm DEF Accounted, Known, LossNeedsCause, Kept, InMemory
  <1>1. l \in Known \/ l \in Range(jobs')
    <2>1. CASE fresh' = fresh
      BY <2>1 DEF Known
    <2>2. CASE \E r \in Lines : EnqueueFresh(r)
      BY <2>2, RangeAppend DEF EnqueueFresh, Known, IndInv, TypeOK
    <2> QED BY <2>1, <2>2 DEF Next, Replay, OpenFile, ReadLongLine, ReadEOF, EnqueueLine,
              SkipLine, QuitReplay, RemoveFile, Worker, Receive, Store, GiveUp, StatDump,
              CreateDump, OpenDump, WriteLine, CloseDump, QuitWorker, Main,
              WaitForDumpfileCollector, StopDump, StopDumpReturns, TargetStopped, End, Start,
              Terminated, vars, chan
  <1>2. CASE l \in Range(jobs')
    BY <1>2 DEF Accounted
  <1>3. CASE Accounted(l)
    BY <1>3, StaysStep DEF Stays
  <1>4. CASE l \in Range(read) \cup Range(disk)
    <2>1. CASE RemoveFile
      <3>1. Accounted(l)
        BY <1>4, <2>1 DEF RemoveFile, IndInv, Replayed, Accounted
      <3> QED BY <1>3, <3>1
    <2>2. CASE ~RemoveFile
      BY <1>4, <2>2, FileKept
    <2> QED BY <2>1, <2>2
  <1> QED BY <1>1, <1>2, <1>3, <1>4, LossForm DEF IndInv

-----------
(* Results *)

LEMMA IndInvInit == Init => IndInv
  <1> SUFFICES ASSUME Init PROVE IndInv
    OBVIOUS
  <1>1. LossNeedsCause
    BY DEF Init, LossNeedsCause, Known, Kept
  <1>2. Replayed /\ Dumpers /\ Token
    BY DEF Init, Replayed, Dumpers, Dumper, Token
  <1> QED BY <1>1, <1>2, TypeInit DEF IndInv

LEMMA IndInvStep == IndInv /\ [Next]_vars => IndInv'
  BY TypeStep, LossStep, ReplayedStep, DumpersStep, TokenStep DEF IndInv

LEMMA Invariance == Spec => []IndInv
  BY IndInvInit, IndInvStep, PTL DEF Spec

(* Every variable stays in its range: in particular the channel within its *)
(* capacity, quit within one token, and the lines without a file none.       *)
THEOREM TypeCorrect == Spec => []TypeOK
  <1>1. IndInv => TypeOK
    BY DEF IndInv
  <1> QED BY <1>1, Invariance, PTL

(* However often the process ends and whatever the workers append, a line  *)
(* disappears for one of the three reasons only.                           *)
THEOREM LossesHaveACause == Spec => []LossNeedsCause
  <1>1. IndInv => LossNeedsCause
    BY DEF IndInv
  <1> QED BY <1>1, Invariance, PTL

=============================================================================
