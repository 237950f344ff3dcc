------------------------- MODULE LivestatusCollector -------------------------
(***************************************************************************)
(* The collector of notifications, comments and downtimes                  *)
(* (src/collector/livestatus/Collector.go).  run asks Livestatus in rounds *)
(* with a pause of Interval between them; every round has one requester    *)
(* for each kind of event, which asks for the events younger than Window   *)
(* and hands them to queryData, which puts them into the channel of every  *)
(* target and waits for room without a time-out.                           *)
(*                                                                         *)
(* Time is discrete and kept as ages: of the events, of the last complete  *)
(* answer.  Steps take any time.  An event stays in Livestatus.            *)
(***************************************************************************)
EXTENDS Naturals

CONSTANTS
    Events,     \* what may be entered into Livestatus
    Kinds,      \* the queries of a round
    KindOf,     \* the query that finds an event
    Ignored,    \* the events whose line has no use (suppressed, wrong length)
    NoEvent,
    Targets,    \* keys of jobs
    QueueCap,   \* capacity of a target's channel (Main.BufferSize)
    Interval,   \* intervalToCheckLivestatus
    Window      \* how far a query looks back, 150 percent of Interval

ASSUME EventsAssumption ==
    /\ KindOf \in [Events -> Kinds] /\ Ignored \subseteq Events /\ NoEvent \notin Events
ASSUME NumbersAssumption ==
    QueueCap \in Nat \ {0} /\ Interval \in Nat \ {0} /\ Window \in Nat \ {0}

VARIABLES
    \* Livestatus: its events and their ages (Window: too old for a query)
    entered, age,
    \* the requesters: where they are, the events the query excludes, the
    \* lines that were not read yet, the printable in hand
    req, excluded, lines, hand,
    \* queryData and run: where it is, the job, the targets that have not had
    \* it, and what is left of the pause
    run, job, todo, timer,
    \* how full the channels of the targets are
    filled,
    \* Stop: where it is, and the tokens in quit
    stop, quit,
    \* history: copies a target got, the events in some answer, per kind the
    \* time since the last complete answer (since the start, if none) and
    \* whether a query came too late for that
    copies, fetched, since, late

livestatus == <<entered, age>>
requesters == <<req, excluded, lines, hand>>
reader     == <<run, job, todo, timer>>
stopping   == <<stop, quit>>
history    == <<copies, fetched, since, late>>
vars == <<livestatus, requesters, reader, filled, stopping, history>>

-----------------------------------------------------------------------------
TypeOK ==
    /\ entered \subseteq Events /\ age \in [Events -> 0..Window]
    /\ req \in [Kinds -> {"off", "start", "asked", "lines", "give"}]
    /\ excluded \in [Kinds -> SUBSET entered] /\ lines \in [Kinds -> SUBSET fetched]
    /\ hand \in [Kinds -> Events \cup {NoEvent}]
    /\ run \in {"query", "deliver", "select", "ack", "stopped"}
    /\ job \in Events \cup {NoEvent} /\ todo \subseteq Targets /\ timer \in 0..Interval
    /\ filled \in [Targets -> 0..QueueCap]
    /\ stop \in {"none", "wait", "done"} /\ quit \in 0..1
    /\ copies \in [Events \X Targets -> Nat] /\ fetched \subseteq entered
    /\ since \in [Kinds -> 0..Window] /\ late \in [Kinds -> BOOLEAN]

Init ==
    /\ entered = {} /\ age = [e \in Events |-> 0]
    /\ req = [k \in Kinds |-> "start"]
    /\ excluded = [k \in Kinds |-> {}] /\ lines = [k \in Kinds |-> {}]
    /\ hand = [k \in Kinds |-> NoEvent]
    /\ run = "query" /\ job = NoEvent /\ todo = {} /\ timer = 0
    /\ filled = [t \in Targets |-> 0]
    /\ stop = "none" /\ quit = 0
    /\ copies = [d \in Events \X Targets |-> 0] /\ fetched = {}
    /\ since = [k \in Kinds |-> 0] /\ late = [k \in Kinds |-> FALSE]

-----------------------------------------------------------------------------
(* Time, Livestatus, and the targets                                       *)

Older(n) == IF n < Window THEN n + 1 ELSE n

Tick ==
    /\ age' = [e \in Events |-> IF e \in entered THEN Older(age[e]) ELSE 0]
    /\ since' = [k \in Kinds |-> Older(since[k])]
    /\ timer' = IF timer > 0 THEN timer - 1 ELSE 0
    /\ UNCHANGED <<entered, requesters, run, job, todo, filled, stopping, copies, fetched, late>>

Enter(e) ==
    /\ e \notin entered
    /\ entered' = entered \cup {e}
    /\ UNCHANGED <<age, requesters, reader, filled, stopping, history>>

Consume(t) ==
    /\ filled[t] > 0
    /\ filled' = [filled EXCEPT ![t] = @ - 1]
    /\ UNCHANGED <<livestatus, requesters, reader, stopping, history>>

(* Another collector feeds the channel.                                    *)
Fill(t) ==
    /\ filled[t] < QueueCap
    /\ filled' = [filled EXCEPT ![t] = @ + 1]
    /\ UNCHANGED <<livestatus, requesters, reader, stopping, history>>

-----------------------------------------------------------------------------
(* requestPrintablesFromLivestatus and connectToLivestatus, one per kind   *)

Goto(k, l) == req' = [req EXCEPT ![k] = l]

(* Slip: a query looks back one interval only.                             *)
StartShortQuery(k) ==
    /\ req[k] = "start"
    /\ excluded' = [excluded EXCEPT ![k] = {e \in entered : age[e] >= Interval}]
    /\ late' = [late EXCEPT ![k] = @ \/ since[k] >= Window]
    /\ Goto(k, "asked")
    /\ UNCHANGED <<livestatus, lines, hand, reader, filled, stopping, copies, fetched, since>>

(* addTimestampToLivestatusQuery: entry_time > now - Window.               *)
StartQuery(k) ==
    /\ req[k] = "start"
    /\ excluded' = [excluded EXCEPT ![k] = {e \in entered : age[e] >= Window}]
    /\ late' = [late EXCEPT ![k] = @ \/ since[k] >= Window]
    /\ Goto(k, "asked")
    /\ UNCHANGED <<livestatus, lines, hand, reader, filled, stopping, copies, fetched, since>>

Matches(k) == {e \in entered \ excluded[k] : KindOf[e] = k}

(* The lines of the answer.                                                *)
Read(k, answer) ==
    /\ req[k] = "asked"
    /\ lines' = [lines EXCEPT ![k] = answer]
    /\ fetched' = fetched \cup answer
    /\ excluded' = [excluded EXCEPT ![k] = {}]
    /\ Goto(k, "lines")
    /\ UNCHANGED <<livestatus, hand, reader, filled, stopping, copies, late>>

Answer(k) == Read(k, Matches(k)) /\ since' = [since EXCEPT ![k] = 0]

(* There is no connection, or it breaks; the requester is told that it     *)
(* has all.                                                                *)
PartialAnswer(k) == UNCHANGED since /\ \E part \in SUBSET Matches(k) : Read(k, part)

(* case line := <-csv                                                      *)
ReadLine(k, e) ==
    /\ req[k] = "lines" /\ e \in lines[k]
    /\ lines' = [lines EXCEPT ![k] = @ \ {e}]
    /\ IF e \in Ignored THEN UNCHANGED <<req, hand>>
                        ELSE Goto(k, "give") /\ hand' = [hand EXCEPT ![k] = e]
    /\ UNCHANGED <<livestatus, excluded, reader, filled, stopping, history>>

-----------------------------------------------------------------------------
(* Collector.queryData and Collector.run                                   *)

(* case job := <-printables                                                *)
TakePrintable(k) ==
    /\ run = "query" /\ req[k] = "give"
    /\ Goto(k, "lines") /\ hand' = [hand EXCEPT ![k] = NoEvent]
    /\ IF Targets = {} THEN UNCHANGED <<run, job, todo>>
                       ELSE run' = "deliver" /\ job' = hand[k] /\ todo' = Targets
    /\ UNCHANGED <<livestatus, excluded, lines, timer, filled, stopping, history>>

(* Slip: the channel takes any number of jobs.                             *)
DeliverIntoFull(t) ==
    /\ run = "deliver" /\ t \in todo
    /\ filled' = [filled EXCEPT ![t] = @ + 1]
    /\ copies' = [copies EXCEPT ![<<job, t>>] = @ + 1]
    /\ todo' = todo \ {t}
    /\ IF todo = {t} THEN run' = "query" /\ job' = NoEvent ELSE UNCHANGED <<run, job>>
    /\ UNCHANGED <<livestatus, requesters, timer, stopping, fetched, since, late>>

(* Slip: a full channel does not get the job.                              *)
DeliverOrSkip(t) ==
    /\ run = "deliver" /\ t \in todo
    /\ IF filled[t] < QueueCap
         THEN /\ filled' = [filled EXCEPT ![t] = @ + 1]
              /\ copies' = [copies EXCEPT ![<<job, t>>] = @ + 1]
         ELSE UNCHANGED <<filled, copies>>
    /\ todo' = todo \ {t}
    /\ IF todo = {t} THEN run' = "query" /\ job' = NoEvent ELSE UNCHANGED <<run, job>>
    /\ UNCHANGED <<livestatus, requesters, timer, stopping, fetched, since, late>>

(* j <- job                                                                *)
Deliver(t) ==
    /\ run = "deliver" /\ t \in todo /\ filled[t] < QueueCap
    /\ filled' = [filled EXCEPT ![t] = @ + 1]
    /\ copies' = [copies EXCEPT ![<<job, t>>] = @ + 1]
    /\ todo' = todo \ {t}
    /\ IF todo = {t} THEN run' = "query" /\ job' = NoEvent ELSE UNCHANGED <<run, job>>
    /\ UNCHANGED <<livestatus, requesters, timer, stopping, fetched, since, late>>

(* Slip: the first requester that is ready ends the round.                 *)
FinishedEarly(k) ==
    /\ run = "query" /\ req[k] = "lines" /\ lines[k] = {}
    /\ Goto(k, "off")
    /\ run' = "select" /\ timer' = Interval
    /\ UNCHANGED <<livestatus, excluded, lines, hand, job, todo, filled, stopping, history>>

(* case <-finished: the connector has sent all lines, the requester        *)
(* returns; with the last one the round is over.                           *)
Finished(k) ==
    /\ run = "query" /\ req[k] = "lines" /\ lines[k] = {}
    /\ Goto(k, "off")
    /\ IF \A other \in Kinds \ {k} : req[other] = "off"
         THEN run' = "select" /\ timer' = Interval
         ELSE UNCHANGED <<run, timer>>
    /\ UNCHANGED <<livestatus, excluded, lines, hand, job, todo, filled, stopping, history>>

(* Slip: no pause between the rounds.                                      *)
NextRoundAtOnce ==
    /\ run = "select"
    /\ run' = "query" /\ req' = [k \in Kinds |-> "start"]
    /\ UNCHANGED <<livestatus, excluded, lines, hand, job, todo, timer, filled, stopping, history>>

(* case <-time.After(intervalToCheckLivestatus)                            *)
NextRound ==
    /\ run = "select" /\ timer = 0
    /\ run' = "query" /\ req' = [k \in Kinds |-> "start"]
    /\ UNCHANGED <<livestatus, excluded, lines, hand, job, todo, timer, filled, stopping, history>>

(* case <-live.quit                                                        *)
TakeToken ==
    /\ run = "select" /\ quit = 1
    /\ quit' = 0 /\ run' = "ack"
    /\ UNCHANGED <<livestatus, requesters, job, todo, timer, filled, stop, history>>

(* live.quit <- true; return                                               *)
PutTokenBack ==
    /\ run = "ack"
    /\ quit' = 1 /\ run' = "stopped"
    /\ UNCHANGED <<livestatus, requesters, job, todo, timer, filled, stop, history>>

StopPutsToken ==
    /\ stop = "none"
    /\ stop' = "wait" /\ quit' = 1
    /\ UNCHANGED <<livestatus, requesters, reader, filled, history>>

(* <-live.quit finds the token run has put back, or its own.               *)
StopTakesToken ==
    /\ stop = "wait" /\ quit = 1
    /\ stop' = "done" /\ quit' = 0
    /\ UNCHANGED <<livestatus, requesters, reader, filled, history>>

Request(k) == StartQuery(k) \/ \E e \in Events : ReadLine(k, e)

Loop == NextRound \/ PutTokenBack \/ \E k \in Kinds : TakePrintable(k) \/ Finished(k)

Next ==
    \/ Tick
    \/ \E e \in Events : Enter(e)
    \/ \E t \in Targets : Consume(t) \/ Fill(t) \/ Deliver(t)
    \/ \E k \in Kinds : Request(k) \/ Answer(k) \/ PartialAnswer(k)
    \/ Loop \/ TakeToken
    \/ StopPutsToken \/ StopTakesToken

Spec == Init /\ [][Next]_vars

(* Goroutines run when they can, and a send to a channel that has room     *)
(* again and again succeeds.                                               *)
FairSpec ==
    /\ Spec
    /\ \A k \in Kinds : WF_vars(Request(k))
    /\ WF_vars(Loop) /\ \A t \in Targets : SF_vars(Deliver(t))
    /\ WF_vars(StopTakesToken)

-----------------------------------------------------------------------------
(* Properties *)

Useful == fetched \ Ignored

(* The windows of the queries overlap: an event is missed only if a query  *)
(* was asked Window or more after the last complete answer.  What is not   *)
(* in an answer is younger than the last complete one.                     *)
NothingBetweenAnswers ==
    \A e \in entered \ fetched : late[KindOf[e]] \/ age[e] <= since[KindOf[e]]

(* The overlap costs copies: an event is in all queries that begin in the  *)
(* Window after its entry, and in one that was under way.                  *)
CopiesBounded == \A d \in DOMAIN copies : copies[d] <= 1 + (Window - 1) \div Interval

(* When a round is over, everything that Livestatus answered has been put  *)
(* into the channels of all targets.                                       *)
RoundIsComplete ==
    run \notin {"query", "deliver"} =>
        /\ \A e \in Useful, t \in Targets : copies[<<e, t>>] > 0
        /\ \A k \in Kinds : req[k] = "off" /\ lines[k] = {}

(* An event that was answered reaches every target while all of them read, *)
(* Stop or not: Stop does not wait for the round.                          *)
AnsweredIsDelivered ==
    (\A t \in Targets : []<>(filled[t] < QueueCap)) =>
        \A e \in Events, t \in Targets : e \in Useful ~> copies[<<e, t>>] > 0

=============================================================================
