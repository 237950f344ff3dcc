---------------------------- MODULE DowntimeCache ----------------------------
(***************************************************************************)
(* The cache that tells which host or service is in downtime since when    *)
(* (CacheBuilder.go and Cache.go in src/collector/livestatus).  Every 30   *)
(* seconds run asks Livestatus with three queries at once, builds a new    *)
(* cache from the rows and replaces the old one, also when the build was   *)
(* cut short by a time-out or a broken connection.                         *)
(*                                                                         *)
(* A key is a host or a service.  The start of a downtime is a number, the *)
(* later of start_time and entry_time; in the program it is a string, and  *)
(* the empty string of an unknown downtime is before all others.           *)
(*                                                                         *)
(* The collector of the same package (LivestatusCollector) has an init, a  *)
(* loop and a Stop as well; the names here are different, so that one      *)
(* module can extend both.                                                 *)
(***************************************************************************)
EXTENDS Naturals, FiniteSets, FiniteSetsExt

CONSTANTS
    Downtimes,
    Keys,       \* hosts and services
    Hosts,      \* the keys that the query for hosts finds
    KeyOf,      \* the key of a downtime
    MaxStart,
    Start       \* the start of a downtime

ASSUME DowntimesAssumption ==
    /\ Hosts \subseteq Keys /\ KeyOf \in [Downtimes -> Keys]
    /\ MaxStart \in Nat /\ Start \in [Downtimes -> 1..MaxStart] /\ IsFiniteSet(Downtimes)

(* downtimes[id] of an id without a row, and the entry of a key that is    *)
(* not in the cache: not in downtime at any time.                          *)
Unknown == 0
Absent == MaxStart + 1

KeyQueries == {"hosts", "services"}

VARIABLES
    \* Livestatus: what has become of a downtime
    state,
    \* the connectors: where they are, and the rows they have not sent yet
    conn, idRows, keyRows,
    \* run and createLivestatusCache: where it is, the ids in the map
    \* downtimes, and result
    builder, ids, result,
    \* downtimeCache
    cache,
    \* Stop: where it is, and the tokens in quit
    builderStop, builderQuit,
    \* history: nothing has disturbed this build, the published one and
    \* whatever followed it
    steady, exact

connectors      == <<conn, idRows, keyRows>>
building        == <<builder, ids, result>>
stoppingBuilder == <<builderStop, builderQuit>>
cacheVars == <<state, connectors, building, cache, stoppingBuilder, steady, exact>>

-----------------------------------------------------------------------------
Entries == [Keys -> Unknown..Absent]
Rows == Keys \X SUBSET Downtimes

CacheTypeOK ==
    /\ state \in [Downtimes -> {"none", "scheduled", "active"}]
    /\ conn \in [KeyQueries \cup {"downtimes"} -> {"asked", "rows", "off"}]
    /\ idRows \subseteq Downtimes /\ keyRows \in [KeyQueries -> SUBSET Rows]
    /\ builder \in {"downtimes", "keys", "publish", "select", "ack", "stopped"}
    /\ ids \subseteq Downtimes /\ result \in Entries /\ cache \in Entries
    /\ builderStop \in {"none", "wait", "done"} /\ builderQuit \in 0..1
    /\ steady \in BOOLEAN /\ exact \in BOOLEAN

NoEntries == [key \in Keys |-> Absent]

CacheInit ==
    /\ state = [d \in Downtimes |-> "none"]
    /\ conn = [q \in KeyQueries \cup {"downtimes"} |-> "asked"]
    /\ idRows = {} /\ keyRows = [q \in KeyQueries |-> {}]
    /\ builder = "downtimes" /\ ids = {} /\ result = NoEntries
    /\ cache = NoEntries
    /\ builderStop = "none" /\ builderQuit = 0
    /\ steady = TRUE /\ exact = FALSE

-----------------------------------------------------------------------------
(* Livestatus                                                              *)

Change(d, from, to) ==
    /\ state[d] \in from
    /\ state' = [state EXCEPT ![d] = to]
    /\ steady' = FALSE /\ exact' = FALSE
    /\ UNCHANGED <<connectors, building, cache, stoppingBuilder>>

Schedule(d) == Change(d, {"none"}, "scheduled")
Begin(d)    == Change(d, {"scheduled"}, "active")
End(d)      == Change(d, {"scheduled", "active"}, "none")

Known(key) == {d \in Downtimes : KeyOf[d] = key /\ state[d] # "none"}

(* scheduled_downtime_depth > 0                                            *)
InDowntime(key) == \E d \in Known(key) : state[d] = "active"

KeysOf(q) == IF q = "hosts" THEN Hosts ELSE Keys \ Hosts

(* The rows of the answers; a row has all downtimes of its key, begun or   *)
(* not.                                                                    *)
Ids == {d \in Downtimes : state[d] # "none"}
RowsOf(q) == {<<key, Known(key)>> : key \in {k \in KeysOf(q) : InDowntime(k)}}

-----------------------------------------------------------------------------
(* connectToLivestatus                                                     *)

Connected(q) ==
    /\ builder \in {"downtimes", "keys"} /\ conn[q] = "asked"
    /\ conn' = [conn EXCEPT ![q] = "rows"]
    /\ UNCHANGED <<state, building, cache, stoppingBuilder, exact>>

AnswerIds == Connected("downtimes") /\ idRows' = Ids /\ UNCHANGED <<keyRows, steady>>

AnswerKeys(q) ==
    /\ Connected(q) /\ keyRows' = [keyRows EXCEPT ![q] = RowsOf(q)]
    /\ UNCHANGED <<idRows, steady>>

(* No connection, or it breaks: the builder is told that this was all.     *)
BrokenIds ==
    /\ Connected("downtimes") /\ idRows' \in SUBSET Ids
    /\ steady' = FALSE /\ UNCHANGED keyRows

BrokenKeys(q) ==
    /\ Connected(q)
    /\ \E part \in SUBSET RowsOf(q) : keyRows' = [keyRows EXCEPT ![q] = part]
    /\ steady' = FALSE /\ UNCHANGED idRows

-----------------------------------------------------------------------------
(* createLivestatusCache                                                   *)

(* case downtimesLine := <-downtimeCsv                                     *)
ReadId(d) ==
    /\ builder = "downtimes" /\ d \in idRows
    /\ idRows' = idRows \ {d}
    /\ ids' = ids \cup {d}
    /\ UNCHANGED <<state, conn, keyRows, builder, result, cache, stoppingBuilder, steady, exact>>

(* case <-finishedDowntime                                                 *)
IdsFinished ==
    /\ builder = "downtimes" /\ conn["downtimes"] = "rows" /\ idRows = {}
    /\ conn' = [conn EXCEPT !["downtimes"] = "off"]
    /\ builder' = "keys"
    /\ UNCHANGED <<state, idRows, keyRows, ids, result, cache, stoppingBuilder, steady, exact>>

(* Slip: the newest start is kept.                                         *)
AddNewestDowntime(key, row) ==
    result' = [result EXCEPT ![key] =
                  Max((IF @ = Absent THEN {} ELSE {@}) \cup {IF d \in ids THEN Start[d] ELSE Unknown : d \in row})]

(* Cache.addDowntime for all ids of a row: the oldest start is kept.       *)
AddDowntimes(key, row) ==
    result' = [result EXCEPT ![key] = Min({@} \cup {IF d \in ids THEN Start[d] ELSE Unknown : d \in row})]

(* case hostService := <-hostServiceCsv                                    *)
ReadKey(q, row) ==
    /\ builder = "keys" /\ row \in keyRows[q]
    /\ keyRows' = [keyRows EXCEPT ![q] = @ \ {row}]
    /\ AddDowntimes(row[1], row[2])
    /\ UNCHANGED <<state, conn, idRows, builder, ids, cache, stoppingBuilder, steady, exact>>

(* Slip: the first query that is ready ends the build.                     *)
KeysFinishedOnce(q) ==
    /\ builder = "keys" /\ conn[q] = "rows" /\ keyRows[q] = {}
    /\ conn' = [conn EXCEPT ![q] = "off"]
    /\ builder' = "publish"
    /\ UNCHANGED <<state, idRows, keyRows, ids, result, cache, stoppingBuilder, steady, exact>>

(* case <-finished, of either query for keys.                              *)
KeysFinished(q) ==
    /\ builder = "keys" /\ conn[q] = "rows" /\ keyRows[q] = {}
    /\ conn' = [conn EXCEPT ![q] = "off"]
    /\ builder' = IF \A other \in KeyQueries \ {q} : conn[other] = "off" THEN "publish" ELSE "keys"
    /\ UNCHANGED <<state, idRows, keyRows, ids, result, cache, stoppingBuilder, steady, exact>>

(* case <-time.After(10 seconds): what there is is returned, and the       *)
(* connectors are left alone for good.                                     *)
Timeout ==
    /\ builder \in {"downtimes", "keys"}
    /\ builder' = "publish" /\ steady' = FALSE
    /\ UNCHANGED <<state, connectors, ids, result, cache, stoppingBuilder, exact>>

-----------------------------------------------------------------------------
(* CacheBuilder.run and Stop                                               *)

Publish ==
    /\ builder = "publish"
    /\ cache' = result /\ exact' = steady
    /\ builder' = "select"
    /\ UNCHANGED <<state, connectors, ids, result, stoppingBuilder, steady>>

(* Slip: the old cache is extended.                                        *)
StartBuildOnOldCache ==
    /\ builder = "select"
    /\ builder' = "downtimes" /\ ids' = {} /\ result' = cache
    /\ conn' = [q \in KeyQueries \cup {"downtimes"} |-> "asked"]
    /\ idRows' = {} /\ keyRows' = [q \in KeyQueries |-> {}]
    /\ steady' = TRUE
    /\ UNCHANGED <<state, cache, stoppingBuilder, exact>>

(* case <-time.After(checkInterval): a build with new channels and maps.   *)
StartBuild ==
    /\ builder = "select"
    /\ builder' = "downtimes" /\ ids' = {} /\ result' = NoEntries
    /\ conn' = [q \in KeyQueries \cup {"downtimes"} |-> "asked"]
    /\ idRows' = {} /\ keyRows' = [q \in KeyQueries |-> {}]
    /\ steady' = TRUE
    /\ UNCHANGED <<state, cache, stoppingBuilder, exact>>

BuilderTakesToken ==
    /\ builder = "select" /\ builderQuit = 1
    /\ builderQuit' = 0 /\ builder' = "ack"
    /\ UNCHANGED <<state, connectors, ids, result, cache, builderStop, steady, exact>>

(* builder.quit <- true; return                                            *)
BuilderPutsTokenBack ==
    /\ builder = "ack"
    /\ builderQuit' = 1 /\ builder' = "stopped"
    /\ UNCHANGED <<state, connectors, ids, result, cache, builderStop, steady, exact>>

(* Slip: Stop fills the channel.                                           *)
StopPutsBuilderTokens ==
    /\ builderStop = "none"
    /\ builderStop' = "wait" /\ builderQuit' = 2
    /\ UNCHANGED <<state, connectors, building, cache, steady, exact>>

StopPutsBuilderToken ==
    /\ builderStop = "none"
    /\ builderStop' = "wait" /\ builderQuit' = 1
    /\ UNCHANGED <<state, connectors, building, cache, steady, exact>>

(* <-builder.quit finds the token run has put back, or its own.            *)
StopTakesBuilderToken ==
    /\ builderStop = "wait" /\ builderQuit = 1
    /\ builderStop' = "done" /\ builderQuit' = 0
    /\ UNCHANGED <<state, connectors, building, cache, steady, exact>>

Build ==
    \/ \E d \in Downtimes : ReadId(d)
    \/ \E q \in KeyQueries : KeysFinished(q) \/ \E row \in keyRows[q] : ReadKey(q, row)
    \/ IdsFinished \/ Timeout \/ Publish \/ StartBuild \/ BuilderPutsTokenBack

CacheNext ==
    \/ \E d \in Downtimes : Schedule(d) \/ Begin(d) \/ End(d)
    \/ AnswerIds \/ BrokenIds
    \/ \E q \in KeyQueries : AnswerKeys(q) \/ BrokenKeys(q)
    \/ Build \/ BuilderTakesToken
    \/ StopPutsBuilderToken \/ StopTakesBuilderToken

CacheSpec == CacheInit /\ [][CacheNext]_cacheVars

FairCacheSpec == CacheSpec /\ WF_cacheVars(Build) /\ WF_cacheVars(StopTakesBuilderToken)

-----------------------------------------------------------------------------
(* Properties *)

(* CacheBuilder.IsServiceInDowntime                                        *)
IsServiceInDowntime(key, time) == cache[key] <= time

(* What the collectors should be told: a key in downtime has the start of  *)
(* its first downtime, scheduled or begun.                                 *)
Truth(key, time) == InDowntime(key) /\ \E d \in Known(key) : Start[d] <= time

(* A build that neither Livestatus nor the connections have disturbed      *)
(* tells the truth, until a downtime changes.                              *)
SteadyBuildIsExact ==
    exact => \A key \in Keys, time \in Unknown..MaxStart : IsServiceInDowntime(key, time) <=> Truth(key, time)

Trouble == Timeout \/ BrokenIds \/ \E q \in KeyQueries : BrokenKeys(q)

(* A downtime that lasts gets into the cache if the troubles end, and      *)
(* stays there.                                                            *)
DowntimeIsNoticed ==
    \A d \in Downtimes :
        <>[](state[d] = "active" /\ builderStop = "none") /\ <>[][~Trouble]_cacheVars =>
            <>[]IsServiceInDowntime(KeyOf[d], Start[d])

(* The end of a downtime is noticed in any case: a build that fails leaves *)
(* keys out.                                                               *)
EndIsNoticed ==
    \A key \in Keys :
        <>[](~InDowntime(key) /\ builderStop = "none") =>
            <>[](\A time \in Unknown..MaxStart : ~IsServiceInDowntime(key, time))

=============================================================================
