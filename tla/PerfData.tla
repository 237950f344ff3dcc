------------------------------ MODULE PerfData ------------------------------
(***************************************************************************)
(* How a worker makes records of one line of performance data              *)
(* (PerformanceDataIterator in                                             *)
(* src/collector/spoolfile/nagiosSpoolfileWorker.go, used for spool files  *)
(* and for Mod-Gearman jobs).                                              *)
(*                                                                         *)
(* An item is what regexPerformancelable matches: a label, that is a       *)
(* check_multi prefix and the rest, and a value, minimum and maximum that  *)
(* are numbers or digits that are none.  The thresholds are left out: what *)
(* rangeRegex finds in them is written unchecked, so that such a record    *)
(* can be one of the Bad ones of InfluxTarget, but it never decides about  *)
(* the item.  So are tags, fields and filters.                             *)
(*                                                                         *)
(* What NagiosSpool has, too, has another name here, so that one module    *)
(* can extend both.                                                        *)
(***************************************************************************)
EXTENDS Naturals, Sequences, FiniteSets, SequencesExt, FiniteSetsExt

CONSTANTS
    PerfItems,    \* what may stand between two spaces of the line
    MaxPerfItems, \* bound on the items of a line
    NoPrefix      \* getCheckMultiRegexMatch finds nothing

ASSUME MaxPerfItemsAssumption == MaxPerfItems \in Nat

VARIABLES
    line,       \* known: DATATYPE is known; items
    next,       \* the item the loop is at
    prefix,     \* currentCheckMultiLabel
    out         \* the records sent into the channel ch

parserVars == <<line, next, prefix, out>>

Lines == [known : BOOLEAN, items : BoundedSeq(PerfItems, MaxPerfItems)]

(* The prefix of the first item decides whether prefixes are used at all.  *)
ParserInit ==
    /\ line \in Lines
    /\ next = 1
    /\ prefix = IF line.items = <<>> THEN NoPrefix ELSE line.items[1].prefix
    /\ out = <<>>

-----------------------------------------------------------------------------
(* The item is dropped as a whole when one of its numbers is none.         *)
Malformed(i) == "text" \in {i.value, i.min, i.max}

(* Slip: a prefix is only remembered with an item that is sent.            *)
NewPrefixOfSent(i) == IF prefix = NoPrefix \/ i.prefix = NoPrefix \/ Malformed(i)
                      THEN prefix ELSE i.prefix

(* What goes in front of the next labels that have no prefix; an item that *)
(* is dropped can change it, too.                                          *)
NewPrefix(i) == IF prefix = NoPrefix \/ i.prefix = NoPrefix THEN prefix ELSE i.prefix

(* A label keeps the prefix it has itself.                                 *)
Record(i) == [prefix |-> IF i.prefix = NoPrefix THEN prefix ELSE i.prefix, label |-> i.label]

(* One round of the loop over perfSlice: remember the prefix and send the  *)
(* record, or continue with the next item.                                 *)
NextPerfItem ==
    /\ line.known /\ next <= Len(line.items)
    /\ LET i == line.items[next] IN
          /\ prefix' = NewPrefix(i)
          /\ out' = IF Malformed(i) THEN out ELSE Append(out, Record(i))
    /\ next' = next + 1
    /\ UNCHANGED line

(* ch is closed: at once when findType does not know the line.             *)
Closed == ~line.known \/ next > Len(line.items)

ParserDone == Closed /\ UNCHANGED parserVars

ParserNext == NextPerfItem \/ ParserDone

ParserSpec == ParserInit /\ [][ParserNext]_parserVars

-----------------------------------------------------------------------------
(* Properties *)

WellFormed == {n \in DOMAIN line.items : ~Malformed(line.items[n])}

(* The prefix the n-th item should have: that of the nearest item at or    *)
(* before it, when the line starts with one, and otherwise its own.        *)
ExpectedPrefix(n) ==
    IF line.items[1].prefix = NoPrefix THEN line.items[n].prefix
    ELSE line.items[Max({k \in 1..n : line.items[k].prefix # NoPrefix})].prefix

(* The place of the n-th item among the well-formed ones.                  *)
Rank(n) == Cardinality({m \in WellFormed : m <= n})

(* The iterator sends one record for each well-formed item, in the order   *)
(* of the line and under the label the check meant, whatever malformed     *)
(* items stand between them; a line of unknown type gives nothing.         *)
IteratorIsExact ==
    Closed => IF line.known
                THEN /\ Len(out) = Cardinality(WellFormed)
                     /\ \A n \in WellFormed :
                           /\ out[Rank(n)].label = line.items[n].label
                           /\ out[Rank(n)].prefix = ExpectedPrefix(n)
                ELSE out = <<>>

=============================================================================
