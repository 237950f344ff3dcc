\* Lines of up to three items, with and without a check_multi prefix, with
\* unknown values and malformed numbers in every place.
SPECIFICATION ParserSpec
CONSTANTS
    NoPrefix = NoPrefix
    p1 = p1
    p2 = p2
    l1 = l1
    l2 = l2
    PerfItems <- ItemsOfLines
    MaxPerfItems = 3
INVARIANTS
    IteratorIsExact
