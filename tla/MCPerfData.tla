----------------------------- MODULE MCPerfData -----------------------------
(* Lines of performance data for TLC: every combination of a prefix, a     *)
(* value and a label, and items whose minimum or maximum is malformed.     *)
EXTENDS PerfData

CONSTANTS p1, p2, l1, l2

Item(p, l, v) == [prefix |-> p, label |-> l, value |-> v, min |-> "none", max |-> "none"]

ItemsOfLines ==
    {Item(p, l, v) : p \in {NoPrefix, p1, p2}, l \in {l1, l2}, v \in {"number", "U", "text"}}
    \cup {[Item(p, l1, "number") EXCEPT !.min = "number", !.max = m] :
            p \in {NoPrefix, p2}, m \in {"number", "text"}}
    \cup {[Item(p2, l2, "U") EXCEPT !.min = "text"]}

=============================================================================
