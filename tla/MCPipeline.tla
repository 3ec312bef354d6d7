------------------------------ MODULE MCPipeline ------------------------------
(* Small instances of Pipeline. *)
EXTENDS Pipeline, TLC

CONSTANTS v1, s1

\* v2 of a document is shorter than v1, whose last batch of two is short.
MCNumChunks == [v \in Versions |-> IF v = v1 THEN 3 ELSE 1]

\* s1 is of the vertical hr, any other scenario of legal.
MCVerticalOf == [s \in Scenarios |-> IF s = s1 THEN "hr" ELSE "legal"]

\* A glob over two sources and, listed after it, an exact rule for one of them.
Mappings == << SourceMappingRule(TRUE, {"blob:hr-1", "blob:hr-2"}, "legal"),
               SourceMappingRule(FALSE, {"blob:hr-2"}, "hr") >>

Signal(scenario_id, vertical, source) ==
    [scenario_id |-> scenario_id, vertical |-> vertical, source |-> source]

ByMapping == [d \in Docs |-> Signal(None, None, "blob:hr-2")]
ByScenario == [d \in Docs |-> Signal(s1, None, "mail")]
NoSignal == [d \in Docs |-> Signal(None, None, "mail")]

\* Operators, and reviewers, are interchangeable.
HumanSymmetry == Permutations(Operators) \cup Permutations(Reviewers)

=============================================================================
