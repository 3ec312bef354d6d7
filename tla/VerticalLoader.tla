---------------------------- MODULE VerticalLoader ----------------------------
(***************************************************************************)
(* VerticalLoader.load: resolve the document's scenario, first from the    *)
(* assignment a reviewer left on its ledger row, then from the envelope    *)
(* and the source mappings; park it for review when nothing resolves it.   *)
(***************************************************************************)
EXTENDS Ingestion

CONSTANTS
    Signals,          \* [scenario_id, vertical, source] of each doc's envelope
    SourceMappings,   \* VerticalLoaderConfig.source_mappings, in order
    VerticalOf,       \* the vertical of each scenario
    Disabled,         \* scenarios with enabled = False
    Deleted           \* scenarios deleted since they could be assigned

\* A rule has the sources its pattern matches in place of the pattern.
SourceMappingRule(glob, match, vertical) ==
    [glob |-> glob, match |-> match, vertical |-> vertical]

\* A mapping names a vertical that had an enabled scenario when the loader was
\* made; Disabled and Deleted hold what became of the scenarios since.
_validate_mappings ==
    \A i \in DOMAIN SourceMappings :
        \E s \in Scenarios : VerticalOf[s] = SourceMappings[i].vertical

ASSUME LoaderAssumption ==
    /\ DOMAIN Signals = Docs /\ DOMAIN VerticalOf = Scenarios
    /\ Disabled \subseteq Scenarios /\ Deleted \subseteq Scenarios
    /\ _validate_mappings

\* The scenarios get() and get_by_vertical() can answer with.
get(s) == {s} \cap (Scenarios \ Deleted)

get_by_vertical(v) == {s \in Scenarios \ (Deleted \cup Disabled) : VerticalOf[s] = v}

\* The first exact rule for the source, else the first glob that matches it.
_select_source_rule(source) ==
    LET matching == {i \in DOMAIN SourceMappings : source \in SourceMappings[i].match}
        exact == {i \in matching : ~SourceMappings[i].glob}
        First(S) == SourceMappings[CHOOSE i \in S : \A j \in S : i <= j]
    IN  IF exact # {} THEN First(exact)
        ELSE IF matching # {} THEN First(matching) ELSE None

\* A signal that is stated but leads to no scenario is SCENARIO_NOT_FOUND.
Stated(candidates) == IF candidates # {} THEN "resolved" ELSE "missing"

\* The most explicit signal decides: a human assignment outranks everything
\* the envelope and the configured mappings say.
resolve(d) ==
    LET assigned == IF rows[d] = None THEN None ELSE rows[d].assigned_scenario_id
        rule == _select_source_rule(Signals[d].source)
    IN  IF assigned # None THEN Stated(get(assigned))
        ELSE IF Signals[d].scenario_id # None THEN Stated(get(Signals[d].scenario_id))
        ELSE IF Signals[d].vertical # None THEN Stated(get_by_vertical(Signals[d].vertical))
        ELSE IF rule # None THEN Stated(get_by_vertical(rule.vertical))
        ELSE "unresolved"

Load(w) ==
    /\ At(w, "load")
    /\ \/ /\ resolve(Doc(w)) = "resolved"
          /\ Goto(w, "analyze")
       \/ /\ resolve(Doc(w)) = "missing"
          /\ Finish(w, "error")
       \/ /\ resolve(Doc(w)) = "unresolved"
          /\ IF ParkUnresolved THEN Goto(w, "park_record") ELSE Finish(w, "error")
    /\ UNCHANGED <<rows, index, registry, humanVars, queueVars>>

\* _park, first half: the parking metadata goes to the review registry.
ParkRecord(w) ==
    /\ At(w, "park_record")
    /\ registry' = registry \cup {Doc(w)}
    /\ Goto(w, "park")
    /\ UNCHANGED <<rows, index, humanVars, queueVars>>

\* _park, second half: the triaged ledger write, then VERTICAL_UNRESOLVED.
Park(w) ==
    /\ At(w, "park")
    /\ TriagedRaise(w, "needs_review", VERTICAL_UNRESOLVED)
    /\ UNCHANGED <<index, registry, humanVars, queueVars>>

=============================================================================
