------------------------------- MODULE Analyzer -------------------------------
(***************************************************************************)
(* Analyzer.analyze: claim the `analyzing' stage, detect the type and      *)
(* parse, hand over to `chunking'.  A worker that loses the claim to a     *)
(* duplicate further along re-parses without the exit write; its failure   *)
(* paths still write the ledger, and neither of them triages the write.    *)
(***************************************************************************)
EXTENDS Ingestion

\* The entry transition.
AnalyzeEnter(w) ==
    /\ At(w, "analyze")
    /\ transition(Doc(w), "analyzing", None, None)
    /\ \/ Accepted(Doc(w), "analyzing", None) /\ Goto(w, "parse")
       \/ Lost(Doc(w), "analyzing", None) /\ Goto(w, "parse_lost")
       \/ Rejected(Doc(w), "analyzing", None) /\ Finish(w, "ledger_invalid")
    /\ UNCHANGED <<index, registry, humanVars, queueVars>>

\* Detection and parsing succeed.
AnalyzeExit(w) ==
    /\ \/ At(w, "parse") /\ TriagedExit(w, "chunking", "chunk")
       \/ At(w, "parse_lost") /\ Goto(w, "chunk") /\ UNCHANGED rows
    /\ UNCHANGED <<index, registry, humanVars, queueVars>>

Parsing(w) == At(w, "parse") \/ At(w, "parse_lost")

\* _terminalize: unsupported type, no parser, or a missing dependency.
AnalyzeTerminalize(w) ==
    /\ Parsing(w)
    /\ UntriagedRaise(w, "failed", Permanent("analyzing"))
    /\ UNCHANGED <<index, registry, humanVars, queueVars>>

\* _self_transition_and_raise: the parser timed out or raised.
AnalyzeTransient(w) ==
    /\ Parsing(w)
    /\ Fault
    /\ UntriagedRaise(w, "analyzing", Transient("analyzing"))
    /\ UNCHANGED <<index, registry, humanVars, duplicates>>

=============================================================================
