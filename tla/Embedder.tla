------------------------------- MODULE Embedder -------------------------------
(***************************************************************************)
(* Embedder.embed: no entry write; one exit write to `indexing'.           *)
(***************************************************************************)
EXTENDS Ingestion

\* _transition_to_indexing
EmbedExit(w) ==
    /\ At(w, "embed")
    /\ TriagedExit(w, "indexing", "index")
    /\ UNCHANGED <<index, registry, humanVars, queueVars>>

\* _terminalize: no chunks, or a chunk above the adapter's max_input_tokens.
EmbedTerminalize(w) ==
    /\ At(w, "embed")
    /\ TriagedRaise(w, "failed", Permanent("embedding"))
    /\ UNCHANGED <<index, registry, humanVars, queueVars>>

\* _embed_all fails: the self-transition is not triaged.
EmbedTransient(w) ==
    /\ At(w, "embed")
    /\ Fault
    /\ UntriagedRaise(w, "embedding", Transient("embedding"))
    /\ UNCHANGED <<index, registry, humanVars, duplicates>>

=============================================================================
