-------------------------------- MODULE Chunker --------------------------------
(***************************************************************************)
(* Chunker.chunk: no entry write; one exit write to `embedding'.           *)
(***************************************************************************)
EXTENDS Ingestion

\* _transition_to_embedding
ChunkExit(w) ==
    /\ At(w, "chunk")
    /\ TriagedExit(w, "embedding", "embed")
    /\ UNCHANGED <<index, registry, humanVars, queueVars>>

\* _terminalize_empty_elements
ChunkTerminalize(w) ==
    /\ At(w, "chunk")
    /\ TriagedRaise(w, "failed", Permanent("chunking"))
    /\ UNCHANGED <<index, registry, humanVars, queueVars>>

\* _build_chunks fails: the self-transition is not triaged.
ChunkTransient(w) ==
    /\ At(w, "chunk")
    /\ Fault
    /\ UntriagedRaise(w, "chunking", Transient("chunking"))
    /\ UNCHANGED <<index, registry, humanVars, duplicates>>

=============================================================================
