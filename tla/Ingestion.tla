------------------------------ MODULE Ingestion ------------------------------
(***************************************************************************)
(* The state the components of the ingestion pipeline share, and the       *)
(* pieces every stage is built from.  A worker is one delivery of one      *)
(* arrival envelope being driven through load, analyze, chunk, embed and   *)
(* index; several workers may hold the same document at once, because the  *)
(* queue in front of the pipeline delivers at least once.                  *)
(*                                                                         *)
(* One action is one access to shared state (a ledger call, a vector-store *)
(* call, a review-registry call) together with the local computation up to *)
(* the next such access, so every interleaving of the real calls is one of *)
(* the model's behaviours.                                                 *)
(***************************************************************************)
EXTENDS LedgerStore, FiniteSets

CONSTANTS
    Workers,                 \* concurrent pipeline drivers
    Operators,               \* users of the Reprocessor
    Reviewers,               \* users of the ReviewQueue
    Versions,                \* content_hashes a document may arrive with
    NumChunks,               \* chunks the content of each version yields
    ParkUnresolved,          \* VerticalLoaderConfig.park_unresolved
    DeleteOnVersionChange,   \* delete_before_upsert_on_version_change
    ConfigBatchSize,         \* IndexerConfig.batch_size, or None
    MaxBatchSize,            \* IndexerAdapter.max_batch_size
    MaxFaults,               \* bound: crashes and transient failures
    MaxDuplicates,           \* bound: duplicate deliveries
    MaxCalls                 \* bound: calls made by operators and reviewers

Envelopes == [doc : Docs, version : Versions]

ASSUME IngestionAssumption ==
    /\ NumChunks \in [Versions -> Nat \ {0}]
    /\ ParkUnresolved \in BOOLEAN
    /\ DeleteOnVersionChange \in BOOLEAN
    /\ ConfigBatchSize \in (Nat \ {0}) \cup {None}
    /\ MaxBatchSize \in Nat \ {0}
    /\ None \notin Nat
    /\ MaxFaults \in Nat
    /\ MaxDuplicates \in Nat
    /\ MaxCalls \in Nat
    /\ None \notin Docs
    /\ None \notin Versions
    /\ None \notin Envelopes

VARIABLES
    worker,      \* what each worker is doing
    index,       \* the vector store: position -> stored doc_version, per doc
    registry,    \* ReviewRegistry._records: docs with parking metadata
    operator,    \* what each operator's call is doing
    reviewer,    \* what each reviewer's call is doing
    faults,      \* faults so far
    duplicates,  \* duplicate deliveries so far
    calls        \* operator and reviewer calls so far

humanVars == <<operator, reviewer, calls>>
queueVars == <<faults, duplicates>>
vars == <<rows, worker, index, registry, operator, reviewer,
          faults, duplicates, calls>>

-----------------------------------------------------------------------------
(* A worker *)

WorkerPC == {"idle", "load", "park_record", "park", "analyze", "parse",
             "parse_lost", "chunk", "embed", "index", "delete", "upsert",
             "upsert_retry", "index_transient", "index_permanent", "indexed"}

\* What the last stage call did: returned, raised the stage's own error, or
\* let LedgerTransitionInvalid propagate.
Outcomes == {"none", "returned", "error", "ledger_invalid"}

Positions == UNION {1 .. NumChunks[v] : v \in Versions}

\* A chunk_id is a hash of doc_id and position, so it does not depend on the
\* content version: a record is addressed by (doc, position).
Chunks(v) == 1 .. NumChunks[v]

WorkerState == [pc : WorkerPC, env : Envelopes \cup {None}, batch : Nat,
                retry : SUBSET Positions, out : Outcomes]

IdleWorker(out) ==
    [pc |-> "idle", env |-> None, batch |-> 0, retry |-> {}, out |-> out]

At(w, pc) == worker[w].pc = pc

Doc(w) == worker[w].env.doc

Version(w) == worker[w].env.version

Goto(w, pc) == worker' = [worker EXCEPT ![w].pc = pc]

\* The stage call ends and control returns to the coordinator.
Finish(w, out) == worker' = [worker EXCEPT ![w] = IdleWorker(out)]

-----------------------------------------------------------------------------
(* The three ways a stage writes the ledger *)

\* A write triaged with is_benign_concurrent_loss: a benign loss counts as
\* success, any other rejection propagates.
TriagedExit(w, to, next) ==
    /\ transition(Doc(w), to, None, None)
    /\ IF Rejected(Doc(w), to, None)
       THEN Finish(w, "ledger_invalid")
       ELSE Goto(w, next)

\* A triaged write that records an error; the stage's own error is raised
\* whether the write landed or was benignly lost.
TriagedRaise(w, to, code) ==
    /\ transition(Doc(w), to, code, None)
    /\ Finish(w, IF Rejected(Doc(w), to, code) THEN "ledger_invalid" ELSE "error")

\* A write without triage: every rejection propagates in place of the error.
UntriagedRaise(w, to, code) ==
    /\ transition(Doc(w), to, code, None)
    /\ Finish(w, IF Accepted(Doc(w), to, code) THEN "error" ELSE "ledger_invalid")

\* A transient failure of a dependency, from the bounded budget.
Fault == faults < MaxFaults /\ faults' = faults + 1

=============================================================================
