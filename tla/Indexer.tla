-------------------------------- MODULE Indexer --------------------------------
(***************************************************************************)
(* Indexer.index over the vector store: delete the records of an older     *)
(* version, upsert the new ones batch by batch with one retry of the items *)
(* a batch reports as failed, then hand the row to `indexed'.  The version *)
(* check, the deletion and every batch are separate calls of the adapter.  *)
(*                                                                         *)
(* The store is the adapter contract: each call is atomic; upsert reports  *)
(* failures per item; a call that raises may have applied part of its      *)
(* batch.                                                                  *)
(***************************************************************************)
EXTENDS Ingestion

effective_batch_size ==
    IF ConfigBatchSize = None THEN MaxBatchSize
    ELSE IF ConfigBatchSize < MaxBatchSize THEN ConfigBatchSize ELSE MaxBatchSize

\* Positions of the b-th batch, b = 1, 2, ...
batched(v, b) ==
    {p \in Chunks(v) : /\ (b - 1) * effective_batch_size < p
                       /\ p <= b * effective_batch_size}

\* Mutant: off by one, the last batch is dropped.
LastBatchDropped(v, b) == (b + 1) * effective_batch_size < NumChunks[v]

\* Are there records beyond the first b batches?
MoreBatches(v, b) == b * effective_batch_size < NumChunks[v]

\* doc_versions present among the stored records of d.
StoredVersions(d) == {index[d][p] : p \in Positions} \ {None}

\* upsert of the records at positions ps, keyed on chunk_id.
Upserted(d, v, ps) ==
    [index EXCEPT ![d] = [p \in Positions |-> IF p \in ps THEN v ELSE index[d][p]]]

-----------------------------------------------------------------------------
\* _validate_batch: mixed models or a dimension mismatch.
IndexInvalid(w) ==
    /\ At(w, "index")
    /\ TriagedRaise(w, "failed", Permanent("indexing"))
    /\ UNCHANGED <<index, registry, humanVars, queueVars>>

StartUpsert(w) ==
    worker' = [worker EXCEPT ![w].pc = "upsert", ![w].batch = 1]

\* _maybe_delete_stale_version, first call: get_doc_version returns the
\* version of any one stored record.
IndexCheckVersion(w) ==
    /\ At(w, "index")
    /\ \/ /\ DeleteOnVersionChange
          /\ StoredVersions(Doc(w)) \ {Version(w)} # {}
          /\ Goto(w, "delete")
       \/ /\ \/ ~DeleteOnVersionChange
             \/ StoredVersions(Doc(w)) = {}
             \/ Version(w) \in StoredVersions(Doc(w))
          /\ StartUpsert(w)
    /\ UNCHANGED <<rows, index, registry, humanVars, queueVars>>

\* Mutant: the stale records are left in place.
DeleteSkipped(w) ==
    /\ At(w, "delete")
    /\ StartUpsert(w)
    /\ UNCHANGED <<rows, index, registry, humanVars, queueVars>>

\* _maybe_delete_stale_version, second call: delete_by_doc_id.
IndexDelete(w) ==
    /\ At(w, "delete")
    /\ index' = [index EXCEPT ![Doc(w)] = [p \in Positions |-> None]]
    /\ StartUpsert(w)
    /\ UNCHANGED <<rows, registry, humanVars, queueVars>>

NextBatch(w) ==
    IF MoreBatches(Version(w), worker[w].batch)
    THEN worker' = [worker EXCEPT ![w].pc = "upsert", ![w].batch = @ + 1,
                                  ![w].retry = {}]
    ELSE worker' = [worker EXCEPT ![w].pc = "indexed", ![w].retry = {}]

\* _upsert_batch_with_retry, first call.
IndexUpsert(w) ==
    /\ At(w, "upsert")
    /\ LET batch == batched(Version(w), worker[w].batch) IN
       \/ /\ index' = Upserted(Doc(w), Version(w), batch)
          /\ NextBatch(w)
          /\ UNCHANGED faults
       \/ /\ Fault
          /\ \E failed \in (SUBSET batch) \ {{}} :
                /\ index' = Upserted(Doc(w), Version(w), batch \ failed)
                /\ worker' = [worker EXCEPT ![w].pc = "upsert_retry",
                                            ![w].retry = failed]
    /\ UNCHANGED <<rows, registry, humanVars, duplicates>>

\* _upsert_batch_with_retry, the one retry of the failed chunk_ids; what
\* fails again is INDEXER_PARTIAL_BATCH_FAILURE.
IndexUpsertRetry(w) ==
    /\ At(w, "upsert_retry")
    /\ \/ /\ index' = Upserted(Doc(w), Version(w), worker[w].retry)
          /\ NextBatch(w)
          /\ UNCHANGED faults
       \/ /\ Fault
          /\ \E failed \in (SUBSET worker[w].retry) \ {{}} :
                index' = Upserted(Doc(w), Version(w), worker[w].retry \ failed)
          /\ Goto(w, "index_transient")
    /\ UNCHANGED <<rows, registry, humanVars, duplicates>>

\* A call of the adapter raises.  An upsert that raises a transient error
\* may have landed in part; a permanent one (a schema conflict, a record
\* too large) is refused before anything is written.
IndexAdapterRaises(w) ==
    /\ At(w, "index") \/ At(w, "delete") \/ At(w, "upsert") \/ At(w, "upsert_retry")
    /\ \/ /\ Fault
          /\ Goto(w, "index_transient")
          /\ \/ UNCHANGED index
             \/ /\ At(w, "delete")
                /\ index' = [index EXCEPT ![Doc(w)] = [p \in Positions |-> None]]
             \/ /\ At(w, "upsert")
                /\ \E ps \in SUBSET batched(Version(w), worker[w].batch) :
                      index' = Upserted(Doc(w), Version(w), ps)
             \/ /\ At(w, "upsert_retry")
                /\ \E ps \in SUBSET worker[w].retry :
                      index' = Upserted(Doc(w), Version(w), ps)
       \/ /\ At(w, "upsert") \/ At(w, "upsert_retry")
          /\ Goto(w, "index_permanent")
          /\ UNCHANGED <<index, faults>>
    /\ UNCHANGED <<rows, registry, humanVars, duplicates>>

-----------------------------------------------------------------------------
\* _self_transition_and_raise, triaged here.
IndexTransient(w) ==
    /\ At(w, "index_transient")
    /\ TriagedRaise(w, "indexing", Transient("indexing"))
    /\ UNCHANGED <<index, registry, humanVars, queueVars>>

\* _terminalize after a permanent adapter error.
IndexTerminalize(w) ==
    /\ At(w, "index_permanent")
    /\ TriagedRaise(w, "failed", Permanent("indexing"))
    /\ UNCHANGED <<index, registry, humanVars, queueVars>>

\* _transition_to_indexed, and index() returns its receipt.
IndexExit(w) ==
    /\ At(w, "indexed")
    /\ transition(Doc(w), "indexed", None, None)
    /\ Finish(w, IF Rejected(Doc(w), "indexed", None)
                 THEN "ledger_invalid" ELSE "returned")
    /\ UNCHANGED <<index, registry, humanVars, queueVars>>

=============================================================================
