----------------------------- MODULE SearchStore -----------------------------
(***************************************************************************)
(* Indexer.index over the production adapter, AzureAISearchIndexer         *)
(* (indexer/adapters/azure_ai_search.py), for one document.  Where Indexer *)
(* sees one atomic adapter call, the adapter makes backend calls: a        *)
(* deletion lists the chunk_ids and then deletes them; every call has a    *)
(* timeout, and one that times out is tried again while the request that   *)
(* was given up stays in flight and may still reach the store.             *)
(*                                                                         *)
(* The ledger is left out (module Indexer has it): a call of index() ends  *)
(* with its receipt or with an error, and any caller may then call again,  *)
(* with any version, as redelivery makes it.                               *)
(***************************************************************************)
EXTENDS Integers, FiniteSets

CONSTANTS Callers,      \* Workers that index the document.
          Versions,     \* Its content versions.
          NumChunks,    \* Chunks of each version.
          TooLarge,     \* Positions, per version, over _MAX_RECORD_BYTES.
          BatchSize,    \* The effective batch size.
          MaxAttempts,  \* max_attempts of one backend call.
          MaxLate,      \* Bound on the different requests in flight at once.
          None

ASSUME SearchAssumption ==
    /\ NumChunks \in [Versions -> Nat \ {0}]
    /\ TooLarge \in [Versions -> SUBSET Nat]
    /\ BatchSize \in Nat \ {0}
    /\ MaxAttempts \in Nat \ {0}
    /\ MaxLate \in Nat
    /\ None \notin Versions

VARIABLES store,      \* position -> stored doc_version, or None
          call,       \* the index() call of each caller
          late,       \* requests given up that may still land
          disturbed,  \* History: callers whose records another request touched
          excused     \* History: something has happened that may mix versions

vars == <<store, call, late, disturbed, excused>>

Chunks(v) == 1 .. NumChunks[v]

Positions == UNION {Chunks(v) : v \in Versions}

\* Positions of the b-th batch, b = 1, 2, ...
Batch(v, b) == {p \in Chunks(v) : (b - 1) * BatchSize < p /\ p <= b * BatchSize}

Stored == {p \in Positions : store[p] # None}

Idle == [pc |-> "idle", version |-> None, batch |-> 0, ids |-> {}, attempt |-> 0]

At(c, pc) == call[c].pc = pc

Version(c) == call[c].version

-----------------------------------------------------------------------------
(* The requests that change the store *)

\* delete_documents(ids) or upload_documents(records): the request caller c
\* is about to send.
Request(c) == [kind |-> IF At(c, "delete") THEN "delete" ELSE "upload",
               version |-> Version(c), ids |-> call[c].ids]

\* The request r takes effect on the positions ids.
Applied(r, ids) ==
    [p \in Positions |-> IF p \notin ids THEN store[p]
                         ELSE IF r.kind = "delete" THEN None ELSE r.version]

\* The callers other than those in `own' whose records it touches.
Disturbs(r, ids, own) ==
    {d \in Callers \ own : /\ call[d].pc # "idle"
                           /\ r.kind = "delete" \/ r.version # Version(d)
                           /\ ids \cap Chunks(Version(d)) # {}}

Send(c, ids) ==
    /\ store' = Applied(Request(c), ids)
    /\ disturbed' = disturbed \cup Disturbs(Request(c), ids, {c})

-----------------------------------------------------------------------------
(* Indexer.index *)

\* The next backend call, with its attempts still to come.
Goto(c, pc, ids) ==
    call' = [call EXCEPT ![c].pc = pc, ![c].ids = ids, ![c].attempt = 0]

End(c) == call' = [call EXCEPT ![c] = Idle]

Begin(c, v) ==
    /\ At(c, "idle")
    /\ call' = [call EXCEPT ![c] = [Idle EXCEPT !.pc = "version", !.version = v]]
    /\ disturbed' = disturbed \ {c}
    /\ excused' = IF \A d \in Callers : At(d, "idle") THEN excused
                  ELSE TRUE
    /\ UNCHANGED <<store, late>>

\* The adapter refuses a batch with a record that is too large.
_check_record_sizes(v, b) == Batch(v, b) \cap TooLarge[v] = {}

\* upsert of the b-th batch; nothing of a refused batch is sent.
StartBatch(c, b) ==
    IF ~_check_record_sizes(Version(c), b) THEN End(c)
    ELSE call' = [call EXCEPT ![c].pc = "upload", ![c].batch = b,
                              ![c].ids = Batch(Version(c), b), ![c].attempt = 0]

\* _maybe_delete_stale_version: get_doc_version is the version of any one
\* record found.
CheckVersion(c) ==
    /\ At(c, "version")
    /\ \/ \E p \in Stored : store[p] # Version(c) /\ Goto(c, "list", {})
       \/ /\ Stored = {} \/ \E p \in Stored : store[p] = Version(c)
          /\ StartBatch(c, 1)
    /\ UNCHANGED <<store, late, disturbed, excused>>

\* delete_by_doc_id, first backend call: the chunk_ids to delete.
ListIds(c) ==
    /\ At(c, "list")
    /\ IF Stored = {} THEN StartBatch(c, 1) ELSE Goto(c, "delete", Stored)
    /\ UNCHANGED <<store, late, disturbed, excused>>

\* Mutant: the deletion is not awaited.
DeleteNotAwaited(c) ==
    /\ At(c, "delete")
    /\ late' = late \cup {Request(c)}
    /\ StartBatch(c, 1)
    /\ UNCHANGED <<store, disturbed, excused>>

\* delete_by_doc_id, second backend call.  The per-item results are not
\* looked at: an item the service keeps is not noticed.
DeleteIds(c) ==
    /\ At(c, "delete")
    /\ \E gone \in SUBSET call[c].ids :
          /\ Send(c, gone)
          /\ excused' = IF gone = call[c].ids THEN excused ELSE TRUE
    /\ StartBatch(c, 1)
    /\ UNCHANGED late

\* _batched: the next batch, or the receipt.
NextBatch(c) ==
    IF call[c].batch * BatchSize < NumChunks[Version(c)]
    THEN StartBatch(c, call[c].batch + 1)
    ELSE Goto(c, "receipt", {})

\* Mutant: the failed items of a batch are not tried again.
FailedItemsForgotten(c) ==
    /\ At(c, "upload")
    /\ \E failed \in SUBSET call[c].ids : Send(c, call[c].ids \ failed)
    /\ NextBatch(c)
    /\ UNCHANGED <<late, excused>>

\* _upsert_batch_with_retry: the upload reports the items that failed, which
\* are sent once more.
Upload(c) ==
    /\ At(c, "upload")
    /\ \E failed \in SUBSET call[c].ids :
          /\ Send(c, call[c].ids \ failed)
          /\ IF failed = {} THEN NextBatch(c) ELSE Goto(c, "retry", failed)
    /\ UNCHANGED <<late, excused>>

\* What fails again is INDEXER_PARTIAL_BATCH_FAILURE.
Retry(c) ==
    /\ At(c, "retry")
    /\ \E failed \in SUBSET call[c].ids :
          /\ Send(c, call[c].ids \ failed)
          /\ IF failed = {} THEN NextBatch(c) ELSE End(c)
    /\ UNCHANGED <<late, excused>>

\* The request stays in flight.
GiveUp(c) ==
    /\ late' = late \cup {Request(c)}
    /\ Cardinality(late') <= MaxLate

\* Mutant: off by one, an attempt too many.
OneAttemptMore(c) ==
    /\ At(c, "delete") \/ At(c, "upload") \/ At(c, "retry")
    /\ GiveUp(c)
    /\ IF call[c].attempt < MaxAttempts
       THEN call' = [call EXCEPT ![c].attempt = @ + 1]
       ELSE End(c)
    /\ UNCHANGED <<store, disturbed, excused>>

\* _call_with_timeout gives a request up; _with_retry sends it again, and
\* after the last attempt raises INDEXER_TIMEOUT.
TimesOut(c) ==
    /\ At(c, "delete") \/ At(c, "upload") \/ At(c, "retry")
    /\ GiveUp(c)
    /\ IF call[c].attempt + 1 < MaxAttempts
       THEN call' = [call EXCEPT ![c].attempt = @ + 1]
       ELSE End(c)
    /\ UNCHANGED <<store, disturbed, excused>>

\* A backend call fails for good: all its attempts were refused (429, 5xx), or
\* it raised something that is not tried again.
Raises(c) ==
    /\ call[c].pc \notin {"idle", "receipt"}
    /\ End(c)
    /\ UNCHANGED <<store, late, disturbed, excused>>

\* index() returns its IndexResult.
Receive(c) ==
    /\ At(c, "receipt")
    /\ End(c)
    /\ UNCHANGED <<store, late, disturbed, excused>>

\* A request that was given up reaches the store after all, in whole or in
\* part; others like it may still be under way.
Lands(r) ==
    /\ \E ids \in SUBSET r.ids :
          /\ store' = Applied(r, ids)
          /\ disturbed' = disturbed \cup Disturbs(r, ids, {})
    /\ late' \in {late, late \ {r}}
    /\ excused' = TRUE
    /\ UNCHANGED call

-----------------------------------------------------------------------------
Init ==
    /\ store = [p \in Positions |-> None]
    /\ call = [c \in Callers |-> Idle]
    /\ late = {}
    /\ disturbed = {}
    /\ excused = FALSE

Step(c) == \/ CheckVersion(c) \/ ListIds(c) \/ DeleteIds(c) \/ Upload(c) \/ Retry(c)
           \/ TimesOut(c) \/ Raises(c) \/ Receive(c)

Next == \/ \E c \in Callers, v \in Versions : Begin(c, v)
        \/ \E c \in Callers : Step(c)
        \/ \E r \in late : Lands(r)

Spec == Init /\ [][Next]_vars

-----------------------------------------------------------------------------
(* Properties *)

PCs == {"idle", "version", "list", "delete", "upload", "retry", "receipt"}

CallState == [pc : PCs, version : Versions \cup {None}, batch : Nat,
              ids : SUBSET Positions, attempt : 0 .. MaxAttempts - 1]

Requests == [kind : {"delete", "upload"}, version : Versions, ids : SUBSET Positions]

\* The variables have the types the code gives them; a call in progress has a
\* version, its attempts are within the bound, and what it is about to send is
\* within the document.
TypeOK ==
    /\ store \in [Positions -> Versions \cup {None}]
    /\ call \in [Callers -> CallState]
    /\ \A c \in Callers : call[c].pc # "idle" => Version(c) \in Versions
    /\ late \subseteq Requests
    /\ disturbed \subseteq Callers
    /\ excused \in BOOLEAN

\* index() gives out its receipt only when every chunk of its version is in
\* the store: batches, failed items, timeouts, retries and late requests of
\* the same version lose nothing.  Only a deletion, or an upload of another
\* version, that takes effect during the call can take a record away from it.
ReceiptIsComplete ==
    \A c \in Callers : At(c, "receipt") /\ c \notin disturbed =>
        \A p \in Chunks(Version(c)) : store[p] = Version(c)

\* Deleting before uploading keeps the records of two versions apart, at
\* every moment, whatever fails halfway: for a mixture two calls must overlap,
\* a request must land late, or the service must keep an item it was told to
\* delete.
OneVersion == ~excused => \A p, q \in Stored : store[p] = store[q]

=============================================================================
