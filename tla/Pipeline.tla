------------------------------- MODULE Pipeline -------------------------------
(***************************************************************************)
(* The composed system: workers driving envelopes through the stages, the  *)
(* operators of the Reprocessor, the reviewers of the ReviewQueue, all     *)
(* over one ledger, one vector store and one review registry.              *)
(*                                                                         *)
(* The coordinator is not part of the repository; it is modelled from how  *)
(* the quickstart and the stages' contracts use it: a delivery creates the *)
(* ledger row, then runs the stages in order.  An unsettled document that  *)
(* nobody holds is delivered again (at-least-once); a duplicate delivery   *)
(* may happen at any time.                                                 *)
(***************************************************************************)
EXTENDS VerticalLoader, Analyzer, Chunker, Embedder, Indexer,
        Reprocessor, ReviewQueue

Settled(d) ==
    /\ rows[d] # None
    /\ rows[d].status \in {"indexed", "failed", "needs_review", "archived"}

Held(d) == \E w \in Workers : worker[w].env # None /\ Doc(w) = d

Take(w, e) ==
    /\ At(w, "idle")
    /\ create(e.doc)
    /\ worker' = [worker EXCEPT ![w] =
          [pc |-> "load", env |-> e, batch |-> 0, retry |-> {}, out |-> "none"]]

Deliver(w, e) ==
    /\ ~Settled(e.doc) /\ ~Held(e.doc)
    /\ Take(w, e)
    /\ UNCHANGED <<index, registry, humanVars, queueVars>>

\* The queue hands out a message again while its document is held or settled.
DeliverDuplicate(w, e) ==
    /\ Settled(e.doc) \/ Held(e.doc)
    /\ duplicates < MaxDuplicates
    /\ duplicates' = duplicates + 1
    /\ Take(w, e)
    /\ UNCHANGED <<index, registry, humanVars, faults>>

\* The worker dies between two accesses.
Crash(w) ==
    /\ ~At(w, "idle")
    /\ Fault
    /\ Finish(w, "none")
    /\ UNCHANGED <<rows, index, registry, humanVars, duplicates>>

-----------------------------------------------------------------------------
Init ==
    /\ LedgerInit
    /\ worker = [w \in Workers |-> IdleWorker("none")]
    /\ index = [d \in Docs |-> [p \in Positions |-> None]]
    /\ registry = {}
    /\ operator = [o \in Operators |-> IdleOperator("none")]
    /\ reviewer = [r \in Reviewers |-> IdleReviewer("none")]
    /\ faults = 0
    /\ duplicates = 0
    /\ calls = 0

LoadStep(w) == Load(w) \/ ParkRecord(w) \/ Park(w)

AnalyzeStep(w) == \/ AnalyzeEnter(w) \/ AnalyzeExit(w)
                  \/ AnalyzeTerminalize(w) \/ AnalyzeTransient(w)

ChunkStep(w) == ChunkExit(w) \/ ChunkTerminalize(w) \/ ChunkTransient(w)

EmbedStep(w) == EmbedExit(w) \/ EmbedTerminalize(w) \/ EmbedTransient(w)

IndexStep(w) == \/ IndexInvalid(w) \/ IndexCheckVersion(w) \/ IndexDelete(w)
                \/ IndexUpsert(w) \/ IndexUpsertRetry(w) \/ IndexAdapterRaises(w)
                \/ IndexTransient(w) \/ IndexTerminalize(w) \/ IndexExit(w)

StageStep(w) == \/ LoadStep(w) \/ AnalyzeStep(w) \/ ChunkStep(w)
                \/ EmbedStep(w) \/ IndexStep(w)

OperatorStep(o) == \/ StartRequeue(o) \/ StartArchive(o) \/ StartBatch(o)
                   \/ Requeue(o) \/ Archive(o)
                   \/ BatchNext(o) \/ BatchRequeue(o) \/ BatchEnd(o)

ReviewerStep(r) == \/ StartAssign(r) \/ StartReject(r)
                   \/ Assign(r) \/ Reject(r) \/ Discard(r)

Next ==
    \/ \E w \in Workers, e \in Envelopes : Deliver(w, e) \/ DeliverDuplicate(w, e)
    \/ \E w \in Workers : StageStep(w) \/ Crash(w)
    \/ \E o \in Operators : OperatorStep(o)
    \/ \E r \in Reviewers : ReviewerStep(r)

Spec == Init /\ [][Next]_vars

\* Threads run, every dependency call returns or times out, and the queue
\* redelivers what is not settled.
Fairness ==
    /\ \A w \in Workers : WF_vars(StageStep(w))
    /\ \A d \in Docs :
          WF_vars(\E w \in Workers, e \in Envelopes : e.doc = d /\ Deliver(w, e))

FairSpec == Spec /\ Fairness

-----------------------------------------------------------------------------
(* Properties *)

\* A call in progress knows the document it is about, and an archive() carries
\* the fatal code it read.
CallsHaveDocument ==
    /\ \A w \in Workers : worker[w].pc # "idle" => worker[w].env \in Envelopes
    /\ \A o \in Operators :
          /\ operator[o].pc \in {"requeue", "archive", "batch_requeue"} =>
                operator[o].doc \in Docs
          /\ operator[o].pc = "archive" => operator[o].code \in FatalCodes
    /\ \A r \in Reviewers : reviewer[r].pc # "idle" => reviewer[r].doc \in Docs

\* Every variable has the type the code gives it, and no call is in progress
\* without its document.
TypeOK ==
    /\ rows \in [Docs -> LedgerRow \cup {None}]
    /\ worker \in [Workers -> WorkerState]
    /\ index \in [Docs -> [Positions -> Versions \cup {None}]]
    /\ registry \subseteq Docs
    /\ operator \in [Operators -> OperatorState]
    /\ reviewer \in [Reviewers -> ReviewerState]
    /\ faults \in 0 .. MaxFaults
    /\ duplicates \in 0 .. MaxDuplicates
    /\ calls \in 0 .. MaxCalls
    /\ CallsHaveDocument

\* No worker, operator or reviewer ever changes a row that is `indexed' or
\* `archived', not even its attempts or its error: "a terminal INDEXED row
\* must never be downgraded to FAILED" (chunker.py:197).
IndexedIsFinal == [][FinalRowsStay]_vars

\* The error on a row belongs to where the row stands: a failed row carries a
\* PERMANENT code (a transient failure never strands a document), a row in a
\* stage carries nothing or that stage's own TRANSIENT code, and no error
\* outlives the stage that reported it.  Reprocessor.summarize and the retry
\* taxonomy rest on this.
ErrorFits(status, code) ==
    /\ status \in {"failed", "archived"} => code \in FatalCodes
    /\ status \in {"pending", "indexed"} => code = None
    /\ status = "needs_review" => code = VERTICAL_UNRESOLVED
    /\ status \in STAGES => code \in {None, Transient(status)}

ErrorMatchesStatus ==
    \A d \in Docs : rows[d] # None =>
        ErrorFits(rows[d].status, rows[d].last_error_code)

\* All of version v, and nothing else, is stored for d.
StoredExactly(d, v) ==
    \A p \in Positions : index[d][p] = IF p \in Chunks(v) THEN v ELSE None

Complete(d) == \E v \in Versions : StoredExactly(d, v)

\* While a document's content does not change, an `indexed' row means every
\* chunk is in the store, however deliveries, crashes, partial batches and
\* requeues interleaved before.
IndexedIsComplete ==
    \A d \in Docs : rows[d] # None /\ rows[d].status = "indexed" => Complete(d)

StageReached(d, s) == rows[d] # None /\ AtOrPast(rows[d].status, s)

Moves(w, from, to) == At(w, from) /\ worker'[w].pc = to

\* A stage whose exit write landed or was triaged as a benign loss leaves the
\* row where the next stage expects it, or further: treating the loss as
\* success never hands on a document whose row is behind, failed or parked.
HandoffReached ==
    [][\A w \in Workers :
          /\ Moves(w, "parse", "chunk") => StageReached(Doc(w), "chunking")'
          /\ Moves(w, "chunk", "embed") => StageReached(Doc(w), "embedding")'
          /\ Moves(w, "embed", "index") => StageReached(Doc(w), "indexing")']_vars

\* index() returns its receipt only when the row is `indexed' and the store
\* holds exactly the version the caller indexed.
Returns(w) == At(w, "indexed") /\ worker'[w] = IdleWorker("returned")

ReceiptIsHonest ==
    [][\A w \in Workers : Returns(w) =>
          /\ rows'[Doc(w)].status = "indexed"
          /\ StoredExactly(Doc(w), Version(w))]_vars

\* A human assignment, once on the row, is never cleared by any later
\* transition, requeue included.
AssignmentSurvives ==
    [][\A d \in Docs : rows[d] # None /\ rows[d].assigned_scenario_id # None =>
          rows'[d].assigned_scenario_id # None]_vars

\* Pipeline code cannot take a row out of `failed': whoever does is a human
\* at the Reprocessor or the ReviewQueue (REQ-012, "pipeline code still cannot
\* transition out of failed").
PipelineNeverLeavesFailed ==
    [][\A d \in Docs : Failed(d) /\ ~Failed(d)' => worker' = worker]_vars

\* The call of operator o reports success only of what is so.
OperatorTold(o) ==
    LET status == rows'[operator[o].doc].status
        returns == operator'[o] = IdleOperator("returned")
    IN /\ operator[o].pc = "requeue" /\ returns => AtOrPast(status, "pending")
       /\ operator[o].pc = "batch_requeue" /\ operator'[o].pc = "batch" =>
             AtOrPast(status, "pending")
       /\ operator[o].pc = "archive" /\ returns => status = "archived"

\* So does the call of reviewer r; what is left of it is the discard.
ReviewerTold(r) ==
    LET status == rows'[reviewer[r].doc].status
        written == reviewer'[r].pc = "discard"
    IN /\ reviewer[r].pc = "assign" /\ written => AtOrPast(status, "pending")
       /\ reviewer[r].pc = "reject" /\ written => status \in {"failed", "indexed"}

\* The calls of the Reprocessor and the ReviewQueue read the row, then write
\* it, and triage a refused write: a call that reports success to its human
\* has its effect, whoever changed the row in between.  A requeued or assigned
\* document is on its way and an archived one archived; a rejected one failed,
\* unless it was indexed meanwhile.
ReportedIsDone ==
    [][/\ \A o \in Operators : OperatorTold(o)
       /\ \A r \in Reviewers : ReviewerTold(r)]_vars

\* load() refuses the document without a trace in the ledger.
Refused(d) == resolve(d) = "missing" \/ (resolve(d) = "unresolved" /\ ~ParkUnresolved)

\* Every document whose scenario can be resolved or parked is settled again
\* and again: crashes, transient failures, duplicates and requeues never
\* strand it in the middle of the pipeline.
Settles == \A d \in Docs : []<>(Settled(d) \/ Refused(d))

-----------------------------------------------------------------------------
(* Statements of the repository's documentation that the code does not keep: *)
(* each is checked by a run that finds a counterexample.                     *)

\* analyzer.py:136: a worker that lost the `analyzing' claim to a duplicate
\* must "skip every further ledger write".
LoserSkipsLedgerWrites ==
    [][\A w \in Workers :
          At(w, "parse_lost") /\ worker'[w] # worker[w] => rows' = rows]_vars

\* review_queue.py:193: an assign() that returns has durably recorded its
\* scenario on the row.
AssignIsDurable ==
    [][\A r \in Reviewers :
          /\ reviewer[r].pc = "assign"
          /\ reviewer'[r].pc = "discard"
          => rows'[reviewer[r].doc].assigned_scenario_id = reviewer[r].scenario]_vars

\* No call of a worker or a reviewer is in progress.
Quiet == /\ \A w \in Workers : At(w, "idle")
         /\ \A r \in Reviewers : reviewer[r].pc = "idle"

\* REQ-008: re-indexing a document that shrank leaves no orphans: a store at
\* rest holds the records of one version only.
NoOrphans == Quiet => \A d \in Docs : Cardinality(StoredVersions(d)) <= 1

-----------------------------------------------------------------------------
(* Refinement *)

PhaseOf(row) ==
    IF row = None THEN "absent"
    ELSE IF row.status = "indexed" THEN "published"
    ELSE IF row.status = "needs_review" THEN "review"
    ELSE IF row.status \in {"failed", "archived"} THEN row.status
    ELSE "active"

L == INSTANCE Lifecycle WITH
        phase <- [d \in Docs |-> PhaseOf(rows[d])],
        searchable <- {d \in Docs : Complete(d)}

\* With one content version per document the pipeline implements Lifecycle.
ImplementsLifecycle == L!Spec

=============================================================================
