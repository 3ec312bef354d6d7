-------------------------- MODULE CompletenessProofs --------------------------
(***************************************************************************)
(* While the content of a document does not change, an `indexed' row means *)
(* that every chunk is in the vector store, for any number of workers,     *)
(* duplicate deliveries, crashes, partial batches and requeues.            *)
(*                                                                         *)
(* The argument: with one version nothing is ever deleted, so the store    *)
(* only grows (StoreGrows); a worker in its b-th batch finds the first     *)
(* b - 1 batches stored, whoever stored them (Progress); and only a worker *)
(* past its last batch asks for `indexed' (StepIsRequest).                 *)
(*                                                                         *)
(* When the content does change, the store stays free of the records of    *)
(* other versions as long as no two workers are in the store for one       *)
(* document (Exclusive): the worker that is there has deleted every other  *)
(* version before its first upsert, and nobody else can bring one back     *)
(* before it leaves (OInv).  Without that condition it is false: the run   *)
(* orphans shows two overlapping deliveries leaving both versions.         *)
(*                                                                         *)
(* While the content does not change the pipeline implements Lifecycle: a  *)
(* step that writes the store leaves the rows alone and writes the records *)
(* of one document, which only grow in number; a step that writes the rows *)
(* is one ledger request, and what the ledger accepts is a move of         *)
(* Lifecycle or stays within a phase.                                      *)
(***************************************************************************)
EXTENDS PipelineProofs, Integers, FiniteSetTheorems

SingleVersion == \A u, v \in Versions : u = v

Has(w, p) == index[Doc(w)][p] = Version(w)

\* What a worker in the index stage knows of the store.
Knows(w) ==
    /\ At(w, "upsert") \/ At(w, "upsert_retry") =>
          \A p \in Chunks(Version(w)) :
             p <= (worker[w].batch - 1) * effective_batch_size => Has(w, p)
    /\ At(w, "upsert_retry") =>
          \A p \in batched(Version(w), worker[w].batch) \ worker[w].retry : Has(w, p)
    /\ At(w, "indexed") => \A p \in Chunks(Version(w)) : Has(w, p)

Progress == \A w \in Workers : Knows(w)

NeverDeletes == \A w \in Workers : ~At(w, "delete")

\* The records of w's own version outlive the step.
Keeps(w) ==
    \A p \in Positions : index[Doc(w)][p] = Version(w) => index'[Doc(w)][p] = Version(w)

StoreGrows ==
    \A d \in Docs, p \in Positions : index[d][p] # None => index'[d][p] = index[d][p]

CInv == IInv /\ (SingleVersion => NeverDeletes /\ Progress /\ IndexedIsComplete)

LEMMA BatchSize == effective_batch_size \in Nat \ {0}
BY IngestionAssumption DEF effective_batch_size

LEMMA ChunksArePositions ==
    ASSUME NEW v \in Versions
    PROVE  Chunks(v) \subseteq Positions /\ Chunks(v) \subseteq Nat
BY IngestionAssumption DEF Chunks, Positions

\* With one version every position is a chunk of it.
LEMMA PositionsAreChunks ==
    ASSUME SingleVersion, NEW v \in Versions
    PROVE  Positions = Chunks(v)
BY DEF SingleVersion, Chunks, Positions

\* An upsert stores its records and touches nothing else.
LEMMA UpsertStores ==
    ASSUME StoreOK, NEW d \in Docs, NEW v, NEW ps, index' = Upserted(d, v, ps)
    PROVE  \A e \in Docs, p \in Positions :
              index'[e][p] = IF e = d /\ p \in ps THEN v ELSE index[e][p]
BY DEF Upserted, StoreOK

\* An upsert of the only version overwrites nothing that differs.
LEMMA UpsertGrows ==
    ASSUME SingleVersion, StoreOK, NEW d \in Docs, NEW v \in Versions, NEW ps,
           index' = Upserted(d, v, ps)
    PROVE  StoreGrows
<1>1. \A e \in Docs, p \in Positions : index[e][p] # None => index[e][p] = v
  BY DEF SingleVersion, StoreOK
<1> QED BY <1>1, UpsertStores DEF StoreGrows

\* The store never loses a record.
LEMMA Grows ==
    ASSUME SingleVersion, IInv, NeverDeletes, Next
    PROVE  StoreGrows
<1>1. StoreOK /\ WorkersOK
  BY Parts
<1>2. CASE UNCHANGED index
  BY <1>2 DEF StoreGrows
<1>3. ASSUME NEW w \in Workers, StageStep(w) PROVE StoreGrows
  <2>1. CASE LoadStep(w) \/ AnalyzeStep(w) \/ ChunkStep(w) \/ EmbedStep(w)
    <3>1. UNCHANGED index
      BY <2>1 DEF LoadStep, AnalyzeStep, ChunkStep, EmbedStep, Load, ParkRecord, Park,
           AnalyzeEnter, AnalyzeExit, AnalyzeTerminalize, AnalyzeTransient,
           ChunkExit, ChunkTerminalize, ChunkTransient,
           EmbedExit, EmbedTerminalize, EmbedTransient
    <3> QED BY <1>2, <3>1
  <2>2. CASE IndexInvalid(w) \/ IndexCheckVersion(w) \/ IndexTransient(w)
             \/ IndexTerminalize(w) \/ IndexExit(w)
    BY <1>2, <2>2 DEF IndexInvalid, IndexCheckVersion, IndexTransient,
                      IndexTerminalize, IndexExit
  <2>3. CASE IndexDelete(w)
    BY <2>3 DEF IndexDelete, NeverDeletes
  <2>4. CASE IndexUpsert(w) \/ IndexUpsertRetry(w) \/ IndexAdapterRaises(w)
    <3>1. \/ UNCHANGED index
          \/ \E ps : index' = Upserted(Doc(w), Version(w), ps)
      BY <2>4 DEF IndexUpsert, IndexUpsertRetry, IndexAdapterRaises, NeverDeletes, At
    <3>2. Doc(w) \in Docs /\ Version(w) \in Versions
      BY <1>1, <2>4 DEF IndexUpsert, IndexUpsertRetry, IndexAdapterRaises, At,
                        WorkersOK, Doc, Version, Envelopes
    <3> QED BY <1>1, <1>2, <3>1, <3>2, UpsertGrows
  <2> QED BY <1>3, <2>1, <2>2, <2>3, <2>4 DEF StageStep, IndexStep
<1>4. ASSUME NEW w \in Workers,
             \/ \E e \in Envelopes : Deliver(w, e) \/ DeliverDuplicate(w, e)
             \/ Crash(w)
      PROVE  StoreGrows
  BY <1>2, <1>4 DEF Deliver, DeliverDuplicate, Crash
<1>5. ASSUME NEW o \in Operators, OperatorStep(o) PROVE StoreGrows
  BY <1>2, <1>5 DEF OperatorStep, StartRequeue, StartArchive, StartBatch,
                    Requeue, Archive, BatchNext, BatchRequeue, BatchEnd
<1>6. ASSUME NEW r \in Reviewers, ReviewerStep(r) PROVE StoreGrows
  BY <1>2, <1>6 DEF ReviewerStep, StartAssign, StartReject, Assign, Reject,
                    ReviewWrite, Discard
<1> QED BY <1>3, <1>4, <1>5, <1>6 DEF Next

-----------------------------------------------------------------------------
(* Progress is preserved *)

\* A stored record of w's version stays.
LEMMA HasStays ==
    ASSUME WorkersOK, NEW w \in Workers, worker[w].pc # "idle", Keeps(w),
           NEW p \in Chunks(Version(w)), Has(w, p)
    PROVE  index'[Doc(w)][p] = Version(w)
<1>1. Version(w) \in Versions
  BY DEF WorkersOK, Version, Envelopes
<1>2. p \in Positions
  BY <1>1, ChunksArePositions
<1> QED BY <1>2 DEF Keeps, Has

LEMMA GrowingKeeps ==
    ASSUME StoreGrows, WorkersOK, NEW w \in Workers, worker[w].pc # "idle"
    PROVE  Keeps(w)
<1>1. Doc(w) \in Docs /\ Version(w) \in Versions /\ Version(w) # None
  BY IngestionAssumption DEF WorkersOK, Doc, Version, Envelopes
<1> QED BY <1>1 DEF StoreGrows, Keeps

\* A worker that does not move keeps what it knows.
LEMMA KnowsStays ==
    ASSUME WorkersOK, NEW w \in Workers, Knows(w), worker'[w] = worker[w],
           worker[w].pc # "idle" => Keeps(w)
    PROVE  Knows(w)'
<1>1. \A b : batched(Version(w), b) \subseteq Chunks(Version(w))
  BY DEF batched
<1>2. Doc(w)' = Doc(w) /\ Version(w)' = Version(w) /\ \A pc : At(w, pc)' <=> At(w, pc)
  BY DEF Doc, Version, At
<1>3. worker[w].pc # "idle" =>
         \A p \in Chunks(Version(w)) : Has(w, p) => Has(w, p)'
  BY <1>2, HasStays DEF Has
<1>4. \A pc \in {"upsert", "upsert_retry", "indexed"} : At(w, pc) => worker[w].pc # "idle"
  BY DEF At
<1>6. (At(w, "upsert") \/ At(w, "upsert_retry"))' =>
          \A p \in Chunks(Version(w)) :
             p <= (worker[w].batch - 1) * effective_batch_size => Has(w, p)'
  BY <1>2, <1>3, <1>4 DEF Knows
<1>7. At(w, "upsert_retry")' =>
          \A p \in batched(Version(w), worker[w].batch) \ worker[w].retry : Has(w, p)'
  BY <1>1, <1>2, <1>3, <1>4 DEF Knows
<1>8. At(w, "indexed")' => \A p \in Chunks(Version(w)) : Has(w, p)'
  BY <1>2, <1>3, <1>4 DEF Knows
<1> QED BY <1>2, <1>6, <1>7, <1>8 DEF Knows, Chunks, batched, effective_batch_size

\* A worker outside the batches knows nothing.
LEMMA KnowsTrivially ==
    ASSUME NEW w \in Workers,
           worker'[w].pc \notin {"upsert", "upsert_retry", "indexed"}
    PROVE  Knows(w)'
BY DEF Knows, At

\* The end of a batch: all of it, and all before it, is stored.
LEMMA BatchDone ==
    ASSUME WorkersOK, NEW w \in Workers, worker[w].pc # "idle", NextBatch(w),
           \A p \in Chunks(Version(w)) :
              p <= (worker[w].batch - 1) * effective_batch_size =>
                 index'[Doc(w)][p] = Version(w),
           \A p \in batched(Version(w), worker[w].batch) :
              index'[Doc(w)][p] = Version(w)
    PROVE  Knows(w)'
<1> DEFINE v == Version(w)
           b == worker[w].batch
           k == effective_batch_size
<1>1. v \in Versions /\ b \in Nat /\ k \in Nat /\ NumChunks[v] \in Nat
  BY BatchSize, IngestionAssumption DEF WorkersOK, WorkerState, Version, Envelopes
<1>2. b * k \in Int /\ (b - 1) * k \in Int /\ ((b + 1) - 1) * k = b * k
  BY <1>1
<1>3. \A p \in Chunks(v) : p <= b * k => index'[Doc(w)][p] = v
  <2> SUFFICES ASSUME NEW p \in Chunks(v), p <= b * k
               PROVE  index'[Doc(w)][p] = v
    OBVIOUS
  <2>1. p \in Nat
    BY <1>1, ChunksArePositions
  <2>2. CASE p <= (b - 1) * k
    BY <2>2
  <2>3. CASE ~(p <= (b - 1) * k)
    <3>1. (b - 1) * k < p
      BY <1>2, <2>1, <2>3
    <3>2. p \in batched(v, b)
      BY <3>1 DEF batched
    <3> QED BY <3>2
  <2> QED BY <2>2, <2>3
<1>4. worker'[w].env = worker[w].env /\ Doc(w)' = Doc(w) /\ Version(w)' = v
  BY DEF NextBatch, WorkersOK, WorkerState, Doc, Version
<1>5. CASE MoreBatches(v, b)
  <2>1. worker'[w].pc = "upsert" /\ worker'[w].batch = b + 1
    BY <1>5 DEF NextBatch, WorkersOK, WorkerState
  <2>2. \A p \in Chunks(v) :
           p <= (worker'[w].batch - 1) * effective_batch_size => Has(w, p)'
    BY <1>2, <1>3, <1>4, <2>1 DEF Has
  <2> QED BY <1>4, <2>1, <2>2 DEF Knows, At, Chunks, effective_batch_size
<1>6. CASE ~MoreBatches(v, b)
  <2>1. worker'[w].pc = "indexed"
    BY <1>6 DEF NextBatch, WorkersOK, WorkerState
  <2>2. \A p \in Chunks(v) : p <= b * k
    BY <1>1, <1>2, <1>6 DEF MoreBatches, Chunks
  <2>3. \A p \in Chunks(v) : Has(w, p)'
    BY <1>3, <1>4, <2>2 DEF Has
  <2> QED BY <1>4, <2>1, <2>3 DEF Knows, At, Chunks
<1> QED BY <1>5, <1>6

\* An upsert of w's own version keeps it and adds to it.
LEMMA OwnUpsert ==
    ASSUME WorkersOK, StoreOK, NEW w \in Workers, worker[w].pc # "idle", NEW ps,
           index' = Upserted(Doc(w), Version(w), ps)
    PROVE  /\ Keeps(w)
           /\ \A p \in Positions : p \in ps => index'[Doc(w)][p] = Version(w)
<1>1. Doc(w) \in Docs
  BY DEF WorkersOK, Doc, Envelopes
<1> QED BY <1>1, UpsertStores DEF Keeps

\* The moves of a worker through its batches.
LEMMA IndexStepKnows ==
    ASSUME WorkersOK, StoreOK, NEW w \in Workers, Knows(w), IndexStep(w)
    PROVE  Knows(w)'
<1> DEFINE v == Version(w)
           d == Doc(w)
<1>1. worker[w].pc # "idle" => d \in Docs /\ v \in Versions /\ v # None
  BY IngestionAssumption DEF WorkersOK, Doc, Version, Envelopes
<1>2. \A b : v \in Versions => batched(v, b) \subseteq Positions /\ batched(v, b) \subseteq Chunks(v)
  BY ChunksArePositions DEF batched
<1>3. CASE IndexInvalid(w) \/ IndexTransient(w) \/ IndexTerminalize(w) \/ IndexExit(w)
  <2>1. worker'[w].pc = "idle"
    BY <1>3 DEF IndexInvalid, IndexTransient, IndexTerminalize, IndexExit, TriagedRaise,
                Finish, IdleWorker, WorkersOK
  <2> QED BY <2>1, KnowsTrivially
<1>4. ASSUME StartUpsert(w), worker[w].pc # "idle" PROVE Knows(w)'
  <2>1. /\ worker'[w].pc = "upsert" /\ worker'[w].batch = 1
        /\ worker'[w].env = worker[w].env
    BY <1>4 DEF StartUpsert, WorkersOK, WorkerState
  <2>2. \A p \in Chunks(v) : ~(p <= (1 - 1) * effective_batch_size)
    BY <1>1, <1>4, BatchSize, IngestionAssumption DEF Chunks
  <2>3. Version(w)' = v
    BY <2>1 DEF Version
  <2> QED BY <2>1, <2>2, <2>3 DEF Knows, At, Chunks, effective_batch_size
<1>5. CASE IndexCheckVersion(w) \/ IndexDelete(w)
  <2>1. ASSUME Goto(w, "delete") PROVE Knows(w)'
    <3>1. worker'[w].pc = "delete"
      BY <2>1 DEF Goto, WorkersOK, WorkerState
    <3> QED BY <3>1, KnowsTrivially
  <2>2. worker[w].pc # "idle"
    BY <1>5 DEF IndexCheckVersion, IndexDelete, At
  <2> QED BY <1>4, <1>5, <2>1, <2>2 DEF IndexCheckVersion, IndexDelete
<1>6. CASE IndexAdapterRaises(w)
  <2>1. worker'[w].pc \in {"index_transient", "index_permanent"}
    BY <1>6 DEF IndexAdapterRaises, Goto, WorkersOK, WorkerState
  <2> QED BY <2>1, KnowsTrivially
<1>7. CASE IndexUpsert(w)
  <2> DEFINE batch == batched(v, worker[w].batch)
  <2>1. d \in Docs /\ v \in Versions /\ worker[w].pc # "idle" /\ At(w, "upsert")
    BY <1>1, <1>7 DEF IndexUpsert, At
  <2>2. Keeps(w) => \A p \in Chunks(v) :
           p <= (worker[w].batch - 1) * effective_batch_size => index'[d][p] = v
    BY <2>1, HasStays DEF Knows
  <2>3. ASSUME index' = Upserted(d, v, batch), NextBatch(w) PROVE Knows(w)'
    <3>1. Keeps(w) /\ \A p \in batch : index'[d][p] = v
      <4>1. Keeps(w) /\ \A p \in Positions : p \in batch => index'[d][p] = v
        BY <2>1, <2>3, OwnUpsert
      <4>2. batch \subseteq Positions
        BY <1>2, <2>1
      <4> QED BY <4>1, <4>2
    <3> QED BY <2>1, <2>2, <2>3, <3>1, BatchDone
  <2>4. ASSUME NEW failed, index' = Upserted(d, v, batch \ failed),
               worker' = [worker EXCEPT ![w].pc = "upsert_retry", ![w].retry = failed]
        PROVE  Knows(w)'
    <3>1. Keeps(w) /\ \A p \in batch \ failed : index'[d][p] = v
      <4> DEFINE ps == batch \ failed
      <4>1. Keeps(w) /\ \A p \in Positions : p \in ps => index'[d][p] = v
        <5>1. index' = Upserted(d, v, ps)
          BY <2>4
        <5> HIDE DEF ps
        <5> QED BY <2>1, <5>1, OwnUpsert
      <4>2. ps \subseteq Positions
        BY <1>2, <2>1
      <4> QED BY <4>1, <4>2
    <3>2. /\ worker'[w].pc = "upsert_retry" /\ worker'[w].retry = failed
          /\ worker'[w].batch = worker[w].batch /\ worker'[w].env = worker[w].env
      BY <2>4 DEF WorkersOK, WorkerState
    <3>3. Doc(w)' = d /\ Version(w)' = v
      BY <3>2 DEF Doc, Version
    <3>4. \A p \in Chunks(v) :
             p <= (worker'[w].batch - 1) * effective_batch_size => Has(w, p)'
      BY <2>2, <3>1, <3>2, <3>3 DEF Has
    <3>5. \A p \in batched(v, worker'[w].batch) \ worker'[w].retry : Has(w, p)'
      BY <3>1, <3>2, <3>3 DEF Has
    <3> QED BY <3>2, <3>3, <3>4, <3>5 DEF Knows, At, Chunks, batched, effective_batch_size
  <2> QED BY <1>7, <2>3, <2>4 DEF IndexUpsert
<1>8. CASE IndexUpsertRetry(w)
  <2> DEFINE batch == batched(v, worker[w].batch)
  <2>1. d \in Docs /\ v \in Versions /\ worker[w].pc # "idle" /\ At(w, "upsert_retry")
    BY <1>1, <1>8 DEF IndexUpsertRetry, At
  <2>2. Keeps(w) => \A p \in Chunks(v) :
           p <= (worker[w].batch - 1) * effective_batch_size => index'[d][p] = v
    BY <2>1, HasStays DEF Knows
  <2>3. Keeps(w) => \A p \in batch \ worker[w].retry : index'[d][p] = v
    BY <1>2, <2>1, HasStays DEF Knows
  <2>4. ASSUME index' = Upserted(d, v, worker[w].retry), NextBatch(w) PROVE Knows(w)'
    <3>1. Keeps(w) /\ \A p \in batch : index'[d][p] = v
      BY <1>2, <2>1, <2>3, <2>4, OwnUpsert
    <3> QED BY <2>1, <2>2, <2>4, <3>1, BatchDone
  <2>5. CASE Goto(w, "index_transient")
    <3>1. worker'[w].pc = "index_transient"
      BY <2>5 DEF Goto, WorkersOK, WorkerState
    <3> QED BY <3>1, KnowsTrivially
  <2> QED BY <1>8, <2>4, <2>5 DEF IndexUpsertRetry
<1> QED BY <1>3, <1>5, <1>6, <1>7, <1>8 DEF IndexStep

\* A step outside the index stage leaves the worker outside the batches.
LEMMA EarlyStep ==
    ASSUME WorkersOK, NEW w \in Workers,
           \/ LoadStep(w) \/ AnalyzeStep(w) \/ ChunkStep(w) \/ EmbedStep(w)
           \/ Crash(w)
           \/ \E e \in Envelopes : Deliver(w, e) \/ DeliverDuplicate(w, e)
    PROVE  worker'[w].pc \notin {"delete", "upsert", "upsert_retry", "indexed"}
<1>1. \A pc : Goto(w, pc) => worker'[w].pc = pc
  BY DEF Goto, WorkersOK, WorkerState
<1>2. \A out : Finish(w, out) => worker'[w].pc = "idle"
  BY DEF Finish, IdleWorker, WorkersOK
<1>3. \A e : Take(w, e) => worker'[w].pc = "load"
  BY DEF Take, WorkersOK
<1>4. CASE LoadStep(w)
  BY ZenonT(30), <1>1, <1>2, <1>4 DEF LoadStep, Load, ParkRecord, Park, TriagedRaise
<1>5. CASE AnalyzeStep(w)
  <2>1. CASE AnalyzeEnter(w)
    BY ZenonT(30), <1>1, <1>2, <2>1 DEF AnalyzeEnter
  <2>2. CASE AnalyzeExit(w)
    BY ZenonT(30), <1>1, <1>2, <2>2 DEF AnalyzeExit, TriagedExit
  <2>3. CASE AnalyzeTerminalize(w) \/ AnalyzeTransient(w)
    BY ZenonT(30), <1>1, <1>2, <2>3 DEF AnalyzeTerminalize, AnalyzeTransient, UntriagedRaise
  <2> QED BY <1>5, <2>1, <2>2, <2>3 DEF AnalyzeStep
<1>6. CASE ChunkStep(w) \/ EmbedStep(w)
  <2>1. CASE ChunkStep(w)
    BY ZenonT(30), <1>1, <1>2, <2>1 DEF ChunkStep, ChunkExit, ChunkTerminalize,
       ChunkTransient, TriagedExit, TriagedRaise, UntriagedRaise
  <2>2. CASE EmbedStep(w)
    BY ZenonT(30), <1>1, <1>2, <2>2 DEF EmbedStep, EmbedExit, EmbedTerminalize,
       EmbedTransient, TriagedExit, TriagedRaise, UntriagedRaise
  <2> QED BY <1>6, <2>1, <2>2
<1>7. CASE Crash(w) \/ \E e \in Envelopes : Deliver(w, e) \/ DeliverDuplicate(w, e)
  BY <1>2, <1>3, <1>7 DEF Crash, Deliver, DeliverDuplicate
<1> QED BY <1>4, <1>5, <1>6, <1>7

\* A worker's step concerns that worker only.
LEMMA OthersStay ==
    ASSUME WorkersOK, NEW w \in Workers, NEW x \in Workers, x # w,
           \/ StageStep(w) \/ Crash(w)
           \/ \E e \in Envelopes : Deliver(w, e) \/ DeliverDuplicate(w, e)
    PROVE  worker'[x] = worker[x]
<1> USE DEF WorkersOK
<1>1. \A pc : Goto(w, pc) => worker'[x] = worker[x]
  BY DEF Goto
<1>2. \A out : Finish(w, out) => worker'[x] = worker[x]
  BY DEF Finish
<1>3. StartUpsert(w) \/ NextBatch(w) => worker'[x] = worker[x]
  BY SMTT(30) DEF StartUpsert, NextBatch
<1>4. CASE LoadStep(w) \/ AnalyzeStep(w)
  <2>1. CASE LoadStep(w)
    BY ZenonT(30), <1>1, <1>2, <2>1 DEF LoadStep, Load, ParkRecord, Park, TriagedRaise
  <2>2. CASE AnalyzeStep(w)
    BY ZenonT(30), <1>1, <1>2, <2>2 DEF AnalyzeStep, AnalyzeEnter, AnalyzeExit,
       AnalyzeTerminalize, AnalyzeTransient, TriagedExit, UntriagedRaise
  <2> QED BY <1>4, <2>1, <2>2
<1>5. CASE ChunkStep(w) \/ EmbedStep(w)
  BY <1>1, <1>2, <1>5 DEF ChunkStep, ChunkExit, ChunkTerminalize, ChunkTransient,
     EmbedStep, EmbedExit, EmbedTerminalize, EmbedTransient,
     TriagedExit, TriagedRaise, UntriagedRaise
<1>6. CASE IndexStep(w)
  <2>1. CASE IndexUpsert(w)
    BY <1>3, <2>1 DEF IndexUpsert
  <2>2. CASE ~IndexUpsert(w)
    BY <1>1, <1>2, <1>3, <1>6, <2>2 DEF IndexStep, IndexInvalid, IndexCheckVersion,
       IndexDelete, IndexUpsertRetry, IndexAdapterRaises, IndexTransient,
       IndexTerminalize, IndexExit, TriagedRaise
  <2> QED BY <2>1, <2>2
<1>7. CASE Crash(w) \/ \E e \in Envelopes : Deliver(w, e) \/ DeliverDuplicate(w, e)
  BY <1>2, <1>7 DEF Crash, Deliver, DeliverDuplicate, Take
<1> QED BY <1>4, <1>5, <1>6, <1>7 DEF StageStep

\* With one version there is nothing to delete.
LEMMA NothingToDelete ==
    ASSUME SingleVersion, IInv, NeverDeletes, Next
    PROVE  NeverDeletes'
<1>1. /\ RowsOK /\ ErrorMatchesStatus /\ WorkersOK /\ StoreOK
      /\ OperatorsOK /\ ReviewersOK /\ calls \in 0 .. MaxCalls
  BY Parts
<1>2. ASSUME NEW w \in Workers, IndexStep(w) PROVE ~At(w, "delete")'
  <2>1. ~(IndexCheckVersion(w) /\ Goto(w, "delete"))
    <3>1. SUFFICES ASSUME At(w, "index") PROVE StoredVersions(Doc(w)) \subseteq {Version(w)}
      BY <1>1 DEF IndexCheckVersion, Goto, StartUpsert, WorkersOK, WorkerState
    <3>2. Doc(w) \in Docs /\ Version(w) \in Versions
      BY <1>1, <3>1 DEF At, WorkersOK, Doc, Version, Envelopes
    <3> QED BY <1>1, <3>2 DEF StoredVersions, StoreOK, SingleVersion
  <2>2. \A pc : Goto(w, pc) => worker'[w].pc = pc
    BY <1>1 DEF Goto, WorkersOK, WorkerState
  <2>3. \A out : Finish(w, out) => worker'[w].pc = "idle"
    BY <1>1 DEF Finish, IdleWorker, WorkersOK
  <2>4. StartUpsert(w) \/ NextBatch(w) => worker'[w].pc \in {"upsert", "indexed"}
    BY <1>1 DEF StartUpsert, NextBatch, WorkersOK, WorkerState
  <2>5. ASSUME NEW failed,
               worker' = [worker EXCEPT ![w].pc = "upsert_retry", ![w].retry = failed]
        PROVE  worker'[w].pc = "upsert_retry"
    BY <1>1, <2>5 DEF WorkersOK, WorkerState
  <2> QED BY ZenonT(30), <1>2, <2>1, <2>2, <2>3, <2>4, <2>5 DEF IndexStep, IndexInvalid,
             IndexCheckVersion, IndexDelete, IndexUpsert, IndexUpsertRetry,
             IndexAdapterRaises, IndexTransient, IndexTerminalize, IndexExit,
             TriagedRaise, At
<1>3. ASSUME NEW w \in Workers,
             \/ StageStep(w) \/ Crash(w)
             \/ \E e \in Envelopes : Deliver(w, e) \/ DeliverDuplicate(w, e)
      PROVE  NeverDeletes'
  <2>1. ~At(w, "delete")'
    BY <1>1, <1>2, <1>3, EarlyStep DEF StageStep, At
  <2>2. \A x \in Workers : x # w => worker'[x] = worker[x]
    BY <1>1, <1>3, OthersStay
  <2> QED BY <2>1, <2>2 DEF NeverDeletes, At
<1>4. ASSUME UNCHANGED worker PROVE NeverDeletes'
  BY <1>4 DEF NeverDeletes, At
<1>5. ASSUME NEW o \in Operators, OperatorStep(o) PROVE UNCHANGED worker
  BY <1>1, <1>5, OperatorOK
<1>6. ASSUME NEW r \in Reviewers, ReviewerStep(r) PROVE UNCHANGED worker
  BY <1>1, <1>6, ReviewerOK
<1> QED BY <1>3, <1>4, <1>5, <1>6 DEF Next

LEMMA ProgressStep ==
    ASSUME SingleVersion, IInv, NeverDeletes, Progress, Next
    PROVE  Progress'
<1>1. /\ RowsOK /\ ErrorMatchesStatus /\ WorkersOK /\ StoreOK
      /\ OperatorsOK /\ ReviewersOK /\ calls \in 0 .. MaxCalls
  BY Parts
<1>2. \A w \in Workers : worker[w].pc # "idle" => Keeps(w)
  BY <1>1, Grows, GrowingKeeps
<1>3. ASSUME NEW w \in Workers,
             \/ StageStep(w) \/ Crash(w)
             \/ \E e \in Envelopes : Deliver(w, e) \/ DeliverDuplicate(w, e)
      PROVE  Progress'
  <2>1. Knows(w)'
    BY <1>1, <1>3, IndexStepKnows, EarlyStep, KnowsTrivially DEF StageStep, Progress
  <2>2. ASSUME NEW x \in Workers, x # w PROVE Knows(x)'
    <3>1. worker'[x] = worker[x]
      BY <1>1, <1>3, <2>2, OthersStay
    <3> QED BY <1>1, <1>2, <3>1, KnowsStays DEF Progress
  <2> QED BY <2>1, <2>2 DEF Progress
<1>4. ASSUME UNCHANGED worker PROVE Progress'
  BY <1>1, <1>2, <1>4, KnowsStays DEF Progress
<1>5. ASSUME NEW o \in Operators, OperatorStep(o) PROVE UNCHANGED worker
  BY <1>1, <1>5, OperatorOK
<1>6. ASSUME NEW r \in Reviewers, ReviewerStep(r) PROVE UNCHANGED worker
  BY <1>1, <1>6, ReviewerOK
<1> QED BY <1>3, <1>4, <1>5, <1>6 DEF Next

\* A worker past its last batch sees exactly its version in the store.
LEMMA PastLastBatch ==
    ASSUME SingleVersion, WorkersOK, NEW w \in Workers, Knows(w), At(w, "indexed")
    PROVE  StoredExactly(Doc(w), Version(w)) /\ Doc(w) \in Docs /\ Version(w) \in Versions
<1>1. Doc(w) \in Docs /\ Version(w) \in Versions
  BY DEF At, WorkersOK, Doc, Version, Envelopes
<1> QED BY <1>1, PositionsAreChunks DEF Knows, Has, StoredExactly

\* A document that is complete stays so.
LEMMA CompleteStays ==
    ASSUME SingleVersion, StoreGrows, NEW d \in Docs, NEW v \in Versions, StoredExactly(d, v)
    PROVE  StoredExactly(d, v)'
<1>1. Positions = Chunks(v) /\ v # None
  BY PositionsAreChunks, IngestionAssumption
<1>2. \A p \in Positions : index[d][p] = v
  BY <1>1 DEF StoredExactly
<1>3. \A p \in Positions : index'[d][p] = v
  BY <1>1, <1>2 DEF StoreGrows
<1> QED BY <1>1, <1>3 DEF StoredExactly, Positions, Chunks

LEMMA CompletenessStep ==
    ASSUME SingleVersion, IInv, NeverDeletes, Progress, IndexedIsComplete, Next
    PROVE  IndexedIsComplete'
<1>1. RowsOK /\ WorkersOK
  BY Parts
<1>2. StoreGrows
  BY Grows
<1> SUFFICES ASSUME NEW d \in Docs, rows'[d] # None, rows'[d].status = "indexed"
             PROVE  \E v \in Versions : StoredExactly(d, v)'
  BY DEF IndexedIsComplete, Complete
<1>3. SUFFICES \E v \in Versions : StoredExactly(d, v)
  BY <1>2, CompleteStays
<1>4. CASE rows'[d] = rows[d]
  BY <1>4 DEF IndexedIsComplete, Complete
<1>5. CASE rows'[d] # rows[d]
  <2>1. ASSUME NEW e \in Docs, create(e) PROVE FALSE
    BY <1>1, <1>5, <2>1 DEF create, new_row, RowsOK
  <2>2. PICK e \in Docs, to \in Status, code \in Codes \cup {None},
             scenario \in Scenarios \cup {None} :
             /\ to = "indexed" => \E w \in Workers : Doc(w) = e /\ IndexExit(w)
             /\ transition(e, to, code, scenario)
    BY <1>5, <2>1, StepIsRequest DEF IInv, RowsStep, Request
  <2>3. e = d /\ to = "indexed"
    BY <1>1, <1>5, <2>2 DEF transition, next_row, RowsOK
  <2>4. PICK w \in Workers : Doc(w) = d /\ IndexExit(w)
    BY <2>2, <2>3
  <2> QED BY <1>1, <2>4, PastLastBatch DEF IndexExit, Progress
<1> QED BY <1>4, <1>5

-----------------------------------------------------------------------------
LEMMA InitCInv == Init => CInv
<1> SUFFICES ASSUME Init PROVE CInv
  OBVIOUS
<1>1. Progress /\ NeverDeletes
  BY DEF Init, Progress, NeverDeletes, Knows, At, IdleWorker
<1>2. IndexedIsComplete
  BY DEF Init, LedgerInit, IndexedIsComplete
<1> QED BY <1>1, <1>2, InitIInv DEF CInv

LEMMA NextCInv == CInv /\ [Next]_vars => CInv'
<1> SUFFICES ASSUME CInv, [Next]_vars PROVE CInv'
  OBVIOUS
<1>1. CASE Next
  BY <1>1, NextIInv, NothingToDelete, ProgressStep, CompletenessStep DEF CInv
<1>2. CASE UNCHANGED vars
  <2>1. IInv'
    BY SMTT(30), <1>2, StutterIInv DEF CInv
  <2>2. (Progress => Progress') /\ (NeverDeletes => NeverDeletes')
    <3>1. worker' = worker /\ index' = index
      BY <1>2 DEF vars
    <3>2. \A w \in Workers : Knows(w) => Knows(w)'
      BY ZenonT(30), <3>1 DEF Knows, Has, At, Doc, Version, Chunks, batched,
         effective_batch_size
    <3> QED BY <3>1, <3>2 DEF Progress, NeverDeletes, At
  <2>3. IndexedIsComplete => IndexedIsComplete'
    BY <1>2 DEF vars, IndexedIsComplete, Complete, StoredExactly, Positions, Chunks
  <2> QED BY <2>1, <2>2, <2>3 DEF CInv
<1> QED BY <1>1, <1>2

\* An `indexed' row means the whole document is in the store, for every number
\* of workers, operators, chunks and batches, while its content is unchanged.
THEOREM Completeness == Spec => [](SingleVersion => IndexedIsComplete)
<1>1. CInv => (SingleVersion => IndexedIsComplete)
  BY DEF CInv
<1> QED BY <1>1, InitCInv, NextCInv, PTL DEF Spec

\* Only the end of the index stage returns a receipt.
LEMMA ReturnsIsExit ==
    ASSUME IInv, Next, NEW w \in Workers, Returns(w)
    PROVE  IndexExit(w)
<1>1. /\ RowsOK /\ ErrorMatchesStatus /\ WorkersOK /\ StoreOK
      /\ OperatorsOK /\ ReviewersOK /\ calls \in 0 .. MaxCalls
  BY Parts
<1>2. worker[w].pc = "indexed" /\ worker'[w].pc = "idle" /\ worker'[w].out = "returned"
  <2>1. worker[w].pc = "indexed" /\ worker'[w] = IdleWorker("returned")
    BY DEF Returns, At
  <2>2. IdleWorker("returned").pc = "idle" /\ IdleWorker("returned").out = "returned"
    BY DEF IdleWorker
  <2> QED BY <2>1, <2>2
<1>3. ASSUME NEW x \in Workers,
             \/ StageStep(x) \/ Crash(x)
             \/ \E e \in Envelopes : Deliver(x, e) \/ DeliverDuplicate(x, e)
      PROVE  IndexExit(w)
  <2>1. x = w
    <3>1. x # w => worker'[w] = worker[w]
      BY ZenonT(30), <1>1, <1>3, OthersStay
    <3> QED BY <1>2, <3>1
  <2>2. ~LoadStep(w) /\ ~AnalyzeStep(w) /\ ~ChunkStep(w) /\ ~EmbedStep(w)
    BY <1>2 DEF LoadStep, Load, ParkRecord, Park, AnalyzeStep, AnalyzeEnter, AnalyzeExit,
       AnalyzeTerminalize, AnalyzeTransient, Parsing, ChunkStep, ChunkExit,
       ChunkTerminalize, ChunkTransient, EmbedStep, EmbedExit, EmbedTerminalize,
       EmbedTransient, At
  <2>3. IndexStep(w) => IndexExit(w)
    BY <1>2 DEF IndexStep, IndexInvalid, IndexCheckVersion, IndexDelete, IndexUpsert,
       IndexUpsertRetry, IndexAdapterRaises, IndexTransient, IndexTerminalize, At
  <2>4. ~Crash(w)
    BY <1>1, <1>2 DEF Crash, Finish, IdleWorker, WorkersOK
  <2>5. \A e : ~Deliver(w, e) /\ ~DeliverDuplicate(w, e)
    BY <1>2 DEF Deliver, DeliverDuplicate, Take, At
  <2> QED BY <1>3, <2>1, <2>2, <2>3, <2>4, <2>5 DEF StageStep
<1>4. UNCHANGED worker => FALSE
  BY <1>2
<1>5. ASSUME NEW o \in Operators, OperatorStep(o) PROVE FALSE
  BY <1>1, <1>4, <1>5, OperatorOK
<1>6. ASSUME NEW r \in Reviewers, ReviewerStep(r) PROVE FALSE
  BY <1>1, <1>4, <1>6, ReviewerOK
<1> QED BY <1>3, <1>5, <1>6 DEF Next

\* A write of `indexed' that lands or is benignly lost leaves the row indexed.
LEMMA ExitIsIndexed ==
    ASSUME RowsOK, NEW d \in Docs, transition(d, "indexed", None, None),
           ~Rejected(d, "indexed", None)
    PROVE  rows'[d].status = "indexed"
<1>1. CASE Accepted(d, "indexed", None)
  BY <1>1 DEF transition, next_row, RowsOK
<1>2. CASE ~Accepted(d, "indexed", None)
  <2>1. AtOrPast(rows[d].status, "indexed")
    BY <1>2 DEF Rejected, is_benign_concurrent_loss
  <2>2. rows[d].status = "indexed"
    BY <2>1 DEF AtOrPast, FORWARD_ORDER
  <2> QED BY <1>2, <2>2 DEF transition
<1> QED BY <1>1, <1>2

\* A receipt is honest: the row is indexed and the store holds the version.
THEOREM ReceiptHonest == ASSUME SingleVersion PROVE Spec => ReceiptIsHonest
<1> DEFINE Honest == \A w \in Workers : Returns(w) =>
                        /\ rows'[Doc(w)].status = "indexed"
                        /\ StoredExactly(Doc(w), Version(w))
<1>1. CInv /\ [Next]_vars => [Honest]_vars
  <2> SUFFICES ASSUME CInv, Next, NEW w \in Workers, Returns(w)
               PROVE  /\ rows'[Doc(w)].status = "indexed"
                      /\ StoredExactly(Doc(w), Version(w))
    OBVIOUS
  <2>1. IndexExit(w)
    BY ReturnsIsExit DEF CInv
  <2>2. RowsOK /\ WorkersOK /\ Progress
    BY Parts DEF CInv
  <2>3. StoredExactly(Doc(w), Version(w)) /\ Doc(w) \in Docs
    BY <2>2, PastLastBatch DEF Progress, Returns
  <2>4. ~Rejected(Doc(w), "indexed", None)
    <3>1. worker'[w].out = "returned"
      BY DEF Returns, IdleWorker
    <3> QED BY <2>1, <2>2, <3>1 DEF IndexExit, Finish, IdleWorker, WorkersOK
  <2> QED BY <2>1, <2>2, <2>3, <2>4, ExitIsIndexed DEF IndexExit
<1> QED BY <1>1, InitCInv, NextCInv, PTL DEF Spec, ReceiptIsHonest

-----------------------------------------------------------------------------
(* Handing a document from one stage to the next *)

Exits(w) == \/ At(w, "parse") /\ TriagedExit(w, "chunking", "chunk")
            \/ At(w, "chunk") /\ TriagedExit(w, "embedding", "embed")
            \/ At(w, "embed") /\ TriagedExit(w, "indexing", "index")

\* A worker leaves one of the three stages by its exit write, or is idle again.
LEMMA MoveIsExit ==
    ASSUME IInv, Next, NEW w \in Workers, worker[w].pc \in {"parse", "chunk", "embed"},
           worker'[w].pc # "idle", worker'[w].pc # worker[w].pc
    PROVE  Exits(w)
<1>1. /\ RowsOK /\ ErrorMatchesStatus /\ WorkersOK /\ StoreOK
      /\ OperatorsOK /\ ReviewersOK /\ calls \in 0 .. MaxCalls
  BY Parts
<1>2. \A out : ~Finish(w, out)
  BY <1>1 DEF Finish, IdleWorker, WorkersOK
<1>3. ASSUME NEW x \in Workers,
             \/ StageStep(x) \/ Crash(x)
             \/ \E e \in Envelopes : Deliver(x, e) \/ DeliverDuplicate(x, e)
      PROVE  Exits(w)
  <2>1. x = w
    <3>1. x # w => worker'[w] = worker[w]
      BY ZenonT(30), <1>1, <1>3, OthersStay
    <3> QED BY <3>1
  <2>2. ~Crash(w) /\ \A e : ~Deliver(w, e) /\ ~DeliverDuplicate(w, e)
    BY <1>2 DEF Crash, Deliver, DeliverDuplicate, Take, At
  <2>3. ~LoadStep(w)
    BY DEF LoadStep, Load, ParkRecord, Park, At
  <2>4. ~IndexStep(w)
    BY DEF IndexStep, IndexInvalid, IndexCheckVersion, IndexDelete, IndexUpsert,
           IndexUpsertRetry, IndexAdapterRaises, IndexTransient, IndexTerminalize,
           IndexExit, At
  <2>5. AnalyzeStep(w) => Exits(w)
    BY <1>2 DEF AnalyzeStep, AnalyzeEnter, AnalyzeExit, AnalyzeTerminalize,
       AnalyzeTransient, UntriagedRaise, Exits, At
  <2>6. ChunkStep(w) \/ EmbedStep(w) => Exits(w)
    BY <1>2 DEF ChunkStep, ChunkExit, ChunkTerminalize, ChunkTransient, EmbedStep,
       EmbedExit, EmbedTerminalize, EmbedTransient, TriagedRaise, UntriagedRaise, Exits
  <2> QED BY <1>3, <2>1, <2>2, <2>3, <2>4, <2>5, <2>6 DEF StageStep
<1>4. ASSUME NEW o \in Operators, OperatorStep(o) PROVE FALSE
  BY <1>1, <1>4, OperatorOK
<1>5. ASSUME NEW r \in Reviewers, ReviewerStep(r) PROVE FALSE
  BY <1>1, <1>5, ReviewerOK
<1> QED BY <1>3, <1>4, <1>5 DEF Next

\* An exit write that is not rejected leaves the row at its target or past it.
LEMMA ExitReaches ==
    ASSUME RowsOK, NEW d \in Docs, NEW to \in {"chunking", "embedding", "indexing"},
           transition(d, to, None, None), ~Rejected(d, to, None)
    PROVE  rows'[d] # None /\ AtOrPast(rows'[d].status, to)
<1>1. CASE Accepted(d, to, None)
  <2>1. rows'[d] = next_row(rows[d], to, None, None)
    BY <1>1 DEF transition, RowsOK
  <2>2. rows'[d] \in LedgerRow
    <3>1. rows[d] \in LedgerRow
      BY <1>1 DEF Accepted, validate_transition, RowsOK
    <3>2. to \in Status
      BY DEF Status
    <3> QED BY <2>1, <3>1, <3>2, NextRowType
  <2>3. rows'[d].status = to
    BY <2>1, NextRowFields
  <2>4. AtOrPast(to, to)
    BY DEF AtOrPast, FORWARD_ORDER
  <2> QED BY <2>2, <2>3, <2>4, NoneIsNoRow
<1>2. CASE ~Accepted(d, to, None)
  BY <1>2 DEF Rejected, is_benign_concurrent_loss, transition
<1> QED BY <1>1, <1>2

\* A stage that hands its document on leaves the row where the next stage
\* expects it or further, whichever duplicate or human wrote it meanwhile.
THEOREM Handoff == Spec => HandoffReached
<1> DEFINE Handed == \A w \in Workers :
          /\ Moves(w, "parse", "chunk") => StageReached(Doc(w), "chunking")'
          /\ Moves(w, "chunk", "embed") => StageReached(Doc(w), "embedding")'
          /\ Moves(w, "embed", "index") => StageReached(Doc(w), "indexing")'
<1>1. IInv /\ [Next]_vars => [Handed]_vars
  <2> SUFFICES ASSUME IInv, Next, NEW w \in Workers
               PROVE  /\ Moves(w, "parse", "chunk") => StageReached(Doc(w), "chunking")'
                      /\ Moves(w, "chunk", "embed") => StageReached(Doc(w), "embedding")'
                      /\ Moves(w, "embed", "index") => StageReached(Doc(w), "indexing")'
    OBVIOUS
  <2>1. RowsOK /\ WorkersOK
    BY Parts
  <2>2. ASSUME NEW to \in {"chunking", "embedding", "indexing"}, NEW next,
               worker[w].pc # "idle", worker'[w].pc # "idle", TriagedExit(w, to, next)
        PROVE  StageReached(Doc(w), to)'
    <3>1. Goto(w, next) /\ ~Rejected(Doc(w), to, None) /\ transition(Doc(w), to, None, None)
      BY <2>1, <2>2 DEF TriagedExit, Finish, IdleWorker, WorkersOK
    <3>2. Doc(w)' = Doc(w) /\ Doc(w) \in Docs
      BY <2>1, <2>2, <3>1 DEF Goto, Doc, WorkersOK, Envelopes
    <3> QED BY <2>1, <3>1, <3>2, ExitReaches DEF StageReached
  <2>3. worker[w].pc \in {"parse", "chunk", "embed"} /\ worker'[w].pc # "idle"
           /\ worker'[w].pc # worker[w].pc => Exits(w)
    BY MoveIsExit
  <2> QED BY <2>2, <2>3 DEF Moves, Exits, At
<1> QED BY <1>1, Invariance, PTL DEF Spec, HandoffReached

-----------------------------------------------------------------------------
(* Documents whose content changes *)

Storing == {"delete", "upsert", "upsert_retry", "indexed"}

\* No two workers are in the store for the same document, as with a queue
\* that locks a message's document until it is acknowledged.
Exclusive ==
    \A w, x \in Workers :
        w # x /\ worker[w].pc \in Storing /\ worker[x].pc \in Storing => Doc(w) # Doc(x)

Uniform ==
    \A d \in Docs : \A p, q \in Positions :
        index[d][p] # None /\ index[d][q] # None => index[d][p] = index[d][q]

FitsVersion ==
    \A d \in Docs, p \in Positions : index[d][p] # None => p \in Chunks(index[d][p])

\* A worker that uploads has seen the records of other versions gone.
Owns(w) ==
    /\ worker[w].pc \in {"upsert", "upsert_retry", "indexed"} =>
          \A p \in Positions : index[Doc(w)][p] \in {Version(w), None}
    /\ worker[w].pc = "upsert_retry" => worker[w].retry \subseteq Chunks(Version(w))

OInv == /\ IInv /\ Progress /\ Uniform /\ FitsVersion
        /\ \A w \in Workers : Owns(w)

Cleared(d) == [index EXCEPT ![d] = [p \in Positions |-> None]]

\* All a step of w does to the store: nothing, a deletion, or an upload of
\* chunks of its version.
StoreWrite(w) ==
    \/ UNCHANGED index
    \/ worker[w].pc = "delete" /\ index' = Cleared(Doc(w))
    \/ /\ worker[w].pc \in {"upsert", "upsert_retry"}
       /\ \E ps \in SUBSET Chunks(Version(w)) : index' = Upserted(Doc(w), Version(w), ps)

LEMMA IndexStepStores ==
    ASSUME NEW w \in Workers, Owns(w), IndexStep(w)
    PROVE  StoreWrite(w)
<1>1. \A b : batched(Version(w), b) \subseteq Chunks(Version(w))
  BY DEF batched
<1>2. CASE IndexInvalid(w) \/ IndexCheckVersion(w) \/ IndexTransient(w)
           \/ IndexTerminalize(w) \/ IndexExit(w)
  BY <1>2 DEF IndexInvalid, IndexCheckVersion, IndexTransient, IndexTerminalize, IndexExit,
              StoreWrite
<1>3. CASE IndexDelete(w)
  BY <1>3 DEF IndexDelete, StoreWrite, Cleared, At
<1>4. CASE IndexUpsert(w)
  <2> DEFINE batch == batched(Version(w), worker[w].batch)
  <2>1. worker[w].pc = "upsert"
    BY <1>4 DEF IndexUpsert, At
  <2>2. ASSUME NEW failed, index' = Upserted(Doc(w), Version(w), batch \ failed)
        PROVE  StoreWrite(w)
    BY <1>1, <2>1, <2>2 DEF StoreWrite
  <2>3. CASE index' = Upserted(Doc(w), Version(w), batch)
    BY <1>1, <2>1, <2>3 DEF StoreWrite
  <2> QED BY Zenon, <1>4, <2>2, <2>3 DEF IndexUpsert
<1>5. CASE IndexUpsertRetry(w)
  <2>1. worker[w].pc = "upsert_retry" /\ worker[w].retry \subseteq Chunks(Version(w))
    BY <1>5 DEF IndexUpsertRetry, At, Owns
  <2>2. ASSUME NEW failed, index' = Upserted(Doc(w), Version(w), worker[w].retry \ failed)
        PROVE  StoreWrite(w)
    BY <2>1, <2>2 DEF StoreWrite
  <2>3. CASE index' = Upserted(Doc(w), Version(w), worker[w].retry)
    BY <2>1, <2>3 DEF StoreWrite
  <2> QED BY Zenon, <1>5, <2>2, <2>3 DEF IndexUpsertRetry
<1>6. CASE IndexAdapterRaises(w)
  <2>1. CASE At(w, "delete") /\ index' = Cleared(Doc(w))
    BY <2>1 DEF StoreWrite, At
  <2>2. ASSUME At(w, "upsert"), NEW ps \in SUBSET batched(Version(w), worker[w].batch),
               index' = Upserted(Doc(w), Version(w), ps)
        PROVE  StoreWrite(w)
    BY <1>1, <2>2 DEF StoreWrite, At
  <2>3. ASSUME At(w, "upsert_retry"), NEW ps \in SUBSET worker[w].retry,
               index' = Upserted(Doc(w), Version(w), ps)
        PROVE  StoreWrite(w)
    BY <2>3 DEF StoreWrite, At, Owns
  <2>4. CASE UNCHANGED index
    BY <2>4 DEF StoreWrite
  <2> QED BY <1>6, <2>1, <2>2, <2>3, <2>4 DEF IndexAdapterRaises, Cleared
<1> QED BY <1>2, <1>3, <1>4, <1>5, <1>6 DEF IndexStep

\* What the store holds after a step of w, position by position.
LEMMA StoreAfter ==
    ASSUME WorkersOK, StoreOK, NEW w \in Workers, worker[w].pc # "idle", StoreWrite(w)
    PROVE  \A d \in Docs, p \in Positions :
              \/ index'[d][p] = index[d][p]
              \/ /\ d = Doc(w) /\ worker[w].pc \in Storing
                 /\ \/ index'[d][p] = None /\ worker[w].pc = "delete"
                    \/ /\ index'[d][p] = Version(w) /\ p \in Chunks(Version(w))
                       /\ worker[w].pc \in {"upsert", "upsert_retry"}
<1>1. Doc(w) \in Docs
  BY DEF WorkersOK, Doc, Envelopes
<1>2. CASE UNCHANGED index
  BY <1>2
<1>3. CASE worker[w].pc = "delete" /\ index' = Cleared(Doc(w))
  BY <1>1, <1>3 DEF Cleared, StoreOK, Storing
<1>4. ASSUME worker[w].pc \in {"upsert", "upsert_retry"},
             NEW ps \in SUBSET Chunks(Version(w)),
             index' = Upserted(Doc(w), Version(w), ps)
      PROVE  \A d \in Docs, p \in Positions :
                \/ index'[d][p] = index[d][p]
                \/ d = Doc(w) /\ index'[d][p] = Version(w) /\ p \in Chunks(Version(w))
  BY <1>1, <1>4, UpsertStores
<1> QED BY <1>2, <1>3, <1>4 DEF StoreWrite, Storing

LEMMA OwnsTrivially ==
    ASSUME NEW w \in Workers,
           worker'[w].pc \notin {"upsert", "upsert_retry", "indexed"}
    PROVE  Owns(w)'
BY DEF Owns

\* An upload of a worker's own version leaves it the owner.
LEMMA OwnsUploads ==
    ASSUME WorkersOK, StoreOK, NEW w \in Workers, Owns(w),
           worker[w].pc \in {"upsert", "upsert_retry"},
           NEW ps \in SUBSET Chunks(Version(w)),
           index' = Upserted(Doc(w), Version(w), ps)
    PROVE  \A p \in Positions : index'[Doc(w)][p] \in {Version(w), None}
<1>1. Doc(w) \in Docs
  BY DEF WorkersOK, Doc, Envelopes
<1> QED BY <1>1, UpsertStores DEF Owns

\* The index stage: before the first upload the records of every other
\* version have been deleted, or there were none.
LEMMA IndexStepOwns ==
    ASSUME DeleteOnVersionChange, WorkersOK, StoreOK, Uniform,
           NEW w \in Workers, Owns(w), IndexStep(w)
    PROVE  Owns(w)'
<1> DEFINE v == Version(w)
           d == Doc(w)
           Mine == \A p \in Positions : index'[d][p] \in {v, None}
<1>1. worker[w].pc # "idle" => d \in Docs /\ v \in Versions /\ v # None
  BY IngestionAssumption DEF WorkersOK, Doc, Version, Envelopes
<1>2. \A b : batched(v, b) \subseteq Chunks(v)
  BY DEF batched
<1>3. ASSUME Mine, worker'[w].env = worker[w].env, worker'[w].pc \in {"upsert", "indexed"}
      PROVE  Owns(w)'
  <2>1. Doc(w)' = d /\ Version(w)' = v
    BY <1>3 DEF Doc, Version
  <2> QED BY <1>3, <2>1 DEF Owns, Positions
<1>4. ASSUME StartUpsert(w) \/ NextBatch(w), Mine PROVE Owns(w)'
  <2>1. worker'[w].env = worker[w].env /\ worker'[w].pc \in {"upsert", "indexed"}
    BY <1>4 DEF StartUpsert, NextBatch, WorkersOK, WorkerState
  <2> QED BY <1>3, <1>4, <2>1
<1>5. ASSUME NEW pc \in {"delete", "index_transient", "index_permanent"}, Goto(w, pc)
      PROVE  Owns(w)'
  <2>1. worker'[w].pc = pc
    BY <1>5 DEF Goto, WorkersOK, WorkerState
  <2> QED BY <2>1, OwnsTrivially
<1>6. CASE IndexInvalid(w) \/ IndexTransient(w) \/ IndexTerminalize(w) \/ IndexExit(w)
  <2>1. worker'[w].pc = "idle"
    <3>1. ASSUME NEW out, Finish(w, out) PROVE worker'[w].pc = "idle"
      BY <3>1 DEF Finish, IdleWorker, WorkersOK
    <3>2. CASE IndexInvalid(w) \/ IndexTransient(w) \/ IndexTerminalize(w)
      BY <3>1, <3>2 DEF IndexInvalid, IndexTransient, IndexTerminalize, TriagedRaise
    <3>3. CASE IndexExit(w)
      BY <3>1, <3>3 DEF IndexExit
    <3> QED BY <1>6, <3>2, <3>3
  <2> QED BY <2>1, OwnsTrivially
<1>7. CASE IndexCheckVersion(w)
  <2>1. ASSUME StoredVersions(d) = {} \/ v \in StoredVersions(d), UNCHANGED index PROVE Mine
    <3>1. d \in Docs
      BY <1>1, <1>7 DEF IndexCheckVersion, At
    <3>2. SUFFICES ASSUME NEW p \in Positions, index[d][p] # None PROVE index[d][p] = v
      BY <2>1
    <3>3. index[d][p] \in StoredVersions(d)
      BY <3>2 DEF StoredVersions
    <3>4. PICK q \in Positions : index[d][q] = v /\ v # None
      BY <2>1, <3>3 DEF StoredVersions
    <3> QED BY <3>1, <3>2, <3>4 DEF Uniform
  <2> QED BY <1>4, <1>5, <1>7, <2>1 DEF IndexCheckVersion
<1>8. CASE IndexDelete(w)
  <2>1. Mine
    <3>1. d \in Docs
      BY <1>1, <1>8 DEF IndexDelete, At
    <3> QED BY <1>8, <3>1 DEF IndexDelete, StoreOK
  <2> QED BY <1>4, <1>8, <2>1 DEF IndexDelete
<1>9. CASE IndexAdapterRaises(w)
  BY <1>5, <1>9 DEF IndexAdapterRaises
<1>10. CASE IndexUpsert(w)
  <2> DEFINE batch == batched(v, worker[w].batch)
  <2>1. worker[w].pc = "upsert"
    BY <1>10 DEF IndexUpsert, At
  <2>2. ASSUME index' = Upserted(d, v, batch), NextBatch(w) PROVE Owns(w)'
    BY <1>2, <1>4, <2>1, <2>2, OwnsUploads
  <2>3. ASSUME NEW failed \in SUBSET batch, index' = Upserted(d, v, batch \ failed),
               worker' = [worker EXCEPT ![w].pc = "upsert_retry", ![w].retry = failed]
        PROVE  Owns(w)'
    <3>1. Mine
      <4> DEFINE ps == batch \ failed
      <4>1. ps \in SUBSET Chunks(v) /\ index' = Upserted(d, v, ps)
        BY <1>2, <2>3
      <4> HIDE DEF ps
      <4> QED BY <2>1, <4>1, OwnsUploads
    <3>2. /\ worker'[w].pc = "upsert_retry" /\ worker'[w].retry = failed
          /\ worker'[w].env = worker[w].env
      BY <2>3 DEF WorkersOK, WorkerState
    <3>3. Doc(w)' = d /\ Version(w)' = v
      BY <3>2 DEF Doc, Version
    <3>4. failed \subseteq Chunks(v)
      BY <1>2, <2>3
    <3> QED BY <3>1, <3>2, <3>3, <3>4 DEF Owns, Positions, Chunks
  <2> QED BY Zenon, <1>10, <2>2, <2>3 DEF IndexUpsert
<1>11. CASE IndexUpsertRetry(w)
  <2>1. worker[w].pc = "upsert_retry" /\ worker[w].retry \subseteq Chunks(v)
    BY <1>11 DEF IndexUpsertRetry, At, Owns
  <2>2. ASSUME index' = Upserted(d, v, worker[w].retry), NextBatch(w) PROVE Owns(w)'
    BY <1>4, <2>1, <2>2, OwnsUploads
  <2> QED BY Zenon, <1>5, <1>11, <2>2 DEF IndexUpsertRetry
<1> QED BY <1>6, <1>7, <1>8, <1>9, <1>10, <1>11 DEF IndexStep

\* A step of one worker: what the others know and own stays true, since none
\* of them is in the store for the same document.
LEMMA WorkerStepOInv ==
    ASSUME DeleteOnVersionChange, OInv, Exclusive, NEW w \in Workers,
           \/ StageStep(w) \/ Crash(w)
           \/ \E e \in Envelopes : Deliver(w, e) \/ DeliverDuplicate(w, e)
    PROVE  Progress' /\ Uniform' /\ FitsVersion' /\ \A x \in Workers : Owns(x)'
<1>1. WorkersOK /\ StoreOK /\ Progress /\ Uniform /\ FitsVersion /\ Owns(w)
  BY Parts DEF OInv
<1>2. StoreWrite(w)
  <2>1. CASE IndexStep(w)
    BY <1>1, <2>1, IndexStepStores
  <2>2. CASE LoadStep(w) \/ AnalyzeStep(w) \/ ChunkStep(w) \/ EmbedStep(w)
    BY <2>2 DEF LoadStep, AnalyzeStep, ChunkStep, EmbedStep, Load, ParkRecord, Park,
         AnalyzeEnter, AnalyzeExit, AnalyzeTerminalize, AnalyzeTransient,
         ChunkExit, ChunkTerminalize, ChunkTransient,
         EmbedExit, EmbedTerminalize, EmbedTransient, StoreWrite
  <2>3. CASE Crash(w) \/ \E e \in Envelopes : Deliver(w, e) \/ DeliverDuplicate(w, e)
    BY <2>3 DEF Deliver, DeliverDuplicate, Crash, StoreWrite
  <2> QED BY <2>1, <2>2, <2>3 DEF StageStep
<1>3. \A d \in Docs, p \in Positions :
         \/ index'[d][p] = index[d][p]
         \/ /\ d = Doc(w) /\ worker[w].pc \in Storing
            /\ \/ index'[d][p] = None /\ worker[w].pc = "delete"
               \/ /\ index'[d][p] = Version(w) /\ p \in Chunks(Version(w))
                  /\ worker[w].pc \in {"upsert", "upsert_retry"}
  <2>1. CASE worker[w].pc = "idle"
    BY <1>2, <2>1 DEF StoreWrite
  <2>2. CASE worker[w].pc # "idle"
    BY <1>1, <1>2, <2>2, StoreAfter
  <2> QED BY <2>1, <2>2
<1>4. \A x \in Workers : x # w => worker'[x] = worker[x]
  BY <1>1, OthersStay
<1>5. Knows(w)'
  BY <1>1, IndexStepKnows, EarlyStep, KnowsTrivially DEF StageStep, Progress
<1>6. Owns(w)'
  BY <1>1, IndexStepOwns, EarlyStep, OwnsTrivially DEF StageStep
<1>7. ASSUME NEW x \in Workers, x # w PROVE Knows(x)' /\ Owns(x)'
  <2>1. worker'[x] = worker[x] /\ Doc(x)' = Doc(x) /\ Version(x)' = Version(x)
    BY <1>4, <1>7 DEF Doc, Version
  <2>2. CASE worker[x].pc \notin Storing
    BY <2>1, <2>2, KnowsTrivially, OwnsTrivially DEF Storing
  <2>3. CASE worker[x].pc \in Storing
    <3>1. Doc(x) \in Docs
      BY <1>1, <2>3 DEF Storing, WorkersOK, Doc, Envelopes
    <3>2. worker[w].pc \in Storing => Doc(x) # Doc(w)
      BY <1>7, <2>3 DEF Exclusive
    <3>3. \A p \in Positions : index'[Doc(x)][p] = index[Doc(x)][p]
      BY <1>3, <3>1, <3>2
    <3>4. Knows(x)'
      BY <1>1, <2>1, <3>3, KnowsStays DEF Keeps, Progress
    <3>5. Owns(x)'
      <4>1. Owns(x)
        BY DEF OInv
      <4> QED BY <2>1, <3>3, <4>1 DEF Owns, Positions, Chunks
    <3> QED BY <3>4, <3>5
  <2> QED BY <2>2, <2>3
<1>8. Uniform'
  <2> SUFFICES ASSUME NEW d \in Docs, NEW p \in Positions, NEW q \in Positions,
                      index'[d][p] # None, index'[d][q] # None
               PROVE  index'[d][p] = index'[d][q]
    BY DEF Uniform, Positions
  <2>1. CASE index'[d][p] = index[d][p] /\ index'[d][q] = index[d][q]
    BY <1>1, <2>1 DEF Uniform
  <2>2. CASE worker[w].pc \in {"upsert", "upsert_retry"} /\ d = Doc(w)
    <3>1. \A r \in Positions : index'[d][r] \in {Version(w), None}
      BY <1>1, <1>3, <2>2 DEF Owns
    <3> QED BY <3>1
  <2> QED BY <1>3, <2>1, <2>2
<1>9. FitsVersion'
  <2> SUFFICES ASSUME NEW d \in Docs, NEW p \in Positions, index'[d][p] # None
               PROVE  p \in Chunks(index'[d][p])
    BY DEF FitsVersion, Positions, Chunks
  <2> QED BY <1>1, <1>3 DEF FitsVersion
<1> QED BY <1>5, <1>6, <1>7, <1>8, <1>9 DEF Progress

LEMMA InitOInv == Init => OInv
<1> SUFFICES ASSUME Init PROVE OInv
  OBVIOUS
<1>1. Progress /\ \A w \in Workers : Owns(w)
  BY DEF Init, Progress, Knows, Owns, At, IdleWorker
<1>2. Uniform /\ FitsVersion
  BY DEF Init, Uniform, FitsVersion
<1> QED BY <1>1, <1>2, InitIInv DEF OInv

LEMMA NextOInv ==
    ASSUME DeleteOnVersionChange
    PROVE  OInv /\ Exclusive /\ [Next]_vars => OInv'
<1> SUFFICES ASSUME OInv, Exclusive, [Next]_vars PROVE OInv'
  OBVIOUS
<1>1. /\ RowsOK /\ ErrorMatchesStatus
      /\ OperatorsOK /\ ReviewersOK /\ calls \in 0 .. MaxCalls
  BY Parts DEF OInv
<1>2. IInv'
  <2>1. CASE Next
    BY <2>1, NextIInv DEF OInv
  <2>2. CASE UNCHANGED vars
    BY <2>2, StutterIInv DEF OInv
  <2> QED BY <2>1, <2>2
<1>3. ASSUME UNCHANGED <<worker, index>> PROVE OInv'
  <2>1. \A w \in Workers : (Knows(w) => Knows(w)') /\ (Owns(w) => Owns(w)')
    BY <1>3 DEF Knows, Owns, At, Has, Doc, Version, Chunks, batched, effective_batch_size, Positions
  <2>2. Uniform' /\ FitsVersion'
    BY <1>3 DEF OInv, Uniform, FitsVersion, Positions, Chunks
  <2> QED BY <1>2, <2>1, <2>2 DEF OInv, Progress
<1>4. ASSUME NEW o \in Operators, OperatorStep(o) PROVE UNCHANGED <<worker, index>>
  BY <1>1, <1>4, OperatorOK
<1>5. ASSUME NEW r \in Reviewers, ReviewerStep(r) PROVE UNCHANGED <<worker, index>>
  BY <1>5 DEF ReviewerStep, StartAssign, StartReject, Assign, Reject, ReviewWrite, Discard
<1>6. CASE UNCHANGED vars
  BY <1>3, <1>6 DEF vars
<1>7. CASE Next
  <2>1. ASSUME NEW w \in Workers,
               \/ StageStep(w) \/ Crash(w)
               \/ \E e \in Envelopes : Deliver(w, e) \/ DeliverDuplicate(w, e)
        PROVE  OInv'
    BY <1>2, <2>1, WorkerStepOInv DEF OInv
  <2> QED BY <1>3, <1>4, <1>5, <1>7, <2>1 DEF Next
<1> QED BY <1>6, <1>7

\* No document is ever left with the records of two versions, with
\* delete_before_upsert_on_version_change on, as long as no two workers are
\* in the store for the same document at once; how many workers, versions,
\* duplicate deliveries, crashes and partial batches there are does not matter.
THEOREM OrphanFree ==
    ASSUME DeleteOnVersionChange
    PROVE  Spec /\ []Exclusive => []NoOrphans
<1>1. OInv => NoOrphans
  <2> SUFFICES ASSUME OInv, NEW d \in Docs PROVE Cardinality(StoredVersions(d)) <= 1
    BY Zenon DEF NoOrphans
  <2>1. CASE StoredVersions(d) = {}
    BY <2>1, FS_EmptySet
  <2>2. CASE StoredVersions(d) # {}
    <3>1. PICK v : v \in StoredVersions(d)
      BY <2>2
    <3>2. StoredVersions(d) = {v}
      BY <3>1 DEF StoredVersions, OInv, Uniform
    <3>3. Cardinality({v}) = 1
      BY Zenon, FS_Singleton
    <3> QED BY <3>2, <3>3
  <2> QED BY <2>1, <2>2
<1> QED BY <1>1, InitOInv, NextOInv, PTL DEF Spec

\* Under the same condition a receipt is honest whatever the versions: the
\* store holds the chunks of the received version and nothing else.
THEOREM ReceiptHonestExclusive ==
    ASSUME DeleteOnVersionChange
    PROVE  Spec /\ []Exclusive => ReceiptIsHonest
<1> DEFINE Honest == \A w \in Workers : Returns(w) =>
                        /\ rows'[Doc(w)].status = "indexed"
                        /\ StoredExactly(Doc(w), Version(w))
<1>1. OInv /\ [Next]_vars => [Honest]_vars
  <2> SUFFICES ASSUME OInv, Next, NEW w \in Workers, Returns(w)
               PROVE  /\ rows'[Doc(w)].status = "indexed"
                      /\ StoredExactly(Doc(w), Version(w))
    OBVIOUS
  <2>1. IndexExit(w)
    BY ReturnsIsExit DEF OInv
  <2>2. RowsOK /\ WorkersOK /\ Knows(w) /\ Owns(w) /\ FitsVersion
    BY Parts DEF OInv, Progress
  <2>3. Doc(w) \in Docs /\ Version(w) \in Versions /\ Version(w) # None
    BY <2>2, IngestionAssumption DEF Returns, At, WorkersOK, Doc, Version, Envelopes
  <2>4. StoredExactly(Doc(w), Version(w))
    <3> SUFFICES ASSUME NEW p \in Positions
                 PROVE  index[Doc(w)][p] =
                          IF p \in Chunks(Version(w)) THEN Version(w) ELSE None
      BY DEF StoredExactly
    <3>1. p \in Chunks(Version(w)) => index[Doc(w)][p] = Version(w)
      BY <2>2 DEF Knows, Has, Returns
    <3>2. index[Doc(w)][p] \in {Version(w), None}
      BY <2>2 DEF Owns, Returns, At
    <3> QED BY <2>2, <2>3, <3>1, <3>2 DEF FitsVersion
  <2>5. ~Rejected(Doc(w), "indexed", None)
    <3>1. worker'[w].out = "returned"
      BY DEF Returns, IdleWorker
    <3> QED BY <2>1, <2>2, <3>1 DEF IndexExit, Finish, IdleWorker, WorkersOK
  <2> QED BY <2>1, <2>2, <2>3, <2>4, <2>5, ExitIsIndexed DEF IndexExit
<1> QED BY <1>1, InitOInv, NextOInv, PTL DEF Spec, ReceiptIsHonest

\* One worker is enough for the condition, whatever the queue delivers.
COROLLARY OrphanFreeOneWorker ==
    ASSUME DeleteOnVersionChange, \A w, x \in Workers : w = x
    PROVE  Spec => []NoOrphans /\ ReceiptIsHonest
<1>1. Exclusive
  BY DEF Exclusive
<1> QED BY <1>1, OrphanFree, ReceiptHonestExclusive, PTL

-----------------------------------------------------------------------------
(* The life of a document *)

Phase == [d \in Docs |-> PhaseOf(rows[d])]

Searchable == {d \in Docs : Complete(d)}

\* A step writes the records of at most one document, and never a row as well.
LEMMA OneWrite ==
    ASSUME IInv, Next
    PROVE  \/ UNCHANGED index
           \/ /\ UNCHANGED rows
              /\ \E d \in Docs : \A e \in Docs \ {d} : index'[e] = index[e]
<1>1. StoreOK /\ WorkersOK
  BY Parts
<1>2. ASSUME NEW w \in Workers, StageStep(w), index' # index
      PROVE  /\ UNCHANGED rows
             /\ \E d \in Docs : \A e \in Docs \ {d} : index'[e] = index[e]
  <2>1. ~(LoadStep(w) \/ AnalyzeStep(w) \/ ChunkStep(w) \/ EmbedStep(w))
    BY <1>2 DEF LoadStep, AnalyzeStep, ChunkStep, EmbedStep, Load, ParkRecord, Park,
         AnalyzeEnter, AnalyzeExit, AnalyzeTerminalize, AnalyzeTransient,
         ChunkExit, ChunkTerminalize, ChunkTransient,
         EmbedExit, EmbedTerminalize, EmbedTransient
  <2>2. ~(IndexInvalid(w) \/ IndexCheckVersion(w) \/ IndexTransient(w)
             \/ IndexTerminalize(w) \/ IndexExit(w))
    BY <1>2 DEF IndexInvalid, IndexCheckVersion, IndexTransient, IndexTerminalize, IndexExit
  <2>3. IndexDelete(w) \/ IndexUpsert(w) \/ IndexUpsertRetry(w) \/ IndexAdapterRaises(w)
    BY <1>2, <2>1, <2>2 DEF StageStep, IndexStep
  <2>4. UNCHANGED rows
    BY <2>3 DEF IndexDelete, IndexUpsert, IndexUpsertRetry, IndexAdapterRaises
  <2>5. \E f : index' = [index EXCEPT ![Doc(w)] = f]
    BY <1>2, <2>3 DEF IndexDelete, IndexUpsert, IndexUpsertRetry, IndexAdapterRaises, Upserted
  <2>6. Doc(w) \in Docs
    BY <1>1, <2>3 DEF IndexDelete, IndexUpsert, IndexUpsertRetry, IndexAdapterRaises, At,
                      WorkersOK, Doc, Envelopes
  <2> QED BY <1>1, <2>4, <2>5, <2>6 DEF StoreOK
<1>3. ASSUME NEW w \in Workers,
             \/ \E e \in Envelopes : Deliver(w, e) \/ DeliverDuplicate(w, e)
             \/ Crash(w)
      PROVE  UNCHANGED index
  BY <1>3 DEF Deliver, DeliverDuplicate, Crash
<1>4. ASSUME NEW o \in Operators, OperatorStep(o) PROVE UNCHANGED index
  BY <1>4 DEF OperatorStep, StartRequeue, StartArchive, StartBatch,
              Requeue, Archive, BatchNext, BatchRequeue, BatchEnd
<1>5. ASSUME NEW r \in Reviewers, ReviewerStep(r) PROVE UNCHANGED index
  BY <1>5 DEF ReviewerStep, StartAssign, StartReject, Assign, Reject, ReviewWrite, Discard
<1> QED BY <1>2, <1>3, <1>4, <1>5 DEF Next

\* The records of one document change: it may have become complete.
LEMMA StoreStep ==
    ASSUME SingleVersion, StoreGrows, UNCHANGED rows,
           NEW d \in Docs, \A e \in Docs \ {d} : index'[e] = index[e]
    PROVE  L!Complete(d) \/ (Phase' = Phase /\ Searchable' = Searchable)
<1>1. Phase' = Phase
  BY DEF Phase, PhaseOf
<1>2. \A e \in Docs \ {d} : Complete(e)' <=> Complete(e)
  BY DEF Complete, StoredExactly, Positions, Chunks
<1>3. Complete(d) => Complete(d)'
  BY CompleteStays DEF Complete
<1>4. Searchable' = Searchable \/ Searchable' = Searchable \cup {d}
  BY <1>2, <1>3 DEF Searchable
<1> QED BY <1>1, <1>4 DEF L!Complete, Phase, Searchable

\* The moves of Lifecycle, on the mapped variables.
LEMMA MoveSteps ==
    ASSUME RowsOK, UNCHANGED index, NEW d \in Docs,
           \A e \in Docs \ {d} : rows'[e] = rows[e], rows' \in [Docs -> LedgerRow \cup {None}],
           NEW from, PhaseOf(rows[d]) \in from, NEW to, PhaseOf(rows'[d]) = to
    PROVE  L!Move(d, from, to)
<1>1. Searchable' = Searchable
  BY DEF Searchable, Complete, StoredExactly, Positions, Chunks
<1>2. Phase' = [Phase EXCEPT ![d] = to]
  BY DEF Phase, PhaseOf
<1>3. Phase[d] \in from
  BY DEF Phase
<1> QED BY <1>1, <1>2, <1>3 DEF L!Move, Phase, Searchable

\* A request the ledger accepts stays within a phase or is a move.
LEMMA LegalMoves ==
    ASSUME NEW row \in LedgerRow, NEW to \in Status, NEW code,
           NEW new \in LedgerRow, new.status = to, validate_transition(row, to, to, code)
    PROVE  \/ PhaseOf(new) = PhaseOf(row)
           \/ PhaseOf(row) = "active" /\ PhaseOf(new) = "review"
           \/ PhaseOf(row) \in {"review", "failed"} /\ PhaseOf(new) = "active"
           \/ PhaseOf(row) \in {"active", "review"} /\ PhaseOf(new) = "failed"
           \/ PhaseOf(row) = "failed" /\ PhaseOf(new) = "archived"
           \/ PhaseOf(row) = "active" /\ PhaseOf(new) = "published"
<1>1. row # None /\ new # None
  BY NoneIsNoRow
<1>2. row.status \in Status
  BY DEF LedgerRow
<1> QED BY <1>1, <1>2 DEF validate_transition, LEGAL_TRANSITIONS, TERMINAL_STATUSES, PhaseOf,
                          Status

\* A step that writes the rows is a move of one document or none.
LEMMA RowStep ==
    ASSUME RowsOK, RowsOK', UNCHANGED index, RowsStep, IndexedIsComplete'
    PROVE  L!Next \/ (Phase' = Phase /\ Searchable' = Searchable)
<1>1. Searchable' = Searchable
  BY DEF Searchable, Complete, StoredExactly, Positions, Chunks
<1>2. CASE UNCHANGED rows
  BY <1>1, <1>2 DEF Phase, PhaseOf
<1>3. ASSUME NEW d \in Docs, create(d), rows' # rows PROVE L!Next
  <2>1. /\ rows[d] = None /\ rows'[d] = new_row
        /\ \A e \in Docs \ {d} : rows'[e] = rows[e]
    BY <1>3 DEF create, RowsOK
  <2>2. PhaseOf(rows[d]) = "absent" /\ PhaseOf(rows'[d]) = "active"
    <3>1. new_row \in LedgerRow
      BY DEF new_row, LedgerRow, Status
    <3>2. new_row.status = "pending" /\ new_row # None
      BY <3>1, NoneIsNoRow DEF new_row
    <3> QED BY <2>1, <3>2 DEF PhaseOf
  <2>3. L!Move(d, {"absent"}, "active")
    BY <2>1, <2>2, MoveSteps DEF RowsOK
  <2> QED BY <2>3 DEF L!Next, L!Arrive
<1>4. ASSUME NEW d \in Docs, NEW to \in Status, NEW code \in Codes \cup {None},
             NEW scenario \in Scenarios \cup {None},
             transition(d, to, code, scenario), rows' # rows
      PROVE  L!Next \/ Phase' = Phase
  <2>1. /\ validate_transition(rows[d], to, to, code)
        /\ rows'[d] = next_row(rows[d], to, code, scenario)
        /\ \A e \in Docs \ {d} : rows'[e] = rows[e]
    BY <1>4 DEF transition, Accepted, RowsOK
  <2>2. rows[d] \in LedgerRow /\ rows'[d] \in LedgerRow /\ rows'[d].status = to
    <3>1. rows[d] \in LedgerRow
      BY <2>1 DEF validate_transition, RowsOK
    <3>2. rows'[d] \in LedgerRow
      BY <1>4, <2>1, <3>1, NextRowType
    <3>3. rows'[d].status = to
      BY <2>1, NextRowFields
    <3> QED BY <3>1, <3>2, <3>3
  <2> DEFINE from == PhaseOf(rows[d])
             next == PhaseOf(rows'[d])
  <2>3. ASSUME NEW S, from \in S PROVE L!Move(d, S, next)
    BY <2>1, <2>3, MoveSteps DEF RowsOK
  <2>4. CASE next = from
    BY <2>1, <2>4 DEF Phase, PhaseOf
  <2>5. CASE from = "active" /\ next = "review"
    BY <2>3, <2>5 DEF L!Next, L!ParkForReview
  <2>6. CASE from \in {"review", "failed"} /\ next = "active"
    BY <2>3, <2>6 DEF L!Next, L!Resume
  <2>7. CASE from \in {"active", "review"} /\ next = "failed"
    BY <2>3, <2>7 DEF L!Next, L!Fail
  <2>8. CASE from = "failed" /\ next = "archived"
    BY <2>3, <2>8 DEF L!Next, L!GiveUp
  <2>9. CASE from = "active" /\ next = "published"
    <3>1. rows'[d] # None /\ rows'[d].status = "indexed"
      <4>1. rows'[d] # None /\ rows'[d].status \in Status
        BY <2>2, NoneIsNoRow DEF LedgerRow
      <4> QED BY <2>9, <4>1 DEF PhaseOf, Status
    <3>2. d \in Searchable'
      BY <3>1 DEF IndexedIsComplete, Searchable
    <3>3. d \in Searchable
      BY <1>1, <3>2
    <3> QED BY <2>3, <2>9, <3>3 DEF L!Next, L!Publish, Searchable
  <2> QED BY <2>1, <2>2, <2>4, <2>5, <2>6, <2>7, <2>8, <2>9, LegalMoves
<1> QED BY <1>1, <1>2, <1>3, <1>4 DEF RowsStep, Request

\* Nothing is searchable at first: every version has a chunk.
LEMMA InitLifecycle == Init => L!Init
<1> SUFFICES ASSUME Init PROVE L!Init
  OBVIOUS
<1>1. Phase = [d \in Docs |-> "absent"]
  BY DEF Init, LedgerInit, Phase, PhaseOf
<1>2. ASSUME NEW d \in Docs, NEW v \in Versions, StoredExactly(d, v) PROVE FALSE
  <2>1. 1 \in Chunks(v) /\ 1 \in Positions
    BY IngestionAssumption DEF Chunks, Positions
  <2>2. index[d][1] = None
    BY <2>1 DEF Init
  <2> QED BY <1>2, <2>1, <2>2, IngestionAssumption DEF StoredExactly
<1>3. Searchable = {}
  BY <1>2 DEF Searchable, Complete
<1> QED BY <1>1, <1>3 DEF L!Init, Phase, Searchable

\* With one content version the pipeline implements the life cycle a
\* document's owner is promised, whatever workers, operators and reviewers do.
THEOREM LifecycleImplemented == ASSUME SingleVersion PROVE Spec => ImplementsLifecycle
<1>1. CInv /\ CInv' /\ [Next]_vars => [L!Next]_<<Phase, Searchable>>
  <2> SUFFICES ASSUME CInv, CInv', [Next]_vars
               PROVE  L!Next \/ (Phase' = Phase /\ Searchable' = Searchable)
    OBVIOUS
  <2>1. CASE UNCHANGED vars
    BY <2>1 DEF vars, Phase, PhaseOf, Searchable, Complete, StoredExactly, Positions, Chunks
  <2>2. CASE Next
    <3>1. RowsOK /\ StoreGrows
      BY <2>2, Parts, Grows DEF CInv
    <3>2. RowsOK' /\ IndexedIsComplete'
      BY <2>2, <3>1, StepIsRequest, RequestKeeps DEF CInv, IInv, SingleVersion
    <3>3. CASE UNCHANGED index
      BY <2>2, <3>1, <3>2, <3>3, RowStep, StepIsRequest DEF CInv, IInv
    <3>4. CASE ~UNCHANGED index
      <4>1. /\ UNCHANGED rows
            /\ \E d \in Docs : \A e \in Docs \ {d} : index'[e] = index[e]
        BY <2>2, <3>4, OneWrite DEF CInv
      <4> QED BY <3>1, <4>1, StoreStep DEF L!Next
    <3> QED BY <3>3, <3>4
  <2> QED BY <2>1, <2>2
<1> QED BY <1>1, InitLifecycle, InitCInv, NextCInv, PTL
        DEF Spec, ImplementsLifecycle, L!Spec, Phase, Searchable

=============================================================================
