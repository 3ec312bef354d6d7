---------------------------- MODULE PipelineProofs ----------------------------
(***************************************************************************)
(* Theorems about the ledger, for every caller, and about the composed     *)
(* pipeline, for every number of workers, operators, reviewers, documents, *)
(* versions and chunks.                                                    *)
(*                                                                         *)
(* The argument: one ledger request keeps the rows typed and the final     *)
(* rows frozen, whoever makes it.  Every step of the pipeline leaves the   *)
(* rows alone, creates a row, or is one ledger request whose error code    *)
(* fits the status it asks for (StepIsRequest).                            *)
(***************************************************************************)
EXTENDS Pipeline, TLAPS

(* The ledger alone *)

\* A legal request leaves a well-typed row.
LEMMA NextRowFields ==
    ASSUME NEW row, NEW to, NEW code, NEW scenario
    PROVE  LET next == next_row(row, to, code, scenario)
           IN  /\ next.status = to
               /\ next.last_error_code = next_error_code(row, to, code)
               /\ next.assigned_scenario_id = next_assigned_scenario_id(row, scenario)
BY DEF next_row

LEMMA NextRowType ==
    ASSUME NEW row \in LedgerRow, NEW to \in Status,
           NEW code \in Codes \cup {None}, NEW scenario \in Scenarios \cup {None}
    PROVE  next_row(row, to, code, scenario) \in LedgerRow
<1>1. next_attempts(row, to) \in Nat
  BY DEF next_attempts, LedgerRow
<1>2. next_error_code(row, to, code) \in Codes \cup {None}
  BY DEF next_error_code, LedgerRow
<1>3. next_assigned_scenario_id(row, scenario) \in Scenarios \cup {None}
  BY DEF next_assigned_scenario_id, LedgerRow
<1> QED BY <1>1, <1>2, <1>3 DEF next_row, LedgerRow

\* create() inserts the initial row or keeps the existing one.
LEMMA CreateType ==
    ASSUME RowsOK, NEW d \in Docs, create(d)
    PROVE  RowsOK'
<1>1. new_row \in LedgerRow
  BY DEF new_row, LedgerRow, Status
<1> QED BY <1>1 DEF RowsOK, create

\* transition() keeps every row well typed, whether or not it is accepted.
LEMMA TransitionType ==
    ASSUME RowsOK, NEW d \in Docs, NEW to \in Status,
           NEW code \in Codes \cup {None}, NEW scenario \in Scenarios \cup {None},
           transition(d, to, code, scenario)
    PROVE  RowsOK'
<1>1. CASE Accepted(d, to, code)
  <2>1. rows[d] \in LedgerRow
    BY <1>1 DEF Accepted, validate_transition, RowsOK
  <2>2. next_row(rows[d], to, code, scenario) \in LedgerRow
    BY <2>1, NextRowType
  <2> QED BY <1>1, <2>2 DEF transition, RowsOK
<1>2. CASE ~Accepted(d, to, code)
  BY <1>2 DEF transition, RowsOK
<1> QED BY <1>1, <1>2

\* No request for an `indexed' or `archived' row is ever accepted.
LEMMA FinalRejects ==
    ASSUME NEW d \in Docs, FinalRow(d), NEW to, NEW code
    PROVE  ~Accepted(d, to, code)
BY DEF FinalRow, Accepted, validate_transition, TERMINAL_STATUSES, LEGAL_TRANSITIONS

LEMMA CreateKeepsFinal ==
    ASSUME RowsOK, NEW d \in Docs, create(d)
    PROVE  FinalRowsStay
BY DEF create, FinalRowsStay, FinalRow, RowsOK

LEMMA TransitionKeepsFinal ==
    ASSUME RowsOK, NEW d \in Docs, NEW to, NEW code, NEW scenario,
           transition(d, to, code, scenario)
    PROVE  FinalRowsStay
<1> SUFFICES ASSUME NEW e \in Docs, FinalRow(e)
             PROVE  rows'[e] = rows[e]
  BY DEF FinalRowsStay
<1>1. CASE Accepted(d, to, code)
  <2>1. d # e
    BY <1>1, FinalRejects
  <2> QED BY <1>1, <2>1 DEF transition, RowsOK
<1>2. CASE ~Accepted(d, to, code)
  BY <1>2 DEF transition
<1> QED BY <1>1, <1>2

-----------------------------------------------------------------------------
\* The ledger's rows stay well typed under any requests.
THEOREM LedgerTypeCorrect == LedgerSpec => []RowsOK
<1>1. LedgerInit => RowsOK
  BY DEF LedgerInit, RowsOK
<1>2. RowsOK /\ [LedgerNext]_rows => RowsOK'
  <2> SUFFICES ASSUME RowsOK, [LedgerNext]_rows PROVE RowsOK'
    OBVIOUS
  <2>1. CASE UNCHANGED rows
    BY <2>1 DEF RowsOK
  <2>2. CASE LedgerNext
    BY <2>2, CreateType, TransitionType DEF LedgerNext
  <2> QED BY <2>1, <2>2
<1> QED BY <1>1, <1>2, PTL DEF LedgerSpec

\* `indexed' and `archived' rows are frozen under any requests.
THEOREM LedgerFinalRowsStay == LedgerSpec => [][FinalRowsStay]_rows
<1>1. RowsOK /\ [LedgerNext]_rows => [FinalRowsStay]_rows
  BY CreateKeepsFinal, TransitionKeepsFinal DEF LedgerNext
<1> QED BY <1>1, LedgerTypeCorrect, PTL DEF LedgerSpec

-----------------------------------------------------------------------------
(* The pipeline *)

\* One well-formed request, as the components make them: only the end of the
\* index stage asks for `indexed', and only a human call, which moves no
\* worker, asks for `pending' or `archived'.
Request ==
    \E d \in Docs, to \in Status, code \in Codes \cup {None},
       scenario \in Scenarios \cup {None} :
       /\ ErrorFits(to, code)
       /\ to = "indexed" => \E w \in Workers : Doc(w) = d /\ IndexExit(w)
       /\ to \in {"pending", "archived"} => UNCHANGED worker
       /\ transition(d, to, code, scenario)

RowsStep == \/ UNCHANGED rows
            \/ \E d \in Docs : create(d)
            \/ Request

IInv == TypeOK /\ CallsHaveDocument /\ ErrorMatchesStatus

\* Every code a component passes fits the status it passes it with.
LEMMA CodesFit ==
    /\ \A s \in STAGES : /\ Permanent(s) \in FatalCodes \cap Codes
                         /\ Transient(s) \in Codes
                         /\ s \in Status
                         /\ ErrorFits(s, Transient(s))
                         /\ ErrorFits(s, None)
                         /\ ErrorFits("failed", Permanent(s))
    /\ ErrorFits("failed", VERTICAL_REJECTED)
    /\ VERTICAL_REJECTED \in Codes
    /\ ErrorFits("needs_review", VERTICAL_UNRESOLVED)
    /\ VERTICAL_UNRESOLVED \in Codes
    /\ ErrorFits("pending", None)
    /\ ErrorFits("indexed", None)
    /\ \A code \in FatalCodes : ErrorFits("archived", code) /\ code \in Codes
    /\ {"pending", "failed", "needs_review", "indexed", "archived"} \subseteq Status
    /\ {"analyzing", "chunking", "embedding", "indexing"} = STAGES
BY DEF STAGES, Permanent, Transient, FatalCodes, Codes, Status, ErrorFits,
       VERTICAL_REJECTED, VERTICAL_UNRESOLVED

\* A busy worker's document is one of Docs.
LEMMA BusyWorker ==
    ASSUME CallsHaveDocument, NEW w \in Workers, worker[w].pc # "idle"
    PROVE  Doc(w) \in Docs /\ Version(w) \in Versions
BY DEF CallsHaveDocument, Envelopes, Doc, Version

\* What a write of the row by a stage amounts to.
LEMMA StageRequest ==
    ASSUME CallsHaveDocument, NEW w \in Workers, worker[w].pc # "idle",
           NEW to \in Status, NEW code \in Codes \cup {None},
           ErrorFits(to, code), transition(Doc(w), to, code, None),
           to = "indexed" => IndexExit(w), to \notin {"pending", "archived"}
    PROVE  Request
BY BusyWorker DEF Request

\* Steps of a worker.
LEMMA StageStepIsRequest ==
    ASSUME CallsHaveDocument, NEW w \in Workers, StageStep(w)
    PROVE  RowsStep
<1> USE DEF RowsStep
<1>1. CASE LoadStep(w)
  <2>1. CASE Load(w)
    BY <2>1 DEF Load
  <2>2. CASE ParkRecord(w)
    BY <2>2 DEF ParkRecord
  <2>3. CASE Park(w)
    BY <2>3, StageRequest, CodesFit DEF Park, At, TriagedRaise
  <2> QED BY <1>1, <2>1, <2>2, <2>3 DEF LoadStep
<1>2. CASE AnalyzeStep(w)
  <2>1. CASE AnalyzeEnter(w)
    BY SMTT(30), <2>1, StageRequest, CodesFit DEF AnalyzeEnter, At
  <2>2. CASE AnalyzeExit(w)
    BY <2>2, StageRequest, CodesFit DEF AnalyzeExit, At, TriagedExit
  <2>3. CASE AnalyzeTerminalize(w)
    BY <2>3, StageRequest, CodesFit DEF AnalyzeTerminalize, Parsing, At, UntriagedRaise
  <2>4. CASE AnalyzeTransient(w)
    BY <2>4, StageRequest, CodesFit DEF AnalyzeTransient, Parsing, At, UntriagedRaise
  <2> QED BY <1>2, <2>1, <2>2, <2>3, <2>4 DEF AnalyzeStep
<1>3. CASE ChunkStep(w)
  <2>1. CASE ChunkExit(w)
    BY <2>1, StageRequest, CodesFit DEF ChunkExit, At, TriagedExit
  <2>2. CASE ChunkTerminalize(w)
    BY <2>2, StageRequest, CodesFit DEF ChunkTerminalize, At, TriagedRaise
  <2>3. CASE ChunkTransient(w)
    BY <2>3, StageRequest, CodesFit DEF ChunkTransient, At, UntriagedRaise
  <2> QED BY <1>3, <2>1, <2>2, <2>3 DEF ChunkStep
<1>4. CASE EmbedStep(w)
  <2>1. CASE EmbedExit(w)
    BY <2>1, StageRequest, CodesFit DEF EmbedExit, At, TriagedExit
  <2>2. CASE EmbedTerminalize(w)
    BY <2>2, StageRequest, CodesFit DEF EmbedTerminalize, At, TriagedRaise
  <2>3. CASE EmbedTransient(w)
    BY <2>3, StageRequest, CodesFit DEF EmbedTransient, At, UntriagedRaise
  <2> QED BY <1>4, <2>1, <2>2, <2>3 DEF EmbedStep
<1>5. CASE IndexStep(w)
  <2>1. CASE IndexInvalid(w)
    BY <2>1, StageRequest, CodesFit DEF IndexInvalid, At, TriagedRaise
  <2>2. CASE IndexTransient(w)
    BY <2>2, StageRequest, CodesFit DEF IndexTransient, At, TriagedRaise
  <2>3. CASE IndexTerminalize(w)
    BY <2>3, StageRequest, CodesFit DEF IndexTerminalize, At, TriagedRaise
  <2>4. CASE IndexExit(w)
    BY <2>4, StageRequest, CodesFit DEF IndexExit, At
  <2>5. CASE IndexCheckVersion(w) \/ IndexDelete(w)
    BY <2>5 DEF IndexCheckVersion, IndexDelete
  <2>6. CASE IndexUpsert(w) \/ IndexUpsertRetry(w) \/ IndexAdapterRaises(w)
    BY <2>6 DEF IndexUpsert, IndexUpsertRetry, IndexAdapterRaises
  <2> QED BY <1>5, <2>1, <2>2, <2>3, <2>4, <2>5, <2>6 DEF IndexStep
<1> QED BY <1>1, <1>2, <1>3, <1>4, <1>5 DEF StageStep

\* Steps of an operator and of a reviewer.
LEMMA HumanStepIsRequest ==
    ASSUME TypeOK, CallsHaveDocument,
           \/ \E o \in Operators : OperatorStep(o)
           \/ \E r \in Reviewers : ReviewerStep(r)
    PROVE  RowsStep
<1> USE DEF RowsStep
<1>1. ASSUME NEW o \in Operators, OperatorStep(o) PROVE RowsStep
  <2>1. CASE StartRequeue(o) \/ StartArchive(o) \/ StartBatch(o)
    BY SMTT(30), <2>1 DEF StartRequeue, StartArchive, StartBatch
  <2>2. CASE BatchNext(o) \/ BatchEnd(o)
    BY <2>2 DEF BatchNext, BatchEnd
  <2>3. CASE Requeue(o) \/ BatchRequeue(o)
    <3>1. /\ operator[o].doc \in Docs
          /\ transition(operator[o].doc, "pending", None, None)
          /\ UNCHANGED worker
      BY <2>3 DEF Requeue, BatchRequeue, CallsHaveDocument
    <3> QED BY <3>1, CodesFit DEF Request
  <2>4. CASE Archive(o)
    <3>1. /\ operator[o].doc \in Docs
          /\ operator[o].code \in FatalCodes
          /\ transition(operator[o].doc, "archived", operator[o].code, None)
          /\ UNCHANGED worker
      BY <2>4 DEF Archive, CallsHaveDocument
    <3> QED BY <3>1, CodesFit DEF Request
  <2> QED BY <1>1, <2>1, <2>2, <2>3, <2>4 DEF OperatorStep
<1>2. ASSUME NEW r \in Reviewers, ReviewerStep(r) PROVE RowsStep
  <2>1. CASE StartAssign(r) \/ StartReject(r) \/ Discard(r)
    BY <2>1 DEF StartAssign, StartReject, Discard
  <2>2. reviewer[r].scenario \in Scenarios \cup {None}
    BY DEF TypeOK, ReviewerState
  <2>3. CASE Assign(r)
    <3>1. /\ reviewer[r].doc \in Docs
          /\ transition(reviewer[r].doc, "pending", None, reviewer[r].scenario)
          /\ UNCHANGED worker
      BY <2>3 DEF Assign, ReviewWrite, CallsHaveDocument
    <3> QED BY <2>2, <3>1, CodesFit DEF Request
  <2>4. CASE Reject(r)
    <3>1. /\ reviewer[r].doc \in Docs
          /\ transition(reviewer[r].doc, "failed", VERTICAL_REJECTED, reviewer[r].scenario)
      BY <2>4 DEF Reject, ReviewWrite, CallsHaveDocument
    <3> QED BY <2>2, <3>1, CodesFit DEF Request
  <2> QED BY <1>2, <2>1, <2>3, <2>4 DEF ReviewerStep
<1> QED BY <1>1, <1>2

-----------------------------------------------------------------------------
\* Every step of the system is at most one well-formed ledger request.
LEMMA StepIsRequest ==
    ASSUME TypeOK, CallsHaveDocument, Next
    PROVE  RowsStep
<1>1. ASSUME NEW w \in Workers, NEW e \in Envelopes,
             Deliver(w, e) \/ DeliverDuplicate(w, e)
      PROVE  RowsStep
  BY <1>1 DEF Deliver, DeliverDuplicate, Take, Envelopes, RowsStep
<1>2. ASSUME NEW w \in Workers, Crash(w) PROVE RowsStep
  BY <1>2 DEF Crash, RowsStep
<1> QED BY <1>1, <1>2, StageStepIsRequest, HumanStepIsRequest DEF Next

\* What one request does to the rows: types, fitting errors, frozen final rows.
LEMMA RequestKeeps ==
    ASSUME RowsOK, ErrorMatchesStatus, RowsStep
    PROVE  /\ RowsOK'
           /\ ErrorMatchesStatus'
           /\ FinalRowsStay
           /\ [LedgerNext]_rows
<1>1. CASE UNCHANGED rows
  BY <1>1 DEF RowsOK, ErrorMatchesStatus, FinalRowsStay
<1>2. ASSUME NEW d \in Docs, create(d)
      PROVE  RowsOK' /\ ErrorMatchesStatus' /\ FinalRowsStay /\ LedgerNext
  <2>1. ErrorMatchesStatus'
    BY <1>2, CodesFit DEF create, new_row, RowsOK, ErrorMatchesStatus
  <2> QED BY <1>2, <2>1, CreateType, CreateKeepsFinal DEF LedgerNext
<1>3. ASSUME NEW d \in Docs, NEW to \in Status, NEW code \in Codes \cup {None},
             NEW scenario \in Scenarios \cup {None},
             ErrorFits(to, code), transition(d, to, code, scenario)
      PROVE  RowsOK' /\ ErrorMatchesStatus' /\ FinalRowsStay /\ LedgerNext
  <2>1. ErrorMatchesStatus'
    <3> SUFFICES ASSUME NEW e \in Docs, rows'[e] # None
                 PROVE  ErrorFits(rows'[e].status, rows'[e].last_error_code)
      BY DEF ErrorMatchesStatus
    <3>1. CASE e = d /\ Accepted(d, to, code)
      <4>1. rows[d] # None /\ ErrorFits(rows[d].status, rows[d].last_error_code)
        BY <3>1 DEF Accepted, validate_transition, ErrorMatchesStatus
      <4>2. rows'[d] = next_row(rows[d], to, code, scenario)
        BY <1>3, <3>1 DEF transition, RowsOK
      <4>3. /\ rows'[d].status = to
            /\ rows'[d].last_error_code = next_error_code(rows[d], to, code)
        BY <4>2 DEF next_row
      <4> QED BY <1>3, <3>1, <4>1, <4>3 DEF next_error_code
    <3>2. CASE ~(e = d /\ Accepted(d, to, code))
      <4>1. rows'[e] = rows[e]
        BY <1>3, <3>2 DEF transition, RowsOK
      <4> QED BY <4>1 DEF ErrorMatchesStatus
    <3> QED BY <3>1, <3>2
  <2> QED BY <1>3, <2>1, TransitionType, TransitionKeepsFinal DEF LedgerNext
<1> QED BY <1>1, <1>2, <1>3 DEF RowsStep, Request

-----------------------------------------------------------------------------
(* Types.  The workers' part, the store's part and the humans' part. *)

WorkersOK ==
    /\ worker \in [Workers -> WorkerState]
    /\ \A w \in Workers : worker[w].pc # "idle" => worker[w].env \in Envelopes

StoreOK ==
    /\ index \in [Docs -> [Positions -> Versions \cup {None}]]
    /\ registry \subseteq Docs

QueueOK == faults \in 0 .. MaxFaults /\ duplicates \in 0 .. MaxDuplicates

OperatorsOK ==
    /\ operator \in [Operators -> OperatorState]
    /\ \A o \in Operators :
          /\ operator[o].pc \in {"requeue", "archive", "batch_requeue"} =>
                operator[o].doc \in Docs
          /\ operator[o].pc = "archive" => operator[o].code \in FatalCodes

ReviewersOK ==
    /\ reviewer \in [Reviewers -> ReviewerState]
    /\ \A r \in Reviewers : reviewer[r].pc # "idle" => reviewer[r].doc \in Docs

\* The parts make up the invariant.
LEMMA Parts ==
    IInv <=> /\ RowsOK /\ ErrorMatchesStatus /\ WorkersOK /\ StoreOK /\ QueueOK
             /\ OperatorsOK /\ ReviewersOK /\ calls \in 0 .. MaxCalls
BY DEF IInv, TypeOK, CallsHaveDocument, RowsOK, WorkersOK, StoreOK, QueueOK,
       OperatorsOK, ReviewersOK

LEMMA GotoOK ==
    ASSUME WorkersOK, NEW w \in Workers, NEW pc \in WorkerPC,
           worker[w].pc # "idle", Goto(w, pc)
    PROVE  WorkersOK'
BY DEF WorkersOK, Goto, WorkerState

LEMMA FinishOK ==
    ASSUME WorkersOK, NEW w \in Workers, NEW out \in Outcomes, Finish(w, out)
    PROVE  WorkersOK'
<1>1. IdleWorker(out) \in WorkerState
  BY DEF IdleWorker, WorkerState, WorkerPC
<1> QED BY <1>1 DEF WorkersOK, Finish, IdleWorker

\* A write of the row by a stage leaves the worker well formed.
LEMMA WriteOK ==
    ASSUME WorkersOK, NEW w \in Workers, worker[w].pc # "idle",
           NEW to, NEW code, NEW next \in WorkerPC,
           \/ TriagedExit(w, to, next)
           \/ TriagedRaise(w, to, code)
           \/ UntriagedRaise(w, to, code)
    PROVE  WorkersOK'
<1>1. {"error", "ledger_invalid"} \subseteq Outcomes
  BY DEF Outcomes
<1> QED BY <1>1, GotoOK, FinishOK DEF TriagedExit, TriagedRaise, UntriagedRaise

LEMMA UpsertedOK ==
    ASSUME StoreOK, NEW d \in Docs, NEW v \in Versions, NEW ps
    PROVE  Upserted(d, v, ps) \in [Docs -> [Positions -> Versions \cup {None}]]
BY DEF StoreOK, Upserted

LEMMA StartUpsertOK ==
    ASSUME WorkersOK, NEW w \in Workers, worker[w].pc # "idle", StartUpsert(w)
    PROVE  WorkersOK'
BY ZenonT(30) DEF WorkersOK, StartUpsert, WorkerState, WorkerPC

LEMMA NextBatchOK ==
    ASSUME WorkersOK, NEW w \in Workers, worker[w].pc # "idle", NextBatch(w)
    PROVE  WorkersOK'
<1>1. worker[w].batch + 1 \in Nat
  BY DEF WorkersOK, WorkerState
<1> QED BY <1>1 DEF WorkersOK, NextBatch, WorkerState, WorkerPC

\* A budgeted fault keeps the counter within its bound.
LEMMA FaultOK ==
    ASSUME QueueOK, Fault, UNCHANGED duplicates
    PROVE  QueueOK'
BY IngestionAssumption DEF QueueOK, Fault

\* The load, analyze, chunk and embed stages.
LEMMA EarlyStageOK ==
    ASSUME WorkersOK, StoreOK, QueueOK, NEW w \in Workers,
           LoadStep(w) \/ AnalyzeStep(w) \/ ChunkStep(w) \/ EmbedStep(w)
    PROVE  WorkersOK' /\ StoreOK' /\ QueueOK' /\ UNCHANGED humanVars
<1>1. {"error", "ledger_invalid"} \subseteq Outcomes /\ "error" \in Outcomes
  BY DEF Outcomes
<1>2. {"analyze", "parse", "parse_lost", "chunk", "embed", "index",
       "park", "park_record"} \subseteq WorkerPC
  BY DEF WorkerPC
<1>3. CASE LoadStep(w)
  <2>1. CASE Load(w)
    <3>1. WorkersOK'
      BY <1>1, <1>2, <2>1, GotoOK, FinishOK DEF Load, At
    <3> QED BY <2>1, <3>1 DEF Load, StoreOK, QueueOK, queueVars
  <2>2. CASE ParkRecord(w)
    <3>1. WorkersOK'
      BY <1>2, <2>2, GotoOK DEF ParkRecord, At
    <3>2. Doc(w) \in Docs
      BY <2>2 DEF ParkRecord, At, WorkersOK, Doc, Envelopes
    <3> QED BY <2>2, <3>1, <3>2 DEF ParkRecord, StoreOK, QueueOK, queueVars
  <2>3. CASE Park(w)
    <3>1. WorkersOK'
      BY <1>2, <2>3, WriteOK DEF Park, At
    <3> QED BY <2>3, <3>1 DEF Park, StoreOK, QueueOK, queueVars
  <2> QED BY <1>3, <2>1, <2>2, <2>3 DEF LoadStep
<1>4. CASE AnalyzeStep(w)
  <2>1. CASE AnalyzeEnter(w) \/ AnalyzeExit(w)
    <3>1. CASE AnalyzeEnter(w)
      <4>1. WorkersOK'
        BY <1>1, <1>2, <3>1, GotoOK, FinishOK DEF AnalyzeEnter, At
      <4> QED BY <3>1, <4>1 DEF AnalyzeEnter, StoreOK, QueueOK, queueVars
    <3>2. CASE AnalyzeExit(w)
      <4>1. WorkersOK'
        BY <1>2, <3>2, GotoOK, WriteOK DEF AnalyzeExit, At
      <4> QED BY <3>2, <4>1 DEF AnalyzeExit, StoreOK, QueueOK, queueVars
    <3> QED BY <2>1, <3>1, <3>2
  <2>2. CASE AnalyzeTerminalize(w)
    <3>1. WorkersOK'
      BY <1>2, <2>2, WriteOK DEF AnalyzeTerminalize, Parsing, At
    <3> QED BY <2>2, <3>1 DEF AnalyzeTerminalize, StoreOK, QueueOK, queueVars
  <2>3. CASE AnalyzeTransient(w)
    <3>1. WorkersOK'
      BY <1>2, <2>3, WriteOK DEF AnalyzeTransient, Parsing, At
    <3> QED BY <2>3, <3>1, FaultOK DEF AnalyzeTransient, StoreOK
  <2> QED BY <1>4, <2>1, <2>2, <2>3 DEF AnalyzeStep
<1>5. CASE ChunkStep(w)
  <2>1. CASE ChunkExit(w) \/ ChunkTerminalize(w)
    <3>1. WorkersOK'
      BY <1>2, <2>1, WriteOK DEF ChunkExit, ChunkTerminalize, At
    <3> QED BY <2>1, <3>1 DEF ChunkExit, ChunkTerminalize, StoreOK, QueueOK, queueVars
  <2>2. CASE ChunkTransient(w)
    <3>1. WorkersOK'
      BY <1>2, <2>2, WriteOK DEF ChunkTransient, At
    <3> QED BY <2>2, <3>1, FaultOK DEF ChunkTransient, StoreOK
  <2> QED BY <1>5, <2>1, <2>2 DEF ChunkStep
<1>6. CASE EmbedStep(w)
  <2>1. CASE EmbedExit(w) \/ EmbedTerminalize(w)
    <3>1. WorkersOK'
      BY <1>2, <2>1, WriteOK DEF EmbedExit, EmbedTerminalize, At
    <3> QED BY <2>1, <3>1 DEF EmbedExit, EmbedTerminalize, StoreOK, QueueOK, queueVars
  <2>2. CASE EmbedTransient(w)
    <3>1. WorkersOK'
      BY <1>2, <2>2, WriteOK DEF EmbedTransient, At
    <3> QED BY <2>2, <3>1, FaultOK DEF EmbedTransient, StoreOK
  <2> QED BY <1>6, <2>1, <2>2 DEF EmbedStep
<1> QED BY <1>3, <1>4, <1>5, <1>6

\* The index stage.
LEMMA IndexStageOK ==
    ASSUME WorkersOK, StoreOK, QueueOK, NEW w \in Workers, IndexStep(w)
    PROVE  WorkersOK' /\ StoreOK' /\ QueueOK' /\ UNCHANGED humanVars
<1>1. {"delete", "index_transient", "index_permanent", "upsert_retry", "idle"} \subseteq WorkerPC
  BY DEF WorkerPC
<1>2. worker[w].pc # "idle" => Doc(w) \in Docs /\ Version(w) \in Versions
  BY DEF WorkersOK, Doc, Version, Envelopes
<1>3. CASE IndexInvalid(w) \/ IndexTransient(w) \/ IndexTerminalize(w)
  <2>1. WorkersOK'
    BY <1>1, <1>3, WriteOK DEF IndexInvalid, IndexTransient, IndexTerminalize, At
  <2> QED BY <1>3, <2>1
          DEF IndexInvalid, IndexTransient, IndexTerminalize, StoreOK, QueueOK, queueVars
<1>4. CASE IndexExit(w)
  <2>1. {"returned", "ledger_invalid"} \subseteq Outcomes
    BY DEF Outcomes
  <2>2. WorkersOK'
    BY <1>4, <2>1, FinishOK DEF IndexExit
  <2> QED BY <1>4, <2>2 DEF IndexExit, StoreOK, QueueOK, queueVars
<1>5. CASE IndexCheckVersion(w)
  <2>1. WorkersOK'
    BY <1>1, <1>5, GotoOK, StartUpsertOK DEF IndexCheckVersion, At
  <2> QED BY <1>5, <2>1 DEF IndexCheckVersion, StoreOK, QueueOK, queueVars
<1>6. CASE IndexDelete(w)
  <2>1. WorkersOK'
    BY <1>6, StartUpsertOK DEF IndexDelete, At
  <2> QED BY <1>6, <2>1 DEF IndexDelete, StoreOK, QueueOK, queueVars
<1>7. CASE IndexUpsert(w)
  <2>1. Doc(w) \in Docs /\ Version(w) \in Versions /\ worker[w].pc # "idle"
    BY <1>2, <1>7 DEF IndexUpsert, At
  <2>2. StoreOK'
    <3>1. (\E ps : index' = Upserted(Doc(w), Version(w), ps)) /\ UNCHANGED registry
      BY <1>7 DEF IndexUpsert
    <3>2. index' \in [Docs -> [Positions -> Versions \cup {None}]]
      BY <2>1, <3>1, UpsertedOK
    <3> QED BY <3>1, <3>2 DEF StoreOK
  <2>3. QueueOK' /\ UNCHANGED humanVars
    BY <1>7, FaultOK DEF IndexUpsert, QueueOK
  <2>4. CASE NextBatch(w)
    BY <2>1, <2>2, <2>3, <2>4, NextBatchOK
  <2>5. ASSUME NEW failed \in SUBSET batched(Version(w), worker[w].batch),
               worker' = [worker EXCEPT ![w].pc = "upsert_retry", ![w].retry = failed]
        PROVE  WorkersOK'
    <3>1. failed \subseteq Positions
      BY <2>1, <2>5 DEF batched, Chunks, Positions
    <3> QED BY <1>1, <2>1, <2>5, <3>1 DEF WorkersOK, WorkerState
  <2> QED BY <1>7, <2>2, <2>3, <2>4, <2>5 DEF IndexUpsert
<1>8. CASE IndexUpsertRetry(w)
  <2>1. Doc(w) \in Docs /\ Version(w) \in Versions /\ worker[w].pc # "idle"
    BY <1>2, <1>8 DEF IndexUpsertRetry, At
  <2>2. StoreOK'
    <3>1. (\E ps : index' = Upserted(Doc(w), Version(w), ps)) /\ UNCHANGED registry
      BY <1>8 DEF IndexUpsertRetry
    <3>2. index' \in [Docs -> [Positions -> Versions \cup {None}]]
      BY <2>1, <3>1, UpsertedOK
    <3> QED BY <3>1, <3>2 DEF StoreOK
  <2>3. QueueOK' /\ UNCHANGED humanVars
    BY <1>8, FaultOK DEF IndexUpsertRetry, QueueOK
  <2>4. WorkersOK'
    BY <1>1, <1>8, <2>1, GotoOK, NextBatchOK DEF IndexUpsertRetry
  <2> QED BY <2>2, <2>3, <2>4
<1>9. CASE IndexAdapterRaises(w)
  <2>1. Doc(w) \in Docs /\ Version(w) \in Versions /\ worker[w].pc # "idle"
    BY <1>2, <1>9 DEF IndexAdapterRaises, At
  <2>2. StoreOK'
    <3>1. /\ \/ index' = index
             \/ index' = [index EXCEPT ![Doc(w)] = [p \in Positions |-> None]]
             \/ \E ps : index' = Upserted(Doc(w), Version(w), ps)
          /\ UNCHANGED registry
      BY <1>9 DEF IndexAdapterRaises
    <3>2. index \in [Docs -> [Positions -> Versions \cup {None}]]
      BY DEF StoreOK
    <3>3. index' \in [Docs -> [Positions -> Versions \cup {None}]]
      BY <2>1, <3>1, <3>2, UpsertedOK
    <3> QED BY <3>1, <3>3 DEF StoreOK
  <2>3. QueueOK' /\ UNCHANGED humanVars
    BY <1>9, FaultOK DEF IndexAdapterRaises, QueueOK
  <2>4. WorkersOK'
    BY <1>1, <1>9, <2>1, GotoOK DEF IndexAdapterRaises
  <2> QED BY <2>2, <2>3, <2>4
<1> QED BY <1>3, <1>4, <1>5, <1>6, <1>7, <1>8, <1>9 DEF IndexStep

\* An operator's step.
LEMMA OperatorOK ==
    ASSUME OperatorsOK, calls \in 0 .. MaxCalls, RowsOK, ErrorMatchesStatus,
           NEW o \in Operators, OperatorStep(o)
    PROVE  /\ OperatorsOK'
           /\ calls' \in 0 .. MaxCalls
           /\ UNCHANGED <<worker, index, registry, reviewer, faults, duplicates>>
<1>1. {"none", "returned", "ledger_invalid"} \subseteq Outcomes
  BY DEF Outcomes
<1>2. \A out \in Outcomes : EndCall(o, out) => OperatorsOK'
  <2> SUFFICES ASSUME NEW out \in Outcomes, EndCall(o, out) PROVE OperatorsOK'
    OBVIOUS
  <2>1. IdleOperator(out) \in OperatorState /\ IdleOperator(out).pc = "idle"
    BY DEF IdleOperator, OperatorState, OperatorPC
  <2> QED BY <2>1 DEF EndCall, OperatorsOK
<1>3. \A d \in Docs : Failed(d) => rows[d].last_error_code \in FatalCodes
  BY DEF Failed, ErrorMatchesStatus, ErrorFits
<1>4. FatalCodes \subseteq Codes
  BY DEF Codes
<1>5. Call => calls' \in 0 .. MaxCalls
  BY IngestionAssumption DEF Call
<1>6. \A pc \in {"requeue", "archive"} : RequireFailed(o, pc) => OperatorsOK'
  <2> SUFFICES ASSUME NEW pc \in {"requeue", "archive"}, NEW d \in Docs, Failed(d),
                      operator' = [operator EXCEPT ![o] =
                         [pc |-> pc, doc |-> d, code |-> rows[d].last_error_code,
                          todo |-> {}, out |-> "none"]]
               PROVE  OperatorsOK'
    BY DEF RequireFailed
  <2>1. [pc |-> pc, doc |-> d, code |-> rows[d].last_error_code,
         todo |-> {}, out |-> "none"] \in OperatorState
    BY <1>1, <1>3, <1>4 DEF OperatorState, OperatorPC
  <2> QED BY SMTT(60), <1>3, <2>1 DEF OperatorsOK
<1>7. CASE StartRequeue(o) \/ StartArchive(o)
  BY <1>5, <1>6, <1>7 DEF StartRequeue, StartArchive, queueVars
<1>8. CASE Requeue(o) \/ Archive(o)
  BY <1>1, <1>2, <1>8 DEF Requeue, Archive, queueVars
<1>9. CASE StartBatch(o)
  <2>1. PICK code \in Codes, candidates \in SUBSET Docs :
          operator' = [operator EXCEPT ![o] =
             [pc |-> "batch", doc |-> None, code |-> code, todo |-> candidates,
              out |-> "none"]]
    BY <1>9 DEF StartBatch, list_failed
  <2>2. OperatorsOK'
    BY <1>1, <2>1 DEF OperatorsOK, OperatorState, OperatorPC
  <2> QED BY <1>5, <1>9, <2>2 DEF StartBatch, queueVars
<1>10. CASE BatchNext(o)
  <2>1. PICK d \in operator[o].todo :
          operator' = [operator EXCEPT
              ![o].pc = IF Failed(d) THEN "batch_requeue" ELSE "batch",
              ![o].doc = IF Failed(d) THEN d ELSE None,
              ![o].todo = @ \ {d}]
    BY <1>10 DEF BatchNext
  <2>2. d \in Docs
    BY DEF OperatorsOK, OperatorState
  <2>3. operator' \in [Operators -> OperatorState]
    BY <2>1, <2>2 DEF OperatorsOK, OperatorState, OperatorPC
  <2>4. /\ operator'[o].pc \in {"batch", "batch_requeue"}
        /\ operator'[o].pc = "batch_requeue" => operator'[o].doc \in Docs
        /\ \A x \in Operators \ {o} : operator'[x] = operator[x]
    BY <2>1, <2>2 DEF OperatorsOK, OperatorState
  <2>5. OperatorsOK'
    BY <2>3, <2>4 DEF OperatorsOK
  <2> QED BY <1>10, <2>5 DEF BatchNext, queueVars
<1>11. CASE BatchRequeue(o)
  <2>1. ASSUME operator' = [operator EXCEPT ![o].pc = "batch", ![o].doc = None]
        PROVE  OperatorsOK'
    <3>1. operator' \in [Operators -> OperatorState]
      <4>1. operator[o] \in OperatorState
        BY DEF OperatorsOK
      <4>2. [operator[o] EXCEPT !.pc = "batch", !.doc = None] \in OperatorState
        BY <4>1 DEF OperatorState, OperatorPC
      <4> QED BY <2>1, <4>2 DEF OperatorsOK
    <3>2. /\ operator'[o].pc = "batch"
          /\ \A x \in Operators \ {o} : operator'[x] = operator[x]
      BY <2>1 DEF OperatorsOK, OperatorState
    <3> QED BY <3>1, <3>2 DEF OperatorsOK
  <2> QED BY <1>1, <1>2, <1>11, <2>1 DEF BatchRequeue, queueVars
<1>12. CASE BatchEnd(o)
  BY <1>1, <1>2, <1>12 DEF BatchEnd, queueVars
<1> QED BY <1>7, <1>8, <1>9, <1>10, <1>11, <1>12 DEF OperatorStep

\* A reviewer's step.
LEMMA ReviewerOK ==
    ASSUME ReviewersOK, calls \in 0 .. MaxCalls, StoreOK, NEW r \in Reviewers, ReviewerStep(r)
    PROVE  /\ ReviewersOK' /\ StoreOK'
           /\ calls' \in 0 .. MaxCalls
           /\ UNCHANGED <<worker, operator, faults, duplicates>>
<1>1. {"none", "returned", "ledger_invalid"} \subseteq Outcomes
  BY DEF Outcomes
<1>2. \A out \in Outcomes :
         reviewer' = [reviewer EXCEPT ![r] = IdleReviewer(out)] => ReviewersOK'
  <2>1. \A out \in Outcomes : IdleReviewer(out) \in ReviewerState /\ IdleReviewer(out).pc = "idle"
    BY DEF IdleReviewer, ReviewerState, ReviewerPC
  <2> QED BY <2>1 DEF ReviewersOK
<1>3. ReviewCall => calls' \in 0 .. MaxCalls
  BY IngestionAssumption DEF ReviewCall
<1>4. CASE StartAssign(r)
  <2>1. PICK d \in Docs, s \in Scenarios :
          reviewer' = [reviewer EXCEPT ![r] =
             [pc |-> "assign", doc |-> d, scenario |-> s, out |-> "none"]]
    BY <1>4 DEF StartAssign
  <2>2. ReviewersOK'
    BY <1>1, <2>1 DEF ReviewersOK, ReviewerState, ReviewerPC
  <2> QED BY <1>3, <1>4, <2>2 DEF StartAssign, StoreOK, queueVars
<1>5. CASE StartReject(r)
  <2>1. PICK d \in Docs :
          reviewer' = [reviewer EXCEPT ![r] =
             [pc |-> "reject", doc |-> d, scenario |-> None, out |-> "none"]]
    BY <1>5 DEF StartReject
  <2>2. ReviewersOK'
    BY <1>1, <2>1 DEF ReviewersOK, ReviewerState, ReviewerPC
  <2> QED BY <1>3, <1>5, <2>2 DEF StartReject, StoreOK, queueVars
<1>6. CASE Assign(r) \/ Reject(r)
  <2>1. /\ reviewer[r].pc # "idle"
        /\ \/ reviewer' = [reviewer EXCEPT ![r] = IdleReviewer("ledger_invalid")]
           \/ reviewer' = [reviewer EXCEPT ![r].pc = "discard"]
        /\ UNCHANGED <<worker, index, registry, operator, faults, duplicates, calls>>
    BY <1>6 DEF Assign, Reject, ReviewWrite, queueVars
  <2>2. ReviewersOK'
    BY <1>1, <1>2, <2>1 DEF ReviewersOK, ReviewerState, ReviewerPC
  <2> QED BY <2>1, <2>2 DEF StoreOK
<1>7. CASE Discard(r)
  BY <1>1, <1>2, <1>7 DEF Discard, StoreOK, queueVars
<1> QED BY <1>4, <1>5, <1>6, <1>7 DEF ReviewerStep

\* A delivery, a duplicate delivery, or the death of a worker.
LEMMA CoordinatorOK ==
    ASSUME WorkersOK, QueueOK, NEW w \in Workers,
           \/ \E e \in Envelopes : Deliver(w, e) \/ DeliverDuplicate(w, e)
           \/ Crash(w)
    PROVE  WorkersOK' /\ QueueOK' /\ UNCHANGED <<index, registry, operator, reviewer, calls>>
<1>1. ASSUME NEW e \in Envelopes, Take(w, e) PROVE WorkersOK'
  <2>1. [pc |-> "load", env |-> e, batch |-> 0, retry |-> {}, out |-> "none"] \in WorkerState
    BY DEF WorkerState, WorkerPC, Outcomes
  <2> QED BY <1>1, <2>1 DEF Take, WorkersOK
<1>2. ASSUME NEW e \in Envelopes, Deliver(w, e) \/ DeliverDuplicate(w, e)
      PROVE  QueueOK' /\ UNCHANGED <<index, registry, operator, reviewer, calls>>
  BY <1>2, IngestionAssumption
     DEF Deliver, DeliverDuplicate, QueueOK, queueVars, humanVars
<1>3. CASE Crash(w)
  <2>1. WorkersOK'
    BY <1>3, FinishOK DEF Crash, Outcomes
  <2> QED BY <1>3, <2>1, FaultOK DEF Crash, humanVars
<1> QED BY <1>1, <1>2, <1>3 DEF Deliver, DeliverDuplicate

-----------------------------------------------------------------------------
(* The theorems *)

LEMMA InitIInv == Init => IInv
<1> SUFFICES ASSUME Init PROVE IInv
  OBVIOUS
<1>1. RowsOK /\ ErrorMatchesStatus
  BY DEF Init, LedgerInit, RowsOK, ErrorMatchesStatus
<1>2. WorkersOK
  BY DEF Init, IdleWorker, WorkersOK, WorkerState, WorkerPC, Outcomes
<1>3. StoreOK
  BY SMTT(30) DEF Init, StoreOK
<1>4. OperatorsOK
  BY DEF Init, IdleOperator, OperatorsOK, OperatorState, OperatorPC, Outcomes
<1>5. ReviewersOK
  BY DEF Init, IdleReviewer, ReviewersOK, ReviewerState, ReviewerPC, Outcomes
<1>6. QueueOK /\ calls \in 0 .. MaxCalls
  BY SMTT(30), IngestionAssumption DEF Init, QueueOK
<1> QED BY <1>1, <1>2, <1>3, <1>4, <1>5, <1>6, Parts

LEMMA StutterIInv == IInv /\ UNCHANGED vars => IInv'
<1> SUFFICES ASSUME IInv, UNCHANGED vars PROVE IInv'
  OBVIOUS
<1>1. TypeOK'
  BY DEF IInv, TypeOK, CallsHaveDocument, vars
<1>2. CallsHaveDocument' /\ ErrorMatchesStatus'
  BY DEF IInv, CallsHaveDocument, ErrorMatchesStatus, vars
<1> QED BY <1>1, <1>2 DEF IInv

\* IInv is inductive.
LEMMA NextIInv ==
    ASSUME IInv, Next
    PROVE  IInv'
<1>1. /\ RowsOK /\ ErrorMatchesStatus /\ WorkersOK /\ StoreOK /\ QueueOK
      /\ OperatorsOK /\ ReviewersOK /\ calls \in 0 .. MaxCalls
  BY Parts
<1>2. RowsOK' /\ ErrorMatchesStatus'
  BY <1>1, StepIsRequest, RequestKeeps DEF IInv
<1>3. /\ WorkersOK' /\ StoreOK' /\ QueueOK'
      /\ OperatorsOK' /\ ReviewersOK' /\ calls' \in 0 .. MaxCalls
  <2>1. ASSUME NEW w \in Workers, StageStep(w) PROVE <1>3!:
    <3>1. WorkersOK' /\ StoreOK' /\ QueueOK' /\ UNCHANGED humanVars
      BY <1>1, <2>1, EarlyStageOK, IndexStageOK DEF StageStep
    <3> QED BY <1>1, <3>1 DEF humanVars, OperatorsOK, ReviewersOK
  <2>2. ASSUME NEW w \in Workers,
               \/ \E e \in Envelopes : Deliver(w, e) \/ DeliverDuplicate(w, e)
               \/ Crash(w)
        PROVE  <1>3!:
    <3>1. WorkersOK' /\ QueueOK' /\ UNCHANGED <<index, registry, operator, reviewer, calls>>
      BY <1>1, <2>2, CoordinatorOK
    <3> QED BY <1>1, <3>1 DEF StoreOK, OperatorsOK, ReviewersOK
  <2>3. ASSUME NEW o \in Operators, OperatorStep(o) PROVE <1>3!:
    <3>1. /\ OperatorsOK'
          /\ calls' \in 0 .. MaxCalls
          /\ UNCHANGED <<worker, index, registry, reviewer, faults, duplicates>>
      BY <1>1, <2>3, OperatorOK
    <3> QED BY <1>1, <3>1 DEF WorkersOK, StoreOK, QueueOK, ReviewersOK
  <2>4. ASSUME NEW r \in Reviewers, ReviewerStep(r) PROVE <1>3!:
    <3>1. /\ ReviewersOK' /\ StoreOK'
          /\ calls' \in 0 .. MaxCalls
          /\ UNCHANGED <<worker, operator, faults, duplicates>>
      BY <1>1, <2>4, ReviewerOK
    <3> QED BY <1>1, <3>1 DEF WorkersOK, QueueOK, OperatorsOK
  <2> QED BY <2>1, <2>2, <2>3, <2>4 DEF Next
<1> QED
  <2>1. (/\ RowsOK /\ ErrorMatchesStatus /\ WorkersOK /\ StoreOK /\ QueueOK
         /\ OperatorsOK /\ ReviewersOK /\ calls \in 0 .. MaxCalls)'
    BY <1>2, <1>3
  <2> QED BY <2>1 DEF IInv, TypeOK, CallsHaveDocument, RowsOK, WorkersOK, StoreOK,
                      QueueOK, OperatorsOK, ReviewersOK

\* The pipeline's inductive invariant, from which the theorems below follow.
THEOREM Invariance == Spec => []IInv
<1>1. IInv /\ [Next]_vars => IInv'
  BY NextIInv, StutterIInv
<1> QED BY <1>1, InitIInv, PTL DEF Spec

\* Type correctness of the whole pipeline.
THEOREM TypeCorrect == Spec => []TypeOK
<1>1. IInv => TypeOK
  BY DEF IInv
<1> QED BY <1>1, Invariance, PTL

\* The error recorded on a row always belongs to the row's status, for any
\* number of workers, operators and reviewers writing it concurrently.
THEOREM ErrorsMatch == Spec => []ErrorMatchesStatus
<1>1. IInv => ErrorMatchesStatus
  BY DEF IInv
<1> QED BY <1>1, Invariance, PTL

\* No step of any component changes an `indexed' or `archived' row.
THEOREM IndexedFinal == Spec => IndexedIsFinal
<1>1. IInv /\ [Next]_vars => [FinalRowsStay]_vars
  <2> SUFFICES ASSUME IInv, Next PROVE FinalRowsStay
    OBVIOUS
  <2>1. RowsOK
    BY Parts
  <2> QED BY <2>1, StepIsRequest, RequestKeeps DEF IInv
<1> QED BY <1>1, Invariance, PTL DEF Spec, IndexedIsFinal

\* What one step does to an assignment and to a failed row.
LEMMA RequestRespects ==
    ASSUME RowsOK, RowsStep, NEW d \in Docs, rows[d] # None
    PROVE  /\ rows[d].assigned_scenario_id # None => rows'[d].assigned_scenario_id # None
           /\ Failed(d) /\ ~Failed(d)' => UNCHANGED worker
<1>1. CASE rows'[d] = rows[d]
  BY <1>1 DEF Failed
<1>2. ASSUME NEW e \in Docs, create(e) PROVE rows'[d] = rows[d]
  BY <1>2 DEF create, RowsOK
<1>3. ASSUME NEW e \in Docs, NEW to \in Status, NEW code \in Codes \cup {None},
             NEW scenario \in Scenarios \cup {None},
             to \in {"pending", "archived"} => UNCHANGED worker,
             transition(e, to, code, scenario), rows'[d] # rows[d]
      PROVE  /\ rows[d].assigned_scenario_id # None =>
                   rows'[d].assigned_scenario_id # None
             /\ Failed(d) => UNCHANGED worker
  <2>1. /\ validate_transition(rows[d], to, to, code)
        /\ rows'[d] = next_row(rows[d], to, code, scenario)
    BY <1>3 DEF transition, Accepted, RowsOK
  <2>2. rows'[d].assigned_scenario_id = next_assigned_scenario_id(rows[d], scenario)
    BY <2>1, NextRowFields
  <2>3. Failed(d) => to \in {"pending", "archived"}
    BY <2>1 DEF Failed, validate_transition, TERMINAL_STATUSES, LEGAL_TRANSITIONS
  <2> QED BY <1>3, <2>2, <2>3 DEF next_assigned_scenario_id
<1> QED BY <1>1, <1>2, <1>3 DEF RowsStep, Request

\* A human assignment on a row outlives every later step of every component.
THEOREM AssignmentKept == Spec => AssignmentSurvives
<1> DEFINE Survives == \A d \in Docs :
              rows[d] # None /\ rows[d].assigned_scenario_id # None =>
                 rows'[d].assigned_scenario_id # None
<1>1. IInv /\ [Next]_vars => [Survives]_vars
  BY Parts, StepIsRequest, RequestRespects DEF IInv
<1> QED BY <1>1, Invariance, PTL DEF Spec, AssignmentSurvives

\* No worker ever takes a row out of `failed'.
THEOREM FailedLeftByHumans == Spec => PipelineNeverLeavesFailed
<1> DEFINE ByHuman == \A d \in Docs : Failed(d) /\ ~Failed(d)' => worker' = worker
<1>1. IInv /\ [Next]_vars => [ByHuman]_vars
  BY Parts, StepIsRequest, RequestRespects DEF IInv, Failed
<1> QED BY <1>1, Invariance, PTL DEF Spec, PipelineNeverLeavesFailed

\* A request that was not rejected: the row is where it should go, or the
\* triage found it there or further.
LEMMA NotRejected ==
    ASSUME RowsOK, NEW d \in Docs, NEW to \in {"pending", "archived", "failed"},
           NEW code, NEW scenario, transition(d, to, code, scenario),
           ~Rejected(d, to, code)
    PROVE  /\ to = "pending" => AtOrPast(rows'[d].status, "pending")
           /\ to = "archived" => rows'[d].status = "archived"
           /\ to = "failed" => rows'[d].status \in {"failed", "indexed"}
<1>1. CASE Accepted(d, to, code)
  <2>1. rows'[d].status = to
    BY <1>1, NextRowFields DEF transition, RowsOK
  <2>2. AtOrPast("pending", "pending")
    BY DEF AtOrPast, FORWARD_ORDER
  <2> QED BY <2>1, <2>2
<1>2. CASE ~Accepted(d, to, code)
  <2>1. rows' = rows /\ is_benign_concurrent_loss(rows[d], to, to)
    BY <1>2 DEF transition, Rejected
  <2>2. ~AtOrPast(rows[d].status, "archived") /\ ~AtOrPast(rows[d].status, "failed")
    BY DEF AtOrPast, FORWARD_ORDER
  <2> QED BY <2>1, <2>2 DEF is_benign_concurrent_loss
<1> QED BY <1>1, <1>2

\* A step of worker w, or of the queue or a crash at it.
WorkerStep(w) ==
    \/ StageStep(w)
    \/ \E e \in Envelopes : Deliver(w, e) \/ DeliverDuplicate(w, e)
    \/ Crash(w)

LEMMA WorkersLeaveHumans ==
    ASSUME IInv, NEW w \in Workers, WorkerStep(w)
    PROVE  UNCHANGED <<operator, reviewer>>
<1>1. WorkersOK /\ StoreOK /\ QueueOK
  BY Parts
<1>2. CASE StageStep(w)
  BY <1>1, <1>2, EarlyStageOK, IndexStageOK DEF StageStep, humanVars
<1> QED BY <1>1, <1>2, CoordinatorOK DEF WorkerStep

\* The call of an operator, whoever takes the step.
LEMMA OperatorsAreTold ==
    ASSUME IInv, Next, NEW o \in Operators
    PROVE  OperatorTold(o)
<1> USE Parts
<1>1. CASE operator'[o] = operator[o]
  BY <1>1 DEF OperatorTold, IdleOperator
<1>2. CASE Requeue(o) \/ Archive(o) \/ BatchRequeue(o)
  <2>1. operator[o].doc \in Docs
    BY <1>2 DEF OperatorsOK, Requeue, Archive, BatchRequeue
  <2>2. CASE Requeue(o)
    <3>1. operator'[o] = IdleOperator("returned") => ~Rejected(operator[o].doc, "pending", None)
      BY <2>2 DEF Requeue, EndCall, IdleOperator, OperatorsOK
    <3> QED BY <2>1, <2>2, <3>1, NotRejected DEF Requeue, OperatorTold
  <2>3. CASE Archive(o)
    <3>1. operator'[o] = IdleOperator("returned") =>
             ~Rejected(operator[o].doc, "archived", operator[o].code)
      BY <2>3 DEF Archive, EndCall, IdleOperator, OperatorsOK
    <3> QED BY <2>1, <2>3, <3>1, NotRejected DEF Archive, OperatorTold
  <2>4. CASE BatchRequeue(o)
    <3>1. operator'[o].pc = "batch" => ~Rejected(operator[o].doc, "pending", None)
      BY <2>4 DEF BatchRequeue, EndCall, IdleOperator, OperatorsOK
    <3> QED BY <2>1, <2>4, <3>1, NotRejected DEF BatchRequeue, OperatorTold
  <2> QED BY <1>2, <2>2, <2>3, <2>4
<1>3. CASE OperatorStep(o) /\ operator[o].pc \in {"idle", "batch"}
  BY <1>3 DEF OperatorTold
<1>4. CASE OperatorStep(o) /\ operator[o].pc \notin {"idle", "batch"}
  <2>1. Requeue(o) \/ Archive(o) \/ BatchRequeue(o)
    BY <1>4 DEF OperatorStep, StartRequeue, StartArchive, StartBatch, BatchNext, BatchEnd
  <2> QED BY <2>1, <1>2
<1>5. ASSUME NEW p \in Operators \ {o}, OperatorStep(p) PROVE operator'[o] = operator[o]
  BY <1>5 DEF OperatorStep, StartRequeue, StartArchive, StartBatch, Requeue, Archive,
              BatchNext, BatchRequeue, BatchEnd, RequireFailed, EndCall, OperatorsOK
<1>6. ASSUME NEW r \in Reviewers, ReviewerStep(r) PROVE UNCHANGED operator
  BY <1>6 DEF ReviewerStep, StartAssign, StartReject, Assign, Reject, ReviewWrite, Discard
<1>7. ASSUME NEW w \in Workers, WorkerStep(w) PROVE UNCHANGED operator
  BY <1>7, WorkersLeaveHumans
<1> QED BY <1>1, <1>3, <1>4, <1>5, <1>6, <1>7 DEF Next, WorkerStep

\* The call of a reviewer, whoever takes the step.
LEMMA ReviewersAreTold ==
    ASSUME IInv, Next, NEW r \in Reviewers
    PROVE  ReviewerTold(r)
<1> USE Parts
<1>1. CASE reviewer'[r] = reviewer[r]
  BY <1>1 DEF ReviewerTold
<1>2. CASE Assign(r) \/ Reject(r)
  <2>1. reviewer[r].doc \in Docs
    BY <1>2 DEF ReviewersOK, Assign, Reject
  <2>2. ASSUME NEW to, NEW code, ReviewWrite(r, to, code), reviewer'[r].pc = "discard"
        PROVE  ~Rejected(reviewer[r].doc, to, code)
    BY <2>2 DEF ReviewWrite, IdleReviewer, ReviewersOK
  <2>3. CASE Assign(r)
    BY <2>1, <2>2, <2>3, NotRejected DEF Assign, ReviewWrite, ReviewerTold
  <2>4. CASE Reject(r)
    BY <2>1, <2>2, <2>4, NotRejected DEF Reject, ReviewWrite, ReviewerTold
  <2> QED BY <1>2, <2>3, <2>4
<1>3. CASE ReviewerStep(r) /\ ~Assign(r) /\ ~Reject(r)
  BY <1>3 DEF ReviewerStep, StartAssign, StartReject, Discard, ReviewerTold
<1>4. ASSUME NEW p \in Reviewers \ {r}, ReviewerStep(p) PROVE reviewer'[r] = reviewer[r]
  BY <1>4 DEF ReviewerStep, StartAssign, StartReject, Assign, Reject, ReviewWrite,
              Discard, ReviewersOK
<1>5. ASSUME NEW o \in Operators, OperatorStep(o) PROVE UNCHANGED reviewer
  BY <1>5, OperatorOK
<1>6. ASSUME NEW w \in Workers, WorkerStep(w) PROVE UNCHANGED reviewer
  BY <1>6, WorkersLeaveHumans
<1> QED BY <1>1, <1>2, <1>3, <1>4, <1>5, <1>6 DEF Next, WorkerStep

\* Whoever else changes the row between a call's check and its write, the call
\* of an operator or a reviewer reports success only of what is so.
THEOREM ReportsAreTrue == Spec => ReportedIsDone
<1> DEFINE Told == /\ \A o \in Operators : OperatorTold(o)
                   /\ \A r \in Reviewers : ReviewerTold(r)
<1>1. IInv /\ [Next]_vars => [Told]_vars
  BY OperatorsAreTold, ReviewersAreTold
<1> QED BY <1>1, Invariance, PTL DEF Spec, ReportedIsDone

=============================================================================
