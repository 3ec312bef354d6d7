# Vestibule in TLA+

A verification development for `vestibule`, the document-ingestion library under
`src/src/vestibule`. The modules are translated from the source; `PROJECT.json` maps every
definition to the lines it stands for.

## The system

A document arrives as an envelope, and a coordinator (not part of the repository) drives
it through the stages. Every stage talks to one **ledger** of rows `doc_id -> status`, and
the last one to a **vector store**. The queue in front delivers at least once, so several
workers can hold the same document.

| Part | State | Operations | What is hard |
|---|---|---|---|
| State ledger (`ledger/store.py`) | one row per document: status, stage, attempts, error, assigned scenario | `create`, `transition`; `validate_transition`, `is_benign_concurrent_loss` | one relation serves workers, operators and reviewers; a rejected write may count as success |
| Vertical loader (`vertical/loader.py`) | none | `resolve`, `load`, `_park` | two writes (registry, then ledger) that are not atomic |
| Review queue (`vertical/review_queue.py`) | `ReviewRegistry` | `list_pending`, `assign`, `reject` | check, write and discard are three accesses |
| Analyzer, chunker, embedder | none | `analyze`, `chunk`, `embed`; exit write, permanent and transient failure writes | duplicates ahead of or behind the worker; some writes are not triaged |
| Indexer (`indexer/indexer.py`) | the vector store | version check, delete, batched upsert, one retry of failed items | partial batches, crashes, two versions at once |
| Reprocessor (`reprocessor/reprocessor.py`) | none | `requeue`, `requeue_by_error_code`, `archive` | acts on a row it read earlier |
| Index provisioner (`provisioning/provisioner.py`) | registry entry, live index | `ensure`: claim, create, verify, wait, reclaim | claims that outlive their owner, lost answers, conditional writes |
| Index registry (`provisioning/registry.py`, `stores/table_storage_registry.py`) | entry per index: status, claim token, times | `register`, `reclaim`, `mark_ready`, `mark_failed`, `mark_retired`, `touch_verified` | read, then write on an ETag |
| Cached registry (`stores/cached_registry.py`) | per process, the answer to `get` | `get`, `invalidate` | callers act on answers that are out of date |
| Scenario stores (`scenario/stores`) | table of scenarios, shared cache | `get`, `get_by_vertical`, `list_all`, `resolve`, `upsert`, `delete` | a fill racing an invalidation; writes that time out and land later |
| Chunking (`chunker/chunker.py`, `chunker/strategies`) | none | regions, sections, splitting, tail merge, positions | content lost, reordered or described wrongly at the seams |
| Embedding (`embedder/embedder.py`, `embedder/adapters`) | none | length check, batches, retries, pairing, truncation | short answers, vectors paired with the wrong chunk |
| Search service adapter (`indexer/adapters/azure_ai_search.py`) | the remote store | two-call deletion, uploads with per-item results, timeouts, retries | requests that land after they were given up |
| Parsers, templates, error registry, YAML store | remote or fixed | | see *Not modelled* |

What each part owes the others: the ledger never lets anyone change a finished row and
never keeps an error past the stage it belongs to; a stage that reports success leaves
the row where the next stage expects it; the indexer's receipt means the version is stored,
all of it and nothing else; a human assignment survives; a document that resolves settles; a
registry entry that says `ready` has a matching index behind it, decisions about an index
are not undone, and no claim stays pending for ever; a cached scenario is out of date for a
bounded time and an upsert writes only over the record it read; all content of a document
reaches a chunk, and every chunk its own vector.

## Modules

| Module | Models | State and actions |
|---|---|---|
| `LedgerStore` | `ledger/store.py` | `rows`; `create`, `transition` and the functions of a request keep the source's names. `LedgerSpec` is the ledger with arbitrary callers |
| `Ingestion` | what the stages share | `worker` (program counter, envelope, batch), `index` (position to stored version), `registry`, `operator`, `reviewer`, the bounds; the three ways a stage writes the ledger: `TriagedExit`, `TriagedRaise`, `UntriagedRaise` |
| `VerticalLoader`, `Analyzer`, `Chunker`, `Embedder`, `Indexer` | the stages | one action per access to shared state |
| `Reprocessor`, `ReviewQueue` | the humans' tools | the check and the write of a call are separate actions |
| `Pipeline` | the composition | `Deliver`, `DeliverDuplicate`, `Crash` (external), `Next`, fairness, the properties, the refinement mapping |
| `Lifecycle` | what ingestion promises | absent, active, review, failed, archived, published; published documents are searchable |
| `Scenario` | `scenario/model.py`, `_validation.py` | what a scenario's construction accepts, and the configurations the stages get from it |
| `ChunkAssembly` | the chunker's computation | one action per iteration of its loops: an element put in a region, in a section or joined to a text, a piece of the splitter, a merge, a region done |
| `EmbedAssembly` | the embedder's computation | extends `ChunkAssembly`: `vectors`, `start`, `attempt`, `embedded`; one action per adapter call |
| `SearchStore` | `index()` over the Azure adapter | `store`, `call`, `late` (requests given up that may still land); one action per backend call |
| `ScenarioStore` | cached store over table store | `table`, `cache`, `client`, `late`; one action per locked section or backend call, `Tick` for time |
| `IndexRegistry` | a registry entry | the entry's fields, what each registry write makes of it |
| `InMemoryRegistry` | `InMemoryIndexRegistry` | the registry's methods, each one atomic step, for arbitrary callers |
| `Provisioner` | `ensure()` over the Table Storage registry | `entry`, `live` (the index in the search service), `cache`, `caller`; one action per registry or adapter call, `Tick` for time |
| `MCPipeline`, `MCProvisioner`, `MCContent`, `MCScenarioStore`, `MCSearchStore` | instances for TLC | constants only |
| `ContentInvariant` | the chunker's loop invariants | definitions the proofs about chunking share |
| `PipelineProofs`, `CompletenessProofs`, `ProvisionerProofs`, `ScenarioStoreProofs`, `SearchStoreProofs`, `SectionProofs`, `DraftProofs`, `ContentProofs` | theorems | see *Proofs* |

An action is one call on shared state together with the local computation up to the next
such call, so the interleavings of the model are those of the real calls.

The indexer is seen at two levels. `Indexer` treats each call of the vector store as atomic,
as the in-memory store's lock makes it, and has the ledger around it; `SearchStore` opens
those calls up and leaves the ledger out. `ChunkAssembly` and `EmbedAssembly` stand in the
same relation to `Chunker` and `Embedder`: the stage modules have every ledger write, the
assemblies what the stage computes between two of them.

### Data abstraction

- A chunk is its position: `chunk_id` is a hash of `doc_id` and position, so it does not
  depend on the content. A content version is a model value with a number of chunks.
- An error code is a severity and the stage that owns it. Messages, timestamps and
  `config_version` are left out.
- What an envelope says of its scenario is a record of its three signals. A source rule has
  the set of sources its pattern matches; `Disabled` and `Deleted` are what became of the
  scenarios since a mapping or an assignment named them.
- A text is a sequence of tokens that know the element they came from, so a chunk shows
  where its content was. The text splitter, a library, is any sequence of windows that skips
  nothing and respects target and overlap. A vector is the text it embeds, and a size. An
  element has a mark (`refused_by`) when its text is one that `encode()` of the tokenizer raises
  on (the spelling of a special token), or one for which the adapter raises what it does not retry.
- Settings and dimensions are natural numbers. The fields are plain Python integers without a lower
  bound, so a scenario with a negative one is outside the model.
- The search service shows a write to every later read. The service does not promise that of its
  index (`_azure_search_backend.py:111` searches it), so what is said of `SearchStore` is conditional on it.
- Of a scenario stored in the table only `enabled`, its version and its ETag are kept.
- Times in a registry entry are ages that stop counting at the threshold that matters.
  ETags are a flag per caller, `current`: the record has not been written since it was read.
- A claim token is the number of the claim.
- A schema is one value for dimensions and metric.
- `requeue_by_error_code` takes any part of the matching rows; its order is left out.
- `foreign`, `raced`, `disturbed`, `excused` and `stale` are history: they name the
  circumstances a property excuses, or count for how long an answer has been wrong, and no
  step depends on them.

## Runs

| Run | Instance | Checks |
|---|---|---|
| `workers` | 1 document of 3 chunks in batches of 2, unresolved at first; 2 workers, 1 reviewer with 2 scenarios (one deleted), 1 operator; 2 faults, 1 duplicate, 3 calls; fair | `TypeOK`, `ErrorMatchesStatus`, `IndexedIsComplete`, `IndexedIsFinal`, `HandoffReached`, `ReceiptIsHonest`, `ImplementsLifecycle`, `AssignmentSurvives`, `PipelineNeverLeavesFailed`, `Settles` |
| `versions` | 1 unresolved document with versions of 3 and 1 chunks in batches of 2, 1 worker, 2 operators, 2 reviewers; 1 fault, 2 duplicates, 3 calls | `NoOrphans`, `ReceiptIsHonest`, `ReportedIsDone` |
| `provision` | 2 callers with a cache each, 3 scenarios on one index (owner, other dimensions and newer template, unknown template), 1 fault, 1 late owner, 1 retirement; fair | `TypeOK`, `ReadyIsBacked`, `FailedIsTerminal`, `ReadyIsKept`, `EnsureEnds`, `ClaimIsDecided`, `ImplementsRegistry` |
| `content` | all documents of up to 4 elements (heading, paragraph, list, table) over 2 pages, and those of up to 2 with one that is refused; tight, roomy and overlapping settings, a truncating and a native model; batches of 2, 2 attempts, 2 faults (a failed, short or raising call, a tokenizer that does not load); fair | `TypeOK`, `ContentKept`, `InOrder`, `TableAlone`, `OvershootBounded`, `DescribesItsStart`, `VectorsMatch`, `DimensionsAgree`, `ContentSettles` |
| `scenarios` | 1 reader, 2 editors, 2 scenarios of a vertical, lookups by vertical with a default and by listing; lifetime 2 ticks, 1 tick between reading and caching, 2 edits, 1 timeout, 2 attempts | `TypeOK`, `FreshWithin`, `CoherentUnlessOvertaken`, `NoLostUpdate` |
| `search` | 2 callers, versions of 3, 2 and 1 chunks (the last one too large), batches of 2, 2 attempts, 1 kind of request in flight | `TypeOK`, `ReceiptIsComplete`, `OneVersion` |

What they show. `workers`: between a duplicate, a crash in any stage, an operator and a
reviewer, an indexed row is complete and never changes again, the stage that hands on has its row
where the next one expects it, and every document that can be resolved or parked is settled again
and again. A document whose assigned scenario is gone is refused on every delivery and stays where it
is; `Settles` says nothing of it.

`versions`: with one worker at a time nothing of an old version survives, whatever fails between
the deletion and the last batch. `ReportedIsDone`: the humans' calls read the row, write it, and
excuse some refused writes. A `requeue`, `assign`, `archive` or `reject` that reports success has
had its effect on the row's status, whoever changed it in between; that the *scenario* of an assign may be
another's is what `assign_lost` shows.

`content`: whatever the mix of headings, tables and short sections, all content but headings
reaches a chunk, in the order of the document, and a table is never cut; a chunk's metadata describes
where it starts, also after merges; a scenario that passes validation is never refused for its
dimensions. Merging ignores `max_chunk_tokens`, and `OvershootBounded` says how far it can go: target
plus min. `ContentSettles` has two halves. A document that the splitter, the tokenizer and the adapter
take comes to an end, indexable or permanently failed, once the dependencies stop failing. One that
the splitter or the tokenizer refuses never does, since `CHUNKER_INTERNAL` is transient: prose under
a scenario whose overlap exceeds its target (validation accepts it), or a text `encode()` raises on.
A text that the adapter always refuses comes to an end only if the document fails permanently before, so neither half claims
anything of it.

`scenarios`: an answer the cache serves is out of date for less than its lifetime plus the time between
reading and caching; in a process that alone edits, only a read overtaken by the invalidation leaves a
wrong answer behind (`CoherentUnlessOvertaken`; that it does is the run `fill_race`). `NoLostUpdate` is about the
read and the conditional write inside one `upsert`: an edit the caller based on an older `get`, and
the unconditional `delete`, are outside it.

`search`: a receipt is complete unless a deletion or an upload of another version took effect on the
same records during the call, the caller's own late deletion included; late uploads of the version
itself do no harm. Versions mix only when calls overlap, a request lands late, or the service keeps an
item it was told to delete. Those three circumstances are excused, not excluded: they happen in the
model, and the code has nothing against them. A call refused halfway because of a record that is too
large gives no receipt and leaves part of one version. Both properties are for
`delete_before_upsert_on_version_change` on, its default; with it off (`indexer.py:440`), which
`SearchStore` leaves out, versions mix at once.

Six further runs each check one statement of the repository's own documentation and end
with a counterexample (`findings` quotes the lines):

| Run | Statement | What happens |
|---|---|---|
| `loser_writes` | the loser of the `analyzing` claim skips every ledger write | its parse fails and it writes `failed` over the winner's row |
| `assign_lost` | `assign` durably records the scenario | the second of two assigns is triaged as a benign loss and returns |
| `orphans` | re-indexing leaves no orphans | two versions are indexed by two workers at once |
| `touch_conflict` | concurrent touches are harmless | the second ETag-conditional touch raises out of `ensure` |
| `ceiling` | no prose chunk exceeds `max_chunk_tokens` | with target 3, min 2 and max 4, a tail of one token is merged into a full chunk: 5 tokens. The defaults (512, 40, 800) leave room for the largest merge |
| `fill_race` | `invalidate` makes the next read query the backend; the lock is held during a whole method | a lookup misses and reads; an edit writes and invalidates; the lookup stores what it read, and the next one is served the old scenario |

Smaller disagreements met while modelling; the models contain the behaviour, and no run is kept for
them:

- `assign` checks the row and writes it in two calls, so an assign overtaken by a reject takes the
  failed row to pending; `ledger/store.py:67` reserves that step for the Reprocessor.
- A reviewer's discard comes after its ledger write and can remove the metadata of a document
  parked again in between; `review_queue.py:117` calls the blank "defensive only".
- `mark_retired` keeps the claim token, so the owner of a claim in flight makes the retired
  entry ready again; `registry.py:149` says retiring does not race a claim "by construction".
- Every region starts without a heading, so text after a table has no section path; assumption A1 of
  `REQ-006-lld.md:44` calls the path "the text of the most recently seen `HEADING` element".
- A tokenizer that did not load is tried again at the next count; `token_counter.py:74` says that "a later
  call never re-attempts a load that already failed".
- When a duplicate is ahead, the untriaged self-transition after a transient failure raises
  `LedgerTransitionInvalid` in place of the stage's own error (`chunker.py:250`).
- A scenario whose overlap exceeds its target is accepted and then refused by the splitter on
  every delivery, as a transient error.
- `scenario_id` is called a unique key (`scenario/model.py:141`), but the table is keyed by vertical and
  scenario: moving a scenario to another vertical leaves the old row, and its version starts
  again at 1.

### Bounds

Two workers on one document already give every pairwise interleaving of stage calls,
including a duplicate that overtakes. Three chunks in batches of two is the smallest case
with a partial upload, a short last batch and a tail to orphan. Two faults allow a crash during
the recovery from a failure; three calls allow an assign, a requeue and an archive, or two
operators and a reviewer on one row. Two operators and two reviewers are in `versions`, where one worker
leaves room for them: what they race for is the row, and one worker is enough to move it on between
their check and their write. Documents share no state but the workers, who take one
document at a time, so one document is enough; that a busy document does not starve another is a
matter of the queue, which is not in the repository. `loser_writes` resolves its document by a source
rule and `orphans` by the scenario the envelope names; the proofs cover every way of resolving. In
`Provisioner`, `StaleAfter` (2 ticks) is above `WaitTimeout` (1 tick), as the defaults 300 s and
60 s are, so that waiting alone does not reach a reclaim; one late owner and one fault together let a
claim be lost twice.

Four elements are enough for a heading, a table between two pieces of prose, and a merge of two
undersized tails in one region; the page break after the second element puts a merge across it.
Two faults let a short answer follow a failed call, or a document fail twice. In
`ScenarioStore`, two edits and one timeout are the fewest that let a request land after the
next edit; a lifetime of 2 and a delay of 1 make the bound of `FreshWithin` tight: the mutant
that expires one tick later breaks it. In `SearchStore`, three chunks in batches of two make a
short last batch and a tail to leave behind, and calls may be repeated without bound; only the
number of different requests in flight is bounded. Symmetry is used for the callers of
`search`, the editors of `scenarios` and the humans of `versions`, which check no liveness.

`CHECK_DEADLOCK FALSE` stands in the configurations of the pipeline and of `content` because
the system stops when every document is settled and the bounds are used up.

### Fairness

In `workers`, `StageStep` is weakly fair per worker: a thread that runs goes on, and every dependency
call returns or times out. `Deliver` is weakly fair per document: the queue redelivers what
nobody acknowledged, which the stages' contracts assume. Duplicates, crashes, failures and
humans are not fair. In `Provisioner` a caller's steps, time, and new calls are fair: the
composition root asks for the index before it indexes, and goes on asking as documents
are redelivered. In `content` the whole next-state relation is weakly fair: the worker that
holds the document goes on, and a transient failure is redelivered; that the adapter stops
failing is the bound on its faults.

## Proofs

All theorems hold for every value of the constants under the named assumptions of the
modules (`LedgerAssumption`, `NoneIsNoRow`, `IngestionAssumption`, `LoaderAssumption`,
`RegistryAssumption`, `NoneIsNoEntry`, `ProvisionerAssumption`, `StoreAssumption`,
`LookupsAssumption`, `SearchAssumption`, `ScenarioAssumption`, `ContentAssumption`,
`EmbedAssumption`: they say what type the constants have and that `None` is none of the values;
finiteness is not among them). Beyond types, `ContentAssumption` says that an element has at
least one token and a chunker's target is positive. The PyMuPDF parser drops blank blocks
(`pymupdf_parser.py:140`); the Document Intelligence parser passes on every paragraph of the
service, so that none is blank is an assumption about the service.

- `PipelineProofs`, the ledger alone. `LedgerTypeCorrect` and `LedgerFinalRowsStay`: rows keep
  their type and finished rows never change, whatever anybody requests.
- `PipelineProofs`, the composition. The inductive invariant `IInv` is `TypeOK` and `ErrorMatchesStatus`
  together: an archive carries the code it read, so that code must be known to be fatal, which is
  why `TypeOK` says what a call in progress knows. Every step of every actor is first shown to
  be a *request* (`StepIsRequest`) whose code fits its target, and requests are shown to keep
  the rows right (`RequestKeeps`); the stages are never looked at again. From it follow
  `TypeCorrect`, `ErrorsMatch`, `IndexedFinal`, `AssignmentKept`, and `FailedLeftByHumans`: a request for `pending` or
  `archived`, the only ways out of `failed`, is no stage's. `ReportsAreTrue`: a human's call reports
  success after a write that landed (`NotRejected`: the row is then where it was asked to go) or after a loss
  the triage excused, which it does only for a row that is there already or beyond; workers leave the
  calls of humans alone (`WorkersLeaveHumans`).
- `CompletenessProofs`. With one content version per document (`SingleVersion`), `CInv` adds to
  `IInv` what a worker inside the batch loop knows: all positions of earlier batches are
  stored (`Progress`). The store only grows (`StoreGrows`), so another worker cannot take
  that knowledge away. `Completeness`: an indexed row is completely stored.
  `ReceiptHonest`: so is the version of any call that returns. The assumption is needed:
  `orphans` shows the counterexample with two versions. `Handoff` needs no such
  assumption: a stage exits by a write that landed or by a loss the triage excused, and both
  leave the row at the next stage or beyond.
- `CompletenessProofs`, changing content. `OrphanFree` and `ReceiptHonestExclusive` have no
  `SingleVersion`; they assume `delete_before_upsert_on_version_change`, which is on by default, and that no two
  workers are in the store for one document at once (`Exclusive`, in every state). `OInv` says
  that the records of a document are of one version (`Uniform`), that a worker past its check of
  the stored version finds no other one there, and what `Knows` says of its batches. `Exclusive` cannot be
  dropped, as `orphans` shows; it is a statement about the queue, which the repository does
  not contain, and `OrphanFreeOneWorker` derives it for a single worker.
- `CompletenessProofs`, the life cycle. `LifecycleImplemented`: under `SingleVersion`, the composed system
  implements `Lifecycle`. A step writes at most one row (`OneWrite`); every legal ledger move
  is a legal move of the life cycle or none (`LegalMoves`); publishing needs `Completeness`.
- `ProvisionerProofs`. The schema of an entry is fixed by its first claim, so every snapshot and
  cached answer agrees with it (`Good`); a caller about to announce an index has seen it
  live with that schema; a decided entry has no claim token, so no conditional write read
  under a claim can still land, and a reclaimer writes only over the entry it observed. Hence
  `TypeCorrect`, `ReadyBacked`, `FailedTerminal`, `ReadyKept`.
- `ProvisionerProofs`, the registry. `RegistryImplemented`: every step changes the entry as one atomic method of
  the in-memory registry, or not at all. It adds to the invariant that a stored claim is one
  that was handed out (`TokenIssued`).
- `ScenarioStoreProofs`. `Fresh`: the time an answer has been out of date is bounded by its age
  plus the time it waited to be cached. `UpdatesKept`: an ETag names one record for ever, and
  every request in flight carries the version that follows its ETag's record. `CoherentHome`: an answer on
  its way to the cache is the table's, unless a write is waiting to invalidate or the answer is
  marked as overtaken.
- `SearchStoreProofs`. `ReceiptComplete` is the argument of `Completeness` with
  several versions: a caller knows its earlier batches are stored unless it is marked as disturbed.
  `VersionsApart`: while nothing is excused, one call runs at a time and what is stored is
  either of one version or about to be deleted.
- `SectionProofs`, `DraftProofs`, `ContentProofs`: every safety property of `content`, for
  documents of any length, any accepted settings, and any windows the splitter may choose. No
  induction over sequences is needed, because each iteration of a loop is a step: the induction
  is the one over behaviours, and `ContentInvariant` holds the loop invariants. Regions and
  sections are consecutive runs of elements, in order and without gaps up to the buffer; a
  joined text has all tokens of its run in order (`SectionProofs`). The drafts of a region hold
  every token the splitter has passed and end before every token it has not; only the last
  one may exceed the target, by at most the minimum, and only once merging has begun
  (`DraftProofs`). An error of the chunker leaves all of it as it is (`RaiseInv`). The chunks do the same for whole regions, and each describes the place
  where it starts. `ContentProofs` adds the embedder: as long as no answer was short, the
  vectors are those of the chunks sent (`EmbedOK`); a short answer is refused by the strict zip.
  From the invariant (`ContentInvariance`) follow `ContentTypes`, `ContentNotLost`,
  `ChunksInOrder`, `TablesStayWhole`, `OvershootHolds`, `ChunksDescribeTheirStart`,
  `VectorsBelong` and `DimensionsAlwaysAgree`.

Only model-checked: liveness (`Settles`, `EnsureEnds`, `ClaimIsDecided`, `ContentSettles`),
which the prover does not handle. Every invariant and action property of a passing run is
proved; `IndexedIsComplete`, `ReceiptIsHonest`, `ImplementsLifecycle` and `NoOrphans` under the conditions
named above.

## Plan

Done: ledger, stages, humans' tools, composition, abstract life cycle, provisioner over
cached and Table Storage registries, scenario stores, search service adapter, chunking and embedding,
and the proofs above. In order:

1. `Provisioner`: two verticals sharing an index name (insert-if-absent is keyed by vertical,
   `get` is not); which scenario is given which entry.
2. `SearchStore`: `ensure_schema` racing itself; the composition with `Indexer` as a
   refinement under the circumstances `excused` names.
3. Type detection as a function of the first bytes and the pages probed.

## Not modelled

- Type detection and parsers: no shared state; the analyzer sees success, a permanent or a
  transient failure.
- Search, `count_by_doc_id`, `list_by_vertical`, `list_pending`, `summarize` and the suggestions for
  reviewers: reads nothing in the package acts on.
- Index templates, mapping files and the YAML scenario store, loaded once at start; error
  registration at import; field validation of envelopes and index names; `document_count`;
  logging.
- `ensure_schema` of the search adapter, `delete_index`, document prefixes, and the length of
  back-off and Retry-After delays (an attempt follows another after any time).
- In `SearchStore`, `delete_before_upsert_on_version_change` off and reads that lag behind writes. In
  `ScenarioStore`, a stored version that is not an integer, which restarts at 1: the store itself
  writes only integers.
- Two verticals sharing an index name. A `create_index` that raises has either taken effect or
  not when the caller goes on; a registry write's time stamp is the time it lands.
