---------------------------- MODULE EmbedAssembly ----------------------------
(***************************************************************************)
(* What the embedder does with the chunks: the length check, the batches,  *)
(* the adapter's retries, the pairing of vectors with chunks and the       *)
(* truncation (embedder/embedder.py, embedder/adapters), up to the         *)
(* indexer's dimension check.  A vector is the text it embeds and its      *)
(* size.  A transient failure is redelivered and starts from the elements. *)
(***************************************************************************)
EXTENDS ChunkAssembly, SequencesExt

CONSTANTS MaxInputTokens,  \* The adapter's max_input_tokens.
          MaxBatchSize,    \* The adapter's max_batch_size.
          batch_size,      \* The configured batch size, or None.
          MaxAttempts,     \* Calls an adapter makes before it gives up.
          MaxFaults        \* Bound on the adapter failures of a behaviour.

ASSUME EmbedAssumption ==
    /\ MaxBatchSize \in Nat \ {0} /\ MaxAttempts \in Nat \ {0}
    /\ MaxInputTokens \in Nat /\ MaxFaults \in Nat
    /\ batch_size = None \/ batch_size \in Nat \ {0}

VARIABLES vectors,   \* What embed_batch returned so far.
          start,     \* Chunks sent so far.
          attempt,   \* Failed calls for the current batch.
          embedded,  \* The EmbeddedChunks.
          faults

embedVars == <<vectors, start, attempt, embedded, faults>>
vars == <<chunkVars, embedVars>>

At(p) == pc = p

Goto(p) ==
    /\ pc' = p
    /\ UNCHANGED <<elements, scenario, next, regionVars, sectionVars, splitVars, chunks>>

native == NATIVE_DIMENSIONS[scenario.embedder.model]

_effective_batch_size ==
    IF batch_size = None \/ batch_size > MaxBatchSize THEN MaxBatchSize ELSE batch_size

_batched == SubSeq(chunks, start + 1,
                   IF start + _effective_batch_size <= Len(chunks)
                   THEN start + _effective_batch_size ELSE Len(chunks))

\* embed_batch of the adapter: one vector per text, in order.
embed_batch(batch) == [i \in 1 .. Len(batch) |-> [of |-> batch[i].text, dimensions |-> native]]

\* The truncation keeps the first target_dimensions components.
_build_embedded_chunk(chunk, vector) ==
    LET target == to_embedder_config(scenario).target_dimensions
    IN  [chunk |-> chunk, vector |-> vector.of,
         embedding_dimensions |-> IF target = None \/ target > vector.dimensions
                                  THEN vector.dimensions ELSE target]

-----------------------------------------------------------------------------
\* Mutant: a document without chunks is reported transient.
EmptyIsTransient ==
    /\ At("embed") /\ chunks = <<>>
    /\ Goto("EMBEDDER_INTERNAL")
    /\ UNCHANGED embedVars

EmbedEmpty ==
    /\ At("embed") /\ chunks = <<>>
    /\ Goto("EMBEDDER_EMPTY_CHUNKS")
    /\ UNCHANGED embedVars

TooLong == \E i \in 1 .. Len(chunks) : chunks[i].token_count > MaxInputTokens

_validate_input_lengths ==
    /\ At("embed") /\ chunks # <<>>
    /\ Goto(IF TooLong THEN "EMBEDDER_INPUT_TOO_LONG" ELSE "batch")
    /\ UNCHANGED embedVars

BatchRefused == \E i \in 1 .. Len(_batched) : Refused(_batched[i].text, "adapter")

Fault == faults < MaxFaults /\ faults' = faults + 1

\* The adapter may answer with fewer vectors than it was sent texts.
EmbedBatch ==
    /\ At("batch") /\ start < Len(chunks) /\ ~BatchRefused
    /\ \/ vectors' = vectors \o embed_batch(_batched) /\ faults' = faults
       \/ /\ Fault
          /\ \E i \in 1 .. Len(_batched) :
                vectors' = vectors \o RemoveAt(embed_batch(_batched), i)
    /\ start' = start + Len(_batched)
    /\ attempt' = 0
    /\ Goto("batch")
    /\ UNCHANGED embedded

\* A rate limit, an upstream error or a timeout: tried again, or given up.
EmbedCallFails ==
    /\ At("batch") /\ start < Len(chunks)
    /\ Fault
    /\ attempt' = attempt + 1
    /\ Goto(IF attempt + 1 < MaxAttempts THEN "batch" ELSE "EMBEDDER_UPSTREAM_ERROR")
    /\ UNCHANGED <<vectors, start, embedded>>

\* Any other exception of the adapter is not tried again: one that every call
\* with the batch meets, or one that passes.
EmbedCallRaises ==
    /\ At("batch") /\ start < Len(chunks)
    /\ \/ BatchRefused /\ UNCHANGED faults
       \/ Fault
    /\ Goto("EMBEDDER_INTERNAL")
    /\ UNCHANGED <<vectors, start, attempt, embedded>>

\* Mutant: zip stops at the shorter list.
ZipNotStrict ==
    /\ At("batch") /\ start >= Len(chunks)
    /\ embedded' = [i \in 1 .. Len(vectors) |-> _build_embedded_chunk(chunks[i], vectors[i])]
    /\ Goto("index")
    /\ UNCHANGED <<vectors, start, attempt, faults>>

\* zip(chunks, vectors, strict=True).
PairVectors ==
    /\ At("batch") /\ start >= Len(chunks)
    /\ \/ /\ Len(vectors) = Len(chunks)
          /\ embedded' = [i \in 1 .. Len(chunks) |->
                            _build_embedded_chunk(chunks[i], vectors[i])]
          /\ Goto("index")
       \/ /\ Len(vectors) # Len(chunks)
          /\ UNCHANGED embedded
          /\ Goto("EMBEDDER_INTERNAL")
    /\ UNCHANGED <<vectors, start, attempt, faults>>

\* The indexer compares every record with its configured dimensions.
IndexValidate ==
    /\ At("index")
    /\ Goto(IF \A i \in 1 .. Len(embedded) :
                  embedded[i].embedding_dimensions = to_indexer_config(scenario).dimensions
            THEN "indexable" ELSE "INDEXER_DIMENSION_MISMATCH")
    /\ UNCHANGED embedVars

TransientCodes == ChunkerErrors \cup {"EMBEDDER_UPSTREAM_ERROR", "EMBEDDER_INTERNAL"}

\* Mutant: the vectors of the last attempt are still there.
VectorsKept ==
    /\ pc \in TransientCodes
    /\ StartChunking
    /\ start' = 0 /\ attempt' = 0 /\ embedded' = <<>>
    /\ UNCHANGED <<vectors, faults>>

\* The message comes back: everything the last attempt computed is gone.
Redeliver ==
    /\ pc \in TransientCodes
    /\ StartChunking
    /\ vectors' = <<>> /\ start' = 0 /\ attempt' = 0 /\ embedded' = <<>>
    /\ UNCHANGED faults

-----------------------------------------------------------------------------
Init == /\ ChunkInit
        /\ vectors = <<>> /\ start = 0 /\ attempt = 0 /\ embedded = <<>> /\ faults = 0

\* The encoding cannot be loaded now.
TokenizerLoadFails ==
    /\ LoadEncodingFails
    /\ Fault
    /\ UNCHANGED <<vectors, start, attempt, embedded>>

Next == \/ ChunkNext /\ UNCHANGED embedVars
        \/ TokenizerLoadFails
        \/ EmbedEmpty \/ _validate_input_lengths \/ EmbedBatch
        \/ EmbedCallFails \/ EmbedCallRaises \/ PairVectors \/ IndexValidate \/ Redeliver

Spec == Init /\ [][Next]_vars

\* A worker finishes what it started, and a transient failure is redelivered.
FairSpec == Spec /\ WF_vars(Next)

-----------------------------------------------------------------------------
(* Properties *)

Outcomes == {"embed", "batch", "index", "indexable",
             "EMBEDDER_EMPTY_CHUNKS", "EMBEDDER_INPUT_TOO_LONG",
             "INDEXER_DIMENSION_MISMATCH"} \cup TransientCodes \cup Chunking

\* The variables keep the types the code gives them: drafts and chunks are
\* non-empty texts with their own length, and no more vectors exist than
\* chunks were sent.
TypeOK ==
    /\ pc \in Outcomes
    /\ \A drafts \in {region_drafts, chunks} : \A i \in 1 .. Len(drafts) :
          /\ drafts[i].text # <<>>
          /\ Range(drafts[i].text) \subseteq Tokens
          /\ drafts[i].token_count = Len(drafts[i].text)
    /\ next \in Nat /\ cursor \in Nat
    /\ regionNo \in 1 .. Len(regions) + 1 /\ sectionNo \in 1 .. Len(sections) + 1
    /\ attempt \in 0 .. MaxAttempts
    /\ faults \in 0 .. MaxFaults
    /\ Len(vectors) <= start /\ start <= Len(chunks)

\* Chunking loses no content: when the chunker is done, every token of every
\* element but a heading is in some chunk, whatever the mix of tables,
\* headings, short sections and merged tails (headings become section paths).
ContentKept ==
    Chunked => \A i \in 1 .. Len(elements) :
        elements[i].type # "heading" =>
            \A k \in 1 .. elements[i].size : \E c \in 1 .. Len(chunks) : In(<<i, k>>, chunks[c])

\* Positions follow the document: a later chunk always ends later in the
\* document, across regions, sections, overlaps and merges (chunk ids and
\* the order of answers are derived from the position).
InOrder ==
    \A c \in 1 .. Len(chunks) - 1 : Before(Last(chunks[c].text), Last(chunks[c + 1].text))

\* A table is never split or mixed with prose: its text is the end of one
\* chunk that holds nothing else but its caption, and is in no other chunk.
TableAlone ==
    Chunked => \A i \in 1 .. Len(elements) : elements[i].type = "table" =>
        \E c \in 1 .. Len(chunks) :
            /\ IsSuffix(Text(i), chunks[c].text)
            /\ \A k \in 1 .. Len(chunks[c].text) :
                  chunks[c].text[k][1] \in {i, i - 1, 0}
            /\ \A k \in 1 .. elements[i].size :
                  \A b \in (1 .. Len(chunks)) \ {c} : ~In(<<i, k>>, chunks[b])

\* The tail is merged without a look at max_chunk_tokens, tail after tail: what
\* bounds a prose chunk is the target and one undersized tail together, however
\* many were merged.
OvershootBounded ==
    \A c \in 1 .. Len(chunks) : chunks[c].strategy # "table_atomic" =>
        chunks[c].token_count <= config.target_chunk_tokens + config.min_chunk_tokens

\* The metadata of a prose chunk describes the place where it starts, also
\* after undersized tails of other sections and pages were merged into it.
DescribesItsStart ==
    \A c \in 1 .. Len(chunks) : chunks[c].strategy # "table_atomic" =>
        LET i == Head(chunks[c].text)[1]
        IN  /\ chunks[c].section_path = HeadingOf(i)
            /\ elements[i].page # None => elements[i].page \in chunks[c].pages
            /\ elements[i].type \in chunks[c].element_types

\* An embedded document pairs each chunk with the vector of its own text,
\* whatever calls failed, were retried or came back short, and in whatever
\* attempt of the document it succeeded.
VectorsMatch ==
    pc \in {"index", "indexable"} =>
        /\ Len(embedded) = Len(chunks)
        /\ \A i \in 1 .. Len(chunks) : /\ embedded[i].chunk = chunks[i]
                                       /\ embedded[i].vector = chunks[i].text

\* A scenario that passes validation never has its vectors refused by the
\* indexer: the dimension guard looks at the model and the truncation.
DimensionsAgree == pc # "INDEXER_DIMENSION_MISMATCH"

Ended == pc \in {"indexable", "EMBEDDER_EMPTY_CHUNKS", "EMBEDDER_INPUT_TOO_LONG",
                 "INDEXER_DIMENSION_MISMATCH"}

Prose == {"paragraph", "list", "image_caption", "code"}

\* The splitter and the tokenizer take all they are given.
Chunkable ==
    \A i \in 1 .. Len(elements) :
        /\ elements[i].type \in Prose => config.overlap_tokens <= config.target_chunk_tokens
        /\ elements[i].type # "heading" => elements[i].refused_by # "tokenizer"

Embeddable ==
    \A i \in 1 .. Len(elements) :
        elements[i].type # "heading" => elements[i].refused_by # "adapter"

\* A document comes to an end, indexable or permanently failed, once the
\* dependencies stop failing, whatever its shape: headings only, tables only,
\* chunks too long.  What never does is what the chunker refuses on every
\* delivery, because that is a transient error: prose under a scenario whose
\* overlap exceeds its target, which validation accepts, and a text that
\* encode() raises on.
ContentSettles == /\ Chunkable /\ Embeddable => <>Ended
                  /\ ~Chunkable => []~Ended

-----------------------------------------------------------------------------
(* What the documentation says of the chunks and the code does not keep: a   *)
(* run finds the counterexample.                                             *)

\* chunker.py:75: max_chunk_tokens is the "hard ceiling for a non-table chunk";
\* test_chunker.py:604: "No non-table chunk ever exceeds `max_chunk_tokens`".
HardCeiling ==
    \A c \in 1 .. Len(chunks) : chunks[c].strategy # "table_atomic" =>
        chunks[c].token_count <= config.max_chunk_tokens

=============================================================================
