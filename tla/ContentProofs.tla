--------------------------- MODULE ContentProofs ----------------------------
(***************************************************************************)
(* What happens to the content of a document, for documents of any length, *)
(* any settings and any behaviour of the splitter and the adapter: nothing *)
(* is lost, chunks stay in document order, tables stay whole, prose chunks *)
(* stay near the target size and describe the place where they start, and  *)
(* every vector belongs to its chunk.                                      *)
(*                                                                         *)
(* Every step of the chunker keeps ChunkInv (from the lemmas about its     *)
(* loops), every step of the embedder keeps EmbedOK and what the chunker   *)
(* made, and the properties follow from Inv.                               *)
(***************************************************************************)
EXTENDS DraftProofs, EmbedAssembly

(* Vectors *)

\* The vector the adapter returns for a chunk.
VectorOf(d) == [of |-> d.text, dimensions |-> native]

Sized(ds) == \A k \in 1 .. Len(ds) : Len(ds[k].text) >= 1 /\ ds[k].token_count = Len(ds[k].text)

\* As long as no answer was short, the vectors are those of the chunks sent.
EmbedOK ==
    /\ vectors \in Seq([of : Seq(Tokens), dimensions : Nat])
    /\ start \in 0 .. Len(chunks) /\ Len(vectors) <= start
    /\ Len(vectors) = start => \A i \in 1 .. start : vectors[i] = VectorOf(chunks[i])
    /\ attempt \in 0 .. MaxAttempts - (IF pc = "EMBEDDER_UPSTREAM_ERROR" THEN 0 ELSE 1)
    /\ faults \in 0 .. MaxFaults
    /\ pc \in Chunking \cup ChunkerErrors \cup {"embed"} => vectors = <<>> /\ start = 0
    /\ pc \in {"index", "indexable"} =>
          embedded = [i \in 1 .. Len(chunks) |->
                        [chunk |-> chunks[i], vector |-> chunks[i].text,
                         embedding_dimensions |-> to_indexer_config(scenario).dimensions]]
    /\ pc # "INDEXER_DIMENSION_MISMATCH"
    /\ Sized(region_drafts)

Inv == pc \in Outcomes /\ ChunkInv /\ EmbedOK

-----------------------------------------------------------------------------
(* The embedder *)

Vector == [of : Seq(Tokens), dimensions : Nat]

Batched == _batched
Limit == _effective_batch_size
Validated == _validate_input_lengths
Built(d, v) == _build_embedded_chunk(d, v)

\* Valid makes the dimensions of a vector of the model, truncated, those of
\* the index.
LEMMA DimensionFacts ==
    ASSUME DocumentOK, NEW d
    PROVE  /\ native \in Nat
           /\ Built(d, VectorOf(d)) = [chunk |-> d, vector |-> d.text,
                  embedding_dimensions |-> to_indexer_config(scenario).dimensions]
<1> DEFINE target == scenario.embedder.target_dimensions
<1>1. /\ native \in Nat /\ target \in Nat \cup {None} /\ None \notin Nat
      /\ target # None => target <= native
      /\ scenario.indexer.dimensions = IF target = None THEN native ELSE target
  BY ScenarioAssumption
     DEF DocumentOK, ScenarioSettings, EmbedderSettings, Valid, validate_dimension_consistency,
         Effective, native
<1>2. (IF target = None \/ target > native THEN native ELSE target) = scenario.indexer.dimensions
  BY <1>1
<1> HIDE DEF target
<1>3. Built(d, VectorOf(d)) =
        [chunk |-> d, vector |-> d.text,
         embedding_dimensions |-> IF target = None \/ target > native THEN native ELSE target]
  BY DEF Built, _build_embedded_chunk, VectorOf, to_embedder_config, target
<1> QED BY <1>1, <1>2, <1>3 DEF to_indexer_config

LEMMA LimitFacts == Limit \in Nat \ {0}
BY EmbedAssumption DEF Limit, _effective_batch_size

\* A batch is the chunks after the ones sent, at least one of them.
LEMMA BatchFacts ==
    ASSUME chunks \in Seq(DraftRecord), start \in Nat, start < Len(chunks)
    PROVE  /\ Batched \in Seq(DraftRecord)
           /\ Len(Batched) \in 1 .. Len(chunks) - start
           /\ \A k \in 1 .. Len(Batched) : Batched[k] = chunks[start + k]
<1> DEFINE last == IF start + Limit <= Len(chunks) THEN start + Limit ELSE Len(chunks)
<1>1. Len(chunks) \in Nat /\ last \in start + 1 .. Len(chunks)
  BY LimitFacts, LenProperties
<1>2. Batched = SubSeq(chunks, start + 1, last)
  BY DEF Batched, _batched, Limit
<1> HIDE DEF last
<1>3. \A k \in start + 1 .. last : chunks[k] \in DraftRecord
  BY <1>1, ElementOfSeq
<1>4. /\ SubSeq(chunks, start + 1, last) \in Seq(DraftRecord)
      /\ Len(SubSeq(chunks, start + 1, last)) = last - start
      /\ \A k \in 1 .. last - start : SubSeq(chunks, start + 1, last)[k] = chunks[start + k]
  BY <1>1, <1>3, SubSeqProperties
<1> QED BY <1>1, <1>2, <1>4

\* The adapter answers with the vectors of the texts.
LEMMA AnswerFacts ==
    ASSUME DocumentOK, NEW batch \in Seq(DraftRecord)
    PROVE  /\ embed_batch(batch) \in Seq(Vector)
           /\ Len(embed_batch(batch)) = Len(batch)
           /\ \A k \in 1 .. Len(batch) : embed_batch(batch)[k] = VectorOf(batch[k])
<1>1. Len(batch) \in Nat /\ \A k \in 1 .. Len(batch) : batch[k] \in DraftRecord
  BY LenProperties, ElementOfSeq
<1>2. \A k \in 1 .. Len(batch) : batch[k].text \in Seq(Tokens)
  BY <1>1 DEF DraftRecord
<1>3. \A k \in 1 .. Len(batch) : VectorOf(batch[k]) \in Vector
  BY <1>2, DimensionFacts DEF VectorOf, Vector
<1>4. embed_batch(batch) = [k \in 1 .. Len(batch) |-> VectorOf(batch[k])]
  BY DEF embed_batch, VectorOf
<1> QED BY <1>1, <1>3, <1>4, IsASeq

LEMMA Shorter ==
    ASSUME NEW S, NEW s \in Seq(S), NEW i \in 1 .. Len(s)
    PROVE  RemoveAt(s, i) \in Seq(S) /\ Len(RemoveAt(s, i)) = Len(s) - 1
<1> DEFINE before == SubSeq(s, 1, i - 1)
           after == SubSeq(s, i + 1, Len(s))
<1>1. Len(s) \in Nat /\ \A k \in 1 .. Len(s) : s[k] \in S
  BY LenProperties, ElementOfSeq
<1>2. before \in Seq(S) /\ Len(before) = i - 1
  BY <1>1, SubSeqProperties
<1>3. after \in Seq(S) /\ Len(after) = Len(s) - i
  BY <1>1, SubSeqProperties
<1>4. RemoveAt(s, i) = before \o after
  BY DEF RemoveAt
<1> HIDE DEF before, after
<1>5. before \o after \in Seq(S) /\ Len(before \o after) = Len(before) + Len(after)
  BY <1>2, <1>3, ConcatProperties
<1> QED BY <1>1, <1>2, <1>3, <1>4, <1>5

-----------------------------------------------------------------------------
(* Steps of the embedder *)

\* The embedder never touches what the chunker made.
LEMMA EmbedderChunks ==
    ASSUME Inv, NEW p, Goto(p), p \in Outcomes \ Chunking, p \notin ChunkerErrors,
           pc \in {"embed", "batch", "index"}
    PROVE  /\ ChunkInv' /\ pc' \in Outcomes /\ Sized(region_drafts)' /\ pc' = p
           /\ UNCHANGED <<elements, scenario, chunks>>
<1>1. /\ UNCHANGED <<elements, scenario, next, regionVars, sectionVars, splitVars, chunks>>
      /\ pc' = p
  BY DEF Goto
<1>2. ChunkInv'
  BY <1>1, LaterStepInv DEF Inv, Chunked, Chunking, ChunkerErrors
<1>3. Sized(region_drafts)'
  BY <1>1 DEF Inv, EmbedOK, Sized, splitVars
<1> QED BY <1>1, <1>2, <1>3

LEMMA VectorFrame ==
    ASSUME UNCHANGED <<elements, scenario>>
    PROVE  /\ \A d : VectorOf(d)' = VectorOf(d)
           /\ Vector' = Vector
           /\ to_indexer_config(scenario)' = to_indexer_config(scenario)
<1>1. \A d : VectorOf(d)' = VectorOf(d)
  BY DEF VectorOf, native
<1>2. Vector' = Vector
  BY Frame DEF Vector
<1> QED BY <1>1, <1>2

\* The steps that only look at the chunks or the embedded chunks.
LEMMA LookStepOK ==
    ASSUME Inv, EmbedEmpty \/ Validated \/ IndexValidate
    PROVE  Inv'
<1>1. CASE EmbedEmpty \/ Validated
  <2>1. PICK p \in {"EMBEDDER_EMPTY_CHUNKS", "EMBEDDER_INPUT_TOO_LONG", "batch"} :
           Goto(p) /\ pc = "embed" /\ UNCHANGED embedVars
    BY <1>1 DEF EmbedEmpty, Validated, _validate_input_lengths, At
  <2>2. ChunkInv' /\ pc' \in Outcomes /\ Sized(region_drafts)' /\ pc' = p /\ UNCHANGED <<elements, scenario, chunks>>
    BY <2>1, EmbedderChunks DEF Outcomes, Chunking, ChunkerErrors
  <2>3. EmbedOK'
    BY <2>1, <2>2, VectorFrame DEF Inv, EmbedOK, Vector, embedVars, Chunking, ChunkerErrors
  <2> QED BY <2>2, <2>3 DEF Inv
<1>2. CASE IndexValidate
  <2> DEFINE Agree == \A i \in 1 .. Len(embedded) :
                  embedded[i].embedding_dimensions = to_indexer_config(scenario).dimensions
  <2>1. /\ Goto(IF Agree THEN "indexable" ELSE "INDEXER_DIMENSION_MISMATCH")
        /\ pc = "index" /\ UNCHANGED embedVars
    BY <1>2 DEF IndexValidate, At
  <2>2. Agree
    <3>1. Len(chunks) \in Nat
      BY LenProperties DEF Inv, ChunkInv, ChunksOK
    <3>2. embedded = [i \in 1 .. Len(chunks) |->
                        [chunk |-> chunks[i], vector |-> chunks[i].text,
                         embedding_dimensions |-> to_indexer_config(scenario).dimensions]]
      BY <2>1 DEF Inv, EmbedOK
    <3>3. Len(embedded) = Len(chunks)
      BY <3>1, <3>2
    <3> QED BY <3>2, <3>3
  <2>3. Goto("indexable")
    BY <2>1, <2>2
  <2>4. /\ ChunkInv' /\ pc' \in Outcomes /\ Sized(region_drafts)' /\ pc' = "indexable"
        /\ UNCHANGED <<elements, scenario, chunks>>
    BY <2>1, <2>3, EmbedderChunks DEF Outcomes, Chunking, ChunkerErrors
  <2>5. EmbedOK'
    BY <2>1, <2>4, VectorFrame DEF Inv, EmbedOK, Vector, embedVars, Chunking, ChunkerErrors
  <2> QED BY <2>4, <2>5 DEF Inv
<1> QED BY <1>1, <1>2

LEMMA EmbedCallFailsOK ==
    ASSUME Inv, EmbedCallFails
    PROVE  Inv'
<1>1. PICK p \in {"batch", "EMBEDDER_UPSTREAM_ERROR"} :
         /\ Goto(p) /\ pc = "batch" /\ UNCHANGED <<vectors, start, embedded>>
         /\ faults < MaxFaults /\ faults' = faults + 1 /\ attempt' = attempt + 1
         /\ p = "batch" => attempt + 1 < MaxAttempts
  BY DEF EmbedCallFails, Fault, At
<1>2. ChunkInv' /\ pc' \in Outcomes /\ Sized(region_drafts)' /\ pc' = p /\ UNCHANGED <<elements, scenario, chunks>>
  BY <1>1, EmbedderChunks DEF Outcomes, Chunking, TransientCodes, ChunkerErrors
<1>3. /\ attempt' \in 0 .. MaxAttempts - (IF p = "EMBEDDER_UPSTREAM_ERROR" THEN 0 ELSE 1)
      /\ faults' \in 0 .. MaxFaults
  BY <1>1, EmbedAssumption DEF Inv, EmbedOK
<1>4. EmbedOK'
  BY <1>1, <1>2, <1>3, VectorFrame DEF Inv, EmbedOK, Vector, Chunking, ChunkerErrors
<1> QED BY <1>2, <1>4 DEF Inv

LEMMA EmbedCallRaisesOK ==
    ASSUME Inv, EmbedCallRaises
    PROVE  Inv'
<1>1. /\ Goto("EMBEDDER_INTERNAL") /\ pc = "batch"
      /\ UNCHANGED <<vectors, start, attempt, embedded>>
      /\ faults' \in 0 .. MaxFaults
  BY EmbedAssumption DEF EmbedCallRaises, Fault, At, Inv, EmbedOK
<1>2. /\ ChunkInv' /\ pc' \in Outcomes /\ Sized(region_drafts)' /\ pc' = "EMBEDDER_INTERNAL"
      /\ UNCHANGED <<elements, scenario, chunks>>
  BY <1>1, EmbedderChunks DEF Outcomes, Chunking, TransientCodes, ChunkerErrors
<1>3. EmbedOK'
  BY <1>1, <1>2, VectorFrame DEF Inv, EmbedOK, Vector, Chunking, ChunkerErrors
<1> QED BY <1>2, <1>3 DEF Inv

\* A batch of vectors goes to the end, in the order of the chunks; a short
\* answer can never be made up for.
LEMMA EmbedBatchOK ==
    ASSUME Inv, EmbedBatch
    PROVE  Inv'
<1>1. /\ pc = "batch" /\ start < Len(chunks) /\ start \in Nat /\ Goto("batch")
      /\ start' = start + Len(Batched) /\ attempt' = 0 /\ UNCHANGED embedded
      /\ DocumentOK /\ chunks \in Seq(DraftRecord) /\ Len(chunks) \in Nat
      /\ vectors \in Seq(Vector) /\ Len(vectors) \in Nat /\ Len(vectors) <= start
      /\ Len(vectors) = start => \A i \in 1 .. start : vectors[i] = VectorOf(chunks[i])
  <2>1. chunks \in Seq(DraftRecord) /\ DocumentOK /\ EmbedOK
    BY DEF Inv, ChunkInv, ChunksOK
  <2>2. Len(chunks) \in Nat
    BY <2>1, LenProperties
  <2>3. vectors \in Seq(Vector) /\ start \in Nat
    BY <2>1, <2>2 DEF EmbedOK, Vector
  <2>4. Len(vectors) \in Nat
    BY <2>3, LenProperties
  <2> QED BY <2>1, <2>2, <2>3, <2>4 DEF EmbedBatch, At, Batched, EmbedOK
<1>2. /\ ChunkInv' /\ pc' \in Outcomes /\ Sized(region_drafts)' /\ pc' = "batch"
      /\ UNCHANGED <<elements, scenario, chunks>>
  BY <1>1, EmbedderChunks DEF Outcomes, Chunking, ChunkerErrors
<1>3. /\ Batched \in Seq(DraftRecord) /\ Len(Batched) \in 1 .. Len(chunks) - start
      /\ \A k \in 1 .. Len(Batched) : Batched[k] = chunks[start + k]
  BY <1>1, BatchFacts
<1> DEFINE answer == embed_batch(Batched)
<1>4. /\ answer \in Seq(Vector) /\ Len(answer) = Len(Batched)
      /\ \A k \in 1 .. Len(Batched) : answer[k] = VectorOf(chunks[start + k])
  BY <1>1, <1>3, AnswerFacts
<1>5. faults' \in 0 .. MaxFaults
  BY EmbedAssumption DEF EmbedBatch, Fault, Inv, EmbedOK
<1>6. \/ vectors' = vectors \o answer
      \/ \E i \in 1 .. Len(answer) : vectors' = vectors \o RemoveAt(answer, i)
  BY <1>4 DEF EmbedBatch, Batched
<1> HIDE DEF answer
<1>7. /\ vectors' \in Seq(Vector) /\ Len(vectors') <= start'
      /\ Len(vectors') = start' => \A i \in 1 .. start' : vectors'[i] = VectorOf(chunks[i])
  <2>1. CASE vectors' = vectors \o answer
    <3>1. vectors' \in Seq(Vector) /\ IsConcat(vectors', vectors, answer)
      BY <1>1, <1>4, <2>1, ConcatFacts
    <3>2. Len(vectors') = Len(vectors) + Len(answer)
      BY <3>1 DEF IsConcat
    <3>3. ASSUME Len(vectors') = start', NEW i \in 1 .. start'
          PROVE  vectors'[i] = VectorOf(chunks[i])
      <4>1. Len(vectors) = start
        BY <1>1, <1>3, <1>4, <3>2, <3>3
      <4>2. CASE i <= start
        BY <1>1, <3>1, <4>1, <4>2 DEF IsConcat
      <4>3. CASE i > start
        <5>1. i - start \in 1 .. Len(answer) /\ start + (i - start) = i
          BY <1>1, <1>3, <1>4, <4>3
        <5>2. vectors'[start + (i - start)] = answer[i - start]
          BY <3>1, <4>1, <5>1 DEF IsConcat
        <5> QED BY <1>4, <5>1, <5>2
      <4> QED BY <1>1, <1>3, <4>2, <4>3
    <3> QED BY <1>1, <1>3, <1>4, <3>1, <3>2, <3>3
  <2>2. CASE \E i \in 1 .. Len(answer) : vectors' = vectors \o RemoveAt(answer, i)
    <3>1. PICK i \in 1 .. Len(answer) : vectors' = vectors \o RemoveAt(answer, i)
      BY <2>2
    <3> DEFINE rest == RemoveAt(answer, i)
    <3>2. rest \in Seq(Vector) /\ Len(rest) = Len(answer) - 1
      BY <1>4, Shorter
    <3> HIDE DEF rest
    <3>3. vectors' \in Seq(Vector) /\ IsConcat(vectors', vectors, rest)
      BY <1>1, <3>1, <3>2, ConcatFacts DEF rest
    <3>4. Len(vectors') = Len(vectors) + Len(rest)
      BY <3>3 DEF IsConcat
    <3> QED BY <1>1, <1>3, <1>4, <3>2, <3>3, <3>4
  <2> QED BY <1>6, <2>1, <2>2
<1>8. start' \in 0 .. Len(chunks') /\ attempt' \in 0 .. MaxAttempts - 1
  BY <1>1, <1>2, <1>3, EmbedAssumption
<1>9. EmbedOK'
  BY <1>2, <1>5, <1>7, <1>8, VectorFrame DEF EmbedOK, Vector, Chunking, ChunkerErrors
<1> QED BY <1>2, <1>9 DEF Inv

\* The vectors are as many as the chunks only if no answer was short.
LEMMA PairVectorsOK ==
    ASSUME Inv, PairVectors
    PROVE  Inv'
<1>1. PICK p \in {"index", "EMBEDDER_INTERNAL"} :
         /\ Goto(p) /\ pc = "batch" /\ start >= Len(chunks)
         /\ UNCHANGED <<vectors, start, attempt, faults>>
         /\ p = "index" => /\ Len(vectors) = Len(chunks)
                            /\ embedded' = [i \in 1 .. Len(chunks) |-> Built(chunks[i], vectors[i])]
  BY DEF PairVectors, At, Built
<1>2. ChunkInv' /\ pc' \in Outcomes /\ Sized(region_drafts)' /\ pc' = p /\ UNCHANGED <<elements, scenario, chunks>>
  BY <1>1, EmbedderChunks DEF Outcomes, Chunking, TransientCodes, ChunkerErrors
<1>3. p = "index" =>
         embedded' = [i \in 1 .. Len(chunks) |->
                        [chunk |-> chunks[i], vector |-> chunks[i].text,
                         embedding_dimensions |-> to_indexer_config(scenario).dimensions]]
  <2> SUFFICES ASSUME p = "index"
               PROVE  \A i \in 1 .. Len(chunks) :
                         Built(chunks[i], vectors[i]) =
                           [chunk |-> chunks[i], vector |-> chunks[i].text,
                            embedding_dimensions |-> to_indexer_config(scenario).dimensions]
    BY <1>1
  <2>1. Len(chunks) \in Nat /\ DocumentOK
    BY LenProperties DEF Inv, ChunkInv, ChunksOK
  <2>2. Len(vectors) = start /\ start = Len(chunks)
    BY <1>1, <2>1 DEF Inv, EmbedOK
  <2>3. \A i \in 1 .. Len(chunks) : vectors[i] = VectorOf(chunks[i])
    BY <2>2 DEF Inv, EmbedOK
  <2> QED BY <2>1, <2>3, DimensionFacts
<1>4. EmbedOK'
  BY <1>1, <1>2, <1>3, VectorFrame DEF Inv, EmbedOK, Vector, Chunking, ChunkerErrors
<1> QED BY <1>2, <1>4 DEF Inv

\* Redelivery starts from nothing; only the count of faults is kept.
LEMMA RedeliverOK ==
    ASSUME Inv, Redeliver
    PROVE  Inv'
<1>1. ChunkInv'
  BY StartInv DEF Redeliver, Inv, ChunkInv
<1>2. /\ pc' = "partition" /\ vectors' = <<>> /\ start' = 0 /\ attempt' = 0
      /\ faults' = faults /\ region_drafts' = <<>> /\ chunks' = <<>>
  BY DEF Redeliver, StartChunking
<1>3. Len(vectors') = 0 /\ vectors' \in Seq(Vector') /\ Len(chunks') = 0 /\ Len(region_drafts') = 0
  BY <1>2, EmptySeq
<1>4. EmbedOK'
  BY <1>2, <1>3, EmbedAssumption DEF Inv, EmbedOK, Sized, Vector, Chunking
<1> QED BY <1>1, <1>2, <1>4 DEF Inv, Outcomes, Chunking

\* While the document is chunked there is no vector.
LEMMA ChunkStepOK ==
    ASSUME Inv, ChunkNext, UNCHANGED embedVars
    PROVE  Inv'
<1>1. ChunkInv' /\ DraftsOK'
  BY ChunkNextInv DEF Inv, ChunkInv
<1>2. /\ pc \in Chunking /\ pc' \in Chunking \cup ChunkerErrors \cup {"embed"}
      /\ UNCHANGED <<elements, scenario>>
      /\ pc' \notin Chunking => UNCHANGED region_drafts
  BY DEF ChunkNext, PartitionElement, PartitionEnd, DispatchTable, DispatchProse, Dispatching,
         SectionElement, SectionsEnd, JoinElement, SplitterRaises, CountRaises, Counts, Raise, ChunkerErrors,
         SplitPiece, NextSection,
         _merge_undersized_tail, FinishRegion, AssignPositions, Chunking, splitVars
<1>3. Sized(region_drafts)'
  <2>1. CASE InRegion'
    BY <1>1, <2>1 DEF DraftsOK, ProseOK, Sized
  <2>2. CASE pc' \in {"partition", "dispatch"}
    <3>1. region_drafts' = <<>> /\ Len(<<>>) = 0
      BY <1>1, <2>2 DEF DraftsOK
    <3> QED BY <3>1 DEF Sized
  <2>3. CASE pc' \notin Chunking
    BY <1>2, <2>3 DEF Inv, EmbedOK, Sized
  <2> QED BY <2>1, <2>2, <2>3 DEF InRegion, Chunking
<1>4. /\ vectors' = <<>> /\ start' = 0 /\ Len(vectors') = 0
      /\ UNCHANGED <<vectors, attempt, faults>>
  BY <1>2 DEF Inv, EmbedOK, embedVars
<1>5. Len(chunks') \in Nat
  BY <1>1, LenProperties DEF ChunkInv, ChunksOK
<1>6. EmbedOK'
  BY <1>2, <1>3, <1>4, <1>5, VectorFrame DEF Inv, EmbedOK, Vector, Chunking, ChunkerErrors
<1> QED BY <1>1, <1>2, <1>6 DEF Inv, Outcomes, TransientCodes

LEMMA TokenizerLoadFailsOK ==
    ASSUME Inv, TokenizerLoadFails
    PROVE  Inv'
<1>1. /\ pc \in {"split", "dispatch"} /\ Raise("TOKENIZER_LOAD_FAILED")
      /\ UNCHANGED <<vectors, start, attempt, embedded>>
      /\ faults' \in 0 .. MaxFaults
  BY EmbedAssumption
     DEF TokenizerLoadFails, LoadEncodingFails, Counts, Dispatching, Fault, Inv, EmbedOK
<1>2. ChunkInv'
  BY <1>1, RaiseInv DEF Inv, ChunkerErrors
<1>3. /\ pc' = "TOKENIZER_LOAD_FAILED" /\ pc \in Chunking
      /\ UNCHANGED <<elements, scenario, chunks, region_drafts>>
  BY <1>1 DEF Raise, splitVars, Chunking
<1>4. EmbedOK'
  BY <1>1, <1>3, VectorFrame DEF Inv, EmbedOK, Vector, Sized, Chunking, ChunkerErrors
<1> QED BY <1>2, <1>3, <1>4 DEF Inv, Outcomes, TransientCodes, ChunkerErrors

-----------------------------------------------------------------------------
(* The invariant *)

LEMMA InitOK ==
    ASSUME Init
    PROVE  Inv
<1>1. ChunkInv
  BY InitChunkInv DEF Init
<1>2. /\ pc = "partition" /\ vectors = <<>> /\ start = 0 /\ attempt = 0
      /\ faults = 0 /\ region_drafts = <<>> /\ chunks = <<>>
  BY DEF Init, ChunkInit
<1>3. /\ Len(vectors) = 0 /\ vectors \in Seq(Vector) /\ Len(chunks) = 0
      /\ Len(region_drafts) = 0
  BY <1>2, EmptySeq
<1>4. EmbedOK
  BY <1>2, <1>3, EmbedAssumption DEF EmbedOK, Sized, Vector, Chunking
<1> QED BY <1>1, <1>2, <1>4 DEF Inv, Outcomes, Chunking

LEMMA StutterOK ==
    ASSUME Inv, UNCHANGED vars
    PROVE  Inv'
<1>1. /\ UNCHANGED chunkVars
      /\ UNCHANGED <<elements, scenario, pc, region_drafts, chunks,
                     vectors, start, attempt, embedded, faults>>
  BY DEF vars, chunkVars, embedVars, splitVars
<1>2. ChunkInv'
  BY <1>1, ChunkStutter DEF Inv
<1>3. EmbedOK'
  BY <1>1, VectorFrame DEF Inv, EmbedOK, Vector, Sized, Chunking
<1> QED BY <1>1, <1>2, <1>3 DEF Inv, Outcomes

LEMMA NextOK ==
    ASSUME Inv, [Next]_vars
    PROVE  Inv'
<1>1. CASE ChunkNext /\ UNCHANGED embedVars
  BY <1>1, ChunkStepOK
<1>2. CASE EmbedEmpty \/ Validated \/ IndexValidate
  BY <1>2, LookStepOK
<1>3. CASE EmbedBatch
  BY <1>3, EmbedBatchOK
<1>4. CASE EmbedCallFails
  BY <1>4, EmbedCallFailsOK
<1>5. CASE PairVectors
  BY <1>5, PairVectorsOK
<1>6. CASE Redeliver
  BY <1>6, RedeliverOK
<1>7. CASE UNCHANGED vars
  BY <1>7, StutterOK
<1>8. CASE TokenizerLoadFails
  BY <1>8, TokenizerLoadFailsOK
<1>9. CASE EmbedCallRaises
  BY <1>9, EmbedCallRaisesOK
<1> QED BY <1>1, <1>2, <1>3, <1>4, <1>5, <1>6, <1>7, <1>8, <1>9 DEF Next, Validated

\* The loops of ChunkerComponent and EmbedderComponent keep their invariant:
\* what they have consumed, what they have made and what they hold of the
\* element, section or batch at hand always add up to the document.
THEOREM ContentInvariance == Spec => []Inv
<1>1. Init => Inv
  BY InitOK
<1>2. Inv /\ [Next]_vars => Inv'
  BY NextOK
<1> QED BY <1>1, <1>2, PTL DEF Spec

-----------------------------------------------------------------------------
(* Theorems *)

LEMMA ChunkShape ==
    ASSUME Inv, NEW c \in 1 .. Len(chunks)
    PROVE  /\ chunks[c] \in DraftRecord /\ chunks[c].text \in Seq(Tokens)
           /\ Len(chunks[c].text) \in Nat \ {0} /\ chunks[c].token_count = Len(chunks[c].text)
           /\ chunks[c].strategy # "table_atomic" =>
                 /\ ProseOK(chunks[c])
                 /\ chunks[c].token_count <= config.target_chunk_tokens + config.min_chunk_tokens
           /\ ProseOK(chunks[c]) \/ \E i \in 1 .. Size : IsTable(chunks[c], i)
<1>1. DocumentOK /\ ChunkOK(chunks[c])
  BY DEF Inv, ChunkInv, ChunksOK
<1> DEFINE d == chunks[c]
<1> HIDE DEF d
<1>2. CASE ProseOK(d) /\ d.token_count <= config.target_chunk_tokens + config.min_chunk_tokens
  BY <1>1, <1>2, ProseText DEF d
<1>3. CASE \E i \in 1 .. Size : IsTable(d, i)
  <2>1. PICK i \in 1 .. Size : Type(i) = "table" /\ d = TableDraft(TableRegion(i))
    BY <1>3 DEF IsTable
  <2>2. /\ d \in DraftRecord /\ d.strategy = "table_atomic"
        /\ Len(d.text) \in Nat \ {0} /\ d.token_count = Len(d.text)
    BY <1>1, <2>1, TableDraftOK
  <2>3. d.text \in Seq(Tokens)
    BY <2>2 DEF DraftRecord
  <2> QED BY <1>3, <2>2, <2>3 DEF d
<1> QED BY <1>1, <1>2, <1>3 DEF ChunkOK, d

\* The chunks and drafts of a document are non-empty texts over its own
\* tokens with their length as token_count, the loops stay within their
\* lists, and no more vectors exist than chunks were sent: the records of
\* chunker/models.py, for documents of any length.
THEOREM ContentTypes == Spec => []TypeOK
<1>1. ASSUME Inv PROVE TypeOK
  <2>1. /\ DraftsOK /\ EmbedOK /\ pc \in Outcomes /\ next \in Nat /\ cursor \in Nat
        /\ regionNo \in 1 .. Len(regions) + 1 /\ sectionNo \in 1 .. Len(sections) + 1
    BY <1>1 DEF Inv, ChunkInv, RegionsOK, SectionsOK
  <2>2. ASSUME NEW i \in 1 .. Len(region_drafts)
        PROVE  /\ region_drafts[i].text # <<>>
               /\ Range(region_drafts[i].text) \subseteq Tokens
               /\ region_drafts[i].token_count = Len(region_drafts[i].text)
    <3>1. region_drafts[i] \in DraftRecord
      BY <2>1, ElementOfSeq DEF DraftsOK
    <3>2. region_drafts[i].text \in Seq(Tokens)
      BY <3>1 DEF DraftRecord
    <3>3. /\ Len(region_drafts[i].text) >= 1
          /\ region_drafts[i].token_count = Len(region_drafts[i].text)
      BY <2>1 DEF EmbedOK, Sized
    <3>4. region_drafts[i].text # <<>>
      BY <3>2, <3>3, EmptySeq
    <3> QED BY <3>2, <3>3, <3>4, MembersOf
  <2>3. ASSUME NEW i \in 1 .. Len(chunks)
        PROVE  /\ chunks[i].text # <<>>
               /\ Range(chunks[i].text) \subseteq Tokens
               /\ chunks[i].token_count = Len(chunks[i].text)
    <3>1. /\ chunks[i].text \in Seq(Tokens) /\ Len(chunks[i].text) \in Nat \ {0}
          /\ chunks[i].token_count = Len(chunks[i].text)
      BY <1>1, ChunkShape
    <3>2. chunks[i].text # <<>>
      BY <3>1, EmptySeq
    <3> QED BY <3>1, <3>2, MembersOf
  <2>4. attempt \in 0 .. MaxAttempts /\ faults \in 0 .. MaxFaults
    BY <2>1, EmbedAssumption DEF EmbedOK
  <2>5. Len(vectors) <= start /\ start <= Len(chunks)
    BY <2>1 DEF EmbedOK
  <2> QED BY <2>1, <2>2, <2>3, <2>4, <2>5 DEF TypeOK
<1> QED BY <1>1, ContentInvariance, PTL

\* What the regions hold when the chunker is done.
LEMMA ChunkedFacts ==
    ASSUME Inv, Chunked, NEW i \in 1 .. Size, Type(i) # "heading"
    PROVE  \/ Type(i) = "table" /\ \E c \in 1 .. Len(chunks) : IsTable(chunks[c], i)
           \/ Type(i) # "table" /\ HoldsElement(chunks, i)
<1>1. /\ DocumentOK /\ RegionsOK /\ ChunksOK /\ regionNo = Len(regions) + 1 /\ pc # "partition"
  BY DEF Inv, ChunkInv, RegionsOK, Chunked, Chunking, ChunkerErrors
<1>2. Len(regions) \in Nat
  BY <1>1, LenProperties DEF RegionsOK
<1>3. PICK l \in 1 .. Len(regions) : i \in Within(regions[l])
  BY <1>1 DEF RegionsOK, Covers
<1>4. regions[l] \in RegionRecord /\ RegionOK(regions[l]) /\ l \in 1 .. regionNo - 1
  BY <1>1, <1>2, ElementOfSeq DEF RegionsOK
<1>5. CASE regions[l].kind = "table"
  <2>1. Type(First(regions[l])) = "table" /\ regions[l] = TableRegion(First(regions[l]))
    BY <1>4, <1>5 DEF RegionOK
  <2>2. End(regions[l]) = First(regions[l])
    <3> DEFINE j == First(regions[l])
    <3>1. regions[l].elements = <<j>>
      BY <2>1 DEF TableRegion
    <3> QED BY <3>1 DEF End
  <2>3. First(regions[l]) \in Int
    BY <1>4, RunEnds, ElementFacts, <1>1 DEF RegionOK
  <2>4. i = First(regions[l])
    BY <1>3, <2>2, <2>3 DEF Within
  <2> QED BY <1>1, <1>4, <1>5, <2>1, <2>4 DEF ChunksOK
<1>6. CASE regions[l].kind = "non_table"
  BY <1>1, <1>3, <1>4, <1>6 DEF ChunksOK, RegionOK
<1> QED BY <1>4, <1>5, <1>6 DEF RegionRecord

\* _assemble_chunks loses no content: when chunk() returns, every token of
\* every element but a heading is in some chunk, for every document, every
\* chunk size and overlap, and whatever the splitter does within its contract.
THEOREM ContentNotLost == Spec => []ContentKept
<1>1. ASSUME Inv PROVE ContentKept
  <2> SUFFICES ASSUME Chunked, NEW i \in 1 .. Size, Type(i) # "heading",
                      NEW k \in 1 .. elements[i].size
               PROVE  \E c \in 1 .. Len(chunks) : In(<<i, k>>, chunks[c])
    BY DEF ContentKept, Type, Size
  <2>1. CASE \E c \in 1 .. Len(chunks) : IsTable(chunks[c], i)
    <3>1. PICK c \in 1 .. Len(chunks) : IsTable(chunks[c], i)
      BY <2>1
    <3>2. In(<<i, k>>, chunks[c])
      BY <1>1, <3>1, TableDraftOK DEF IsTable, Inv, ChunkInv
    <3> QED BY <3>2
  <2>2. CASE HoldsElement(chunks, i)
    BY <2>2 DEF HoldsElement, Holds
  <2> QED BY <1>1, <2>1, <2>2, ChunkedFacts
<1> QED BY <1>1, ContentInvariance, PTL

\* Positions follow the document: the chunk at a later position always ends
\* later in the document, across the regions, the sections, the overlapping
\* windows and the merged tails (_assign_positions numbers them in list order).
THEOREM ChunksInOrder == Spec => []InOrder
<1>1. ASSUME Inv PROVE InOrder
  <2>1. chunks \in Seq(DraftRecord) /\ EndsOrdered(chunks)
    BY <1>1 DEF Inv, ChunkInv, ChunksOK
  <2>2. Len(chunks) \in Nat
    BY <2>1, LenProperties
  <2> SUFFICES ASSUME NEW c \in 1 .. Len(chunks) - 1
               PROVE  Before(Last(chunks[c].text), Last(chunks[c + 1].text))
    BY DEF InOrder
  <2>3. c \in 1 .. Len(chunks) /\ c + 1 \in 1 .. Len(chunks) /\ c < c + 1
    BY <2>2
  <2>4. Before(LastToken(chunks[c]), LastToken(chunks[c + 1]))
    BY <2>1, <2>3 DEF EndsOrdered
  <2> QED BY <2>4 DEF Last, LastToken
<1> QED BY <1>1, ContentInvariance, PTL

\* A table's chunk is the only one that holds a token of the table: prose
\* has none, another table's text is its own and its caption's, and a
\* caption is no table.
LEMMA TableOnce ==
    ASSUME Inv, NEW i \in 1 .. Size, Type(i) = "table",
           NEW c \in 1 .. Len(chunks), IsTable(chunks[c], i),
           NEW b \in 1 .. Len(chunks), b # c, NEW k \in 1 .. elements[i].size
    PROVE  ~In(<<i, k>>, chunks[b])
<1> SUFFICES ASSUME In(<<i, k>>, chunks[b]) PROVE FALSE
  OBVIOUS
<1>1. DocumentOK /\ ChunksOK /\ Size \in Nat /\ i \in Nat \ {0} /\ elements[i].size \in Nat \ {0}
  BY ElementFacts DEF Inv, ChunkInv
<1>2. PICK m \in 1 .. Len(chunks[b].text) : chunks[b].text[m] = <<i, k>>
  BY DEF In
<1>3. CASE ProseOK(chunks[b])
  <2>1. <<i, k>> # Blank /\ <<i, k>>[1] = i
    BY <1>1 DEF Blank
  <2> QED BY <1>2, <1>3, <2>1 DEF ProseOK
<1>4. CASE \E j \in 1 .. Size : IsTable(chunks[b], j)
  <2>1. PICK j \in 1 .. Size : IsTable(chunks[b], j)
    BY <1>4
  <2>2. /\ LastToken(chunks[b]) = <<j, elements[j].size>>
        /\ \/ chunks[b].text[m][1] \in {j, 0}
           \/ chunks[b].text[m][1] = j - 1 /\ Type(j - 1) \in {"paragraph", "image_caption"}
    BY <1>1, <1>2, <2>1, TableDraftOK DEF IsTable
  <2>3. LastToken(chunks[c]) = <<i, elements[i].size>>
    BY <1>1, TableDraftOK DEF IsTable
  <2>4. chunks[b].text[m][1] = i
    BY <1>2
  <2>5. i = j
    BY <1>1, <2>2, <2>4
  <2>6. LastToken(chunks[b]) = LastToken(chunks[c])
    BY <2>2, <2>3, <2>5
  <2>7. ~Before(<<i, elements[i].size>>, <<i, elements[i].size>>)
    BY <1>1 DEF Before
  <2>8. Len(chunks) \in Nat /\ (b < c \/ c < b)
    BY <1>1, LenProperties DEF ChunksOK
  <2>9. \/ Before(LastToken(chunks[b]), LastToken(chunks[c]))
        \/ Before(LastToken(chunks[c]), LastToken(chunks[b]))
    BY <1>1, <2>8 DEF ChunksOK, EndsOrdered
  <2> QED BY <2>3, <2>6, <2>7, <2>9
<1> QED BY <1>3, <1>4, ChunkShape

LEMMA SuffixFacts ==
    ASSUME NEW S, NEW s \in Seq(S), NEW t \in Seq(S), Len(s) <= Len(t),
           \A k \in 1 .. Len(s) : t[Len(t) - Len(s) + k] = s[k]
    PROVE  IsSuffix(s, t)
<1>1. Len(s) \in Nat /\ Len(t) \in Nat
  BY LenProperties
<1> DEFINE r == Reverse(s)
           q == Reverse(t)
           n == Len(s)
<1>2. /\ Len(r) = n /\ Len(q) = Len(t)
      /\ \A k \in 1 .. n : r[k] = s[n - k + 1]
      /\ \A k \in 1 .. Len(t) : q[k] = t[Len(t) - k + 1]
  BY <1>1 DEF Reverse
<1> HIDE DEF r, q
<1>3. \A k \in 1 .. n : r[k] = q[k]
  <2> TAKE k \in 1 .. n
  <2>1. n - k + 1 \in 1 .. n /\ Len(t) - n + (n - k + 1) = Len(t) - k + 1 /\ k \in 1 .. Len(t)
    BY <1>1
  <2>2. t[Len(t) - n + (n - k + 1)] = s[n - k + 1]
    BY <2>1
  <2> QED BY <1>2, <2>1, <2>2
<1>4. SubSeq(r, 1, n) = SubSeq(q, 1, n)
  <2>1. SubSeq(r, 1, n) = [k \in 1 .. n |-> r[k]] /\ SubSeq(q, 1, n) = [k \in 1 .. n |-> q[k]]
    BY <1>1
  <2> QED BY <1>3, <2>1
<1> QED BY <1>1, <1>2, <1>4 DEF IsSuffix, IsPrefix, r, q

\* A table is never split or mixed with prose (chunker/strategies/table.py):
\* its text ends exactly one chunk, which holds nothing else but the caption
\* above it, and no other chunk has a token of it.
THEOREM TablesStayWhole == Spec => []TableAlone
<1>1. ASSUME Inv PROVE TableAlone
  <2> SUFFICES ASSUME Chunked, NEW i \in 1 .. Size, Type(i) = "table"
               PROVE  \E c \in 1 .. Len(chunks) :
                         /\ IsSuffix(Text(i), chunks[c].text)
                         /\ \A k \in 1 .. Len(chunks[c].text) :
                               chunks[c].text[k][1] \in {i, i - 1, 0}
                         /\ \A k \in 1 .. elements[i].size :
                               \A b \in (1 .. Len(chunks)) \ {c} : ~In(<<i, k>>, chunks[b])
    BY DEF TableAlone, Type, Size
  <2>1. PICK c \in 1 .. Len(chunks) : IsTable(chunks[c], i)
    BY <1>1, ChunkedFacts
  <2>2. DocumentOK
    BY <1>1 DEF Inv, ChunkInv
  <2>3. /\ \A k \in 1 .. elements[i].size :
              chunks[c].text[Len(chunks[c].text) - elements[i].size + k] = <<i, k>>
        /\ elements[i].size <= Len(chunks[c].text)
        /\ \A m \in 1 .. Len(chunks[c].text) : chunks[c].text[m][1] \in {i, i - 1, 0}
    BY <2>1, <2>2, TableDraftOK DEF IsTable
  <2>4. IsSuffix(Text(i), chunks[c].text)
    <3>1. /\ Text(i) \in Seq(TokensOf(i)) /\ Len(Text(i)) = elements[i].size
          /\ \A k \in 1 .. elements[i].size : Text(i)[k] = <<i, k>>
      BY <2>2, TextFacts
    <3>2. Text(i) \in Seq(Tokens \cup TokensOf(i)) /\ chunks[c].text \in Seq(Tokens \cup TokensOf(i))
      BY <1>1, <3>1, ChunkShape, SeqMonotonic
    <3> DEFINE s == Text(i)
               t == chunks[c].text
    <3>3. Len(s) <= Len(t) /\ \A k \in 1 .. Len(s) : t[Len(t) - Len(s) + k] = s[k]
      BY <2>3, <3>1
    <3> HIDE DEF s, t
    <3>4. IsSuffix(s, t)
      BY <3>2, <3>3, SuffixFacts DEF s, t
    <3> QED BY <3>4 DEF s, t
  <2>5. ASSUME NEW k \in 1 .. elements[i].size, NEW b \in (1 .. Len(chunks)) \ {c}
        PROVE  ~In(<<i, k>>, chunks[b])
    BY <1>1, <2>1, TableOnce
  <2> QED BY <2>3, <2>4, <2>5
<1> QED BY <1>1, ContentInvariance, PTL

\* _merge_undersized_tail never looks at max_chunk_tokens, and still no prose
\* chunk is larger than the target and one undersized tail together, however
\* many tails are merged.
THEOREM OvershootHolds == Spec => []OvershootBounded
<1>1. ASSUME Inv PROVE OvershootBounded
  BY <1>1, ChunkShape DEF OvershootBounded
<1> QED BY <1>1, ContentInvariance, PTL

\* The section path, pages and element types of a prose chunk are those of
\* the place where it starts, also after _merge_two_drafts absorbed tails of
\* other sections and pages.
THEOREM ChunksDescribeTheirStart == Spec => []DescribesItsStart
<1>1. ASSUME Inv PROVE DescribesItsStart
  <2>1. ASSUME NEW c \in 1 .. Len(chunks), chunks[c].strategy # "table_atomic"
        PROVE  LET i == Head(chunks[c].text)[1]
               IN  /\ chunks[c].section_path = HeadingOf(i)
                   /\ elements[i].page # None => elements[i].page \in chunks[c].pages
                   /\ elements[i].type \in chunks[c].element_types
    <3>1. /\ ProseOK(chunks[c]) /\ chunks[c].text \in Seq(Tokens)
          /\ Len(chunks[c].text) \in Nat \ {0}
      BY <1>1, <2>1, ChunkShape
    <3>2. Head(chunks[c].text) = chunks[c].text[1]
      BY <3>1
    <3> QED BY <3>1, <3>2 DEF ProseOK, Type
  <2> QED BY <2>1 DEF DescribesItsStart
<1> QED BY <1>1, ContentInvariance, PTL

\* embed() pairs every chunk with the vector of its own text: after failed
\* calls, retries, short answers and earlier attempts of the document, for
\* any batch size (the strict zip of embedder/embedder.py).
THEOREM VectorsBelong == Spec => []VectorsMatch
<1>1. ASSUME Inv PROVE VectorsMatch
  <2> SUFFICES ASSUME pc \in {"index", "indexable"}
               PROVE  /\ Len(embedded) = Len(chunks)
                      /\ \A i \in 1 .. Len(chunks) : /\ embedded[i].chunk = chunks[i]
                                                     /\ embedded[i].vector = chunks[i].text
    BY DEF VectorsMatch
  <2>1. Len(chunks) \in Nat
    BY <1>1, LenProperties DEF Inv, ChunkInv, ChunksOK
  <2>2. embedded = [i \in 1 .. Len(chunks) |->
                      [chunk |-> chunks[i], vector |-> chunks[i].text,
                       embedding_dimensions |-> to_indexer_config(scenario).dimensions]]
    BY <1>1 DEF Inv, EmbedOK
  <2> QED BY <2>1, <2>2
<1> QED BY <1>1, ContentInvariance, PTL

\* A scenario that validate_dimension_consistency accepts never has its
\* vectors refused by the dimension check of the indexer.
THEOREM DimensionsAlwaysAgree == Spec => []DimensionsAgree
<1>1. ASSUME Inv PROVE DimensionsAgree
  BY <1>1 DEF Inv, EmbedOK, DimensionsAgree
<1> QED BY <1>1, ContentInvariance, PTL

=============================================================================
