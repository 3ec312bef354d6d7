------------------------------ MODULE MCContent ------------------------------
(* Documents of up to MaxElements elements over two pages, short ones with   *)
(* texts that are refused, and scenarios whose bounds are tight, roomy, or   *)
(* whose overlap exceeds the target.                                         *)
EXTENDS EmbedAssembly

CONSTANTS MaxElements, MaxRefused, PageBreak

MCModels == {"large", "nomic", "unknown"}
MCNative == [large |-> 3, nomic |-> 2]

Shapes == {[type |-> "heading", size |-> 1], [type |-> "paragraph", size |-> 1],
           [type |-> "list", size |-> 2],
           [type |-> "table", size |-> 3]}

\* The document with the shapes f, whose elements in `bad' are refused.
Document(f, bad, by) ==
    [i \in DOMAIN f |-> [type |-> f[i].type, size |-> f[i].size,
                         page |-> IF i <= PageBreak THEN 1 ELSE 2,
                         refused_by |-> IF i \in bad THEN by ELSE None]]

ShapesUpTo(n) == UNION {[1 .. m -> Shapes] : m \in 1 .. n}

MCDocuments ==
    {Document(f, {}, None) : f \in ShapesUpTo(MaxElements)}
    \cup
    {Document(f, {i}, by) : f \in ShapesUpTo(MaxRefused), i \in 1 .. MaxRefused,
                            by \in {"tokenizer", "adapter"}}

ChunkerBounds(target, overlap, min, max) ==
    [target_chunk_tokens |-> target, overlap_tokens |-> overlap,
     min_chunk_tokens |-> min, max_chunk_tokens |-> max]

Embedding(model, target) == [model |-> model, target_dimensions |-> target]

\* Each also with the dimensions, models and bounds that validation refuses.
MCSettings ==
    [chunker : {ChunkerBounds(2, 1, 2, 2), ChunkerBounds(2, 0, 3, 4)},
     embedder : {Embedding("large", 1), Embedding("unknown", 1)},
     indexer : [dimensions : 1 .. 3]]
    \cup
    [chunker : {ChunkerBounds(3, 0, 2, 4), ChunkerBounds(1, 2, 1, 3)},
     embedder : {Embedding("nomic", None), Embedding("nomic", 3)},
     indexer : [dimensions : 1 .. 3]]

\* "target_chunk_tokens (< max_chunk_tokens by configuration convention)".
BelowCeiling ==
    {s \in MCSettings : s.chunker.target_chunk_tokens < s.chunker.max_chunk_tokens}

=============================================================================
