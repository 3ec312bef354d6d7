------------------------------- MODULE Scenario -------------------------------
(***************************************************************************)
(* The settings of a scenario, the checks its construction makes and the   *)
(* configurations the stages receive from it (scenario/model.py and        *)
(* scenario/_validation.py).  An embedding model stands for its            *)
(* (adapter, model) pair.                                                  *)
(***************************************************************************)
EXTENDS Integers

CONSTANTS Models,            \* Names a scenario may give as its embedding model.
          NATIVE_DIMENSIONS, \* The recognised models and their vector size.
          None

ASSUME ScenarioAssumption ==
    /\ DOMAIN NATIVE_DIMENSIONS \subseteq Models
    /\ \A m \in DOMAIN NATIVE_DIMENSIONS : NATIVE_DIMENSIONS[m] \in Nat \ {0}
    /\ None \notin Nat

ChunkerSettings(Tokens) ==
    [target_chunk_tokens : Tokens \ {0}, overlap_tokens : Tokens,
     min_chunk_tokens : Tokens, max_chunk_tokens : Tokens]

EmbedderSettings(Dims) == [model : Models, target_dimensions : Dims \cup {None}]

IndexerSettings(Dims) == [dimensions : Dims]

ScenarioSettings(Tokens, Dims) ==
    [chunker : ChunkerSettings(Tokens), embedder : EmbedderSettings(Dims),
     indexer : IndexerSettings(Dims)]

validate_chunker_bounds(chunker) ==
    /\ chunker.min_chunk_tokens <= chunker.target_chunk_tokens
    /\ chunker.target_chunk_tokens <= chunker.max_chunk_tokens

Effective(embedder) ==
    IF embedder.target_dimensions = None
    THEN NATIVE_DIMENSIONS[embedder.model] ELSE embedder.target_dimensions

\* Mutant: the truncation is forgotten.
TruncationForgotten(embedder, indexer) ==
    /\ embedder.model \in DOMAIN NATIVE_DIMENSIONS
    /\ indexer.dimensions = NATIVE_DIMENSIONS[embedder.model]

validate_dimension_consistency(embedder, indexer) ==
    /\ embedder.model \in DOMAIN NATIVE_DIMENSIONS
    /\ embedder.target_dimensions # None =>
          embedder.target_dimensions <= NATIVE_DIMENSIONS[embedder.model]
    /\ indexer.dimensions = Effective(embedder)

\* What Scenario(...) accepts.  Nothing relates the overlap to the target.
Valid(s) ==
    /\ validate_chunker_bounds(s.chunker)
    /\ validate_dimension_consistency(s.embedder, s.indexer)

to_chunker_config(s) == s.chunker

to_embedder_config(s) == [target_dimensions |-> s.embedder.target_dimensions]

to_indexer_config(s) == [dimensions |-> s.indexer.dimensions]

=============================================================================
