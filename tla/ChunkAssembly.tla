---------------------------- MODULE ChunkAssembly ----------------------------
(***************************************************************************)
(* What the chunker does with the content of a document: the partition     *)
(* into table and prose regions, the sections under headings, the merge of *)
(* an undersized tail, and the positions (Chunker._assemble_chunks and     *)
(* chunker/strategies).                                                    *)
(*                                                                         *)
(* A text is a sequence of tokens.  <<i, k>> is the k-th token of the i-th *)
(* element and Blank the blank line between two joined texts, so a chunk   *)
(* shows where its content came from.  Token counting is additive.  The    *)
(* text splitter is external: any sequence of windows of at most the       *)
(* target size that overlap by at most the overlap and skip no content.    *)
(***************************************************************************)
EXTENDS Scenario, Sequences, Functions

CONSTANTS Documents,   \* The element sequences a parser may hand over.
          Settings     \* The scenarios that may be configured.

ElementType == {"heading", "paragraph", "table", "list", "image_caption", "code"}

\* An element has some text: PyMuPDFParser drops blank blocks, a table is
\* serialized as a grid, and what DocumentIntelligenceParser passes on is taken
\* not to be blank.  Its page may be unknown.  Some texts are refused whenever
\* they are met: the tokenizer raises on the spelling of a special token, and
\* an adapter may raise what it does not retry.
Element == [type : ElementType, size : Nat \ {0}, page : Nat \cup {None},
            refused_by : {None, "tokenizer", "adapter"}]

ASSUME ContentAssumption ==
    /\ Documents \subseteq Seq(Element)
    /\ Settings \subseteq ScenarioSettings(Nat, Nat)

VARIABLES elements,      \* The document.
          scenario,      \* Its scenario, accepted by Valid.
          pc,
          next,          \* Where the current loop over elements stands.
          buffer,        \* buffer of _partition_regions, or current_content.
          regions,       \* The regions; lists of elements are lists of indices.
          regionNo,      \* The one being dispatched.
          path,          \* current_path: the heading's index.
          sections,      \* The sections of that region.
          sectionNo,     \* The one being split.
          text,          \* Its joined text.
          cursor,        \* Tokens of the text the splitter has passed.
          region_drafts,
          chunks

regionVars == <<buffer, regions, regionNo>>
sectionVars == <<path, sections, sectionNo>>
splitVars == <<text, cursor, region_drafts>>
chunkVars == <<elements, scenario, pc, next, regionVars, sectionVars, splitVars, chunks>>

Blank == <<0, 0>>

config == to_chunker_config(scenario)

Text(i) == [k \in 1 .. elements[i].size |-> <<i, k>>]

\* The text holds some of an element that `by' refuses.
Refused(tokens, by) ==
    \E k \in 1 .. Len(tokens) : tokens[k] # Blank /\ elements[tokens[k][1]].refused_by = by

\* count(text) of the token counter, when it does not raise.
count(tokens) == Len(tokens)

unique_element_types(is) == {elements[i].type : i \in Range(is)}

page_metadata(is) == {elements[i].page : i \in Range(is)} \ {None}

-----------------------------------------------------------------------------
(* Regions and sections *)

_caption_for_table(i) ==
    IF i > 1 /\ elements[i - 1].type \in {"paragraph", "image_caption"}
    THEN i - 1 ELSE None

TableRegion(i) == [kind |-> "table", elements |-> <<i>>, caption |-> _caption_for_table(i)]

\* The regions with the prose collected so far, if any.
Flushed ==
    IF buffer = <<>> THEN regions
    ELSE Append(regions, [kind |-> "non_table", elements |-> buffer, caption |-> None])

\* The sections with the content collected so far, if any.
Closed ==
    IF buffer = <<>> THEN sections
    ELSE Append(sections, [path |-> path, elements |-> buffer])

has_headings == \E i \in 1 .. Len(elements) : elements[i].type = "heading"

-----------------------------------------------------------------------------
(* Drafts *)

Draft(types, tokens, strategy, heading, pages, oversized) ==
    [element_types |-> types, text |-> tokens, token_count |-> count(tokens),
     strategy |-> strategy, section_path |-> heading, pages |-> pages,
     oversized |-> oversized]

_serialize_table(region) ==
    LET body == Text(region.elements[1])
    IN  IF region.caption = None THEN body ELSE Text(region.caption) \o <<Blank>> \o body

TableDraft(region) ==
    LET tokens == _serialize_table(region)
    IN  Draft({"table"}, tokens, "table_atomic", None, page_metadata(region.elements),
              count(tokens) > config.max_chunk_tokens)

\* A piece of a section; without headings in the document the region is one
\* section and keeps the recursive tag.
SectionDraft(section, piece) ==
    Draft(unique_element_types(section.elements), piece,
          IF has_headings THEN "structure_aware" ELSE "recursive",
          section.path, page_metadata(section.elements), FALSE)

\* Mutant: the merged draft keeps the metadata of the absorbed one.
MetadataOfLast(predecessor, last) ==
    LET tokens == predecessor.text \o <<Blank>> \o last.text
    IN  [last EXCEPT !.text = tokens, !.token_count = count(tokens),
                     !.element_types = @ \cup predecessor.element_types]

_merge_two_drafts(predecessor, last) ==
    LET tokens == predecessor.text \o <<Blank>> \o last.text
    IN  [predecessor EXCEPT !.text = tokens, !.token_count = count(tokens),
                            !.element_types = @ \cup last.element_types]

\* Mutant: the tail is compared with the target.
BelowTarget(drafts) ==
    LET n == Len(drafts)
    IN  n > 1 /\ drafts[n].token_count < config.target_chunk_tokens

Undersized(drafts) ==
    LET n == Len(drafts)
    IN  /\ n > 1
        /\ drafts[n].token_count < config.min_chunk_tokens
        /\ drafts[n].strategy # "table_atomic"
        /\ drafts[n - 1].strategy # "table_atomic"

MergeLast(drafts) ==
    LET n == Len(drafts)
    IN  Append(SubSeq(drafts, 1, n - 2), _merge_two_drafts(drafts[n - 1], drafts[n]))

-----------------------------------------------------------------------------
(* The splitter *)

\* The window without a blank line at its start.
Stripped(first, last) ==
    SubSeq(text, IF text[first] = Blank THEN first + 1 ELSE first, last)

\* The windows that may come next once the first `cursor' tokens are passed.
\* Each ends in content that is new; a text that fits is one piece.
Windows ==
    {w \in (1 .. cursor + 1) \X (cursor + 1 .. Len(text)) :
        /\ cursor + 1 - w[1] <= (IF cursor = 0 THEN 0 ELSE config.overlap_tokens)
        /\ text[w[2]] # Blank
        /\ Len(Stripped(w[1], w[2])) <= config.target_chunk_tokens
        /\ Len(text) <= config.target_chunk_tokens => w[2] = Len(text)}

-----------------------------------------------------------------------------
(* Actions *)

\* chunk() is called with the parsed elements.
StartChunking ==
    /\ pc' = "partition" /\ next' = 1
    /\ buffer' = <<>> /\ regions' = <<>> /\ regionNo' = 1
    /\ path' = None /\ sections' = <<>> /\ sectionNo' = 1
    /\ text' = <<>> /\ cursor' = 0 /\ region_drafts' = <<>>
    /\ chunks' = <<>>
    /\ UNCHANGED <<elements, scenario>>

\* Mutant: the prose before a table is not flushed first.
BufferNotFlushed ==
    /\ pc = "partition" /\ next <= Len(elements)
    /\ \/ /\ elements[next].type # "table"
          /\ buffer' = Append(buffer, next)
          /\ UNCHANGED regions
       \/ /\ elements[next].type = "table"
          /\ regions' = Append(regions, TableRegion(next))
          /\ UNCHANGED buffer
    /\ next' = next + 1
    /\ UNCHANGED <<elements, scenario, pc, regionNo, sectionVars, splitVars, chunks>>

\* One round of the loop of _partition_regions.
PartitionElement ==
    /\ pc = "partition" /\ next <= Len(elements)
    /\ \/ /\ elements[next].type # "table"
          /\ buffer' = Append(buffer, next)
          /\ UNCHANGED regions
       \/ /\ elements[next].type = "table"
          /\ regions' = Append(Flushed, TableRegion(next))
          /\ buffer' = <<>>
    /\ next' = next + 1
    /\ UNCHANGED <<elements, scenario, pc, regionNo, sectionVars, splitVars, chunks>>

PartitionEnd ==
    /\ pc = "partition" /\ next > Len(elements)
    /\ regions' = Flushed
    /\ buffer' = <<>>
    /\ pc' = "dispatch"
    /\ UNCHANGED <<elements, scenario, next, regionNo, sectionVars, splitVars, chunks>>

Dispatching(kind) ==
    pc = "dispatch" /\ regionNo <= Len(regions) /\ regions[regionNo].kind = kind

\* The token counter is about to be called: by the splitter, whose constructor
\* accepted the overlap, for every piece of the text, or for a table.
Counts ==
    \/ pc = "split" /\ config.overlap_tokens <= config.target_chunk_tokens
    \/ Dispatching("table")

counted == IF pc = "split" THEN text ELSE _serialize_table(regions[regionNo])

\* chunk() ends in an error; both of its errors are transient.
ChunkerErrors == {"CHUNKER_INTERNAL", "TOKENIZER_LOAD_FAILED"}

Raise(code) ==
    /\ pc' = code
    /\ UNCHANGED <<elements, scenario, next, regionVars, sectionVars, splitVars, chunks>>

\* encode() raises on the text.
CountRaises == Counts /\ Refused(counted, "tokenizer") /\ Raise("CHUNKER_INTERNAL")

\* _load_encoding fails, at the first count there is.
LoadEncodingFails ==
    /\ Counts
    /\ chunks = <<>> /\ region_drafts = <<>>
    /\ Raise("TOKENIZER_LOAD_FAILED")

\* Mutant: a table above the ceiling is cut there.
OversizedTableCut ==
    /\ Dispatching("table")
    /\ ~Refused(counted, "tokenizer")
    /\ LET draft == TableDraft(regions[regionNo])
           Part(a, b) == [draft EXCEPT !.text = SubSeq(@, a, b), !.token_count = b - a + 1]
           max == config.max_chunk_tokens
       IN  chunks' = chunks \o IF draft.oversized
                               THEN <<Part(1, max), Part(max + 1, draft.token_count)>>
                               ELSE <<draft>>
    /\ regionNo' = regionNo + 1
    /\ UNCHANGED <<elements, scenario, pc, next, buffer, regions, sectionVars, splitVars>>

\* A table is one draft: there is nothing to merge.
DispatchTable ==
    /\ Dispatching("table")
    /\ ~Refused(counted, "tokenizer")
    /\ chunks' = Append(chunks, TableDraft(regions[regionNo]))
    /\ regionNo' = regionNo + 1
    /\ UNCHANGED <<elements, scenario, pc, next, buffer, regions, sectionVars, splitVars>>

\* structure_aware in a document with headings, recursive in one without.
DispatchProse ==
    /\ Dispatching("non_table")
    /\ IF has_headings
       THEN pc' = "sections" /\ sections' = <<>>
       ELSE /\ pc' = "join"
            /\ sections' = <<[path |-> None, elements |-> regions[regionNo].elements]>>
    /\ next' = 1 /\ path' = None /\ sectionNo' = 1
    /\ UNCHANGED <<elements, scenario, regionVars, splitVars, chunks>>

\* One round of the loop of _split_into_sections.
SectionElement ==
    /\ pc = "sections" /\ next <= Len(regions[regionNo].elements)
    /\ LET i == regions[regionNo].elements[next]
       IN  \/ /\ elements[i].type = "heading"
              /\ sections' = Closed
              /\ path' = i
              /\ buffer' = <<>>
           \/ /\ elements[i].type # "heading"
              /\ buffer' = Append(buffer, i)
              /\ UNCHANGED <<sections, path>>
    /\ next' = next + 1
    /\ UNCHANGED <<elements, scenario, pc, regions, regionNo, sectionNo, splitVars, chunks>>

\* Mutant: the section still open at the end of the region is forgotten.
TrailingSectionDropped ==
    /\ pc = "sections" /\ next > Len(regions[regionNo].elements)
    /\ buffer' = <<>>
    /\ next' = 1
    /\ pc' = "join"
    /\ UNCHANGED <<elements, scenario, regions, regionNo, sectionVars, splitVars, chunks>>

SectionsEnd ==
    /\ pc = "sections" /\ next > Len(regions[regionNo].elements)
    /\ sections' = Closed
    /\ buffer' = <<>>
    /\ next' = 1
    /\ pc' = "join"
    /\ UNCHANGED <<elements, scenario, regions, regionNo, path, sectionNo, splitVars, chunks>>

\* join_element_text, one element at a time.
JoinElement ==
    /\ pc = "join" /\ sectionNo <= Len(sections)
    /\ LET is == sections[sectionNo].elements
       IN  /\ text' = IF next = 1 THEN Text(is[1]) ELSE text \o <<Blank>> \o Text(is[next])
           /\ pc' = IF next = Len(is) THEN "split" ELSE "join"
    /\ next' = next + 1
    /\ UNCHANGED <<elements, scenario, regionVars, sectionVars, cursor, region_drafts, chunks>>

\* The splitter's constructor refuses an overlap above the chunk size.
SplitterRaises ==
    /\ pc = "split"
    /\ config.overlap_tokens > config.target_chunk_tokens
    /\ Raise("CHUNKER_INTERNAL")

\* The loop over the sections goes on with the next one.
NextSection ==
    /\ sectionNo' = sectionNo + 1
    /\ pc' = "join" /\ next' = 1 /\ text' = <<>> /\ cursor' = 0

SplitPiece ==
    /\ pc = "split"
    /\ config.overlap_tokens <= config.target_chunk_tokens
    /\ ~Refused(counted, "tokenizer")
    /\ \E w \in Windows :
          /\ region_drafts' = Append(region_drafts,
                 SectionDraft(sections[sectionNo], Stripped(w[1], w[2])))
          /\ IF w[2] = Len(text) THEN NextSection
             ELSE cursor' = w[2] /\ UNCHANGED <<sectionNo, pc, next, text>>
    /\ UNCHANGED <<elements, scenario, regionVars, path, sections, chunks>>

\* One round of the loop of _merge_undersized_tail.
_merge_undersized_tail ==
    /\ pc = "join" /\ sectionNo > Len(sections)
    /\ Undersized(region_drafts)
    /\ region_drafts' = MergeLast(region_drafts)
    /\ UNCHANGED <<elements, scenario, pc, next, regionVars, sectionVars, text, cursor, chunks>>

FinishRegion ==
    /\ pc = "join" /\ sectionNo > Len(sections)
    /\ ~Undersized(region_drafts)
    /\ chunks' = chunks \o region_drafts
    /\ region_drafts' = <<>>
    /\ regionNo' = regionNo + 1
    /\ pc' = "dispatch"
    /\ UNCHANGED <<elements, scenario, next, buffer, regions, sectionVars, text, cursor>>

\* _assign_positions: a chunk's position is its index.
AssignPositions ==
    /\ pc = "dispatch" /\ regionNo > Len(regions)
    /\ pc' = "embed"
    /\ UNCHANGED <<elements, scenario, next, regionVars, sectionVars, splitVars, chunks>>

ChunkInit ==
    /\ elements \in Documents
    /\ scenario \in {s \in Settings : Valid(s)}
    /\ pc = "partition" /\ next = 1
    /\ buffer = <<>> /\ regions = <<>> /\ regionNo = 1
    /\ path = None /\ sections = <<>> /\ sectionNo = 1
    /\ text = <<>> /\ cursor = 0 /\ region_drafts = <<>>
    /\ chunks = <<>>

ChunkNext == \/ PartitionElement \/ PartitionEnd \/ DispatchTable \/ DispatchProse
             \/ SectionElement \/ SectionsEnd \/ JoinElement \/ SplitterRaises \/ CountRaises
             \/ SplitPiece \/ _merge_undersized_tail \/ FinishRegion \/ AssignPositions

-----------------------------------------------------------------------------
(* What the properties speak of *)

Chunking == {"partition", "dispatch", "sections", "join", "split"}

Chunked == pc \notin Chunking \cup ChunkerErrors

Tokens == {Blank} \cup UNION {Range(Text(i)) : i \in 1 .. Len(elements)}

In(token, chunk) == \E k \in 1 .. Len(chunk.text) : chunk.text[k] = token

Before(s, t) == s[1] < t[1] \/ (s[1] = t[1] /\ s[2] < t[2])

\* The heading a paragraph stands under, as far as its region knows it.
HeadingOf(i) ==
    LET above == {j \in 1 .. i - 1 : /\ elements[j].type = "heading"
                                     /\ \A m \in j .. i : elements[m].type # "table"
                                     /\ \A m \in j + 1 .. i : elements[m].type # "heading"}
    IN  IF above = {} THEN None ELSE CHOOSE j \in above : TRUE

=============================================================================
