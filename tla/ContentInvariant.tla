-------------------------- MODULE ContentInvariant --------------------------
(***************************************************************************)
(* The inductive invariant of the path of a document's content through the *)
(* chunker.                                                                *)
(*                                                                         *)
(* It follows the loops.  The regions, and the sections of a region, are   *)
(* consecutive runs of elements in order (RegionsOK, SectionsOK); a joined *)
(* text has the tokens of its run in order (TextOK); the drafts hold what  *)
(* the splitter has passed and end before what it has not (DraftsOK); the  *)
(* chunks hold the regions that are done and end before the ones that are  *)
(* not (ChunksOK).                                                         *)
(***************************************************************************)
EXTENDS ChunkAssembly

Type(i) == elements[i].type
Size == Len(elements)

-----------------------------------------------------------------------------
(* Regions *)

RegionRecord == [kind : {"table", "non_table"}, elements : Seq(Nat), caption : Nat \cup {None}]
SectionRecord == [path : Nat \cup {None}, elements : Seq(Nat)]

First(x) == x.elements[1]
End(x) == x.elements[Len(x.elements)]
Within(x) == First(x) .. End(x)

\* The elements of a region or a section are consecutive.
IsRun(x) ==
    /\ x.elements \in Seq(1 .. Size)
    /\ Len(x.elements) >= 1
    /\ \A k \in 1 .. Len(x.elements) : x.elements[k] = First(x) + k - 1

Ordered(xs) == \A k, l \in 1 .. Len(xs) : k < l => End(xs[k]) < First(xs[l])

Covers(xs, i) == \E k \in 1 .. Len(xs) : i \in Within(xs[k])

RegionOK(r) ==
    /\ IsRun(r)
    /\ r.kind = "table" => Type(First(r)) = "table" /\ r = TableRegion(First(r))
    /\ r.kind = "non_table" =>
          /\ \A i \in Within(r) : Type(i) # "table"
          /\ First(r) = 1 \/ Type(First(r) - 1) = "table"

\* Where the buffer starts when element i is next.
Opened(i) == i - Len(buffer)

BufferOK(i) ==
    /\ buffer \in Seq(1 .. Size)
    /\ \A k \in 1 .. Len(buffer) : buffer[k] = Opened(i) + k - 1

Partitioning ==
    /\ next \in 1 .. Size + 1
    /\ BufferOK(next) /\ Opened(next) >= 1
    /\ \A i \in Opened(next) .. next - 1 : Type(i) # "table"
    /\ Opened(next) = 1 \/ Type(Opened(next) - 1) = "table"
    /\ \A k \in 1 .. Len(regions) : End(regions[k]) < Opened(next)
    /\ \A i \in 1 .. Opened(next) - 1 : Covers(regions, i)
    /\ regionNo = 1 /\ chunks = <<>>

RegionsOK ==
    /\ regions \in Seq(RegionRecord)
    /\ \A k \in 1 .. Len(regions) : RegionOK(regions[k])
    /\ Ordered(regions)
    /\ regionNo \in 1 .. Len(regions) + 1
    /\ pc = "partition" => Partitioning
    /\ pc # "partition" => \A i \in 1 .. Size : Covers(regions, i)
    /\ pc \notin {"partition", "sections"} => buffer = <<>>
    /\ Chunked => regionNo = Len(regions) + 1

-----------------------------------------------------------------------------
(* Sections *)

InRegion == pc \in {"sections", "join", "split"}

Current == regions[regionNo]

\* What current_path says of the elements before i.
Under(p, i) ==
    \/ /\ p = None
       /\ \A j \in 1 .. i - 1 : Type(j) = "heading" => \E m \in j .. i - 1 : Type(m) = "table"
    \/ /\ p \in 1 .. i - 1 /\ Type(p) = "heading"
       /\ \A m \in p .. i - 1 : Type(m) # "table"
       /\ \A m \in p + 1 .. i - 1 : Type(m) # "heading"

SectionOK(s) ==
    /\ IsRun(s)
    /\ First(Current) <= First(s) /\ End(s) <= End(Current)
    /\ \A i \in Within(s) : Type(i) # "heading" /\ s.path = HeadingOf(i)

\* The element of the region that is next.
Here == First(Current) + next - 1

Sectioning ==
    /\ next \in 1 .. Len(Current.elements) + 1
    /\ BufferOK(Here) /\ First(Current) <= Opened(Here)
    /\ Under(path, Here)
    /\ \A j \in Opened(Here) .. Here - 1 : Type(j) # "heading" /\ path = HeadingOf(j)
    /\ \A k \in 1 .. Len(sections) : End(sections[k]) < Opened(Here)
    /\ \A j \in First(Current) .. Opened(Here) - 1 : Type(j) = "heading" \/ Covers(sections, j)
    /\ sectionNo = 1 /\ region_drafts = <<>>

SectionsOK ==
    /\ sections \in Seq(SectionRecord)
    /\ sectionNo \in 1 .. Len(sections) + 1
    /\ path \in Nat \cup {None}
    /\ InRegion =>
          /\ regionNo <= Len(regions) /\ Current.kind = "non_table"
          /\ \A k \in 1 .. Len(sections) : SectionOK(sections[k])
          /\ Ordered(sections)
    /\ pc = "sections" => Sectioning
    /\ pc \in {"join", "split"} =>
          \A j \in Within(Current) : Type(j) = "heading" \/ Covers(sections, j)
    /\ pc = "split" => sectionNo <= Len(sections)

-----------------------------------------------------------------------------
(* Texts *)

TokensOf(i) == {<<i, k>> : k \in 1 .. elements[i].size}

TextTokens(first, last) == UNION {TokensOf(i) : i \in first .. last}

\* The texts of the elements first .. last, in order, joined by single blanks.
Joined(tokens, first, last) ==
    /\ tokens \in Seq(TextTokens(first, last) \cup {Blank})
    /\ Len(tokens) >= 1
    /\ \A t \in TextTokens(first, last) : \E m \in 1 .. Len(tokens) : tokens[m] = t
    /\ \A m, n \in 1 .. Len(tokens) :
          m < n /\ tokens[m] # Blank /\ tokens[n] # Blank => Before(tokens[m], tokens[n])
    /\ \A m \in 1 .. Len(tokens) :
          tokens[m] = Blank => m < Len(tokens) /\ tokens[m + 1] # Blank
    /\ tokens[1] # Blank

This == sections[sectionNo]

TextOK ==
    /\ pc \in Chunking \ {"split"} => cursor = 0
    /\ pc = "join" /\ sectionNo <= Len(sections) =>
          /\ next \in 1 .. Len(This.elements)
          /\ next > 1 => Joined(text, First(This), First(This) + next - 2)
    /\ pc = "split" =>
          /\ Joined(text, First(This), End(This))
          /\ cursor \in 0 .. Len(text) - 1

-----------------------------------------------------------------------------
(* Drafts and chunks *)

DraftRecord ==
    [element_types : SUBSET ElementType, text : Seq(Tokens), token_count : Nat,
     strategy : {"structure_aware", "recursive", "table_atomic"},
     section_path : Nat \cup {None}, pages : SUBSET Nat, oversized : BOOLEAN]

LastToken(d) == d.text[Len(d.text)]

\* A draft of prose: what it says of itself is true of its first token.
ProseOK(d) ==
    /\ d \in DraftRecord
    /\ Len(d.text) >= 1 /\ d.token_count = Len(d.text)
    /\ d.strategy # "table_atomic"
    /\ d.text[1] # Blank /\ LastToken(d) # Blank
    /\ \A m \in 1 .. Len(d.text) : d.text[m] # Blank => Type(d.text[m][1]) # "table"
    /\ LET i == d.text[1][1]
       IN  /\ d.section_path = HeadingOf(i)
           /\ elements[i].page # None => elements[i].page \in d.pages
           /\ Type(i) \in d.element_types

IsTable(d, i) == i \in 1 .. Size /\ Type(i) = "table" /\ d = TableDraft(TableRegion(i))

EndsOrdered(ds) == \A k, l \in 1 .. Len(ds) : k < l => Before(LastToken(ds[k]), LastToken(ds[l]))

Holds(ds, t) == \E c \in 1 .. Len(ds) : In(t, ds[c])

HoldsElement(ds, i) == \A k \in 1 .. elements[i].size : Holds(ds, <<i, k>>)

DraftsOK ==
    /\ region_drafts \in Seq(DraftRecord)
    /\ pc \in {"partition", "dispatch"} => region_drafts = <<>>
    /\ InRegion =>
          /\ \A k \in 1 .. Len(region_drafts) :
                /\ ProseOK(region_drafts[k])
                /\ LastToken(region_drafts[k])[1] \in Within(Current)
                /\ \A l \in 1 .. Len(sections) :
                      sectionNo < l \/ (sectionNo = l /\ pc = "join") =>
                         LastToken(region_drafts[k])[1] < First(sections[l])
                /\ region_drafts[k].token_count <=
                      config.target_chunk_tokens
                         + IF sectionNo > Len(sections) /\ k = Len(region_drafts)
                           THEN config.min_chunk_tokens ELSE 0
          /\ EndsOrdered(region_drafts)
          /\ \A l \in 1 .. sectionNo - 1 : \A i \in Within(sections[l]) :
                HoldsElement(region_drafts, i)
    /\ pc = "split" =>
          /\ \A m \in 1 .. cursor : text[m] # Blank => Holds(region_drafts, text[m])
          /\ \A k \in 1 .. Len(region_drafts), m \in cursor + 1 .. Len(text) :
                text[m] # Blank => Before(LastToken(region_drafts[k]), text[m])

ChunkOK(d) ==
    \/ /\ ProseOK(d)
       /\ d.token_count <= config.target_chunk_tokens + config.min_chunk_tokens
    \/ \E i \in 1 .. Size : IsTable(d, i)

ChunksOK ==
    /\ chunks \in Seq(DraftRecord)
    /\ \A c \in 1 .. Len(chunks) : ChunkOK(chunks[c])
    /\ EndsOrdered(chunks)
    /\ \A c \in 1 .. Len(chunks), l \in regionNo .. Len(regions) :
          LastToken(chunks[c])[1] < First(regions[l])
    /\ \A l \in 1 .. regionNo - 1 :
          /\ regions[l].kind = "table" =>
                \E c \in 1 .. Len(chunks) : IsTable(chunks[c], First(regions[l]))
          /\ regions[l].kind = "non_table" =>
                \A i \in Within(regions[l]) :
                   Type(i) = "heading" \/ HoldsElement(chunks, i)

DocumentOK == elements \in Seq(Element) /\ scenario \in ScenarioSettings(Nat, Nat) /\ Valid(scenario)

ChunkInv == /\ next \in Nat /\ cursor \in Nat
            /\ DocumentOK /\ RegionsOK /\ SectionsOK /\ TextOK /\ DraftsOK /\ ChunksOK

=============================================================================
