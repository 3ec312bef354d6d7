---------------------------- MODULE DraftProofs -----------------------------
(***************************************************************************)
(* The drafts and the chunks: the pieces of the splitter, the merge of an  *)
(* undersized tail, the tables and the end of a region keep the part of    *)
(* the invariant that is theirs, whatever the splitter does within its     *)
(* contract.                                                               *)
(***************************************************************************)
EXTENDS SectionProofs

-----------------------------------------------------------------------------
(* split_text and the drafts *)

LEMMA MembersOf ==
    ASSUME NEW S, NEW s \in Seq(S), NEW x
    PROVE  /\ x \in Range(s) => x \in S
           /\ x \in Range(s) <=> \E k \in 1 .. Len(s) : s[k] = x
<1>1. DOMAIN s = 1 .. Len(s)
  BY LenProperties
<1>2. x \in Range(s) <=> \E k \in 1 .. Len(s) : s[k] = x
  BY <1>1 DEF Range
<1> QED BY <1>2, ElementOfSeq

LEMMA DraftTyped ==
    ASSUME NEW types \in SUBSET ElementType, NEW tokens \in Seq(Tokens),
           NEW strategy \in {"structure_aware", "recursive", "table_atomic"},
           NEW heading \in Nat \cup {None}, NEW pages \in SUBSET Nat, NEW oversized \in BOOLEAN
    PROVE  Draft(types, tokens, strategy, heading, pages, oversized) \in DraftRecord
<1>1. count(tokens) \in Nat
  BY LenProperties DEF count
<1> QED BY <1>1 DEF Draft, DraftRecord

LEMMA DraftFrame ==
    ASSUME UNCHANGED elements
    PROVE  /\ \A d : ProseOK(d)' <=> ProseOK(d)
           /\ \A ds, i : HoldsElement(ds, i)' <=> HoldsElement(ds, i)
<1>1. \A d : ProseOK(d)' <=> ProseOK(d)
  BY Frame DEF ProseOK, LastToken, Blank
<1>2. \A ds, i : HoldsElement(ds, i)' <=> HoldsElement(ds, i)
  BY DEF HoldsElement, Holds, In
<1> QED BY <1>1, <1>2

LEMMA ConfigFacts ==
    ASSUME DocumentOK
    PROVE  /\ config.target_chunk_tokens \in Nat \ {0} /\ config.min_chunk_tokens \in Nat
           /\ config.max_chunk_tokens \in Nat /\ config.overlap_tokens \in Nat
BY DEF DocumentOK, config, to_chunker_config, ScenarioSettings, ChunkerSettings

LEMMA TextTokenFacts ==
    ASSUME DocumentOK, SectionsOK, TextOK, pc = "split"
    PROVE  /\ text \in Seq(Tokens) /\ Len(text) \in Nat \ {0}
           /\ \A m \in 1 .. Len(text) : text[m] # Blank =>
                 /\ text[m] \in TextTokens(First(This), End(This))
                 /\ text[m][1] \in Within(This) /\ text[m][1] \in Nat
<1>1. sectionNo <= Len(sections) /\ Joined(text, First(This), End(This))
  BY DEF SectionsOK, TextOK
<1>2. First(This) \in 1 .. Size /\ End(This) \in 1 .. Size /\ Size \in Nat
  BY <1>1, ThisFacts, ElementFacts
<1>3. text \in Seq(TextTokens(First(This), End(This)) \cup {Blank})
  BY <1>1 DEF Joined
<1>4. \A m \in 1 .. Len(text) : text[m] # Blank => text[m] \in TextTokens(First(This), End(This))
  BY <1>3, ElementOfSeq
<1>5. \A t \in TextTokens(First(This), End(This)) :
         t[1] \in Within(This) /\ t[1] \in Nat /\ t \in Tokens
  <2> SUFFICES ASSUME NEW t \in TextTokens(First(This), End(This))
               PROVE  t[1] \in Within(This) /\ t[1] \in Nat /\ t \in Tokens
    OBVIOUS
  <2>1. /\ t = <<t[1], t[2]>> /\ t[1] \in First(This) .. End(This) /\ t[1] \in 1 .. Size
        /\ t[2] \in 1 .. elements[t[1]].size /\ t[1] \in Nat
    BY <1>2, TokenFacts
  <2>2. /\ Text(t[1])[t[2]] = t /\ t[2] \in 1 .. Len(Text(t[1]))
    BY <2>1, TextFacts
  <2>3. t \in Range(Text(t[1]))
    BY <2>2 DEF Range
  <2> QED BY <2>1, <2>3 DEF Tokens, Within, Size
<1>6. TextTokens(First(This), End(This)) \cup {Blank} \subseteq Tokens
  <2>1. Blank \in Tokens
    BY DEF Tokens
  <2> QED BY Zenon, <1>5, <2>1
<1>7. text \in Seq(Tokens)
  BY <1>3, <1>6, SeqMonotonic
<1>8. Len(text) \in Nat \ {0}
  BY <1>1, <1>7, LenProperties DEF Joined
<1> QED BY <1>4, <1>5, <1>7, <1>8

\* A window without its blank: positions from .. to of the text.
IsPiece(piece, from, to) ==
    /\ from \in 1 .. to /\ to \in 1 .. Len(text)
    /\ text[from] # Blank /\ text[to] # Blank
    /\ piece \in Seq(Tokens) /\ Len(piece) = to - from + 1
    /\ \A k \in 1 .. Len(piece) : piece[k] = text[from + k - 1]
    /\ Len(piece) <= config.target_chunk_tokens
    /\ cursor < to
    /\ \A m \in cursor + 1 .. to : text[m] # Blank => from <= m

LEMMA PieceFacts ==
    ASSUME DocumentOK, SectionsOK, TextOK, pc = "split", NEW w \in Windows
    PROVE  \E from \in Nat : IsPiece(Stripped(w[1], w[2]), from, w[2])
<1> DEFINE from == IF text[w[1]] = Blank THEN w[1] + 1 ELSE w[1]
           to == w[2]
           piece == SubSeq(text, from, to)
<1>1. cursor \in 0 .. Len(text) - 1 /\ Joined(text, First(This), End(This))
  BY DEF TextOK
<1>2. text \in Seq(Tokens) /\ Len(text) \in Nat \ {0}
  BY TextTokenFacts
<1>3. /\ w[1] \in 1 .. cursor + 1 /\ to \in cursor + 1 .. Len(text) /\ text[to] # Blank
      /\ Len(Stripped(w[1], w[2])) <= config.target_chunk_tokens
  BY DEF Windows
<1>4. Stripped(w[1], w[2]) = piece
  BY DEF Stripped
<1>5. w[1] \in Int /\ to \in Int /\ w[1] \in 1 .. Len(text) /\ w[1] <= to
  BY <1>1, <1>2, <1>3
<1>6. text[w[1]] = Blank => w[1] < Len(text) /\ text[w[1] + 1] # Blank /\ w[1] # to
  BY <1>1, <1>3, <1>5 DEF Joined
<1>7. from \in 1 .. to /\ text[from] # Blank /\ from \in Nat
  BY <1>5, <1>6
<1>8. \A m \in cursor + 1 .. to : text[m] # Blank => from <= m
  <2> SUFFICES ASSUME NEW m \in cursor + 1 .. to, text[m] # Blank PROVE from <= m
    OBVIOUS
  <2>1. m # w[1] \/ text[w[1]] # Blank
    OBVIOUS
  <2> QED BY <1>1, <1>2, <1>3, <1>5, <2>1
<1>9. cursor < to /\ to \in 1 .. Len(text)
  BY <1>1, <1>2, <1>3
<1> HIDE DEF from, to
<1>10. /\ piece \in Seq(Tokens) /\ Len(piece) = to - from + 1
       /\ \A k \in 1 .. Len(piece) : piece[k] = text[from + k - 1]
  BY <1>2, <1>7, <1>9, SubSeqProperties
<1>11. IsPiece(Stripped(w[1], w[2]), from, to)
  BY <1>3, <1>4, <1>7, <1>8, <1>9, <1>10 DEF IsPiece
<1> QED BY <1>7, <1>11 DEF to

LEMMA SectionDraftOK ==
    ASSUME DocumentOK, RegionsOK, SectionsOK, TextOK, pc = "split",
           NEW piece, NEW from \in Nat, NEW to \in Nat, IsPiece(piece, from, to)
    PROVE  /\ ProseOK(SectionDraft(This, piece))
           /\ LastToken(SectionDraft(This, piece)) = text[to]
           /\ SectionDraft(This, piece).text = piece
           /\ SectionDraft(This, piece).token_count <= config.target_chunk_tokens
<1> DEFINE d == SectionDraft(This, piece)
           i == text[from][1]
<1>1. sectionNo <= Len(sections) /\ regionNo <= Len(regions) /\ Current.kind = "non_table"
  BY DEF SectionsOK, InRegion
<1>2. /\ SectionOK(This) /\ This \in SectionRecord /\ Len(This.elements) \in Nat \ {0}
      /\ First(This) \in 1 .. Size /\ End(This) \in 1 .. Size
      /\ First(This) \in Int /\ End(This) \in Int
      /\ End(This) = First(This) + Len(This.elements) - 1
      /\ \A k \in 1 .. Len(This.elements) : This.elements[k] = First(This) + k - 1
  BY <1>1, ThisFacts
<1>3. Size \in Nat /\ RegionOK(Current) /\ First(Current) \in Int /\ End(Current) \in Int
  BY <1>1, CurrentFacts, ElementFacts
<1>4. /\ piece \in Seq(Tokens) /\ Len(piece) \in Nat \ {0}
      /\ Len(piece) <= config.target_chunk_tokens
      /\ piece[1] = text[from] /\ piece[Len(piece)] = text[to]
      /\ text[from] # Blank /\ text[to] # Blank
      /\ from \in 1 .. Len(text)
      /\ \A k \in 1 .. Len(piece) : piece[k] = text[from + k - 1] /\ from + k - 1 \in 1 .. Len(text)
  BY LenProperties, TextTokenFacts DEF IsPiece
<1>5. /\ d.element_types = unique_element_types(This.elements) /\ d.text = piece
      /\ d.token_count = Len(piece) /\ d.strategy \in {"structure_aware", "recursive"}
      /\ d.section_path = This.path /\ d.pages = page_metadata(This.elements)
      /\ d.oversized = FALSE
  BY DEF SectionDraft, Draft, count
<1>6. \A j \in Within(This) : j \in 1 .. Size /\ j \in Range(This.elements) /\ j \in Within(Current)
  <2> SUFFICES ASSUME NEW j \in Within(This)
               PROVE  j \in 1 .. Size /\ j \in Range(This.elements) /\ j \in Within(Current)
    OBVIOUS
  <2>1. j \in First(This) .. End(This) /\ j \in Int
    BY <1>2 DEF Within
  <2>2. j - First(This) + 1 \in 1 .. Len(This.elements)
        /\ First(This) + (j - First(This) + 1) - 1 = j
    BY <1>2, <2>1
  <2>3. This.elements[j - First(This) + 1] = j
    BY <1>2, <2>2
  <2>4. j \in Range(This.elements)
    <3>1. This.elements \in Seq(1 .. Size)
      BY <1>2 DEF SectionOK, IsRun
    <3> QED BY Zenon, <2>2, <2>3, <3>1, MembersOf
  <2> QED BY <1>2, <1>3, <2>1, <2>4 DEF SectionOK, Within
<1>7. \A j \in Range(This.elements) : j \in 1 .. Size
  <2>1. This.elements \in Seq(1 .. Size)
    BY <1>2 DEF SectionOK, IsRun
  <2> QED BY Zenon, <2>1, MembersOf
<1>8. d.element_types \subseteq ElementType /\ d.pages \subseteq Nat
  BY <1>5, <1>7, ElementFacts DEF unique_element_types, page_metadata, Element, Type
<1>9. d \in DraftRecord
  <2>1. This.path \in Nat \cup {None}
    BY <1>2 DEF SectionRecord
  <2>2. unique_element_types(This.elements) \in SUBSET ElementType
        /\ page_metadata(This.elements) \in SUBSET Nat
    BY <1>5, <1>8
  <2>3. (IF has_headings THEN "structure_aware" ELSE "recursive")
            \in {"structure_aware", "recursive", "table_atomic"}
    OBVIOUS
  <2>4. FALSE \in BOOLEAN
    OBVIOUS
  <2> QED BY Zenon, <1>4, <2>1, <2>2, <2>3, <2>4, DraftTyped DEF SectionDraft
<1>10. i \in Within(This)
  BY <1>4, TextTokenFacts
<1>11. /\ d.section_path = HeadingOf(i)
       /\ elements[i].page # None => elements[i].page \in d.pages
       /\ Type(i) \in d.element_types
  BY <1>2, <1>5, <1>6, <1>10 DEF SectionOK, page_metadata, unique_element_types, Type
<1>12. \A m \in 1 .. Len(d.text) : d.text[m] # Blank => Type(d.text[m][1]) # "table"
  <2> SUFFICES ASSUME NEW m \in 1 .. Len(piece), piece[m] # Blank PROVE Type(piece[m][1]) # "table"
    BY <1>5
  <2>1. piece[m] = text[from + m - 1] /\ from + m - 1 \in 1 .. Len(text)
    BY <1>4
  <2>2. piece[m][1] \in Within(This)
    BY <2>1, TextTokenFacts
  <2> QED BY <1>1, <1>3, <1>6, <2>2 DEF RegionOK
<1> HIDE DEF d
<1>13. ProseOK(d) /\ LastToken(d) = text[to]
  BY <1>4, <1>5, <1>9, <1>11, <1>12 DEF ProseOK, LastToken
<1> QED BY <1>4, <1>5, <1>13 DEF d

\* The drafts es are ds and d.
IsAppended(es, ds, d) ==
    /\ Len(ds) \in Nat /\ Len(es) = Len(ds) + 1
    /\ \A k \in 1 .. Len(ds) : es[k] = ds[k]
    /\ es[Len(ds) + 1] = d
    /\ \A k \in 1 .. Len(ds) + 1 : k \in 1 .. Len(ds) \/ k = Len(ds) + 1
    /\ \A t : Holds(es, t) <=> Holds(ds, t) \/ In(t, d)

LEMMA DraftAppended ==
    ASSUME NEW S, NEW ds \in Seq(S), NEW d \in S
    PROVE  Append(ds, d) \in Seq(S) /\ IsAppended(Append(ds, d), ds, d)
<1> DEFINE es == Append(ds, d)
<1>1. /\ es \in Seq(S) /\ Len(ds) \in Nat /\ Len(es) = Len(ds) + 1
      /\ \A k \in 1 .. Len(ds) : es[k] = ds[k]
      /\ es[Len(ds) + 1] = d
  BY AppendProperties, LenProperties
<1> HIDE DEF es
<1>2. \A k \in 1 .. Len(ds) + 1 : k \in 1 .. Len(ds) \/ k = Len(ds) + 1
  BY <1>1
<1>3. \A t : Holds(es, t) <=> Holds(ds, t) \/ In(t, d)
  <2> SUFFICES ASSUME NEW t PROVE Holds(es, t) <=> Holds(ds, t) \/ In(t, d)
    OBVIOUS
  <2>1. ASSUME Holds(ds, t) PROVE Holds(es, t)
    <3>1. PICK k \in 1 .. Len(ds) : In(t, ds[k])
      BY <2>1 DEF Holds
    <3>2. k \in 1 .. Len(es) /\ In(t, es[k])
      BY <1>1, <3>1
    <3> QED BY <3>2 DEF Holds
  <2>2. ASSUME In(t, d) PROVE Holds(es, t)
    <3>1. Len(ds) + 1 \in 1 .. Len(es)
      BY <1>1
    <3> QED BY <1>1, <2>2, <3>1 DEF Holds
  <2>3. ASSUME Holds(es, t) PROVE Holds(ds, t) \/ In(t, d)
    BY <1>1, <1>2, <2>3 DEF Holds
  <2> QED BY <2>1, <2>2, <2>3
<1>4. IsAppended(es, ds, d)
  BY <1>1, <1>2, <1>3 DEF IsAppended
<1> QED BY <1>1, <1>4 DEF es

\* What the drafts hold and where they end once the text is cut up to `to'.
CutTo(ds, to) ==
    /\ ds \in Seq(DraftRecord) /\ Len(ds) \in Nat
    /\ \A k \in 1 .. Len(ds) :
          /\ ProseOK(ds[k])
          /\ LastToken(ds[k])[1] \in Within(Current)
          /\ \A l \in 1 .. Len(sections) :
                sectionNo < l => LastToken(ds[k])[1] < First(sections[l])
          /\ ds[k].token_count <= config.target_chunk_tokens
          /\ \A m \in to + 1 .. Len(text) :
                text[m] # Blank => Before(LastToken(ds[k]), text[m])
    /\ EndsOrdered(ds)
    /\ \A t : Holds(region_drafts, t) => Holds(ds, t)
    /\ \A m \in 1 .. to : text[m] # Blank => Holds(ds, text[m])

LEMMA PieceAppended ==
    ASSUME DocumentOK, RegionsOK, SectionsOK, TextOK, DraftsOK, pc = "split",
           NEW piece, NEW from \in Nat, NEW to \in Nat, IsPiece(piece, from, to),
           NEW d, d = SectionDraft(This, piece),
           NEW ds, ds = Append(region_drafts, d)
    PROVE  CutTo(ds, to)
<1> DEFINE n == Len(region_drafts)
<1>1. sectionNo <= Len(sections) /\ InRegion /\ Joined(text, First(This), End(This))
      /\ cursor \in 0 .. Len(text) - 1
  BY DEF SectionsOK, TextOK, InRegion
<1>2. /\ ProseOK(d) /\ LastToken(d) = text[to] /\ d.text = piece
      /\ d.token_count <= config.target_chunk_tokens
  BY SectionDraftOK
<1>3. d \in DraftRecord /\ region_drafts \in Seq(DraftRecord)
  BY <1>2 DEF ProseOK, DraftsOK
<1>4. /\ ds \in Seq(DraftRecord) /\ n \in Nat /\ Len(ds) = n + 1
      /\ \A k \in 1 .. n : ds[k] = region_drafts[k]
      /\ ds[n + 1] = d
      /\ \A k \in 1 .. n + 1 : k \in 1 .. n \/ k = n + 1
      /\ \A t : Holds(ds, t) <=> Holds(region_drafts, t) \/ In(t, d)
  <2>1. ds \in Seq(DraftRecord) /\ IsAppended(ds, region_drafts, d)
    BY Zenon, <1>3, DraftAppended
  <2> QED BY <2>1 DEF IsAppended
<1>5. /\ to \in 1 .. Len(text) /\ text[to] # Blank /\ cursor < to /\ from \in 1 .. to
      /\ Len(piece) = to - from + 1
      /\ \A k \in 1 .. Len(piece) : piece[k] = text[from + k - 1]
      /\ \A m \in cursor + 1 .. to : text[m] # Blank => from <= m
  BY DEF IsPiece
<1>6. Len(text) \in Nat /\ cursor \in Nat /\ text[to][1] \in Within(This) /\ text[to][1] \in Nat
  BY <1>1, <1>5, TextTokenFacts
<1>7. /\ SectionOK(This) /\ First(This) \in Int /\ End(This) \in Int
      /\ sectionNo \in 1 .. Len(sections) /\ This = sections[sectionNo]
      /\ First(Current) \in Int /\ End(Current) \in Int
  <2>1. regionNo <= Len(regions)
    BY <1>1 DEF SectionsOK
  <2> QED BY <1>1, <2>1, ThisFacts, CurrentFacts, ElementFacts
<1> HIDE DEF n
<1>8. ASSUME NEW k \in 1 .. n
      PROVE  /\ ProseOK(ds[k])
             /\ LastToken(ds[k])[1] \in Within(Current)
             /\ \A l \in 1 .. Len(sections) :
                   sectionNo < l => LastToken(ds[k])[1] < First(sections[l])
             /\ ds[k].token_count <= config.target_chunk_tokens
             /\ \A m \in cursor + 1 .. Len(text) :
                   text[m] # Blank => Before(LastToken(ds[k]), text[m])
  <2>1. ds[k] = region_drafts[k] /\ k \in 1 .. Len(region_drafts)
    BY <1>4 DEF n
  <2>2. ~(sectionNo > Len(sections)) /\ config.target_chunk_tokens + 0 = config.target_chunk_tokens
    BY <1>7, ConfigFacts, LenProperties DEF SectionsOK
  <2> QED BY <1>1, <2>1, <2>2 DEF DraftsOK
<1>9. /\ LastToken(d)[1] \in Within(Current)
      /\ \A l \in 1 .. Len(sections) : sectionNo < l => LastToken(d)[1] < First(sections[l])
  <2> DEFINE t == LastToken(d)[1]
  <2>0. t \in Nat /\ First(This) <= t /\ t <= End(This)
    BY <1>2, <1>6, <1>7 DEF Within
  <2> HIDE DEF t
  <2>1. t \in Within(Current)
    BY <1>7, <2>0 DEF SectionOK, Within
  <2>2. ASSUME NEW l \in 1 .. Len(sections), sectionNo < l
        PROVE  LastToken(d)[1] < First(sections[l])
    <3>1. End(This) < First(sections[l]) /\ SectionOK(sections[l])
      BY <1>1, <1>7, <2>2 DEF SectionsOK, Ordered
    <3>2. First(sections[l]) \in Int
      BY <3>1, RunEnds DEF SectionOK
    <3>3. t < First(sections[l])
      BY <1>7, <2>0, <3>1, <3>2
    <3> QED BY <3>3 DEF t
  <2> QED BY <2>1, <2>2 DEF t
<1>10. \A m \in to + 1 .. Len(text) : text[m] # Blank => Before(LastToken(d), text[m])
  BY <1>1, <1>2, <1>5, <1>6 DEF Joined
<1>11. \A k \in 1 .. Len(ds) :
          /\ ProseOK(ds[k])
          /\ LastToken(ds[k])[1] \in Within(Current)
          /\ \A l \in 1 .. Len(sections) :
                sectionNo < l => LastToken(ds[k])[1] < First(sections[l])
          /\ ds[k].token_count <= config.target_chunk_tokens
          /\ \A m \in to + 1 .. Len(text) :
                text[m] # Blank => Before(LastToken(ds[k]), text[m])
  <2> SUFFICES ASSUME NEW k \in 1 .. n + 1
               PROVE  /\ ProseOK(ds[k])
                      /\ LastToken(ds[k])[1] \in Within(Current)
                      /\ \A l \in 1 .. Len(sections) :
                            sectionNo < l => LastToken(ds[k])[1] < First(sections[l])
                      /\ ds[k].token_count <= config.target_chunk_tokens
                      /\ \A m \in to + 1 .. Len(text) :
                            text[m] # Blank => Before(LastToken(ds[k]), text[m])
    BY <1>4
  <2>1. CASE k \in 1 .. n
    <3>1. \A m \in to + 1 .. Len(text) : m \in cursor + 1 .. Len(text)
      BY <1>5, <1>6
    <3> QED BY Zenon, <1>8, <2>1, <3>1
  <2>2. CASE k = n + 1
    BY <1>2, <1>4, <1>9, <1>10, <2>2
  <2> QED BY <1>4, <2>1, <2>2
<1>12. EndsOrdered(ds)
  <2> SUFFICES ASSUME NEW k \in 1 .. n + 1, NEW l \in 1 .. n + 1, k < l
               PROVE  Before(LastToken(ds[k]), LastToken(ds[l]))
    BY <1>4 DEF EndsOrdered
  <2>1. CASE l \in 1 .. n
    <3>1. k \in 1 .. n
      BY <1>4, <2>1
    <3> QED BY <1>1, <1>4, <2>1, <3>1 DEF DraftsOK, EndsOrdered, n
  <2>2. CASE l = n + 1
    <3>1. k \in 1 .. n /\ to \in cursor + 1 .. Len(text)
      BY <1>4, <1>5, <1>6, <2>2
    <3> QED BY <1>2, <1>4, <1>5, <1>8, <2>2, <3>1
  <2> QED BY <1>4, <2>1, <2>2
<1>13. ASSUME NEW m \in 1 .. to, text[m] # Blank PROVE Holds(ds, text[m])
  <2>1. CASE m \in 1 .. cursor
    BY <1>4, <1>13, <2>1 DEF DraftsOK
  <2>2. CASE m \notin 1 .. cursor
    <3>1. m \in cursor + 1 .. to
      BY <1>5, <1>6, <2>2
    <3>2. m - from + 1 \in 1 .. Len(piece) /\ from + (m - from + 1) - 1 = m
      BY <1>5, <1>13, <3>1
    <3>3. piece[m - from + 1] = text[m]
      BY <1>5, <3>2
    <3>4. In(text[m], d)
      BY Zenon, <1>2, <3>2, <3>3 DEF In
    <3> QED BY <1>4, <3>4
  <2> QED BY <2>1, <2>2
<1>14. Len(ds) \in Nat
  BY <1>4
<1> QED BY Zenon, <1>4, <1>11, <1>12, <1>13, <1>14 DEF CutTo

LEMMA SplitPieceOK ==
    ASSUME DocumentOK, RegionsOK, SectionsOK, TextOK, DraftsOK, SplitPiece
    PROVE  SectionsOK' /\ TextOK' /\ DraftsOK'
<1>1. /\ pc = "split" /\ UNCHANGED <<elements, scenario, buffer, regions, regionNo, path, sections>>
  BY DEF SplitPiece, regionVars
<1>2. PICK w \in Windows :
         /\ region_drafts' = Append(region_drafts, SectionDraft(This, Stripped(w[1], w[2])))
         /\ IF w[2] = Len(text) THEN NextSection
            ELSE cursor' = w[2] /\ UNCHANGED <<sectionNo, pc, next, text>>
  BY DEF SplitPiece, This
<1> DEFINE piece == Stripped(w[1], w[2])
           to == w[2]
           ds == region_drafts'
<1>3. PICK from \in Nat : IsPiece(piece, from, to)
  BY <1>1, PieceFacts
<1>4. /\ to \in Nat /\ to \in 1 .. Len(text) /\ Len(text) \in Nat
      /\ sectionNo <= Len(sections) /\ sectionNo \in 1 .. Len(sections)
      /\ Len(sections) \in Nat /\ This = sections[sectionNo]
      /\ Joined(text, First(This), End(This))
  <2>1. sectionNo <= Len(sections) /\ Joined(text, First(This), End(This))
    BY <1>1 DEF SectionsOK, TextOK
  <2>2. sectionNo \in 1 .. Len(sections) /\ This = sections[sectionNo]
    BY <1>1, <2>1, ThisFacts
  <2>3. Len(text) \in Nat
    BY <1>1, TextTokenFacts
  <2>4. Len(sections) \in Nat
    BY LenProperties DEF SectionsOK
  <2>5. to \in 1 .. Len(text)
    BY <1>3 DEF IsPiece
  <2> QED BY <2>1, <2>2, <2>3, <2>4, <2>5
<1>5. CutTo(ds, to)
  <2> HIDE DEF piece, to
  <2>1. region_drafts' = Append(region_drafts, SectionDraft(This, piece))
    BY <1>2 DEF piece
  <2> QED BY Zenon, <1>1, <1>3, <1>4, <2>1, PieceAppended
<1>6. /\ Current' = Current /\ Within(Current)' = Within(Current) /\ config' = config
      /\ DraftRecord' = DraftRecord
      /\ \A d : ProseOK(d)' <=> ProseOK(d)
      /\ \A es, i : HoldsElement(es, i)' <=> HoldsElement(es, i)
  BY <1>1, Frame, DraftFrame DEF Current, Within, First, End, config
<1>7. \A l \in 1 .. sectionNo - 1 : \A i \in Within(sections[l]) : HoldsElement(ds, i)
  <2>1. \A l \in 1 .. sectionNo - 1 : \A i \in Within(sections[l]) : HoldsElement(region_drafts, i)
    BY <1>1 DEF DraftsOK, InRegion
  <2>2. \A i : HoldsElement(region_drafts, i) => HoldsElement(ds, i)
    BY Zenon, <1>5 DEF CutTo, HoldsElement
  <2> QED BY Zenon, <2>1, <2>2
<1>8. \A k \in 1 .. Len(ds) :
         ds[k].token_count <= config.target_chunk_tokens
                                 + IF sectionNo' > Len(sections) /\ k = Len(ds)
                                   THEN config.min_chunk_tokens ELSE 0
  <2> SUFFICES ASSUME NEW k \in 1 .. Len(ds)
               PROVE  ds[k].token_count <= config.target_chunk_tokens
                                 + IF sectionNo' > Len(sections) /\ k = Len(ds)
                                   THEN config.min_chunk_tokens ELSE 0
    OBVIOUS
  <2>1. ds[k].token_count \in Nat /\ ds[k].token_count <= config.target_chunk_tokens
    <3>1. ProseOK(ds[k]) /\ ds[k].token_count <= config.target_chunk_tokens
      BY Zenon, <1>5 DEF CutTo
    <3>2. ds[k] \in DraftRecord
      BY <3>1 DEF ProseOK
    <3> HIDE DEF ds
    <3> QED BY <3>1, <3>2 DEF DraftRecord
  <2> HIDE DEF ds
  <2> QED BY <2>1, ConfigFacts
<1> HIDE DEF ds, piece
<1>9. CASE to = Len(text)
  <2>1. sectionNo' = sectionNo + 1 /\ pc' = "join" /\ next' = 1 /\ cursor' = 0
    BY <1>2, <1>9 DEF NextSection
  <2>2. SectionsOK'
    BY <1>1, <1>4, <2>1, SectionsStay DEF InRegion
  <2>3. TextOK'
    <3>1. ASSUME sectionNo' <= Len(sections') PROVE next' \in 1 .. Len(This'.elements)
      <4>1. sectionNo + 1 \in 1 .. Len(sections) /\ This' = sections[sectionNo + 1]
        BY <1>1, <1>4, <2>1, <3>1 DEF This
      <4>2. IsRun(This')
        BY <1>1, <4>1 DEF SectionsOK, SectionOK, InRegion
      <4>3. Len(This'.elements) \in Nat \ {0}
        BY <4>2, RunEnds
      <4> QED BY <2>1, <4>3
    <3> QED BY <2>1, <3>1 DEF TextOK
  <2>4. \A i \in Within(This) : HoldsElement(ds, i)
    <3> SUFFICES ASSUME NEW i \in Within(This), NEW k \in 1 .. elements[i].size
                 PROVE  Holds(ds, <<i, k>>)
      BY Zenon DEF HoldsElement
    <3>1. <<i, k>> \in TextTokens(First(This), End(This))
      BY DEF TextTokens, TokensOf, Within
    <3>2. First(This) \in 1 .. Size /\ End(This) \in 1 .. Size
      BY <1>1, <1>4, ThisFacts
    <3>3. <<i, k>> # Blank
      BY <3>1, <3>2, TokenFacts
    <3>4. PICK m \in 1 .. Len(text) : text[m] = <<i, k>>
      BY <1>4, <3>1 DEF Joined
    <3>5. m \in 1 .. to /\ text[m] # Blank
      BY Zenon, <1>9, <3>3, <3>4
    <3>6. Holds(ds, text[m])
      BY Zenon, <1>5, <3>5 DEF CutTo
    <3> QED BY Zenon, <3>4, <3>6
  <2>5. \A l \in 1 .. sectionNo' - 1 : \A i \in Within(sections[l]) : HoldsElement(ds, i)
    <3> SUFFICES ASSUME NEW l \in 1 .. sectionNo, NEW i \in Within(sections[l])
                 PROVE  HoldsElement(ds, i)
      BY <1>4, <2>1
    <3>1. l \in 1 .. sectionNo - 1 \/ l = sectionNo
      BY <1>4
    <3> QED BY <1>4, <1>7, <2>4, <3>1
  <2>6. \A k \in 1 .. Len(ds), l \in 1 .. Len(sections) :
           sectionNo' < l \/ (sectionNo' = l /\ pc' = "join") =>
              LastToken(ds[k])[1] < First(sections[l])
    BY <1>4, <1>5, <2>1 DEF CutTo
  <2>7. DraftsOK'
    BY <1>1, <1>5, <1>6, <1>8, <2>1, <2>5, <2>6 DEF CutTo, DraftsOK, InRegion, ds
  <2> QED BY <2>2, <2>3, <2>7
<1>10. CASE to # Len(text)
  <2>1. cursor' = to /\ UNCHANGED <<sectionNo, pc, next, text>>
    BY <1>2, <1>10
  <2>2. SectionsOK'
    BY <1>1, <1>4, <2>1, SectionsStay DEF InRegion
  <2>3. TextOK'
    <3>1. This' = This /\ First(This)' = First(This) /\ End(This)' = End(This)
      BY <1>1, <2>1 DEF This, First, End
    <3>2. Joined(text, First(This), End(This))'
      BY <1>1, <1>4, <2>1, <3>1, JoinedFrame
    <3> QED BY <1>1, <1>4, <1>10, <2>1, <3>2 DEF TextOK
  <2>4. DraftsOK'
    BY <1>1, <1>5, <1>6, <1>7, <1>8, <2>1 DEF CutTo, DraftsOK, InRegion, ds
  <2> QED BY <2>2, <2>3, <2>4
<1> QED BY <1>9, <1>10

-----------------------------------------------------------------------------
(* _merge_undersized_tail *)

LEMMA TokenIsPair ==
    ASSUME DocumentOK, NEW t \in Tokens
    PROVE  t[1] \in Nat /\ t[2] \in Nat /\ t = <<t[1], t[2]>>
<1>1. CASE t = Blank
  BY <1>1 DEF Blank
<1>2. CASE t # Blank
  <2>1. PICK i \in 1 .. Size : t \in Range(Text(i))
    BY <1>2 DEF Tokens, Size
  <2>2. Text(i) \in Seq(TokensOf(i)) /\ elements[i].size \in Nat
    BY TextFacts
  <2>3. t \in TokensOf(i)
    BY <2>1, <2>2, MembersOf
  <2>4. PICK k \in 1 .. elements[i].size : t = <<i, k>>
    BY <2>3 DEF TokensOf
  <2>5. i \in Nat /\ k \in Nat
    BY <2>2, ElementFacts
  <2> QED BY <2>4, <2>5
<1> QED BY <1>1, <1>2

LEMMA ProseText ==
    ASSUME DocumentOK, NEW d, ProseOK(d)
    PROVE  /\ d \in DraftRecord /\ d.text \in Seq(Tokens) /\ Len(d.text) \in Nat \ {0}
           /\ d.token_count = Len(d.text) /\ d.token_count \in Nat
           /\ LastToken(d) \in Tokens /\ LastToken(d)[1] \in Nat /\ LastToken(d)[2] \in Nat
<1>1. d \in DraftRecord /\ Len(d.text) >= 1 /\ d.token_count = Len(d.text)
  BY DEF ProseOK
<1>2. d.text \in Seq(Tokens)
  BY <1>1 DEF DraftRecord
<1>3. Len(d.text) \in Nat \ {0}
  BY <1>1, <1>2, LenProperties
<1>4. LastToken(d) \in Tokens
  BY <1>2, <1>3, ElementOfSeq DEF LastToken
<1> QED BY <1>1, <1>2, <1>3, <1>4, TokenIsPair

\* Names of the proof for what the source calls _merge_two_drafts and
\* _merge_undersized_tail.
Merged(p, q) == _merge_two_drafts(p, q)
MergeStep == _merge_undersized_tail

LEMMA MergeTwoOK ==
    ASSUME DocumentOK, NEW p, NEW q, ProseOK(p), ProseOK(q),
           NEW e, e = Merged(p, q)
    PROVE  /\ ProseOK(e) /\ LastToken(e) = LastToken(q)
           /\ e.token_count = p.token_count + 1 + q.token_count
           /\ \A t : In(t, p) \/ In(t, q) => In(t, e)
<1>1. /\ p \in DraftRecord /\ p.text \in Seq(Tokens) /\ Len(p.text) \in Nat \ {0}
      /\ q \in DraftRecord /\ q.text \in Seq(Tokens) /\ Len(q.text) \in Nat \ {0}
      /\ p.token_count = Len(p.text) /\ q.token_count = Len(q.text)
  BY ProseText
<1>2. Blank \in Tokens
  BY DEF Tokens
<1> DEFINE u == p.text \o <<Blank>> \o q.text
<1>3. u \in Seq(Tokens) /\ BlankJoined(u, p.text, q.text)
  BY Zenon, <1>1, <1>2, BlankBetween
<1>4. e = [p EXCEPT !.text = u, !.token_count = Len(u),
                    !.element_types = p.element_types \cup q.element_types]
  BY DEF Merged, _merge_two_drafts, count
<1> HIDE DEF u
<1>5. Len(u) \in Nat
  BY <1>3, LenProperties
<1>6. /\ e \in DraftRecord /\ e.text = u /\ e.token_count = Len(u)
      /\ e.element_types = p.element_types \cup q.element_types
      /\ e.strategy = p.strategy /\ e.section_path = p.section_path /\ e.pages = p.pages
  <2>1. /\ p = [element_types |-> p.element_types, text |-> p.text, token_count |-> p.token_count,
                strategy |-> p.strategy, section_path |-> p.section_path, pages |-> p.pages,
                oversized |-> p.oversized]
        /\ p.element_types \subseteq ElementType /\ q.element_types \subseteq ElementType
        /\ p.strategy \in {"structure_aware", "recursive", "table_atomic"}
        /\ p.section_path \in Nat \cup {None} /\ p.pages \in SUBSET Nat /\ p.oversized \in BOOLEAN
    BY <1>1 DEF DraftRecord
  <2>2. e = Draft(p.element_types \cup q.element_types, u, p.strategy, p.section_path,
                  p.pages, p.oversized)
    BY <1>4, <2>1 DEF Draft, count
  <2>3. p.element_types \cup q.element_types \in SUBSET ElementType
    BY <2>1
  <2>4. e \in DraftRecord
    BY <1>3, <1>5, <2>1, <2>2, <2>3 DEF Draft, count, DraftRecord
  <2>5. /\ e.text = u /\ e.token_count = Len(u)
        /\ e.element_types = p.element_types \cup q.element_types
        /\ e.strategy = p.strategy /\ e.section_path = p.section_path /\ e.pages = p.pages
    BY <2>2 DEF Draft, count
  <2> QED BY <2>4, <2>5
<1>7. /\ Len(u) = Len(p.text) + 1 + Len(q.text)
      /\ \A m \in 1 .. Len(p.text) : u[m] = p.text[m] /\ m \in 1 .. Len(u)
      /\ u[Len(p.text) + 1] = Blank
      /\ \A k \in 1 .. Len(q.text) :
            u[Len(p.text) + 1 + k] = q.text[k] /\ Len(p.text) + 1 + k \in 1 .. Len(u)
      /\ \A m \in 1 .. Len(u) : \/ m \in 1 .. Len(p.text)
                                \/ m = Len(p.text) + 1
                                \/ \E k \in 1 .. Len(q.text) : m = Len(p.text) + 1 + k
  BY Zenon, <1>3 DEF BlankJoined
<1>8. u[1] = p.text[1] /\ u[Len(u)] = q.text[Len(q.text)]
  <2>1. 1 \in 1 .. Len(p.text) /\ Len(q.text) \in 1 .. Len(q.text)
    BY <1>1
  <2>2. u[1] = p.text[1] /\ u[Len(p.text) + 1 + Len(q.text)] = q.text[Len(q.text)]
    BY Zenon, <1>7, <2>1
  <2> QED BY Zenon, <1>7, <2>2
<1>9. \A m \in 1 .. Len(u) : u[m] # Blank => Type(u[m][1]) # "table"
  <2> SUFFICES ASSUME NEW m \in 1 .. Len(u), u[m] # Blank PROVE Type(u[m][1]) # "table"
    OBVIOUS
  <2>1. CASE m \in 1 .. Len(p.text)
    <3>1. u[m] = p.text[m]
      BY Zenon, <1>7, <2>1
    <3> QED BY <2>1, <3>1 DEF ProseOK
  <2>2. CASE \E k \in 1 .. Len(q.text) : m = Len(p.text) + 1 + k
    <3>1. PICK k \in 1 .. Len(q.text) : m = Len(p.text) + 1 + k
      BY <2>2
    <3>2. u[m] = q.text[k]
      BY Zenon, <1>7, <3>1
    <3> QED BY <3>2 DEF ProseOK
  <2> QED BY Zenon, <1>7, <2>1, <2>2
<1>10. LastToken(e) = LastToken(q)
  BY <1>6, <1>8 DEF LastToken
<1>11. ProseOK(e)
  <2>1. Len(e.text) >= 1 /\ e.token_count = Len(e.text)
    <3>1. Len(u) = Len(p.text) + 1 + Len(q.text)
      BY <1>7
    <3>2. ASSUME NEW x \in Nat, NEW y \in Nat PROVE x + 1 + y >= 1
      OBVIOUS
    <3>3. Len(p.text) \in Nat /\ Len(q.text) \in Nat
      BY <1>1
    <3>4. Len(u) >= 1
      BY Zenon, <3>1, <3>2, <3>3
    <3> QED BY <1>6, <3>4
  <2>2. e.text[1] = p.text[1]
    BY <1>6, <1>8
  <2>3. \A m \in 1 .. Len(e.text) : e.text[m] # Blank => Type(e.text[m][1]) # "table"
    BY <1>6, <1>9
  <2>4. e.strategy # "table_atomic" /\ e.text[1] # Blank /\ LastToken(e) # Blank
    BY <1>6, <1>10, <2>2 DEF ProseOK
  <2>5. /\ e.section_path = HeadingOf(e.text[1][1])
        /\ elements[e.text[1][1]].page # None => elements[e.text[1][1]].page \in e.pages
        /\ Type(e.text[1][1]) \in e.element_types
    BY <1>6, <2>2 DEF ProseOK
  <2> QED BY <1>6, <2>1, <2>3, <2>4, <2>5 DEF ProseOK
<1>12. ASSUME NEW t, In(t, p) \/ In(t, q) PROVE In(t, e)
  <2>1. ASSUME In(t, p) PROVE In(t, e)
    BY Zenon, <1>6, <1>7, <2>1 DEF In
  <2>2. ASSUME In(t, q) PROVE In(t, e)
    <3>1. PICK k \in 1 .. Len(q.text) : q.text[k] = t
      BY <2>2 DEF In
    <3>2. u[Len(p.text) + 1 + k] = t /\ Len(p.text) + 1 + k \in 1 .. Len(u)
      BY Zenon, <1>7, <3>1
    <3> QED BY Zenon, <1>6, <3>2 DEF In
  <2> QED BY <1>12, <2>1, <2>2
<1>13. e.token_count = p.token_count + 1 + q.token_count
  <2>1. Len(u) = Len(p.text) + 1 + Len(q.text)
    BY Zenon, <1>7
  <2> QED BY <1>1, <1>6, <2>1
<1> QED BY <1>10, <1>11, <1>12, <1>13

LEMMA MergeStepOK ==
    ASSUME DocumentOK, RegionsOK, SectionsOK, DraftsOK, MergeStep
    PROVE  DraftsOK'
<1> DEFINE rd == region_drafts
           n == Len(region_drafts)
           p == region_drafts[n - 1]
           q == region_drafts[n]
           h == SubSeq(region_drafts, 1, n - 2)
           e == Merged(p, q)
           ds == region_drafts'
<1>1. /\ pc = "join" /\ sectionNo > Len(sections) /\ n > 1
      /\ q.token_count < config.min_chunk_tokens
      /\ ds = Append(h, e)
      /\ UNCHANGED <<elements, scenario, pc, regions, regionNo, sections, sectionNo>>
  BY DEF MergeStep, _merge_undersized_tail, Undersized, MergeLast, Merged, regionVars, sectionVars
<1>2. /\ InRegion /\ rd \in Seq(DraftRecord) /\ n \in Nat
      /\ \A k \in 1 .. n :
            /\ ProseOK(rd[k])
            /\ LastToken(rd[k])[1] \in Within(Current)
            /\ rd[k].token_count <= config.target_chunk_tokens
                                       + IF k = n THEN config.min_chunk_tokens ELSE 0
      /\ EndsOrdered(rd)
      /\ \A l \in 1 .. sectionNo - 1 : \A i \in Within(sections[l]) : HoldsElement(rd, i)
  BY <1>1, LenProperties DEF DraftsOK, InRegion
<1>3. sectionNo \in Int /\ Len(sections) \in Nat
  BY LenProperties DEF SectionsOK
<1>4. ProseOK(p) /\ ProseOK(q) /\ LastToken(q)[1] \in Within(Current)
      /\ n - 1 \in 1 .. n /\ n \in 1 .. n
  <2>1. n \in Nat /\ n > 1
    BY <1>1, <1>2
  <2> HIDE DEF n
  <2>2. n - 1 \in 1 .. n /\ n \in 1 .. n
    BY <2>1
  <2> QED BY <1>2, <2>2
<1>5. /\ ProseOK(e) /\ LastToken(e) = LastToken(q)
      /\ e.token_count = p.token_count + 1 + q.token_count
      /\ \A t : In(t, p) \/ In(t, q) => In(t, e)
  BY <1>4, MergeTwoOK
<1>6. /\ h \in Seq(DraftRecord) /\ Len(h) = n - 2
      /\ \A k \in 1 .. n - 2 : h[k] = rd[k]
  <2>1. n \in Nat /\ n > 1 /\ region_drafts \in Seq(DraftRecord)
    BY <1>1, <1>2
  <2> DEFINE last == n - 2
  <2>2. last \in Nat /\ last <= Len(region_drafts) /\ last - 1 + 1 = last
        /\ \A k \in 1 .. last : 1 + k - 1 = k /\ k \in Int
    BY <2>1
  <2> HIDE DEF n, last
  <2>3. SubSeq(region_drafts, 1, last) \in Seq(DraftRecord)
        /\ Len(SubSeq(region_drafts, 1, last)) = last
        /\ \A k \in 1 .. last : SubSeq(region_drafts, 1, last)[k] = region_drafts[k]
    BY <2>1, <2>2, SubSeqProperties
  <2> QED BY <2>3 DEF last
<1>7. e \in DraftRecord
  BY <1>5 DEF ProseOK
<1> HIDE DEF rd, n, p, q, h, e, ds
<1>8. ds \in Seq(DraftRecord) /\ IsAppended(ds, h, e)
  BY <1>1, <1>6, <1>7, DraftAppended
<1>9. /\ Len(ds) = n - 1 /\ ds[n - 1] = e
      /\ \A k \in 1 .. n - 2 : ds[k] = rd[k]
      /\ \A k \in 1 .. Len(ds) : k \in 1 .. n - 2 \/ k = n - 1
  BY <1>1, <1>2, <1>6, <1>8 DEF IsAppended
<1>10. e.token_count <= config.target_chunk_tokens + config.min_chunk_tokens
  <2>1. p.token_count \in Nat /\ q.token_count \in Nat
    BY <1>4, ProseText
  <2>2. p.token_count <= config.target_chunk_tokens
    <3>1. n - 1 # n /\ config.target_chunk_tokens + 0 = config.target_chunk_tokens
      BY <1>2, ConfigFacts
    <3> QED BY Zenon, <1>2, <1>4, <3>1 DEF p, rd
  <2> QED BY <1>1, <1>5, <2>1, <2>2, ConfigFacts
<1>11. \A k \in 1 .. Len(ds) :
          /\ ProseOK(ds[k])
          /\ LastToken(ds[k])[1] \in Within(Current)
          /\ ds[k].token_count <= config.target_chunk_tokens
                                     + IF k = Len(ds) THEN config.min_chunk_tokens ELSE 0
  <2> SUFFICES ASSUME NEW k \in 1 .. Len(ds)
               PROVE  /\ ProseOK(ds[k])
                      /\ LastToken(ds[k])[1] \in Within(Current)
                      /\ ds[k].token_count <= config.target_chunk_tokens
                                     + IF k = Len(ds) THEN config.min_chunk_tokens ELSE 0
    BY Zenon
  <2>1. CASE k \in 1 .. n - 2
    <3>1. k \in 1 .. n /\ k # n /\ k # Len(ds)
      BY <1>2, <1>9, <2>1
    <3> QED BY <1>2, <1>9, <2>1, <3>1
  <2>2. CASE k = n - 1
    BY <1>4, <1>5, <1>9, <1>10, <2>2
  <2> QED BY <1>9, <2>1, <2>2
<1>12. EndsOrdered(ds)
  <2> SUFFICES ASSUME NEW k \in 1 .. Len(ds), NEW l \in 1 .. Len(ds), k < l
               PROVE  Before(LastToken(ds[k]), LastToken(ds[l]))
    BY DEF EndsOrdered
  <2>1. k \in 1 .. n - 2 /\ k \in 1 .. n /\ ds[k] = rd[k]
    BY <1>2, <1>9
  <2>2. CASE l \in 1 .. n - 2
    <3>1. l \in 1 .. n /\ ds[l] = rd[l]
      BY <1>2, <1>9, <2>2
    <3> QED BY <1>2, <2>1, <3>1 DEF EndsOrdered, n, rd
  <2>3. CASE l = n - 1
    <3>1. k < n /\ LastToken(ds[l]) = LastToken(rd[n])
      BY <1>2, <1>5, <1>9, <2>1, <2>3 DEF q, rd
    <3> QED BY <1>2, <1>4, <2>1, <3>1 DEF EndsOrdered, n, rd
  <2> QED BY <1>9, <2>2, <2>3
<1>13. ASSUME NEW t, Holds(rd, t) PROVE Holds(ds, t)
  <2>1. PICK k \in 1 .. n : In(t, rd[k])
    BY <1>13 DEF Holds, n, rd
  <2>2. CASE k \in 1 .. n - 2
    <3>1. k \in 1 .. Len(ds) /\ In(t, ds[k])
      BY <1>2, <1>9, <2>1, <2>2
    <3> QED BY <3>1 DEF Holds
  <2>3. CASE k \notin 1 .. n - 2
    <3>1. k = n - 1 \/ k = n
      BY <1>1, <1>2, <2>3
    <3>2. In(t, p) \/ In(t, q)
      BY <2>1, <3>1 DEF p, q, rd
    <3>3. In(t, ds[n - 1]) /\ n - 1 \in 1 .. Len(ds)
      BY <1>1, <1>2, <1>5, <1>9, <3>2
    <3> QED BY Zenon, <3>3 DEF Holds
  <2> QED BY <2>2, <2>3
<1>14. \A i : HoldsElement(rd, i) => HoldsElement(ds, i)
  BY Zenon, <1>13 DEF HoldsElement
<1>15. /\ Current' = Current /\ Within(Current)' = Within(Current) /\ config' = config
       /\ DraftRecord' = DraftRecord
       /\ \A d : ProseOK(d)' <=> ProseOK(d)
       /\ \A es, i : HoldsElement(es, i)' <=> HoldsElement(es, i)
  BY <1>1, Frame, DraftFrame DEF Current, Within, First, End, config
<1>16. \A l \in 1 .. Len(sections) : ~(sectionNo < l \/ (sectionNo = l /\ pc = "join"))
  BY <1>1, <1>3
<1> QED BY <1>1, <1>2, <1>8, <1>11, <1>12, <1>14, <1>15, <1>16 DEF DraftsOK, InRegion, ds

-----------------------------------------------------------------------------
(* The chunks *)

LEMMA TableFrame ==
    ASSUME UNCHANGED <<elements, scenario>>
    PROVE  \A d, i : IsTable(d, i)' <=> IsTable(d, i)
<1>1. \A r : TableDraft(r)' = TableDraft(r)
  BY DEF TableDraft, Draft, _serialize_table, page_metadata, Text, config, count, Blank
<1> QED BY <1>1, Frame DEF IsTable

\* A table and its caption are one draft.
LEMMA TableDraftOK ==
    ASSUME DocumentOK, NEW i \in 1 .. Size, Type(i) = "table",
           NEW d, d = TableDraft(TableRegion(i))
    PROVE  /\ d \in DraftRecord /\ d.strategy = "table_atomic"
           /\ Len(d.text) \in Nat \ {0} /\ d.token_count = Len(d.text)
           /\ LastToken(d) = <<i, elements[i].size>>
           /\ \A k \in 1 .. elements[i].size : /\ In(<<i, k>>, d)
                                               /\ d.text[Len(d.text) - elements[i].size + k] = <<i, k>>
           /\ elements[i].size <= Len(d.text)
           /\ \A m \in 1 .. Len(d.text) :
                 \/ d.text[m][1] \in {i, 0}
                 \/ d.text[m][1] = i - 1 /\ Type(i - 1) \in {"paragraph", "image_caption"}
<1> DEFINE z == elements[i].size
           c == i - 1
           S == {t \in Tokens : \/ t[1] \in {i, 0}
                                \/ /\ t[1] = i - 1
                                   /\ Type(i - 1) \in {"paragraph", "image_caption"}}
           body == Text(i)
           tokens == IF i > 1 /\ elements[i - 1].type \in {"paragraph", "image_caption"}
                     THEN Text(i - 1) \o <<Blank>> \o body ELSE body
<1>1. Size \in Nat /\ i \in Nat /\ None \notin Nat
  BY ElementFacts, ScenarioAssumption
<1>2. d = Draft({"table"}, tokens, "table_atomic", None, page_metadata(<<i>>),
                count(tokens) > config.max_chunk_tokens)
  <2>1. CASE i > 1 /\ elements[i - 1].type \in {"paragraph", "image_caption"}
    <3>1. i - 1 # None
      BY <1>1, <2>1
    <3> QED BY <2>1, <3>1 DEF TableDraft, TableRegion, _serialize_table, _caption_for_table
  <2>2. CASE ~(i > 1 /\ elements[i - 1].type \in {"paragraph", "image_caption"})
    BY <2>2 DEF TableDraft, TableRegion, _serialize_table, _caption_for_table
  <2> QED BY <2>1, <2>2
<1>3. \A j \in 1 .. Size : Text(j) \in Seq({t \in Tokens : t[1] = j})
  <2> SUFFICES ASSUME NEW j \in 1 .. Size PROVE Text(j) \in Seq({t \in Tokens : t[1] = j})
    OBVIOUS
  <2>1. /\ Text(j) \in Seq(TokensOf(j)) /\ Len(Text(j)) = elements[j].size
        /\ elements[j].size \in Nat
        /\ \A k \in 1 .. elements[j].size : Text(j)[k] = <<j, k>>
    BY TextFacts
  <2>2. \A t \in TokensOf(j) : t \in Tokens /\ t[1] = j
    <3> SUFFICES ASSUME NEW t \in TokensOf(j) PROVE t \in Tokens /\ t[1] = j
      OBVIOUS
    <3>1. PICK k \in 1 .. elements[j].size : t = <<j, k>>
      BY DEF TokensOf
    <3>2. Text(j)[k] = t /\ k \in 1 .. Len(Text(j))
      BY <2>1, <3>1
    <3>3. t \in Range(Text(j))
      BY Zenon, <2>1, <3>2, MembersOf
    <3> QED BY <3>1, <3>3 DEF Tokens, Size
  <2>3. TokensOf(j) \subseteq {t \in Tokens : t[1] = j}
    BY <2>2
  <2> QED BY <2>1, <2>3, SeqMonotonic
<1>4. Blank \in S /\ {t \in Tokens : t[1] = i} \subseteq S
  BY DEF Tokens, Blank
<1>5. body \in Seq(S) /\ Len(body) = z /\ z \in Nat \ {0} /\ \A k \in 1 .. z : body[k] = <<i, k>>
  BY <1>3, <1>4, SeqMonotonic, TextFacts
<1>6. i > 1 /\ elements[i - 1].type \in {"paragraph", "image_caption"} => Text(c) \in Seq(S)
  <2> SUFFICES ASSUME i > 1, elements[i - 1].type \in {"paragraph", "image_caption"}
               PROVE  Text(c) \in Seq(S)
    OBVIOUS
  <2>1. c \in 1 .. Size
    BY <1>1
  <2>2. {t \in Tokens : t[1] = c} \subseteq S
    BY DEF Type
  <2> HIDE DEF c, S
  <2> QED BY <1>3, <2>1, <2>2, SeqMonotonic
<1> HIDE DEF S
<1>7. /\ tokens \in Seq(S) /\ Len(tokens) \in Nat /\ z <= Len(tokens)
      /\ \A k \in 1 .. z : tokens[Len(tokens) - z + k] = <<i, k>>
  <2>1. CASE i > 1 /\ elements[i - 1].type \in {"paragraph", "image_caption"}
    <3> DEFINE cap == Text(c)
               u == cap \o <<Blank>> \o body
    <3>1. tokens = u /\ cap \in Seq(S)
      BY <1>6, <2>1
    <3> HIDE DEF cap, body, tokens, z, c
    <3>2. u \in Seq(S) /\ BlankJoined(u, cap, body)
      BY Zenon, <1>4, <1>5, <3>1, BlankBetween
    <3> HIDE DEF u
    <3>3. /\ Len(cap) \in Nat /\ Len(u) = Len(cap) + 1 + z
          /\ \A k \in 1 .. z : u[Len(cap) + 1 + k] = <<i, k>>
      BY <1>5, <3>2 DEF BlankJoined
    <3>4. Len(u) \in Nat /\ z <= Len(u) /\ Len(u) - z = Len(cap) + 1
      BY <1>5, <3>3
    <3> QED BY Zenon, <3>1, <3>2, <3>3, <3>4
  <2>2. CASE ~(i > 1 /\ elements[i - 1].type \in {"paragraph", "image_caption"})
    <3>1. tokens = body
      BY <2>2
    <3> HIDE DEF body, tokens, z
    <3>2. \A k \in 1 .. z : z - z + k = k
      BY <1>5
    <3> QED BY <1>5, <3>1, <3>2
  <2> QED BY <2>1, <2>2
<1>8. d.text = tokens /\ d.token_count = Len(tokens) /\ d.strategy = "table_atomic"
  BY <1>2 DEF Draft, count
<1>9. d \in DraftRecord
  <2> DEFINE pages == page_metadata(<<i>>)
             big == count(tokens) > config.max_chunk_tokens
             types == {"table"}
  <2>1. types \in SUBSET ElementType /\ None \in Nat \cup {None} /\ big \in BOOLEAN
    BY DEF ElementType
  <2>2. pages \in SUBSET Nat
    <3>1. <<i>> \in Seq(1 .. Size)
      OBVIOUS
    <3>2. \A j \in Range(<<i>>) : j \in 1 .. Size
      BY Zenon, <3>1, MembersOf
    <3> QED BY <3>2, ElementFacts DEF page_metadata, Element
  <2>3. tokens \in Seq(Tokens)
    <3>1. S \subseteq Tokens
      BY DEF S
    <3> QED BY <1>7, <3>1, SeqMonotonic
  <2>4. d = Draft(types, tokens, "table_atomic", None, pages, big)
    BY <1>2
  <2> HIDE DEF tokens, pages, big, types
  <2>5. Draft(types, tokens, "table_atomic", None, pages, big) \in DraftRecord
    BY <2>1, <2>2, <2>3, DraftTyped
  <2> QED BY <2>4, <2>5
<1> HIDE DEF tokens
<1>10. \A m \in 1 .. Len(tokens) :
          \/ tokens[m][1] \in {i, 0}
          \/ tokens[m][1] = i - 1 /\ Type(i - 1) \in {"paragraph", "image_caption"}
  <2>1. \A m \in 1 .. Len(tokens) : tokens[m] \in S
    BY <1>7, ElementOfSeq
  <2> QED BY <2>1 DEF S
<1>11. \A k \in 1 .. z : Len(tokens) - z + k \in 1 .. Len(tokens)
  BY <1>5, <1>7
<1>12. \A k \in 1 .. z : In(<<i, k>>, d)
  BY Zenon, <1>7, <1>8, <1>11 DEF In
<1>13. Len(tokens) \in Nat \ {0} /\ Len(tokens) - z + z = Len(tokens) /\ z \in 1 .. z
  BY <1>5, <1>7
<1>14. LastToken(d) = <<i, z>>
  BY Zenon, <1>7, <1>8, <1>13 DEF LastToken
<1> QED BY <1>7, <1>8, <1>9, <1>10, <1>12, <1>13, <1>14

LEMMA ChunkFrame ==
    ASSUME UNCHANGED <<elements, scenario>>
    PROVE  /\ \A d : ChunkOK(d)' <=> ChunkOK(d)
           /\ \A d, i : IsTable(d, i)' <=> IsTable(d, i)
           /\ \A ds, i : HoldsElement(ds, i)' <=> HoldsElement(ds, i)
           /\ DraftRecord' = DraftRecord
           /\ \A i : Type(i)' = Type(i)
<1>1. config' = config
  BY DEF config
<1> QED BY <1>1, Frame, DraftFrame, TableFrame DEF ChunkOK

LEMMA ChunkLast ==
    ASSUME DocumentOK, NEW d, ChunkOK(d)
    PROVE  /\ d \in DraftRecord /\ LastToken(d)[1] \in Nat /\ LastToken(d)[2] \in Nat
           /\ LastToken(d) \in Tokens
<1>1. CASE ProseOK(d)
  BY <1>1, ProseText
<1>2. CASE \E i \in 1 .. Size : IsTable(d, i)
  <2>1. PICK i \in 1 .. Size : Type(i) = "table" /\ d = TableDraft(TableRegion(i))
    BY <1>2 DEF IsTable
  <2>2. d \in DraftRecord /\ Len(d.text) \in Nat \ {0}
    BY <2>1, TableDraftOK
  <2>3. d.text \in Seq(Tokens)
    BY <2>2 DEF DraftRecord
  <2>4. LastToken(d) \in Tokens
    BY <2>2, <2>3, ElementOfSeq DEF LastToken
  <2> QED BY <2>2, <2>4, TokenIsPair
<1> QED BY <1>1, <1>2 DEF ChunkOK

\* Steps that leave the chunks alone.
LEMMA ChunksStay ==
    ASSUME ChunksOK, UNCHANGED <<elements, scenario, chunks, regions, regionNo>>
    PROVE  ChunksOK'
<1>1. \A l : Within(regions[l])' = Within(regions[l]) /\ First(regions[l])' = First(regions[l])
  BY DEF Within, First, End
<1> QED BY <1>1, ChunkFrame DEF ChunksOK, EndsOrdered, LastToken

\* Drafts that are all of the current region.
RegionDrafts(ds) ==
    /\ ds \in Seq(DraftRecord)
    /\ \A k \in 1 .. Len(ds) : ChunkOK(ds[k]) /\ LastToken(ds[k])[1] \in Within(Current)
    /\ EndsOrdered(ds)
    /\ Current.kind = "table" => \E c \in 1 .. Len(ds) : IsTable(ds[c], First(Current))
    /\ Current.kind = "non_table" =>
          \A i \in Within(Current) : Type(i) = "heading" \/ HoldsElement(ds, i)

\* Chunks of a region follow the chunks of the regions before it.
LEMMA RegionDone ==
    ASSUME DocumentOK, RegionsOK, ChunksOK, regionNo <= Len(regions),
           NEW ds, RegionDrafts(ds), chunks' = chunks \o ds, regionNo' = regionNo + 1,
           UNCHANGED <<elements, scenario, regions>>
    PROVE  ChunksOK'
<1> DEFINE cs == chunks'
           n == Len(chunks)
<1>1. /\ Len(regions) \in Nat /\ regionNo \in 1 .. Len(regions) /\ regions[regionNo] = Current
      /\ First(Current) \in Int /\ End(Current) \in Int
  <2>1. Len(regions) \in Nat /\ regionNo \in 1 .. Len(regions)
    BY LenProperties DEF RegionsOK
  <2>2. First(Current) \in 1 .. Size /\ End(Current) \in 1 .. Size
    BY CurrentFacts
  <2>3. Size \in Nat
    BY ElementFacts
  <2> QED BY <2>1, <2>2, <2>3 DEF Current
<1>2. /\ chunks \in Seq(DraftRecord) /\ \A c \in 1 .. n : ChunkOK(chunks[c])
      /\ ds \in Seq(DraftRecord)
  BY DEF ChunksOK, RegionDrafts
<1>3. cs \in Seq(DraftRecord) /\ IsConcat(cs, chunks, ds)
  BY Zenon, <1>2, ConcatFacts
<1>4. /\ n \in Nat /\ Len(ds) \in Nat /\ Len(cs) = n + Len(ds)
      /\ \A m \in 1 .. n : cs[m] = chunks[m] /\ m \in 1 .. Len(cs)
      /\ \A k \in 1 .. Len(ds) : cs[n + k] = ds[k] /\ n + k \in 1 .. Len(cs)
      /\ \A m \in 1 .. Len(cs) : m \in 1 .. n \/ \E k \in 1 .. Len(ds) : m = n + k
  BY <1>3 DEF IsConcat
<1> HIDE DEF cs, n
<1>5. \A m \in 1 .. Len(cs) : ChunkOK(cs[m])
  BY <1>2, <1>4 DEF RegionDrafts
<1>6. \A c \in 1 .. n : LastToken(chunks[c])[1] \in Nat /\ LastToken(chunks[c])[1] < First(Current)
  <2>1. regionNo \in regionNo .. Len(regions)
    BY <1>1
  <2>2. \A c \in 1 .. n : LastToken(chunks[c])[1] < First(Current)
    BY <1>1, <2>1 DEF ChunksOK, n
  <2> QED BY <1>2, <2>2, ChunkLast
<1>7. EndsOrdered(cs)
  <2> SUFFICES ASSUME NEW a \in 1 .. Len(cs), NEW b \in 1 .. Len(cs), a < b
               PROVE  Before(LastToken(cs[a]), LastToken(cs[b]))
    BY DEF EndsOrdered
  <2>1. CASE a \in 1 .. n /\ b \in 1 .. n
    BY <1>4, <2>1 DEF ChunksOK, EndsOrdered, n
  <2>2. CASE a \in 1 .. n /\ b \notin 1 .. n
    <3>1. PICK k \in 1 .. Len(ds) : b = n + k
      BY <1>4, <2>2
    <3>2. LastToken(cs[b])[1] \in First(Current) .. End(Current) /\ cs[a] = chunks[a]
      BY <1>4, <2>2, <3>1 DEF Within, RegionDrafts
    <3>3. LastToken(cs[a])[1] \in Nat /\ LastToken(cs[a])[1] < First(Current)
      BY <1>6, <2>2, <3>2
    <3>4. LastToken(cs[a])[1] < LastToken(cs[b])[1]
      BY <1>1, <3>2, <3>3
    <3> QED BY <3>4 DEF Before
  <2>3. CASE a \notin 1 .. n
    <3>1. PICK j \in 1 .. Len(ds) : a = n + j
      BY <1>4, <2>3
    <3>2. b \notin 1 .. n
      BY <1>4, <3>1
    <3>3. PICK k \in 1 .. Len(ds) : b = n + k
      BY <1>4, <3>2
    <3>4. j < k
      BY <1>4, <3>1, <3>3
    <3> QED BY <1>4, <3>1, <3>3, <3>4 DEF EndsOrdered, RegionDrafts
  <2> QED BY <2>1, <2>2, <2>3
<1>8. \A c \in 1 .. Len(cs), l \in regionNo + 1 .. Len(regions) :
         LastToken(cs[c])[1] < First(regions[l])
  <2> SUFFICES ASSUME NEW c \in 1 .. Len(cs), NEW l \in regionNo + 1 .. Len(regions)
               PROVE  LastToken(cs[c])[1] < First(regions[l])
    OBVIOUS
  <2>1. l \in regionNo .. Len(regions) /\ l \in 1 .. Len(regions) /\ regionNo < l
    BY <1>1
  <2>2. CASE c \in 1 .. n
    BY <1>4, <2>1, <2>2 DEF ChunksOK, n
  <2>3. CASE c \notin 1 .. n
    <3>1. PICK k \in 1 .. Len(ds) : c = n + k
      BY <1>4, <2>3
    <3>2. LastToken(cs[c])[1] \in First(Current) .. End(Current)
      BY <1>4, <3>1 DEF Within, RegionDrafts
    <3>3. End(Current) < First(regions[l]) /\ RegionOK(regions[l])
      BY <1>1, <2>1 DEF RegionsOK, Ordered
    <3>4. First(regions[l]) \in Int
      BY <3>3, RunEnds DEF RegionOK
    <3> QED BY <1>1, <3>2, <3>3, <3>4
  <2> QED BY <2>2, <2>3
<1>9. /\ \A t : Holds(chunks, t) \/ Holds(ds, t) => Holds(cs, t)
      /\ \A i : HoldsElement(chunks, i) \/ HoldsElement(ds, i) => HoldsElement(cs, i)
  <2>1. ASSUME NEW t, Holds(chunks, t) PROVE Holds(cs, t)
    BY Zenon, <1>4, <2>1 DEF Holds, n
  <2>2. ASSUME NEW t, Holds(ds, t) PROVE Holds(cs, t)
    <3>1. PICK k \in 1 .. Len(ds) : In(t, ds[k])
      BY <2>2 DEF Holds
    <3>2. n + k \in 1 .. Len(cs) /\ In(t, cs[n + k])
      BY Zenon, <1>4, <3>1
    <3> QED BY Zenon, <3>2 DEF Holds
  <2> QED BY Zenon, <2>1, <2>2 DEF HoldsElement
<1>10. ASSUME NEW l \in 1 .. regionNo
       PROVE  /\ regions[l].kind = "table" =>
                    \E c \in 1 .. Len(cs) : IsTable(cs[c], First(regions[l]))
              /\ regions[l].kind = "non_table" =>
                    \A i \in Within(regions[l]) : Type(i) = "heading" \/ HoldsElement(cs, i)
  <2>1. CASE l \in 1 .. regionNo - 1
    <3>1. ASSUME regions[l].kind = "table"
          PROVE  \E c \in 1 .. Len(cs) : IsTable(cs[c], First(regions[l]))
      <4>1. PICK c \in 1 .. n : IsTable(chunks[c], First(regions[l]))
        BY <2>1, <3>1 DEF ChunksOK, n
      <4> QED BY Zenon, <1>4, <4>1
    <3>2. ASSUME regions[l].kind = "non_table"
          PROVE  \A i \in Within(regions[l]) : Type(i) = "heading" \/ HoldsElement(cs, i)
      BY <1>9, <2>1, <3>2 DEF ChunksOK
    <3> QED BY <3>1, <3>2
  <2>2. CASE l = regionNo
    <3>1. regions[l] = Current
      BY <1>1, <2>2
    <3>2. ASSUME Current.kind = "table"
          PROVE  \E c \in 1 .. Len(cs) : IsTable(cs[c], First(Current))
      <4>1. PICK c \in 1 .. Len(ds) : IsTable(ds[c], First(Current))
        BY <3>2 DEF RegionDrafts
      <4>2. n + c \in 1 .. Len(cs) /\ IsTable(cs[n + c], First(Current))
        BY Zenon, <1>4, <4>1
      <4> QED BY Zenon, <4>2
    <3>3. ASSUME Current.kind = "non_table"
          PROVE  \A i \in Within(Current) : Type(i) = "heading" \/ HoldsElement(cs, i)
      BY <1>9, <3>3 DEF RegionDrafts
    <3> QED BY <3>1, <3>2, <3>3
  <2>3. l \in 1 .. regionNo - 1 \/ l = regionNo
    BY <1>1
  <2> QED BY <2>1, <2>2, <2>3
<1>11. /\ \A l : Within(regions[l])' = Within(regions[l]) /\ First(regions[l])' = First(regions[l])
       /\ regions' = regions /\ 1 .. regionNo' - 1 = 1 .. regionNo
  BY <1>1 DEF Within, First, End
<1>12. DraftRecord' = DraftRecord /\ \A c \in 1 .. Len(cs) : ChunkOK(chunks[c])'
  BY <1>5, ChunkFrame, Frame DEF cs
<1>13. EndsOrdered(chunks)'
  BY <1>7 DEF EndsOrdered, LastToken, cs
<1>14. \A c \in 1 .. Len(cs), l \in regionNo' .. Len(regions') :
          LastToken(chunks[c])'[1] < First(regions[l])'
  BY <1>8, <1>11 DEF LastToken, cs
<1>15. \A l \in 1 .. regionNo' - 1 :
          /\ regions'[l].kind = "table" =>
                \E c \in 1 .. Len(cs) : IsTable(chunks[c], First(regions[l]))'
          /\ regions'[l].kind = "non_table" =>
                \A i \in Within(regions[l])' : Type(i)' = "heading" \/ HoldsElement(chunks, i)'
  BY <1>10, <1>11, ChunkFrame, Frame, DraftFrame DEF cs
<1> QED BY <1>3, <1>12, <1>13, <1>14, <1>15 DEF ChunksOK, cs

LEMMA DispatchTableOK ==
    ASSUME DocumentOK, RegionsOK, ChunksOK, DispatchTable
    PROVE  ChunksOK'
<1> DEFINE d == TableDraft(Current)
           i == First(Current)
           ds == <<d>>
<1>1. /\ regionNo <= Len(regions) /\ Current.kind = "table" /\ chunks' = Append(chunks, d)
      /\ regionNo' = regionNo + 1 /\ UNCHANGED <<elements, scenario, regions>>
  BY DEF DispatchTable, Dispatching, Current
<1>2. RegionOK(Current) /\ i \in 1 .. Size /\ i \in Int
  BY <1>1, CurrentFacts, ElementFacts
<1>3. Type(i) = "table" /\ Current = TableRegion(i)
  BY <1>1, <1>2 DEF RegionOK
<1>4. IsTable(d, i)
  BY <1>2, <1>3 DEF IsTable
<1>5. ChunkOK(d)
  BY <1>2, <1>4 DEF ChunkOK
<1>6. d \in DraftRecord /\ LastToken(d) = <<i, elements[i].size>>
  BY <1>2, <1>3, TableDraftOK
<1>7. End(Current) = i
  BY <1>3 DEF TableRegion, End
<1>8. LastToken(d)[1] \in Within(Current)
  BY <1>2, <1>6, <1>7 DEF Within
<1> HIDE DEF d, i
<1>9. ds \in Seq(DraftRecord) /\ Len(ds) = 1 /\ ds[1] = d
  BY <1>6
<1>10. chunks \in Seq(DraftRecord)
  BY DEF ChunksOK
<1>11. chunks' = chunks \o ds
  BY <1>1, <1>6, <1>10, AppendIsConcat
<1> HIDE DEF ds
<1>12. EndsOrdered(ds)
  BY <1>9 DEF EndsOrdered
<1>13. \A k \in 1 .. Len(ds) : ChunkOK(ds[k]) /\ LastToken(ds[k])[1] \in Within(Current)
  BY <1>5, <1>8, <1>9
<1>14. \E c \in 1 .. Len(ds) : IsTable(ds[c], First(Current))
  BY <1>4, <1>9 DEF i
<1>15. RegionDrafts(ds)
  BY <1>1, <1>9, <1>12, <1>13, <1>14 DEF RegionDrafts
<1> QED BY <1>1, <1>11, <1>15, RegionDone

LEMMA FinishRegionOK ==
    ASSUME DocumentOK, RegionsOK, SectionsOK, DraftsOK, ChunksOK, FinishRegion
    PROVE  ChunksOK'
<1> DEFINE ds == region_drafts
<1>1. /\ pc = "join" /\ sectionNo > Len(sections) /\ chunks' = chunks \o ds
      /\ regionNo' = regionNo + 1 /\ UNCHANGED <<elements, scenario, regions>>
  BY DEF FinishRegion
<1>2. /\ regionNo <= Len(regions) /\ Current.kind = "non_table"
      /\ sectionNo \in 1 .. Len(sections) + 1 /\ Len(sections) \in Nat
      /\ \A j \in Within(Current) : Type(j) = "heading" \/ Covers(sections, j)
  BY <1>1, LenProperties DEF SectionsOK, InRegion
<1>3. /\ ds \in Seq(DraftRecord) /\ EndsOrdered(ds)
      /\ \A k \in 1 .. Len(ds) :
            /\ ProseOK(ds[k]) /\ LastToken(ds[k])[1] \in Within(Current)
            /\ ds[k].token_count <= config.target_chunk_tokens
                  + IF sectionNo > Len(sections) /\ k = Len(ds)
                    THEN config.min_chunk_tokens ELSE 0
      /\ \A l \in 1 .. sectionNo - 1 : \A i \in Within(sections[l]) : HoldsElement(ds, i)
  BY <1>1 DEF DraftsOK, InRegion
<1>4. ASSUME NEW k \in 1 .. Len(ds)
      PROVE  ChunkOK(ds[k]) /\ LastToken(ds[k])[1] \in Within(Current)
  <2>1. ProseOK(ds[k]) /\ ds[k].token_count \in Nat /\ LastToken(ds[k])[1] \in Within(Current)
    BY <1>3, ProseText
  <2>2. ds[k].token_count <= config.target_chunk_tokens + config.min_chunk_tokens
    BY <1>3, <2>1, ConfigFacts
  <2> QED BY <2>1, <2>2 DEF ChunkOK
<1>5. \A i \in Within(Current) : Type(i) = "heading" \/ HoldsElement(ds, i)
  <2> SUFFICES ASSUME NEW i \in Within(Current), Type(i) # "heading" PROVE HoldsElement(ds, i)
    BY Zenon
  <2>1. PICK l \in 1 .. Len(sections) : i \in Within(sections[l])
    BY <1>2 DEF Covers
  <2>2. l \in 1 .. sectionNo - 1
    BY <1>1, <1>2
  <2> QED BY <1>3, <2>1, <2>2
<1>6. RegionDrafts(ds)
  BY <1>2, <1>3, <1>4, <1>5 DEF RegionDrafts
<1> QED BY <1>1, <1>2, <1>6, RegionDone

-----------------------------------------------------------------------------
(* The chunker's steps together *)

LEMMA DraftsEmpty ==
    ASSUME region_drafts' = <<>>, sectionNo' = 1, pc' # "split"
    PROVE  DraftsOK'
<1>1. Len(region_drafts') = 0 /\ region_drafts' \in Seq(DraftRecord')
  BY EmptySeq
<1>2. 1 .. sectionNo' - 1 = {} /\ 1 .. Len(region_drafts') = {}
  BY <1>1
<1> QED BY <1>1, <1>2 DEF DraftsOK, EndsOrdered

LEMMA ChunksEmpty ==
    ASSUME chunks' = <<>>, regionNo' = 1
    PROVE  ChunksOK'
<1>1. Len(chunks') = 0 /\ chunks' \in Seq(DraftRecord')
  BY EmptySeq
<1>2. 1 .. regionNo' - 1 = {} /\ 1 .. Len(chunks') = {}
  BY <1>1
<1> QED BY <1>1, <1>2 DEF ChunksOK, EndsOrdered

\* Steps between regions, and steps of the stages after the chunker.
LEMMA OutsideRegions ==
    ASSUME DraftsOK, UNCHANGED <<elements, region_drafts>>, ~InRegion',
           pc' \in Chunking => cursor' = 0,
           pc' \in {"partition", "dispatch"} => region_drafts = <<>>
    PROVE  TextOK' /\ DraftsOK'
<1>1. pc' \notin {"sections", "join", "split"}
  BY DEF InRegion
<1>2. TextOK'
  BY <1>1 DEF TextOK
<1> QED BY <1>1, <1>2, Frame DEF DraftsOK, InRegion

LEMMA JoinedTokens ==
    ASSUME DocumentOK, NEW first \in 1 .. Size, NEW last \in 1 .. Size,
           NEW tokens, Joined(tokens, first, last),
           NEW m \in 1 .. Len(tokens), tokens[m] # Blank
    PROVE  tokens[m][1] \in first .. last /\ tokens[m][1] \in Nat
<1>1. tokens[m] \in TextTokens(first, last)
  BY ElementOfSeq DEF Joined
<1> QED BY <1>1, TokenFacts

LEMMA JoinElementDrafts ==
    ASSUME DocumentOK, RegionsOK, SectionsOK, TextOK, DraftsOK, JoinElement, TextOK'
    PROVE  DraftsOK'
<1>1. /\ pc = "join" /\ sectionNo <= Len(sections) /\ pc' \in {"join", "split"}
      /\ UNCHANGED <<elements, scenario, regions, regionNo, sections, sectionNo,
                     region_drafts, cursor>>
  BY DEF JoinElement, regionVars, sectionVars
<1>2. /\ Current' = Current /\ Within(Current)' = Within(Current) /\ config' = config
      /\ DraftRecord' = DraftRecord
      /\ \A d : ProseOK(d)' <=> ProseOK(d)
      /\ \A es, i : HoldsElement(es, i)' <=> HoldsElement(es, i)
  BY <1>1, Frame, DraftFrame DEF Current, Within, First, End, config
<1>3. /\ First(This) \in 1 .. Size /\ End(This) \in 1 .. Size /\ First(This) \in Int
      /\ sectionNo \in 1 .. Len(sections) /\ This = sections[sectionNo]
  BY <1>1, ThisFacts
<1>4. cursor = 0
  BY <1>1 DEF TextOK, Chunking
<1>5. ASSUME pc' = "split", NEW k \in 1 .. Len(region_drafts), NEW m \in 1 .. Len(text'),
             text'[m] # Blank
      PROVE  Before(LastToken(region_drafts[k]), text'[m])
  <2>1. Joined(text', First(This), End(This))
    <3>1. Joined(text, First(This), End(This))'
      BY <1>5 DEF TextOK
    <3>2. This' = This /\ First(This)' = First(This) /\ End(This)' = End(This)
      BY <1>1 DEF This, First, End
    <3> QED BY <1>1, <3>1, <3>2, JoinedFrame
  <2>2. text'[m][1] \in First(This) .. End(This) /\ text'[m][1] \in Nat
    BY <1>3, <1>5, <2>1, JoinedTokens
  <2>3. LastToken(region_drafts[k])[1] < First(This) /\ ProseOK(region_drafts[k])
    BY <1>1, <1>3 DEF DraftsOK, InRegion
  <2>4. LastToken(region_drafts[k])[1] \in Nat
    BY <2>3, ProseText
  <2> QED BY <1>3, <2>2, <2>3, <2>4 DEF Before
<1>6. pc' = "split" =>
         /\ \A m \in 1 .. cursor' : text'[m] # Blank => Holds(region_drafts', text'[m])
         /\ \A k \in 1 .. Len(region_drafts'), m \in cursor' + 1 .. Len(text') :
               text'[m] # Blank => Before(LastToken(region_drafts'[k]), text'[m])
  BY <1>1, <1>4, <1>5
<1> QED BY <1>1, <1>2, <1>6 DEF DraftsOK, InRegion


LEMMA PartitionStepInv ==
    ASSUME ChunkInv, PartitionElement \/ PartitionEnd
    PROVE  ChunkInv'
<1>1. /\ pc = "partition" /\ pc' \in {"partition", "dispatch"} /\ next' \in Nat /\ cursor' = cursor
      /\ UNCHANGED <<elements, scenario, path, sections, sectionNo, region_drafts, regionNo, chunks>>
  <2>1. /\ pc = "partition" /\ pc' \in {"partition", "dispatch"} /\ next' \in {next, next + 1}
        /\ UNCHANGED <<elements, scenario, sectionVars, splitVars, regionNo, chunks>>
    BY DEF PartitionElement, PartitionEnd
  <2>2. next \in Nat
    BY DEF ChunkInv
  <2> QED BY <2>1, <2>2 DEF sectionVars, splitVars
<1>2. /\ DocumentOK /\ RegionsOK /\ SectionsOK /\ DraftsOK /\ cursor = 0
      /\ regionNo = 1 /\ chunks = <<>> /\ region_drafts = <<>>
  BY <1>1 DEF ChunkInv, RegionsOK, Partitioning, TextOK, Chunking, DraftsOK
<1>3. RegionsOK'
  BY <1>2, PartitionElementOK, PartitionEndOK
<1>4. SectionsOK'
  BY <1>1, <1>2 DEF SectionsOK, InRegion
<1>5. TextOK' /\ DraftsOK'
  BY <1>1, <1>2, OutsideRegions DEF InRegion
<1>6. ChunksOK'
  BY <1>1, <1>2, ChunksEmpty
<1>7. DocumentOK'
  BY <1>1, <1>2 DEF DocumentOK
<1> QED BY <1>1, <1>2, <1>3, <1>4, <1>5, <1>6, <1>7 DEF ChunkInv

LEMMA DispatchStepInv ==
    ASSUME ChunkInv, DispatchTable \/ AssignPositions
    PROVE  ChunkInv'
<1>1. /\ pc = "dispatch" /\ pc' \in {"dispatch", "embed"}
      /\ UNCHANGED <<elements, scenario, next, buffer, regions, path, sections, sectionNo,
                     region_drafts, cursor>>
      /\ pc' = "dispatch" => regionNo <= Len(regions) /\ regionNo' = regionNo + 1
      /\ pc' = "embed" => regionNo > Len(regions) /\ regionNo' = regionNo /\ chunks' = chunks
  BY DEF DispatchTable, Dispatching, AssignPositions, sectionVars, splitVars, regionVars
<1>2. /\ DocumentOK /\ RegionsOK /\ SectionsOK /\ DraftsOK /\ ChunksOK /\ cursor = 0
      /\ region_drafts = <<>> /\ buffer = <<>>
      /\ regionNo \in 1 .. Len(regions) + 1 /\ Len(regions) \in Nat
  BY <1>1, LenProperties DEF ChunkInv, RegionsOK, TextOK, Chunking, DraftsOK
<1>3. RegionsOK'
  BY <1>1, <1>2, RegionsStay DEF Chunked, Chunking, ChunkerErrors
<1>4. SectionsOK'
  BY <1>1, <1>2, SectionsStay DEF InRegion, SectionsOK
<1>5. TextOK' /\ DraftsOK'
  BY <1>1, <1>2, OutsideRegions DEF InRegion
<1>6. ChunksOK'
  <2>1. CASE DispatchTable
    BY <1>2, <2>1, DispatchTableOK
  <2>2. CASE AssignPositions
    BY <1>1, <1>2, <2>2, ChunksStay DEF AssignPositions, regionVars
  <2> QED BY <2>1, <2>2
<1>7. DocumentOK'
  BY <1>1, <1>2 DEF DocumentOK
<1> QED BY <1>1, <1>2, <1>3, <1>4, <1>5, <1>6, <1>7 DEF ChunkInv

LEMMA SectionStepInv ==
    ASSUME ChunkInv, DispatchProse \/ SectionElement \/ SectionsEnd
    PROVE  ChunkInv'
<1>1. /\ pc \in {"dispatch", "sections"} /\ pc' \in {"sections", "join"} /\ next' \in Nat
      /\ UNCHANGED <<elements, scenario, regions, regionNo, region_drafts, cursor, chunks>>
      /\ pc' = "join" => next' = 1
  <2>1. /\ pc \in {"dispatch", "sections"} /\ pc' \in {"sections", "join"}
        /\ next' \in {1, next + 1}
        /\ pc' = "join" => next' = 1
        /\ UNCHANGED <<elements, scenario, regions, regionNo, splitVars, chunks>>
    BY DEF DispatchProse, Dispatching, SectionElement, SectionsEnd, regionVars
  <2>2. next \in Nat
    BY DEF ChunkInv
  <2> QED BY <2>1, <2>2 DEF splitVars
<1>2. /\ DocumentOK /\ RegionsOK /\ SectionsOK /\ TextOK /\ DraftsOK /\ ChunksOK /\ cursor = 0
      /\ regionNo \in 1 .. Len(regions) + 1
  BY <1>1 DEF ChunkInv, RegionsOK, TextOK, Chunking
<1>3. SectionsOK' /\ sectionNo' = 1 /\ region_drafts' = <<>> /\ (pc' # "sections" => buffer' = <<>>)
  <2>1. CASE DispatchProse
    BY <1>1, <1>2, <2>1, DispatchProseOK
       DEF DispatchProse, Dispatching, regionVars, splitVars, RegionsOK, DraftsOK
  <2>2. CASE SectionElement
    BY <1>2, <2>2, SectionElementOK DEF SectionElement, splitVars, SectionsOK, Sectioning
  <2>3. CASE SectionsEnd
    BY <1>2, <2>3, SectionsEndOK DEF SectionsEnd, splitVars, SectionsOK, Sectioning
  <2> QED BY <2>1, <2>2, <2>3
<1>4. RegionsOK'
  BY <1>1, <1>2, <1>3, RegionsStay DEF Chunked, Chunking, ChunkerErrors
<1>5. DocumentOK'
  BY <1>1, <1>2 DEF DocumentOK
<1>6. TextOK'
  <2>1. ASSUME pc' = "join", sectionNo' <= Len(sections') PROVE next' \in 1 .. Len(This'.elements)
    <3>1. 1 \in 1 .. Len(sections') /\ This' = sections'[1]
      BY <1>3, <2>1 DEF This, SectionsOK
    <3>2. SectionOK(sections[1])'
      BY <1>3, <2>1, <3>1 DEF SectionsOK, InRegion
    <3>3. Len(This'.elements) >= 1 /\ Len(This'.elements) \in Nat
      BY <3>1, <3>2, LenProperties DEF SectionOK, IsRun
    <3> QED BY <1>1, <2>1, <3>3
  <2> QED BY <1>1, <1>2, <2>1 DEF TextOK
<1>7. DraftsOK'
  BY <1>1, <1>3, DraftsEmpty
<1>8. ChunksOK'
  BY <1>1, <1>2, ChunksStay
<1> QED BY <1>1, <1>2, <1>3, <1>4, <1>5, <1>6, <1>7, <1>8 DEF ChunkInv

LEMMA SplitStepInv ==
    ASSUME ChunkInv, JoinElement \/ SplitPiece \/ MergeStep
    PROVE  ChunkInv'
<1>1. /\ pc \in {"join", "split"} /\ pc' \in {"join", "split"}
      /\ UNCHANGED <<elements, scenario, buffer, regions, regionNo, chunks>>
  BY DEF JoinElement, SplitPiece, NextSection, MergeStep, _merge_undersized_tail, regionVars
<1>2. /\ DocumentOK /\ RegionsOK /\ SectionsOK /\ TextOK /\ DraftsOK /\ ChunksOK
      /\ next \in Nat /\ cursor \in Nat
      /\ regionNo \in 1 .. Len(regions) + 1 /\ buffer = <<>>
  BY <1>1 DEF ChunkInv, RegionsOK
<1>3. SectionsOK' /\ TextOK' /\ DraftsOK' /\ next' \in Nat /\ cursor' \in Nat
  <2>1. CASE JoinElement
    <3>1. /\ pc = "join" /\ sectionNo <= Len(sections) /\ next' \in Nat
          /\ UNCHANGED <<path, sections, sectionNo, cursor>>
      <4>1. /\ pc = "join" /\ sectionNo <= Len(sections) /\ next' = next + 1
            /\ UNCHANGED <<sectionVars, cursor>>
        BY <2>1 DEF JoinElement
      <4> QED BY <1>2, <4>1 DEF sectionVars
    <3>2. SectionsOK'
      BY <1>1, <1>2, <3>1, SectionsStay DEF InRegion, SectionsOK
    <3>3. TextOK'
      BY <1>2, <2>1, JoinElementOK
    <3>4. DraftsOK'
      BY <1>2, <2>1, <3>3, JoinElementDrafts
    <3> QED BY <1>2, <3>1, <3>2, <3>3, <3>4
  <2>2. CASE SplitPiece
    <3>1. SectionsOK' /\ TextOK' /\ DraftsOK'
      BY <1>2, <2>2, SplitPieceOK
    <3>2. cursor' \in Nat /\ next' \in Nat
      <4>1. PICK w \in Windows :
               IF w[2] = Len(text) THEN NextSection
               ELSE cursor' = w[2] /\ UNCHANGED <<sectionNo, pc, next, text>>
        BY <2>2 DEF SplitPiece
      <4>2. w[2] \in Nat
        <5>1. pc = "split"
          BY <2>2 DEF SplitPiece
        <5>2. Len(text) \in Nat
          BY <1>2, <5>1, TextTokenFacts
        <5> QED BY <1>2, <5>2 DEF Windows
      <4> QED BY <1>2, <4>1, <4>2 DEF NextSection
    <3> QED BY <3>1, <3>2
  <2>3. CASE MergeStep
    <3>1. /\ pc = "join" /\ sectionNo > Len(sections) /\ pc' = "join"
          /\ UNCHANGED <<path, sections, sectionNo, text, cursor, next>>
      BY <2>3 DEF MergeStep, _merge_undersized_tail, sectionVars
    <3>2. SectionsOK'
      BY <1>1, <1>2, <3>1, SectionsStay DEF InRegion, SectionsOK
    <3>3. sectionNo \in Int /\ Len(sections) \in Nat
      BY <1>2, LenProperties DEF SectionsOK
    <3>4. TextOK'
      BY <1>2, <3>1, <3>3 DEF TextOK, Chunking
    <3>5. DraftsOK'
      BY <1>2, <2>3, MergeStepOK
    <3> QED BY <1>2, <3>1, <3>2, <3>4, <3>5
  <2> QED BY <2>1, <2>2, <2>3
<1>4. RegionsOK'
  BY <1>1, <1>2, RegionsStay DEF Chunked, Chunking, ChunkerErrors
<1>5. DocumentOK'
  BY <1>1, <1>2 DEF DocumentOK
<1>6. ChunksOK'
  BY <1>1, <1>2, ChunksStay
<1> QED BY <1>1, <1>3, <1>4, <1>5, <1>6 DEF ChunkInv

LEMMA FinishStepInv ==
    ASSUME ChunkInv, FinishRegion
    PROVE  ChunkInv'
<1>1. /\ pc = "join" /\ sectionNo > Len(sections) /\ pc' = "dispatch"
      /\ region_drafts' = <<>> /\ regionNo' = regionNo + 1
      /\ UNCHANGED <<elements, scenario, next, buffer, regions, path, sections, sectionNo, cursor>>
  BY DEF FinishRegion, sectionVars
<1>2. /\ DocumentOK /\ RegionsOK /\ SectionsOK /\ TextOK /\ DraftsOK /\ ChunksOK
      /\ next \in Nat /\ cursor = 0 /\ buffer = <<>> /\ Len(regions) \in Nat
      /\ regionNo \in 1 .. Len(regions) + 1 /\ regionNo <= Len(regions)
  BY <1>1, LenProperties DEF ChunkInv, RegionsOK, SectionsOK, InRegion, TextOK, Chunking
<1>3. ChunksOK'
  BY <1>2, FinishRegionOK
<1>4. RegionsOK'
  BY <1>1, <1>2, RegionsStay DEF Chunked, Chunking, ChunkerErrors
<1>5. SectionsOK'
  BY <1>1, <1>2, SectionsStay DEF InRegion, SectionsOK
<1>6. TextOK'
  BY <1>1, <1>2 DEF TextOK
<1>7. DraftsOK'
  <2>1. region_drafts' \in Seq(DraftRecord')
    BY <1>1, EmptySeq
  <2> QED BY <1>1, <2>1 DEF DraftsOK, InRegion
<1>8. DocumentOK'
  BY <1>1, <1>2 DEF DocumentOK
<1> QED BY <1>1, <1>2, <1>3, <1>4, <1>5, <1>6, <1>7, <1>8 DEF ChunkInv

\* An error of the chunker and the steps of the embedder and the indexer leave
\* what the chunker made alone.
LEMMA LaterStepInv ==
    ASSUME ChunkInv, pc' \notin Chunking, pc \notin {"partition", "sections"},
           Chunked' => Chunked,
           UNCHANGED <<elements, scenario, next, regionVars, sectionVars, splitVars, chunks>>
    PROVE  ChunkInv'
<1>1. /\ UNCHANGED <<elements, scenario, next, buffer, regions, regionNo, path, sections,
                     sectionNo, text, cursor, region_drafts, chunks>>
      /\ pc' \notin {"partition", "dispatch", "sections", "join", "split"}
  BY DEF regionVars, sectionVars, splitVars, Chunking
<1>2. /\ DocumentOK /\ RegionsOK /\ SectionsOK /\ DraftsOK /\ ChunksOK
      /\ next \in Nat /\ cursor \in Nat /\ buffer = <<>> /\ regionNo \in 1 .. Len(regions) + 1
      /\ Chunked => regionNo = Len(regions) + 1
  BY DEF ChunkInv, RegionsOK
<1>3. RegionsOK'
  BY <1>1, <1>2, RegionsStay
<1>4. SectionsOK'
  BY <1>1, <1>2, SectionsStay DEF InRegion, SectionsOK
<1>5. TextOK' /\ DraftsOK'
  BY <1>1, <1>2, OutsideRegions DEF InRegion
<1>6. ChunksOK'
  BY <1>1, <1>2, ChunksStay
<1>7. DocumentOK'
  BY <1>1, <1>2 DEF DocumentOK
<1> QED BY <1>1, <1>2, <1>3, <1>4, <1>5, <1>6, <1>7 DEF ChunkInv

\* chunk() starts from nothing, also when the message comes back.
LEMMA StartInv ==
    ASSUME DocumentOK, StartChunking
    PROVE  ChunkInv'
<1>1. /\ pc' = "partition" /\ next' = 1 /\ buffer' = <<>> /\ regions' = <<>> /\ regionNo' = 1
      /\ path' = None /\ sections' = <<>> /\ sectionNo' = 1 /\ cursor' = 0
      /\ region_drafts' = <<>> /\ chunks' = <<>> /\ UNCHANGED <<elements, scenario>>
  BY DEF StartChunking
<1>2. DocumentOK'
  BY <1>1 DEF DocumentOK
<1>3. /\ Len(regions') = 0 /\ regions' \in Seq(RegionRecord) /\ Size' = Size /\ Size \in Nat
      /\ Len(sections') = 0 /\ sections' \in Seq(SectionRecord)
  BY <1>1, EmptySeq, Frame, ElementFacts
<1>4. Partitioning'
  <2>1. BufferOK(next)' /\ Opened(next)' = next'
    BY <1>1, BufferEmpties
  <2> QED BY <1>1, <1>3, <2>1 DEF Partitioning
<1>5. RegionsOK'
  BY <1>1, <1>3, <1>4 DEF RegionsOK, Ordered, Chunked, Chunking, ChunkerErrors
<1>6. SectionsOK' /\ TextOK'
  BY <1>1, <1>3 DEF SectionsOK, InRegion, TextOK
<1>7. DraftsOK' /\ ChunksOK'
  BY <1>1, DraftsEmpty, ChunksEmpty
<1> QED BY <1>1, <1>2, <1>5, <1>6, <1>7 DEF ChunkInv

LEMMA InitChunkInv ==
    ASSUME ChunkInit
    PROVE  ChunkInv
<1>1. /\ pc = "partition" /\ next = 1 /\ buffer = <<>> /\ regions = <<>> /\ regionNo = 1
      /\ path = None /\ sections = <<>> /\ sectionNo = 1 /\ cursor = 0
      /\ region_drafts = <<>> /\ chunks = <<>>
  BY DEF ChunkInit
<1>2. DocumentOK
  BY ContentAssumption DEF ChunkInit, DocumentOK
<1>3. /\ Len(regions) = 0 /\ regions \in Seq(RegionRecord) /\ Size \in Nat
      /\ Len(sections) = 0 /\ sections \in Seq(SectionRecord) /\ Len(buffer) = 0
      /\ buffer \in Seq(1 .. Size)
      /\ Len(chunks) = 0 /\ chunks \in Seq(DraftRecord)
      /\ Len(region_drafts) = 0 /\ region_drafts \in Seq(DraftRecord)
  BY <1>1, <1>2, EmptySeq, ElementFacts
<1>4. Partitioning
  <2>1. BufferOK(next) /\ Opened(next) = next
    BY <1>1, <1>3 DEF BufferOK, Opened
  <2> QED BY <1>1, <1>3, <2>1 DEF Partitioning
<1>5. RegionsOK
  BY <1>1, <1>3, <1>4 DEF RegionsOK, Ordered, Chunked, Chunking, ChunkerErrors
<1>6. SectionsOK /\ TextOK
  BY <1>1, <1>3 DEF SectionsOK, InRegion, TextOK
<1>7. DraftsOK /\ ChunksOK
  <2>1. 1 .. Len(chunks) = {} /\ 1 .. regionNo - 1 = {}
    BY <1>1, <1>3
  <2> QED BY <1>1, <1>3, <2>1 DEF DraftsOK, ChunksOK, InRegion, EndsOrdered
<1> QED BY <1>1, <1>2, <1>5, <1>6, <1>7 DEF ChunkInv

LEMMA RaiseInv ==
    ASSUME ChunkInv, NEW code \in ChunkerErrors, Raise(code), pc \in {"split", "dispatch"}
    PROVE  ChunkInv'
<1>1. /\ pc' \notin Chunking /\ ~Chunked'
      /\ UNCHANGED <<elements, scenario, next, regionVars, sectionVars, splitVars, chunks>>
  BY DEF Raise, Chunking, Chunked, ChunkerErrors
<1> QED BY <1>1, LaterStepInv

LEMMA ChunkNextInv ==
    ASSUME ChunkInv, ChunkNext
    PROVE  ChunkInv'
<1>1. CASE SplitterRaises \/ CountRaises
  BY <1>1, RaiseInv DEF SplitterRaises, CountRaises, Counts, Dispatching, ChunkerErrors
<1>2. CASE ~SplitterRaises /\ ~CountRaises
  BY <1>2, PartitionStepInv, DispatchStepInv, SectionStepInv, SplitStepInv, FinishStepInv
     DEF ChunkNext, MergeStep
<1> QED BY <1>1, <1>2

\* A step that is none of the chunker's.
LEMMA ChunkStutter ==
    ASSUME ChunkInv, UNCHANGED chunkVars
    PROVE  ChunkInv'
<1>1. UNCHANGED <<elements, scenario, pc, next, buffer, regions, regionNo, path, sections,
                  sectionNo, text, cursor, region_drafts, chunks>>
  BY DEF chunkVars, regionVars, sectionVars, splitVars
<1>2. DocumentOK' /\ Size' = Size
  BY <1>1, Frame DEF ChunkInv, DocumentOK
<1>3. RegionsOK'
  <2>1. Partitioning' <=> Partitioning
    BY <1>1, Frame DEF Partitioning, BufferOK, Opened, Covers, Within, First, End
  <2> QED BY <1>1, <2>1, Frame DEF ChunkInv, RegionsOK, Ordered, Covers, Within, First,
                                   End, Chunked, Chunking, ChunkerErrors
<1>4. SectionsOK'
  <2>1. Current' = Current /\ Here' = Here
    BY <1>1 DEF Current, Here, First
  <2>2. \A x : SectionOK(x)' <=> SectionOK(x)
    BY <1>1, <2>1, Frame DEF SectionOK, IsRun, First, End, Within
  <2>3. Sectioning' <=> Sectioning
    BY <1>1, <2>1, Frame DEF Sectioning, BufferOK, Opened, Covers, Within, First, End
  <2> QED BY <1>1, <2>1, <2>2, <2>3, Frame DEF ChunkInv, SectionsOK, InRegion, Ordered,
                                   Covers, Within, First, End
<1>5. TextOK'
  BY <1>1, JoinedFrame DEF ChunkInv, TextOK, This, First, End, Chunking
<1>6. DraftsOK'
  <2>1. /\ InRegion' <=> InRegion
        /\ Within(Current)' = Within(Current) /\ config' = config
        /\ \A l : /\ First(sections[l])' = First(sections[l])
                  /\ Within(sections[l])' = Within(sections[l])
    BY <1>1 DEF InRegion, Within, Current, First, End, config
  <2>2. /\ \A k : LastToken(region_drafts[k])' = LastToken(region_drafts[k])
        /\ EndsOrdered(region_drafts)' <=> EndsOrdered(region_drafts)
        /\ \A t : Holds(region_drafts, t)' <=> Holds(region_drafts, t)
    BY <1>1 DEF LastToken, EndsOrdered, Holds
  <2> QED BY <1>1, <2>1, <2>2, DraftFrame, Frame DEF ChunkInv, DraftsOK, Blank
<1>7. ChunksOK'
  BY <1>1, ChunksStay DEF ChunkInv
<1> QED BY <1>1, <1>2, <1>3, <1>4, <1>5, <1>6, <1>7 DEF ChunkInv

=============================================================================
