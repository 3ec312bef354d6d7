--------------------------- MODULE SectionProofs ----------------------------
(***************************************************************************)
(* The regions, the sections and the joined texts: _partition_regions,     *)
(* _split_into_sections and join_element_text keep the part of the         *)
(* invariant that is theirs, for documents of any length.                  *)
(***************************************************************************)
EXTENDS ContentInvariant, SequenceTheorems, TLAPS

-----------------------------------------------------------------------------
(* The document does not change *)

LEMMA Frame ==
    ASSUME UNCHANGED elements
    PROVE  /\ Size' = Size
           /\ \A i : Type(i)' = Type(i)
           /\ \A i : Text(i)' = Text(i)
           /\ \A i : TableRegion(i)' = TableRegion(i)
           /\ \A i : HeadingOf(i)' = HeadingOf(i)
           /\ \A r : RegionOK(r)' <=> RegionOK(r)
           /\ \A p, i : Under(p, i)' <=> Under(p, i)
           /\ Tokens' = Tokens
           /\ DraftRecord' = DraftRecord
<1>1. Size' = Size /\ \A i : Type(i)' = Type(i)
  BY DEF Size, Type
<1>2. \A i : Text(i)' = Text(i)
  BY DEF Text
<1>3. \A i : TableRegion(i)' = TableRegion(i)
  BY DEF TableRegion, _caption_for_table
<1>4. \A i : HeadingOf(i)' = HeadingOf(i)
  BY DEF HeadingOf
<1>5. \A r : RegionOK(r)' <=> RegionOK(r)
  BY <1>1, <1>3 DEF RegionOK, IsRun, First, End, Within
<1>6. \A p, i : Under(p, i)' <=> Under(p, i)
  BY <1>1 DEF Under
<1>7. Tokens' = Tokens
  BY <1>2 DEF Tokens, Range
<1>8. DraftRecord' = DraftRecord
  BY <1>7 DEF DraftRecord
<1> QED BY <1>1, <1>2, <1>3, <1>4, <1>5, <1>6, <1>7, <1>8

LEMMA ElementFacts ==
    ASSUME DocumentOK
    PROVE  /\ Size \in Nat
           /\ \A i \in 1 .. Size : /\ elements[i] \in Element
                                   /\ Type(i) \in ElementType
                                   /\ elements[i].size \in Nat \ {0}
<1>1. Size \in Nat /\ \A i \in 1 .. Size : elements[i] \in Element
  BY ElementOfSeq, LenProperties DEF DocumentOK, Size
<1> QED BY <1>1 DEF Element, Type

-----------------------------------------------------------------------------
(* Runs *)

\* A run goes to the end of an ordered list.
LEMMA AppendOrdered ==
    ASSUME NEW S, NEW xs \in Seq(S), NEW x \in S, Ordered(xs),
           \A k \in 1 .. Len(xs) : End(xs[k]) < First(x)
    PROVE  /\ Append(xs, x) \in Seq(S)
           /\ Len(Append(xs, x)) = Len(xs) + 1
           /\ \A k \in 1 .. Len(xs) + 1 : Append(xs, x)[k] = IF k <= Len(xs) THEN xs[k] ELSE x
           /\ Ordered(Append(xs, x))
           /\ \A i : Covers(Append(xs, x), i) <=> Covers(xs, i) \/ i \in Within(x)
<1> DEFINE ys == Append(xs, x)
<1>1. ys \in Seq(S) /\ Len(ys) = Len(xs) + 1 /\ Len(xs) \in Nat
  BY AppendProperties, LenProperties
<1>2. \A k \in 1 .. Len(xs) + 1 : ys[k] = IF k <= Len(xs) THEN xs[k] ELSE x
  BY AppendProperties, <1>1
<1> HIDE DEF ys
<1>3. Ordered(ys)
  BY <1>1, <1>2 DEF Ordered
<1>4. ASSUME NEW i PROVE Covers(ys, i) <=> Covers(xs, i) \/ i \in Within(x)
  <2>1. Covers(xs, i) => Covers(ys, i)
    BY <1>1, <1>2 DEF Covers
  <2>2. i \in Within(x) => Covers(ys, i)
    <3>1. Len(ys) \in 1 .. Len(ys) /\ ys[Len(ys)] = x
      BY <1>1, <1>2
    <3> QED BY <3>1 DEF Covers
  <2>3. Covers(ys, i) => Covers(xs, i) \/ i \in Within(x)
    BY <1>1, <1>2 DEF Covers
  <2> QED BY <2>1, <2>2, <2>3
<1> QED BY <1>1, <1>2, <1>3, <1>4 DEF ys

\* What was collected is a run that ends just before the next element.
LEMMA BufferIsRun ==
    ASSUME NEW i \in Int, BufferOK(i), buffer # <<>>, NEW x, x.elements = buffer
    PROVE  /\ IsRun(x) /\ First(x) = Opened(i) /\ End(x) = i - 1
           /\ Opened(i) < i
<1>1. Len(buffer) \in Nat \ {0} /\ buffer \in Seq(1 .. Size)
  BY EmptySeq DEF BufferOK
<1>2. buffer[1] = Opened(i) /\ buffer[Len(buffer)] = i - 1
  BY <1>1 DEF BufferOK, Opened
<1> QED BY <1>1, <1>2 DEF BufferOK, IsRun, First, End, Opened

\* The next element joins the buffer.
LEMMA BufferGrows ==
    ASSUME NEW i \in 1 .. Size, BufferOK(i), buffer' = Append(buffer, i), Size' = Size
    PROVE  BufferOK(i + 1)' /\ Opened(i + 1)' = Opened(i)
<1>1. /\ buffer' \in Seq(1 .. Size) /\ Len(buffer') = Len(buffer) + 1 /\ Len(buffer) \in Nat
      /\ \A k \in 1 .. Len(buffer) : buffer'[k] = buffer[k]
      /\ buffer'[Len(buffer) + 1] = i
  BY AppendProperties, LenProperties DEF BufferOK
<1>2. Opened(i + 1)' = Opened(i)
  BY <1>1 DEF Opened
<1>3. \A k \in 1 .. Len(buffer') : buffer'[k] = Opened(i) + k - 1
  BY <1>1 DEF BufferOK, Opened
<1> QED BY <1>1, <1>2, <1>3 DEF BufferOK

LEMMA BufferEmpties ==
    ASSUME NEW i \in Int, buffer' = <<>>
    PROVE  BufferOK(i)' /\ Opened(i)' = i
<1>1. Len(buffer') = 0 /\ buffer' \in Seq(1 .. Size')
  BY EmptySeq
<1> QED BY <1>1 DEF BufferOK, Opened

-----------------------------------------------------------------------------
(* _partition_regions *)

RegionsGood(rs, upto) ==
    /\ rs \in Seq(RegionRecord)
    /\ \A k \in 1 .. Len(rs) : RegionOK(rs[k])
    /\ Ordered(rs)
    /\ \A k \in 1 .. Len(rs) : End(rs[k]) < upto
    /\ \A i \in 1 .. upto - 1 : Covers(rs, i)

LEMMA RegionAppended ==
    ASSUME DocumentOK, NEW upto \in Int, NEW rs, RegionsGood(rs, upto),
           NEW r \in RegionRecord, RegionOK(r), First(r) = upto, NEW new \in Int, End(r) = new - 1
    PROVE  RegionsGood(Append(rs, r), new)
<1>1. \A k \in 1 .. Len(rs) : End(rs[k]) < First(r)
  BY DEF RegionsGood
<1>2. /\ Append(rs, r) \in Seq(RegionRecord) /\ Len(Append(rs, r)) = Len(rs) + 1
      /\ \A k \in 1 .. Len(rs) + 1 : Append(rs, r)[k] = IF k <= Len(rs) THEN rs[k] ELSE r
      /\ Ordered(Append(rs, r))
      /\ \A i : Covers(Append(rs, r), i) <=> Covers(rs, i) \/ i \in Within(r)
  BY <1>1, AppendOrdered DEF RegionsGood
<1>3. Len(rs) \in Nat
  BY LenProperties DEF RegionsGood
<1>4. \A k \in 1 .. Len(rs) : RegionOK(rs[k]) /\ End(rs[k]) < upto
  BY DEF RegionsGood
<1>5. upto <= new - 1
  <2>1. r.elements \in Seq(1 .. Size) /\ Len(r.elements) >= 1 /\ Len(r.elements) \in Nat
    BY LenProperties DEF RegionOK, IsRun
  <2> QED BY <2>1 DEF RegionOK, IsRun, First, End
<1>6. \A k \in 1 .. Len(rs) + 1 : RegionOK(Append(rs, r)[k])
  BY <1>2, <1>3, <1>4
<1>7. \A k \in 1 .. Len(rs) : End(rs[k]) \in Int
  <2> SUFFICES ASSUME NEW k \in 1 .. Len(rs) PROVE End(rs[k]) \in Int
    OBVIOUS
  <2>1. rs[k].elements \in Seq(1 .. Size) /\ Len(rs[k].elements) >= 1
    BY <1>4 DEF RegionOK, IsRun
  <2>2. Len(rs[k].elements) \in 1 .. Len(rs[k].elements)
    BY <2>1, LenProperties
  <2>3. End(rs[k]) \in 1 .. Size
    BY <2>1, <2>2, ElementOfSeq DEF End
  <2> QED BY <2>3, ElementFacts
<1>8. \A k \in 1 .. Len(rs) + 1 : End(Append(rs, r)[k]) < new
  BY <1>2, <1>3, <1>4, <1>5, <1>7
<1>9. \A i \in 1 .. new - 1 : Covers(Append(rs, r), i)
  BY <1>2 DEF RegionsGood, Within
<1> QED BY <1>2, <1>6, <1>8, <1>9 DEF RegionsGood

\* The prose before a table, or at the end, is a region of its own.
LEMMA FlushedGood ==
    ASSUME DocumentOK, RegionsOK, pc = "partition"
    PROVE  RegionsGood(Flushed, next)
<1> DEFINE r == [kind |-> "non_table", elements |-> buffer, caption |-> None]
<1>1. Partitioning /\ RegionsGood(regions, Opened(next)) /\ next \in Int /\ Opened(next) \in Int
  BY LenProperties DEF RegionsOK, RegionsGood, Partitioning, BufferOK, Opened
<1>2. CASE buffer = <<>>
  <2>1. Opened(next) = next
    BY <1>1, <1>2, EmptySeq DEF Opened
  <2> QED BY <1>1, <1>2, <2>1 DEF Flushed
<1>3. CASE buffer # <<>>
  <2>1. IsRun(r) /\ First(r) = Opened(next) /\ End(r) = next - 1
    <3>1. r.elements = buffer
      OBVIOUS
    <3> HIDE DEF r
    <3> QED BY <1>1, <1>3, <3>1, BufferIsRun DEF Partitioning
  <2>2. r \in RegionRecord
    <3>1. buffer \in Seq(Nat)
      BY <1>1, SeqMonotonic DEF Partitioning, BufferOK
    <3> QED BY <3>1 DEF RegionRecord
  <2>3. RegionOK(r)
    BY <1>1, <2>1 DEF RegionOK, Partitioning, Within
  <2>4. Flushed = Append(regions, r)
    BY <1>3 DEF Flushed
  <2> HIDE DEF r
  <2> QED BY <1>1, <2>1, <2>2, <2>3, <2>4, RegionAppended
<1> QED BY <1>2, <1>3

LEMMA TableRegionGood ==
    ASSUME DocumentOK, NEW i \in 1 .. Size, Type(i) = "table"
    PROVE  /\ TableRegion(i) \in RegionRecord /\ RegionOK(TableRegion(i))
           /\ First(TableRegion(i)) = i /\ End(TableRegion(i)) = i
           /\ TableRegion(i).kind = "table"
<1>1. Size \in Nat
  BY ElementFacts
<1>2. <<i>> \in Seq(Nat) /\ <<i>> \in Seq(1 .. Size) /\ Len(<<i>>) = 1 /\ <<i>>[1] = i
  BY <1>1
<1>3. TableRegion(i).elements = <<i>> /\ TableRegion(i).kind = "table"
  BY DEF TableRegion
<1>4. First(TableRegion(i)) = i /\ End(TableRegion(i)) = i
  BY <1>2, <1>3 DEF First, End
<1>5. _caption_for_table(i) \in Nat \cup {None}
  BY <1>1 DEF _caption_for_table
<1>6. TableRegion(i) \in RegionRecord
  BY <1>2, <1>5 DEF TableRegion, RegionRecord
<1>7. IsRun(TableRegion(i))
  BY <1>2, <1>3, <1>4 DEF IsRun
<1> QED BY <1>3, <1>4, <1>6, <1>7 DEF RegionOK

LEMMA PartitionElementOK ==
    ASSUME DocumentOK, RegionsOK, PartitionElement
    PROVE  RegionsOK'
<1>1. /\ pc = "partition" /\ pc' = "partition" /\ next' = next + 1 /\ UNCHANGED elements
      /\ next \in 1 .. Size /\ Size \in Nat /\ regionNo' = 1 /\ chunks' = <<>>
  BY ElementFacts DEF PartitionElement, RegionsOK, Partitioning, Size
<1>2. Partitioning /\ RegionsGood(regions, Opened(next)) /\ Opened(next) \in Int
  BY <1>1, LenProperties DEF RegionsOK, RegionsGood, Partitioning, BufferOK, Opened
<1>3. CASE Type(next) # "table" /\ buffer' = Append(buffer, next) /\ UNCHANGED regions
  <2>2. BufferOK(next)' /\ Opened(next)' = Opened(next)
    BY <1>1, <1>2, <1>3, Frame, BufferGrows DEF Partitioning
  <2>3. Partitioning'
    <3>1. \A i \in Opened(next) .. next : Type(i) # "table"
      BY <1>1, <1>2, <1>3 DEF Partitioning
    <3> QED BY <1>1, <1>2, <1>3, <2>2, <3>1, Frame DEF Partitioning
  <2> QED BY <1>1, <1>2, <1>3, <2>3, Frame DEF RegionsOK, RegionsGood, Chunked, Chunking,
                                               ChunkerErrors
<1>4. CASE /\ Type(next) = "table" /\ buffer' = <<>>
           /\ regions' = Append(Flushed, TableRegion(next))
  <2>1. RegionsGood(regions', next + 1)
    <3>1. RegionsGood(Flushed, next)
      BY <1>1, FlushedGood
    <3>2. /\ TableRegion(next) \in RegionRecord /\ RegionOK(TableRegion(next))
          /\ First(TableRegion(next)) = next /\ End(TableRegion(next)) = next
      BY <1>1, <1>4, TableRegionGood
    <3> QED BY <1>1, <1>4, <3>1, <3>2, RegionAppended
  <2>2. BufferOK(next)' /\ Opened(next)' = next + 1
    BY <1>1, <1>4, BufferEmpties
  <2>3. Partitioning'
    <3>1. Type(next)' = Type(next')
      BY <1>1, Frame
    <3> QED BY <1>1, <1>4, <2>1, <2>2, Frame DEF Partitioning, RegionsGood
  <2>4. Len(regions') \in Nat
    BY <2>1, LenProperties DEF RegionsGood
  <2> QED BY <1>1, <2>1, <2>3, <2>4, Frame DEF RegionsOK, RegionsGood, Chunked, Chunking,
                                               ChunkerErrors
<1> QED BY <1>1, <1>3, <1>4 DEF PartitionElement, Type

LEMMA PartitionEndOK ==
    ASSUME DocumentOK, RegionsOK, PartitionEnd
    PROVE  RegionsOK'
<1>1. /\ pc = "partition" /\ pc' = "dispatch" /\ UNCHANGED <<elements, regionNo>>
      /\ next = Size + 1 /\ Size \in Nat /\ regionNo = 1 /\ buffer' = <<>>
      /\ regions' = Flushed
  BY ElementFacts DEF PartitionEnd, RegionsOK, Partitioning, Size
<1>2. RegionsGood(regions', next)
  BY <1>1, FlushedGood
<1>3. Len(regions') \in Nat
  BY <1>2, LenProperties DEF RegionsGood
<1> QED BY <1>1, <1>2, <1>3, Frame DEF RegionsOK, RegionsGood, Chunked, Chunking,
                                               ChunkerErrors

\* Steps that leave the regions alone.
LEMMA RegionsStay ==
    ASSUME RegionsOK, UNCHANGED <<elements, regions>>, pc # "partition", pc' # "partition",
           regionNo' \in 1 .. Len(regions) + 1,
           pc' # "sections" => buffer' = <<>>,
           Chunked' => regionNo' = Len(regions) + 1
    PROVE  RegionsOK'
BY Frame DEF RegionsOK

-----------------------------------------------------------------------------
(* _split_into_sections *)

LEMMA UnderHeading ==
    ASSUME DocumentOK, NEW p, NEW i \in 1 .. Size, Under(p, i),
           Type(i) # "heading", Type(i) # "table"
    PROVE  HeadingOf(i) = p
<1> DEFINE above == {j \in 1 .. i - 1 : /\ elements[j].type = "heading"
                                        /\ \A m \in j .. i : elements[m].type # "table"
                                        /\ \A m \in j + 1 .. i : elements[m].type # "heading"}
<1>1. Size \in Nat /\ i \in Int
  BY ElementFacts
<1>2. HeadingOf(i) = IF above = {} THEN None ELSE CHOOSE j \in above : TRUE
  BY DEF HeadingOf
<1>3. CASE p = None /\ \A j \in 1 .. i - 1 :
                Type(j) = "heading" => \E m \in j .. i - 1 : Type(m) = "table"
  <2>1. above = {}
    BY <1>1, <1>3 DEF Type
  <2> QED BY <1>2, <1>3, <2>1
<1>4. CASE /\ p \in 1 .. i - 1 /\ Type(p) = "heading"
           /\ \A m \in p .. i - 1 : Type(m) # "table"
           /\ \A m \in p + 1 .. i - 1 : Type(m) # "heading"
  <2>1. p \in above
    BY <1>1, <1>4 DEF Type
  <2>2. ASSUME NEW j \in above PROVE j = p
    <3>1. j \in Int /\ p \in Int /\ Type(j) = "heading"
      BY <1>1, <1>4 DEF Type
    <3>2. CASE j < p
      BY <1>1, <1>4, <3>1, <3>2 DEF Type
    <3>3. CASE p < j
      BY <1>1, <1>4, <3>1, <3>3 DEF Type
    <3> QED BY <3>1, <3>2, <3>3
  <2>3. above = {p}
    BY <2>1, <2>2
  <2> QED BY <1>2, <2>3
<1> QED BY <1>3, <1>4 DEF Under

LEMMA UnderNext ==
    ASSUME DocumentOK, NEW i \in 1 .. Size
    PROVE  /\ \A p : Under(p, i) /\ Type(i) # "heading" /\ Type(i) # "table" => Under(p, i + 1)
           /\ Type(i) = "heading" => Under(i, i + 1)
           /\ i = 1 \/ Type(i - 1) = "table" => Under(None, i)
<1>1. Size \in Nat /\ i \in Int
  BY ElementFacts
<1>2. ASSUME NEW p, Under(p, i), Type(i) # "heading", Type(i) # "table" PROVE Under(p, i + 1)
  <2>1. CASE p = None /\ \A j \in 1 .. i - 1 :
                  Type(j) = "heading" => \E m \in j .. i - 1 : Type(m) = "table"
    <3>1. \A j \in 1 .. (i + 1) - 1 :
             Type(j) = "heading" => \E m \in j .. (i + 1) - 1 : Type(m) = "table"
      <4> SUFFICES ASSUME NEW j \in 1 .. i, Type(j) = "heading"
                   PROVE  \E m \in j .. i : Type(m) = "table"
        BY <1>1
      <4>1. j \in 1 .. i - 1
        BY <1>1, <1>2
      <4>2. PICK m \in j .. i - 1 : Type(m) = "table"
        BY <2>1, <4>1
      <4>3. m \in j .. i
        BY <1>1
      <4> QED BY <4>2, <4>3
    <3> QED BY <2>1, <3>1 DEF Under
  <2>2. CASE /\ p \in 1 .. i - 1 /\ Type(p) = "heading"
             /\ \A m \in p .. i - 1 : Type(m) # "table"
             /\ \A m \in p + 1 .. i - 1 : Type(m) # "heading"
    BY <1>1, <1>2, <2>2 DEF Under
  <2> QED BY <1>2, <2>1, <2>2 DEF Under
<1>3. ASSUME Type(i) = "heading" PROVE Under(i, i + 1)
  <2>1. i .. (i + 1) - 1 = {i} /\ i + 1 .. (i + 1) - 1 = {}
    BY <1>1
  <2> QED BY <1>1, <1>3, <2>1 DEF Under
<1>4. ASSUME i = 1 \/ Type(i - 1) = "table" PROVE Under(None, i)
  BY <1>1, <1>4 DEF Under
<1> QED BY <1>2, <1>3, <1>4

LEMMA RunEnds ==
    ASSUME DocumentOK, NEW x, IsRun(x)
    PROVE  /\ Len(x.elements) \in Nat \ {0} /\ x.elements \in Seq(1 .. Size)
           /\ First(x) \in 1 .. Size /\ End(x) \in 1 .. Size
           /\ First(x) \in Int /\ End(x) \in Int
           /\ End(x) = First(x) + Len(x.elements) - 1
           /\ \A k \in 1 .. Len(x.elements) : x.elements[k] = First(x) + k - 1
<1> DEFINE e == x.elements
           S == 1 .. Size
<1>1. e \in Seq(S) /\ Len(e) >= 1 /\ \A k \in 1 .. Len(e) : e[k] = First(x) + k - 1
  BY DEF IsRun
<1>2. First(x) = e[1] /\ End(x) = e[Len(e)]
  BY DEF First, End
<1>3. \A y \in S : y \in Int
  BY ElementFacts
<1> HIDE DEF e, S
<1>4. Len(e) \in Nat \ {0}
  BY <1>1, LenProperties
<1>5. e[1] \in S /\ e[Len(e)] \in S
  BY <1>1, <1>4, ElementOfSeq
<1>6. e[1] \in Int /\ e[Len(e)] \in Int
  BY <1>3, <1>5
<1>7. e[Len(e)] = First(x) + Len(e) - 1
  BY <1>1, <1>4
<1> QED BY <1>1, <1>2, <1>4, <1>5, <1>6, <1>7 DEF e, S

LEMMA CurrentFacts ==
    ASSUME DocumentOK, RegionsOK, regionNo <= Len(regions)
    PROVE  /\ RegionOK(Current) /\ First(Current) \in 1 .. Size /\ End(Current) \in 1 .. Size
           /\ Current \in RegionRecord
           /\ Len(Current.elements) \in Nat \ {0} /\ Current.elements \in Seq(1 .. Size)
           /\ End(Current) = First(Current) + Len(Current.elements) - 1
           /\ \A k \in 1 .. Len(Current.elements) : Current.elements[k] = First(Current) + k - 1
<1>1. Len(regions) \in Nat /\ regionNo \in 1 .. Len(regions)
  BY LenProperties DEF RegionsOK
<1>2. RegionOK(Current) /\ Current \in RegionRecord
  BY <1>1, ElementOfSeq DEF RegionsOK, Current
<1>3. IsRun(Current)
  BY <1>2 DEF RegionOK
<1> QED BY <1>2, <1>3, RunEnds

LEMMA SectionFrame ==
    ASSUME UNCHANGED <<elements, regions, regionNo>>
    PROVE  /\ Current' = Current
           /\ \A s : SectionOK(s)' <=> SectionOK(s)
<1>1. Current' = Current
  BY DEF Current
<1> QED BY <1>1, Frame DEF SectionOK, IsRun, First, End, Within

SectionsGood(ss, upto) ==
    /\ ss \in Seq(SectionRecord)
    /\ \A k \in 1 .. Len(ss) : SectionOK(ss[k])
    /\ Ordered(ss)
    /\ \A k \in 1 .. Len(ss) : End(ss[k]) < upto
    /\ \A j \in First(Current) .. upto - 1 : Type(j) = "heading" \/ Covers(ss, j)

\* The content collected under a heading is a section of its own.
LEMMA ClosedGood ==
    ASSUME DocumentOK, RegionsOK, SectionsOK, pc = "sections"
    PROVE  SectionsGood(Closed, Here)
<1> DEFINE s == [path |-> path, elements |-> buffer]
<1>1. /\ regionNo <= Len(regions) /\ Sectioning /\ path \in Nat \cup {None}
      /\ sections \in Seq(SectionRecord) /\ Ordered(sections)
      /\ \A k \in 1 .. Len(sections) : SectionOK(sections[k])
  BY DEF SectionsOK, InRegion
<1>2. First(Current) \in Nat /\ Here \in Int /\ Size \in Nat /\ next <= Len(Current.elements) + 1
  BY <1>1, CurrentFacts, ElementFacts DEF Sectioning, Here
<1>3. SectionsGood(sections, Opened(Here))
  BY <1>1 DEF Sectioning, SectionsGood
<1>4. BufferOK(Here) /\ Opened(Here) \in Int /\ First(Current) <= Opened(Here)
      /\ Here - 1 <= End(Current) /\ End(Current) \in Int
      /\ \A j \in Opened(Here) .. Here - 1 : Type(j) # "heading" /\ path = HeadingOf(j)
  <2>1. BufferOK(Here) /\ First(Current) <= Opened(Here)
        /\ \A j \in Opened(Here) .. Here - 1 : Type(j) # "heading" /\ path = HeadingOf(j)
    BY <1>1 DEF Sectioning
  <2>2. Len(buffer) \in Nat
    BY <2>1, LenProperties DEF BufferOK
  <2>3. Opened(Here) \in Int
    BY <1>2, <2>2 DEF Opened
  <2>4. Here - 1 <= End(Current) /\ End(Current) \in Int
    <3>1. Len(Current.elements) \in Nat /\ End(Current) \in Int
          /\ End(Current) = First(Current) + Len(Current.elements) - 1
      BY <1>1, CurrentFacts, ElementFacts
    <3>2. next \in 1 .. Len(Current.elements) + 1
      BY <1>1 DEF Sectioning
    <3> QED BY <1>2, <3>1, <3>2 DEF Here
  <2> QED BY <2>1, <2>3, <2>4
<1>5. CASE buffer = <<>>
  <2>1. Opened(Here) = Here
    BY <1>2, <1>5, EmptySeq DEF Opened
  <2> QED BY <1>3, <1>5, <2>1 DEF Closed
<1>6. CASE buffer # <<>>
  <2>1. IsRun(s) /\ First(s) = Opened(Here) /\ End(s) = Here - 1 /\ Opened(Here) < Here
    <3>1. s.elements = buffer
      OBVIOUS
    <3> HIDE DEF s
    <3> QED BY <1>2, <1>4, <1>6, <3>1, BufferIsRun
  <2>2. s \in SectionRecord /\ s.path = path
    <3>1. buffer \in Seq(Nat)
      BY <1>2, <1>4, SeqMonotonic DEF BufferOK
    <3> QED BY <1>1, <3>1 DEF SectionRecord
  <2>3. Closed = Append(sections, s)
    BY <1>6 DEF Closed
  <2> HIDE DEF s
  <2>4. SectionOK(s)
    BY <1>4, <2>1, <2>2 DEF SectionOK, Within
  <2>5. \A k \in 1 .. Len(sections) : SectionOK(sections[k]) /\ End(sections[k]) < Opened(Here)
    BY <1>3 DEF SectionsGood
  <2>6. \A k \in 1 .. Len(sections) : End(sections[k]) \in Int
    <3> SUFFICES ASSUME NEW k \in 1 .. Len(sections) PROVE End(sections[k]) \in Int
      OBVIOUS
    <3>1. IsRun(sections[k])
      BY <2>5 DEF SectionOK
    <3> QED BY <3>1, RunEnds
  <2>7. /\ Closed \in Seq(SectionRecord) /\ Len(Closed) = Len(sections) + 1
        /\ \A k \in 1 .. Len(sections) + 1 :
              Closed[k] = IF k <= Len(sections) THEN sections[k] ELSE s
        /\ Ordered(Closed)
        /\ \A j : Covers(Closed, j) <=> Covers(sections, j) \/ j \in Within(s)
    BY <1>1, <2>1, <2>2, <2>3, <2>5, AppendOrdered
  <2>8. Len(sections) \in Nat
    BY <1>1, LenProperties
  <2>9. \A k \in 1 .. Len(Closed) : SectionOK(Closed[k]) /\ End(Closed[k]) < Here
    BY <1>2, <1>4, <2>1, <2>4, <2>5, <2>6, <2>7, <2>8
  <2>10. \A j \in First(Current) .. Here - 1 : Type(j) = "heading" \/ Covers(Closed, j)
    BY <1>2, <1>3, <1>4, <2>1, <2>7 DEF SectionsGood, Within
  <2> QED BY <2>7, <2>9, <2>10 DEF SectionsGood
<1> QED BY <1>5, <1>6

LEMMA HereFacts ==
    ASSUME DocumentOK, RegionsOK, SectionsOK, pc = "sections"
    PROVE  /\ regionNo <= Len(regions) /\ RegionOK(Current) /\ Current.kind = "non_table"
           /\ First(Current) \in 1 .. Size /\ End(Current) \in 1 .. Size
           /\ Size \in Nat /\ First(Current) \in Int /\ End(Current) \in Int
           /\ next \in 1 .. Len(Current.elements) + 1 /\ Len(Current.elements) \in Nat
           /\ Here \in First(Current) .. End(Current) + 1 /\ Here \in Int
           /\ End(Current) = First(Current) + Len(Current.elements) - 1
           /\ next <= Len(Current.elements) =>
                 /\ Here \in 1 .. Size /\ Here \in Within(Current)
                 /\ Current.elements[next] = Here
                 /\ Type(Here) # "table"
           /\ Opened(Here) \in Int /\ Opened(Here) <= Here
<1>1. regionNo <= Len(regions) /\ Current.kind = "non_table" /\ Sectioning
  BY DEF SectionsOK, InRegion
<1>2. /\ RegionOK(Current) /\ First(Current) \in 1 .. Size /\ End(Current) \in 1 .. Size
      /\ Len(Current.elements) \in Nat
      /\ End(Current) = First(Current) + Len(Current.elements) - 1
      /\ \A k \in 1 .. Len(Current.elements) : Current.elements[k] = First(Current) + k - 1
  BY <1>1, CurrentFacts
<1>3. Size \in Nat /\ First(Current) \in Int /\ End(Current) \in Int
  BY <1>2, ElementFacts
<1>4. next \in 1 .. Len(Current.elements) + 1
  BY <1>1 DEF Sectioning
<1>5. Here \in First(Current) .. End(Current) + 1 /\ Here \in Int
  BY <1>2, <1>3, <1>4 DEF Here
<1>6. ASSUME next <= Len(Current.elements)
      PROVE  /\ Here \in 1 .. Size /\ Here \in Within(Current)
             /\ Current.elements[next] = Here /\ Type(Here) # "table"
  <2>1. next \in 1 .. Len(Current.elements)
    BY <1>2, <1>4, <1>6
  <2>2. Current.elements[next] = Here /\ Here \in 1 .. Size /\ Here \in Within(Current)
    BY <1>2, <1>3, <2>1 DEF Here, Within
  <2> QED BY <1>1, <1>2, <2>2 DEF RegionOK
<1>7. Opened(Here) \in Int /\ Opened(Here) <= Here
  BY <1>1, <1>5, LenProperties DEF Sectioning, BufferOK, Opened
<1> QED BY <1>1, <1>2, <1>3, <1>4, <1>5, <1>6, <1>7

LEMMA SectionElementOK ==
    ASSUME DocumentOK, RegionsOK, SectionsOK, SectionElement
    PROVE  SectionsOK'
<1>1. /\ pc = "sections" /\ pc' = "sections" /\ next' = next + 1
      /\ UNCHANGED <<elements, regions, regionNo, sectionNo, region_drafts>>
      /\ next <= Len(Current.elements)
  BY DEF SectionElement, splitVars, Current
<1>2. /\ Here \in 1 .. Size /\ Here \in Within(Current) /\ Current.elements[next] = Here
      /\ Type(Here) # "table" /\ Here \in Int /\ First(Current) \in Int
      /\ Size \in Nat /\ Opened(Here) \in Int /\ Opened(Here) <= Here
      /\ next \in 1 .. Len(Current.elements) /\ Len(Current.elements) \in Nat
      /\ regionNo <= Len(regions) /\ Current.kind = "non_table" /\ First(Current) <= Here
  BY <1>1, HereFacts DEF Within
<1>3. Current' = Current /\ \A s : SectionOK(s)' <=> SectionOK(s)
  BY <1>1, SectionFrame
<1>4. First(Current)' = First(Current) /\ Size' = Size
  BY <1>1, <1>3, Frame DEF First
<1>5. Here' = Here + 1
  <2>1. next \in Int /\ next' = next + 1
    BY <1>1, <1>2
  <2> QED BY <1>2, <1>4, <2>1 DEF Here
<1>6. /\ Sectioning /\ sectionNo = 1 /\ region_drafts = <<>> /\ sections \in Seq(SectionRecord)
      /\ path \in Nat \cup {None} /\ Ordered(sections)
      /\ \A k \in 1 .. Len(sections) : SectionOK(sections[k])
  BY <1>1 DEF SectionsOK, Sectioning, InRegion
<1>7. CASE Type(Here) = "heading" /\ sections' = Closed /\ path' = Here /\ buffer' = <<>>
  <2>1. SectionsGood(sections', Here)
    BY <1>1, <1>7, ClosedGood
  <2>2. BufferOK(Here)' /\ Opened(Here)' = Here + 1
    BY <1>2, <1>5, <1>7, BufferEmpties
  <2>3. Under(path, Here)'
    BY <1>1, <1>2, <1>5, <1>7, UnderNext, Frame
  <2>4. \A k \in 1 .. Len(sections') : End(sections'[k]) < Here + 1
    <3> SUFFICES ASSUME NEW k \in 1 .. Len(sections') PROVE End(sections'[k]) < Here + 1
      OBVIOUS
    <3>1. IsRun(sections'[k]) /\ End(sections'[k]) < Here
      BY <2>1 DEF SectionsGood, SectionOK
    <3>2. End(sections'[k]) \in Int
      BY <3>1, RunEnds
    <3> QED BY <1>2, <3>1, <3>2
  <2>5. \A j \in First(Current) .. (Here + 1) - 1 : Type(j) = "heading" \/ Covers(sections', j)
    BY <1>2, <1>7, <2>1 DEF SectionsGood
  <2>6. Sectioning'
    <3>1. /\ Opened(Here)' .. Here' - 1 = {} /\ First(Current)' <= Opened(Here)'
          /\ next' \in 1 .. Len(Current'.elements) + 1
      BY <1>1, <1>2, <1>3, <1>4, <1>5, <2>2
    <3>2. \A j \in First(Current)' .. Opened(Here)' - 1 : Type(j)' = "heading" \/ Covers(sections, j)'
      BY <1>1, <1>4, <2>2, <2>5, Frame DEF Covers, Within, First, End
    <3> QED BY <1>1, <1>6, <2>2, <2>3, <2>4, <3>1, <3>2 DEF Sectioning
  <2>7. sections' \in Seq(SectionRecord) /\ Ordered(sections') /\ Len(sections') \in Nat
        /\ \A k \in 1 .. Len(sections') : SectionOK(sections'[k])
    BY <2>1, LenProperties DEF SectionsGood
  <2> QED BY <1>1, <1>2, <1>3, <1>6, <1>7, <2>6, <2>7 DEF SectionsOK, InRegion
<1>8. CASE Type(Here) # "heading" /\ buffer' = Append(buffer, Here)
           /\ UNCHANGED <<sections, path>>
  <2>1. BufferOK(Here)' /\ Opened(Here)' = Opened(Here)
    BY <1>2, <1>5, <1>4, <1>6, <1>8, BufferGrows DEF Sectioning
  <2>2. Under(path, Here)'
    BY <1>1, <1>2, <1>5, <1>6, <1>8, UnderNext, Frame DEF Sectioning
  <2>3. \A j \in Opened(Here) .. (Here + 1) - 1 : Type(j) # "heading" /\ path = HeadingOf(j)
    <3>1. HeadingOf(Here) = path
      BY <1>2, <1>6, <1>8, UnderHeading DEF Sectioning
    <3> QED BY <1>2, <1>6, <1>8, <3>1 DEF Sectioning
  <2>4. Sectioning'
    <3>1. /\ next' \in 1 .. Len(Current'.elements) + 1
          /\ First(Current)' <= Opened(Here)' /\ sectionNo' = 1 /\ region_drafts' = <<>>
      BY <1>1, <1>2, <1>3, <1>4, <1>6, <2>1 DEF Sectioning
    <3>2. \A j \in Opened(Here)' .. Here' - 1 : Type(j)' # "heading" /\ path' = HeadingOf(j)'
      BY <1>1, <1>5, <1>8, <2>1, <2>3, Frame
    <3>3. \A k \in 1 .. Len(sections') : End(sections[k])' < Opened(Here)'
      BY <1>6, <1>8, <2>1 DEF Sectioning, End
    <3>4. \A j \in First(Current)' .. Opened(Here)' - 1 :
             Type(j)' = "heading" \/ Covers(sections, j)'
      BY <1>1, <1>4, <1>6, <1>8, <2>1, Frame DEF Sectioning, Covers, Within, First, End
    <3> QED BY <2>1, <2>2, <3>1, <3>2, <3>3, <3>4 DEF Sectioning
  <2> QED BY <1>1, <1>2, <1>3, <1>6, <1>8, <2>4 DEF SectionsOK, InRegion
<1> QED BY <1>1, <1>2, <1>7, <1>8 DEF SectionElement, Current, Type

LEMMA SectionsEndOK ==
    ASSUME DocumentOK, RegionsOK, SectionsOK, SectionsEnd
    PROVE  SectionsOK'
<1>1. /\ pc = "sections" /\ pc' = "join" /\ sections' = Closed /\ next > Len(Current.elements)
      /\ UNCHANGED <<elements, regions, regionNo, sectionNo, path>>
  BY DEF SectionsEnd, Current
<1>2. Current' = Current /\ \A s : SectionOK(s)' <=> SectionOK(s)
  BY <1>1, SectionFrame
<1>3. SectionsGood(sections', Here)
  BY <1>1, ClosedGood
<1>4. Here = End(Current) + 1 /\ End(Current) \in Int
  <2>1. /\ Len(Current.elements) \in Nat /\ next \in 1 .. Len(Current.elements) + 1
        /\ First(Current) \in Int /\ End(Current) \in Int
        /\ End(Current) = First(Current) + Len(Current.elements) - 1
    BY <1>1, HereFacts
  <2> QED BY <1>1, <2>1 DEF Here
<1>5. \A j \in Within(Current) : Type(j) = "heading" \/ Covers(sections', j)
  BY <1>3, <1>4 DEF SectionsGood, Within
<1>6. /\ sections' \in Seq(SectionRecord) /\ Ordered(sections') /\ Len(sections') \in Nat
      /\ \A k \in 1 .. Len(sections') : SectionOK(sections'[k])
  BY <1>3, LenProperties DEF SectionsGood
<1>7. sectionNo = 1 /\ path \in Nat \cup {None} /\ regionNo <= Len(regions)
      /\ Current.kind = "non_table"
  BY <1>1 DEF SectionsOK, Sectioning, InRegion
<1>8. Within(Current)' = Within(Current)
  BY <1>2 DEF Within, First, End
<1> QED BY <1>1, <1>2, <1>5, <1>6, <1>7, <1>8, Frame DEF SectionsOK, InRegion

LEMMA DispatchProseOK ==
    ASSUME DocumentOK, RegionsOK, SectionsOK, DraftsOK, DispatchProse
    PROVE  SectionsOK'
<1>1. /\ pc = "dispatch" /\ regionNo <= Len(regions) /\ Current.kind = "non_table"
      /\ next' = 1 /\ path' = None /\ sectionNo' = 1 /\ buffer' = <<>> /\ region_drafts' = <<>>
      /\ UNCHANGED <<elements, regions, regionNo>>
  BY DEF DispatchProse, Dispatching, regionVars, splitVars, RegionsOK, DraftsOK, Current
<1>2. Current' = Current /\ \A s : SectionOK(s)' <=> SectionOK(s)
  BY <1>1, SectionFrame
<1>3. /\ RegionOK(Current) /\ First(Current) \in 1 .. Size /\ Current \in RegionRecord
      /\ End(Current) \in 1 .. Size /\ Len(Current.elements) \in Nat \ {0}
      /\ Size \in Nat /\ First(Current) \in Int /\ End(Current) \in Int
  BY <1>1, CurrentFacts, ElementFacts
<1>4. CASE has_headings /\ pc' = "sections" /\ sections' = <<>>
  <2>1. First(Current)' = First(Current) /\ Here' = First(Current)
    BY <1>1, <1>2, <1>3 DEF Here, First
  <2>2. BufferOK(Here)' /\ Opened(Here)' = First(Current)
    BY <1>1, <1>3, <2>1, BufferEmpties
  <2>3. Under(path, Here)'
    <3>1. Under(None, First(Current))
      BY <1>1, <1>3, UnderNext DEF RegionOK
    <3> QED BY <1>1, <2>1, <3>1, Frame
  <2>4. Len(sections') = 0 /\ sections' \in Seq(SectionRecord) /\ Ordered(sections')
    BY <1>4, EmptySeq DEF Ordered
  <2>5. Sectioning'
    BY <1>1, <1>2, <1>3, <2>1, <2>2, <2>3, <2>4 DEF Sectioning
  <2> QED BY <1>1, <1>2, <1>4, <2>4, <2>5 DEF SectionsOK, InRegion
<1>5. CASE ~has_headings /\ pc' = "join"
           /\ sections' = <<[path |-> None, elements |-> Current.elements]>>
  <2> DEFINE s == [path |-> None, elements |-> Current.elements]
  <2>1. s.path = None /\ s.elements = Current.elements
    OBVIOUS
  <2>2. s \in SectionRecord
    BY <1>3 DEF SectionRecord, RegionRecord
  <2>3. sections' = <<s>>
    BY <1>5
  <2> HIDE DEF s
  <2>4. First(s) = First(Current) /\ End(s) = End(Current) /\ Within(s) = Within(Current)
    BY <2>1 DEF First, End, Within
  <2>5. IsRun(s)
    BY <1>3, <2>1, <2>4 DEF RegionOK, IsRun
  <2>6. \A i \in Within(s) : Type(i) # "heading" /\ HeadingOf(i) = None
    <3> SUFFICES ASSUME NEW i \in Within(Current)
                 PROVE  Type(i) # "heading" /\ HeadingOf(i) = None
      BY <2>4
    <3>1. i \in 1 .. Size /\ \A j \in 1 .. Size : elements[j].type # "heading"
      BY <1>3, <1>5 DEF Within, has_headings, Size
    <3>2. \A j \in 1 .. i - 1 : elements[j].type # "heading"
      BY <1>3, <3>1
    <3> QED BY <3>1, <3>2 DEF Type, HeadingOf
  <2>7. SectionOK(s)
    BY <1>3, <2>1, <2>4, <2>5, <2>6 DEF SectionOK
  <2>8. Len(sections') = 1 /\ sections'[1] = s /\ sections' \in Seq(SectionRecord)
    BY <2>2, <2>3
  <2>9. Ordered(sections') /\ \A j \in Within(Current) : Covers(sections', j)
    BY <2>4, <2>8 DEF Ordered, Covers
  <2>10. Within(Current)' = Within(Current)
    BY <1>2 DEF Within, First, End
  <2>11. /\ \A k \in 1 .. Len(sections') : SectionOK(sections[k])'
         /\ \A j \in Within(Current)' : Covers(sections, j)'
    BY <1>2, <2>7, <2>8, <2>9, <2>10
  <2> QED BY <1>1, <1>2, <1>5, <2>8, <2>9, <2>11 DEF SectionsOK, InRegion
<1> QED BY <1>4, <1>5 DEF DispatchProse, Current

\* Steps that leave the sections alone.
LEMMA SectionsStay ==
    ASSUME SectionsOK, UNCHANGED <<elements, regions, sections, path>>, pc' # "sections",
           sectionNo' \in 1 .. Len(sections) + 1,
           InRegion' => pc \in {"join", "split"} /\ UNCHANGED regionNo,
           pc' = "split" => sectionNo' <= Len(sections)
    PROVE  SectionsOK'
<1>1. CASE ~InRegion'
  BY <1>1 DEF SectionsOK, InRegion
<1>2. CASE InRegion'
  <2>1. Current' = Current /\ \A s : SectionOK(s)' <=> SectionOK(s)
    BY <1>2, SectionFrame
  <2>2. Within(Current)' = Within(Current)
    BY <2>1 DEF Within, First, End
  <2>3. pc' \in {"join", "split"} /\ pc \in {"join", "split"}
    BY <1>2 DEF InRegion
  <2> QED BY <1>2, <2>1, <2>2, <2>3, Frame DEF SectionsOK, InRegion
<1> QED BY <1>1, <1>2

-----------------------------------------------------------------------------
(* join_element_text *)

\* The sequence c is a followed by b.
IsConcat(c, a, b) ==
    /\ Len(a) \in Nat /\ Len(b) \in Nat /\ Len(c) = Len(a) + Len(b)
    /\ \A m \in 1 .. Len(a) : c[m] = a[m] /\ m \in 1 .. Len(c)
    /\ \A k \in 1 .. Len(b) : c[Len(a) + k] = b[k] /\ Len(a) + k \in 1 .. Len(c)
    /\ \A m \in 1 .. Len(c) : m \in 1 .. Len(a) \/ \E k \in 1 .. Len(b) : m = Len(a) + k

LEMMA ConcatFacts ==
    ASSUME NEW S, NEW a \in Seq(S), NEW b \in Seq(S)
    PROVE  a \o b \in Seq(S) /\ IsConcat(a \o b, a, b)
<1>1. a \o b \in Seq(S) /\ Len(a) \in Nat /\ Len(b) \in Nat /\ Len(a \o b) = Len(a) + Len(b)
  BY ConcatProperties, LenProperties
<1>2. \A m \in 1 .. Len(a) + Len(b) :
         (a \o b)[m] = IF m <= Len(a) THEN a[m] ELSE b[m - Len(a)]
  BY <1>1, ConcatProperties
<1>3. \A m \in 1 .. Len(a) : (a \o b)[m] = a[m] /\ m \in 1 .. Len(a \o b)
  BY <1>1, <1>2
<1>4. ASSUME NEW k \in 1 .. Len(b)
      PROVE  (a \o b)[Len(a) + k] = b[k] /\ Len(a) + k \in 1 .. Len(a \o b)
  <2>1. Len(a) + k \in 1 .. Len(a) + Len(b) /\ ~(Len(a) + k <= Len(a)) /\ Len(a) + k - Len(a) = k
    BY <1>1
  <2> QED BY <1>1, <1>2, <2>1
<1>5. ASSUME NEW m \in 1 .. Len(a \o b), m \notin 1 .. Len(a)
      PROVE  \E k \in 1 .. Len(b) : m = Len(a) + k
  <2>1. m - Len(a) \in 1 .. Len(b) /\ m = Len(a) + (m - Len(a))
    BY <1>1, <1>5
  <2> QED BY Zenon, <2>1
<1>6. \A m \in 1 .. Len(a \o b) : m \in 1 .. Len(a) \/ \E k \in 1 .. Len(b) : m = Len(a) + k
  BY Zenon, <1>5
<1> DEFINE c == a \o b
<1>7. /\ Len(a) \in Nat /\ Len(b) \in Nat /\ Len(c) = Len(a) + Len(b)
      /\ \A m \in 1 .. Len(a) : c[m] = a[m] /\ m \in 1 .. Len(c)
      /\ \A k \in 1 .. Len(b) : c[Len(a) + k] = b[k] /\ Len(a) + k \in 1 .. Len(c)
      /\ \A m \in 1 .. Len(c) : m \in 1 .. Len(a) \/ \E k \in 1 .. Len(b) : m = Len(a) + k
  BY Zenon, <1>1, <1>3, <1>4, <1>6
<1> HIDE DEF c
<1>8. IsConcat(c, a, b)
  BY <1>7 DEF IsConcat
<1> QED BY <1>1, <1>8 DEF c

\* The sequence u is a and b joined by a blank.
BlankJoined(u, a, b) ==
    /\ Len(a) \in Nat /\ Len(b) \in Nat /\ Len(u) = Len(a) + 1 + Len(b)
    /\ \A m \in 1 .. Len(a) : u[m] = a[m] /\ m \in 1 .. Len(u)
    /\ u[Len(a) + 1] = Blank
    /\ \A k \in 1 .. Len(b) : u[Len(a) + 1 + k] = b[k] /\ Len(a) + 1 + k \in 1 .. Len(u)
    /\ \A m \in 1 .. Len(u) : \/ m \in 1 .. Len(a)
                               \/ m = Len(a) + 1
                               \/ \E k \in 1 .. Len(b) : m = Len(a) + 1 + k

LEMMA BlankBetween ==
    ASSUME NEW S, Blank \in S, NEW a \in Seq(S), NEW b \in Seq(S)
    PROVE  a \o <<Blank>> \o b \in Seq(S) /\ BlankJoined(a \o <<Blank>> \o b, a, b)
<1> DEFINE x == <<Blank>>
           h == a \o x
           u == h \o b
<1>1. x \in Seq(S) /\ Len(x) = 1 /\ x[1] = Blank /\ 1 \in 1 .. Len(x)
  OBVIOUS
<1> HIDE DEF x
<1>2. h \in Seq(S) /\ IsConcat(h, a, x)
  BY Zenon, <1>1, ConcatFacts
<1> HIDE DEF h
<1>3. u \in Seq(S) /\ IsConcat(u, h, b)
  BY Zenon, <1>2, ConcatFacts
<1> HIDE DEF u
<1>4. Len(a) \in Nat /\ Len(b) \in Nat /\ Len(h) = Len(a) + 1 /\ Len(u) = Len(a) + 1 + Len(b)
  BY <1>1, <1>2, <1>3 DEF IsConcat
<1>5. h[Len(a) + 1] = Blank /\ Len(a) + 1 \in 1 .. Len(h)
  BY <1>1, <1>2 DEF IsConcat
<1>6. u[Len(a) + 1] = Blank
  BY <1>3, <1>5 DEF IsConcat
<1>7. \A m \in 1 .. Len(h) : m \in 1 .. Len(a) \/ m = Len(a) + 1
  BY <1>4
<1>8. \A m \in 1 .. Len(a) : u[m] = a[m] /\ m \in 1 .. Len(u)
  BY <1>2, <1>3 DEF IsConcat
<1>9. \A k \in 1 .. Len(b) : u[Len(a) + 1 + k] = b[k] /\ Len(a) + 1 + k \in 1 .. Len(u)
  BY <1>3, <1>4 DEF IsConcat
<1>10. BlankJoined(u, a, b)
  BY <1>3, <1>4, <1>6, <1>7, <1>8, <1>9 DEF IsConcat, BlankJoined
<1> QED BY <1>3, <1>10 DEF u, h, x

LEMMA TextFacts ==
    ASSUME DocumentOK, NEW i \in 1 .. Size
    PROVE  /\ Text(i) \in Seq(TokensOf(i)) /\ Len(Text(i)) = elements[i].size
           /\ elements[i].size \in Nat \ {0}
           /\ \A k \in 1 .. elements[i].size : Text(i)[k] = <<i, k>> /\ Text(i)[k] # Blank
<1>1. elements[i].size \in Nat \ {0} /\ i \in Nat \ {0}
  BY ElementFacts
<1> QED BY <1>1 DEF Text, TokensOf, Blank

LEMMA TokenFacts ==
    ASSUME DocumentOK, NEW first \in 1 .. Size, NEW last \in 1 .. Size,
           NEW t \in TextTokens(first, last)
    PROVE  /\ t = <<t[1], t[2]>> /\ t[1] \in first .. last /\ t[2] \in 1 .. elements[t[1]].size
           /\ t # Blank /\ t[1] \in 1 .. Size /\ t[2] \in Nat \ {0} /\ t[1] \in Nat \ {0}
           /\ t \in TokensOf(t[1])
<1>1. PICK i \in first .. last : t \in TokensOf(i)
  BY DEF TextTokens
<1>2. PICK k \in 1 .. elements[i].size : t = <<i, k>>
  BY <1>1 DEF TokensOf
<1>3. i \in 1 .. Size /\ Size \in Nat /\ i \in Nat \ {0} /\ elements[i].size \in Nat
  BY ElementFacts
<1>4. t[1] = i /\ t[2] = k /\ k \in Nat \ {0}
  BY <1>2, <1>3
<1> QED BY <1>1, <1>2, <1>3, <1>4 DEF Blank

LEMMA JoinedFrame ==
    ASSUME UNCHANGED elements
    PROVE  \A tokens, first, last : Joined(tokens, first, last)' <=> Joined(tokens, first, last)
BY DEF Joined, TextTokens, TokensOf, Before, Blank

LEMMA JoinedOne ==
    ASSUME DocumentOK, NEW i \in 1 .. Size
    PROVE  Joined(Text(i), i, i)
<1>1. i \in Nat /\ i .. i = {i}
  BY ElementFacts
<1>2. TextTokens(i, i) = TokensOf(i)
  BY <1>1 DEF TextTokens
<1> DEFINE u == Text(i)
           z == elements[i].size
<1>3. /\ u \in Seq(TokensOf(i)) /\ Len(u) = z /\ z \in Nat \ {0}
      /\ \A k \in 1 .. z : u[k] = <<i, k>> /\ u[k] # Blank
  BY TextFacts
<1>4. \A t \in TokensOf(i) : \E m \in 1 .. z : t = <<i, m>>
  BY DEF TokensOf
<1> HIDE DEF u, z
<1>5. u \in Seq(TokensOf(i) \cup {Blank})
  BY <1>3, SeqMonotonic
<1>6. \A m, n \in 1 .. z : m < n => Before(u[m], u[n])
  <2> SUFFICES ASSUME NEW m \in 1 .. z, NEW n \in 1 .. z, m < n PROVE Before(u[m], u[n])
    OBVIOUS
  <2>1. u[m] = <<i, m>> /\ u[n] = <<i, n>>
    BY <1>3
  <2> QED BY <2>1 DEF Before
<1>7. Joined(u, i, i)
  BY <1>2, <1>3, <1>4, <1>5, <1>6 DEF Joined
<1> QED BY <1>7 DEF u

LEMMA JoinedMore ==
    ASSUME DocumentOK, NEW tokens, NEW first \in 1 .. Size, NEW i \in 1 .. Size, first < i,
           Joined(tokens, first, i - 1)
    PROVE  Joined(tokens \o <<Blank>> \o Text(i), first, i)
<1> DEFINE u == tokens \o <<Blank>> \o Text(i)
           n == Len(tokens)
           z == elements[i].size
           S == TextTokens(first, i - 1) \cup {Blank}
           T == TextTokens(first, i) \cup {Blank}
<1>1. Size \in Nat /\ i \in Nat /\ first \in Nat /\ i - 1 \in 1 .. Size
  BY ElementFacts
<1>2. first .. i = (first .. i - 1) \cup {i}
  BY <1>1
<1>3. TextTokens(first, i) = TextTokens(first, i - 1) \cup TokensOf(i)
  BY <1>2 DEF TextTokens
<1>4. S \subseteq T /\ TokensOf(i) \subseteq T /\ Blank \in T
  BY <1>3
<1>5. /\ Text(i) \in Seq(TokensOf(i)) /\ Len(Text(i)) = z /\ z \in Nat \ {0}
      /\ \A k \in 1 .. z : Text(i)[k] = <<i, k>> /\ Text(i)[k] # Blank
  BY TextFacts
<1>6. tokens \in Seq(S) /\ n \in Nat \ {0}
  BY LenProperties DEF Joined
<1>7. /\ u \in Seq(T) /\ Len(u) = n + 1 + z
      /\ \A m \in 1 .. n : u[m] = tokens[m]
      /\ u[n + 1] = Blank
      /\ \A k \in 1 .. z : u[n + 1 + k] = <<i, k>> /\ u[n + 1 + k] # Blank
  <2> HIDE DEF S, T, z
  <2> DEFINE body == Text(i)
  <2>1. tokens \in Seq(T) /\ body \in Seq(T) /\ <<Blank>> \in Seq(T) /\ Len(<<Blank>>) = 1
    BY <1>4, <1>5, <1>6, SeqMonotonic
  <2>2. Len(body) = z /\ z \in Nat /\ n \in Nat
        /\ \A k \in 1 .. z : body[k] = <<i, k>> /\ body[k] # Blank
    BY <1>5, <1>6
  <2> HIDE DEF body
  <2>3. u \in Seq(T) /\ BlankJoined(u, tokens, body)
    <3>1. tokens \o <<Blank>> \o body \in Seq(T)
          /\ BlankJoined(tokens \o <<Blank>> \o body, tokens, body)
      BY Zenon, <1>4, <2>1, BlankBetween
    <3> QED BY Zenon, <3>1 DEF body
  <2> HIDE DEF u
  <2>4. /\ Len(u) = n + 1 + z /\ u[n + 1] = Blank
        /\ \A m \in 1 .. n : u[m] = tokens[m]
    BY <2>2, <2>3 DEF BlankJoined
  <2>5. \A k \in 1 .. z : u[n + 1 + k] = body[k]
    BY <2>2, <2>3 DEF BlankJoined
  <2> HIDE DEF n
  <2>6. \A k \in 1 .. z : u[n + 1 + k] = <<i, k>> /\ u[n + 1 + k] # Blank
    BY <2>2, <2>5
  <2> QED BY <2>3, <2>4, <2>6
<1> HIDE DEF u, n, z
<1>8. \A m \in 1 .. Len(u) :
         m \in 1 .. n \/ m = n + 1 \/ \E k \in 1 .. z : m = n + 1 + k
  <2>1. ASSUME NEW m \in 1 .. Len(u), m \notin 1 .. n, m # n + 1
        PROVE  \E k \in 1 .. z : m = n + 1 + k
    <3>1. n \in Nat /\ z \in Nat /\ Len(u) = n + 1 + z
      BY <1>5, <1>6, <1>7
    <3>2. m - n - 1 \in 1 .. z /\ m = n + 1 + (m - n - 1)
      BY <2>1, <3>1
    <3> QED BY Zenon, <3>2
  <2> QED BY <2>1
<1>9. \A t \in TextTokens(first, i) : \E m \in 1 .. Len(u) : u[m] = t
  <2> SUFFICES ASSUME NEW t \in TextTokens(first, i) PROVE \E m \in 1 .. Len(u) : u[m] = t
    OBVIOUS
  <2>1. CASE t \in TextTokens(first, i - 1)
    <3>1. PICK m \in 1 .. n : tokens[m] = t
      BY <2>1 DEF Joined, n
    <3>2. m \in 1 .. Len(u) /\ u[m] = t
      BY <1>5, <1>6, <1>7, <3>1
    <3> QED BY <3>2
  <2>2. CASE t \in TokensOf(i)
    <3>1. PICK k \in 1 .. z : t = <<i, k>>
      BY <2>2 DEF TokensOf, z
    <3>2. n + 1 + k \in 1 .. Len(u) /\ u[n + 1 + k] = t
      BY <1>5, <1>6, <1>7, <3>1
    <3> QED BY <3>2
  <2> QED BY <1>3, <2>1, <2>2
<1>10. \A m, k \in 1 .. Len(u) : m < k /\ u[m] # Blank /\ u[k] # Blank => Before(u[m], u[k])
  <2> SUFFICES ASSUME NEW m \in 1 .. Len(u), NEW k \in 1 .. Len(u), m < k,
                      u[m] # Blank, u[k] # Blank
               PROVE  Before(u[m], u[k])
    OBVIOUS
  <2>1. CASE k \in 1 .. n
    <3>1. m \in 1 .. n
      BY <1>6, <2>1
    <3> QED BY <1>7, <2>1, <3>1 DEF Joined, n
  <2>2. CASE m \in 1 .. n /\ k \notin 1 .. n
    <3>1. PICK j \in 1 .. z : k = n + 1 + j
      <4>1. k # n + 1
        BY <1>7
      <4> QED BY <1>8, <2>2, <4>1
    <3>2. tokens[m] \in TextTokens(first, i - 1)
      BY <1>6, <1>7, <2>2, ElementOfSeq DEF n
    <3>3. u[m][1] \in first .. i - 1
      BY <1>1, <1>7, <2>2, <3>2, TokenFacts
    <3>4. u[k] = <<i, j>>
      BY <1>7, <3>1
    <3> QED BY <1>1, <3>3, <3>4 DEF Before
  <2>3. CASE m \notin 1 .. n
    <3>1. PICK h \in 1 .. z : m = n + 1 + h
      BY <1>7, <1>8, <2>3
    <3>2. k # n + 1 /\ k \notin 1 .. n
      BY <1>5, <1>6, <3>1
    <3>3. PICK j \in 1 .. z : k = n + 1 + j
      BY <1>8, <3>2
    <3>4. u[m] = <<i, h>> /\ u[k] = <<i, j>>
      BY <1>7, <3>1, <3>3
    <3>5. h < j
      BY <1>5, <1>6, <3>1, <3>3
    <3> QED BY <3>4, <3>5 DEF Before
  <2> QED BY <2>1, <2>2, <2>3
<1>11. \A m \in 1 .. Len(u) : u[m] = Blank => m < Len(u) /\ u[m + 1] # Blank
  <2> SUFFICES ASSUME NEW m \in 1 .. Len(u), u[m] = Blank
               PROVE  m < Len(u) /\ u[m + 1] # Blank
    OBVIOUS
  <2>1. CASE m \in 1 .. n
    <3>1. m < n /\ tokens[m + 1] # Blank
      BY <1>7, <2>1 DEF Joined, n
    <3>2. m + 1 \in 1 .. n
      BY <1>6, <2>1, <3>1
    <3> QED BY <1>5, <1>6, <1>7, <2>1, <3>1, <3>2
  <2>2. CASE m = n + 1
    <3>1. 1 \in 1 .. z /\ m + 1 = n + 1 + 1
      BY <1>5, <1>6, <2>2
    <3> QED BY <1>5, <1>6, <1>7, <2>2, <3>1
  <2> QED BY <1>7, <1>8, <2>1, <2>2
<1>12. u[1] # Blank
  BY <1>6, <1>7 DEF Joined
<1>13. Len(u) >= 1
  BY <1>5, <1>6, <1>7
<1>14. Joined(u, first, i)
  BY <1>7, <1>9, <1>10, <1>11, <1>12, <1>13 DEF Joined
<1> QED BY <1>14 DEF u

LEMMA ThisFacts ==
    ASSUME DocumentOK, SectionsOK, pc \in {"join", "split"}, sectionNo <= Len(sections)
    PROVE  /\ SectionOK(This) /\ This \in SectionRecord
           /\ Len(This.elements) \in Nat \ {0} /\ First(This) \in 1 .. Size
           /\ End(This) \in 1 .. Size /\ First(This) \in Int /\ End(This) \in Int
           /\ End(This) = First(This) + Len(This.elements) - 1
           /\ \A k \in 1 .. Len(This.elements) : This.elements[k] = First(This) + k - 1
           /\ sectionNo \in 1 .. Len(sections) /\ This = sections[sectionNo]
<1>1. sectionNo \in 1 .. Len(sections) /\ Len(sections) \in Nat /\ sections \in Seq(SectionRecord)
  BY LenProperties DEF SectionsOK
<1>2. SectionOK(This) /\ This \in SectionRecord
  BY <1>1, ElementOfSeq DEF SectionsOK, InRegion, This
<1>3. IsRun(This)
  BY <1>2 DEF SectionOK
<1> QED BY <1>1, <1>2, <1>3, RunEnds DEF This

LEMMA JoinElementOK ==
    ASSUME DocumentOK, SectionsOK, TextOK, JoinElement
    PROVE  TextOK'
<1> DEFINE i == First(This) + next - 1
<1>1. /\ pc = "join" /\ sectionNo <= Len(sections) /\ next' = next + 1
      /\ UNCHANGED <<elements, sections, sectionNo, cursor>>
      /\ text' = IF next = 1 THEN Text(This.elements[1])
                 ELSE text \o <<Blank>> \o Text(This.elements[next])
      /\ pc' = IF next = Len(This.elements) THEN "split" ELSE "join"
  BY DEF JoinElement, sectionVars, This
<1>2. /\ Len(This.elements) \in Nat \ {0} /\ First(This) \in 1 .. Size /\ First(This) \in Int
      /\ End(This) = First(This) + Len(This.elements) - 1 /\ Size \in Nat /\ End(This) \in 1 .. Size
      /\ \A k \in 1 .. Len(This.elements) : This.elements[k] = First(This) + k - 1
  BY <1>1, ThisFacts, ElementFacts
<1>3. /\ next \in 1 .. Len(This.elements) /\ cursor = 0
      /\ next > 1 => Joined(text, First(This), First(This) + next - 2)
  BY <1>1 DEF TextOK, Chunking
<1>4. This' = This /\ First(This)' = First(This) /\ End(This)' = End(This)
  BY <1>1 DEF This, First, End
<1>5. /\ This.elements[next] = i /\ i \in 1 .. Size /\ i \in Int /\ First(This) \in Int
      /\ next \in Int /\ next >= 1 /\ next <= Len(This.elements) /\ Len(This.elements) \in Int
  <2>1. This.elements[next] = i /\ next \in Int
    BY <1>2, <1>3
  <2>2. next <= Len(This.elements) /\ next >= 1 /\ Len(This.elements) \in Int
    BY <1>2, <1>3
  <2>3. i \in 1 .. Size /\ i \in Int
    BY <1>2, <2>1, <2>2
  <2> QED BY <1>2, <2>1, <2>2, <2>3
<1>6. Joined(text', First(This), i)
  <2>1. CASE next = 1
    <3>1. i = First(This) /\ text' = Text(i)
      BY <1>1, <1>2, <1>5, <2>1
    <3> QED BY <1>5, <3>1, JoinedOne
  <2>2. CASE next # 1
    <3>1. First(This) < i /\ i - 1 = First(This) + next - 2 /\ next > 1
      BY <1>5, <2>2
    <3>2. Joined(text, First(This), i - 1)
      BY Zenon, <1>3, <3>1
    <3>3. text' = text \o <<Blank>> \o Text(i)
      BY Zenon, <1>1, <1>5, <2>2
    <3> HIDE DEF i
    <3>4. Joined(text \o <<Blank>> \o Text(i), First(This), i)
      BY Zenon, <1>2, <1>5, <3>1, <3>2, JoinedMore
    <3> QED BY Zenon, <3>3, <3>4
  <2> QED BY <2>1, <2>2
<1>7. Len(text') \in Nat \ {0}
  BY <1>6, LenProperties DEF Joined
<1>8. CASE next = Len(This.elements)
  <2>1. i = End(This) /\ pc' = "split"
    BY <1>1, <1>2, <1>8
  <2>2. Joined(text, First(This), End(This))'
    BY <1>1, <1>4, <1>6, <2>1, JoinedFrame
  <2>3. cursor' \in 0 .. Len(text') - 1
    BY <1>1, <1>3, <1>7
  <2> QED BY <2>1, <2>2, <2>3 DEF TextOK
<1>9. CASE next # Len(This.elements)
  <2>1. pc' = "join" /\ next' = next + 1 /\ next + 1 \in 1 .. Len(This.elements)
    <3>1. pc' = "join" /\ next' = next + 1
      BY <1>1, <1>9
    <3> QED BY <1>5, <1>9, <3>1
  <2>2. (First(This) + next - 2)' = i
    BY <1>4, <1>5, <2>1
  <2>3. Joined(text, First(This), First(This) + next - 2)'
    BY <1>1, <1>4, <1>6, <2>2, JoinedFrame
  <2> QED BY <1>1, <1>3, <1>4, <2>1, <2>3 DEF TextOK
<1> QED BY <1>8, <1>9

=============================================================================
