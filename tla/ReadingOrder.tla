---------------------------- MODULE ReadingOrder ----------------------------
(***************************************************************************)
(* api/app/pipeline/layout.py, and the half of geometry.py it is written   *)
(* with: in which order the words of a PDF page are read, and where the    *)
(* characters of the text that results sit on the page.  Coordinates are   *)
(* even integers, so that the middle of a gap is one too.  A word is whole *)
(* for the crop: boundaries are drawn where no word of their band is.      *)
(***************************************************************************)
EXTENDS Evidence, FiniteSets

CONSTANTS
    MinWords,           \* fewer words are no page to judge
    RowTolerance,       \* tops closer than this share a row
    MinSideShare        \* percent of a band's words on either side of a gutter

ASSUME ReadingOrderAssumption == RowTolerance \in Nat

\* A page: its edges, its words, whether it carries an image, and whether
\* pdfplumber's textmap says the same as the text it extracted.
Words == [x0 : Int, x1 : Int, top : Int, bottom : Int, text : Texts]

IsPage(page) ==
    /\ page.words \subseteq Words
    /\ IsFiniteSet(page.words)
    /\ \A edge \in {"left", "top", "right", "bottom"} : page.edges[edge] \in Int

NoGutter == [from |-> 0, to |-> 0]

Lowest(words) == Max({w.bottom : w \in words})
Highest(words) == Min({w.top : w \in words})
Leftmost(words) == Min({w.x0 : w \in words})
Rightmost(words) == Max({w.x1 : w \in words})

-----------------------------------------------------------------------------
\* Bands and gutters

\* _rows: a row is the words close to the top of its first one.  `first` is
\* that top, for each of the tops there are.
Rows(words) ==
    LET tops == Ordered({w.top : w \in words})
        first[k \in DOMAIN tops] ==
          IF k > 1 /\ tops[k] - first[k - 1] <= RowTolerance THEN first[k - 1] ELSE tops[k]
        firsts == Ordered({first[k] : k \in DOMAIN tops})
        row(top) == {w \in words : \E k \in DOMAIN tops : tops[k] = w.top /\ first[k] = top}
    IN  [r \in DOMAIN firsts |-> row(firsts[r])]

\* The k-th of some numbers by size, each counted as often as it occurs.
KthSmallest(numbers, k) ==
    Min({h \in {numbers[i] : i \in DOMAIN numbers} :
           Cardinality({i \in DOMAIN numbers : numbers[i] <= h}) >= k})

\* Twice the median height of a row.
TwiceMedian(rows) ==
    LET heights == [i \in 1 .. Len(rows) |-> Lowest(rows[i]) - Highest(rows[i])]
    IN  KthSmallest(heights, (Len(rows) + 1) \div 2)
          + KthSmallest(heights, (Len(rows) + 2) \div 2)

\* Rows, as groups that no gap of one and a half median heights divides.
Grouped(rows) ==
    LET median == TwiceMedian(rows)
        wide == {i \in 2 .. Len(rows) :
                   4 * (Highest(rows[i]) - Lowest(rows[i - 1])) >= 3 * median}
        group == Stretches(1 .. Len(rows), wide)
    IN  [g \in DOMAIN group |-> UNION {rows[i] : i \in group[g].from .. group[g].to}]

Groups(words) == Grouped(Rows(words))

\* The stretches of the horizontal axis between words that no word covers,
\* and of those the widest, the leftmost such.
Gaps(words) ==
    {gap \in [from : {w.x1 : w \in words}, to : {w.x0 : w \in words}] :
        gap.from < gap.to /\ \A w \in words : w.x1 <= gap.from \/ gap.to <= w.x0}

Width(gap) == gap.to - gap.from

Widest(gaps) ==
    CHOOSE gap \in gaps : \A other \in gaps :
        Width(other) < Width(gap) \/ (Width(other) = Width(gap) /\ gap.from <= other.from)

\* Wide enough for the page, words enough on either side, and neither side
\* narrow against the gap.
Divides(gap, words, pageWidth) ==
    /\ 100 * Width(gap) >= 4 * pageWidth
    /\ \A side \in {{w \in words : w.x1 <= gap.from}, {w \in words : w.x0 >= gap.to}} :
         /\ 100 * Cardinality(side) >= MinSideShare * Cardinality(words)
         /\ 2 * (Rightmost(side) - Leftmost(side)) >= Width(gap)

\* _gutter: the widest gap, if it divides the words.
Gutter(words, pageWidth) ==
    LET gaps == Gaps(words)
    IN  IF gaps # {} /\ Divides(Widest(gaps), words, pageWidth)
          THEN Widest(gaps) ELSE NoGutter

\* _bands: boundaries through the middle of each gap, out to the edges.
BandsOf(groups, page) ==
    LET middle(i) == (Lowest(groups[i]) + Highest(groups[i + 1])) \div 2
    IN  [i \in 1 .. Len(groups) |->
           [top    |-> IF i = 1 THEN page.edges.top ELSE middle(i - 1),
            bottom |-> IF i = Len(groups) THEN page.edges.bottom ELSE middle(i),
            gutter |-> Gutter(groups[i], page.edges.right - page.edges.left)]]

Bands(page) == BandsOf(Groups(page.words), page)

Meets(one, other) == one.from < other.to /\ other.from < one.to

Overlap(one, other) == [from |-> Max({one.from, other.from}), to |-> Min({one.to, other.to})]

\* _merge_columned_bands: columns go on across a gap if their gutters meet,
\* in what the gutters have in common so far.
Merged(bands) ==
    LET goesOn(gutter, i) == /\ gutter # NoGutter /\ bands[i].gutter # NoGutter
                             /\ Meets(gutter, bands[i].gutter)
        common[i \in 1 .. Len(bands)] ==
          IF i > 1 /\ goesOn(common[i - 1], i)
            THEN Overlap(common[i - 1], bands[i].gutter) ELSE bands[i].gutter
        one == Stretches(1 .. Len(bands), {i \in 2 .. Len(bands) : ~goesOn(common[i - 1], i)})
    IN  [r \in DOMAIN one |->
           [top    |-> bands[one[r].from].top,
            bottom |-> bands[one[r].to].bottom,
            gutter |-> common[one[r].to]]]

-----------------------------------------------------------------------------
\* The regions of a page, in the order they are read

Box(left, top, right, bottom) ==
    [left |-> left, top |-> top, right |-> right, bottom |-> bottom]

\* Mutant of BoxesOf: a region runs from the origin, by width and height.
BoxesByLength(band, edges) ==
    LET middle == (band.gutter.from + band.gutter.to) \div 2
    IN  IF band.gutter = NoGutter
          THEN <<Box(0, band.top, edges.right - edges.left, band.bottom)>>
          ELSE <<Box(0, band.top, middle, band.bottom),
                 Box(middle, band.top, edges.right - edges.left, band.bottom)>>

BoxesOf(band, edges) ==
    LET middle == (band.gutter.from + band.gutter.to) \div 2
    IN  IF band.gutter = NoGutter
          THEN <<Box(edges.left, band.top, edges.right, band.bottom)>>
          ELSE <<Box(edges.left, band.top, middle, band.bottom),
                 Box(middle, band.top, edges.right, band.bottom)>>

\* _within: the boxes clamped to the page, or none of them if one is then
\* empty.
Clamped(boxes, edges) ==
    LET clamped == [i \in 1 .. Len(boxes) |->
                      Box(Max({boxes[i].left, edges.left}), Max({boxes[i].top, edges.top}),
                          Min({boxes[i].right, edges.right}), Min({boxes[i].bottom, edges.bottom}))]
    IN  IF \E i \in 1 .. Len(boxes) : \/ clamped[i].right <= clamped[i].left
                                      \/ clamped[i].bottom <= clamped[i].top
          THEN <<>> ELSE clamped

Regions(bands, edges) ==
    FlattenSeq([i \in 1 .. Len(bands) |-> BoxesOf(bands[i], edges)])

\* detect_reading_order: <<>> leaves the page alone, as one without a column.
ReadingOrder(page) ==
    LET columned(bands) == \E i \in 1 .. Len(bands) : bands[i].gutter # NoGutter
        order(bands) == IF columned(bands) THEN Clamped(Regions(Merged(bands), page.edges), page.edges)
                                           ELSE <<>>
    IN  IF Cardinality(page.words) < MinWords THEN <<>> ELSE order(Bands(page))

\* page.crop keeps whatever overlaps the box.
Crop(page, box) ==
    {w \in page.words : /\ w.x0 < box.right /\ box.left < w.x1
                        /\ w.top < box.bottom /\ box.top < w.bottom}

-----------------------------------------------------------------------------
\* The text of a region, and the ink under it

NoInk == [word |-> {}, glyph |-> 0]

Separator(c) == <<[char |-> c, ink |-> NoInk]>>

Glyphs(word) ==
    [k \in 1 .. Len(word.text) |->
        [char |-> word.text[k], ink |-> [word |-> {word}, glyph |-> k]]]

\* pdfplumber's textmap of some words: rows down the page, words across a
\* row; white space carries no ink.
Across(row) ==
    LET lefts == Ordered({w.x0 : w \in row})
    IN  FlattenSeq([k \in DOMAIN lefts |-> SetToSeq({w \in row : w.x0 = lefts[k]})])

TextMap(words) ==
    LET rows == Rows(words)
        line(row) == LET across == Across(row)
                     IN  Joined([k \in DOMAIN across |-> Glyphs(across[k])], Separator(Space))
    IN  Joined([i \in DOMAIN rows |-> line(rows[i])], Separator(Newline))

CharsOf(map) == [k \in 1 .. Len(map) |-> map[k].char]

Run(start, boxes) == [start |-> start, boxes |-> boxes]

\* The line a box is on.
Line(ink) == [top    |-> (CHOOSE w \in ink.word : TRUE).top,
              bottom |-> (CHOOSE w \in ink.word : TRUE).bottom]

\* runs_for: consecutive characters on one line share a run.
RunsFor(map) ==
    LET inked == {k \in 1 .. Len(map) : map[k].ink # NoInk}
        turns == {k \in inked : k - 1 \in inked /\ Line(map[k - 1].ink) # Line(map[k].ink)}
        one   == Stretches(inked, turns)
    IN  [r \in DOMAIN one |->
           Run(one[r].from - 1,
               [k \in 1 .. (one[r].to - one[r].from + 1) |-> map[one[r].from - 1 + k].ink])]

Shift(runs, delta) ==
    [i \in 1 .. Len(runs) |-> [runs[i] EXCEPT !.start = @ + delta]]

NoGeometry == [known |-> FALSE, runs |-> <<>>]

\* extract_in_reading_order: the runs of each region that says anything are
\* moved to where its text begins in the text of the page.
InOrder(page, boxes) ==
    LET maps  == [b \in 1 .. Len(boxes) |-> TextMap(Crop(page, boxes[b]))]
        kept  == Picked(maps, {b \in 1 .. Len(boxes) : Trimmed(CharsOf(maps[b])) # <<>>})
        spans == SpansOf(kept, 1)
    IN  [map  |-> Joined(kept, Separator(Newline)),
         runs |-> FlattenSeq([i \in 1 .. Len(kept) |-> Shift(RunsFor(kept[i]), spans[i].start)])]

\* parse._text_of: the page's text, and its geometry if it can be trusted.
TextOf(page) ==
    LET whole(map)  == [map |-> map, runs |-> RunsFor(map)]
        read(boxes) == IF boxes = <<>> THEN whole(TextMap(page.words))
                                       ELSE InOrder(page, boxes)
        told(result) == [text     |-> CharsOf(result.map),
                         geometry |-> IF page.exact
                                        THEN [known |-> TRUE, runs |-> result.runs]
                                        ELSE NoGeometry]
    IN  told(read(ReadingOrder(page)))
=============================================================================
