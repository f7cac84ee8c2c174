----------------------------- MODULE Documents -----------------------------
(***************************************************************************)
(* From the pages of an upload to a profile that quotes them:              *)
(* api/app/pipeline/parse.py (parse_pdf, _recover_pages_with_ocr,          *)
(* _assemble), the OCR engine it calls, and extract.py with verification.py*)
(* as resume_service.process_resume runs them.  Everything is measured in  *)
(* offsets into one text, which the reading order, OCR, normalisation, the *)
(* stripping of U+0000 and the joining of pages all have a part in making. *)
(***************************************************************************)
EXTENDS ReadingOrder

CONSTANTS
    Uploads,            \* the documents: sequences of pages
    Recognised,         \* what the OCR engine may read on a page
    Answers,            \* what the model may answer: sequences of quotes
    MinPageChars,       \* fewer solid characters are no text layer
    OcrPages,           \* the engine's max_pages
    MaxAsked,           \* extraction_max_attempts
    MaxRuns             \* bound of the model on runs of the same upload

\* What is read, recognised and answered is text.
ASSUME DocumentsAssumption ==
    /\ \A upload \in Uploads :
         /\ Len(upload) \in Nat
         /\ \A i \in 1 .. Len(upload) : IsPage(upload[i])
    /\ Recognised \subseteq Texts
    /\ Answers \subseteq Seq(Texts)
    /\ MinPageChars \in Nat
    /\ OcrPages \in Nat
    /\ MaxAsked \in Nat \ {0}
    /\ MaxRuns \in Nat

VARIABLES
    pages,      \* the upload
    ocr,        \* whether an engine is configured for this run
    stage,      \* where process_resume is
    raw,        \* raw_pages
    ink,        \* raw_geometry
    turn,       \* the page OCR looks at next
    budget,     \* pages OCR may still be spent on
    fromOcr,    \* pages_from_ocr
    stored,     \* the columns of the row that a parse fills, or NoDocument
    calls,      \* calls of the model in this run
    profile,    \* the best attempt, or NoProfile
    runs        \* runs so far

docVars == <<pages, ocr, stage, raw, ink, turn, budget, fromOcr, stored, calls,
             profile, runs>>

parseVars == <<raw, ink, turn, budget, fromOcr>>

PageSeparator == <<Newline, Newline>>

NoDocument == [text |-> <<>>, spans |-> <<>>, withoutText |-> {}, fromOcr |-> {},
               geometry |-> <<>>]

NoProfile == [known |-> FALSE, kept |-> <<>>, dropped |-> <<>>]

Stages == {"upload", "ocr", "assemble", "asking", "extracted", "failed", "broken"}

\* _needs_ocr.
NeedsOcr(text) == Len(Trimmed(text)) < MinPageChars

DocTypeOK ==
    /\ pages \in Uploads
    /\ ocr \in BOOLEAN
    /\ stage \in Stages
    /\ raw \in Seq(Texts)
    /\ DOMAIN ink = 1 .. Len(raw)
    /\ turn \in 1 .. (Len(pages) + 1)
    /\ budget \in 0 .. OcrPages
    /\ fromOcr \subseteq {i \in 1 .. Len(pages) : pages[i].image}
    /\ stored.text \in Texts
    /\ profile.known \in BOOLEAN
    /\ calls \in 0 .. MaxAsked
    /\ runs \in 0 .. MaxRuns

DocInit ==
    /\ pages \in Uploads
    /\ ocr = FALSE
    /\ stage = "upload"
    /\ raw = <<>>
    /\ ink = <<>>
    /\ turn = 1
    /\ budget = 0
    /\ fromOcr = {}
    /\ stored = NoDocument
    /\ calls = 0
    /\ profile = NoProfile
    /\ runs = 0

-----------------------------------------------------------------------------
\* parse_pdf.  A .docx is one page without an image and without geometry.

\* A run of process_resume begins, the first or a retry, under whatever OCR
\* configuration the worker has by then.  Nothing of an earlier run is used.
ReadPages ==
    /\ stage \in {"upload", "broken"}
    /\ runs < MaxRuns
    /\ runs' = runs + 1
    /\ ocr' \in BOOLEAN
    /\ \E read \in {[i \in 1 .. Len(pages) |-> TextOf(pages[i])]} :
         /\ raw' = [i \in 1 .. Len(pages) |-> read[i].text]
         /\ ink' = [i \in 1 .. Len(pages) |-> read[i].geometry]
    /\ turn' = 1
    /\ budget' = OcrPages
    /\ fromOcr' = {}
    /\ stage' = IF ocr' THEN "ocr" ELSE "assemble"
    /\ calls' = 0
    /\ profile' = NoProfile
    /\ UNCHANGED <<pages, stored>>

NextPage == turn' = turn + 1 /\ UNCHANGED <<pages, ocr, stage, stored, calls, profile, runs>>

WorthOcr(i) == NeedsOcr(raw[i]) /\ pages[i].image

\* A page with a text layer, one without an image, or one past the budget.
PassOver ==
    /\ stage = "ocr"
    /\ turn <= Len(pages)
    /\ ~WorthOcr(turn) \/ budget = 0
    /\ NextPage
    /\ UNCHANGED <<raw, ink, budget, fromOcr>>

\* Mutant of Accept: whatever was recognised replaces the page.
AcceptNoise(text) ==
    /\ raw' = [raw EXCEPT ![turn] = text]
    /\ ink' = [ink EXCEPT ![turn] = NoGeometry]
    /\ fromOcr' = fromOcr \cup {turn}

\* What was recognised replaces the page if it clears the bar a text layer
\* has to clear; the boxes of what it replaces go with it.
Accept(text) ==
    IF NeedsOcr(text) THEN UNCHANGED <<raw, ink, fromOcr>>
    ELSE /\ raw' = [raw EXCEPT ![turn] = text]
         /\ ink' = [ink EXCEPT ![turn] = NoGeometry]
         /\ fromOcr' = fromOcr \cup {turn}

Recognise ==
    /\ stage = "ocr"
    /\ turn <= Len(pages)
    /\ WorthOcr(turn)
    /\ budget > 0
    /\ \E text \in Recognised : Accept(text)
    /\ budget' = budget - 1
    /\ NextPage

\* OCRError on one page: the page stays as it is, the budget does not.
OcrFails ==
    /\ stage = "ocr"
    /\ turn <= Len(pages)
    /\ WorthOcr(turn)
    /\ budget > 0
    /\ budget' = budget - 1
    /\ NextPage
    /\ UNCHANGED <<raw, ink, fromOcr>>

\* OCRUnavailableError ends the run, and nothing was written to the row.
OcrUnavailable ==
    /\ stage = "ocr"
    /\ turn <= Len(pages)
    /\ WorthOcr(turn)
    /\ budget > 0
    /\ stage' = "broken"
    /\ UNCHANGED <<pages, ocr, parseVars, stored, calls, profile, runs>>

OcrDone ==
    /\ stage = "ocr"
    /\ turn > Len(pages)
    /\ stage' = "assemble"
    /\ UNCHANGED <<pages, ocr, parseVars, stored, calls, profile, runs>>

-----------------------------------------------------------------------------
\* _assemble

\* NFC first, then the U+0000s: what is measured is what is stored.
PageText(text) == WithoutNul(NFC(text))

\* Mutant of Spans: the separator is not counted.
SpansWithoutSeparators(texts) == SpansOf(texts, 0)

Spans(texts) == SpansOf(texts, Len(PageSeparator))

JoinedPages(texts) == Joined(texts, PageSeparator)

\* Mutant of Remap: a run keeps its boxes, and its first character.
RemapWhole(geometry, text) ==
    LET position(old) == Cardinality({i \in 1 .. old : text[i] # Nul})
    IN  [i \in 1 .. Len(geometry) |->
            [geometry[i] EXCEPT !.start = position(@)]]

\* geometry.remap: a removed character ends the run it was in.
Remap(geometry, text) ==
    LET position(old) == Cardinality({i \in 1 .. old : text[i] # Nul})
        pieces(run) ==
          LET left == {k \in 1 .. Len(run.boxes) : text[run.start + k] # Nul}
              one  == Stretches(left, {})
          IN  [p \in DOMAIN one |->
                 Run(position(run.start + one[p].from - 1),
                     SubSeq(run.boxes, one[p].from, one[p].to))]
    IN  FlattenSeq([i \in 1 .. Len(geometry) |-> pieces(geometry[i])])

\* _rebase_ink: refused wherever NFC changed anything.
Rebased(geometry, text, start) ==
    IF ~geometry.known \/ NFC(text) # text THEN NoGeometry
    ELSE [known |-> TRUE, runs |-> Shift(Remap(geometry.runs, text), start)]

Document(texts, spans) ==
    [text        |-> JoinedPages(texts),
     spans       |-> spans,
     withoutText |-> {i \in 1 .. Len(raw) : NeedsOcr(texts[i])},
     fromOcr     |-> fromOcr,
     geometry    |-> [i \in 1 .. Len(raw) |-> Rebased(ink[i], raw[i], spans[i].start)]]

PageTexts == [i \in 1 .. Len(raw) |-> PageText(raw[i])]

Assembled == Document(PageTexts, Spans(PageTexts))

\* NoTextLayerError or EmptyDocumentError: a ParseError marks the row failed
\* and leaves its other columns alone.
Blank == \A i \in 1 .. Len(raw) : NeedsOcr(PageText(raw[i]))

Reject ==
    /\ stage = "assemble"
    /\ raw # <<>> /\ Blank
    /\ stage' = "failed"
    /\ UNCHANGED <<pages, ocr, parseVars, stored, calls, profile, runs>>

\* CorruptDocumentError: any other exception before the pages are assembled,
\* from reading one or from rendering one for the engine.
Corrupt ==
    /\ stage = "ocr" \/ (stage = "assemble" /\ ~ocr)
    /\ stage' = "failed"
    /\ UNCHANGED <<pages, ocr, parseVars, stored, calls, profile, runs>>

Store ==
    /\ stage = "assemble"
    /\ ~(raw # <<>> /\ Blank)
    /\ stored' = Assembled
    /\ stage' = "asking"
    /\ UNCHANGED <<pages, ocr, parseVars, calls, profile, runs>>

-----------------------------------------------------------------------------
\* extract_profile

\* page_for_offset: the last page that starts at or before the offset.
PageFor(spans, offset) ==
    LET before == {i \in 1 .. Len(spans) : spans[i].start <= offset}
    IN  IF before = {} THEN 1 ELSE CHOOSE i \in before : \A j \in before : j <= i

\* _Verifier.verify: what was located is kept, with its page; the rest is
\* dropped and counted.  An unlocated seniority is a dropped claim too.
Verified(document, quotes) ==
    LET cited(span) == [span |-> span, page |-> PageFor(document.spans, span.start)]
        told(results) ==
          LET located == {k \in DOMAIN results : results[k].found} IN
          [known   |-> TRUE,
           kept    |-> LET found == Picked(results, located)
                       IN  [k \in 1 .. Len(found) |-> cited(found[k])],
           dropped |-> Picked(results, DOMAIN results \ located)]
    IN  told([k \in 1 .. Len(quotes) |-> Resolve(document.text, quotes[k])])

Best(best, candidate) ==
    IF ~best.known \/ Len(candidate.dropped) < Len(best.dropped) THEN candidate ELSE best

\* A clean answer, or the last one, ends the loop.
Enough(candidate, n) == candidate.dropped = <<>> \/ n = MaxAsked

\* One call of the model, and what verification makes of its answer.
Ask ==
    /\ stage = "asking"
    /\ \E quotes \in Answers : \E candidate \in {Verified(stored, quotes)} :
         /\ calls' = calls + 1
         /\ profile' = Best(profile, candidate)
         /\ stage' = IF Enough(candidate, calls') THEN "extracted" ELSE "asking"
    /\ UNCHANGED <<pages, ocr, parseVars, stored, runs>>

\* LLMError: the attempts are lost, the parse is kept.
AskFails ==
    /\ stage = "asking"
    /\ stage' = "broken"
    /\ profile' = NoProfile
    /\ calls' = 0
    /\ UNCHANGED <<pages, ocr, parseVars, stored, runs>>

-----------------------------------------------------------------------------
DocNext ==
    \/ ReadPages
    \/ PassOver
    \/ Recognise
    \/ OcrFails
    \/ OcrUnavailable
    \/ OcrDone
    \/ Reject
    \/ Corrupt
    \/ Store
    \/ Ask
    \/ AskFails

DocSpec == DocInit /\ [][DocNext]_docVars

-----------------------------------------------------------------------------
\* Properties

\* The text is in the normal form its offsets are promised in: the
\* resolver, which normalises for itself, then searches that very text.
TextIsNormal == stored.text = NFC(stored.text)

Evidenced == {profile.kept[k] : k \in 1 .. Len(profile.kept)}

\* Every claim of a profile quotes the stored text at the offsets it gives,
\* in the text's own characters, whichever of OCR, columns, normalisation,
\* removed characters and page joins that text went through.
EvidenceIsVerbatim ==
    TextIsNormal => \A claim \in Evidenced : Cites(stored.text, claim.span)

\* A claim called a fabrication is one: no part of the document says it,
\* white space apart.
NothingFoundIsMissed ==
    TextIsNormal =>
        \A k \in 1 .. Len(profile.dropped) :
            LET claim == profile.dropped[k]
            IN  /\ claim.reason = "not_found"
                /\ Len(WithoutSpace(NFC(claim.asked))) >= MinStrippedChars
                => IsAbsent(stored.text, claim.asked)

\* The pages are where the row says they are, and a claim names the one on
\* which its quote begins.
CitedOnItsPage ==
    /\ stage \in {"asking", "extracted"} =>
         \A i \in 1 .. Len(pages) :
            Slice(stored.text, stored.spans[i].start, stored.spans[i].end)
              = PageText(raw[i])
    /\ TextIsNormal =>
         \A claim \in Evidenced :
            /\ claim.page \in 1 .. Len(stored.spans)
            /\ stored.spans[claim.page].start <= claim.span.start
            /\ claim.span.start < stored.spans[claim.page].end

\* Every box that is stored is the box of the character it is stored under,
\* on a page whose text is the text layer's.
BoxesLieUnderTheirText ==
    \A i \in 1 .. Len(stored.geometry) :
        \A r \in 1 .. Len(stored.geometry[i].runs) :
            LET run == stored.geometry[i].runs[r]
            IN  \A k \in 1 .. Len(run.boxes) :
                  \E word \in run.boxes[k].word :
                    /\ word.text[run.boxes[k].glyph] = stored.text[run.start + k]
                    /\ word \in pages[i].words
                    /\ i \notin stored.fromOcr

\* What the row says of its pages is true of the text it stores, through the
\* joining, the normalising and whatever OCR did before it stopped: a page is
\* listed as without text exactly if what is stored of it misses the bar; what
\* is stored of a rescued page is something the engine read that clears the
\* bar, on an image whose own layer does not; and any other page is as it was.
WorkListIsHonest ==
    stage \in {"asking", "extracted"} =>
        \A i \in 1 .. Len(pages) :
            LET span == stored.spans[i]
                text == Slice(stored.text, span.start, span.end)
                own  == TextOf(pages[i]).text
            IN  /\ i \in stored.withoutText <=> NeedsOcr(text)
                /\ IF i \in stored.fromOcr
                     THEN /\ pages[i].image /\ NeedsOcr(own)
                          /\ \E read \in Recognised : ~NeedsOcr(read) /\ text = PageText(read)
                     ELSE text = PageText(own)

\* "One rule, used both to pick the pages OCR should run on and to decide what
\* `pages_without_text` reports afterwards - so the two can never disagree":
\* with an engine, what is reported is what was OCR's to read and not rescued.
OneRuleForBoth ==
    ocr /\ stage \in {"asking", "extracted"} =>
        \A i \in 1 .. Len(pages) :
            i \in stored.withoutText
              <=> NeedsOcr(TextOf(pages[i]).text) /\ i \notin stored.fromOcr

\* Rows that do not reach into each other: the pages reading order is for.
RowsApart(page) ==
    \A v, w \in page.words :
        v.top < w.top => (w.top - v.top <= RowTolerance \/ v.bottom <= w.top)

\* Words that take up room, and on the page.
OnPage(page) ==
    \A w \in page.words :
        /\ page.edges.left <= w.x0 /\ w.x0 < w.x1 /\ w.x1 <= page.edges.right
        /\ page.edges.top <= w.top /\ w.top < w.bottom /\ w.bottom <= page.edges.bottom

ReadOnce(page, boxes) ==
    boxes # <<>> => \A w \in page.words :
        Cardinality({b \in 1 .. Len(boxes) : w \in Crop(page, boxes[b])}) = 1

\* However a page is cut into columns, each of its words is read, and read
\* once, wherever the page's edges lie.
EachWordReadOnce ==
    stage = "assemble" => \A i \in 1 .. Len(pages) :
        RowsApart(pages[i]) /\ OnPage(pages[i]) => ReadOnce(pages[i], ReadingOrder(pages[i]))
=============================================================================
