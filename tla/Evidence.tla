------------------------------ MODULE Evidence ------------------------------
(***************************************************************************)
(* api/app/pipeline/evidence.py: where in a document a quote is.  The      *)
(* model supplies words and never offsets; what is not found is dropped    *)
(* and counted.  A text is a sequence of characters, an offset is zero     *)
(* based and a span excludes its end, as they are stored.  Of Unicode the  *)
(* module keeps what moves offsets: white space, U+0000, and one letter    *)
(* that composes with a combining mark into a single character.            *)
(***************************************************************************)
EXTENDS Integers, FiniteSets, SequencesExt

CONSTANTS
    Characters,         \* what texts are made of
    MinQuoteChars,      \* a shorter quote is evidence of nothing
    MinStrippedChars,   \* what the loosest tier asks for
    CountLimit          \* occurrences are counted up to here

-----------------------------------------------------------------------------
\* Characters and texts

Space == " "
Newline == "\n"
Nul == "NUL"
Base == "a"
Mark == "^"
Composed == "A"

ASSUME EvidenceAssumption ==
    /\ MinQuoteChars \in Nat \ {0}
    /\ MinStrippedChars \in Nat \ {0}
    /\ CountLimit \in Nat \ {0}
    /\ {Space, Newline, Nul, Base, Mark, Composed} \subseteq Characters

IsSpace(c) == c \in {Space, Newline}

Texts == Seq(Characters)

Slice(text, start, end) == SubSeq(text, start + 1, end)

\* str.join, and where each of the texts then is, with `gap` characters
\* between each two.
Joined(texts, separator) ==
    LET joined[i \in 1 .. Len(texts)] ==
          IF i = 1 THEN texts[1] ELSE joined[i - 1] \o separator \o texts[i]
    IN  IF texts = <<>> THEN <<>> ELSE joined[Len(texts)]

SpansOf(texts, gap) ==
    LET start[i \in 1 .. Len(texts)] ==
          IF i = 1 THEN 0 ELSE start[i - 1] + Len(texts[i - 1]) + gap
    IN  [i \in 1 .. Len(texts) |-> [start |-> start[i], end |-> start[i] + Len(texts[i])]]

\* Some numbers in order, and what stands there.
Ordered(at) ==
    [k \in 1 .. Cardinality(at) |->
        CHOOSE i \in at : Cardinality({j \in at : j <= i}) = k]

Picked(seq, at) ==
    LET order == Ordered(at) IN [k \in 1 .. Cardinality(at) |-> seq[order[k]]]

\* unicodedata.normalize("NFC", text): a base and the mark after it are one
\* character.
NFC(text) ==
    LET marks == {i \in 2 .. Len(text) : text[i] = Mark /\ text[i - 1] = Base}
    IN  Picked([i \in 1 .. Len(text) |-> IF i + 1 \in marks THEN Composed ELSE text[i]],
               (1 .. Len(text)) \ marks)

WithoutNul(text) == Picked(text, {i \in 1 .. Len(text) : text[i] # Nul})

Solid(text) == {i \in 1 .. Len(text) : ~IsSpace(text[i])}

WithoutSpace(text) == Picked(text, Solid(text))

\* str.strip.
Trimmed(text) ==
    LET solid == Solid(text)
    IN  IF solid = {} THEN <<>> ELSE SubSeq(text, Min(solid), Max(solid))

\* The longest stretches of consecutive numbers in a set that a number of
\* `breaks` does not begin anew, in order: what a loop makes that either
\* extends the last of its groups or opens another.
Stretches(at, breaks) ==
    LET starts   == {i \in at : i - 1 \notin at \/ i \in breaks}
        reach(i) == Max({j \in at : i <= j /\ (i + 1) .. j \subseteq at \ starts})
        order    == Ordered(starts)
    IN  [r \in 1 .. Cardinality(starts) |-> [from |-> order[r], to |-> reach(order[r])]]

-----------------------------------------------------------------------------
\* A transformed copy of the source, and where each character came from

Indexed(text, at) ==
    LET kept == Picked(text, at)
        order == Ordered(at)
    IN  [text    |-> [k \in 1 .. Cardinality(at) |-> IF IsSpace(kept[k]) THEN Space ELSE kept[k]],
         offsets |-> [k \in 1 .. Cardinality(at) |-> order[k] - 1]]

\* _collapse_whitespace: the first space of a run stands for the run, and a
\* run at either end for nothing.
Collapsed(text) ==
    LET stays(i) == \/ ~IsSpace(text[i])
                    \/ /\ i > 1 /\ ~IsSpace(text[i - 1])
                       /\ \E j \in i .. Len(text) : ~IsSpace(text[j])
    IN  Indexed(text, {i \in 1 .. Len(text) : stays(i)})

\* _strip_whitespace.
Stripped(text) == Indexed(text, Solid(text))

\* str.find: the first place at or after `from`, or -1.
Find(text, needle, from) ==
    LET places == {k \in from .. (Len(text) - Len(needle)) :
                     Slice(text, k, k + Len(needle)) = needle}
    IN  IF places = {} THEN -1 ELSE CHOOSE k \in places : \A other \in places : k <= other

\* _count_occurrences: non-overlapping, from the left, up to the limit.
Occurrences(text, needle) ==
    LET count[left \in 0 .. CountLimit, from \in 0 .. Len(text)] ==
          LET found == Find(text, needle, from)
          IN  IF left = 0 \/ found = -1 THEN 0
              ELSE 1 + count[left - 1, found + Len(needle)]
    IN  count[CountLimit, 0]

-----------------------------------------------------------------------------
\* EvidenceResolver.resolve

Rejected(quote, reason) == [found |-> FALSE, asked |-> quote, reason |-> reason]

\* _span: the source's own text, not the model's rendering of it.
Span(source, asked, start, end, kind, occurrences) ==
    [found |-> TRUE, asked |-> asked, quote |-> Slice(source, start, end),
     start |-> start, end |-> end, kind |-> kind, occurrences |-> occurrences]

\* Mutant of Via: the end is the origin of the last character, not past it.
ViaShort(source, asked, indexed, needle, kind) ==
    LET at == Find(indexed.text, needle, 0)
    IN  Span(source, asked, indexed.offsets[at + 1],
             indexed.offsets[at + Len(needle)], kind,
             Occurrences(indexed.text, needle))

\* _resolve_via, where the needle was found: both ends through the offsets.
Via(source, asked, indexed, needle, kind) ==
    LET at == Find(indexed.text, needle, 0)
    IN  Span(source, asked, indexed.offsets[at + 1],
             indexed.offsets[at + Len(needle)] + 1, kind,
             Occurrences(indexed.text, needle))

\* Mutant of InTiers: gives up after the exact tier and the collapsed one.
InTwoTiers(source, asked, quote) ==
    IF Find(source, quote, 0) # -1
      THEN Span(source, asked, Find(source, quote, 0),
                Find(source, quote, 0) + Len(quote), "exact",
                Occurrences(source, quote))
    ELSE IF Find(Collapsed(source).text, Collapsed(quote).text, 0) # -1
      THEN Via(source, asked, Collapsed(source), Collapsed(quote).text, "collapsed")
    ELSE Rejected(asked, "not_found")

\* The tiers: verbatim, then the same words with other white space between
\* them, then with none.
InTiers(source, asked, quote) ==
    LET exact  == Find(source, quote, 0)
        words  == Collapsed(quote).text
        glyphs == Stripped(quote).text
    IN  IF exact # -1
          THEN Span(source, asked, exact, exact + Len(quote), "exact",
                    Occurrences(source, quote))
        ELSE IF Find(Collapsed(source).text, words, 0) # -1
          THEN Via(source, asked, Collapsed(source), words, "collapsed")
        ELSE IF /\ Len(glyphs) >= MinStrippedChars
                /\ Find(Stripped(source).text, glyphs, 0) # -1
          THEN Via(source, asked, Stripped(source), glyphs, "stripped")
        ELSE Rejected(asked, "not_found")

\* Whether a quote says anything at all comes before looking for it.
Searched(source, asked, quote) ==
    IF quote = <<>> THEN Rejected(asked, "empty")
    ELSE IF Len(quote) < MinQuoteChars THEN Rejected(asked, "too_short")
    ELSE InTiers(source, asked, quote)

\* resolve.  The resolver normalises the document for itself, and what it
\* returns are offsets into that.
Resolve(document, asked) == Searched(NFC(document), asked, Trimmed(NFC(asked)))

-----------------------------------------------------------------------------
\* What a citation has to be, whatever found it

\* It quotes the document where it says it does, and what it quotes is what
\* the model said, but for white space.
Cites(document, span) ==
    /\ span.start < span.end
    /\ span.quote = Slice(document, span.start, span.end)
    /\ WithoutSpace(span.quote) = WithoutSpace(NFC(span.asked))

\* No part of the document is what the model said, white space apart.
IsAbsent(document, asked) ==
    \A i \in 0 .. Len(document) : \A j \in i .. Len(document) :
        WithoutSpace(Slice(document, i, j)) # WithoutSpace(NFC(asked))
=============================================================================
