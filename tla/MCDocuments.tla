---------------------------- MODULE MCDocuments ----------------------------
(* Documents for TLC: pages on a small grid with a bleed box, texts over    *)
(* five characters, and every way to set a few words on one page.           *)
EXTENDS Documents, FiniteSetsExt

Bleed == [left |-> 4, top |-> 2, right |-> 44, bottom |-> 42]

Word(x0, x1, top, text) ==
    [x0 |-> x0, x1 |-> x1, top |-> top, bottom |-> top + 4, text |-> text]

Page(words, image) ==
    [edges |-> Bleed, words |-> words, image |-> image, exact |-> TRUE]

Columned ==     \* a header, and two columns with a gap across both
    {Word(4, 44, 2, <<"b">>),
     Word(4, 16, 14, <<"b", "c">>), Word(30, 42, 14, <<"c">>),
     Word(4, 16, 28, <<"c">>),      Word(30, 36, 28, <<"b", "b">>),
     Word(40, 44, 28, <<"b">>)}

Broken == {Word(4, 16, 4, <<"b", Nul, "c">>), Word(20, 30, 4, <<"b", "c">>)}

Split == {Word(4, 16, 4, <<Base, Nul, Mark>>), Word(20, 30, 4, <<"b", "c">>)}

Accented == {Word(4, 16, 4, <<Base, Mark, "b">>), Word(4, 16, 10, <<"c", "b">>)}

Page1 == Page({Word(4, 16, 4, <<"b", "c">>), Word(20, 30, 4, <<"c", "b">>)}, FALSE)

Scan == Page({}, TRUE)

Noise == Page({Word(4, 8, 4, <<"b">>)}, TRUE)

Unnamed == Page({Word(4, 12, 4, <<"b", Nul>>)}, TRUE)   \* a glyph without a name

Untrusted == [Page1 EXCEPT !.exact = FALSE]

Kinds == {Page1, Page(Columned, FALSE), Page(Broken, FALSE), Page(Accented, FALSE),
          Page(Split, FALSE), Scan, Noise, Unnamed, Page({}, FALSE),
          Untrusted}

\* Every page of four words out of these, none over another.
Grid == {Word(x, x + 8, top, <<"b">>) : x \in {4, 14, 32}, top \in {2, 8, 24}}
        \cup {Word(4, 40, 14, <<"c">>)}

Clear(words) ==
    \A v, w \in words : v = w \/ v.x1 <= w.x0 \/ w.x1 <= v.x0
                              \/ v.bottom <= w.top \/ w.bottom <= v.top

Settings == {words \in kSubset(4, Grid) : Clear(words)}

MCUploads == {<<p, q>> : p, q \in Kinds} \cup {<<Page(words, FALSE)>> : words \in Settings}

MCCharacters == {"b", "c", Space, Newline, Nul, Base, Mark, Composed}

MCRecognised == {<<>>, <<"b">>, <<"b", Nul>>, <<"b", "c", Newline, "b">>,
                 <<"c", Base, Mark, Nul, "c">>}

Quotes == {<<"b", "c">>, <<"c", Newline, "b", "c">>, <<"b">>, <<"b", "b", "b">>,
           <<Composed, "b", Space, "c">>,
           <<"c", "b", Space, "b", "c">>,       \* across two pages
           <<"b", "c", "c", "b">>}              \* without the space between

MCAnswers == {<<q>> : q \in Quotes} \cup {<<<<"b", "c">>, q>> : q \in Quotes}
=============================================================================
