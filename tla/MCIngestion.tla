----------------------------- MODULE MCIngestion -----------------------------
(***************************************************************************)
(* Model-checking instance of Ingestion: the workers are interchangeable.  *)
(* DocumentText is evaluated over small texts at start-up.                 *)
(***************************************************************************)
EXTENDS Ingestion, TLC, FiniteSets, Integers, Sequences, SequencesExt

Symmetry == Permutations(Workers)

(***************************************************************************)
(* What documents, chunks and anchors owe each other, over every text of a *)
(* few symbols.                                                            *)
(***************************************************************************)
Doc == INSTANCE DocumentText WITH
           ChunkSize <- 3, Overlap <- 1, LowText <- 2, OcrPages <- 1, MaxRows <- 2

\* Texts are what a parser hands over: stripped.
Texts(symbols, n) == {t \in UNION {[1..m -> symbols] : m \in 0..n} : Doc!Strip(t) = t}
Words(t) == SelectSeq(t, LAMBDA c : c \notin {"P", " ", "S"})
Marks(t) == Cardinality({i \in 1..Len(t) : t[i] = "S"})
PlainTexts == Texts({"P", "S", " ", "a", "b"}, 6)
HeadedTexts == Texts({"#", " ", "a", "b"}, 6)

\* Splitting loses nothing (RecursiveTextSplitter.split_text): the words come
\* back in their order, no sentence mark is lost, and no chunk is longer than
\* its size and the overlap, give or take the mark a cut adds.
ASSUME SplitKeeps ==
    \A t \in PlainTexts :
        LET pieces == Doc!SplitText(t, Doc!Separators)
            whole == FlattenSeq(pieces)
        IN  /\ Words(whole) = Words(t) /\ Marks(whole) >= Marks(t)
            /\ \A i \in 1..Len(pieces) : Len(pieces[i]) <= 3 + 1
            /\ \A i \in 1..Len(Doc!Split(t)) : Len(Doc!Split(t)[i]) <= 3 + 1 + 1
            /\ Marks(t) = 0 => Marks(whole) = 0

\* An overlap is taken from the chunk before as it was cut: it never grows
\* from chunk to chunk, and sections share nothing.
ASSUME OverlapIsBounded ==
    \A t \in HeadedTexts :
        LET pieces == Doc!Split(t)
            heads == {i \in 1..Len(t) : t[i] = "#"}
        IN  Cardinality(heads) >= 2 =>
                \A i \in 1..Len(pieces) :
                    Cardinality({j \in 1..Len(pieces[i]) : pieces[i][j] = "#"}) <= 1

\* A chunk is anchored where its own symbols stand, up to white space; only a
\* chunk with a sentence mark the text does not have is not found
\* (chunk_meta.annotate).
ASSUME AnchorsPoint ==
    \A t \in PlainTexts :
        LET pieces == Doc!Split(t)
            spans == Doc!Offsets(pieces, t)
            Said(i) == SubSeq(t, spans[i][1], spans[i][2] - 1)
            Dark(s) == SelectSeq(s, LAMBDA c : c \notin {"P", " "})
        IN  \A i \in 1..Len(pieces) :
                \/ spans[i] # Doc!Nowhere /\ Dark(Said(i)) = Dark(pieces[i])
                \/ spans[i] = Doc!Nowhere /\ Marks(FlattenSeq(Doc!SplitText(t, Doc!Separators))) > Marks(t)

\* A text without sentence marks anchors every chunk, under the heading it
\* stands under, and in reading order unless words repeat: an overlap and the
\* chunk it is glued to are not found as they stand, and white space aside
\* they may be found earlier.
ASSUME AnchorsInOrder ==
    \A t \in HeadedTexts :
        LET pieces == Doc!Split(t)
            made == Doc!Annotate(pieces, <<t>>, t)
        IN  \A i \in 1..Len(pieces) :
                /\ made[i].span # Doc!Nowhere
                /\ IsInjective(Words(t)) => \A j \in 1..i : made[j].span[1] <= made[i].span[1]
                /\ made[i].page = 1
                /\ (made[i].heading = 0) <=> \A j \in 1..made[i].span[1] : t[j] # "#"

\* Pages of a PDF: what is read and what OCR would read of each.
Readings == {<<>>, <<"a">>, <<"a", "b">>}
Scans == {<<" ">>, <<"c">>, <<" ", "c">>}
Pdfs == UNION {[1..n -> [text : Readings, ocr : Scans]] : n \in 1..3}

\* A line of a PDF is where its page's text stands in the document, OCR or
\* not, and only pages that were read by OCR are without lines.  Where tables
\* follow, the text is stripped as a whole, so it must not begin with the
\* white space an OCR engine may leave.
ASSUME LinesStandInText ==
    \A pages \in Pdfs, ocr \in BOOLEAN, tables \in {<<>>, <<<<"a", "S">>>>} :
        LET texts == Doc!PageTexts(pages, ocr)
            text == Doc!PdfText(texts, tables)
            written == Doc!Written(texts)
            indented == tables # <<>> /\ written # <<>> /\ written[1][1] = " "
        IN  /\ \A line \in Doc!PdfLines(pages, ocr) :
                   SubSeq(text, line.from, line.from + Len(line.text) - 1) = line.text \/ indented
            /\ Cardinality(Doc!Replaced(pages, ocr)) <= 1
            /\ \A n \in 1..Len(pages) : Len(pages[n].text) >= 2 => texts[n] = pages[n].text

\* A shape of a slide is given its first line as long as every block before it
\* is one line long; a block of two lines (a table) misplaces the next ones.
ASSUME ShapesCounted ==
    \A sizes \in UNION {[1..n -> 1..2] : n \in 1..3} :
        LET blocks == [b \in 1..Len(sizes) |-> [l \in 1..sizes[b] |-> <<b, l>>]]
        IN  \A b \in 1..Len(blocks) :
                (Doc!ShapeLine(blocks, b) = <<<<b, 1>>>>) <=> \A c \in 1..(b - 1) : sizes[c] = 1

\* Spans of the lines, rows and shapes of a document of six symbols.
Layouts == {<<>>, << <<1, 3>> >>, << <<1, 3>>, <<4, 7>> >>, << <<2, 4>>, <<4, 6>> >>}

\* Every place a span is located at overlaps it, nothing that overlaps it on
\* that place is left out, and a place is named whenever the span lies within
\* the document; the passage shown as text covers the span (locator.locate).
ASSUME LocatedWhole ==
    \A lines, rows \in Layouts, page \in 0..2, a, b \in 1..8, context \in 0..1 :
        LET d == [len |-> 6, pages |-> <<lines>>, sheets |-> <<rows>>, slides |-> <<lines, rows>>]
            at == Doc!Locate(d, page, a, b, context)
            Of == IF at.kind = "page" THEN d.pages[at.n]
                  ELSE IF at.kind = "sheet" THEN d.sheets[at.n] ELSE d.slides[at.n]
        IN  /\ (at.kind = "none") <=> ~(a < b /\ b <= 7)
            /\ at.kind = "text" => at.n <= a /\ \A e \in at.hits : b <= e /\ e <= 7
            /\ at.kind \in {"page", "sheet", "slide"} =>
                   /\ at.hits # {}
                   /\ \A i \in 1..Len(Of) : i \in at.hits <=> \E x \in a..(b - 1) : Of[i][1] <= x /\ x < Of[i][2]

\* Whatever the office formats need, every extension has one parser, and OCR
\* falls back to the engine there is.
ASSUME ParsersAnswer ==
    /\ \A ext \in DOMAIN Doc!Parser : /\ Doc!ParserOf(ext, TRUE) = Doc!Parser[ext]
                                      /\ (Doc!ParserOf(ext, FALSE) = "needs_office") <=> ext \in Doc!Converted
    /\ Doc!ParserOf("exe", TRUE) = "unsupported"
    /\ \A wish \in {"tesseract", "rapidocr"}, have \in SUBSET {"tesseract", "rapidocr"} :
           Doc!OcrEngine(wish, have) \in have \cup {"none"}

\* A preview is bounded, and never says that it was cut.
ASSUME PreviewsBounded ==
    \A n \in 0..5 : LET shown == Doc!Preview([i \in 1..n |-> <<"a">>])
                    IN  Len(shown.rows) <= 3 /\ ~shown.notice
=============================================================================
