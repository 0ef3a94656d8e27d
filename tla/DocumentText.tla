----------------------------- MODULE DocumentText -----------------------------
(***************************************************************************)
(* From a file to chunks and back: what the parsers make of a document,    *)
(* how the splitter cuts its text, and how a chunk is found again in the   *)
(* text and on the page.                                                   *)
(*                                                                         *)
(* A text is a sequence of symbols, one token each.  "P" is a paragraph    *)
(* break, "S" a sentence mark, "#" the start of a heading line; "P" and    *)
(* " " are white space.  A span is <<from, to>>, the end excluded.         *)
(***************************************************************************)
EXTENDS Integers, Sequences, FiniteSets, SequencesExt

CONSTANTS
    ChunkSize,  \* RAG_CHUNK_SIZE
    Overlap,    \* RAG_CHUNK_OVERLAP
    LowText,    \* the 20 characters under which a page counts as scanned
    OcrPages,   \* OCR_SCANNED_PDF_MAX_PAGES
    MaxRows     \* rows of a table the preview shows

White == {"P", " "}
Nowhere == <<0, 0>>
Low(a, b) == IF a <= b THEN a ELSE b
High(a, b) == IF a <= b THEN b ELSE a
Dark(t) == {i \in 1..Len(t) : t[i] \notin White}
Blank(t) == Dark(t) = {}
Strip(t) == IF Blank(t) THEN <<>>
            ELSE SubSeq(t, CHOOSE i \in Dark(t) : \A j \in Dark(t) : i <= j,
                           CHOOSE i \in Dark(t) : \A j \in Dark(t) : i >= j)
Written(s) == SelectSeq(s, LAMBDA t : ~Blank(t))
Join(s, sep) == FoldLeft(LAMBDA t, p : IF t = <<>> THEN p ELSE t \o sep \o p, <<>>, s)

\* The first place from which a text holds another, or 0.
Find(t, part, from) ==
    LET at == {i \in High(1, from)..Len(t) - Len(part) + 1 : SubSeq(t, i, i + Len(part) - 1) = part}
    IN  IF at = {} THEN 0 ELSE CHOOSE i \in at : \A j \in at : i <= j
FindAgain(t, part, from) == LET i == Find(t, part, from) IN IF i > 0 THEN i ELSE Find(t, part, 1)
-----------------------------------------------------------------------------
(* The splitter.                                                           *)

Separators == <<"P", "S", " ", "">>

\* str.split: the parts between the marks of one separator.
Parts(t, sep) ==
    IF sep = "" THEN [i \in 1..Len(t) |-> <<t[i]>>]
    ELSE FoldLeft(LAMBDA ps, c : IF c = sep THEN Append(ps, <<>>)
                                 ELSE [ps EXCEPT ![Len(ps)] = Append(@, c)], <<<<>>>>, t)

\* Pieces are merged while they fit.  Every piece gets the separator back,
\* the last one too, whether or not the text ended with it.
RECURSIVE SplitText(_, _)
SplitText(t, seps) ==
    LET fits == {i \in 1..Len(seps) : seps[i] = "" \/ seps[i] \in ToSet(t)}
        k == CHOOSE i \in fits : \A j \in fits : i <= j
        finer == IF seps[k] = "" THEN <<>> ELSE SubSeq(seps, k + 1, Len(seps))
        Put(out, buf) == IF Blank(buf) THEN out ELSE Append(out, Strip(buf))
        Take(s, part) ==
            LET piece == IF seps[k] = "" THEN part ELSE Append(part, seps[k]) IN
            IF Len(s.buf) + Len(piece) <= ChunkSize THEN [s EXCEPT !.buf = @ \o piece]
            ELSE IF Len(piece) > ChunkSize /\ finer # <<>>
            THEN [buf |-> <<>>, out |-> Put(s.out, s.buf) \o SplitText(piece, finer)]
            ELSE [buf |-> piece, out |-> Put(s.out, s.buf)]
        end == FoldLeft(Take, [buf |-> <<>>, out |-> <<>>], Parts(t, seps[k]))
    IN  Put(end.out, end.buf)

\* One section per heading, from two headings on.
Sections(t) ==
    LET heads == SetToSortSeq({i \in 1..Len(t) : t[i] = "#"}, <)
        Until(n) == IF n < Len(heads) THEN heads[n + 1] - 1 ELSE Len(t)
    IN  IF Len(heads) < 2 THEN <<>>
        ELSE Written(<<Strip(SubSeq(t, 1, heads[1] - 1))>>
                     \o [n \in 1..Len(heads) |-> Strip(SubSeq(t, heads[n], Until(n)))])

\* The overlap is what the chunk before ends with, before its own overlap.
Shared == IF Overlap >= ChunkSize THEN ChunkSize \div 4 ELSE Overlap
WithOverlap(chunks) ==
    [i \in 1..Len(chunks) |->
        IF i = 1 THEN chunks[1]
        ELSE SubSeq(chunks[i - 1], High(1, Len(chunks[i - 1]) - Shared + 1), Len(chunks[i - 1])) \o chunks[i]]

Split(t) ==
    IF Sections(t) = <<>> THEN Written(WithOverlap(SplitText(t, Separators)))
    ELSE Written(FlattenSeq([n \in 1..Len(Sections(t)) |->
             LET s == Sections(t)[n]
             IN  WithOverlap(IF Len(s) <= ChunkSize THEN <<s>> ELSE SplitText(s, Separators))]))
-----------------------------------------------------------------------------
(* Where a chunk came from (chunk_meta.py).                                *)

\* The dark symbols of a text alone, aligned with their places.
CompactFind(t, part, from) ==
    LET place == SetToSortSeq(Dark(t), <)
        dark == [i \in 1..Len(place) |-> t[place[i]]]
        wanted == SelectSeq(part, LAMBDA c : c \notin White)
        start == Cardinality({i \in Dark(t) : i < from}) + 1
        at == FindAgain(dark, wanted, start)
    IN  IF wanted = <<>> \/ at = 0 THEN Nowhere
        ELSE <<place[at], place[at + Len(wanted) - 1] + 1>>

\* Chunks are looked for in order: as they stand, else without white space.
Offsets(chunks, t) ==
    FoldLeft(LAMBDA s, c :
                 LET at == FindAgain(t, c, s.cursor)
                     span == IF c = <<>> THEN Nowhere
                             ELSE IF at > 0 THEN <<at, at + Len(c)>> ELSE CompactFind(t, c, s.cursor)
                 IN  [spans |-> Append(s.spans, span),
                      cursor |-> IF span = Nowhere THEN s.cursor ELSE span[1] + 1],
             [spans |-> <<>>, cursor |-> 1], chunks).spans

\* Pages are looked for in the same way; the heading is the last one before.
PageBounds(pages, t) ==
    FoldLeft(LAMBDA s, n :
                 LET at == FindAgain(t, pages[n], s.cursor)
                 IN  IF pages[n] = <<>> \/ at = 0 THEN s
                     ELSE [bounds |-> Append(s.bounds, [page |-> n, from |-> at, to |-> at + Len(pages[n])]),
                           cursor |-> at + 1],
             [bounds |-> <<>>, cursor |-> 1], [n \in 1..Len(pages) |-> n]).bounds
Annotate(chunks, pages, t) ==
    LET spans == Offsets(chunks, t)
        bounds == PageBounds(pages, t)
        PageOf(a) == LET on == {i \in 1..Len(bounds) : bounds[i].from <= a /\ a < bounds[i].to}
                     IN  IF on = {} THEN 0 ELSE bounds[CHOOSE i \in on : \A j \in on : i <= j].page
        HeadOf(a) == LET up == {i \in 1..a : t[i] = "#"}
                     IN  IF up = {} THEN 0 ELSE CHOOSE i \in up : \A j \in up : i >= j
    IN  [i \in 1..Len(chunks) |->
            IF spans[i] = Nowhere THEN [span |-> Nowhere, page |-> 0, heading |-> 0]
            ELSE [span |-> spans[i], page |-> PageOf(spans[i][1]), heading |-> HeadOf(spans[i][1])]]
-----------------------------------------------------------------------------
(* The parsers.                                                            *)

\* The extension's parser; the formats of an office go by way of LibreOffice.
Parser ==
    [txt |-> "text", md |-> "text", pdf |-> "pdf", docx |-> "docx", pptx |-> "pptx", csv |-> "table",
     xlsx |-> "table", html |-> "html", epub |-> "epub", rtf |-> "rtf",
     doc |-> "docx", odt |-> "docx", ods |-> "table", odp |-> "pptx", ppt |-> "pptx"]
Converted == {"doc", "odt", "ods", "odp", "ppt"}
ParserOf(ext, soffice) ==
    IF ext \notin DOMAIN Parser THEN "unsupported"
    ELSE IF ext \in Converted /\ ~soffice THEN "needs_office" ELSE Parser[ext]

\* The OCR backend; none is not an error, the page stays empty.
OcrEngine(wish, installed) ==
    IF wish = "tesseract" /\ "tesseract" \in installed THEN "tesseract"
    ELSE IF "rapidocr" \in installed THEN "rapidocr" ELSE "none"

\* A PDF page is its text and what OCR would read; the first scanned pages are
\* tried, and a page is replaced only by words.
Scanned(pages) == SetToSortSeq({i \in 1..Len(pages) : Len(pages[i].text) < LowText}, <)
Replaced(pages, ocr) ==
    IF ~ocr THEN {} ELSE {i \in ToSet(SubSeq(Scanned(pages), 1, Low(High(1, OcrPages), Len(Scanned(pages))))) :
                             ~Blank(pages[i].ocr)}
PageTexts(pages, ocr) ==
    [i \in 1..Len(pages) |-> IF i \in Replaced(pages, ocr) THEN pages[i].ocr ELSE pages[i].text]
PdfText(texts, tables) ==
    IF tables = <<>> THEN Join(Written(texts), <<"P">>)
    ELSE Strip(Join(Written(texts) \o tables, <<"P">>))

\* page_bases walks the join; the lines of a page that was not replaced move
\* by the base of their page.
PageBase(texts, n) == 1 + Len(Join(Append(Written(SubSeq(texts, 1, n - 1)), <<>>), <<"P">>))
PdfLines(pages, ocr) ==
    LET texts == PageTexts(pages, ocr) IN
    {[page |-> n, text |-> pages[n].text, from |-> PageBase(texts, n)] :
        n \in {m \in 1..Len(pages) : m \notin Replaced(pages, ocr) /\ ~Blank(texts[m])}}

\* A slide is its blocks, each a sequence of lines.  A shape remembers the
\* number of its block and is given the line of that number.
SlideLines(blocks) == FlattenSeq(blocks)
ShapeLine(blocks, b) == IF b <= Len(SlideLines(blocks)) THEN <<SlideLines(blocks)[b]>> ELSE <<>>

\* The data rows of a sheet follow its header, which follows the sheet's name.
SheetRows(lines, named) == SubSeq(lines, IF named THEN 3 ELSE 2, Len(lines))
-----------------------------------------------------------------------------
(* Back to the page (locator.py) and the preview.                          *)

Touches(span, a, b) == span[1] < b /\ span[2] > a
TouchedIn(spans, a, b) == {i \in 1..Len(spans) : Touches(spans[i], a, b)}

\* The first group whose spans reach from before the start to beyond it.
Around(groups, a) ==
    LET in == {g \in 1..Len(groups) : /\ groups[g] # <<>>
                                      /\ groups[g][1][1] <= a /\ a < groups[g][Len(groups[g])][2]}
    IN  IF in = {} THEN 0 ELSE CHOOSE g \in in : \A h \in in : g <= h

\* d is [len, pages, sheets, slides]: sequences of the spans of their lines,
\* rows and shapes.  The most exact place wins, text is the last resort.
Locate(d, page, a, b, context) ==
    LET sheet == Around(d.sheets, a)
        slide == Around(d.slides, a)
        Hit(kind, spans, n) == [kind |-> kind, n |-> n, hits |-> TouchedIn(spans, a, b)]
    IN  IF b <= a \/ b > d.len + 1 THEN [kind |-> "none", n |-> 0, hits |-> {}]
        ELSE IF page \in 1..Len(d.pages) /\ TouchedIn(d.pages[page], a, b) # {}
        THEN Hit("page", d.pages[page], page)
        ELSE IF sheet > 0 /\ TouchedIn(d.sheets[sheet], a, b) # {} THEN Hit("sheet", d.sheets[sheet], sheet)
        ELSE IF slide > 0 /\ TouchedIn(d.slides[slide], a, b) # {} THEN Hit("slide", d.slides[slide], slide)
        ELSE [kind |-> "text", n |-> High(1, a - context), hits |-> {Low(d.len + 1, b + context)}]

\* _rows_to_gfm cuts the rows before it asks whether there were too many.
Preview(rows) ==
    LET kept == SubSeq(rows, 1, Low(MaxRows + 1, Len(rows)))
    IN  [rows |-> IF Len(rows) < 2 THEN <<>> ELSE kept, notice |-> Len(kept) > MaxRows + 1]
=============================================================================
