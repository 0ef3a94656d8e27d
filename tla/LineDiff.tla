------------------------------ MODULE LineDiff -------------------------------
(***************************************************************************)
(* The line diff the web client draws (frontend/src/lib/diff.ts): how two  *)
(* texts are matched line by line, how unchanged runs are folded, and how  *)
(* a patch that arrives as text is read back into rows.                    *)
(*                                                                         *)
(* A text is the sequence of lines splitLines cuts it into.  Line numbers  *)
(* begin with 1; 0 stands for the null of a row without a counterpart.  A  *)
(* segment is the pair of half-open ranges a0..a1-1 and b0..b1-1.          *)
(***************************************************************************)
EXTENDS Integers, SequencesExt

Row(kind, old, new, text) == [kind |-> kind, old |-> old, new |-> new, text |-> text]
Dels(a, lo, hi) == [k \in 1..(hi - lo) |-> Row("del", lo + k - 1, 0, a[lo + k - 1])]
Adds(b, lo, hi) == [k \in 1..(hi - lo) |-> Row("add", 0, lo + k - 1, b[lo + k - 1])]

-----------------------------------------------------------------------------
(***************************************************************************)
(* lcsPairs: the lines matched in one segment by dynamic programming.      *)
(***************************************************************************)
LcsPairs(a, b, s) ==
    LET length[i \in s.a0..s.a1, j \in s.b0..s.b1] ==
            IF i = s.a1 \/ j = s.b1  THEN 0
            ELSE IF a[i] = b[j]      THEN length[i + 1, j + 1] + 1
            ELSE Max({length[i + 1, j], length[i, j + 1]})
        walk[i \in s.a0..s.a1, j \in s.b0..s.b1] ==
            IF i = s.a1 \/ j = s.b1  THEN {}
            ELSE IF a[i] = b[j]      THEN {<<i, j>>} \cup walk[i + 1, j + 1]
            ELSE IF length[i + 1, j] >= length[i, j + 1] THEN walk[i + 1, j]
            ELSE walk[i, j + 1]
    IN  walk[s.a0, s.b0]

\* findAnchor: the common line unique on both sides that is nearest to the middle
\* of both, the first one in the old text if several are.
Anchors(a, b, s) ==
    { p \in (s.a0..s.a1 - 1) \X (s.b0..s.b1 - 1) :
        /\ a[p[1]] = b[p[2]]
        /\ \A i \in s.a0..s.a1 - 1 : a[i] = a[p[1]] => i = p[1]
        /\ \A j \in s.b0..s.b1 - 1 : b[j] = b[p[2]] => j = p[2] }
Abs(x) == IF x < 0 THEN -x ELSE x
Distance(s, p) ==
    LET n == s.a1 - s.a0
        m == s.b1 - s.b0
    IN  Abs(2 * (p[1] - s.a0) - n) * m + Abs(2 * (p[2] - s.b0) - m) * n
Nearest(s, hits) ==
    CHOOSE p \in hits : \A q \in hits :
        Distance(s, p) < Distance(s, q) \/ (Distance(s, p) = Distance(s, q) /\ p[1] <= q[1])

\* What is equal at the two ends of a segment, and what is left between them.
Prefix(a, b, s) ==
    Max({ k \in 0..Min({s.a1 - s.a0, s.b1 - s.b0}) :
            \A x \in 0..k - 1 : a[s.a0 + x] = b[s.b0 + x] })
Suffix(a, b, s) ==
    Max({ k \in 0..Min({s.a1 - s.a0, s.b1 - s.b0}) :
            \A x \in 1..k : a[s.a1 - x] = b[s.b1 - x] })

(***************************************************************************)
(* collectPairs: a stack of segments; a segment too large for the dynamic  *)
(* program is cut at an anchor or left unmatched.  lim is [lines, cells,   *)
(* segments]: DIFF_MAX_LINES_PER_SIDE, MAX_LCS_CELLS and MAX_SEGMENTS.     *)
(***************************************************************************)
RECURSIVE Expand(_, _, _, _, _, _)
Expand(a, b, lim, stack, left, pairs) ==
    IF stack = <<>> \/ left = 0 THEN pairs
    ELSE LET seg   == Last(stack)
             rest  == Front(stack)
             k     == Prefix(a, b, seg)
             head  == [seg EXCEPT !.a0 = @ + k, !.b0 = @ + k]
             t     == Suffix(a, b, head)
             s     == [head EXCEPT !.a1 = @ - t, !.b1 = @ - t]
             ends  == { <<seg.a0 + x, seg.b0 + x>> : x \in 0..k - 1 }
                        \cup { <<s.a1 + x, s.b1 + x>> : x \in 0..t - 1 }
             n     == s.a1 - s.a0
             m     == s.b1 - s.b0
             hits  == Anchors(a, b, s)
         IN  IF n = 0 \/ m = 0
             THEN Expand(a, b, lim, rest, left - 1, pairs \cup ends)
             ELSE IF n * m <= lim.cells
             THEN Expand(a, b, lim, rest, left - 1, pairs \cup ends \cup LcsPairs(a, b, s))
             ELSE IF hits = {}
             THEN Expand(a, b, lim, rest, left - 1, pairs \cup ends)
             ELSE LET p == Nearest(s, hits)
                  IN  Expand(a, b, lim,
                             rest \o << [s EXCEPT !.a0 = p[1] + 1, !.b0 = p[2] + 1],
                                        [s EXCEPT !.a1 = p[1], !.b1 = p[2]] >>,
                             left - 1, pairs \cup ends \cup {p})

Whole(a, b) == [a0 |-> 1, a1 |-> Len(a) + 1, b0 |-> 1, b1 |-> Len(b) + 1]
RawPairs(a, b, lim) ==
    IF Len(a) > lim.lines \/ Len(b) > lim.lines THEN {}
    ELSE Expand(a, b, lim, << Whole(a, b) >>, lim.segments, {})

\* The pairs in order, without those that do not move both sides forward.
Ordered(pairs) ==
    LET before(p, q) == p[1] < q[1] \/ (p[1] = q[1] /\ p[2] < q[2])
        keep(kept, p) == IF kept = <<>> \/ (p[1] > Last(kept)[1] /\ p[2] > Last(kept)[2])
                         THEN Append(kept, p) ELSE kept
    IN  FoldLeft(keep, <<>>, SetToSortSeq(pairs, before))

\* diffLines: what is between two matched lines is deleted, then added.
DiffLines(a, b, lim) ==
    LET step(acc, p) ==
            [rows |-> acc.rows \o Dels(a, acc.ai, p[1]) \o Adds(b, acc.bi, p[2])
                        \o << Row("equal", p[1], p[2], a[p[1]]) >>,
             ai |-> p[1] + 1, bi |-> p[2] + 1]
        all == FoldLeft(step, [rows |-> <<>>, ai |-> 1, bi |-> 1], Ordered(RawPairs(a, b, lim)))
    IN  all.rows \o Dels(a, all.ai, Len(a) + 1) \o Adds(b, all.bi, Len(b) + 1)

-----------------------------------------------------------------------------
(***************************************************************************)
(* hunks: of every run of equal rows, ctx rows stay at either end and the  *)
(* rest is one fold.                                                       *)
(***************************************************************************)
RowsBlock(rows) == IF rows = <<>> THEN <<>> ELSE << [kind |-> "rows", rows |-> rows] >>
FoldBlock(rows) ==
    << [kind |-> "fold", count |-> Len(rows), oldStart |-> rows[1].old, newStart |-> rows[1].new] >>

RECURSIVE Fold(_, _, _)
Fold(rows, ctx, buffer) ==
    IF rows = <<>> THEN RowsBlock(buffer)
    ELSE IF Head(rows).kind # "equal" THEN Fold(Tail(rows), ctx, Append(buffer, Head(rows)))
    ELSE LET length == Max({ k \in 1..Len(rows) : \A x \in 1..k : rows[x].kind = "equal" })
             head   == Min({ctx, length})
             tail   == Min({ctx, length - head})
             folded == SubSeq(rows, head + 1, length - tail)
             kept   == SubSeq(rows, length - tail + 1, length)
             rest   == SubSeq(rows, length + 1, Len(rows))
         IN  IF folded = <<>>
             THEN Fold(rest, ctx, buffer \o SubSeq(rows, 1, head) \o kept)
             ELSE RowsBlock(buffer \o SubSeq(rows, 1, head)) \o FoldBlock(folded)
                    \o Fold(rest, ctx, kept)
Hunks(rows, ctx) == Fold(rows, ctx, <<>>)

-----------------------------------------------------------------------------
(***************************************************************************)
(* parseUnifiedDiff.  A line is its first character, "" if it is none of   *)
(* the characters that mean something, and the text after it; "@" is a     *)
(* header @@ -at[1],at[2] +at[3],at[4] @@ with -1 for an omitted count.    *)
(* A deleted line whose text begins with -- is spelled like a file header. *)
(***************************************************************************)
Omitted == -1
Counted(n) == IF n = Omitted THEN 1 ELSE n
IsOldHeader(l) == l.sign = "-" /\ l.text = "-- x"
IsNewHeader(l) == l.sign = "+" /\ l.text = "++ x"

ReadLine(st, l) ==
    LET done(s) == IF s.inHunk /\ s.oldLeft <= 0 /\ s.newLeft <= 0
                   THEN [s EXCEPT !.inHunk = FALSE] ELSE s
    IN  CASE ~ st.inHunk /\ IsOldHeader(l) ->
               [st EXCEPT !.files = @ + 1, !.sawHeader = TRUE]
          [] ~ st.inHunk /\ IsNewHeader(l) ->
               [st EXCEPT !.files = Max({@, 1}), !.sawHeader = TRUE]
          [] l.sign = "@" ->
               [st EXCEPT !.old = l.at[1], !.oldLeft = Counted(l.at[2]),
                          !.new = l.at[3], !.newLeft = Counted(l.at[4]),
                          !.sawHunk = TRUE, !.inHunk = TRUE, !.files = Max({@, 1})]
          [] l.sign = "\\" -> st
          [] l.sign = "-" /\ ~ (~ st.inHunk /\ IsOldHeader(l)) ->
               done([st EXCEPT !.rows = Append(@, Row("del", st.old, 0, l.text)),
                               !.old = @ + 1, !.oldLeft = @ - 1, !.changes = @ + 1])
          [] l.sign = "+" /\ ~ (~ st.inHunk /\ IsNewHeader(l)) ->
               done([st EXCEPT !.rows = Append(@, Row("add", 0, st.new, l.text)),
                               !.new = @ + 1, !.newLeft = @ - 1, !.changes = @ + 1])
          [] l.sign \in {" ", ""} ->
               IF st.inHunk \/ (~ st.sawHunk /\ ~ st.sawHeader /\ l.text # "meta")
               THEN done([st EXCEPT !.rows = Append(@, Row("equal", st.old, st.new, l.text)),
                                    !.old = @ + 1, !.oldLeft = @ - 1,
                                    !.new = @ + 1, !.newLeft = @ - 1])
               ELSE st

\* Nothing is shown as a patch that changes nothing.
ParseUnifiedDiff(lines) ==
    LET init == [rows |-> <<>>, files |-> 0, old |-> 1, new |-> 1, oldLeft |-> 0, newLeft |-> 0,
                 sawHunk |-> FALSE, sawHeader |-> FALSE, inHunk |-> FALSE, changes |-> 0]
        st == FoldLeft(ReadLine, init, lines)
    IN  IF st.changes = 0 THEN [files |-> 0, rows |-> <<>>]
        ELSE [files |-> Max({st.files, 1}), rows |-> st.rows]
=============================================================================
