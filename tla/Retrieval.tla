------------------------------- MODULE Retrieval -------------------------------
(***************************************************************************)
(* One retrieval over several knowledge bases (rag_service._retrieve_impl) *)
(* as a pipeline of pure stages: plan, recall by words and by vectors,     *)
(* fusion, rerank, removal of duplicates, the caps, the relevance gate and *)
(* the token budget.                                                       *)
(*                                                                         *)
(* A hit is [id, kb, doc, score, rerank, words, cost]: words stands for    *)
(* the word set of its text (two hits with equal words are near            *)
(* duplicates, {} is an empty text), cost for its tokens.  Scores are      *)
(* natural numbers; a rerank of NoRank means that no reranker scored it.   *)
(***************************************************************************)
EXTENDS Integers, Sequences, FiniteSets, SequencesExt

CONSTANTS
    RrfK,        \* RAG_RRF_K
    Candidates,  \* RAG_RETRIEVAL_CANDIDATES
    MaxFused,    \* RAG_MAX_FUSED_CANDIDATES
    PerDocument, \* RAG_MAX_CHUNKS_PER_DOCUMENT
    PerKb,       \* RAG_MAX_CHUNKS_PER_KB, 0 for none
    TopK,        \* RAG_TOP_K
    MinScore,    \* RAG_MIN_SCORE
    MinKeep      \* _MIN_KEEP_TOKENS

NoRank == -1
Inherit == -1   \* a column of a knowledge base left NULL
Least(a, b) == IF a <= b THEN a ELSE b
First(s, n) == SubSeq(s, 1, Least(n, Len(s)))
Ids(s) == {s[i].id : i \in 1..Len(s)}

\* Stable sort, best first: every sort of the pipeline is one of Python's.
Ranked(s, Key(_)) ==
    LET Before(i, j) == Key(s[i]) > Key(s[j]) \/ (Key(s[i]) = Key(s[j]) /\ i <= j)
        Place(i) == Cardinality({j \in 1..Len(s) : Before(j, i)})
    IN  [n \in 1..Len(s) |-> s[CHOOSE i \in 1..Len(s) : Place(i) = n]]
-----------------------------------------------------------------------------
(* The words of a chunk and the search by words (keyword.py).  A row is    *)
(* [hit, has, freq]: the terms its SQL matches, the score in Python.       *)

Coverage(row, terms) == Cardinality(row.has \intersect terms)

KeywordHits(rows, terms, docs, cap, k) ==
    LET scope == SelectSeq(rows, LAMBDA r : /\ r.has \intersect terms # {}
                                            /\ docs = {} \/ r.hit.doc \in docs)
        scanned == First(Ranked(scope, LAMBDA r : Coverage(r, terms)), cap)
        scored == SelectSeq(scanned, LAMBDA r : r.freq > 0)
        best == First(Ranked(scored, LAMBDA r : r.freq), k)
    IN  [i \in 1..Len(best) |-> [best[i].hit EXCEPT !.score = best[i].freq]]

\* Retriever.retrieve: the nearest points of the collection in the scope.
DenseHits(points, docs, k) ==
    First(Ranked(SelectSeq(points, LAMBDA h : docs = {} \/ h.doc \in docs),
                 LAMBDA h : h.score), k)
-----------------------------------------------------------------------------
(* Fusion, rerank and the removal of near duplicates.                      *)

\* rrf_fuse: 1 / (k + rank) summed over the lists, in millionths; the first
\* list to hold a hit gives its payload, and its place among equals.
Rank(s, id) == CHOOSE i \in 1..Len(s) : s[i].id = id
Share(s, id) == IF id \in Ids(s) THEN 1000000 \div (RrfK + Rank(s, id)) ELSE 0
RrfFuse(v, w) ==
    LET all == v \o SelectSeq(w, LAMBDA h : h.id \notin Ids(v))
        once == SelectSeq([i \in 1..Len(all) |-> [h |-> all[i], i |-> i]],
                          LAMBDA p : Rank(all, p.h.id) = p.i)
    IN  Ranked([i \in 1..Len(once) |->
                   [once[i].h EXCEPT !.score = Share(v, once[i].h.id) + Share(w, once[i].h.id)]],
               LAMBDA h : h.score)

\* The reranker scores every hit, or fails and leaves the order by score.
Rerank(s, works, grade) ==
    IF ~works THEN Ranked(s, LAMBDA h : h.score)
    ELSE Ranked([i \in 1..Len(s) |-> [s[i] EXCEPT !.rerank = grade[s[i].id]]],
                LAMBDA h : h.rerank)

\* compress_context: empty texts go, and what repeats one that was kept.
CompressContext(s) ==
    FoldLeft(LAMBDA kept, h : IF h.words = {} \/ \E i \in 1..Len(kept) : kept[i].words = h.words
                              THEN kept ELSE Append(kept, h), <<>>, s)
-----------------------------------------------------------------------------
(* The caps, the gate and the budget.                                      *)

\* _KbRetrieval.from_kb: NULL columns inherit, the platform caps top_k.
TopKOf(kb) == LET own == IF kb.topK > 0 THEN kb.topK ELSE TopK
              IN  IF PerKb > 0 THEN Least(own, PerKb) ELSE own
ThresholdOf(kb) == IF kb.threshold >= 0 THEN kb.threshold ELSE MinScore

\* _cap_per_kb and _cap_per_document keep the ranked order.
Cap(s, Group(_), limit(_)) ==
    FoldLeft(LAMBDA kept, h : IF Len(SelectSeq(kept, LAMBDA o : Group(o) = Group(h))) < limit(h)
                              THEN Append(kept, h) ELSE kept, <<>>, s)
CapPerKb(s, kbs) == Cap(s, LAMBDA h : h.kb, LAMBDA h : TopKOf(kbs[h.kb]))
CapPerDocument(s) == Cap(s, LAMBDA h : h.doc, LAMBDA h : PerDocument)

EffectiveScore(h) == IF h.rerank = NoRank THEN h.score ELSE h.rerank
Gate(s, kbs) == SelectSeq(s, LAMBDA h : EffectiveScore(h) >= ThresholdOf(kbs[h.kb]))

\* fit_context: whole hits while they fit; the one that does not is cut to
\* what is left if that is worth keeping, and ends the pack.
FitContext(s, budget) ==
    LET Used(n) == FoldLeft(LAMBDA sum, h : sum + h.cost, 0, SubSeq(s, 1, n))
        fit == IF budget <= 0 THEN Len(s)
               ELSE CHOOSE n \in 0..Len(s) : /\ Used(n) <= budget
                                             /\ n < Len(s) => Used(n + 1) > budget
        left == budget - Used(fit)
    IN  IF fit < Len(s) /\ left >= MinKeep
        THEN Append(SubSeq(s, 1, fit), [s[fit + 1] EXCEPT !.cost = left])
        ELSE SubSeq(s, 1, fit)

\* compute_context_budget: 80 % of what the window leaves, under the ceiling;
\* too little for a chunk, or no known window, is the absolute fallback.
ContextBudget(window, reserved, fallback, ceiling, floor) ==
    LET available == IF window > reserved THEN window - reserved ELSE 0
        share == (available * 8) \div 10
        budget == IF ceiling > 0 THEN Least(share, ceiling) ELSE share
    IN  IF window <= 0 \/ (0 < budget /\ budget < floor) THEN fallback ELSE budget
-----------------------------------------------------------------------------
(* The plan of a question (query_plan.py).  A question is a set of marks:  *)
(* code, model (a coded token, by its prefix or by the words around it),   *)
(* lexicon (a registered model), quoted, date, and one mark per intent.    *)

Entities(q) ==
    (IF "date" \in q THEN {"date_range"} ELSE {})
    \union (IF "quoted" \in q THEN {"quoted_phrase"} ELSE {})
    \union (IF q \intersect {"model", "lexicon"} # {} THEN {"product_model"} ELSE {})
    \union (IF "code" \in q THEN {"error_code"} ELSE {})

RequiresExactMatch(q) == Entities(q) \intersect {"error_code", "product_model"} # {}

\* The rules in their order; a bare error code asks what it means.
IntentRules == <<"compare", "cause_analysis", "no_answer_candidate", "lookup">>
DetectIntent(q) ==
    LET hit == {i \in 1..Len(IntentRules) : IntentRules[i] \in q} IN
    IF hit # {} THEN IntentRules[CHOOSE i \in hit : \A j \in hit : i <= j]
    ELSE IF "error_code" \in Entities(q) THEN "lookup" ELSE "explain"

\* Only a document scope reaches the index; a date is refused with its reason.
PlanFilters(q, docs) ==
    [document |-> docs, rejected |-> IF "date" \in q THEN {"field_not_indexed"} ELSE {}]

\* resolve_relative_dates: spans claimed in the order of the rules.
Overlap(a, b) == a[1] < b[2] /\ b[1] < a[2]
ClaimSpans(spans) ==
    FoldLeft(LAMBDA taken, s : IF \E t \in taken : Overlap(s, t) THEN taken ELSE taken \union {s},
             {}, spans)

\* Months are counted from the year 0, as _add_months does; a date is
\* <<month, day>> and the day is clipped to the month reached.
DaysIn(m) == LET k == m % 12 y == m \div 12 IN
    IF k = 1 THEN IF (y % 4 = 0 /\ y % 100 # 0) \/ y % 400 = 0 THEN 29 ELSE 28
    ELSE IF k \in {3, 5, 8, 10} THEN 30 ELSE 31
AddMonths(d, n) == <<d[1] + n, Least(d[2], DaysIn(d[1] + n))>>
Earlier(d, e) == d[1] < e[1] \/ (d[1] = e[1] /\ d[2] <= e[2])
DayBefore(d) == IF d[2] > 1 THEN <<d[1], d[2] - 1>> ELSE <<d[1] - 1, DaysIn(d[1] - 1)>>

\* The ranges counted in months: a quarter begins in January, April, ...
MonthRange(kind, today, n) ==
    LET month == <<today[1], 1>>
        quarter == <<today[1] - (today[1] % 3), 1>>
        year == <<today[1] - (today[1] % 12), 1>>
        Span(start, months) == <<start, DayBefore(AddMonths(start, months))>>
    IN  CASE kind \in {"months_ago", "last_months"} -> <<AddMonths(today, -n), today>>
          [] kind \in {"years_ago", "last_years"} -> <<AddMonths(year, -(12 * n)), today>>
          [] kind = "this_month"   -> Span(month, 1)
          [] kind = "last_month"   -> Span(AddMonths(month, -1), 1)
          [] kind = "next_month"   -> Span(AddMonths(month, 1), 1)
          [] kind = "this_quarter" -> Span(quarter, 3)
          [] kind = "last_quarter" -> Span(AddMonths(quarter, -3), 3)
          [] kind = "this_year"    -> Span(year, 12)
          [] kind = "last_year"    -> Span(AddMonths(year, -12), 12)
          [] kind = "year_before_last" -> Span(AddMonths(year, -24), 12)
-----------------------------------------------------------------------------
(* The pipeline.                                                           *)

\* How many hits each search of a knowledge base may bring.
FetchK(kb, hybrid, overfetch) ==
    IF hybrid THEN IF TopKOf(kb) > Candidates THEN TopKOf(kb) ELSE Candidates
    ELSE TopKOf(kb) * overfetch

Nothing == [items |-> <<>>, citations |-> <<>>, insufficient |-> TRUE]

\* items and citations are both numbered over the one packed list.
Pack(hits) ==
    IF hits = <<>> THEN Nothing
    ELSE [items |-> [i \in 1..Len(hits) |-> [n |-> i, id |-> hits[i].id, cost |-> hits[i].cost]],
          citations |-> [i \in 1..Len(hits) |-> [n |-> i, id |-> hits[i].id]],
          insufficient |-> FALSE]

\* The list that is packed; v and w are the dense and the keyword hits of all
\* knowledge bases, ask the caller's own top_k or 0.
Selected(v, w, hybrid, rerank, dedup, kbs, ask) ==
    LET pool == First(IF hybrid THEN RrfFuse(v, w) ELSE v, MaxFused)
        fused == IF rerank.on /\ ~(\A k \in DOMAIN kbs : kbs[k].rerank = "off")
                 THEN Rerank(pool, rerank.works, rerank.grade) ELSE pool
        distinct == IF dedup THEN CompressContext(fused) ELSE fused
        own == IF ask = 0 THEN CapPerKb(distinct, kbs) ELSE distinct
        total == FoldLeft(LAMBDA sum, k : sum + TopKOf(kbs[k]), 0, SetToSeq(DOMAIN kbs))
    IN  Gate(First(CapPerDocument(own), IF ask > 0 THEN ask ELSE total), kbs)

Retrieve(v, w, hybrid, rerank, dedup, kbs, ask, budget) ==
    Pack(FitContext(Selected(v, w, hybrid, rerank, dedup, kbs, ask), budget))

\* _document_inventory: metadata of up to 50 documents, no search at all.
Inventory(docs, limit, budget) ==
    [Pack(FitContext(First(docs, limit), budget)) EXCEPT !.insufficient = FALSE]
=============================================================================
