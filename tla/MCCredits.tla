------------------------------ MODULE MCCredits ------------------------------
(***************************************************************************)
(* Model-checking instance of Credits: a user of two inline turns and a     *)
(* durable one, who races with another user for a code; a usage is priced  *)
(* by its tokens or costs more than the cap of a turn.  Retrieval is       *)
(* evaluated over small inputs at start-up.                                *)
(***************************************************************************)
EXTENDS Credits, TLC, FiniteSets, Integers, Sequences, SequencesExt

CONSTANTS u1, u2, t1, t2, d1

MCUserOf == (t1 :> u1) @@ (t2 :> u1) @@ (d1 :> u1)
MCUsages == {[cost |-> 0, tokens |-> 1], [cost |-> 3, tokens |-> 1]}
MCDeltas == {-1, 1}

(***************************************************************************)
(* Retrieval checked over every short list of hits, every small setting of *)
(* two knowledge bases and every day of a leap year and its neighbours.    *)
(* The module that checks a run extends it.                                *)
(***************************************************************************)
Search == INSTANCE Retrieval WITH
    RrfK <- 60, Candidates <- 3, MaxFused <- 3, PerDocument <- 1, PerKb <- 2,
    TopK <- 1, MinScore <- 0, MinKeep <- 2

\* Chunks 1 and 2 are of one document, 2 and 3 repeat each other.
Hit(i, score) ==
    [id |-> i, kb |-> IF i = 3 THEN "kb2" ELSE "kb1", doc |-> IF i = 3 THEN "d2" ELSE "d1",
     score |-> score, rerank |-> Search!NoRank, words |-> IF i = 1 THEN {"x"} ELSE {"y"}, cost |-> i]
Lists == {s \in UNION {[1..n -> 1..3] : n \in 0..3} : IsInjective(s)}
ShortLists == {s \in Lists : Len(s) <= 2}
HitsOf(s) == [i \in 1..Len(s) |-> Hit(s[i], 9 - i)]
Kb(k, t, r) == [topK |-> k, threshold |-> t, rerank |-> r]
Settings ==
    {[kb1 |-> Kb(Search!Inherit, Search!Inherit, "inherit"), kb2 |-> Kb(5, 8, "off")],
     [kb1 |-> Kb(2, 8, "off"), kb2 |-> Kb(1, Search!Inherit, "off")]}
Reranks == {[on |-> FALSE, works |-> FALSE, grade |-> <<0, 0, 0>>],
                  [on |-> TRUE, works |-> FALSE, grade |-> <<0, 0, 0>>],
                  [on |-> TRUE, works |-> TRUE, grade |-> <<7, 9, 8>>]}
Sum(items) == FoldLeft(LAMBDA sum, i : sum + i.cost, 0, items)

\* The model reads exactly what the citations number, each chunk once, within
\* the token budget, the window of each knowledge base and the share of a
\* document, and an empty pack says so (rag_service._retrieve_impl).
ASSUME PackHolds ==
    \A a \in Lists, b \in ShortLists, hybrid \in BOOLEAN, rr \in Reranks, kbs \in Settings, ask \in {0, 1}, budget \in {0, 3} :
        LET v == HitsOf(a)
            w == HitsOf(b)
            sel == Search!Selected(v, w, hybrid, rr, TRUE, kbs, ask)
            out == Search!Retrieve(v, w, hybrid, rr, TRUE, kbs, ask, budget)
            Of(name) == {i \in 1..Len(sel) : sel[i].kb = name}
        IN  /\ [i \in 1..Len(out.items) |-> <<out.items[i].n, out.items[i].id>>]
                 = [i \in 1..Len(out.citations) |-> <<i, out.citations[i].id>>]
            /\ Search!Ids(out.items) \subseteq Search!Ids(v) \union Search!Ids(w)
            /\ Cardinality(Search!Ids(out.items)) = Len(out.items)
            /\ out.insufficient <=> out.items = <<>>
            /\ budget > 0 => Sum(out.items) <= budget
            /\ ask > 0 => Len(out.items) <= ask
            /\ \A i, j \in 1..Len(sel) : i # j => sel[i].doc # sel[j].doc /\ sel[i].words # sel[j].words
            /\ ask = 0 => /\ Cardinality(Of("kb1")) <= (IF kbs.kb1.topK = 2 THEN 2 ELSE 1)
                          /\ Cardinality(Of("kb2")) <= (IF kbs.kb2.topK = 5 THEN 2 ELSE 1)

\* Fusion loses nothing and never turns round what both searches agree on.
ASSUME FusionAgrees ==
    \A a, b \in Lists :
        LET f == Search!RrfFuse(HitsOf(a), HitsOf(b))
            At(s, x) == CHOOSE i \in 1..Len(s) : s[i] = x
            Above(s, x, y) == x \in ToSet(s) /\ (y \notin ToSet(s) \/ At(s, x) < At(s, y))
        IN  /\ Search!Ids(f) = ToSet(a) \union ToSet(b)
            /\ Len(f) = Cardinality(Search!Ids(f))
            /\ \A i, j \in 1..Len(f) :
                  Above(a, f[i].id, f[j].id) /\ Above(b, f[i].id, f[j].id) => i < j

\* The cap on scanned rows drops those that match the fewest terms.
TermRows == {[hit |-> Hit(i, 0), has |-> has, freq |-> Cardinality(has)] :
                 i \in 1..3, has \in SUBSET {"t", "u"}}
ASSUME WordsFindTheBest ==
    \A rows \in {s \in [1..3 -> TermRows] : \A i \in 1..3 : s[i].hit.id = i}, docs \in {{}, {"d1"}} :
        LET found == Search!Ids(Search!KeywordHits(rows, {"t", "u"}, docs, 1, 3)) IN
        /\ Cardinality(found) <= 1
        /\ \A i \in 1..3 : i \in found =>
              /\ docs = {} \/ rows[i].hit.doc \in docs
              /\ \A j \in 1..3 : docs = {} \/ rows[j].hit.doc \in docs
                    => Search!Coverage(rows[j], {"t", "u"}) <= Search!Coverage(rows[i], {"t", "u"})

\* The budget stays under the ceiling and under 80 % of what the window leaves,
\* unless neither is known (rag/budget.py).
ASSUME BudgetKept ==
    \A window \in {0, 4, 20, 50}, reserved \in {0, 10, 60}, fallback \in {0, 6}, ceiling \in {0, 8} :
        LET b == Search!ContextBudget(window, reserved, fallback, ceiling, 3) IN
        b # fallback => /\ 10 * b <= 8 * (window - reserved) \/ b = 0
                        /\ ceiling > 0 => b <= ceiling

\* Calendar ranges are not empty, and months, quarters and years follow one
\* another without a gap (query_plan._resolve).
Days == {<<m, d>> : m \in (2023 * 12)..(2025 * 12 - 1), d \in {1, 15, 28, 29, 30, 31}}
ASSUME CalendarHolds ==
    \A t \in {d \in Days : d[2] <= Search!DaysIn(d[1])} :
        LET R(kind) == Search!MonthRange(kind, t, 1) IN
        /\ \A kind \in {"months_ago", "years_ago", "this_month", "last_month", "next_month",
                        "this_quarter", "last_quarter", "this_year", "last_year"} :
              Search!Earlier(R(kind)[1], R(kind)[2])
        /\ \A kind \in {"this_month", "this_quarter", "this_year", "months_ago"} :
              Search!Earlier(R(kind)[1], t) /\ Search!Earlier(t, R(kind)[2])
        /\ R("last_month")[2] = Search!DayBefore(R("this_month")[1])
        /\ R("last_quarter")[2] = Search!DayBefore(R("this_quarter")[1])
        /\ R("last_year")[2] = Search!DayBefore(R("this_year")[1])
        /\ R("year_before_last")[2] = Search!DayBefore(R("last_year")[1])

\* Date spans never overlap, and one is dropped only for an earlier rule's.
Spans == {<<a, b>> \in (0..3) \X (1..4) : a < b}
ASSUME SpansDisjoint ==
    \A s \in [1..3 -> Spans] :
        LET taken == Search!ClaimSpans(s) IN
        /\ s[1] \in taken
        /\ \A x, y \in taken : x # y => ~Search!Overlap(x, y)
        /\ \A i \in 1..3 : s[i] \notin taken => \E y \in taken : Search!Overlap(s[i], y)

\* Whatever holds a coded token is also searched by words (requires_exact_match).
ASSUME CodesSearchedByWords ==
    \A q \in SUBSET {"code", "model", "lexicon", "quoted", "date", "compare", "lookup"} :
        /\ q \intersect {"code", "model", "lexicon"} # {} => Search!RequiresExactMatch(q)
        /\ "compare" \in q => Search!DetectIntent(q) = "compare"
        /\ "date" \in q => Search!PlanFilters(q, {}) = [document |-> {}, rejected |-> {"field_not_indexed"}]
=============================================================================
