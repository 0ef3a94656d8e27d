----------------------------- MODULE MCChatTurn -----------------------------
(***************************************************************************)
(* Model-checking instance of ChatTurn: an ordinary question, a risky one  *)
(* asked of a knowledge base, a question in auto mode, a regenerate; an    *)
(* answer that mixes a grounded, a fabricated, a leaking and a plain claim *)
(* and one in a code fence.                                                *)
(***************************************************************************)
EXTENDS ChatTurn

Req(kind, mode, q, kbs) == [NoReq EXCEPT !.kind = kind, !.mode = mode, !.q = q, !.kbs = kbs]
Claim(cites, pii) == [cites |-> cites, pii |-> pii]

MCRequests == { Req("send", "speed", {}, {}), Req("send", "speed", {"risky"}, {"kb"}),
                Req("regenerate", "speed", {}, {"kb"}) }
MCModes   == { Req("send", "speed", {}, {}), Req("send", "auto", {}, {}) }
MCIntents == { << >>, << [route |-> "deep_research", kind |-> "factual", sure |-> TRUE, hints |-> {}] >> }
MCNoIntents == { << >> }
MCAnswers == { Text({Claim({1}, FALSE), Claim({3}, FALSE), Claim({2}, TRUE), Claim({}, FALSE)}, "none"),
               Text({Claim({2}, FALSE)}, "fence") }
Symmetry == Permutations(Procs) \cup Permutations(Turns)

-----------------------------------------------------------------------------
(***************************************************************************)
(* The pure operators, over bounded inputs.                                *)
(***************************************************************************)
Hints == {"casual", "catalog", "code", "research_first", "agents", "debate", "two_sides",
          "strong", "mediums", "vague", "brief"}
Questions == { q \in SUBSET Hints : Cardinality(q) <= 3 }
Classified == { << [route |-> r, kind |-> k, sure |-> b, hints |-> {}] >> :
                r \in {"none", "debate", "deep_research", "write_review", "native"},
                k \in {"code", "document", "factual"}, b \in BOOLEAN }

\* A turn that must stay off the web is offered no web tool; the fast mode never
\* starts a crew; a crew that splits a knowledge base has one; asking for code
\* gets code.
ASSUME RoutesSound ==
    \A q \in Questions, kb \in BOOLEAN, m \in ModeNames \cup {"other"}, i \in Classified \cup {<< >>} :
        LET r == DecideRouteWithIntent(m, kb, q, i) IN
        /\ r.noweb => FilterTools(WebTools \cup {"search_kb"}, r) = {"search_kb"} \/ r.allow # << >>
        /\ m = "speed" => ~r.multi
        /\ r.profile = "parallel_research" => kb
        /\ LooksLikeCode(q) => DeliverableKind(q) = "code"
        /\ MemoryMode(EffectiveMode(r.mode)).write => r.mode # "hermes"

\* The classifier yields nothing only when no try within the budget was usable.
Reply(f, r) == [fails |-> f, raw |-> [route |-> r, kind |-> "code", sure |-> TRUE, hints |-> {}]]
Replies == { Reply("no", "research"), Reply("no", "none"), Reply("timeout", "none"), Reply("crash", "none") }
ASSUME IntentFallsBack ==
    \A n \in 0..3, retries \in 0..2 : \A rs \in [1..n -> Replies] :
        LET usable == { k \in 1..n : rs[k] = Reply("no", "research") /\ k <= retries + 1 }
            first  == CHOOSE k \in usable : \A o \in usable : k <= o
        IN  JudgeIntent(rs, retries) # << >> <=>
                usable # {} /\ \A k \in 1..(first - 1) : rs[k].fails # "crash"

\* While nothing changes hands, the worker uses the bases the API accepted.
Users  == { [id |-> u, admin |-> a] : u \in {"u", "v"}, a \in BOOLEAN }
Owners == { o \in UNION { [s -> {"u", "v"}] : s \in SUBSET {"a", "b"} } : TRUE }
ASSUME ScopesAgree ==
    \A user \in Users, own \in Owners, bound \in SUBSET {"a", "b"}, kbs \in SUBSET {"a", "b"}, cap \in 1..2 :
        LET req == [NoReq EXCEPT !.kbs = kbs]
            here == InlineScope(user, req, bound, own, << >>, cap)
            there == DurableScope(user, req, bound, own, cap)
        IN  here.ok => here.value = there

\* The model of a run is one its user may see, and one named by the user is not
\* replaced by another.
Catalogue == << [id |-> 1, owner |-> "system", embedding |-> TRUE],
                [id |-> 2, owner |-> "u", embedding |-> FALSE],
                [id |-> 3, owner |-> "v", embedding |-> FALSE] >>
ASSUME ModelsSeen ==
    \A user \in Users, w \in {<< >>, <<2>>, <<3>>}, b \in {<< >>, <<3>>}, s \in SUBSET {1, 2, 3} :
        LET now   == ResolveModel(Catalogue, user, w, b)
            later == ResolveModelForRun(Catalogue, user, w, b, s)
        IN  /\ now.ok => ModelVisible(now.value, user)
            /\ \A m \in ToSet(later) : ModelVisible(m, user) /\ (w # << >> => m.id = w[1])
            /\ now.ok /\ w # << >> => later = << now.value >>

\* Evidence never outgrows the window it shares, unless the fallback says so.
ASSUME BudgetFits ==
    \A w \in 0..4, r \in 0..4, c \in 0..2, share \in {25, 50, 100}, least \in 0..2 :
        LET b == ContextBudget(w, r, 7, c, share, least) IN
        b = 7 \/ (b + (IF r < w THEN r ELSE w) <= w /\ (c > 0 => b <= c))

\* A delivered answer cites only sources of its request; the judge supports only
\* claims with evidence.
Pack == << [id |-> 1, text |-> "v1"], [id |-> 2, text |-> "v1"] >>
Now(here) == [c \in {1, 2} |-> [there |-> c \in here, text |-> "v1", status |-> "indexed", owner |-> "u"]]
Claims == { Claim(cites, pii) : cites \in {{}, {1}, {2}, {1, 3}}, pii \in BOOLEAN }
ASSUME CitationsReal ==
    \A cs \in SUBSET Claims, odd \in Oddities \ {"control", "fence"}, here \in SUBSET {1, 2}, high \in BOOLEAN :
        LET out == GateAnswer(Text(cs, odd), [pack |-> Pack, chunks |-> Now(here), user |-> "u", high |-> high,
                                             explicit |-> TRUE, insufficient |-> FALSE])
            res == AnswerResult(out)
        IN  /\ out.action # "retry_format_once" => res.cited \subseteq here
            /\ \A c \in Claims : AuditVerdict(c, Pack, [x \in Claims |-> "supported"]) = "supported"
                                    => Evidence(c, Pack) # {}
            /\ ShouldAudit(high, Cardinality(cs), 3, 0, TRUE) => cs # {}
=============================================================================
