----------------------------- MODULE TurnRoute ------------------------------
(***************************************************************************)
(* How a chat turn is routed and scoped: the keyword signals of            *)
(* agents/planning.py, the routes of agents/intent_router.py, the answer   *)
(* of the intent classifier (agents/intent_service.py), the knowledge      *)
(* bases and the model a turn may use (services/chat_service.py) and the   *)
(* token budget of its evidence (rag/budget.py).                           *)
(*                                                                         *)
(* A question is the set of hints its words give:                          *)
(*   casual, catalog (asks for the list of files), web, code,              *)
(*   research_first, agents, debate, two_sides, action, lookup,            *)
(*   strong / medium / mediums / recap (words of research, recap being     *)
(*   the corroborating 总结), vague (a research word of neither class),    *)
(*   document, tiny (under 4 characters), fragment (under 8), brief        *)
(*   (under 16), and risky (a term of the seven risk categories).          *)
(* No hint at all is an ordinary question.  The empty text does not occur. *)
(***************************************************************************)
EXTENDS Naturals, Sequences, SequencesExt, FiniteSetsExt

ModeNames == {"speed", "expert", "hermes", "auto", "search", "deep_research",
              "create", "data_analysis", "debate"}
WebTools == {"web_search", "http_get"}

Says(q, hints) == q \cap hints # {}

-----------------------------------------------------------------------------
(***************************************************************************)
(* agents/planning.py: the signals.                                        *)
(***************************************************************************)
\* The user's file catalogue, not content research about it.
IsInventoryQuestion(q) == "catalog" \in q /\ ~Says(q, {"web", "strong", "medium", "mediums"})

\* Confidence, in percent, that the question wants multi-step research.
ResearchScore(q) ==
    IF Says(q, {"tiny", "fragment"}) THEN 0
    ELSE IF "strong" \in q THEN IF Says(q, {"medium", "mediums", "recap"}) THEN 95 ELSE 85
    ELSE IF ~Says(q, {"medium", "mediums"}) THEN 0
    ELSE IF "brief" \in q THEN 40
    ELSE IF "mediums" \in q THEN 60 ELSE 55

\* The keyword intent: the first class of words found wins.
ClassifyIntent(q) ==
    IF "action" \in q THEN "action"
    ELSE IF Says(q, {"strong", "medium", "mediums", "recap", "vague"}) THEN "deep_research"
    ELSE IF "lookup" \in q THEN "knowledge" ELSE "chat"

WantsResearchFirst(q) == "research_first" \in q
LooksLikeCode(q)      == "code" \in q /\ ~WantsResearchFirst(q)
DeliverableKind(q) ==
    IF "code" \in q THEN "code"
    ELSE IF Says(q, {"document", "recap"}) THEN "document" ELSE "factual"

DebateSides(q)          == "two_sides" \in q
LooksLikeMultiAgent(q)  == Says(q, {"agents", "debate"})
LooksLikeDebate(q)      == DebateSides(q) /\ LooksLikeMultiAgent(q)

IsCasual(q)        == "casual" \in q
ShouldRecognize(q) == "tiny" \notin q /\ ~IsCasual(q)

-----------------------------------------------------------------------------
(***************************************************************************)
(* agents/intent_router.py.  allow is << >>, every tool, or << set >>.     *)
(***************************************************************************)
RouteDecision ==
    [exec |-> "auto", profile |-> "general", tools |-> FALSE, multi |-> FALSE,
     allow |-> << >>, noweb |-> FALSE, mode |-> "auto", asked |-> "auto"]

Native(mode, asked)  == [RouteDecision EXCEPT !.mode = mode, !.asked = asked]
Create(asked)        == [Native("create", asked) EXCEPT !.noweb = TRUE]
Debate(asked)        == [Native("debate", asked) EXCEPT !.exec = "agent", !.profile = "debate",
                                                        !.multi = TRUE, !.noweb = TRUE]
Crew(profile, mode, asked) ==
    [Native(mode, asked) EXCEPT !.exec = "agent", !.profile = profile,
                                !.tools = TRUE, !.multi = TRUE]
WebFirst(mode)       == [Native(mode, mode) EXCEPT !.tools = TRUE, !.allow = <<WebTools>>]
ResearchCrew(kb, mode, asked) ==
    Crew(IF kb THEN "parallel_research" ELSE "deep_research", mode, asked)

EffectiveMode(mode) == IF mode \in ModeNames THEN mode ELSE "speed"

CatalogTurn(mode, kb, q) ==
    mode \in {"speed", "expert", "deep_research", "auto"} /\ kb /\ IsInventoryQuestion(q)

\* expert and deep_research: chit-chat and code stay with one native agent.
ResearchMode(mode, kb, q) ==
    IF IsCasual(q) THEN Native("auto", mode)
    ELSE IF LooksLikeCode(q) THEN Create(mode)
    ELSE ResearchCrew(kb, mode, mode)

\* auto: an explicit wish first, then a guess that must be confident.
AutoMode(kb, q) ==
    IF LooksLikeDebate(q) THEN Debate("auto")
    ELSE IF LooksLikeMultiAgent(q) \/ (ClassifyIntent(q) = "deep_research" /\ ResearchScore(q) >= 50)
         THEN ResearchCrew(kb, "deep_research", "auto")
    ELSE RouteDecision

\* decide_route, the keyword router.
DecideRoute(mode0, kb, q) ==
    LET mode == EffectiveMode(mode0) IN
    IF CatalogTurn(mode, kb, q) THEN [Native("auto", mode) EXCEPT !.noweb = TRUE]
    ELSE CASE mode \in {"speed", "search"}         -> WebFirst(mode)
           [] mode = "hermes"                      -> Native(mode, mode)
           [] mode \in {"expert", "deep_research"} -> ResearchMode(mode, kb, q)
           [] mode = "debate"                      -> Debate(mode)
           [] mode = "create"                      -> Create(mode)
           [] mode = "data_analysis"               -> [Native(mode, mode) EXCEPT !.tools = TRUE]
           [] mode = "auto"                        -> AutoMode(kb, q)

\* decide_route_with_intent.  intent is << >> or << [route, kind, sure, hints] >>.
DecideRouteWithIntent(mode, kb, q, intent) ==
    IF mode = "speed" \/ CatalogTurn(mode, kb, q) \/ intent = << >> \/ ~intent[1].sure
    THEN DecideRoute(mode, kb, q)
    ELSE LET i == intent[1] IN
         IF i.kind = "code" THEN Create(mode)
         ELSE IF i.route = "debate" THEN Debate(mode)
         ELSE IF i.route \in {"deep_research", "parallel_research"}
              THEN ResearchCrew(kb, "deep_research", mode)
         ELSE IF i.route \in {"task_decomposition", "write_review"} THEN Crew(i.route, mode, mode)
         ELSE [Native(mode, mode) EXCEPT
                 !.tools = i.hints # {}, !.allow = IF i.hints = {} THEN << >> ELSE <<i.hints>>]

\* filter_tool_names.
FilterTools(names, route) ==
    { n \in names : /\ route.allow = << >> \/ n \in route.allow[1]
                    /\ ~route.noweb \/ n \notin WebTools }

\* memory_mode: what a mode may read and write of the user's memory.
MemoryMode(mode) ==
    CASE mode = "speed" -> [read |-> FALSE, summary |-> TRUE, write |-> TRUE]
      [] mode = "hermes" \/ mode \notin ModeNames -> [read |-> FALSE, summary |-> FALSE, write |-> FALSE]
      [] OTHER -> [read |-> TRUE, summary |-> TRUE, write |-> TRUE]

-----------------------------------------------------------------------------
(***************************************************************************)
(* agents/intent_service.py: one classification, over the sequence of the  *)
(* replies the model would give, a decision [route, kind, sure, hints] or  *)
(* "timeout", "provider_error", "crash" or "garbage".                      *)
(***************************************************************************)
CoerceRoute(r) == IF r = "research" THEN "deep_research" ELSE r
ParseIntent(raw) ==
    IF raw.route = "none" THEN << >>
    ELSE << [raw EXCEPT !.route = CoerceRoute(@),
                        !.kind = IF @ \in {"code", "document", "factual"} THEN @ ELSE "factual"] >>

\* The first usable reply within the retries; an unexpected error gives up.
JudgeIntent(replies, retries) ==
    LET Try[k \in 1..(retries + 2)] ==
            IF k > retries + 1 \/ k > Len(replies) THEN << >>
            ELSE IF replies[k].fails = "crash" THEN << >>
            ELSE IF replies[k].fails # "no" \/ ParseIntent(replies[k].raw) = << >> THEN Try[k + 1]
            ELSE ParseIntent(replies[k].raw)
    IN  Try[1]

-----------------------------------------------------------------------------
(***************************************************************************)
(* services/chat_service.py: what one turn may use.                        *)
(***************************************************************************)
Ok(v)      == [ok |-> TRUE, code |-> "", value |-> v]
Refused(c) == [ok |-> FALSE, code |-> c, value |-> << >>]

LegacyAgent(req) == req.exec = "agent" /\ req.mode = "auto"

\* _resolve_turn_route: inline and durable dispatch both start from it.
ResolveTurnRoute(req, kb) ==
    LET route == DecideRoute(req.mode, kb, req.q)
    IN  IF LegacyAgent(req)
        THEN [route EXCEPT !.exec = "agent", !.tools = TRUE, !.multi = TRUE,
                           !.profile = IF req.profile = "" THEN "deep_research" ELSE req.profile]
        ELSE route

\* The classifier is skipped for the fast and the expert mode.
ClassifiesIntent(req) ==
    ~LegacyAgent(req) /\ req.mode \notin {"speed", "expert"} /\ ShouldRecognize(req.q)

\* The @-references of a request: << kind, id >> with kind kb, doc or file.
SplitMentions(mentions, kind) == { m[2] : m \in { x \in mentions : x[1] = kind } }

MayUse(user, owner) == owner = user.id \/ user.admin

\* _apply_mentions: a document brings its knowledge base along; both halves
\* count against the cap.  docKb and docOwner are << >> for a missing row.
ApplyMentions(user, mentions, kbs, docs, cap) ==
    LET docIds == SplitMentions(mentions, "doc")
        added  == { docs[d].kb : d \in docIds \cap DOMAIN docs } \cup SplitMentions(mentions, "kb")
    IN  IF \E d \in docIds : d \notin DOMAIN docs \/ ~MayUse(user, docs[d].owner)
        THEN Refused("document_not_found")
        ELSE IF Cardinality(kbs \cup added) > cap THEN Refused("too_many_knowledge_bases")
        ELSE Ok([kbs |-> kbs \cup added, docs |-> docIds])

\* The set a turn asks for: its own, or else the one bound to the conversation.
AskedBases(req, bound) == IF req.kbs # {} THEN req.kbs ELSE bound

\* Inline: one foreign or missing base refuses the turn; a mention makes the
\* selection explicit.
InlineScope(user, req, bound, kbOwner, docs, cap) ==
    LET merged == ApplyMentions(user, req.mentions, AskedBases(req, bound), docs, cap)
    IN  IF ~merged.ok THEN merged
        ELSE IF \E k \in merged.value.kbs : k \notin DOMAIN kbOwner \/ ~MayUse(user, kbOwner[k])
        THEN Refused("knowledge_base_not_found")
        ELSE Ok([kbs |-> merged.value.kbs, docs |-> merged.value.docs,
                 explicit |-> req.kbs # {} \/ req.mentions # {}])

\* Durable: the bases persisted with the run; one no longer usable is dropped
\* without a word.
DurableScope(user, req, bound, kbOwner, cap) ==
    LET usable == { k \in AskedBases(req, bound) :
                        k \in DOMAIN kbOwner /\ MayUse(user, kbOwner[k]) }
    IN  [kbs  |-> CHOOSE s \in SUBSET usable :
                    Cardinality(s) = IF Cardinality(usable) < cap THEN Cardinality(usable) ELSE cap,
         docs |-> SplitMentions(req.mentions, "doc"),
         explicit |-> req.kbs # {}]

\* _resolve_model_config.  models is a sequence of [id, owner, embedding], the
\* oldest first; wanted and bound are << >> or << id >>.
ModelVisible(m, user) == m.owner = "system" \/ m.owner = user.id

ResolveModel(models, user, wanted, bound) ==
    LET named == wanted \o bound
        chats == SelectSeq(models, LAMBDA m : ~m.embedding /\ ModelVisible(m, user))
    IN  IF named # << >>
        THEN IF \E i \in DOMAIN models : models[i].id = named[1]
             THEN LET m == CHOOSE x \in ToSet(models) : x.id = named[1]
                  IN  IF ModelVisible(m, user) THEN Ok(m) ELSE Refused("model_not_found")
             ELSE Refused("model_not_found")
        ELSE IF chats = << >> THEN Refused("no_model_configured") ELSE Ok(chats[1])

\* _resolve_model_for_durable_run: the model the run was sent with or none;
\* an older run falls back to the conversation, its snapshot, the default.
ResolveModelForRun(models, user, selected, bound, snapshot) ==
    LET seen == SelectSeq(models, LAMBDA m : ModelVisible(m, user))
        pick(ids) == SelectSeq(seen, LAMBDA m : m.id \in ids)
        chats == SelectSeq(seen, LAMBDA m : ~m.embedding)
        own   == SelectSeq(pick(snapshot), LAMBDA m : m.owner = user.id)
    IN  IF selected # << >> THEN pick({selected[1]})
        ELSE IF pick(ToSet(bound)) # << >> THEN pick(ToSet(bound))
        ELSE IF own # << >> THEN <<own[1]>>
        ELSE IF pick(snapshot) # << >> THEN <<pick(snapshot)[1]>>
        ELSE IF chats # << >> THEN <<chats[1]>> ELSE << >>

-----------------------------------------------------------------------------
(***************************************************************************)
(* rag/budget.py and answer_gate.context_budget_for: tokens of evidence.   *)
(* 0 is no limit.  share is in percent.                                    *)
(***************************************************************************)
ContextBudget(window, reserved, fallback, ceiling, share, least) ==
    IF window = 0 THEN fallback
    ELSE LET left   == IF reserved >= window THEN 0 ELSE window - reserved
             wanted == (left * share) \div 100
             capped == IF ceiling > 0 /\ wanted > ceiling THEN ceiling ELSE wanted
         IN  IF capped > 0 /\ capped < least THEN fallback ELSE capped
=============================================================================
