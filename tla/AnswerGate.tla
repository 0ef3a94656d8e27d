----------------------------- MODULE AnswerGate -----------------------------
(***************************************************************************)
(* The deterministic gate an answer passes before it is kept               *)
(* (rag/risk.py, rag/claims.py, rag/citations.py, rag/postprocess.py,      *)
(* rag/grounding.py, services/answer_gate.py).                             *)
(*                                                                         *)
(* An answer is a set of claims [cites, pii] and what is odd about the     *)
(* rest of it: none, empty, control (a control character), fence (nothing  *)
(* outside a code block, so no claim can be cut), long, loose (personal    *)
(* data outside every claim).  A pack maps the source numbers 1..n given   *)
(* to the model to the chunks retrieved, as they were at retrieval.        *)
(***************************************************************************)
EXTENDS Naturals, Sequences, FiniteSets

Oddities == {"none", "empty", "control", "fence", "long", "loose"}
NoText == [claims |-> {}, odd |-> "empty", note |-> ""]
Text(claims, odd) == [claims |-> claims, odd |-> odd, note |-> ""]
Refusal(reason)   == [claims |-> {}, odd |-> "none", note |-> reason]

\* classify_risk: a strong or a weak term of any category, or a configured one.
IsHighRisk(q) == "risky" \in q

-----------------------------------------------------------------------------
(***************************************************************************)
(* claims.py and citations.py.                                             *)
(***************************************************************************)
BuildClaims(a)       == IF a.odd \in {"empty", "fence"} THEN {} ELSE a.claims
Evidence(c, pack)    == { pack[n] : n \in c.cites \cap DOMAIN pack }
RemoveClaims(a, bad) == [a EXCEPT !.claims = @ \ bad]

\* sanitize_unbacked_source_markers: a marker without a source is stripped.
StripMarkers(a, count) ==
    [a EXCEPT !.claims = { [c EXCEPT !.cites = { n \in @ : n <= count }] : c \in @ }]

\* cited_source_indexes of the claims that stand.
CitedSources(claims) == UNION { c.cites : c \in claims }

-----------------------------------------------------------------------------
(***************************************************************************)
(* postprocess.py.  chunks: what the database says now of every chunk,     *)
(* [there, text, status, owner]; item: [id, text] of the pack.             *)
(***************************************************************************)
\* Seeded fault: whether the chunk still says what was retrieved is not compared.
RecheckIgnoresText(item, chunks, user) ==
    LET row == chunks[item.id] IN
    IF ~row.there                  THEN "evidence_missing"
    ELSE IF row.status # "indexed" THEN "document_status"
    ELSE IF row.owner # user       THEN "unauthorized"
    ELSE "ok"

AuthorizationRecheck(item, chunks, user) ==
    LET row == chunks[item.id] IN
    IF ~row.there                  THEN "evidence_missing"
    ELSE IF row.text # item.text   THEN "revision_changed"
    ELSE IF row.status # "indexed" THEN "document_status"
    ELSE IF row.owner # user       THEN "unauthorized"
    ELSE "ok"

Outcome(answer, status, action, reason) ==
    [answer |-> answer, status |-> status, action |-> action, reason |-> reason]

SchemaProblem(a) == a.odd \in {"empty", "control"} \/ BuildClaims(a) = {}

\* Claims citing a number the request never gave, claims whose evidence no
\* longer holds, claims with personal data.
Fabricated(a, pack) == { c \in BuildClaims(a) : c.cites \ DOMAIN pack # {} }
Stale(a, pack, chunks, user) ==
    { c \in BuildClaims(a) \ Fabricated(a, pack) :
        \E i \in Evidence(c, pack) : AuthorizationRecheck(i, chunks, user) # "ok" }
HasPii(a) == a.odd = "loose" \/ \E c \in BuildClaims(a) : c.pii
Leaky(a)  == { c \in BuildClaims(a) : c.pii }

HighRiskGrounded(claims, pack) == \E c \in claims : Evidence(c, pack) # {}

\* gate_answer, for a context [pack, chunks, user, high, explicit, insufficient].
GateAnswer(a, ctx) ==
    LET bad  == Fabricated(a, ctx.pack) \cup Stale(a, ctx.pack, ctx.chunks, ctx.user) \cup Leaky(a)
        kept == BuildClaims(a) \ bad
        cut  == StripMarkers(RemoveClaims(a, bad), Cardinality(DOMAIN ctx.pack))
        hard == (IF ctx.high /\ ~HighRiskGrounded(kept, ctx.pack) THEN {"high_risk_grounding"} ELSE {})
                  \cup (IF a.odd = "long" THEN {"length"} ELSE {})
                  \cup (IF a.odd = "loose" THEN {"pii_policy"} ELSE {})
    IN  IF a.odd = "empty" /\ ctx.insufficient /\ (ctx.explicit \/ ctx.high)
        THEN Outcome(NoText, "insufficient_evidence", "refuse", "insufficient_evidence")
        ELSE IF SchemaProblem(a)
        THEN Outcome(a, "answered", "retry_format_once", "schema_invalid")
        ELSE IF hard # {}
        \* the reason given is the first name of the list, whichever check failed
        THEN Outcome(NoText, "refused", "refuse", "high_risk_grounding")
        ELSE IF bad # {} /\ kept = {}
        THEN Outcome(NoText, "insufficient_evidence", "refuse", "all_claims_dropped")
        ELSE IF bad # {} \/ HasPii(a)
        THEN Outcome(cut, "answered", "drop_claims", "")
        ELSE Outcome(cut, "answered", "return_answer", "")

\* finalize_answer_result: the sources a delivered answer still cites.
AnswerResult(outcome) ==
    [status |-> outcome.status, answer |-> outcome.answer, cited |-> CitedSources(outcome.answer.claims)]

-----------------------------------------------------------------------------
(***************************************************************************)
(* grounding.py: the judge only audits.                                    *)
(***************************************************************************)
ShouldAudit(high, count, full, ratio, sampled) ==
    count > 0 /\ (high \/ count >= full \/ (sampled /\ ratio > 0))

\* Verdicts per claim: the judge's for a claim with evidence, if it answered.
AuditVerdict(c, pack, judged) ==
    IF Evidence(c, pack) = {} THEN "unsupported"
    ELSE IF c \in DOMAIN judged THEN judged[c] ELSE "unknown"

-----------------------------------------------------------------------------
(***************************************************************************)
(* answer_gate.py: the gate of one turn.                                   *)
(***************************************************************************)
\* open_turn_gate: the tier is fixed before anything is generated.
OpenGate(q, kbs, explicit, bufferOn) ==
    [high |-> IsHighRisk(q), explicit |-> explicit,
     buffered |-> bufferOn /\ IsHighRisk(q) /\ kbs # {},
     attempted |-> FALSE, insufficient |-> TRUE, pack |-> << >>]

\* retrieve_for_gate: what retrieval found, remembered for the recheck.
RetrieveForGate(gate, pack) ==
    [gate EXCEPT !.attempted = TRUE, !.pack = pack, !.insufficient = pack = << >>]

PreGenerationRefusal(gate) ==
    IF ~gate.attempted \/ ~gate.insufficient THEN ""
    ELSE IF gate.explicit THEN "insufficient_evidence"
    ELSE IF gate.high THEN "refused" ELSE ""

\* TurnGate.finalize: what is stored, and what the client is told to show.
FinalizeGate(gate, a, chunks, user) ==
    LET out == GateAnswer(a, [pack |-> gate.pack, chunks |-> chunks, user |-> user,
                              high |-> gate.high, explicit |-> gate.explicit,
                              insufficient |-> gate.insufficient])
        refused == out.status # "answered"
        cut == ~refused /\ out.action = "drop_claims"
    IN  [answer |-> IF refused THEN Refusal(out.status) ELSE out.answer,
         refused |-> refused, action |-> out.action,
         corrected |-> IF cut THEN <<out.answer>> ELSE << >>]

\* stream_gated at done: the text on the screen once its last frame arrived.
\* The page strips markers without a source from whatever it renders.
ShownAtDone(gate, result, streamed) ==
    LET frame == IF gate.buffered \/ result.refused THEN result.answer
                 ELSE IF result.corrected # << >> THEN result.corrected[1] ELSE streamed
    IN  StripMarkers(frame, Cardinality(DOMAIN gate.pack))
=============================================================================
