------------------------------ MODULE Memories ------------------------------
(***************************************************************************)
(* What the assistant remembers of a user: candidates, consent, the vector *)
(* points, what reaches a prompt, and the one write at the end of a turn   *)
(* with its anchor and its sweeper (agents/memory_service.py,              *)
(* agents/memory/, api/memories.py).                                       *)
(*                                                                         *)
(* A state is a record: rows by id, the points the vector store holds by   *)
(* the id of their memory, and the turns that have an anchor.  An          *)
(* operation gives the state after it; a request that is refused or raises *)
(* is rolled back and gives the state before it.                           *)
(***************************************************************************)
LOCAL INSTANCE Naturals
LOCAL INSTANCE Sequences
LOCAL INSTANCE FiniteSets
LOCAL INSTANCE SequencesExt
LOCAL INSTANCE FiniteSetsExt
LOCAL INSTANCE Functions

CONSTANTS TopK,     \* memories one prompt may hold
          Batch,    \* turns one sweep may redo
          New(_, _) \* the id of the row a turn adds for a text

NoMemory == [rows |-> <<>>, points |-> <<>>, anchors |-> {}]

Ids(m) == DOMAIN m.rows
Owned(m, u, x) == x \in Ids(m) /\ m.rows[x].user = u
SameText(m, u, text) == { x \in Ids(m) : m.rows[x].user = u /\ m.rows[x].text = text }

Put(f, x, v)  == [y \in DOMAIN f \cup {x} |-> IF y = x THEN v ELSE f[y]]
Without(f, x) == Restrict(f, DOMAIN f \ {x})

-----------------------------------------------------------------------------
\* A candidate is new and inactive, or the row that has its text already.  Two
\* rows with that text make the query raise.
Propose(m, u, text, new) ==
    IF SameText(m, u, text) # {} \/ text = "" THEN m
    ELSE [m EXCEPT !.rows = Put(@, new, [user |-> u, text |-> text, active |-> FALSE,
                                         embedded |-> FALSE])]
ProposeRaises(m, u, text) == text = "" \/ Cardinality(SameText(m, u, text)) > 1

\* The point of a memory is written under the memory's own id, so a second
\* activation replaces the first.
Embedded(m, x) ==
    [m EXCEPT !.rows[x].embedded = TRUE,
              !.points = Put(@, x, [user |-> m.rows[x].user, text |-> m.rows[x].text])]

Activate(m, u, x)   == IF Owned(m, u, x) THEN Embedded([m EXCEPT !.rows[x].active = TRUE], x) ELSE m
Deactivate(m, u, x) == IF Owned(m, u, x) THEN [m EXCEPT !.rows[x].active = FALSE] ELSE m

\* All of a user's memories at once: no consent to any, or consent to each.
Disable(m, u) ==
    [m EXCEPT !.rows = [x \in Ids(m) |-> [m.rows[x] EXCEPT !.active = @ /\ m.rows[x].user # u]]]
ActivateAll(m, u) ==
    FoldSet(LAMBDA x, n : Activate(n, u, x), m, { x \in Ids(m) : Owned(m, u, x) /\ ~m.rows[x].active })

Edit(m, u, x, text) ==
    IF ~Owned(m, u, x) \/ text = "" THEN m
    ELSE LET n == [m EXCEPT !.rows[x].text = text]
         IN  IF n.rows[x].active THEN Embedded(n, x) ELSE n

\* The row goes first; that the vector store fails is only logged.
Delete(m, u, x, storeFails) ==
    IF ~Owned(m, u, x) THEN m
    ELSE [m EXCEPT !.rows = Without(@, x),
                   !.points = IF m.rows[x].embedded /\ ~storeFails THEN Without(@, x) ELSE @]

-----------------------------------------------------------------------------
\* The search ranks the points of the user and cuts at TopK; rows that are
\* inactive, expired or gone are dropped after the cut.
Retrieve(m, u, nearest, expired) ==
    IF \A x \in Ids(m) : ~(Owned(m, u, x) /\ m.rows[x].active) THEN <<>>
    ELSE LET mine == SelectSeq(nearest, LAMBDA x : x \in DOMAIN m.points /\ m.points[x].user = u)
             hits == SubSeq(mine, 1, IF Len(mine) < TopK THEN Len(mine) ELSE TopK)
         IN  SelectSeq(hits, LAMBDA x : x \in Ids(m) /\ m.rows[x].active /\ x \notin expired)

\* The prompt of a turn: what the search found, else the latest active ones.  The
\* expired are dropped after the cut here too.
ForPrompt(m, u, nearest, latest, expired, searchable) ==
    LET found  == IF searchable THEN Retrieve(m, u, nearest, expired) ELSE <<>>
        active == SelectSeq(latest, LAMBDA x : Owned(m, u, x) /\ m.rows[x].active)
        recent == SubSeq(active, 1, IF Len(active) < TopK THEN Len(active) ELSE TopK)
    IN  IF found # <<>> THEN found ELSE SelectSeq(recent, LAMBDA x : x \notin expired)

-----------------------------------------------------------------------------
\* Modes: hermes and unknown modes neither read nor write (memory_mode).
Writes(mode) == mode \in {"speed", "create", "expert"}

\* A candidate of a turn is inferred, so it too starts inactive.
ProposeCandidate(m, t, text, new) == Propose(m, t.user, text, new)

\* The end of a turn: the anchor, then the candidates of the user's message, in
\* one transaction.  A deleted message leaves no anchor; a turn with an anchor is
\* left alone; a candidate that raises is skipped.
Committed(m, t, mode, exists) ==
    IF ~exists \/ t.id \in m.anchors THEN m
    ELSE LET anchored == [m EXCEPT !.anchors = @ \cup {t.id}]
         IN  IF ~Writes(mode) THEN anchored
             ELSE FoldLeft(LAMBDA n, text : ProposeCandidate(n, t, text, New(t, text)), anchored, t.said)

\* What a sweep redoes: of every conversation the latest answer in the window, if
\* it has no anchor.  The turn need not be over, and its mode is not looked up.
Missed(m, turns) ==
    { t \in turns : /\ t.id \notin m.anchors
                    /\ \A s \in turns : s.conversation = t.conversation => s.id <= t.id }
Swept(m, turns) ==
    LET due  == SetToSortSeq(Missed(m, turns), LAMBDA s, t : s.id < t.id)
        some == SubSeq(due, 1, IF Len(due) < Batch THEN Len(due) ELSE Batch)
    IN  FoldLeft(LAMBDA n, t : Committed(n, t, "expert", TRUE), m, some)
=============================================================================
