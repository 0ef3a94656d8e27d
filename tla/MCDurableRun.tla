---------------------------- MODULE MCDurableRun ----------------------------
(***************************************************************************)
(* Model-checking instance of DurableRun: workers are interchangeable, and *)
(* so are recovery schedulers.  Memories, which a worker writes at the end *)
(* of a turn, is evaluated over short histories at start-up.               *)
(***************************************************************************)
EXTENDS DurableRun, TLC, FiniteSets, FiniteSetsExt, Naturals, Sequences, SequencesExt

Symmetry == Permutations(Workers) \union Permutations(Schedulers)

(***************************************************************************)
(* What memory owes the user, over every short sequence of the requests of *)
(* two users and of the ends of their turns.                               *)
(***************************************************************************)
RowOf(t, text) == <<t.id, text>>

Mem == INSTANCE Memories WITH TopK <- 1, Batch <- 1, New <- RowOf

People   == {"u", "v"}
Said     == {"tea", "go"}
MemoryId == 1..3

\* Requests, with the consent they give or take: a user consents to a memory by
\* activating it, and takes the consent back.
Requests(w) ==
    LET m == w.m
        NewId == Max(DOMAIN m.rows \cup {w.last}) + 1
        Same(n) == [w EXCEPT !.m = n]
    IN  (IF NewId \in MemoryId
            THEN { [Same(Mem!Propose(m, u, s, NewId)) EXCEPT !.last = NewId] : u \in People, s \in Said }
            ELSE {})
        \cup { [Same(Mem!Activate(m, u, x)) EXCEPT
                    !.consent = IF Mem!Owned(m, u, x) THEN @ \cup {x} ELSE @] : u \in People, x \in MemoryId }
        \cup { [Same(Mem!Deactivate(m, u, x)) EXCEPT
                    !.consent = IF Mem!Owned(m, u, x) THEN @ \ {x} ELSE @] : u \in People, x \in MemoryId }
        \cup { [Same(IF a THEN Mem!ActivateAll(m, u) ELSE Mem!Disable(m, u)) EXCEPT
                    !.consent = LET mine == { x \in DOMAIN m.rows : m.rows[x].user = u }
                                IN  IF a THEN @ \cup mine ELSE @ \ mine] : u \in People, a \in BOOLEAN }
        \cup { Same(Mem!Edit(m, u, x, s)) : u \in People, x \in MemoryId, s \in Said }
        \cup { Same(Mem!Delete(m, u, x, f)) : u \in People, x \in MemoryId, f \in BOOLEAN }

Reached(n) ==
    FoldLeft(LAMBDA ws, i : ws \cup UNION { Requests(w) : w \in ws },
             { [m |-> Mem!NoMemory, last |-> 0, consent |-> {}] }, [i \in 1..n |-> i])

Orders == SetToSeqs(MemoryId)
Given(w, u) == { ToSet(Mem!ForPrompt(w.m, u, near, latest, gone, s)) :
                   near \in Orders, latest \in {<<1, 2, 3>>, <<3, 2, 1>>}, gone \in {{}, {1}}, s \in BOOLEAN }

\* Only what its owner consents to reaches a prompt, never an expired memory and
\* never another user's, whatever was edited, deleted or left in the vector
\* store; and an active memory is searched under the text it has now
\* (memory_service.py:129, :203, :242).
ASSUME OnlyConsented ==
    \A w \in Reached(5), u \in People :
        /\ \A x \in UNION Given(w, u) : x \in w.consent /\ w.m.rows[x].user = u
        /\ \A x \in DOMAIN w.m.rows : w.m.rows[x].active =>
               /\ w.m.rows[x].embedded /\ x \in DOMAIN w.m.points
               /\ w.m.points[x].text = w.m.rows[x].text
        /\ \A near \in Orders, s \in BOOLEAN :
               1 \notin ToSet(Mem!ForPrompt(w.m, u, near, near, {1}, s))

\* A point may outlive its memory's consent, or the memory itself; the search
\* still counts it, so an active memory among the TopK nearest active ones may
\* be left out of the prompt (memory_service.py:266).
ASSUME StalePointsCrowdOut ==
    \E w \in Reached(4) : \E near \in Orders :
        LET active == { x \in DOMAIN w.m.rows : w.m.rows[x].active /\ w.m.rows[x].user = "u" }
        IN  Cardinality(active) <= 1 /\ ~(active \subseteq ToSet(Mem!Retrieve(w.m, "u", near, {})))

\* The texts of a user's memories are kept apart by Propose and not by Edit: two
\* rows may end with one text, which can then be proposed no more
\* (memory_service.py:102, :182).
ASSUME EditMayDuplicate ==
    \E w \in Reached(3) : Mem!ProposeRaises(w.m, "u", "tea")

-----------------------------------------------------------------------------
\* Three turns of one user in two conversations.  The inline task, the worker and
\* the sweeper may each end a turn, in any order; a crash is an end that is not
\* there, since the anchor and the candidates commit together.
Turns == { [id |-> 1, conversation |-> "c", user |-> "u", said |-> <<"tea">>],
           [id |-> 2, conversation |-> "c", user |-> "u", said |-> <<"tea", "go">>],
           [id |-> 3, conversation |-> "d", user |-> "u", said |-> <<"go">>] }
Modes == [1..3 -> {"speed", "hermes"}]

Ends(m, mode) ==
    { Mem!Committed(m, t, mode[t.id], e) : t \in Turns, e \in BOOLEAN }
      \cup { Mem!Swept(m, S) : S \in SUBSET Turns }
Ended(n, mode) ==
    FoldLeft(LAMBDA ms, i : ms \cup UNION { Ends(m, mode) : m \in ms }, {Mem!NoMemory}, [i \in 1..n |-> i])

\* However often and by whomever a turn is ended, it writes once: the second end
\* changes nothing, no text is a candidate twice, and no candidate is active
\* without being asked for (facade.py:83).
ASSUME TurnsCommitOnce ==
    \A mode \in Modes : \A m \in Ended(4, mode) :
        /\ \A t \in Turns : t.id \in m.anchors => Mem!Committed(m, t, "expert", TRUE) = m
        /\ \A s \in Said : Cardinality(Mem!SameText(m, "u", s)) <= 1
        /\ \A x \in DOMAIN m.rows : ~m.rows[x].active /\ x[1] \in m.anchors

\* Sweeps that see every turn redo the last turn of each conversation, one batch
\* at a time, and never an earlier one (sweeper.py:82).
ASSUME SweepsCatchUp ==
    \A mode \in Modes : \A m \in Ended(2, mode) :
        LET once  == Mem!Swept(m, Turns)
            twice == Mem!Swept(once, Turns)
        IN  /\ Cardinality(once.anchors \ m.anchors) <= 1
            /\ {2, 3} \subseteq twice.anchors
            /\ 1 \in twice.anchors => 1 \in m.anchors

\* A sweep does not know the mode: a hermes turn that it reaches before the turn's
\* own end does writes candidates, which that end would not (sweeper.py:122).
ASSUME SweepWritesForHermes ==
    LET hermes == [i \in 1..3 |-> "hermes"]
        own    == FoldSet(LAMBDA t, m : Mem!Committed(m, t, "hermes", TRUE), Mem!NoMemory, Turns)
    IN  /\ own.rows = Mem!NoMemory.rows /\ own.anchors = 1..3
        /\ \E m \in Ended(1, hermes) : m.rows # Mem!NoMemory.rows
=============================================================================
