---------------------------- MODULE MCRunStream -----------------------------
(***************************************************************************)
(* Model-checking instance of RunStream: the chat follows an answer of one *)
(* token, with a fault and an act, an answer of two tokens or a graph,     *)
(* with one of them, or an answer that is withdrawn, replaced or           *)
(* corrected; the panel an approval, with both.                            *)
(***************************************************************************)
EXTENDS RunStream

Script(events, faults, acts) == [events |-> events, faults |-> faults, acts |-> acts]
Tokens == << Ev("token", 1), Ev("token", 2) >>
Graph  == << Ev("agent_graph", 0), Ev("run_status", "completed") >>
MCScripts ==
    [chat  |-> { Script(<< Ev("token", 1) >>, 1, 1), Script(Tokens, 1, 0), Script(Tokens, 0, 1),
                 Script(Graph, 1, 0), Script(Graph, 0, 1),
                 Script(<< Ev("token", 1), Ev("validation", "refused") >>, 0, 0),
                 Script(<< Ev("token", 1), Ev("replace", 2) >>, 0, 0),
                 Script(<< Ev("token", 1), Ev("corrected", 2) >>, 0, 0) },
     panel |-> { Script(<< Ev("approval_required", 1) >>, 1, 1) }]
=============================================================================
