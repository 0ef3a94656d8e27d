------------------------------ MODULE FencedJob ------------------------------
(***************************************************************************)
(* What the ingestion queue promises: every document is a job; a claim     *)
(* takes the job for one worker under a new epoch and may not be made      *)
(* while the job is held; from then on only the worker of the newest epoch *)
(* moves the job or closes it, however long an earlier one takes to find   *)
(* out.  A hold that lapsed never comes back.                              *)
(***************************************************************************)
EXTENDS Integers

CONSTANTS
    Docs,     \* jobs
    Workers   \* who may claim them

VARIABLES
    phase,  \* where each job stands
    epoch,  \* claims of each job so far
    held,   \* whether the newest claim still excludes others
    claim   \* per worker: the job and the epoch it works for

vars == <<phase, epoch, held, claim>>

Phases == {"absent", "queued", "working", "indexed", "failed", "gone"}
Known(d) == phase[d] \notin {"absent", "gone"}
NoClaim == [doc |-> CHOOSE d \in Docs : TRUE, epoch |-> 0]
Idle(w) == claim[w].epoch = 0
IsCurrent(w) == /\ ~ Idle(w)
                /\ Known(claim[w].doc)
                /\ claim[w].epoch = epoch[claim[w].doc]

Init ==
    /\ phase = [d \in Docs |-> "absent"]
    /\ epoch = [d \in Docs |-> 0]
    /\ held = [d \in Docs |-> FALSE]
    /\ claim = [w \in Workers |-> NoClaim]

\* A job comes into being, is asked for again, or goes.
Add(d) ==
    /\ phase[d] = "absent"
    /\ phase' = [phase EXCEPT ![d] = "queued"]
    /\ UNCHANGED <<epoch, held, claim>>

Request(d) ==
    /\ Known(d) /\ ~ held[d]
    /\ phase' = [phase EXCEPT ![d] = "queued"]
    /\ UNCHANGED <<epoch, held, claim>>

Remove(d) ==
    /\ Known(d)
    /\ phase' = [phase EXCEPT ![d] = "gone"]
    /\ held' = [held EXCEPT ![d] = FALSE]
    /\ UNCHANGED <<epoch, claim>>

\* A claim of a job nobody holds, under an epoch nobody had.
Take(w, d) ==
    /\ Idle(w)
    /\ phase[d] \in {"queued", "working"} /\ ~ held[d]
    /\ phase' = [phase EXCEPT ![d] = "working"]
    /\ epoch' = [epoch EXCEPT ![d] = @ + 1]
    /\ held' = [held EXCEPT ![d] = TRUE]
    /\ claim' = [claim EXCEPT ![w] = [doc |-> d, epoch |-> epoch[d] + 1]]

\* The hold runs out; the claim stays the newest until there is another.
Lapse(d) ==
    /\ held[d]
    /\ held' = [held EXCEPT ![d] = FALSE]
    /\ UNCHANGED <<phase, epoch, claim>>

\* The newest claim reports where the job stands.
Move(w) ==
    /\ IsCurrent(w)
    /\ \E p \in {"working", "indexed", "failed"} : phase' = [phase EXCEPT ![claim[w].doc] = p]
    /\ UNCHANGED <<epoch, held, claim>>

\* It is over: the job stays where it was moved to, goes back to the queue, or
\* has failed.
Close(w) ==
    /\ IsCurrent(w)
    /\ \E p \in {phase[claim[w].doc], "queued", "failed"} :
           phase' = [phase EXCEPT ![claim[w].doc] = p]
    /\ held' = [held EXCEPT ![claim[w].doc] = FALSE]
    /\ claim' = [claim EXCEPT ![w] = NoClaim]
    /\ UNCHANGED epoch

\* A worker gives up, dies or learns that its claim is an old one.
Leave(w) ==
    /\ ~ Idle(w)
    /\ claim' = [claim EXCEPT ![w] = NoClaim]
    /\ UNCHANGED <<phase, epoch, held>>

Next ==
    \/ \E d \in Docs : Add(d) \/ Request(d) \/ Remove(d) \/ Lapse(d)
    \/ \E w \in Workers : (\E d \in Docs : Take(w, d)) \/ Move(w) \/ Close(w) \/ Leave(w)

Spec == Init /\ [][Next]_vars
=============================================================================
