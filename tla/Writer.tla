------------------------------- MODULE Writer -------------------------------
(***************************************************************************)
(* The writer of a crew (agents/streaming_writer.py): one answer, streamed *)
(* in up to MaxRounds + 1 rounds of at most two dispatches each.           *)
(*                                                                         *)
(* A dispatch is what the model and the world do to it, a record:          *)
(*   chunks   the texts of its deltas; one last delta carries the rest     *)
(*   finish   the reason the last delta names                              *)
(*   usage    whether the last delta carries the usage                     *)
(*   stop     when Stop is first seen: at the i-th delta, when the stream  *)
(*            is over (Len(chunks) + 2), while the checkpoint is written   *)
(*            (Len(chunks) + 3), or never (greater)                        *)
(*   fails    "no"; "refused" by the budget before the stream; "broken" or *)
(*            "killed" (the task is cancelled) after the chunks; "over",   *)
(*            out of budget after the stream; "spent", by its usage        *)
(*   saves    what writing its checkpoint does: "yes", "no" or "killed"    *)
(*                                                                         *)
(* Waiting while the run is paused, logging and the prompts are left out.  *)
(***************************************************************************)
LOCAL INSTANCE Naturals
LOCAL INSTANCE Sequences
LOCAL INSTANCE SequencesExt

CONSTANTS MaxRounds,   \* AUTO_CONTINUATION_MAX_ROUNDS
          Window       \* comparison_window

C == INSTANCE Continuation

NoCheckpoint == [round |-> 0, status |-> "none"]

Start == [full |-> <<>>, raw |-> <<>>, base |-> <<>>, buffer |-> C!NewBuffer,
          round |-> 0, attempt |-> 1, dispatches |-> 0, finish |-> "stop", stopped |-> FALSE,
          checkpoint |-> NoCheckpoint, saved |-> <<>>, usages |-> {}, recorded |-> {},
          phase |-> "streaming"]

\* Every text of the answer is published and stored in one go.
Say(w, text) == [w EXCEPT !.full = @ \o text]

\* A delta with content: a follow-up round passes it through its buffer.
Read(w, chunk) ==
    LET fed == C!Feed(w.buffer, chunk, w.base, Window)
    IN  IF w.round = 0 THEN [Say(w, chunk) EXCEPT !.raw = @ \o chunk]
        ELSE [Say(w, fed.out) EXCEPT !.raw = @ \o chunk, !.buffer = fed.buffer]

\* Nothing the buffer holds back is lost, however the stream ends.
Flushed(w) == IF w.round = 0 THEN w ELSE Say(w, C!Flush(w.buffer, w.base, Window))

\* The deltas a dispatch reads until it breaks off, fails or ends.
Arriving(a) == CASE a.fails = "refused"            -> 0
                 [] a.fails \in {"broken", "killed"} -> Len(a.chunks)
                 [] OTHER                          -> Len(a.chunks) + 1
StopsAt(w, a) == IF w.stopped THEN 1 ELSE a.stop

\* The stream of one dispatch: Stop is looked at before each delta.
Streamed(w, a) ==
    LET stop  == StopsAt(w, a)
        read  == IF stop <= Arriving(a) THEN stop - 1 ELSE Arriving(a)
        whole == read = Len(a.chunks) + 1
        start == [w EXCEPT !.dispatches = @ + 1, !.raw = <<>>, !.base = w.full, !.buffer = C!NewBuffer]
    IN  [w |-> [FoldLeft(Read, start, C!Earliest(a.chunks, read)) EXCEPT
                   !.finish = IF stop <= Arriving(a) THEN "cancelled"
                              ELSE IF whole THEN a.finish ELSE "stop"],
         usage |-> whole /\ a.usage,
         breaks |-> a.fails \in {"refused", "over"}
                      \/ (a.fails \in {"broken", "killed"} /\ stop > Arriving(a))]

\* The usage of a dispatch is charged under its number, whatever comes after it.
Charged(w, usage) == IF usage THEN [w EXCEPT !.recorded = @ \cup {w.dispatches}] ELSE w

Raised(w) == [w EXCEPT !.phase = "raised"]

\* persist_or_record_failure: a checkpoint that cannot be written ends the writer.
Saved(w, checkpoint, saves) ==
    IF saves = "yes" THEN [w EXCEPT !.checkpoint = checkpoint, !.saved = Append(@, checkpoint)]
    ELSE Raised([w EXCEPT !.checkpoint = checkpoint])

\* The except clauses of a stream; only a killed task leaves a checkpoint.
Broken(w, usage, a) ==
    LET ended == Charged(Flushed(w), usage)
    IN  IF a.fails = "killed" /\ w.round > 0
        THEN Raised(Saved(ended, [round |-> w.round, status |-> "cancelled"], a.saves))
        ELSE Raised(ended)

FinalStatus(finish) == CASE finish = "length"    -> "maxed"
                         [] finish = "cancelled" -> "cancelled"
                         [] OTHER                -> "completed"

\* A last checkpoint is written for every follow-up round, and for a Stop that
\* came in time to prevent one.
Finished(w, checkpoint, saves) ==
    LET last == IF w.round > 0 THEN [round |-> w.round, status |-> FinalStatus(w.finish)] ELSE checkpoint
        done == IF last = NoCheckpoint THEN w ELSE Saved(w, last, saves)
    IN  IF done.phase = "raised" THEN done ELSE [done EXCEPT !.phase = "returned"]

\* A follow-up is announced by a checkpoint, and a Stop during its write is obeyed.
FollowedUp(w, a, stopped) ==
    LET next  == [w EXCEPT !.round = @ + 1, !.attempt = 1]
        asked == Saved(next, [round |-> next.round, status |-> "continuing"], a.saves)
        dead  == [round |-> next.round, status |-> "cancelled"]
    IN  CASE a.saves = "killed" -> Raised(Saved(next, dead, "yes"))
          [] a.saves = "no"     -> asked
          [] stopped            -> [Saved(asked, dead, "yes") EXCEPT !.finish = "cancelled", !.phase = "returned"]
          [] OTHER              -> asked

\* A round has its text: go on, or finish.
Decided(w, a) ==
    LET cut == w.finish = "length" /\ w.stopped
        v   == IF cut THEN [w EXCEPT !.finish = "cancelled"] ELSE w
    IN  IF C!ShouldContinue(v.finish, v.round, MaxRounds, FALSE, v.finish = "cancelled")
        THEN FollowedUp(v, a, a.stop <= Len(a.chunks) + 3)
        ELSE Finished(v, IF cut THEN [round |-> v.round, status |-> "cancelled"] ELSE NoCheckpoint, a.saves)

\* One dispatch; an empty answer is asked for once more.
Dispatched(w, a) ==
    LET s       == Streamed(w, a)
        charged == Charged(Flushed(s.w), s.usage)
        v       == [charged EXCEPT !.usages = IF s.usage THEN @ \cup {charged.dispatches} ELSE @,
                                   !.stopped = @ \/ a.stop <= Len(a.chunks) + 2]
        blank   == v.raw = <<>> /\ v.finish # "cancelled" /\ v.attempt = 1
    IN  IF s.breaks THEN Broken(s.w, s.usage, a)
        ELSE IF a.fails = "spent" /\ s.usage THEN Raised(v)
        ELSE IF blank THEN [v EXCEPT !.attempt = 2]
        ELSE Decided(v, a)

Answered(script) ==
    FoldLeft(LAMBDA w, a : IF w.phase = "streaming" THEN Dispatched(w, a) ELSE w, Start, script)
=============================================================================
