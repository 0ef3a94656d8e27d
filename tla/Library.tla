------------------------------- MODULE Library -------------------------------
(***************************************************************************)
(* The files users leave with the system: chat attachments and artifacts,  *)
(* the rows that own them, the parse that runs behind an upload, and the   *)
(* sweeps that mend what a crash leaves behind.                            *)
(*                                                                         *)
(* A file and its row are two stores with no common transaction.  Upload   *)
(* saves first and inserts second; deleting an attachment erases first and *)
(* commits second; deleting a conversation commits first and erases        *)
(* second.  A process may die between any two of these, so two leader-     *)
(* gated loops repair: stale_job_recovery starts lost parses again, and    *)
(* retention removes files no row references and kb_* collections no       *)
(* knowledge base owns.  Both loops act on what they read earlier.         *)
(***************************************************************************)
EXTENDS Naturals, FiniteSets

CONSTANTS
    Atts,        \* chat attachments, all of one conversation
    Arts,        \* artifacts
    Procs,       \* processes that run the sweeps
    Servers,     \* those among them that take requests
    Elected,     \* the process that leads both loops at first
    NoProc,      \* not a process
    MaxUnbound,  \* MAX_ATTACHMENTS_PER_MESSAGE
    MaxRequeue,  \* _MAX_REQUEUE_PER_SWEEP
    OthersOwn,   \* do other users' rows and knowledge bases exist?
    MaxOps,      \* bound on the requests of the users
    MaxFaults    \* bound on crashes, lost locks, failed deletes, failed commits and slow parses

Items == Atts \union Arts
Loops == {"stale-jobs", "retention"}
Kinds == {"upload", "sweep"}   \* who started a parse

ASSUME LibraryAssumption ==
    /\ Atts \intersect Arts = {}
    /\ NoProc \notin Procs /\ Elected \in Procs /\ Servers \subseteq Procs
    /\ {MaxUnbound, MaxRequeue, MaxOps, MaxFaults} \subseteq Nat
    /\ MaxRequeue > 0
    /\ OthersOwn \in BOOLEAN

VARIABLES
    file,     \* the stored object of an item: none, new (under 24 h), old
    row,      \* its database row
    request,  \* the upload or delete request that is between two steps
    conv,     \* the conversation, and the request that deletes it or the account
    task,     \* the parses in flight, by attachment, process and starter
    stale,    \* attachments whose row is older than _STALE_AFTER
    lock,     \* the advisory lock of a loop
    leads,    \* the processes that believe they hold it
    sweep,    \* the retention pass of a process
    kb,       \* a knowledge base, its collection, the request that deletes it
    up, ops, faults

items == <<file, row, request>>
gates == <<lock, leads>>
vars == <<file, row, request, conv, task, stale, lock, leads, sweep, kb,
          up, ops, faults>>
-----------------------------------------------------------------------------
NoRow == [status |-> "absent", parse |-> "absent"]
Row(s, p) == [status |-> s, parse |-> p]
There(i) == row[i].status # "absent"
Idle == [at |-> "idle", on |-> NoProc]
NoSweep == [at |-> "idle", refs |-> {}]
NoTask == [p \in Procs |-> [k \in Kinds |-> "none"]]

Init ==
    /\ file = [i \in Items |-> "none"]
    /\ row = [i \in Items |-> NoRow]
    /\ request = [i \in Items |-> Idle]
    /\ conv = [at |-> "live", on |-> NoProc, listed |-> {}, account |-> FALSE]
    /\ task = [a \in Atts |-> NoTask]
    /\ stale = {}
    /\ lock = [l \in Loops |-> Elected]
    /\ leads = [l \in Loops |-> {Elected}]
    /\ sweep = [p \in Procs |-> NoSweep]
    /\ kb = [row |-> "none", job |-> FALSE, coll |-> FALSE, on |-> NoProc]
    /\ up = Procs
    /\ ops = 0
    /\ faults = 0

Asked == ops < MaxOps /\ ops' = ops + 1
Fault == faults < MaxFaults /\ faults' = faults + 1
-----------------------------------------------------------------------------
(* Uploads                                                                 *)

\* _count_unbound: no message takes the attachments of this model.
Unbound == {a \in Atts : There(a) /\ row[a].status # "deleted"}

\* The account of a purged user takes no request any more.
Purged == conv.account /\ conv.at \in {"committed", "gone"}

\* The file is on disk, the row is not there yet.  Each id is used once.
Upload(i, p) ==
    /\ p \in Servers \intersect up /\ Asked
    /\ file[i] = "none" /\ ~There(i) /\ request[i] = Idle
    /\ i \in Atts => conv.at = "live" /\ Cardinality(Unbound) < MaxUnbound
    /\ i \in Arts => ~Purged
    /\ file' = [file EXCEPT ![i] = "new"]
    /\ request' = [request EXCEPT ![i] = [at |-> "saved", on |-> p]]
    /\ UNCHANGED <<row, conv, task, stale, gates, sweep, kb, up, faults>>

\* Bytes that contradict the extension (attachments), or a file over the cap
\* (artifacts): the file goes, no row comes.
Reject(i) ==
    /\ request[i].at = "saved"
    /\ file' = [file EXCEPT ![i] = "none"]
    /\ request' = [request EXCEPT ![i] = Idle]
    /\ UNCHANGED <<row, conv, task, stale, gates, sweep, kb, up, ops, faults>>

\* db.commit, then _spawn of the parse.  The insert fails when its conversation
\* has been deleted meanwhile; nobody removes the file then.
InsertRow(i) ==
    /\ request[i].at = "saved"
    /\ request' = [request EXCEPT ![i] = Idle]
    /\ \/ /\ i \in Arts
          /\ row' = [row EXCEPT ![i] = Row("stored", "absent")]
          /\ UNCHANGED task
       \/ /\ i \in Atts /\ conv.at \in {"live", "listed"}
          /\ row' = [row EXCEPT ![i] = Row("uploaded", "pending")]
          /\ task' = [task EXCEPT ![i][request[i].on]["upload"] = "start"]
       \/ /\ i \in Atts /\ conv.at \notin {"live", "listed"}
          /\ UNCHANGED <<row, task>>
    /\ UNCHANGED <<file, conv, stale, gates, sweep, kb, up, ops, faults>>
-----------------------------------------------------------------------------
(* The parse behind an upload (_parse_attachment_bg).  It writes the status *)
(* it means to write whatever the row has become; a row deleted under it    *)
(* makes the commit raise, which the task only logs.                        *)

SetTask(a, p, k, s) == task' = [task EXCEPT ![a][p][k] = s]
Written(a, s) == IF There(a) THEN [row EXCEPT ![a] = Row(s, s)] ELSE row

ParseStart(a, p, k) ==
    /\ task[a][p][k] = "start"
    /\ SetTask(a, p, k, IF There(a) THEN "parsing" ELSE "none")
    /\ row' = Written(a, "parsing")
    /\ UNCHANGED <<file, request, conv, stale, gates, sweep, kb, up, ops, faults>>

\* A parser's error, the 60 s timeout, or no file to open.
ParseFails(a, p, k) ==
    /\ task[a][p][k] = "parsing"
    /\ SetTask(a, p, k, "none")
    /\ row' = Written(a, "failed")
    /\ UNCHANGED <<file, request, conv, stale, gates, sweep, kb, up, ops, faults>>

ParseSucceeds(a, p, k) ==
    /\ task[a][p][k] = "parsing" /\ file[a] # "none"
    /\ SetTask(a, p, k, "none")
    /\ row' = Written(a, "ready")
    /\ UNCHANGED <<file, request, conv, stale, gates, sweep, kb, up, ops, faults>>

\* A text over _INDEX_THRESHOLD_CHARS is indexed before the row says ready.
ParseIndexes(a, p, k) ==
    /\ task[a][p][k] = "parsing" /\ file[a] # "none"
    /\ SetTask(a, p, k, "indexing")
    /\ UNCHANGED <<items, conv, stale, gates, sweep, kb, up, ops, faults>>

\* Indexing is best effort: the row becomes ready with or without vector points.
IndexEnds(a, p, k) ==
    /\ task[a][p][k] = "indexing"
    /\ SetTask(a, p, k, "none")
    /\ row' = Written(a, "ready")
    /\ UNCHANGED <<file, request, conv, stale, gates, sweep, kb, up, ops, faults>>

\* The commit raises: the task logs it and ends, the row still says parsing.
ParseCrashes(a, p, k) ==
    /\ task[a][p][k] \in {"parsing", "indexing"} /\ Fault
    /\ SetTask(a, p, k, "none")
    /\ UNCHANGED <<items, conv, stale, gates, sweep, kb, up, ops>>

Parse(a, p, k) ==
    \/ ParseStart(a, p, k) \/ ParseFails(a, p, k) \/ ParseSucceeds(a, p, k)
    \/ ParseIndexes(a, p, k) \/ IndexEnds(a, p, k)
-----------------------------------------------------------------------------
(* Deleting one item, and the conversation of the attachments              *)

\* storage.delete; an error of it is swallowed.
Erase(i, p) ==
    /\ p \in Servers \intersect up /\ Asked
    /\ There(i) /\ row[i].status # "deleted" /\ request[i] = Idle
    /\ request' = [request EXCEPT ![i] = [at |-> "erased", on |-> p]]
    /\ \/ file' = [file EXCEPT ![i] = "none"] /\ UNCHANGED faults
       \/ UNCHANGED file /\ Fault
    /\ UNCHANGED <<row, conv, task, stale, gates, sweep, kb, up>>

\* An attachment's row stays and says deleted, an artifact's row goes.
CommitErase(i) ==
    /\ request[i].at = "erased"
    /\ request' = [request EXCEPT ![i] = Idle]
    /\ row' = [row EXCEPT ![i] = IF i \in Arts \/ ~There(i) THEN NoRow
                                 ELSE [@ EXCEPT !.status = "deleted"]]
    /\ UNCHANGED <<file, conv, task, stale, gates, sweep, kb, up, ops, faults>>

\* delete_conversation and delete_my_account read the keys of the attachments,
\* commit, and only then remove files.
ListFiles(p) ==
    /\ p \in Servers \intersect up /\ Asked /\ conv.at = "live"
    /\ \E account \in BOOLEAN :
          conv' = [at |-> "listed", on |-> p, listed |-> {a \in Atts : There(a)},
                   account |-> account]
    /\ UNCHANGED <<items, task, stale, gates, sweep, kb, up, faults>>

\* The rows of the attachments go by cascade; with the account go the rows of
\* the artifacts and of the knowledge base, whose files nobody removes.
CommitConversation ==
    /\ conv.at = "listed"
    /\ conv' = [conv EXCEPT !.at = "committed"]
    /\ row' = [i \in Items |-> IF i \in Atts \/ conv.account THEN NoRow ELSE row[i]]
    /\ kb' = IF conv.account /\ kb.row = "live" THEN [kb EXCEPT !.row = "gone"] ELSE kb
    /\ stale' = {}
    /\ UNCHANGED <<file, request, task, gates, sweep, up, ops, faults>>

\* delete_files_for_keys, and the collections of a purged account
EraseListed ==
    /\ conv.at = "committed"
    /\ conv' = [conv EXCEPT !.at = "gone", !.on = NoProc, !.listed = {}]
    /\ file' = [i \in Items |-> IF i \in conv.listed THEN "none" ELSE file[i]]
    /\ kb' = [kb EXCEPT !.coll = @ /\ ~conv.account]
    /\ UNCHANGED <<row, request, task, stale, gates, sweep, up, ops, faults>>
-----------------------------------------------------------------------------
(* Knowledge bases, as far as the collection sweep sees them               *)

CreateKb ==
    /\ Asked /\ kb.row = "none" /\ ~Purged
    /\ kb' = [kb EXCEPT !.row = "live", !.job = TRUE]
    /\ UNCHANGED <<items, conv, task, stale, gates, sweep, up, faults>>

\* The ingestion job of its first document creates the collection; it may have
\* read the knowledge base before that was deleted.
EnsureCollection ==
    /\ kb.job
    /\ kb' = [kb EXCEPT !.job = FALSE, !.coll = TRUE]
    /\ UNCHANGED <<items, conv, task, stale, gates, sweep, up, ops, faults>>

\* delete_knowledge_base drops the collection first, and at best ...
DropKb(p) ==
    /\ p \in Servers \intersect up /\ Asked /\ kb.row = "live" /\ kb.on = NoProc
    /\ \/ kb' = [kb EXCEPT !.on = p, !.coll = FALSE] /\ UNCHANGED faults
       \/ kb' = [kb EXCEPT !.on = p] /\ Fault
    /\ UNCHANGED <<items, conv, task, stale, gates, sweep, up>>

\* ... and commits the row's deletion afterwards.
CommitKb ==
    /\ kb.on # NoProc
    /\ kb' = [kb EXCEPT !.on = NoProc, !.row = "gone"]
    /\ UNCHANGED <<items, conv, task, stale, gates, sweep, up, ops, faults>>
-----------------------------------------------------------------------------
(* LeaderGate.acquire: a process that believes it leads probes its lock and *)
(* demotes itself when the lock is gone; another one takes a free lock.     *)

\* Seeded fault: renew answers no to the process that holds the lock.
MayRunOnce(l, p) == p \in up /\ lock[l] = NoProc
MayRun(l, p) == p \in up /\ lock[l] = IF p \in leads[l] THEN p ELSE NoProc
Lead(l, p) ==
    /\ lock' = [lock EXCEPT ![l] = p]
    /\ leads' = [leads EXCEPT ![l] = @ \union {p}]

\* renew finds no lock: this tick is skipped, the next one may acquire again.
Demote(l, p) ==
    /\ p \in leads[l] /\ lock[l] # p
    /\ leads' = [leads EXCEPT ![l] = @ \ {p}]
    /\ UNCHANGED <<items, conv, task, stale, lock, sweep, kb, up, ops, faults>>

\* The server drops the connection that holds the lock; its owner learns of it
\* at its next tick only.
LoseLock(l) ==
    /\ Fault /\ lock[l] # NoProc
    /\ lock' = [lock EXCEPT ![l] = NoProc]
    /\ UNCHANGED <<items, conv, task, stale, leads, sweep, kb, up, ops>>

\* The probe of renew raises: the owner demotes itself and drops the connection
\* without closing it, so nobody gets the lock until the connection is gone.
ProbeFails(l, p) ==
    /\ Fault /\ p \in leads[l] /\ lock[l] = p
    /\ leads' = [leads EXCEPT ![l] = @ \ {p}]
    /\ UNCHANGED <<items, conv, task, stale, lock, sweep, kb, up, ops>>

ConnectionGone(l) ==
    /\ lock[l] \notin leads[l] \union {NoProc}
    /\ lock' = [lock EXCEPT ![l] = NoProc]
    /\ UNCHANGED <<items, conv, task, stale, leads, sweep, kb, up, ops, faults>>
-----------------------------------------------------------------------------
(* stale_job_recovery: parses whose process died are started again.        *)

\* A parse that runs outlives _STALE_AFTER only when its indexing is slow.
Running(a) == \E p \in Procs, k \in Kinds : task[a][p][k] # "none"
GetsStale(a) ==
    /\ a \notin stale /\ row[a].parse \in {"pending", "parsing"}
    /\ IF Running(a) THEN Fault ELSE UNCHANGED faults
    /\ stale' = stale \union {a}
    /\ UNCHANGED <<items, conv, task, gates, sweep, kb, up, ops>>

\* Seeded fault: only parses that never began are recovered.
StalePending == {a \in stale : row[a].parse = "pending"}
\* _stale_attachments asks for the parse status only: a row that says deleted
\* is parsed again as well.
Stale == {a \in stale : row[a].parse \in {"pending", "parsing"}}

\* At most MaxRequeue rows, in no order: all of them say pending again, but only
\* one is parsed, for _spawn starts the task and then raises (add_done_callback
\* takes one function), which ends the tick.  _spawn cancels a parse the previous
\* tick of this process started; a parse outlives the 300 s between two ticks
\* only when indexing is slow.
Batches == {b \in SUBSET Stale : Cardinality(b) <= MaxRequeue /\ (b = Stale \/ Cardinality(b) = MaxRequeue)}
requeue_stale_jobs_once(p) ==
    /\ MayRun("stale-jobs", p) /\ Stale # {}
    /\ Lead("stale-jobs", p)
    /\ \E batch \in Batches : \E a \in batch :
         /\ IF task[a][p]["sweep"] = "none" THEN UNCHANGED faults ELSE Fault
         /\ row' = [i \in Items |-> IF i \in batch /\ row[i].parse = "parsing"
                                    THEN [row[i] EXCEPT !.parse = "pending"] ELSE row[i]]
         /\ SetTask(a, p, "sweep", "start")
    /\ UNCHANGED <<file, request, conv, stale, sweep, kb, up, ops>>
-----------------------------------------------------------------------------
(* retention: a pass reads the references, removes old files nobody        *)
(* references, lists the collections and drops those of no knowledge base. *)

\* A request lives less than a day, and so does a pass: a file without a row
\* when the pass read the rows is no day old if it has one now.  A row that
\* still waits for its parse after a day is stale.
Age(i) ==
    /\ file[i] = "new" /\ request[i] = Idle
    /\ row[i].parse \in {"pending", "parsing"} => i \in stale
    /\ ~ \E p \in Procs : sweep[p].at = "files" /\ i \notin sweep[p].refs /\ There(i)
    /\ file' = [file EXCEPT ![i] = "old"]
    /\ UNCHANGED <<row, request, conv, task, stale, gates, sweep, kb, up, ops, faults>>

\* The reference set; an empty one ends the pass over the files, for then live
\* files cannot be told from orphans.
ReadReferences(p) ==
    /\ MayRun("retention", p) /\ sweep[p].at = "idle"
    /\ Lead("retention", p)
    /\ LET refs == {i \in Items : There(i)} IN
       sweep' = [sweep EXCEPT ![p] =
                    [at |-> IF refs = {} /\ ~OthersOwn THEN "list" ELSE "files", refs |-> refs]]
    /\ UNCHANGED <<items, conv, task, stale, kb, up, ops, faults>>

\* Seeded fault: no day of grace.
NoGrace(i) == file[i] = "none"
\* The day of grace is for uploads in flight.
Spared(i) == file[i] # "old"

sweep_orphan_uploads(p) ==
    /\ sweep[p].at = "files"
    /\ file' = [i \in Items |-> IF i \in sweep[p].refs \/ Spared(i) THEN file[i] ELSE "none"]
    /\ sweep' = [sweep EXCEPT ![p] = [at |-> "list", refs |-> {}]]
    /\ UNCHANGED <<row, request, conv, task, stale, gates, kb, up, ops, faults>>

\* The collections are listed before the knowledge bases are read: a collection
\* that is listed had its knowledge base's row before.
ListCollections(p) ==
    /\ sweep[p].at = "list"
    /\ sweep' = [sweep EXCEPT ![p] = IF kb.coll THEN [at |-> "drop", refs |-> {}] ELSE NoSweep]
    /\ UNCHANGED <<items, conv, task, stale, gates, kb, up, ops, faults>>

\* No knowledge base at all: the pass drops nothing.
sweep_orphan_collections(p) ==
    /\ sweep[p].at = "drop"
    /\ kb' = [kb EXCEPT !.coll = @ /\ (kb.row = "live" \/ ~OthersOwn)]
    /\ sweep' = [sweep EXCEPT ![p] = NoSweep]
    /\ UNCHANGED <<items, conv, task, stale, gates, up, ops, faults>>
-----------------------------------------------------------------------------
Crash(p) ==
    /\ p \in up /\ Fault
    /\ up' = up \ {p}
    /\ request' = [i \in Items |-> IF request[i].on = p THEN Idle ELSE request[i]]
    /\ conv' = IF conv.on # p THEN conv
               ELSE [conv EXCEPT !.at = IF @ = "listed" THEN "live" ELSE "gone",
                                 !.on = NoProc, !.listed = {}]
    /\ task' = [a \in Atts |-> [task[a] EXCEPT ![p] = [k \in Kinds |-> "none"]]]
    /\ lock' = [l \in Loops |-> IF lock[l] = p THEN NoProc ELSE lock[l]]
    /\ leads' = [l \in Loops |-> leads[l] \ {p}]
    /\ sweep' = [sweep EXCEPT ![p] = NoSweep]
    /\ kb' = IF kb.on = p THEN [kb EXCEPT !.on = NoProc] ELSE kb
    /\ UNCHANGED <<file, row, stale, ops>>

Restart(p) ==
    /\ p \notin up
    /\ up' = up \union {p}
    /\ UNCHANGED <<items, conv, task, stale, gates, sweep, kb, ops, faults>>

RetentionStep(p) ==
    \/ ReadReferences(p) \/ sweep_orphan_uploads(p)
    \/ ListCollections(p) \/ sweep_orphan_collections(p)

Next ==
    \/ \E i \in Items : \/ \E p \in Procs : Upload(i, p) \/ Erase(i, p)
                        \/ Reject(i) \/ InsertRow(i) \/ CommitErase(i) \/ Age(i)
    \/ \E a \in Atts : \/ \E p \in Procs, k \in Kinds : Parse(a, p, k) \/ ParseCrashes(a, p, k)
                       \/ GetsStale(a)
    \/ \E p \in Procs : \/ ListFiles(p) \/ requeue_stale_jobs_once(p)
                        \/ RetentionStep(p) \/ Crash(p) \/ Restart(p)
    \/ \E l \in Loops : LoseLock(l) \/ ConnectionGone(l) \/ \E p \in Procs : Demote(l, p) \/ ProbeFails(l, p)
    \/ CommitConversation \/ EraseListed
    \/ CreateKb \/ EnsureCollection \/ (\E p \in Procs : DropKb(p)) \/ CommitKb

Spec == Init /\ [][Next]_vars

\* The event loops run, processes are restarted, time passes, and each loop
\* ticks again and again.  A request always ends.
Fairness ==
    /\ WF_vars(\E i \in Items : Reject(i) \/ InsertRow(i) \/ CommitErase(i))
    /\ WF_vars(CommitConversation \/ EraseListed) /\ WF_vars(CommitKb)
    /\ WF_vars(\E i \in Items : Age(i)) /\ WF_vars(\E a \in Atts : GetsStale(a))
    /\ \A a \in Atts : WF_vars(\E p \in Procs, k \in Kinds : Parse(a, p, k))
    /\ \A p \in Procs : WF_vars(RetentionStep(p)) /\ WF_vars(\E l \in Loops : Demote(l, p))
    /\ WF_vars(\E p \in Procs : requeue_stale_jobs_once(p))
    /\ WF_vars(\E p \in Procs : Restart(p)) /\ WF_vars(\E l \in Loops : ConnectionGone(l))

FairSpec == Spec /\ Fairness
-----------------------------------------------------------------------------
\* A pass of the sweeps never removes a file that a row references or that an
\* upload in flight is about to reference, nor the collection of a live
\* knowledge base, though it acts on references it read in an earlier step and
\* two processes may run a pass at once (retention.py:160, :252).
Owned(i) == There(i) \/ request[i].at = "saved"
SweepSpares ==
    [][sweep' # sweep =>
         /\ \A i \in Items : file[i] # "none" /\ file'[i] = "none" => ~Owned(i)
         /\ kb.coll /\ ~kb'.coll => kb.row # "live"]_vars

\* Every attachment whose row waits for its parse is parsed to an end or goes:
\* a crash of the process that took the upload, of the one that recovers it, a
\* commit that fails once or a lost lock only delays it, and so do the others
\* that wait (attachment_service.py:237, stale_job_recovery.py), although a tick
\* of the sweep starts one parse only.  What saves them is that the one it picks
\* settles: a row whose commit failed at every try could be picked every time.
Waiting(a) == row[a].parse \in {"pending", "parsing"}
UploadsSettle == \A a \in Atts : Waiting(a) ~> ~Waiting(a)

\* Files that lost their row, or never got one, are all removed some day, and so
\* is the collection of a deleted knowledge base: conversations.py:275,
\* auth.py:560 and knowledge_bases.py:231 rely on it.
Orphan(i) == file[i] # "none" /\ ~Owned(i)
OrphansReclaimed ==
    /\ (\E i \in Items : Orphan(i)) ~> (\A i \in Items : ~Orphan(i))
    /\ (kb.coll /\ kb.row = "gone") ~> ~kb.coll
=============================================================================
