-------------------------------- MODULE Patches --------------------------------
(***************************************************************************)
(* The workspace's patches: how a patch is read, applied to a snapshot in  *)
(* memory, and written to disk file by file.                               *)
(*                                                                         *)
(* A line of a patch is [mark, text]; a file is a sequence of texts.  Files *)
(* are a function of paths.  A path may have several spellings of one file. *)
(***************************************************************************)
EXTENDS Integers, Sequences, FiniteSets, SequencesExt

CONSTANT FileOf(_)  \* the file a spelling of a path resolves to

Refused == [ok |-> FALSE, files |-> [p \in {} |-> <<>>]]
Put(files, p, lines) == [q \in DOMAIN files \cup {p} |-> IF q = p THEN lines ELSE files[q]]
Without(files, p) == [q \in DOMAIN files \ {p} |-> files[q]]
-----------------------------------------------------------------------------
(* parse_patch.  Every line of an update, its @@ lines too, joins the one  *)
(* hunk of its file; a line that reads as an unknown header ends the file, *)
(* and what follows is dropped until the next one.                         *)

NoOp == [action |-> "none", path |-> "", move |-> "", body |-> <<>>]
ReadPatch(s, line) ==
    CASE line.mark \in {"add", "delete", "update"} ->
             [ops |-> Append(s.ops, [NoOp EXCEPT !.action = line.mark, !.path = line.text]), on |-> TRUE]
      [] line.mark = "move" ->
             IF s.on THEN [s EXCEPT !.ops[Len(s.ops)].move = line.text] ELSE s
      [] line.mark = "header" -> [s EXCEPT !.on = FALSE]
      [] line.mark \in {"+", "-", "@@", " "} ->
             IF ~s.on THEN s
             ELSE LET kind == IF line.mark = "@@" THEN " " ELSE line.mark
                  IN  [s EXCEPT !.ops[Len(s.ops)].body = Append(@, [mark |-> kind, text |-> line.text])]
ParsePatch(lines) == FoldLeft(ReadPatch, [ops |-> <<>>, on |-> FALSE], lines).ops
-----------------------------------------------------------------------------
(* apply_ops.                                                              *)

Texts(body, marks) ==
    LET kept == SelectSeq(body, LAMBDA l : l.mark \in marks) IN [i \in 1..Len(kept) |-> kept[i].text]

\* A hunk replaces the first place where its context and removed lines stand;
\* one without either is appended.
Places(lines, needle) ==
    {i \in 1..(Len(lines) - Len(needle) + 1) : SubSeq(lines, i, i + Len(needle) - 1) = needle}
Spliced(lines, body) ==
    LET needle == Texts(body, {" ", "-"})
        i == CHOOSE n \in Places(lines, needle) : \A m \in Places(lines, needle) : n <= m
    IN  IF needle = <<>> THEN lines \o Texts(body, {"+"})
        ELSE SubSeq(lines, 1, i - 1) \o Texts(body, {" ", "+"}) \o SubSeq(lines, i + Len(needle), Len(lines))
Fits(lines, body) == Texts(body, {" ", "-"}) # <<>> => Places(lines, Texts(body, {" ", "-"})) # {}

Target(op) == IF op.move = "" THEN op.path ELSE op.move
Apply(s, op) ==
    IF ~s.ok THEN s
    ELSE IF op.action = "add" THEN [s EXCEPT !.files = Put(@, op.path, Texts(op.body, {"+", "-", " "}))]
    ELSE IF op.path \notin DOMAIN s.files THEN Refused
    ELSE IF op.action = "delete" THEN [s EXCEPT !.files = Without(@, op.path)]
    ELSE IF ~Fits(s.files[op.path], op.body) THEN Refused
    ELSE LET new == Spliced(s.files[op.path], op.body)
         IN  [s EXCEPT !.files = IF Target(op) = op.path THEN Put(@, op.path, new)
                                 ELSE Without(Put(@, Target(op), new), op.path)]
ApplyOps(ops, files) == FoldLeft(Apply, [ok |-> TRUE, files |-> files], ops)
-----------------------------------------------------------------------------
(* WorkspaceApplyPatchTool.run.                                            *)

\* The snapshot holds a file under every spelling the patch uses.
Snapshot(ops, disk) ==
    LET spelled == {p \in {ops[i].path : i \in 1..Len(ops)} \cup {Target(ops[i]) : i \in 1..Len(ops)} :
                        FileOf(p) \in DOMAIN disk}
    IN  [p \in spelled |-> disk[FileOf(p)]]

\* Files are written one by one in the order of the patch, each whole; a write
\* that fails leaves the files before it written.  Only a delete removes a file.
Persist(disk, op, snapshot) ==
    IF op.action = "delete" THEN Without(disk, FileOf(op.path))
    ELSE IF Target(op) \notin DOMAIN snapshot THEN disk
    ELSE Put(disk, FileOf(Target(op)), snapshot[Target(op)])
RunPatch(lines, disk, written) ==
    LET ops == ParsePatch(lines)
        made == ApplyOps(ops, Snapshot(ops, disk))
        done == IF written < Len(ops) THEN SubSeq(ops, 1, written) ELSE ops
    IN  IF ops = <<>> \/ ~made.ok THEN [ok |-> FALSE, disk |-> disk]
        ELSE [ok |-> done = ops,
              disk |-> FoldLeft(LAMBDA d, op : Persist(d, op, made.files), disk, done)]
=============================================================================
