------------------------------ MODULE MCLibrary ------------------------------
(***************************************************************************)
(* Model-checking instance of Library.  The operators of AttachmentText    *)
(* are evaluated over small inputs at start-up: two users, two             *)
(* conversations, texts under and over the inline budget.                  *)
(***************************************************************************)
EXTENDS Library, TLC, Sequences

Text == INSTANCE AttachmentText
            WITH Threshold <- 3, MaxPerMessage <- 2, MaxAudioBytes <- 4, TopK <- 2

Sample(id) ==
    [id : {id}, user : {"u", "v"}, conv : {"c"}, message : {"m", "n"}, ext : {"png", "mp3", "pdf"},
     text : {0, 2, 6}, bytes : {3, 5}, status : {"ready", "deleted"}, indexed : BOOLEAN]
Rows == {{x, y} : x \in Sample("a"), y \in {s \in Sample("b") : s.bytes = 3 /\ s.message = "m"}}
Asks == {<<>>, <<"a">>, <<"a", "b">>, <<"b", "b">>, <<"a", "z">>, <<"a", "b", "a">>}

\* Another user's attachment is never bound, and its text and bytes reach no
\* prompt; a refused bind binds nothing (attachment_service.py:342, :422, :498).
ASSUME TenantsApart ==
    \A rows \in Rows, ids \in Asks :
        LET bound == Text!Bound(rows, ids, "u", "c", "now") IN
        /\ \A x \in bound : x.message = "now" => x.user = "u" /\ x.id \in {ids[i] : i \in DOMAIN ids}
        /\ Text!BindOutcome(rows, ids, "u", "c") # "ok" => bound = rows
        /\ \A s \in {Text!SmartText(rows, ids, "u", "c", 4, 3)} :
               \A i \in DOMAIN s : Text!ById(rows, s[i].id).user = "u"
        /\ \A s \in {Text!ImageParts(rows, ids, "u", "c"), Text!AudioParts(rows, ids, "u", "c")} :
               \A i \in DOMAIN s : Text!ById(rows, s[i]).user = "u"

\* The memory of files across turns stays within the budget of each message, and
\* deleted files drop out of it (attachment_service.py:456).
ASSUME HistoryFits ==
    \A rows \in Rows :
        LET h == Text!HistoryChars(rows, {"m", "n"}, "u", "c", 4, 3) IN
        \A m \in DOMAIN h : /\ h[m] \in 1..4
                            /\ \E x \in rows : x.message = m /\ x.status = "ready" /\ x.user = "u"

\* What upload accepts is allowed, under the cap and shows the bytes its
\* extension promises; a refused file takes no room (attachment_service.py:139).
ASSUME AcceptedMeansChecked ==
    \A f \in [ext : {"pdf", "doc", "csv", "exe"}, size : 0..4, head : {"pdf", "zip", "rtf"},
              mime : {"", "text/html", "application/pdf"}], unbound \in 0..2 :
        Text!UploadOutcome(f, {"pdf", "doc", "csv"}, unbound, 3) = "ok" =>
            /\ f.ext # "exe" /\ f.size <= 3 /\ unbound < 2
            /\ f.ext = "pdf" => f.head = "pdf" /\ f.mime # "text/html"
            /\ f.ext = "doc" => f.head = "rtf"

\* A resized image keeps both edges between one pixel and the cap
\* (attachment_service.py:616).
ASSUME ImagesFit ==
    \A w, h \in 1..9 : \A i \in 1..2 : Text!ResizedEdges(w, h, 4)[i] \in 1..4

\* Listing and opening agree on what exists for its owner; only the streamed read
\* hands out bytes before it knows the checksum (artifacts/service.py:232).
ASSUME ExpiryHides ==
    \A a \in [owner : {"u", "v"}, expires : 0..2, checksum : {1}, stored : {1, 2}], now \in 1..2 :
        /\ (a \in Text!Listed({a}, "u", now, FALSE)) = Text!ArtifactVisible(a, "u", FALSE, now)
        /\ Text!OpenOutcome(a, "u", FALSE, now) = "bytes" => a.stored = a.checksum
=============================================================================
