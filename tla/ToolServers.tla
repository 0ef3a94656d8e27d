------------------------------ MODULE ToolServers ------------------------------
(***************************************************************************)
(* MCP servers and connectors: the requests of a session over a subprocess *)
(* or over HTTP, the catalog of their tools, and which connectors of a     *)
(* user may be opened.                                                     *)
(*                                                                         *)
(* A session is the fold of what happens to it.  Requests are numbered by  *)
(* the session, so the n-th request has the id n, over every reconnect.    *)
(***************************************************************************)
EXTENDS Integers, Sequences, FiniteSets, SequencesExt

CONSTANTS Required,     \* the scopes a connector's manifest asks for
          Cap           \* connectors a user may have enabled, when quotas are on

\* got: what each request came to, a kind and the process that answered; via: the process it was written to;
\* told: requests the server was told are cancelled; reader: whether the task
\* that drains stdout lives.
Opened == [got |-> <<>>, via |-> <<>>, told |-> {}, pending |-> {}, made |-> 0,
           proc |-> "none", reader |-> FALSE, closed |-> TRUE, init |-> FALSE]

Ended(kind) == <<kind, 0>>
Settle(s, ids, what) ==
    [s EXCEPT !.got = [i \in 1..Len(@) |-> IF i \in ids \cap s.pending THEN what ELSE @[i]],
              !.pending = @ \ ids]

\* A running process is kept; one that exited is replaced.
Start(s) == IF s.proc = "up" THEN s
            ELSE [s EXCEPT !.proc = "up", !.reader = TRUE, !.closed = FALSE, !.made = @ + 1]
Close(s) == IF s.closed THEN s
            ELSE [Settle(s, s.pending, Ended("failed")) EXCEPT !.closed = TRUE, !.proc = "none", !.reader = FALSE]
Kill(s) == [Settle(s, s.pending, Ended("failed")) EXCEPT !.closed = TRUE, !.proc = "none", !.reader = FALSE]
Reconnect(s) == [Start([Close(s) EXCEPT !.pending = {}, !.proc = "none"]) EXCEPT !.init = FALSE]

\* The end of stdout and a line the reader trips over both end the reader: the
\* pending requests fail, the transport does not count as closed.
ReaderEnds(s, proc) ==
    IF ~s.reader THEN s
    ELSE [Settle(s, s.pending, Ended("failed")) EXCEPT !.reader = FALSE, !.proc = proc]

\* To a process that exited a write breaks, or is taken by the pipe.
Send(s, breaks) ==
    LET n == Len(s.got) + 1
        fails == s.proc = "none" \/ (s.proc = "gone" /\ breaks)
    IN  [s EXCEPT !.got = Append(@, Ended(IF fails THEN "failed" ELSE "waits")),
                  !.via = Append(@, s.made),
                  !.pending = IF fails THEN @ ELSE @ \cup {n}]

\* Whatever carries the id of a pending request answers it.
Dispatch(s, id, what) == IF s.reader THEN Settle(s, {id}, what) ELSE s

\* A caller that is cancelled tells the server; one that timed out does not.
Cancel(s, id) ==
    IF id \notin s.pending THEN s
    ELSE [Settle(s, {id}, Ended("cancelled")) EXCEPT !.told = IF s.proc = "none" THEN @ ELSE @ \cup {id}]

\* A server answers what it was sent; what it asks itself has ids of its own.
Has(s, id) == s.proc = "up" /\ id <= Len(s.via) /\ s.via[id] = s.made

Happens(s, e) ==
    CASE e[1] = "start"     -> Start(s)
      [] e[1] = "hello"     -> [s EXCEPT !.init = s.reader]
      [] e[1] = "call"      -> Send(s, e[2] = 1)
      [] e[1] = "reply"     -> IF Has(s, e[2]) THEN Dispatch(s, e[2], <<"by", s.made>>) ELSE s
      [] e[1] = "error"     -> IF Has(s, e[2]) THEN Dispatch(s, e[2], Ended("failed")) ELSE s
      [] e[1] = "asks"      -> Dispatch(s, e[2], Ended("nothing"))
      [] e[1] = "odd"       -> ReaderEnds(s, s.proc)
      [] e[1] = "exit"      -> IF s.proc = "up" THEN ReaderEnds([s EXCEPT !.proc = "gone"], "gone") ELSE s
      [] e[1] = "timeout"   -> Settle(s, {e[2]}, Ended("timeout"))
      [] e[1] = "cancel"    -> Cancel(s, e[2])
      [] e[1] = "close"     -> Close([s EXCEPT !.init = FALSE])
      [] e[1] = "kill"      -> Kill(s)
      [] e[1] = "reconnect" -> Reconnect(s)
Lived(events) == FoldLeft(Happens, Opened, events)
-----------------------------------------------------------------------------
(* Over HTTP.  A response is [status, frames]; a frame is [id, kind], the  *)
(* id 0 where there is none; only the first frame that is an object counts.*)

HttpAnswer(response, id) ==
    LET read == SelectSeq(response.frames, LAMBDA f : f.kind # "bad") IN
    IF response.status # "ok" THEN Ended(response.status)
    ELSE IF read = <<>> \/ read[1].id \notin {0, id} \/ read[1].kind = "error" THEN Ended("failed")
    ELSE IF read[1].kind = "result" THEN <<"by", read[1].of>> ELSE Ended("nothing")
-----------------------------------------------------------------------------
(* The catalog.  A server is [name, reach, tools]; names are sequences.    *)

Namespaced(server, tool) == server \o <<"__">> \o tool

\* connect_all: a server that fails is left out and the others go on; one that
\* failed after its process was started is not closed.
Connected(servers) == SelectSeq(servers, LAMBDA v : v.reach = "lists")
LeftOpen(servers) == {i \in 1..Len(servers) : servers[i].reach = "starts"}
Catalog(servers) ==
    FoldLeft(LAMBDA cat, v :
                 FoldLeft(LAMBDA c, tool : IF tool = <<>> THEN c
                              ELSE [n \in DOMAIN c \cup {Namespaced(v.name, tool)} |->
                                       IF n = Namespaced(v.name, tool) THEN [server |-> v.name, tool |-> tool]
                                       ELSE c[n]],
                          cat, v.tools),
             [n \in {} |-> [server |-> <<>>, tool |-> <<>>]], Connected(servers))
\* The session a call goes to: the last one connected under the server's name.
Routed(servers, name) ==
    IF name \notin DOMAIN Catalog(servers) THEN 0
    ELSE LET of == {i \in 1..Len(servers) : servers[i].reach = "lists" /\ servers[i].name = Catalog(servers)[name].server}
         IN  CHOOSE i \in of : \A j \in of : i >= j
-----------------------------------------------------------------------------
(* Connectors.  A user's connectors are a function of their names; used is *)
(* the quota's counter, which only counts up.                              *)

Covers(scopes) == Required \subseteq scopes
NoConnector == [there |-> FALSE, enabled |-> FALSE, scopes |-> {}, transport |-> "http"]
Full(u, quotas) == quotas /\ u.used >= Cap
Charge(u, quotas) == IF quotas THEN [u EXCEPT !.used = @ + 1] ELSE u

\* An operation that is refused changes nothing.  Creating an enabled
\* connector asks for what enabling asks for.
Create(u, op, quotas, admin) ==
    LET made == [u EXCEPT !.rows[op.name] = [there |-> TRUE, enabled |-> op.enabled,
                                             scopes |-> op.scopes, transport |-> op.transport]]
    IN  IF \/ u.rows[op.name].there \/ op.transport \notin {"stdio", "http", "sse"}
           \/ op.transport = "stdio" /\ ~admin
           \/ op.enabled /\ (~Covers(op.scopes) \/ Full(u, quotas)) THEN u
        ELSE IF op.enabled THEN Charge(made, quotas) ELSE made
Enable(u, c, quotas) ==
    LET row == u.rows[c] IN
    IF ~row.there \/ row.enabled \/ ~Covers(row.scopes) \/ Full(u, quotas) THEN u
    ELSE Charge([u EXCEPT !.rows[c].enabled = TRUE], quotas)
Disable(u, c) == IF u.rows[c].there THEN [u EXCEPT !.rows[c].enabled = FALSE] ELSE u

\* Scopes that no longer cover the manifest disable the connector.
Update(u, c, scopes) ==
    IF ~u.rows[c].there THEN u
    ELSE [u EXCEPT !.rows[c].scopes = scopes, !.rows[c].enabled = @ /\ Covers(scopes)]
Operate(u, op, quotas, admin) ==
    CASE op.kind = "create"  -> Create(u, op, quotas, admin)
      [] op.kind = "enable"  -> Enable(u, op.name, quotas)
      [] op.kind = "disable" -> Disable(u, op.name)
      [] op.kind = "delete"  -> [u EXCEPT !.rows[op.name] = NoConnector]
      [] op.kind = "update"  -> Update(u, op.name, op.scopes)

\* The connectors a turn opens: enabled ones whose configuration can be built,
\* which asks again who owns a program to be run; all enabled ones are stamped
\* as used.
OpenedFor(u, admin) == {c \in DOMAIN u.rows : u.rows[c].enabled /\ (u.rows[c].transport = "stdio" => admin)}
StampedFor(u, admin) == IF OpenedFor(u, admin) = {} THEN {} ELSE {c \in DOMAIN u.rows : u.rows[c].enabled}
=============================================================================
