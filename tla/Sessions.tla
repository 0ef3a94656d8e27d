------------------------------- MODULE Sessions -------------------------------
(***************************************************************************)
(* The sign-in session of one user: the browser tabs that share a refresh  *)
(* cookie, the API that rotates it, and the three writers that end every   *)
(* session by bumping users.token_version (a password change in a tab, a   *)
(* reset by mail, an administrator).                                       *)
(*                                                                         *)
(* A pair of tokens is the index of its entry in pairs, which holds the    *)
(* ver claim both carry and, as history, how many changes had been         *)
(* committed when the row it was minted from was read; 0 is no token.      *)
(* Refresh, login and the writers read the row in one step and act on what *)
(* they read in a later one.  Tokens from before the ver claim existed,    *)
(* which pass every version check (deps.py:45, auth.py:335) until they     *)
(* expire, are not modelled.                                               *)
(***************************************************************************)
EXTENDS Naturals, Sequences

CONSTANTS
    Tabs,      \* tabs of the browser: one cookie jar, one access token each
    Slots,     \* calls a tab may have open at once
    MaxOps,    \* bound on calls, logins, logouts, changes and expiries
    MaxFaults  \* bound on refreshes that break or hang

Writers == {"tab", "mail", "admin"}

ASSUME SessionsAssumption == {MaxOps, MaxFaults} \subseteq Nat

VARIABLES
    user,         \* the row: token_version and is_active
    pairs,        \* every pair minted: its ver claim, and what it was minted from
    dead,         \* blacklisted refresh and access tokens, the last access one
    lapsed,       \* access tokens past their 30 minutes
    cookie,       \* the refresh token in the cookie jar
    access,       \* the access token of a tab (sessionStorage)
    call,         \* the calls of a tab: request() of api-client.ts
    flight,       \* a tab's refresh, the shared promise "refreshing"
    login,        \* a tab's login: the row it read
    writer,       \* a version change: the row it read, the tab it is for
    changes,      \* history: committed version changes
    overlapped,   \* history: did two changes start from one version?
    interrupted,  \* history: did something end or contest the browser's session?
    ops, faults

browser == <<cookie, access, call, flight>>
history == <<changes, overlapped, interrupted>>
vars == <<user, pairs, dead, lapsed, cookie, access, call, flight, login, writer,
          changes, overlapped, interrupted, ops, faults>>
-----------------------------------------------------------------------------
NoToken == 0
Pairs == 1..Len(pairs)
NoRow == [ver |-> 0, seen |-> 0]
Landed == [at |-> "none", with |-> NoToken, row |-> NoRow, new |-> NoToken]
Quiet == [at |-> "idle", tok |-> NoToken]
NoLogin == [at |-> "none", row |-> NoRow]
NoChange == [at |-> "none", row |-> NoRow, for |-> {}, acc |-> NoToken, ref |-> NoToken]
TheRow == [ver |-> user.ver, seen |-> changes]

Open == {"sent", "refused", "waiting", "resent"}   \* calls not yet answered

\* get_current_user: the row decides before the blacklist does.
Authorized(tok) ==
    /\ tok \in Pairs \ lapsed
    /\ user.active
    /\ pairs[tok].ver = user.ver
    /\ tok \notin dead.access

\* refresh: not rotated or logged out, an active user, the current version.
Renewable(tok) ==
    /\ tok \in Pairs \ dead.refresh
    /\ user.active
    /\ pairs[tok].ver = user.ver

\* blacklist_access_token and revoke_refresh.
Blacklist(acc, ref) ==
    dead' = [refresh |-> dead.refresh \union ({ref} \ {NoToken}),
             access  |-> dead.access \union ({acc} \ {NoToken}),
             last    |-> IF acc = NoToken THEN dead.last ELSE acc]

\* issue_tokens: both tokens of the pair carry the version the caller read.
IssueTokens(read) == pairs' = Append(pairs, read)
Fresh == Len(pairs) + 1

\* The session of a browser is contested once two tabs refresh one cookie.
Contested(t) == \E u \in Tabs \ {t} : flight[u].with = cookie /\ flight[u].at # "none"

Spend == ops < MaxOps /\ ops' = ops + 1 /\ UNCHANGED faults
Free == UNCHANGED <<ops, faults>>
-----------------------------------------------------------------------------
Init ==
    /\ user = [ver |-> 0, active |-> TRUE]
    /\ pairs = <<NoRow>>
    /\ dead = [refresh |-> {}, access |-> {}, last |-> NoToken]
    /\ lapsed = {}
    /\ cookie = 1
    /\ access \in [Tabs -> {NoToken, 1}]
    /\ call = [t \in Tabs |-> [s \in Slots |-> Quiet]]
    /\ flight = [t \in Tabs |-> Landed]
    /\ login = [t \in Tabs |-> NoLogin]
    /\ writer = [w \in Writers |-> NoChange]
    /\ changes = 0 /\ overlapped = FALSE /\ interrupted = FALSE
    /\ ops = 0 /\ faults = 0

\* request(): the first try, with whatever token the tab holds.
Call(t, s) ==
    /\ call[t][s].at \notin Open
    /\ call' = [call EXCEPT ![t][s] = [at |-> "sent", tok |-> access[t]]]
    /\ Spend
    /\ UNCHANGED <<user, pairs, dead, lapsed, cookie, access, flight, login, writer, history>>

\* The server answers: 200, or 401.  A second 401 is the caller's error.
Serve(t, s) ==
    /\ call[t][s].at \in {"sent", "resent"}
    /\ call' = [call EXCEPT ![t][s] =
                   [Quiet EXCEPT !.at = IF Authorized(call[t][s].tok) THEN "idle"
                                        ELSE IF call[t][s].at = "sent" THEN "refused" ELSE "failed"]]
    /\ Free
    /\ UNCHANGED <<user, pairs, dead, lapsed, cookie, access, flight, login, writer, history>>

\* Seeded fault: every 401 starts a refresh of its own.
JoinAlone(t, s) ==
    /\ call[t][s].at = "refused"
    /\ call' = [call EXCEPT ![t][s].at = "waiting"]
    /\ flight' = [flight EXCEPT ![t] = [Landed EXCEPT !.at = "sent", !.with = cookie]]
    /\ interrupted' = (interrupted \/ Contested(t))
    /\ Free
    /\ UNCHANGED <<user, pairs, dead, lapsed, cookie, access, login, writer, changes, overlapped>>

\* refreshAccessToken(): the first 401 of a tab starts it, the others join.
Join(t, s) ==
    /\ call[t][s].at = "refused"
    /\ call' = [call EXCEPT ![t][s].at = "waiting"]
    /\ \/ flight[t].at # "none" /\ UNCHANGED <<flight, interrupted>>
       \/ /\ flight[t].at = "none"
          /\ flight' = [flight EXCEPT ![t] = [Landed EXCEPT !.at = "sent", !.with = cookie]]
          /\ interrupted' = (interrupted \/ Contested(t))
    /\ Free
    /\ UNCHANGED <<user, pairs, dead, lapsed, cookie, access, login, writer, changes, overlapped>>

\* POST /refresh up to the version gate.
RefreshRead(t) ==
    /\ flight[t].at = "sent"
    /\ flight' = [flight EXCEPT ![t].at = IF Renewable(flight[t].with) THEN "read" ELSE "refused",
                                ![t].row = TheRow]
    /\ Free
    /\ UNCHANGED <<user, pairs, dead, lapsed, cookie, access, call, login, writer, history>>

\* Seeded fault: the new pair carries the version of the row as it is now.
MintCurrent(t) ==
    /\ flight[t].at = "read"
    /\ Blacklist(NoToken, flight[t].with)
    /\ IssueTokens([flight[t].row EXCEPT !.ver = user.ver])
    /\ flight' = [flight EXCEPT ![t].at = "minted", ![t].new = Fresh]
    /\ Free
    /\ UNCHANGED <<user, lapsed, cookie, access, call, login, writer, history>>

\* POST /refresh from there: the old token is spent, a new pair is minted.
RefreshMint(t) ==
    /\ flight[t].at = "read"
    /\ Blacklist(NoToken, flight[t].with)
    /\ IssueTokens(flight[t].row)
    /\ flight' = [flight EXCEPT ![t].at = "minted", ![t].new = Fresh]
    /\ Free
    /\ UNCHANGED <<user, lapsed, cookie, access, call, login, writer, history>>

Waiting(t) == {s \in Slots : call[t][s].at = "waiting"}

\* The answer: the jar takes the cookie, and every waiting call tries again.
RefreshAnswered(t) ==
    /\ flight[t].at = "minted"
    /\ cookie' = flight[t].new
    /\ access' = [access EXCEPT ![t] = flight[t].new]
    /\ call' = [call EXCEPT ![t] = [s \in Slots |->
                   IF s \in Waiting(t) THEN [at |-> "resent", tok |-> flight[t].new] ELSE call[t][s]]]
    /\ flight' = [flight EXCEPT ![t] = Landed]
    /\ Free
    /\ UNCHANGED <<user, pairs, dead, lapsed, login, writer, history>>

\* A refresh that fails signs the tab out when calls of request() wait for it.
GiveUp(t) ==
    /\ access' = IF Waiting(t) = {} THEN access ELSE [access EXCEPT ![t] = NoToken]
    /\ call' = [call EXCEPT ![t] = [s \in Slots |->
                   IF s \in Waiting(t) THEN [call[t][s] EXCEPT !.at = "ended"] ELSE call[t][s]]]

\* The connection breaks, on the way there or back, or the backend hangs.
RefreshBreaks(t) ==
    /\ flight[t].at \in {"sent", "minted"}
    /\ faults < MaxFaults /\ faults' = faults + 1
    /\ \E how \in {"broken", "hung"} :
         flight' = [flight EXCEPT ![t] = [Landed EXCEPT !.at = how, !.with = flight[t].with]]
    /\ interrupted' = TRUE
    /\ UNCHANGED <<user, pairs, dead, lapsed, cookie, access, call, login, writer,
                   changes, overlapped, ops>>

\* Seeded fault: fetch has no AbortSignal.timeout, so a hung refresh stays.
FailsUnlessHung(t) ==
    /\ flight[t].at \in {"refused", "broken"}
    /\ GiveUp(t)
    /\ flight' = [flight EXCEPT ![t] = Landed]
    /\ Free
    /\ UNCHANGED <<user, pairs, dead, lapsed, cookie, login, writer, history>>

\* A 401, fetch rejecting, or the 15 seconds of AbortSignal.timeout: the
\* shared promise is cleared and every call that joined it is given up.
RefreshFails(t) ==
    /\ flight[t].at \in {"refused", "broken", "hung"}
    /\ GiveUp(t)
    /\ flight' = [flight EXCEPT ![t] = Landed]
    /\ Free
    /\ UNCHANGED <<user, pairs, dead, lapsed, cookie, login, writer, history>>
-----------------------------------------------------------------------------
\* POST /login (or a scan code): the row is read and the password verified ...
LoginRead(t) ==
    /\ login[t].at = "none"
    /\ user.active
    /\ login' = [login EXCEPT ![t] = [at |-> "read", row |-> TheRow]]
    /\ Spend
    /\ UNCHANGED <<user, pairs, dead, lapsed, browser, writer, history>>

\* ... the audit row is written, then the pair is minted from the row read.
LoginMint(t) ==
    /\ login[t].at = "read"
    /\ IssueTokens(login[t].row)
    /\ cookie' = Fresh
    /\ access' = [access EXCEPT ![t] = Fresh]
    /\ login' = [login EXCEPT ![t] = NoLogin]
    /\ Free
    /\ UNCHANGED <<user, dead, lapsed, call, flight, writer, history>>

\* POST /logout: both tokens are blacklisted, cookie and access token dropped.
Logout(t) ==
    /\ access[t] # NoToken
    /\ Blacklist(access[t], cookie)
    /\ cookie' = NoToken
    /\ access' = [access EXCEPT ![t] = NoToken]
    /\ interrupted' = TRUE
    /\ Spend
    /\ UNCHANGED <<user, pairs, lapsed, call, flight, login, writer, changes, overlapped>>

\* An access token outlives its 30 minutes; no call takes as long.  The blacklist is one set whose
\* expiry is that of the token added last: with it all entries go.
Lapse(i) ==
    /\ i \in Pairs \ lapsed
    /\ \A t \in Tabs : /\ flight[t].new # i
                       /\ \A s \in Slots : call[t][s].at \in Open => call[t][s].tok # i
    /\ lapsed' = lapsed \union {i}
    /\ dead' = IF i = dead.last THEN [dead EXCEPT !.access = {}, !.last = NoToken] ELSE dead
    /\ Spend
    /\ UNCHANGED <<user, pairs, browser, login, writer, history>>
-----------------------------------------------------------------------------
\* A writer reads the row: the tab through its bearer token, the mail flow
\* after its code was accepted, the administrator by id.  The tab's request
\* carries an access token and the cookie.
ChangeRead(w) ==
    /\ writer[w].at = "none"
    /\ \/ \E t \in Tabs :
            /\ w = "tab" /\ Authorized(access[t])
            /\ writer' = [writer EXCEPT ![w] = [at |-> "read", row |-> TheRow, for |-> {t},
                                               acc |-> access[t], ref |-> cookie]]
       \/ /\ w # "tab" /\ user.active
          /\ writer' = [writer EXCEPT ![w] = [NoChange EXCEPT !.at = "read", !.row = TheRow]]
    /\ Spend
    /\ UNCHANGED <<user, pairs, dead, lapsed, browser, login, history>>

\* The version a writer stores: one more than the one it read.
Committed(w) == [ver |-> writer[w].row.ver + 1, seen |-> changes + 1]

\* set_password and update_user: one more than the version read, committed.
ChangeCommit(w) ==
    /\ writer[w].at = "read"
    /\ user' = [ver |-> Committed(w).ver, active |-> user.active /\ w # "admin"]
    /\ changes' = changes + 1
    /\ overlapped' = (overlapped \/ writer[w].row.seen # changes)
    /\ interrupted' = TRUE
    /\ writer' = [writer EXCEPT ![w] =
                     IF w = "tab" THEN [writer[w] EXCEPT !.at = "committed", !.row = Committed(w)]
                     ELSE NoChange]
    /\ Free
    /\ UNCHANGED <<pairs, dead, lapsed, browser, login>>

\* change_password, after the commit: the tokens of the request are
\* blacklisted too, and the tab gets a pair with the new version.
ChangeAnswered ==
    /\ writer["tab"].at = "committed"
    /\ Blacklist(writer["tab"].acc, writer["tab"].ref)
    /\ \E t \in writer["tab"].for : access' = [access EXCEPT ![t] = Fresh]
    /\ IssueTokens(writer["tab"].row)
    /\ cookie' = Fresh
    /\ writer' = [writer EXCEPT !["tab"] = NoChange]
    /\ Free
    /\ UNCHANGED <<user, lapsed, call, flight, login, history>>

\* update_user(is_active = True): the version stays.
Reactivate ==
    /\ ~user.active
    /\ user' = [user EXCEPT !.active = TRUE]
    /\ Spend
    /\ UNCHANGED <<pairs, dead, lapsed, browser, login, writer, history>>
-----------------------------------------------------------------------------
\* What the client and the API do by themselves.
TabStep(t) ==
    \/ \E s \in Slots : Serve(t, s) \/ Join(t, s)
    \/ RefreshRead(t) \/ RefreshMint(t) \/ RefreshAnswered(t) \/ RefreshFails(t)
    \/ LoginMint(t)

Next ==
    \/ \E t \in Tabs : \/ TabStep(t)
                       \/ \E s \in Slots : Call(t, s)
                       \/ LoginRead(t) \/ Logout(t) \/ RefreshBreaks(t)
    \/ \E i \in Pairs : Lapse(i)
    \/ \E w \in Writers : ChangeRead(w) \/ ChangeCommit(w)
    \/ ChangeAnswered \/ Reactivate

Spec == Init /\ [][Next]_vars
FairSpec == Spec /\ \A t \in Tabs : WF_vars(TabStep(t))
-----------------------------------------------------------------------------
\* After a password change or a deactivation no call is served with a token
\* minted from the row as it was before (get_current_user, POST /refresh,
\* set_password, update_user).  From the first change that commits over another
\* one made since it read the row, nothing is promised any more: it stores one
\* more than an old version, which may equal or precede the current one.
ChangeEndsSessions ==
    [][\A t \in Tabs, s \in Slots :
          call[t][s].at # "idle" /\ call'[t][s].at = "idle"
             => pairs[call[t][s].tok].seen = changes \/ overlapped]_vars

\* Calls of one tab never spend each other's refresh token: no call ends in
\* "session expired" unless the session was ended by a logout or a change, a
\* refresh broke or hung, or two tabs had a refresh of the same cookie under
\* way at once (refreshAccessToken is shared within a tab only).
StaysSignedIn ==
    \A t \in Tabs, s \in Slots : call[t][s].at \in {"ended", "failed"} => interrupted

\* Every call comes back, also one that waits for a refresh another call began
\* and the backend never answers ("bound the refresh so a hung backend can't
\* lock up every concurrent 401 retry", api-client.ts).
CallsSettle ==
    \A t \in Tabs, s \in Slots : call[t][s].at \in Open ~> call[t][s].at \notin Open
=============================================================================
