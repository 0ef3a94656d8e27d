--------------------------------- MODULE Gates ---------------------------------
(***************************************************************************)
(* What a request passes before a service sees it: the caller's address,   *)
(* the rate limits, the mailed codes, the idempotency marker, and who may  *)
(* register, sign in or bind a WeChat identity.                            *)
(*                                                                         *)
(* Every gate is a function of its stored record and of the request; the   *)
(* record of a gate is one Redis key, one list in memory or one table.     *)
(***************************************************************************)
EXTENDS Naturals, Sequences, FiniteSets, SequencesExt

CONSTANTS
    Limit, Window,  \* of a rate limit
    Trusted,        \* addresses of our own proxies
    MaxTries,       \* EMAIL_CODE_MAX_ATTEMPTS
    Burst           \* EMAIL_CODE_BURST_LIMIT

-----------------------------------------------------------------------------
(* Rate limits *)

\* _ip_of: the peer, or the last hop that is not a proxy of ours.
IpOf(peer, chain) ==
    LET Foreign == {i \in 1..Len(chain) : chain[i] \notin Trusted} IN
    IF peer \notin Trusted \/ chain = <<>> THEN peer
    ELSE IF Foreign = {} THEN chain[1]
    ELSE chain[CHOOSE i \in Foreign : \A j \in Foreign : j <= i]

\* Redis: a counter that expires Window after its first hit.
NoHits == [count |-> 0, until |-> 0, ok |-> TRUE]
CounterHit(b, now) ==
    LET live == IF now < b.until THEN b ELSE [NoHits EXCEPT !.until = now + Window] IN
    [live EXCEPT !.count = @ + 1, !.ok = live.count < Limit]

\* Without Redis: the times of the admitted hits still inside the window.
SlidingHit(b, now) ==
    LET live == SelectSeq(b.times, LAMBDA t : t + Window > now) IN
    IF Len(live) >= Limit THEN [times |-> live, ok |-> FALSE]
    ELSE [times |-> Append(live, now), ok |-> TRUE]
-----------------------------------------------------------------------------
(* Mailed codes.  The codes of an address are kept by purpose; the resend  *)
(* interval, the hourly burst and the wrong guesses are counted by address.*)

Purposes == {"register", "reset"}
NoCode == 0
EmptyMail == [code |-> [p \in Purposes |-> NoCode], wait |-> FALSE, sent |-> 0, tries |-> 0,
              issued |-> 0, said |-> "none"]

\* request_code
RequestCode(m, p) ==
    IF m.wait THEN [m EXCEPT !.said = "too soon"]
    ELSE IF m.sent >= Burst THEN [m EXCEPT !.wait = TRUE, !.said = "too many"]
    ELSE [m EXCEPT !.wait = TRUE, !.sent = @ + 1, !.issued = @ + 1,
                   !.code[p] = m.issued + 1, !.said = "sent"]

\* The resend interval passes.
IntervalPasses(m) == [m EXCEPT !.wait = FALSE, !.said = "none"]

\* verify_and_consume; the stored code is read and deleted with nothing between.
VerifyCode(m, p, right) ==
    IF m.code[p] = NoCode THEN [m EXCEPT !.said = "no code"]
    ELSE IF right
      THEN [m EXCEPT !.code[p] = NoCode, !.wait = FALSE, !.tries = 0, !.said = "accepted"]
    ELSE IF m.tries + 1 >= MaxTries
      THEN [m EXCEPT !.code[p] = NoCode, !.tries = 0, !.said = "spent"]
    ELSE [m EXCEPT !.tries = @ + 1, !.said = "wrong"]
-----------------------------------------------------------------------------
(* Idempotency-Key *)

\* check: SET NX.  Nothing is recorded for a request without a key.
CheckKey(held, key) ==
    IF key = "none" THEN [held |-> held, ok |-> TRUE]
    ELSE [held |-> held \union {key}, ok |-> key \notin held]

\* release: called by the inline producer for an unexpected exception only; an
\* HTTPException, an AppException and the durable path keep the marker.
ReleaseKey(held, key, path, outcome) ==
    IF path = "inline" /\ outcome = "exception" THEN held \ {key} ELSE held
-----------------------------------------------------------------------------
(* Accounts *)

\* register: password policy, mailed code, uniqueness; the first user administers.
Register(strong, codeEnforced, consumed, emails, email) ==
    IF ~strong \/ (codeEnforced /\ ~consumed) THEN "rejected"
    ELSE IF email \in emails THEN "conflict"
    ELSE IF emails = {} THEN "admin" ELSE "user"

\* login and authenticate: a disabled account is told so only after its password.
LoginVerdict(known, right, active) ==
    IF ~known \/ ~right THEN "invalid" ELSE IF active THEN "tokens" ELSE "disabled"

\* change_password: an account without a password of its own needs no old one.
MayChangePassword(strong, isSet, oldRight) == strong /\ (isSet => oldRight)

\* A table of WeChat identities is a set of pairs <<openid, user>>.
UsersOf(table, openid) == {b[2] : b \in {c \in table : c[1] = openid}}

\* login_with_code: the bound account, or a new one.
WechatLogin(table, openid, newUser) ==
    IF UsersOf(table, openid) # {} THEN [table |-> table, user |-> CHOOSE u \in UsersOf(table, openid) : TRUE]
    ELSE [table |-> table \union {<<openid, newUser>>}, user |-> newUser]

\* unbind removes one row, and bind_openid the row it replaces.
WechatUnbind(table, user) == {b \in table : b[2] # user}

\* bind_openid: never taken from another account.
WechatBind(table, openid, user) ==
    IF UsersOf(table, openid) \ {user} # {} THEN table
    ELSE WechatUnbind(table, user) \union {<<openid, user>>}
=============================================================================
