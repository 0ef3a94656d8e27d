--------------------------- MODULE Sessions_proofs ---------------------------
(***************************************************************************)
(* Proofs about Sessions, for any number of tabs and calls and any number  *)
(* of changes, logins and broken refreshes: while no change overtakes      *)
(* another, a committed change ends what was minted before it; and until   *)
(* the session is ended, a refresh breaks or two tabs refresh one cookie   *)
(* at once, no call is signed out.                                         *)
(***************************************************************************)
EXTENDS Sessions, TLAPS

Rows    == [ver : Nat, seen : Nat]
Tokens  == 0..Len(pairs)
Calls   == [at : {"idle", "sent", "refused", "waiting", "resent", "ended", "failed"}, tok : Nat]
Flights == [at : {"none", "sent", "read", "minted", "refused", "broken", "hung"}, with : Nat, row : Rows, new : Nat]
Changing == [at : {"none", "read", "committed"}, row : Rows, for : SUBSET Tabs, acc : Nat, ref : Nat]

\* What the variables hold; a token that is in use has been minted.
Types ==
    /\ user \in [ver : Nat, active : BOOLEAN]
    /\ pairs \in Seq(Rows)
    /\ dead \in [refresh : SUBSET Tokens, access : SUBSET Nat, last : Nat]
    /\ lapsed \subseteq Tokens \ {NoToken}
    /\ cookie \in Tokens
    /\ access \in [Tabs -> Nat]
    /\ call \in [Tabs -> [Slots -> Calls]]
    /\ flight \in [Tabs -> Flights]
    /\ \A t \in Tabs : flight[t].with \in Tokens /\ flight[t].new \in Tokens
    /\ login \in [Tabs -> [at : {"none", "read"}, row : Rows]]
    /\ writer \in [Writers -> Changing]
    /\ \A w \in Writers : writer[w].ref \in Tokens
    /\ changes \in Nat /\ overlapped \in BOOLEAN /\ interrupted \in BOOLEAN

\* While no two changes started from one version, the version counts the
\* changes, and a row that was read says how many there had been.
VersionsCount ==
    ~ overlapped =>
        /\ user.ver = changes
        /\ \A i \in Pairs : pairs[i].ver = pairs[i].seen
        /\ \A t \in Tabs : flight[t].row.ver = flight[t].row.seen
        /\ \A t \in Tabs : login[t].row.ver = login[t].row.seen
        /\ \A w \in Writers : writer[w].row.ver = writer[w].row.seen

\* While nothing ended the session, the user is as at first and so is every row.
Undisturbed ==
    /\ user = [ver |-> 0, active |-> TRUE]
    /\ dead.access = {}
    /\ writer["tab"].at # "committed"
    /\ \A i \in Pairs : pairs[i].ver = 0
    /\ \A t \in Tabs : flight[t].row.ver = 0 /\ login[t].row.ver = 0

Busy(t) == flight[t].at # "none"
Minted(t) == flight[t].at = "minted"

\* The refreshes under way hold different tokens, none of them spent by another,
\* and what they will bring is unspent; the cookie is spent only by a refresh
\* whose answer is on its way.
OneTokenEach ==
    /\ cookie # NoToken
    /\ \A t \in Tabs : flight[t].at \notin {"refused", "broken", "hung"}
    /\ \A t \in Tabs : Busy(t) => flight[t].with # NoToken
    /\ \A t \in Tabs : flight[t].at \in {"sent", "read"} => flight[t].with \notin dead.refresh
    /\ \A t \in Tabs : Minted(t) =>
          flight[t].new \notin dead.refresh \union lapsed \union {cookie, NoToken}
    /\ \A t, u \in Tabs : t # u /\ Busy(t) /\ Busy(u) => flight[t].with # flight[u].with
    /\ \A t, u \in Tabs : Minted(t) /\ Busy(u) => flight[t].new # flight[u].with
    /\ \A t, u \in Tabs : t # u /\ Minted(t) /\ Minted(u) => flight[t].new # flight[u].new
    /\ cookie \in dead.refresh => \E t \in Tabs : Minted(t) /\ flight[t].with = cookie

\* No call has been given up, and a second try carries a token that is good.
CallsGood ==
    \A t \in Tabs, s \in Slots :
        /\ call[t][s].at \notin {"ended", "failed"}
        /\ call[t][s].at = "resent" => call[t][s].tok \in Pairs \ lapsed

SessionHolds == ~ interrupted => Undisturbed /\ OneTokenEach /\ CallsGood

IInv == Types /\ VersionsCount /\ SessionHolds

-----------------------------------------------------------------------------
(* What the steps do to each variable.                                      *)

LEMMA TokenFacts == 
    ASSUME Types
    PROVE  /\ NoToken \in Tokens /\ Tokens \subseteq Nat /\ Pairs = Tokens \ {NoToken}
           /\ \A i \in Pairs : pairs[i] \in Rows
           /\ TheRow \in Rows
  <1>1. Len(pairs) \in Nat /\ \A i \in 1..Len(pairs) : pairs[i] \in Rows
    BY DEF Types
  <1>2. TheRow \in Rows
    BY DEF Types, TheRow, Rows
  <1> QED BY <1>1, <1>2 DEF Tokens, Pairs, NoToken

LEMMA SameTokens == ASSUME UNCHANGED pairs PROVE Tokens' = Tokens /\ Pairs' = Pairs
  BY DEF Tokens, Pairs

LEMMA IssueStep ==
    ASSUME Types, NEW r \in Rows, IssueTokens(r)
    PROVE  /\ pairs' \in Seq(Rows)
           /\ Fresh \in Tokens' /\ Fresh \notin Tokens /\ Fresh \in Nat
           /\ Tokens' = Tokens \union {Fresh} /\ Pairs' = Pairs \union {Fresh}
           /\ pairs'[Fresh] = r /\ \A i \in Pairs : pairs'[i] = pairs[i]
  <1>1. pairs' = Append(pairs, r) /\ pairs \in Seq(Rows)
    BY DEF IssueTokens, Types
  <1>2. /\ pairs' \in Seq(Rows) /\ Len(pairs') = Len(pairs) + 1 /\ Len(pairs) \in Nat
        /\ pairs'[Len(pairs) + 1] = r
        /\ \A i \in 1..Len(pairs) : pairs'[i] = pairs[i]
    BY <1>1
  <1> QED BY <1>2 DEF Tokens, Pairs, Fresh

LEMMA CallStep ==
    ASSUME Types, NEW t \in Tabs, NEW s \in Slots, NEW x \in Calls,
           call' = [call EXCEPT ![t][s] = x]
    PROVE  call' \in [Tabs -> [Slots -> Calls]]
  BY DEF Types

LEMMA CallsStep ==
    ASSUME Types, NEW t \in Tabs, NEW f \in [Slots -> Calls], call' = [call EXCEPT ![t] = f]
    PROVE  call' \in [Tabs -> [Slots -> Calls]]
  BY DEF Types

LEMMA FlightStep ==
    ASSUME Types, NEW t \in Tabs, NEW x \in Flights, flight' = [flight EXCEPT ![t] = x]
    PROVE  flight' \in [Tabs -> Flights]
  BY DEF Types

LEMMA RecordTypes ==
    ASSUME Types, NEW t \in Tabs
    PROVE  /\ flight[t] \in Flights /\ flight[t].row \in Rows
           /\ login[t].row \in Rows /\ access[t] \in Nat
           /\ \A s \in Slots : call[t][s] \in Calls
           /\ \A w \in Writers : writer[w].row \in Rows /\ writer[w].for \subseteq Tabs
  BY DEF Types, Flights, Changing

LEMMA LandedType == Landed \in Flights /\ NoRow \in Rows /\ Landed.with = NoToken /\ Landed.new = NoToken
  BY DEF Landed, Flights, NoRow, NoToken, Rows

LEMMA GiveUpTypes ==
    ASSUME Types, NEW t \in Tabs, GiveUp(t)
    PROVE  call' \in [Tabs -> [Slots -> Calls]] /\ access' \in [Tabs -> Nat]
  <1> DEFINE f == [s \in Slots |-> IF s \in Waiting(t) THEN [call[t][s] EXCEPT !.at = "ended"] ELSE call[t][s]]
  <1>1. f \in [Slots -> Calls]
    BY RecordTypes DEF Calls
  <1>2. call' = [call EXCEPT ![t] = f]
    BY DEF GiveUp
  <1>3. access' \in [Tabs -> Nat]
    BY DEF GiveUp, Types, NoToken
  <1> QED BY <1>1, <1>2, <1>3, CallsStep

-----------------------------------------------------------------------------
(* Every action keeps the types.                                            *)

LEMMA TypesInit == ASSUME Init PROVE Types
  <1>1. pairs \in Seq(Rows) /\ Len(pairs) = 1
    BY LandedType DEF Init
  <1>2. Tokens = {0, 1}
    BY <1>1 DEF Tokens
  <1>3. call \in [Tabs -> [Slots -> Calls]]
    BY DEF Init, Calls, Quiet, NoToken
  <1>4. flight \in [Tabs -> Flights] /\ \A t \in Tabs : flight[t].with = 0 /\ flight[t].new = 0
    BY LandedType DEF Init, NoToken
  <1>5. login \in [Tabs -> [at : {"none", "read"}, row : Rows]]
    BY LandedType DEF Init, NoLogin
  <1>6. writer \in [Writers -> Changing] /\ \A w \in Writers : writer[w].ref = 0
    BY LandedType DEF Init, NoChange, Changing, NoToken
  <1>7. access \in [Tabs -> Nat] /\ cookie \in Tokens
    BY <1>2 DEF Init, NoToken
  <1> QED BY <1>1, <1>2, <1>3, <1>4, <1>5, <1>6, <1>7 DEF Init, Types, NoToken

LEMMA CallTypes ==
    ASSUME Types, NEW t \in Tabs, NEW s \in Slots, Call(t, s)
    PROVE  Types'
  <1>1. [at |-> "sent", tok |-> access[t]] \in Calls
    BY RecordTypes DEF Calls
  <1>2. call' \in [Tabs -> [Slots -> Calls]]
    BY <1>1, CallStep DEF Call
  <1> QED BY <1>2, SameTokens DEF Types, Call, history

LEMMA ServeTypes ==
    ASSUME Types, NEW t \in Tabs, NEW s \in Slots, Serve(t, s)
    PROVE  Types'
  <1> DEFINE x == [Quiet EXCEPT !.at = IF Authorized(call[t][s].tok) THEN "idle"
                                        ELSE IF call[t][s].at = "sent" THEN "refused" ELSE "failed"]
  <1>1. x \in Calls
    BY DEF Calls, Quiet, NoToken
  <1>2. call' = [call EXCEPT ![t][s] = x]
    BY DEF Serve
  <1>3. call' \in [Tabs -> [Slots -> Calls]]
    BY <1>1, <1>2, CallStep
  <1> QED BY <1>3, SameTokens DEF Types, Serve, history

LEMMA JoinTypes ==
    ASSUME Types, NEW t \in Tabs, NEW s \in Slots, Join(t, s)
    PROVE  Types'
  <1>1. call' \in [Tabs -> [Slots -> Calls]]
    <2>1. [call[t][s] EXCEPT !.at = "waiting"] \in Calls
      BY RecordTypes DEF Calls
    <2>2. call' = [call EXCEPT ![t][s] = [call[t][s] EXCEPT !.at = "waiting"]]
      BY DEF Join
    <2> QED BY <2>1, <2>2, CallStep
  <1>2. interrupted' \in BOOLEAN
    BY DEF Join, Types, Contested
  <1>3. CASE flight' = flight
    BY <1>1, <1>2, <1>3, SameTokens DEF Types, Join
  <1>4. CASE flight' = [flight EXCEPT ![t] = [Landed EXCEPT !.at = "sent", !.with = cookie]]
    <2> DEFINE x == [Landed EXCEPT !.at = "sent", !.with = cookie]
    <2>1. x \in Flights /\ x.with = cookie /\ x.new = NoToken
      BY TokenFacts DEF Flights, Landed, NoRow, NoToken, Rows, Types
    <2>2. flight' \in [Tabs -> Flights]
      BY <1>4, <2>1, FlightStep
    <2>3. \A u \in Tabs : flight'[u].with \in Tokens /\ flight'[u].new \in Tokens
      BY <1>4, <2>1, TokenFacts DEF Types
    <2> QED BY <1>1, <1>2, <2>2, <2>3, SameTokens DEF Types, Join
  <1> QED BY <1>3, <1>4 DEF Join

LEMMA RefreshReadTypes ==
    ASSUME Types, NEW t \in Tabs, RefreshRead(t)
    PROVE  Types'
  <1> DEFINE x == [flight[t] EXCEPT !.at = IF Renewable(flight[t].with) THEN "read" ELSE "refused",
                                    !.row = TheRow]
  <1>1. x \in Flights /\ x.with = flight[t].with /\ x.new = flight[t].new
    BY RecordTypes, TokenFacts DEF Flights
  <1>2. flight' = [flight EXCEPT ![t] = x]
    BY DEF RefreshRead
  <1>3. flight' \in [Tabs -> Flights]
    BY <1>1, <1>2, FlightStep
  <1>4. \A u \in Tabs : flight'[u].with \in Tokens /\ flight'[u].new \in Tokens
    BY <1>1, <1>2 DEF Types
  <1> QED BY <1>3, <1>4, SameTokens DEF Types, RefreshRead, history

LEMMA RefreshMintTypes ==
    ASSUME Types, NEW t \in Tabs, RefreshMint(t)
    PROVE  Types'
  <1> DEFINE x == [flight[t] EXCEPT !.at = "minted", !.new = Fresh]
  <1>0. /\ pairs' \in Seq(Rows) /\ Fresh \in Nat
        /\ Tokens' = Tokens \union {Fresh}
    BY IssueStep, RecordTypes DEF RefreshMint
  <1>1. x \in Flights /\ x.with = flight[t].with /\ x.new = Fresh
    BY RecordTypes, <1>0 DEF Flights
  <1>2. flight' = [flight EXCEPT ![t] = x]
    BY DEF RefreshMint
  <1>3. flight' \in [Tabs -> Flights]
    BY <1>1, <1>2, FlightStep
  <1>4. \A u \in Tabs : flight'[u].with \in Tokens' /\ flight'[u].new \in Tokens'
    BY <1>0, <1>1, <1>2 DEF Types
  <1>5. dead' \in [refresh : SUBSET Tokens', access : SUBSET Nat, last : Nat]
    BY <1>0 DEF RefreshMint, Blacklist, Types, NoToken
  <1> QED BY <1>0, <1>3, <1>4, <1>5 DEF Types, RefreshMint, history

LEMMA RefreshAnsweredTypes ==
    ASSUME Types, NEW t \in Tabs, RefreshAnswered(t)
    PROVE  Types'
  <1> DEFINE f == [s \in Slots |-> IF s \in Waiting(t) THEN [at |-> "resent", tok |-> flight[t].new] ELSE call[t][s]]
  <1>1. f \in [Slots -> Calls]
    BY RecordTypes DEF Calls, Flights
  <1>2. call' \in [Tabs -> [Slots -> Calls]]
    BY <1>1, CallsStep DEF RefreshAnswered
  <1>3. flight' \in [Tabs -> Flights]
    BY LandedType, FlightStep DEF RefreshAnswered
  <1>4. \A u \in Tabs : flight'[u].with \in Tokens /\ flight'[u].new \in Tokens
    BY LandedType, TokenFacts DEF Types, RefreshAnswered
  <1>5. access' \in [Tabs -> Nat] /\ cookie' \in Tokens
    BY TokenFacts DEF Types, RefreshAnswered
  <1> QED BY <1>2, <1>3, <1>4, <1>5, SameTokens DEF Types, RefreshAnswered, history

LEMMA FailTypes ==
    ASSUME Types, NEW t \in Tabs, RefreshFails(t)
    PROVE  Types'
  <1>1. call' \in [Tabs -> [Slots -> Calls]] /\ access' \in [Tabs -> Nat]
    BY GiveUpTypes DEF RefreshFails
  <1>2. flight' = [flight EXCEPT ![t] = Landed]
    BY DEF RefreshFails
  <1>3. flight' \in [Tabs -> Flights]
    BY <1>2, LandedType, FlightStep
  <1>4. \A u \in Tabs : flight'[u].with \in Tokens /\ flight'[u].new \in Tokens
    BY <1>2, LandedType, TokenFacts DEF Types
  <1> QED BY <1>1, <1>3, <1>4, SameTokens DEF Types, RefreshFails, history

LEMMA BreakTypes ==
    ASSUME Types, NEW t \in Tabs, RefreshBreaks(t)
    PROVE  Types'
  <1>1. PICK how \in {"broken", "hung"} :
           flight' = [flight EXCEPT ![t] = [Landed EXCEPT !.at = how, !.with = flight[t].with]]
    BY DEF RefreshBreaks
  <1> DEFINE x == [Landed EXCEPT !.at = how, !.with = flight[t].with]
  <1>2. x \in Flights /\ x.with = flight[t].with /\ x.new = NoToken
    BY RecordTypes DEF Flights, Landed, NoRow, NoToken, Rows
  <1>3. flight' \in [Tabs -> Flights]
    BY <1>1, <1>2, FlightStep
  <1>4. \A u \in Tabs : flight'[u].with \in Tokens /\ flight'[u].new \in Tokens
    BY <1>1, <1>2, TokenFacts DEF Types
  <1> QED BY <1>3, <1>4, SameTokens DEF Types, RefreshBreaks

LEMMA LoginReadTypes ==
    ASSUME Types, NEW t \in Tabs, LoginRead(t)
    PROVE  Types'
  <1>1. login' \in [Tabs -> [at : {"none", "read"}, row : Rows]]
    BY TokenFacts DEF Types, LoginRead
  <1> QED BY <1>1, SameTokens DEF Types, LoginRead, browser, history

LEMMA LoginMintTypes ==
    ASSUME Types, NEW t \in Tabs, LoginMint(t)
    PROVE  Types'
  <1>1. /\ pairs' \in Seq(Rows) /\ Fresh \in Nat
        /\ Tokens' = Tokens \union {Fresh}
    BY IssueStep, RecordTypes DEF LoginMint
  <1>2. login' \in [Tabs -> [at : {"none", "read"}, row : Rows]]
    BY LandedType DEF Types, LoginMint, NoLogin
  <1> QED BY <1>1, <1>2, TokenFacts DEF Types, LoginMint, history

LEMMA LogoutTypes ==
    ASSUME Types, NEW t \in Tabs, Logout(t)
    PROVE  Types'
  <1>1. dead' \in [refresh : SUBSET Tokens, access : SUBSET Nat, last : Nat]
    BY RecordTypes DEF Logout, Blacklist, Types, NoToken
  <1>2. access' \in [Tabs -> Nat]
    BY TokenFacts DEF Logout, Types
  <1> QED BY <1>1, <1>2, TokenFacts, SameTokens DEF Types, Logout

LEMMA LapseTypes ==
    ASSUME Types, NEW i \in Pairs, Lapse(i)
    PROVE  Types'
  <1>1. dead' \in [refresh : SUBSET Tokens, access : SUBSET Nat, last : Nat]
    BY DEF Lapse, Types, NoToken
  <1>2. lapsed' \subseteq Tokens \ {NoToken}
    BY TokenFacts DEF Lapse, Types
  <1> QED BY <1>1, <1>2, SameTokens DEF Types, Lapse, browser, history

LEMMA ChangeReadTypes ==
    ASSUME Types, NEW w \in Writers, ChangeRead(w)
    PROVE  Types'
  <1>0. writer \in [Writers -> Changing] /\ TheRow \in Rows /\ cookie \in Nat
    BY TokenFacts DEF Types
  <1>1. PICK x \in Changing : x.ref \in Tokens /\ writer' = [writer EXCEPT ![w] = x]
    <2>1. CASE w = "tab"
      <3>1. PICK t \in Tabs :
               writer' = [writer EXCEPT ![w] = [at |-> "read", row |-> TheRow, for |-> {t},
                                                acc |-> access[t], ref |-> cookie]]
        BY <2>1 DEF ChangeRead
      <3> QED BY <3>1, <1>0, RecordTypes DEF Changing, Types
    <2>2. CASE w # "tab"
      <3>1. [NoChange EXCEPT !.at = "read", !.row = TheRow] \in Changing
        BY <1>0, LandedType DEF Changing, NoChange, NoToken
      <3> QED BY <2>2, <3>1, TokenFacts DEF ChangeRead, NoChange
    <2> QED BY <2>1, <2>2
  <1>2. writer' \in [Writers -> Changing] /\ \A v \in Writers : writer'[v].ref \in Tokens
    BY <1>0, <1>1 DEF Types
  <1> QED BY <1>2, SameTokens DEF Types, ChangeRead, browser, history

LEMMA ChangeCommitTypes ==
    ASSUME Types, NEW w \in Writers, ChangeCommit(w)
    PROVE  Types'
  <1> DEFINE x == IF w = "tab" THEN [writer[w] EXCEPT !.at = "committed", !.row = Committed(w)] ELSE NoChange
  <1>1. writer[w] \in Changing /\ writer[w].row \in Rows
    BY DEF Types, Changing
  <1>2. Committed(w) \in Rows
    BY <1>1 DEF Rows, Types, Committed
  <1>3. x \in Changing /\ x.ref \in Tokens
    BY <1>1, <1>2, LandedType, TokenFacts DEF Changing, NoChange, NoToken, Types
  <1>4. writer' = [writer EXCEPT ![w] = x]
    BY DEF ChangeCommit
  <1>5. writer' \in [Writers -> Changing] /\ \A v \in Writers : writer'[v].ref \in Tokens
    BY <1>3, <1>4 DEF Types
  <1>6. user' \in [ver : Nat, active : BOOLEAN] /\ changes' \in Nat /\ overlapped' \in BOOLEAN
    BY <1>2 DEF ChangeCommit, Types, Rows
  <1> QED BY <1>5, <1>6, SameTokens DEF Types, ChangeCommit, browser

LEMMA ChangeAnsweredTypes ==
    ASSUME Types, ChangeAnswered
    PROVE  Types'
  <1>1. "tab" \in Writers /\ writer["tab"] \in Changing
    BY DEF Types, Changing, Writers
  <1>2. /\ pairs' \in Seq(Rows) /\ Fresh \in Nat
        /\ Tokens' = Tokens \union {Fresh}
    BY <1>1, IssueStep DEF ChangeAnswered, Changing
  <1>3. PICK t \in Tabs : access' = [access EXCEPT ![t] = Fresh]
    BY <1>1 DEF ChangeAnswered, Changing
  <1>4. dead' \in [refresh : SUBSET Tokens', access : SUBSET Nat, last : Nat]
    BY <1>1, <1>2 DEF ChangeAnswered, Blacklist, Types, NoToken, Changing
  <1>5. access' \in [Tabs -> Nat]
    BY <1>2, <1>3 DEF Types
  <1>6. writer' \in [Writers -> Changing] /\ \A w \in Writers : writer'[w].ref \in Tokens'
    <2>1. NoChange \in Changing /\ NoChange.ref = NoToken
      BY LandedType DEF Changing, NoChange, NoToken
    <2> QED BY <1>1, <1>2, <2>1, TokenFacts DEF ChangeAnswered, Types
  <1> QED BY <1>2, <1>4, <1>5, <1>6, TokenFacts DEF Types, ChangeAnswered, history

LEMMA ReactivateTypes == ASSUME Types, Reactivate PROVE Types'
  BY SameTokens DEF Types, Reactivate, browser, history

LEMMA NextTypes == ASSUME Types, [Next]_vars PROVE Types'
  <1>1. CASE Next
    BY <1>1, CallTypes, ServeTypes, JoinTypes, RefreshReadTypes, RefreshMintTypes, RefreshAnsweredTypes,
       FailTypes, BreakTypes, LoginReadTypes, LoginMintTypes, LogoutTypes, LapseTypes, ChangeReadTypes,
       ChangeCommitTypes, ChangeAnsweredTypes, ReactivateTypes DEF Next, TabStep
  <1>2. CASE UNCHANGED vars
    BY <1>2, SameTokens DEF Types, vars, browser, history
  <1> QED BY <1>1, <1>2

-----------------------------------------------------------------------------
(* The version counts the changes until two of them start from one version. *)

LEMMA VersionsInit == ASSUME Init PROVE VersionsCount
  BY DEF Init, VersionsCount, Pairs, NoRow, Landed, NoLogin, NoChange

LEMMA NextVersions == ASSUME Types, VersionsCount, [Next]_vars PROVE VersionsCount'
  <1> SUFFICES ASSUME ~ overlapped'
               PROVE  VersionsCount'
    BY DEF VersionsCount
  <1>a. VersionsCount => TheRow.ver = TheRow.seen \/ overlapped
    BY DEF VersionsCount, TheRow
  <1> DEFINE Faithful == /\ user.ver = changes
                         /\ \A i \in Pairs : pairs[i].ver = pairs[i].seen
                         /\ \A t \in Tabs : flight[t].row.ver = flight[t].row.seen
                         /\ \A t \in Tabs : login[t].row.ver = login[t].row.seen
                         /\ \A w \in Writers : writer[w].row.ver = writer[w].row.seen
  <1>b. ~ overlapped => Faithful
    BY DEF VersionsCount
  <1>1. ASSUME NEW t \in Tabs, NEW s \in Slots, Call(t, s) \/ Serve(t, s)
        PROVE  VersionsCount'
    BY <1>1, <1>b, SameTokens DEF Call, Serve, VersionsCount, history
  <1>2. ASSUME NEW t \in Tabs, NEW s \in Slots, Join(t, s)
        PROVE  VersionsCount'
    <2>1. \A u \in Tabs : flight'[u].row = flight[u].row \/ flight'[u].row = NoRow
      <3>1. CASE flight' = flight
        BY <3>1
      <3>2. CASE flight' = [flight EXCEPT ![t] = [Landed EXCEPT !.at = "sent", !.with = cookie]]
        BY <3>2 DEF Landed, Types
      <3> QED BY <1>2, <3>1, <3>2 DEF Join
    <2> QED BY <1>2, <1>b, <2>1, SameTokens DEF Join, VersionsCount, NoRow
  <1>3. ASSUME NEW t \in Tabs, RefreshRead(t)
        PROVE  VersionsCount'
    <2>1. flight'[t].row = TheRow /\ \A u \in Tabs \ {t} : flight'[u] = flight[u]
      BY <1>3 DEF RefreshRead, Types, Flights
    <2> QED BY <1>3, <1>a, <1>b, <2>1, SameTokens DEF RefreshRead, VersionsCount, history
  <1>4. ASSUME NEW t \in Tabs, RefreshMint(t)
        PROVE  VersionsCount'
    <2>1. \A u \in Tabs : flight'[u].row = flight[u].row
      BY <1>4 DEF RefreshMint, Types, Flights
    <2>2. /\ Pairs' = Pairs \union {Fresh}
          /\ pairs'[Fresh] = flight[t].row /\ \A i \in Pairs : pairs'[i] = pairs[i]
      BY <1>4, IssueStep, RecordTypes DEF RefreshMint
    <2>3. Faithful
      BY <1>4, <1>b DEF RefreshMint, history
    <2>4. \A i \in Pairs' : pairs'[i].ver = pairs'[i].seen
      BY <2>2, <2>3
    <2> QED BY <1>4, <2>1, <2>3, <2>4 DEF RefreshMint, VersionsCount, history
  <1>5. ASSUME NEW t \in Tabs, RefreshAnswered(t) \/ RefreshFails(t) \/ RefreshBreaks(t)
        PROVE  VersionsCount'
    <2>1. \A u \in Tabs : flight'[u].row = flight[u].row \/ flight'[u].row = NoRow
      <3>1. CASE flight' = [flight EXCEPT ![t] = Landed]
        BY <3>1 DEF Types, Landed
      <3>2. ASSUME NEW how \in {"broken", "hung"},
                   flight' = [flight EXCEPT ![t] = [Landed EXCEPT !.at = how, !.with = flight[t].with]]
            PROVE  \A u \in Tabs : flight'[u].row = flight[u].row \/ flight'[u].row = NoRow
        BY <3>2 DEF Types, Landed
      <3> QED BY <1>5, <3>1, <3>2 DEF RefreshAnswered, RefreshFails, RefreshBreaks
    <2> QED BY <1>5, <1>b, <2>1, SameTokens
            DEF RefreshAnswered, RefreshFails, RefreshBreaks, VersionsCount, history, NoRow
  <1>6. ASSUME NEW t \in Tabs, LoginRead(t)
        PROVE  VersionsCount'
    <2>1. login'[t].row = TheRow /\ \A u \in Tabs \ {t} : login'[u] = login[u]
      BY <1>6 DEF LoginRead, Types
    <2> QED BY <1>6, <1>a, <1>b, <2>1, SameTokens DEF LoginRead, VersionsCount, browser, history
  <1>7. ASSUME NEW t \in Tabs, LoginMint(t)
        PROVE  VersionsCount'
    <2>1. \A u \in Tabs : login'[u].row = login[u].row \/ login'[u].row = NoRow
      BY <1>7 DEF LoginMint, NoLogin, Types
    <2>2. /\ Pairs' = Pairs \union {Fresh}
          /\ pairs'[Fresh] = login[t].row /\ \A i \in Pairs : pairs'[i] = pairs[i]
      BY <1>7, IssueStep, RecordTypes DEF LoginMint
    <2> QED BY <1>7, <1>b, <2>1, <2>2 DEF LoginMint, VersionsCount, history, NoRow
  <1>8. ASSUME NEW t \in Tabs, Logout(t)
        PROVE  VersionsCount'
    BY <1>8, <1>b, SameTokens DEF Logout, VersionsCount
  <1>9. ASSUME NEW i \in Pairs, Lapse(i)
        PROVE  VersionsCount'
    BY <1>9, <1>b, SameTokens DEF Lapse, VersionsCount, browser, history
  <1>10. ASSUME NEW w \in Writers, ChangeRead(w)
         PROVE  VersionsCount'
    <2>1. writer'[w].row = TheRow /\ \A v \in Writers \ {w} : writer'[v] = writer[v]
      <3>1. ASSUME NEW t \in Tabs,
                   writer' = [writer EXCEPT ![w] = [at |-> "read", row |-> TheRow, for |-> {t},
                                                    acc |-> access[t], ref |-> cookie]]
            PROVE  writer'[w].row = TheRow /\ \A v \in Writers \ {w} : writer'[v] = writer[v]
        BY <3>1 DEF Types
      <3>2. CASE writer' = [writer EXCEPT ![w] = [NoChange EXCEPT !.at = "read", !.row = TheRow]]
        BY <3>2 DEF Types, NoChange
      <3> QED BY <1>10, <3>1, <3>2 DEF ChangeRead
    <2> QED BY <1>10, <1>a, <1>b, <2>1, SameTokens DEF ChangeRead, VersionsCount, browser, history
  <1>11. ASSUME NEW w \in Writers, ChangeCommit(w)
         PROVE  VersionsCount'
    <2>1. ~ overlapped /\ writer[w].row.seen = changes
      BY <1>11 DEF ChangeCommit, Types
    <2>2. user'.ver = changes + 1 /\ changes' = changes + 1
        BY <1>11, <1>b, <2>1 DEF ChangeCommit, Committed
    <2>3. \A v \in Writers \ {w} : writer'[v] = writer[v]
      BY <1>11 DEF ChangeCommit, Types
    <2>4. writer'[w].row.ver = writer'[w].row.seen
      <3>1. CASE w = "tab"
        <4>1. writer'[w].row = Committed(w)
          BY <1>11, <3>1 DEF ChangeCommit, Types
        <4> QED BY <4>1, <1>b, <2>1 DEF Committed
      <3>2. CASE w # "tab"
        BY <1>11, <3>2 DEF ChangeCommit, Types, NoChange, NoRow
      <3> QED BY <3>1, <3>2
    <2> QED BY <1>11, <1>b, <2>1, <2>2, <2>3, <2>4, SameTokens DEF ChangeCommit, VersionsCount, browser
  <1>12. ASSUME ChangeAnswered
         PROVE  VersionsCount'
    <2>0. "tab" \in Writers
      BY DEF Writers
    <2>1. \A v \in Writers : writer'[v].row = writer[v].row \/ writer'[v].row = NoRow
      BY <1>12, <2>0 DEF ChangeAnswered, NoChange, Types
    <2>2. /\ Pairs' = Pairs \union {Fresh}
          /\ pairs'[Fresh] = writer["tab"].row /\ \A i \in Pairs : pairs'[i] = pairs[i]
      <3>1. writer["tab"].row \in Rows
        BY <2>0 DEF Types, Changing
      <3> QED BY <1>12, <3>1, IssueStep DEF ChangeAnswered
    <2> QED BY <1>12, <1>b, <2>0, <2>1, <2>2 DEF ChangeAnswered, VersionsCount, history, NoRow
  <1>13. ASSUME Reactivate
         PROVE  VersionsCount'
    BY <1>13, <1>b, SameTokens DEF Reactivate, VersionsCount, browser, history, Types
  <1>14. CASE UNCHANGED vars
    BY <1>14, <1>b, SameTokens DEF VersionsCount, vars, browser, history
  <1> QED
    BY <1>1, <1>2, <1>3, <1>4, <1>5, <1>6, <1>7, <1>8, <1>9, <1>10, <1>11, <1>12, <1>13, <1>14
    DEF Next, TabStep

-----------------------------------------------------------------------------
(* Nobody is signed out while the session is left alone.                    *)

Kept == Undisturbed /\ OneTokenEach /\ CallsGood

LEMMA KeptInit == ASSUME Init PROVE SessionHolds
  <1>1. Len(pairs) = 1 /\ pairs[1].ver = 0 /\ Pairs = {1}
    BY DEF Init, NoRow, Pairs
  <1>2. Undisturbed
    BY <1>1 DEF Init, Undisturbed, NoRow, Landed, NoLogin, NoChange, Writers
  <1>3. OneTokenEach
    BY DEF Init, OneTokenEach, Landed, Busy, Minted, NoToken
  <1>4. CallsGood
    BY DEF Init, CallsGood, Quiet
  <1> QED BY <1>2, <1>3, <1>4 DEF SessionHolds

LEMMA CallKeeps ==
    ASSUME Types, Kept, NEW t \in Tabs, NEW s \in Slots, Call(t, s)
    PROVE  Kept'
  <1>1. Undisturbed' /\ OneTokenEach'
    BY SameTokens DEF Call, Kept, Undisturbed, OneTokenEach, Busy, Minted, history
  <1>2. CallsGood'
    BY SameTokens DEF Call, Kept, CallsGood, Types
  <1> QED BY <1>1, <1>2 DEF Kept

LEMMA ServeKeeps ==
    ASSUME Types, Kept, NEW t \in Tabs, NEW s \in Slots, Serve(t, s)
    PROVE  Kept'
  <1>1. Undisturbed' /\ OneTokenEach'
    BY SameTokens DEF Serve, Kept, Undisturbed, OneTokenEach, Busy, Minted, history
  <1>2. call[t][s].at = "resent" => Authorized(call[t][s].tok)
    BY DEF Kept, CallsGood, Undisturbed, Authorized
  <1>3. call'[t][s].at \in {"idle", "refused"}
    BY <1>2 DEF Serve, Types, Quiet
  <1>4. \A u \in Tabs, r \in Slots : <<u, r>> # <<t, s>> => call'[u][r] = call[u][r]
    BY DEF Serve, Types
  <1>5. CallsGood'
    BY <1>3, <1>4, SameTokens DEF Kept, CallsGood, Serve
  <1> QED BY <1>1, <1>5 DEF Kept

LEMMA JoinKeeps ==
    ASSUME Types, Kept, NEW t \in Tabs, NEW s \in Slots, Join(t, s), ~ interrupted'
    PROVE  Kept'
  <1>1. CallsGood'
    <2>1. call'[t][s].at = "waiting"
      BY DEF Join, Types
    <2>2. \A u \in Tabs, r \in Slots : <<u, r>> # <<t, s>> => call'[u][r] = call[u][r]
      BY DEF Join, Types
    <2> QED BY <2>1, <2>2, SameTokens DEF Kept, CallsGood, Join
  <1>2. CASE flight' = flight
    BY <1>1, <1>2, SameTokens DEF Kept, Undisturbed, OneTokenEach, Busy, Minted, Join
  <1>3. CASE /\ flight[t].at = "none"
             /\ flight' = [flight EXCEPT ![t] = [Landed EXCEPT !.at = "sent", !.with = cookie]]
             /\ interrupted' = (interrupted \/ Contested(t))
    <2>1. /\ flight'[t] = [Landed EXCEPT !.at = "sent", !.with = cookie]
          /\ \A u \in Tabs \ {t} : flight'[u] = flight[u]
      BY <1>3 DEF Types
    <2>2. /\ flight'[t].at = "sent" /\ flight'[t].with = cookie /\ flight'[t].row.ver = 0
      BY <2>1 DEF Landed, NoRow
    <2>3. \A u \in Tabs \ {t} : Busy(u) => flight[u].with # cookie
      BY <1>3 DEF Contested, Busy
    <2>4. cookie \notin dead.refresh
      BY <1>3, <2>3 DEF Kept, OneTokenEach, Minted, Busy
    <2>5. Undisturbed'
      BY <2>1, <2>2, SameTokens DEF Kept, Undisturbed, Join
    <2>6. OneTokenEach'
      <3>1. dead' = dead /\ lapsed' = lapsed /\ cookie' = cookie
        BY DEF Join
      <3>2. ~ Minted(t)' /\ \A u \in Tabs \ {t} : (Busy(u)' <=> Busy(u)) /\ (Minted(u)' <=> Minted(u))
        BY <2>1, <2>2 DEF Busy, Minted
      <3>3. \A u \in Tabs : Minted(u) => flight[u].new # cookie /\ Busy(u)
        BY DEF Kept, OneTokenEach, Minted, Busy
      <3>4. \A u, v \in Tabs : u # v /\ Busy(u)' /\ Busy(v)' => flight'[u].with # flight'[v].with
        <4> TAKE u, v \in Tabs
        <4> HAVE u # v /\ Busy(u)' /\ Busy(v)'
        <4>1. CASE u = t
          BY <4>1, <2>1, <2>2, <2>3, <3>2
        <4>2. CASE v = t
          BY <4>2, <2>1, <2>2, <2>3, <3>2
        <4>3. CASE u # t /\ v # t
          BY <4>3, <2>1, <3>2 DEF Kept, OneTokenEach
        <4> QED BY <4>1, <4>2, <4>3
      <3>5. \A u, v \in Tabs : Minted(u)' /\ Busy(v)' => flight'[u].new # flight'[v].with
        <4> TAKE u, v \in Tabs
        <4> HAVE Minted(u)' /\ Busy(v)'
        <4>1. u # t /\ Minted(u) /\ flight'[u] = flight[u]
          BY <2>1, <3>2
        <4>2. CASE v = t
          BY <4>1, <4>2, <2>2, <3>3
        <4>3. CASE v # t
          BY <4>1, <4>3, <2>1, <3>2 DEF Kept, OneTokenEach
        <4> QED BY <4>2, <4>3
      <3>6. \A u, v \in Tabs : u # v /\ Minted(u)' /\ Minted(v)' => flight'[u].new # flight'[v].new
        BY <2>1, <3>2 DEF Kept, OneTokenEach
      <3>7. \A u \in Tabs : /\ flight'[u].at \notin {"refused", "broken", "hung"}
                            /\ Busy(u)' => flight'[u].with # NoToken
                            /\ flight'[u].at \in {"sent", "read"} => flight'[u].with \notin dead.refresh
        BY <2>1, <2>2, <2>4, <3>2 DEF Kept, OneTokenEach
      <3>8. \A u \in Tabs : Minted(u)' =>
               flight'[u].new \notin dead.refresh \union lapsed \union {cookie, NoToken}
        BY <2>1, <3>2 DEF Kept, OneTokenEach
      <3> QED BY <2>4, <3>1, <3>4, <3>5, <3>6, <3>7, <3>8 DEF Kept, OneTokenEach
    <2> QED BY <1>1, <2>5, <2>6 DEF Kept
  <1> QED BY <1>2, <1>3 DEF Join

LEMMA RefreshReadKeeps ==
    ASSUME Types, Kept, NEW t \in Tabs, RefreshRead(t)
    PROVE  Kept'
  <1>1. Renewable(flight[t].with)
    BY TokenFacts DEF RefreshRead, Renewable, Kept, Undisturbed, OneTokenEach, Types, Busy
  <1>2. /\ flight'[t].at = "read" /\ flight'[t].with = flight[t].with /\ flight'[t].row.ver = 0
        /\ \A u \in Tabs \ {t} : flight'[u] = flight[u]
    BY <1>1 DEF RefreshRead, Types, Flights, TheRow, Kept, Undisturbed
  <1>3. Undisturbed'
    BY <1>2, SameTokens DEF RefreshRead, Kept, Undisturbed, history
  <1>4. OneTokenEach'
    <2>1. \A u \in Tabs : /\ Busy(u)' <=> Busy(u)
                          /\ Minted(u)' <=> Minted(u)
                          /\ flight'[u].with = flight[u].with /\ flight'[u].at \notin {"refused", "broken", "hung"}
                          /\ flight'[u].at \in {"sent", "read"} => flight[u].at \in {"sent", "read"}
      BY <1>2 DEF RefreshRead, Kept, OneTokenEach, Busy, Minted
    <2>2. \A u \in Tabs : Minted(u) => flight'[u].new = flight[u].new
      BY <1>2 DEF RefreshRead, Minted
    <2>3. dead' = dead /\ lapsed' = lapsed /\ cookie' = cookie
      BY DEF RefreshRead
    <2> QED BY <2>1, <2>2, <2>3 DEF Kept, OneTokenEach
  <1>5. CallsGood'
    BY SameTokens DEF RefreshRead, Kept, CallsGood
  <1> QED BY <1>3, <1>4, <1>5 DEF Kept

LEMMA RefreshMintKeeps ==
    ASSUME Types, Kept, NEW t \in Tabs, RefreshMint(t)
    PROVE  Kept'
  <1>1. /\ Fresh \notin Tokens /\ Fresh \in Nat
        /\ Pairs' = Pairs \union {Fresh}
        /\ pairs'[Fresh] = flight[t].row /\ \A i \in Pairs : pairs'[i] = pairs[i]
    BY IssueStep, RecordTypes DEF RefreshMint
  <1>2. /\ flight'[t].at = "minted" /\ flight'[t].with = flight[t].with
        /\ flight'[t].row = flight[t].row /\ flight'[t].new = Fresh
        /\ \A u \in Tabs \ {t} : flight'[u] = flight[u]
    BY DEF RefreshMint, Types, Flights
  <1>3. /\ dead'.refresh = dead.refresh \union {flight[t].with} /\ dead'.access = dead.access
    BY DEF RefreshMint, Blacklist, Kept, OneTokenEach, Busy, Types
  <1>4. Undisturbed'
    BY <1>1, <1>2, <1>3 DEF RefreshMint, Kept, Undisturbed, history
  <1>5. OneTokenEach'
    <2>1. \A x \in Tokens : x # Fresh
      BY <1>1
    <2>2. NoToken \in Tokens /\ dead.refresh \subseteq Tokens /\ lapsed \subseteq Tokens /\ cookie \in Tokens
      BY TokenFacts DEF Types
    <2>3. \A u \in Tabs : flight[u].with \in Tokens /\ flight[u].new \in Tokens
      BY DEF Types
    <2>4. \A u \in Tabs : Minted(u) => flight[u].new # flight[t].with
      BY DEF Kept, OneTokenEach, RefreshMint, Busy
    <2>5. cookie' = cookie /\ lapsed' = lapsed /\ flight[t].at = "read"
      BY DEF RefreshMint
    <2>6. \A u \in Tabs : Minted(u) =>
             flight[u].new \notin dead'.refresh \union lapsed \union {cookie, NoToken}
      BY <1>3, <2>4 DEF Kept, OneTokenEach
    <2>7. Fresh \notin dead'.refresh \union lapsed \union {cookie, NoToken}
      BY <1>3, <2>1, <2>2, <2>3
    <2>8. cookie \in dead'.refresh => \E u \in Tabs : Minted(u)' /\ flight'[u].with = cookie
      BY <1>2, <1>3, <2>5 DEF Kept, OneTokenEach, Minted
    <2>9. \A u \in Tabs : flight'[u].at \in {"sent", "read"} => flight'[u].with \notin dead'.refresh
      BY <1>2, <1>3, <2>5 DEF Kept, OneTokenEach, Busy
    <2>10. \A u, v \in Tabs : u # v /\ Busy(u)' /\ Busy(v)' => flight'[u].with # flight'[v].with
      BY <1>2, <2>5 DEF Kept, OneTokenEach, Busy
    <2>11. \A u, v \in Tabs : Minted(u)' /\ Busy(v)' => flight'[u].new # flight'[v].with
      BY <1>2, <2>1, <2>3, <2>5 DEF Kept, OneTokenEach, Busy, Minted
    <2>12. \A u, v \in Tabs : u # v /\ Minted(u)' /\ Minted(v)' => flight'[u].new # flight'[v].new
      BY <1>2, <2>1, <2>3, <2>5 DEF Kept, OneTokenEach, Minted
    <2>13. \A u \in Tabs : flight'[u].at \notin {"refused", "broken", "hung"} /\ (Busy(u)' => flight'[u].with # NoToken)
      BY <1>2, <2>5 DEF Kept, OneTokenEach, Busy
    <2>14. \A u \in Tabs : Minted(u)' =>
             flight'[u].new \notin dead'.refresh \union lapsed \union {cookie, NoToken}
      BY <1>2, <2>6, <2>7 DEF Minted
    <2> QED BY <2>5, <2>8, <2>9, <2>10, <2>11, <2>12, <2>13, <2>14 DEF Kept, OneTokenEach
  <1>6. CallsGood'
    BY <1>1 DEF RefreshMint, Kept, CallsGood
  <1> QED BY <1>4, <1>5, <1>6 DEF Kept

LEMMA RefreshAnsweredKeeps ==
    ASSUME Types, Kept, NEW t \in Tabs, RefreshAnswered(t)
    PROVE  Kept'
  <1>1. /\ flight'[t] = Landed /\ \A u \in Tabs \ {t} : flight'[u] = flight[u]
    BY DEF RefreshAnswered, Types
  <1>2. Landed.at = "none" /\ Landed.row.ver = 0
    BY DEF Landed, NoRow
  <1>3. Undisturbed'
    BY <1>1, <1>2, SameTokens DEF RefreshAnswered, Kept, Undisturbed, history
  <1>4. OneTokenEach'
    BY <1>1, <1>2 DEF RefreshAnswered, Kept, OneTokenEach, Busy, Minted
  <1>5. flight[t].new \in Pairs \ lapsed
    BY TokenFacts DEF RefreshAnswered, Kept, OneTokenEach, Minted, Types
  <1>6. CallsGood'
    <2>1. \A u \in Tabs, s \in Slots :
             \/ call'[u][s] = call[u][s]
             \/ call'[u][s] = [at |-> "resent", tok |-> flight[t].new]
      BY DEF RefreshAnswered, Types
    <2> QED BY <1>5, <2>1, SameTokens DEF RefreshAnswered, Kept, CallsGood
  <1> QED BY <1>3, <1>4, <1>6 DEF Kept

LEMMA LoginMintKeeps ==
    ASSUME Types, Kept, NEW t \in Tabs, LoginMint(t)
    PROVE  Kept'
  <1>1. /\ Fresh \notin Tokens /\ Fresh \in Nat
        /\ Pairs' = Pairs \union {Fresh}
        /\ pairs'[Fresh] = login[t].row /\ \A i \in Pairs : pairs'[i] = pairs[i]
    BY IssueStep, RecordTypes DEF LoginMint
  <1>2. \A u \in Tabs : login'[u].row = login[u].row \/ login'[u].row.ver = 0
    BY DEF LoginMint, NoLogin, NoRow, Types
  <1>3. Undisturbed'
    BY <1>1, <1>2 DEF LoginMint, Kept, Undisturbed, history
  <1>4. OneTokenEach'
    <2>1. /\ \A u \in Tabs : flight[u].new # Fresh
          /\ Fresh # NoToken /\ Fresh \notin dead.refresh
      BY <1>1, TokenFacts DEF Types
    <2> QED BY <2>1 DEF LoginMint, Kept, OneTokenEach, Busy, Minted
  <1>5. CallsGood'
    BY <1>1 DEF LoginMint, Kept, CallsGood
  <1> QED BY <1>3, <1>4, <1>5 DEF Kept

LEMMA LapseKeeps ==
    ASSUME Types, Kept, NEW i \in Pairs, Lapse(i)
    PROVE  Kept'
  <1>1. dead'.refresh = dead.refresh /\ dead'.access = {}
    BY DEF Lapse, Kept, Undisturbed, Types
  <1>2. Undisturbed'
    BY <1>1, SameTokens DEF Lapse, Kept, Undisturbed, browser, history
  <1>3. OneTokenEach'
    BY <1>1 DEF Lapse, Kept, OneTokenEach, Busy, Minted, browser
  <1>4. CallsGood'
    BY SameTokens DEF Lapse, Kept, CallsGood, browser, Open
  <1> QED BY <1>2, <1>3, <1>4 DEF Kept

LEMMA NextKeeps == ASSUME Types, SessionHolds, [Next]_vars PROVE SessionHolds'
  <1> SUFFICES ASSUME ~ interrupted'
               PROVE  Kept'
    BY DEF SessionHolds, Kept
  <1>k. ~ interrupted => Kept
    BY DEF SessionHolds, Kept
  <1>1. ASSUME NEW t \in Tabs, NEW s \in Slots, Call(t, s)
        PROVE  Kept'
    BY <1>1, <1>k, CallKeeps DEF Call, history
  <1>2. ASSUME NEW t \in Tabs, NEW s \in Slots, Serve(t, s)
        PROVE  Kept'
    BY <1>2, <1>k, ServeKeeps DEF Serve, history
  <1>3. ASSUME NEW t \in Tabs, NEW s \in Slots, Join(t, s)
        PROVE  Kept'
    <2>1. ~ interrupted
      BY <1>3 DEF Join, Types
    <2> QED BY <1>3, <1>k, <2>1, JoinKeeps
  <1>4. ASSUME NEW t \in Tabs, RefreshRead(t)
        PROVE  Kept'
    BY <1>4, <1>k, RefreshReadKeeps DEF RefreshRead, history
  <1>5. ASSUME NEW t \in Tabs, RefreshMint(t)
        PROVE  Kept'
    BY <1>5, <1>k, RefreshMintKeeps DEF RefreshMint, history
  <1>6. ASSUME NEW t \in Tabs, RefreshAnswered(t)
        PROVE  Kept'
    BY <1>6, <1>k, RefreshAnsweredKeeps DEF RefreshAnswered, history
  <1>7. ASSUME NEW t \in Tabs, RefreshFails(t)
        PROVE  Kept'
    BY <1>7, <1>k DEF RefreshFails, history, Kept, OneTokenEach
  <1>8. ASSUME NEW t \in Tabs, LoginRead(t)
        PROVE  Kept'
    <2>1. Kept
      BY <1>8, <1>k DEF LoginRead, history
    <2>2. login'[t].row.ver = 0 /\ \A u \in Tabs \ {t} : login'[u] = login[u]
      BY <1>8, <2>1 DEF LoginRead, TheRow, Kept, Undisturbed, Types
    <2>3. Undisturbed'
      BY <1>8, <2>1, <2>2, SameTokens DEF LoginRead, Kept, Undisturbed, browser, history
    <2>4. OneTokenEach' /\ CallsGood'
      BY <1>8, <2>1, SameTokens DEF LoginRead, Kept, OneTokenEach, CallsGood, Busy, Minted, browser
    <2> QED BY <2>3, <2>4 DEF Kept
  <1>9. ASSUME NEW t \in Tabs, LoginMint(t)
        PROVE  Kept'
    BY <1>9, <1>k, LoginMintKeeps DEF LoginMint, history
  <1>10. ASSUME NEW i \in Pairs, Lapse(i)
         PROVE  Kept'
    BY <1>10, <1>k, LapseKeeps DEF Lapse, history
  <1>11. ASSUME NEW w \in Writers, ChangeRead(w)
         PROVE  Kept'
    <2>1. Kept
      BY <1>11, <1>k DEF ChangeRead, history
    <2>2. writer'["tab"].at # "committed"
      BY <1>11, <2>1 DEF ChangeRead, Kept, Undisturbed, Types, Writers
    <2>3. Undisturbed'
      BY <1>11, <2>1, <2>2, SameTokens DEF ChangeRead, Kept, Undisturbed, browser, history
    <2>4. OneTokenEach' /\ CallsGood'
      BY <1>11, <2>1, SameTokens DEF ChangeRead, Kept, OneTokenEach, CallsGood, Busy, Minted, browser
    <2> QED BY <2>3, <2>4 DEF Kept
  <1>12. ASSUME ChangeAnswered
         PROVE  Kept'
    BY <1>12, <1>k DEF ChangeAnswered, history, Kept, Undisturbed
  <1>13. ASSUME Reactivate
         PROVE  Kept'
    BY <1>13, <1>k DEF Reactivate, history, Kept, Undisturbed
  <1>14. /\ \A t \in Tabs : ~ Logout(t) /\ ~ RefreshBreaks(t)
         /\ \A w \in Writers : ~ ChangeCommit(w)
    BY DEF Logout, RefreshBreaks, ChangeCommit
  <1>15. CASE UNCHANGED vars
    BY <1>15, <1>k, SameTokens
    DEF vars, browser, history, Kept, Undisturbed, OneTokenEach, CallsGood, Busy, Minted
  <1> QED
    BY <1>1, <1>2, <1>3, <1>4, <1>5, <1>6, <1>7, <1>8, <1>9, <1>10, <1>11, <1>12, <1>13, <1>14, <1>15
    DEF Next, TabStep

-----------------------------------------------------------------------------
(* The theorems.                                                            *)

\* The types, the counting of versions and what holds while nothing disturbs the
\* session are invariant together.
THEOREM SessionsInvariant == Spec => []IInv
  <1>1. Init => IInv
    BY TypesInit, VersionsInit, KeptInit DEF IInv
  <1>2. IInv /\ [Next]_vars => IInv'
    BY NextTypes, NextVersions, NextKeeps DEF IInv
  <1> QED BY <1>1, <1>2, PTL DEF Spec

\* However many calls of however many tabs find their token expired, no call of
\* request() ends in "session expired" before the session was ended, a refresh
\* broke or hung, or two tabs had a refresh of one cookie under way at once
\* (refreshAccessToken).
THEOREM SignedIn == Spec => []StaysSignedIn
  <1>1. IInv => StaysSignedIn
    BY DEF IInv, Types, SessionHolds, CallsGood, StaysSignedIn
  <1> QED BY <1>1, SessionsInvariant, PTL

\* As long as no change commits over one made since it read the row, no token
\* minted from the row as it was before a committed change serves a call
\* (get_current_user, POST /refresh).
THEOREM ChangesEndSessions == Spec => ChangeEndsSessions
  <1> DEFINE Ends == \A t \in Tabs, s \in Slots :
                        call[t][s].at # "idle" /\ call'[t][s].at = "idle"
                           => pairs[call[t][s].tok].seen = changes \/ overlapped
  <1>1. ASSUME IInv, [Next]_vars
        PROVE  Ends
    <2> SUFFICES ASSUME NEW t \in Tabs, NEW s \in Slots,
                        call[t][s].at # "idle", call'[t][s].at = "idle", ~ overlapped
                 PROVE  pairs[call[t][s].tok].seen = changes
      OBVIOUS
    <2>1. Serve(t, s)
      <3>1. ASSUME NEW u \in Tabs, NEW r \in Slots, Serve(u, r), <<u, r>> # <<t, s>>
            PROVE  call'[t][s] = call[t][s]
        BY <1>1, <3>1 DEF Serve, IInv, Types
      <3>2. ASSUME NEW u \in Tabs, NEW r \in Slots, Call(u, r) \/ Join(u, r)
            PROVE  call'[t][s] = call[t][s] \/ call'[t][s].at \in {"sent", "waiting"}
        <4>1. CASE Call(u, r)
          BY <1>1, <4>1 DEF Call, IInv, Types
        <4>2. CASE Join(u, r)
          BY <1>1, <4>2 DEF Join, IInv, Types
        <4> QED BY <3>2, <4>1, <4>2
      <3>3. ASSUME NEW u \in Tabs, RefreshAnswered(u)
            PROVE  call'[t][s] = call[t][s] \/ call'[t][s].at = "resent"
        BY <1>1, <3>3 DEF RefreshAnswered, IInv, Types
      <3>4. ASSUME NEW u \in Tabs, RefreshFails(u)
            PROVE  call'[t][s] = call[t][s] \/ call'[t][s].at = "ended"
        <4>1. GiveUp(u)
          BY <3>4 DEF RefreshFails
        <4> QED BY <1>1, <4>1 DEF GiveUp, IInv, Types, Calls
      <3>5. ASSUME \/ \E u \in Tabs : \/ RefreshRead(u) \/ RefreshMint(u) \/ LoginMint(u) \/ RefreshBreaks(u)
                                      \/ LoginRead(u) \/ Logout(u)
                   \/ \E i \in Pairs : Lapse(i)
                   \/ \E w \in Writers : ChangeRead(w) \/ ChangeCommit(w)
                   \/ ChangeAnswered \/ Reactivate \/ UNCHANGED vars
            PROVE  call' = call
        BY <3>5 DEF RefreshRead, RefreshMint, RefreshBreaks, LoginMint, LoginRead, Logout, Lapse, ChangeRead,
                    ChangeCommit, ChangeAnswered, Reactivate, vars, browser
      <3> QED BY <1>1, <3>1, <3>2, <3>3, <3>4, <3>5 DEF Next, TabStep
    <2>2. Authorized(call[t][s].tok)
      BY <1>1, <2>1 DEF Serve, IInv, Types, Quiet
    <2> QED BY <1>1, <2>2 DEF Authorized, IInv, VersionsCount
  <1>2. IInv /\ [Next]_vars => [Ends]_vars
    BY <1>1
  <1> QED BY <1>2, SessionsInvariant, PTL DEF Spec, ChangeEndsSessions
==============================================================================
