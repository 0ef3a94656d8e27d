------------------------------- MODULE Credits -------------------------------
(***************************************************************************)
(* The credits ledger (services/credit_service.py), the redeem codes that  *)
(* feed it (services/redeem_service.py, api/credits.py,                    *)
(* api/admin_redeem.py), and the two admissions of a chat turn that charge *)
(* it: the run ticket of quotas.py and the turn hold of admit_turn, taken  *)
(* and returned by ChatService.stream (inline turns) and by                *)
(* create_and_enqueue_durable_run (durable turns).                         *)
(*                                                                         *)
(* A balance changes in a database transaction in three steps: the session *)
(* loads the account row (get_or_create_account), waits for its row lock   *)
(* and reads it again (_locked_account), then inserts a ledger entry,      *)
(* stores the new balance and commits.  The unique partial index on        *)
(* (ref_type, ref_id, reason) turns a second insertion into a no-op.       *)
(* The books are the committed ledger and accounts; money is in credits.   *)
(***************************************************************************)
EXTENDS Integers, Sequences, FiniteSets, SequencesExt

CONSTANTS
    Users,          \* account owners
    Turns,          \* chat turns, each with the message it charges
    Durable,        \* the turns dispatched to the durable worker
    UserOf,         \* the owner of a turn
    Codes,          \* the redeem codes of one batch
    Nobody,         \* no lock holder
    NoRef,          \* ref_type IS NULL
    Bonus,          \* CREDITS_SIGNUP_BONUS
    CodeValue,      \* credits_per_code
    Reserve,        \* CREDITS_TURN_RESERVE
    Usages,         \* the usages a turn may report: [cost, tokens]
    PerUsd,         \* CREDITS_PER_USD, per unit of cost
    TokensPerCredit,\* tokens that one credit pays for
    MaxCharge,      \* CREDITS_MAX_CHARGE_PER_TURN
    MaxRuns,        \* QUOTA_MAX_CONCURRENT_RUNS
    MaxTokens,      \* QUOTA_MAX_TOKENS
    SweepLimit,     \* the LIMIT of the stale hold query
    Deltas,         \* the adjustments an administrator makes
    MaxEvents       \* bound: turns, requests and faults (Event below)

ASSUME CreditsAssumption ==
    /\ IsFiniteSet(Turns) /\ Durable \subseteq Turns
    /\ UserOf \in [Turns -> Users]
    /\ Nobody \notin Users \union Turns
    /\ NoRef \notin Users \union Turns \union Codes
    /\ Bonus \in Nat /\ CodeValue \in Nat \ {0} /\ Reserve \in Nat
    /\ PerUsd \in Nat \ {0} /\ TokensPerCredit \in Nat \ {0}
    /\ MaxCharge \in Nat \ {0} /\ MaxRuns \in Nat /\ MaxTokens \in Nat
    /\ Usages \subseteq [cost : Nat, tokens : Nat]
    /\ Deltas \subseteq Int \ {0} /\ MaxEvents \in Nat

VARIABLES
    books,    \* [ledger, account]: the committed ledger and account rows
    lock,     \* FOR UPDATE row lock of an account: Nobody or a turn
    tx,       \* per turn: the account row its session holds
    turn,     \* per turn: where it is, whether it owns a hold, its usage
    aged,     \* turns whose hold is older than the cutoff of the sweep
    tickets,  \* the active-run sets of all tenants
    lapsed,   \* tickets past their deadline
    stray,    \* history: turns that run, or ran, beside the shared set of tickets
    tokens,   \* per tenant: tokens charged in this period
    code,     \* per code: the status of its row
    claim,    \* per code: the user whose open transaction marked it redeemed
    clerk,    \* per user: the code a redeem request has read
    expired,  \* has the batch of codes expired?
    speech,   \* per user: is a speech request past its admission?
    todo,     \* the old holds the retention sweep has read
    drawn,    \* history, per user: what administrators and speech took
    events    \* events so far

vars == <<books, lock, tx, turn, aged, tickets, lapsed, stray, tokens, code,
          claim, clerk, expired, speech, todo, drawn, events>>
quotaVars == <<tickets, lapsed, stray, tokens>>
codeVars  == <<code, claim, clerk, expired>>
restVars  == <<aged, speech, todo, drawn>>

Row     == [balance : Int, granted : Nat, consumed : Nat]
Reasons == {"signup_bonus", "redeem", "usage", "admin_adjust", "turn_hold",
            "turn_hold_release"}
Entry   == [delta : Int, after : Int, reason : Reasons,
            ref : Users \union Turns \union Codes \union {NoRef}]
PCs == {"new", "count", "hold", "run", "dispatch", "queued", "settle", "resettle",
        "leave", "release", "done", "dead"}
InTx == {"hold", "settle", "resettle", "release"}
Running == {"hold", "run", "settle", "resettle"}    \* admitted, and may yet be charged

Nothing == [cost |-> 0, tokens |-> 0]
NoTx    == [st |-> "none", row |-> [balance |-> 0, granted |-> 0, consumed |-> 0]]

TypeOK ==
    /\ books.ledger \in [Users -> Seq(Entry)] /\ books.account \in [Users -> Row]
    /\ lock \in [Users -> Turns \union {Nobody}]
    /\ tx \in [Turns -> [st : {"none", "open", "locked"}, row : Row]]
    /\ turn \in [Turns -> [pc : PCs, hold : BOOLEAN, use : Usages \union {Nothing}]]
    /\ aged \subseteq Turns /\ todo \subseteq Turns
    /\ tickets \subseteq Turns /\ lapsed \subseteq Turns /\ stray \subseteq Turns
    /\ tokens \in [Users -> Nat]
    /\ code \in [Codes -> {"none", "active", "redeemed", "void"}]
    /\ claim \in [Codes -> Users \union {Nobody}]
    /\ clerk \in [Users -> Codes \union {NoRef}]
    /\ expired \in BOOLEAN /\ speech \in [Users -> BOOLEAN]
    /\ drawn \in [Users -> Nat] /\ events \in Nat

-----------------------------------------------------------------------------
(***************************************************************************)
(* compute_charge: by cost when the cost is known and positive, else by    *)
(* tokens; rounded up, at least 1 for real usage, capped per turn.         *)
(***************************************************************************)
Ceil(n, d) == (n + d - 1) \div d

ComputeCharge(use) ==
    Min({MaxCharge, IF use.cost > 0 THEN use.cost * PerUsd
                                    ELSE Ceil(use.tokens, TokensPerCredit)})

(***************************************************************************)
(* _write_entry: the entry of a row the caller has locked.  Holds and      *)
(* their releases stay out of the lifetime totals.                         *)
(***************************************************************************)
Has(b, reason, ref) ==
    \E u \in Users : \E i \in DOMAIN b.ledger[u] :
       b.ledger[u][i].reason = reason /\ b.ledger[u][i].ref = ref

Duplicate(b, reason, ref) == ref # NoRef /\ Has(b, reason, ref)

Counted(reason) == reason \notin {"turn_hold", "turn_hold_release"}

\* Seeded fault: consumption added with its sign.
SignedRow(row, delta, reason) ==
    [balance  |-> row.balance + delta,
     granted  |-> row.granted + IF Counted(reason) /\ delta > 0 THEN delta ELSE 0,
     consumed |-> row.consumed + IF Counted(reason) /\ delta < 0 THEN delta ELSE 0]

NewRow(row, delta, reason) ==
    [balance  |-> row.balance + delta,
     granted  |-> row.granted + IF Counted(reason) /\ delta > 0 THEN delta ELSE 0,
     consumed |-> row.consumed + IF Counted(reason) /\ delta < 0 THEN -delta ELSE 0]

WriteEntry(b, u, row, delta, reason, ref) ==
    IF Duplicate(b, reason, ref) THEN b
    ELSE [ledger  |-> [b.ledger EXCEPT ![u] =
                         Append(@, [delta |-> delta, after |-> row.balance + delta,
                                    reason |-> reason, ref |-> ref])],
          account |-> [b.account EXCEPT ![u] = NewRow(row, delta, reason)]]

\* An entry written by a transaction that locks, writes and commits at once.
Post(u, delta, reason, ref) ==
    /\ lock[u] = Nobody
    /\ books' = WriteEntry(books, u, books.account[u], delta, reason, ref)

Registered(u) == Has(books, "signup_bonus", u)
HoldOut(b, t) == Has(b, "turn_hold", t) /\ ~ Has(b, "turn_hold_release", t)

-----------------------------------------------------------------------------
(***************************************************************************)
(* The transactions of a turn: load, lock, then one of the writes below.   *)
(***************************************************************************)
Goto(t, pc) == turn' = [turn EXCEPT ![t].pc = pc]

\* Settling charges the quota counters first, outside the transaction, unless the
\* tenant is over the cap already.
ChargeQuota(t) ==
    IF turn[t].pc \in {"settle", "resettle"} /\ tokens[UserOf[t]] < MaxTokens
    THEN tokens' = [tokens EXCEPT ![UserOf[t]] = @ + turn[t].use.tokens]
    ELSE UNCHANGED tokens

OpenTx(t) ==
    /\ turn[t].pc \in InTx /\ tx[t].st = "none"
    /\ tx' = [tx EXCEPT ![t] = [st |-> "open", row |-> books.account[UserOf[t]]]]
    /\ ChargeQuota(t)
    /\ UNCHANGED <<books, lock, turn, tickets, lapsed, stray, codeVars, restVars>>

\* Seeded fault: the locking read does not refresh the row the session loaded.
StaleRow(t) == tx[t].row

LockedRow(t) == books.account[UserOf[t]]

LockTx(t) ==
    /\ tx[t].st = "open" /\ lock[UserOf[t]] = Nobody
    /\ lock' = [lock EXCEPT ![UserOf[t]] = t]
    /\ tx' = [tx EXCEPT ![t] = [st |-> "locked", row |-> LockedRow(t)]]
    /\ UNCHANGED <<books, turn, quotaVars, codeVars, restVars>>

EndTx(t) ==
    /\ tx' = [tx EXCEPT ![t] = NoTx]
    /\ lock' = [u \in Users |-> IF lock[u] = t THEN Nobody ELSE lock[u]]

Write(t, delta, reason) ==
    books' = WriteEntry(books, UserOf[t], tx[t].row, delta, reason, t)

(***************************************************************************)
(* admit_run: add the ticket, then count; over the limit, purge the lapsed *)
(* tickets, count again, and take the ticket back if that did not help.    *)
(* A durable turn takes no ticket: its dispatch goes straight to the hold. *)
(***************************************************************************)
TicketsOf(s, u) == {t \in s : UserOf[t] = u}

StartTurn(t) ==
    /\ turn[t].pc = "new" /\ Registered(UserOf[t])
    /\ IF t \in Durable THEN Goto(t, "hold") /\ UNCHANGED tickets
       ELSE IF tokens[UserOf[t]] >= MaxTokens THEN Goto(t, "done") /\ UNCHANGED tickets
       ELSE Goto(t, "count") /\ tickets' = tickets \union {t}
    /\ UNCHANGED <<books, lock, tx, lapsed, stray, tokens, codeVars, restVars>>

\* Redis fails for one command of the admission, which then works on the memory of
\* this process: the tokens are read there, or the ticket is added there.
StartBlind(t) ==
    /\ turn[t].pc = "new" /\ Registered(UserOf[t]) /\ t \notin Durable
    /\ Goto(t, "count")
    /\ \/ tickets' = tickets \union {t} /\ UNCHANGED stray
       \/ stray' = stray \union {t} /\ UNCHANGED tickets
    /\ UNCHANGED <<books, lock, tx, lapsed, tokens, codeVars, restVars>>

\* Seeded fault: the limit is compared with the runs admitted before this one.
OthersWithin(s, t) == Cardinality(TicketsOf(s, UserOf[t]) \ {t}) <= MaxRuns

WithinLimit(s, t) == Cardinality(TicketsOf(s, UserOf[t])) <= MaxRuns

CountRuns(t) ==
    LET u    == UserOf[t]
        left == tickets \ TicketsOf(lapsed, u)
    IN  /\ turn[t].pc = "count"
        /\ \/ /\ WithinLimit(tickets, t)
              /\ Goto(t, "hold") /\ UNCHANGED <<tickets, lapsed>>
           \/ /\ ~ WithinLimit(tickets, t)
              /\ lapsed' = lapsed \ TicketsOf(lapsed, u)
              /\ IF WithinLimit(left, t)
                 THEN Goto(t, "hold") /\ tickets' = left
                 ELSE Goto(t, "done") /\ tickets' = left \ {t}
        /\ UNCHANGED <<books, lock, tx, stray, tokens, codeVars, restVars>>

\* The count, the purge or the return of a refused ticket falls back in the same
\* way: what this process remembers of the tickets may be anything, and a ticket
\* returned there stays in the shared set.
CountBlind(t) ==
    /\ turn[t].pc = "count"
    /\ \E kept \in {tickets, tickets \ TicketsOf(lapsed, UserOf[t])} :
          \/ Goto(t, "hold") /\ stray' = stray \union {t} /\ tickets' = kept
          \/ Goto(t, "done") /\ UNCHANGED stray /\ tickets' \in {kept, kept \ {t}}
    /\ lapsed' = lapsed \intersect tickets'
    /\ UNCHANGED <<books, lock, tx, tokens, codeVars, restVars>>

(***************************************************************************)
(* admit_turn: refuse a balance below the reserve, else write the hold and *)
(* commit it at once.                                                      *)
(***************************************************************************)
AdmitTurn(t) ==
    /\ turn[t].pc = "hold" /\ tx[t].st = "locked"
    /\ EndTx(t)
    /\ IF tx[t].row.balance < Reserve
       THEN Goto(t, IF t \in Durable THEN "done" ELSE "leave") /\ UNCHANGED books
       ELSE /\ Write(t, -Reserve, "turn_hold")
            /\ turn' = [turn EXCEPT ![t].hold = TRUE,
                                    ![t].pc = IF t \in Durable THEN "dispatch" ELSE "run"]
    /\ UNCHANGED <<quotaVars, codeVars, restVars>>

(***************************************************************************)
(* create_and_enqueue_durable_run: the run is committed and published, and *)
(* the hold given back before the run starts.  A refusal after the hold    *)
(* (turn in progress, no model, queue unavailable) keeps it.               *)
(***************************************************************************)
Dispatch(t) ==
    /\ turn[t].pc = "dispatch"
    /\ Goto(t, "release")
    /\ UNCHANGED <<books, lock, tx, quotaVars, codeVars, restVars>>

DispatchRefused(t) ==
    /\ turn[t].pc = "dispatch"
    /\ Goto(t, "done")
    /\ UNCHANGED <<books, lock, tx, quotaVars, codeVars, restVars>>

\* The model has answered, failed or was interrupted, having used this much.
FinishTurn(t, use) ==
    /\ turn[t].pc \in {"run", "queued"}
    /\ turn' = [turn EXCEPT ![t].use = use,
                            ![t].pc = IF ComputeCharge(use) > 0 THEN "settle"
                                      ELSE IF t \in Durable THEN "done" ELSE "leave"]
    /\ UNCHANGED <<books, lock, tx, quotaVars, codeVars, restVars>>

(***************************************************************************)
(* settle_turn_usage: the charge commits with the message.  A cancellation *)
(* that reaches the turn around the commit settles it once more            *)
(* (_finalize_interrupted); a settlement that fails leaves it uncharged.   *)
(***************************************************************************)
SettleTurn(t) ==
    /\ turn[t].pc \in {"settle", "resettle"} /\ tx[t].st = "locked"
    /\ Write(t, -ComputeCharge(turn[t].use), "usage")
    /\ EndTx(t)
    /\ Goto(t, IF t \in Durable THEN "done" ELSE "leave")
    /\ UNCHANGED <<quotaVars, codeVars, restVars>>

SettleTwice(t) ==
    /\ turn[t].pc = "settle" /\ tx[t].st = "locked"
    /\ Write(t, -ComputeCharge(turn[t].use), "usage")
    /\ EndTx(t)
    /\ Goto(t, "resettle")
    /\ UNCHANGED <<quotaVars, codeVars, restVars>>

SettleFails(t) ==
    /\ turn[t].pc \in {"settle", "resettle"} /\ tx[t].st # "none"
    /\ EndTx(t)
    /\ Goto(t, IF t \in Durable THEN "done" ELSE "leave")
    /\ UNCHANGED <<books, quotaVars, codeVars, restVars>>

(***************************************************************************)
(* The finally block of stream: the ticket first (a failing Redis is       *)
(* swallowed and leaves it to its deadline), then the hold.                *)
(***************************************************************************)
LeaveWith(t, left) ==
    /\ turn[t].pc = "leave"
    /\ tickets' = left /\ lapsed' = lapsed \intersect left
    /\ Goto(t, IF turn[t].hold THEN "release" ELSE "done")
    /\ UNCHANGED <<books, lock, tx, stray, tokens, codeVars, restVars>>

LeaveTurn(t)  == LeaveWith(t, tickets \ {t})
TicketLost(t) == LeaveWith(t, tickets)

ReleaseTurnHold(t) ==
    /\ turn[t].pc = "release" /\ tx[t].st = "locked"
    /\ Write(t, Reserve, "turn_hold_release")
    /\ EndTx(t)
    /\ Goto(t, IF t \in Durable THEN "queued" ELSE "done")
    /\ UNCHANGED <<quotaVars, codeVars, restVars>>

Crash(t) ==
    /\ turn[t].pc \notin {"new", "done", "dead"}
    /\ EndTx(t) /\ Goto(t, "dead")
    /\ UNCHANGED <<books, quotaVars, codeVars, restVars>>

(***************************************************************************)
(* Time: the holds there are pass the six hours of the sweep, a ticket its *)
(* deadline (QUOTA_RUN_TTL_SECONDS, an hour, also under a turn that takes  *)
(* longer), the token counters their period.                               *)
(***************************************************************************)
HoldsAge ==
    /\ \E t \in Turns \ aged : HoldOut(books, t)
    /\ aged' = {t \in Turns : Has(books, "turn_hold", t)}
    /\ UNCHANGED <<books, lock, tx, turn, quotaVars, codeVars, speech, todo, drawn>>

TicketLapses(t) ==
    /\ t \in tickets \ lapsed /\ turn[t].pc \notin {"new", "count"}
    /\ lapsed' = lapsed \union {t}
    /\ stray' = IF turn[t].pc \in Running THEN stray \union {t} ELSE stray
    /\ UNCHANGED <<books, lock, tx, turn, tickets, tokens, codeVars, restVars>>

PeriodRolls(u) ==
    /\ tokens[u] > 0 /\ tokens' = [tokens EXCEPT ![u] = 0]
    /\ UNCHANGED <<books, lock, tx, turn, tickets, lapsed, stray, codeVars, restVars>>

(***************************************************************************)
(* release_stale_turn_holds, run by the retention leader: it reads some    *)
(* SweepLimit of the old holds, in no order and those that were released   *)
(* long ago among them, then releases in one transaction the ones it knows *)
(* no release of: possibly none, in every sweep.                           *)
(***************************************************************************)
Batches(s) == {b \in SUBSET s : Cardinality(b) = Min({SweepLimit, Cardinality(s)})}

OldHolds == {t \in aged : Has(books, "turn_hold", t)}

SweepScan ==
    /\ todo = {}
    /\ todo' \in Batches(OldHolds)
    /\ UNCHANGED <<books, lock, tx, turn, aged, quotaVars, codeVars, speech, drawn>>

\* The entry of one hold, and those of one account: the rows that the session
\* locks stay locked until it commits, so they follow one another.
ReleaseOne(t, after) ==
    [delta |-> Reserve, after |-> after, reason |-> "turn_hold_release", ref |-> t]

\* Seeded fault: the hold itself counts as the release that is already there.
DueUnlessHeld(u) ==
    {t \in todo : UserOf[t] = u /\ ~ Duplicate(books, "turn_hold", t)}

Due(u) == {t \in todo : UserOf[t] = u /\ ~ Duplicate(books, "turn_hold_release", t)}

Releases(u) ==
    LET order == SetToSeq(Due(u))
    IN  [i \in 1..Cardinality(Due(u)) |->
            ReleaseOne(order[i], books.account[u].balance + i * Reserve)]

SweepRelease ==
    /\ todo # {} /\ \A u \in Users : Due(u) # {} => lock[u] = Nobody
    /\ books' = [ledger  |-> [u \in Users |-> books.ledger[u] \o Releases(u)],
                 account |-> [u \in Users |->
                    NewRow(books.account[u], Reserve * Cardinality(Due(u)), "turn_hold_release")]]
    /\ todo' = {}
    /\ UNCHANGED <<lock, tx, turn, aged, quotaVars, codeVars, speech, drawn>>

SweepFails ==
    /\ todo # {} /\ todo' = {}
    /\ UNCHANGED <<books, lock, tx, turn, aged, quotaVars, codeVars, speech, drawn>>

-----------------------------------------------------------------------------
(***************************************************************************)
(* Redeem codes.  redeem reads the code, claims it with a conditional      *)
(* UPDATE that waits for the row lock of a concurrent one, grants the      *)
(* credits in the same transaction and commits.                            *)
(***************************************************************************)
\* Fresh codes, which nobody can have read before.
CreateBatch ==
    /\ \A c \in Codes : code[c] = "none" /\ ~ expired
    /\ \A u \in Users : clerk[u] = NoRef
    /\ code' = [c \in Codes |-> "active"]
    /\ UNCHANGED <<books, lock, tx, turn, quotaVars, claim, clerk, expired, restVars>>

ReadCode(u, c) ==
    /\ Registered(u) /\ clerk[u] = NoRef
    /\ code[c] = "active" /\ ~ expired
    /\ clerk' = [clerk EXCEPT ![u] = c]
    /\ UNCHANGED <<books, lock, tx, turn, quotaVars, code, claim, expired, restVars>>

\* Seeded fault: the UPDATE does not repeat the condition on the status.
WasActive(c) == TRUE

StillActive(c) == code[c] = "active"

ClaimCode(u) ==
    LET c == clerk[u]
    IN  /\ c # NoRef /\ claim[c] = Nobody
        /\ IF StillActive(c) THEN claim' = [claim EXCEPT ![c] = u] /\ UNCHANGED clerk
           ELSE clerk' = [clerk EXCEPT ![u] = NoRef] /\ UNCHANGED claim
        /\ UNCHANGED <<books, lock, tx, turn, quotaVars, code, expired, restVars>>

Redeem(u) ==
    LET c == clerk[u]
    IN  /\ c # NoRef /\ claim[c] = u
        /\ Post(u, CodeValue, "redeem", c)
        /\ code'  = [code EXCEPT ![c] = "redeemed"]
        /\ claim' = [claim EXCEPT ![c] = Nobody]
        /\ clerk' = [clerk EXCEPT ![u] = NoRef]
        /\ UNCHANGED <<lock, tx, turn, quotaVars, expired, restVars>>

RedeemAborts(u) ==
    /\ clerk[u] # NoRef
    /\ claim' = [claim EXCEPT ![clerk[u]] = IF @ = u THEN Nobody ELSE @]
    /\ clerk' = [clerk EXCEPT ![u] = NoRef]
    /\ UNCHANGED <<books, lock, tx, turn, quotaVars, code, expired, restVars>>

VoidBatch ==
    /\ \E c \in Codes : code[c] = "active"
    /\ \A c \in Codes : code[c] = "active" => claim[c] = Nobody
    /\ code' = [c \in Codes |-> IF code[c] = "active" THEN "void" ELSE code[c]]
    /\ UNCHANGED <<books, lock, tx, turn, quotaVars, claim, clerk, expired, restVars>>

VoidCode(c) ==
    /\ code[c] = "active" /\ claim[c] = Nobody
    /\ code' = [code EXCEPT ![c] = "void"]
    /\ UNCHANGED <<books, lock, tx, turn, quotaVars, claim, clerk, expired, restVars>>

\* A code that was never redeemed may be deleted.
DeleteCode(c) ==
    /\ code[c] \in {"active", "void"} /\ claim[c] = Nobody
    /\ code' = [code EXCEPT ![c] = "none"]
    /\ UNCHANGED <<books, lock, tx, turn, quotaVars, claim, clerk, expired, restVars>>

BatchExpires ==
    /\ ~ expired /\ expired' = TRUE
    /\ UNCHANGED <<books, lock, tx, turn, quotaVars, code, claim, clerk, restVars>>

-----------------------------------------------------------------------------
(***************************************************************************)
(* Registration, adjustments, and speech requests, which are admitted on a *)
(* plain read of the balance and charged after the provider has answered.  *)
(***************************************************************************)
Register(u) ==
    /\ ~ Registered(u)
    /\ Post(u, Bonus, "signup_bonus", u)
    /\ UNCHANGED <<lock, tx, turn, quotaVars, codeVars, restVars>>

Adjust(u, delta) ==
    /\ Registered(u)
    /\ Post(u, delta, "admin_adjust", NoRef)
    /\ drawn' = [drawn EXCEPT ![u] = @ + IF delta < 0 THEN -delta ELSE 0]
    /\ UNCHANGED <<lock, tx, turn, aged, speech, todo, quotaVars, codeVars>>

SpeechRequest(u) ==
    /\ ~ speech[u] /\ books.account[u].balance > 0
    /\ speech' = [speech EXCEPT ![u] = TRUE]
    /\ UNCHANGED <<books, lock, tx, turn, aged, quotaVars, codeVars, todo, drawn>>

SpeechSettle(u) ==
    /\ speech[u]
    /\ \E use \in Usages :
          IF ComputeCharge(use) = 0 THEN UNCHANGED <<books, drawn>>
          ELSE /\ Post(u, -ComputeCharge(use), "usage", NoRef)
               /\ drawn' = [drawn EXCEPT ![u] = @ + ComputeCharge(use)]
    /\ speech' = [speech EXCEPT ![u] = FALSE]
    /\ UNCHANGED <<lock, tx, turn, aged, quotaVars, codeVars, todo>>

-----------------------------------------------------------------------------
Init ==
    /\ books = [ledger  |-> [u \in Users |-> <<>>],
                account |-> [u \in Users |-> NoTx.row]]
    /\ lock = [u \in Users |-> Nobody]
    /\ tx = [t \in Turns |-> NoTx]
    /\ turn = [t \in Turns |-> [pc |-> "new", hold |-> FALSE, use |-> Nothing]]
    /\ aged = {} /\ tickets = {} /\ lapsed = {} /\ stray = {}
    /\ tokens = [u \in Users |-> 0]
    /\ code = [c \in Codes |-> "active"]
    /\ claim = [c \in Codes |-> Nobody]
    /\ clerk = [u \in Users |-> NoRef]
    /\ expired = FALSE /\ speech = [u \in Users |-> FALSE] /\ todo = {}
    /\ drawn = [u \in Users |-> 0] /\ events = 0

(***************************************************************************)
(* What a turn does by itself, and the events, of which at most MaxEvents  *)
(* happen: turns started, requests of users and administrators, faults;    *)
(* one more may be a crash.                                                *)
(***************************************************************************)
TurnStep(t) ==
    \/ CountRuns(t) \/ OpenTx(t) \/ LockTx(t) \/ AdmitTurn(t)
    \/ Dispatch(t) \/ SettleTurn(t) \/ LeaveTurn(t) \/ ReleaseTurnHold(t)
    \/ \E use \in Usages : FinishTurn(t, use)

Event ==
    \/ \E t \in Turns : StartTurn(t) \/ DispatchRefused(t) \/ SettleTwice(t) \/ SettleFails(t)
                        \/ TicketLost(t) \/ TicketLapses(t) \/ StartBlind(t) \/ CountBlind(t)
    \/ SweepFails \/ CreateBatch \/ VoidBatch \/ BatchExpires
    \/ \E c \in Codes : VoidCode(c) \/ DeleteCode(c) \/ \E u \in Users : ReadCode(u, c)
    \/ \E u \in Users : \/ PeriodRolls(u) \/ SpeechRequest(u) \/ RedeemAborts(u)
                        \/ \E delta \in Deltas : Adjust(u, delta)

Quiet(A) == A /\ UNCHANGED events

Next ==
    \/ \E t \in Turns : Quiet(TurnStep(t))
    \/ Quiet(HoldsAge) \/ Quiet(SweepScan \/ SweepRelease)
    \/ \E u \in Users : Quiet(Register(u) \/ ClaimCode(u) \/ Redeem(u) \/ SpeechSettle(u))
    \/ events < MaxEvents /\ events' = events + 1 /\ Event
    \/ events <= MaxEvents /\ events' = events + 1 /\ \E t \in Turns : Crash(t)

Spec == Init /\ [][Next]_vars

(***************************************************************************)
(* Fairness: the event loop runs every turn on, six hours pass, and the    *)
(* retention leader sweeps again and again.                                *)
(***************************************************************************)
FairSpec ==
    /\ Spec
    /\ \A t \in Turns : WF_vars(Quiet(TurnStep(t)))
    /\ WF_vars(Quiet(HoldsAge))
    /\ WF_vars(Quiet(SweepScan \/ SweepRelease))

-----------------------------------------------------------------------------
(***************************************************************************)
(* The books balance: what a user has is what was granted less what was    *)
(* consumed less the reserves of the holds that are out, and every entry   *)
(* continues from the balance the user's entry before it left.  Two        *)
(* sessions that both loaded the row, a hold returned by the turn and by   *)
(* the sweep, a charge settled twice or a code granted twice would break   *)
(* it (_locked_account, _write_entry).                                     *)
(***************************************************************************)
LedgerReconciles ==
    \A u \in Users :
       LET row    == books.account[u]
           ledger == books.ledger[u]
           out    == {t \in Turns : UserOf[t] = u /\ HoldOut(books, t)}
       IN  /\ row.balance = row.granted - row.consumed - Reserve * Cardinality(out)
           /\ \A i \in DOMAIN ledger :
                 ledger[i].after = ledger[i].delta + IF i = 1 THEN 0 ELSE ledger[i - 1].after

(***************************************************************************)
(* A code pays once or not at all: a redeemed code has exactly one grant,  *)
(* whoever raced for it, and a code that was voided, deleted or left       *)
(* active has none (the conditional UPDATE of redeem).                     *)
(***************************************************************************)
CodesPayOnce ==
    \A c \in Codes :
       /\ (code[c] = "redeemed") <=> Has(books, "redeem", c)
       /\ Cardinality({u \in Users : clerk[u] = c /\ claim[c] = u}) <= 1
       /\ claim[c] # Nobody => code[c] = "active"

(***************************************************************************)
(* A user of inline turns never owes more than the turns that may run at   *)
(* once can cost, besides what an administrator or a speech request took:  *)
(* the tickets bound the turns, the hold stops a turn on an empty account, *)
(* the cap bounds each charge (admit_run, admit_turn, compute_charge).  A  *)
(* turn admitted while Redis failed, or that outlived its ticket, runs     *)
(* beside the limit and may cost one charge more.                          *)
(***************************************************************************)
DebtBounded ==
    \A u \in Users :
       (\A t \in Durable : UserOf[t] = u => turn[t].pc = "new")
          => books.account[u].balance >=
                -((MaxRuns + Cardinality(TicketsOf(stray, u))) * MaxCharge) - drawn[u]

(***************************************************************************)
(* In the end every hold is back: by the turn that took it or, when its    *)
(* process died or the dispatch was refused, by the retention sweep, as    *)
(* long as the old holds of the ledger fit into one batch.  The query      *)
(* neither orders them nor leaves out the released ones, which stay in the *)
(* ledger: once there are more, the same batch may be read for ever and a  *)
(* hold of a dead turn stay out.                                           *)
(***************************************************************************)
EveryHoldReturns ==
    <>[](\A t \in Turns : HoldOut(books, t) => Cardinality(OldHolds) > SweepLimit)
=============================================================================
