---------------------------- MODULE Credits_proofs ----------------------------
(***************************************************************************)
(* Proofs about Credits, for any users, turns, codes and usages and for    *)
(* any number of events: the books reconcile, a code pays once, and a user *)
(* of inline turns owes no more than the turns that may run at once cost.  *)
(***************************************************************************)
EXTENDS Credits, FiniteSetTheorems, TLAPS

Refs == Users \union Turns \union Codes \union {NoRef}
Held == {"turn_hold", "turn_hold_release"}

-----------------------------------------------------------------------------
(* What the operators return.                                               *)

\* Nothing costs nothing, and the cap bounds what a turn costs (compute_charge).
LEMMA ChargeBounded ==
    ASSUME NEW use \in Usages \union {Nothing}
    PROVE  ComputeCharge(use) \in 0..MaxCharge
  <1> DEFINE price == IF use.cost > 0 THEN use.cost * PerUsd
                                      ELSE Ceil(use.tokens, TokensPerCredit)
  <1>1. use.cost \in Nat /\ use.tokens \in Nat
    BY CreditsAssumption DEF Nothing
  <1>2. use.cost * PerUsd \in Nat
    BY <1>1, CreditsAssumption
  <1>3. Ceil(use.tokens, TokensPerCredit) \in Nat
    <2>1. ASSUME NEW n \in Nat, NEW d \in Nat \ {0}
          PROVE  (n + d - 1) \div d \in Nat
      OBVIOUS
    <2> QED BY <1>1, <2>1, CreditsAssumption DEF Ceil
  <1>4. price \in Nat
    BY <1>2, <1>3
  <1>5. MaxCharge \in Nat
    BY CreditsAssumption
  <1> HIDE DEF price
  <1>6. \E m \in {MaxCharge, price} : \A y \in {MaxCharge, price} : m <= y
    BY <1>4, <1>5
  <1>7. Min({MaxCharge, price}) \in {MaxCharge, price} /\ Min({MaxCharge, price}) <= MaxCharge
    BY <1>6 DEF Min
  <1>8. ComputeCharge(use) = Min({MaxCharge, price})
    BY DEF ComputeCharge, price
  <1> QED BY <1>4, <1>5, <1>7, <1>8

\* The row an entry leaves: holds stay out of the totals (_write_entry).
LEMMA RowStep ==
    ASSUME NEW row \in Row, NEW delta \in Int, NEW reason
    PROVE  /\ NewRow(row, delta, reason) \in Row
           /\ NewRow(row, delta, reason).balance = row.balance + delta
           /\ Counted(reason) => NewRow(row, delta, reason).granted - NewRow(row, delta, reason).consumed
                                   = row.granted - row.consumed + delta
           /\ ~ Counted(reason) => NewRow(row, delta, reason).granted = row.granted
                                   /\ NewRow(row, delta, reason).consumed = row.consumed
  BY DEF NewRow, Row

\* One call of _write_entry on the account as it is.
Wrote(u, delta, reason, ref) ==
    books' = WriteEntry(books, u, books.account[u], delta, reason, ref)

NewEntry(u, delta, reason, ref) ==
    [delta |-> delta, after |-> books.account[u].balance + delta, reason |-> reason, ref |-> ref]

BooksType == books.ledger \in [Users -> Seq(Entry)] /\ books.account \in [Users -> Row]

\* An entry that is no duplicate is appended, and nothing else is.
LEMMA WriteStep ==
    ASSUME BooksType,
           NEW u \in Users, NEW delta \in Int, NEW reason \in Reasons, NEW ref \in Refs,
           Wrote(u, delta, reason, ref), ~ Duplicate(books, reason, ref)
    PROVE  /\ NewEntry(u, delta, reason, ref) \in Entry
           /\ books'.ledger[u] = Append(books.ledger[u], NewEntry(u, delta, reason, ref))
           /\ books'.account[u] = NewRow(books.account[u], delta, reason)
           /\ \A v \in Users \ {u} : books'.ledger[v] = books.ledger[v]
                                     /\ books'.account[v] = books.account[v]
           /\ BooksType'
           /\ \A r, x : Has(books', r, x) <=> Has(books, r, x) \/ (r = reason /\ x = ref)
  <1> DEFINE e == NewEntry(u, delta, reason, ref)
  <1>1. books.account[u] \in Row /\ books.ledger[u] \in Seq(Entry)
    BY DEF BooksType
  <1>2. e \in Entry
    BY <1>1 DEF Row, Entry, Refs, NewEntry
  <1>3. books' = [ledger |-> [books.ledger EXCEPT ![u] = Append(books.ledger[u], e)],
                  account |-> [books.account EXCEPT ![u] = NewRow(books.account[u], delta, reason)]]
    BY DEF Wrote, WriteEntry, BooksType, NewEntry
  <1>4. /\ books'.ledger[u] = Append(books.ledger[u], e)
        /\ books'.account[u] = NewRow(books.account[u], delta, reason)
        /\ \A v \in Users \ {u} : books'.ledger[v] = books.ledger[v]
                                  /\ books'.account[v] = books.account[v]
    BY <1>3 DEF BooksType
  <1>5. BooksType'
    BY <1>1, <1>2, <1>3, RowStep DEF BooksType
  <1>6. ASSUME NEW r, NEW x
        PROVE  Has(books', r, x) <=> Has(books, r, x) \/ (r = reason /\ x = ref)
    <2>1. /\ Len(books.ledger[u]) \in Nat
          /\ DOMAIN books.ledger[u] = 1..Len(books.ledger[u])
          /\ DOMAIN books'.ledger[u] = 1..(Len(books.ledger[u]) + 1)
          /\ books'.ledger[u][Len(books.ledger[u]) + 1] = e
          /\ \A i \in 1..Len(books.ledger[u]) : books'.ledger[u][i] = books.ledger[u][i]
      BY <1>1, <1>2, <1>4
    <2>2. e.reason = reason /\ e.ref = ref
      BY DEF NewEntry
    <2> HIDE DEF e
    <2>3. Has(books', r, x) => Has(books, r, x) \/ (r = reason /\ x = ref)
      <3> SUFFICES ASSUME NEW v \in Users, NEW i \in DOMAIN books'.ledger[v],
                          books'.ledger[v][i].reason = r, books'.ledger[v][i].ref = x
                   PROVE  Has(books, r, x) \/ (r = reason /\ x = ref)
        BY DEF Has
      <3>1. CASE v # u
        BY <1>4, <3>1 DEF Has
      <3>2. CASE v = u /\ i \in 1..Len(books.ledger[u])
        BY <2>1, <3>2 DEF Has
      <3>3. CASE v = u /\ i = Len(books.ledger[u]) + 1
        BY <2>1, <2>2, <3>3
      <3> QED BY <2>1, <3>1, <3>2, <3>3
    <2>4. ASSUME Has(books, r, x) PROVE Has(books', r, x)
      <3> PICK v \in Users : \E i \in DOMAIN books.ledger[v] :
                                books.ledger[v][i].reason = r /\ books.ledger[v][i].ref = x
        BY <2>4 DEF Has
      <3>1. CASE v # u
        BY <1>4, <3>1 DEF Has
      <3>2. CASE v = u
        <4> PICK i \in 1..Len(books.ledger[u]) :
                 books.ledger[u][i].reason = r /\ books.ledger[u][i].ref = x
          BY <2>1, <3>2
        <4>1. i \in DOMAIN books'.ledger[u] /\ books'.ledger[u][i] = books.ledger[u][i]
          BY <2>1
        <4> QED BY <4>1 DEF Has
      <3> QED BY <3>1, <3>2
    <2>5. ASSUME r = reason, x = ref PROVE Has(books', r, x)
      BY <2>1, <2>2, <2>5 DEF Has
    <2> QED BY <2>3, <2>4, <2>5
  <1> QED BY <1>2, <1>4, <1>5, <1>6

\* A duplicate changes nothing.
LEMMA DuplicateStep ==
    ASSUME NEW u, NEW delta, NEW reason, NEW ref,
           Wrote(u, delta, reason, ref), Duplicate(books, reason, ref)
    PROVE  books' = books
  BY DEF Wrote, WriteEntry

\* A finite set in a sequence.
LEMMA Enumerated ==
    ASSUME NEW S, IsFiniteSet(S)
    PROVE  /\ Cardinality(S) \in Nat
           /\ SetToSeq(S) \in [1..Cardinality(S) -> S]
           /\ \A x \in S : \E i \in 1..Cardinality(S) : SetToSeq(S)[i] = x
  <1>1. Cardinality(S) \in Nat /\ ExistsBijection(1..Cardinality(S), S)
    BY FS_CardinalityType
  <1>2. \E f \in [1..Cardinality(S) -> S] : IsInjective(f)
    BY <1>1 DEF ExistsBijection, Bijection, Injection
  <1>3. SetToSeq(S) \in [1..Cardinality(S) -> S] /\ IsInjective(SetToSeq(S))
    BY <1>2 DEF SetToSeq
  <1>4. SetToSeq(S) \in Injection(1..Cardinality(S), S)
    BY <1>3 DEF Injection
  <1>5. IsFiniteSet(1..Cardinality(S)) /\ Cardinality(1..Cardinality(S)) = Cardinality(S)
    BY <1>1, FS_Interval
  <1>6. SetToSeq(S) \in Surjection(1..Cardinality(S), S)
    BY <1>4, <1>5, FS_Injection
  <1> QED BY <1>1, <1>3, <1>6 DEF Surjection

-----------------------------------------------------------------------------
(* The books.                                                               *)

Locks ==
    \A t \in Turns : tx[t].st = "locked" =>
        lock[UserOf[t]] = t /\ tx[t].row = books.account[UserOf[t]]

Holds ==
    /\ \A t \in Turns : turn[t].pc \in {"dispatch", "release"} => turn[t].hold
    /\ \A t \in Turns : turn[t].hold => Has(books, "turn_hold", t)
    /\ \A t \in todo : Has(books, "turn_hold", t)
    /\ \A t \in Turns : Has(books, "turn_hold_release", t) => Has(books, "turn_hold", t)

\* What a step may do to the books.
Moves ==
    \/ books' = books
    \/ SweepRelease
    \/ \E u \in Users, delta \in Int, reason \in Reasons \ Held, ref \in Refs :
          Wrote(u, delta, reason, ref)
    \/ \E t \in Turns : Wrote(UserOf[t], -Reserve, "turn_hold", t)
    \/ \E t \in Turns : turn[t].hold /\ Wrote(UserOf[t], Reserve, "turn_hold_release", t)

LEMMA TurnWrote ==
    ASSUME TypeOK, Locks, NEW t \in Turns, NEW delta, NEW reason,
           tx[t].st = "locked", Write(t, delta, reason)
    PROVE  Wrote(UserOf[t], delta, reason, t)
  BY DEF Locks, Write, Wrote

LEMMA PostWrote ==
    ASSUME NEW u \in Users, NEW delta, NEW reason, NEW ref, Post(u, delta, reason, ref)
    PROVE  Wrote(u, delta, reason, ref)
  BY DEF Post, Wrote

LEMMA UseCharge ==
    ASSUME TypeOK, NEW t \in Turns
    PROVE  ComputeCharge(turn[t].use) \in 0..MaxCharge /\ MaxCharge \in Nat
  BY ChargeBounded, CreditsAssumption DEF TypeOK

LEMMA BooksMove ==
    ASSUME TypeOK, Locks, Holds, Next
    PROVE  Moves
  <1> USE CreditsAssumption
  <1>1. ASSUME NEW t \in Turns, AdmitTurn(t)
        PROVE  Moves
    <2>1. CASE UNCHANGED books
      BY <2>1 DEF Moves
    <2>2. CASE Write(t, -Reserve, "turn_hold")
      BY <1>1, <2>2, TurnWrote DEF Moves, AdmitTurn
    <2> QED BY <1>1, <2>1, <2>2 DEF AdmitTurn
  <1>2. ASSUME NEW t \in Turns, SettleTurn(t) \/ SettleTwice(t)
        PROVE  Moves
    <2>1. Write(t, -ComputeCharge(turn[t].use), "usage") /\ tx[t].st = "locked"
      BY <1>2 DEF SettleTurn, SettleTwice
    <2>2. Wrote(UserOf[t], -ComputeCharge(turn[t].use), "usage", t)
      BY <2>1, TurnWrote
    <2>3. /\ -ComputeCharge(turn[t].use) \in Int /\ "usage" \in Reasons \ Held
          /\ t \in Refs /\ UserOf[t] \in Users
      BY UseCharge DEF Reasons, Held, Refs
    <2> QED BY <2>2, <2>3 DEF Moves
  <1>3. ASSUME NEW t \in Turns, ReleaseTurnHold(t)
        PROVE  Moves
    BY <1>3, TurnWrote DEF Moves, ReleaseTurnHold, Holds
  <1>4. ASSUME NEW u \in Users, Register(u) \/ (\E delta \in Deltas : Adjust(u, delta)) \/ Redeem(u)
        PROVE  Moves
    <2>1. ASSUME NEW delta \in Int, NEW reason \in Reasons \ Held, NEW ref \in Refs,
                 Post(u, delta, reason, ref)
          PROVE  Moves
      BY <2>1, PostWrote DEF Moves
    <2>2. CASE Register(u)
      BY <2>1, <2>2 DEF Register, Reasons, Held, Refs
    <2>3. CASE \E delta \in Deltas : Adjust(u, delta)
      BY <2>1, <2>3 DEF Adjust, Reasons, Held, Refs
    <2>4. CASE Redeem(u)
      BY <2>1, <2>4 DEF Redeem, Reasons, Held, Refs, TypeOK
    <2> QED BY <1>4, <2>2, <2>3, <2>4
  <1>5. ASSUME NEW u \in Users, SpeechSettle(u)
        PROVE  Moves
    <2> PICK use \in Usages : \/ UNCHANGED books
                              \/ Post(u, -ComputeCharge(use), "usage", NoRef)
      BY <1>5 DEF SpeechSettle
    <2>1. -ComputeCharge(use) \in Int
      BY ChargeBounded
    <2> QED BY <2>1, PostWrote DEF Moves, Reasons, Held, Refs
  <1>6. ASSUME \/ \E t \in Turns : \/ CountRuns(t) \/ StartBlind(t) \/ CountBlind(t)
                                   \/ OpenTx(t) \/ LockTx(t) \/ Dispatch(t)
                                   \/ LeaveTurn(t) \/ (\E use \in Usages : FinishTurn(t, use))
                                   \/ StartTurn(t) \/ Crash(t) \/ DispatchRefused(t) \/ SettleFails(t)
                                   \/ TicketLost(t) \/ TicketLapses(t)
               \/ HoldsAge \/ SweepScan \/ SweepFails \/ CreateBatch \/ VoidBatch \/ BatchExpires
               \/ \E c \in Codes : VoidCode(c) \/ DeleteCode(c) \/ \E u \in Users : ReadCode(u, c)
               \/ \E u \in Users : PeriodRolls(u) \/ SpeechRequest(u) \/ RedeemAborts(u) \/ ClaimCode(u)
        PROVE  books' = books
    BY <1>6 DEF CountRuns, StartBlind, CountBlind,
                OpenTx, LockTx, Dispatch, LeaveTurn, FinishTurn, StartTurn, Crash,
                DispatchRefused, SettleFails, TicketLost, TicketLapses, LeaveWith, HoldsAge, SweepScan,
                SweepFails, CreateBatch, VoidBatch, BatchExpires, VoidCode, DeleteCode, ReadCode,
                PeriodRolls, SpeechRequest, RedeemAborts, ClaimCode
  <1> QED BY <1>1, <1>2, <1>3, <1>4, <1>5, <1>6 DEF Next, Event, TurnStep, Quiet, Moves

\* The holds the sweep releases for a user are finitely many, none released before.
LEMMA DueFacts ==
    ASSUME TypeOK, NEW u \in Users
    PROVE  /\ IsFiniteSet(Due(u)) /\ Cardinality(Due(u)) \in Nat
           /\ Due(u) = {t \in todo : UserOf[t] = u /\ ~ Has(books, "turn_hold_release", t)}
           /\ Due(u) = {} => Cardinality(Due(u)) = 0
  <1>1. Due(u) \subseteq Turns /\ IsFiniteSet(Turns)
    BY CreditsAssumption DEF Due, TypeOK
  <1>2. Due(u) = {t \in todo : UserOf[t] = u /\ ~ Has(books, "turn_hold_release", t)}
    BY CreditsAssumption DEF Due, Duplicate, TypeOK
  <1> QED BY <1>1, <1>2, FS_Subset, FS_CardinalityType, FS_EmptySet

\* Their entries: one for each, counting up from the balance.
LEMMA ReleasesFacts ==
    ASSUME TypeOK, NEW u \in Users
    PROVE  /\ Releases(u) \in Seq(Entry)
           /\ Len(Releases(u)) = Cardinality(Due(u))
           /\ \A i \in 1..Cardinality(Due(u)) :
                 /\ Releases(u)[i].delta = Reserve
                 /\ Releases(u)[i].after = books.account[u].balance + i * Reserve
                 /\ Releases(u)[i].reason = "turn_hold_release"
                 /\ Releases(u)[i].ref \in Due(u)
           /\ \A t \in Due(u) : \E i \in 1..Cardinality(Due(u)) : Releases(u)[i].ref = t
  <1> DEFINE n == Cardinality(Due(u))
             order == SetToSeq(Due(u))
  <1>1. /\ n \in Nat /\ order \in [1..n -> Due(u)]
        /\ \A t \in Due(u) : \E i \in 1..n : order[i] = t
    BY DueFacts, Enumerated
  <1>2. Releases(u) = [i \in 1..n |-> ReleaseOne(order[i], books.account[u].balance + i * Reserve)]
    BY DEF Releases
  <1> HIDE DEF n, order
  <1>3. ASSUME NEW i \in 1..n
        PROVE  /\ Releases(u)[i] \in Entry
               /\ Releases(u)[i].delta = Reserve
               /\ Releases(u)[i].after = books.account[u].balance + i * Reserve
               /\ Releases(u)[i].reason = "turn_hold_release"
               /\ Releases(u)[i].ref = order[i]
    <2>1. order[i] \in Turns
      BY <1>1 DEF TypeOK, Due
    <2>2. i * Reserve \in Int /\ Reserve \in Nat
      BY <1>1, CreditsAssumption
    <2>3. books.account[u].balance \in Int
      BY DEF TypeOK, Row
    <2> QED BY <1>2, <2>1, <2>2, <2>3 DEF ReleaseOne, Entry, Reasons
  <1>4. Releases(u) \in Seq(Entry) /\ Len(Releases(u)) = n
    BY <1>1, <1>2, <1>3
  <1> QED BY <1>1, <1>3, <1>4 DEF n

\* What the sweep leaves in the books (release_stale_turn_holds).
LEMMA SweepStep ==
    ASSUME TypeOK, SweepRelease
    PROVE  /\ BooksType'
           /\ \A u \in Users :
                 /\ books'.ledger[u] = books.ledger[u] \o Releases(u)
                 /\ books'.account[u] = NewRow(books.account[u], Reserve * Cardinality(Due(u)), "turn_hold_release")
           /\ \A r, x : Has(books', r, x) <=> Has(books, r, x) \/ (r = "turn_hold_release" /\ x \in todo)
  <1>1. ASSUME NEW u \in Users
        PROVE  /\ books'.ledger[u] = books.ledger[u] \o Releases(u)
               /\ books'.ledger[u] \in Seq(Entry)
               /\ books'.account[u] = NewRow(books.account[u], Reserve * Cardinality(Due(u)), "turn_hold_release")
               /\ books'.account[u] \in Row
    <2>1. books.account[u] \in Row /\ books.ledger[u] \in Seq(Entry)
      BY DEF TypeOK
    <2>2. Reserve * Cardinality(Due(u)) \in Int
      BY DueFacts, CreditsAssumption
    <2> QED BY <2>1, <2>2, RowStep, ReleasesFacts DEF SweepRelease
  <1>2. BooksType'
    BY <1>1 DEF BooksType, SweepRelease
  <1>3. ASSUME NEW r, NEW x
        PROVE  Has(books', r, x) <=> Has(books, r, x) \/ (r = "turn_hold_release" /\ x \in todo)
    <2>1. ASSUME NEW u \in Users
          PROVE  LET n == Len(books.ledger[u])
                     m == Cardinality(Due(u))
                 IN /\ n \in Nat /\ m \in Nat
                    /\ DOMAIN books.ledger[u] = 1..n /\ DOMAIN books'.ledger[u] = 1..(n + m)
                    /\ \A i \in 1..n : books'.ledger[u][i] = books.ledger[u][i]
                    /\ \A i \in 1..m : books'.ledger[u][n + i] = Releases(u)[i]
      <3>1. books.ledger[u] \in Seq(Entry) /\ books'.ledger[u] = books.ledger[u] \o Releases(u)
        BY <1>1 DEF TypeOK
      <3>2. /\ Releases(u) \in Seq(Entry) /\ Len(Releases(u)) = Cardinality(Due(u))
            /\ Cardinality(Due(u)) \in Nat
        BY DueFacts, ReleasesFacts
      <3> QED BY <3>1, <3>2
    <2>2. Has(books', r, x) => Has(books, r, x) \/ (r = "turn_hold_release" /\ x \in todo)
      <3> SUFFICES ASSUME NEW u \in Users, NEW i \in DOMAIN books'.ledger[u],
                          books'.ledger[u][i].reason = r, books'.ledger[u][i].ref = x
                   PROVE  Has(books, r, x) \/ (r = "turn_hold_release" /\ x \in todo)
        BY DEF Has
      <3> DEFINE n == Len(books.ledger[u])
                 m == Cardinality(Due(u))
      <3>1. CASE i \in 1..n
        BY <2>1, <3>1 DEF Has
      <3>2. CASE i - n \in 1..m
        <4>1. books'.ledger[u][i] = Releases(u)[i - n]
          <5>1. n + (i - n) = i
            BY <2>1
          <5> QED BY <2>1, <3>2, <5>1
        <4>2. r = "turn_hold_release" /\ x \in Due(u)
          <5>1. /\ Releases(u)[i - n].reason = "turn_hold_release"
                /\ Releases(u)[i - n].ref \in Due(u)
            BY <3>2, ReleasesFacts
          <5> QED BY <4>1, <5>1
        <4> QED BY <4>2, DueFacts
      <3>3. i \in 1..n \/ i - n \in 1..m
        <4>1. n \in Nat /\ m \in Nat /\ i \in 1..(n + m)
          BY <2>1
        <4> HIDE DEF n, m
        <4> QED BY <4>1
      <3> QED BY <3>1, <3>2, <3>3
    <2>3. ASSUME Has(books, r, x) PROVE Has(books', r, x)
      <3> PICK u \in Users : \E i \in DOMAIN books.ledger[u] :
                 books.ledger[u][i].reason = r /\ books.ledger[u][i].ref = x
        BY <2>3 DEF Has
      <3> PICK i \in DOMAIN books.ledger[u] :
                 books.ledger[u][i].reason = r /\ books.ledger[u][i].ref = x
        OBVIOUS
      <3> DEFINE n == Len(books.ledger[u])
                 m == Cardinality(Due(u))
      <3>1. i \in DOMAIN books'.ledger[u] /\ books'.ledger[u][i] = books.ledger[u][i]
        <4>1. /\ n \in Nat /\ m \in Nat
              /\ DOMAIN books.ledger[u] = 1..n /\ DOMAIN books'.ledger[u] = 1..(n + m)
              /\ \A j \in 1..n : books'.ledger[u][j] = books.ledger[u][j]
          BY <2>1
        <4> HIDE DEF n, m
        <4> QED BY <4>1
      <3> QED BY <3>1 DEF Has
    <2>4. ASSUME r = "turn_hold_release", x \in todo PROVE Has(books', r, x)
      <3> DEFINE u == UserOf[x]
      <3>1. u \in Users
        BY <2>4, CreditsAssumption DEF TypeOK
      <3>2. CASE x \in Due(u)
        <4> PICK i \in 1..Cardinality(Due(u)) : Releases(u)[i].ref = x
          BY <3>1, <3>2, ReleasesFacts
        <4>1. Releases(u)[i].reason = r
          BY <2>4, <3>1, ReleasesFacts
        <4>2. /\ Len(books.ledger[u]) + i \in DOMAIN books'.ledger[u]
              /\ books'.ledger[u][Len(books.ledger[u]) + i] = Releases(u)[i]
          <5> DEFINE n == Len(books.ledger[u])
                     m == Cardinality(Due(u))
          <5>1. /\ n \in Nat /\ m \in Nat /\ DOMAIN books'.ledger[u] = 1..(n + m)
                /\ \A j \in 1..m : books'.ledger[u][n + j] = Releases(u)[j]
            BY <2>1, <3>1
          <5>2. i \in 1..m
            OBVIOUS
          <5> HIDE DEF n, m
          <5>3. n + i \in 1..(n + m) /\ books'.ledger[u][n + i] = Releases(u)[i]
            BY <5>1, <5>2
          <5> QED BY <5>1, <5>3 DEF n
        <4> QED BY <3>1, <4>1, <4>2 DEF Has
      <3>3. CASE x \notin Due(u)
        BY <2>3, <2>4, <3>1, <3>3, DueFacts
      <3> QED BY <3>2, <3>3
    <2> QED BY <2>2, <2>3, <2>4
  <1> QED BY <1>1, <1>2, <1>3

\* Each entry continues from the one before it, and the last one leaves the balance.
Chain(ledger, balance) ==
    /\ \A i \in DOMAIN ledger :
          ledger[i].after = ledger[i].delta + IF i = 1 THEN 0 ELSE ledger[i - 1].after
    /\ balance = IF Len(ledger) = 0 THEN 0 ELSE ledger[Len(ledger)].after

\* A chain goes on with an entry computed from the balance, or with equal ones.
LEMMA AppendChain ==
    ASSUME NEW ledger \in Seq(Entry), NEW balance \in Int, Chain(ledger, balance),
           NEW e \in Entry, e.after = e.delta + balance
    PROVE  Chain(Append(ledger, e), e.after)
  <1> DEFINE n == Len(ledger)
             new == Append(ledger, e)
  <1>1. /\ n \in Nat /\ DOMAIN ledger = 1..n /\ DOMAIN new = 1..(n + 1) /\ Len(new) = n + 1
        /\ new[n + 1] = e /\ \A i \in 1..n : new[i] = ledger[i]
    OBVIOUS
  <1> HIDE DEF n, new
  <1>2. balance = IF n = 0 THEN 0 ELSE ledger[n].after
    BY DEF Chain, n
  <1>3. ASSUME NEW i \in 1..(n + 1)
        PROVE  new[i].after = new[i].delta + IF i = 1 THEN 0 ELSE new[i - 1].after
    <2>1. CASE i \in 1..n
      <3>1. i = 1 \/ i - 1 \in 1..n
        BY <1>1, <2>1
      <3> QED BY <1>1, <2>1, <3>1 DEF Chain
    <2>2. CASE i = n + 1
      <3>1. n = 0 \/ n \in 1..n
        BY <1>1
      <3>2. IF i = 1 THEN n = 0 ELSE n \in 1..n /\ i - 1 = n
        BY <1>1, <2>2, <3>1
      <3> QED BY <1>1, <1>2, <2>2, <3>2
    <2> QED BY <1>1, <2>1, <2>2
  <1> QED BY <1>1, <1>3 DEF Chain, new

LEMMA ConcatChain ==
    ASSUME NEW ledger \in Seq(Entry), NEW balance \in Int, Chain(ledger, balance),
           NEW more \in Seq(Entry), NEW delta \in Nat,
           \A i \in 1..Len(more) : more[i].delta = delta /\ more[i].after = balance + i * delta
    PROVE  Chain(ledger \o more, balance + delta * Len(more))
  <1> DEFINE n == Len(ledger)
             m == Len(more)
             all == ledger \o more
  <1>1. /\ n \in Nat /\ m \in Nat /\ DOMAIN ledger = 1..n /\ DOMAIN all = 1..(n + m) /\ Len(all) = n + m
        /\ \A i \in 1..n : all[i] = ledger[i]
        /\ \A i \in 1..m : all[n + i] = more[i]
    OBVIOUS
  <1> HIDE DEF n, m, all
  <1>2. balance = IF n = 0 THEN 0 ELSE ledger[n].after
    BY DEF Chain, n
  <1>3. ASSUME NEW i \in 1..m
        PROVE  all[n + i].delta = delta /\ all[n + i].after = balance + i * delta
    BY <1>1, <1>3 DEF m
  <1>4. ASSUME NEW i \in 1..(n + m)
        PROVE  all[i].after = all[i].delta + IF i = 1 THEN 0 ELSE all[i - 1].after
    <2>1. CASE i \in 1..n
      <3>1. i = 1 \/ i - 1 \in 1..n
        BY <1>1, <2>1
      <3> QED BY <1>1, <2>1, <3>1 DEF Chain
    <2>2. CASE i = n + 1
      <3>1. all[i].delta = delta /\ all[i].after = balance + delta
        <4>1. 1 \in 1..m
          BY <1>1, <2>2
        <4>2. 1 * delta = delta
          OBVIOUS
        <4> QED BY <1>3, <2>2, <4>1, <4>2
      <3>2. IF i = 1 THEN n = 0 ELSE n \in 1..n /\ i - 1 = n
        BY <1>1, <2>2
      <3> QED BY <1>1, <1>2, <2>2, <3>1, <3>2
    <2>3. CASE i \in (n + 2)..(n + m)
      <3> DEFINE j == i - n
      <3>1. j \in 1..m /\ j - 1 \in 1..m /\ n + j = i /\ n + (j - 1) = i - 1 /\ i # 1 /\ j \in Int
        BY <1>1, <2>3
      <3> HIDE DEF j
      <3>2. j * delta = (j - 1) * delta + delta
        BY <3>1
      <3>3. /\ all[i].delta = delta /\ all[i].after = balance + j * delta
            /\ all[i - 1].after = balance + (j - 1) * delta
        BY <1>3, <3>1
      <3>4. (j - 1) * delta \in Int /\ j * delta \in Int
        BY <3>1
      <3> QED BY <3>1, <3>2, <3>3, <3>4
    <2> QED BY <1>1, <2>1, <2>2, <2>3
  <1>5. balance + delta * m = IF Len(all) = 0 THEN 0 ELSE all[Len(all)].after
    <2>1. CASE m = 0
      <3>1. delta * m = 0
        BY <2>1
      <3>2. n = 0 \/ n \in 1..n
        BY <1>1
      <3> QED BY <1>1, <1>2, <2>1, <3>1, <3>2
    <2>2. CASE m # 0
      <3>1. m \in 1..m /\ Len(all) = n + m /\ n + m # 0
        BY <1>1, <2>2
      <3>2. delta * m = m * delta
        BY <1>1
      <3> QED BY <1>3, <3>1, <3>2
    <2> QED BY <2>1, <2>2
  <1> QED BY <1>1, <1>4, <1>5 DEF Chain, all, m

-----------------------------------------------------------------------------
(* The ledger.                                                              *)

Out(u) == {t \in Turns : UserOf[t] = u /\ HoldOut(books, t)}

Chained  == \A u \in Users : Chain(books.ledger[u], books.account[u].balance)
Balanced == \A u \in Users : books.account[u].balance = books.account[u].granted - books.account[u].consumed
                                                       - Reserve * Cardinality(Out(u))

LEMMA OutFacts ==
    ASSUME NEW s \in SUBSET Turns
    PROVE  IsFiniteSet(s) /\ Cardinality(s) \in Nat /\ Reserve * Cardinality(s) \in Nat
  <1>1. IsFiniteSet(s) /\ Cardinality(s) \in Nat
    BY CreditsAssumption, FS_Subset, FS_CardinalityType
  <1> QED BY <1>1, CreditsAssumption

LEMMA WriteChained ==
    ASSUME TypeOK, Chained, NEW u \in Users, NEW delta \in Int, NEW reason \in Reasons, NEW ref \in Refs,
           Wrote(u, delta, reason, ref)
    PROVE  Chained'
  <1>1. CASE Duplicate(books, reason, ref)
    BY <1>1, DuplicateStep DEF Chained
  <1>2. CASE ~ Duplicate(books, reason, ref)
    <2> DEFINE e == NewEntry(u, delta, reason, ref)
    <2>1. /\ e \in Entry
          /\ books'.ledger[u] = Append(books.ledger[u], e)
          /\ books'.account[u] = NewRow(books.account[u], delta, reason)
          /\ \A v \in Users \ {u} : books'.ledger[v] = books.ledger[v]
                                    /\ books'.account[v] = books.account[v]
      BY <1>2, WriteStep DEF TypeOK, BooksType
    <2>2. books.account[u] \in Row /\ books.account[u].balance \in Int /\ books.ledger[u] \in Seq(Entry)
      BY DEF TypeOK, Row
    <2>3. e.after = e.delta + books.account[u].balance /\ e.after = books'.account[u].balance
      BY <2>1, <2>2, RowStep DEF NewEntry
    <2> HIDE DEF e
    <2>4. Chain(books'.ledger[u], books'.account[u].balance)
      BY <2>1, <2>2, <2>3, AppendChain DEF Chained
    <2> QED BY <2>1, <2>4 DEF Chained
  <1> QED BY <1>1, <1>2

LEMMA MovesChained ==
    ASSUME TypeOK, Chained, Moves
    PROVE  Chained'
  <1>1. CASE books' = books
    BY <1>1 DEF Chained
  <1>2. CASE SweepRelease
    <2> SUFFICES ASSUME NEW u \in Users
                 PROVE  Chain(books'.ledger[u], books'.account[u].balance)
      BY DEF Chained
    <2> DEFINE n == Cardinality(Due(u))
    <2>1. books'.ledger[u] = books.ledger[u] \o Releases(u)
      BY <1>2, SweepStep
    <2>2. books.account[u] \in Row /\ books.account[u].balance \in Int /\ books.ledger[u] \in Seq(Entry)
      BY DEF TypeOK, Row
    <2>3. n \in Nat /\ Reserve \in Nat /\ Reserve * n \in Int
      BY DueFacts, CreditsAssumption
    <2>4. books'.account[u].balance = books.account[u].balance + Reserve * n
      BY <1>2, <2>2, <2>3, SweepStep, RowStep
    <2>5. Chain(books.ledger[u] \o Releases(u), books.account[u].balance + Reserve * Len(Releases(u)))
      BY <2>2, <2>3, ReleasesFacts, ConcatChain DEF Chained
    <2> QED BY <2>1, <2>4, <2>5, ReleasesFacts
  <1>3. ASSUME NEW t \in Turns
        PROVE  UserOf[t] \in Users /\ t \in Refs /\ Reserve \in Int /\ -Reserve \in Int
    BY CreditsAssumption DEF Refs
  <1>4. Held \subseteq Reasons /\ Held = {"turn_hold", "turn_hold_release"}
    BY DEF Held, Reasons
  <1> QED BY <1>1, <1>2, <1>3, <1>4, WriteChained DEF Moves

\* What was entered stays, and only what was held is released.
LEMMA MovesHas ==
    ASSUME TypeOK, Holds, Moves
    PROVE  /\ \A r, x : Has(books, r, x) => Has(books', r, x)
           /\ \A t \in Turns : Has(books', "turn_hold_release", t) => Has(books', "turn_hold", t)
           /\ BooksType'
  <1>0. BooksType
    BY DEF TypeOK, BooksType
  <1>1. CASE books' = books
    BY <1>0, <1>1 DEF Holds, BooksType
  <1>2. CASE SweepRelease
    BY <1>2, SweepStep DEF Holds
  <1>3. ASSUME NEW u \in Users, NEW delta \in Int, NEW reason \in Reasons, NEW ref \in Refs,
               Wrote(u, delta, reason, ref),
               reason = "turn_hold_release" => Has(books, "turn_hold", ref)
        PROVE  /\ \A r, x : Has(books, r, x) => Has(books', r, x)
               /\ \A t \in Turns : Has(books', "turn_hold_release", t) => Has(books', "turn_hold", t)
               /\ BooksType'
    <2>1. CASE Duplicate(books, reason, ref)
      BY <1>0, <1>3, <2>1, DuplicateStep DEF Holds, BooksType
    <2>2. CASE ~ Duplicate(books, reason, ref)
      <3>1. BooksType' /\ \A r, x : Has(books', r, x) <=> Has(books, r, x) \/ (r = reason /\ x = ref)
        <4>1. Wrote(u, delta, reason, ref)
          BY <1>3
        <4> QED BY <1>0, <2>2, <4>1, WriteStep
      <3> QED BY <1>3, <3>1 DEF Holds
    <2> QED BY <2>1, <2>2
  <1>4. ASSUME NEW t \in Turns
        PROVE  UserOf[t] \in Users /\ t \in Refs /\ Reserve \in Int /\ -Reserve \in Int
    BY CreditsAssumption DEF Refs
  <1>5. Held \subseteq Reasons /\ Held = {"turn_hold", "turn_hold_release"}
    BY DEF Held, Reasons
  <1>6. \A t \in Turns : turn[t].hold => Has(books, "turn_hold", t)
    BY DEF Holds
  <1> QED BY <1>1, <1>2, <1>3, <1>4, <1>5, <1>6 DEF Moves

LEMMA GotoStep ==
    ASSUME TypeOK, NEW t \in Turns, NEW pc \in PCs, Goto(t, pc)
    PROVE  /\ turn'[t].pc = pc /\ turn'[t].hold = turn[t].hold /\ turn'[t].use = turn[t].use
           /\ \A s \in Turns \ {t} : turn'[s] = turn[s]
           /\ turn' \in [Turns -> [pc : PCs, hold : BOOLEAN, use : Usages \union {Nothing}]]
  BY DEF Goto, TypeOK

\* Steps that leave the turns alone.
Aside ==
    \/ \E t \in Turns : OpenTx(t) \/ LockTx(t) \/ TicketLapses(t)
    \/ HoldsAge \/ SweepScan \/ SweepRelease \/ SweepFails
    \/ CreateBatch \/ VoidBatch \/ BatchExpires
    \/ \E c \in Codes : VoidCode(c) \/ DeleteCode(c) \/ \E u \in Users : ReadCode(u, c)
    \/ \E u \in Users : \/ Register(u) \/ ClaimCode(u) \/ Redeem(u) \/ SpeechSettle(u)
                        \/ PeriodRolls(u) \/ SpeechRequest(u) \/ RedeemAborts(u)
                        \/ \E delta \in Deltas : Adjust(u, delta)

LEMMA AsideStep == ASSUME Aside PROVE turn' = turn
  BY DEF Aside, OpenTx, LockTx, TicketLapses, HoldsAge, SweepScan, SweepRelease, SweepFails, CreateBatch,
         VoidBatch, BatchExpires, VoidCode, DeleteCode, ReadCode, Register, ClaimCode, Redeem,
         SpeechSettle, PeriodRolls, SpeechRequest, RedeemAborts, Adjust

\* How a step moves a turn: from where to where, and with what.
Path(t, from, to) == turn[t].pc \in from /\ \E pc \in to : Goto(t, pc)

TurnMove(t) ==
    \/ StartTurn(t) /\ Path(t, {"new"}, {"hold", "count", "done"})
    \/ StartBlind(t) /\ Path(t, {"new"}, {"count"})
    \/ (CountRuns(t) \/ CountBlind(t)) /\ Path(t, {"count"}, {"hold", "done"})
    \/ AdmitTurn(t)
    \/ Dispatch(t) /\ Path(t, {"dispatch"}, {"release"})
    \/ DispatchRefused(t) /\ Path(t, {"dispatch"}, {"done"})
    \/ \E use \in Usages : FinishTurn(t, use)
    \/ SettleTurn(t) /\ Path(t, {"settle", "resettle"}, {"done", "leave"})
    \/ SettleTwice(t) /\ Path(t, {"settle"}, {"resettle"})
    \/ SettleFails(t) /\ Path(t, {"settle", "resettle"}, {"done", "leave"})
    \/ LeaveTurn(t) /\ Path(t, {"leave"}, {IF turn[t].hold THEN "release" ELSE "done"})
    \/ TicketLost(t) /\ Path(t, {"leave"}, {IF turn[t].hold THEN "release" ELSE "done"})
    \/ ReleaseTurnHold(t) /\ Path(t, {"release"}, {"queued", "done"})
    \/ Crash(t) /\ Path(t, PCs \ {"new", "done", "dead"}, {"dead"})

LEMMA TurnMoves ==
    ASSUME TypeOK, Next
    PROVE  \/ Aside
           \/ \E t \in Turns : TurnMove(t)
  <1>1. ASSUME NEW t \in Turns
        PROVE  turn[t].pc \in PCs
    BY DEF TypeOK
  <1>2. \A t \in Turns : StartTurn(t) => Path(t, {"new"}, {"hold", "count", "done"})
    BY DEF StartTurn, Path
  <1>3. \A t \in Turns : /\ StartBlind(t) => Path(t, {"new"}, {"count"})
                         /\ CountRuns(t) \/ CountBlind(t) => Path(t, {"count"}, {"hold", "done"})
    BY DEF StartBlind, CountRuns, CountBlind, Path
  <1>4. \A t \in Turns : /\ Dispatch(t) => Path(t, {"dispatch"}, {"release"})
                         /\ DispatchRefused(t) => Path(t, {"dispatch"}, {"done"})
    BY DEF Dispatch, DispatchRefused, Path
  <1>5. \A t \in Turns : /\ SettleTurn(t) => Path(t, {"settle", "resettle"}, {"done", "leave"})
                         /\ SettleTwice(t) => Path(t, {"settle"}, {"resettle"})
                         /\ SettleFails(t) => Path(t, {"settle", "resettle"}, {"done", "leave"})
    BY DEF SettleTurn, SettleTwice, SettleFails, Path
  <1>6. \A t \in Turns : LeaveTurn(t) \/ TicketLost(t)
                            => Path(t, {"leave"}, {IF turn[t].hold THEN "release" ELSE "done"})
    BY DEF LeaveTurn, TicketLost, LeaveWith, Path
  <1>7. \A t \in Turns : ReleaseTurnHold(t) => Path(t, {"release"}, {"queued", "done"})
    BY DEF ReleaseTurnHold, Path
  <1>8. \A t \in Turns : Crash(t) => Path(t, PCs \ {"new", "done", "dead"}, {"dead"})
    BY <1>1 DEF Crash, Path
  <1>9. Aside \/ \E t \in Turns :
            \/ StartTurn(t) \/ StartBlind(t) \/ CountRuns(t) \/ CountBlind(t)
            \/ AdmitTurn(t) \/ Dispatch(t) \/ DispatchRefused(t)
            \/ (\E use \in Usages : FinishTurn(t, use)) \/ SettleTurn(t) \/ SettleTwice(t) \/ SettleFails(t)
            \/ LeaveTurn(t) \/ TicketLost(t) \/ ReleaseTurnHold(t) \/ Crash(t)
    BY DEF Next, Event, TurnStep, Quiet, Aside
  <1> QED BY <1>2, <1>3, <1>4, <1>5, <1>6, <1>7, <1>8, <1>9 DEF TurnMove

\* Along a path nobody else moves and the turn keeps its hold and its usage.
LEMMA PathStep ==
    ASSUME TypeOK, NEW t \in Turns, NEW from, NEW to \in SUBSET PCs, Path(t, from, to)
    PROVE  /\ turn[t].pc \in from /\ turn'[t].pc \in to
           /\ turn'[t].hold = turn[t].hold /\ turn'[t].use = turn[t].use
           /\ \A s \in Turns \ {t} : turn'[s] = turn[s]
           /\ turn' \in [Turns -> [pc : PCs, hold : BOOLEAN, use : Usages \union {Nothing}]]
  BY GotoStep DEF Path

LEMMA FinishStep ==
    ASSUME TypeOK, NEW t \in Turns, NEW use \in Usages, FinishTurn(t, use)
    PROVE  /\ turn[t].pc \in {"run", "queued"} /\ turn'[t].pc \in {"settle", "done", "leave"}
           /\ turn'[t].hold = turn[t].hold
           /\ \A s \in Turns \ {t} : turn'[s] = turn[s]
           /\ turn' \in [Turns -> [pc : PCs, hold : BOOLEAN, use : Usages \union {Nothing}]]
  <1> DEFINE pc == IF ComputeCharge(use) > 0 THEN "settle" ELSE IF t \in Durable THEN "done" ELSE "leave"
  <1>1. turn' = [turn EXCEPT ![t].use = use, ![t].pc = pc] /\ turn[t].pc \in {"run", "queued"}
    BY DEF FinishTurn
  <1>2. pc \in {"settle", "done", "leave"} /\ pc \in PCs
    BY DEF PCs
  <1> HIDE DEF pc
  <1>3. turn[t] \in [pc : PCs, hold : BOOLEAN, use : Usages \union {Nothing}] /\ t \in DOMAIN turn
    BY DEF TypeOK
  <1>4. turn'[t] = [[turn[t] EXCEPT !.use = use] EXCEPT !.pc = pc]
    BY <1>1, <1>3
  <1>5. [turn[t] EXCEPT !.use = use] \in [pc : PCs, hold : BOOLEAN, use : Usages \union {Nothing}]
    BY <1>3
  <1>6. turn'[t] \in [pc : PCs, hold : BOOLEAN, use : Usages \union {Nothing}]
    BY <1>2, <1>4, <1>5
  <1>7. turn'[t].pc = pc /\ turn'[t].hold = turn[t].hold
    BY <1>3, <1>4, <1>5
  <1>8. \A s \in Turns \ {t} : turn'[s] = turn[s]
    BY <1>1 DEF TypeOK
  <1>9. turn' \in [Turns -> [pc : PCs, hold : BOOLEAN, use : Usages \union {Nothing}]]
    BY <1>1, <1>6, <1>8 DEF TypeOK
  <1> QED BY <1>1, <1>2, <1>7, <1>8, <1>9

LEMMA AdmitStep ==
    ASSUME TypeOK, Locks, NEW t \in Turns, AdmitTurn(t)
    PROVE  /\ turn[t].pc = "hold"
           /\ turn' \in [Turns -> [pc : PCs, hold : BOOLEAN, use : Usages \union {Nothing}]]
           /\ \A s \in Turns \ {t} : turn'[s] = turn[s]
           /\ turn'[t].pc \in {"done", "leave", "dispatch", "run"}
           /\ \/ /\ books' = books /\ turn'[t].hold = turn[t].hold /\ turn'[t].pc \in {"done", "leave"}
              \/ /\ Wrote(UserOf[t], -Reserve, "turn_hold", t) /\ turn'[t].hold
                 /\ books.account[UserOf[t]].balance >= Reserve
                 /\ turn'[t].pc \in {"dispatch", "run"}
  <1>1. CASE tx[t].row.balance < Reserve
    <2>1. \E pc \in {"done", "leave"} : Goto(t, pc)
      BY <1>1 DEF AdmitTurn
    <2>2. books' = books /\ turn[t].pc = "hold"
      BY <1>1 DEF AdmitTurn
    <2> QED BY <2>1, <2>2, GotoStep DEF PCs
  <1>2. CASE ~ (tx[t].row.balance < Reserve)
    <2>1. /\ Write(t, -Reserve, "turn_hold") /\ tx[t].st = "locked" /\ turn[t].pc = "hold"
          /\ turn' = [turn EXCEPT ![t].hold = TRUE,
                                  ![t].pc = IF t \in Durable THEN "dispatch" ELSE "run"]
      BY <1>2 DEF AdmitTurn
    <2>2. Wrote(UserOf[t], -Reserve, "turn_hold", t)
      BY <2>1, TurnWrote
    <2>3. /\ turn' \in [Turns -> [pc : PCs, hold : BOOLEAN, use : Usages \union {Nothing}]]
          /\ \A s \in Turns \ {t} : turn'[s] = turn[s]
          /\ turn'[t].hold /\ turn'[t].pc \in {"dispatch", "run"}
      <3> DEFINE pc == IF t \in Durable THEN "dispatch" ELSE "run"
                 Moment == [pc : PCs, hold : BOOLEAN, use : Usages \union {Nothing}]
      <3>1. turn \in [Turns -> Moment] /\ turn[t] \in Moment
        BY DEF TypeOK
      <3>2. turn' = [turn EXCEPT ![t].hold = TRUE, ![t].pc = pc] /\ pc \in {"dispatch", "run"} /\ pc \in PCs
        BY <2>1 DEF PCs
      <3> HIDE DEF pc
      <3>3. turn'[t] = [[turn[t] EXCEPT !.hold = TRUE] EXCEPT !.pc = pc]
        BY <3>1, <3>2
      <3>4. [turn[t] EXCEPT !.hold = TRUE] \in Moment /\ [turn[t] EXCEPT !.hold = TRUE].hold
        BY <3>1
      <3>5. turn'[t] \in Moment /\ turn'[t].hold /\ turn'[t].pc = pc
        BY <3>2, <3>3, <3>4
      <3>6. \A s \in Turns \ {t} : turn'[s] = turn[s]
        BY <3>1, <3>2
      <3>7. turn' \in [Turns -> Moment]
        BY <3>1, <3>2, <3>5, <3>6
      <3> QED BY <3>2, <3>5, <3>6, <3>7
    <2>4. books.account[UserOf[t]].balance >= Reserve
      <3>1. tx[t].row = books.account[UserOf[t]]
        BY <2>1 DEF Locks
      <3>2. books.account[UserOf[t]].balance \in Int /\ Reserve \in Int
        BY CreditsAssumption DEF TypeOK, Row
      <3> QED BY <1>2, <3>1, <3>2
    <2> QED BY <2>1, <2>2, <2>3, <2>4
  <1> QED BY <1>1, <1>2

LEMMA HoldsStep ==
    ASSUME TypeOK, Locks, Holds, Next
    PROVE  Holds'
  <1>1. /\ \A r, x : Has(books, r, x) => Has(books', r, x)
        /\ \A t \in Turns : Has(books', "turn_hold_release", t) => Has(books', "turn_hold", t)
    BY BooksMove, MovesHas
  <1>2. \A t \in todo' : Has(books', "turn_hold", t)
    <2>1. CASE SweepScan
      BY <1>1, <2>1 DEF SweepScan, Batches, OldHolds
    <2>2. CASE SweepRelease \/ SweepFails
      BY <2>2 DEF SweepRelease, SweepFails
    <2>3. CASE UNCHANGED todo
      BY <1>1, <2>3 DEF Holds
    <2>4. SweepScan \/ SweepRelease \/ SweepFails \/ UNCHANGED todo
      BY DEF Next, Event, TurnStep, Quiet, CountRuns, StartBlind, CountBlind,
             OpenTx, LockTx, Dispatch, LeaveTurn, FinishTurn,
             StartTurn, Crash, DispatchRefused, SettleFails, TicketLost, TicketLapses, LeaveWith, HoldsAge,
             CreateBatch, VoidBatch, BatchExpires, VoidCode, DeleteCode, ReadCode, PeriodRolls,
             SpeechRequest, RedeemAborts, ClaimCode, AdmitTurn, SettleTurn, SettleTwice, ReleaseTurnHold,
             Register, Redeem, Adjust, SpeechSettle, restVars
    <2> QED BY <2>1, <2>2, <2>3, <2>4
  <1>3. ASSUME NEW t \in Turns
        PROVE  /\ turn'[t].pc \in {"dispatch", "release"} => turn'[t].hold
               /\ turn'[t].hold => Has(books', "turn_hold", t)
    <2>0. /\ turn[t].pc \in {"dispatch", "release"} => turn[t].hold
          /\ turn[t].hold => Has(books', "turn_hold", t)
      BY <1>1 DEF Holds
    <2>1. CASE turn'[t] = turn[t]
      BY <2>0, <2>1
    <2>2. CASE /\ turn'[t].hold = turn[t].hold
               /\ \/ turn'[t].pc \notin {"dispatch", "release"}
                  \/ turn[t].pc = "dispatch"
                  \/ turn'[t].pc = "release" /\ turn[t].hold
      BY <2>0, <2>2
    <2>3. CASE AdmitTurn(t)
      <3>1. CASE Wrote(UserOf[t], -Reserve, "turn_hold", t)
        <4>1. Has(books', "turn_hold", t)
          <5>1. CASE Duplicate(books, "turn_hold", t)
            BY <1>1, <5>1 DEF Duplicate
          <5>2. CASE ~ Duplicate(books, "turn_hold", t)
            <6>1. UserOf[t] \in Users /\ -Reserve \in Int /\ "turn_hold" \in Reasons /\ t \in Refs
              BY CreditsAssumption DEF Reasons, Refs
            <6> QED BY <3>1, <5>2, <6>1, WriteStep DEF BooksType, TypeOK
          <5> QED BY <5>1, <5>2
        <4> QED BY <2>3, <4>1, <2>0, AdmitStep
      <3>2. CASE ~ Wrote(UserOf[t], -Reserve, "turn_hold", t)
        BY <2>0, <2>3, <3>2, AdmitStep
      <3> QED BY <3>1, <3>2
    <2>4. CASE Aside
      BY <2>1, <2>4, AsideStep
    <2>5. ASSUME NEW s \in Turns, NEW from, NEW to \in SUBSET PCs, Path(s, from, to),
                 \/ to \intersect {"dispatch", "release"} = {}
                 \/ from = {"dispatch"}
                 \/ to = {IF turn[s].hold THEN "release" ELSE "done"}
          PROVE  \/ turn'[t] = turn[t]
                 \/ /\ turn'[t].hold = turn[t].hold
                    /\ \/ turn'[t].pc \notin {"dispatch", "release"}
                       \/ turn[t].pc = "dispatch"
                       \/ turn'[t].pc = "release" /\ turn[t].hold
      BY <2>5, PathStep
    <2>6. ASSUME NEW s \in Turns, AdmitTurn(s), s # t
          PROVE  turn'[t] = turn[t]
      BY <2>6, AdmitStep
    <2>7. ASSUME NEW s \in Turns, NEW use \in Usages, FinishTurn(s, use)
          PROVE  turn'[t] = turn[t] \/ (turn'[t].hold = turn[t].hold /\ turn'[t].pc \notin {"dispatch", "release"})
      <3>1. /\ turn'[s].hold = turn[s].hold /\ turn'[s].pc \in {"settle", "done", "leave"}
            /\ \A x \in Turns \ {s} : turn'[x] = turn[x]
        BY <2>7, FinishStep
      <3>2. CASE s = t
        BY <3>1, <3>2
      <3>3. CASE s # t
        BY <3>1, <3>3
      <3> QED BY <3>2, <3>3
    <2>8. {"hold", "count", "done", "leave", "resettle", "queued", "dead", "release", "settle"} \subseteq PCs
      BY DEF PCs
    <2> QED BY <2>1, <2>2, <2>3, <2>4, <2>5, <2>6, <2>7, <2>8, TurnMoves DEF TurnMove
  <1> QED BY <1>1, <1>2, <1>3 DEF Holds

\* An account changes only under its lock, and only to the row its user's move leaves.
LEMMA OthersKept ==
    ASSUME TypeOK, NEW u \in Users, NEW delta \in Int, NEW reason \in Reasons, NEW ref \in Refs,
           Wrote(u, delta, reason, ref)
    PROVE  \A v \in Users \ {u} : books'.account[v] = books.account[v]
  <1>1. CASE Duplicate(books, reason, ref)
    BY <1>1, DuplicateStep
  <1>2. CASE ~ Duplicate(books, reason, ref)
    BY <1>2, WriteStep DEF TypeOK, BooksType
  <1> QED BY <1>1, <1>2

\* Steps that leave books and transactions alone.
Idle ==
    \/ \E s \in Turns : \/ CountRuns(s) \/ StartBlind(s) \/ CountBlind(s) \/ Dispatch(s)
                        \/ LeaveTurn(s) \/ (\E use \in Usages : FinishTurn(s, use))
                        \/ StartTurn(s) \/ DispatchRefused(s)
                        \/ TicketLost(s) \/ TicketLapses(s)
    \/ HoldsAge \/ SweepScan \/ SweepFails \/ CreateBatch \/ VoidBatch \/ BatchExpires
    \/ \E c \in Codes : VoidCode(c) \/ DeleteCode(c) \/ \E u \in Users : ReadCode(u, c)
    \/ \E u \in Users : PeriodRolls(u) \/ SpeechRequest(u) \/ RedeemAborts(u) \/ ClaimCode(u)

LEMMA IdleStep == ASSUME Idle PROVE books' = books /\ lock' = lock /\ tx' = tx
  BY DEF Idle, CountRuns, StartBlind, CountBlind,
         Dispatch, LeaveTurn, FinishTurn, StartTurn, DispatchRefused, TicketLost,
         TicketLapses, LeaveWith, HoldsAge, SweepScan, SweepFails, CreateBatch, VoidBatch, BatchExpires,
         VoidCode, DeleteCode, ReadCode, PeriodRolls, SpeechRequest, RedeemAborts, ClaimCode

LEMMA LocksStep ==
    ASSUME TypeOK, Locks, Holds, Next
    PROVE  Locks'
  <1> USE CreditsAssumption
  <1> SUFFICES ASSUME NEW t \in Turns, tx'[t].st = "locked"
               PROVE  lock'[UserOf[t]] = t /\ tx'[t].row = books'.account[UserOf[t]]
    BY DEF Locks
  <1>0. UserOf[t] \in Users /\ t # Nobody
    OBVIOUS
  <1>1. CASE tx'[t] = tx[t] /\ lock' = lock /\ books' = books
    BY <1>1 DEF Locks
  <1>2. ASSUME NEW s \in Turns, EndTx(s)
        PROVE  /\ s # t /\ tx[t].st = "locked" /\ tx'[t] = tx[t] /\ lock'[UserOf[t]] = t
               /\ tx[s].st = "locked" => UserOf[s] # UserOf[t]
    <2>1. s # t /\ tx'[t] = tx[t]
      BY <1>2 DEF EndTx, NoTx, TypeOK
    <2>2. lock[UserOf[t]] = t /\ lock'[UserOf[t]] = t
      BY <1>0, <1>2, <2>1 DEF EndTx, Locks
    <2> QED BY <2>1, <2>2 DEF Locks
  <1>3. ASSUME NEW s \in Turns, EndTx(s), NEW delta \in Int, NEW reason \in Reasons,
               tx[s].st = "locked", Write(s, delta, reason)
        PROVE  lock'[UserOf[t]] = t /\ tx'[t].row = books'.account[UserOf[t]]
    <2>1. Wrote(UserOf[s], delta, reason, s)
      BY <1>3, TurnWrote
    <2>2. UserOf[s] \in Users /\ s \in Refs
      BY DEF Refs
    <2>3. books'.account[UserOf[t]] = books.account[UserOf[t]]
      BY <1>0, <1>2, <1>3, <2>1, <2>2, OthersKept
    <2> QED BY <1>2, <1>3, <2>3 DEF Locks
  <1>4. ASSUME NEW u \in Users, NEW delta \in Int, NEW reason \in Reasons, NEW ref \in Refs,
               Post(u, delta, reason, ref), UNCHANGED <<tx, lock>>
        PROVE  lock'[UserOf[t]] = t /\ tx'[t].row = books'.account[UserOf[t]]
    <2>1. lock[UserOf[t]] = t /\ tx'[t].row = books.account[UserOf[t]]
      BY <1>4 DEF Locks
    <2>2. u # UserOf[t]
      BY <1>0, <1>4, <2>1 DEF Post
    <2> QED BY <1>0, <1>4, <2>1, <2>2, PostWrote, OthersKept
  <1>5. CASE \E s \in Turns : OpenTx(s)
    <2> PICK s \in Turns : OpenTx(s)
      BY <1>5
    <2>1. tx'[s].st = "open"
      BY DEF OpenTx, TypeOK
    <2> QED BY <1>1, <2>1 DEF OpenTx, TypeOK
  <1>6. CASE \E s \in Turns : LockTx(s)
    <2> PICK s \in Turns : LockTx(s)
      BY <1>6
    <2>1. CASE s = t
      BY <1>0, <2>1 DEF LockTx, LockedRow, TypeOK
    <2>2. CASE s # t
      <3>1. tx'[t] = tx[t] /\ lock[UserOf[t]] = t /\ books' = books
        BY <2>2 DEF LockTx, Locks, TypeOK
      <3>2. UserOf[s] # UserOf[t]
        BY <1>0, <3>1 DEF LockTx
      <3> QED BY <1>0, <3>1, <3>2 DEF LockTx, Locks, TypeOK
    <2> QED BY <2>1, <2>2
  <1>7. ASSUME NEW s \in Turns, EndTx(s), books' = books
        PROVE  lock'[UserOf[t]] = t /\ tx'[t].row = books'.account[UserOf[t]]
    BY <1>2, <1>7 DEF Locks
  <1>8. ASSUME NEW s \in Turns, AdmitTurn(s)
        PROVE  lock'[UserOf[t]] = t /\ tx'[t].row = books'.account[UserOf[t]]
    <2>1. EndTx(s) /\ tx[s].st = "locked" /\ (books' = books \/ Write(s, -Reserve, "turn_hold"))
      BY <1>8 DEF AdmitTurn
    <2> QED BY <1>3, <1>7, <2>1 DEF Reasons
  <1>9. ASSUME NEW s \in Turns, SettleTurn(s) \/ SettleTwice(s)
        PROVE  lock'[UserOf[t]] = t /\ tx'[t].row = books'.account[UserOf[t]]
    <2>1. EndTx(s) /\ tx[s].st = "locked" /\ Write(s, -ComputeCharge(turn[s].use), "usage")
      BY <1>9 DEF SettleTurn, SettleTwice
    <2>2. -ComputeCharge(turn[s].use) \in Int
      BY UseCharge
    <2> QED BY <1>3, <2>1, <2>2 DEF Reasons
  <1>10. ASSUME NEW s \in Turns, ReleaseTurnHold(s)
         PROVE  lock'[UserOf[t]] = t /\ tx'[t].row = books'.account[UserOf[t]]
    BY <1>3, <1>10 DEF ReleaseTurnHold, Reasons
  <1>11. ASSUME NEW s \in Turns, SettleFails(s) \/ Crash(s)
         PROVE  lock'[UserOf[t]] = t /\ tx'[t].row = books'.account[UserOf[t]]
    BY <1>7, <1>11 DEF SettleFails, Crash
  <1>12. ASSUME NEW u \in Users, \/ Register(u) \/ Redeem(u) \/ SpeechSettle(u)
                                 \/ \E delta \in Deltas : Adjust(u, delta)
         PROVE  lock'[UserOf[t]] = t /\ tx'[t].row = books'.account[UserOf[t]]
    <2>0. {"signup_bonus", "redeem", "usage", "admin_adjust"} \subseteq Reasons /\ u \in Refs /\ NoRef \in Refs
          /\ Codes \subseteq Refs
      BY DEF Reasons, Refs
    <2>1. CASE Register(u)
      BY <1>4, <2>0, <2>1 DEF Register
    <2>2. CASE Redeem(u)
      BY <1>4, <2>0, <2>2 DEF Redeem, TypeOK
    <2>3. CASE \E delta \in Deltas : Adjust(u, delta)
      BY <1>4, <2>0, <2>3 DEF Adjust
    <2>4. CASE SpeechSettle(u)
      <3> PICK use \in Usages : books' = books \/ Post(u, -ComputeCharge(use), "usage", NoRef)
        BY <2>4 DEF SpeechSettle
      <3>1. -ComputeCharge(use) \in Int /\ UNCHANGED <<tx, lock>>
        BY <2>4, ChargeBounded DEF SpeechSettle
      <3> QED BY <1>1, <1>4, <2>0, <3>1
    <2> QED BY <1>12, <2>1, <2>2, <2>3, <2>4
  <1>13. CASE SweepRelease
    <2>1. tx' = tx /\ lock' = lock /\ \A u \in Users : Due(u) # {} => lock[u] = Nobody
      BY <1>13 DEF SweepRelease
    <2>2. lock[UserOf[t]] = t /\ tx'[t].row = books.account[UserOf[t]]
      BY <2>1 DEF Locks
    <2>3. Due(UserOf[t]) = {}
      BY <1>0, <2>1, <2>2, DueFacts
    <2>4. Reserve * Cardinality(Due(UserOf[t])) = 0
      <3>1. Cardinality(Due(UserOf[t])) = 0 /\ Reserve \in Nat
        BY <1>0, <2>3, DueFacts
      <3>2. Reserve * 0 = 0
        BY <3>1
      <3> QED BY <3>1, <3>2
    <2>5. books'.account[UserOf[t]] = NewRow(books.account[UserOf[t]], 0, "turn_hold_release")
      BY <1>0, <1>13, <2>4, SweepStep
    <2>6. books.account[UserOf[t]] \in Row
      BY <1>0 DEF TypeOK
    <2>7. NewRow(books.account[UserOf[t]], 0, "turn_hold_release") = books.account[UserOf[t]]
      BY <2>6 DEF NewRow, Row, Counted
    <2> QED BY <2>1, <2>2, <2>5, <2>7
  <1>14. ASSUME Idle
         PROVE  lock'[UserOf[t]] = t /\ tx'[t].row = books'.account[UserOf[t]]
    BY <1>1, <1>14, IdleStep
  <1>15. CASE Aside
    <2>1. \/ Idle \/ (\E s \in Turns : OpenTx(s)) \/ (\E s \in Turns : LockTx(s)) \/ SweepRelease
          \/ \E u \in Users : \/ Register(u) \/ Redeem(u) \/ SpeechSettle(u)
                             \/ \E delta \in Deltas : Adjust(u, delta)
      BY <1>15 DEF Aside, Idle
    <2> QED BY <1>5, <1>6, <1>12, <1>13, <1>14, <2>1
  <1>16. \/ Aside \/ Idle
         \/ \E s \in Turns : \/ AdmitTurn(s) \/ SettleTurn(s) \/ SettleTwice(s) \/ ReleaseTurnHold(s)
                              \/ SettleFails(s) \/ Crash(s)
    BY TurnMoves DEF Idle, TurnMove
  <1> QED BY <1>8, <1>9, <1>10, <1>11, <1>14, <1>15, <1>16

LEMMA WriteHas ==
    ASSUME BooksType,
           NEW u \in Users, NEW delta \in Int, NEW reason \in Reasons, NEW ref \in Refs,
           Wrote(u, delta, reason, ref), ~ Duplicate(books, reason, ref)
    PROVE  \A r, x : Has(books', r, x) <=> Has(books, r, x) \/ (r = reason /\ x = ref)
  BY WriteStep

LEMMA OutStep ==
    ASSUME NEW reason, NEW ref,
           \A r, x : Has(books', r, x) <=> Has(books, r, x) \/ (r = reason /\ x = ref),
           NEW u \in Users
    PROVE  /\ reason \notin Held => Out(u)' = Out(u)
           /\ reason = "turn_hold" /\ ~ Has(books, "turn_hold", ref) /\ ref \in Turns
                /\ ~ Has(books, "turn_hold_release", ref)
                 => /\ UserOf[ref] = u => Out(u)' = Out(u) \union {ref} /\ ref \notin Out(u)
                    /\ UserOf[ref] # u => Out(u)' = Out(u)
           /\ reason = "turn_hold_release" /\ ~ Has(books, "turn_hold_release", ref) /\ ref \in Turns
                /\ Has(books, "turn_hold", ref)
                 => /\ UserOf[ref] = u => Out(u)' = Out(u) \ {ref} /\ ref \in Out(u)
                    /\ UserOf[ref] # u => Out(u)' = Out(u)
  <1>1. /\ Out(u) = {t \in Turns : UserOf[t] = u /\ Has(books, "turn_hold", t)
                                   /\ ~ Has(books, "turn_hold_release", t)}
        /\ Out(u)' = {t \in Turns : UserOf[t] = u /\ Has(books', "turn_hold", t)
                                   /\ ~ Has(books', "turn_hold_release", t)}
    BY DEF Out, HoldOut
  <1>2. CASE reason \notin Held
    BY <1>1, <1>2 DEF Held
  <1>3. CASE reason = "turn_hold"
    BY <1>1, <1>3 DEF Held
  <1>4. CASE reason = "turn_hold_release"
    BY <1>1, <1>4 DEF Held
  <1> QED BY <1>2, <1>3, <1>4 DEF Held

LEMMA WriteBalanced ==
    ASSUME TypeOK, Holds, Balanced,
           NEW u \in Users, NEW delta \in Int, NEW reason \in Reasons, NEW ref \in Refs,
           Wrote(u, delta, reason, ref),
           reason \in Held => ref \in Turns /\ UserOf[ref] = u,
           reason = "turn_hold" => delta = -Reserve,
           reason = "turn_hold_release" => delta = Reserve /\ Has(books, "turn_hold", ref)
    PROVE  Balanced'
  <1>0. CASE Duplicate(books, reason, ref)
    <2>1. books' = books
      BY <1>0, DuplicateStep
    <2> QED BY <2>1 DEF Balanced, Out
  <1> SUFFICES ASSUME ~ Duplicate(books, reason, ref), NEW v \in Users
               PROVE  LET row == books'.account[v]
                      IN row.balance = row.granted - row.consumed - Reserve * Cardinality(Out(v)')
    BY <1>0 DEF Balanced
  <1> DEFINE old == books.account[v]
             row == books'.account[v]
             n   == Cardinality(Out(v))
  <1>1. /\ books'.account[u] = NewRow(books.account[u], delta, reason)
        /\ v # u => row = old
        /\ \A r, x : Has(books', r, x) <=> Has(books, r, x) \/ (r = reason /\ x = ref)
    <2>1. BooksType
      BY DEF TypeOK, BooksType
    <2>2. \A r, x : Has(books', r, x) <=> Has(books, r, x) \/ (r = reason /\ x = ref)
      BY <2>1, WriteHas
    <2>3. /\ books'.account[u] = NewRow(books.account[u], delta, reason)
          /\ \A w \in Users \ {u} : books'.account[w] = books.account[w]
      BY <2>1, WriteStep
    <2> QED BY <2>2, <2>3
  <1>2. /\ old \in Row /\ old.balance \in Int /\ old.granted \in Int /\ old.consumed \in Int
        /\ IsFiniteSet(Out(v)) /\ n \in Nat /\ Reserve \in Nat
    <2>1. Out(v) \in SUBSET Turns
      BY DEF Out
    <2>2. IsFiniteSet(Out(v)) /\ n \in Nat /\ Reserve \in Nat
      BY <2>1, OutFacts, CreditsAssumption
    <2>3. old \in Row /\ old.balance \in Int /\ old.granted \in Int /\ old.consumed \in Int
      BY DEF TypeOK, Row
    <2> QED BY <2>2, <2>3
  <1>3. old.balance = old.granted - old.consumed - Reserve * n
    BY DEF Balanced
  <1>4. /\ Reserve * n \in Int
        /\ Reserve * (n + 1) = Reserve * n + Reserve
        /\ Reserve * (n - 1) = Reserve * n - Reserve
    BY <1>2
  <1>5. ref # NoRef /\ ref \in Turns => ~ Has(books, reason, ref)
    BY DEF Duplicate
  <1>6. \A t \in Turns : t # NoRef
    BY CreditsAssumption
  <1>7. CASE reason \notin Held
    <2>1. Out(v)' = Out(v)
      BY <1>1, <1>7, OutStep
    <2>2. CASE v = u
      <3>1. row = NewRow(old, delta, reason) /\ Counted(reason)
        BY <1>1, <1>7, <2>2 DEF Counted, Held
      <3> HIDE DEF old, row, n
      <3>2. row.balance = old.balance + delta
            /\ row.granted - row.consumed = old.granted - old.consumed + delta
            /\ row.granted \in Int /\ row.consumed \in Int
        <4>1. row \in Row
          BY <1>2, <3>1, RowStep
        <4> QED BY <1>2, <3>1, <4>1, RowStep DEF Row
      <3> QED BY <1>2, <1>3, <1>4, <2>1, <3>2 DEF n, row
    <2>3. CASE v # u
      BY <1>1, <1>3, <2>1, <2>3
    <2> QED BY <2>2, <2>3
  <1>8. CASE reason = "turn_hold"
    <2>1. ref \in Turns /\ UserOf[ref] = u /\ delta = -Reserve /\ ~ Has(books, "turn_hold", ref)
          /\ ~ Has(books, "turn_hold_release", ref)
      BY <1>5, <1>6, <1>8 DEF Held, Holds
    <2>2. CASE v = u
      <3>1. Out(v)' = Out(v) \union {ref} /\ ref \notin Out(v)
        BY <1>1, <1>8, <2>1, <2>2, OutStep
      <3>2. Cardinality(Out(v)') = n + 1
        BY <1>2, <3>1, FS_AddElement
      <3>3. row = NewRow(old, delta, reason) /\ ~ Counted(reason)
        BY <1>1, <1>8, <2>2 DEF Counted
      <3> HIDE DEF old, row, n
      <3>4. row.balance = old.balance + delta /\ row.granted = old.granted /\ row.consumed = old.consumed
        BY <1>2, <3>3, RowStep
      <3> QED BY <1>2, <1>3, <1>4, <2>1, <3>2, <3>4 DEF row
    <2>3. CASE v # u
      <3>1. Out(v)' = Out(v)
        BY <1>1, <1>8, <2>1, <2>3, OutStep
      <3> QED BY <1>1, <1>3, <2>3, <3>1
    <2> QED BY <2>2, <2>3
  <1>9. CASE reason = "turn_hold_release"
    <2>1. ref \in Turns /\ UserOf[ref] = u /\ delta = Reserve /\ Has(books, "turn_hold", ref)
          /\ ~ Has(books, "turn_hold_release", ref)
      BY <1>5, <1>6, <1>9 DEF Held
    <2>2. CASE v = u
      <3>1. Out(v)' = Out(v) \ {ref} /\ ref \in Out(v)
        BY <1>1, <1>9, <2>1, <2>2, OutStep
      <3>2. Cardinality(Out(v)') = n - 1
        BY <1>2, <3>1, FS_RemoveElement
      <3>3. row = NewRow(old, delta, reason) /\ ~ Counted(reason)
        BY <1>1, <1>9, <2>2 DEF Counted
      <3> HIDE DEF old, row, n
      <3>4. row.balance = old.balance + delta /\ row.granted = old.granted /\ row.consumed = old.consumed
        BY <1>2, <3>3, RowStep
      <3> QED BY <1>2, <1>3, <1>4, <2>1, <3>2, <3>4 DEF row
    <2>3. CASE v # u
      <3>1. Out(v)' = Out(v)
        BY <1>1, <1>9, <2>1, <2>3, OutStep
      <3> QED BY <1>1, <1>3, <2>3, <3>1
    <2> QED BY <2>2, <2>3
  <1> QED BY <1>7, <1>8, <1>9 DEF Held

LEMMA SweepBalanced ==
    ASSUME TypeOK, Holds, Balanced, SweepRelease
    PROVE  Balanced'
  <1> SUFFICES ASSUME NEW u \in Users
               PROVE  LET row == books'.account[u]
                      IN row.balance = row.granted - row.consumed - Reserve * Cardinality(Out(u)')
    BY DEF Balanced
  <1> DEFINE old == books.account[u]
             row == books'.account[u]
             n   == Cardinality(Out(u))
             m   == Cardinality(Due(u))
  <1>1. Out(u) \in SUBSET Turns /\ Due(u) \subseteq Out(u)
    BY DueFacts DEF Out, HoldOut, Holds, TypeOK
  <1>2. Out(u)' = Out(u) \ Due(u)
    <2>1. Out(u)' = {t \in Turns : UserOf[t] = u /\ Has(books', "turn_hold", t)
                                   /\ ~ Has(books', "turn_hold_release", t)}
      BY DEF Out, HoldOut
    <2>2. \A r, x : Has(books', r, x) <=> Has(books, r, x) \/ (r = "turn_hold_release" /\ x \in todo)
      BY SweepStep
    <2>3. Due(u) = {t \in todo : UserOf[t] = u /\ ~ Has(books, "turn_hold_release", t)}
      BY DueFacts
    <2> QED BY <2>1, <2>2, <2>3 DEF Out, HoldOut
  <1>3. IsFiniteSet(Out(u)) /\ n \in Nat /\ Reserve \in Nat /\ m \in Nat
    BY <1>1, OutFacts, DueFacts, CreditsAssumption
  <1>4. Cardinality(Out(u)') = n - m
    <2>1. Out(u) \intersect Due(u) = Due(u)
      BY <1>1
    <2> QED BY <1>2, <1>3, <2>1, FS_Difference
  <1>5. old \in Row /\ old.balance \in Int /\ old.granted \in Int /\ old.consumed \in Int
    BY DEF TypeOK, Row
  <1>6. row = NewRow(old, Reserve * m, "turn_hold_release") /\ ~ Counted("turn_hold_release")
    BY SweepStep DEF Counted
  <1>7. old.balance = old.granted - old.consumed - Reserve * n
    BY DEF Balanced
  <1> HIDE DEF old, row, n, m
  <1>8. Reserve * (n - m) = Reserve * n - Reserve * m /\ Reserve * n \in Int /\ Reserve * m \in Int
    BY <1>3
  <1>9. row.balance = old.balance + Reserve * m /\ row.granted = old.granted /\ row.consumed = old.consumed
    BY <1>5, <1>6, <1>8, RowStep
  <1>10. row.balance = row.granted - row.consumed - Reserve * Cardinality(Out(u)')
    BY <1>4, <1>5, <1>7, <1>8, <1>9
  <1> QED BY <1>10 DEF row

LEMMA MovesBalanced ==
    ASSUME TypeOK, Holds, Balanced, Moves
    PROVE  Balanced'
  <1>1. CASE books' = books
    BY <1>1 DEF Balanced, Out
  <1>2. CASE SweepRelease
    BY <1>2, SweepBalanced
  <1>3. CASE \E u \in Users, delta \in Int, reason \in Reasons \ Held, ref \in Refs :
                Wrote(u, delta, reason, ref)
    <2> PICK u \in Users, delta \in Int, reason \in Reasons \ Held, ref \in Refs :
             Wrote(u, delta, reason, ref)
      BY <1>3
    <2>1. reason # "turn_hold" /\ reason # "turn_hold_release" /\ reason \notin Held
      BY DEF Held
    <2> QED BY <2>1, WriteBalanced
  <1>4. ASSUME NEW t \in Turns
        PROVE  /\ UserOf[t] \in Users /\ t \in Refs /\ Reserve \in Int /\ -Reserve \in Int
               /\ "turn_hold" \in Reasons /\ "turn_hold_release" \in Reasons
    BY CreditsAssumption DEF Refs, Reasons
  <1>5. ASSUME NEW t \in Turns, Wrote(UserOf[t], -Reserve, "turn_hold", t)
        PROVE  Balanced'
    BY <1>4, <1>5, WriteBalanced
  <1>6. ASSUME NEW t \in Turns, turn[t].hold, Wrote(UserOf[t], Reserve, "turn_hold_release", t)
        PROVE  Balanced'
    BY <1>4, <1>6, WriteBalanced DEF Holds
  <1> QED BY <1>1, <1>2, <1>3, <1>5, <1>6 DEF Moves

-----------------------------------------------------------------------------
(* Types.                                                                   *)

LEMMA TypesStep ==
    ASSUME TypeOK, Locks, Holds, Next
    PROVE  TypeOK'
  <1> USE CreditsAssumption
  <1>1. BooksType'
    BY BooksMove, MovesHas
  <1>2. turn' \in [Turns -> [pc : PCs, hold : BOOLEAN, use : Usages \union {Nothing}]]
    <2>1. CASE Aside
      BY <2>1, AsideStep DEF TypeOK
    <2>2. ASSUME NEW t \in Turns, NEW from, NEW to \in SUBSET PCs, Path(t, from, to)
          PROVE  turn' \in [Turns -> [pc : PCs, hold : BOOLEAN, use : Usages \union {Nothing}]]
      BY <2>2, PathStep
    <2>3. {"hold", "count", "done", "leave", "resettle", "queued", "dead", "release", "settle"} \subseteq PCs
      BY DEF PCs
    <2> QED BY <2>1, <2>2, <2>3, TurnMoves, AdmitStep, FinishStep DEF TurnMove
  <1>3. /\ lock' \in [Users -> Turns \union {Nobody}]
        /\ tx' \in [Turns -> [st : {"none", "open", "locked"}, row : Row]]
    <2>1. CASE Idle
      BY <2>1, IdleStep DEF TypeOK
    <2>2. ASSUME NEW t \in Turns, EndTx(t)
          PROVE  <1>3
      BY <2>2 DEF EndTx, NoTx, Row, TypeOK
    <2>3. ASSUME NEW t \in Turns, OpenTx(t)
          PROVE  <1>3
      <3>1. books.account[UserOf[t]] \in Row
        BY DEF TypeOK
      <3> QED BY <2>3, <3>1 DEF OpenTx, TypeOK
    <2>4. ASSUME NEW t \in Turns, LockTx(t)
          PROVE  <1>3
      <3>1. books.account[UserOf[t]] \in Row
        BY DEF TypeOK
      <3> QED BY <2>4, <3>1 DEF LockTx, LockedRow, TypeOK
    <2>5. ASSUME \/ SweepRelease
                 \/ \E u \in Users : \/ Register(u) \/ Redeem(u) \/ SpeechSettle(u)
                                     \/ \E delta \in Deltas : Adjust(u, delta)
          PROVE  lock' = lock /\ tx' = tx
      BY <2>5 DEF SweepRelease, Register, Redeem, SpeechSettle, Adjust
    <2>6. ASSUME NEW t \in Turns,
                 \/ AdmitTurn(t) \/ SettleTurn(t) \/ SettleTwice(t) \/ ReleaseTurnHold(t)
                 \/ SettleFails(t) \/ Crash(t)
          PROVE  EndTx(t)
      BY <2>6 DEF AdmitTurn, SettleTurn, SettleTwice, ReleaseTurnHold, SettleFails, Crash
    <2>7. CASE lock' = lock /\ tx' = tx
      BY <2>7 DEF TypeOK
    <2>8. \/ Idle \/ (\E t \in Turns : OpenTx(t)) \/ (\E t \in Turns : LockTx(t)) \/ SweepRelease
          \/ \E u \in Users : \/ Register(u) \/ Redeem(u) \/ SpeechSettle(u)
                             \/ \E delta \in Deltas : Adjust(u, delta)
          \/ \E t \in Turns : \/ AdmitTurn(t) \/ SettleTurn(t) \/ SettleTwice(t) \/ ReleaseTurnHold(t)
                              \/ SettleFails(t) \/ Crash(t)
      BY DEF Next, Event, TurnStep, Quiet, Idle
    <2> QED BY <2>1, <2>2, <2>3, <2>4, <2>5, <2>6, <2>7, <2>8
  <1>4. /\ aged' \subseteq Turns /\ todo' \subseteq Turns /\ stray' \subseteq Turns
        /\ tickets' \subseteq Turns /\ lapsed' \subseteq Turns
    <2>1. CASE UNCHANGED <<aged, todo, tickets, lapsed, stray>>
      BY <2>1 DEF TypeOK
    <2>2. ASSUME NEW t \in Turns,
                 StartTurn(t) \/ CountRuns(t) \/ StartBlind(t) \/ CountBlind(t)
                 \/ LeaveTurn(t) \/ TicketLost(t) \/ TicketLapses(t)
          PROVE  <1>4
      BY <2>2 DEF StartTurn, CountRuns, StartBlind, CountBlind,
                  LeaveTurn, TicketLost, LeaveWith, TicketLapses, TicketsOf,
                  restVars, TypeOK
    <2>3. ASSUME HoldsAge \/ SweepScan \/ SweepRelease \/ SweepFails
          PROVE  <1>4
      BY <2>3 DEF HoldsAge, SweepScan, SweepRelease, SweepFails, Batches, OldHolds, quotaVars, TypeOK
    <2>4. ASSUME NEW t \in Turns,
                 \/ OpenTx(t) \/ LockTx(t) \/ AdmitTurn(t) \/ Dispatch(t) \/ SettleTurn(t)
                 \/ ReleaseTurnHold(t) \/ (\E use \in Usages : FinishTurn(t, use))
                 \/ Crash(t) \/ DispatchRefused(t) \/ SettleTwice(t) \/ SettleFails(t)
          PROVE  UNCHANGED <<aged, todo, tickets, lapsed, stray>>
      BY <2>4 DEF OpenTx, LockTx, AdmitTurn, Dispatch, SettleTurn, ReleaseTurnHold, FinishTurn, Crash,
                  DispatchRefused, SettleTwice, SettleFails, quotaVars, restVars
    <2>5. ASSUME \/ CreateBatch \/ VoidBatch \/ BatchExpires
                 \/ \E c \in Codes : VoidCode(c) \/ DeleteCode(c) \/ \E u \in Users : ReadCode(u, c)
                 \/ \E u \in Users : \/ PeriodRolls(u) \/ SpeechRequest(u) \/ RedeemAborts(u)
                                     \/ Register(u) \/ ClaimCode(u) \/ Redeem(u) \/ SpeechSettle(u)
                                     \/ \E delta \in Deltas : Adjust(u, delta)
          PROVE  UNCHANGED <<aged, todo, tickets, lapsed, stray>>
      BY <2>5 DEF CreateBatch, VoidBatch, BatchExpires, VoidCode, DeleteCode, ReadCode, PeriodRolls,
                  SpeechRequest, RedeemAborts, Register, ClaimCode, Redeem, SpeechSettle, Adjust,
                  quotaVars, restVars
    <2> QED BY <2>1, <2>2, <2>3, <2>4, <2>5 DEF Next, Event, TurnStep, Quiet
  <1>5. /\ tokens' \in [Users -> Nat] /\ drawn' \in [Users -> Nat] /\ speech' \in [Users -> BOOLEAN]
    <2>1. CASE UNCHANGED <<tokens, drawn, speech>>
      BY <2>1 DEF TypeOK
    <2>2. ASSUME NEW t \in Turns, OpenTx(t)
          PROVE  <1>5
      <3>1. turn[t].use.tokens \in Nat
        BY DEF TypeOK, Nothing
      <3>2. /\ UserOf[t] \in Users /\ tokens \in [Users -> Nat]
            /\ drawn \in [Users -> Nat] /\ speech \in [Users -> BOOLEAN]
        BY DEF TypeOK
      <3>3. drawn' = drawn /\ speech' = speech
        BY <2>2 DEF OpenTx, restVars
      <3>4. \/ tokens' = [tokens EXCEPT ![UserOf[t]] = @ + turn[t].use.tokens]
            \/ tokens' = tokens
        BY <2>2 DEF OpenTx, ChargeQuota
      <3> QED BY <3>1, <3>2, <3>3, <3>4
    <2>3. ASSUME NEW u \in Users, PeriodRolls(u) \/ SpeechRequest(u)
          PROVE  <1>5
      <3>1. CASE PeriodRolls(u)
        BY <3>1 DEF PeriodRolls, restVars, TypeOK
      <3>2. CASE SpeechRequest(u)
        BY <3>2 DEF SpeechRequest, quotaVars, TypeOK
      <3> QED BY <2>3, <3>1, <3>2
    <2>4. ASSUME NEW u \in Users, NEW delta \in Deltas, Adjust(u, delta)
          PROVE  <1>5
      <3>1. delta \in Int /\ drawn[u] \in Nat
        BY DEF TypeOK
      <3>2. drawn[u] + (IF delta < 0 THEN -delta ELSE 0) \in Nat
        BY <3>1
      <3> QED BY <2>4, <3>2 DEF Adjust, quotaVars, TypeOK
    <2>5. ASSUME NEW u \in Users, SpeechSettle(u)
          PROVE  <1>5
      <3> PICK use \in Usages : drawn' = drawn \/ drawn' = [drawn EXCEPT ![u] = @ + ComputeCharge(use)]
        BY <2>5 DEF SpeechSettle
      <3>1. drawn[u] + ComputeCharge(use) \in Nat
        BY ChargeBounded DEF TypeOK
      <3> QED BY <2>5, <3>1 DEF SpeechSettle, quotaVars, TypeOK
    <2>6. ASSUME NEW t \in Turns,
                 \/ StartTurn(t) \/ CountRuns(t) \/ StartBlind(t) \/ CountBlind(t)
                 \/ LeaveTurn(t) \/ TicketLost(t) \/ TicketLapses(t)
                 \/ LockTx(t) \/ AdmitTurn(t) \/ Dispatch(t) \/ SettleTurn(t)
                 \/ ReleaseTurnHold(t) \/ (\E use \in Usages : FinishTurn(t, use))
                 \/ Crash(t) \/ DispatchRefused(t) \/ SettleTwice(t) \/ SettleFails(t)
          PROVE  UNCHANGED <<tokens, drawn, speech>>
      BY <2>6 DEF StartTurn, CountRuns, StartBlind, CountBlind,
                  LeaveTurn, TicketLost, LeaveWith, TicketLapses,
                  LockTx, AdmitTurn, Dispatch, SettleTurn, ReleaseTurnHold, FinishTurn, Crash,
                  DispatchRefused, SettleTwice, SettleFails, quotaVars, restVars
    <2>7. ASSUME \/ HoldsAge \/ SweepScan \/ SweepRelease \/ SweepFails
                 \/ CreateBatch \/ VoidBatch \/ BatchExpires
                 \/ \E c \in Codes : VoidCode(c) \/ DeleteCode(c) \/ \E u \in Users : ReadCode(u, c)
                 \/ \E u \in Users : RedeemAborts(u) \/ Register(u) \/ ClaimCode(u) \/ Redeem(u)
          PROVE  UNCHANGED <<tokens, drawn, speech>>
      BY <2>7 DEF HoldsAge, SweepScan, SweepRelease, SweepFails, CreateBatch, VoidBatch, BatchExpires,
                  VoidCode, DeleteCode, ReadCode, RedeemAborts, Register, ClaimCode, Redeem,
                  quotaVars, restVars
    <2> QED BY <2>1, <2>2, <2>3, <2>4, <2>5, <2>6, <2>7 DEF Next, Event, TurnStep, Quiet
  <1>6. /\ code' \in [Codes -> {"none", "active", "redeemed", "void"}]
        /\ claim' \in [Codes -> Users \union {Nobody}]
        /\ clerk' \in [Users -> Codes \union {NoRef}] /\ expired' \in BOOLEAN
    <2>1. CASE UNCHANGED codeVars
      BY <2>1 DEF codeVars, TypeOK
    <2>2. ASSUME \/ CreateBatch \/ VoidBatch \/ BatchExpires
                 \/ \E c \in Codes : VoidCode(c) \/ DeleteCode(c) \/ \E u \in Users : ReadCode(u, c)
          PROVE  <1>6
      <3>1. CASE CreateBatch \/ VoidBatch \/ BatchExpires
        BY <3>1 DEF CreateBatch, VoidBatch, BatchExpires, TypeOK
      <3>2. ASSUME NEW c \in Codes, VoidCode(c) \/ DeleteCode(c)
            PROVE  <1>6
        BY <3>2 DEF VoidCode, DeleteCode, TypeOK
      <3>3. ASSUME NEW c \in Codes, NEW u \in Users, ReadCode(u, c)
            PROVE  <1>6
        BY <3>3 DEF ReadCode, TypeOK
      <3> QED BY <2>2, <3>1, <3>2, <3>3
    <2>3. ASSUME NEW u \in Users, RedeemAborts(u) \/ ClaimCode(u) \/ Redeem(u)
          PROVE  <1>6
      <3>0. clerk[u] # NoRef => clerk[u] \in Codes
        BY DEF TypeOK
      <3>1. CASE RedeemAborts(u)
        BY <3>0, <3>1 DEF RedeemAborts, TypeOK
      <3>2. CASE ClaimCode(u)
        <4>1. \/ claim' = [claim EXCEPT ![clerk[u]] = u] /\ clerk' = clerk
              \/ claim' = claim /\ clerk' = [clerk EXCEPT ![u] = NoRef]
          BY <3>2 DEF ClaimCode
        <4>2. code' = code /\ expired' = expired /\ clerk[u] \in Codes
          BY <3>0, <3>2 DEF ClaimCode
        <4>3. /\ code \in [Codes -> {"none", "active", "redeemed", "void"}]
              /\ claim \in [Codes -> Users \union {Nobody}]
              /\ clerk \in [Users -> Codes \union {NoRef}] /\ expired \in BOOLEAN
          BY DEF TypeOK
        <4>4. CASE claim' = [claim EXCEPT ![clerk[u]] = u] /\ clerk' = clerk
          BY <4>2, <4>3, <4>4
        <4>5. CASE claim' = claim /\ clerk' = [clerk EXCEPT ![u] = NoRef]
          BY <4>2, <4>3, <4>5
        <4> QED BY <4>1, <4>4, <4>5
      <3>3. CASE Redeem(u)
        BY <3>0, <3>3 DEF Redeem, TypeOK
      <3> QED BY <2>3, <3>1, <3>2, <3>3
    <2>4. ASSUME NEW t \in Turns,
                 \/ StartTurn(t) \/ CountRuns(t) \/ StartBlind(t) \/ CountBlind(t)
                 \/ LeaveTurn(t) \/ TicketLost(t) \/ TicketLapses(t)
                 \/ OpenTx(t) \/ LockTx(t) \/ AdmitTurn(t) \/ Dispatch(t) \/ SettleTurn(t)
                 \/ ReleaseTurnHold(t) \/ (\E use \in Usages : FinishTurn(t, use))
                 \/ Crash(t) \/ DispatchRefused(t) \/ SettleTwice(t) \/ SettleFails(t)
          PROVE  UNCHANGED codeVars
      BY <2>4 DEF StartTurn, CountRuns, StartBlind, CountBlind,
                  LeaveTurn, TicketLost, LeaveWith, TicketLapses, OpenTx,
                  LockTx, AdmitTurn, Dispatch, SettleTurn, ReleaseTurnHold, FinishTurn, Crash,
                  DispatchRefused, SettleTwice, SettleFails
    <2>5. ASSUME \/ HoldsAge \/ SweepScan \/ SweepRelease \/ SweepFails
                 \/ \E u \in Users : \/ PeriodRolls(u) \/ SpeechRequest(u) \/ Register(u) \/ SpeechSettle(u)
                                     \/ \E delta \in Deltas : Adjust(u, delta)
          PROVE  UNCHANGED codeVars
      BY <2>5 DEF HoldsAge, SweepScan, SweepRelease, SweepFails, PeriodRolls, SpeechRequest, Register,
                  SpeechSettle, Adjust
    <2> QED BY <2>1, <2>2, <2>3, <2>4, <2>5 DEF Next, Event, TurnStep, Quiet
  <1>7. events' \in Nat
    <2>1. events' = events \/ events' = events + 1
      BY DEF Next, Quiet
    <2> QED BY <2>1 DEF TypeOK
  <1> QED BY <1>1, <1>2, <1>3, <1>4, <1>5, <1>6, <1>7 DEF TypeOK, BooksType

-----------------------------------------------------------------------------
(* Redeem codes.                                                            *)

Paid ==
    \A c \in Codes :
       /\ (code[c] = "redeemed") <=> Has(books, "redeem", c)
       /\ claim[c] # Nobody => code[c] = "active"

\* Only a redeem request enters a grant.
LEMMA OtherEntries ==
    ASSUME TypeOK, Locks, Holds, Next, \A u \in Users : ~ Redeem(u)
    PROVE  \A c \in Codes : Has(books', "redeem", c) <=> Has(books, "redeem", c)
  <1>0. BooksType
    BY DEF TypeOK, BooksType
  <1>1. ASSUME NEW u \in Users, NEW delta \in Int, NEW reason \in Reasons \ {"redeem"}, NEW ref \in Refs,
               Wrote(u, delta, reason, ref)
        PROVE  \A c \in Codes : Has(books', "redeem", c) <=> Has(books, "redeem", c)
    <2>1. CASE Duplicate(books, reason, ref)
      BY <1>1, <2>1, DuplicateStep
    <2>2. CASE ~ Duplicate(books, reason, ref)
      <3>1. \A r, x : Has(books', r, x) <=> Has(books, r, x) \/ (r = reason /\ x = ref)
        BY <1>0, <1>1, <2>2, WriteHas
      <3> QED BY <3>1
    <2> QED BY <2>1, <2>2
  <1>2. CASE books' = books
    BY <1>2
  <1>3. CASE SweepRelease
    BY <1>3, SweepStep
  <1>4. ASSUME NEW t \in Turns
        PROVE  /\ UserOf[t] \in Users /\ t \in Refs /\ NoRef \in Refs /\ Reserve \in Int /\ -Reserve \in Int
               /\ -ComputeCharge(turn[t].use) \in Int
    BY CreditsAssumption, UseCharge DEF Refs
  <1>5. {"turn_hold", "turn_hold_release", "usage", "signup_bonus", "admin_adjust"} \subseteq Reasons \ {"redeem"}
    BY DEF Reasons
  <1>6. ASSUME NEW t \in Turns, AdmitTurn(t)
        PROVE  books' = books \/ Wrote(UserOf[t], -Reserve, "turn_hold", t)
    BY <1>6, AdmitStep
  <1>7. ASSUME NEW t \in Turns, SettleTurn(t) \/ SettleTwice(t)
        PROVE  Wrote(UserOf[t], -ComputeCharge(turn[t].use), "usage", t)
    BY <1>7, TurnWrote DEF SettleTurn, SettleTwice
  <1>8. ASSUME NEW t \in Turns, ReleaseTurnHold(t)
        PROVE  Wrote(UserOf[t], Reserve, "turn_hold_release", t)
    BY <1>8, TurnWrote DEF ReleaseTurnHold
  <1>9. ASSUME NEW u \in Users, \/ Register(u) \/ SpeechSettle(u) \/ \E delta \in Deltas : Adjust(u, delta)
        PROVE  books' = books \/ \E delta \in Int, reason \in Reasons \ {"redeem"}, ref \in Refs :
                                    Wrote(u, delta, reason, ref)
    <2>0. u \in Refs /\ NoRef \in Refs
      BY DEF Refs
    <2>1. CASE Register(u)
      BY <1>5, <2>0, <2>1, PostWrote, CreditsAssumption DEF Register
    <2>2. CASE SpeechSettle(u)
      <3> PICK use \in Usages : books' = books \/ Post(u, -ComputeCharge(use), "usage", NoRef)
        BY <2>2 DEF SpeechSettle
      <3>1. -ComputeCharge(use) \in Int
        BY ChargeBounded, CreditsAssumption
      <3> QED BY <1>5, <2>0, <3>1, PostWrote
    <2>3. CASE \E delta \in Deltas : Adjust(u, delta)
      BY <1>5, <2>0, <2>3, PostWrote, CreditsAssumption DEF Adjust
    <2> QED BY <1>9, <2>1, <2>2, <2>3
  <1>10. \/ Idle \/ (\E t \in Turns : OpenTx(t)) \/ (\E t \in Turns : LockTx(t)) \/ SweepRelease
         \/ \E u \in Users : \/ Register(u) \/ SpeechSettle(u)
                             \/ \E delta \in Deltas : Adjust(u, delta)
         \/ \E t \in Turns : \/ AdmitTurn(t) \/ SettleTurn(t) \/ SettleTwice(t) \/ ReleaseTurnHold(t)
                             \/ SettleFails(t) \/ Crash(t)
    BY DEF Next, Event, TurnStep, Quiet, Idle
  <1>11. ASSUME NEW t \in Turns, OpenTx(t) \/ LockTx(t) \/ SettleFails(t) \/ Crash(t)
         PROVE  books' = books
    BY <1>11 DEF OpenTx, LockTx, SettleFails, Crash
  <1> QED BY <1>1, <1>2, <1>3, <1>4, <1>5, <1>6, <1>7, <1>8, <1>9, <1>10, <1>11, IdleStep

LEMMA PaidStep ==
    ASSUME TypeOK, Locks, Holds, Paid, Next
    PROVE  Paid'
  <1> USE CreditsAssumption
  <1>1. ASSUME NEW u \in Users, Redeem(u)
        PROVE  Paid'
    <2> DEFINE c == clerk[u]
    <2>1. /\ c \in Codes /\ claim[c] = u /\ Wrote(u, CodeValue, "redeem", c)
          /\ code' = [code EXCEPT ![c] = "redeemed"] /\ claim' = [claim EXCEPT ![c] = Nobody]
      BY <1>1, PostWrote DEF Redeem, TypeOK
    <2>2. code[c] = "active" /\ ~ Has(books, "redeem", c)
      BY <2>1 DEF Paid
    <2>3. BooksType /\ "redeem" \in Reasons /\ c \in Refs /\ CodeValue \in Int
      BY <2>1 DEF TypeOK, BooksType, Reasons, Refs
    <2>4. ~ Duplicate(books, "redeem", c)
      BY <2>2 DEF Duplicate
    <2>5. \A r, x : Has(books', r, x) <=> Has(books, r, x) \/ (r = "redeem" /\ x = c)
      BY <2>1, <2>3, <2>4, WriteHas
    <2> HIDE DEF c
    <2> QED BY <2>1, <2>5 DEF Paid, TypeOK
  <1>2. CASE \A u \in Users : ~ Redeem(u)
    <2>0. \A c \in Codes : Has(books', "redeem", c) <=> Has(books, "redeem", c)
      BY <1>2, OtherEntries
    <2>1. CASE code' = code /\ claim' = claim
      BY <2>0, <2>1 DEF Paid
    <2>2. CASE CreateBatch
      BY <2>0, <2>2 DEF CreateBatch, Paid, TypeOK
    <2>3. CASE VoidBatch
      BY <2>0, <2>3 DEF VoidBatch, Paid, TypeOK
    <2>4. ASSUME NEW c \in Codes, VoidCode(c) \/ DeleteCode(c)
          PROVE  Paid'
      BY <2>0, <2>4 DEF VoidCode, DeleteCode, Paid, TypeOK
    <2>5. ASSUME NEW u \in Users, RedeemAborts(u)
          PROVE  Paid'
      BY <2>0, <2>5 DEF RedeemAborts, Paid, TypeOK
    <2>6. ASSUME NEW u \in Users, ClaimCode(u)
          PROVE  Paid'
      <3>1. code' = code /\ clerk[u] \in Codes
        BY <2>6 DEF ClaimCode, TypeOK
      <3>2. \/ claim' = claim
            \/ claim' = [claim EXCEPT ![clerk[u]] = u] /\ code[clerk[u]] = "active"
        BY <2>6 DEF ClaimCode, StillActive
      <3> QED BY <2>0, <3>1, <3>2 DEF Paid, TypeOK
    <2>7. ASSUME NEW t \in Turns,
                 \/ StartTurn(t) \/ CountRuns(t) \/ StartBlind(t) \/ CountBlind(t)
                 \/ LeaveTurn(t) \/ TicketLost(t) \/ TicketLapses(t)
                 \/ OpenTx(t) \/ LockTx(t) \/ AdmitTurn(t) \/ Dispatch(t) \/ SettleTurn(t)
                 \/ ReleaseTurnHold(t) \/ (\E use \in Usages : FinishTurn(t, use))
                 \/ Crash(t) \/ DispatchRefused(t) \/ SettleTwice(t) \/ SettleFails(t)
          PROVE  code' = code /\ claim' = claim
      BY <2>7 DEF StartTurn, CountRuns, StartBlind, CountBlind,
                  LeaveTurn, TicketLost, LeaveWith, TicketLapses, OpenTx,
                  LockTx, AdmitTurn, Dispatch, SettleTurn, ReleaseTurnHold, FinishTurn, Crash,
                  DispatchRefused, SettleTwice, SettleFails, codeVars
    <2>8. ASSUME \/ HoldsAge \/ SweepScan \/ SweepRelease \/ SweepFails \/ BatchExpires
                 \/ \E c \in Codes, u \in Users : ReadCode(u, c)
                 \/ \E u \in Users : \/ PeriodRolls(u) \/ SpeechRequest(u) \/ Register(u) \/ SpeechSettle(u)
                                     \/ \E delta \in Deltas : Adjust(u, delta)
          PROVE  code' = code /\ claim' = claim
      BY <2>8 DEF HoldsAge, SweepScan, SweepRelease, SweepFails, BatchExpires, ReadCode, PeriodRolls,
                  SpeechRequest, Register, SpeechSettle, Adjust, codeVars
    <2> QED BY <1>2, <2>1, <2>2, <2>3, <2>4, <2>5, <2>6, <2>7, <2>8 DEF Next, Event, TurnStep, Quiet
  <1> QED BY <1>1, <1>2

LEMMA PaidOnce == ASSUME TypeOK, Paid PROVE CodesPayOnce
  <1> SUFFICES ASSUME NEW c \in Codes
               PROVE  Cardinality({u \in Users : clerk[u] = c /\ claim[c] = u}) <= 1
    BY DEF Paid, CodesPayOnce
  <1> DEFINE s == {u \in Users : clerk[u] = c /\ claim[c] = u}
  <1>1. s \in SUBSET {claim[c]}
    OBVIOUS
  <1>2. IsFiniteSet({claim[c]}) /\ Cardinality({claim[c]}) = 1
    BY FS_Singleton
  <1> QED BY <1>1, <1>2, FS_Subset

-----------------------------------------------------------------------------
(* What a user of inline turns may owe.                                     *)

Live    == Running \union {"count"}
Owing   == {"run", "settle"}

Admitted(u)   == {t \in Turns \ Durable : UserOf[t] = u /\ turn[t].pc \in Running}
Chargeable(u) == {t \in Turns \ Durable : UserOf[t] = u /\ turn[t].pc \in Owing}
Inline(u)     == \A t \in Durable : UserOf[t] = u => turn[t].pc = "new"

\* The turns that were admitted beside the limit, and what they add to it.
Cap(u)    == MaxRuns + Cardinality(TicketsOf(stray, u))
Steady(u) == Admitted(u) \ stray

\* A live inline turn that is not stray holds a ticket that has not lapsed, so
\* MaxRuns of them were admitted.
Ticketed ==
    /\ \A t \in Turns \ Durable : turn[t].pc # "queued"
    /\ \A t \in Turns \ Durable : turn[t].pc \in Live => t \in (tickets \ lapsed) \union stray
    /\ \A t \in Turns : turn[t].pc = "new" => t \notin lapsed
    /\ \A u \in Users : Cardinality(Steady(u)) <= MaxRuns

\* A second settlement finds the entry of the first, and what is left of Cap
\* charges covers the turns that are still to be charged.
Covered ==
    /\ \A t \in Turns : turn[t].pc = "resettle" => Has(books, "usage", t)
    /\ \A u \in Users : Inline(u) =>
          books.account[u].balance + drawn[u] + (Cap(u) - Cardinality(Chargeable(u))) * MaxCharge >= 0

LEMMA PcMoves ==
    ASSUME TypeOK, Locks, Next, NEW t \in Turns
    PROVE  /\ turn'[t].pc = "new" => turn[t].pc = "new"
           /\ turn'[t].pc = "resettle" => turn[t].pc = "resettle" \/ SettleTwice(t)
           /\ t \notin Durable =>
                /\ turn'[t].pc = "queued" => turn[t].pc = "queued"
                /\ turn'[t].pc \in Live => \/ turn[t].pc \in Live
                                           \/ (StartTurn(t) \/ StartBlind(t)) /\ turn[t].pc = "new"
                                           \/ turn[t].pc = "queued"
                /\ turn'[t].pc \in Running => \/ turn[t].pc \in Running \/ CountRuns(t) \/ CountBlind(t)
                                              \/ turn[t].pc = "queued"
                /\ turn'[t].pc \in Owing => \/ turn[t].pc \in Owing \/ AdmitTurn(t)
                                            \/ turn[t].pc = "queued"
  <1> DEFINE Goal ==
        /\ turn'[t].pc = "new" => turn[t].pc = "new"
        /\ turn'[t].pc = "resettle" => turn[t].pc = "resettle" \/ SettleTwice(t)
        /\ t \notin Durable =>
             /\ turn'[t].pc = "queued" => turn[t].pc = "queued"
             /\ turn'[t].pc \in Live => \/ turn[t].pc \in Live
                                        \/ (StartTurn(t) \/ StartBlind(t)) /\ turn[t].pc = "new"
                                        \/ turn[t].pc = "queued"
             /\ turn'[t].pc \in Running => \/ turn[t].pc \in Running \/ CountRuns(t) \/ CountBlind(t)
                                           \/ turn[t].pc = "queued"
             /\ turn'[t].pc \in Owing => \/ turn[t].pc \in Owing \/ AdmitTurn(t)
                                         \/ turn[t].pc = "queued"
  <1>0. {"hold", "count", "done", "leave", "resettle", "queued", "dead", "release", "settle"} \subseteq PCs
    BY DEF PCs
  <1>1. CASE turn'[t] = turn[t]
    BY <1>1
  <1>2. CASE Aside
    BY <1>1, <1>2, AsideStep
  <1>3. ASSUME NEW s \in Turns, s # t, NEW from, NEW to \in SUBSET PCs, Path(s, from, to)
        PROVE  turn'[t] = turn[t]
    BY <1>3, PathStep
  <1>4. ASSUME NEW s \in Turns, s # t, AdmitTurn(s) \/ \E use \in Usages : FinishTurn(s, use)
        PROVE  turn'[t] = turn[t]
    BY <1>4, AdmitStep, FinishStep
  <1>5. CASE StartTurn(t)
    <2>1. Path(t, {"new"}, {"hold", "count", "done"}) /\ (t \notin Durable => Path(t, {"new"}, {"count", "done"}))
      BY <1>5 DEF StartTurn, Path
    <2>2. turn[t].pc = "new" /\ turn'[t].pc \in {"hold", "count", "done"}
          /\ (t \notin Durable => turn'[t].pc \in {"count", "done"})
      BY <1>0, <2>1, PathStep
    <2> QED BY <1>5, <2>2 DEF Live, Running, Owing
  <1>5a. ASSUME Path(t, {"new"}, {"count"}), StartBlind(t)
         PROVE  Goal
    <2>1. turn[t].pc = "new" /\ turn'[t].pc = "count"
      BY <1>0, <1>5a, PathStep
    <2> QED BY <1>5a, <2>1 DEF Live, Running, Owing
  <1>6. ASSUME Path(t, {"count"}, {"hold", "done"}), CountRuns(t) \/ CountBlind(t)
        PROVE  Goal
    <2>1. turn[t].pc = "count" /\ turn'[t].pc \in {"hold", "done"}
      BY <1>0, <1>6, PathStep
    <2> QED BY <1>6, <2>1 DEF Live, Running, Owing
  <1>7. CASE AdmitTurn(t)
    <2>1. turn[t].pc = "hold" /\ turn'[t].pc \in {"done", "leave", "dispatch", "run"}
      BY <1>7, AdmitStep
    <2> QED BY <1>7, <2>1 DEF Live, Running, Owing
  <1>8. ASSUME NEW use \in Usages, FinishTurn(t, use)
        PROVE  Goal
    <2>1. turn[t].pc \in {"run", "queued"} /\ turn'[t].pc \in {"settle", "done", "leave"}
      BY <1>8, FinishStep
    <2> QED BY <2>1 DEF Live, Running, Owing
  <1>9. ASSUME \/ Path(t, {"dispatch"}, {"release"})
               \/ Path(t, {"dispatch"}, {"done"})
               \/ Path(t, {"settle", "resettle"}, {"done", "leave"})
               \/ Path(t, {"leave"}, {IF turn[t].hold THEN "release" ELSE "done"})
               \/ Path(t, PCs \ {"new", "done", "dead"}, {"dead"})
        PROVE  Goal
    <2>1. \/ turn[t].pc \in {"settle", "resettle"} /\ turn'[t].pc = "leave"
          \/ turn'[t].pc \in {"release", "done", "dead"}
      BY <1>0, <1>9, PathStep
    <2> QED BY <2>1 DEF Live, Running, Owing
  <1>10. ASSUME SettleTwice(t), Path(t, {"settle"}, {"resettle"})
         PROVE  Goal
    <2>1. turn[t].pc = "settle" /\ turn'[t].pc = "resettle"
      BY <1>0, <1>10, PathStep
    <2> QED BY <1>10, <2>1 DEF Live, Running, Owing
  <1>11. CASE ReleaseTurnHold(t)
    <2>1. Path(t, {"release"}, {IF t \in Durable THEN "queued" ELSE "done"})
      BY <1>11 DEF ReleaseTurnHold, Path
    <2>2. turn'[t].pc = IF t \in Durable THEN "queued" ELSE "done"
      BY <1>0, <2>1, PathStep
    <2> QED BY <2>2 DEF Live, Running, Owing
  <1>12. Goal
    <2>1. CASE \E s \in Turns \ {t} : TurnMove(s)
      <3>1. turn'[t] = turn[t]
        BY <1>0, <1>3, <1>4, <2>1 DEF TurnMove
      <3> QED BY <1>1, <3>1
    <2>2. CASE ~ Aside /\ ~ \E s \in Turns \ {t} : TurnMove(s)
      BY <1>5, <1>5a, <1>6, <1>7, <1>8, <1>9, <1>10, <1>11, <2>2, TurnMoves DEF TurnMove
    <2> QED BY <1>2, <2>1, <2>2
  <1> QED BY <1>12

LEMMA StrayGrows == ASSUME Next PROVE stray \subseteq stray'
  BY DEF Next, Event, TurnStep, Quiet, CountRuns, StartBlind, CountBlind, OpenTx, LockTx, Dispatch,
         LeaveTurn, FinishTurn, StartTurn, Crash, DispatchRefused, SettleFails, TicketLost, TicketLapses,
         LeaveWith, HoldsAge, SweepScan, SweepFails, SweepRelease, CreateBatch, VoidBatch, BatchExpires,
         VoidCode, DeleteCode, ReadCode, PeriodRolls, SpeechRequest, RedeemAborts, ClaimCode, AdmitTurn,
         SettleTurn, SettleTwice, ReleaseTurnHold, Register, Redeem, Adjust, SpeechSettle, quotaVars

\* The steps that touch the tickets or their deadlines.
LEMMA TicketMoves ==
    ASSUME Next
    PROVE  \/ UNCHANGED <<tickets, lapsed>>
           \/ \E s \in Turns : \/ StartTurn(s) \/ StartBlind(s) \/ CountRuns(s) \/ CountBlind(s)
                               \/ LeaveTurn(s) \/ TicketLost(s) \/ TicketLapses(s)
  BY DEF Next, Event, TurnStep, Quiet, OpenTx, LockTx, Dispatch, FinishTurn,
         Crash, DispatchRefused, SettleFails, HoldsAge,
         SweepScan, SweepFails, SweepRelease, CreateBatch, VoidBatch, BatchExpires, VoidCode, DeleteCode,
         ReadCode, PeriodRolls, SpeechRequest, RedeemAborts, ClaimCode, AdmitTurn, SettleTurn,
         SettleTwice, ReleaseTurnHold, Register, Redeem, Adjust, SpeechSettle, quotaVars

LEMMA TicketedStep ==
    ASSUME TypeOK, Locks, Ticketed, Next
    PROVE  Ticketed'
  <1> USE CreditsAssumption
  <1>1. ASSUME NEW t \in Turns \ Durable
        PROVE  turn'[t].pc # "queued"
    BY PcMoves DEF Ticketed
  <1>2. ASSUME NEW t \in Turns
        PROVE  turn'[t].pc = "new" => t \notin lapsed'
    <2>1. lapsed' \subseteq lapsed \/ \E s \in Turns : TicketLapses(s)
      BY TicketMoves DEF StartTurn, StartBlind, CountRuns, CountBlind, LeaveTurn, TicketLost, LeaveWith
    <2>2. CASE lapsed' \subseteq lapsed
      BY <2>2, PcMoves DEF Ticketed
    <2>3. ASSUME NEW s \in Turns, TicketLapses(s)
          PROVE  turn'[t].pc = "new" => t \notin lapsed'
      BY <2>3 DEF TicketLapses, Ticketed
    <2> QED BY <2>1, <2>2, <2>3
  <1>3. ASSUME NEW t \in Turns \ Durable, turn'[t].pc \in Live, t \notin stray'
        PROVE  t \in tickets' \ lapsed'
    <2>0. t \notin stray
      BY <1>3, StrayGrows
    <2>1. \/ (StartTurn(t) \/ StartBlind(t)) /\ turn[t].pc = "new"
          \/ t \in tickets \ lapsed
      BY <1>3, <2>0, PcMoves DEF Ticketed
    <2>2. CASE UNCHANGED <<tickets, lapsed>> /\ t \in tickets \ lapsed
      BY <2>2
    <2>3. ASSUME NEW s \in Turns, StartTurn(s) \/ StartBlind(s)
          PROVE  t \in tickets' \ lapsed'
      <3>1. lapsed' = lapsed /\ tickets \subseteq tickets'
        BY <2>3 DEF StartTurn, StartBlind
      <3>2. CASE t \in tickets \ lapsed
        BY <3>1, <3>2
      <3>3. CASE StartTurn(t) /\ turn[t].pc = "new"
        <4>1. t \notin lapsed
          BY <3>3 DEF Ticketed
        <4>2. Path(t, {"new"}, {"done"}) \/ t \in tickets'
          BY <3>3 DEF StartTurn, Path
        <4>3. turn'[t].pc # "done"
          BY <1>3 DEF Live, Running
        <4>4. {"done"} \subseteq PCs
          BY DEF PCs
        <4> QED BY <3>1, <4>1, <4>2, <4>3, <4>4, PathStep
      <3>4. CASE StartBlind(t) /\ turn[t].pc = "new"
        BY <1>3, <3>1, <3>4 DEF StartBlind, Ticketed
      <3> QED BY <2>1, <3>2, <3>3, <3>4
    <2>4. ASSUME NEW s \in Turns, CountRuns(s), t \in tickets \ lapsed
          PROVE  t \in tickets' \ lapsed'
      <3> DEFINE left == tickets \ TicketsOf(lapsed, UserOf[s])
      <3>1. lapsed' \subseteq lapsed /\ t \in left
        BY <2>4 DEF CountRuns, TicketsOf
      <3>2. tickets' = tickets \/ tickets' = left \/ (tickets' = left \ {s} /\ Goto(s, "done"))
        BY <2>4 DEF CountRuns
      <3>3. Goto(s, "done") => s # t
        <4>1. Goto(s, "done") => turn'[s].pc = "done"
          BY GotoStep DEF PCs
        <4> QED BY <1>3, <4>1 DEF Live, Running
      <3> HIDE DEF left
      <3> QED BY <2>4, <3>1, <3>2, <3>3
    <2>5. ASSUME NEW s \in Turns, CountBlind(s), t \in tickets \ lapsed
          PROVE  t \in tickets' \ lapsed'
      <3>1. s # t
        <4>1. Goto(s, "done") => turn'[s].pc = "done"
          BY GotoStep DEF PCs
        <4> QED BY <1>3, <2>5, <4>1 DEF CountBlind, Live, Running
      <3>2. PICK kept \in {tickets, tickets \ TicketsOf(lapsed, UserOf[s])} :
               tickets' = kept \/ tickets' \in {kept, kept \ {s}}
        BY <2>5 DEF CountBlind
      <3>3. t \in tickets'
        BY <2>5, <3>1, <3>2 DEF TicketsOf
      <3> QED BY <2>5, <3>3 DEF CountBlind
    <2>6. ASSUME NEW s \in Turns, LeaveTurn(s) \/ TicketLost(s), t \in tickets \ lapsed
          PROVE  t \in tickets' \ lapsed'
      <3>1. Path(s, {"leave"}, {"release", "done"})
        BY <2>6 DEF LeaveTurn, TicketLost, LeaveWith, Path
      <3>2. {"release", "done"} \subseteq PCs
        BY DEF PCs
      <3>3. s # t
        BY <1>3, <3>1, <3>2, PathStep DEF Live, Running
      <3> QED BY <2>6, <3>3 DEF LeaveTurn, TicketLost, LeaveWith
    <2>7. ASSUME NEW s \in Turns, TicketLapses(s), t \in tickets \ lapsed
          PROVE  t \in tickets' \ lapsed'
      BY <1>3, <2>7 DEF TicketLapses, Live
    <2> QED BY <2>1, <2>2, <2>3, <2>4, <2>5, <2>6, <2>7, TicketMoves
  <1>4. ASSUME NEW u \in Users
        PROVE  Cardinality(Steady(u)') <= MaxRuns
    <2>1. Steady(u) \in SUBSET Turns /\ Steady(u)' \in SUBSET Turns
      BY DEF Steady, Admitted
    <2>2. /\ IsFiniteSet(Steady(u)) /\ Cardinality(Steady(u)) \in Nat
          /\ Cardinality(Steady(u)) <= MaxRuns
      BY <2>1, OutFacts DEF Ticketed
    <2>3. CASE Steady(u)' \subseteq Steady(u)
      <3>1. Cardinality(Steady(u)') <= Cardinality(Steady(u)) /\ Cardinality(Steady(u)') \in Nat
        BY <2>1, <2>2, <2>3, FS_Subset, OutFacts
      <3> QED BY <2>2, <3>1
    <2>4. CASE ~ (Steady(u)' \subseteq Steady(u))
      <3> PICK t \in Turns \ Durable : /\ UserOf[t] = u /\ turn'[t].pc \in Running /\ t \notin stray'
                                       /\ CountRuns(t) \/ CountBlind(t)
        BY <2>4, PcMoves, StrayGrows DEF Steady, Admitted, Ticketed
      <3>0. Goto(t, "done") => turn'[t].pc = "done"
        BY GotoStep DEF PCs
      <3>1. CountRuns(t)
        BY <3>0 DEF CountBlind, Running
      <3>2. Goto(t, "hold") /\ Cardinality(TicketsOf(tickets', u)) <= MaxRuns
        <4>2. turn'[t].pc # "done"
          BY DEF Running
        <4> QED BY <3>0, <3>1, <4>2 DEF CountRuns, WithinLimit
      <3>3. Steady(u)' \subseteq TicketsOf(tickets', u)
        BY <1>3 DEF Steady, Admitted, Live, TicketsOf
      <3>4. TicketsOf(tickets', u) \in SUBSET Turns
        BY <3>1 DEF TicketsOf, CountRuns, TypeOK
      <3>5. /\ Cardinality(Steady(u)') <= Cardinality(TicketsOf(tickets', u))
            /\ Cardinality(Steady(u)') \in Nat /\ Cardinality(TicketsOf(tickets', u)) \in Nat
        BY <2>1, <3>3, <3>4, OutFacts, FS_Subset
      <3> QED BY <3>2, <3>5
    <2> QED BY <2>3, <2>4
  <1> QED BY <1>1, <1>2, <1>3, <1>4 DEF Ticketed

\* What a user's money and charges still to come add up to.
Cover(u) == books.account[u].balance + drawn[u] + (Cap(u) - Cardinality(Chargeable(u))) * MaxCharge

LEMMA FewerAdmitted ==
    ASSUME NEW steady \in SUBSET Turns, Cardinality(steady) <= MaxRuns, NEW extra \in SUBSET Turns,
           NEW c \in SUBSET (steady \union extra)
    PROVE  /\ IsFiniteSet(c) /\ Cardinality(c) \in 0..(MaxRuns + Cardinality(extra))
           /\ MaxRuns + Cardinality(extra) \in Nat
  <1>1. /\ Cardinality(steady) \in Nat /\ IsFiniteSet(steady)
        /\ Cardinality(extra) \in Nat /\ IsFiniteSet(extra)
        /\ Cardinality(c) \in Nat /\ IsFiniteSet(c)
        /\ Cardinality(steady \intersect extra) \in Nat
    BY OutFacts
  <1>2. /\ Cardinality(steady \union extra) = Cardinality(steady) + Cardinality(extra)
                                               - Cardinality(steady \intersect extra)
        /\ IsFiniteSet(steady \union extra)
    BY <1>1, FS_Union
  <1>3. Cardinality(c) <= Cardinality(steady \union extra)
    BY <1>2, FS_Subset
  <1> QED BY <1>1, <1>2, <1>3, CreditsAssumption

LEMMA ChargeableFacts ==
    ASSUME TypeOK, Ticketed, NEW u \in Users
    PROVE  /\ IsFiniteSet(Chargeable(u)) /\ Cardinality(Chargeable(u)) \in 0..Cap(u)
           /\ Chargeable(u) \in SUBSET Turns /\ Cap(u) \in Nat
  <1>1. /\ Steady(u) \in SUBSET Turns /\ TicketsOf(stray, u) \in SUBSET Turns
        /\ Chargeable(u) \in SUBSET (Steady(u) \union TicketsOf(stray, u))
        /\ Chargeable(u) \in SUBSET Turns
    BY DEF Chargeable, Steady, Admitted, Owing, Running, TicketsOf, TypeOK
  <1> QED BY <1>1, FewerAdmitted DEF Ticketed, Cap

\* Fewer chargeable turns need less.
LEMMA FewerCovered ==
    ASSUME NEW a \in Int, NEW b \in Int, NEW k \in Nat, NEW l \in Nat, NEW n \in 0..k, NEW m \in 0..l,
           m <= n, k <= l, a <= b, a + (k - n) * MaxCharge >= 0
    PROVE  b + (l - m) * MaxCharge >= 0
  <1>1. MaxCharge \in Nat
    BY CreditsAssumption
  <1>2. (l - m) * MaxCharge = (k - n) * MaxCharge + (l - k) * MaxCharge + (n - m) * MaxCharge
    BY <1>1
  <1>3. (n - m) * MaxCharge \in Nat /\ (l - k) * MaxCharge \in Nat
    <2>1. n - m \in Nat /\ l - k \in Nat
      OBVIOUS
    <2> QED BY <1>1, <2>1
  <1>4. (k - n) * MaxCharge \in Int
    BY <1>1
  <1> QED BY <1>2, <1>3, <1>4

\* The row that an entry leaves.
LEMMA WroteRow ==
    ASSUME TypeOK, NEW u \in Users, NEW delta \in Int, NEW reason \in Reasons, NEW ref \in Refs,
           Wrote(u, delta, reason, ref)
    PROVE  \/ books' = books /\ ref # NoRef /\ Has(books, reason, ref)
           \/ /\ books'.account[u].balance = books.account[u].balance + delta
              /\ Has(books', reason, ref)
  <1>1. CASE Duplicate(books, reason, ref)
    BY <1>1, DuplicateStep DEF Duplicate
  <1>2. CASE ~ Duplicate(books, reason, ref)
    <2>1. BooksType /\ books.account[u] \in Row
      BY DEF TypeOK, BooksType
    <2>2. /\ books'.account[u] = NewRow(books.account[u], delta, reason)
          /\ \A r, x : Has(books', r, x) <=> Has(books, r, x) \/ (r = reason /\ x = ref)
      BY <1>2, <2>1, WriteStep
    <2> QED BY <2>1, <2>2, RowStep
  <1> QED BY <1>1, <1>2

Money(u) == books.account[u].balance + drawn[u]

LEMMA MoneyType == ASSUME TypeOK, NEW u \in Users
                   PROVE  books.account[u].balance \in Int /\ drawn[u] \in Nat /\ Money(u) \in Int
  BY DEF TypeOK, Row, Money

\* Only admissions and settlements of the user's own turns take money that is
\* not counted as drawn.
LEMMA MoneyKept ==
    ASSUME TypeOK, Locks, Holds, Next, TypeOK', NEW u \in Users,
           \A t \in Turns : UserOf[t] = u => /\ ~ SettleTurn(t) /\ ~ SettleTwice(t)
                                             /\ AdmitTurn(t) => books' = books
    PROVE  Money(u)' >= Money(u)
  <1> USE CreditsAssumption
  <1> DEFINE old == books.account[u].balance
             new == books'.account[u].balance
  <1>0. old \in Int /\ new \in Int /\ drawn[u] \in Nat /\ drawn'[u] \in Nat /\ Money(u) = old + drawn[u]
        /\ Money(u)' = new + drawn'[u]
    BY DEF TypeOK, Row, Money
  <1>1. CASE new >= old /\ drawn'[u] = drawn[u]
    <2> HIDE DEF old, new
    <2> QED BY <1>0, <1>1
  <1>2. ASSUME NEW v \in Users, v # u, NEW delta \in Int, NEW reason \in Reasons, NEW ref \in Refs,
               Wrote(v, delta, reason, ref)
        PROVE  new = old
    BY <1>2, OthersKept
  <1>3. ASSUME NEW delta \in Nat, NEW reason \in Reasons, NEW ref \in Refs, NEW v \in Users,
               Wrote(v, delta, reason, ref)
        PROVE  new >= old
    <2>1. delta \in Int
      OBVIOUS
    <2>2. CASE v = u
      <3>1. new = old \/ new = old + delta
        BY <1>3, <2>1, <2>2, WroteRow
      <3> HIDE DEF old, new
      <3> QED BY <1>0, <3>1
    <2>3. CASE v # u
      <3>1. new = old
        BY <1>2, <1>3, <2>1, <2>3
      <3> QED BY <1>0, <3>1
    <2> QED BY <2>2, <2>3
  <1>4. \A t \in Turns : UserOf[t] \in Users /\ t \in Refs /\ Reserve \in Nat /\ -Reserve \in Int
                         /\ -ComputeCharge(turn[t].use) \in Int
    BY UseCharge DEF Refs
  <1>5. /\ Reasons = {"signup_bonus", "redeem", "usage", "admin_adjust", "turn_hold", "turn_hold_release"}
        /\ Users \subseteq Refs /\ Codes \subseteq Refs /\ NoRef \in Refs
    BY DEF Reasons, Refs
  <1>6. ASSUME NEW t \in Turns, AdmitTurn(t)
        PROVE  Money(u)' >= Money(u)
    <2>1. drawn' = drawn
      BY <1>6 DEF AdmitTurn, restVars
    <2>2. CASE books' = books
      BY <1>0, <1>1, <2>1, <2>2
    <2>3. CASE Wrote(UserOf[t], -Reserve, "turn_hold", t) /\ UserOf[t] # u
      <3>1. new = old
        BY <1>2, <1>4, <1>5, <2>3
      <3> QED BY <1>0, <1>1, <2>1, <3>1
    <2> QED BY <1>6, <2>2, <2>3, AdmitStep
  <1>7. ASSUME NEW t \in Turns, SettleTurn(t) \/ SettleTwice(t)
        PROVE  Money(u)' >= Money(u)
    <2>1. drawn' = drawn /\ UserOf[t] # u
      BY <1>7 DEF SettleTurn, SettleTwice, restVars
    <2>2. Wrote(UserOf[t], -ComputeCharge(turn[t].use), "usage", t)
      BY <1>7, TurnWrote DEF SettleTurn, SettleTwice
    <2>3. new = old
      BY <1>2, <1>4, <1>5, <2>1, <2>2
    <2> QED BY <1>0, <1>1, <2>1, <2>3
  <1>8. ASSUME NEW t \in Turns, ReleaseTurnHold(t)
        PROVE  Money(u)' >= Money(u)
    <2>1. drawn' = drawn /\ Wrote(UserOf[t], Reserve, "turn_hold_release", t)
      BY <1>8, TurnWrote DEF ReleaseTurnHold, restVars
    <2>2. new >= old
      BY <1>3, <1>4, <1>5, <2>1
    <2> QED BY <1>1, <2>1, <2>2
  <1>9. ASSUME NEW v \in Users, Register(v) \/ Redeem(v)
        PROVE  Money(u)' >= Money(u)
    <2>1. CASE Register(v)
      <3>1. drawn' = drawn /\ Wrote(v, Bonus, "signup_bonus", v)
        BY <2>1, PostWrote DEF Register, restVars
      <3>2. new >= old
        BY <1>3, <1>5, <3>1
      <3> QED BY <1>1, <3>1, <3>2
    <2>2. CASE Redeem(v)
      <3>1. drawn' = drawn /\ Wrote(v, CodeValue, "redeem", clerk[v]) /\ clerk[v] \in Refs
        BY <2>2, PostWrote DEF Redeem, restVars, TypeOK, Refs
      <3>2. new >= old
        BY <1>3, <1>5, <3>1
      <3> QED BY <1>1, <3>1, <3>2
    <2> QED BY <1>9, <2>1, <2>2
  <1>10. ASSUME NEW v \in Users, NEW delta \in Int, NEW reason \in Reasons,
                Wrote(v, delta, reason, NoRef),
                NEW taken \in Nat, drawn' = [drawn EXCEPT ![v] = @ + taken], delta + taken >= 0
         PROVE  Money(u)' >= Money(u)
    <2>1. CASE v = u
      <3>1. new = old + delta
        BY <1>5, <1>10, <2>1, WroteRow
      <3>2. drawn'[u] = drawn[u] + taken
        BY <1>10, <2>1 DEF TypeOK
      <3> HIDE DEF old, new
      <3> QED BY <1>0, <1>10, <3>1, <3>2
    <2>2. CASE v # u
      <3>1. new = old /\ drawn'[u] = drawn[u]
        BY <1>2, <1>5, <1>10, <2>2 DEF TypeOK
      <3> QED BY <1>0, <1>1, <3>1
    <2> QED BY <2>1, <2>2
  <1>11. ASSUME NEW v \in Users, NEW delta \in Deltas, Adjust(v, delta)
         PROVE  Money(u)' >= Money(u)
    <2> DEFINE taken == IF delta < 0 THEN -delta ELSE 0
    <2>1. delta \in Int /\ taken \in Nat /\ delta + taken >= 0
      OBVIOUS
    <2>2. Wrote(v, delta, "admin_adjust", NoRef) /\ drawn' = [drawn EXCEPT ![v] = @ + taken]
      BY <1>11, PostWrote DEF Adjust
    <2> HIDE DEF taken
    <2> QED BY <1>5, <1>10, <2>1, <2>2
  <1>12. ASSUME NEW v \in Users, SpeechSettle(v)
         PROVE  Money(u)' >= Money(u)
    <2> PICK use \in Usages :
             \/ books' = books /\ drawn' = drawn
             \/ Post(v, -ComputeCharge(use), "usage", NoRef) /\ drawn' = [drawn EXCEPT ![v] = @ + ComputeCharge(use)]
      BY <1>12 DEF SpeechSettle
    <2>1. ComputeCharge(use) \in Nat
      BY ChargeBounded
    <2>2. CASE books' = books /\ drawn' = drawn
      BY <1>0, <1>1, <2>2
    <2>3. CASE Post(v, -ComputeCharge(use), "usage", NoRef) /\ drawn' = [drawn EXCEPT ![v] = @ + ComputeCharge(use)]
      <3>1. Wrote(v, -ComputeCharge(use), "usage", NoRef)
        BY <2>3, PostWrote
      <3>2. -ComputeCharge(use) \in Int /\ -ComputeCharge(use) + ComputeCharge(use) >= 0
        BY <2>1
      <3> QED BY <1>5, <1>10, <2>1, <2>3, <3>1, <3>2
    <2> QED BY <2>2, <2>3
  <1>13. CASE SweepRelease
    <2>1. books'.account[u] = NewRow(books.account[u], Reserve * Cardinality(Due(u)), "turn_hold_release")
          /\ drawn' = drawn
      BY <1>13, SweepStep DEF SweepRelease
    <2>2. Reserve * Cardinality(Due(u)) \in Nat
      <3>1. Cardinality(Due(u)) \in Nat
        BY DueFacts
      <3> QED BY <3>1
    <2>3. books.account[u] \in Row
      BY DEF TypeOK
    <2>4. new = old + Reserve * Cardinality(Due(u))
      BY <2>1, <2>2, <2>3, RowStep
    <2> HIDE DEF old, new
    <2> QED BY <1>0, <1>1, <2>1, <2>2, <2>4
  <1>14. ASSUME \/ Idle \/ (\E t \in Turns : OpenTx(t) \/ LockTx(t) \/ SettleFails(t) \/ Crash(t))
         PROVE  Money(u)' >= Money(u)
    <2>1. drawn' = drawn
      BY <1>14 DEF Idle, CountRuns, StartBlind, CountBlind,
                   Dispatch, LeaveTurn, FinishTurn, StartTurn, DispatchRefused, TicketLost,
         TicketLapses, LeaveWith, HoldsAge, SweepScan, SweepFails, CreateBatch, VoidBatch, BatchExpires,
         VoidCode, DeleteCode, ReadCode, PeriodRolls, SpeechRequest, RedeemAborts, ClaimCode,
         OpenTx, LockTx, SettleFails, Crash, restVars
    <2>2. books' = books
      BY <1>14, IdleStep DEF OpenTx, LockTx, SettleFails, Crash
    <2> QED BY <1>0, <1>1, <2>1, <2>2
  <1>15. \/ Idle \/ (\E t \in Turns : OpenTx(t) \/ LockTx(t) \/ SettleFails(t) \/ Crash(t)) \/ SweepRelease
         \/ \E v \in Users : \/ Register(v) \/ Redeem(v) \/ SpeechSettle(v)
                             \/ \E delta \in Deltas : Adjust(v, delta)
         \/ \E t \in Turns : \/ AdmitTurn(t) \/ SettleTurn(t) \/ SettleTwice(t) \/ ReleaseTurnHold(t)
    BY DEF Next, Event, TurnStep, Quiet, Idle
  <1> QED BY <1>6, <1>7, <1>8, <1>9, <1>11, <1>12, <1>13, <1>14, <1>15

LEMMA CoveredStep ==
    ASSUME TypeOK, Locks, Holds, Ticketed, Covered, Next, TypeOK', Ticketed'
    PROVE  Covered'
  <1> USE CreditsAssumption
  <1>0. {"usage", "turn_hold"} \subseteq Reasons
    BY DEF Reasons
  <1>1. ASSUME NEW t \in Turns, SettleTurn(t) \/ SettleTwice(t)
        PROVE  /\ Wrote(UserOf[t], -ComputeCharge(turn[t].use), "usage", t)
               /\ UserOf[t] \in Users /\ t \in Refs /\ t # NoRef
               /\ -ComputeCharge(turn[t].use) \in Int /\ ComputeCharge(turn[t].use) \in 0..MaxCharge
               /\ turn[t].pc \in {"settle", "resettle"} /\ turn'[t].pc \in {"done", "leave", "resettle"}
               /\ drawn' = drawn
    <2>1. Wrote(UserOf[t], -ComputeCharge(turn[t].use), "usage", t)
      BY <1>1, TurnWrote DEF SettleTurn, SettleTwice
    <2>2. Path(t, {"settle", "resettle"}, {"done", "leave", "resettle"}) /\ drawn' = drawn
      BY <1>1 DEF SettleTurn, SettleTwice, Path, restVars
    <2>3. {"done", "leave", "resettle"} \subseteq PCs
      BY DEF PCs
    <2>4. turn[t].pc \in {"settle", "resettle"} /\ turn'[t].pc \in {"done", "leave", "resettle"}
      BY <2>2, <2>3, PathStep
    <2> QED BY <2>1, <2>2, <2>4, UseCharge DEF Refs
  <1>2. ASSUME NEW t \in Turns, turn'[t].pc = "resettle"
        PROVE  Has(books', "usage", t)
    <2>1. CASE turn[t].pc = "resettle"
      BY <2>1, BooksMove, MovesHas DEF Covered
    <2>2. CASE SettleTwice(t)
      BY <1>0, <1>1, <2>2, WroteRow
    <2> QED BY <1>2, <2>1, <2>2, PcMoves
  <1>3. ASSUME NEW u \in Users, Inline(u)'
        PROVE  Cover(u)' >= 0
    <2> DEFINE n == Cardinality(Chargeable(u))
               m == Cardinality(Chargeable(u)')
             k == Cap(u)
             l == Cap(u)'
    <2>1. Inline(u)
      BY <1>3, PcMoves DEF Inline
    <2>2. /\ n \in 0..k /\ m \in 0..l /\ IsFiniteSet(Chargeable(u))
          /\ Chargeable(u) \in SUBSET Turns /\ k \in Nat /\ l \in Nat /\ k <= l
      <3>1. /\ Steady(u)' \in SUBSET Turns /\ TicketsOf(stray', u) \in SUBSET Turns
            /\ Chargeable(u)' \in SUBSET (Steady(u)' \union TicketsOf(stray', u))
        BY DEF Chargeable, Steady, Admitted, Owing, Running, TicketsOf, TypeOK
      <3>2. Cardinality(Steady(u)') <= MaxRuns
        BY DEF Ticketed
      <3>3. m \in 0..l /\ l \in Nat
        BY <3>1, <3>2, FewerAdmitted DEF Cap
      <3>4. k <= l
        <4>1. TicketsOf(stray, u) \subseteq TicketsOf(stray', u)
          BY StrayGrows DEF TicketsOf
        <4>2. /\ IsFiniteSet(TicketsOf(stray', u)) /\ Cardinality(TicketsOf(stray', u)) \in Nat
              /\ Cardinality(TicketsOf(stray, u)) \in Nat
          BY <3>1, <4>1, OutFacts
        <4>3. Cardinality(TicketsOf(stray, u)) <= Cardinality(TicketsOf(stray', u))
          BY <4>1, <4>2, FS_Subset
        <4> QED BY <4>2, <4>3 DEF Cap
      <3> QED BY <3>3, <3>4, ChargeableFacts
    <2>3. Money(u) \in Int /\ Money(u)' \in Int /\ Money(u) + (k - n) * MaxCharge >= 0
      <3>1. Money(u)' \in Int
        BY DEF TypeOK, Row, Money
      <3> QED BY <2>1, <3>1, MoneyType DEF Covered, Money
    <2>4. Cover(u)' = Money(u)' + (l - m) * MaxCharge
      BY DEF Cover, Money
    <2>5. ASSUME NEW t \in Turns, UserOf[t] = u, turn[t].pc # "new"
          PROVE  t \notin Durable
      BY <2>1, <2>5 DEF Inline
    <2>6. ASSUME NEW t \in Turns, UserOf[t] = u, AdmitTurn(t), turn'[t].pc \in {"dispatch", "run"}
          PROVE  Cover(u)' >= 0
      <3>1. /\ Wrote(u, -Reserve, "turn_hold", t) /\ books.account[u].balance >= Reserve
            /\ drawn' = drawn
        BY <2>6, AdmitStep DEF AdmitTurn, restVars
      <3>2. books'.account[u].balance \in {books.account[u].balance, books.account[u].balance - Reserve}
        <4>1. t \in Refs /\ -Reserve \in Int
          BY DEF Refs
        <4>2. books' = books \/ books'.account[u].balance = books.account[u].balance + (-Reserve)
          BY <1>0, <2>6, <3>1, <4>1, WroteRow
        <4> QED BY <4>2, MoneyType
      <3>3. Money(u)' >= 0
        BY <3>1, <3>2, MoneyType DEF Money
      <3> HIDE DEF m, l
      <3>4. (l - m) * MaxCharge \in Nat
        <4>1. l - m \in Nat
          BY <2>2
        <4> QED BY <4>1
      <3> QED BY <2>3, <2>4, <3>3, <3>4
    <2>7. CASE \A t \in Turns : UserOf[t] = u => ~ AdmitTurn(t) \/ turn'[t].pc \in {"done", "leave"}
      <3>1. Chargeable(u)' \subseteq Chargeable(u)
        <4> SUFFICES ASSUME NEW t \in Turns \ Durable, UserOf[t] = u, turn'[t].pc \in Owing
                     PROVE  turn[t].pc \in Owing
          BY DEF Chargeable
        <4>1. turn[t].pc \in Owing \/ AdmitTurn(t)
          BY PcMoves DEF Ticketed
        <4> QED BY <2>7, <4>1 DEF Owing
      <3>2. m <= n
        BY <2>2, <3>1, FS_Subset
      <3>3. CASE \A t \in Turns : UserOf[t] = u => ~ SettleTurn(t) /\ ~ SettleTwice(t)
        <4>1. \A t \in Turns : UserOf[t] = u /\ AdmitTurn(t) => books' = books
          BY <2>7, AdmitStep
        <4>2. Money(u)' >= Money(u)
          BY <3>3, <4>1, MoneyKept
        <4> HIDE DEF m, n, k, l
        <4> QED BY <2>2, <2>3, <2>4, <3>2, <4>2, FewerCovered
      <3>4. ASSUME NEW t \in Turns, UserOf[t] = u, SettleTurn(t) \/ SettleTwice(t)
            PROVE  Cover(u)' >= 0
        <4> DEFINE charge == ComputeCharge(turn[t].use)
        <4>1. /\ Wrote(u, -charge, "usage", t) /\ charge \in 0..MaxCharge /\ -charge \in Int
              /\ drawn' = drawn /\ t \in Refs /\ t # NoRef
              /\ turn[t].pc \in {"settle", "resettle"} /\ turn'[t].pc \in {"done", "leave", "resettle"}
          BY <1>1, <3>4
        <4> HIDE DEF charge
        <4>2. \/ books' = books
              \/ /\ books'.account[u].balance = books.account[u].balance + (-charge)
                 /\ ~ Has(books, "usage", t)
          <5>1. CASE Has(books, "usage", t)
            BY <4>1, <5>1, DuplicateStep DEF Duplicate
          <5>2. CASE ~ Has(books, "usage", t)
            BY <1>0, <4>1, <5>2, WroteRow
          <5> QED BY <5>1, <5>2
        <4>3. CASE books' = books
          <5>1. Money(u)' >= Money(u)
            BY <2>3, <4>1, <4>3 DEF Money
          <5> HIDE DEF m, n, k, l
          <5> QED BY <2>2, <2>3, <2>4, <3>2, <5>1, FewerCovered
        <4>4. CASE books'.account[u].balance = books.account[u].balance + (-charge) /\ ~ Has(books, "usage", t)
          <5>1. turn[t].pc = "settle" /\ t \notin Durable
            BY <2>5, <3>4, <4>1, <4>4 DEF Covered
          <5>2. t \in Chargeable(u) /\ Chargeable(u)' \subseteq Chargeable(u) \ {t}
            BY <3>1, <3>4, <4>1, <5>1 DEF Chargeable, Owing
          <5>3. m <= n - 1 /\ n - 1 \in 0..k
            <6>1. IsFiniteSet(Chargeable(u) \ {t}) /\ Cardinality(Chargeable(u) \ {t}) = n - 1
              BY <2>2, <5>2, FS_RemoveElement
            <6>2. m <= Cardinality(Chargeable(u) \ {t})
              BY <5>2, <6>1, FS_Subset
            <6> HIDE DEF m, n, k, l
            <6> QED BY <2>2, <6>1, <6>2
          <5>4. Money(u)' >= Money(u) - MaxCharge
            <6>1. books.account[u].balance \in Int /\ drawn[u] \in Int
              BY MoneyType
            <6> QED BY <4>1, <4>4, <6>1 DEF Money
          <5> HIDE DEF m, n, k, l
          <5>5. (k - (n - 1)) * MaxCharge = (k - n) * MaxCharge + MaxCharge
            BY <2>2
          <5>6. (k - n) * MaxCharge \in Int
            BY <2>2
          <5>7. Money(u) - MaxCharge + (k - (n - 1)) * MaxCharge >= 0
            BY <2>3, <5>5, <5>6
          <5> QED BY <2>2, <2>3, <2>4, <5>3, <5>4, <5>7, FewerCovered
        <4> QED BY <4>2, <4>3, <4>4
      <3> QED BY <3>3, <3>4
    <2> QED BY <2>6, <2>7, AdmitStep
  <1> QED BY <1>2, <1>3 DEF Covered, Cover

-----------------------------------------------------------------------------
(* The invariant and what follows from it.                                  *)

IInv == TypeOK /\ Locks /\ Holds /\ Chained /\ Balanced /\ Paid /\ Ticketed /\ Covered

LEMMA EmptyBooks ==
    ASSUME Init
    PROVE  /\ \A r, x : ~ Has(books, r, x)
           /\ \A u \in Users : books.ledger[u] = <<>> /\ books.account[u] = NoTx.row
  BY DEF Init, Has

LEMMA InitInv == ASSUME Init PROVE IInv
  <1> USE CreditsAssumption
  <1>0. {} \in SUBSET Turns /\ IsFiniteSet({}) /\ Cardinality({}) = 0
    BY FS_EmptySet
  <1>1. TypeOK
    <2>1. NoTx.row \in Row /\ NoTx \in [st : {"none", "open", "locked"}, row : Row]
      BY DEF NoTx, Row
    <2>2. books.ledger \in [Users -> Seq(Entry)] /\ books.account \in [Users -> Row]
      BY <2>1 DEF Init
    <2>3. /\ lock \in [Users -> Turns \union {Nobody}]
          /\ tx \in [Turns -> [st : {"none", "open", "locked"}, row : Row]]
      BY <2>1 DEF Init
    <2>4. turn \in [Turns -> [pc : PCs, hold : BOOLEAN, use : Usages \union {Nothing}]]
      BY DEF Init, PCs
    <2>5. code \in [Codes -> {"none", "active", "redeemed", "void"}]
      BY DEF Init
    <2>6. /\ aged \subseteq Turns /\ todo \subseteq Turns /\ tickets \subseteq Turns /\ lapsed \subseteq Turns
          /\ stray \subseteq Turns /\ tokens \in [Users -> Nat] /\ claim \in [Codes -> Users \union {Nobody}]
          /\ clerk \in [Users -> Codes \union {NoRef}] /\ expired \in BOOLEAN
          /\ speech \in [Users -> BOOLEAN] /\ drawn \in [Users -> Nat] /\ events \in Nat
      BY DEF Init
    <2> QED BY <2>2, <2>3, <2>4, <2>5, <2>6 DEF TypeOK
  <1>2. Locks
    BY DEF Init, Locks, NoTx
  <1>3. Holds
    BY EmptyBooks DEF Init, Holds
  <1>4. Chained
    BY EmptyBooks DEF Chained, Chain, NoTx
  <1>5. Balanced
    <2> SUFFICES ASSUME NEW u \in Users
                 PROVE  books.account[u].balance = books.account[u].granted - books.account[u].consumed
                                                   - Reserve * Cardinality(Out(u))
      BY DEF Balanced
    <2>1. Out(u) = {}
      BY EmptyBooks DEF Out, HoldOut
    <2>2. Reserve * 0 = 0
      OBVIOUS
    <2> QED BY <1>0, <2>1, <2>2, EmptyBooks DEF NoTx
  <1>6. Paid
    BY EmptyBooks DEF Init, Paid
  <1>7. Ticketed
    <2>1. \A t \in Turns : turn[t].pc = "new" /\ t \notin lapsed
      BY DEF Init
    <2>2. \A u \in Users : Steady(u) = {}
      BY <2>1 DEF Steady, Admitted, Running
    <2>3. \A u \in Users : Cardinality(Steady(u)) <= MaxRuns
      BY <1>0, <2>2
    <2>4. \A t \in Turns : turn[t].pc # "queued" /\ turn[t].pc \notin Live
      BY <2>1 DEF Live, Running
    <2> QED BY <2>1, <2>3, <2>4 DEF Ticketed
  <1>8. Covered
    <2>1. \A t \in Turns : turn[t].pc = "new"
      BY DEF Init
    <2>2. \A u \in Users : Chargeable(u) = {}
      BY <2>1 DEF Chargeable, Owing
    <2>3. \A u \in Users : books.account[u].balance = 0 /\ drawn[u] = 0
      BY EmptyBooks DEF Init, NoTx
    <2>4. \A u \in Users : Cap(u) = MaxRuns
      <3>1. \A u \in Users : TicketsOf(stray, u) = {}
        BY DEF Init, TicketsOf
      <3>2. MaxRuns + 0 = MaxRuns
        OBVIOUS
      <3> QED BY <1>0, <3>1, <3>2 DEF Cap
    <2>5. ASSUME NEW u \in Users
          PROVE  books.account[u].balance + drawn[u] + (Cap(u) - Cardinality(Chargeable(u))) * MaxCharge >= 0
      <3>1. Cardinality(Chargeable(u)) = 0 /\ books.account[u].balance = 0 /\ drawn[u] = 0
        BY <1>0, <2>2, <2>3
      <3>2. (MaxRuns - 0) * MaxCharge = MaxRuns * MaxCharge /\ MaxRuns * MaxCharge \in Nat
        OBVIOUS
      <3> QED BY <2>4, <3>1, <3>2
    <2> QED BY <2>1, <2>5 DEF Covered
  <1> QED BY <1>1, <1>2, <1>3, <1>4, <1>5, <1>6, <1>7, <1>8 DEF IInv

LEMMA NextInv == ASSUME IInv, Next PROVE IInv'
  <1>1. Moves /\ Locks' /\ Holds' /\ TypeOK'
    BY BooksMove, LocksStep, HoldsStep, TypesStep DEF IInv
  <1>2. Chained' /\ Balanced'
    BY <1>1, MovesChained, MovesBalanced DEF IInv
  <1>3. Paid' /\ Ticketed'
    BY PaidStep, TicketedStep DEF IInv
  <1>4. Covered'
    BY <1>1, <1>3, CoveredStep DEF IInv
  <1> QED BY <1>1, <1>2, <1>3, <1>4 DEF IInv

LEMMA StutterInv == ASSUME IInv, UNCHANGED vars PROVE IInv'
  <1>1. TypeOK' /\ Locks' /\ Holds' /\ Chained' /\ Balanced' /\ Paid'
    BY DEF IInv, vars, TypeOK, Locks, Holds, Chained, Balanced, Out, Paid
  <1>2. Ticketed' /\ Covered'
    BY DEF IInv, vars, Ticketed, Covered, Steady, Cap, TicketsOf, Admitted, Chargeable, Inline
  <1> QED BY <1>1, <1>2 DEF IInv

\* The inductive invariant: rows that a session has locked are current, holds and
\* releases pair up, the ledger is a chain that ends in the balance, a code is
\* redeemed as often as it was granted, a live turn that is not stray holds a
\* ticket, and what is left of MaxRuns charges and one for each stray turn covers
\* the turns still to be charged.
THEOREM CreditsInvariant == Spec => []IInv
  <1>1. Init => IInv
    BY InitInv
  <1>2. IInv /\ [Next]_vars => IInv'
    BY NextInv, StutterInv
  <1> QED BY <1>1, <1>2, PTL DEF Spec

\* Books, sessions, turns and codes keep their types; no count goes below zero.
THEOREM TypeCorrect == Spec => []TypeOK
  <1>1. IInv => TypeOK
    BY DEF IInv
  <1> QED BY <1>1, CreditsInvariant, PTL

\* Balance, totals, holds and entries agree in every behaviour: sessions that
\* race for a row, a hold returned twice and a charge settled twice leave no
\* trace in them (_locked_account, _write_entry).
THEOREM BooksReconcile == Spec => []LedgerReconciles
  <1>1. IInv => LedgerReconciles
    BY DEF IInv, Chained, Chain, Balanced, Out, LedgerReconciles
  <1> QED BY <1>1, CreditsInvariant, PTL

\* Whoever races for a code, it is granted once if it was redeemed and never
\* otherwise (redeem).
THEOREM CodesGrantOnce == Spec => []CodesPayOnce
  <1>1. IInv => CodesPayOnce
    BY PaidOnce DEF IInv
  <1> QED BY <1>1, CreditsInvariant, PTL

\* A user of inline turns owes at most MaxRuns charges, and one for each turn that
\* ran beside its ticket, besides what was drawn (admit_run, admit_turn, compute_charge).
THEOREM DebtStaysBounded == Spec => []DebtBounded
  <1>1. ASSUME IInv, NEW u \in Users, Inline(u)
        PROVE  books.account[u].balance >= -(Cap(u) * MaxCharge) - drawn[u]
    <2> DEFINE n == Cardinality(Chargeable(u))
               k == Cap(u)
    <2>1. books.account[u].balance \in Int /\ drawn[u] \in Int
      BY <1>1, MoneyType DEF IInv
    <2>2. books.account[u].balance + drawn[u] + (k - n) * MaxCharge >= 0
      BY <1>1 DEF IInv, Covered
    <2>3. n \in Nat /\ k \in Nat /\ MaxCharge \in Nat
      BY <1>1, ChargeableFacts, CreditsAssumption DEF IInv
    <2> HIDE DEF n, k
    <2>4. (k - n) * MaxCharge = k * MaxCharge - n * MaxCharge
      BY <2>3
    <2>5. n * MaxCharge \in Nat /\ k * MaxCharge \in Nat
      BY <2>3
    <2>6. books.account[u].balance >= -(k * MaxCharge) - drawn[u]
      BY <2>1, <2>2, <2>4, <2>5
    <2> QED BY <2>6 DEF k
  <1>2. IInv => DebtBounded
    BY <1>1 DEF DebtBounded, Inline, Cap
  <1> QED BY <1>2, CreditsInvariant, PTL
=============================================================================
