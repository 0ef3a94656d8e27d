------------------------------ MODULE MCSessions ------------------------------
(***************************************************************************)
(* Sessions for TLC, and the gates of a request checked over every short   *)
(* sequence of hits, codes, bindings and proxies, and of LineDiff, the     *)
(* diffs the client draws.                                                 *)
(***************************************************************************)
EXTENDS Sessions, FiniteSets, FiniteSetsExt, SequencesExt, LineDiff

Gate == INSTANCE Gates WITH Limit <- 2, Window <- 3, Trusted <- {"nginx", "docker"},
                            MaxTries <- 3, Burst <- 2

\* The hits of a client at rising times, and those a limiter admits.
Times == {<<a, a + b, a + b + c, a + b + c + d, a + b + c + d + e>> :
             <<a, b, c, d, e>> \in {0} \X (0..3) \X (0..3) \X (0..3) \X (0..3)}
Admitted(Hit(_, _), first, ts) ==
    LET After(n) == FoldLeft(Hit, first, SubSeq(ts, 1, n))
    IN  {n \in 1..Len(ts) : After(n).ok}
InWindow(ts, S, from) == {n \in S : from <= ts[n] /\ ts[n] < from + 3}

\* Without Redis no window of Window seconds admits more than Limit requests,
\* with Redis none admits more than twice as many (rate_limit._check).
ASSUME RatesHold ==
    \A ts \in Times : \A from \in 0..12 :
        /\ Cardinality(InWindow(ts, Admitted(Gate!SlidingHit, [times |-> <<>>, ok |-> TRUE], ts), from)) <= 2
        /\ Cardinality(InWindow(ts, Admitted(Gate!CounterHit, Gate!NoHits, ts), from)) <= 4

\* A client behind our proxies is known by the address the last proxy saw,
\* whatever the header it sent itself says (rate_limit._ip_of).
ASSUME AddressIsReal ==
    \A sent \in BoundedSeq({"nginx", "x", "y"}, 2), hops \in BoundedSeq({"nginx", "docker"}, 2) :
        Gate!IpOf("nginx", (sent \o <<"client">>) \o hops) = "client"

\* A code is accepted once, for its own purpose only, and after MaxTries wrong
\* guesses no pending code of that purpose is left (verify_and_consume).
MailOps == {"ask", "ask reset", "wait", "right", "wrong", "wrong reset"}
MailStep(m, op) ==
    CASE op = "ask"         -> Gate!RequestCode(m, "register")
      [] op = "ask reset"   -> Gate!RequestCode(m, "reset")
      [] op = "wait"        -> Gate!IntervalPasses(m)
      [] op = "right"       -> Gate!VerifyCode(m, "register", TRUE)
      [] op = "wrong"       -> Gate!VerifyCode(m, "register", FALSE)
      [] op = "wrong reset" -> Gate!VerifyCode(m, "reset", FALSE)
ASSUME CodesHold ==
    \A run \in [1..5 -> MailOps] :
        LET At(n) == FoldLeft(MailStep, Gate!EmptyMail, SubSeq(run, 1, n))
            Said(word, op) == {n \in 1..5 : run[n] = op /\ At(n).said = word}
            Wrong(i, j) == {n \in i..j : run[n] \in {"wrong", "wrong reset"} /\ At(n).said = "wrong"}
        IN  /\ Cardinality(Said("accepted", "right")) <= Cardinality(Said("sent", "ask"))
            /\ At(5).sent <= 2
            /\ \A i \in 1..5, j \in 1..5 : Cardinality(Wrong(i, j)) >= 3
                  => \E n \in i..j : At(n).said \in {"spent", "accepted"}
            /\ \A n \in 2..5 : run[n] # "ask reset" /\ run[n] # "wrong reset"
                  => At(n).code["reset"] = At(n - 1).code["reset"]

\* A WeChat identity belongs to one account and an account has one, after any
\* three logins, bindings and removals (wechat_login_service).
Opens == {"o1", "o2"}
WechatOps == {<<"login", o, u>> : o \in Opens, u \in {10, 11}}
                \union {<<"bind", o, u>> : o \in Opens, u \in {1, 10}}
                \union {<<"unbind", "o1", u>> : u \in {1, 10}}
WechatStep(table, op) ==
    CASE op[1] = "login"  -> IF \E b \in table : b[2] = op[3] THEN table
                             ELSE Gate!WechatLogin(table, op[2], op[3]).table
      [] op[1] = "bind"   -> Gate!WechatBind(table, op[2], op[3])
      [] op[1] = "unbind" -> Gate!WechatUnbind(table, op[3])
ASSUME OneIdentity ==
    \A run \in [1..3 -> WechatOps] :
        LET table == FoldLeft(WechatStep, {}, run)
        IN  \A b, c \in table : (b[1] = c[1] \/ b[2] = c[2]) => b = c

\* Only the first account administers, a known address is never registered
\* twice, and a disabled account gets no tokens (api/auth.py).
ASSUME AccountsHold ==
    /\ \A strong, enforced, consumed \in BOOLEAN, emails \in SUBSET {"a", "b"} :
          LET r == Gate!Register(strong, enforced, consumed, emails, "a") IN
          /\ r = "admin" => emails = {}
          /\ r \in {"admin", "user"} => "a" \notin emails /\ (enforced => consumed)
    /\ \A known, right, active \in BOOLEAN :
          Gate!LoginVerdict(known, right, active) = "tokens" <=> known /\ right /\ active
    /\ ~Gate!MayChangePassword(TRUE, TRUE, FALSE) /\ Gate!MayChangePassword(TRUE, FALSE, FALSE)

\* A second send with a key is turned away until the first one failed with an
\* unexpected exception (core/idempotency.py, api/chat.py).
ASSUME SecondSendWaits ==
    LET first == Gate!CheckKey({}, "k") IN
    \A path \in {"inline", "durable"}, outcome \in {"running", "exception", "refused"} :
        Gate!CheckKey(Gate!ReleaseKey(first.held, "k", path, outcome), "k").ok
            <=> path = "inline" /\ outcome = "exception"

(***************************************************************************)
(* What the line diff of LineDiff promises, over all texts of up to three  *)
(* lines from three, with and without the limits that make it give up on a *)
(* line-by-line comparison.                                                *)
(***************************************************************************)
Lines     == {"x", "-- x", "++ x"}
Texts     == SeqOf(Lines, 3)
Unlimited == [lines |-> 9, cells |-> 9, segments |-> 9]
Limits    == { Unlimited,
               [lines |-> 2, cells |-> 9, segments |-> 9],
               [lines |-> 9, cells |-> 1, segments |-> 9],
               [lines |-> 9, cells |-> 0, segments |-> 2] }

OldSide(rows) == SelectSeq(rows, LAMBDA r : r.kind # "add")
NewSide(rows) == SelectSeq(rows, LAMBDA r : r.kind # "del")
Equal(rows)   == SelectSeq(rows, LAMBDA r : r.kind = "equal")

\* Whichever limit cuts the comparison short, the rows are both texts, whole, in
\* order and with their own line numbers ("neither degradation gives a wrong line
\* number"), and no matched pair is dropped again when the pairs are put in order.
ASSUME RowsAreTheTexts ==
    \A a, b \in Texts, lim \in Limits :
        LET rows == DiffLines(a, b, lim)
            old  == OldSide(rows)
            new  == NewSide(rows)
        IN  /\ Len(old) = Len(a) /\ Len(new) = Len(b)
            /\ \A i \in DOMAIN a : old[i].old = i /\ old[i].text = a[i]
            /\ \A j \in DOMAIN b : new[j].new = j /\ new[j].text = b[j]
            /\ Len(Equal(rows)) = Cardinality(RawPairs(a, b, lim))

\* Within its limits the diff is a shortest one: no common subsequence is longer
\* than what it leaves unchanged.
Subsequences(s) == { [k \in 1..Cardinality(S) |-> s[SetToSortSeq(S, <)[k]]] : S \in SUBSET DOMAIN s }
ASSUME DiffIsShortest ==
    \A a, b \in Texts :
        Len(Equal(DiffLines(a, b, Unlimited))) =
            Max({ Len(c) : c \in Subsequences(a) \cap Subsequences(b) })

\* Folding hides unchanged rows only, and says which and how many.
RECURSIVE Unfold(_, _)
Unfold(blocks, rows) ==
    IF blocks = <<>> THEN rows = <<>>
    ELSE LET blk == Head(blocks)
             n   == IF blk.kind = "fold" THEN blk.count ELSE Len(blk.rows)
         IN  /\ n \in 1..Len(rows)
             /\ IF blk.kind = "fold"
                THEN /\ \A k \in 1..n : rows[k].kind = "equal"
                     /\ rows[1].old = blk.oldStart /\ rows[1].new = blk.newStart
                ELSE blk.rows = SubSeq(rows, 1, n)
             /\ Unfold(Tail(blocks), SubSeq(rows, n + 1, Len(rows)))
ASSUME FoldHidesEqualOnly ==
    \A a, b \in Texts, ctx \in 0..2 :
        LET rows == DiffLines(a, b, Unlimited) IN Unfold(Hunks(rows, ctx), rows)

(***************************************************************************)
(* A patch in the usual spelling of the rows a diff shows: a file header,  *)
(* then a header with its numbers and counts before each block.            *)
(***************************************************************************)
Line(sign, text) == [sign |-> sign, text |-> text, at |-> <<>>]
Spelled(r) == Line(CASE r.kind = "del" -> "-" [] r.kind = "add" -> "+" [] r.kind = "equal" -> " ", r.text)
Patch(blocks) ==
    << Line("-", "-- x"), Line("+", "++ x") >> \o
    FlattenSeq([ k \in DOMAIN blocks |->
        IF blocks[k].kind = "fold" THEN <<>>
        ELSE LET rows == blocks[k].rows
                 old  == OldSide(rows)
                 new  == NewSide(rows)
                 short(n) == IF n = 1 THEN Omitted ELSE n
             IN  << [sign |-> "@", text |-> "",
                     at |-> << IF old = <<>> THEN 0 ELSE old[1].old, short(Len(old)),
                               IF new = <<>> THEN 0 ELSE new[1].new, short(Len(new)) >>] >>
                   \o [ i \in DOMAIN rows |-> Spelled(rows[i]) ] ])
Shown(blocks) ==
    FlattenSeq([ k \in DOMAIN blocks |-> IF blocks[k].kind = "fold" THEN <<>> ELSE blocks[k].rows ])

\* A patch of two files is read back into the very rows it was written from, with
\* their numbers, although a deleted line may be spelled like a file header.
ASSUME PatchReadsBack ==
    \A a, b \in SeqOf(Lines, 2), c \in { <<"x">>, <<"-- x", "x">> }, ctx \in 0..1 :
        LET one == Hunks(DiffLines(a, b, Unlimited), ctx)
            two == Hunks(DiffLines(c, <<"x", "++ x">>, Unlimited), ctx)
            got == ParseUnifiedDiff(Patch(one) \o Patch(two))
        IN  a # b => got.files = 2 /\ got.rows = Shown(one) \o Shown(two)
=============================================================================
