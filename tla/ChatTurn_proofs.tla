--------------------------- MODULE ChatTurn_proofs ---------------------------
(***************************************************************************)
(* HistoryKept is an invariant of ChatTurn, and AnswerStands holds of      *)
(* every step. The second is shown at the end, from what the gate lets     *)
(* through.                                                                *)
(*                                                                         *)
(* For the first, three arguments meet. What taking versions and pruning   *)
(* them does is a matter of data: the versions are, in order, some of the  *)
(* snapshots ever taken, and one that was dropped has been outnumbered     *)
(* (Ledger); this is shown by induction along the rows of a snapshot, with *)
(* the least element of a set of numbers as the principle. What a row may  *)
(* become is a matter of who holds it: a row that is being generated is in *)
(* no tail, no request's rows and no version, and no two turns write one   *)
(* row. What is committed late (a question, a regenerate's delete) has ids *)
(* of its own until then.                                                  *)
(***************************************************************************)
EXTENDS ChatTurn, FiniteSetTheorems, WellFoundedInduction, TLAPS

(***************************************************************************)
(* Induction up to a bound: every set of numbers has a least one.          *)
(***************************************************************************)
LEMMA Least ==
    ASSUME NEW T \in SUBSET Nat, T # {}
    PROVE  \E n \in T : \A m \in T : n <= m
  <1> DEFINE R == OpToRel(<, Nat)
  <1>1. IsWellFoundedOn(R, Nat)
    BY NatLessThanWellFounded
  <1>2. R = { p \in Nat \X Nat : p[1] < p[2] }
    BY DEF OpToRel
  <1> HIDE DEF R
  <1>3. PICK n \in T : \A m \in T : <<m, n>> \notin R
    BY <1>1, WFMin
  <1>4. ASSUME NEW m \in T PROVE n <= m
    <2>1. m < n => <<m, n>> \in { p \in Nat \X Nat : p[1] < p[2] }
      OBVIOUS
    <2>2. ~ (m < n)
      BY <1>2, <1>3, <2>1, Zenon
    <2> QED BY <2>2
  <1> QED BY <1>4

LEMMA Induction ==
    ASSUME NEW N \in Nat, NEW S \in SUBSET (0..N), 0 \in S,
           \A n \in S : n < N => n + 1 \in S
    PROVE  N \in S
  <1> SUFFICES ASSUME N \notin S PROVE FALSE
    OBVIOUS
  <1> DEFINE T == (0..N) \ S
  <1>0. T \in SUBSET Nat /\ T # {}
    OBVIOUS
  <1>1. PICK n \in T : \A m \in T : n <= m
    BY <1>0, Least
  <1>2. n # 0 /\ n - 1 \in 0..N
    BY <1>1
  <1>3. n - 1 \in S
    BY <1>1, <1>2
  <1> QED BY <1>1, <1>2, <1>3

-----------------------------------------------------------------------------
(* Sequences as functions.                                                  *)

LEMMA FcnIsSeq ==
    ASSUME NEW S, NEW n \in Nat, NEW u \in [1..n -> S]
    PROVE  u \in Seq(S) /\ Len(u) = n
  OBVIOUS

LEMMA AppendOf ==
    ASSUME NEW S, NEW u \in Seq(S), NEW x \in S
    PROVE  Append(u, x) = [j \in 1..(Len(u) + 1) |-> IF j = Len(u) + 1 THEN x ELSE u[j]]
  <1> DEFINE a == Append(u, x)
  <1>1. /\ a \in Seq(S) /\ Len(a) = Len(u) + 1 /\ Len(u) \in Nat
        /\ \A j \in 1..Len(u) : a[j] = u[j]
        /\ a[Len(u) + 1] = x
    OBVIOUS
  <1> HIDE DEF a
  <1>2. a = [j \in 1..(Len(u) + 1) |-> a[j]]
    BY <1>1
  <1>3. \A j \in 1..(Len(u) + 1) : a[j] = IF j = Len(u) + 1 THEN x ELSE u[j]
    BY <1>1
  <1>4. a = [j \in 1..(Len(u) + 1) |-> IF j = Len(u) + 1 THEN x ELSE u[j]]
    BY <1>2, <1>3
  <1> QED BY <1>4 DEF a

LEMMA ConcatType ==
    ASSUME NEW S, NEW u \in Seq(S), NEW v \in Seq(S)
    PROVE  u \o v \in Seq(S) /\ Len(u \o v) = Len(u) + Len(v)
  OBVIOUS

LEMMA ConcatOf ==
    ASSUME NEW S, NEW u \in Seq(S), NEW v \in Seq(S)
    PROVE  u \o v = [j \in 1..(Len(u) + Len(v)) |-> IF j <= Len(u) THEN u[j] ELSE v[j - Len(u)]]
  <1> DEFINE c == u \o v
             n == Len(u) + Len(v)
  <1>1. /\ c \in Seq(S) /\ Len(c) = n /\ Len(u) \in Nat /\ Len(v) \in Nat
        /\ \A j \in 1..Len(u) : c[j] = u[j]
        /\ \A j \in (Len(u) + 1)..n : c[j] = v[j - Len(u)]
    OBVIOUS
  <1> HIDE DEF c
  <1>2. c = [j \in 1..n |-> c[j]]
    BY <1>1
  <1>3. \A j \in 1..n : c[j] = IF j <= Len(u) THEN u[j] ELSE v[j - Len(u)]
    BY <1>1
  <1>4. c = [j \in 1..n |-> IF j <= Len(u) THEN u[j] ELSE v[j - Len(u)]]
    BY <1>2, <1>3
  <1> QED BY <1>4 DEF c

-----------------------------------------------------------------------------
(* The increasing enumeration of a finite set of numbers.                   *)

Upto(K, i) == { j \in K : j <= i }

LEMMA Ranks ==
    ASSUME NEW K \in SUBSET Nat, IsFiniteSet(K)
    PROVE  /\ \A i \in K : Cardinality(Upto(K, i)) \in 1..Cardinality(K)
           /\ \A i, j \in K : i < j => Cardinality(Upto(K, i)) < Cardinality(Upto(K, j))
  <1>1. \A i \in K : /\ IsFiniteSet(Upto(K, i)) /\ Cardinality(Upto(K, i)) \in Nat
                     /\ Cardinality(Upto(K, i)) <= Cardinality(K)
    <2> TAKE i \in K
    <2>1. Upto(K, i) \in SUBSET K
      BY DEF Upto
    <2> QED BY <2>1, FS_Subset, FS_CardinalityType
  <1>2. \A i \in K : Cardinality(Upto(K, i)) # 0
    <2> TAKE i \in K
    <2>1. i \in Upto(K, i)
      BY DEF Upto
    <2> QED BY <1>1, <2>1, FS_EmptySet
  <1>3. ASSUME NEW i \in K, NEW j \in K, i < j
        PROVE  Cardinality(Upto(K, i)) < Cardinality(Upto(K, j))
    <2>0. i \in Nat /\ j \in Nat /\ \A x \in K : x \in Nat
      OBVIOUS
    <2>1. Upto(K, i) \in SUBSET Upto(K, j)
      <3>1. \A x \in K : x <= i => x <= j
        BY <1>3, <2>0
      <3> QED BY <3>1 DEF Upto
    <2>2. Upto(K, i) # Upto(K, j)
      <3>1. j <= j /\ ~ (j <= i)
        BY <1>3, <2>0
      <3>2. j \in Upto(K, j) /\ j \notin Upto(K, i)
        BY <3>1 DEF Upto
      <3> QED BY <3>2
    <2>3. /\ Cardinality(Upto(K, i)) <= Cardinality(Upto(K, j))
          /\ Cardinality(Upto(K, i)) # Cardinality(Upto(K, j))
      BY <1>1, <2>1, <2>2, FS_Subset
    <2> QED BY <1>1, <2>3
  <1>4. Cardinality(K) \in Nat
    BY FS_CardinalityType
  <1> QED BY <1>1, <1>2, <1>3, <1>4

LEMMA Enumerates ==
    ASSUME NEW K \in SUBSET Nat, IsFiniteSet(K)
    PROVE  /\ Cardinality(K) \in Nat
           /\ \A n \in 1..Cardinality(K) : Nth(K, n) \in K
           /\ \A m, n \in 1..Cardinality(K) : m < n => Nth(K, m) < Nth(K, n)
           /\ \A i \in K : \E n \in 1..Cardinality(K) : Nth(K, n) = i
  <1> DEFINE rank == [i \in K |-> Cardinality(Upto(K, i))]
             N == Cardinality(K)
  <1>1. N \in Nat
    BY FS_CardinalityType
  <1>2. rank \in [K -> 1..N]
    BY Ranks
  <1>3. \A i, j \in K : rank[i] = rank[j] => i = j
    <2> SUFFICES ASSUME NEW i \in K, NEW j \in K, i # j PROVE rank[i] # rank[j]
      OBVIOUS
    <2>1. i < j \/ j < i
      OBVIOUS
    <2>2. rank[i] \in Nat /\ rank[j] \in Nat
      BY <1>2
    <2>3. rank[i] < rank[j] \/ rank[j] < rank[i]
      BY <2>1, Ranks
    <2> HIDE DEF rank
    <2> QED BY <2>2, <2>3
  <1>4. rank \in Injection(K, 1..N)
    BY <1>2, <1>3 DEF Injection, IsInjective
  <1>5. IsFiniteSet(1..N) /\ Cardinality(1..N) = N
    BY <1>1, FS_Interval
  <1>6. rank \in Surjection(K, 1..N)
    BY <1>4, <1>5, FS_Injection
  <1>7. \A n \in 1..N : \E i \in K : rank[i] = n
    BY <1>6 DEF Surjection
  <1>8. \A n \in 1..N : Nth(K, n) \in K /\ rank[Nth(K, n)] = n
    <2> TAKE n \in 1..N
    <2>1. \E i \in K : Cardinality({ j \in K : j <= i }) = n
      BY <1>7 DEF Upto
    <2>2. Nth(K, n) \in K /\ Cardinality({ j \in K : j <= Nth(K, n) }) = n
      BY <2>1 DEF Nth
    <2> QED BY <2>2 DEF Upto
  <1>9. \A i \in K : Nth(K, rank[i]) = i
    <2> TAKE i \in K
    <2>1. rank[i] \in 1..N
      BY <1>2
    <2>2. Nth(K, rank[i]) \in K /\ rank[Nth(K, rank[i])] = rank[i]
      BY <1>8, <2>1
    <2> HIDE DEF rank
    <2> QED BY <1>3, <2>2
  <1>10. ASSUME NEW m \in 1..N, NEW n \in 1..N, m < n PROVE Nth(K, m) < Nth(K, n)
    <2>1. Nth(K, m) \in Nat /\ Nth(K, n) \in Nat
      BY <1>8
    <2>2. /\ rank[Nth(K, m)] = m /\ rank[Nth(K, n)] = n
          /\ Nth(K, m) \in K /\ Nth(K, n) \in K
      BY <1>8
    <2>3. \A i, j \in K : i < j => rank[i] < rank[j]
      BY Ranks
    <2> HIDE DEF rank
    <2>4. Nth(K, n) < Nth(K, m) => n < m
      BY <2>2, <2>3
    <2>5. Nth(K, n) = Nth(K, m) => n = m
      BY <2>2
    <2> QED BY <1>10, <2>1, <2>4, <2>5
  <1>11. \A i \in K : rank[i] \in 1..N /\ Nth(K, rank[i]) = i
    BY <1>2, <1>9
  <1> HIDE DEF rank
  <1> QED BY <1>1, <1>8, <1>10, <1>11

\* Rows of messages as the database holds them: finitely many, ids are unique.
Tidy(set) == /\ IsFiniteSet(set) /\ \A m \in set : m.id \in Nat
             /\ \A m, o \in set : m.id = o.id => m = o

LEMMA Ordered ==
    ASSUME NEW set, Tidy(set)
    PROVE  /\ InOrder(set) \in Seq(set)
           /\ \A m \in set : \E i \in 1..Len(InOrder(set)) : InOrder(set)[i] = m
  <1> DEFINE ids == { m.id : m \in set }
             key == [m \in set |-> m.id]
             N == Cardinality(ids)
  <1>1. key \in Surjection(set, ids)
    BY DEF Surjection
  <1>2. IsFiniteSet(ids)
    BY <1>1, FS_Surjection DEF Tidy
  <1>3. ids \in SUBSET Nat
    BY DEF Tidy
  <1>4. /\ N \in Nat
        /\ \A n \in 1..N : Nth(ids, n) \in ids
        /\ \A i \in ids : \E n \in 1..N : Nth(ids, n) = i
    BY <1>2, <1>3, Enumerates
  <1> DEFINE pick(n) == CHOOSE m \in set : m.id = Nth(ids, n)
  <1>5. \A n \in 1..N : pick(n) \in set /\ pick(n).id = Nth(ids, n)
    <2> TAKE n \in 1..N
    <2>1. \E m \in set : m.id = Nth(ids, n)
      BY <1>4
    <2> QED BY <2>1
  <1>6. InOrder(set) = [n \in 1..N |-> pick(n)]
    BY DEF InOrder
  <1>7. \A m \in set : \E n \in 1..N : pick(n) = m
    <2> TAKE m \in set
    <2>1. PICK n \in 1..N : Nth(ids, n) = m.id
      BY <1>4
    <2>2. pick(n) \in set /\ pick(n).id = m.id
      BY <1>5, <2>1
    <2> HIDE DEF pick
    <2> QED BY <2>2 DEF Tidy
  <1> HIDE DEF pick, ids
  <1>8. InOrder(set) \in [1..N -> set]
    BY <1>5, <1>6
  <1>9. InOrder(set) \in Seq(set) /\ Len(InOrder(set)) = N
    BY <1>4, <1>8
  <1> QED BY <1>6, <1>7, <1>9

-----------------------------------------------------------------------------
(***************************************************************************)
(* What the caps may drop.  The versions are, in order, some of the        *)
(* snapshots; a snapshot that is no version has been followed by           *)
(* PerMessage others of its message or by PerConversation others.          *)
(***************************************************************************)
Later(sn, i) == { j \in DOMAIN sn : j > i /\ sn[j].msg = sn[i].msg }
Outnumbered(sn, i) == \/ Cardinality(Later(sn, i)) >= PerMessage
                      \/ Len(sn) - i >= PerConversation

Traces(f, vs, sn) ==
    /\ \A k \in DOMAIN vs : vs[k] = sn[f[k]]
    /\ \A k, l \in DOMAIN vs : k < l => f[k] < f[l]
    /\ \A i \in DOMAIN sn : (\E k \in DOMAIN vs : f[k] = i) \/ Outnumbered(sn, i)

Ledger(vs, sn) == \E f \in [DOMAIN vs -> DOMAIN sn] : Traces(f, vs, sn)

\* An increasing map of finite sets of numbers.
LEMMA IncreasingBound ==
    ASSUME NEW A \in SUBSET Nat, NEW B, IsFiniteSet(B), NEW g \in [A -> B], B \subseteq Nat,
           \A k, l \in A : k < l => g[k] < g[l]
    PROVE  IsFiniteSet(A) /\ Cardinality(A) <= Cardinality(B)
  <1>1. \A k, l \in A : g[k] = g[l] => k = l
    <2> SUFFICES ASSUME NEW k \in A, NEW l \in A, k # l PROVE g[k] # g[l]
      OBVIOUS
    <2>1. k < l \/ l < k
      OBVIOUS
    <2>2. g[k] \in Nat /\ g[l] \in Nat
      OBVIOUS
    <2>3. g[k] < g[l] \/ g[l] < g[k]
      BY <2>1
    <2> QED BY <2>2, <2>3
  <1>2. g \in Injection(A, B)
    BY <1>1 DEF Injection, IsInjective
  <1> QED BY <1>2, FS_Injection

LEMMA TraceCounts ==
    ASSUME NEW S, NEW vs \in Seq(S), NEW sn \in Seq(S),
           NEW f \in [DOMAIN vs -> DOMAIN sn], Traces(f, vs, sn), NEW k \in DOMAIN vs
    PROVE  /\ IsFiniteSet(Later(vs, k)) /\ Cardinality(Later(vs, k)) <= Cardinality(Later(sn, f[k]))
           /\ Len(vs) - k <= Len(sn) - f[k]
  <1>0. /\ Len(vs) \in Nat /\ DOMAIN vs = 1..Len(vs)
        /\ Len(sn) \in Nat /\ DOMAIN sn = 1..Len(sn)
        /\ f[k] \in 1..Len(sn)
    OBVIOUS
  <1>f. /\ \A x, y \in DOMAIN vs : x < y => f[x] < f[y]
        /\ \A x \in DOMAIN vs : vs[x] = sn[f[x]]
    BY DEF Traces
  <1>1. IsFiniteSet(Later(vs, k)) /\ Cardinality(Later(vs, k)) <= Cardinality(Later(sn, f[k]))
    <2> DEFINE g == [j \in Later(vs, k) |-> f[j]]
    <2>1. /\ Later(sn, f[k]) \in SUBSET (1..Len(sn))
          /\ Later(vs, k) \in SUBSET (DOMAIN vs) /\ Later(vs, k) \in SUBSET Nat
      BY <1>0 DEF Later
    <2>2. IsFiniteSet(Later(sn, f[k]))
      <3>1. IsFiniteSet(1..Len(sn))
        BY <1>0, FS_Interval
      <3> QED BY <2>1, <3>1, FS_Subset
    <2>3. g \in [Later(vs, k) -> Later(sn, f[k])]
      <3> SUFFICES ASSUME NEW j \in Later(vs, k) PROVE f[j] \in Later(sn, f[k])
        OBVIOUS
      <3>1. j \in DOMAIN vs /\ k < j /\ vs[j].msg = vs[k].msg
        BY <1>0 DEF Later
      <3>2. f[j] \in DOMAIN sn /\ f[k] < f[j] /\ sn[f[j]].msg = sn[f[k]].msg
        BY <1>f, <3>1
      <3> QED BY <1>0, <3>2 DEF Later
    <2>4. \A x, y \in Later(vs, k) : x < y => g[x] < g[y]
      BY <1>f, <2>1
    <2> HIDE DEF g
    <2>5. ASSUME NEW A, A = Later(vs, k), NEW B, B = Later(sn, f[k])
          PROVE  IsFiniteSet(A) /\ Cardinality(A) <= Cardinality(B)
      <3>1. A \in SUBSET Nat /\ B \subseteq Nat /\ IsFiniteSet(B)
        BY <1>0, <2>1, <2>2, <2>5
      <3>2. g \in [A -> B] /\ \A x, y \in A : x < y => g[x] < g[y]
        BY <2>3, <2>4, <2>5
      <3> QED BY <3>1, <3>2, IncreasingBound
    <2> QED BY <2>5
  <1>2. Len(vs) - k <= Len(sn) - f[k]
    <2> DEFINE A == (k + 1)..Len(vs)
               B == (f[k] + 1)..Len(sn)
               g == [j \in A |-> f[j]]
    <2>1. A \in SUBSET Nat /\ B \subseteq Nat /\ A \subseteq DOMAIN vs
      BY <1>0
    <2>2. g \in [A -> B]
      <3> SUFFICES ASSUME NEW j \in A PROVE f[j] \in B
        OBVIOUS
      <3>1. j \in DOMAIN vs /\ k < j
        BY <1>0
      <3>2. f[j] \in 1..Len(sn) /\ f[k] < f[j]
        BY <1>0, <1>f, <3>1
      <3> QED BY <1>0, <3>2
    <2>3. \A x, y \in A : x < y => g[x] < g[y]
      BY <1>f, <2>1
    <2>4. IsFiniteSet(B)
      BY <1>0, FS_Interval
    <2>5. Cardinality(A) <= Cardinality(B)
      <3> HIDE DEF g, A, B
      <3> QED BY <2>1, <2>2, <2>3, <2>4, IncreasingBound
    <2>6. /\ Cardinality(A) = Len(vs) - k
          /\ Cardinality(B) = Len(sn) - f[k]
      <3>1. \A n \in Nat : \A i \in 1..n : Cardinality((i + 1)..n) = n - i
        <4> TAKE n \in Nat
        <4> TAKE i \in 1..n
        <4>1. i + 1 \in Int /\ n \in Int
          OBVIOUS
        <4>2. Cardinality((i + 1)..n) = IF i + 1 > n THEN 0 ELSE n - (i + 1) + 1
          BY <4>1, FS_Interval
        <4> QED BY <4>2
      <3> QED BY <1>0, <3>1
    <2> QED BY <2>5, <2>6
  <1> QED BY <1>1, <1>2

LEMMA Caps == {PerMessage, PerConversation} \subseteq Nat \ {0} /\ PerMessage <= PerConversation
  BY ChatTurnAssumption

LEMMA LaterGrows ==
    ASSUME NEW S, NEW sn \in Seq(S), NEW x \in S, NEW i \in DOMAIN sn, Outnumbered(sn, i)
    PROVE  Outnumbered(Append(sn, x), i)
  <1> DEFINE tn == Append(sn, x)
  <1>1. /\ Len(sn) \in Nat /\ DOMAIN sn = 1..Len(sn)
        /\ Len(tn) = Len(sn) + 1 /\ DOMAIN tn = 1..(Len(sn) + 1)
        /\ \A j \in 1..Len(sn) : tn[j] = sn[j]
    OBVIOUS
  <1> HIDE DEF tn
  <1>2. Later(sn, i) \in SUBSET Later(tn, i) /\ Later(tn, i) \in SUBSET (1..(Len(sn) + 1))
    BY <1>1 DEF Later
  <1>3. IsFiniteSet(1..(Len(sn) + 1))
    BY <1>1, FS_Interval
  <1>4. IsFiniteSet(Later(tn, i))
    BY <1>2, <1>3, FS_Subset
  <1>5. /\ Cardinality(Later(sn, i)) <= Cardinality(Later(tn, i))
        /\ Cardinality(Later(sn, i)) \in Nat /\ Cardinality(Later(tn, i)) \in Nat
    BY <1>2, <1>4, FS_Subset, FS_CardinalityType
  <1> QED BY <1>1, <1>5, Caps DEF Outnumbered, tn

\* One more snapshot, one more version.
LEMMA LedgerAppend ==
    ASSUME NEW S, NEW vs \in Seq(S), NEW sn \in Seq(S), NEW x \in S, Ledger(vs, sn)
    PROVE  Ledger(Append(vs, x), Append(sn, x))
  <1> DEFINE us == Append(vs, x)
             tn == Append(sn, x)
  <1>0. PICK f \in [DOMAIN vs -> DOMAIN sn] : Traces(f, vs, sn)
    BY DEF Ledger
  <1> DEFINE g == [k \in DOMAIN us |-> IF k \in DOMAIN vs THEN f[k] ELSE Len(sn) + 1]
  <1>1. /\ Len(sn) \in Nat /\ DOMAIN sn = 1..Len(sn)
        /\ DOMAIN tn = 1..(Len(sn) + 1)
        /\ \A j \in 1..Len(sn) : tn[j] = sn[j]
        /\ tn[Len(sn) + 1] = x
        /\ Len(vs) \in Nat /\ DOMAIN vs = 1..Len(vs)
        /\ DOMAIN us = 1..(Len(vs) + 1)
        /\ \A j \in 1..Len(vs) : us[j] = vs[j]
        /\ us[Len(vs) + 1] = x
    OBVIOUS
  <1>2. \A i \in DOMAIN sn : Outnumbered(sn, i) => Outnumbered(tn, i)
    BY LaterGrows
  <1> HIDE DEF us, tn
  <1>3. /\ \A k \in DOMAIN vs : g[k] = f[k] /\ g[k] \in 1..Len(sn)
        /\ g[Len(vs) + 1] = Len(sn) + 1
        /\ DOMAIN g = DOMAIN us
    BY <1>1
  <1>4. g \in [DOMAIN us -> DOMAIN tn]
    BY <1>1
  <1> HIDE DEF g
  <1>5. \A k \in DOMAIN us : us[k] = tn[g[k]]
    <2> TAKE k \in DOMAIN us
    <2>1. CASE k \in DOMAIN vs
      BY <1>0, <1>1, <1>3, <2>1 DEF Traces
    <2>2. CASE k = Len(vs) + 1
      BY <1>1, <1>3, <2>2
    <2> QED BY <1>1, <2>1, <2>2
  <1>6. \A k, l \in DOMAIN us : k < l => g[k] < g[l]
    <2> SUFFICES ASSUME NEW k \in DOMAIN us, NEW l \in DOMAIN us, k < l PROVE g[k] < g[l]
      OBVIOUS
    <2>1. k \in DOMAIN vs
      BY <1>1
    <2>2. CASE l \in DOMAIN vs
      BY <1>0, <1>3, <2>1, <2>2 DEF Traces
    <2>3. CASE l = Len(vs) + 1
      BY <1>1, <1>3, <2>1, <2>3
    <2> QED BY <1>1, <2>2, <2>3
  <1>7. \A i \in DOMAIN tn : (\E k \in DOMAIN us : g[k] = i) \/ Outnumbered(tn, i)
    <2> TAKE i \in DOMAIN tn
    <2>1. CASE i \in DOMAIN sn
      <3>1. (\E k \in DOMAIN vs : f[k] = i) \/ Outnumbered(sn, i)
        BY <1>0, <2>1 DEF Traces
      <3> QED BY <1>1, <1>2, <1>3, <2>1, <3>1
    <2>2. CASE i = Len(sn) + 1
      BY <1>1, <1>3, <2>2
    <2> QED BY <1>1, <2>1, <2>2
  <1> QED BY <1>4, <1>5, <1>6, <1>7 DEF Ledger, Traces, us, tn

\* The caps drop only what has been followed by enough.
LEMMA LedgerPrune ==
    ASSUME NEW S, NEW vs \in Seq(S), NEW sn \in Seq(S), Ledger(vs, sn)
    PROVE  PruneVersions(vs) \in Seq(S) /\ Ledger(PruneVersions(vs), sn)
  <1> DEFINE kept == { i \in DOMAIN vs : Cardinality(Later(vs, i)) < PerMessage
                                            /\ i > Len(vs) - PerConversation }
             N == Cardinality(kept)
             us == PruneVersions(vs)
  <1>0. PICK f \in [DOMAIN vs -> DOMAIN sn] : Traces(f, vs, sn)
    BY DEF Ledger
  <1>1. /\ Len(vs) \in Nat /\ DOMAIN vs = 1..Len(vs) /\ \A k \in DOMAIN vs : vs[k] \in S
        /\ Len(sn) \in Nat /\ DOMAIN sn = 1..Len(sn)
    OBVIOUS
  <1>2. us = [n \in 1..N |-> vs[Nth(kept, n)]]
    BY DEF PruneVersions, Later
  <1>3. kept \in SUBSET Nat /\ kept \subseteq DOMAIN vs /\ IsFiniteSet(kept)
    <2>1. IsFiniteSet(1..Len(vs))
      BY <1>1, FS_Interval
    <2> QED BY <1>1, <2>1, FS_Subset
  <1>4. ASSUME NEW k \in DOMAIN vs, k \notin kept PROVE Outnumbered(sn, f[k])
    <2>1. /\ IsFiniteSet(Later(vs, k)) /\ Cardinality(Later(vs, k)) <= Cardinality(Later(sn, f[k]))
          /\ Len(vs) - k <= Len(sn) - f[k]
      BY <1>0, TraceCounts
    <2>2. /\ Cardinality(Later(vs, k)) \in Nat
          /\ PerMessage \in Nat /\ PerConversation \in Nat
      BY <2>1, FS_CardinalityType, Caps
    <2>3. /\ f[k] \in Nat
          /\ IsFiniteSet(Later(sn, f[k])) /\ Cardinality(Later(sn, f[k])) \in Nat
      <3>1. Later(sn, f[k]) \in SUBSET (1..Len(sn)) /\ IsFiniteSet(1..Len(sn))
        BY <1>1, FS_Interval DEF Later
      <3> QED BY <1>1, <3>1, FS_Subset, FS_CardinalityType
    <2>4. ~ (Cardinality(Later(vs, k)) < PerMessage) \/ ~ (k > Len(vs) - PerConversation)
      BY <1>4
    <2> QED BY <1>1, <2>1, <2>2, <2>3, <2>4 DEF Outnumbered
  <1> HIDE DEF kept
  <1>5. /\ N \in Nat
        /\ \A n \in 1..N : Nth(kept, n) \in kept
        /\ \A m, n \in 1..N : m < n => Nth(kept, m) < Nth(kept, n)
        /\ \A i \in kept : \E n \in 1..N : Nth(kept, n) = i
    BY <1>3, Enumerates
  <1>6. us \in [1..N -> S]
    BY <1>1, <1>2, <1>3, <1>5
  <1>7. us \in Seq(S) /\ DOMAIN us = 1..N
    <2>1. N \in Nat
      BY <1>5
    <2> HIDE DEF us, N
    <2> QED BY <1>6, <2>1
  <1> DEFINE g == [n \in 1..N |-> f[Nth(kept, n)]]
  <1>8. g \in [1..N -> DOMAIN sn]
    BY <1>3, <1>5
  <1>9. \A n \in 1..N : us[n] = sn[g[n]]
    <2> TAKE n \in 1..N
    <2>1. Nth(kept, n) \in DOMAIN vs
      BY <1>3, <1>5
    <2> QED BY <1>0, <1>2, <2>1 DEF Traces
  <1>10. \A m, n \in 1..N : m < n => g[m] < g[n]
    <2> SUFFICES ASSUME NEW m \in 1..N, NEW n \in 1..N, m < n PROVE g[m] < g[n]
      OBVIOUS
    <2>1. /\ Nth(kept, m) \in DOMAIN vs /\ Nth(kept, n) \in DOMAIN vs
          /\ Nth(kept, m) < Nth(kept, n)
      BY <1>3, <1>5
    <2> QED BY <1>0, <2>1 DEF Traces
  <1>11. \A i \in DOMAIN sn : (\E n \in 1..N : g[n] = i) \/ Outnumbered(sn, i)
    <2> TAKE i \in DOMAIN sn
    <2>1. CASE \E k \in DOMAIN vs : f[k] = i
      <3>1. PICK k \in DOMAIN vs : f[k] = i
        BY <2>1
      <3>2. CASE k \in kept
        BY <1>5, <3>1, <3>2
      <3>3. CASE k \notin kept
        BY <1>4, <3>1, <3>3
      <3> QED BY <3>2, <3>3
    <2>2. CASE Outnumbered(sn, i)
      BY <2>2
    <2> QED BY <1>0, <2>1, <2>2 DEF Traces
  <1> HIDE DEF g, us
  <1>12. Traces(g, us, sn)
    BY <1>7, <1>9, <1>10, <1>11 DEF Traces
  <1>13. Ledger(us, sn)
    BY <1>7, <1>8, <1>12 DEF Ledger
  <1> QED BY <1>7, <1>13 DEF us

\* One snapshot after the other: the recursion of SnapshotAll has a value.
Stages(g, n, vs, ms) ==
    g = [i \in 0..n |-> IF i = 0 THEN vs ELSE PruneVersions(Append(g[i - 1], Version(ms[i])))]

LEMMA StagesExist ==
    ASSUME NEW n \in Nat, NEW vs, NEW ms
    PROVE  \E g : Stages(g, n, vs, ms)
  <1> DEFINE T == { k \in 0..n : \E g : Stages(g, k, vs, ms) }
  <1>1. 0 \in T
    <2> DEFINE g == [i \in 0..0 |-> vs]
    <2>1. g = [i \in 0..0 |-> IF i = 0 THEN vs ELSE PruneVersions(Append(g[i - 1], Version(ms[i])))]
      OBVIOUS
    <2>2. Stages(g, 0, vs, ms)
      BY <2>1 DEF Stages
    <2> HIDE DEF g
    <2> QED BY <2>2
  <1>2. ASSUME NEW k \in T, k < n PROVE k + 1 \in T
    <2>1. PICK g : Stages(g, k, vs, ms)
      OBVIOUS
    <2> DEFINE Next1(i) == PruneVersions(Append(g[i - 1], Version(ms[i])))
               h == [i \in 0..(k + 1) |-> IF i = 0 THEN vs ELSE Next1(i)]
    <2>2. \A i \in 0..k : h[i] = g[i]
      <3>1. g = [i \in 0..k |-> IF i = 0 THEN vs ELSE Next1(i)]
        BY <2>1 DEF Stages
      <3> HIDE DEF Next1
      <3>2. \A i \in 0..k : i \in 0..(k + 1)
        OBVIOUS
      <3> QED BY <3>1, <3>2
    <2>3. \A i \in 0..(k + 1) : i # 0 => h[i - 1] = g[i - 1]
      <3>1. \A i \in 0..(k + 1) : i # 0 => i - 1 \in 0..k
        OBVIOUS
      <3> HIDE DEF h
      <3> QED BY <2>2, <3>1
    <2>4. h = [i \in 0..(k + 1) |-> IF i = 0 THEN vs ELSE PruneVersions(Append(h[i - 1], Version(ms[i])))]
      <3>1. \A i \in 0..(k + 1) : i # 0 =>
               Next1(i) = PruneVersions(Append(h[i - 1], Version(ms[i])))
        BY <2>3
      <3> QED BY <3>1
    <2>5. Stages(h, k + 1, vs, ms)
      <3> HIDE DEF h
      <3> QED BY <2>4 DEF Stages
    <2> HIDE DEF h
    <2> QED BY <1>2, <2>5
  <1> HIDE DEF T
  <1>3. n \in T
    <2>1. T \in SUBSET (0..n)
      BY DEF T
    <2> QED BY <1>1, <1>2, <2>1, Induction
  <1> QED BY <1>3 DEF T

LEMMA SnapshotStages ==
    ASSUME NEW vs, NEW ms, Len(ms) \in Nat
    PROVE  \E g : Stages(g, Len(ms), vs, ms) /\ SnapshotAll(vs, ms) = g[Len(ms)]
  <1> DEFINE after == CHOOSE g : Stages(g, Len(ms), vs, ms)
  <1>1. Stages(after, Len(ms), vs, ms)
    BY StagesExist
  <1>2. SnapshotAll(vs, ms) = after[Len(ms)]
    BY DEF SnapshotAll, Stages
  <1> QED BY <1>1, <1>2

Versions(ms) == [i \in DOMAIN ms |-> Version(ms[i])]

\* Taking versions of any number of messages keeps the ledger.
LEMMA LedgerSnapshots ==
    ASSUME NEW S, NEW vs \in Seq(S), NEW sn \in Seq(S), Ledger(vs, sn),
           NEW R, NEW ms \in Seq(R), \A m \in R : Version(m) \in S
    PROVE  /\ SnapshotAll(vs, ms) \in Seq(S)
           /\ Ledger(SnapshotAll(vs, ms), sn \o Versions(ms))
  <1>0. /\ Len(ms) \in Nat /\ DOMAIN ms = 1..Len(ms)
        /\ Len(sn) \in Nat /\ DOMAIN sn = 1..Len(sn)
        /\ \A i \in 1..Len(ms) : Version(ms[i]) \in S
        /\ \A i \in 1..Len(sn) : sn[i] \in S
    OBVIOUS
  <1>1. PICK g : Stages(g, Len(ms), vs, ms) /\ SnapshotAll(vs, ms) = g[Len(ms)]
    BY <1>0, SnapshotStages
  <1> DEFINE upto(k) == [j \in 1..(Len(sn) + k) |->
                            IF j <= Len(sn) THEN sn[j] ELSE Version(ms[j - Len(sn)])]
             T == { k \in 0..Len(ms) : g[k] \in Seq(S) /\ Ledger(g[k], upto(k)) }
  <1>2. upto(0) = sn
    BY <1>0
  <1>3. ASSUME NEW k \in 0..Len(ms) PROVE upto(k) \in Seq(S)
    <2> DEFINE n == Len(sn) + k
    <2>1. upto(k) \in [1..n -> S]
      BY <1>0
    <2>2. n \in Nat
      BY <1>0
    <2> HIDE DEF upto, n
    <2> QED BY <2>1, <2>2, FcnIsSeq
  <1>4. ASSUME NEW k \in 0..Len(ms), k < Len(ms)
        PROVE  upto(k + 1) = Append(upto(k), Version(ms[k + 1]))
    <2> DEFINE x == Version(ms[k + 1])
               n == Len(sn) + k
    <2>1. n \in Nat /\ k + 1 \in 1..Len(ms) /\ x \in S /\ (Len(sn) + (k + 1)) = n + 1
          /\ (n + 1) - Len(sn) = k + 1 /\ ~ (n + 1 <= Len(sn))
      BY <1>0, <1>4
    <2>2. upto(k) \in [1..n -> S]
      BY <1>0
    <2>3. Append(upto(k), x) = [j \in 1..(n + 1) |-> IF j = n + 1 THEN x ELSE upto(k)[j]]
      <3> HIDE DEF upto, x, n
      <3>1. upto(k) \in Seq(S) /\ Len(upto(k)) = n
        BY <2>1, <2>2, FcnIsSeq
      <3>2. x \in S
        BY <2>1
      <3>3. Append(upto(k), x) = [j \in 1..(Len(upto(k)) + 1) |->
                                    IF j = Len(upto(k)) + 1 THEN x ELSE upto(k)[j]]
        BY <3>1, <3>2, AppendOf
      <3> QED BY <3>1, <3>3
    <2>4. \A j \in 1..(n + 1) : upto(k + 1)[j] = IF j = n + 1 THEN x ELSE upto(k)[j]
      <3> TAKE j \in 1..(n + 1)
      <3>1. j # n + 1 => j \in 1..n
        BY <2>1
      <3> QED BY <1>0, <2>1, <3>1
    <2>5. upto(k + 1) = [j \in 1..(n + 1) |-> upto(k + 1)[j]]
      BY <2>1
    <2> HIDE DEF upto, n
    <2> QED BY <2>3, <2>4, <2>5
  <1>5. 0 \in T
    <2>1. g[0] = vs
      BY <1>0, <1>1 DEF Stages
    <2> HIDE DEF upto
    <2> QED BY <1>0, <1>2, <2>1
  <1>6. ASSUME NEW k \in T, k < Len(ms) PROVE k + 1 \in T
    <2> HIDE DEF upto
    <2>1. g[k + 1] = PruneVersions(Append(g[k], Version(ms[k + 1])))
      <3>1. k + 1 \in 0..Len(ms) /\ k + 1 # 0 /\ (k + 1) - 1 = k
        BY <1>0, <1>6
      <3> QED BY <1>1, <3>1 DEF Stages
    <2>2. g[k] \in Seq(S) /\ Ledger(g[k], upto(k)) /\ k \in 0..Len(ms)
      OBVIOUS
    <2>3. k + 1 \in 1..Len(ms) /\ k + 1 \in 0..Len(ms)
      BY <1>0, <1>6, <2>2
    <2>4. Version(ms[k + 1]) \in S
      BY <1>0, <2>3
    <2>5. Ledger(Append(g[k], Version(ms[k + 1])), upto(k + 1))
      BY <1>3, <1>4, <1>6, <2>2, <2>4, LedgerAppend
    <2>6. Append(g[k], Version(ms[k + 1])) \in Seq(S)
      BY <2>2, <2>4
    <2>7. upto(k + 1) \in Seq(S)
      BY <1>3, <2>3
    <2>8. g[k + 1] \in Seq(S) /\ Ledger(g[k + 1], upto(k + 1))
      BY <2>1, <2>5, <2>6, <2>7, LedgerPrune
    <2> QED BY <2>3, <2>8
  <1>7. Len(ms) \in T
    <2>1. T \in SUBSET (0..Len(ms))
      OBVIOUS
    <2> HIDE DEF T
    <2> QED BY <1>0, <1>5, <1>6, <2>1, Induction
  <1>8. sn \o Versions(ms) = upto(Len(ms))
    <2> DEFINE vm == Versions(ms)
    <2>1. vm \in [1..Len(ms) -> S] /\ \A i \in 1..Len(ms) : vm[i] = Version(ms[i])
      BY <1>0 DEF Versions
    <2> HIDE DEF vm
    <2>2. vm \in Seq(S) /\ Len(vm) = Len(ms)
      BY <1>0, <2>1
    <2>3. sn \o vm = [j \in 1..(Len(sn) + Len(ms)) |-> IF j <= Len(sn) THEN sn[j] ELSE vm[j - Len(sn)]]
      BY <2>2, ConcatOf
    <2>4. \A j \in 1..(Len(sn) + Len(ms)) : ~ (j <= Len(sn)) => vm[j - Len(sn)] = Version(ms[j - Len(sn)])
      BY <1>0, <2>1
    <2> QED BY <2>3, <2>4 DEF vm
  <1> HIDE DEF upto
  <1> QED BY <1>1, <1>7, <1>8

-----------------------------------------------------------------------------
(***************************************************************************)
(* The inductive invariant.                                                *)
(***************************************************************************)
TailOf(t) == ToSet(turns[t].tail)
AskOf(t)  == ToSet(turns[t].ask)
Live(t)   == turns[t].phase \in {"generating", "refusing"}
Taken     == ToSet(snaps)

TurnFields == {"phase", "tail", "ask", "pend"}
RowFields  == {"id", "role", "stamp", "status", "body"}

Shapes == /\ DOMAIN turns = Turns /\ \A t \in Turns : TurnFields \subseteq DOMAIN turns[t]
          /\ clock \in Nat
          /\ \A m \in msgs : RowFields \subseteq DOMAIN m

\* Ids are given once; a row that is being generated has not been touched.
Rows == /\ Tidy(msgs)
        /\ \A m \in msgs : m.id <= clock /\ (IsGenerating(m) => m.stamp = m.id)

\* A question that is not committed has an id of its own.
Unsent(t) ==
    /\ Tidy(AskOf(t))
    /\ \A a \in AskOf(t) : /\ a.id <= clock /\ ~ IsGenerating(a) /\ RowFields \subseteq DOMAIN a
                           /\ \A m \in msgs : m.id # a.id
                           /\ \A u \in Turns \ {t} : \A b \in AskOf(u) : a.id # b.id

\* What a regenerate will delete is never being generated, whatever it is by now.
Tails(t) == /\ Tidy(TailOf(t))
            /\ \A d \in TailOf(t) : /\ d.id <= clock /\ ~ IsGenerating(d)
                                    /\ \A m \in msgs : m.id = d.id => ~ IsGenerating(m)

\* Nor is what an edit, a switch or a truncation has read, and no text it brings is
\* a pending one.
Reads == \A e \in edits :
            /\ Tidy(e.rows) /\ (e.text # << >> => e.text[1].status # "pending")
            /\ \A d \in e.rows : /\ d.id <= clock /\ ~ IsGenerating(d)
                                 /\ \A m \in msgs : m.id = d.id => ~ IsGenerating(m)

\* A version is never one of a row that is being generated.
Snaps == /\ snaps \in Seq(Taken) /\ versions \in Seq(Taken)
         /\ IF alive THEN Ledger(versions, snaps) ELSE versions = << >>
         /\ \A v \in Taken : /\ v.status # "pending" /\ v.msg \in Nat /\ v.msg <= clock
                             /\ \A m \in msgs : m.id = v.msg => ~ IsGenerating(m)

\* Turns that write have rows of their own, which are being generated.
Writers == \A t \in Turns : Live(t) =>
              /\ turns[t].pend \in Nat /\ turns[t].pend <= clock
              /\ alive => \E m \in msgs : m.id = turns[t].pend /\ IsGenerating(m)
              /\ \A u \in Turns \ {t} : Live(u) => turns[u].pend # turns[t].pend

Recorded == alive => \A s \in written : \/ \E m \in msgs : m.stamp = s
                                        \/ \E v \in Taken : v.stamp = s

HistoryInv == /\ Shapes /\ Rows /\ Reads /\ Snaps /\ Writers /\ Recorded
              /\ \A t \in Turns : Unsent(t) /\ Tails(t)

-----------------------------------------------------------------------------
(* What taking versions does to the history.                                *)

LEMMA SnapshotKeeps ==
    ASSUME NEW set, Tidy(set), Snapshot(set),
           snaps \in Seq(Taken), versions \in Seq(Taken), Ledger(versions, snaps)
    PROVE  /\ Taken' = Taken \cup { Version(m) : m \in set }
           /\ snaps' \in Seq(Taken') /\ versions' \in Seq(Taken') /\ Ledger(versions', snaps')
  <1> DEFINE S == Taken \cup { Version(m) : m \in set }
             ms == InOrder(set)
             N == Len(snaps)
  <1>1. ms \in Seq(set) /\ \A m \in set : \E i \in 1..Len(ms) : ms[i] = m
    BY Ordered
  <1>2. snaps' = snaps \o Versions(ms) /\ versions' = SnapshotAll(versions, ms)
    BY DEF Snapshot, Versions
  <1>3. \A m \in set : Version(m) \in S
    OBVIOUS
  <1>4. snaps \in Seq(S) /\ versions \in Seq(S)
    <2>1. Taken \subseteq S
      OBVIOUS
    <2> HIDE DEF S
    <2> QED BY <2>1
  <1> HIDE DEF S, ms
  <1>5. versions' \in Seq(S) /\ Ledger(versions', snaps')
    BY <1>1, <1>2, <1>3, <1>4, LedgerSnapshots
  <1>6. /\ Versions(ms) \in Seq(S) /\ Len(Versions(ms)) = Len(ms)
        /\ \A i \in 1..Len(ms) : Versions(ms)[i] = Version(ms[i])
    <2>1. Len(ms) \in Nat /\ DOMAIN ms = 1..Len(ms) /\ \A i \in 1..Len(ms) : Version(ms[i]) \in S
      BY <1>1, <1>3
    <2>2. Versions(ms) \in [1..Len(ms) -> S]
      BY <2>1 DEF Versions
    <2>3. \A i \in 1..Len(ms) : Versions(ms)[i] = Version(ms[i])
      BY <2>1 DEF Versions
    <2> QED BY <2>1, <2>2, <2>3, FcnIsSeq
  <1>7. /\ snaps' \in Seq(S) /\ Len(snaps') = N + Len(ms) /\ N \in Nat /\ Len(ms) \in Nat
        /\ \A i \in 1..N : snaps'[i] = snaps[i]
        /\ \A i \in 1..Len(ms) : snaps'[N + i] = Version(ms[i])
    <2> DEFINE vm == Versions(ms)
    <2>1. vm \in Seq(S) /\ snaps' = snaps \o vm /\ Len(vm) = Len(ms) /\ N \in Nat /\ Len(ms) \in Nat
      BY <1>1, <1>2, <1>4, <1>6
    <2>2. snaps' = [j \in 1..(N + Len(vm)) |-> IF j <= N THEN snaps[j] ELSE vm[j - N]]
      BY <1>4, <2>1, ConcatOf
    <2>3. snaps' \in Seq(S) /\ Len(snaps') = N + Len(ms)
      <3> HIDE DEF vm
      <3>1. Len(snaps \o vm) = Len(snaps) + Len(vm) /\ snaps \o vm \in Seq(S)
        BY <1>4, <2>1, ConcatType
      <3> QED BY <2>1, <3>1
    <2>4. \A i \in 1..N : snaps'[i] = snaps[i]
      BY <2>1, <2>2
    <2>5. \A i \in 1..Len(ms) : snaps'[N + i] = vm[i]
      <3>1. \A i \in 1..Len(ms) : N + i \in 1..(N + Len(vm)) /\ ~ (N + i <= N) /\ (N + i) - N = i
        BY <2>1
      <3> HIDE DEF vm, N
      <3> QED BY <2>2, <3>1
    <2> QED BY <1>6, <2>1, <2>3, <2>4, <2>5
  <1>8. \A v \in Taken : v \in Taken'
    <2> TAKE v \in Taken
    <2>1. PICK i \in 1..N : snaps[i] = v
      BY DEF Taken, ToSet
    <2>2. i \in 1..Len(snaps') /\ snaps'[i] = v
      BY <1>7, <2>1
    <2>3. i \in DOMAIN snaps'
      BY <1>7, <2>2
    <2> QED BY <2>2, <2>3 DEF Taken, ToSet
  <1>9. \A m \in set : Version(m) \in Taken'
    <2> TAKE m \in set
    <2>1. PICK i \in 1..Len(ms) : ms[i] = m
      BY <1>1
    <2>2. N + i \in 1..Len(snaps') /\ snaps'[N + i] = Version(m)
      BY <1>7, <2>1
    <2>3. \E j \in DOMAIN snaps' : snaps'[j] = Version(m)
      <3>1. DOMAIN snaps' = 1..Len(snaps')
        BY <1>7
      <3> HIDE DEF N
      <3> QED BY <2>2, <3>1
    <2> QED BY <2>3 DEF Taken, ToSet
  <1>10. \A v \in Taken' : v \in S
    BY <1>7 DEF Taken, ToSet
  <1>11. Taken' = S
    BY <1>8, <1>9, <1>10 DEF S
  <1> QED BY <1>5, <1>7, <1>11 DEF S

-----------------------------------------------------------------------------
(* Steps that leave the conversation alone.                                 *)

WorldSame == UNCHANGED <<msgs, versions, alive, edits, written, snaps, clock>>

\* Turns only move on, let go of rows or give up.
Leaner == /\ DOMAIN turns' = Turns
          /\ \A t \in Turns : /\ TurnFields \subseteq DOMAIN turns'[t]
                              /\ TailOf(t)' = TailOf(t) \/ TailOf(t)' = {}
                              /\ AskOf(t)' = AskOf(t) \/ AskOf(t)' = {}
                              /\ Live(t)' => Live(t) /\ turns'[t].pend = turns[t].pend

LEMMA TidyEmpty == Tidy({})
  BY FS_EmptySet DEF Tidy

LEMMA IdleTurnFields ==
    /\ TurnFields \subseteq DOMAIN IdleTurn
    /\ IdleTurn.phase = "idle" /\ ToSet(IdleTurn.tail) = {} /\ ToSet(IdleTurn.ask) = {}
  BY DEF IdleTurn, TurnFields, ToSet

\* One turn becomes x.
LEMMA LeanerTurn ==
    ASSUME Shapes, NEW t \in Turns, NEW x, turns' = [turns EXCEPT ![t] = x],
           TurnFields \subseteq DOMAIN x,
           ToSet(x.tail) = TailOf(t) \/ ToSet(x.tail) = {},
           ToSet(x.ask) = AskOf(t) \/ ToSet(x.ask) = {},
           x.phase \in {"generating", "refusing"} => Live(t) /\ x.pend = turns[t].pend
    PROVE  Leaner
  <1>1. DOMAIN turns' = Turns /\ turns'[t] = x /\ \A u \in Turns \ {t} : turns'[u] = turns[u]
    BY DEF Shapes
  <1>2. /\ TurnFields \subseteq DOMAIN turns'[t]
        /\ TailOf(t)' = TailOf(t) \/ TailOf(t)' = {}
        /\ AskOf(t)' = AskOf(t) \/ AskOf(t)' = {}
        /\ Live(t)' => Live(t) /\ turns'[t].pend = turns[t].pend
    BY <1>1 DEF TailOf, AskOf, Live
  <1>3. ASSUME NEW u \in Turns \ {t}
        PROVE  /\ TurnFields \subseteq DOMAIN turns'[u]
               /\ TailOf(u)' = TailOf(u) /\ AskOf(u)' = AskOf(u)
               /\ Live(u)' => Live(u) /\ turns'[u].pend = turns[u].pend
    BY <1>1 DEF TailOf, AskOf, Live, Shapes
  <1> QED BY <1>1, <1>2, <1>3 DEF Leaner

LEMMA LeanerIdle ==
    ASSUME Shapes, NEW t \in Turns, turns' = [turns EXCEPT ![t] = IdleTurn]
    PROVE  Leaner
  BY LeanerTurn, IdleTurnFields

LEMMA QuietStep ==
    ASSUME HistoryInv, WorldSame, Leaner
    PROVE  HistoryInv'
  <1>1. Shapes'
    BY DEF HistoryInv, Shapes, Leaner, WorldSame
  <1>2. Rows' /\ Recorded'
    BY DEF HistoryInv, WorldSame, Rows, Recorded, Taken
  <1>3. Reads' /\ Snaps'
    BY DEF HistoryInv, WorldSame, Reads, Snaps, Taken
  <1>4. Writers'
    BY DEF HistoryInv, WorldSame, Writers, Leaner
  <1>5. \A t \in Turns : Unsent(t)'
    <2> SUFFICES ASSUME NEW t \in Turns PROVE Unsent(t)'
      OBVIOUS
    <2>1. UNCHANGED <<msgs, clock>>
      BY DEF WorldSame
    <2>2. CASE AskOf(t)' = {}
      BY <2>2, TidyEmpty DEF Unsent
    <2>3. CASE AskOf(t)' = AskOf(t)
      <3>1. Unsent(t)
        BY DEF HistoryInv
      <3>2. \A u \in Turns \ {t} : AskOf(u)' \subseteq AskOf(u)
        BY DEF Leaner
      <3> QED BY <2>1, <2>3, <3>1, <3>2 DEF Unsent, IsGenerating
    <2> QED BY <2>2, <2>3 DEF Leaner
  <1>6. \A t \in Turns : Tails(t)'
    BY TidyEmpty DEF HistoryInv, WorldSame, Tails, Leaner
  <1> QED BY <1>1, <1>2, <1>3, <1>4, <1>5, <1>6 DEF HistoryInv

\* A phase of its own, and whatever else the turn keeps of its request.
LEMMA LeanerPhase ==
    ASSUME Shapes, NEW t \in Turns, NEW x, turns' = [turns EXCEPT ![t] = x],
           DOMAIN x = DOMAIN turns[t], x.phase \notin {"generating", "refusing"},
           x.tail = turns[t].tail, x.ask = turns[t].ask
    PROVE  Leaner
  <1>1. TurnFields \subseteq DOMAIN x
    BY DEF Shapes
  <1>2. ToSet(x.tail) = TailOf(t) /\ ToSet(x.ask) = AskOf(t)
    BY DEF TailOf, AskOf
  <1> QED BY <1>1, <1>2, LeanerTurn

LEMMA LeanerBegin ==
    ASSUME Shapes, NEW t \in Turns, NEW p, NEW req, Begin(t, p, req)
    PROVE  Leaner /\ WorldSame
  <1> DEFINE x == [IdleTurn EXCEPT !.home = p, !.phase = "begun", !.req = req,
                                   !.route = ResolveTurnRoute(req, req.kbs # {})]
  <1>1. turns' = [turns EXCEPT ![t] = x]
    BY DEF Begin
  <1>2. /\ DOMAIN x = DOMAIN IdleTurn /\ x.phase = "begun"
        /\ x.tail = IdleTurn.tail /\ x.ask = IdleTurn.ask
    BY DEF IdleTurn
  <1> HIDE DEF x
  <1>3. Leaner
    BY <1>1, <1>2, IdleTurnFields, LeanerTurn
  <1> QED BY <1>3 DEF Begin, WorldSame, conversation

LEMMA LeanerDropTail ==
    ASSUME Shapes, NEW t \in Turns, DropTail(t)
    PROVE  Leaner /\ WorldSame
  <1> DEFINE x == [turns[t] EXCEPT !.phase = "asked"]
  <1>1. turns' = [turns EXCEPT ![t] = x]
    BY DEF DropTail, Step
  <1>2. /\ DOMAIN x = DOMAIN turns[t] /\ x.phase = "asked"
        /\ x.tail = turns[t].tail /\ x.ask = turns[t].ask
    BY DEF Shapes, TurnFields
  <1> HIDE DEF x
  <1>3. Leaner
    BY <1>1, <1>2, LeanerPhase
  <1> QED BY <1>3 DEF DropTail, WorldSame, conversation

LEMMA LeanerRetrieve ==
    ASSUME Shapes, NEW t \in Turns, Retrieve(t)
    PROVE  Leaner /\ WorldSame
  <1>1. PICK g : turns' = [turns EXCEPT ![t].phase = "grounded", ![t].gate = g]
    BY DEF Retrieve
  <1> DEFINE x == [[turns[t] EXCEPT !.phase = "grounded"] EXCEPT !.gate = g]
  <1>2. turns' = [turns EXCEPT ![t] = x]
    BY <1>1 DEF Shapes
  <1>3. /\ DOMAIN x = DOMAIN turns[t] /\ x.phase = "grounded"
        /\ x.tail = turns[t].tail /\ x.ask = turns[t].ask
    BY DEF Shapes, TurnFields
  <1> HIDE DEF x
  <1>4. Leaner
    BY <1>2, <1>3, LeanerPhase
  <1> QED BY <1>4 DEF Retrieve, WorldSame, conversation

LEMMA LeanerEnds ==
    ASSUME Shapes, NEW t \in Turns,
           GiveUp(t) \/ Abandon(t) \/ RefineRead(t) \/ RefineWrite(t) \/ Retire(t)
    PROVE  Leaner /\ WorldSame
  <1>1. WorldSame
    BY DEF GiveUp, Abandon, RefineRead, RefineWrite, Retire, WorldSame, conversation
  <1>2. CASE turns' = [turns EXCEPT ![t] = IdleTurn]
    BY <1>1, <1>2, LeanerIdle
  <1>3. CASE turns' = [turns EXCEPT ![t].phase = "titling"]
    <2> DEFINE x == [turns[t] EXCEPT !.phase = "titling"]
    <2>1. turns' = [turns EXCEPT ![t] = x]
      BY <1>3
    <2>2. /\ DOMAIN x = DOMAIN turns[t] /\ x.phase = "titling"
          /\ x.tail = turns[t].tail /\ x.ask = turns[t].ask
      BY DEF Shapes, TurnFields
    <2> HIDE DEF x
    <2> QED BY <1>1, <2>1, <2>2, LeanerPhase
  <1> QED BY <1>2, <1>3 DEF GiveUp, Abandon, Abort, RefineRead, RefineWrite, Retire

LEMMA LeanerSame == ASSUME Shapes, UNCHANGED turns PROVE Leaner
  BY DEF Shapes, Leaner, TailOf, AskOf, Live

LEMMA LeanerCrash ==
    ASSUME Shapes, NEW p, Crash(p)
    PROVE  Leaner /\ WorldSame
  <1>1. turns' = [t \in Turns |-> IF turns[t].home = p THEN IdleTurn ELSE turns[t]]
    BY DEF Crash
  <1>2. \A t \in Turns : turns'[t] = IdleTurn \/ turns'[t] = turns[t]
    BY <1>1
  <1>3. Leaner
    <2> SUFFICES ASSUME NEW t \in Turns
                 PROVE  /\ TurnFields \subseteq DOMAIN turns'[t]
                        /\ TailOf(t)' = TailOf(t) \/ TailOf(t)' = {}
                        /\ AskOf(t)' = AskOf(t) \/ AskOf(t)' = {}
                        /\ Live(t)' => Live(t) /\ turns'[t].pend = turns[t].pend
      BY <1>1 DEF Leaner
    <2>1. CASE turns'[t] = IdleTurn
      BY <2>1, IdleTurnFields DEF TailOf, AskOf, Live
    <2>2. CASE turns'[t] = turns[t]
      BY <2>2 DEF Shapes, TailOf, AskOf, Live
    <2> QED BY <1>2, <2>1, <2>2
  <1> QED BY <1>3 DEF Crash, WorldSame, conversation

-----------------------------------------------------------------------------
(* A regenerate reads what it will delete.                                  *)

LEMMA OrderedRange ==
    ASSUME NEW set, Tidy(set)
    PROVE  ToSet(InOrder(set)) = set
  <1> DEFINE ms == InOrder(set)
  <1>1. ms \in Seq(set) /\ \A m \in set : \E i \in 1..Len(ms) : ms[i] = m
    BY Ordered
  <1> HIDE DEF ms
  <1>2. DOMAIN ms = 1..Len(ms) /\ \A i \in DOMAIN ms : ms[i] \in set
    BY <1>1
  <1>3. ToSet(ms) = set
    BY <1>1, <1>2 DEF ToSet
  <1> QED BY <1>3 DEF ms

LEMMA TidySubset ==
    ASSUME NEW set, Tidy(set), NEW part \in SUBSET set
    PROVE  Tidy(part)
  BY FS_Subset DEF Tidy

LEMMA HistoryReadTail ==
    ASSUME HistoryInv, NEW t \in Turns, ReadTail(t)
    PROVE  HistoryInv'
  <1> DEFINE last == LastOf(msgs)
             doomed == { m \in last : m.role = "assistant" }
             x == [[turns[t] EXCEPT !.phase = "tail"] EXCEPT !.tail = InOrder(doomed)]
  <1>0. Shapes /\ WorldSame
    BY DEF HistoryInv, ReadTail, WorldSame, conversation
  <1>1. CASE Abort(t)
    <2>1. turns' = [turns EXCEPT ![t] = IdleTurn]
      BY <1>1 DEF Abort
    <2> QED BY <1>0, <2>1, LeanerIdle, QuietStep
  <1>2. CASE ~ Abort(t)
    <2>1. /\ turns' = [turns EXCEPT ![t].phase = "tail", ![t].tail = InOrder(doomed)]
          /\ \E m \in last : m.role = "user" \/ ~ IsGenerating(m)
      BY <1>2 DEF ReadTail
    <2>2. turns' = [turns EXCEPT ![t] = x]
      BY <1>0, <2>1 DEF Shapes
    <2>3. /\ DOMAIN x = DOMAIN turns[t] /\ x.phase = "tail"
          /\ x.tail = InOrder(doomed) /\ x.ask = turns[t].ask
      BY <1>0 DEF Shapes, TurnFields
    <2>4. doomed \in SUBSET msgs /\ Tidy(doomed)
      <3>1. doomed \in SUBSET msgs
        BY DEF LastOf
      <3> HIDE DEF doomed
      <3> QED BY <3>1, TidySubset DEF HistoryInv, Rows
    <2>5. \A m \in doomed : ~ IsGenerating(m)
      <3>1. \A m, o \in last : m = o
        BY DEF LastOf, HistoryInv, Rows, Tidy
      <3> QED BY <2>1, <3>1
    <2>6. ToSet(InOrder(doomed)) = doomed
      BY <2>4, OrderedRange
    <2> HIDE DEF x, doomed, last
    <2>7. /\ DOMAIN turns' = Turns /\ turns'[t] = x
          /\ \A u \in Turns \ {t} : turns'[u] = turns[u]
      BY <1>0, <2>2 DEF Shapes
    <2>8. /\ TailOf(t)' = doomed /\ AskOf(t)' = AskOf(t) /\ ~ Live(t)'
          /\ \A u \in Turns \ {t} : TailOf(u)' = TailOf(u) /\ AskOf(u)' = AskOf(u)
                                       /\ Live(u)' = Live(u)
      BY <2>3, <2>6, <2>7 DEF TailOf, AskOf, Live
    <2>9. \A u \in Turns : AskOf(u)' = AskOf(u)
      BY <2>8
    <2>10. Shapes'
      BY <1>0, <2>3, <2>7 DEF Shapes, WorldSame
    <2>11. Rows' /\ Recorded' /\ Reads' /\ Snaps'
      BY <1>0 DEF HistoryInv, WorldSame, Rows, Recorded, Taken, Reads, Snaps
    <2>12. Writers'
      BY <1>0, <2>7, <2>8 DEF HistoryInv, WorldSame, Writers
    <2>13. ASSUME NEW u \in Turns PROVE Unsent(u)'
      BY <1>0, <2>9 DEF HistoryInv, WorldSame, Unsent
    <2>14. Tails(t)'
      <3>1. \A d \in doomed : d.id <= clock /\ \A m \in msgs : m.id = d.id => m = d
        BY <2>4 DEF HistoryInv, Rows, Tidy
      <3> QED BY <1>0, <2>4, <2>5, <2>8, <3>1 DEF Tails, WorldSame
    <2>15. ASSUME NEW u \in Turns \ {t} PROVE Tails(u)'
      BY <1>0, <2>8 DEF HistoryInv, Tails, WorldSame
    <2> QED BY <2>10, <2>11, <2>12, <2>13, <2>14, <2>15 DEF HistoryInv
  <1> QED BY <1>1, <1>2

-----------------------------------------------------------------------------
(* The question of a turn.                                                  *)

LEMMA TidyAdd ==
    ASSUME NEW set, Tidy(set), NEW row, row.id \in Nat, \A m \in set : m.id # row.id
    PROVE  Tidy(set \cup {row})
  <1>1. IsFiniteSet(set \cup {row})
    BY FS_AddElement DEF Tidy
  <1>2. \A m \in set \cup {row} : m.id \in Nat
    BY DEF Tidy
  <1>3. ASSUME NEW m \in set \cup {row}, NEW o \in set \cup {row}, m.id = o.id
        PROVE  m = o
    <2>1. CASE m \in set /\ o \in set
      BY <1>3, <2>1 DEF Tidy
    <2>2. CASE ~ (m \in set /\ o \in set)
      BY <1>3, <2>2
    <2> QED BY <2>1, <2>2
  <1> QED BY <1>1, <1>2, <1>3 DEF Tidy

LEMMA NewRow ==
    ASSUME NEW n, NEW role, NEW status, NEW body
    PROVE  LET r == Row(n, role, status, body)
           IN  /\ r.id = n /\ r.stamp = n /\ r.status = status /\ RowFields \subseteq DOMAIN r
  BY DEF Row, RowFields

\* The clock has moved on, nothing else: no id is younger.
LEMMA ClockBounds ==
    ASSUME HistoryInv
    PROVE  /\ clock \in Nat /\ clock + 1 \in Nat
           /\ \A m \in msgs : m.id \in Nat /\ m.id < clock + 1 /\ m.id <= clock + 1 /\ m.id # clock + 1
           /\ \A e \in edits : \A d \in e.rows : d.id \in Nat /\ d.id <= clock + 1 /\ d.id # clock + 1
           /\ \A t \in Turns : \A d \in TailOf(t) \cup AskOf(t) :
                 d.id \in Nat /\ d.id <= clock + 1 /\ d.id # clock + 1
           /\ \A v \in Taken : v.msg \in Nat /\ v.msg <= clock + 1 /\ v.msg # clock + 1
           /\ \A t \in Turns : Live(t) => /\ turns[t].pend \in Nat /\ turns[t].pend <= clock + 1
                                          /\ turns[t].pend # clock + 1
  <1>1. clock \in Nat /\ \A n \in Nat : n <= clock => n < clock + 1 /\ n <= clock + 1 /\ n # clock + 1
    BY DEF HistoryInv, Shapes
  <1>2. \A m \in msgs : m.id \in Nat /\ m.id <= clock
    BY DEF HistoryInv, Rows, Tidy
  <1>3. \A e \in edits : \A d \in e.rows : d.id \in Nat /\ d.id <= clock
    BY DEF HistoryInv, Reads, Tidy
  <1>4. \A t \in Turns : \A d \in TailOf(t) \cup AskOf(t) : d.id \in Nat /\ d.id <= clock
    BY DEF HistoryInv, Tails, Unsent, Tidy
  <1>5. \A v \in Taken : v.msg \in Nat /\ v.msg <= clock
    BY DEF HistoryInv, Snaps
  <1>6. \A t \in Turns : Live(t) => turns[t].pend \in Nat /\ turns[t].pend <= clock
    BY DEF HistoryInv, Writers
  <1>7. clock + 1 \in Nat
    BY <1>1
  <1> QED BY <1>1, <1>2, <1>3, <1>4, <1>5, <1>6, <1>7

\* Where nothing was read nothing is overrun.
LEMMA NoOverrun == Overrun({}) = {}
  BY DEF Overrun, Ids

LEMMA HistoryAskUser ==
    ASSUME HistoryInv, NEW t \in Turns, AskUser(t)
    PROVE  HistoryInv'
  <1> DEFINE row == Row(clock + 1, "user", "done", Plain)
             new == IF IsDefaultTitle THEN << >> ELSE <<row>>
             x == [[turns[t] EXCEPT !.phase = "asked"] EXCEPT !.ask = new]
  <1>0. Shapes /\ UNCHANGED <<versions, alive, edits, snaps>> /\ clock' = clock + 1
    BY DEF HistoryInv, AskUser
  <1>1. /\ row.id = clock + 1 /\ row.stamp = clock + 1 /\ ~ IsGenerating(row)
        /\ RowFields \subseteq DOMAIN row
    BY NewRow DEF IsGenerating
  <1>2. turns' = [turns EXCEPT ![t] = x]
    BY <1>0 DEF AskUser, Shapes
  <1>3. /\ DOMAIN x = DOMAIN turns[t] /\ x.phase = "asked"
        /\ x.ask = new /\ x.tail = turns[t].tail
    BY <1>0 DEF Shapes, TurnFields
  <1>4. \/ /\ ToSet(new) = {} /\ msgs' = msgs \cup {row}
           /\ written' = written \cup Stamps(msgs \cup {row})
        \/ ToSet(new) = {row} /\ UNCHANGED <<msgs, written>>
    <2>1. ToSet(<< >>) = {} /\ ToSet(<<row>>) = {row}
      BY DEF ToSet
    <2> QED BY <2>1, NoOverrun DEF AskUser, SetMsgs
  <1> HIDE DEF x, new, row
  <1>5. /\ DOMAIN turns' = Turns /\ turns'[t] = x
        /\ \A u \in Turns \ {t} : turns'[u] = turns[u]
    BY <1>0, <1>2 DEF Shapes
  <1>6. /\ TailOf(t)' = TailOf(t) /\ AskOf(t)' = ToSet(new) /\ ~ Live(t)'
        /\ \A u \in Turns \ {t} : TailOf(u)' = TailOf(u) /\ AskOf(u)' = AskOf(u)
                                     /\ Live(u)' = Live(u)
    BY <1>3, <1>5 DEF TailOf, AskOf, Live
  <1>7. /\ Taken' = Taken
        /\ \A m \in msgs' : m \in msgs \/ m = row
        /\ msgs \subseteq msgs'
        /\ msgs' \cap ToSet(new) = {}
    BY <1>0, <1>1, <1>4, ClockBounds DEF Taken
  <1>8. Shapes'
    BY <1>0, <1>1, <1>3, <1>5, <1>7, ClockBounds DEF Shapes
  <1>9. Rows'
    <2>1. Tidy(msgs')
      BY <1>1, <1>4, ClockBounds, TidyAdd DEF HistoryInv, Rows
    <2>2. \A m \in msgs' : m.id <= clock' /\ (IsGenerating(m) => m.stamp = m.id)
      BY <1>0, <1>1, <1>7, ClockBounds DEF HistoryInv, Rows
    <2> QED BY <2>1, <2>2 DEF Rows, IsGenerating
  <1>10. Reads'
    BY <1>0, <1>1, <1>7, ClockBounds DEF HistoryInv, Reads, IsGenerating
  <1>11. Snaps'
    BY <1>0, <1>1, <1>7, ClockBounds DEF HistoryInv, Snaps, IsGenerating
  <1>12. Writers'
    BY <1>0, <1>5, <1>6, <1>7, ClockBounds DEF HistoryInv, Writers, IsGenerating
  <1>13. Recorded'
    <2>1. \A s \in written' : s \in written \/ \E m \in msgs' : m.stamp = s
      BY <1>4 DEF Stamps
    <2> QED BY <1>0, <1>7, <2>1 DEF HistoryInv, Recorded
  <1>14. \A u \in Turns : Tails(u)'
    BY <1>0, <1>1, <1>6, <1>7, ClockBounds DEF HistoryInv, Tails, IsGenerating
  <1>15. Unsent(t)'
    <2>1. Tidy(ToSet(new))
      <3>1. Tidy({} \cup {row})
        BY <1>1, ClockBounds, TidyEmpty, TidyAdd
      <3> QED BY <1>4, <3>1, TidyEmpty
    <2>2. \A a \in ToSet(new) : /\ a = row /\ msgs' = msgs
      BY <1>4
    <2> QED BY <1>0, <1>1, <1>6, <1>7, <2>1, <2>2, ClockBounds DEF Unsent, IsGenerating
  <1>16. ASSUME NEW u \in Turns \ {t} PROVE Unsent(u)'
    <2>1. Unsent(u)
      BY DEF HistoryInv
    <2>2. \A v \in Turns : AskOf(v)' \subseteq AskOf(v) \cup {row}
      BY <1>4, <1>6
    <2> QED BY <1>0, <1>1, <1>6, <1>7, <2>1, <2>2, ClockBounds DEF Unsent, IsGenerating
  <1> QED BY <1>8, <1>9, <1>10, <1>11, <1>12, <1>13, <1>14, <1>15, <1>16 DEF HistoryInv

-----------------------------------------------------------------------------
(* A turn writes its last word into the row it was given.                   *)

LEMMA TidyImage ==
    ASSUME NEW set, Tidy(set), NEW f, \A m \in set : f[m].id = m.id
    PROVE  Tidy({ f[m] : m \in set })
  <1> DEFINE g == [m \in set |-> f[m]]
             image == { f[m] : m \in set }
  <1>1. g \in Surjection(set, image)
    BY DEF Surjection
  <1>2. IsFiniteSet(image)
    BY <1>1, FS_Surjection DEF Tidy
  <1>3. \A m \in image : m.id \in Nat
    BY DEF Tidy
  <1>4. ASSUME NEW m \in set, NEW o \in set, f[m].id = f[o].id PROVE f[m] = f[o]
    <2>1. m = o
      BY <1>4 DEF Tidy
    <2> QED BY <2>1
  <1>5. \A m, o \in image : m.id = o.id => m = o
    BY <1>4
  <1> HIDE DEF image
  <1>6. Tidy(image)
    BY <1>2, <1>3, <1>5 DEF Tidy
  <1> QED BY <1>6 DEF image

LEMMA HistoryStore ==
    ASSUME HistoryInv, NEW t \in Turns, Live(t), NEW status, status # "pending", NEW body,
           Store(t, status, body), UNCHANGED <<versions, alive, edits, snaps, clock>>,
           NEW x, turns' = [turns EXCEPT ![t] = x], TurnFields \subseteq DOMAIN x,
           x.phase \notin {"generating", "refusing"}, ToSet(x.tail) = {}, ToSet(x.ask) = {}
    PROVE  HistoryInv'
  <1> DEFINE f == [m \in msgs |-> IF m \in Mine(t)
                                  THEN [[m EXCEPT !.status = status] EXCEPT !.body = body] ELSE m]
  <1>0. Shapes
    BY DEF HistoryInv
  <1>1. msgs' = { f[m] : m \in msgs } /\ written' = written \cup Stamps(msgs')
    BY NoOverrun DEF Store, SetMsgs
  <1>2. \A m \in msgs : /\ f[m].id = m.id /\ f[m].stamp = m.stamp /\ DOMAIN f[m] = DOMAIN m
                        /\ IF m.id = turns[t].pend THEN f[m].status = status ELSE f[m] = m
    <2> TAKE m \in msgs
    <2>1. CASE m \in Mine(t)
      <3>1. m.id = turns[t].pend /\ f[m] = [[m EXCEPT !.status = status] EXCEPT !.body = body]
        BY <2>1 DEF Mine
      <3>2. RowFields \subseteq DOMAIN m
        BY <1>0 DEF Shapes
      <3> HIDE DEF f
      <3> QED BY <3>1, <3>2 DEF RowFields
    <2>2. CASE m \notin Mine(t)
      BY <2>2 DEF Mine
    <2> QED BY <2>1, <2>2
  <1> HIDE DEF f
  <1>3. \A m \in msgs : f[m] \in msgs' /\ (IsGenerating(f[m]) => f[m] = m /\ m.id # turns[t].pend)
    BY <1>1, <1>2 DEF IsGenerating
  <1>4. \A o \in msgs' : \E m \in msgs : /\ o = f[m] /\ o.id = m.id /\ o.stamp = m.stamp
                                         /\ (IsGenerating(o) => IsGenerating(m))
    BY <1>1, <1>2, <1>3
  <1>5. Leaner
    BY <1>0, LeanerTurn
  <1>6. Taken' = Taken
    BY DEF Taken
  <1>7. Shapes'
    <2>1. \A o \in msgs' : RowFields \subseteq DOMAIN o
      BY <1>0, <1>2, <1>4 DEF Shapes
    <2> QED BY <1>0, <1>5, <2>1 DEF Shapes, Leaner
  <1>8. Rows'
    <2>1. Tidy(msgs')
      BY <1>1, <1>2, TidyImage DEF HistoryInv, Rows
    <2>2. \A o \in msgs' : o.id <= clock /\ (IsGenerating(o) => o.stamp = o.id)
      BY <1>4 DEF HistoryInv, Rows
    <2> QED BY <2>1, <2>2 DEF Rows, IsGenerating
  <1>9. Reads'
    BY <1>4 DEF HistoryInv, Reads, IsGenerating
  <1>10. Snaps'
    BY <1>4, <1>6 DEF HistoryInv, Snaps, IsGenerating
  <1>11. Writers'
    <2> SUFFICES ASSUME NEW u \in Turns, Live(u)'
                 PROVE  /\ turns'[u].pend \in Nat /\ turns'[u].pend <= clock
                        /\ alive => \E m \in msgs' : m.id = turns'[u].pend /\ IsGenerating(m)
                        /\ \A v \in Turns \ {u} : Live(v)' => turns'[v].pend # turns'[u].pend
      BY DEF Writers, IsGenerating
    <2>1. turns'[t] = x /\ ~ Live(t)'
      BY <1>0 DEF Shapes, Live
    <2>2. \A v \in Turns : Live(v)' => Live(v) /\ turns'[v].pend = turns[v].pend
      BY <1>5 DEF Leaner
    <2>3. u # t /\ Live(u) /\ turns'[u].pend = turns[u].pend
      BY <2>1, <2>2
    <2>4. turns[u].pend # turns[t].pend
      BY <2>3 DEF HistoryInv, Writers
    <2>5. ASSUME alive PROVE \E m \in msgs' : m.id = turns[u].pend /\ IsGenerating(m)
      <3>1. PICK m \in msgs : m.id = turns[u].pend /\ IsGenerating(m)
        BY <2>3, <2>5 DEF HistoryInv, Writers
      <3>2. f[m] = m
        BY <1>2, <2>4, <3>1
      <3> QED BY <1>3, <3>1, <3>2
    <2> QED BY <2>2, <2>3, <2>5 DEF HistoryInv, Writers
  <1>12. Recorded'
    <2>1. \A s \in written' : s \in written \/ \E m \in msgs' : m.stamp = s
      BY <1>1 DEF Stamps
    <2>2. \A m \in msgs : \E o \in msgs' : o.stamp = m.stamp
      BY <1>2, <1>3
    <2> QED BY <1>6, <2>1, <2>2 DEF HistoryInv, Recorded
  <1>13. ASSUME NEW u \in Turns PROVE Unsent(u)'
    <2>1. \A v \in Turns : AskOf(v)' \subseteq AskOf(v)
      BY <1>5 DEF Leaner
    <2>2. CASE AskOf(u)' = {}
      BY <2>2, TidyEmpty DEF Unsent
    <2>3. CASE AskOf(u)' = AskOf(u)
      <3>1. Unsent(u)
        BY DEF HistoryInv
      <3> QED BY <1>4, <1>6, <2>1, <2>3, <3>1 DEF Unsent, IsGenerating
    <2> QED BY <1>5, <2>2, <2>3 DEF Leaner
  <1>14. ASSUME NEW u \in Turns PROVE Tails(u)'
    <2>1. CASE TailOf(u)' = {}
      BY <2>1, TidyEmpty DEF Tails
    <2>2. CASE TailOf(u)' = TailOf(u)
      <3>1. Tails(u)
        BY DEF HistoryInv
      <3> QED BY <1>4, <2>2, <3>1 DEF Tails, IsGenerating
    <2> QED BY <1>5, <2>1, <2>2 DEF Leaner
  <1> QED BY <1>7, <1>8, <1>9, <1>10, <1>11, <1>12, <1>13, <1>14 DEF HistoryInv

LEMMA HistoryWritten ==
    ASSUME HistoryInv, NEW t \in Turns,
           Refuse(t) \/ FinalizeError(t) \/ \E a \in Answers : Finish(t, a)
    PROVE  HistoryInv'
  <1>1. Live(t) /\ UNCHANGED <<versions, alive, edits, snaps, clock>>
    BY DEF Refuse, FinalizeError, Finish, Rest, Live
  <1>2. PICK status, body : status # "pending" /\ Store(t, status, body)
    <2>1. CASE Refuse(t)
      <3>1. Store(t, "complete", Refusal(PreGenerationRefusal(turns[t].gate)))
        BY <2>1 DEF Refuse
      <3> QED BY <3>1
    <2>2. CASE FinalizeError(t)
      <3>1. \E status \in {"error", "cancelled"} : Store(t, status, Plain)
        BY <2>2 DEF FinalizeError
      <3> QED BY <3>1
    <2>3. CASE \E a \in Answers : Finish(t, a)
      <3>1. \E body : Store(t, "complete", body)
        BY <2>3 DEF Finish
      <3> QED BY <3>1
    <2> QED BY <2>1, <2>2, <2>3
  <1>3. PICK x : /\ turns' = [turns EXCEPT ![t] = x] /\ TurnFields \subseteq DOMAIN x
                 /\ x.phase \notin {"generating", "refusing"}
                 /\ ToSet(x.tail) = {} /\ ToSet(x.ask) = {}
    <2>1. CASE turns' = [turns EXCEPT ![t] = IdleTurn]
      BY <2>1, IdleTurnFields
    <2>2. ASSUME NEW raw, NEW shown, EndWith(t, raw, shown)
          PROVE  \E x : /\ turns' = [turns EXCEPT ![t] = x] /\ TurnFields \subseteq DOMAIN x
                        /\ x.phase \notin {"generating", "refusing"}
                        /\ ToSet(x.tail) = {} /\ ToSet(x.ask) = {}
      <3> DEFINE y == [IdleTurn EXCEPT !.phase = "done", !.raw = raw, !.shown = shown]
      <3>1. turns' = [turns EXCEPT ![t] = y]
        BY <2>2 DEF EndWith
      <3>2. /\ DOMAIN y = DOMAIN IdleTurn /\ y.phase = "done"
            /\ y.tail = IdleTurn.tail /\ y.ask = IdleTurn.ask
        BY DEF IdleTurn
      <3> HIDE DEF y
      <3> QED BY <3>1, <3>2, IdleTurnFields
    <2>3. turns' = [turns EXCEPT ![t] = IdleTurn] \/ \E raw, shown : EndWith(t, raw, shown)
      <3>1. Refuse(t) => \E raw, shown : EndWith(t, raw, shown)
        BY DEF Refuse
      <3>2. (\E a \in Answers : Finish(t, a)) => \E raw, shown : EndWith(t, raw, shown)
        BY DEF Finish
      <3>3. FinalizeError(t) => turns' = [turns EXCEPT ![t] = IdleTurn]
        BY DEF FinalizeError, Abort
      <3> QED BY <3>1, <3>2, <3>3
    <2> QED BY <2>1, <2>2, <2>3
  <1> QED BY <1>1, <1>2, <1>3, HistoryStore

-----------------------------------------------------------------------------
(* An edit, a switch or a truncation reads its rows, and commits.           *)

LEMMA TidyOne ==
    ASSUME NEW m, m.id \in Nat
    PROVE  Tidy({m})
  <1>1. Tidy({} \cup {m})
    BY TidyEmpty, TidyAdd
  <1> QED BY <1>1

LEMMA HistoryRead ==
    ASSUME HistoryInv, NEW rows \in SUBSET msgs, \A m \in rows : ~ IsGenerating(m), NEW text,
           text # << >> => text[1].status # "pending",
           Read(rows, text), clock' \in {clock, clock + 1}
    PROVE  HistoryInv'
  <1>0. /\ Shapes /\ Rows /\ Reads /\ Snaps /\ Writers /\ Recorded
        /\ UNCHANGED <<msgs, versions, alive, written, snaps, turns>>
        /\ clock \in Nat /\ clock' \in Nat
        /\ \A i \in Nat : i <= clock => i <= clock'
    BY DEF HistoryInv, Shapes, Read, Elsewhere
  <1>1. Shapes' /\ Recorded'
    BY <1>0 DEF Shapes, Recorded, Taken
  <1>2. Rows'
    BY <1>0 DEF Rows, Tidy, IsGenerating
  <1>3. Snaps' /\ Writers'
    BY <1>0 DEF Snaps, Writers, Taken, Live, IsGenerating
  <1>4. Reads'
    <2>1. \A e \in edits' : e \in edits \/ (e.rows = rows /\ e.text = text)
      BY DEF Read
    <2>2. /\ Tidy(rows)
          /\ \A d \in rows : d.id <= clock' /\ \A m \in msgs : m.id = d.id => m = d
      BY <1>0, TidySubset DEF Rows, Tidy
    <2> SUFFICES ASSUME NEW e \in edits'
                 PROVE  /\ Tidy(e.rows) /\ (e.text # << >> => e.text[1].status # "pending")
                        /\ \A d \in e.rows : /\ d.id <= clock' /\ ~ IsGenerating(d)
                                             /\ \A m \in msgs : m.id = d.id => ~ IsGenerating(m)
      BY <1>0 DEF Reads, IsGenerating
    <2>3. CASE e \in edits
      BY <1>0, <2>3 DEF Reads, Tidy
    <2>4. CASE e.rows = rows /\ e.text = text
      BY <2>2, <2>4
    <2> QED BY <2>1, <2>3, <2>4
  <1>5. ASSUME NEW u \in Turns PROVE Unsent(u)' /\ Tails(u)'
    <2>1. /\ Unsent(u) /\ Tails(u) /\ TailOf(u)' = TailOf(u)
          /\ \A v \in Turns : AskOf(v)' = AskOf(v)
      BY <1>0 DEF HistoryInv, AskOf, TailOf
    <2>2. Unsent(u)'
      BY <1>0, <2>1 DEF Unsent, Tidy, IsGenerating
    <2>3. Tails(u)'
      BY <1>0, <2>1 DEF Tails, Tidy, IsGenerating
    <2> QED BY <2>2, <2>3
  <1> QED BY <1>1, <1>2, <1>3, <1>4, <1>5 DEF HistoryInv

LEMMA HistoryReads ==
    ASSUME HistoryInv, NEW m \in msgs,
           EditMessage(m) \/ TruncateAfter(m) \/ \E i \in DOMAIN versions : ActivateVersion(m, versions[i])
    PROVE  HistoryInv'
  <1>1. CASE EditMessage(m)
    <2> DEFINE text == << [stamp |-> clock + 1, status |-> m.status, body |-> Plain] >>
    <2>1. Read({m}, text) /\ clock' = clock + 1 /\ ~ IsGenerating(m)
      BY <1>1 DEF EditMessage
    <2>2. text[1].status # "pending"
      BY <2>1 DEF IsGenerating
    <2> HIDE DEF text
    <2> QED BY <2>1, <2>2, HistoryRead
  <1>2. CASE TruncateAfter(m)
    <2>1. /\ Read(Doomed(m), << >>) /\ clock' = clock /\ \A d \in Doomed(m) : ~ IsGenerating(d)
          /\ Doomed(m) \in SUBSET msgs
      BY <1>2 DEF TruncateAfter, Doomed
    <2> QED BY <2>1, HistoryRead
  <1>3. CASE \E i \in DOMAIN versions : ActivateVersion(m, versions[i])
    <2>1. PICK i \in DOMAIN versions : ActivateVersion(m, versions[i])
      BY <1>3
    <2> DEFINE v == versions[i]
               text == << [stamp |-> v.stamp, status |-> v.status, body |-> v.body] >>
    <2>2. Read({m}, text) /\ clock' = clock /\ v.msg = m.id
      BY <2>1 DEF ActivateVersion
    <2>3. v \in Taken
      BY DEF HistoryInv, Snaps
    <2>4. text[1].status # "pending" /\ ~ IsGenerating(m)
      BY <2>2, <2>3 DEF HistoryInv, Snaps
    <2> HIDE DEF text, v
    <2> QED BY <2>2, <2>4, HistoryRead
  <1> QED BY <1>1, <1>2, <1>3

\* A transaction that touches the rows it has read, whatever they are by now.
LEMMA HistoryCommit ==
    ASSUME HistoryInv, NEW e \in edits, NEW new, Commit(e, new), Tidy(new),
           \A o \in new : /\ RowFields \subseteq DOMAIN o
                          /\ \E m \in msgs : m.id = o.id /\ (o = m \/ ~ IsGenerating(o)),
           \A m \in msgs : m.id \notin Ids(e.rows) => m \in new
    PROVE  HistoryInv'
  <1>0. /\ Shapes /\ Rows /\ Reads /\ Snaps /\ Writers /\ Recorded /\ alive
        /\ msgs' = new /\ written' = (written \ Overrun(e.rows)) \cup Stamps(new)
        /\ Snapshot(e.rows) /\ edits' \subseteq edits
        /\ UNCHANGED <<alive, clock, turns>>
    BY DEF HistoryInv, Commit, SetMsgs, Elsewhere
  <1>1. \A o \in msgs' : /\ \E m \in msgs : m.id = o.id
                         /\ IsGenerating(o) => o \in msgs
    BY <1>0
  <1>2. /\ Tidy(e.rows)
        /\ \A d \in e.rows : /\ d.id \in Nat /\ d.id <= clock /\ ~ IsGenerating(d)
                             /\ \A m \in msgs : m.id = d.id => ~ IsGenerating(m)
    BY <1>0 DEF Reads, Tidy
  <1>3. /\ Taken' = Taken \cup { Version(d) : d \in e.rows }
        /\ snaps' \in Seq(Taken') /\ versions' \in Seq(Taken') /\ Ledger(versions', snaps')
    BY <1>0, <1>2, SnapshotKeeps DEF Snaps
  <1>4. \A d \in e.rows : /\ Version(d) \in Taken' /\ Version(d).msg = d.id
                          /\ Version(d).stamp = d.stamp /\ Version(d).status # "pending"
    BY <1>2, <1>3 DEF Version, IsGenerating
  <1>5. Shapes'
    BY <1>0 DEF Shapes
  <1>6. Rows'
    BY <1>0, <1>1 DEF Rows, IsGenerating
  <1>7. Reads'
    BY <1>0, <1>1 DEF Reads, IsGenerating
  <1>8. Snaps'
    <2>1. \A v \in Taken' : /\ v.status # "pending" /\ v.msg \in Nat /\ v.msg <= clock
                            /\ \A m \in msgs' : m.id = v.msg => ~ IsGenerating(m)
      <3> TAKE v \in Taken'
      <3>1. CASE v \in Taken
        BY <1>0, <1>1, <3>1 DEF Snaps
      <3>2. CASE v \notin Taken
        <4>1. PICK d \in e.rows : v = Version(d)
          BY <1>3, <3>2
        <4> QED BY <1>1, <1>2, <1>4, <4>1
      <3> QED BY <3>1, <3>2
    <2> QED BY <1>0, <1>3, <2>1 DEF Snaps, IsGenerating
  <1>9. Writers'
    <2>1. \A m \in msgs : IsGenerating(m) => m \in msgs'
      BY <1>0, <1>2 DEF Ids
    <2> QED BY <1>0, <2>1 DEF Writers, Live, IsGenerating
  <1>10. Recorded'
    <2> SUFFICES ASSUME NEW s \in written', \A m \in msgs' : m.stamp # s
                 PROVE  \E v \in Taken' : v.stamp = s
      BY DEF Recorded
    <2>1. s \in written /\ s \notin Overrun(e.rows)
      BY <1>0 DEF Stamps
    <2>2. CASE \E v \in Taken : v.stamp = s
      BY <1>3, <2>2
    <2>3. CASE \E m \in msgs : m.stamp = s
      <3>1. PICK m \in msgs : m.stamp = s
        BY <2>3
      <3>2. m.id \in Ids(e.rows)
        BY <1>0, <3>1
      <3>3. CASE m \in e.rows
        BY <1>4, <3>1, <3>3
      <3>4. CASE m \notin e.rows
        <4>1. \E v \in Taken : v.stamp = s
          BY <2>1, <3>1, <3>2, <3>4 DEF Overrun, Taken
        <4> QED BY <2>2, <4>1
      <3> QED BY <3>3, <3>4
    <2> QED BY <1>0, <2>1, <2>2, <2>3 DEF Recorded
  <1>11. ASSUME NEW u \in Turns PROVE Unsent(u)' /\ Tails(u)'
    <2>1. /\ Unsent(u) /\ Tails(u) /\ TailOf(u)' = TailOf(u)
          /\ \A v \in Turns : AskOf(v)' = AskOf(v)
      BY <1>0 DEF HistoryInv, AskOf, TailOf
    <2>2. Unsent(u)'
      BY <1>0, <1>1, <2>1 DEF Unsent, IsGenerating
    <2>3. Tails(u)'
      BY <1>0, <1>1, <2>1 DEF Tails, IsGenerating
    <2> QED BY <2>2, <2>3
  <1> QED BY <1>5, <1>6, <1>7, <1>8, <1>9, <1>10, <1>11 DEF HistoryInv

LEMMA HistoryFinishEdit ==
    ASSUME HistoryInv, NEW e \in edits, FinishEdit(e)
    PROVE  HistoryInv'
  <1> DEFINE x == e.text[1]
             g(m) == [m EXCEPT !.stamp = x.stamp, !.status = x.status, !.body = x.body]
             f == [m \in msgs |-> IF m.id \in Ids(e.rows) THEN g(m) ELSE m]
             new == { f[m] : m \in msgs }
  <1>1. Commit(e, new) /\ x.status # "pending"
    BY DEF FinishEdit, HistoryInv, Reads
  <1>2. \A m \in msgs : /\ f[m].id = m.id /\ DOMAIN f[m] = DOMAIN m
                        /\ IF m.id \in Ids(e.rows) THEN f[m].status = x.status ELSE f[m] = m
    <2> TAKE m \in msgs
    <2>1. RowFields \subseteq DOMAIN m
      BY DEF HistoryInv, Shapes
    <2>2. DOMAIN g(m) = DOMAIN m /\ g(m).id = m.id /\ g(m).status = x.status
      <3> HIDE DEF x
      <3> QED BY <2>1 DEF RowFields
    <2> HIDE DEF g
    <2> QED BY <2>2
  <1> HIDE DEF x, g, f
  <1>3. Tidy(new)
    BY <1>2, TidyImage DEF HistoryInv, Rows
  <1>4. \A o \in new : /\ RowFields \subseteq DOMAIN o
                       /\ \E m \in msgs : m.id = o.id /\ (o = m \/ ~ IsGenerating(o))
    BY <1>1, <1>2 DEF HistoryInv, Shapes, IsGenerating
  <1>5. \A m \in msgs : m.id \notin Ids(e.rows) => m \in new
    BY <1>2
  <1> HIDE DEF new
  <1> QED BY <1>1, <1>3, <1>4, <1>5, HistoryCommit

LEMMA HistoryFinishTruncate ==
    ASSUME HistoryInv, NEW e \in edits, FinishTruncate(e)
    PROVE  HistoryInv'
  <1> DEFINE new == { m \in msgs : m.id \notin Ids(e.rows) }
  <1>1. Commit(e, new) /\ new \in SUBSET msgs
    BY DEF FinishTruncate
  <1>2. \A m \in msgs : m.id \notin Ids(e.rows) => m \in new
    OBVIOUS
  <1> HIDE DEF new
  <1>3. Tidy(new)
    BY <1>1, TidySubset DEF HistoryInv, Rows
  <1>4. \A o \in new : RowFields \subseteq DOMAIN o /\ \E m \in msgs : m.id = o.id /\ o = m
    BY <1>1 DEF HistoryInv, Shapes
  <1> QED BY <1>1, <1>2, <1>3, <1>4, HistoryCommit

LEMMA HistoryFailEdit ==
    ASSUME HistoryInv, NEW e \in edits, FailEdit(e)
    PROVE  HistoryInv'
  <1>0. /\ Shapes /\ Rows /\ Reads /\ Snaps /\ Writers /\ Recorded /\ edits' \subseteq edits
        /\ UNCHANGED <<msgs, versions, alive, written, snaps, clock, turns>>
    BY DEF HistoryInv, FailEdit, Elsewhere
  <1>1. Shapes' /\ Rows' /\ Recorded' /\ Snaps' /\ Writers'
    BY <1>0 DEF Shapes, Rows, Recorded, Snaps, Writers, Taken, Live, IsGenerating
  <1>2. Reads'
    BY <1>0 DEF Reads, IsGenerating
  <1>3. ASSUME NEW u \in Turns PROVE Unsent(u)' /\ Tails(u)'
    <2>1. /\ Unsent(u) /\ Tails(u) /\ TailOf(u)' = TailOf(u)
          /\ \A v \in Turns : AskOf(v)' = AskOf(v)
      BY <1>0 DEF HistoryInv, AskOf, TailOf
    <2> QED BY <1>0, <2>1 DEF Unsent, Tails, IsGenerating
  <1> QED BY <1>1, <1>2, <1>3 DEF HistoryInv

LEMMA HistoryDelete ==
    ASSUME HistoryInv, DeleteConversation
    PROVE  HistoryInv'
  <1>0. /\ Shapes /\ Reads /\ Snaps /\ Writers
        /\ alive' = FALSE /\ msgs' = {} /\ versions' = << >>
        /\ UNCHANGED <<edits, written, snaps, clock, turns>>
    BY DEF HistoryInv, DeleteConversation, Elsewhere
  <1>1. Taken' = Taken
    BY <1>0 DEF Taken
  <1>2. Shapes' /\ Writers' /\ Recorded'
    BY <1>0 DEF Shapes, Writers, Recorded, Live
  <1>3. Rows'
    BY <1>0, TidyEmpty DEF Rows
  <1>4. Reads' /\ Snaps'
    BY <1>0, <1>1 DEF Reads, Snaps, IsGenerating
  <1>5. ASSUME NEW u \in Turns PROVE Unsent(u)' /\ Tails(u)'
    <2>1. /\ Unsent(u) /\ Tails(u) /\ TailOf(u)' = TailOf(u)
          /\ \A v \in Turns : AskOf(v)' = AskOf(v)
      BY <1>0 DEF HistoryInv, AskOf, TailOf
    <2>2. Unsent(u)'
      BY <1>0, <1>1, <2>1 DEF Unsent, IsGenerating
    <2>3. Tails(u)'
      BY <1>0, <2>1 DEF Tails, IsGenerating
    <2> QED BY <2>2, <2>3
  <1> QED BY <1>2, <1>3, <1>4, <1>5 DEF HistoryInv

-----------------------------------------------------------------------------
(* A turn commits its question, its delete and the row it will write.       *)

LEMMA TidyUnion ==
    ASSUME NEW A, Tidy(A), NEW B, Tidy(B), \A a \in A, b \in B : a.id # b.id
    PROVE  Tidy(A \cup B)
  <1>1. IsFiniteSet(A \cup B)
    BY FS_Union DEF Tidy
  <1>2. \A m \in A \cup B : m.id \in Nat
    BY DEF Tidy
  <1>3. ASSUME NEW m \in A \cup B, NEW o \in A \cup B, m.id = o.id
        PROVE  m = o
    <2>1. CASE (m \in A /\ o \in A) \/ (m \in B /\ o \in B)
      BY <1>3, <2>1 DEF Tidy
    <2>2. CASE (m \in A /\ o \in B) \/ (m \in B /\ o \in A)
      BY <1>3, <2>2
    <2> QED BY <2>1, <2>2
  <1> QED BY <1>1, <1>2, <1>3 DEF Tidy

LEMMA HistoryCompose ==
    ASSUME HistoryInv, NEW t \in Turns, NEW intent, Compose(t, intent)
    PROVE  HistoryInv'
  <1> DEFINE row == Row(clock + 1, "assistant", "pending", NoText)
             kept == { m \in msgs : \A d \in TailOf(t) : d.id # m.id }
  <1>0. /\ Shapes /\ Rows /\ Reads /\ Snaps /\ Writers /\ Recorded /\ alive
        /\ Unsent(t) /\ Tails(t)
        /\ UNCHANGED <<alive, edits>> /\ clock' = clock + 1
    BY DEF HistoryInv, Compose
  <1>1. /\ row.id = clock + 1 /\ row.stamp = clock + 1 /\ IsGenerating(row)
        /\ RowFields \subseteq DOMAIN row
    BY NewRow DEF IsGenerating
  <1>2. NewMessages(t) = kept \cup AskOf(t) \cup {row}
    BY DEF NewMessages, TailOf, AskOf, ToSet
  <1>3. \A m \in msgs \ TailOf(t) : (\E d \in TailOf(t) : d.id = m.id) =>
            m.stamp \in Overrun(TailOf(t)) \/ \E v \in Taken : v.stamp = m.stamp
    BY DEF Overrun, Ids, Taken
  <1>4. /\ msgs' = NewMessages(t) /\ written' = (written \ Overrun(TailOf(t))) \cup Stamps(NewMessages(t))
        /\ Snapshot(TailOf(t))
    BY DEF Compose, TailOf, SetMsgs
  <1>5. \E x : /\ turns' = [turns EXCEPT ![t] = x] /\ TurnFields \subseteq DOMAIN x
               /\ x.pend = clock + 1 /\ x.tail = << >> /\ x.ask = << >>
    <2>1. PICK phase, route, prompt :
             turns' = [turns EXCEPT ![t].phase = phase, ![t].route = route, ![t].pend = clock + 1,
                                    ![t].tail = << >>, ![t].ask = << >>, ![t].prompt = prompt]
      BY DEF Compose
    <2> DEFINE a == [[turns[t] EXCEPT !.phase = phase] EXCEPT !.route = route]
               b == [[a EXCEPT !.pend = clock + 1] EXCEPT !.tail = << >>]
               x == [[b EXCEPT !.ask = << >>] EXCEPT !.prompt = prompt]
    <2>2. turns' = [turns EXCEPT ![t] = x]
      BY <1>0, <2>1 DEF Shapes
    <2>3. DOMAIN a = DOMAIN turns[t]
      OBVIOUS
    <2>4. TurnFields \subseteq DOMAIN a
      BY <1>0, <2>3 DEF Shapes
    <2> HIDE DEF a
    <2>5. DOMAIN b = DOMAIN a /\ b.pend = clock + 1 /\ b.tail = << >>
      BY <2>4 DEF TurnFields
    <2> HIDE DEF b
    <2>6. DOMAIN x = DOMAIN b /\ x.pend = b.pend /\ x.tail = b.tail /\ x.ask = << >>
      BY <2>4, <2>5 DEF TurnFields
    <2> HIDE DEF x
    <2> QED BY <2>2, <2>4, <2>5, <2>6
  <1>6. PICK x : /\ turns' = [turns EXCEPT ![t] = x] /\ TurnFields \subseteq DOMAIN x
                 /\ x.pend = clock + 1 /\ x.tail = << >> /\ x.ask = << >>
    BY <1>5
  <1>7. /\ DOMAIN turns' = Turns /\ turns'[t] = x
        /\ \A u \in Turns \ {t} : turns'[u] = turns[u]
    BY <1>0, <1>6 DEF Shapes
  <1>8. /\ TailOf(t)' = {} /\ AskOf(t)' = {} /\ turns'[t].pend = clock + 1
        /\ \A u \in Turns \ {t} : /\ TailOf(u)' = TailOf(u) /\ AskOf(u)' = AskOf(u)
                                  /\ Live(u)' = Live(u) /\ turns'[u].pend = turns[u].pend
    BY <1>6, <1>7 DEF TailOf, AskOf, Live, ToSet
  <1> HIDE DEF row, kept
  <1>9. kept \in SUBSET msgs
    BY DEF kept
  <1>10. msgs' = kept \cup AskOf(t) \cup {row}
    BY <1>2, <1>4
  <1>11. /\ Taken' = Taken \cup { Version(d) : d \in TailOf(t) }
         /\ snaps' \in Seq(Taken') /\ versions' \in Seq(Taken') /\ Ledger(versions', snaps')
    BY <1>0, <1>4, SnapshotKeeps DEF Snaps, Tails
  <1>12. \A d \in TailOf(t) : /\ Version(d) \in Taken' /\ Version(d).msg = d.id
                              /\ Version(d).stamp = d.stamp /\ Version(d).status # "pending"
    BY <1>0, <1>11 DEF Version, Tails, IsGenerating
  <1>13. /\ \A a \in AskOf(t) : /\ ~ IsGenerating(a) /\ a.id \in Nat /\ a.id <= clock + 1
                                /\ a.id # clock + 1 /\ RowFields \subseteq DOMAIN a
         /\ clock + 1 \in Nat
    BY <1>0, ClockBounds DEF Unsent
  <1>14. Shapes'
    BY <1>0, <1>1, <1>6, <1>7, <1>9, <1>10, <1>13 DEF Shapes
  <1>15. Rows'
    <2>1. Tidy(kept \cup AskOf(t))
      <3>1. Tidy(kept) /\ Tidy(AskOf(t))
        BY <1>0, <1>9, TidySubset DEF Rows, Unsent
      <3>2. \A m \in kept, a \in AskOf(t) : m.id # a.id
        BY <1>0, <1>9 DEF Unsent
      <3> QED BY <3>1, <3>2, TidyUnion
    <2>2. Tidy(msgs')
      <3>1. \A m \in kept \cup AskOf(t) : m.id # row.id
        BY <1>1, <1>9, <1>13, ClockBounds
      <3> QED BY <1>1, <1>10, <1>13, <2>1, <3>1, TidyAdd
    <2>3. \A m \in msgs' : m.id <= clock' /\ (IsGenerating(m) => m.stamp = m.id)
      <3>1. \A m \in kept : m.id <= clock' /\ (IsGenerating(m) => m.stamp = m.id)
        BY <1>0, <1>9, ClockBounds DEF Rows
      <3> QED BY <1>0, <1>1, <1>10, <1>13, <3>1
    <2> QED BY <2>2, <2>3 DEF Rows, IsGenerating
  <1>16. Reads'
    <2> SUFFICES ASSUME NEW e \in edits, NEW d \in e.rows
                 PROVE  /\ d.id <= clock' /\ ~ IsGenerating(d)
                        /\ \A m \in msgs' : m.id = d.id => ~ IsGenerating(m)
      BY <1>0 DEF Reads, IsGenerating
    <2>1. d.id <= clock' /\ ~ IsGenerating(d) /\ d.id # row.id
      BY <1>0, <1>1, ClockBounds DEF Reads
    <2>2. \A m \in kept : m.id = d.id => ~ IsGenerating(m)
      BY <1>0, <1>9 DEF Reads
    <2> QED BY <1>10, <1>13, <2>1, <2>2
  <1>17. Snaps'
    <2>1. \A v \in Taken' : v.status # "pending" /\ v.msg \in Nat /\ v.msg <= clock' /\ v.msg # row.id
      <3> TAKE v \in Taken'
      <3>1. CASE v \in Taken
        BY <1>0, <1>1, <3>1, ClockBounds DEF Snaps
      <3>2. CASE v \notin Taken
        <4>1. PICK d \in TailOf(t) : v = Version(d)
          BY <1>11, <3>2
        <4> QED BY <1>0, <1>1, <1>12, <4>1, ClockBounds
      <3> QED BY <3>1, <3>2
    <2>2. \A v \in Taken' : \A m \in kept : m.id = v.msg => ~ IsGenerating(m)
      <3> TAKE v \in Taken'
      <3>1. CASE v \in Taken
        BY <1>0, <1>9, <3>1 DEF Snaps
      <3>2. CASE v \notin Taken
        <4>1. PICK d \in TailOf(t) : v = Version(d)
          BY <1>11, <3>2
        <4> QED BY <1>12, <4>1 DEF kept
      <3> QED BY <3>1, <3>2
    <2>3. \A v \in Taken' : \A m \in msgs' : m.id = v.msg => ~ IsGenerating(m)
      BY <1>10, <1>13, <2>1, <2>2
    <2> QED BY <1>0, <1>11, <2>1, <2>3 DEF Snaps, IsGenerating
  <1>18. Writers'
    <2>1. ASSUME NEW u \in Turns \ {t}, Live(u)
          PROVE  /\ turns[u].pend \in Nat /\ turns[u].pend <= clock' /\ turns[u].pend # clock + 1
                 /\ \E m \in msgs' : m.id = turns[u].pend /\ IsGenerating(m)
      <3>1. turns[u].pend \in Nat /\ turns[u].pend <= clock' /\ turns[u].pend # clock + 1
        BY <1>0, <2>1, ClockBounds
      <3>2. PICK m \in msgs : m.id = turns[u].pend /\ IsGenerating(m)
        BY <1>0, <2>1 DEF Writers
      <3>3. m \in kept
        BY <1>0, <3>2 DEF Tails, kept
      <3> QED BY <1>10, <3>1, <3>2, <3>3
    <2>2. /\ turns'[t].pend \in Nat /\ turns'[t].pend <= clock'
          /\ \E m \in msgs' : m.id = turns'[t].pend /\ IsGenerating(m)
      BY <1>0, <1>1, <1>8, <1>10, <1>13
    <2>3. \A u, v \in Turns : u # v /\ Live(u)' /\ Live(v)' => turns'[u].pend # turns'[v].pend
      <3>1. \A u \in Turns \ {t} : Live(u)' => Live(u) /\ turns'[u].pend # turns'[t].pend
        BY <1>8, <2>1
      <3>2. \A u, v \in Turns \ {t} : u # v /\ Live(u)' /\ Live(v)' => turns'[u].pend # turns'[v].pend
        BY <1>0, <1>8 DEF Writers
      <3> QED BY <3>1, <3>2
    <2>4. \A u \in Turns : Live(u)' =>
             /\ turns'[u].pend \in Nat /\ turns'[u].pend <= clock'
             /\ \E m \in msgs' : m.id = turns'[u].pend /\ IsGenerating(m)
      BY <1>8, <2>1, <2>2
    <2> QED BY <2>3, <2>4 DEF Writers, IsGenerating
  <1>19. Recorded'
    <2> SUFFICES ASSUME NEW s \in written', \A m \in msgs' : m.stamp # s
                 PROVE  \E v \in Taken' : v.stamp = s
      BY DEF Recorded
    <2>1. s \in written /\ s \notin Overrun(TailOf(t))
      BY <1>4 DEF Stamps
    <2>2. CASE \E v \in Taken : v.stamp = s
      BY <1>11, <2>2
    <2>3. CASE \E m \in msgs : m.stamp = s
      <3>1. PICK m \in msgs : m.stamp = s
        BY <2>3
      <3>2. PICK d \in TailOf(t) : d.id = m.id
        BY <1>10, <3>1 DEF kept
      <3>3. CASE m \in TailOf(t)
        BY <1>12, <3>1, <3>3
      <3>4. CASE m \notin TailOf(t)
        BY <1>3, <1>11, <2>1, <3>1, <3>2, <3>4
      <3> QED BY <3>3, <3>4
    <2> QED BY <1>0, <2>1, <2>2, <2>3 DEF Recorded
  <1>20. ASSUME NEW u \in Turns PROVE Unsent(u)'
    <2>1. CASE u = t
      BY <1>8, <2>1, TidyEmpty DEF Unsent
    <2>2. CASE u # t
      <3>1. /\ Unsent(u) /\ AskOf(u)' = AskOf(u)
            /\ \A v \in Turns : AskOf(v)' \subseteq AskOf(v)
        BY <1>8, <2>2 DEF HistoryInv
      <3>2. \A a \in AskOf(u) : \A m \in msgs' : m.id # a.id
        <4>1. \A a \in AskOf(u) : a.id # row.id
          BY <1>1, ClockBounds
        <4>2. \A a \in AskOf(u) : \A b \in AskOf(t) : a.id # b.id
          BY <2>2, <3>1 DEF Unsent
        <4> QED BY <1>9, <1>10, <3>1, <4>1, <4>2 DEF Unsent
      <3>3. \A a \in AskOf(u) : a.id <= clock'
        BY <1>0, ClockBounds
      <3> QED BY <1>10, <3>1, <3>2, <3>3 DEF Unsent, IsGenerating
    <2> QED BY <2>1, <2>2
  <1>21. ASSUME NEW u \in Turns PROVE Tails(u)'
    <2>1. CASE u = t
      BY <1>8, <2>1, TidyEmpty DEF Tails
    <2>2. CASE u # t
      <3>1. Tails(u) /\ TailOf(u)' = TailOf(u)
        BY <1>8, <2>2 DEF HistoryInv
      <3>2. \A d \in TailOf(u) : d.id <= clock' /\ d.id # row.id
        BY <1>0, <1>1, ClockBounds
      <3>3. \A d \in TailOf(u) : \A m \in msgs' : m.id = d.id => ~ IsGenerating(m)
        BY <1>9, <1>10, <1>13, <3>1, <3>2 DEF Tails
      <3> QED BY <3>1, <3>2, <3>3 DEF Tails, IsGenerating
    <2> QED BY <2>1, <2>2
  <1> QED BY <1>14, <1>15, <1>16, <1>17, <1>18, <1>19, <1>20, <1>21 DEF HistoryInv

-----------------------------------------------------------------------------
(* The invariant holds at the start and is kept by every step.              *)

LEMMA HistoryInit ==
    ASSUME Init
    PROVE  HistoryInv
  <1>1. /\ versions = << >> /\ snaps = << >> /\ edits = {} /\ alive = TRUE /\ clock = 2
        /\ turns = [t \in Turns |-> IdleTurn]
        /\ \/ msgs = {} /\ written = {}
           \/ msgs = First /\ written = {1, 2}
    BY DEF Init
  <1>2. /\ \A t \in Turns : turns[t] = IdleTurn /\ TailOf(t) = {} /\ AskOf(t) = {} /\ ~ Live(t)
        /\ Taken = {} /\ DOMAIN turns = Turns
    <2>1. \A t \in Turns : turns[t] = IdleTurn
      BY <1>1
    <2>2. Taken = {}
      BY <1>1 DEF Taken, ToSet
    <2> QED BY <1>1, <2>1, <2>2, IdleTurnFields DEF TailOf, AskOf, Live
  <1> DEFINE one == Row(1, "user", "done", Plain)
             two == Row(2, "assistant", "complete", Plain)
  <1>3. /\ one.id = 1 /\ one.stamp = 1 /\ ~ IsGenerating(one) /\ RowFields \subseteq DOMAIN one
        /\ two.id = 2 /\ two.stamp = 2 /\ ~ IsGenerating(two) /\ RowFields \subseteq DOMAIN two
    BY NewRow DEF IsGenerating
  <1>4. First = {one, two}
    BY DEF First
  <1> HIDE DEF one, two
  <1>5. Tidy(First)
    <2>1. Tidy({one})
      BY <1>3, TidyOne
    <2>2. Tidy({one} \cup {two})
      BY <1>3, <2>1, TidyAdd
    <2> QED BY <1>4, <2>2
  <1>6. Shapes
    BY <1>1, <1>2, <1>3, <1>4, IdleTurnFields DEF Shapes
  <1>7. Rows
    <2>1. Tidy(msgs)
      BY <1>1, <1>5, TidyEmpty
    <2>2. \A m \in msgs : m.id \in {1, 2} /\ ~ IsGenerating(m)
      BY <1>1, <1>3, <1>4
    <2>3. \A m \in msgs : m.id <= clock
      BY <1>1, <2>2
    <2> QED BY <2>1, <2>2, <2>3 DEF Rows
  <1>8. Reads /\ Writers /\ \A t \in Turns : Unsent(t) /\ Tails(t)
    BY <1>1, <1>2, TidyEmpty DEF Reads, Writers, Unsent, Tails
  <1>9. Snaps
    <2>1. Ledger(<< >>, << >>)
      <3> DEFINE f == [k \in DOMAIN << >> |-> k]
      <3>1. f \in [DOMAIN << >> -> DOMAIN << >>] /\ DOMAIN << >> = {}
        OBVIOUS
      <3>2. Traces(f, << >>, << >>)
        BY DEF Traces
      <3> QED BY <3>1, <3>2 DEF Ledger
    <2>2. << >> \in Seq(Taken)
      OBVIOUS
    <2> QED BY <1>1, <1>2, <2>1, <2>2 DEF Snaps
  <1>10. Recorded
    BY <1>1, <1>3, <1>4 DEF Recorded
  <1> QED BY <1>6, <1>7, <1>8, <1>9, <1>10 DEF HistoryInv

LEMMA HistoryTurnStep ==
    ASSUME HistoryInv, NEW t \in Turns, TurnStep(t)
    PROVE  HistoryInv'
  <1>0. Shapes
    BY DEF HistoryInv
  <1>1. CASE \E p \in Procs, req \in Requests : Begin(t, p, req)
    BY <1>0, <1>1, LeanerBegin, QuietStep
  <1>2. CASE AskUser(t)
    BY <1>2, HistoryAskUser
  <1>3. CASE ReadTail(t)
    BY <1>3, HistoryReadTail
  <1>4. CASE DropTail(t)
    BY <1>0, <1>4, LeanerDropTail, QuietStep
  <1>5. CASE Retrieve(t)
    BY <1>0, <1>5, LeanerRetrieve, QuietStep
  <1>6. CASE \E i \in Intents : Compose(t, i)
    BY <1>6, HistoryCompose
  <1>7. CASE Refuse(t) \/ FinalizeError(t) \/ \E a \in Answers : Finish(t, a)
    BY <1>7, HistoryWritten
  <1>8. CASE GiveUp(t) \/ Abandon(t) \/ RefineRead(t) \/ RefineWrite(t) \/ Retire(t)
    BY <1>0, <1>8, LeanerEnds, QuietStep
  <1> QED BY <1>1, <1>2, <1>3, <1>4, <1>5, <1>6, <1>7, <1>8 DEF TurnStep

LEMMA HistoryStep ==
    ASSUME HistoryInv, [Next]_vars
    PROVE  HistoryInv'
  <1>0. Shapes
    BY DEF HistoryInv
  <1>1. CASE \E t \in Turns : TurnStep(t)
    BY <1>1, HistoryTurnStep
  <1>2. CASE UserStep
    <2>1. CASE \E m \in msgs : EditMessage(m) \/ TruncateAfter(m)
      BY <2>1, HistoryReads
    <2>2. CASE \E m \in msgs, i \in DOMAIN versions : ActivateVersion(m, versions[i])
      BY <2>2, HistoryReads
    <2>3. CASE \E e \in edits : FinishEdit(e) \/ FinishTruncate(e)
      BY <2>3, HistoryFinishEdit, HistoryFinishTruncate
    <2>4. CASE \E e \in edits : FailEdit(e)
      BY <2>4, HistoryFailEdit
    <2>5. CASE Rename
      BY <1>0, <2>5, LeanerSame, QuietStep DEF Rename, Elsewhere, WorldSame
    <2>6. CASE DeleteConversation
      BY <2>6, HistoryDelete
    <2> QED BY <1>2, <2>1, <2>2, <2>3, <2>4, <2>5, <2>6 DEF UserStep
  <1>3. CASE \E p \in Procs : Crash(p)
    BY <1>0, <1>3, LeanerCrash, QuietStep
  <1>4. CASE \E c \in Chunks : EvidenceChanges(c)
    <2>1. UNCHANGED turns /\ WorldSame
      BY <1>4 DEF EvidenceChanges, WorldSame, conversation
    <2> QED BY <1>0, <2>1, LeanerSame, QuietStep
  <1>5. CASE UNCHANGED vars
    BY <1>0, <1>5, LeanerSame, QuietStep DEF vars, conversation, WorldSame
  <1> QED BY <1>1, <1>2, <1>3, <1>4, <1>5 DEF Next

LEMMA HistoryImplies ==
    ASSUME HistoryInv
    PROVE  HistoryKept
  <1>0. Rows /\ Snaps /\ Writers /\ Recorded
    BY DEF HistoryInv
  <1>1. GeneratingSafe
    <2>1. ASSUME alive, NEW t \in Turns, Live(t)
          PROVE  \E m \in Mine(t) : m.status = "pending" /\ m.stamp = m.id
      BY <1>0, <2>1 DEF Writers, Rows, Mine, IsGenerating
    <2>2. ASSUME NEW i \in DOMAIN versions
          PROVE  versions[i].status # "pending"
      BY <1>0 DEF Snaps
    <2> QED BY <2>1, <2>2 DEF GeneratingSafe, Live
  <1>2. NothingLost
    <2> SUFFICES ASSUME alive, NEW s \in written, \A m \in msgs : m.stamp # s,
                        \A k \in DOMAIN versions : versions[k].stamp # s
                 PROVE  \E i \in DOMAIN snaps : snaps[i].stamp = s /\ Outnumbered(snaps, i)
      BY DEF NothingLost, Outnumbered, Later
    <2>1. PICK v \in Taken : v.stamp = s
      BY <1>0 DEF Recorded
    <2>2. PICK i \in DOMAIN snaps : snaps[i] = v
      BY DEF Taken, ToSet
    <2>3. PICK f : Traces(f, versions, snaps)
      BY <1>0 DEF Snaps, Ledger
    <2>4. \A k \in DOMAIN versions : f[k] # i
      BY <2>1, <2>2, <2>3 DEF Traces
    <2> QED BY <2>1, <2>2, <2>3, <2>4 DEF Traces
  <1> QED BY <1>1, <1>2 DEF HistoryKept

\* No reply is taken from the turn that writes it, and no text is replaced or
\* deleted by a request that has read it without a version of it being kept
\* (GeneratingSafe and NothingLost of ChatTurn), for every number of replicas,
\* turns and messages, every pair of caps and every interleaving of the reads and
\* commits of edits, switches, truncations and regenerates, of crashes and failed
\* turns.  A text committed between the read and the commit of another request is
\* not covered (Overrun).
THEOREM HistoryIsKept == Spec => []HistoryKept
  <1>1. Init => HistoryInv
    BY HistoryInit
  <1>2. HistoryInv /\ [Next]_vars => HistoryInv'
    BY HistoryStep
  <1>3. HistoryInv => HistoryKept
    BY HistoryImplies
  <1> QED BY <1>1, <1>2, <1>3, PTL DEF Spec

-----------------------------------------------------------------------------
(***************************************************************************)
(* What the gate lets through.                                             *)
(***************************************************************************)
Words  == {"v1", "v2"}
Items  == [id : Chunks, text : Words]
Stored == [there : BOOLEAN, text : Words, status : {"indexed", "indexing"}, owner : {User, "other"}]
Cited  == [cites : SUBSET Nat, pii : BOOLEAN]
Said   == [claims : SUBSET Cited, odd : Oddities, note : {""}]
Gates  == [high : BOOLEAN, explicit : BOOLEAN, buffered : BOOLEAN,
           attempted : BOOLEAN, insufficient : BOOLEAN, pack : Seq(Items)]

LEMMA PackCount ==
    ASSUME NEW gate \in Gates
    PROVE  /\ Cardinality(DOMAIN gate.pack) \in Nat
           /\ DOMAIN gate.pack = 1..Cardinality(DOMAIN gate.pack)
           /\ \A n \in DOMAIN gate.pack : gate.pack[n] \in Items
  <1>1. gate.pack \in Seq(Items)
    BY DEF Gates
  <1> DEFINE p == gate.pack
             k == Len(p)
  <1>2. k \in Nat /\ DOMAIN p = 1..k /\ \A n \in DOMAIN p : p[n] \in Items
    BY <1>1
  <1> HIDE DEF k
  <1>3. Cardinality(1..k) = k
    <2>1. 1 \in Int /\ k \in Int
      BY <1>2
    <2>2. Cardinality(1..k) = IF 1 > k THEN 0 ELSE k - 1 + 1
      BY <2>1, FS_Interval
    <2> QED BY <1>2, <2>2
  <1> QED BY <1>2, <1>3

\* Markers stripped of one claim.
Stripped(c, count) == [c EXCEPT !.cites = { n \in @ : n <= count }]

LEMMA StripOne ==
    ASSUME NEW c \in Cited, NEW count \in Nat
    PROVE  /\ Stripped(c, count) \in Cited
           /\ Stripped(c, count).cites = { n \in c.cites : n <= count }
           /\ Stripped(c, count).pii = c.pii
           /\ Stripped(Stripped(c, count), count) = Stripped(c, count)
           /\ c.cites \subseteq 1..count => Stripped(c, count) = c
  <1>1. ASSUME NEW x \in Cited, NEW y \in Cited, x.cites = y.cites, x.pii = y.pii PROVE x = y
    BY <1>1 DEF Cited
  <1>2. \A x \in Cited : /\ Stripped(x, count) \in Cited
                         /\ Stripped(x, count).cites = { n \in x.cites : n <= count }
                         /\ Stripped(x, count).pii = x.pii
    BY DEF Cited, Stripped
  <1>3. Stripped(Stripped(c, count), count).cites = Stripped(c, count).cites
    BY <1>2
  <1>4. c.cites \subseteq 1..count => { n \in c.cites : n <= count } = c.cites
    OBVIOUS
  <1> QED BY <1>1, <1>2, <1>3, <1>4

LEMMA StripAll ==
    ASSUME NEW a \in Said, NEW count \in Nat
    PROVE  /\ StripMarkers(a, count) \in Said
           /\ StripMarkers(a, count).claims = { Stripped(c, count) : c \in a.claims }
           /\ StripMarkers(a, count).note = a.note
           /\ StripMarkers(StripMarkers(a, count), count) = StripMarkers(a, count)
  <1> DEFINE cuts(C) == { Stripped(c, count) : c \in C }
  <1>1. \A x \in Said : StripMarkers(x, count) = [x EXCEPT !.claims = cuts(x.claims)]
    BY DEF StripMarkers, Stripped
  <1>2. \A C \in SUBSET Cited : cuts(C) \in SUBSET Cited /\ cuts(cuts(C)) = cuts(C)
    <2> TAKE C \in SUBSET Cited
    <2>1. \A c \in C : Stripped(c, count) \in Cited /\ Stripped(Stripped(c, count), count) = Stripped(c, count)
      BY StripOne
    <2> QED BY <2>1
  <1> HIDE DEF cuts
  <1>3. \A x \in Said : /\ StripMarkers(x, count) \in Said
                        /\ StripMarkers(x, count).claims = cuts(x.claims)
                        /\ StripMarkers(x, count).odd = x.odd /\ StripMarkers(x, count).note = x.note
    BY <1>1, <1>2 DEF Said
  <1>4. ASSUME NEW x \in Said, NEW y \in Said, x.claims = y.claims, x.odd = y.odd, x.note = y.note
        PROVE  x = y
    <2>1. \A z \in Said : z = [claims |-> z.claims, odd |-> z.odd, note |-> z.note]
      <3>1. \A A, B, C : \A z \in [claims : A, odd : B, note : C] :
                z = [claims |-> z.claims, odd |-> z.odd, note |-> z.note]
        OBVIOUS
      <3> QED BY <3>1 DEF Said
    <2> QED BY <1>4, <2>1
  <1>5. a.claims \in SUBSET Cited
    BY DEF Said
  <1>6. StripMarkers(StripMarkers(a, count), count) = StripMarkers(a, count)
    BY <1>2, <1>3, <1>4, <1>5
  <1> QED BY <1>3, <1>6 DEF cuts

LEMMA Removed ==
    ASSUME NEW a \in Said, NEW bad
    PROVE  /\ RemoveClaims(a, bad) \in Said /\ RemoveClaims(a, bad).claims = a.claims \ bad
           /\ RemoveClaims(a, {}) = a
  <1>1. RemoveClaims(a, bad) \in Said /\ RemoveClaims(a, bad).claims = a.claims \ bad
    BY DEF RemoveClaims, Said
  <1>2. [a EXCEPT !.claims = a.claims] = a
    BY DEF Said
  <1>3. a.claims \ {} = a.claims
    OBVIOUS
  <1> QED BY <1>1, <1>2, <1>3 DEF RemoveClaims

\* The claims the gate removes, what is left of the answer, and its verdict.
Bad(gate, a)  == Fabricated(a, gate.pack) \cup Stale(a, gate.pack, chunks, User) \cup Leaky(a)
Count(gate)   == Cardinality(DOMAIN gate.pack)
Cleaned(gate, a) == StripMarkers(RemoveClaims(a, Bad(gate, a)), Count(gate))
Verdict(gate, a) == FinalizeGate(gate, a, chunks, User)

LEMMA Verdicts ==
    ASSUME NEW gate \in Gates, NEW a \in Said
    PROVE  LET r == Verdict(gate, a) IN
           \/ r.refused /\ \E why \in {"insufficient_evidence", "refused"} : r.answer = Refusal(why)
           \/ SchemaProblem(a) /\ ~ r.refused /\ r.answer = a /\ r.corrected = << >>
           \/ /\ ~ SchemaProblem(a) /\ ~ r.refused /\ r.answer = Cleaned(gate, a)
              /\ gate.high => HighRiskGrounded(BuildClaims(a) \ Bad(gate, a), gate.pack)
              /\ \/ r.corrected = << Cleaned(gate, a) >>
                 \/ r.corrected = << >> /\ Bad(gate, a) = {}
  <1> DEFINE ctx == [pack |-> gate.pack, chunks |-> chunks, user |-> User, high |-> gate.high,
                     explicit |-> gate.explicit, insufficient |-> gate.insufficient]
             out == GateAnswer(a, ctx)
             bad == Bad(gate, a)
             kept == BuildClaims(a) \ bad
             r == Verdict(gate, a)
  <1>1. /\ ctx.pack = gate.pack /\ ctx.chunks = chunks /\ ctx.user = User /\ ctx.high = gate.high
        /\ ctx.explicit = gate.explicit /\ ctx.insufficient = gate.insufficient
    OBVIOUS
  <1>2. /\ r.refused = (out.status # "answered")
        /\ r.answer = IF out.status # "answered" THEN Refusal(out.status) ELSE out.answer
        /\ r.corrected = IF ~ (out.status # "answered") /\ out.action = "drop_claims"
                         THEN << out.answer >> ELSE << >>
    BY DEF Verdict, FinalizeGate
  <1> HIDE DEF ctx
  <1> DEFINE hard == (IF gate.high /\ ~ HighRiskGrounded(kept, gate.pack) THEN {"high_risk_grounding"} ELSE {})
                       \cup (IF a.odd = "long" THEN {"length"} ELSE {})
                       \cup (IF a.odd = "loose" THEN {"pii_policy"} ELSE {})
  <1>3. out = IF a.odd = "empty" /\ gate.insufficient /\ (gate.explicit \/ gate.high)
              THEN Outcome(NoText, "insufficient_evidence", "refuse", "insufficient_evidence")
              ELSE IF SchemaProblem(a)
              THEN Outcome(a, "answered", "retry_format_once", "schema_invalid")
              ELSE IF hard # {}
              THEN Outcome(NoText, "refused", "refuse", "high_risk_grounding")
              ELSE IF bad # {} /\ kept = {}
              THEN Outcome(NoText, "insufficient_evidence", "refuse", "all_claims_dropped")
              ELSE IF bad # {} \/ HasPii(a)
              THEN Outcome(Cleaned(gate, a), "answered", "drop_claims", "")
              ELSE Outcome(Cleaned(gate, a), "answered", "return_answer", "")
    BY <1>1 DEF GateAnswer, Bad, Cleaned, Count
  <1>4. \A x, s, y, z : LET o == Outcome(x, s, y, z) IN o.answer = x /\ o.status = s /\ o.action = y
    BY DEF Outcome
  <1>5. hard = {} /\ gate.high => HighRiskGrounded(kept, gate.pack)
    OBVIOUS
  <1> HIDE DEF r, out, hard, kept, bad
  <1>6. \/ out.status \in {"insufficient_evidence", "refused"}
        \/ SchemaProblem(a) /\ out.status = "answered" /\ out.action = "retry_format_once" /\ out.answer = a
        \/ /\ ~ SchemaProblem(a) /\ hard = {} /\ out.status = "answered" /\ out.answer = Cleaned(gate, a)
           /\ out.action = "drop_claims" \/ (out.action = "return_answer" /\ bad = {})
    <2>1. \/ \E y, z : out = Outcome(NoText, "insufficient_evidence", y, z)
          \/ \E y, z : out = Outcome(NoText, "refused", y, z)
          \/ SchemaProblem(a) /\ \E z : out = Outcome(a, "answered", "retry_format_once", z)
          \/ /\ ~ SchemaProblem(a) /\ hard = {}
             /\ \/ \E z : out = Outcome(Cleaned(gate, a), "answered", "drop_claims", z)
                \/ bad = {} /\ \E z : out = Outcome(Cleaned(gate, a), "answered", "return_answer", z)
      BY <1>3, Zenon
    <2> QED BY <1>4, <2>1
  <1>7. CASE out.status \in {"insufficient_evidence", "refused"}
    BY <1>2, <1>7 DEF r
  <1>8. CASE SchemaProblem(a) /\ out.status = "answered" /\ out.action = "retry_format_once" /\ out.answer = a
    BY <1>2, <1>8 DEF r
  <1>9. CASE /\ ~ SchemaProblem(a) /\ hard = {} /\ out.status = "answered" /\ out.answer = Cleaned(gate, a)
             /\ out.action = "drop_claims" \/ (out.action = "return_answer" /\ bad = {})
    BY <1>2, <1>5, <1>9 DEF r, kept, bad
  <1> QED BY <1>6, <1>7, <1>8, <1>9

LEMMA KeptClaims ==
    ASSUME NEW gate \in Gates, NEW a \in Said, ~ SchemaProblem(a), chunks \in [Chunks -> Stored]
    PROVE  /\ Cleaned(gate, a).claims = BuildClaims(a) \ Bad(gate, a)
           /\ Cleaned(gate, a) \in Said
           /\ \A c \in BuildClaims(a) \ Bad(gate, a) : Holds(c, gate)
  <1> DEFINE N == Count(gate)
             kept == BuildClaims(a) \ Bad(gate, a)
  <1>1. N \in Nat /\ DOMAIN gate.pack = 1..N /\ \A n \in DOMAIN gate.pack : gate.pack[n] \in Items
    BY PackCount DEF Count
  <1>2. BuildClaims(a) = a.claims /\ a.claims \in SUBSET Cited
    BY DEF SchemaProblem, BuildClaims, Said
  <1>3. \A c \in kept : /\ c \in Cited /\ c.cites \subseteq 1..N /\ ~ c.pii
                        /\ \A i \in Evidence(c, gate.pack) : AuthorizationRecheck(i, chunks, User) = "ok"
    BY <1>1, <1>2 DEF Bad, Fabricated, Stale, Leaky
  <1>4. \A c \in kept : Stripped(c, N) = c
    BY <1>1, <1>3, StripOne
  <1>5. /\ RemoveClaims(a, Bad(gate, a)) \in Said
        /\ RemoveClaims(a, Bad(gate, a)).claims = kept
    BY <1>2, Removed
  <1>6. /\ Cleaned(gate, a) \in Said
        /\ Cleaned(gate, a).claims = { Stripped(c, N) : c \in kept }
    <2> HIDE DEF kept, N
    <2> QED BY <1>1, <1>5, StripAll DEF Cleaned, N
  <1>7. Cleaned(gate, a).claims = kept
    BY <1>4, <1>6
  <1>8. ASSUME NEW i \in Items, AuthorizationRecheck(i, chunks, User) = "ok"
        PROVE  chunks[i.id] = Sound(i.text)
    <2> DEFINE row == chunks[i.id]
    <2>1. row \in Stored
      BY DEF Items
    <2>2. row.there /\ row.text = i.text /\ row.status = "indexed" /\ row.owner = User
      BY <1>8 DEF AuthorizationRecheck
    <2> HIDE DEF row
    <2>3. row = [there |-> row.there, text |-> row.text, status |-> row.status, owner |-> row.owner]
      BY <2>1 DEF Stored
    <2>4. row.there = TRUE
      BY <2>1, <2>2 DEF Stored
    <2> QED BY <2>2, <2>3, <2>4 DEF row, Sound
  <1>9. \A c \in kept : Holds(c, gate)
    <2> TAKE c \in kept
    <2>1. c.cites \subseteq DOMAIN gate.pack /\ ~ c.pii
      BY <1>1, <1>3
    <2>2. \A n \in c.cites : gate.pack[n] \in Evidence(c, gate.pack) /\ gate.pack[n] \in Items
      BY <1>1, <2>1 DEF Evidence
    <2>3. \A n \in c.cites : chunks[gate.pack[n].id] = Sound(gate.pack[n].text)
      BY <1>3, <1>8, <2>2
    <2> QED BY <2>1, <2>3 DEF Holds
  <1> QED BY <1>6, <1>7, <1>9

\* The text that is stored is the text on the screen, and stands.
LEMMA GateStands ==
    ASSUME NEW gate \in Gates, NEW a \in Said, chunks \in [Chunks -> Stored]
    PROVE  LET r == Verdict(gate, a)
               text == StripMarkers(r.answer, Count(gate))
           IN  /\ ShownAtDone(gate, r, a) = text
               /\ ~ SchemaProblem(a) => \A c \in text.claims : Holds(c, gate)
               /\ gate.high /\ text.note = "" /\ ~ SchemaProblem(a) =>
                     \E c \in text.claims : c.cites # {}
  <1> DEFINE r == Verdict(gate, a)
             N == Count(gate)
             text == StripMarkers(r.answer, N)
             kept == BuildClaims(a) \ Bad(gate, a)
  <1>1. N \in Nat
    BY PackCount DEF Count
  <1>2. ShownAtDone(gate, r, a) =
           StripMarkers(IF gate.buffered \/ r.refused THEN r.answer
                        ELSE IF r.corrected # << >> THEN r.corrected[1] ELSE a, N)
    BY DEF ShownAtDone, Count
  <1>3. \/ r.refused /\ \E why \in {"insufficient_evidence", "refused"} : r.answer = Refusal(why)
        \/ SchemaProblem(a) /\ ~ r.refused /\ r.answer = a /\ r.corrected = << >>
        \/ /\ ~ SchemaProblem(a) /\ ~ r.refused /\ r.answer = Cleaned(gate, a)
           /\ gate.high => HighRiskGrounded(kept, gate.pack)
           /\ \/ r.corrected = << Cleaned(gate, a) >>
              \/ r.corrected = << >> /\ Bad(gate, a) = {}
    BY Verdicts
  <1> HIDE DEF r, N
  <1>4. CASE r.refused /\ \E why \in {"insufficient_evidence", "refused"} : r.answer = Refusal(why)
    <2>1. PICK why \in {"insufficient_evidence", "refused"} : r.answer = Refusal(why)
      BY <1>4
    <2>2. text.claims = {} /\ text.note = why
      BY <2>1 DEF Refusal, StripMarkers
    <2> QED BY <1>2, <1>4, <2>2 DEF r, N
  <1>5. CASE SchemaProblem(a) /\ ~ r.refused /\ r.answer = a /\ r.corrected = << >>
    BY <1>2, <1>5 DEF r, N
  <1>6. CASE /\ ~ SchemaProblem(a) /\ ~ r.refused /\ r.answer = Cleaned(gate, a)
             /\ gate.high => HighRiskGrounded(kept, gate.pack)
             /\ \/ r.corrected = << Cleaned(gate, a) >>
                \/ r.corrected = << >> /\ Bad(gate, a) = {}
    <2>1. /\ Cleaned(gate, a).claims = kept /\ Cleaned(gate, a) \in Said
          /\ \A c \in kept : Holds(c, gate)
      BY <1>6, KeptClaims
    <2>2. text = Cleaned(gate, a)
      <3>1. RemoveClaims(a, Bad(gate, a)) \in Said
        BY Removed
      <3>2. StripMarkers(Cleaned(gate, a), N) = Cleaned(gate, a)
        BY <1>1, <3>1, StripAll DEF Cleaned, N
      <3> QED BY <1>6, <3>2
    <2>3. ShownAtDone(gate, r, a) = text
      <3>1. CASE r.corrected = << Cleaned(gate, a) >>
        <4>1. r.corrected # << >> /\ r.corrected[1] = r.answer
          BY <1>6, <3>1
        <4> QED BY <1>2, <4>1
      <3>2. CASE r.corrected = << >> /\ Bad(gate, a) = {}
        <4>1. Cleaned(gate, a) = StripMarkers(a, N)
          BY <3>2, Removed DEF Cleaned, N
        <4> QED BY <1>2, <1>6, <2>2, <3>2, <4>1
      <3> QED BY <1>6, <3>1, <3>2
    <2>4. gate.high => \E c \in kept : c.cites # {}
      BY <1>6 DEF HighRiskGrounded, Evidence
    <2> HIDE DEF kept, text
    <2> QED BY <1>6, <2>1, <2>2, <2>3, <2>4 DEF r, N, text
  <1> QED BY <1>3, <1>4, <1>5, <1>6

-----------------------------------------------------------------------------
(***************************************************************************)
(* The gate of a turn is opened before anything is generated and remembers *)
(* what was retrieved; a turn whose gate refuses does not generate.        *)
(***************************************************************************)
\* A turn as far as the gate is concerned.
Gated(x) == /\ "gate" \in DOMAIN x /\ x.gate \in Gates
            /\ x.phase = "generating" => PreGenerationRefusal(x.gate) = ""

GateInv == /\ chunks \in [Chunks -> Stored]
           /\ \A t \in Turns : Gated(turns[t])

LEMMA OpenGateType ==
    ASSUME NEW q, NEW kbs, NEW explicit \in BOOLEAN
    PROVE  OpenGate(q, kbs, explicit, BufferHighRisk) \in Gates
  <1>1. BufferHighRisk \in BOOLEAN
    BY ChatTurnAssumption
  <1>2. << >> \in Seq(Items)
    OBVIOUS
  <1>3. IsHighRisk(q) \in BOOLEAN /\ (BufferHighRisk /\ IsHighRisk(q) /\ kbs # {}) \in BOOLEAN
    BY DEF IsHighRisk
  <1> QED BY <1>2, <1>3 DEF OpenGate, Gates

LEMMA IdleGated == Gated(IdleTurn) /\ "gate" \in DOMAIN IdleTurn /\ IdleTurn.gate \in Gates
  <1>1. OpenGate({}, {}, FALSE, FALSE) \in Gates
    <2>1. << >> \in Seq(Items) /\ IsHighRisk({}) \in BOOLEAN
      BY DEF IsHighRisk
    <2> QED BY <2>1 DEF OpenGate, Gates
  <1> QED BY <1>1 DEF Gated, IdleTurn

LEMMA RetrieveForGateType ==
    ASSUME NEW gate \in Gates, NEW pack \in Seq(Items)
    PROVE  RetrieveForGate(gate, pack) \in Gates
  <1>1. (pack = << >>) \in BOOLEAN
    OBVIOUS
  <1> QED BY <1>1 DEF RetrieveForGate, Gates

\* What retrieval finds is evidence as it is.
LEMMA FoundType ==
    ASSUME chunks \in [Chunks -> Stored]
    PROVE  LET s == InOrder({ [id |-> c] : c \in Usable })
           IN  [ i \in DOMAIN s |-> Item(s[i].id) ] \in Seq(Items)
  <1> DEFINE rows == { [id |-> c] : c \in Usable }
             s == InOrder(rows)
  <1>1. Usable \in SUBSET Chunks /\ IsFiniteSet(Chunks) /\ Chunks \subseteq Nat
    BY ChatTurnAssumption DEF Usable
  <1>2. Tidy(rows)
    <2> DEFINE g == [c \in Usable |-> [id |-> c]]
    <2>1. g \in Surjection(Usable, rows)
      BY DEF Surjection
    <2>2. IsFiniteSet(rows)
      <3>1. IsFiniteSet(Usable)
        BY <1>1, FS_Subset
      <3> QED BY <2>1, <3>1, FS_Surjection
    <2>3. \A m \in rows : m.id \in Nat
      BY <1>1
    <2>4. \A m, o \in rows : m.id = o.id => m = o
      OBVIOUS
    <2> HIDE DEF rows
    <2>5. Tidy(rows)
      BY <2>2, <2>3, <2>4 DEF Tidy
    <2> QED BY <2>5 DEF rows
  <1>3. s \in Seq(rows)
    BY <1>2, Ordered
  <1>4. \A m \in rows : Item(m.id) \in Items
    <2> SUFFICES ASSUME NEW c \in Usable PROVE Item(c) \in Items
      OBVIOUS
    <2>1. c \in Chunks /\ chunks[c] \in Stored
      BY <1>1
    <2> QED BY <2>1 DEF Item, Items, Stored
  <1> HIDE DEF s, rows
  <1>5. Len(s) \in Nat /\ DOMAIN s = 1..Len(s) /\ \A i \in DOMAIN s : s[i] \in rows
    BY <1>3
  <1>6. [ i \in DOMAIN s |-> Item(s[i].id) ] \in [1..Len(s) -> Items]
    BY <1>4, <1>5
  <1>7. [ i \in DOMAIN s |-> Item(s[i].id) ] \in Seq(Items)
    BY <1>5, <1>6, FcnIsSeq
  <1> QED BY <1>7 DEF s, rows

\* A step of a turn writes that turn, by a gated one; it is done only after a
\* refusal or an answer.
Wrote(t, x) == /\ turns' = [turns EXCEPT ![t] = x] /\ Gated(x)
               /\ x.phase = "done" => \/ turns[t].phase # "generating"
                                      \/ \E a \in Answers : Finish(t, a)

LEMMA WroteIdle ==
    ASSUME NEW t, turns' = [turns EXCEPT ![t] = IdleTurn]
    PROVE  \E x : Wrote(t, x)
  <1>1. IdleTurn.phase = "idle"
    BY DEF IdleTurn
  <1>2. Wrote(t, IdleTurn)
    BY <1>1, IdleGated DEF Wrote
  <1> QED BY <1>2

LEMMA WroteEnd ==
    ASSUME NEW t, NEW raw, NEW shown, EndWith(t, raw, shown),
           turns[t].phase # "generating" \/ \E a \in Answers : Finish(t, a)
    PROVE  \E x : Wrote(t, x)
  <1> DEFINE x == [IdleTurn EXCEPT !.phase = "done", !.raw = raw, !.shown = shown]
  <1>1. turns' = [turns EXCEPT ![t] = x]
    BY DEF EndWith
  <1>2. DOMAIN x = DOMAIN IdleTurn /\ x.phase = "done" /\ x.gate = IdleTurn.gate
    BY DEF IdleTurn
  <1> HIDE DEF x
  <1>3. Wrote(t, x)
    BY <1>1, <1>2, IdleGated DEF Wrote, Gated
  <1> QED BY <1>3

\* The phase moves on and the gate stays, or the turn generates behind its gate.
LEMMA WrotePhase ==
    ASSUME NEW t, Gated(turns[t]), NEW x, turns' = [turns EXCEPT ![t] = x],
           DOMAIN x = DOMAIN turns[t], x.gate = turns[t].gate, x.phase # "done",
           x.phase = "generating" => PreGenerationRefusal(turns[t].gate) = ""
    PROVE  \E y : Wrote(t, y)
  <1>1. Wrote(t, x)
    BY DEF Wrote, Gated
  <1> QED BY <1>1

LEMMA TurnWrites ==
    ASSUME Shapes, GateInv, NEW t \in Turns, TurnStep(t)
    PROVE  UNCHANGED chunks /\ \E x : Wrote(t, x)
  <1>0. /\ DOMAIN turns = Turns /\ TurnFields \subseteq DOMAIN turns[t] /\ "gate" \in DOMAIN turns[t]
        /\ Gated(turns[t]) /\ turns[t].gate \in Gates
    BY DEF Shapes, GateInv, Gated
  <1>1. ASSUME NEW p \in Procs, NEW req \in Requests, Begin(t, p, req)
        PROVE  UNCHANGED chunks /\ \E x : Wrote(t, x)
    <2> DEFINE x == [IdleTurn EXCEPT !.home = p, !.phase = "begun", !.req = req,
                                     !.route = ResolveTurnRoute(req, req.kbs # {})]
    <2>1. turns' = [turns EXCEPT ![t] = x] /\ UNCHANGED chunks
      BY <1>1 DEF Begin
    <2>2. DOMAIN x = DOMAIN IdleTurn /\ x.phase = "begun" /\ x.gate = IdleTurn.gate
      BY DEF IdleTurn
    <2> HIDE DEF x
    <2>3. Wrote(t, x)
      BY <2>1, <2>2, IdleGated DEF Wrote, Gated
    <2> QED BY <2>1, <2>3
  <1>2. ASSUME AskUser(t)
        PROVE  UNCHANGED chunks /\ \E x : Wrote(t, x)
    <2>1. PICK new : turns' = [turns EXCEPT ![t].phase = "asked", ![t].ask = new]
      BY <1>2 DEF AskUser
    <2> DEFINE x == [[turns[t] EXCEPT !.phase = "asked"] EXCEPT !.ask = new]
    <2>2. turns' = [turns EXCEPT ![t] = x]
      BY <1>0, <2>1
    <2>3. DOMAIN x = DOMAIN turns[t] /\ x.gate = turns[t].gate /\ x.phase = "asked"
      BY <1>0 DEF TurnFields
    <2> HIDE DEF x
    <2>4. UNCHANGED chunks
      BY <1>2 DEF AskUser
    <2> QED BY <1>0, <2>2, <2>3, <2>4, WrotePhase
  <1>3. ASSUME ReadTail(t)
        PROVE  UNCHANGED chunks /\ \E x : Wrote(t, x)
    <2>1. UNCHANGED chunks
      BY <1>3 DEF ReadTail
    <2>2. CASE Abort(t)
      BY <2>1, <2>2, WroteIdle DEF Abort
    <2>3. CASE ~ Abort(t)
      <3>1. PICK new : turns' = [turns EXCEPT ![t].phase = "tail", ![t].tail = new]
        BY <1>3, <2>3 DEF ReadTail
      <3> DEFINE x == [[turns[t] EXCEPT !.phase = "tail"] EXCEPT !.tail = new]
      <3>2. turns' = [turns EXCEPT ![t] = x]
        BY <1>0, <3>1
      <3>3. DOMAIN x = DOMAIN turns[t] /\ x.gate = turns[t].gate /\ x.phase = "tail"
        BY <1>0 DEF TurnFields
      <3> HIDE DEF x
      <3> QED BY <1>0, <2>1, <3>2, <3>3, WrotePhase
    <2> QED BY <2>2, <2>3
  <1>4. ASSUME DropTail(t)
        PROVE  UNCHANGED chunks /\ \E x : Wrote(t, x)
    <2> DEFINE x == [turns[t] EXCEPT !.phase = "asked"]
    <2>1. turns' = [turns EXCEPT ![t] = x] /\ UNCHANGED chunks
      BY <1>4 DEF DropTail, Step
    <2>2. DOMAIN x = DOMAIN turns[t] /\ x.gate = turns[t].gate /\ x.phase = "asked"
      BY <1>0 DEF TurnFields
    <2> HIDE DEF x
    <2> QED BY <1>0, <2>1, <2>2, WrotePhase
  <1>5. ASSUME Retrieve(t)
        PROVE  UNCHANGED chunks /\ \E x : Wrote(t, x)
    <2> DEFINE req == turns[t].req
               explicit == req.kbs # {} \/ req.mentions # {}
               gate == OpenGate(req.q, req.kbs, explicit, BufferHighRisk)
               found == LET s == InOrder({ [id |-> c] : c \in Usable })
                        IN  [ i \in DOMAIN s |-> Item(s[i].id) ]
    <2>1. gate \in Gates
      <3>1. explicit \in BOOLEAN
        OBVIOUS
      <3> QED BY <3>1, OpenGateType
    <2>2. found \in Seq(Items) /\ << >> \in Seq(Items)
      BY FoundType DEF GateInv
    <2>3. \E g \in {gate, RetrieveForGate(gate, found), RetrieveForGate(gate, << >>)} :
             turns' = [turns EXCEPT ![t].phase = "grounded", ![t].gate = g]
      BY <1>5 DEF Retrieve
    <2>4. PICK g \in Gates : turns' = [turns EXCEPT ![t].phase = "grounded", ![t].gate = g]
      <3> HIDE DEF gate, found
      <3> QED BY <2>1, <2>2, <2>3, RetrieveForGateType
    <2> DEFINE x == [[turns[t] EXCEPT !.phase = "grounded"] EXCEPT !.gate = g]
    <2>5. turns' = [turns EXCEPT ![t] = x]
      BY <1>0, <2>4
    <2>6. DOMAIN x = DOMAIN turns[t] /\ x.gate = g /\ x.phase = "grounded"
      BY <1>0 DEF TurnFields
    <2> HIDE DEF x
    <2>7. Wrote(t, x)
      BY <1>0, <2>4, <2>5, <2>6 DEF Wrote, Gated
    <2>8. UNCHANGED chunks
      BY <1>5 DEF Retrieve
    <2> QED BY <2>7, <2>8
  <1>6. ASSUME NEW intent \in Intents, Compose(t, intent)
        PROVE  UNCHANGED chunks /\ \E x : Wrote(t, x)
    <2> DEFINE phase == IF PreGenerationRefusal(turns[t].gate) = "" THEN "generating" ELSE "refusing"
    <2>1. PICK route, pend, prompt :
             turns' = [turns EXCEPT ![t].phase = phase, ![t].route = route, ![t].pend = pend,
                                    ![t].tail = << >>, ![t].ask = << >>, ![t].prompt = prompt]
      BY <1>6 DEF Compose
    <2> DEFINE a == [[turns[t] EXCEPT !.phase = phase] EXCEPT !.route = route]
               b == [[a EXCEPT !.pend = pend] EXCEPT !.tail = << >>]
               x == [[b EXCEPT !.ask = << >>] EXCEPT !.prompt = prompt]
    <2>2. turns' = [turns EXCEPT ![t] = x]
      BY <1>0, <2>1
    <2>3. DOMAIN a = DOMAIN turns[t] /\ a.phase = phase /\ a.gate = turns[t].gate
      BY <1>0 DEF TurnFields
    <2> HIDE DEF a
    <2>4. DOMAIN b = DOMAIN a /\ b.phase = a.phase /\ b.gate = a.gate
      BY <1>0, <2>3 DEF TurnFields
    <2> HIDE DEF b
    <2>5. DOMAIN x = DOMAIN b /\ x.phase = b.phase /\ x.gate = b.gate
      BY <1>0, <2>3, <2>4 DEF TurnFields
    <2> HIDE DEF x
    <2>6. UNCHANGED chunks
      BY <1>6 DEF Compose
    <2> QED BY <1>0, <2>2, <2>3, <2>4, <2>5, <2>6, WrotePhase
  <1>7. ASSUME GiveUp(t) \/ Abandon(t) \/ FinalizeError(t)
        PROVE  UNCHANGED chunks /\ \E x : Wrote(t, x)
    BY <1>7, WroteIdle DEF GiveUp, Abandon, FinalizeError, Abort, Rest
  <1>8. ASSUME RefineRead(t) \/ RefineWrite(t) \/ Retire(t)
        PROVE  UNCHANGED chunks /\ \E x : Wrote(t, x)
    <2>1. UNCHANGED chunks
      BY <1>8 DEF RefineRead, RefineWrite, Retire
    <2>2. CASE turns' = [turns EXCEPT ![t] = IdleTurn]
      BY <2>1, <2>2, WroteIdle
    <2>3. CASE turns' = [turns EXCEPT ![t].phase = "titling"]
      <3> DEFINE x == [turns[t] EXCEPT !.phase = "titling"]
      <3>1. turns' = [turns EXCEPT ![t] = x]
        BY <2>3
      <3>2. DOMAIN x = DOMAIN turns[t] /\ x.gate = turns[t].gate /\ x.phase = "titling"
        BY <1>0 DEF TurnFields
      <3> HIDE DEF x
      <3> QED BY <1>0, <2>1, <3>1, <3>2, WrotePhase
    <2> QED BY <1>8, <2>2, <2>3 DEF RefineRead, RefineWrite, Retire
  <1>9. ASSUME Refuse(t) \/ \E a \in Answers : Finish(t, a)
        PROVE  UNCHANGED chunks /\ \E x : Wrote(t, x)
    <2>1. UNCHANGED chunks
      BY <1>9 DEF Refuse, Finish, Rest
    <2>2. Refuse(t) => turns[t].phase # "generating"
      BY DEF Refuse
    <2>3. PICK raw, shown : EndWith(t, raw, shown)
      BY <1>9 DEF Refuse, Finish
    <2> QED BY <1>9, <2>1, <2>2, <2>3, WroteEnd
  <1> QED BY <1>1, <1>2, <1>3, <1>4, <1>5, <1>6, <1>7, <1>8, <1>9 DEF TurnStep

LEMMA GateInit ==
    ASSUME Init
    PROVE  GateInv
  <1>1. \A c \in Chunks : Sound("v1") \in Stored
    BY DEF Sound, Stored, Words, User
  <1> QED BY <1>1, IdleGated DEF Init, GateInv

\* No request of a user touches a turn or the evidence.
LEMMA UserSteps == UserStep => Elsewhere
  <1>1. \A rows, text : Read(rows, text) => Elsewhere
    BY DEF Read
  <1>2. \A e, new : Commit(e, new) => Elsewhere
    BY DEF Commit
  <1> QED BY <1>1, <1>2 DEF UserStep, EditMessage, TruncateAfter, ActivateVersion, FinishEdit,
                            FinishTruncate, FailEdit, Rename, DeleteConversation

\* Whatever is no step of a turn leaves the turns, or lets some go.
LEMMA OtherSteps ==
    ASSUME [Next]_vars, ~ \E t \in Turns : TurnStep(t)
    PROVE  \A t \in Turns : turns'[t] \in {IdleTurn, turns[t]}
  <1>1. CASE UserStep
    BY <1>1, UserSteps DEF Elsewhere
  <1>2. CASE \E p \in Procs : Crash(p)
    BY <1>2 DEF Crash
  <1>3. CASE \E c \in Chunks : EvidenceChanges(c)
    BY <1>3 DEF EvidenceChanges
  <1>4. CASE UNCHANGED vars
    BY <1>4 DEF vars
  <1> QED BY <1>1, <1>2, <1>3, <1>4 DEF Next

LEMMA GateStep ==
    ASSUME Shapes, GateInv, [Next]_vars
    PROVE  GateInv'
  <1>1. CASE \E t \in Turns : TurnStep(t)
    <2>1. PICK t \in Turns : TurnStep(t)
      BY <1>1
    <2>2. UNCHANGED chunks /\ \E x : Wrote(t, x)
      BY <2>1, TurnWrites
    <2>3. \A u \in Turns : Gated(turns[u])'
      BY <2>2 DEF Wrote, GateInv, Shapes, Gated
    <2> QED BY <2>2, <2>3 DEF GateInv
  <1>2. CASE ~ \E t \in Turns : TurnStep(t)
    <2>1. \A t \in Turns : turns'[t] \in {IdleTurn, turns[t]}
      BY <1>2, OtherSteps
    <2>2. \A t \in Turns : Gated(turns[t])'
      BY <2>1, IdleGated DEF GateInv, Gated
    <2>3. chunks' \in [Chunks -> Stored]
      <3>1. CASE \E c \in Chunks : EvidenceChanges(c)
        <4>1. PICK c \in Chunks : EvidenceChanges(c)
          BY <3>1
        <4>2. chunks[c] \in Stored
          BY DEF GateInv
        <4>3. { [chunks[c] EXCEPT !.there = FALSE], [chunks[c] EXCEPT !.text = "v2"],
                [chunks[c] EXCEPT !.status = "indexing"], [chunks[c] EXCEPT !.owner = "other"] } \subseteq Stored
          BY <4>2 DEF Stored, Words
        <4>4. PICK row \in Stored : chunks' = [chunks EXCEPT ![c] = row]
          BY <4>1, <4>3 DEF EvidenceChanges
        <4> QED BY <4>4 DEF GateInv
      <3>2. CASE UNCHANGED chunks
        BY <3>2 DEF GateInv
      <3>3. UserStep => UNCHANGED chunks
        BY UserSteps DEF Elsewhere
      <3>4. (\E p \in Procs : Crash(p)) \/ UNCHANGED vars => UNCHANGED chunks
        BY DEF Crash, vars
      <3> QED BY <1>2, <3>1, <3>2, <3>3, <3>4 DEF Next
    <2> QED BY <2>2, <2>3 DEF GateInv
  <1> QED BY <1>1, <1>2

-----------------------------------------------------------------------------
(* What an answer is when its turn is done.                                 *)

\* AnswerStands for one turn.
Stands(t) ==
    turns[t].phase = "generating" /\ turns'[t].phase = "done" =>
      LET text == (CHOOSE m \in msgs' : m.id = turns[t].pend).body
          gate == turns[t].gate
      IN  /\ turns'[t].shown = text
          /\ ~SchemaProblem(turns'[t].raw) => \A c \in text.claims : Holds(c, gate)
          /\ gate.high /\ text.note = "" /\ ~SchemaProblem(turns'[t].raw) =>
                \E c \in text.claims : c.cites # {}
          /\ ~(gate.attempted /\ gate.insufficient /\ (gate.explicit \/ gate.high))

\* The row a turn has written is the one the database shows.
LEMMA StoredText ==
    ASSUME HistoryInv, HistoryInv', NEW t \in Turns, NEW status, NEW body,
           Mine(t) # {}, Store(t, status, body)
    PROVE  (CHOOSE m \in msgs' : m.id = turns[t].pend).body = body
  <1>1. PICK m \in msgs : m.id = turns[t].pend /\ m \in Mine(t)
    BY DEF Mine
  <1> DEFINE n == [[m EXCEPT !.status = status] EXCEPT !.body = body]
  <1>2. n \in msgs'
    <2>1. msgs' = { IF o \in Mine(t) THEN [o EXCEPT !.status = status, !.body = body] ELSE o : o \in msgs }
      BY DEF Store, SetMsgs
    <2>2. (IF m \in Mine(t) THEN [m EXCEPT !.status = status, !.body = body] ELSE m) = n
      BY <1>1
    <2> QED BY <2>1, <2>2
  <1>3. n.id = turns[t].pend /\ n.body = body
    BY <1>1 DEF HistoryInv, Shapes, RowFields
  <1> HIDE DEF n
  <1>4. \A o \in msgs' : o.id = turns[t].pend => o = n
    BY <1>2, <1>3 DEF HistoryInv, Rows, Tidy
  <1> QED BY <1>2, <1>3, <1>4

LEMMA FinishStands ==
    ASSUME HistoryInv, HistoryInv', GateInv, NEW t \in Turns, NEW a \in Answers, Finish(t, a)
    PROVE  Stands(t)
  <1> DEFINE gate == turns[t].gate
             result == FinalizeGate(gate, a, chunks, User)
             stored == StripMarkers(result.answer, Cardinality(DOMAIN gate.pack))
  <1>1. /\ gate \in Gates /\ turns[t].phase = "generating" /\ PreGenerationRefusal(gate) = ""
        /\ chunks \in [Chunks -> Stored]
    BY DEF GateInv, Gated, Finish
  <1>2. a \in Said
    BY ChatTurnAssumption DEF Said, Cited
  <1>3. /\ ShownAtDone(gate, result, a) = stored
        /\ ~ SchemaProblem(a) => \A c \in stored.claims : Holds(c, gate)
        /\ gate.high /\ stored.note = "" /\ ~ SchemaProblem(a) => \E c \in stored.claims : c.cites # {}
    BY <1>1, <1>2, GateStands DEF Verdict, Count
  <1>4. (CHOOSE m \in msgs' : m.id = turns[t].pend).body = stored
    <2>1. Mine(t) # {} /\ Store(t, "complete", stored)
      BY DEF Finish
    <2> HIDE DEF stored
    <2> QED BY <2>1, StoredText
  <1>5. turns'[t].raw = a /\ turns'[t].shown = ShownAtDone(gate, result, a)
    <2>1. turns' = [turns EXCEPT ![t] = [IdleTurn EXCEPT !.phase = "done", !.raw = a,
                                                        !.shown = ShownAtDone(gate, result, a)]]
      BY DEF Finish, EndWith
    <2>2. DOMAIN turns = Turns
      BY DEF HistoryInv, Shapes
    <2> HIDE DEF result
    <2> QED BY <2>1, <2>2 DEF IdleTurn
  <1>6. ~ (gate.attempted /\ gate.insufficient /\ (gate.explicit \/ gate.high))
    BY <1>1 DEF PreGenerationRefusal
  <1> HIDE DEF stored, result
  <1> QED BY <1>3, <1>4, <1>5, <1>6 DEF Stands

LEMMA AnswerStep ==
    ASSUME HistoryInv, HistoryInv', GateInv, [Next]_vars, NEW t \in Turns
    PROVE  Stands(t)
  <1> SUFFICES ASSUME turns[t].phase = "generating", turns'[t].phase = "done" PROVE Stands(t)
    BY DEF Stands
  <1>0. Shapes
    BY DEF HistoryInv
  <1>1. turns'[t] # turns[t] /\ turns'[t] # IdleTurn
    BY IdleTurnFields
  <1>2. PICK u \in Turns : TurnStep(u)
    BY <1>1, OtherSteps
  <1>3. PICK x : Wrote(u, x)
    BY <1>0, <1>2, TurnWrites
  <1>4. u = t /\ turns'[t] = x
    BY <1>0, <1>1, <1>3 DEF Wrote, Shapes
  <1>5. PICK a \in Answers : Finish(t, a)
    BY <1>3, <1>4 DEF Wrote
  <1> QED BY <1>5, FinishStands

\* What a gated turn shows when it is done is what it stored, and what it stored
\* stands on the evidence of that moment (AnswerStands of ChatTurn), for any
\* answer of the model, any evidence and whatever happened to it meanwhile.
THEOREM AnswersStand == Spec => AnswerStands
  <1>1. Init => HistoryInv /\ GateInv
    BY HistoryInit, GateInit
  <1>2. HistoryInv /\ GateInv /\ [Next]_vars => (HistoryInv /\ GateInv)'
    BY HistoryStep, GateStep DEF HistoryInv
  <1>3. HistoryInv /\ HistoryInv' /\ GateInv /\ [Next]_vars =>
          [ \A t \in Turns : turns[t].phase = "generating" /\ turns'[t].phase = "done" =>
              LET text == (CHOOSE m \in msgs' : m.id = turns[t].pend).body
                  gate == turns[t].gate
              IN  /\ turns'[t].shown = text
                  /\ ~SchemaProblem(turns'[t].raw) => \A c \in text.claims : Holds(c, gate)
                  /\ gate.high /\ text.note = "" /\ ~SchemaProblem(turns'[t].raw) =>
                        \E c \in text.claims : c.cites # {}
                  /\ ~(gate.attempted /\ gate.insufficient /\ (gate.explicit \/ gate.high)) ]_vars
    BY AnswerStep DEF Stands
  <1> QED BY <1>1, <1>2, <1>3, PTL DEF Spec, AnswerStands
=============================================================================
