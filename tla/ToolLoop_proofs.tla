--------------------------- MODULE ToolLoop_proofs ---------------------------
(***************************************************************************)
(* Theorems about one turn of the native runtime (ToolLoop): types, the    *)
(* consent to dangerous tools, the budget, the model slots, and that every *)
(* prompt sent answers each of its tool calls exactly once.                *)
(*                                                                         *)
(* The last one needs the prompt of the turn through compaction and trim.  *)
(* A transcript is Whole when it opens with a system message, every tool   *)
(* message answers one call and the numbers in it are bounded; it is       *)
(* Answered(m, owed) when a call has its one answer behind it or is owed   *)
(* one.  Selecting messages in their order with the answers of every call  *)
(* keeps that (SelectionAnswered), which is what pairing does for          *)
(* compaction and what the boundaries do for the trim.  Pick enumerates    *)
(* positions by their rank, so the first part is about ranks in finite     *)
(* sets of positions.                                                      *)
(***************************************************************************)
EXTENDS ToolLoop, FiniteSetTheorems, WellFoundedInduction, SequenceTheorems, TLAPS

-----------------------------------------------------------------------------
(***************************************************************************)
(* Least and greatest elements.                                            *)
(***************************************************************************)

\* Every nonempty set of natural numbers has a least element.
LEMMA LeastNumber ==
    ASSUME NEW S, S \subseteq Nat, S # {}
    PROVE  \E x \in S : \A y \in S : x <= y
<1>1. PICK x \in S : \A y \in S : ~ (<<y, x>> \in OpToRel(<, Nat))
  BY NatLessThanWellFounded, WFMin
<1>2. \A y \in S : ~ (y < x)
  <2> SUFFICES ASSUME NEW y \in S, y < x PROVE FALSE
    OBVIOUS
  <2>1. <<y, x>> \in Nat \X Nat
    OBVIOUS
  <2>2. <<y, x>> \in OpToRel(<, Nat)
    BY <2>1 DEF OpToRel
  <2> QED BY <2>2, <1>1
<1> HIDE <1>1
<1> QED BY <1>2

\* A nonempty bounded set of natural numbers has a greatest element.
LEMMA GreatestNumber ==
    ASSUME NEW S, S \subseteq Nat, S # {}, NEW b \in Nat, \A x \in S : x <= b
    PROVE  \E x \in S : \A y \in S : y <= x
<1> DEFINE D == {n \in Nat : \E x \in S : n = b - x}
<1>1. D \subseteq Nat /\ D # {}
  <2>1. PICK x \in S : TRUE
    OBVIOUS
  <2>2. b - x \in D
    BY <2>1
  <2> QED BY <2>2
<1>2. PICK n \in D : \A k \in D : n <= k
  BY <1>1, LeastNumber
<1>3. PICK x \in S : n = b - x
  OBVIOUS
<1>4. ASSUME NEW y \in S PROVE y <= x
  <2>1. b - y \in D
    OBVIOUS
  <2> QED BY <2>1, <1>2, <1>3
<1> QED BY <1>4

-----------------------------------------------------------------------------
(***************************************************************************)
(* Pick enumerates the kept positions in their order.                      *)
(***************************************************************************)
Rank(kept, i) == Cardinality({j \in kept : j <= i})
Place(kept, k) == CHOOSE i \in kept : Rank(kept, i) = k

\* The rank of a position, which grows by at most one from position to position.
LEMMA RankType ==
    ASSUME NEW n \in Nat, NEW kept, kept \subseteq 1..n, NEW i \in Nat
    PROVE  /\ Rank(kept, i) \in 0..Cardinality(kept)
           /\ Cardinality(kept) \in Nat
           /\ IsFiniteSet(kept) /\ IsFiniteSet({j \in kept : j <= i})
<1>1. IsFiniteSet(kept)
  <2>1. IsFiniteSet(1..n)
    BY FS_Interval
  <2> QED BY <2>1, FS_Subset
<1>2. {j \in kept : j <= i} \in SUBSET kept
  OBVIOUS
<1>3. /\ IsFiniteSet({j \in kept : j <= i})
      /\ Cardinality({j \in kept : j <= i}) <= Cardinality(kept)
  BY <1>1, <1>2, FS_Subset
<1> QED BY <1>1, <1>3, FS_CardinalityType DEF Rank

LEMMA RankStep ==
    ASSUME NEW n \in Nat, NEW kept, kept \subseteq 1..n, NEW i \in Nat
    PROVE  Rank(kept, i + 1) = Rank(kept, i) + IF i + 1 \in kept THEN 1 ELSE 0
<1> DEFINE A == {j \in kept : j <= i}
<1>1. IsFiniteSet(A)
  BY RankType
<1>2. i + 1 \notin A
  OBVIOUS
<1>3. CASE i + 1 \in kept
  <2>1. {j \in kept : j <= i + 1} = A \union {i + 1}
    <3>1. ASSUME NEW j \in kept PROVE j <= i + 1 <=> j <= i \/ j = i + 1
      OBVIOUS
    <3> QED BY <3>1, <1>3
  <2>2. Cardinality(A \union {i + 1}) = Cardinality(A) + 1
    BY <1>1, <1>2, FS_AddElement
  <2> QED BY <2>1, <2>2, <1>3 DEF Rank
<1>4. CASE i + 1 \notin kept
  <2>1. {j \in kept : j <= i + 1} = A
    <3>1. ASSUME NEW j \in kept PROVE j <= i + 1 <=> j <= i
      BY <1>4
    <3> QED BY <3>1
  <2>2. Cardinality(A) \in Nat
    BY <1>1, FS_CardinalityType
  <2>3. Rank(kept, i + 1) = Cardinality(A) /\ Rank(kept, i) = Cardinality(A)
    BY <2>1 DEF Rank
  <2> HIDE DEF A
  <2> QED BY <2>2, <2>3, <1>4
<1> QED BY <1>3, <1>4

LEMMA RankGrows ==
    ASSUME NEW n \in Nat, NEW kept, kept \subseteq 1..n, NEW i \in kept, NEW j \in kept, i < j
    PROVE  Rank(kept, i) < Rank(kept, j)
<1> DEFINE A == {x \in kept : x <= i}
           B == {x \in kept : x <= j}
<1>1. IsFiniteSet(B) /\ IsFiniteSet(A)
  BY RankType
<1>2. A \in SUBSET B /\ A # B
  <2>1. j \in B /\ j \notin A
    OBVIOUS
  <2>2. A \subseteq B
    <3>1. ASSUME NEW x \in kept, x <= i PROVE x <= j
      BY <3>1
    <3> QED BY <3>1
  <2> QED BY <2>1, <2>2
<1>3. Cardinality(A) <= Cardinality(B) /\ Cardinality(A) # Cardinality(B)
  BY <1>1, <1>2, FS_Subset
<1>4. Cardinality(A) \in Nat /\ Cardinality(B) \in Nat
  BY <1>1, FS_CardinalityType
<1>5. Rank(kept, i) = Cardinality(A) /\ Rank(kept, j) = Cardinality(B)
  BY DEF Rank
<1> HIDE DEF A, B
<1> QED BY <1>3, <1>4, <1>5

\* Every rank has its position.
LEMMA PlaceExists ==
    ASSUME NEW n \in Nat, NEW kept, kept \subseteq 1..n, NEW k \in 1..Cardinality(kept)
    PROVE  Place(kept, k) \in kept /\ Rank(kept, Place(kept, k)) = k
<1> DEFINE S == {i \in Nat : Rank(kept, i) >= k}
<1>1. Rank(kept, n) = Cardinality(kept)
  <2>1. {j \in kept : j <= n} = kept
    <3>1. ASSUME NEW j \in kept PROVE j <= n
      OBVIOUS
    <3> QED BY <3>1
  <2> QED BY <2>1 DEF Rank
<1>2. n \in S
  <2>1. Cardinality(kept) \in Nat
    BY RankType
  <2> QED BY <1>1, <2>1
<1>3. PICK i \in S : \A j \in S : i <= j
  <2>1. S \subseteq Nat /\ S # {}
    BY <1>2
  <2> HIDE DEF S
  <2> QED BY <2>1, LeastNumber
<1>4. i # 0
  <2>1. {j \in kept : j <= 0} = {}
    <3>1. ASSUME NEW j \in kept PROVE ~ (j <= 0)
      OBVIOUS
    <3> QED BY <3>1
  <2>2. Rank(kept, 0) = 0
    BY <2>1, FS_EmptySet DEF Rank
  <2> QED BY <2>2
<1>5. i - 1 \in Nat /\ i - 1 \notin S
  BY <1>3, <1>4
<1>6. Rank(kept, i - 1) < k /\ Rank(kept, i - 1) \in Nat
  <2>1. Rank(kept, i - 1) \in 0..Cardinality(kept) /\ Cardinality(kept) \in Nat
    BY <1>5, RankType
  <2> QED BY <2>1, <1>5
<1>7. Rank(kept, i) = Rank(kept, i - 1) + IF i \in kept THEN 1 ELSE 0
  <2>1. Rank(kept, (i - 1) + 1)
          = Rank(kept, i - 1) + IF (i - 1) + 1 \in kept THEN 1 ELSE 0
    BY <1>5, RankStep
  <2>2. (i - 1) + 1 = i
    BY <1>3
  <2> QED BY <2>1, <2>2
<1>8. i \in kept /\ Rank(kept, i) = k
  BY <1>3, <1>6, <1>7
<1> QED BY <1>8 DEF Place

\* Later places are later positions, and no kept position is left out.
LEMMA PlacesInOrder ==
    ASSUME NEW n \in Nat, NEW kept, kept \subseteq 1..n,
           NEW k \in 1..Cardinality(kept), NEW l \in 1..Cardinality(kept), k < l
    PROVE  Place(kept, k) < Place(kept, l)
<1> DEFINE p == Place(kept, k)
           q == Place(kept, l)
<1>1. /\ p \in kept /\ Rank(kept, p) = k
      /\ q \in kept /\ Rank(kept, q) = l
  BY PlaceExists
<1> HIDE DEF p, q
<1>2. ASSUME q < p PROVE FALSE
  <2>1. Rank(kept, q) < Rank(kept, p)
    BY <1>1, <1>2, RankGrows
  <2> QED BY <2>1, <1>1
<1>3. p # q
  BY <1>1
<1>4. p \in Nat /\ q \in Nat
  BY <1>1
<1>5. p < q
  BY <1>2, <1>3, <1>4
<1> QED BY <1>5 DEF p, q

LEMMA PlacesCover ==
    ASSUME NEW n \in Nat, NEW kept, kept \subseteq 1..n, NEW i \in kept
    PROVE  Rank(kept, i) \in 1..Cardinality(kept) /\ Place(kept, Rank(kept, i)) = i
<1>0. i \in Nat
  OBVIOUS
<1>1. /\ Rank(kept, i) \in 0..Cardinality(kept) /\ Cardinality(kept) \in Nat
      /\ IsFiniteSet({j \in kept : j <= i})
  BY <1>0, RankType
<1>2. Rank(kept, i) # 0
  <2>1. i \in {j \in kept : j <= i}
    BY <1>0
  <2> QED BY <2>1, <1>1, FS_EmptySet DEF Rank
<1>3. Rank(kept, i) \in 1..Cardinality(kept)
  BY <1>1, <1>2
<1> DEFINE p == Place(kept, Rank(kept, i))
<1>4. p \in kept /\ Rank(kept, p) = Rank(kept, i)
  BY <1>3, PlaceExists
<1> HIDE DEF p
<1>5. p \in Nat
  BY <1>4
<1>6. ASSUME p < i PROVE FALSE
  <2>1. Rank(kept, p) < Rank(kept, i)
    BY <1>4, <1>6, RankGrows
  <2> QED BY <2>1, <1>3, <1>4
<1>7. ASSUME i < p PROVE FALSE
  <2>1. Rank(kept, i) < Rank(kept, p)
    BY <1>4, <1>7, RankGrows
  <2> QED BY <2>1, <1>3, <1>4
<1>8. p = i
  BY <1>0, <1>5, <1>6, <1>7
<1> QED BY <1>3, <1>8 DEF p

-----------------------------------------------------------------------------
(***************************************************************************)
(* Transcripts: every call has its answer behind it, and only one, but for *)
(* the calls that are owed one, which have none.                           *)
(***************************************************************************)
Answered(m, owed) ==
    \A i \in Of(m, "assistant") : \A id \in m[i].ids :
       /\ id \in owed => \A j \in Of(m, "tool") : id \notin m[j].ids
       /\ id \notin owed => \E j \in Of(m, "tool") :
              /\ i < j /\ id \in m[j].ids
              /\ \A k \in Of(m, "tool") : id \in m[k].ids => k = j

OneAnswerEach(m) == \A j \in Of(m, "tool") : \E id \in Nat : m[j].ids = {id}

Numbered(m) == \E b \in Nat : \A i \in DOMAIN m : \A id \in m[i].ids : id <= b

Opened(m) == m # <<>> /\ m[1].role = "system"

Whole(m) == m \in Seq(Message) /\ Opened(m) /\ OneAnswerEach(m) /\ Numbered(m)

\* The body begins somewhere, and before it there are system messages only.
LEMMA BodyIsSuffix ==
    ASSUME NEW m \in Seq(Message)
    PROVE  \E b \in 1..Len(m) + 1 :
              /\ Body(m) = b..Len(m) /\ Len(m) - Cardinality(Body(m)) = b - 1
              /\ \A i \in 1..b - 1 : m[i].role = "system"
<1>0. DOMAIN m = 1..Len(m) /\ Len(m) \in Nat
  OBVIOUS
<1>1. \E b \in 1..Len(m) + 1 :
         /\ \A i \in 1..Len(m) : i \in Body(m) <=> b <= i
         /\ \A i \in 1..b - 1 : m[i].role = "system"
  <2>1. CASE Body(m) = {}
    <3>1. ASSUME NEW i \in 1..Len(m) PROVE m[i].role = "system"
      <4>1. i \notin Body(m) /\ i \in 1..i
        BY <2>1
      <4> QED BY <4>1, <1>0 DEF Body
    <3>2. \A i \in 1..Len(m) : i \in Body(m) <=> Len(m) + 1 <= i
      BY <2>1, <1>0
    <3>3. \A i \in 1..(Len(m) + 1) - 1 : m[i].role = "system"
      BY <3>1, <1>0
    <3>4. Len(m) + 1 \in 1..Len(m) + 1
      BY <1>0
    <3> QED BY <3>2, <3>3, <3>4
  <2>2. CASE Body(m) # {}
    <3>1. Body(m) \subseteq Nat
      BY <1>0 DEF Body
    <3>2. PICK b \in Body(m) : \A i \in Body(m) : b <= i
      BY <3>1, <2>2, LeastNumber
    <3>3. b \in 1..Len(m) + 1
      BY <3>2, <1>0 DEF Body
    <3>4. PICK j \in 1..b : m[j].role # "system"
      BY <3>2 DEF Body
    <3>5. ASSUME NEW i \in 1..Len(m), b <= i PROVE i \in Body(m)
      <4>1. j \in 1..i
        BY <3>3, <3>5
      <4> QED BY <4>1, <3>4, <1>0 DEF Body
    <3>6. ASSUME NEW i \in 1..Len(m), i \in Body(m) PROVE b <= i
      BY <3>2, <3>6
    <3>7. ASSUME NEW i \in 1..b - 1 PROVE m[i].role = "system"
      <4>1. i \in DOMAIN m /\ ~ (b <= i) /\ i \in 1..i
        BY <3>3, <1>0
      <4>2. i \notin Body(m)
        BY <4>1, <3>2
      <4> QED BY <4>1, <4>2 DEF Body
    <3> QED BY <3>3, <3>5, <3>6, <3>7
  <2> QED BY <2>1, <2>2
<1>2. PICK b \in 1..Len(m) + 1 :
         /\ \A i \in 1..Len(m) : i \in Body(m) <=> b <= i
         /\ \A i \in 1..b - 1 : m[i].role = "system"
  BY <1>1
<1>3. Body(m) = b..Len(m)
  <2>1. \A i : i \in Body(m) => i \in 1..Len(m)
    BY <1>0 DEF Body
  <2>2. \A i : i \in b..Len(m) => i \in 1..Len(m) /\ b <= i
    BY <1>0, <1>2
  <2>3. \A i : i \in 1..Len(m) /\ b <= i => i \in b..Len(m)
    BY <1>0, <1>2
  <2> QED BY <2>1, <2>2, <2>3, <1>2
<1>4. Cardinality(b..Len(m)) = IF b > Len(m) THEN 0 ELSE Len(m) - b + 1
  <2>1. b \in Int /\ Len(m) \in Int
    BY <1>0, <1>2
  <2> QED BY <2>1, FS_Interval
<1>5. Len(m) - Cardinality(Body(m)) = b - 1
  BY <1>0, <1>2, <1>3, <1>4
<1> QED BY <1>2, <1>3, <1>5

\* A selection of messages in their order keeps the answers it takes along.
LEMMA SelectionAnswered ==
    ASSUME NEW m \in Seq(Message), Answered(m, {}),
           NEW n \in Seq(Message), NEW f \in [DOMAIN n -> DOMAIN m],
           \A k \in DOMAIN n : n[k] = m[f[k]],
           \A k \in DOMAIN n, l \in DOMAIN n : k < l => f[k] < f[l],
           \A k \in Of(n, "assistant") : \A j \in Of(m, "tool") :
              f[k] < j /\ (\E id \in m[f[k]].ids : id \in m[j].ids)
                 => \E l \in DOMAIN n : f[l] = j
    PROVE  Answered(n, {})
<1> SUFFICES ASSUME NEW k \in Of(n, "assistant"), NEW id \in n[k].ids
             PROVE  \E l \in Of(n, "tool") :
                       /\ k < l /\ id \in n[l].ids
                       /\ \A x \in Of(n, "tool") : id \in n[x].ids => x = l
  BY DEF Answered
<1>0. DOMAIN n \subseteq Nat /\ DOMAIN m \subseteq Nat
  OBVIOUS
<1>1. k \in DOMAIN n /\ f[k] \in Of(m, "assistant") /\ id \in m[f[k]].ids
  BY DEF Of
<1>2. PICK j \in Of(m, "tool") :
         /\ f[k] < j /\ id \in m[j].ids
         /\ \A x \in Of(m, "tool") : id \in m[x].ids => x = j
  BY <1>1 DEF Answered
<1>3. PICK l \in DOMAIN n : f[l] = j
  BY <1>1, <1>2
<1>4. l \in Of(n, "tool") /\ id \in n[l].ids
  BY <1>2, <1>3 DEF Of
<1>5. k < l
  <2>1. ASSUME l < k PROVE FALSE
    <3>1. f[l] < f[k] /\ f[l] \in Nat /\ f[k] \in Nat
      BY <2>1, <1>0, <1>1, <1>3
    <3> QED BY <3>1, <1>2, <1>3
  <2>2. l # k
    BY <1>2, <1>3, <1>0, <1>1
  <2> QED BY <2>1, <2>2, <1>0, <1>1, <1>3
<1>6. ASSUME NEW x \in Of(n, "tool"), id \in n[x].ids PROVE x = l
  <2>1. x \in DOMAIN n /\ f[x] \in Of(m, "tool") /\ id \in m[f[x]].ids
    BY <1>6 DEF Of
  <2>2. f[x] = j
    BY <2>1, <1>2
  <2>3. ~ (x < l) /\ ~ (l < x)
    <3>1. f[x] = f[l] /\ f[x] \in Nat
      BY <2>1, <2>2, <1>3, <1>0
    <3> QED BY <3>1, <2>1, <1>3
  <2> QED BY <2>3, <2>1, <1>3, <1>0
<1> QED BY <1>4, <1>5, <1>6

\* System messages before a whole transcript change nothing for its calls.
LEMMA SystemPrefixAnswered ==
    ASSUME NEW p \in Seq(Message), \A i \in DOMAIN p : p[i].role = "system",
           NEW n \in Seq(Message), Answered(n, {})
    PROVE  Answered(p \o n, {})
<1> DEFINE m == p \o n
<1>0. /\ m \in Seq(Message) /\ DOMAIN m = 1..Len(p) + Len(n)
      /\ DOMAIN p = 1..Len(p) /\ DOMAIN n = 1..Len(n)
      /\ Len(p) \in Nat /\ Len(n) \in Nat
      /\ \A i \in 1..Len(p) + Len(n) : m[i] = IF i <= Len(p) THEN p[i] ELSE n[i - Len(p)]
  BY ConcatProperties
<1> HIDE DEF m
<1>1. ASSUME NEW i \in DOMAIN m, m[i].role # "system"
      PROVE  i - Len(p) \in DOMAIN n /\ m[i] = n[i - Len(p)]
  BY <1>0, <1>1
<1>2. ASSUME NEW i \in DOMAIN n PROVE i + Len(p) \in DOMAIN m /\ m[i + Len(p)] = n[i]
  <2>1. i + Len(p) \in 1..Len(p) + Len(n) /\ ~ (i + Len(p) <= Len(p))
        /\ (i + Len(p)) - Len(p) = i
    BY <1>0
  <2> QED BY <2>1, <1>0
<1> SUFFICES ASSUME NEW k \in Of(m, "assistant"), NEW id \in m[k].ids
             PROVE  \E l \in Of(m, "tool") :
                       /\ k < l /\ id \in m[l].ids
                       /\ \A x \in Of(m, "tool") : id \in m[x].ids => x = l
  BY DEF Answered, m
<1>3. k - Len(p) \in Of(n, "assistant") /\ id \in n[k - Len(p)].ids
  BY <1>1 DEF Of
<1>4. PICK j \in Of(n, "tool") :
         /\ k - Len(p) < j /\ id \in n[j].ids
         /\ \A x \in Of(n, "tool") : id \in n[x].ids => x = j
  BY <1>3 DEF Answered
<1>5. j + Len(p) \in Of(m, "tool") /\ id \in m[j + Len(p)].ids
  BY <1>2, <1>4 DEF Of
<1>6. k < j + Len(p)
  <2>1. k \in Nat /\ j \in Nat
    BY <1>0, <1>4 DEF Of
  <2> QED BY <2>1, <1>4, <1>0
<1>7. ASSUME NEW x \in Of(m, "tool"), id \in m[x].ids PROVE x = j + Len(p)
  <2>1. x - Len(p) \in Of(n, "tool") /\ id \in n[x - Len(p)].ids
    BY <1>1, <1>7 DEF Of
  <2>2. x - Len(p) = j
    BY <2>1, <1>4
  <2>3. x \in Nat /\ j \in Nat
    BY <1>0, <1>4 DEF Of
  <2> QED BY <2>2, <2>3, <1>0
<1> QED BY <1>5, <1>6, <1>7

\* What is kept with a tail: positions of the transcript, calls with their answers.
LEMMA ClosureKeeps ==
    ASSUME NEW m \in Seq(Message), NEW tail, tail \subseteq DOMAIN m
    PROVE  /\ PairClosure(m, tail) \subseteq DOMAIN m
           /\ \A i \in PairClosure(m, tail) \intersect Of(m, "assistant") :
                 \A j \in Of(m, "tool") :
                    m[j].ids \subseteq m[i].ids => j \in PairClosure(m, tail)
<1> DEFINE callers == tail \union {i \in Of(m, "assistant") :
                         \E j \in tail : m[j].role = "tool" /\ m[j].ids \subseteq m[i].ids}
           results == {j \in Of(m, "tool") :
                         \E i \in callers : m[i].role = "assistant" /\ m[j].ids \subseteq m[i].ids}
<1>1. PairClosure(m, tail) = callers \union results
  BY DEF PairClosure
<1>2. callers \subseteq DOMAIN m /\ results \subseteq DOMAIN m
  BY DEF Of
<1>3. ASSUME NEW i \in callers \union results, i \in Of(m, "assistant")
      PROVE  i \in callers /\ m[i].role = "assistant"
  BY <1>3 DEF Of
<1>4. ASSUME NEW i \in callers \union results, i \in Of(m, "assistant"),
             NEW j \in Of(m, "tool"), m[j].ids \subseteq m[i].ids
      PROVE  j \in results
  BY <1>3, <1>4
<1> QED BY <1>1, <1>2, <1>4

\* Picking kept positions: their messages in their order.
LEMMA PickSelects ==
    ASSUME NEW m \in Seq(Message), NEW kept, kept \subseteq DOMAIN m
    PROVE  /\ Cardinality(kept) \in Nat
           /\ Pick(m, kept) \in Seq(Message)
           /\ DOMAIN Pick(m, kept) = 1..Cardinality(kept)
           /\ \A k \in 1..Cardinality(kept) :
                 Place(kept, k) \in kept /\ Pick(m, kept)[k] = m[Place(kept, k)]
<1>0. DOMAIN m = 1..Len(m) /\ Len(m) \in Nat
  OBVIOUS
<1>1. Cardinality(kept) \in Nat
  BY <1>0, RankType
<1>2. ASSUME NEW k \in 1..Cardinality(kept) PROVE Place(kept, k) \in kept
  BY <1>0, <1>2, PlaceExists
<1>3. Pick(m, kept) = [k \in 1..Cardinality(kept) |-> m[Place(kept, k)]]
  BY DEF Pick, Place, Rank
<1>4. \A k \in 1..Cardinality(kept) : m[Place(kept, k)] \in Message
  BY <1>0, <1>2
<1>5. Pick(m, kept) \in [1..Cardinality(kept) -> Message]
  BY <1>3, <1>4
<1>6. Pick(m, kept) \in Seq(Message)
  BY <1>1, <1>5
<1> QED BY <1>1, <1>2, <1>3, <1>6

LEMMA PickAnswered ==
    ASSUME NEW m \in Seq(Message), Answered(m, {}), OneAnswerEach(m),
           NEW kept, kept \subseteq DOMAIN m,
           \A i \in kept \intersect Of(m, "assistant") : \A j \in Of(m, "tool") :
              m[j].ids \subseteq m[i].ids => j \in kept
    PROVE  Answered(Pick(m, kept), {})
<1> DEFINE n == Pick(m, kept)
           f == [k \in 1..Cardinality(kept) |-> Place(kept, k)]
<1>0. DOMAIN m = 1..Len(m) /\ Len(m) \in Nat
  OBVIOUS
<1>1. /\ n \in Seq(Message) /\ DOMAIN n = 1..Cardinality(kept) /\ Cardinality(kept) \in Nat
      /\ \A k \in DOMAIN n : Place(kept, k) \in kept /\ n[k] = m[Place(kept, k)]
  BY PickSelects
<1>2. f \in [DOMAIN n -> DOMAIN m] /\ \A k \in DOMAIN n : f[k] \in kept /\ n[k] = m[f[k]]
  BY <1>1
<1>3. ASSUME NEW k \in DOMAIN n, NEW l \in DOMAIN n, k < l PROVE f[k] < f[l]
  BY <1>0, <1>1, <1>3, PlacesInOrder
<1>4. ASSUME NEW k \in Of(n, "assistant"), NEW j \in Of(m, "tool"),
             NEW id \in m[f[k]].ids, id \in m[j].ids
      PROVE  \E l \in DOMAIN n : f[l] = j
  <2>1. k \in DOMAIN n /\ f[k] \in kept \intersect Of(m, "assistant")
    BY <1>2 DEF Of
  <2>2. m[j].ids \subseteq m[f[k]].ids
    <3>1. PICK x \in Nat : m[j].ids = {x}
      BY DEF OneAnswerEach
    <3> QED BY <3>1, <1>4
  <2>3. j \in kept
    BY <2>1, <2>2
  <2>4. Rank(kept, j) \in 1..Cardinality(kept) /\ Place(kept, Rank(kept, j)) = j
    BY <1>0, <2>3, PlacesCover
  <2> QED BY <2>4, <1>1
<1>5. \A k \in Of(n, "assistant") : \A j \in Of(m, "tool") :
         f[k] < j /\ (\E id \in m[f[k]].ids : id \in m[j].ids) => \E l \in DOMAIN n : f[l] = j
  BY <1>4
<1> HIDE DEF n, f
<1>6. Answered(n, {})
  BY <1>1, <1>2, <1>3, <1>5, SelectionAnswered
<1> QED BY <1>6 DEF n

\* A message that stands in m, or a summary.
Stems(x, m) == x = Msg("system", {}, SummaryCost) \/ \E i \in DOMAIN m : x = m[i]

\* Numbers and single answers are inherited message by message.
LEMMA StemsInherit ==
    ASSUME NEW m \in Seq(Message), OneAnswerEach(m), Numbered(m),
           NEW n \in Seq(Message), \A k \in DOMAIN n : Stems(n[k], m)
    PROVE  OneAnswerEach(n) /\ Numbered(n)
<1>1. ASSUME NEW k \in Of(n, "tool") PROVE \E id \in Nat : n[k].ids = {id}
  <2>1. k \in DOMAIN n /\ n[k].role = "tool"
    BY DEF Of
  <2>2. n[k] # Msg("system", {}, SummaryCost)
    BY <2>1 DEF Msg
  <2>3. PICK i \in DOMAIN m : n[k] = m[i]
    BY <2>1, <2>2 DEF Stems
  <2>4. i \in Of(m, "tool")
    BY <2>1, <2>3 DEF Of
  <2> QED BY <2>3, <2>4 DEF OneAnswerEach
<1>2. PICK b \in Nat : \A i \in DOMAIN m : \A id \in m[i].ids : id <= b
  BY DEF Numbered
<1>3. ASSUME NEW k \in DOMAIN n, NEW id \in n[k].ids PROVE id <= b
  <2>1. CASE n[k] = Msg("system", {}, SummaryCost)
    BY <2>1 DEF Msg
  <2>2. CASE \E i \in DOMAIN m : n[k] = m[i]
    BY <2>2, <1>2
  <2> QED BY <2>1, <2>2 DEF Stems
<1> QED BY <1>1, <1>3 DEF OneAnswerEach, Numbered

LEMMA SummaryMessage == Msg("system", {}, SummaryCost) \in Message
<1>1. SummaryCost \in Nat
  BY TranscriptAssumption
<1>2. {} \in SUBSET Nat
  OBVIOUS
<1> QED BY <1>1, <1>2 DEF Msg, Message

\* What Assemble builds from the kept positions is a whole transcript again.
LEMMA AssembleWhole ==
    ASSUME NEW m, Whole(m), Answered(m, {}),
           NEW kept, kept \subseteq DOMAIN m,
           \A i \in kept \intersect Of(m, "assistant") : \A j \in Of(m, "tool") :
              m[j].ids \subseteq m[i].ids => j \in kept
    PROVE  Whole(Assemble(m, kept)) /\ Answered(Assemble(m, kept), {})
<1>0. m \in Seq(Message) /\ OneAnswerEach(m) /\ Numbered(m)
      /\ DOMAIN m = 1..Len(m) /\ Len(m) \in Nat
  BY DEF Whole
<1>1. PICK b \in 1..Len(m) + 1 :
         /\ Len(m) - Cardinality(Body(m)) = b - 1
         /\ \A i \in 1..b - 1 : m[i].role = "system"
  BY <1>0, BodyIsSuffix
<1> DEFINE summary == Msg("system", {}, SummaryCost)
           lead == SubSeq(m, 1, b - 1)
           head == lead \o <<summary>>
           rest == Pick(m, kept)
<1>2. Assemble(m, kept) = head \o rest
  BY <1>1 DEF Assemble
<1>3. /\ lead \in Seq(Message) /\ Len(lead) = b - 1
      /\ \A i \in 1..b - 1 : lead[i] = m[i]
  <2>1. \A i \in 1..b - 1 : m[i] \in Message
    BY <1>0, <1>1
  <2>2. b - 1 \in Int /\ 1 \in Int /\ b - 1 \in Nat
    BY <1>1, <1>0
  <2>3. /\ SubSeq(m, 1, b - 1) \in Seq(Message)
        /\ Len(SubSeq(m, 1, b - 1)) = IF 1 <= b - 1 THEN (b - 1) - 1 + 1 ELSE 0
        /\ \A i \in 1..(b - 1) - 1 + 1 : SubSeq(m, 1, b - 1)[i] = m[1 + i - 1]
    BY <2>1, <2>2, SubSeqProperties
  <2>4. (b - 1) - 1 + 1 = b - 1 /\ \A i \in 1..b - 1 : 1 + i - 1 = i
    BY <2>2
  <2> QED BY <2>2, <2>3, <2>4
<1>4. summary \in Message /\ summary.role = "system"
  BY SummaryMessage DEF Msg
<1>5. /\ head \in Seq(Message) /\ Len(head) = b /\ DOMAIN head = 1..b
      /\ \A i \in 1..b : head[i] = IF i <= b - 1 THEN m[i] ELSE summary
  <2>1. /\ <<summary>> \in Seq(Message) /\ Len(<<summary>>) = 1 /\ <<summary>>[1] = summary
    BY <1>4
  <2> HIDE DEF summary, lead
  <2>2. /\ head \in Seq(Message) /\ Len(head) = Len(lead) + Len(<<summary>>)
        /\ \A i \in 1..Len(lead) + Len(<<summary>>) :
              head[i] = IF i <= Len(lead) THEN lead[i] ELSE <<summary>>[i - Len(lead)]
    BY <2>1, <1>3, ConcatProperties
  <2> HIDE DEF head
  <2>3. (b - 1) + 1 = b /\ b \in Nat
    BY <1>1
  <2>4. Len(head) = b
    BY <2>1, <2>2, <2>3, <1>3
  <2>5. ASSUME NEW i \in 1..b PROVE head[i] = IF i <= b - 1 THEN m[i] ELSE summary
    <3>1. CASE i <= b - 1
      BY <3>1, <2>1, <2>2, <2>3, <1>3
    <3>2. CASE i = b
      <4>1. i - Len(lead) = 1 /\ ~ (i <= Len(lead)) /\ i \in 1..Len(lead) + Len(<<summary>>)
        BY <3>2, <1>3, <2>1, <2>3
      <4>2. head[i] = <<summary>>[i - Len(lead)]
        BY <4>1, <2>2
      <4>3. head[i] = summary
        BY <4>1, <4>2, <2>1
      <4>4. ~ (i <= b - 1)
        BY <3>2, <2>3
      <4> QED BY <4>3, <4>4
    <3> QED BY <3>1, <3>2, <2>3
  <2>6. DOMAIN head = 1..b
    BY <2>2, <2>4
  <2> QED BY <2>2, <2>4, <2>5, <2>6
<1>6. /\ rest \in Seq(Message) /\ Cardinality(kept) \in Nat
      /\ DOMAIN rest = 1..Cardinality(kept)
      /\ \A k \in 1..Cardinality(kept) :
            Place(kept, k) \in kept /\ rest[k] = m[Place(kept, k)]
  BY <1>0, PickSelects
<1>7. Answered(rest, {})
  BY <1>0, PickAnswered
<1> HIDE DEF head, rest
<1> DEFINE n == head \o rest
<1>8. \A i \in DOMAIN head : head[i].role = "system"
  BY <1>1, <1>4, <1>5
<1>9. Answered(n, {})
  BY <1>5, <1>6, <1>7, <1>8, SystemPrefixAnswered
<1>10. /\ n \in Seq(Message) /\ Len(n) = Len(head) + Len(rest)
       /\ \A i \in 1..Len(head) + Len(rest) :
             n[i] = IF i <= Len(head) THEN head[i] ELSE rest[i - Len(head)]
  BY <1>5, <1>6, ConcatProperties
<1>11. Len(rest) \in Nat /\ DOMAIN rest = 1..Len(rest) /\ b \in Nat /\ b >= 1
       /\ DOMAIN n = 1..b + Len(rest)
  <2> HIDE DEF n
  <2> QED BY <1>1, <1>5, <1>6, <1>10
<1>12. ASSUME NEW k \in DOMAIN n PROVE Stems(n[k], m)
  <2>1. CASE k <= b
    <3>1. n[k] = head[k] /\ k \in 1..b
      BY <2>1, <1>5, <1>10, <1>11
    <3>2. CASE k <= b - 1
      <4>1. n[k] = m[k] /\ k \in DOMAIN m
        BY <3>1, <3>2, <1>5, <1>0, <1>1
      <4> QED BY <4>1 DEF Stems
    <3>3. CASE ~ (k <= b - 1)
      BY <3>1, <3>3, <1>5 DEF Stems
    <3> QED BY <3>2, <3>3
  <2>2. CASE ~ (k <= b)
    <3>1. n[k] = rest[k - b] /\ k - b \in 1..Len(rest)
      BY <2>2, <1>5, <1>10, <1>11
    <3>2. k - b \in 1..Cardinality(kept)
      BY <3>1, <1>6, <1>11
    <3>3. rest[k - b] = m[Place(kept, k - b)] /\ Place(kept, k - b) \in DOMAIN m
      BY <3>2, <1>6
    <3> QED BY <3>1, <3>3 DEF Stems
  <2> QED BY <2>1, <2>2
<1>13. Opened(n)
  <2>1. 1 \in DOMAIN n /\ n[1] = head[1] /\ 1 \in 1..b
    BY <1>5, <1>10, <1>11
  <2>2. n[1].role = "system"
    BY <2>1, <1>5, <1>8
  <2>3. n # <<>>
    BY <2>1
  <2> QED BY <2>2, <2>3 DEF Opened
<1> HIDE DEF n
<1>14. OneAnswerEach(n) /\ Numbered(n)
  BY <1>0, <1>10, <1>12, StemsInherit
<1>15. Whole(n)
  BY <1>10, <1>13, <1>14 DEF Whole
<1> QED BY <1>2, <1>9, <1>15 DEF n

\* Compaction leaves a whole transcript whole.
LEMMA CompactWhole ==
    ASSUME NEW m, Whole(m), Answered(m, {})
    PROVE  Whole(Compact(m)) /\ Answered(Compact(m), {})
<1> DEFINE kept == PairClosure(m, RecentTail(m))
<1>1. m \in Seq(Message)
  BY DEF Whole
<1>2. RecentTail(m) \subseteq DOMAIN m
  BY DEF RecentTail, Body
<1>3. /\ kept \subseteq DOMAIN m
      /\ \A i \in kept \intersect Of(m, "assistant") : \A j \in Of(m, "tool") :
            m[j].ids \subseteq m[i].ids => j \in kept
  BY <1>1, <1>2, ClosureKeeps
<1>4. Compact(m) = m \/ Compact(m) = Assemble(m, kept)
  BY DEF Compact
<1> HIDE DEF kept
<1>5. Whole(Assemble(m, kept)) /\ Answered(Assemble(m, kept), {})
  BY <1>3, AssembleWhole
<1> QED BY <1>4, <1>5

\* Dropping what lies between the first message and position q.
LEMMA FromWhole ==
    ASSUME NEW m, Whole(m), Answered(m, {}), NEW q \in 2..Len(m)
    PROVE  Whole(From(m, q)) /\ Answered(From(m, q), {})
<1>0. /\ m \in Seq(Message) /\ OneAnswerEach(m) /\ Numbered(m) /\ Opened(m)
      /\ DOMAIN m = 1..Len(m) /\ Len(m) \in Nat /\ q \in Nat
  BY DEF Whole
<1> DEFINE first == <<m[1]>>
           rest == SubSeq(m, q, Len(m))
           n == From(m, q)
           f == [k \in 1..Len(m) - q + 2 |-> IF k = 1 THEN 1 ELSE k + q - 2]
<1>1. first \in Seq(Message) /\ Len(first) = 1 /\ first[1] = m[1]
  <2>1. m[1] \in Message
    BY <1>0
  <2> QED BY <2>1
<1>2. /\ rest \in Seq(Message) /\ Len(rest) = Len(m) - q + 1
      /\ \A i \in 1..Len(m) - q + 1 : rest[i] = m[q + i - 1]
  <2>1. \A i \in q..Len(m) : m[i] \in Message
    BY <1>0
  <2>2. q \in Int /\ Len(m) \in Int /\ q <= Len(m)
    BY <1>0
  <2> QED BY <2>1, <2>2, SubSeqProperties
<1> HIDE DEF first, rest
<1>3. /\ n \in Seq(Message) /\ Len(n) = Len(m) - q + 2
      /\ \A k \in 1..Len(m) - q + 2 : n[k] = IF k <= 1 THEN first[k] ELSE rest[k - 1]
  <2>1. n = first \o rest
    BY DEF From, first, rest
  <2>2. Len(first) + Len(rest) = Len(m) - q + 2
    BY <1>0, <1>1, <1>2
  <2> HIDE DEF n
  <2>3. /\ first \o rest \in Seq(Message)
        /\ Len(first \o rest) = Len(first) + Len(rest)
        /\ \A i \in 1..Len(first) + Len(rest) :
              (first \o rest)[i] = IF i <= Len(first) THEN first[i] ELSE rest[i - Len(first)]
    BY <1>1, <1>2, ConcatProperties
  <2> QED BY <2>1, <2>2, <2>3, <1>1
<1> HIDE DEF n
<1>4. DOMAIN n = 1..Len(m) - q + 2
  BY <1>3
<1>5. ASSUME NEW k \in DOMAIN n PROVE f[k] \in DOMAIN m /\ n[k] = m[f[k]]
  <2>1. CASE k = 1
    BY <2>1, <1>0, <1>1, <1>3, <1>4
  <2>2. CASE k # 1
    <3>1. k - 1 \in 1..Len(m) - q + 1 /\ q + (k - 1) - 1 = k + q - 2 /\ ~ (k <= 1)
      BY <2>2, <1>0, <1>4
    <3>2. n[k] = m[k + q - 2]
      BY <3>1, <1>2, <1>3, <1>4
    <3>3. k + q - 2 \in 1..Len(m)
      BY <3>1, <1>0
    <3> QED BY <3>2, <3>3, <2>2, <1>0, <1>4
  <2> QED BY <2>1, <2>2
<1>6. f \in [DOMAIN n -> DOMAIN m]
  BY <1>4, <1>5
<1>7. ASSUME NEW k \in DOMAIN n, NEW l \in DOMAIN n, k < l PROVE f[k] < f[l]
  <2>1. l # 1 /\ f[l] = l + q - 2
    BY <1>7, <1>4, <1>0
  <2>2. CASE k = 1
    BY <2>1, <2>2, <1>0, <1>4
  <2>3. CASE k # 1
    BY <2>1, <2>3, <1>7, <1>0, <1>4
  <2> QED BY <2>2, <2>3
<1>8. ASSUME NEW k \in Of(n, "assistant"), NEW j \in Of(m, "tool"), f[k] < j
      PROVE  \E l \in DOMAIN n : f[l] = j
  <2>1. k \in DOMAIN n /\ n[k].role = "assistant" /\ j \in 1..Len(m)
    BY <1>0 DEF Of
  <2>2. k # 1
    <3>1. m[1].role = "system"
      BY <1>0 DEF Opened
    <3>2. n[1] = m[1]
      BY <1>1, <1>3, <1>0
    <3> QED BY <2>1, <3>1, <3>2
  <2>3. k + q - 2 < j
    BY <1>8, <2>1, <2>2, <1>4
  <2>4. j - q + 2 \in 1..Len(m) - q + 2 /\ j - q + 2 # 1
        /\ (j - q + 2) + q - 2 = j
    BY <2>1, <2>2, <2>3, <1>0, <1>4
  <2>5. f[j - q + 2] = j
    BY <2>4
  <2> QED BY <2>4, <2>5, <1>4
<1> HIDE DEF f
<1>9. Answered(n, {})
  BY <1>0, <1>3, <1>5, <1>6, <1>7, <1>8, SelectionAnswered
<1>10. \A k \in DOMAIN n : Stems(n[k], m)
  BY <1>5 DEF Stems
<1>11. OneAnswerEach(n) /\ Numbered(n)
  BY <1>0, <1>3, <1>10, StemsInherit
<1>12. Opened(n)
  <2>1. n[1] = m[1] /\ 1 \in DOMAIN n
    BY <1>0, <1>1, <1>3, <1>4
  <2> QED BY <2>1, <1>0 DEF Opened
<1> QED BY <1>3, <1>9, <1>11, <1>12 DEF Whole, n

\* Trimming leaves a whole transcript whole.
LEMMA TrimWhole ==
    ASSUME NEW m, Whole(m), Answered(m, {})
    PROVE  Whole(TrimHistory(m)) /\ Answered(TrimHistory(m), {})
<1>0. m \in Seq(Message) /\ DOMAIN m = 1..Len(m) /\ Len(m) \in Nat
  BY DEF Whole
<1> DEFINE fits == {q \in Boundaries(m) :
                       Tokens(From(m, q), 1, Len(From(m, q))) <= InputBudget}
           least == CHOOSE q \in fits : \A p \in fits : q <= p
<1>1. LatestUser(m) \in Nat /\ LatestUser(m) >= 2
  <2> DEFINE users == Of(m, "user") \ {1}
  <2>1. CASE users = {}
    BY <2>1 DEF LatestUser
  <2>2. CASE users # {}
    <3>1. users \subseteq Nat /\ \A i \in users : i >= 2 /\ i <= Len(m)
      BY <1>0 DEF Of
    <3> HIDE DEF users
    <3>2. \E i \in users : \A j \in users : j <= i
      BY <1>0, <2>2, <3>1, GreatestNumber
    <3>3. (CHOOSE i \in users : \A j \in users : j <= i) \in users
      BY <3>2
    <3>4. LatestUser(m) = CHOOSE i \in users : \A j \in users : j <= i
      BY <2>2 DEF LatestUser, users
    <3> QED BY <3>1, <3>3, <3>4
  <2> QED BY <2>1, <2>2
<1>2. fits \subseteq 2..LatestUser(m) /\ fits \subseteq Nat
  <2>1. Boundaries(m) \subseteq 2..LatestUser(m)
    BY DEF Boundaries
  <2>2. 2..LatestUser(m) \subseteq Nat
    BY <1>1
  <2> QED BY <2>1, <2>2
<1> HIDE DEF fits
<1>3. ASSUME fits # {} PROVE least \in 2..LatestUser(m)
  <2>1. \E q \in fits : \A p \in fits : q <= p
    BY <1>2, <1>3, LeastNumber
  <2>2. least \in fits
    BY <2>1
  <2> QED BY <2>2, <1>2
<1> HIDE DEF least
<1>4. \/ TrimHistory(m) = m
      \/ /\ LatestUser(m) <= Len(m)
         /\ TrimHistory(m) = From(m, IF fits = {} THEN LatestUser(m) ELSE least)
  BY <1>0, <1>1 DEF TrimHistory, fits, least
<1>5. ASSUME LatestUser(m) <= Len(m)
      PROVE  (IF fits = {} THEN LatestUser(m) ELSE least) \in 2..Len(m)
  BY <1>0, <1>1, <1>3, <1>5
<1> QED BY <1>4, <1>5, FromWhole

-----------------------------------------------------------------------------
(***************************************************************************)
(* The inductive invariant.                                                *)
(***************************************************************************)
Executing == {"execute", "ask", "register", "wait", "again"}
Closed    == {"end"} \union Over

Types == TypeOK /\ ran \in Seq(Args)

\* Every slot is free, held by another turn, or held by this one.
Slotted == free + others + (IF Acquired THEN 1 ELSE 0) = Slots

\* Decisions are under way for rows that exist; an approved row was approved by a person.
Known   == \A x \in desk : x.row \in DOMAIN rows
Granted  == \A i \in DOMAIN rows : rows[i].status = "approved" => rows[i].args \in agreed

\* A model call is paid for before it is made, a tool call before it is executed.
Paid ==
    /\ sent <= guard.steps /\ sent <= MaxSteps
    /\ pc \in {"admit", "acquire"} => sent < guard.steps
    /\ Len(ran) <= guard.tools /\ Len(ran) <= MaxTools
    /\ pc \in Executing => Len(ran) < guard.tools /\ Len(ran) < MaxTools

\* The tools that ran are within the quota; a call that waits has its place in it.
Ran == {ToolOf[ran[i]] : i \in DOMAIN ran}
Within ==
    /\ IsFiniteSet(used) /\ Cardinality(used) <= MaxDistinct
    /\ pc \notin Closed => Ran \subseteq used
    /\ IsFiniteSet(Ran) /\ Cardinality(Ran) <= MaxDistinct
    /\ pc \in Executing \ {"execute"} => ToolOf[Head(todo).args] \in used

\* The calls of a round have numbers of their own, new ones until they are in the
\* transcript, and the call under way is the first of them.
Numbers(t) == {t[i].id : i \in DOMAIN t}
Calls ==
    /\ \A i \in DOMAIN todo, j \in DOMAIN todo : todo[i].id = todo[j].id => i = j
    /\ \E b \in Nat : \A i \in DOMAIN todo : todo[i].id <= b
    /\ pc \in Executing => todo # <<>>
    /\ pc = "fold" => \A i \in DOMAIN working : working[i].ids \intersect Numbers(todo) = {}

\* The transcript is whole; while a round is executed its open calls are owed an answer.
Owed == IF pc \in {"tools"} \union Executing THEN Numbers(todo) ELSE {}
Prompt == Whole(working) /\ (pc \notin Closed => Answered(working, Owed))

Rest == Slotted /\ Known /\ Granted /\ ConsentedOnly /\ Paid /\ Within /\ Calls /\ Prompt
IInv == Types /\ Rest

-----------------------------------------------------------------------------
(***************************************************************************)
(* What the actions need of the values they handle.                        *)
(***************************************************************************)
Call == [id : Nat, args : Args]

LEMMA MessageType ==
    ASSUME NEW role \in {"system", "user", "assistant", "tool"},
           NEW ids \in SUBSET Nat, NEW cost \in Nat
    PROVE  /\ Msg(role, ids, cost) \in Message
           /\ Msg(role, ids, cost).role = role /\ Msg(role, ids, cost).ids = ids
  BY DEF Msg, Message

LEMMA HeadTail ==
    ASSUME NEW t \in Seq(Call), t # <<>>
    PROVE  /\ Head(t) \in Call /\ Head(t).id \in Nat /\ Head(t).args \in Args
           /\ Tail(t) \in Seq(Call)
<1>1. Head(t) \in Call /\ Tail(t) \in Seq(Call)
  BY HeadTailProperties
<1> QED BY <1>1 DEF Call

LEMMA NumbersAreNumbers ==
    ASSUME NEW t \in Seq(Call)
    PROVE  Numbers(t) \in SUBSET Nat
<1>1. \A i \in DOMAIN t : t[i] \in Call
  OBVIOUS
<1> QED BY <1>1 DEF Numbers, Call

LEMMA TruncatedType ==
    ASSUME NEW cost \in ResultCosts
    PROVE  Truncated(cost) \in Nat
<1>1. cost \in Nat /\ MaxResult \in Nat
  BY ToolLoopAssumption
<1>2. \E x \in {cost, MaxResult} : \A y \in {cost, MaxResult} : x <= y
  BY <1>1
<1>3. Truncated(cost) \in {cost, MaxResult}
  BY <1>2 DEF Truncated, Min
<1> QED BY <1>1, <1>3

\* The number that a new round counts from is not below any number in use.
Largest(m) == Max({0} \union UNION {m[i].ids : i \in DOMAIN m})

LEMMA LargestNumber ==
    ASSUME NEW m \in Seq(Message), Numbered(m)
    PROVE  /\ Largest(m) \in Nat
           /\ \A i \in DOMAIN m : \A id \in m[i].ids : id <= Largest(m)
<1> DEFINE S == {0} \union UNION {m[i].ids : i \in DOMAIN m}
<1>1. PICK b \in Nat : \A i \in DOMAIN m : \A id \in m[i].ids : id <= b
  BY DEF Numbered
<1>2. \A i \in DOMAIN m : m[i].ids \subseteq Nat
  <2>1. \A i \in DOMAIN m : m[i] \in Message
    OBVIOUS
  <2> QED BY <2>1 DEF Message
<1>3. S \subseteq Nat /\ S # {} /\ \A x \in S : x <= b
  BY <1>1, <1>2
<1>4. \A i \in DOMAIN m : \A id \in m[i].ids : id \in S
  OBVIOUS
<1>5. Largest(m) = CHOOSE x \in S : \A y \in S : x >= y
  BY DEF Largest, Max
<1> HIDE DEF S
<1>6. PICK x \in S : \A y \in S : y <= x
  BY <1>3, GreatestNumber
<1>7. \E z \in S : \A y \in S : z >= y
  BY <1>3, <1>6
<1>8. Largest(m) \in S /\ \A y \in S : Largest(m) >= y
  BY <1>5, <1>7
<1> QED BY <1>3, <1>4, <1>8

-----------------------------------------------------------------------------
(***************************************************************************)
(* Types.                                                                  *)
(***************************************************************************)
Base == /\ MaxSteps \in Nat /\ MaxTools \in Nat /\ MaxTokens \in Nat /\ Slots \in Nat
        /\ MaxFailures \in Nat \ {0} /\ MaxCont \in Nat /\ MaxDistinct \in Nat

LEMMA Bases == Base
  BY ToolLoopAssumption DEF Base

\* Admission compacts and trims, and what it admits is whole.
LEMMA AdmitWhole ==
    ASSUME IInv, Admit
    PROVE  Whole(working') /\ Answered(working', {})
<1>1. Whole(working) /\ Answered(working, {})
  <2>1. pc \notin Closed /\ Owed = {}
    BY DEF Admit, Owed, Closed, Over, Executing
  <2> QED BY <2>1 DEF IInv, Rest, Prompt
<1>2. PICK m \in {working, Compact(working)} :
         working' = TrimHistory(m) \/ working' = m
  BY DEF Admit
<1>3. Whole(m) /\ Answered(m, {})
  BY <1>1, <1>2, CompactWhole
<1> QED BY <1>2, <1>3, TrimWhole

\* The call under way, and the transcript when it is answered.
LEMMA UnderWay ==
    ASSUME IInv, pc \in Executing
    PROVE  /\ todo # <<>> /\ todo \in Seq(Call) /\ working \in Seq(Message)
           /\ Head(todo) \in Call /\ Head(todo).id \in Nat /\ Head(todo).args \in Args
           /\ Tail(todo) \in Seq(Call)
<1>1. todo # <<>> /\ todo \in Seq(Call) /\ working \in Seq(Message)
  BY DEF IInv, Types, TypeOK, Rest, Calls, Call
<1> QED BY <1>1, HeadTail

LEMMA AnswerTyped ==
    ASSUME IInv, pc \in Executing, NEW cost \in Nat, ToolMessage(cost)
    PROVE  working' \in Seq(Message)
<1>1. Head(todo).id \in Nat /\ working \in Seq(Message)
  BY UnderWay
<1>2. Msg("tool", {Head(todo).id}, cost) \in Message
  <2>1. {Head(todo).id} \in SUBSET Nat
    BY <1>1
  <2> QED BY <2>1, MessageType
<1> QED BY <1>1, <1>2 DEF ToolMessage

LEMMA RespondTyped ==
    ASSUME IInv, pc \in Executing, NEW cost \in Nat, Respond(cost)
    PROVE  /\ working' \in Seq(Message) /\ todo' = Tail(todo)
           /\ pc' \in {"end", "tools"}
           /\ finish' \in {finish, "budget"}
<1>1. ToolMessage(cost)
  BY DEF Respond
<1>2. working' \in Seq(Message)
  BY <1>1, AnswerTyped
<1> QED BY <1>2 DEF Respond, Stop

LEMMA RunTyped ==
    ASSUME IInv, pc \in Executing, NEW a \in Args, RunTool(a)
    PROVE  /\ working' \in Seq(Message) /\ todo' = Tail(todo)
           /\ pc' \in {"end", "tools"} /\ finish' \in {finish, "budget"}
           /\ ran' = Append(ran, a)
<1>1. PICK cost \in ResultCosts : Respond(Truncated(cost)) /\ ran' = Append(ran, a)
  BY DEF RunTool
<1>2. Truncated(cost) \in Nat
  BY TruncatedType
<1> QED BY <1>1, <1>2, RespondTyped

Row == [args : Args, status : {"pending", "approved", "rejected"},
        expired : BOOLEAN, committed : BOOLEAN]

LEMMA NewRowTyped ==
    ASSUME rows \in Seq(Row), NEW a \in Args, CreatePendingApproval(a)
    PROVE  /\ rows' \in Seq(Row) /\ Len(rows') = Len(rows) + 1
           /\ \A i \in DOMAIN rows : i \in DOMAIN rows' /\ rows'[i] = rows[i]
           /\ \A i \in DOMAIN rows' : i \in DOMAIN rows \/ rows'[i].status = "pending"
<1> DEFINE r == [args |-> a, status |-> "pending", expired |-> FALSE, committed |-> FALSE]
<1>1. r \in Row
  BY DEF Row
<1>2. rows' = Append(rows, r)
  BY DEF CreatePendingApproval
<1> HIDE DEF r
<1>3. /\ rows' \in Seq(Row) /\ Len(rows') = Len(rows) + 1
      /\ \A i \in 1..Len(rows) : rows'[i] = rows[i]
      /\ rows'[Len(rows) + 1] = r
  BY <1>1, <1>2, AppendProperties
<1>4. DOMAIN rows = 1..Len(rows) /\ DOMAIN rows' = 1..Len(rows) + 1 /\ Len(rows) \in Nat
  BY <1>3
<1>5. r.status = "pending"
  BY DEF r
<1> QED BY <1>3, <1>4, <1>5

\* What ExecuteLate may add to the calls that ran.
LEMMA LateRan ==
    ASSUME IInv, ExecuteLate
    PROVE  \/ ran' = ran
           \/ ran' = Append(ran, Head(todo).args) /\ Allowed(Head(todo).args)
  BY DEF ExecuteLate

\* The calls of a new round are numbered one after the other.
LEMMA AnswerCalls ==
    ASSUME IInv, NEW reason, NEW batch \in Batches, NEW n, Answer(reason, batch, n)
    PROVE  /\ todo' \in Seq(Call)
           /\ \A i \in DOMAIN todo', j \in DOMAIN todo' : todo'[i].id = todo'[j].id => i = j
           /\ \E b \in Nat : \A i \in DOMAIN todo' : todo'[i].id <= b
           /\ \A i \in DOMAIN working : working[i].ids \intersect Numbers(todo') = {}
<1> DEFINE base == Largest(working)
<1>1. base \in Nat /\ \A i \in DOMAIN working : \A id \in working[i].ids : id <= base
  BY LargestNumber DEF IInv, Rest, Prompt, Whole
<1>2. todo' = [i \in DOMAIN batch |-> [id |-> base + i, args |-> batch[i]]]
  BY DEF Answer, Largest
<1>3. batch \in Seq(Args) /\ DOMAIN batch = 1..Len(batch) /\ Len(batch) \in Nat
  BY ToolLoopAssumption
<1> HIDE DEF base
<1>4. ASSUME NEW i \in DOMAIN batch
      PROVE  [id |-> base + i, args |-> batch[i]] \in Call
  <2>1. base + i \in Nat /\ batch[i] \in Args
    BY <1>1, <1>3
  <2> QED BY <2>1 DEF Call
<1>5. todo' \in [1..Len(batch) -> Call]
  BY <1>2, <1>3, <1>4
<1>6. todo' \in Seq(Call) /\ DOMAIN todo' = DOMAIN batch
  BY <1>3, <1>5, <1>2
<1>7. \A i \in DOMAIN todo' : todo'[i].id = base + i /\ i \in Nat /\ i > 0
  BY <1>2, <1>3
<1>8. ASSUME NEW i \in DOMAIN todo', NEW j \in DOMAIN todo', todo'[i].id = todo'[j].id
      PROVE  i = j
  BY <1>1, <1>7, <1>8
<1>9. ASSUME NEW i \in DOMAIN working, NEW id \in working[i].ids, id \in Numbers(todo')
      PROVE  FALSE
  <2>1. PICK x \in DOMAIN todo' : id = todo'[x].id
    BY <1>9 DEF Numbers
  <2> QED BY <2>1, <1>1, <1>7
<1>10. base + Len(batch) \in Nat /\ \A i \in DOMAIN todo' : todo'[i].id <= base + Len(batch)
  BY <1>1, <1>3, <1>6, <1>7
<1> QED BY <1>6, <1>8, <1>9, <1>10

-----------------------------------------------------------------------------
(***************************************************************************)
(* The actions in groups: people and faults that touch neither the turn    *)
(* nor a row; the turn by itself; what is done to rows and slots.          *)
(***************************************************************************)
Aside ==
    \/ Cooldown \/ WaitTimesOut \/ ResumeRun \/ CancelRun \/ PauseRun \/ Instruct
    \/ \E x \in bus : LoseSignal(x)
    \/ \E x \in desk \union bus : Deliver(x)
    \/ \E tool \in {ToolOf[a] : a \in Args} : DisableTool(tool)
    \/ \E i \in DOMAIN rows, d \in {"approved", "rejected"} : DecideRead(i, d)

RowMove ==
    \/ \E x \in desk \union bus : DecideWrite(x)
    \/ \E i \in DOMAIN rows : ApprovalExpires(i)

SlotMove == OtherStarts \/ OtherEnds

\* Steps between rounds, at the provider, and at the tools.
RoundMove ==
    \/ LoopHead \/ Admit \/ BreakerRefuses \/ NoTimeForSlot \/ Fold \/ RoundOver
    \/ Finish \/ Deadline
StreamMove ==
    \/ Dispatch \/ RetryCall \/ SeeCancel \/ SeePause \/ Drain \/ StreamLate
    \/ ProviderFails \/ Disconnect
    \/ \E reason \in {"stop", "length", "tool_calls"}, batch \in Batches, n \in RoundTokens :
          Answer(reason, batch, n)
ToolMove ==
    \/ NextTool \/ Execute \/ ExecuteLate \/ Ask \/ Register \/ WaitLate \/ Decided
    \/ ExecuteAgain

LEMMA NextMoves ==
    ASSUME Next
    PROVE  Aside \/ RowMove \/ SlotMove \/ RoundMove \/ StreamMove \/ ToolMove
<1>1. CASE Step
  BY <1>1 DEF Step, RoundMove, StreamMove, ToolMove
<1>2. CASE Signals
  BY <1>2 DEF Signals, RowMove, Aside
<1>3. CASE WaitTimesOut \/ ResumeRun \/ Deadline \/ OtherEnds
  BY <1>3 DEF Aside, SlotMove, RoundMove
<1>4. CASE Event
  BY <1>4 DEF Event, Aside, RowMove, SlotMove, StreamMove
<1> QED BY <1>1, <1>2, <1>3, <1>4 DEF Next

\* The budget, the controls of a run.
Guard == [steps : Nat, tools : Nat, tokens : Nat, late : BOOLEAN]
Control == [cancel : BOOLEAN, paused : BOOLEAN, notes : Nat]

LEMMA GuardTyped ==
    ASSUME NEW g \in Guard, NEW n \in Nat
    PROVE  /\ [g EXCEPT !.steps = @ + 1] \in Guard /\ [g EXCEPT !.tools = @ + 1] \in Guard
           /\ [g EXCEPT !.tokens = @ + n] \in Guard /\ [g EXCEPT !.late = TRUE] \in Guard
<1>1. [g EXCEPT !.steps = @ + 1] \in Guard
  BY DEF Guard
<1>2. [g EXCEPT !.tools = @ + 1] \in Guard
  BY DEF Guard
<1>3. [g EXCEPT !.tokens = @ + n] \in Guard
  BY DEF Guard
<1>4. [g EXCEPT !.late = TRUE] \in Guard
  BY DEF Guard
<1> QED BY <1>1, <1>2, <1>3, <1>4

LEMMA ControlTyped ==
    ASSUME NEW c \in Control
    PROVE  /\ [c EXCEPT !.notes = @ + 1] \in Control
           /\ c.notes > 0 => [c EXCEPT !.notes = @ - 1] \in Control
<1>1. [c EXCEPT !.notes = @ + 1] \in Control
  BY DEF Control
<1>2. ASSUME c.notes > 0 PROVE [c EXCEPT !.notes = @ - 1] \in Control
  BY <1>2 DEF Control
<1> QED BY <1>1, <1>2

core == <<pc, working, todo, guard, used, rows, ran, agreed, sent, free, others>>

LEMMA AsideTyped ==
    ASSUME IInv, Aside
    PROVE  Types' /\ UNCHANGED core
<1> USE DEF IInv, Types, TypeOK, core, control, shared, idle
<1>1. CASE Cooldown \/ WaitTimesOut \/ ResumeRun
  BY <1>1 DEF Cooldown, WaitTimesOut, ResumeRun
<1>2. CASE CancelRun
  <2>1. PICK here \in BOOLEAN : ctl' = [ctl EXCEPT !.cancel = here]
    BY <1>2 DEF CancelRun
  <2>2. ctl' \in [cancel : BOOLEAN, paused : BOOLEAN, notes : Nat]
    BY <2>1
  <2>3. bus' \subseteq [row : Nat, decision : {"approved", "rejected", "cancelled"}]
    BY <1>2 DEF CancelRun
  <2> QED BY <1>2, <2>2, <2>3 DEF CancelRun
<1>7. CASE PauseRun
  BY <1>7 DEF PauseRun
<1>8. CASE Instruct
  <2>1. ctl' \in Control
    <3>1. ctl \in Control
      BY DEF Control
    <3> QED BY <1>8, <3>1, ControlTyped DEF Instruct
  <2> QED BY <1>8, <2>1 DEF Instruct, Control
<1>3. ASSUME NEW x \in bus, LoseSignal(x) PROVE Types' /\ UNCHANGED core
  BY <1>3 DEF LoseSignal
<1>4. ASSUME NEW x \in desk \union bus, Deliver(x) PROVE Types' /\ UNCHANGED core
  BY <1>4 DEF Deliver
<1>5. ASSUME NEW tool, DisableTool(tool) PROVE Types' /\ UNCHANGED core
  BY <1>5 DEF DisableTool
<1>6. ASSUME NEW i \in DOMAIN rows, NEW d \in {"approved", "rejected"}, DecideRead(i, d)
      PROVE  Types' /\ UNCHANGED core
  BY <1>6 DEF DecideRead
<1> QED BY <1>1, <1>2, <1>3, <1>4, <1>5, <1>6, <1>7, <1>8 DEF Aside

LEMMA RowTyped ==
    ASSUME NEW r \in Seq(Row), NEW i \in DOMAIN r, NEW x \in Row
    PROVE  /\ [r EXCEPT ![i] = x] \in Seq(Row)
           /\ DOMAIN [r EXCEPT ![i] = x] = DOMAIN r
<1>1. i \in 1..Len(r) /\ DOMAIN r = 1..Len(r)
  OBVIOUS
<1>2. [r EXCEPT ![i] = x] \in Seq(Row)
  BY <1>1, ExceptSeq
<1> QED BY <1>2

LEMMA RowsTyped ==
    ASSUME Types
    PROVE  rows \in Seq(Row) /\ \A i \in DOMAIN rows : rows[i] \in Row
<1>1. rows \in Seq(Row)
  BY DEF Types, TypeOK, Row
<1> QED BY <1>1

LEMMA RowMoveTyped ==
    ASSUME IInv, RowMove
    PROVE  Types'
<1>0. rows \in Seq(Row) /\ \A i \in DOMAIN rows : rows[i] \in Row
  BY RowsTyped DEF IInv
<1> USE DEF IInv, Types, TypeOK, idle, shared
<1>1. ASSUME NEW x \in desk \union bus, DecideWrite(x) PROVE Types'
  <2>1. x \in desk /\ x.row \in DOMAIN rows /\ x.decision \in {"approved", "rejected"}
    BY <1>1 DEF DecideWrite, Rest, Known
  <2>2. rows' = [rows EXCEPT ![x.row].status = x.decision]
    BY <1>1 DEF DecideWrite
  <2>3. rows' \in Seq(Row)
    <3>1. rows \in Seq(Row) /\ rows[x.row] \in Row
      BY <1>0, <2>1
    <3>2. [rows[x.row] EXCEPT !.status = x.decision] \in Row
      BY <2>1, <3>1 DEF Row
    <3>3. rows' = [rows EXCEPT ![x.row] = [rows[x.row] EXCEPT !.status = x.decision]]
      BY <2>2
    <3> QED BY <2>1, <3>1, <3>2, <3>3, RowTyped
  <2>4. bus' \subseteq [row : Nat, decision : {"approved", "rejected", "cancelled"}]
    BY <1>1, <2>1 DEF DecideWrite
  <2> QED BY <1>1, <2>3, <2>4 DEF DecideWrite, Row
<1>2. ASSUME NEW i \in DOMAIN rows, ApprovalExpires(i) PROVE Types'
  <2>1. rows' = [rows EXCEPT ![i].expired = TRUE]
    BY <1>2 DEF ApprovalExpires
  <2>2. rows' \in Seq(Row)
    <3>1. rows \in Seq(Row) /\ rows[i] \in Row
      BY <1>0
    <3>2. [rows[i] EXCEPT !.expired = TRUE] \in Row
      BY <3>1 DEF Row
    <3>3. rows' = [rows EXCEPT ![i] = [rows[i] EXCEPT !.expired = TRUE]]
      BY <2>1
    <3> QED BY <3>1, <3>2, <3>3, RowTyped
  <2> QED BY <1>2, <2>2 DEF ApprovalExpires, Row
<1> QED BY <1>1, <1>2 DEF RowMove

LEMMA BreakerTyped ==
    ASSUME IInv, Success \/ Failure
    PROVE  breaker' \in [failures : 0..MaxFailures, open : BOOLEAN]
<1>0. MaxFailures \in Nat /\ 0 \in 0..MaxFailures
  BY Bases DEF Base
<1>1. breaker \in [failures : 0..MaxFailures, open : BOOLEAN]
  BY DEF IInv, Types, TypeOK
<1>2. CASE Success
  BY <1>0, <1>2 DEF Success
<1>3. CASE Failure
  <2> DEFINE n == IF breaker.failures < MaxFailures THEN breaker.failures + 1 ELSE MaxFailures
  <2>1. n \in 0..MaxFailures
    BY <1>0, <1>1
  <2>2. breaker' = [failures |-> n, open |-> breaker.open \/ n = MaxFailures]
    BY <1>3 DEF Failure
  <2>3. (breaker.open \/ n = MaxFailures) \in BOOLEAN
    OBVIOUS
  <2> HIDE DEF n
  <2> QED BY <2>1, <2>2, <2>3
<1> QED BY <1>2, <1>3

\* A slot that is given back was held.
LEMMA SlotMoveKeeps ==
    ASSUME IInv, SlotMove
    PROVE  Types' /\ Slotted'
<1>0. Slots \in Nat /\ free \in 0..Slots /\ others \in 0..Slots
  BY Bases DEF Base, IInv, Types, TypeOK
<1>1. free + others + (IF Acquired THEN 1 ELSE 0) = Slots
  BY DEF IInv, Rest, Slotted
<1>2. /\ pc' = pc
      /\ free' \in 0..Slots /\ others' \in 0..Slots /\ free' + others' = free + others
  <2>1. CASE OtherStarts
    BY <1>0, <1>1, <2>1 DEF OtherStarts
  <2>2. CASE OtherEnds
    BY <1>0, <1>1, <2>2 DEF OtherEnds
  <2> QED BY <2>1, <2>2 DEF SlotMove
<1>3. Acquired' <=> Acquired
  BY <1>2 DEF Acquired
<1>4. Slotted'
  BY <1>0, <1>1, <1>2, <1>3 DEF Slotted
<1>5. breaker' \in [failures : 0..MaxFailures, open : BOOLEAN]
  <2>1. CASE OtherStarts
    BY <2>1 DEF OtherStarts, IInv, Types, TypeOK
  <2>2. CASE OtherEnds
    BY <2>2, BreakerTyped DEF OtherEnds
  <2> QED BY <2>1, <2>2 DEF SlotMove
<1>6. UNCHANGED <<finish, working, todo, cont, guard, used, waiter, ran, sent, control>>
  BY DEF SlotMove, OtherStarts, OtherEnds
<1> QED BY <1>2, <1>4, <1>5, <1>6 DEF IInv, Types, TypeOK, control

LEMMA FoldContinues ==
    ASSUME Fold
    PROVE  cont' = cont \/ (cont' = cont + 1 /\ cont < MaxCont)
<1>1. CASE Exhausted(guard) /\ UNCHANGED <<working, cont>>
  BY <1>1
<1>2. CASE pc' = "tools" /\ UNCHANGED <<finish, cont>>
  BY <1>2
<1>3. CASE Continues /\ cont' = cont + 1
  BY <1>3 DEF Continues
<1>4. CASE UNCHANGED <<working, cont>>
  BY <1>4
<1> QED BY <1>1, <1>2, <1>3, <1>4 DEF Fold

LEMMA RoundMoveTyped ==
    ASSUME IInv, RoundMove
    PROVE  Types'
<1> USE DEF IInv, Types, TypeOK, control, shared, PCs
<1>1. CASE LoopHead
  <2>1. guard' \in Guard
    <3>1. guard \in Guard
      BY DEF Guard
    <3>2. guard' = guard \/ guard' = [guard EXCEPT !.steps = @ + 1]
      BY <1>1 DEF LoopHead, EnterStep
    <3> QED BY <3>1, <3>2, GuardTyped
  <2>2. pc' \in {"end", "admit"} /\ finish' \in {finish, "cancelled", "budget"}
    BY <1>1 DEF LoopHead, Stop
  <2> QED BY <1>1, <2>1, <2>2 DEF LoopHead, Guard
<1>2. CASE Admit
  <2>1. working' \in Seq(Message)
    BY <1>2, AdmitWhole DEF Whole
  <2>2. pc' \in {"acquire", "failed"} /\ finish' \in {finish, "budget"}
    BY <1>2 DEF Admit
  <2>3. UNCHANGED <<todo, cont, guard, used, waiter, ran, sent, control, shared>>
    BY <1>2 DEF Admit
  <2> QED BY <2>1, <2>2, <2>3
<1>3. CASE BreakerRefuses
  BY <1>3 DEF BreakerRefuses
<1>4. CASE NoTimeForSlot
  BY <1>4 DEF NoTimeForSlot, Stop
<1>5. CASE Fold
  <2>1. /\ pc' \in {"end", "tools", "head"}
        /\ finish' \in {finish, "budget", "cancelled"}
    BY <1>5 DEF Fold, Stop
  <2>4. cont' \in 0..MaxCont
    <3>1. cont \in Nat /\ MaxCont \in Nat /\ cont <= MaxCont
      BY Bases DEF Base
    <3>2. cont' = cont \/ (cont' = cont + 1 /\ cont < MaxCont)
      BY <1>5, FoldContinues
    <3> QED BY <3>1, <3>2
  <2>2. working' \in Seq(Message)
    <3>1. {todo[i].id : i \in DOMAIN todo} \in SUBSET Nat /\ {} \in SUBSET Nat
      <4>1. todo \in Seq(Call)
        BY DEF Call
      <4> QED BY <4>1, NumbersAreNumbers DEF Numbers
    <3>2. /\ Msg("assistant", {todo[i].id : i \in DOMAIN todo}, 1) \in Message
          /\ Msg("assistant", {}, 1) \in Message /\ Msg("user", {}, 1) \in Message
      BY <3>1, MessageType
    <3>3. \/ working' = working
          \/ working' = Append(working, Msg("assistant", {todo[i].id : i \in DOMAIN todo}, 1))
          \/ working' = working \o <<Msg("assistant", {}, 1), Msg("user", {}, 1)>>
      BY <1>5 DEF Fold
    <3>4. working \in Seq(Message)
      OBVIOUS
    <3>5. <<Msg("assistant", {}, 1), Msg("user", {}, 1)>> \in Seq(Message)
      BY <3>2
    <3>6. working \o <<Msg("assistant", {}, 1), Msg("user", {}, 1)>> \in Seq(Message)
      BY <3>4, <3>5, ConcatProperties
    <3>7. Append(working, Msg("assistant", {todo[i].id : i \in DOMAIN todo}, 1)) \in Seq(Message)
      BY <3>2, <3>4, AppendProperties
    <3> QED BY <3>3, <3>4, <3>6, <3>7
  <2>3. UNCHANGED <<todo, guard, used, waiter, ran, sent, control, shared>>
    BY <1>5 DEF Fold
  <2> QED BY <2>1, <2>2, <2>3, <2>4
<1>6. CASE RoundOver
  BY <1>6 DEF RoundOver
<1>7. CASE Finish
  BY <1>7 DEF Finish
<1>8. CASE Deadline
  <2>1. guard' \in Guard
    <3>1. guard \in Guard
      BY DEF Guard
    <3> QED BY <1>8, <3>1, GuardTyped DEF Deadline
  <2> QED BY <1>8, <2>1 DEF Deadline, Guard
<1> QED BY <1>1, <1>2, <1>3, <1>4, <1>5, <1>6, <1>7, <1>8 DEF RoundMove

\* At the provider a slot is taken and given back.
LEMMA StreamMoveSlots ==
    ASSUME IInv, StreamMove
    PROVE  /\ Slotted' /\ free' \in 0..Slots
           /\ others' = others
<1>0. /\ Slots \in Nat /\ free \in 0..Slots /\ others \in 0..Slots
      /\ free + others + (IF Acquired THEN 1 ELSE 0) = Slots
  BY Bases DEF Base, IInv, Types, TypeOK, Rest, Slotted
<1> USE DEF Acquired, control, shared
<1>1. \/ free' = free /\ (Acquired' <=> Acquired)
      \/ free' = free - 1 /\ ~ Acquired /\ Acquired' /\ free > 0
      \/ free' = free + 1 /\ Acquired /\ ~ Acquired'
  <2>1. CASE Dispatch
    BY <2>1 DEF Dispatch
  <2>2. CASE RetryCall
    BY <2>2 DEF RetryCall, Stop, ReleaseSlot
  <2>3. CASE SeeCancel \/ StreamLate
    BY <2>3 DEF SeeCancel, ReleaseSlot, StreamLate, StreamTimesOut, Stop
  <2>4. CASE SeePause \/ Drain
    BY <2>4 DEF SeePause, Drain
  <2>5. CASE ProviderFails
    BY <2>5 DEF ProviderFails, ReleaseSlot
  <2>6. CASE Disconnect
    BY <2>6 DEF Disconnect, ReleaseSlot
  <2>7. ASSUME NEW reason, NEW batch, NEW n, Answer(reason, batch, n)
        PROVE  free' = free + 1 /\ Acquired /\ ~ Acquired'
    BY <2>7 DEF Answer, ReleaseSlot
  <2> QED BY <2>1, <2>2, <2>3, <2>4, <2>5, <2>6, <2>7 DEF StreamMove
<1>2. others' = others
  <2>1. CASE Dispatch \/ RetryCall \/ SeeCancel
    BY <2>1 DEF Dispatch, RetryCall, SeeCancel
  <2>2. CASE SeePause \/ Drain \/ StreamLate
    BY <2>2 DEF SeePause, Drain, StreamLate
  <2>3. CASE ProviderFails \/ Disconnect
    BY <2>3 DEF ProviderFails, Disconnect
  <2>4. ASSUME NEW reason, NEW batch, NEW n, Answer(reason, batch, n) PROVE others' = others
    BY <2>4 DEF Answer
  <2> QED BY <2>1, <2>2, <2>3, <2>4 DEF StreamMove
<1> HIDE DEF Acquired
<1>3. free' \in 0..Slots
  BY <1>0, <1>1
<1>4. free' + others' + (IF Acquired' THEN 1 ELSE 0) = Slots
  BY <1>0, <1>1, <1>2
<1> QED BY <1>2, <1>3, <1>4 DEF Slotted

LEMMA StreamMoveTyped ==
    ASSUME IInv, StreamMove
    PROVE  Types'
<1>0. free' \in 0..Slots /\ others' = others
  BY StreamMoveSlots
<1> USE DEF IInv, Types, TypeOK, control, shared, PCs
<1>1. CASE Dispatch
  BY <1>0, <1>1 DEF Dispatch
<1>2. CASE RetryCall
  <2>1. guard' \in Guard
    <3>1. guard \in Guard
      BY DEF Guard
    <3> QED BY <1>2, <3>1, GuardTyped DEF RetryCall, GateRetry, EnterStep
  <2>3. sent' \in Nat
    BY <1>2 DEF RetryCall
  <2>2. pc' \in {"end", pc} /\ finish' \in {"budget", finish}
    BY <1>2 DEF RetryCall, Stop
  <2> QED BY <1>0, <1>2, <2>1, <2>2, <2>3 DEF RetryCall, Guard
<1>3. CASE SeeCancel
  <2>1. breaker' \in [failures : 0..MaxFailures, open : BOOLEAN]
    BY <1>3, BreakerTyped DEF SeeCancel
  <2> QED BY <1>0, <1>3, <2>1 DEF SeeCancel
<1>4. CASE SeePause
  BY <1>4 DEF SeePause
<1>5. CASE StreamLate
  BY <1>0, <1>5 DEF StreamLate, Stop
<1>6. CASE Drain
  <2>1. Msg("user", {}, 1) \in Message
    BY MessageType
  <2>2. working' \in Seq(Message)
    BY <1>6, <2>1 DEF Drain
  <2>3. ctl' \in Control
    <3>1. ctl \in Control
      BY DEF Control
    <3> QED BY <1>6, <3>1, ControlTyped DEF Drain
  <2> QED BY <1>6, <2>2, <2>3 DEF Drain, Control
<1>7. CASE ProviderFails
  <2>1. breaker' \in [failures : 0..MaxFailures, open : BOOLEAN]
    BY <1>7, BreakerTyped DEF ProviderFails
  <2> QED BY <1>0, <1>7, <2>1 DEF ProviderFails
<1>8. CASE Disconnect
  <2>1. waiter' \in [row : Nat, decision : {"none", "pending", "approved", "rejected",
                                            "cancelled", "timed_out"}]
    BY <1>8 DEF Disconnect, NoWaiter
  <2> QED BY <1>0, <1>8, <2>1 DEF Disconnect
<1>9. ASSUME NEW reason \in {"stop", "length", "tool_calls"}, NEW batch \in Batches,
             NEW n \in RoundTokens, Answer(reason, batch, n)
      PROVE  Types'
  <2>1. breaker' \in [failures : 0..MaxFailures, open : BOOLEAN]
    BY <1>9, BreakerTyped DEF Answer
  <2>2. todo' \in Seq([id : Nat, args : Args])
    BY <1>9, AnswerCalls DEF Call
  <2>3. n \in Nat
    BY ToolLoopAssumption
  <2>4. guard' \in Guard
    <3>1. guard \in Guard
      BY DEF Guard
    <3> QED BY <1>9, <2>3, <3>1, GuardTyped DEF Answer, AddUsage
  <2>5. /\ finish' = reason /\ pc' = "fold"
        /\ UNCHANGED <<working, cont, used, waiter, ran, sent, control, others>>
    BY <1>9 DEF Answer
  <2> QED BY <1>0, <2>1, <2>2, <2>4, <2>5 DEF Guard
<1> QED BY <1>1, <1>2, <1>3, <1>4, <1>5, <1>6, <1>7, <1>8, <1>9 DEF StreamMove

LEMMA ToolMoveTyped ==
    ASSUME IInv, ToolMove
    PROVE  Types'
<1>0. rows \in Seq(Row) /\ todo \in Seq(Call) /\ ran \in Seq(Args) /\ guard \in Guard
  BY RowsTyped DEF IInv, Types, TypeOK, Call, Guard
<1>1. CASE NextTool
  <2>1. guard' \in Guard
    BY <1>0, <1>1, GuardTyped DEF NextTool, EnterTool
  <2>2. pc' \in {"end", "execute"} /\ finish' \in {finish, "budget"}
    BY <1>1 DEF NextTool, Stop
  <2> QED BY <1>1, <2>1, <2>2
          DEF NextTool, Guard, IInv, Types, TypeOK, control, shared, PCs
<1>2. CASE Execute
  <2> DEFINE a == Head(todo).args
  <2>1. pc \in Executing /\ a \in Args /\ Tail(todo) \in Seq(Call) /\ working \in Seq(Message)
    BY <1>2, UnderWay DEF Execute, Executing
  <2>2. used' \subseteq {ToolOf[b] : b \in Args}
    BY <1>2, <2>1 DEF Execute, IInv, Types, TypeOK
  <2>3. /\ working' \in Seq(Message) /\ todo' \in Seq(Call) /\ rows' \in Seq(Row)
        /\ pc' \in PCs /\ finish' \in {finish, "budget"} /\ ran' \in Seq(Args)
    <3>1. CASE Respond(1) /\ UNCHANGED <<ran, rows>>
      BY <1>0, <2>1, <3>1, RespondTyped DEF PCs
    <3>2. CASE RunTool(a) /\ UNCHANGED rows
      <4>1. /\ working' \in Seq(Message) /\ todo' = Tail(todo)
            /\ pc' \in {"end", "tools"} /\ finish' \in {finish, "budget"}
            /\ ran' = Append(ran, a)
        BY <2>1, <3>2, RunTyped
      <4>2. Append(ran, a) \in Seq(Args)
        BY <1>0, <2>1, AppendProperties
      <4> QED BY <1>0, <2>1, <3>2, <4>1, <4>2 DEF PCs
    <3>3. CASE CreatePendingApproval(a) /\ pc' = "ask" /\ UNCHANGED <<finish, working, todo, ran>>
      BY <1>0, <2>1, <3>3, NewRowTyped DEF PCs
    <3> QED BY <1>2, <3>1, <3>2, <3>3 DEF Execute
  <2>4. UNCHANGED <<cont, guard, waiter, sent, ctl, desk, bus, disabled, agreed, shared>>
    BY <1>2 DEF Execute
  <2> HIDE DEF a
  <2> QED BY <2>2, <2>3, <2>4 DEF IInv, Types, TypeOK, shared, Row, Call
<1>3. CASE ExecuteLate
  <2>1. pc \in Executing /\ Head(todo).args \in Args
    BY <1>3, UnderWay DEF ExecuteLate, Executing
  <2>2. ran' \in Seq(Args)
    BY <1>0, <1>3, <2>1, LateRan
  <2> QED BY <1>3, <2>2 DEF ExecuteLate, Stop, IInv, Types, TypeOK, control, shared, PCs
<1>4. CASE Ask
  <2>1. rows' \in Seq(Row)
    <3>1. DOMAIN rows = 1..Len(rows) /\ Len(rows) \in Nat
          /\ \A i \in DOMAIN rows : rows[i] \in Row
      BY <1>0
    <3>2. ASSUME NEW r \in Row PROVE [r EXCEPT !.committed = TRUE] \in Row
      BY DEF Row
    <3>3. rows' = [i \in 1..Len(rows) |-> [rows[i] EXCEPT !.committed = TRUE]]
      BY <1>4, <3>1 DEF Ask
    <3>4. rows' \in [1..Len(rows) -> Row]
      BY <3>1, <3>2, <3>3
    <3> QED BY <3>1, <3>4
  <2>2. pc' \in PCs
    BY <1>4 DEF Ask, PCs
  <2> QED BY <1>4, <2>1, <2>2 DEF Ask, IInv, Types, TypeOK, shared, Row
<1>5. CASE Register
  <2>1. Len(rows) \in Nat
    BY <1>0
  <2>2. /\ waiter' \in [row : Nat, decision : {"none", "pending", "approved", "rejected",
                                               "cancelled", "timed_out"}]
        /\ pc' \in PCs /\ finish' \in {finish, "budget"}
    BY <1>5, <2>1 DEF Register, Stop, IInv, Types, TypeOK, PCs
  <2> QED BY <1>5, <2>2 DEF Register, IInv, Types, TypeOK, control, shared
<1>6. CASE WaitLate
  BY <1>6 DEF WaitLate, Stop, NoWaiter, IInv, Types, TypeOK, control, shared, PCs
<1>7. CASE Decided
  <2>1. pc \in Executing /\ Tail(todo) \in Seq(Call)
    BY <1>7, UnderWay DEF Decided, Executing
  <2>2. working' \in Seq(Message) /\ todo' \in Seq(Call) /\ pc' \in PCs /\ finish' = finish
    <3>1. CASE UNCHANGED <<finish, working, todo>> /\ pc' \in {"again", "aborted"}
      BY <1>0, <3>1 DEF PCs, IInv, Types, TypeOK
    <3>2. CASE ToolMessage(1) /\ todo' = Tail(todo) /\ pc' = "tools" /\ UNCHANGED finish
      BY <2>1, <3>2, AnswerTyped DEF PCs
    <3> QED BY <1>7, <3>1, <3>2 DEF Decided
  <2>3. waiter' \in [row : Nat, decision : {"none", "pending", "approved", "rejected",
                                            "cancelled", "timed_out"}]
    BY <1>7 DEF Decided, NoWaiter
  <2> QED BY <1>7, <2>2, <2>3 DEF Decided, IInv, Types, TypeOK, control, shared, Call
<1>8. CASE ExecuteAgain
  <2> DEFINE a == Head(todo).args
  <2>1. pc \in Executing /\ a \in Args /\ Tail(todo) \in Seq(Call)
    BY <1>8, UnderWay DEF ExecuteAgain, Executing
  <2>2. /\ working' \in Seq(Message) /\ todo' \in Seq(Call) /\ rows' \in Seq(Row)
        /\ pc' \in PCs /\ finish' \in {finish, "budget"} /\ ran' \in Seq(Args)
    <3>1. CASE Respond(1) /\ UNCHANGED <<ran, rows>>
      BY <1>0, <2>1, <3>1, RespondTyped DEF PCs
    <3>2. CASE RunTool(a) /\ UNCHANGED rows
      <4>1. /\ working' \in Seq(Message) /\ todo' = Tail(todo)
            /\ pc' \in {"end", "tools"} /\ finish' \in {finish, "budget"}
            /\ ran' = Append(ran, a)
        BY <2>1, <3>2, RunTyped
      <4>2. Append(ran, a) \in Seq(Args)
        BY <1>0, <2>1, AppendProperties
      <4> QED BY <1>0, <2>1, <3>2, <4>1, <4>2 DEF PCs
    <3>3. CASE CreatePendingApproval(a) /\ Respond(1) /\ UNCHANGED ran
      BY <1>0, <2>1, <3>3, RespondTyped, NewRowTyped DEF PCs
    <3> QED BY <1>8, <3>1, <3>2, <3>3 DEF ExecuteAgain
  <2>3. UNCHANGED <<cont, guard, used, waiter, sent, ctl, desk, bus, disabled, agreed, shared>>
    BY <1>8 DEF ExecuteAgain
  <2> HIDE DEF a
  <2> QED BY <2>2, <2>3 DEF IInv, Types, TypeOK, shared, Row, Call
<1> QED BY <1>1, <1>2, <1>3, <1>4, <1>5, <1>6, <1>7, <1>8 DEF ToolMove

LEMMA TypesKept ==
    ASSUME IInv, Next
    PROVE  Types'
  BY NextMoves, AsideTyped, RowMoveTyped, SlotMoveKeeps, RoundMoveTyped, StreamMoveTyped,
     ToolMoveTyped

-----------------------------------------------------------------------------
(***************************************************************************)
(* Slots.                                                                  *)
(***************************************************************************)

\* Between rounds and at the tools no slot is held or moved, and nothing is sent.
LEMMA RoundMoveCore ==
    ASSUME RoundMove
    PROVE  /\ UNCHANGED <<free, others, used, ran, rows, agreed, desk, sent, todo>>
           /\ pc' \notin Executing \/ pc' = pc
           /\ Acquired' <=> Acquired
<1> USE DEF shared, control, Acquired, Executing
<1>1. CASE LoopHead \/ Admit
  BY <1>1 DEF LoopHead, Admit, Stop
<1>2. CASE BreakerRefuses \/ NoTimeForSlot
  BY <1>2 DEF BreakerRefuses, NoTimeForSlot, Stop
<1>3. CASE Fold
  <2>1. pc = "fold" /\ pc' \in {"end", "tools", "head"}
    BY <1>3 DEF Fold, Stop
  <2> QED BY <1>3, <2>1 DEF Fold
<1>4. CASE RoundOver \/ Finish \/ Deadline
  BY <1>4 DEF RoundOver, Finish, Deadline
<1> QED BY <1>1, <1>2, <1>3, <1>4 DEF RoundMove

LEMMA StreamMoveCore ==
    ASSUME StreamMove
    PROVE  /\ UNCHANGED <<used, ran, rows, agreed, desk>>
           /\ pc' \notin Executing
<1> USE DEF shared, control, Executing
<1>1. CASE Dispatch \/ SeeCancel
  BY <1>1 DEF Dispatch, SeeCancel
<1>2. CASE RetryCall
  BY <1>2 DEF RetryCall, Stop
<1>3. CASE SeePause \/ Drain
  BY <1>3 DEF SeePause, Drain
<1>4. CASE StreamLate
  BY <1>4 DEF StreamLate, Stop
<1>5. CASE ProviderFails \/ Disconnect
  BY <1>5 DEF ProviderFails, Disconnect
<1>6. ASSUME NEW reason, NEW batch, NEW n, Answer(reason, batch, n)
      PROVE  UNCHANGED <<used, ran, rows, agreed, desk>> /\ pc' \notin Executing
  BY <1>6 DEF Answer
<1> QED BY <1>1, <1>2, <1>3, <1>4, <1>5, <1>6 DEF StreamMove

LEMMA ToolMoveCore ==
    ASSUME ToolMove
    PROVE  /\ UNCHANGED <<free, others, agreed, desk, sent>>
           /\ ~ Acquired /\ ~ Acquired'
           /\ pc \in Executing \union {"tools"} /\ pc' \notin {"admit", "acquire", "fold", "head"}
<1> USE DEF shared, control, Acquired, Executing
<1>1. CASE NextTool
  BY <1>1 DEF NextTool, Stop
<1>2. CASE Execute
  <2>1. pc' \in {"end", "tools", "ask"}
    BY <1>2 DEF Execute, RunTool, Respond, Stop
  <2> QED BY <1>2, <2>1 DEF Execute
<1>3. CASE ExecuteLate \/ Ask
  BY <1>3 DEF ExecuteLate, Ask, Stop
<1>4. CASE Register \/ WaitLate
  BY <1>4 DEF Register, WaitLate, Stop
<1>5. CASE Decided
  <2>1. pc' \in {"again", "aborted", "tools"}
    BY <1>5 DEF Decided
  <2> QED BY <1>5, <2>1 DEF Decided
<1>6. CASE ExecuteAgain
  <2>1. pc' \in {"end", "tools"}
    BY <1>6 DEF ExecuteAgain, RunTool, Respond, Stop
  <2> QED BY <1>6, <2>1 DEF ExecuteAgain
<1> QED BY <1>1, <1>2, <1>3, <1>4, <1>5, <1>6 DEF ToolMove

LEMMA RowMoveCore ==
    ASSUME IInv, RowMove
    PROVE  /\ UNCHANGED <<pc, finish, working, todo, guard, used, ran, sent, free, others>>
           /\ desk' \subseteq desk /\ agreed \subseteq agreed'
           /\ DOMAIN rows' = DOMAIN rows
           /\ \A i \in DOMAIN rows : /\ rows'[i].args = rows[i].args
                                     /\ rows'[i].status = "approved" =>
                                           rows[i].status = "approved" \/ rows[i].args \in agreed'
<1>0. rows \in Seq(Row) /\ \A i \in DOMAIN rows : rows[i] \in Row
  BY RowsTyped DEF IInv
<1>1. ASSUME NEW x \in desk \union bus, DecideWrite(x)
      PROVE  /\ UNCHANGED <<pc, finish, working, todo, guard, used, ran, sent, free, others>>
             /\ desk' \subseteq desk /\ agreed \subseteq agreed'
             /\ DOMAIN rows' = DOMAIN rows
             /\ \A i \in DOMAIN rows :
                   /\ rows'[i].args = rows[i].args
                   /\ rows'[i].status = "approved" =>
                         rows[i].status = "approved" \/ rows[i].args \in agreed'
  <2>1. /\ UNCHANGED <<pc, finish, working, todo, guard, used, ran, sent, free, others>>
        /\ desk' \subseteq desk /\ agreed \subseteq agreed'
    BY <1>1 DEF DecideWrite, idle, shared
  <2>2. rows' = [rows EXCEPT ![x.row].status = x.decision] /\ x \in desk
    BY <1>1 DEF DecideWrite
  <2>3. x.row \in DOMAIN rows
    BY <2>2 DEF IInv, Rest, Known
  <2>4. DOMAIN rows' = DOMAIN rows
    BY <2>2
  <2>5. ASSUME NEW i \in DOMAIN rows
        PROVE  /\ rows'[i].args = rows[i].args
               /\ rows'[i].status = "approved" =>
                     rows[i].status = "approved" \/ rows[i].args \in agreed'
    <3>1. CASE i # x.row
      BY <2>2, <3>1
    <3>2. CASE i = x.row
      <4>1. rows'[i] = [rows[i] EXCEPT !.status = x.decision] /\ rows[i] \in Row
        BY <1>0, <2>2, <2>3, <3>2
      <4>2. rows'[i].args = rows[i].args /\ rows'[i].status = x.decision
        BY <4>1 DEF Row
      <4>3. x.decision = "approved" => rows[i].args \in agreed'
        BY <1>1, <3>2 DEF DecideWrite
      <4> QED BY <4>2, <4>3
    <3> QED BY <3>1, <3>2
  <2> QED BY <2>1, <2>4, <2>5
<1>2. ASSUME NEW j \in DOMAIN rows, ApprovalExpires(j)
      PROVE  /\ UNCHANGED <<pc, finish, working, todo, guard, used, ran, sent, free, others>>
             /\ UNCHANGED <<desk, agreed>>
             /\ DOMAIN rows' = DOMAIN rows
             /\ \A i \in DOMAIN rows :
                   rows'[i].args = rows[i].args /\ rows'[i].status = rows[i].status
  <2>1. /\ UNCHANGED <<pc, finish, working, todo, guard, used, ran, sent, free, others>>
        /\ UNCHANGED <<desk, agreed>>
    BY <1>2 DEF ApprovalExpires, idle, shared
  <2>2. rows' = [rows EXCEPT ![j].expired = TRUE]
    BY <1>2 DEF ApprovalExpires
  <2>3. ASSUME NEW i \in DOMAIN rows
        PROVE  rows'[i].args = rows[i].args /\ rows'[i].status = rows[i].status
    <3>1. CASE i # j
      BY <2>2, <3>1
    <3>2. CASE i = j
      <4>1. rows'[i] = [rows[i] EXCEPT !.expired = TRUE] /\ rows[i] \in Row
        BY <1>0, <2>2, <3>2
      <4> QED BY <4>1 DEF Row
    <3> QED BY <3>1, <3>2
  <2> QED BY <2>1, <2>2, <2>3
<1> QED BY <1>1, <1>2 DEF RowMove

LEMMA SlotMoveCore ==
    ASSUME SlotMove
    PROVE  UNCHANGED <<pc, working, todo, guard, used, ran, sent, rows, agreed, desk>>
  BY DEF SlotMove, OtherStarts, OtherEnds, control

LEMMA SlottedKept ==
    ASSUME IInv, Next
    PROVE  Slotted'
<1>0. Slotted
  BY DEF IInv, Rest
<1>1. CASE Aside
  BY <1>0, <1>1, AsideTyped DEF core, Slotted, Acquired
<1>2. CASE RowMove
  BY <1>0, <1>2, RowMoveCore DEF Slotted, Acquired
<1>3. CASE RoundMove \/ ToolMove
  BY <1>0, <1>3, RoundMoveCore, ToolMoveCore DEF Slotted
<1> QED BY <1>1, <1>2, <1>3, NextMoves, SlotMoveKeeps, StreamMoveSlots

-----------------------------------------------------------------------------
(***************************************************************************)
(* Consent.                                                                *)
(***************************************************************************)

\* The tools add pending rows and make rows visible.
LEMMA ToolMoveRows ==
    ASSUME IInv, ToolMove
    PROVE  /\ \A i \in DOMAIN rows : /\ i \in DOMAIN rows'
                                     /\ rows'[i].args = rows[i].args
                                     /\ rows'[i].status = rows[i].status
           /\ \A i \in DOMAIN rows' : i \in DOMAIN rows \/ rows'[i].status = "pending"
<1>0. rows \in Seq(Row) /\ \A i \in DOMAIN rows : rows[i] \in Row
  BY RowsTyped DEF IInv
<1>1. CASE UNCHANGED rows
  BY <1>1
<1>2. ASSUME NEW a \in Args, CreatePendingApproval(a)
      PROVE  /\ \A i \in DOMAIN rows : i \in DOMAIN rows' /\ rows'[i] = rows[i]
             /\ \A i \in DOMAIN rows' : i \in DOMAIN rows \/ rows'[i].status = "pending"
  BY <1>0, <1>2, NewRowTyped
<1>3. CASE Ask
  <2>1. rows' = [i \in DOMAIN rows |-> [rows[i] EXCEPT !.committed = TRUE]]
    BY <1>3 DEF Ask
  <2>2. ASSUME NEW r \in Row
        PROVE  /\ [r EXCEPT !.committed = TRUE].args = r.args
               /\ [r EXCEPT !.committed = TRUE].status = r.status
    BY DEF Row
  <2> QED BY <1>0, <2>1, <2>2
<1>4. CASE Execute
  <2>1. Head(todo).args \in Args
    BY <1>4, UnderWay DEF Execute, Executing
  <2> QED BY <1>1, <1>2, <1>4, <2>1 DEF Execute
<1>5. CASE ExecuteAgain
  <2>1. Head(todo).args \in Args
    BY <1>5, UnderWay DEF ExecuteAgain, Executing
  <2> QED BY <1>1, <1>2, <1>5, <2>1 DEF ExecuteAgain
<1>6. CASE NextTool \/ ExecuteLate \/ Register \/ WaitLate \/ Decided
  <2>1. UNCHANGED rows
    BY <1>6 DEF NextTool, ExecuteLate, Register, WaitLate, Decided, control
  <2> QED BY <1>1, <2>1
<1> QED BY <1>3, <1>4, <1>5, <1>6 DEF ToolMove

\* A call runs when it is under way and the gateway has allowed it; then it is over.
LEMMA ToolMoveRan ==
    ASSUME IInv, ToolMove
    PROVE  \/ ran' = ran
           \/ /\ pc \in Executing /\ Head(todo).args \in Args
              /\ ran' = Append(ran, Head(todo).args) /\ Allowed(Head(todo).args)
              /\ pc' \notin Executing
<1>1. ASSUME pc \in Executing PROVE Head(todo).args \in Args
  BY <1>1, UnderWay
<1>2. CASE Execute
  BY <1>1, <1>2 DEF Execute, RunTool, Respond, Stop, Executing
<1>3. CASE ExecuteAgain
  BY <1>1, <1>3 DEF ExecuteAgain, RunTool, Respond, Stop, Executing
<1>4. CASE ExecuteLate
  BY <1>1, <1>4, LateRan DEF ExecuteLate, Stop, Executing
<1>5. CASE NextTool \/ Ask \/ Register \/ WaitLate \/ Decided
  BY <1>5 DEF NextTool, Ask, Register, WaitLate, Decided
<1> QED BY <1>2, <1>3, <1>4, <1>5 DEF ToolMove

LEMMA RanAppended ==
    ASSUME ran \in Seq(Args), NEW a \in Args, ran' = Append(ran, a)
    PROVE  /\ Len(ran') = Len(ran) + 1 /\ Len(ran) \in Nat
           /\ \A i \in DOMAIN ran' : (i \in DOMAIN ran /\ ran'[i] = ran[i]) \/ ran'[i] = a
           /\ Ran' \subseteq Ran \union {ToolOf[a]}
<1>1. /\ Len(ran') = Len(ran) + 1 /\ Len(ran) \in Nat
      /\ DOMAIN ran' = 1..Len(ran) + 1 /\ DOMAIN ran = 1..Len(ran)
      /\ \A i \in 1..Len(ran) : ran'[i] = ran[i]
      /\ ran'[Len(ran) + 1] = a
  BY AppendProperties
<1>2. \A i \in DOMAIN ran' : (i \in DOMAIN ran /\ ran'[i] = ran[i]) \/ ran'[i] = a
  BY <1>1
<1> QED BY <1>1, <1>2 DEF Ran

LEMMA ConsentKept ==
    ASSUME IInv, Next
    PROVE  Known' /\ Granted' /\ ConsentedOnly'
<1>0. Known /\ Granted /\ ConsentedOnly /\ ran \in Seq(Args)
  BY DEF IInv, Rest, Types
<1>1. CASE Aside
  <2>1. UNCHANGED <<rows, agreed, ran>>
    BY <1>1, AsideTyped DEF core
  <2>2. Known'
    <3>1. \A x \in desk' : x \in desk \/ x.row \in DOMAIN rows
      <4>1. CASE UNCHANGED desk
        BY <4>1
      <4>2. ASSUME NEW i \in DOMAIN rows, NEW d, DecideRead(i, d)
            PROVE  \A x \in desk' : x \in desk \/ x.row \in DOMAIN rows
        BY <4>2 DEF DecideRead
      <4>3. CASE Cooldown \/ WaitTimesOut \/ ResumeRun \/ CancelRun \/ PauseRun \/ Instruct
        BY <4>1, <4>3
           DEF Cooldown, WaitTimesOut, ResumeRun, CancelRun, PauseRun, Instruct, control
      <4>4. ASSUME NEW x, LoseSignal(x) \/ Deliver(x) \/ DisableTool(x) PROVE UNCHANGED desk
        BY <4>4 DEF LoseSignal, Deliver, DisableTool
      <4> QED BY <1>1, <4>1, <4>2, <4>3, <4>4 DEF Aside
    <3> QED BY <1>0, <2>1, <3>1 DEF Known
  <2> QED BY <1>0, <2>1, <2>2 DEF Granted, ConsentedOnly
<1>2. CASE RowMove
  BY <1>0, <1>2, RowMoveCore DEF Known, Granted, ConsentedOnly
<1>3. CASE SlotMove \/ RoundMove \/ StreamMove
  <2>1. UNCHANGED <<rows, agreed, ran, desk>>
    BY <1>3, SlotMoveCore, RoundMoveCore, StreamMoveCore
  <2> QED BY <1>0, <2>1 DEF Known, Granted, ConsentedOnly
<1>4. CASE ToolMove
  <2>1. UNCHANGED <<agreed, desk>>
    BY <1>4, ToolMoveCore
  <2>2. Known' /\ Granted'
    BY <1>0, <1>4, <2>1, ToolMoveRows DEF Known, Granted
  <2>3. ConsentedOnly'
    <3>1. CASE ran' = ran
      BY <1>0, <2>1, <3>1 DEF ConsentedOnly
    <3>2. ASSUME NEW a \in Args, ran' = Append(ran, a), Allowed(a) PROVE ConsentedOnly'
      <4>1. ToolOf[a] \in Dangerous => a \in agreed
        BY <1>0, <3>2 DEF Allowed, NeedsApproval, FindValidApproval, Granted
      <4>2. \A i \in DOMAIN ran' : (i \in DOMAIN ran /\ ran'[i] = ran[i]) \/ ran'[i] = a
        BY <1>0, <3>2, RanAppended
      <4> QED BY <1>0, <2>1, <4>1, <4>2 DEF ConsentedOnly
    <3> QED BY <1>4, <3>1, <3>2, ToolMoveRan
  <2> QED BY <2>2, <2>3
<1> QED BY <1>1, <1>2, <1>3, <1>4, NextMoves

-----------------------------------------------------------------------------
(***************************************************************************)
(* The budget.                                                             *)
(***************************************************************************)
LEMMA StepPaid ==
    ASSUME IInv, Next
    PROVE  /\ sent' <= guard'.steps /\ sent' <= MaxSteps
           /\ pc' \in {"admit", "acquire"} => sent' < guard'.steps
<1>0. /\ sent <= guard.steps /\ sent <= MaxSteps /\ sent \in Nat /\ MaxSteps \in Nat
      /\ pc \in {"admit", "acquire"} => sent < guard.steps
      /\ guard \in Guard /\ guard.steps \in Nat
  BY Bases DEF Base, IInv, Rest, Paid, Types, TypeOK, Guard
<1>1. CASE /\ UNCHANGED <<guard, sent>>
           /\ pc' \in {"admit", "acquire"} => pc \in {"admit", "acquire"}
  BY <1>0, <1>1
<1>2. CASE Aside \/ RowMove \/ SlotMove
  <2>1. UNCHANGED <<pc, guard, sent>>
    BY <1>2, AsideTyped, RowMoveCore, SlotMoveCore DEF core
  <2> QED BY <1>1, <2>1
<1>3. CASE LoopHead
  <2>1. sent' = sent
    BY <1>3 DEF LoopHead
  <2>2. \/ guard' = guard /\ pc' = "end"
        \/ guard' = [guard EXCEPT !.steps = @ + 1]
    BY <1>3 DEF LoopHead, EnterStep, Stop
  <2>3. CASE guard' = [guard EXCEPT !.steps = @ + 1]
    <3>1. guard'.steps = guard.steps + 1
      BY <1>0, <2>3 DEF Guard
    <3> QED BY <1>0, <2>1, <3>1
  <2> QED BY <1>0, <2>1, <2>2, <2>3
<1>4. CASE Admit \/ BreakerRefuses \/ NoTimeForSlot
  BY <1>1, <1>4 DEF Admit, BreakerRefuses, NoTimeForSlot, Stop
<1>5. CASE Fold
  <2>1. pc' \notin {"admit", "acquire"} /\ UNCHANGED <<guard, sent>>
    BY <1>5 DEF Fold, Stop
  <2> QED BY <1>1, <2>1
<1>6. CASE RoundOver \/ Finish
  BY <1>1, <1>6 DEF RoundOver, Finish
<1>7. CASE Deadline
  <2>1. guard'.steps = guard.steps /\ pc' = pc /\ sent' = sent
    BY <1>0, <1>7 DEF Deadline, Guard
  <2> QED BY <1>0, <2>1
<1>8. CASE Dispatch
  <2>1. guard' = guard /\ sent' = sent + 1 /\ pc = "acquire" /\ pc' = "stream"
        /\ ~ (guard.steps > MaxSteps)
    BY <1>8 DEF Dispatch, Exhausted
  <2> QED BY <1>0, <2>1
<1>9. CASE RetryCall
  <2>1. guard'.steps = guard.steps + 1 /\ guard' \in Guard
    BY <1>0, <1>9, GuardTyped DEF RetryCall, GateRetry, EnterStep, Guard
  <2>2. pc' \notin {"admit", "acquire"}
    BY <1>9 DEF RetryCall, Stop
  <2>3. sent' = sent \/ (sent' = sent + 1 /\ ~ (guard'.steps > MaxSteps))
    BY <1>9 DEF RetryCall, Exhausted
  <2> QED BY <1>0, <2>1, <2>2, <2>3
<1>10. CASE SeeCancel \/ SeePause \/ Drain
  BY <1>1, <1>10 DEF SeeCancel, SeePause, Drain
<1>11. CASE StreamLate \/ ProviderFails \/ Disconnect
  BY <1>1, <1>11 DEF StreamLate, ProviderFails, Disconnect, Stop
<1>12. ASSUME NEW reason, NEW batch, NEW n, Answer(reason, batch, n)
       PROVE  /\ sent' <= guard'.steps /\ sent' <= MaxSteps
              /\ pc' \in {"admit", "acquire"} => sent' < guard'.steps
  <2>1. guard'.steps = guard.steps /\ pc' = "fold" /\ sent' = sent
    BY <1>0, <1>12 DEF Answer, AddUsage, Guard
  <2> QED BY <1>0, <2>1
<1>13. CASE NextTool
  <2>1. guard'.steps = guard.steps /\ pc' \notin {"admit", "acquire"} /\ sent' = sent
    BY <1>0, <1>13 DEF NextTool, EnterTool, Guard, Stop
  <2> QED BY <1>0, <2>1
<1>14. CASE ToolMove /\ ~ NextTool
  <2>1. UNCHANGED guard
    BY <1>14 DEF ToolMove, Execute, ExecuteLate, Ask, Register, WaitLate, Decided, ExecuteAgain
  <2>2. sent' = sent /\ pc' \notin {"admit", "acquire"}
    BY <1>14, ToolMoveCore
  <2> QED BY <1>1, <2>1, <2>2
<1> QED BY <1>2, <1>3, <1>4, <1>5, <1>6, <1>7, <1>8, <1>9, <1>10, <1>11, <1>12, <1>13,
           <1>14, NextMoves DEF RoundMove, StreamMove

\* Only the head of a tool call counts tool calls.
LEMMA ToolsCounted ==
    ASSUME IInv, Next, ~ NextTool
    PROVE  guard'.tools = guard.tools
<1>0. guard \in Guard
  BY DEF IInv, Types, TypeOK, Guard
<1>1. CASE Aside \/ RowMove \/ SlotMove
  BY <1>1, AsideTyped, RowMoveCore, SlotMoveCore DEF core
<1>2. CASE LoopHead
  BY <1>0, <1>2 DEF LoopHead, EnterStep, Guard
<1>3. CASE RetryCall
  BY <1>0, <1>3 DEF RetryCall, GateRetry, EnterStep, Guard
<1>4. CASE Deadline
  BY <1>0, <1>4 DEF Deadline, Guard
<1>5. ASSUME NEW reason, NEW batch, NEW n, Answer(reason, batch, n)
      PROVE  guard'.tools = guard.tools
  BY <1>0, <1>5 DEF Answer, AddUsage, Guard
<1>6. CASE Admit \/ BreakerRefuses \/ NoTimeForSlot \/ Fold \/ RoundOver \/ Finish
  BY <1>6 DEF Admit, BreakerRefuses, NoTimeForSlot, Fold, RoundOver, Finish
<1>7. CASE Dispatch \/ SeeCancel \/ SeePause \/ Drain
  BY <1>7 DEF Dispatch, SeeCancel, SeePause, Drain
<1>8. CASE StreamLate \/ ProviderFails \/ Disconnect
  BY <1>8 DEF StreamLate, ProviderFails, Disconnect
<1>9. CASE ToolMove
  BY <1>9 DEF ToolMove, Execute, ExecuteLate, Ask, Register, WaitLate, Decided, ExecuteAgain
<1> QED BY <1>1, <1>2, <1>3, <1>4, <1>5, <1>6, <1>7, <1>8, <1>9, NextMoves
        DEF RoundMove, StreamMove

\* Only NextTool takes up a call.
LEMMA TakenUp ==
    ASSUME IInv, Next, ~ NextTool, pc' \in Executing
    PROVE  pc \in Executing
<1>1. CASE Aside \/ RowMove \/ SlotMove
  BY <1>1, AsideTyped, RowMoveCore, SlotMoveCore DEF core
<1>2. CASE RoundMove \/ StreamMove
  BY <1>2, RoundMoveCore, StreamMoveCore
<1>3. CASE ToolMove
  BY <1>3 DEF ToolMove, Execute, ExecuteLate, Ask, Register, WaitLate, Decided, ExecuteAgain,
              Executing
<1> QED BY <1>1, <1>2, <1>3, NextMoves

LEMMA PaidKept ==
    ASSUME IInv, Next
    PROVE  Paid'
<1>0. /\ Len(ran) <= guard.tools /\ Len(ran) <= MaxTools /\ MaxTools \in Nat
      /\ pc \in Executing => Len(ran) < guard.tools /\ Len(ran) < MaxTools
      /\ guard \in Guard /\ guard.tools \in Nat /\ ran \in Seq(Args) /\ Len(ran) \in Nat
  BY Bases DEF Base, IInv, Rest, Paid, Types, TypeOK, Guard
<1>1. /\ Len(ran') <= guard'.tools /\ Len(ran') <= MaxTools
      /\ pc' \in Executing => Len(ran') < guard'.tools /\ Len(ran') < MaxTools
  <2>1. CASE NextTool
    <3>1. guard'.tools = guard.tools + 1 /\ ran' = ran
      BY <1>0, <2>1 DEF NextTool, EnterTool, Guard
    <3>2. pc' = "end" \/ ~ (guard'.tools > MaxTools)
      BY <2>1 DEF NextTool, Exhausted, Stop
    <3> QED BY <1>0, <3>1, <3>2 DEF Executing
  <2>2. CASE ~ NextTool
    <3>1. guard'.tools = guard.tools /\ (pc' \in Executing => pc \in Executing)
      BY <2>2, ToolsCounted, TakenUp
    <3>2. CASE ran' = ran
      BY <1>0, <3>1, <3>2
    <3>3. CASE ToolMove /\ ran' # ran
      <4>1. pc \in Executing /\ pc' \notin Executing /\ Len(ran') = Len(ran) + 1
        BY <1>0, <3>3, ToolMoveRan, RanAppended
      <4> QED BY <1>0, <3>1, <4>1
    <3>4. ToolMove \/ ran' = ran
      BY NextMoves, AsideTyped, RowMoveCore, SlotMoveCore, RoundMoveCore, StreamMoveCore DEF core
    <3> QED BY <3>2, <3>3, <3>4
  <2> QED BY <2>1, <2>2
<1> QED BY <1>1, StepPaid DEF Paid

-----------------------------------------------------------------------------
(***************************************************************************)
(* The quota of different tools.                                           *)
(***************************************************************************)
LEMMA QuotaRoom ==
    ASSUME IsFiniteSet(used), Cardinality(used) <= MaxDistinct, NEW a, ~ QuotaRefuses(a)
    PROVE  /\ IsFiniteSet(used \union {ToolOf[a]})
           /\ Cardinality(used \union {ToolOf[a]}) <= MaxDistinct
<1>1. Cardinality(used) \in Nat /\ MaxDistinct \in Nat
  BY FS_CardinalityType, Bases DEF Base
<1>2. /\ IsFiniteSet(used \union {ToolOf[a]})
      /\ Cardinality(used \union {ToolOf[a]})
           = IF ToolOf[a] \in used THEN Cardinality(used) ELSE Cardinality(used) + 1
  BY FS_AddElement
<1>3. ToolOf[a] \in used \/ ~ (Cardinality(used) >= MaxDistinct)
  BY DEF QuotaRefuses
<1> QED BY <1>1, <1>2, <1>3

LEMMA RanWithin ==
    ASSUME NEW R, NEW U, R \subseteq U, IsFiniteSet(U), Cardinality(U) <= MaxDistinct
    PROVE  IsFiniteSet(R) /\ Cardinality(R) <= MaxDistinct
<1>1. IsFiniteSet(R) /\ Cardinality(R) <= Cardinality(U)
  BY FS_Subset
<1>2. Cardinality(R) \in Nat /\ Cardinality(U) \in Nat /\ MaxDistinct \in Nat
  BY <1>1, FS_CardinalityType, Bases DEF Base
<1> QED BY <1>1, <1>2

LEMMA WithinKept ==
    ASSUME IInv, Next
    PROVE  Within'
<1>0. /\ IsFiniteSet(used) /\ Cardinality(used) <= MaxDistinct
      /\ pc \notin Closed => Ran \subseteq used
      /\ IsFiniteSet(Ran) /\ Cardinality(Ran) <= MaxDistinct
      /\ pc \in Executing \ {"execute"} => ToolOf[Head(todo).args] \in used
      /\ pc \notin Over /\ ran \in Seq(Args)
  BY DEF IInv, Rest, Within, Types, Next
<1>1. CASE Aside \/ RowMove \/ SlotMove
  <2>1. UNCHANGED <<pc, todo, used, ran>>
    BY <1>1, AsideTyped, RowMoveCore, SlotMoveCore DEF core
  <2> QED BY <1>0, <2>1 DEF Within, Ran
<1>2. CASE RoundMove \/ StreamMove
  <2>1. UNCHANGED <<used, ran>>
    BY <1>2, RoundMoveCore, StreamMoveCore
  <2>2. CASE pc \in Closed
    <3>1. pc = "end"
      BY <1>0, <2>2 DEF Closed
    <3>2. pc' \in Closed
      <4>1. CASE Finish \/ Deadline
        BY <3>1, <4>1 DEF Finish, Deadline, Closed, Over
      <4>2. CASE LoopHead \/ Admit \/ BreakerRefuses \/ NoTimeForSlot \/ Fold \/ RoundOver
        BY <3>1, <4>2 DEF LoopHead, Admit, BreakerRefuses, NoTimeForSlot, Fold, RoundOver
      <4>3. CASE StreamMove
        BY <3>1, <4>3 DEF StreamMove, Dispatch, RetryCall, SeeCancel, SeePause, Drain,
           StreamLate, StreamTimesOut, ProviderFails, Disconnect, Answer
      <4> QED BY <1>2, <4>1, <4>2, <4>3 DEF RoundMove
    <3>3. pc' \notin Executing
      BY <3>2 DEF Closed, Over, Executing
    <3> QED BY <1>0, <2>1, <3>2, <3>3 DEF Within, Ran
  <2>3. CASE pc \notin Closed
    <3>1. pc' \in Executing => pc' = pc /\ todo' = todo
      BY <1>2, RoundMoveCore, StreamMoveCore
    <3> QED BY <1>0, <2>1, <2>3, <3>1 DEF Within, Ran
  <2> QED BY <2>2, <2>3
<1>3. CASE ToolMove
  <2>1. pc \notin Closed /\ Ran \subseteq used
    BY <1>0, <1>3, ToolMoveCore DEF Executing, Closed, Over
  <2>2. CASE Execute
    <3> DEFINE a == Head(todo).args
    <3>1. used' = IF QuotaRefuses(a) THEN used ELSE used \union {ToolOf[a]}
      BY <2>2 DEF Execute
    <3>2. a \in Args
      BY <2>2, UnderWay DEF Execute, Executing
    <3>3. IsFiniteSet(used') /\ Cardinality(used') <= MaxDistinct
      BY <1>0, <3>1, QuotaRoom
    <3>4. Ran' \subseteq used'
      <4>1. CASE ran' = ran
        BY <2>1, <3>1, <4>1 DEF Ran
      <4>2. CASE ran' = Append(ran, a) /\ Allowed(a)
        <5>1. Ran' \subseteq Ran \union {ToolOf[a]}
          BY <1>0, <3>2, <4>2, RanAppended
        <5>2. ~ QuotaRefuses(a)
          BY <4>2 DEF Allowed
        <5> QED BY <2>1, <3>1, <5>1, <5>2
      <4> QED BY <1>3, <4>1, <4>2, ToolMoveRan
    <3>5. pc' \in Executing => todo' = todo /\ ~ QuotaRefuses(a)
      BY <2>2 DEF Execute, Executing, RunTool, Respond, Stop
    <3>6. pc' \in Executing => ToolOf[Head(todo').args] \in used'
      BY <3>1, <3>5
    <3>7. IsFiniteSet(Ran') /\ Cardinality(Ran') <= MaxDistinct
      BY <3>3, <3>4, RanWithin
    <3> HIDE DEF a
    <3> QED BY <3>3, <3>4, <3>6, <3>7 DEF Within
  <2>3. CASE ExecuteAgain
    <3> DEFINE a == Head(todo).args
    <3>1. used' = used /\ pc' \notin Executing
      BY <2>3 DEF ExecuteAgain, Executing, RunTool, Respond, Stop
    <3>2. a \in Args /\ ToolOf[a] \in used
      BY <1>0, <2>3, UnderWay DEF ExecuteAgain, Executing
    <3>3. Ran' \subseteq used'
      <4>1. CASE ran' = ran
        BY <2>1, <3>1, <4>1 DEF Ran
      <4>2. CASE ran' = Append(ran, a)
        <5>1. Ran' \subseteq Ran \union {ToolOf[a]}
          BY <1>0, <3>2, <4>2, RanAppended
        <5> QED BY <2>1, <3>1, <3>2, <5>1
      <4> QED BY <1>3, <4>1, <4>2, ToolMoveRan
    <3>4. IsFiniteSet(Ran') /\ Cardinality(Ran') <= MaxDistinct
      BY <1>0, <3>1, <3>3, RanWithin
    <3> HIDE DEF a
    <3> QED BY <1>0, <3>1, <3>3, <3>4 DEF Within
  <2>4. CASE ExecuteLate
    <3> DEFINE a == Head(todo).args
    <3>1. used' = used /\ pc' = "end"
      BY <2>4 DEF ExecuteLate, Stop
    <3>2. IsFiniteSet(Ran') /\ Cardinality(Ran') <= MaxDistinct
      <4>1. CASE ran' = ran
        BY <1>0, <4>1 DEF Ran
      <4>2. CASE ran' = Append(ran, a) /\ Allowed(a)
        <5>1. a \in Args
          BY <2>4, UnderWay DEF ExecuteLate, Executing
        <5>2. Ran' \subseteq used \union {ToolOf[a]}
          BY <1>0, <2>1, <4>2, <5>1, RanAppended
        <5>3. ~ QuotaRefuses(a)
          BY <4>2 DEF Allowed
        <5>4. /\ IsFiniteSet(used \union {ToolOf[a]})
              /\ Cardinality(used \union {ToolOf[a]}) <= MaxDistinct
          BY <1>0, <5>3, QuotaRoom
        <5> QED BY <5>2, <5>4, RanWithin
      <4> QED BY <2>4, <4>1, <4>2, LateRan
    <3>3. pc' \in Closed /\ pc' \notin Executing
      BY <3>1 DEF Closed, Executing
    <3> HIDE DEF a
    <3> QED BY <1>0, <3>1, <3>2, <3>3 DEF Within
  <2>5. CASE NextTool
    <3>1. UNCHANGED <<used, ran, todo>> /\ pc' \in {"end", "execute"}
      BY <2>5 DEF NextTool, Stop
    <3>2. pc' \notin Executing \ {"execute"}
      BY <3>1 DEF Executing
    <3> QED BY <1>0, <2>1, <3>1, <3>2 DEF Within, Ran
  <2>6. CASE Ask \/ Register \/ WaitLate
    <3>1. UNCHANGED <<used, ran, todo>> /\ pc \in Executing \ {"execute"}
      BY <2>6 DEF Ask, Register, WaitLate, Executing
    <3> QED BY <1>0, <2>1, <3>1 DEF Within, Ran
  <2>7. CASE Decided
    <3>1. UNCHANGED <<used, ran>> /\ pc \in Executing \ {"execute"}
      BY <2>7 DEF Decided, Executing
    <3>2. pc' \in Executing => todo' = todo
      BY <2>7 DEF Decided, Executing
    <3> QED BY <1>0, <2>1, <3>1, <3>2 DEF Within, Ran
  <2> QED BY <1>3, <2>2, <2>3, <2>4, <2>5, <2>6, <2>7 DEF ToolMove
<1> QED BY <1>1, <1>2, <1>3, NextMoves

-----------------------------------------------------------------------------
(***************************************************************************)
(* The calls of a round.                                                   *)
(***************************************************************************)
RespondsNow == todo' = Tail(todo) /\ pc \in Executing /\ pc' \in {"tools", "end"}

LEMMA RespondTakes ==
    ASSUME NEW cost, Respond(cost)
    PROVE  ToolMessage(cost) /\ todo' = Tail(todo) /\ pc' \in {"tools", "end"}
  BY DEF Respond, Stop

\* A tool step leaves transcript and calls alone, or answers the call under way.
LEMMA ToolMoveAnswers ==
    ASSUME IInv, ToolMove
    PROVE  \/ /\ UNCHANGED <<working, todo>>
              /\ pc' \in {"tools", "end", "aborted"} \union Executing
              /\ pc' # "tools"
           \/ RespondsNow /\ \E cost \in Nat : ToolMessage(cost)
<1>1. ASSUME NEW a, RunTool(a)
      PROVE  /\ todo' = Tail(todo) /\ pc' \in {"tools", "end"}
             /\ \E cost \in Nat : ToolMessage(cost)
  <2>1. PICK cost \in ResultCosts : Respond(Truncated(cost))
    BY <1>1 DEF RunTool
  <2>2. Truncated(cost) \in Nat
    BY TruncatedType
  <2> QED BY <2>1, <2>2, RespondTakes
<1>2. CASE Execute
  <2>1. pc \in Executing
    BY <1>2 DEF Execute, Executing
  <2>2. CASE Respond(1)
    BY <2>1, <2>2, RespondTakes DEF RespondsNow
  <2>3. CASE RunTool(Head(todo).args)
    BY <1>1, <2>1, <2>3 DEF RespondsNow
  <2>4. CASE pc' = "ask" /\ UNCHANGED <<finish, working, todo, ran>>
    BY <2>4 DEF Executing
  <2> QED BY <1>2, <2>2, <2>3, <2>4 DEF Execute
<1>3. CASE ExecuteAgain
  <2>1. pc \in Executing
    BY <1>3 DEF ExecuteAgain, Executing
  <2>2. CASE Respond(1)
    BY <2>1, <2>2, RespondTakes DEF RespondsNow
  <2>3. CASE RunTool(Head(todo).args)
    BY <1>1, <2>1, <2>3 DEF RespondsNow
  <2> QED BY <1>3, <2>2, <2>3 DEF ExecuteAgain
<1>4. CASE Decided
  BY <1>4 DEF Decided, RespondsNow, Executing
<1>5. CASE NextTool \/ ExecuteLate \/ Ask \/ Register \/ WaitLate
  BY <1>5 DEF NextTool, ExecuteLate, Ask, Register, WaitLate, Stop, Executing
<1> QED BY <1>2, <1>3, <1>4, <1>5 DEF ToolMove

\* At the provider, calls come with an answer and go with a cancel.
LEMMA StreamMoveCalls ==
    ASSUME StreamMove
    PROVE  \/ todo' = todo /\ pc' # "fold"
           \/ todo' = <<>> /\ UNCHANGED working
           \/ \E reason \in {"stop", "length", "tool_calls"}, batch \in Batches, n \in RoundTokens :
                 Answer(reason, batch, n)
<1>1. CASE Dispatch \/ SeePause \/ Drain
  BY <1>1 DEF Dispatch, SeePause, Drain
<1>2. CASE RetryCall
  BY <1>2 DEF RetryCall, Stop
<1>3. CASE StreamLate
  BY <1>3 DEF StreamLate, Stop
<1>4. CASE ProviderFails \/ Disconnect
  BY <1>4 DEF ProviderFails, Disconnect
<1>5. CASE SeeCancel
  BY <1>5 DEF SeeCancel
<1> QED BY <1>1, <1>2, <1>3, <1>4, <1>5 DEF StreamMove

LEMMA RoundMoveFold ==
    ASSUME RoundMove, pc' = "fold"
    PROVE  pc = "fold" /\ UNCHANGED working
<1>1. CASE Deadline
  BY <1>1 DEF Deadline
<1>2. CASE LoopHead \/ Admit \/ BreakerRefuses \/ NoTimeForSlot
  BY <1>2 DEF LoopHead, Admit, BreakerRefuses, NoTimeForSlot, Stop
<1>3. CASE Fold
  BY <1>3 DEF Fold, Stop
<1>4. CASE RoundOver \/ Finish
  BY <1>4 DEF RoundOver, Finish
<1> QED BY <1>1, <1>2, <1>3, <1>4 DEF RoundMove

LEMMA CallsKept ==
    ASSUME IInv, Next
    PROVE  Calls'
<1>0. /\ \A i \in DOMAIN todo, j \in DOMAIN todo : todo[i].id = todo[j].id => i = j
      /\ pc \in Executing => todo # <<>>
      /\ pc = "fold" => \A i \in DOMAIN working : working[i].ids \intersect Numbers(todo) = {}
      /\ todo \in Seq(Call)
  BY DEF IInv, Rest, Calls, Types, TypeOK, Call
<1>b. PICK b \in Nat : \A i \in DOMAIN todo : todo[i].id <= b
  BY DEF IInv, Rest, Calls
<1>1. CASE Aside \/ RowMove \/ SlotMove
  <2>1. UNCHANGED <<pc, todo, working>>
    BY <1>1, AsideTyped, RowMoveCore, SlotMoveCore DEF core
  <2> QED BY <1>0, <1>b, <2>1 DEF Calls
<1>2. CASE RoundMove
  <2>1. todo' = todo
    BY <1>2, RoundMoveCore
  <2>2. pc' \in Executing => todo' # <<>>
    BY <1>0, <1>2, <2>1, RoundMoveCore
  <2>3. pc' = "fold" => \A i \in DOMAIN working' : working'[i].ids \intersect Numbers(todo') = {}
    BY <1>0, <1>2, <2>1, RoundMoveFold
  <2> QED BY <1>0, <1>b, <2>1, <2>2, <2>3 DEF Calls
<1>3. CASE StreamMove
  <2>0. pc' \notin Executing
    BY <1>3, StreamMoveCore
  <2>1. CASE todo' = todo /\ pc' # "fold"
    BY <1>0, <1>b, <2>0, <2>1 DEF Calls
  <2>2. CASE todo' = <<>>
    <3>1. DOMAIN todo' = {} /\ Numbers(todo') = {}
      BY <2>2 DEF Numbers
    <3> QED BY <1>b, <2>0, <3>1 DEF Calls
  <2>3. ASSUME NEW reason, NEW batch \in Batches, NEW n, Answer(reason, batch, n)
        PROVE  Calls'
    <3>1. working' = working
      BY <2>3 DEF Answer
    <3> QED BY <2>0, <2>3, <3>1, AnswerCalls DEF Calls
  <2> QED BY <1>3, <2>1, <2>2, <2>3, StreamMoveCalls
<1>4. CASE ToolMove
  <2>1. pc' # "fold"
    BY <1>4, ToolMoveCore
  <2>2. CASE UNCHANGED <<working, todo>>
    <3>1. pc' \in Executing => todo' # <<>>
      <4>1. CASE NextTool
        BY <2>2, <4>1 DEF NextTool
      <4>2. CASE ~ NextTool
        BY <1>0, <2>2, <4>2, TakenUp
      <4> QED BY <4>1, <4>2
    <3> QED BY <1>0, <1>b, <2>1, <2>2, <3>1 DEF Calls
  <2>3. CASE RespondsNow
    <3>1. todo # <<>> /\ todo' = Tail(todo) /\ pc' \notin Executing
      BY <1>0, <2>3 DEF RespondsNow, Executing
    <3>2. /\ DOMAIN todo' = 1..Len(todo) - 1 /\ DOMAIN todo = 1..Len(todo) /\ Len(todo) \in Nat
          /\ \A i \in DOMAIN todo' : todo'[i] = todo[i + 1]
      BY <1>0, <3>1, HeadTailProperties
    <3>3. \A i \in DOMAIN todo' : i + 1 \in DOMAIN todo
      BY <3>2
    <3>4. ASSUME NEW i \in DOMAIN todo', NEW j \in DOMAIN todo', todo'[i].id = todo'[j].id
          PROVE  i = j
      <4>1. i + 1 = j + 1
        BY <1>0, <3>2, <3>3, <3>4
      <4> QED BY <3>2, <4>1
    <3>5. \A i \in DOMAIN todo' : todo'[i].id <= b
      BY <1>b, <3>2, <3>3
    <3> QED BY <2>1, <3>1, <3>4, <3>5 DEF Calls
  <2> QED BY <1>4, <2>2, <2>3, ToolMoveAnswers
<1> QED BY <1>1, <1>2, <1>3, <1>4, NextMoves

-----------------------------------------------------------------------------
(***************************************************************************)
(* What a message at its end does to a transcript.                         *)
(***************************************************************************)
LEMMA Appended ==
    ASSUME NEW m \in Seq(Message), NEW x \in Message
    PROVE  /\ Append(m, x) \in Seq(Message) /\ Append(m, x) # <<>>
           /\ Len(m) + 1 \in DOMAIN Append(m, x) /\ Append(m, x)[Len(m) + 1] = x
           /\ \A i \in DOMAIN Append(m, x) : i \in DOMAIN m \/ i = Len(m) + 1
           /\ \A i \in DOMAIN m : /\ i \in DOMAIN Append(m, x) /\ Append(m, x)[i] = m[i]
                                  /\ i \in Nat /\ i < Len(m) + 1
           /\ Len(m) \in Nat
<1> DEFINE n == Append(m, x)
<1>1. /\ n \in Seq(Message) /\ Len(n) = Len(m) + 1
      /\ \A i \in 1..Len(m) : n[i] = m[i]
      /\ n[Len(m) + 1] = x
  BY AppendProperties
<1>2. Len(m) \in Nat /\ DOMAIN m = 1..Len(m) /\ DOMAIN n = 1..Len(m) + 1
  BY <1>1
<1> HIDE DEF n
<1>4. \A i \in 1..Len(m) + 1 : i \in 1..Len(m) \/ i = Len(m) + 1
  BY <1>2
<1>5. \A i \in 1..Len(m) : i \in 1..Len(m) + 1 /\ i \in Nat /\ i < Len(m) + 1
  BY <1>2
<1>6. Len(m) + 1 \in 1..Len(m) + 1
  BY <1>2
<1>3. n # <<>>
  <2>1. DOMAIN n # {}
    BY <1>2, <1>6
  <2> QED BY <2>1
<1> QED BY <1>1, <1>2, <1>3, <1>4, <1>5, <1>6 DEF n

LEMMA AppendWhole ==
    ASSUME NEW m, Whole(m), NEW x \in Message,
           x.role = "tool" => \E id \in Nat : x.ids = {id},
           NEW c \in Nat, \A id \in x.ids : id <= c
    PROVE  Whole(Append(m, x))
<1> DEFINE n == Append(m, x)
<1>0. m \in Seq(Message) /\ Opened(m) /\ OneAnswerEach(m) /\ Numbered(m)
  BY DEF Whole
<1>1. /\ n \in Seq(Message) /\ n # <<>>
      /\ n[Len(m) + 1] = x
      /\ \A i \in DOMAIN n : i \in DOMAIN m \/ i = Len(m) + 1
      /\ \A i \in DOMAIN m : i \in DOMAIN n /\ n[i] = m[i]
  BY <1>0, Appended
<1> HIDE DEF n
<1>2. Opened(n)
  <2>1. 1 \in DOMAIN m
    BY <1>0 DEF Opened
  <2> QED BY <1>0, <1>1, <2>1 DEF Opened
<1>3. OneAnswerEach(n)
  <2> SUFFICES ASSUME NEW j \in Of(n, "tool") PROVE \E id \in Nat : n[j].ids = {id}
    BY DEF OneAnswerEach
  <2>1. j \in DOMAIN n /\ n[j].role = "tool"
    BY DEF Of
  <2>2. CASE j \in DOMAIN m
    <3>1. j \in Of(m, "tool") /\ n[j] = m[j]
      BY <1>1, <2>1, <2>2 DEF Of
    <3> QED BY <1>0, <3>1 DEF OneAnswerEach
  <2>3. CASE j = Len(m) + 1
    BY <1>1, <2>1, <2>3
  <2> QED BY <1>1, <2>1, <2>2, <2>3
<1>4. Numbered(n)
  <2>1. PICK b \in Nat : \A i \in DOMAIN m : \A id \in m[i].ids : id <= b
    BY <1>0 DEF Numbered
  <2>2. \A i \in DOMAIN n : n[i].ids \subseteq Nat
    <3>1. \A i \in DOMAIN n : n[i] \in Message
      BY <1>1
    <3> QED BY <3>1 DEF Message
  <2>3. ASSUME NEW i \in DOMAIN n, NEW id \in n[i].ids PROVE id <= b + c
    <3>0. id \in Nat
      BY <2>2
    <3>1. CASE i \in DOMAIN m
      BY <1>1, <2>1, <3>0, <3>1
    <3>2. CASE i = Len(m) + 1
      BY <1>1, <3>0, <3>2
    <3> QED BY <1>1, <3>1, <3>2
  <2>4. b + c \in Nat
    OBVIOUS
  <2> QED BY <2>3, <2>4 DEF Numbered
<1> QED BY <1>1, <1>2, <1>3, <1>4 DEF Whole, n

\* A message that neither calls nor answers.
LEMMA AppendOther ==
    ASSUME NEW m \in Seq(Message), NEW owed, Answered(m, owed),
           NEW x \in Message, x.role # "tool", x.ids = {}
    PROVE  Answered(Append(m, x), owed)
<1> DEFINE n == Append(m, x)
<1>1. /\ n[Len(m) + 1] = x
      /\ \A i \in DOMAIN n : i \in DOMAIN m \/ i = Len(m) + 1
      /\ \A i \in DOMAIN m : i \in DOMAIN n /\ n[i] = m[i]
  BY Appended
<1> HIDE DEF n
<1>2. \A i : i \in Of(n, "tool") <=> i \in Of(m, "tool")
  BY <1>1 DEF Of
<1>3. \A i \in Of(m, "tool") : n[i] = m[i]
  BY <1>1 DEF Of
<1>4. \A i \in Of(n, "assistant") : \A id \in n[i].ids : i \in Of(m, "assistant") /\ n[i] = m[i]
  BY <1>1 DEF Of
<1>5. ASSUME NEW i \in Of(n, "assistant"), NEW id \in n[i].ids
      PROVE  /\ id \in owed => \A j \in Of(n, "tool") : id \notin n[j].ids
             /\ id \notin owed => \E j \in Of(n, "tool") :
                    /\ i < j /\ id \in n[j].ids
                    /\ \A k \in Of(n, "tool") : id \in n[k].ids => k = j
  <2>1. i \in Of(m, "assistant") /\ id \in m[i].ids
    BY <1>4
  <2>2. /\ id \in owed => \A j \in Of(m, "tool") : id \notin m[j].ids
        /\ id \notin owed => \E j \in Of(m, "tool") :
               /\ i < j /\ id \in m[j].ids
               /\ \A k \in Of(m, "tool") : id \in m[k].ids => k = j
    BY <2>1 DEF Answered
  <2> QED BY <2>2, <1>2, <1>3
<1> QED BY <1>5 DEF Answered, n

\* A message with new calls, which are owed their answers from now on.
LEMMA AppendCall ==
    ASSUME NEW m \in Seq(Message), Answered(m, {}),
           NEW x \in Message, x.role = "assistant",
           \A i \in DOMAIN m : m[i].ids \intersect x.ids = {}
    PROVE  Answered(Append(m, x), x.ids)
<1> DEFINE n == Append(m, x)
<1>1. /\ n[Len(m) + 1] = x
      /\ \A i \in DOMAIN n : i \in DOMAIN m \/ i = Len(m) + 1
      /\ \A i \in DOMAIN m : i \in DOMAIN n /\ n[i] = m[i]
  BY Appended
<1> HIDE DEF n
<1>2. \A i : i \in Of(n, "tool") <=> i \in Of(m, "tool")
  BY <1>1 DEF Of
<1>3. \A i \in Of(m, "tool") : n[i] = m[i] /\ i \in DOMAIN m
  BY <1>1 DEF Of
<1>4. ASSUME NEW i \in Of(n, "assistant"), NEW id \in n[i].ids
      PROVE  /\ id \in x.ids => \A j \in Of(n, "tool") : id \notin n[j].ids
             /\ id \notin x.ids => \E j \in Of(n, "tool") :
                    /\ i < j /\ id \in n[j].ids
                    /\ \A k \in Of(n, "tool") : id \in n[k].ids => k = j
  <2>1. CASE id \in x.ids
    BY <1>2, <1>3, <2>1
  <2>2. CASE id \notin x.ids
    <3>1. i \in Of(m, "assistant") /\ id \in m[i].ids
      BY <1>1, <2>2 DEF Of
    <3>2. \E j \in Of(m, "tool") :
             /\ i < j /\ id \in m[j].ids
             /\ \A k \in Of(m, "tool") : id \in m[k].ids => k = j
      BY <3>1 DEF Answered
    <3> QED BY <3>2, <1>2, <1>3, <2>2
  <2> QED BY <2>1, <2>2
<1> QED BY <1>4 DEF Answered, n

\* The answer of one call, which is owed nothing from now on.
LEMMA AppendAnswer ==
    ASSUME NEW m \in Seq(Message), NEW owed, Answered(m, owed), NEW id \in owed,
           NEW x \in Message, x.role = "tool", x.ids = {id}
    PROVE  Answered(Append(m, x), owed \ {id})
<1> DEFINE n == Append(m, x)
<1>1. /\ Len(m) + 1 \in DOMAIN n /\ n[Len(m) + 1] = x
      /\ \A i \in DOMAIN n : i \in DOMAIN m \/ i = Len(m) + 1
      /\ \A i \in DOMAIN m : i \in DOMAIN n /\ n[i] = m[i] /\ i < Len(m) + 1
  BY Appended
<1> HIDE DEF n
<1>2. \A i : i \in Of(n, "tool") <=> i \in Of(m, "tool") \/ i = Len(m) + 1
  BY <1>1 DEF Of
<1>3. \A i \in Of(m, "tool") : n[i] = m[i]
  BY <1>1 DEF Of
<1>4. \A i \in Of(n, "assistant") :
         i \in Of(m, "assistant") /\ n[i] = m[i] /\ i < Len(m) + 1
  BY <1>1 DEF Of
<1>5. ASSUME NEW i \in Of(n, "assistant"), NEW c \in n[i].ids
      PROVE  /\ c \in owed \ {id} => \A j \in Of(n, "tool") : c \notin n[j].ids
             /\ c \notin owed \ {id} => \E j \in Of(n, "tool") :
                    /\ i < j /\ c \in n[j].ids
                    /\ \A k \in Of(n, "tool") : c \in n[k].ids => k = j
  <2>1. i \in Of(m, "assistant") /\ c \in m[i].ids /\ i < Len(m) + 1
    BY <1>4
  <2>2. /\ c \in owed => \A j \in Of(m, "tool") : c \notin m[j].ids
        /\ c \notin owed => \E j \in Of(m, "tool") :
               /\ i < j /\ c \in m[j].ids
               /\ \A k \in Of(m, "tool") : c \in m[k].ids => k = j
    BY <2>1 DEF Answered
  <2>3. CASE c = id
    <3>1. Len(m) + 1 \in Of(n, "tool") /\ c \in n[Len(m) + 1].ids
      BY <1>1, <1>2, <2>3
    <3>2. ASSUME NEW k \in Of(n, "tool"), c \in n[k].ids PROVE k = Len(m) + 1
      BY <1>2, <1>3, <2>2, <2>3, <3>2
    <3> QED BY <2>1, <2>3, <3>1, <3>2
  <2>4. CASE c # id
    <3>1. c \notin n[Len(m) + 1].ids
      BY <1>1, <2>4
    <3> QED BY <1>2, <1>3, <2>2, <2>4, <3>1
  <2> QED BY <2>3, <2>4
<1> QED BY <1>5 DEF Answered, n

-----------------------------------------------------------------------------
(***************************************************************************)
(* The transcript stays whole, its calls answered or owed their answers.   *)
(***************************************************************************)
Fit(m, owed) == Whole(m) /\ Answered(m, owed)

LEMMA FitAppendOther ==
    ASSUME NEW m, NEW owed, Fit(m, owed), NEW role \in {"system", "user", "assistant"}
    PROVE  Fit(Append(m, Msg(role, {}, 1)), owed)
<1>1. /\ Msg(role, {}, 1) \in Message /\ Msg(role, {}, 1).role # "tool"
      /\ Msg(role, {}, 1).ids = {}
  <2>1. {} \in SUBSET Nat /\ 1 \in Nat /\ role \in {"system", "user", "assistant", "tool"}
    OBVIOUS
  <2> QED BY <2>1, MessageType
<1>2. m \in Seq(Message) /\ Whole(m) /\ Answered(m, owed)
  BY DEF Fit, Whole
<1>3. \A id \in Msg(role, {}, 1).ids : id <= 0
  BY <1>1
<1>4. Whole(Append(m, Msg(role, {}, 1)))
  BY <1>1, <1>2, <1>3, AppendWhole
<1>5. Answered(Append(m, Msg(role, {}, 1)), owed)
  BY <1>1, <1>2, AppendOther
<1> QED BY <1>4, <1>5 DEF Fit

\* After a round: the calls of the model, a continuation, or nothing.
LEMMA FoldFit ==
    ASSUME IInv, Fold
    PROVE  Fit(working', IF pc' = "tools" THEN Numbers(todo) ELSE {})
<1>1. Fit(working, {})
  <2>1. pc \notin Closed /\ Owed = {}
    BY DEF Fold, Owed, Closed, Over, Executing
  <2> QED BY <2>1 DEF IInv, Rest, Prompt, Fit
<1>2. CASE working' = working /\ pc' # "tools"
  BY <1>1, <1>2
<1>3. CASE /\ working' = Append(working, Msg("assistant", {todo[i].id : i \in DOMAIN todo}, 1))
           /\ pc' = "tools"
  <2> DEFINE x == Msg("assistant", Numbers(todo), 1)
  <2>1. todo \in Seq(Call) /\ working \in Seq(Message)
    BY DEF IInv, Types, TypeOK, Call
  <2>2. x \in Message /\ x.role = "assistant" /\ x.ids = Numbers(todo)
    BY <2>1, NumbersAreNumbers, MessageType
  <2>3. working' = Append(working, x)
    BY <1>3 DEF Numbers
  <2> HIDE DEF x
  <2>4. \A i \in DOMAIN working : working[i].ids \intersect Numbers(todo) = {}
    BY DEF IInv, Rest, Calls, Fold
  <2>5. PICK b \in Nat : \A i \in DOMAIN todo : todo[i].id <= b
    BY DEF IInv, Rest, Calls
  <2>6. \A id \in x.ids : id <= b
    BY <2>2, <2>5 DEF Numbers
  <2>7. Whole(working')
    BY <1>1, <2>2, <2>3, <2>6, AppendWhole DEF Fit
  <2>8. Answered(working', Numbers(todo))
    BY <1>1, <2>1, <2>2, <2>3, <2>4, AppendCall DEF Fit
  <2> QED BY <1>3, <2>7, <2>8 DEF Fit
<1>4. CASE /\ working' = working \o <<Msg("assistant", {}, 1), Msg("user", {}, 1)>>
           /\ pc' = "head"
  <2> DEFINE x == Msg("assistant", {}, 1)
             y == Msg("user", {}, 1)
  <2>1. x \in Message /\ y \in Message
    <3>1. {} \in SUBSET Nat /\ 1 \in Nat
      OBVIOUS
    <3> QED BY <3>1, MessageType
  <2>2. Fit(Append(Append(working, x), y), {})
    BY <1>1, FitAppendOther
  <2> HIDE DEF x, y
  <2>3. working \in Seq(Message)
    BY DEF IInv, Types, TypeOK
  <2>4. working \o <<x, y>> = Append(Append(working, x), y)
    BY <2>1, <2>3
  <2> QED BY <1>4, <2>2, <2>4 DEF x, y
<1> QED BY <1>2, <1>3, <1>4 DEF Fold, Stop

\* The answer of the call under way: one less is owed.
LEMMA AnswerFit ==
    ASSUME IInv, pc \in Executing, NEW cost \in Nat, ToolMessage(cost)
    PROVE  Fit(working', Numbers(Tail(todo)))
<1>1. /\ todo # <<>> /\ todo \in Seq(Call) /\ working \in Seq(Message)
      /\ Head(todo).id \in Nat
  BY UnderWay
<1>2. Whole(working) /\ Answered(working, Numbers(todo))
  <2>1. pc \notin Closed /\ Owed = Numbers(todo)
    BY DEF Owed, Closed, Over, Executing
  <2> QED BY <2>1 DEF IInv, Rest, Prompt
<1> DEFINE h == Head(todo).id
           x == Msg("tool", {h}, cost)
<1>3. x \in Message /\ x.role = "tool" /\ x.ids = {h}
  <2>1. {h} \in SUBSET Nat
    BY <1>1
  <2> QED BY <2>1, MessageType
<1>4. working' = Append(working, x)
  BY DEF ToolMessage
<1>5. /\ Len(todo) \in Nat /\ DOMAIN todo = 1..Len(todo) /\ 1 \in DOMAIN todo
      /\ DOMAIN Tail(todo) = 1..Len(todo) - 1
      /\ \A i \in DOMAIN Tail(todo) : Tail(todo)[i] = todo[i + 1]
      /\ h = todo[1].id
  BY <1>1, HeadTailProperties
<1>6. \A i \in DOMAIN todo, j \in DOMAIN todo : todo[i].id = todo[j].id => i = j
  BY DEF IInv, Rest, Calls
<1> HIDE DEF x, h
<1>7. h \in Numbers(todo)
  BY <1>5 DEF Numbers
<1>8. Numbers(Tail(todo)) = Numbers(todo) \ {h}
  <2>1. ASSUME NEW i \in DOMAIN Tail(todo)
        PROVE  Tail(todo)[i].id \in Numbers(todo) \ {h}
    <3>1. i + 1 \in DOMAIN todo /\ i + 1 # 1
      BY <1>5
    <3>2. todo[i + 1].id # h
      BY <1>5, <1>6, <3>1
    <3> QED BY <1>5, <3>1, <3>2 DEF Numbers
  <2>2. ASSUME NEW i \in DOMAIN todo, todo[i].id # h
        PROVE  todo[i].id \in Numbers(Tail(todo))
    <3>1. i # 1
      BY <1>5, <2>2
    <3>2. i - 1 \in DOMAIN Tail(todo) /\ (i - 1) + 1 = i
      BY <1>5, <3>1
    <3> QED BY <1>5, <3>2 DEF Numbers
  <2>3. Numbers(Tail(todo)) \subseteq Numbers(todo) \ {h}
    BY <2>1 DEF Numbers
  <2>4. Numbers(todo) \ {h} \subseteq Numbers(Tail(todo))
    BY <2>2 DEF Numbers
  <2> QED BY <2>3, <2>4
<1>9. Answered(working', Numbers(todo) \ {h})
  BY <1>1, <1>2, <1>3, <1>4, <1>7, AppendAnswer
<1>10. Whole(working')
  <2>1. h \in Nat /\ \A id \in x.ids : id <= h
    BY <1>1, <1>3 DEF h
  <2> QED BY <1>2, <1>3, <1>4, <2>1, AppendWhole
<1> QED BY <1>8, <1>9, <1>10 DEF Fit

\* A step that changes nothing of it: the round goes on, or nothing was owed.
LEMMA PromptStays ==
    ASSUME IInv, UNCHANGED working, pc' \notin Closed => pc \notin Closed /\ Owed' = Owed
    PROVE  Prompt'
<1>1. Whole(working) /\ (pc \notin Closed => Answered(working, Owed))
  BY DEF IInv, Rest, Prompt
<1> QED BY <1>1 DEF Prompt

LEMMA PromptKept ==
    ASSUME IInv, Next
    PROVE  Prompt'
<1> USE DEF Closed, Over, Executing
<1>0. pc \notin Over
  BY DEF Next
<1>1. CASE Aside \/ RowMove \/ SlotMove
  <2>1. UNCHANGED <<pc, todo, working>>
    BY <1>1, AsideTyped, RowMoveCore, SlotMoveCore DEF core
  <2> QED BY <2>1, PromptStays DEF Owed
<1>2. CASE RoundMove
  <2>0. todo' = todo
    BY <1>2, RoundMoveCore
  <2>1. CASE Admit
    <3>1. pc' \in {"acquire", "failed"} /\ Owed' = {}
      BY <2>1 DEF Admit, Owed
    <3> QED BY <2>1, <3>1, AdmitWhole DEF Prompt
  <2>2. CASE Fold
    <3>1. Fit(working', IF pc' = "tools" THEN Numbers(todo) ELSE {})
      BY <2>2, FoldFit
    <3>2. pc' \in {"end", "tools", "head"}
      BY <2>2 DEF Fold, Stop
    <3>3. Owed' = IF pc' = "tools" THEN Numbers(todo) ELSE {}
      BY <2>0, <3>2 DEF Owed
    <3> QED BY <3>1, <3>3 DEF Prompt, Fit
  <2>3. CASE RoundOver
    <3>1. Owed = {} /\ Owed' = {}
      <4>1. Numbers(todo) = {}
        <5>1. DOMAIN todo = {}
          BY <2>3 DEF RoundOver
        <5> QED BY <5>1 DEF Numbers
      <4> QED BY <2>3, <4>1 DEF Owed, RoundOver
    <3> QED BY <2>3, <3>1, PromptStays DEF RoundOver
  <2>4. CASE LoopHead \/ BreakerRefuses \/ NoTimeForSlot \/ Finish
    <3>1. /\ UNCHANGED working
          /\ pc' \in Closed \/ (pc = "head" /\ pc' = "admit")
      BY <2>4 DEF LoopHead, BreakerRefuses, NoTimeForSlot, Finish, Stop
    <3> QED BY <3>1, PromptStays DEF Owed
  <2>5. CASE Deadline
    <3>1. UNCHANGED <<pc, working>>
      BY <2>5 DEF Deadline
    <3> QED BY <2>0, <3>1, PromptStays DEF Owed
  <2> QED BY <1>2, <2>1, <2>2, <2>3, <2>4, <2>5 DEF RoundMove
<1>3. CASE StreamMove
  <2>1. CASE Drain
    <3>1. /\ pc = "stream" /\ pc' = "stream"
          /\ working' = Append(working, Msg("user", {}, 1))
      BY <2>1 DEF Drain
    <3>2. Owed = {} /\ Owed' = {}
      BY <3>1 DEF Owed
    <3>3. Fit(working, {})
      BY <3>1, <3>2 DEF IInv, Rest, Prompt, Fit
    <3>4. Fit(working', {})
      BY <3>1, <3>3, FitAppendOther
    <3> QED BY <3>2, <3>4 DEF Prompt, Fit
  <2>2. CASE Disconnect \/ ProviderFails \/ StreamLate
    <3>1. UNCHANGED working /\ pc' \in Closed
      BY <2>2 DEF Disconnect, ProviderFails, StreamLate, Stop
    <3> QED BY <3>1, PromptStays
  <2>3. CASE Dispatch \/ SeePause \/ SeeCancel \/ RetryCall
    <3>1. /\ UNCHANGED working /\ pc \in {"acquire", "stream", "paused"}
          /\ pc' \in {"stream", "paused", "fold", "end"}
      BY <2>3 DEF Dispatch, SeePause, SeeCancel, RetryCall, Stop
    <3>2. pc \notin Closed /\ Owed = {} /\ Owed' = {}
      BY <3>1 DEF Owed
    <3> QED BY <3>1, <3>2, PromptStays
  <2>4. ASSUME NEW reason, NEW batch, NEW n, Answer(reason, batch, n)
        PROVE  Prompt'
    <3>1. UNCHANGED working /\ pc = "stream" /\ pc' = "fold"
      BY <2>4 DEF Answer
    <3>2. pc \notin Closed /\ Owed = {} /\ Owed' = {}
      BY <3>1 DEF Owed
    <3> QED BY <3>1, <3>2, PromptStays
  <2> QED BY <1>3, <2>1, <2>2, <2>3, <2>4 DEF StreamMove
<1>4. CASE ToolMove
  <2>1. pc \in {"execute", "ask", "register", "wait", "again", "tools"}
    BY <1>4, ToolMoveCore
  <2>2. CASE /\ UNCHANGED <<working, todo>>
             /\ pc' \in {"tools", "end", "aborted"} \union Executing
    <3>1. pc' \notin Closed => pc \notin Closed /\ Owed' = Owed
      BY <2>1, <2>2 DEF Owed
    <3> QED BY <2>2, <3>1, PromptStays
  <2>3. ASSUME RespondsNow, NEW cost \in Nat, ToolMessage(cost)
        PROVE  Prompt'
    <3>1. todo' = Tail(todo) /\ pc \in Executing /\ pc' \in {"tools", "end"}
      BY <2>3 DEF RespondsNow
    <3>2. Fit(working', Numbers(Tail(todo)))
      BY <2>3, <3>1, AnswerFit
    <3>3. pc' \notin Closed => Owed' = Numbers(Tail(todo))
      BY <3>1 DEF Owed
    <3> QED BY <3>2, <3>3 DEF Prompt, Fit
  <2> QED BY <1>4, <2>2, <2>3, ToolMoveAnswers
<1> QED BY <1>1, <1>2, <1>3, <1>4, NextMoves

-----------------------------------------------------------------------------
(***************************************************************************)
(* The theorems.                                                           *)
(***************************************************************************)
LEMMA InitialTranscript ==
    ASSUME Init
    PROVE  Prompt
<1> DEFINE s == Msg("system", {}, 1)
           u == Msg("user", {}, 1)
           a == Msg("assistant", {}, 1)
<1>1. /\ s \in Message /\ u \in Message /\ a \in Message
      /\ s.ids = {} /\ u.ids = {} /\ a.ids = {}
      /\ s.role = "system" /\ u.role = "user" /\ a.role = "assistant"
  <2>1. {} \in SUBSET Nat /\ 1 \in Nat
    OBVIOUS
  <2> QED BY <2>1, MessageType
<1>2. working = <<s, u, a, u>>
  BY DEF Init
<1> HIDE DEF s, u, a
<1>3. /\ working \in Seq(Message) /\ DOMAIN working = 1..4
      /\ working[1] = s /\ working[2] = u /\ working[3] = a /\ working[4] = u
  BY <1>1, <1>2
<1>4. \A i \in DOMAIN working : working[i].ids = {} /\ working[i].role # "tool"
  <2>1. \A i \in 1..4 : i = 1 \/ i = 2 \/ i = 3 \/ i = 4
    OBVIOUS
  <2> QED BY <1>1, <1>3, <2>1
<1>5. Opened(working)
  BY <1>1, <1>3 DEF Opened
<1>6. OneAnswerEach(working)
  BY <1>4 DEF OneAnswerEach, Of
<1>7. Numbered(working)
  <2>1. 0 \in Nat /\ \A i \in DOMAIN working : \A id \in working[i].ids : id <= 0
    BY <1>4
  <2> QED BY <2>1 DEF Numbered
<1>8. Answered(working, Owed)
  BY <1>4 DEF Answered, Of
<1> QED BY <1>3, <1>5, <1>6, <1>7, <1>8 DEF Prompt, Whole

LEMMA InitialTypes ==
    ASSUME Init
    PROVE  Types
<1>1. working \in Seq(Message)
  BY InitialTranscript DEF Prompt, Whole
<1>2. Base
  BY Bases
<1>3. /\ pc \in PCs
      /\ finish \in {"stop", "tool_calls", "length", "cancelled", "budget"}
      /\ todo \in Seq([id : Nat, args : Args])
      /\ cont \in 0..MaxCont
      /\ guard \in [steps : Nat, tools : Nat, tokens : Nat, late : BOOLEAN]
      /\ used \subseteq {ToolOf[a] : a \in Args}
  BY <1>2 DEF Init, Base, PCs
<1>4. /\ rows \in Seq([args : Args, status : {"pending", "approved", "rejected"},
                       expired : BOOLEAN, committed : BOOLEAN])
      /\ waiter \in [row : Nat, decision : {"none", "pending", "approved", "rejected",
                                            "cancelled", "timed_out"}]
      /\ ctl \in [cancel : BOOLEAN, paused : BOOLEAN, notes : Nat]
  BY DEF Init, NoWaiter
<1>5. /\ desk \subseteq [row : Nat, decision : {"approved", "rejected"}]
      /\ bus \subseteq [row : Nat, decision : {"approved", "rejected", "cancelled"}]
      /\ breaker \in [failures : 0..MaxFailures, open : BOOLEAN]
      /\ free \in 0..Slots /\ others \in 0..Slots
      /\ sent \in Nat /\ ran \in Seq(Args)
  BY <1>2 DEF Init, Base
<1> QED BY <1>1, <1>3, <1>4, <1>5 DEF Types, TypeOK

LEMMA InitInvariant ==
    ASSUME Init
    PROVE  IInv
<1>1. Types /\ Prompt
  BY InitialTypes, InitialTranscript
<1>2. Slotted
  BY Bases DEF Init, Slotted, Acquired, Base
<1>3. Known /\ Granted /\ ConsentedOnly
  <2>1. DOMAIN rows = {} /\ DOMAIN ran = {} /\ desk = {}
    BY DEF Init
  <2> QED BY <2>1 DEF Known, Granted, ConsentedOnly
<1>4. Paid
  <2>1. /\ sent = 0 /\ guard.steps = 0 /\ guard.tools = 0 /\ Len(ran) = 0 /\ pc = "head"
    BY DEF Init
  <2> QED BY <2>1, Bases DEF Paid, Executing, Base
<1>5. Within
  <2>1. Ran = {} /\ used = {}
    <3>1. DOMAIN ran = {}
      BY DEF Init
    <3> QED BY <3>1 DEF Init, Ran
  <2>2. IsFiniteSet({}) /\ Cardinality({}) = 0
    BY FS_EmptySet
  <2>3. pc \notin Executing
    BY DEF Init, Executing
  <2> QED BY <2>1, <2>2, <2>3, Bases DEF Within, Base
<1>6. Calls
  <2>1. DOMAIN todo = {} /\ pc = "head"
    BY DEF Init
  <2>2. 0 \in Nat /\ \A i \in DOMAIN todo : todo[i].id <= 0
    BY <2>1
  <2> QED BY <2>1, <2>2 DEF Calls, Executing
<1> QED BY <1>1, <1>2, <1>3, <1>4, <1>5, <1>6 DEF IInv, Rest

LEMMA StepInvariant ==
    ASSUME IInv, [Next]_vars
    PROVE  IInv'
<1>1. CASE Next
  <2>1. Types' /\ Slotted' /\ Known' /\ Granted' /\ ConsentedOnly'
    BY <1>1, TypesKept, SlottedKept, ConsentKept
  <2>2. Paid' /\ Within' /\ Calls' /\ Prompt'
    BY <1>1, PaidKept, WithinKept, CallsKept, PromptKept
  <2> QED BY <2>1, <2>2 DEF IInv, Rest
<1>2. CASE UNCHANGED vars
  <2>1. /\ UNCHANGED <<pc, finish, working, todo, cont, guard, used, waiter, ran, sent>>
        /\ UNCHANGED <<ctl, desk, bus, disabled, rows, agreed, breaker, free, others>>
    BY <1>2 DEF vars, control, shared
  <2>2. Types'
    BY <2>1 DEF IInv, Types, TypeOK
  <2>3. Slotted' /\ Known' /\ Granted' /\ ConsentedOnly'
    BY <2>1 DEF IInv, Rest, Slotted, Acquired, Known, Granted, ConsentedOnly
  <2>4. Paid'
    BY <2>1 DEF IInv, Rest, Paid
  <2>5. Within'
    BY <2>1 DEF IInv, Rest, Within, Ran
  <2>6. Calls'
    BY <2>1 DEF IInv, Rest, Calls
  <2>7. Prompt'
    BY <2>1, PromptStays DEF Owed
  <2> QED BY <2>2, <2>3, <2>4, <2>5, <2>6, <2>7 DEF IInv, Rest
<1> QED BY <1>1, <1>2

\* One answer to each call, counted.
LEMMA AnsweredOnce ==
    ASSUME Answered(working, {})
    PROVE  \A i \in Of(working, "assistant") : \A id \in working[i].ids :
              Cardinality({j \in Of(working, "tool") : id \in working[j].ids}) = 1
<1> SUFFICES ASSUME NEW i \in Of(working, "assistant"), NEW id \in working[i].ids
             PROVE  Cardinality({j \in Of(working, "tool") : id \in working[j].ids}) = 1
  OBVIOUS
<1>1. PICK j \in Of(working, "tool") :
         /\ id \in working[j].ids
         /\ \A k \in Of(working, "tool") : id \in working[k].ids => k = j
  BY DEF Answered
<1>2. {k \in Of(working, "tool") : id \in working[k].ids} = {j}
  BY <1>1
<1> QED BY <1>2, FS_Singleton

(***************************************************************************)
(* The inductive invariant holds of every turn: with any tools, batches,   *)
(* budgets and windows, and however requests, signals and faults mix.      *)
(***************************************************************************)
THEOREM ToolLoopInvariant == Spec => []IInv
<1>1. Init => IInv
  BY InitInvariant
<1>2. IInv /\ [Next]_vars => IInv'
  BY StepInvariant
<1> QED BY <1>1, <1>2, PTL DEF Spec

(***************************************************************************)
(* Type correctness of a turn (agents/runtime/native_runtime.py): no       *)
(* counter, slot, row or message leaves its range.                         *)
(***************************************************************************)
THEOREM TypeCorrect == Spec => []TypeOK
<1>1. IInv => TypeOK
  BY DEF IInv, Types
<1> QED BY <1>1, ToolLoopInvariant, PTL

(***************************************************************************)
(* Whatever decisions race, expire or get lost, ToolGateway runs a         *)
(* dangerous tool only with arguments that some person has approved.       *)
(***************************************************************************)
THEOREM DangerousToolsConsented == Spec => []ConsentedOnly
<1>1. IInv => ConsentedOnly
  BY DEF IInv, Rest
<1> QED BY <1>1, ToolLoopInvariant, PTL

(***************************************************************************)
(* BudgetGuard bounds every turn: model calls with their transport         *)
(* retries, tool executions, and the different tools of the run.           *)
(***************************************************************************)
THEOREM BudgetKept == Spec => []BudgetHolds
<1>1. IInv => BudgetHolds
  BY DEF IInv, Rest, Paid, Within, Ran, BudgetHolds
<1> QED BY <1>1, ToolLoopInvariant, PTL

(***************************************************************************)
(* The model slots of the process (the limiter around the provider call):  *)
(* each is free, held by another turn, or held by this one, which gives it *)
(* back once on every way out of the provider call.                        *)
(***************************************************************************)
THEOREM SlotsAccounted == Spec => []Slotted
<1>1. IInv => Slotted
  BY DEF IInv, Rest
<1> QED BY <1>1, ToolLoopInvariant, PTL

(***************************************************************************)
(* Every prompt sent to the provider answers each call in it exactly once, *)
(* through refusals, rejections, mid-run compaction and the history trim.  *)
(***************************************************************************)
THEOREM PromptsComplete == Spec => []EveryCallAnswered
<1>1. ASSUME IInv PROVE EveryCallAnswered
  <2> SUFFICES ASSUME pc \in {"acquire", "stream"}
               PROVE  Answered(working, {})
    BY AnsweredOnce DEF EveryCallAnswered
  <2>1. pc \notin Closed /\ Owed = {}
    BY DEF Closed, Over, Owed, Executing
  <2> QED BY <1>1, <2>1 DEF IInv, Rest, Prompt
<1>2. IInv => EveryCallAnswered
  BY <1>1
<1> QED BY <1>2, ToolLoopInvariant, PTL
=============================================================================
