-------------------------- MODULE AdminQueueProofs --------------------------
(***************************************************************************)
(* Theorems about AdminQueue, for queues and walks of any length, any      *)
(* limits and any number of changes.                                       *)
(*                                                                         *)
(* A walk by offset is right as long as the rows it has passed are those   *)
(* before its offset.  Each row that comes in pushes one row at most back  *)
(* over that edge, to be shown again, and each that leaves draws one at    *)
(* most across it, unseen.  The first lemmas say so of the ranks in a set  *)
(* of numbers, and the invariants count the rows on the wrong side.        *)
(***************************************************************************)
EXTENDS AdminQueue, TLAPS, FiniteSetTheorems

-----------------------------------------------------------------------------
(* Ranks in a finite set of numbers, the highest number first.              *)

RankIn(S, i)    == Cardinality({j \in S : j >= i})
BeyondIn(S, k)  == {i \in S : RankIn(S, i) > k}
WithinIn(S, k)  == {i \in S : RankIn(S, i) <= k}

LEMMA RankType ==
    ASSUME NEW S, S \subseteq Nat, IsFiniteSet(S), NEW i \in Nat
    PROVE  RankIn(S, i) \in Nat /\ RankIn(S, i) <= Cardinality(S) /\ Cardinality(S) \in Nat
<1> DEFINE above == {j \in S : j >= i}
<1>1. above \in SUBSET S
  OBVIOUS
<1> HIDE DEF above
<1>2. IsFiniteSet(above) /\ Cardinality(above) <= Cardinality(S)
  BY <1>1, FS_Subset
<1>3. Cardinality(above) \in Nat /\ Cardinality(S) \in Nat
  BY <1>2, FS_CardinalityType
<1> QED
  BY <1>2, <1>3 DEF RankIn, above

\* A number that comes into the set raises the rank of those below it by one.
LEMMA RankAdd ==
    ASSUME NEW S, S \subseteq Nat, IsFiniteSet(S), NEW x \in Nat, x \notin S, NEW i \in Nat
    PROVE  RankIn(S \cup {x}, i) = IF x >= i THEN RankIn(S, i) + 1 ELSE RankIn(S, i)
<1> DEFINE above == {j \in S : j >= i}
<1>1. {j \in S \cup {x} : j >= i} = IF x >= i THEN above \cup {x} ELSE above
  OBVIOUS
<1>2. above \in SUBSET S /\ x \notin above
  OBVIOUS
<1> HIDE DEF above
<1>3. IsFiniteSet(above)
  BY <1>2, FS_Subset
<1>4. Cardinality(above \cup {x}) = Cardinality(above) + 1
  BY <1>2, <1>3, FS_AddElement
<1> QED
  BY <1>1, <1>4 DEF RankIn, above

LEMMA RankDecreases ==
    ASSUME NEW S, S \subseteq Nat, IsFiniteSet(S), NEW i \in S, NEW j \in Nat, i < j
    PROVE  RankIn(S, j) < RankIn(S, i)
<1> DEFINE high == {n \in S : n >= j}
           low  == {n \in S : n >= i}
<1>0. \A n \in S : n \in Nat /\ (n >= j => n >= i)
  OBVIOUS
<1>1. high \in SUBSET low /\ i \in low /\ i \notin high /\ low \in SUBSET S
  <2>1. i \in Nat /\ i >= i /\ ~(i >= j)
    OBVIOUS
  <2> QED
    BY <1>0, <2>1
<1> HIDE DEF high, low
<1>2. IsFiniteSet(low) /\ high # low
  BY <1>1, FS_Subset
<1>3. IsFiniteSet(high) /\ Cardinality(high) <= Cardinality(low)
      /\ Cardinality(high) # Cardinality(low)
  BY <1>1, <1>2, FS_Subset
<1>4. Cardinality(high) \in Nat /\ Cardinality(low) \in Nat
  BY <1>2, <1>3, FS_CardinalityType
<1>5. Cardinality(high) < Cardinality(low)
  BY <1>3, <1>4
<1> QED
  BY <1>5 DEF RankIn, high, low

LEMMA OneOfEachRank ==
    ASSUME NEW S, S \subseteq Nat, IsFiniteSet(S), NEW i \in S, NEW j \in S,
           RankIn(S, i) = RankIn(S, j)
    PROVE  i = j
<1>1. i \in Nat /\ j \in Nat /\ RankIn(S, i) \in Nat /\ RankIn(S, j) \in Nat
  BY RankType
<1>2. ASSUME i < j PROVE FALSE
  <2>1. RankIn(S, j) < RankIn(S, i)
    BY <1>1, <1>2, RankDecreases
  <2> QED
    BY <1>1, <2>1
<1>3. ASSUME j < i PROVE FALSE
  <2>1. RankIn(S, i) < RankIn(S, j)
    BY <1>1, <1>3, RankDecreases
  <2> QED
    BY <1>1, <2>1
<1> QED
  BY <1>1, <1>2, <1>3

\* A number that comes in pushes one number at most beyond rank k, itself or
\* the one that had rank k; and no number that is there back to it.
LEMMA OneIsPushedBeyond ==
    ASSUME NEW S, S \subseteq Nat, IsFiniteSet(S), NEW x \in Nat, x \notin S, NEW k \in Nat
    PROVE  /\ \E z \in Nat : BeyondIn(S \cup {x}, k) \subseteq BeyondIn(S, k) \cup {z}
           /\ WithinIn(S \cup {x}, k) \cap S \subseteq WithinIn(S, k)
<1>1. ASSUME NEW i \in Nat
      PROVE  /\ RankIn(S, i) \in Nat
             /\ RankIn(S \cup {x}, i) = IF x >= i THEN RankIn(S, i) + 1 ELSE RankIn(S, i)
  <2>1. RankIn(S, i) \in Nat
    BY RankType
  <2>2. RankIn(S \cup {x}, i) = IF x >= i THEN RankIn(S, i) + 1 ELSE RankIn(S, i)
    BY RankAdd
  <2> QED
    BY <2>1, <2>2
<1>2. ASSUME NEW i \in S, RankIn(S \cup {x}, i) <= k PROVE RankIn(S, i) <= k
  BY <1>1, <1>2
<1>3. WithinIn(S \cup {x}, k) \cap S \subseteq WithinIn(S, k)
  BY <1>2 DEF WithinIn
<1>4. CASE \E z \in S : z < x /\ RankIn(S, z) = k
  <2>1. PICK z \in S : z < x /\ RankIn(S, z) = k
    BY <1>4
  <2>2. RankIn(S, x) < k
    BY <2>1, RankDecreases
  <2>3. x \notin BeyondIn(S \cup {x}, k)
    <3>1. RankIn(S, x) \in Nat /\ x >= x
      BY <1>1
    <3>2. RankIn(S \cup {x}, x) = RankIn(S, x) + 1
      BY <3>1, RankAdd
    <3> QED
      BY <2>2, <3>1, <3>2 DEF BeyondIn
  <2>4. ASSUME NEW i \in S, RankIn(S \cup {x}, i) > k PROVE i = z \/ RankIn(S, i) > k
    <3>1. RankIn(S, i) >= k
      BY <1>1, <2>4
    <3>2. RankIn(S, i) = k => i = z
      BY <2>1, OneOfEachRank
    <3> QED
      BY <1>1, <3>1, <3>2
  <2>5. BeyondIn(S \cup {x}, k) \subseteq BeyondIn(S, k) \cup {z}
    BY <2>3, <2>4 DEF BeyondIn
  <2> QED
    BY <1>3, <2>5
<1>5. CASE ~\E z \in S : z < x /\ RankIn(S, z) = k
  <2>1. ASSUME NEW i \in S, RankIn(S \cup {x}, i) > k PROVE RankIn(S, i) > k
    <3>1. i \in Nat /\ i # x
      OBVIOUS
    <3>2. CASE x >= i
      BY <1>1, <1>5, <2>1, <3>1, <3>2
    <3>3. CASE ~(x >= i)
      BY <1>1, <2>1, <3>1, <3>3
    <3> QED
      BY <3>2, <3>3
  <2>2. BeyondIn(S \cup {x}, k) \subseteq BeyondIn(S, k) \cup {x}
    BY <2>1 DEF BeyondIn
  <2> QED
    BY <1>3, <2>2
<1> QED
  BY <1>4, <1>5

\* A number that leaves draws one number at most to rank k, and none beyond it.
LEMMA OneIsDrawnWithin ==
    ASSUME NEW S, S \subseteq Nat, IsFiniteSet(S), NEW x \in S, NEW k \in Nat
    PROVE  /\ \E z : WithinIn(S \ {x}, k) \subseteq WithinIn(S, k) \cup {z}
           /\ BeyondIn(S \ {x}, k) \subseteq BeyondIn(S, k)
<1> DEFINE R == S \ {x}
<1>1. R \subseteq Nat /\ IsFiniteSet(R) /\ x \notin R /\ x \in Nat /\ S = R \cup {x}
  BY FS_RemoveElement
<1> HIDE DEF R
<1>2. ASSUME NEW i \in Nat
      PROVE  /\ RankIn(R, i) \in Nat
             /\ RankIn(S, i) = IF x >= i THEN RankIn(R, i) + 1 ELSE RankIn(R, i)
  <2>1. RankIn(R, i) \in Nat
    BY <1>1, RankType
  <2>2. RankIn(R \cup {x}, i) = IF x >= i THEN RankIn(R, i) + 1 ELSE RankIn(R, i)
    BY <1>1, RankAdd
  <2> QED
    BY <1>1, <2>1, <2>2
<1>3. BeyondIn(R, k) \subseteq BeyondIn(S, k)
  <2>1. ASSUME NEW i \in R, RankIn(R, i) > k PROVE RankIn(S, i) > k
    BY <1>1, <1>2, <2>1
  <2> QED
    BY <1>1, <2>1 DEF BeyondIn
<1>4. PICK z : (\E i \in R : RankIn(R, i) = k) => z \in R /\ RankIn(R, z) = k
  OBVIOUS
<1>5. ASSUME NEW i \in R, RankIn(R, i) <= k, ~(RankIn(S, i) <= k) PROVE i = z
  <2>1. RankIn(R, i) = k
    BY <1>1, <1>2, <1>5
  <2> QED
    BY <1>1, <1>4, <2>1, OneOfEachRank
<1>6. WithinIn(R, k) \subseteq WithinIn(S, k) \cup {z}
  BY <1>1, <1>5 DEF WithinIn
<1> QED
  BY <1>3, <1>6 DEF R

\* Beyond rank k there are as many numbers as the set has more than k.
LEMMA BeyondCount ==
    ASSUME NEW S, S \subseteq Nat, IsFiniteSet(S), NEW k \in Nat
    PROVE  Cardinality(BeyondIn(S, k)) <= IF k < Cardinality(S) THEN Cardinality(S) - k ELSE 0
<1> DEFINE T == (k + 1)..Cardinality(S)
           f == [i \in BeyondIn(S, k) |-> RankIn(S, i)]
<1>1. Cardinality(S) \in Nat
  BY FS_CardinalityType
<1>2. ASSUME NEW i \in BeyondIn(S, k) PROVE RankIn(S, i) \in T
  <2>1. i \in Nat /\ RankIn(S, i) > k
    BY DEF BeyondIn
  <2>2. RankIn(S, i) \in Nat /\ RankIn(S, i) <= Cardinality(S)
    BY <2>1, RankType
  <2> QED
    BY <1>1, <2>1, <2>2
<1>3. \A i, j \in BeyondIn(S, k) : RankIn(S, i) = RankIn(S, j) => i = j
  BY OneOfEachRank DEF BeyondIn
<1>4. f \in Injection(BeyondIn(S, k), T)
  BY <1>2, <1>3 DEF Injection, IsInjective
<1>5. IsFiniteSet(T) /\ Cardinality(T) = IF k + 1 > Cardinality(S) THEN 0 ELSE Cardinality(S) - (k + 1) + 1
  <2>1. k + 1 \in Int /\ Cardinality(S) \in Int
    BY <1>1
  <2> QED
    BY <2>1, FS_Interval
<1> HIDE DEF T, f
<1>6. Cardinality(BeyondIn(S, k)) <= Cardinality(T)
  BY <1>4, <1>5, FS_Injection
<1> QED
  BY <1>1, <1>5, <1>6

-----------------------------------------------------------------------------
(* Type correctness.                                                        *)

LEMMA RowsAreFinite ==
    ASSUME TypeOK, NEW S, S \subseteq matching
    PROVE  S \subseteq Nat /\ IsFiniteSet(S) /\ Cardinality(S) \in Nat
<1>1. created \in Nat /\ matching \subseteq 1..created
  BY BoundAssumption DEF TypeOK, Rows
<1>2. IsFiniteSet(1..created) /\ S \in SUBSET (1..created) /\ 1..created \subseteq Nat
  BY <1>1, FS_Interval
<1> QED
  BY <1>2, FS_Subset, FS_CardinalityType

\* The limit of a walk is positive, and the store uses no larger one.
LEMMA Limits ==
    /\ \A n \in LimitParams : AtoiOr(n, DefaultLimit) \in Nat \ {0}
    /\ \A limit \in Nat \ {0} : /\ EffectiveLimit(limit) \in Nat
                                /\ EffectiveLimit(limit) <= limit
                                /\ limit <= MaxLimit => EffectiveLimit(limit) = limit
  BY LimitAssumption DEF AtoiOr, EffectiveLimit

\* The offset of a page, of the first and of the next
LEMMA Offsets ==
    ASSUME NEW page \in Nat \ {0}, NEW limit \in Nat \ {0}
    PROVE  /\ Offset(page, limit) \in Nat /\ Offset(1, limit) = 0
           /\ page * limit = Offset(page, limit) + limit
           /\ Offset(page + 1, limit) = Offset(page, limit) + limit
<1>1. page - 1 \in Nat /\ limit \in Nat
  OBVIOUS
<1>2. (page - 1) * limit \in Nat
  BY <1>1
<1>3. page * limit = (page - 1) * limit + limit /\ (page + 1) - 1 = page
  OBVIOUS
<1>4. (1 - 1) * limit = 0
  OBVIOUS
<1> QED
  BY <1>2, <1>3, <1>4 DEF Offset

\* The three fields of the walk that a page changes
LEMMA SelectFacts ==
    ASSUME TypeOK, Select
    PROVE  /\ walk.pc = "select" /\ walk'.limit = walk.limit /\ walk'.total = walk.total
           /\ walk'.seen = walk.seen \cup Page(walk.page, walk.limit)
           /\ walk'.repeats = walk.repeats
                 + Cardinality(Page(walk.page, walk.limit) \cap walk.seen)
           /\ \/ /\ walk.page * walk.limit < walk.total
                 /\ walk'.pc = "count" /\ walk'.page = walk.page + 1
              \/ /\ walk.page * walk.limit >= walk.total
                 /\ walk'.pc = "done" /\ walk'.page = walk.page
           /\ UNCHANGED <<tableVars, historyVars>>
<1>1. walk.page * walk.limit \in Nat /\ walk.total \in Nat
  BY Offsets DEF TypeOK, Walk
<1> QED
  BY <1>1 DEF Select, TypeOK, Walk

\* What a change of the table is for the walk
Joins(x) == /\ x \in Nat \ matching /\ matching' = matching \cup {x} /\ Comes
Leaves(x) == /\ x \in matching /\ matching' = matching \ {x} /\ steady' = steady \ {x}
             /\ left' = left + 1 /\ UNCHANGED <<walk, joined, torn>>

LEMMA TableSteps ==
    ASSUME TypeOK, Create \/ \E i \in Rows : ChangeStatus(i)
    PROVE  \/ \E x \in Nat : Joins(x)
           \/ \E x \in Nat : Leaves(x)
           \/ UNCHANGED <<matching, walk, historyVars>>
<1>1. created \in Nat /\ matching \subseteq 1..created
  BY BoundAssumption DEF TypeOK, Rows
<1>2. CASE Create
  <2>1. created + 1 \in Nat \ matching /\ created' = created + 1
    BY <1>1, <1>2 DEF Create
  <2> QED
    BY <1>2, <2>1 DEF Create, Joins
<1>3. ASSUME NEW i \in Rows, ChangeStatus(i) PROVE \E x \in Nat : Joins(x) \/ Leaves(x)
  <2>1. i \in Nat
    BY <1>1 DEF Rows
  <2> QED
    BY <1>3, <2>1 DEF ChangeStatus, Joins, Leaves
<1> QED
  BY <1>2, <1>3

LEMMA PageType ==
    ASSUME TypeOK
    PROVE  /\ Page(walk.page, walk.limit) \subseteq matching
           /\ Page(walk.page, walk.limit) \cap walk.seen \subseteq matching
  BY DEF Page

LEMMA TypeNext == TypeOK /\ [Next]_vars => TypeOK'
<1> SUFFICES ASSUME TypeOK, [Next]_vars PROVE TypeOK'
  OBVIOUS
<1>1. /\ created \in Nat /\ created <= MaxRows /\ MaxRows \in Nat
      /\ matching \subseteq 1..created /\ steady \subseteq matching
      /\ matching \subseteq 1..MaxRows
      /\ left \in Nat /\ joined \in Nat /\ torn \in Nat /\ walk \in Walk
  BY BoundAssumption DEF TypeOK, Rows
<1>2. ASSUME UNCHANGED <<created, matching>>, steady' \subseteq matching, walk' \in Walk,
             left' \in Nat, joined' \in Nat, torn' \in Nat
      PROVE  TypeOK'
  BY <1>1, <1>2 DEF TypeOK, Rows
<1>3. CASE Create
  <2>1. created' = created + 1 /\ created' <= MaxRows /\ created' \in Nat
    BY <1>1, <1>3 DEF Create
  <2>2. matching' \subseteq matching \cup {created'} /\ matching \subseteq matching'
    BY <1>3 DEF Create
  <2>3. matching' \subseteq 1..created'
    BY <1>1, <2>1, <2>2
  <2>4. /\ walk' = walk /\ steady' = steady /\ left' = left
        /\ joined' \in Nat /\ torn' \in Nat
    BY <1>1, <1>3 DEF Create, Comes, historyVars
  <2> QED
    BY <1>1, <2>1, <2>2, <2>3, <2>4 DEF TypeOK, Rows
<1>4. CASE \E i \in Rows : ChangeStatus(i)
  <2>1. PICK i \in Rows : ChangeStatus(i)
    BY <1>4
  <2>2. created' = created /\ matching' \subseteq 1..created
    BY <1>1, <2>1 DEF ChangeStatus, Rows
  <2>3. /\ walk' = walk /\ steady' \subseteq matching'
        /\ left' \in Nat /\ joined' \in Nat /\ torn' \in Nat
    <3>1. CASE matching' = matching \cup {i} /\ Comes
      BY <1>1, <3>1 DEF Comes
    <3>2. CASE /\ matching' = matching \ {i} /\ steady' = steady \ {i}
               /\ left' = left + 1 /\ UNCHANGED <<walk, joined, torn>>
      <4>1. walk' = walk /\ joined' = joined /\ torn' = torn
        BY <3>2
      <4>2. steady' \subseteq matching'
        BY <1>1, <3>2
      <4>3. left' \in Nat
        BY <1>1, <3>2
      <4> QED
        BY <1>1, <4>1, <4>2, <4>3
    <3> QED
      BY <2>1, <3>1, <3>2 DEF ChangeStatus
  <2> QED
    BY <1>1, <2>2, <2>3 DEF TypeOK, Rows
<1>5. CASE BeginWalk
  <2>1. PICK n \in LimitParams :
           walk' = [walk EXCEPT !.pc = "count", !.limit = AtoiOr(n, DefaultLimit)]
    BY <1>5 DEF BeginWalk
  <2>2. walk' \in Walk
    BY <1>1, <2>1, Limits DEF Walk
  <2> QED
    BY <1>1, <1>2, <1>5, <2>2 DEF BeginWalk, tableVars
<1>6. CASE Count
  <2>1. walk' = [walk EXCEPT !.pc = "select", !.total = Cardinality(matching)]
    BY <1>6 DEF Count
  <2>2. walk' \in Walk
    BY <1>1, <2>1, RowsAreFinite DEF Walk
  <2> QED
    BY <1>1, <1>2, <1>6, <2>2 DEF Count, tableVars
<1>7. CASE Select
  <2> DEFINE rows == Page(walk.page, walk.limit)
             again == Cardinality(rows \cap walk.seen)
  <2>1. rows \subseteq 1..MaxRows /\ again \in Nat
    <3>1. rows \subseteq matching /\ rows \cap walk.seen \subseteq matching
      BY PageType
    <3> HIDE DEF rows
    <3> QED
      BY <1>1, <3>1, RowsAreFinite
  <2>2. walk' = [walk EXCEPT !.seen = walk.seen \cup rows, !.repeats = walk.repeats + again,
                   !.pc = IF walk.page * walk.limit < walk.total THEN "count" ELSE "done",
                   !.page = IF walk.page * walk.limit < walk.total THEN walk.page + 1 ELSE walk.page]
    BY <1>7 DEF Select
  <2> DEFINE last == ~(walk.page * walk.limit < walk.total)
             pc   == IF last THEN "done" ELSE "count"
             page == IF last THEN walk.page ELSE walk.page + 1
             seen == walk.seen \cup rows
             sum  == walk.repeats + again
  <2>3. walk' = [walk EXCEPT !.seen = seen, !.repeats = sum, !.pc = pc, !.page = page]
    BY <2>2
  <2>4. pc \in {"count", "done"} /\ page \in Nat \ {0}
    <3> HIDE DEF last
    <3> QED
      BY <1>1 DEF Walk
  <2>5. seen \in SUBSET (1..MaxRows) /\ sum \in Nat
    <3> HIDE DEF rows, again
    <3>1. walk.seen \in SUBSET (1..MaxRows) /\ walk.repeats \in Nat
      BY <1>1 DEF Walk
    <3>2. seen \in SUBSET (1..MaxRows)
      BY <2>1, <3>1
    <3>3. sum \in Nat
      BY <2>1, <3>1
    <3> QED
      BY <3>2, <3>3
  <2> HIDE DEF rows, again, seen, sum, pc, page
  <2>6. walk' \in Walk
    BY <1>1, <2>3, <2>4, <2>5 DEF Walk
  <2> QED
    BY <1>1, <1>2, <1>7, <2>6 DEF Select, tableVars, historyVars
<1>8. CASE UNCHANGED vars
  BY <1>1, <1>2, <1>8 DEF vars, tableVars, historyVars
<1> QED
  BY <1>3, <1>4, <1>5, <1>6, <1>7, <1>8 DEF Next

LEMMA TypeInit == Init => TypeOK
  BY BoundAssumption, LimitAssumption DEF Init, TypeOK, Rows, Walk

\* The table, the walk and its history have the values their declaration gives.
THEOREM TypeCorrect == Spec => []TypeOK
  BY TypeInit, TypeNext, PTL DEF Spec

-----------------------------------------------------------------------------
(* The edge of the walk, and the rows on the wrong side of it.              *)

Walking == walk.pc \in {"count", "select"}
Cut     == Offset(walk.page, walk.limit)

\* Rows that were shown, and lie where the walk has yet to go
Again == IF Walking THEN walk.seen \cap BeyondIn(matching, Cut) ELSE {}

\* Rows that were there all the time, and lie unseen where the walk has been
Passed == IF Walking THEN WithinIn(matching, Cut)
          ELSE IF walk.pc = "done" THEN matching ELSE {}
Missed == (steady \cap Passed) \ walk.seen

IdleOK    == walk.pc = "idle" => walk.page = 1 /\ walk.seen = {} /\ walk.repeats = 0
TotalOK   == walk.pc = "select" => Cardinality(matching) <= walk.total + torn
RepeatsOK == walk.repeats + Cardinality(Again) <= joined
MissedOK  == walk.limit <= MaxLimit =>
                Cardinality(Missed) <= IF walk.pc = "done" THEN left + torn ELSE left

WalkInv == TypeOK /\ IdleOK /\ TotalOK /\ RepeatsOK /\ MissedOK

LEMMA TypeFacts ==
    ASSUME TypeOK
    PROVE  /\ matching \subseteq Nat /\ IsFiniteSet(matching) /\ Cardinality(matching) \in Nat
           /\ IsFiniteSet(Again) /\ Cardinality(Again) \in Nat
           /\ IsFiniteSet(Missed) /\ Cardinality(Missed) \in Nat
           /\ Cut \in Nat
           /\ walk.pc \in {"idle", "count", "select", "done"}
           /\ walk.limit \in Nat \ {0} /\ walk.page \in Nat \ {0}
           /\ walk.total \in Nat /\ walk.repeats \in Nat
           /\ left \in Nat /\ joined \in Nat /\ torn \in Nat /\ steady \subseteq matching
<1>1. /\ walk.limit \in Nat \ {0} /\ walk.page \in Nat \ {0}
      /\ walk.total \in Nat /\ walk.repeats \in Nat
      /\ walk.pc \in {"idle", "count", "select", "done"}
      /\ left \in Nat /\ joined \in Nat /\ torn \in Nat /\ steady \subseteq matching
  BY DEF TypeOK, Walk
<1>2. Again \subseteq matching /\ Missed \subseteq matching
  BY <1>1 DEF Again, Missed, BeyondIn
<1>3. Cut \in Nat
  BY <1>1, Offsets DEF Cut
<1> HIDE DEF Again, Missed
<1> QED
  BY <1>1, <1>2, <1>3, RowsAreFinite

LEMMA BeginFacts ==
    ASSUME TypeOK, BeginWalk
    PROVE  /\ walk.pc = "idle" /\ walk'.pc = "count" /\ walk'.page = walk.page
           /\ walk'.seen = walk.seen /\ walk'.repeats = walk.repeats
           /\ steady' = matching /\ left' = 0 /\ joined' = 0 /\ torn' = 0
  BY DEF BeginWalk, TypeOK, Walk

LEMMA CountFacts ==
    ASSUME TypeOK, Count
    PROVE  /\ walk.pc = "count" /\ walk'.pc = "select" /\ walk'.page = walk.page
           /\ walk'.limit = walk.limit /\ walk'.seen = walk.seen /\ walk'.repeats = walk.repeats
           /\ walk'.total = Cardinality(matching) /\ torn' = 0
           /\ UNCHANGED <<matching, steady, left, joined>>
  BY DEF Count, TypeOK, Walk, tableVars

LEMMA OneMore ==
    ASSUME NEW S, NEW T, NEW z, IsFiniteSet(T), S \subseteq T \cup {z}
    PROVE  /\ Cardinality(S) \in Nat /\ Cardinality(T) \in Nat
           /\ Cardinality(S) <= Cardinality(T) + 1
<1>1. IsFiniteSet(T \cup {z}) /\ Cardinality(T) \in Nat
      /\ Cardinality(T \cup {z}) <= Cardinality(T) + 1
  BY FS_AddElement, FS_CardinalityType
<1>2. S \in SUBSET (T \cup {z})
  OBVIOUS
<1>3. IsFiniteSet(S) /\ Cardinality(S) <= Cardinality(T \cup {z})
  BY <1>1, <1>2, FS_Subset
<1>4. Cardinality(S) \in Nat /\ Cardinality(T \cup {z}) \in Nat
  BY <1>1, <1>3, FS_CardinalityType
<1> QED
  BY <1>1, <1>3, <1>4

LEMMA NoMore ==
    ASSUME NEW S, NEW T, IsFiniteSet(T), S \subseteq T
    PROVE  /\ Cardinality(S) \in Nat /\ Cardinality(T) \in Nat
           /\ Cardinality(S) <= Cardinality(T)
<1>1. S \in SUBSET T
  OBVIOUS
<1> QED
  BY <1>1, FS_Subset, FS_CardinalityType

LEMMA NoneToCount == Cardinality({}) = 0
  BY FS_EmptySet

-----------------------------------------------------------------------------
LEMMA IdleNext == WalkInv /\ [Next]_vars => IdleOK'
<1> SUFFICES ASSUME WalkInv, [Next]_vars, walk'.pc = "idle"
             PROVE  walk'.page = 1 /\ walk'.seen = {} /\ walk'.repeats = 0
  BY DEF IdleOK
<1>1. TypeOK /\ IdleOK
  BY DEF WalkInv
<1>2. CASE UNCHANGED walk
  BY <1>1, <1>2 DEF IdleOK
<1>3. CASE Create \/ \E i \in Rows : ChangeStatus(i)
  BY <1>1, <1>2, <1>3, TableSteps DEF Joins, Leaves, Comes
<1>4. ~BeginWalk /\ ~Count /\ ~Select
  BY <1>1, BeginFacts, CountFacts, SelectFacts
<1> QED
  BY <1>2, <1>3, <1>4 DEF Next, vars

\* The total a client has read is short by what came in since.
LEMMA TotalNext == WalkInv /\ [Next]_vars => TotalOK'
<1> SUFFICES ASSUME WalkInv, [Next]_vars, walk'.pc = "select"
             PROVE  Cardinality(matching') <= walk'.total + torn'
  BY DEF TotalOK
<1>1. TypeOK /\ TotalOK
  BY DEF WalkInv
<1>2. /\ IsFiniteSet(matching) /\ Cardinality(matching) \in Nat
      /\ walk.total \in Nat /\ torn \in Nat
  BY <1>1, TypeFacts
<1>3. ASSUME NEW x \in Nat, Joins(x) PROVE Cardinality(matching') <= walk'.total + torn'
  <2>1. walk' = walk /\ torn' = torn + 1
    BY <1>3 DEF Joins, Comes
  <2>2. Cardinality(matching') \in Nat /\ Cardinality(matching') <= Cardinality(matching) + 1
    BY <1>2, <1>3, OneMore DEF Joins
  <2> QED
    BY <1>1, <1>2, <2>1, <2>2 DEF TotalOK
<1>4. ASSUME NEW x \in Nat, Leaves(x) PROVE Cardinality(matching') <= walk'.total + torn'
  <2>1. walk' = walk /\ torn' = torn /\ matching' \subseteq matching
    BY <1>4 DEF Leaves
  <2>2. Cardinality(matching') \in Nat /\ Cardinality(matching') <= Cardinality(matching)
    BY <1>2, <2>1, NoMore
  <2> QED
    BY <1>1, <1>2, <2>1, <2>2 DEF TotalOK
<1>5. CASE UNCHANGED <<matching, walk, historyVars>>
  BY <1>1, <1>5 DEF TotalOK, historyVars
<1>6. CASE Count
  BY <1>1, <1>2, <1>6, CountFacts
<1>7. ~BeginWalk /\ ~Select
  BY <1>1, BeginFacts, SelectFacts
<1> QED
  BY <1>1, <1>3, <1>4, <1>5, <1>6, <1>7, TableSteps DEF Next, vars, tableVars

\* A row that comes in pushes one row that was shown ahead of the walk.
LEMMA RepeatsNext == WalkInv /\ [Next]_vars => RepeatsOK'
<1> SUFFICES ASSUME WalkInv, [Next]_vars PROVE RepeatsOK'
  OBVIOUS
<1>1. TypeOK /\ RepeatsOK /\ IdleOK
  BY DEF WalkInv
<1>2. /\ matching \subseteq Nat /\ IsFiniteSet(matching)
      /\ IsFiniteSet(Again) /\ Cardinality(Again) \in Nat
      /\ Cut \in Nat /\ walk.repeats \in Nat /\ joined \in Nat
      /\ walk.limit \in Nat \ {0} /\ walk.page \in Nat \ {0}
      /\ walk.repeats + Cardinality(Again) <= joined
  BY <1>1, TypeFacts DEF RepeatsOK
<1>3. ASSUME UNCHANGED <<walk, joined>>, Again' \subseteq Again PROVE RepeatsOK'
  <2> HIDE DEF Again
  <2>1. Cardinality(Again') \in Nat /\ Cardinality(Again') <= Cardinality(Again)
    BY <1>2, <1>3, NoMore
  <2> QED
    BY <1>2, <1>3, <2>1 DEF RepeatsOK
<1>4. ASSUME NEW x \in Nat, Joins(x) PROVE RepeatsOK'
  <2>1. walk' = walk /\ joined' = joined + 1 /\ Cut' = Cut /\ (Walking' <=> Walking)
        /\ matching' = matching \cup {x} /\ x \in Nat /\ x \notin matching
    BY <1>4 DEF Joins, Comes, Cut, Walking
  <2>2. PICK z : BeyondIn(matching', Cut) \subseteq BeyondIn(matching, Cut) \cup {z}
    BY <1>2, <2>1, OneIsPushedBeyond
  <2>3. Again' \subseteq Again \cup {z}
    BY <2>1, <2>2 DEF Again
  <2> HIDE DEF Again
  <2>4. Cardinality(Again') \in Nat /\ Cardinality(Again') <= Cardinality(Again) + 1
    BY <1>2, <2>3, OneMore
  <2> QED
    BY <1>2, <2>1, <2>4 DEF RepeatsOK
<1>5. ASSUME NEW x \in Nat, Leaves(x) PROVE RepeatsOK'
  <2>1. walk' = walk /\ joined' = joined /\ Cut' = Cut /\ (Walking' <=> Walking)
        /\ matching' = matching \ {x} /\ x \in matching
    BY <1>5 DEF Leaves, Cut, Walking
  <2>2. BeyondIn(matching', Cut) \subseteq BeyondIn(matching, Cut)
    BY <1>2, <2>1, OneIsDrawnWithin
  <2>3. Again' \subseteq Again
    BY <2>1, <2>2 DEF Again
  <2> QED
    BY <1>3, <2>1, <2>3
<1>6. CASE UNCHANGED <<matching, walk, historyVars>>
  <2>1. UNCHANGED <<walk, joined>> /\ Again' = Again
    BY <1>6 DEF historyVars, Again, Walking, Cut
  <2> QED
    BY <1>3, <2>1
<1>7. CASE BeginWalk
  <2>1. walk'.repeats = 0 /\ walk'.seen = {} /\ joined' = 0
    BY <1>1, <1>7, BeginFacts DEF IdleOK
  <2>2. Again' = {}
    BY <2>1 DEF Again
  <2> QED
    BY <2>1, <2>2, NoneToCount DEF RepeatsOK
<1>8. CASE Count
  <2>1. walk'.repeats = walk.repeats /\ joined' = joined /\ Again' = Again
    BY <1>1, <1>8, CountFacts DEF Again, Walking, Cut
  <2> QED
    BY <1>2, <2>1 DEF RepeatsOK
\* The page shows again what lies ahead up to the new edge, and what is new on it
\* lies within that edge.
<1>9. CASE Select
  <2> DEFINE rows == Page(walk.page, walk.limit)
             repeated == rows \cap walk.seen
  <2>1. /\ walk.pc = "select" /\ walk'.limit = walk.limit /\ walk'.seen = walk.seen \cup rows
        /\ walk'.repeats = walk.repeats + Cardinality(repeated)
        /\ \/ walk'.pc = "count" /\ walk'.page = walk.page + 1
           \/ walk'.pc = "done"
        /\ UNCHANGED <<matching, joined>>
    BY <1>1, <1>9, SelectFacts DEF tableVars, historyVars
  <2>2. Again = walk.seen \cap BeyondIn(matching, Cut)
    BY <2>1 DEF Again, Walking
  <2>3. \A i \in rows : /\ i \in matching /\ RankIn(matching, i) > Cut
                        /\ RankIn(matching, i) <= Cut + walk.limit
    <3>1. /\ EffectiveLimit(walk.limit) \in Nat
          /\ EffectiveLimit(walk.limit) <= walk.limit
      BY <1>2, Limits
    <3>2. ASSUME NEW i \in rows
          PROVE  /\ i \in matching /\ RankIn(matching, i) > Cut
                 /\ RankIn(matching, i) <= Cut + EffectiveLimit(walk.limit)
      BY DEF Page, Rank, RankIn, Cut
    <3>3. \A i \in matching : RankIn(matching, i) \in Nat
      BY <1>2, RankType
    <3> HIDE DEF rows
    <3>4. ASSUME NEW i \in rows PROVE RankIn(matching, i) <= Cut + walk.limit
      <4>1. /\ RankIn(matching, i) \in Nat
            /\ RankIn(matching, i) <= Cut + EffectiveLimit(walk.limit)
        BY <3>2, <3>3
      <4> QED
        BY <1>2, <3>1, <4>1
    <3> QED
      BY <3>2, <3>4
  <2>4. Cut' = Cut + walk.limit \/ Again' = {}
    BY <1>2, <2>1, Offsets DEF Cut, Again, Walking
  <2>5. Again' \subseteq Again \ repeated
    <3>1. CASE Again' = {}
      BY <3>1
    <3>2. CASE Cut' = Cut + walk.limit
      <4>1. ASSUME NEW i \in Again' PROVE i \in Again /\ i \notin repeated
        <5>1. i \in walk'.seen /\ i \in matching /\ RankIn(matching, i) > Cut + walk.limit
          BY <2>1, <3>2 DEF Again, BeyondIn
        <5>2. RankIn(matching, i) \in Nat
          BY <1>2, <5>1, RankType
        <5>3. i \notin rows /\ RankIn(matching, i) > Cut
          BY <1>2, <2>3, <5>1, <5>2
        <5> QED
          BY <2>1, <2>2, <5>1, <5>3 DEF BeyondIn
      <4> QED
        BY <4>1
    <3> QED
      BY <2>4, <3>1, <3>2
  <2>6. repeated \subseteq Again
    BY <2>2, <2>3 DEF BeyondIn
  <2> HIDE DEF Again, rows, repeated
  <2>7. /\ Cardinality(Again') \in Nat
        /\ Cardinality(Again') <= Cardinality(Again \ repeated)
        /\ Cardinality(Again \ repeated) \in Nat
    <3>1. IsFiniteSet(Again \ repeated)
      BY <1>2, FS_Difference
    <3> QED
      BY <2>5, <3>1, NoMore
  <2>8. /\ Cardinality(Again \ repeated) = Cardinality(Again) - Cardinality(repeated)
        /\ Cardinality(repeated) \in Nat
    <3>1. Again \cap repeated = repeated
      BY <2>6
    <3> QED
      BY <1>2, <2>6, <3>1, FS_Difference, NoMore
  <2> QED
    BY <1>2, <2>1, <2>7, <2>8 DEF RepeatsOK
<1> QED
  BY <1>1, <1>4, <1>5, <1>6, <1>7, <1>8, <1>9, TableSteps DEF Next, vars, tableVars

\* A row that leaves draws one row the walk has yet to see behind it.
LEMMA MissedNext == WalkInv /\ [Next]_vars => MissedOK'
<1> SUFFICES ASSUME WalkInv, [Next]_vars PROVE MissedOK'
  OBVIOUS
<1>1. TypeOK /\ MissedOK /\ IdleOK /\ TotalOK
  BY DEF WalkInv
<1>2. /\ matching \subseteq Nat /\ IsFiniteSet(matching) /\ Cardinality(matching) \in Nat
      /\ IsFiniteSet(Missed) /\ Cardinality(Missed) \in Nat
      /\ Cut \in Nat /\ left \in Nat /\ torn \in Nat /\ steady \subseteq matching
      /\ walk.limit \in Nat \ {0} /\ walk.page \in Nat \ {0} /\ walk.total \in Nat
  BY <1>1, TypeFacts
<1>3. walk.limit <= MaxLimit =>
         Cardinality(Missed) <= IF walk.pc = "done" THEN left + torn ELSE left
  BY <1>1 DEF MissedOK
<1>4. ASSUME UNCHANGED <<walk, left>>, torn' \in Nat, walk.pc = "done" => torn' >= torn,
             Missed' \subseteq Missed
      PROVE  MissedOK'
  <2> HIDE DEF Missed
  <2>1. Cardinality(Missed') \in Nat /\ Cardinality(Missed') <= Cardinality(Missed)
    BY <1>2, <1>4, NoMore
  <2> QED
    BY <1>2, <1>3, <1>4, <2>1 DEF MissedOK
<1>5. ASSUME NEW x \in Nat, Joins(x) PROVE MissedOK'
  <2>1. /\ walk' = walk /\ left' = left /\ Cut' = Cut /\ (Walking' <=> Walking)
        /\ steady' = steady /\ matching' = matching \cup {x} /\ x \notin matching
        /\ torn' \in {torn, torn + 1}
    BY <1>5 DEF Joins, Comes, Cut, Walking
  <2>2. WithinIn(matching', Cut) \cap matching \subseteq WithinIn(matching, Cut)
    BY <1>2, <2>1, OneIsPushedBeyond
  <2>3. Missed' \subseteq Missed
    BY <1>2, <2>1, <2>2 DEF Missed, Passed
  <2>4. torn' \in Nat /\ torn' >= torn
    BY <1>2, <2>1
  <2> QED
    BY <1>4, <2>1, <2>3, <2>4
<1>6. ASSUME NEW x \in Nat, Leaves(x) PROVE MissedOK'
  <2>1. /\ walk' = walk /\ left' = left + 1 /\ torn' = torn /\ Cut' = Cut
        /\ (Walking' <=> Walking)
        /\ steady' = steady \ {x} /\ matching' = matching \ {x} /\ x \in matching
    BY <1>6 DEF Leaves, Cut, Walking
  <2>2. PICK z : WithinIn(matching', Cut) \subseteq WithinIn(matching, Cut) \cup {z}
    BY <1>2, <2>1, OneIsDrawnWithin
  <2>3. Missed' \subseteq Missed \cup {z}
    BY <2>1, <2>2 DEF Missed, Passed
  <2> HIDE DEF Missed
  <2>4. Cardinality(Missed') \in Nat /\ Cardinality(Missed') <= Cardinality(Missed) + 1
    BY <1>2, <2>3, OneMore
  <2>5. ASSUME walk.limit <= MaxLimit
        PROVE  Cardinality(Missed') <= IF walk.pc = "done" THEN left' + torn' ELSE left'
    BY <1>2, <1>3, <2>1, <2>4, <2>5
  <2> QED
    BY <2>1, <2>5 DEF MissedOK
<1>7. CASE UNCHANGED <<matching, walk, historyVars>>
  <2>1. UNCHANGED <<walk, left, torn>> /\ Missed' = Missed
    BY <1>7 DEF historyVars, Missed, Passed, Walking, Cut
  <2> QED
    BY <1>2, <1>4, <2>1
\* No row is behind the first page.
<1>8. CASE BeginWalk
  <2>1. walk'.pc = "count" /\ walk'.page = 1 /\ left' = 0
    BY <1>1, <1>8, BeginFacts DEF IdleOK
  <2>2. TypeOK'
    BY <1>1, TypeNext
  <2>3. Cut' = 0
    <3>1. walk'.limit \in Nat \ {0}
      BY <2>2 DEF TypeOK, Walk
    <3> QED
      BY <2>1, <3>1, Offsets DEF Cut
  <2>4. \A i \in matching' : RankIn(matching', i) \in Nat /\ RankIn(matching', i) # 0
    <3>1. matching' \subseteq Nat /\ IsFiniteSet(matching')
      BY <1>2, <1>8 DEF BeginWalk, tableVars
    <3>2. ASSUME NEW i \in matching' PROVE RankIn(matching', i) # 0
      <4> DEFINE above == {j \in matching' : j >= i}
      <4>1. i \in above /\ above \in SUBSET matching'
        BY <3>1
      <4> HIDE DEF above
      <4>2. IsFiniteSet(above) /\ above # {}
        BY <3>1, <4>1, FS_Subset
      <4>3. Cardinality(above) # 0
        BY <4>2, FS_EmptySet
      <4> QED
        BY <4>3 DEF RankIn, above
    <3> QED
      BY <3>1, <3>2, RankType
  <2>5. Missed' = {}
    BY <2>1, <2>3, <2>4 DEF Missed, Passed, Walking, WithinIn
  <2> QED
    BY <2>1, <2>5, NoneToCount DEF MissedOK
<1>9. CASE Count
  <2>1. /\ walk.pc = "count" /\ walk'.pc = "select" /\ walk'.limit = walk.limit
        /\ left' = left /\ Missed' = Missed
    BY <1>1, <1>9, CountFacts DEF Missed, Passed, Walking, Cut
  <2> QED
    BY <1>3, <2>1 DEF MissedOK
<1>10. CASE Select /\ walk.limit <= MaxLimit
  <2> DEFINE rows == Page(walk.page, walk.limit)
             edge == Cut + walk.limit
  <2>1. /\ walk.pc = "select" /\ walk'.limit = walk.limit /\ walk'.seen = walk.seen \cup rows
        /\ \/ walk'.pc = "count" /\ walk'.page = walk.page + 1
           \/ walk'.pc = "done" /\ walk.page * walk.limit >= walk.total
        /\ matching' = matching /\ steady' = steady /\ left' = left /\ torn' = torn
    BY <1>1, <1>10, SelectFacts DEF tableVars, historyVars
  <2>2. Missed = (steady \cap WithinIn(matching, Cut)) \ walk.seen
    BY <2>1 DEF Missed, Passed, Walking
  <2>3. Cardinality(Missed) <= left
    BY <1>3, <1>10, <2>1
  <2>4. ASSUME NEW i \in matching, RankIn(matching, i) <= edge
        PROVE  i \in rows \/ i \in WithinIn(matching, Cut)
    <3>1. RankIn(matching, i) \in Nat /\ RankIn(matching, i) = Rank(i)
      BY <1>2, RankType DEF RankIn, Rank
    <3>2. EffectiveLimit(walk.limit) = walk.limit
      BY <1>2, <1>10, Limits
    <3>3. CASE RankIn(matching, i) > Cut
      BY <2>4, <3>1, <3>2, <3>3 DEF Page, Cut
    <3>4. CASE ~(RankIn(matching, i) > Cut)
      BY <1>2, <3>1, <3>4 DEF WithinIn
    <3> QED
      BY <3>3, <3>4
  <2>5. edge \in Nat /\ edge = walk.page * walk.limit /\ Offset(walk.page + 1, walk.limit) = edge
    <3>1. /\ walk.page * walk.limit = Offset(walk.page, walk.limit) + walk.limit
          /\ Offset(walk.page + 1, walk.limit) = Offset(walk.page, walk.limit) + walk.limit
      BY <1>2, Offsets
    <3>2. Cut + walk.limit \in Nat
      BY <1>2
    <3> QED
      BY <3>1, <3>2 DEF Cut
  <2>6. CASE walk'.pc = "count" /\ walk'.page = walk.page + 1
    <3>1. Cut' = edge
      BY <2>1, <2>5, <2>6 DEF Cut
    <3>2. Missed' = (steady \cap WithinIn(matching, edge)) \ (walk.seen \cup rows)
      BY <2>1, <2>6, <3>1 DEF Missed, Passed, Walking
    <3>3. Missed' \subseteq Missed
      BY <2>2, <2>4, <3>2 DEF WithinIn
    <3> HIDE DEF Missed
    <3>4. Cardinality(Missed') \in Nat /\ Cardinality(Missed') <= Cardinality(Missed)
      BY <1>2, <3>3, NoMore
    <3> QED
      BY <1>2, <2>1, <2>3, <2>6, <3>4 DEF MissedOK
\* Beyond the last page lies what came in after the total was read.
  <2>7. CASE walk'.pc = "done" /\ walk.page * walk.limit >= walk.total
    <3> DEFINE rest == BeyondIn(matching, edge)
    <3>1. Missed' = (steady \cap matching) \ (walk.seen \cup rows)
      BY <2>1, <2>7 DEF Missed, Passed, Walking
    <3>2. Missed' \subseteq Missed \cup rest
      <4>1. ASSUME NEW i \in matching PROVE RankIn(matching, i) > edge \/ RankIn(matching, i) <= edge
        <5>1. RankIn(matching, i) \in Nat /\ edge \in Nat
          BY <1>2, <2>5, RankType
        <5> HIDE DEF edge
        <5> QED
          BY <5>1
      <4> QED
        BY <1>2, <2>2, <2>4, <3>1, <4>1 DEF BeyondIn
    <3>3. Cardinality(rest) <= torn /\ IsFiniteSet(rest) /\ Cardinality(rest) \in Nat
      <4>1. Cardinality(matching) <= walk.total + torn
        BY <1>1, <2>1 DEF TotalOK
      <4>2. Cardinality(rest) <= IF edge < Cardinality(matching)
                                 THEN Cardinality(matching) - edge ELSE 0
        BY <1>2, <2>5, BeyondCount
      <4>3. rest \subseteq matching
        BY DEF BeyondIn
      <4>4. IsFiniteSet(rest) /\ Cardinality(rest) \in Nat
        BY <1>1, <4>3, RowsAreFinite
      <4> HIDE DEF rest, edge
      <4> QED
        BY <1>2, <2>5, <2>7, <4>1, <4>2, <4>4
    <3> HIDE DEF Missed, rest
    <3>4. /\ IsFiniteSet(Missed \cup rest)
          /\ Cardinality(Missed \cup rest) <= Cardinality(Missed) + Cardinality(rest)
      <4>1. IsFiniteSet(Missed \cap rest) /\ Cardinality(Missed \cap rest) \in Nat
        BY <1>2, FS_Intersection, FS_CardinalityType
      <4> QED
        <5>1. /\ IsFiniteSet(Missed \cup rest)
              /\ Cardinality(Missed \cup rest) =
                    Cardinality(Missed) + Cardinality(rest) - Cardinality(Missed \cap rest)
          BY <1>2, <3>3, FS_Union
        <5> QED
          BY <1>2, <3>3, <4>1, <5>1
    <3>5. /\ Cardinality(Missed') \in Nat /\ Cardinality(Missed \cup rest) \in Nat
          /\ Cardinality(Missed') <= Cardinality(Missed \cup rest)
      BY <3>2, <3>4, NoMore
    <3>6. Cardinality(Missed') <= left + torn
      BY <1>2, <2>3, <3>3, <3>4, <3>5
    <3> QED
      BY <2>1, <2>7, <3>6 DEF MissedOK
  <2> QED
    BY <2>1, <2>6, <2>7
<1>11. CASE Select /\ ~(walk.limit <= MaxLimit)
  BY <1>1, <1>11, SelectFacts DEF MissedOK
<1> QED
  BY <1>1, <1>5, <1>6, <1>7, <1>8, <1>9, <1>10, <1>11, TableSteps DEF Next, vars, tableVars

LEMMA WalkInvInit == Init => WalkInv
<1> SUFFICES ASSUME Init PROVE WalkInv
  OBVIOUS
<1>1. /\ walk.pc = "idle" /\ walk.page = 1 /\ walk.seen = {} /\ walk.repeats = 0
      /\ left = 0 /\ joined = 0
  BY DEF Init
<1>2. Again = {} /\ Missed = {}
  BY <1>1 DEF Again, Missed, Passed, Walking
<1> QED
  BY <1>1, <1>2, TypeInit, NoneToCount DEF WalkInv, IdleOK, TotalOK, RepeatsOK, MissedOK

LEMMA WalkInvNext == WalkInv /\ [Next]_vars => WalkInv'
  BY TypeNext, IdleNext, TotalNext, RepeatsNext, MissedNext DEF WalkInv

\* Paging by offset repeats a row at most once for each row that came into the
\* filter during the walk (server.go:101-107, store/request.go:173-214).
THEOREM WalkRepeatsFewHolds == Spec => []WalkRepeatsFew
<1>1. WalkInv => WalkRepeatsFew
  BY TypeFacts DEF WalkInv, RepeatsOK, WalkRepeatsFew
<1> QED
  BY <1>1, WalkInvInit, WalkInvNext, PTL DEF Spec

\* It misses at most one for each that left the filter, and on its last page one
\* for each that came in after the total was read; so none of a queue that stands
\* still, if the store accepts the limit (server.go:101-107, store/request.go:173-214).
THEOREM WalkMissesFewHolds == Spec => []WalkMissesFew
<1>1. WalkInv => WalkMissesFew
  <2> SUFFICES ASSUME WalkInv, walk.pc = "done", walk.limit <= MaxLimit
               PROVE  Cardinality(steady \ walk.seen) <= left + torn
    BY DEF WalkMissesFew
  <2>1. steady \subseteq matching
    BY DEF WalkInv, TypeOK
  <2>2. Missed = steady \ walk.seen
    BY <2>1 DEF Missed, Passed, Walking
  <2> QED
    BY <2>2 DEF WalkInv, MissedOK
<1> QED
  BY <1>1, WalkInvInit, WalkInvNext, PTL DEF Spec
=============================================================================
