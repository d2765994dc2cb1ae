------------------------ MODULE ArchiveDocuments_proofs -----------------------
(***************************************************************************)
(* Lemmas about the operators of ArchiveDocuments that the proofs of       *)
(* ArchiveBrowser and ArchiveCodec share.                                  *)
(*                                                                         *)
(* The sequences of the model are made with InOrder, which puts at place i *)
(* the element with i - 1 others below it: InOrderArranges proves by       *)
(* counting, without induction, that this is a sequence with every element *)
(* in its order, and picking, listing, sorting and the statistics of a run *)
(* are cases of it.                                                        *)
(*                                                                         *)
(* What a sum comes to does take induction. CountingUp is that induction   *)
(* over a set of numbers, without an operator for parameter, and Total is  *)
(* reasoned about through it. StatisticsAlwaysAccepted and                 *)
(* EveryWindowIsArchivable are what follows for the code: archiving a run  *)
(* whose window was built cannot be refused for its statistics.            *)
(***************************************************************************)
EXTENDS ArchiveDocuments, FiniteSetTheorems, TLAPS

-----------------------------------------------------------------------------
(* Sequences in an order.                                                  *)

(* R orders the elements of S. *)
Orders(R, S) ==
  /\ \A x \in S : <<x, x>> \notin R
  /\ \A x, y, z \in S : <<x, y>> \in R /\ <<y, z>> \in R => <<x, z>> \in R
  /\ \A x, y \in S : x = y \/ <<x, y>> \in R \/ <<y, x>> \in R

Below(x, S, R) == {y \in S : <<y, x>> \in R}

(* s holds the elements of S, each once, in the order R. *)
Arranges(s, S, R) ==
  /\ s \in Seq(S) /\ Len(s) = Cardinality(S)
  /\ \A x \in S : \E i \in 1 .. Len(s) : s[i] = x
  /\ \A i, j \in 1 .. Len(s) : i < j => <<s[i], s[j]>> \in R

(* What is below x is part of S without x. *)
LEMMA BelowBounded ==
  ASSUME NEW S, NEW R, IsFiniteSet(S), Orders(R, S), NEW x \in S
  PROVE  /\ IsFiniteSet(Below(x, S, R)) /\ Cardinality(Below(x, S, R)) \in Nat
         /\ Cardinality(Below(x, S, R)) < Cardinality(S)
<1> DEFINE B == Below(x, S, R)
<1>1. B \in SUBSET S /\ x \notin B
  BY DEF Below, Orders
<1> HIDE DEF B
<1>2. IsFiniteSet(B) /\ Cardinality(B) <= Cardinality(S) /\ (Cardinality(S) = Cardinality(B) => S = B)
  BY <1>1, FS_Subset
<1>3. Cardinality(B) \in Nat /\ Cardinality(S) \in Nat
  BY <1>2, FS_CardinalityType
<1>4. Cardinality(B) # Cardinality(S)
  BY <1>1, <1>2
<1>5. IsFiniteSet(B) /\ Cardinality(B) \in Nat /\ Cardinality(B) < Cardinality(S)
  BY <1>2, <1>3, <1>4
<1> QED
  BY <1>5 DEF B

(* Of two elements the later one has more below it. *)
LEMMA BelowGrows ==
  ASSUME NEW S, NEW R, IsFiniteSet(S), Orders(R, S), NEW x \in S, NEW y \in S, <<x, y>> \in R
  PROVE  Cardinality(Below(x, S, R)) < Cardinality(Below(y, S, R))
<1> DEFINE B == Below(x, S, R)
           C == Below(y, S, R)
<1>1. B \in SUBSET C /\ x \in C /\ x \notin B
  BY DEF Below, Orders
<1>2. IsFiniteSet(B) /\ Cardinality(B) \in Nat
  BY BelowBounded
<1>3. IsFiniteSet(C) /\ Cardinality(C) \in Nat
  BY BelowBounded
<1> HIDE DEF B, C
<1>4. Cardinality(B) <= Cardinality(C) /\ (Cardinality(C) = Cardinality(B) => C = B)
  BY <1>1, <1>3, FS_Subset
<1>5. Cardinality(B) < Cardinality(C)
  BY <1>1, <1>2, <1>3, <1>4
<1> QED
  BY <1>5 DEF B, C

(* Every place of InOrder has an element with as many below it. *)
LEMMA RankTaken ==
  ASSUME NEW S, NEW R, IsFiniteSet(S), Orders(R, S), NEW i \in 1 .. Cardinality(S)
  PROVE  \E x \in S : Cardinality(Below(x, S, R)) = i - 1
<1> DEFINE n == Cardinality(S)
           f == [x \in S |-> Cardinality(Below(x, S, R)) + 1]
<1>1. n \in Nat
  BY FS_CardinalityType
<1>2. \A x \in S : f[x] \in 1 .. n
  BY <1>1, BelowBounded
<1>3. \A x, y \in S : <<x, y>> \in R => f[x] # f[y]
  <2> TAKE x, y \in S
  <2> HAVE <<x, y>> \in R
  <2>1. Cardinality(Below(x, S, R)) < Cardinality(Below(y, S, R))
    BY BelowGrows
  <2>2. Cardinality(Below(x, S, R)) \in Nat
    BY BelowBounded
  <2>3. Cardinality(Below(y, S, R)) \in Nat
    BY BelowBounded
  <2> QED
    BY <2>1, <2>2, <2>3
<1>4. \A x, y \in S : x = y \/ <<x, y>> \in R \/ <<y, x>> \in R
  BY DEF Orders
<1>5. f \in [S -> 1 .. n]
  BY <1>2
<1>6. \A x \in S : f[x] = Cardinality(Below(x, S, R)) + 1
  OBVIOUS
<1> HIDE DEF f
<1>7. \A x, y \in S : f[x] = f[y] => x = y
  BY <1>3, <1>4
<1>8. f \in Injection(S, 1 .. n)
  BY <1>5, <1>7 DEF Injection, IsInjective
<1>9. IsFiniteSet(1 .. n) /\ Cardinality(1 .. n) = n
  <2>1. PICK k \in Nat : k = n
    BY <1>1
  <2>2. IsFiniteSet(1 .. k) /\ Cardinality(1 .. k) = IF 1 > k THEN 0 ELSE k - 1 + 1
    BY FS_Interval
  <2> QED
    BY <2>1, <2>2
<1>10. f \in Surjection(S, 1 .. n)
  BY <1>8, <1>9, FS_Injection
<1>11. PICK x \in S : f[x] = i
  BY <1>10 DEF Surjection
<1>12. Cardinality(Below(x, S, R)) \in Nat
  BY BelowBounded
<1> QED
  BY <1>6, <1>11, <1>12

(* InOrder arranges a finite set in the order it is given, and at place i  *)
(* is the element with i - 1 others below it.                              *)
LEMMA InOrderArranges ==
  ASSUME NEW S, NEW R, IsFiniteSet(S), Orders(R, S)
  PROVE  /\ Arranges(InOrder(S, R), S, R)
         /\ \A i \in 1 .. Cardinality(S) : Cardinality(Below(InOrder(S, R)[i], S, R)) = i - 1
<1> DEFINE n == Cardinality(S)
           at(i) == CHOOSE x \in S : Cardinality(Below(x, S, R)) = i - 1
           g == [i \in 1 .. n |-> at(i)]
           s == SubSeq(g, 1, n)
<1>1. n \in Nat
  BY FS_CardinalityType
<1>2. \A i \in 1 .. n : at(i) \in S /\ Cardinality(Below(at(i), S, R)) = i - 1
  BY RankTaken
<1>3. InOrder(S, R) = s
  BY DEF InOrder, Below
<1> HIDE DEF at
<1>4. g \in Seq(S) /\ Len(g) = n
  BY <1>1, <1>2
<1>5. s \in Seq(S) /\ Len(s) = n /\ \A i \in 1 .. n : s[i] = at(i)
  BY <1>1, <1>4
<1> HIDE DEF s
<1>6. \A x \in S : \E i \in 1 .. n : s[i] = x
  <2> TAKE x \in S
  <2>1. PICK k \in Nat : k = Cardinality(Below(x, S, R)) /\ k < n
    BY BelowBounded
  <2>2. k + 1 \in 1 .. n /\ k + 1 - 1 = k
    BY <2>1, <1>1
  <2>3. at(k + 1) \in S /\ Cardinality(Below(at(k + 1), S, R)) = k
    BY <2>2, <1>2
  <2>4. PICK y \in S : y = at(k + 1)
    BY <2>3
  <2>5. Cardinality(Below(y, S, R)) = k
    BY <2>3, <2>4
  <2>6. ~(<<x, y>> \in R)
    <3>1. ASSUME <<x, y>> \in R PROVE FALSE
      BY <3>1, <2>1, <2>5, BelowGrows
    <3> QED
      BY <3>1
  <2>7. ~(<<y, x>> \in R)
    <3>1. ASSUME <<y, x>> \in R PROVE FALSE
      BY <3>1, <2>1, <2>5, BelowGrows
    <3> QED
      BY <3>1
  <2>8. x = y
    BY <2>6, <2>7 DEF Orders
  <2> QED
    BY <2>2, <2>4, <2>8, <1>5
<1>7. \A i, j \in 1 .. n : i < j => <<s[i], s[j]>> \in R
  <2> TAKE i, j \in 1 .. n
  <2> HAVE i < j
  <2>1. PICK x \in S : x = s[i] /\ Cardinality(Below(x, S, R)) = i - 1
    BY <1>2, <1>5
  <2>2. PICK y \in S : y = s[j] /\ Cardinality(Below(y, S, R)) = j - 1
    BY <1>2, <1>5
  <2>3. i - 1 \in Int /\ j - 1 \in Int /\ i - 1 < j - 1
    BY <1>1
  <2>4. ~(<<y, x>> \in R)
    <3>1. ASSUME <<y, x>> \in R PROVE FALSE
      <4>1. Cardinality(Below(y, S, R)) < Cardinality(Below(x, S, R))
        BY <3>1, BelowGrows
      <4> QED
        BY <4>1, <2>1, <2>2, <2>3
    <3> QED
      BY <3>1
  <2>5. x # y
    BY <2>1, <2>2, <2>3
  <2>6. <<x, y>> \in R
    BY <2>4, <2>5 DEF Orders
  <2> QED
    BY <2>1, <2>2, <2>6
<1>8. Arranges(s, S, R)
  BY <1>5, <1>6, <1>7 DEF Arranges
<1>9. \A i \in 1 .. n : Cardinality(Below(s[i], S, R)) = i - 1
  BY <1>2, <1>5
<1> QED
  BY <1>3, <1>8, <1>9

-----------------------------------------------------------------------------
(* The orders of the model.                                                *)

Smaller(S) == {p \in S \X S : p[1] < p[2]}

(* The smaller-than relation orders any set of integers. *)
LEMMA SmallerOrders ==
  ASSUME NEW S \in SUBSET Nat
  PROVE  Orders(Smaller(S), S)
<1>1. \A x, y \in S : <<x, y>> \in Smaller(S) <=> x < y
  BY DEF Smaller
<1>2. \A x \in S : x \in Nat
  OBVIOUS
<1> QED
  BY <1>1, <1>2 DEF Orders

(* Increasing lists a set of places in ascending order. *)
LEMMA IncreasingArranges ==
  ASSUME NEW S \in SUBSET Nat, IsFiniteSet(S)
  PROVE  Arranges(Increasing[S], S, Smaller(S))
<1>1. Increasing[S] = InOrder(S, Smaller(S))
  BY DEF Increasing, Smaller
<1>2. Arranges(InOrder(S, Smaller(S)), S, Smaller(S))
  BY SmallerOrders, InOrderArranges
<1> QED
  BY <1>1, <1>2

(* Picked has the members of the sequence at the given places and no other. *)
LEMMA PickedMembers ==
  ASSUME NEW T, NEW s \in Seq(T), NEW places \in SUBSET (DOMAIN s)
  PROVE  /\ Picked(s, places) \in Seq(T)
         /\ Len(Picked(s, places)) = Cardinality(places)
         /\ \A k \in 1 .. Len(Picked(s, places)) : \E i \in places : Picked(s, places)[k] = s[i]
         /\ \A i \in places : \E k \in 1 .. Len(Picked(s, places)) : Picked(s, places)[k] = s[i]
<1> DEFINE order == Increasing[places]
           g == [i \in DOMAIN order |-> s[order[i]]]
           n == Len(order)
<1>1. IsFiniteSet(places) /\ places \in SUBSET Nat
  <2>1. PICK m \in Nat : m = Len(s)
    OBVIOUS
  <2>2. IsFiniteSet(1 .. m)
    BY FS_Interval
  <2>3. DOMAIN s = 1 .. m
    BY <2>1
  <2> QED
    BY <2>2, <2>3, FS_Subset
<1>2. Arranges(order, places, Smaller(places))
  BY <1>1, IncreasingArranges
<1> HIDE DEF order
<1>3. /\ order \in Seq(places) /\ Len(order) = Cardinality(places) /\ n \in Nat
      /\ \A i \in places : \E k \in 1 .. n : order[k] = i
  BY <1>2 DEF Arranges
<1>4. \A i \in 1 .. n : order[i] \in places /\ s[order[i]] \in T
  BY <1>3
<1>5. DOMAIN order = 1 .. n
  BY <1>3
<1>6. g \in Seq(T) /\ Len(g) = n /\ \A i \in 1 .. n : g[i] = s[order[i]]
  <2> DEFINE h == [i \in 1 .. n |-> s[order[i]]]
  <2>1. g = h
    BY <1>5
  <2> HIDE DEF n
  <2>2. h \in Seq(T) /\ Len(h) = n /\ \A i \in 1 .. n : h[i] = s[order[i]]
    BY <1>3, <1>4
  <2> QED
    BY <2>1, <2>2
<1> HIDE DEF g
<1>7. Picked(s, places) = SubSeq(g, 1, n)
  BY DEF Picked, g, order
<1>8. SubSeq(g, 1, n) \in Seq(T) /\ Len(SubSeq(g, 1, n)) = n /\ \A i \in 1 .. n : SubSeq(g, 1, n)[i] = g[i]
  BY <1>3, <1>6, SMTT(60)
<1> QED
  BY <1>3, <1>4, <1>6, <1>7, <1>8

-----------------------------------------------------------------------------
(* Sorting values.                                                         *)

ValueOrder(values) ==
  {p \in (DOMAIN values) \X (DOMAIN values) :
     \/ values[p[1]] < values[p[2]]
     \/ values[p[1]] = values[p[2]] /\ p[1] < p[2]}

(* The values are ordered by size, equal ones by place. *)
LEMMA ValueOrderOrders ==
  ASSUME NEW values \in Seq(Int)
  PROVE  Orders(ValueOrder(values), DOMAIN values)
<1>1. \A i \in DOMAIN values : i \in Nat /\ values[i] \in Int
  OBVIOUS
<1>2. \A i, j \in DOMAIN values :
        <<i, j>> \in ValueOrder(values) <=> values[i] < values[j] \/ (values[i] = values[j] /\ i < j)
  BY DEF ValueOrder
<1>3. \A x \in DOMAIN values : <<x, x>> \notin ValueOrder(values)
  BY <1>1, <1>2, SMTT(60)
<1>4. ASSUME NEW x \in DOMAIN values, NEW y \in DOMAIN values, NEW z \in DOMAIN values,
             <<x, y>> \in ValueOrder(values), <<y, z>> \in ValueOrder(values)
      PROVE  <<x, z>> \in ValueOrder(values)
  <2>1. PICK a, b, c \in Int : a = values[x] /\ b = values[y] /\ c = values[z]
    BY <1>1
  <2>2. x \in Nat /\ y \in Nat /\ z \in Nat
    BY <1>1
  <2>3. (a < b \/ (a = b /\ x < y)) /\ (b < c \/ (b = c /\ y < z))
    BY <1>2, <1>4, <2>1
  <2>4. a < c \/ (a = c /\ x < z)
    BY <2>2, <2>3
  <2> QED
    BY <1>2, <2>1, <2>4
<1>5. ASSUME NEW x \in DOMAIN values, NEW y \in DOMAIN values
      PROVE  x = y \/ <<x, y>> \in ValueOrder(values) \/ <<y, x>> \in ValueOrder(values)
  <2>1. PICK a, b \in Int : a = values[x] /\ b = values[y]
    BY <1>1
  <2>2. x \in Nat /\ y \in Nat
    BY <1>1
  <2>3. x = y \/ a < b \/ b < a \/ (a = b /\ (x < y \/ y < x))
    BY <2>2
  <2> QED
    BY <1>2, <2>1, <2>3
<1> QED
  BY <1>3, <1>4, <1>5 DEF Orders

(* Sorted values are values; the first is the smallest, the last the        *)
(* largest, and the i-th comes from a place with i - 1 others below it.     *)
LEMMA SortedBounds ==
  ASSUME NEW values \in Seq(Int), Len(values) >= 1
  PROVE  /\ \A i \in 1 .. Len(values) : \E p \in DOMAIN values :
              /\ Sorted(values)[i] = values[p]
              /\ Cardinality(Below(p, DOMAIN values, ValueOrder(values))) = i - 1
         /\ Sorted(values)[1] \in Int /\ Sorted(values)[Len(values)] \in Int
         /\ \A i \in 1 .. Len(values) : \E k \in 1 .. Len(values) : Sorted(values)[i] = values[k]
         /\ \A k \in 1 .. Len(values) :
              Sorted(values)[1] <= values[k] /\ values[k] <= Sorted(values)[Len(values)]
         /\ \E k \in 1 .. Len(values) : Sorted(values)[1] = values[k]
         /\ \E k \in 1 .. Len(values) : Sorted(values)[Len(values)] = values[k]
<1> DEFINE places == DOMAIN values
           order == InOrder(places, ValueOrder(values))
           g == [i \in places |-> values[order[i]]]
<1> PICK n \in Nat : n = Len(values)
  OBVIOUS
<1>1. Sorted(values) = SubSeq(g, 1, n)
  BY DEF Sorted, ValueOrder
<1>2. places = 1 .. n /\ n >= 1
  OBVIOUS
<1>3. IsFiniteSet(places) /\ Cardinality(places) = n
  <2>1. IsFiniteSet(1 .. n) /\ Cardinality(1 .. n) = IF 1 > n THEN 0 ELSE n - 1 + 1
    BY FS_Interval
  <2> QED
    BY <1>2, <2>1
<1>4. /\ Arranges(order, places, ValueOrder(values))
      /\ \A i \in 1 .. n : Cardinality(Below(order[i], places, ValueOrder(values))) = i - 1
  <2>1. Orders(ValueOrder(values), places)
    BY ValueOrderOrders
  <2> QED
    BY <1>3, <2>1, InOrderArranges
<1> HIDE DEF order
<1>5. /\ order \in Seq(places) /\ Len(order) = n
      /\ \A x \in places : \E i \in 1 .. n : order[i] = x
      /\ \A i, j \in 1 .. n : i < j => <<order[i], order[j]>> \in ValueOrder(values)
  BY <1>3, <1>4 DEF Arranges
<1>6. \A i, j \in 1 .. n : i < j => values[order[i]] <= values[order[j]]
  <2> TAKE i, j \in 1 .. n
  <2> HAVE i < j
  <2>1. <<order[i], order[j]>> \in ValueOrder(values)
    BY <1>5
  <2>2. order[i] \in places /\ order[j] \in places
    BY <1>5, SMTT(60)
  <2>3. PICK a, b : a = order[i] /\ b = order[j]
    OBVIOUS
  <2>4. values[a] < values[b] \/ values[a] = values[b]
    BY <2>1, <2>3 DEF ValueOrder
  <2>5. values[a] \in Int /\ values[b] \in Int
    BY <2>2, <2>3
  <2> QED
    BY <2>3, <2>4, <2>5
<1>7. \A i \in 1 .. n : order[i] \in 1 .. n /\ values[order[i]] \in Int
  BY <1>2, <1>5
<1>8. g = [i \in 1 .. n |-> values[order[i]]]
  BY <1>2
<1> HIDE DEF places, g
<1>9. g \in Seq(Int) /\ Len(g) = n /\ \A i \in 1 .. n : g[i] = values[order[i]]
  BY <1>7, <1>8
<1>10. \A i \in 1 .. n : SubSeq(g, 1, n)[i] = g[i]
  BY <1>9
<1>11. \A i \in 1 .. n : Sorted(values)[i] = values[order[i]]
  BY <1>1, <1>9, <1>10
<1>12. 1 \in 1 .. n /\ n \in 1 .. n
  BY <1>2
<1>13. ASSUME NEW k \in 1 .. n
       PROVE  values[order[1]] <= values[k] /\ values[k] <= values[order[n]]
  <2>1. PICK i \in 1 .. n : order[i] = k
    BY <1>2, <1>5
  <2>2. 1 = i \/ values[order[1]] <= values[order[i]]
    BY <1>6, <1>12
  <2>3. i = n \/ values[order[i]] <= values[order[n]]
    BY <1>6, <1>12
  <2>4. values[order[i]] \in Int
    BY <1>7
  <2> QED
    BY <2>1, <2>2, <2>3, <2>4
<1>14. \A i \in 1 .. n : \E k \in 1 .. n : Sorted(values)[i] = values[k]
  BY <1>7, <1>11
<1>15. \A i \in 1 .. n : \E p \in places :
         /\ Sorted(values)[i] = values[p]
         /\ Cardinality(Below(p, places, ValueOrder(values))) = i - 1
  BY <1>2, <1>4, <1>7, <1>11
<1> QED
  BY <1>7, <1>11, <1>12, <1>13, <1>14, <1>15 DEF places

-----------------------------------------------------------------------------
(* Sums.                                                                   *)

(* A set of numbers that holds 0 and the successor of each of its members  *)
(* below N holds every number up to N.                                     *)
LEMMA CountingUp ==
  ASSUME NEW N \in Nat, NEW Good, 0 \in Good,
         \A m \in 0 .. N - 1 : m \in Good => m + 1 \in Good
  PROVE  \A m \in 0 .. N : m \in Good
<1> DEFINE Bad == {m \in 0 .. N : m \notin Good}
           T == {0 .. x : x \in Bad}
           R == StrictSubsetOrdering(Nat)
<1>1. SUFFICES ASSUME Bad # {} PROVE FALSE
  OBVIOUS
<1>2. T \subseteq FiniteSubsetsOf(Nat) /\ T # {}
  <2>1. ASSUME NEW x \in Bad PROVE 0 .. x \in FiniteSubsetsOf(Nat)
    <3>1. x \in Nat
      OBVIOUS
    <3>2. IsFiniteSet(0 .. x) /\ 0 .. x \subseteq Nat
      BY <3>1, FS_Interval
    <3> QED
      BY <3>2 DEF FiniteSubsetsOf
  <2> QED
    BY <1>1, <2>1
<1>3. PICK I \in T : \A J \in T : ~(<<J, I>> \in R)
  <2>1. IsWellFoundedOn(R, FiniteSubsetsOf(Nat))
    BY FS_StrictSubsetOrderingWellFounded
  <2> HIDE DEF T, R
  <2> QED
    BY <1>2, <2>1, WFMin
<1>4. PICK x \in Bad : I = 0 .. x
  BY <1>3
<1>5. x \in 1 .. N /\ x - 1 \in 0 .. N - 1 /\ x \notin Good
  <2>1. x \in 0 .. N /\ x \notin Good
    BY <1>4
  <2>2. x # 0
    BY <2>1
  <2> QED
    BY <2>1, <2>2
<1>6. x - 1 \in Bad
  BY <1>5
<1>7. 0 .. (x - 1) \subseteq 0 .. x /\ x \in 0 .. x /\ x \notin 0 .. (x - 1)
  BY <1>5
<1>8. <<0 .. (x - 1), 0 .. x>> \in R
  <2>1. x - 1 \in Nat /\ x \in Nat
    BY <1>5
  <2>2. 0 .. (x - 1) \in SUBSET Nat /\ 0 .. x \in SUBSET Nat
    BY <2>1
  <2> QED
    BY <1>7, <2>2 DEF StrictSubsetOrdering
<1> QED
  BY <1>3, <1>4, <1>6, <1>8

(* The running totals of a sequence. *)
RunningTotal(f, values, N) ==
  f = [n \in 0 .. N |-> IF n = 0 THEN 0 ELSE f[n - 1] + values[n]]

LEMMA TotalIsLast ==
  ASSUME NEW values \in Seq(Int)
  PROVE  \E f : RunningTotal(f, values, Len(values)) /\ Total(values) = f[Len(values)]
<1>1. PICK N \in Nat : N = Len(values)
  OBVIOUS
<1> DEFINE Good == {m \in 0 .. N : \E f : RunningTotal(f, values, m)}
<1>2. 0 \in Good
  <2>1. PICK f : f = [n \in 0 .. 0 |-> 0]
    OBVIOUS
  <2>2. [n \in 0 .. 0 |-> IF n = 0 THEN 0 ELSE f[n - 1] + values[n]] = [n \in 0 .. 0 |-> 0]
    OBVIOUS
  <2>3. RunningTotal(f, values, 0)
    BY <2>1, <2>2 DEF RunningTotal
  <2> QED
    BY <2>3
<1>3. ASSUME NEW m \in 0 .. N - 1, m \in Good
      PROVE  m + 1 \in Good
  <2>1. PICK f : RunningTotal(f, values, m)
    BY <1>3
  <2>2. PICK g : g = [n \in 0 .. m + 1 |-> IF n = m + 1 THEN f[m] + values[m + 1] ELSE f[n]]
    OBVIOUS
  <2>3. ASSUME NEW n \in 0 .. m + 1
        PROVE  g[n] = IF n = 0 THEN 0 ELSE g[n - 1] + values[n]
    <3>1. CASE n = m + 1
      BY <2>2, <3>1
    <3>2. CASE n # m + 1 /\ n # 0
      <4>1. n \in 0 .. m /\ n - 1 \in 0 .. m /\ n - 1 # m + 1 /\ n - 1 \in 0 .. m + 1
        BY <3>2
      <4>2. f[n] = f[n - 1] + values[n]
        BY <2>1, <3>2, <4>1 DEF RunningTotal
      <4>3. g[n] = f[n] /\ g[n - 1] = f[n - 1]
        BY <2>2, <3>2, <4>1
      <4> QED
        BY <3>2, <4>2, <4>3
    <3>3. CASE n = 0
      <4>1. n # m + 1 /\ n \in 0 .. m
        BY <3>3
      <4>2. f[n] = 0
        BY <2>1, <3>3, <4>1 DEF RunningTotal
      <4> QED
        BY <2>2, <3>3, <4>1, <4>2
    <3> QED
      BY <3>1, <3>2, <3>3
  <2>4. g = [n \in 0 .. m + 1 |-> g[n]]
    BY <2>2
  <2>5. RunningTotal(g, values, m + 1)
    BY <2>3, <2>4, Zenon DEF RunningTotal
  <2> QED
    BY <2>5
<1>4. N \in Good
  <2> HIDE DEF Good
  <2>1. \A m \in 0 .. N - 1 : m \in Good => m + 1 \in Good
    BY <1>3
  <2>2. \A m \in 0 .. N : m \in Good
    BY <1>2, <2>1, CountingUp
  <2> QED
    BY <2>2
<1>5. PICK h : h = CHOOSE f : RunningTotal(f, values, N)
  OBVIOUS
<1>6. RunningTotal(h, values, N)
  BY <1>4, <1>5
<1>7. Total(values) = h[N]
  BY <1>1, <1>5 DEF Total, RunningTotal
<1> QED
  BY <1>1, <1>6, <1>7

(* Between n times the least and n times the greatest of n numbers lies their sum. *)
LEMMA TotalBounds ==
  ASSUME NEW values \in Seq(Int), NEW lo \in Int, NEW hi \in Int,
         \A k \in 1 .. Len(values) : lo <= values[k] /\ values[k] <= hi
  PROVE  /\ Total(values) \in Int
         /\ Len(values) * lo <= Total(values) /\ Total(values) <= Len(values) * hi
<1>1. PICK N \in Nat : N = Len(values)
  OBVIOUS
<1>2. PICK f : RunningTotal(f, values, N) /\ Total(values) = f[N]
  BY <1>1, TotalIsLast
<1>3. f[0] = 0 /\ \A n \in 1 .. N : f[n] = f[n - 1] + values[n]
  BY <1>2 DEF RunningTotal
<1> DEFINE Good == {m \in 0 .. N : f[m] \in Int /\ m * lo <= f[m] /\ f[m] <= m * hi}
<1>4. 0 \in Good
  BY <1>3
<1>5. ASSUME NEW m \in 0 .. N - 1, m \in Good
      PROVE  m + 1 \in Good
  <2>1. PICK v \in Int : v = values[m + 1] /\ lo <= v /\ v <= hi
    BY <1>1
  <2>2. m + 1 \in 1 .. N /\ (m + 1) - 1 = m
    OBVIOUS
  <2>3. PICK s \in Int : s = f[m] /\ m * lo <= s /\ s <= m * hi
    BY <1>5
  <2>4. f[m + 1] = s + v
    BY <1>3, <2>1, <2>2, <2>3
  <2>5. (m + 1) * lo = m * lo + lo /\ (m + 1) * hi = m * hi + hi
    OBVIOUS
  <2>6. m * lo \in Int /\ m * hi \in Int
    OBVIOUS
  <2>7. (m + 1) * lo <= s + v /\ s + v <= (m + 1) * hi
    BY <2>1, <2>3, <2>5, <2>6
  <2> QED
    BY <2>2, <2>4, <2>7
<1>6. N \in Good
  <2> HIDE DEF Good
  <2>1. \A m \in 0 .. N - 1 : m \in Good => m + 1 \in Good
    BY <1>5
  <2>2. \A m \in 0 .. N : m \in Good
    BY <1>4, <2>1, CountingUp
  <2> QED
    BY <2>2
<1> QED
  BY <1>1, <1>2, <1>6

(* The mean of numbers between two bounds lies between them. *)
LEMMA QuotientBounds ==
  ASSUME NEW n \in Nat, n >= 1, NEW lo \in Int, NEW hi \in Int, NEW t \in Int,
         n * lo <= t, t <= n * hi
  PROVE  t \div n \in Int /\ lo <= t \div n /\ t \div n <= hi
<1>1. PICK q, r : q = t \div n /\ r = t % n
  OBVIOUS
<1>2. q \in Int /\ r \in 0 .. n - 1 /\ t = n * q + r
  BY <1>1
<1>3. lo <= q
  <2>1. CASE q + 1 <= lo
    <3>1. n * (q + 1) <= n * lo
      BY <1>2, <2>1
    <3>2. n * (q + 1) = n * q + n
      BY <1>2
    <3> QED
      BY <1>2, <3>1, <3>2
  <2> QED
    BY <1>2, <2>1
<1>4. q <= hi
  <2>1. CASE hi + 1 <= q
    <3>1. n * (hi + 1) <= n * q
      BY <1>2, <2>1
    <3>2. n * (hi + 1) = n * hi + n
      BY <1>2
    <3> QED
      BY <1>2, <3>1, <3>2
  <2> QED
    BY <1>2, <2>1
<1> QED
  BY <1>1, <1>2, <1>3, <1>4

(* The square root of a number in whole units. *)
LEMMA RootExists ==
  ASSUME NEW n \in Nat
  PROVE  Root[n] \in 0 .. n /\ Root[n] * Root[n] <= n /\ (Root[n] + 1) * (Root[n] + 1) > n
<1> DEFINE Good == {m \in 0 .. n : m * m <= n}
<1>1. \E d \in 0 .. n : d * d <= n /\ (d + 1) * (d + 1) > n
  <2>1. SUFFICES ASSUME \A d \in 0 .. n : d * d <= n => (d + 1) * (d + 1) <= n
                 PROVE  FALSE
    OBVIOUS
  <2>2. 0 \in Good
    OBVIOUS
  <2>3. ASSUME NEW m \in 0 .. n - 1, m \in Good
        PROVE  m + 1 \in Good
    BY <2>1, <2>3
  <2>4. n \in Good
    <3> HIDE DEF Good
    <3>1. \A m \in 0 .. n - 1 : m \in Good => m + 1 \in Good
      BY <2>3
    <3>2. \A m \in 0 .. n : m \in Good
      BY <2>2, <3>1, CountingUp
    <3> QED
      BY <3>2
  <2>5. (n + 1) * (n + 1) <= n
    BY <2>1, <2>4
  <2>6. (n + 1) * (n + 1) = n * n + n + n + 1 /\ n * n >= 0
    OBVIOUS
  <2> QED
    BY <2>5, <2>6
<1>2. PICK root : root = CHOOSE d \in 0 .. n : d * d <= n /\ (d + 1) * (d + 1) > n
  OBVIOUS
<1>3. root \in 0 .. n /\ root * root <= n /\ (root + 1) * (root + 1) > n
  BY <1>1, <1>2
<1>4. Root[n] = root
  BY <1>2 DEF Root
<1> QED
  BY <1>3, <1>4

(* The sum of integers is one. *)
LEMMA TotalIsNumber ==
  ASSUME NEW values \in Seq(Int)
  PROVE  Total(values) \in Int
<1>1. PICK n \in Nat : n = Len(values)
  OBVIOUS
<1>2. PICK f : RunningTotal(f, values, n) /\ Total(values) = f[n]
  BY <1>1, TotalIsLast
<1>3. f[0] = 0 /\ \A k \in 1 .. n : f[k] = f[k - 1] + values[k]
  BY <1>2 DEF RunningTotal
<1> DEFINE Good == {m \in 0 .. n : f[m] \in Int}
<1>4. 0 \in Good
  BY <1>3
<1>5. \A m \in 0 .. n - 1 : m \in Good => m + 1 \in Good
  <2> TAKE m \in 0 .. n - 1
  <2>1. m + 1 \in 1 .. n /\ (m + 1) - 1 = m
    OBVIOUS
  <2>2. f[m + 1] = f[m] + values[m + 1] /\ values[m + 1] \in Int
    BY <1>1, <1>3, <2>1
  <2> QED
    BY <2>1, <2>2
<1>6. n \in Good
  <2> HIDE DEF Good
  <2>1. \A m \in 0 .. n : m \in Good
    BY <1>4, <1>5, CountingUp
  <2> QED
    BY <2>1
<1> QED
  BY <1>2, <1>6

(* The sum of naturals is one. *)
LEMMA NaturalsAddUp ==
  ASSUME NEW values \in Seq(Nat)
  PROVE  Total(values) \in Nat
<1>1. PICK n \in Nat : n = Len(values)
  OBVIOUS
<1>2. PICK f : RunningTotal(f, values, n) /\ Total(values) = f[n]
  <2>1. values \in Seq(Int)
    OBVIOUS
  <2> QED
    BY <1>1, <2>1, TotalIsLast
<1>3. f[0] = 0 /\ \A k \in 1 .. n : f[k] = f[k - 1] + values[k]
  BY <1>2 DEF RunningTotal
<1> DEFINE Good == {m \in 0 .. n : f[m] \in Nat}
<1>4. 0 \in Good
  BY <1>3
<1>5. \A m \in 0 .. n - 1 : m \in Good => m + 1 \in Good
  <2> TAKE m \in 0 .. n - 1
  <2>1. m + 1 \in 1 .. n /\ (m + 1) - 1 = m
    OBVIOUS
  <2>2. f[m + 1] = f[m] + values[m + 1] /\ values[m + 1] \in Nat
    BY <1>1, <1>3, <2>1
  <2> QED
    BY <2>1, <2>2
<1>6. n \in Good
  <2> HIDE DEF Good
  <2>1. \A m \in 0 .. n : m \in Good
    BY <1>4, <1>5, CountingUp
  <2> QED
    BY <2>1
<1> QED
  BY <1>2, <1>6

(* The squared distances to a number, and their sum. *)
LEMMA SquaresAddUp ==
  ASSUME NEW values \in Seq(Int), NEW mean \in Int
  PROVE  LET squares == [k \in DOMAIN values |-> (values[k] - mean) * (values[k] - mean)]
         IN  /\ squares \in Seq(Int) /\ Len(squares) = Len(values)
             /\ Total(squares) \in Nat
<1>1. PICK n \in Nat : n = Len(values) /\ DOMAIN values = 1 .. n
  OBVIOUS
<1>2. PICK squares : squares = [k \in 1 .. n |-> (values[k] - mean) * (values[k] - mean)]
  OBVIOUS
<1>3. \A i \in 1 .. n : squares[i] \in Nat
  <2> TAKE i \in 1 .. n
  <2>1. PICK d \in Int : d = values[i] - mean
    BY <1>1
  <2>2. d * d >= 0 /\ d * d \in Int
    OBVIOUS
  <2> QED
    BY <1>2, <2>1, <2>2
<1>4. squares \in Seq(Nat) /\ squares \in Seq(Int) /\ Len(squares) = n
  BY <1>2, <1>3
<1>5. Total(squares) \in Nat
  BY <1>4, NaturalsAddUp
<1> QED
  BY <1>1, <1>2, <1>4, <1>5

(* The deviation of one reading or more is a number, of one reading 0. *)
LEMMA DeviationIsNumber ==
  ASSUME NEW values \in Seq(Int), Len(values) >= 1, NEW mean \in Int
  PROVE  /\ Deviation(values, mean) \in Nat
         /\ Len(values) = 1 /\ values[1] = mean => Deviation(values, mean) = 0
<1>1. PICK n \in Nat : n = Len(values) /\ n >= 1 /\ DOMAIN values = 1 .. n
  OBVIOUS
<1>2. PICK squares : squares = [i \in 1 .. n |-> (values[i] - mean) * (values[i] - mean)]
  OBVIOUS
<1>5. squares \in Seq(Int) /\ Len(squares) = n /\ Total(squares) \in Nat
  BY <1>1, <1>2, SquaresAddUp
<1>6. PICK t : t = Total(squares)
  OBVIOUS
<1>7. Deviation(values, mean) = Root[t \div n]
  BY <1>1, <1>2, <1>6 DEF Deviation
<1>8. t \in Nat
  BY <1>5, <1>6
<1>9. t \div n \in Nat
  BY <1>1, <1>8
<1>10. Deviation(values, mean) \in Nat
  BY <1>7, <1>9, RootExists
<1>11. ASSUME n = 1, values[1] = mean
       PROVE  Deviation(values, mean) = 0
  <2>1. PICK z \in Int : z = 0
    OBVIOUS
  <2>2. squares[1] = z
    <3>1. values[1] - mean = 0
      BY <1>11
    <3>2. squares[1] = (values[1] - mean) * (values[1] - mean)
      BY <1>2, <1>11
    <3> QED
      BY <2>1, <3>1, <3>2
  <2>5. \A k \in 1 .. Len(squares) : z <= squares[k] /\ squares[k] <= z
    <3>1. 1 .. Len(squares) = {1}
      BY <1>5, <1>11
    <3> QED
      BY <2>1, <2>2, <3>1
  <2>6. /\ Total(squares) \in Int
        /\ Len(squares) * z <= Total(squares) /\ Total(squares) <= Len(squares) * z
    BY <1>5, <2>5, TotalBounds
  <2>3. t = 0
    BY <1>5, <1>6, <1>8, <2>1, <2>6
  <2>4. Root[0] \in 0 .. 0
    BY RootExists
  <2> QED
    BY <1>7, <1>11, <2>3, <2>4
<1> QED
  BY <1>1, <1>10, <1>11

-----------------------------------------------------------------------------
(* Statistics of a window.                                                 *)

(* The slots of a window, and the successful ones among them. *)
LEMMA SlotCounts ==
  ASSUME NEW S, NEW samples \in Seq(S)
  PROVE  LET ok == SuccessfulSlots(samples)
         IN  /\ Len(samples) \in Nat /\ DOMAIN samples = 1 .. Len(samples)
             /\ IsFiniteSet(DOMAIN samples) /\ Cardinality(DOMAIN samples) = Len(samples)
             /\ ok \in SUBSET (DOMAIN samples) /\ IsFiniteSet(ok) /\ Cardinality(ok) \in Nat
             /\ Cardinality(ok) = 0 <=> ok = {}
<1>2. PICK n \in Nat : n = Len(samples) /\ DOMAIN samples = 1 .. n
  OBVIOUS
<1>3. IsFiniteSet(1 .. n) /\ Cardinality(1 .. n) = IF 1 > n THEN 0 ELSE n - 1 + 1
  BY FS_Interval
<1>4. Cardinality(1 .. n) = n
  BY <1>3
<1> DEFINE ok == SuccessfulSlots(samples)
<1>5. ok \in SUBSET (1 .. n)
  BY <1>2 DEF SuccessfulSlots
<1> HIDE DEF ok
<1>6. IsFiniteSet(ok)
  BY <1>3, <1>5, FS_Subset
<1>7. Cardinality(ok) \in Nat /\ (Cardinality(ok) = 0 <=> ok = {})
  BY <1>6, FS_CardinalityType, FS_EmptySet
<1>8. /\ Len(samples) \in Nat /\ DOMAIN samples = 1 .. Len(samples)
      /\ IsFiniteSet(DOMAIN samples) /\ Cardinality(DOMAIN samples) = Len(samples)
  BY <1>2, <1>3, <1>4
<1>9. ok \in SUBSET (DOMAIN samples)
  BY <1>2, <1>5
<1> QED
  BY <1>6, <1>7, <1>8, <1>9 DEF ok

(* The values are the readings of the successful slots. *)
LEMMA CurrentsOfSlots ==
  ASSUME NEW S, NEW samples \in Seq(S),
         NEW T, \A i \in DOMAIN samples : samples[i].result.current \in T
  PROVE  LET values == Currents(samples)
         IN  /\ values \in Seq(T) /\ Len(values) = Cardinality(SuccessfulSlots(samples))
             /\ \A i \in SuccessfulSlots(samples) :
                  \E k \in 1 .. Len(values) : values[k] = samples[i].result.current
             /\ \A k \in 1 .. Len(values) :
                  \E i \in SuccessfulSlots(samples) : values[k] = samples[i].result.current
<1> DEFINE ok == SuccessfulSlots(samples)
           readings == [i \in DOMAIN samples |-> samples[i].result.current]
           values == Currents(samples)
<1>2. ok \in SUBSET (DOMAIN samples) /\ Len(samples) \in Nat /\ DOMAIN samples = 1 .. Len(samples)
  BY SlotCounts
<1>4. readings \in Seq(T) /\ DOMAIN readings = DOMAIN samples
  BY <1>2
<1>5. values = Picked(readings, ok)
  BY DEF Currents
<1>6. \A i \in ok : readings[i] = samples[i].result.current
  BY <1>2
<1> HIDE DEF ok, readings, values
<1> ok \in SUBSET (DOMAIN readings)
  BY <1>2, <1>4
<1>8. /\ values \in Seq(T) /\ Len(values) = Cardinality(ok)
      /\ \A k \in 1 .. Len(values) : \E i \in ok : values[k] = readings[i]
      /\ \A i \in ok : \E k \in 1 .. Len(values) : values[k] = readings[i]
  BY <1>4, <1>5, PickedMembers
<1>9. \A i \in ok : \E k \in 1 .. Len(values) : values[k] = samples[i].result.current
  BY <1>6, <1>8
<1>10. \A k \in 1 .. Len(values) : \E i \in ok : values[k] = samples[i].result.current
  BY <1>6, <1>8, SMTT(60)
<1> QED
  BY <1>8, <1>9, <1>10 DEF ok, values

(* The statistics of one reading or more, field by field. *)
StatisticsRecord(values) ==
  [measurements_count |-> Len(values),
   mean_current |-> Total(values) \div Len(values),
   median_current |->
     IF Len(values) % 2 = 1 THEN Sorted(values)[Len(values) \div 2 + 1]
     ELSE (Sorted(values)[(Len(values) \div 2 + 1) - 1]
            + Sorted(values)[Len(values) \div 2 + 1]) \div 2,
   standard_deviation_current |-> Deviation(values, Total(values) \div Len(values)),
   minimum_current |-> Sorted(values)[1],
   maximum_current |-> Sorted(values)[Len(values)]]

LEMMA StatisticsCalculated ==
  ASSUME NEW values \in Seq(Int), Len(values) >= 1
  PROVE  CalculateCurrentStatistics[values] = StatisticsRecord(values)
<1>1. Len(values) # 0
  OBVIOUS
<1> QED
  BY <1>1, ZenonT(60) DEF CalculateCurrentStatistics, StatisticsRecord

(* The statistics of one reading or more are always what the constructor of *)
(* CurrentStatistics takes: the mean and the median lie between the least   *)
(* and the greatest reading, the deviation is not negative, and a single    *)
(* reading is its own mean, median, minimum and maximum.                    *)
THEOREM StatisticsAlwaysAccepted ==
  \A values \in Seq(Int) :
    values # <<>> => CurrentStatisticsAccepts(CalculateCurrentStatistics[values])
<1> TAKE values \in Seq(Int)
<1> HAVE values # <<>>
<1>1. PICK n \in Nat : n = Len(values) /\ n >= 1
  OBVIOUS
<1>2. PICK sorted : sorted = Sorted(values)
  OBVIOUS
<1>3. PICK lo, hi : lo = sorted[1] /\ hi = sorted[n]
  OBVIOUS
<1>4. /\ lo \in Int /\ hi \in Int
      /\ \A k \in 1 .. n : lo <= values[k] /\ values[k] <= hi
      /\ \A i \in 1 .. n : \E k \in 1 .. n : sorted[i] = values[k]
  BY <1>1, <1>2, <1>3, SortedBounds
<1>5. \A i \in 1 .. n : sorted[i] \in Int /\ lo <= sorted[i] /\ sorted[i] <= hi
  <2> TAKE i \in 1 .. n
  <2>1. PICK k \in 1 .. n : sorted[i] = values[k]
    BY <1>4
  <2>2. values[k] \in Int
    BY <1>1
  <2> QED
    BY <1>4, <2>1, <2>2
<1>6. PICK t : t = Total(values)
  OBVIOUS
<1>7. t \in Int /\ n * lo <= t /\ t <= n * hi
  BY <1>1, <1>4, <1>6, TotalBounds
<1>8. PICK mean : mean = t \div n
  OBVIOUS
<1>9. mean \in Int /\ lo <= mean /\ mean <= hi
  BY <1>1, <1>4, <1>7, <1>8, QuotientBounds
<1>10. PICK middle, median :
         /\ middle = n \div 2 + 1
         /\ median = IF n % 2 = 1 THEN sorted[middle]
                     ELSE (sorted[middle - 1] + sorted[middle]) \div 2
  OBVIOUS
<1>11. /\ n % 2 # 1 => middle - 1 \in 1 .. n /\ middle \in 1 .. n
       /\ n % 2 = 1 => middle \in 1 .. n
       /\ n = 1 => n % 2 = 1 /\ middle = 1
  BY <1>1, <1>10
<1>12. median \in Int /\ lo <= median /\ median <= hi
  <2>1. CASE n % 2 = 1
    BY <1>5, <1>10, <1>11, <2>1
  <2>2. CASE n % 2 # 1
    <3>1. PICK a, b : a = sorted[middle - 1] /\ b = sorted[middle]
      OBVIOUS
    <3>2. /\ a \in Int /\ lo <= a /\ a <= hi
          /\ b \in Int /\ lo <= b /\ b <= hi
      BY <1>5, <1>11, <2>2, <3>1
    <3>3. median = (a + b) \div 2
      BY <1>10, <2>2, <3>1
    <3> QED
      BY <1>4, <3>2, <3>3
  <2> QED
    BY <2>1, <2>2
<1>13. PICK deviation : deviation = Deviation(values, mean)
  OBVIOUS
<1>14. deviation \in Nat /\ (n = 1 /\ values[1] = mean => deviation = 0)
  BY <1>1, <1>9, <1>13, DeviationIsNumber
<1>15. ASSUME n = 1
       PROVE  lo = mean /\ hi = mean /\ median = mean /\ values[1] = mean
  <2>1. lo = hi
    BY <1>3, <1>15
  <2>2. mean = lo /\ median = lo
    BY <1>4, <1>9, <1>12, <2>1
  <2>3. values[1] = lo
    <3>1. PICK v \in Int : v = values[1]
      BY <1>1
    <3>2. lo <= v /\ v <= hi
      BY <1>4, <1>15, <3>1
    <3> QED
      BY <1>4, <2>1, <3>1, <3>2
  <2> QED
    BY <2>1, <2>2, <2>3
<1>16. PICK s : s = CalculateCurrentStatistics[values]
  OBVIOUS
<1>17. /\ s.measurements_count = n /\ s.mean_current = mean /\ s.median_current = median
       /\ s.standard_deviation_current = deviation
       /\ s.minimum_current = lo /\ s.maximum_current = hi
  <2>1. CalculateCurrentStatistics[values] = StatisticsRecord(values)
    BY <1>1, StatisticsCalculated
  <2>2. s = [measurements_count |-> n, mean_current |-> mean,
             median_current |-> IF n % 2 = 1 THEN sorted[middle]
                                ELSE (sorted[middle - 1] + sorted[middle]) \div 2,
             standard_deviation_current |-> deviation,
             minimum_current |-> sorted[1], maximum_current |-> sorted[n]]
    BY <1>1, <1>2, <1>6, <1>8, <1>10, <1>13, <1>16, <2>1 DEF StatisticsRecord
  <2>3. s = [measurements_count |-> n, mean_current |-> mean, median_current |-> median,
             standard_deviation_current |-> deviation,
             minimum_current |-> lo, maximum_current |-> hi]
    BY <1>3, <1>10, <2>2
  <2> QED
    BY <2>3
<1>18. CurrentStatisticsAccepts(s)
  <2>1. n >= 1 /\ mean \in lo .. hi /\ median \in lo .. hi
    BY <1>1, <1>4, <1>9, <1>12
  <2>2. n = 1 => {median, lo, hi} = {mean} /\ deviation = 0
    BY <1>14, <1>15
  <2> QED
    BY <1>14, <1>17, <2>1, <2>2 DEF CurrentStatisticsAccepts
<1> QED
  BY <1>16, <1>18

StatisticsKeys ==
  {"measurements_count", "mean_current", "median_current", "standard_deviation_current",
   "minimum_current", "maximum_current"}

(* What the statistics of a window are, and when there are none. *)
LEMMA StatisticsOfSlots ==
  ASSUME NEW S, NEW samples \in Seq(S),
         \A i \in DOMAIN samples : samples[i].result.current \in Int
  PROVE  LET s == CalculateCurrentStatistics[Currents(samples)]
             ok == SuccessfulSlots(samples)
         IN  /\ s = Null <=> ok = {}
             /\ s # Null =>
                  /\ DOMAIN s = StatisticsKeys /\ s.measurements_count = Cardinality(ok)
                  /\ s.minimum_current \in Int /\ s.maximum_current \in Int
                  /\ \A i \in ok : /\ s.minimum_current <= samples[i].result.current
                                   /\ samples[i].result.current <= s.maximum_current
                  /\ \E i \in ok : s.minimum_current = samples[i].result.current
                  /\ \E i \in ok : s.maximum_current = samples[i].result.current
                  /\ CurrentStatisticsAccepts(s) /\ \A k \in StatisticsKeys : s[k] \in Int
<1>0. PICK values, ok, s, n :
        /\ values = Currents(samples) /\ ok = SuccessfulSlots(samples)
        /\ s = CalculateCurrentStatistics[values] /\ n = Cardinality(ok)
  OBVIOUS
<1>1. n \in Nat /\ (n = 0 <=> ok = {})
  BY <1>0, SlotCounts
<1>2. /\ values \in Seq(Int) /\ Len(values) = n
      /\ \A i \in ok : \E k \in 1 .. Len(values) : values[k] = samples[i].result.current
      /\ \A k \in 1 .. Len(values) : \E i \in ok : values[k] = samples[i].result.current
  BY <1>0, CurrentsOfSlots
<1>3. CASE n = 0
  <2>1. s = Null
    BY <1>0, <1>2, <1>3 DEF CalculateCurrentStatistics
  <2> QED
    BY <1>0, <1>1, <1>3, <2>1
<1>4. CASE n # 0
  <2>1. /\ DOMAIN s = StatisticsKeys /\ s.measurements_count = n
        /\ s.minimum_current = Sorted(values)[1] /\ s.maximum_current = Sorted(values)[n]
    <3> DEFINE mean == Total(values) \div Len(values)
               middle == Len(values) \div 2 + 1
               median == IF Len(values) % 2 = 1 THEN Sorted(values)[middle]
                         ELSE (Sorted(values)[middle - 1] + Sorted(values)[middle]) \div 2
               deviation == Deviation(values, mean)
    <3>0. Len(values) # 0
      BY <1>2, <1>4
    <3>1. s = [measurements_count |-> Len(values), mean_current |-> mean,
               median_current |-> median, standard_deviation_current |-> deviation,
               minimum_current |-> Sorted(values)[1],
               maximum_current |-> Sorted(values)[Len(values)]]
      BY <1>0, <1>2, <3>0, Zenon DEF CalculateCurrentStatistics
    <3> HIDE DEF mean, middle, median, deviation
    <3> QED
      BY <1>2, <3>1 DEF StatisticsKeys
  <2>2. s # Null
    BY <2>1, SMTT(60) DEF Null, StatisticsKeys
  <2>3. /\ s.minimum_current \in Int /\ s.maximum_current \in Int
        /\ \A k \in 1 .. n : s.minimum_current <= values[k] /\ values[k] <= s.maximum_current
        /\ \E k \in 1 .. n : s.minimum_current = values[k]
        /\ \E k \in 1 .. n : s.maximum_current = values[k]
    <3>1. Len(values) >= 1
      BY <1>1, <1>2, <1>4
    <3>2. PICK first, last : first = Sorted(values)[1] /\ last = Sorted(values)[Len(values)]
      OBVIOUS
    <3>3. /\ first \in Int /\ last \in Int
          /\ \A k \in 1 .. Len(values) : first <= values[k] /\ values[k] <= last
          /\ \E k \in 1 .. Len(values) : first = values[k]
          /\ \E k \in 1 .. Len(values) : last = values[k]
      BY <1>2, <3>1, <3>2, SortedBounds
    <3>4. s.minimum_current = first /\ s.maximum_current = last
      BY <1>2, <2>1, <3>2
    <3> QED
      BY <1>2, <3>3, <3>4
  <2>4. \A i \in ok : /\ s.minimum_current <= samples[i].result.current
                      /\ samples[i].result.current <= s.maximum_current
    BY <1>2, <2>3
  <2>5. \E i \in ok : s.minimum_current = samples[i].result.current
    <3>1. PICK k \in 1 .. n : s.minimum_current = values[k]
      BY <2>3
    <3> QED
      BY <1>2, <3>1
  <2>6. \E i \in ok : s.maximum_current = samples[i].result.current
    <3>1. PICK k \in 1 .. n : s.maximum_current = values[k]
      BY <2>3
    <3> QED
      BY <1>2, <3>1
  <2>9. CurrentStatisticsAccepts(s)
    <3>1. values # <<>>
      BY <1>2, <1>4
    <3> QED
      BY <1>0, <1>2, <3>1, StatisticsAlwaysAccepted
  <2>7. \A k \in StatisticsKeys : s[k] \in Int
    <3>1. /\ s.mean_current \in s.minimum_current .. s.maximum_current
          /\ s.median_current \in s.minimum_current .. s.maximum_current
          /\ s.standard_deviation_current \in Nat
      BY <2>9 DEF CurrentStatisticsAccepts
    <3>2. s.mean_current \in Int /\ s.median_current \in Int
      BY <2>3, <3>1
    <3> QED
      BY <1>1, <2>1, <2>3, <3>1, <3>2 DEF StatisticsKeys
  <2>8. ok # {}
    BY <1>1, <1>4
  <2> QED
    BY <1>0, <2>1, <2>2, <2>3, <2>4, <2>5, <2>6, <2>7, <2>8, <2>9
<1> QED
  BY <1>3, <1>4

(* Analysing a window never raises: whatever was recorded, its statistics   *)
(* are none or what CurrentStatistics takes, so a run is archivable as soon *)
(* as its window passed its own constructors.                               *)
THEOREM EveryWindowIsArchivable ==
  ASSUME NEW run, WindowAccepts(run.result),
         run \in [run_id : {run.run_id}, archived_at : Nat, metadata : {run.metadata},
                 result : {run.result}]
  PROVE  RunAccepts(run)
<1>1. PICK r, s : r = run.result /\ s = Statistics(r)
  OBVIOUS
<1>2. PICK samples : samples = r.samples /\ samples \in Seq(ArchivedSample)
  BY <1>1 DEF WindowAccepts, ArchivedSampling
<1>3. \A i \in DOMAIN samples : samples[i].result.current \in Int
  <2> TAKE i \in DOMAIN samples
  <2>1. PICK x \in ArchivedSample : x = samples[i]
    BY <1>2
  <2>2. x.result.current \in Nat \cup {NoTime}
    BY DEF ArchivedSample, ArchivedMeasurement
  <2> QED
    BY <2>1, <2>2 DEF NoTime
<1>4. s = CalculateCurrentStatistics[Currents(samples)]
  BY <1>1, <1>2 DEF Statistics
<1>5. s = Null \/ CurrentStatisticsAccepts(s)
  BY <1>2, <1>3, <1>4, StatisticsOfSlots
<1> QED
  BY <1>1, <1>5 DEF RunAccepts
=============================================================================
