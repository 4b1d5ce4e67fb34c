--------------------------- MODULE Selection_proofs ---------------------------
(***************************************************************************)
(* Induction over the natural numbers and over the subsets of a finite     *)
(* set, what a comprehension returns and what a sum is.                    *)
(***************************************************************************)
EXTENDS Selection, TLAPS, NaturalsInduction, WellFoundedInduction, FiniteSetTheorems

(* A set of numbers with 0 and the successor of each of its elements has   *)
(* all of them.                                                            *)
LEMMA Induction ==
    ASSUME NEW T \in SUBSET Nat, 0 \in T, \A n \in T : n + 1 \in T
    PROVE  T = Nat
<1> DEFINE Less == {ss \in Nat \X Nat : ss[1] < ss[2]}
           Missing == Nat \ T
<1>1. IsWellFoundedOn(Less, Nat)
  BY NatLessThanWellFounded DEF OpToRel
<1>2. SUFFICES ASSUME Missing # {} PROVE FALSE
  OBVIOUS
<1>3. PICK n \in Missing : \A m \in Missing : ~ (<<m, n>> \in Less)
  BY <1>1, <1>2, WFMin
<1>4. n - 1 \in Missing /\ n - 1 < n
  BY <1>3
<1>5. <<n - 1, n>> \in Less
  BY <1>3, <1>4
<1> QED
  BY <1>3, <1>4, <1>5

-----------------------------------------------------------------------------

(* One element further: what has been kept of the first i.                 *)
Further(taken, seq, keep, i) ==
    IF i = 0 THEN <<>>
    ELSE IF seq[i] \in keep THEN Append(taken[i - 1], seq[i])
    ELSE taken[i - 1]

Solution(taken, S, seq, keep) ==
    /\ taken \in [0 .. Len(seq) -> Seq(S)]
    /\ \A i \in 0 .. Len(seq) : taken[i] = Further(taken, seq, keep, i)

Iterates(S, base, n, step) ==
    \E g \in [0 .. n -> S] : g[0] = base /\ \A i \in 1 .. n : g[i] = step[<<g[i - 1], i>>]

(* A recursion over 0 .. n whose steps stay in S has a solution there.     *)
LEMMA Iteration ==
    ASSUME NEW S, NEW base \in S, NEW n \in Nat, NEW step \in [S \X (1 .. n) -> S]
    PROVE  Iterates(S, base, n, step)
<1> DEFINE Solves(g, k) == g[0] = base /\ \A i \in 1 .. k : g[i] = step[<<g[i - 1], i>>]
           T == {k \in Nat : k <= n => \E g \in [0 .. k -> S] : Solves(g, k)}
<1>1. 0 \in T
  <2> DEFINE g == [i \in 0 .. 0 |-> base]
  <2>1. g \in [0 .. 0 -> S] /\ Solves(g, 0)
    OBVIOUS
  <2> QED
    BY <2>1
<1>2. ASSUME NEW k \in T PROVE k + 1 \in T
  <2> HIDE DEF Solves
  <2> SUFFICES ASSUME k + 1 <= n PROVE \E g \in [0 .. k + 1 -> S] : Solves(g, k + 1)
    OBVIOUS
  <2>0. k \in Nat /\ k <= n /\ k + 1 \in 1 .. n
    OBVIOUS
  <2>1. PICK f \in [0 .. k -> S] : Solves(f, k)
    BY <2>0
  <2> USE DEF Solves
  <2> DEFINE last == step[<<f[k], k + 1>>]
             g == [i \in 0 .. k + 1 |-> IF i <= k THEN f[i] ELSE last]
  <2>2. last \in S
    BY <2>0
  <2>3. g \in [0 .. k + 1 -> S]
    BY <2>0, <2>2
  <2>4. \A i \in 0 .. k : g[i] = f[i]
    BY <2>0
  <2>5. ASSUME NEW i \in 1 .. k + 1 PROVE g[i] = step[<<g[i - 1], i>>]
    <3>1. g[i - 1] = f[i - 1] /\ i \in Nat
      BY <2>0, <2>4
    <3> HIDE DEF g
    <3>2. CASE i <= k
      BY <2>0, <2>1, <2>4, <3>1, <3>2
    <3>3. CASE i = k + 1
      BY <2>0, <3>1, <3>3 DEF g
    <3> QED
      BY <2>0, <3>2, <3>3
  <2>6. g[0] = base
    BY <2>0, <2>1, <2>4
  <2> HIDE DEF g
  <2>7. Solves(g, k + 1)
    BY <2>5, <2>6
  <2> HIDE DEF Solves
  <2> QED
    BY <2>3, <2>7
<1>3. T = Nat
  <2> HIDE DEF T
  <2>1. T \in SUBSET Nat
    BY DEF T
  <2> QED
    BY <1>1, <1>2, <2>1, Induction
<1>4. PICK g \in [0 .. n -> S] : Solves(g, n)
  <2> HIDE DEF Solves
  <2>1. n \in T /\ n <= n
    BY <1>3
  <2> QED
    BY <2>1
<1> QED
  BY <1>4 DEF Iterates

(* The recursion of Kept has a solution.                                   *)
LEMMA TakenExists ==
    ASSUME NEW S, NEW seq \in Seq(S), NEW keep
    PROVE  \E taken : Solution(taken, S, seq, keep)
<1> DEFINE Solves(g, n) == \A i \in 0 .. n : g[i] = Further(g, seq, keep, i)
           T == {n \in Nat : n <= Len(seq) => \E g \in [0 .. n -> Seq(S)] : Solves(g, n)}
<1>1. 0 \in T
  <2> DEFINE g == [i \in 0 .. 0 |-> <<>>]
  <2>1. g \in [0 .. 0 -> Seq(S)] /\ Solves(g, 0)
    BY DEF Further
  <2> QED
    BY <2>1
<1>2. ASSUME NEW n \in T PROVE n + 1 \in T
  <2> HIDE DEF Solves
  <2> SUFFICES ASSUME n + 1 <= Len(seq) PROVE \E g \in [0 .. n + 1 -> Seq(S)] : Solves(g, n + 1)
    OBVIOUS
  <2>0. n \in Nat /\ n <= Len(seq)
    OBVIOUS
  <2>1. PICK f \in [0 .. n -> Seq(S)] : Solves(f, n)
    BY <2>0
  <2> USE DEF Solves
  <2> DEFINE g == [i \in 0 .. n + 1 |-> IF i <= n THEN f[i] ELSE Further(f, seq, keep, n + 1)]
  <2>2. seq[n + 1] \in S /\ f[n] \in Seq(S)
    BY <2>0
  <2>3. Further(f, seq, keep, n + 1) \in Seq(S)
    BY <2>0, <2>2 DEF Further
  <2>4. g \in [0 .. n + 1 -> Seq(S)]
    BY <2>0, <2>3
  <2>5. ASSUME NEW i \in 0 .. n + 1 PROVE g[i] = Further(g, seq, keep, i)
    <3>1. i # 0 => g[i - 1] = f[i - 1]
      BY <2>0
    <3>2. Further(g, seq, keep, i) = Further(f, seq, keep, i)
      BY <3>1 DEF Further
    <3>3. CASE i <= n
      BY <2>0, <2>1, <3>2, <3>3
    <3>4. CASE i = n + 1
      BY <2>0, <3>2, <3>4
    <3> QED
      BY <2>0, <3>3, <3>4
  <2>6. Solves(g, n + 1)
    BY <2>5
  <2> HIDE DEF g, Solves
  <2> QED
    BY <2>4, <2>6
<1>3. T = Nat
  <2> HIDE DEF T
  <2>1. T \in SUBSET Nat
    BY DEF T
  <2> QED
    BY <1>1, <1>2, <2>1, Induction
<1>4. PICK g \in [0 .. Len(seq) -> Seq(S)] : Solves(g, Len(seq))
  <2> HIDE DEF Solves
  <2>1. Len(seq) \in T /\ Len(seq) <= Len(seq)
    BY <1>3
  <2> QED
    BY <2>1
<1> QED
  BY <1>4 DEF Solution

(* What remains of seq: the elements of keep, each at the place that at    *)
(* gives, none before its turn and in the same order.                      *)
Remains(kept, at, seq, keep, n) ==
    /\ at \in [1 .. Len(kept) -> 1 .. n]
    /\ \A i \in 1 .. Len(kept) : kept[i] = seq[at[i]] /\ kept[i] \in keep /\ i <= at[i]
    /\ \A i, j \in 1 .. Len(kept) : i < j => at[i] < at[j]
    /\ \A k \in 1 .. n : seq[k] \in keep => \E i \in 1 .. Len(kept) : at[i] = k
    /\ (\A k \in 1 .. n : seq[k] \in keep) => Len(kept) = n /\ \A i \in 1 .. n : at[i] = i

(* Kept returns the elements of keep in their order.                       *)
LEMMA KeptProperties ==
    ASSUME NEW S, NEW seq \in Seq(S), NEW keep
    PROVE  /\ Kept(seq, keep) \in Seq(S)
           /\ \E at : Remains(Kept(seq, keep), at, seq, keep, Len(seq))
<1> DEFINE taken == CHOOSE taken : taken = [i \in 0 .. Len(seq) |-> Further(taken, seq, keep, i)]
<1>1. taken = [i \in 0 .. Len(seq) |-> Further(taken, seq, keep, i)]
  <2> HIDE DEF taken
  <2>0. PICK g : Solution(g, S, seq, keep)
    BY TakenExists
  <2>2. g = [i \in 0 .. Len(seq) |-> Further(g, seq, keep, i)]
    BY <2>0 DEF Solution
  <2>1. \E h : h = [i \in 0 .. Len(seq) |-> Further(h, seq, keep, i)]
    BY <2>2, Zenon
  <2> QED
    BY <2>1, Zenon DEF taken
<1>2. Kept(seq, keep) = taken[Len(seq)]
  BY Zenon DEF Kept, Further
<1> HIDE DEF taken
<1> DEFINE T == {n \in Nat : n <= Len(seq) => /\ taken[n] \in Seq(S)
                                              /\ \E at : Remains(taken[n], at, seq, keep, n)}
<1>3. 0 \in T
  <2>1. taken[0] = <<>>
    BY <1>1 DEF Further
  <2>2. Remains(<<>>, <<>>, seq, keep, 0)
    BY DEF Remains
  <2>3. taken[0] \in Seq(S) /\ \E at : Remains(taken[0], at, seq, keep, 0)
    BY <2>1, <2>2
  <2> QED
    BY <2>3
<1>4. ASSUME NEW n \in T PROVE n + 1 \in T
  <2> SUFFICES ASSUME n + 1 <= Len(seq)
               PROVE  taken[n + 1] \in Seq(S) /\ \E at : Remains(taken[n + 1], at, seq, keep, n + 1)
    OBVIOUS
  <2>1. n \in Nat /\ n <= Len(seq) /\ taken[n] \in Seq(S)
    OBVIOUS
  <2>2. PICK at : Remains(taken[n], at, seq, keep, n)
    BY <2>1
  <2>3. taken[n + 1] = IF seq[n + 1] \in keep THEN Append(taken[n], seq[n + 1]) ELSE taken[n]
    <3>1. n + 1 \in 0 .. Len(seq) /\ n + 1 # 0 /\ (n + 1) - 1 = n
      BY <2>1
    <3>2. taken[n + 1] = Further(taken, seq, keep, n + 1)
      BY <1>1, <3>1
    <3> QED
      BY <3>1, <3>2 DEF Further
  <2>4. CASE seq[n + 1] \in keep
    <3> DEFINE kept == Append(taken[n], seq[n + 1])
               more == [i \in 1 .. Len(taken[n]) + 1 |-> IF i <= Len(taken[n]) THEN at[i] ELSE n + 1]
    <3>1. kept \in Seq(S) /\ Len(kept) = Len(taken[n]) + 1 /\ Len(taken[n]) \in Nat
      BY <2>1
    <3>2. \A i \in 1 .. Len(kept) : kept[i] = IF i <= Len(taken[n]) THEN taken[n][i] ELSE seq[n + 1]
      BY <2>1
    <3> HIDE DEF kept
    <3>3. Len(taken[n]) <= n
      <4>1. CASE Len(taken[n]) = 0
        BY <2>1, <4>1
      <4>2. CASE Len(taken[n]) \in 1 .. Len(taken[n])
        <5>1. /\ at \in [1 .. Len(taken[n]) -> 1 .. n]
              /\ \A i \in 1 .. Len(taken[n]) : i <= at[i]
          BY <2>2 DEF Remains
        <5> QED
          BY <2>1, <4>2, <5>1
      <4> QED
        BY <3>1, <4>1, <4>2
    <3>4. Remains(kept, more, seq, keep, n + 1)
      <4>1. more \in [1 .. Len(kept) -> 1 .. n + 1]
        BY <2>1, <2>2, <3>1 DEF Remains
      <4>2. ASSUME NEW i \in 1 .. Len(kept)
            PROVE  kept[i] = seq[more[i]] /\ kept[i] \in keep /\ i <= more[i]
        <5>1. CASE i \in 1 .. Len(taken[n])
          <6>1. taken[n][i] = seq[at[i]] /\ taken[n][i] \in keep /\ i <= at[i]
            BY <2>2, <5>1 DEF Remains
          <6> QED
            BY <3>1, <3>2, <5>1, <6>1
        <5>2. CASE i = Len(taken[n]) + 1
          BY <2>1, <2>4, <3>1, <3>2, <3>3, <5>2
        <5> QED
          BY <3>1, <5>1, <5>2
      <4>3. ASSUME NEW i \in 1 .. Len(kept), NEW j \in 1 .. Len(kept), i < j PROVE more[i] < more[j]
        <5>1. i \in 1 .. Len(taken[n])
          BY <3>1, <4>3
        <5>4. at[i] \in 1 .. n
          BY <2>2, <5>1 DEF Remains
        <5>2. CASE j \in 1 .. Len(taken[n])
          BY <2>2, <4>3, <5>1, <5>2 DEF Remains
        <5>3. CASE j = Len(taken[n]) + 1
          BY <2>1, <3>1, <5>1, <5>3, <5>4
        <5> QED
          BY <3>1, <5>2, <5>3
      <4>4. ASSUME NEW k \in 1 .. n + 1, seq[k] \in keep PROVE \E i \in 1 .. Len(kept) : more[i] = k
        <5>1. CASE k = n + 1
          BY <3>1, <5>1
        <5>2. CASE k \in 1 .. n
          <6>1. PICK i \in 1 .. Len(taken[n]) : at[i] = k
            BY <2>2, <4>4, <5>2 DEF Remains
          <6> QED
            BY <3>1, <6>1
        <5> QED
          BY <2>1, <5>1, <5>2
      <4>5. ASSUME \A k \in 1 .. n + 1 : seq[k] \in keep
            PROVE  Len(kept) = n + 1 /\ \A i \in 1 .. n + 1 : more[i] = i
        <5>1. \A k \in 1 .. n : seq[k] \in keep
          BY <2>1, <4>5
        <5>2. Len(taken[n]) = n /\ \A i \in 1 .. n : at[i] = i
          BY <2>2, <5>1 DEF Remains
        <5> QED
          BY <2>1, <3>1, <5>2
      <4> HIDE DEF more
      <4> QED
        BY <4>1, <4>2, <4>3, <4>4, <4>5 DEF Remains
    <3> QED
      BY <2>3, <2>4, <3>1, <3>4 DEF kept
  <2>5. CASE seq[n + 1] \notin keep
    <3>1. Remains(taken[n], at, seq, keep, n + 1)
      BY <2>1, <2>2, <2>5 DEF Remains
    <3> QED
      BY <2>1, <2>3, <2>5, <3>1
  <2> QED
    BY <2>4, <2>5
<1>5. T = Nat
  <2> HIDE DEF T
  <2>1. T \in SUBSET Nat
    BY DEF T
  <2> QED
    BY <1>3, <1>4, <2>1, Induction
<1> QED
  BY <1>2, <1>5

(* Kept has the elements of seq that are in keep, and no element twice     *)
(* that seq does not have twice.                                           *)
LEMMA KeptElements ==
    ASSUME NEW S, NEW seq \in Seq(S), NEW keep, NEW x
    PROVE  (\E i \in 1 .. Len(Kept(seq, keep)) : Kept(seq, keep)[i] = x)
             <=> x \in keep /\ \E k \in 1 .. Len(seq) : seq[k] = x
<1>1. PICK at : Remains(Kept(seq, keep), at, seq, keep, Len(seq))
  BY KeptProperties
<1>2. ASSUME NEW i \in 1 .. Len(Kept(seq, keep)), Kept(seq, keep)[i] = x
      PROVE  x \in keep /\ \E k \in 1 .. Len(seq) : seq[k] = x
  <2>1. at[i] \in 1 .. Len(seq) /\ seq[at[i]] = x /\ x \in keep
    BY <1>1, <1>2 DEF Remains
  <2> QED
    BY <2>1
<1>3. ASSUME NEW k \in 1 .. Len(seq), seq[k] = x, x \in keep
      PROVE  \E i \in 1 .. Len(Kept(seq, keep)) : Kept(seq, keep)[i] = x
  BY <1>1, <1>3 DEF Remains
<1> QED
  BY <1>2, <1>3

(* Without repetitions before, none after.                                 *)
LEMMA KeptDistinct ==
    ASSUME NEW S, NEW seq \in Seq(S), NEW keep,
           \A i, j \in 1 .. Len(seq) : seq[i] = seq[j] => i = j
    PROVE  \A i, j \in 1 .. Len(Kept(seq, keep)) : Kept(seq, keep)[i] = Kept(seq, keep)[j] => i = j
<1>1. PICK at : Remains(Kept(seq, keep), at, seq, keep, Len(seq))
  BY KeptProperties
<1>2. Len(Kept(seq, keep)) \in Nat
  BY KeptProperties
<1> SUFFICES ASSUME NEW i \in 1 .. Len(Kept(seq, keep)), NEW j \in 1 .. Len(Kept(seq, keep)),
                    Kept(seq, keep)[i] = Kept(seq, keep)[j]
             PROVE  i = j
  OBVIOUS
<1>3. at[i] = at[j]
  BY <1>1 DEF Remains
<1>4. at[i] \in Nat /\ at[j] \in Nat
  BY <1>1 DEF Remains
<1>5. (i < j => at[i] < at[j]) /\ (j < i => at[j] < at[i])
  BY <1>1 DEF Remains
<1> QED
  BY <1>2, <1>3, <1>4, <1>5

(* What is kept of a sequence of which all is kept.                        *)
LEMMA KeptAll ==
    ASSUME NEW S, NEW seq \in Seq(S), NEW keep, \A k \in 1 .. Len(seq) : seq[k] \in keep
    PROVE  Kept(seq, keep) = seq
<1>1. PICK at : Remains(Kept(seq, keep), at, seq, keep, Len(seq))
  BY KeptProperties
<1>2. Kept(seq, keep) \in Seq(S)
  BY KeptProperties
<1>3. Len(Kept(seq, keep)) = Len(seq) /\ \A i \in 1 .. Len(seq) : Kept(seq, keep)[i] = seq[i]
  BY <1>1 DEF Remains
<1> QED
  BY <1>2, <1>3

-----------------------------------------------------------------------------

(* A set of subsets of a finite set, with each of them that is in it       *)
(* whichever of its elements it is without, has all of them.               *)
LEMMA SubsetInduction ==
    ASSUME NEW S, IsFiniteSet(S), NEW P \in SUBSET (SUBSET S),
           \A U \in SUBSET S : (\A x \in U : U \ {x} \in P) => U \in P
    PROVE  P = SUBSET S
<1> DEFINE T == {n \in Nat : \A U \in SUBSET S : Cardinality(U) = n => U \in P}
<1>0. ASSUME NEW U \in SUBSET S PROVE IsFiniteSet(U) /\ Cardinality(U) \in Nat
  BY FS_Subset, FS_CardinalityType
<1>1. 0 \in T
  BY <1>0, FS_EmptySet
<1>2. ASSUME NEW n \in T PROVE n + 1 \in T
  <2> SUFFICES ASSUME NEW U \in SUBSET S, Cardinality(U) = n + 1 PROVE U \in P
    OBVIOUS
  <2>1. \A x \in U : Cardinality(U \ {x}) = n /\ U \ {x} \in SUBSET S
    BY <1>0, FS_RemoveElement
  <2> QED
    BY <2>1
<1>3. T = Nat
  <2> HIDE DEF T
  <2>1. T \in SUBSET Nat
    BY DEF T
  <2> QED
    BY <1>1, <1>2, <2>1, Induction
<1> QED
  BY <1>0, <1>3

(* The sum over a set from the sums over its subsets.                      *)
More(value, sum, U) ==
    IF U = {} THEN 0 ELSE LET x == CHOOSE x \in U : TRUE IN value[x] + sum[U \ {x}]

(* The sums of the subsets of S.                                           *)
Sums(value, sum, S) ==
    /\ sum \in [SUBSET S -> Nat]
    /\ \A U \in SUBSET S : sum[U] = More(value, sum, U)

(* The recursion of a sum of numbers over a finite set has a solution.     *)
LEMMA SumsExist ==
    ASSUME NEW S, IsFiniteSet(S), NEW value, \A x \in S : value[x] \in Nat
    PROVE  \E sum : Sums(value, sum, S)
<1> DEFINE Small(n) == {U \in SUBSET S : Cardinality(U) <= n}
           Solves(sum, n) == /\ sum \in [Small(n) -> Nat]
                             /\ \A U \in Small(n) : sum[U] = More(value, sum, U)
           T == {n \in Nat : \E sum : Solves(sum, n)}
<1>0. ASSUME NEW U \in SUBSET S PROVE IsFiniteSet(U) /\ Cardinality(U) \in Nat /\ Cardinality(U) <= Cardinality(S)
  BY FS_Subset, FS_CardinalityType
<1>1. 0 \in T
  <2> DEFINE sum == [U \in Small(0) |-> 0]
  <2>1. \A U \in Small(0) : U = {}
    BY <1>0, FS_EmptySet
  <2>2. Solves(sum, 0)
    BY <2>1 DEF More
  <2> QED
    BY <2>2
<1>2. ASSUME NEW n \in T PROVE n + 1 \in T
  <2>1. PICK old : Solves(old, n)
    OBVIOUS
  <2> DEFINE sum == [U \in Small(n + 1) |-> More(value, old, U)]
             first(U) == CHOOSE x \in U : TRUE
  <2>2. ASSUME NEW U \in Small(n + 1), U # {} PROVE first(U) \in U /\ U \ {first(U)} \in Small(n)
    <3>1. first(U) \in U
      BY <2>2
    <3> HIDE DEF first
    <3>2. Cardinality(U \ {first(U)}) = Cardinality(U) - 1
      BY <1>0, <3>1, FS_RemoveElement
    <3> QED
      BY <1>0, <3>1, <3>2
  <2>3. \A U \in Small(n) : sum[U] = old[U]
    <3>1. \A U \in Small(n) : U \in Small(n + 1)
      BY <1>0
    <3> QED
      BY <2>1, <3>1
  <2>4. ASSUME NEW U \in Small(n + 1) PROVE sum[U] = More(value, sum, U) /\ sum[U] \in Nat
    <3>1. CASE U = {}
      BY <3>1 DEF More
    <3>2. CASE U # {}
      <4>1. sum[U] = value[first(U)] + old[U \ {first(U)}]
        BY <3>2 DEF More
      <4>2. More(value, sum, U) = value[first(U)] + sum[U \ {first(U)}]
        BY <3>2 DEF More
      <4>3. value[first(U)] \in Nat /\ old[U \ {first(U)}] \in Nat
        <5> HIDE DEF first
        <5> QED
          BY <2>1, <2>2, <3>2
      <4> HIDE DEF sum, first
      <4> QED
        BY <2>2, <2>3, <3>2, <4>1, <4>2, <4>3
    <3> QED
      BY <3>1, <3>2
  <2>5. Solves(sum, n + 1)
    <3> HIDE DEF More
    <3>1. sum \in [Small(n + 1) -> Nat]
      BY <2>4
    <3> HIDE DEF sum
    <3> QED
      BY <2>4, <3>1
  <2> QED
    <3> HIDE DEF Solves
    <3> QED
      BY <2>5
<1>3. T = Nat
  <2> HIDE DEF T
  <2>1. T \in SUBSET Nat
    BY DEF T
  <2> QED
    BY <1>1, <1>2, <2>1, Induction
<1>4. PICK sum : Solves(sum, Cardinality(S))
  <2> HIDE DEF Solves
  <2>1. Cardinality(S) \in T
    BY <1>3, FS_CardinalityType
  <2> QED
    BY <2>1
<1>5. Small(Cardinality(S)) = SUBSET S
  BY <1>0
<1> QED
  BY <1>4, <1>5 DEF Sums

(* The sum of numbers over a finite set is one of its solutions.           *)
LEMMA TotalSums ==
    ASSUME NEW S, IsFiniteSet(S), NEW value, \A x \in S : value[x] \in Nat
    PROVE  \E sum : Sums(value, sum, S) /\ Total(value, S) = sum[S]
<1> DEFINE F(sum) == [U \in SUBSET S |-> More(value, sum, U)]
           sum == CHOOSE sum : sum = F(sum)
<1>1. PICK some : Sums(value, some, S)
  BY SumsExist
<1>2. some = F(some)
  BY <1>1 DEF Sums
<1>3. sum = F(sum)
  BY <1>2
<1>4. Total(value, S) = sum[S]
  BY DEF Total, MapThenSumSet, MapThenFoldSet, More
<1>5. \A U \in SUBSET S : sum[U] = More(value, sum, U)
  BY <1>3
<1>6. DOMAIN sum = SUBSET S
  BY <1>3
<1> HIDE DEF sum
<1>7. \A U \in SUBSET S : sum[U] \in Nat
  <2> DEFINE P == {U \in SUBSET S : sum[U] \in Nat}
  <2>1. ASSUME NEW U \in SUBSET S, \A x \in U : U \ {x} \in P PROVE sum[U] \in Nat
    <3>1. CASE U = {}
      BY <1>5, <3>1 DEF More
    <3>2. CASE U # {}
      <4> DEFINE y == CHOOSE y \in U : TRUE
      <4>1. y \in U
        BY <3>2
      <4>2. sum[U] = value[y] + sum[U \ {y}]
        BY <1>5, <3>2 DEF More
      <4> HIDE DEF y
      <4> QED
        BY <2>1, <4>1, <4>2
    <3> QED
      BY <3>1, <3>2
  <2>2. P = SUBSET S
    <3>1. P \in SUBSET (SUBSET S) /\ \A U \in SUBSET S : (\A x \in U : U \ {x} \in P) => U \in P
      BY <2>1
    <3> HIDE DEF P
    <3> QED
      BY <3>1, SubsetInduction
  <2> QED
    BY <2>2
<1>8. sum \in [SUBSET S -> Nat]
  <2>1. sum = [U \in SUBSET S |-> sum[U]]
    BY <1>3, <1>6 DEF sum
  <2> QED
    BY <1>7, <2>1
<1> QED
  BY <1>4, <1>5, <1>8 DEF Sums

(* A sum of numbers is one, at least any of them, and 0 without any.       *)
LEMMA TotalIsSum ==
    ASSUME NEW S, IsFiniteSet(S), NEW value, \A x \in S : value[x] \in Nat
    PROVE  /\ Total(value, S) \in Nat
           /\ S = {} => Total(value, S) = 0
           /\ \A x \in S : value[x] <= Total(value, S)
<1>1. PICK sum : Sums(value, sum, S) /\ Total(value, S) = sum[S]
  BY TotalSums
<1> DEFINE P == {U \in SUBSET S : \A x \in U : value[x] <= sum[U]}
<1>2. ASSUME NEW U \in SUBSET S, \A x \in U : U \ {x} \in P PROVE U \in P
  <2> SUFFICES ASSUME NEW x \in U PROVE value[x] <= sum[U]
    OBVIOUS
  <2> DEFINE y == CHOOSE y \in U : TRUE
  <2>1. y \in U
    OBVIOUS
  <2>2. sum[U] = value[y] + sum[U \ {y}]
    BY <1>1 DEF Sums, More
  <2> HIDE DEF y
  <2>3. sum[U \ {y}] \in Nat /\ value[y] \in Nat /\ value[x] \in Nat
    BY <1>1, <2>1 DEF Sums
  <2>4. x # y => value[x] <= sum[U \ {y}]
    BY <1>2, <2>1
  <2> QED
    BY <2>2, <2>3, <2>4
<1>3. P = SUBSET S
  <2>1. P \in SUBSET (SUBSET S) /\ \A U \in SUBSET S : (\A x \in U : U \ {x} \in P) => U \in P
    BY <1>2
  <2> HIDE DEF P
  <2> QED
    BY <2>1, SubsetInduction
<1> QED
  BY <1>1, <1>3 DEF Sums, More

(* Sums of numbers of which each is between two multiples of another are   *)
(* between the multiples of their sum.                                     *)
LEMMA TotalIsBetween ==
    ASSUME NEW S, IsFiniteSet(S), NEW value, NEW base, NEW low \in Nat, NEW high \in Nat,
           \A x \in S : value[x] \in Nat /\ base[x] \in Nat,
           \A x \in S : low * base[x] <= value[x] /\ value[x] <= high * base[x]
    PROVE  low * Total(base, S) <= Total(value, S) /\ Total(value, S) <= high * Total(base, S)
<1>1. PICK sum : Sums(value, sum, S) /\ Total(value, S) = sum[S]
  BY TotalSums
<1>2. PICK sumb : Sums(base, sumb, S) /\ Total(base, S) = sumb[S]
  BY TotalSums
<1> DEFINE P == {U \in SUBSET S : low * sumb[U] <= sum[U] /\ sum[U] <= high * sumb[U]}
<1>3. ASSUME NEW U \in SUBSET S, \A x \in U : U \ {x} \in P PROVE U \in P
  <2>1. CASE U = {}
    BY <1>1, <1>2, <2>1 DEF Sums, More
  <2>2. CASE U # {}
    <3> DEFINE y == CHOOSE y \in U : TRUE
    <3>1. y \in U
      BY <2>2
    <3>2. sum[U] = value[y] + sum[U \ {y}] /\ sumb[U] = base[y] + sumb[U \ {y}]
      BY <1>1, <1>2, <2>2 DEF Sums, More
    <3> HIDE DEF y
    <3>3. /\ sum[U \ {y}] \in Nat /\ value[y] \in Nat
          /\ sumb[U \ {y}] \in Nat /\ base[y] \in Nat
      BY <1>1, <1>2, <3>1 DEF Sums
    <3>4. low * sumb[U \ {y}] <= sum[U \ {y}] /\ sum[U \ {y}] <= high * sumb[U \ {y}]
      BY <1>3, <3>1
    <3>5. low * base[y] <= value[y] /\ value[y] <= high * base[y]
      BY <3>1
    <3>6. /\ low * (base[y] + sumb[U \ {y}]) = low * base[y] + low * sumb[U \ {y}]
          /\ high * (base[y] + sumb[U \ {y}]) = high * base[y] + high * sumb[U \ {y}]
      BY <3>3
    <3>7. {low * base[y], low * sumb[U \ {y}], high * base[y], high * sumb[U \ {y}]} \subseteq Nat
      BY <3>3
    <3> QED
      BY <3>2, <3>3, <3>4, <3>5, <3>6, <3>7
  <2> QED
    BY <2>1, <2>2
<1>4. P = SUBSET S
  <2>1. P \in SUBSET (SUBSET S) /\ \A U \in SUBSET S : (\A x \in U : U \ {x} \in P) => U \in P
    BY <1>3
  <2> HIDE DEF P
  <2> QED
    BY <2>1, SubsetInduction
<1> QED
  BY <1>1, <1>2, <1>4
=============================================================================
