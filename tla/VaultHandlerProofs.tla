------------------------- MODULE VaultHandlerProofs -------------------------
(***************************************************************************)
(* What the handlers of vault_program guarantee for every amount, every    *)
(* supply, every queue and every value of the virtual offset: the two      *)
(* roundings of ShareMath, accounts of their types, a queue in the order   *)
(* of arrival, and books that balance.                                     *)
(*                                                                         *)
(* First what every program's handlers need: what Rust's Vec operations on *)
(* the withdrawal queue and on the list of active flights do to a          *)
(* sequence, and the laws of the sums over finite sets in which the books  *)
(* of the programs are stated.                                             *)
(***************************************************************************)
EXTENDS Vault, SequenceTheorems, FiniteSetTheorems, WellFoundedInduction, TLAPS

-----------------------------------------------------------------------------
(* Sequences. *)

\* A slice of a sequence, from any position to any later one, or empty.
LEMMA SliceProperties ==
    ASSUME NEW S, NEW s \in Seq(S),
           NEW m \in 1 .. Len(s) + 1, NEW n \in m - 1 .. Len(s)
    PROVE  /\ SubSeq(s, m, n) \in Seq(S)
           /\ Len(SubSeq(s, m, n)) = n - m + 1
           /\ \A j \in 1 .. n - m + 1 : SubSeq(s, m, n)[j] = s[m + j - 1]
<1>1. Len(s) \in Nat /\ \A j \in 1 .. Len(s) : s[j] \in S
  BY LenProperties, ElementOfSeq
<1> QED
  BY <1>1

\* Vec::remove: one element less, the others in the same order.
LEMMA RemoveAtProperties ==
    ASSUME NEW S, NEW s \in Seq(S), NEW i \in 1 .. Len(s)
    PROVE  /\ RemoveAt(s, i) \in Seq(S)
           /\ Len(RemoveAt(s, i)) = Len(s) - 1
           /\ \A j \in 1 .. Len(s) - 1 :
                 RemoveAt(s, i)[j] = s[IF j < i THEN j ELSE j + 1]
<1> DEFINE before == SubSeq(s, 1, i - 1)
           after == SubSeq(s, i + 1, Len(s))
<1>1. Len(s) \in Nat
  BY LenProperties
<1>2. /\ before \in Seq(S) /\ Len(before) = i - 1
      /\ \A j \in 1 .. i - 1 : before[j] = s[j]
  BY <1>1, SliceProperties
<1>3. /\ after \in Seq(S) /\ Len(after) = Len(s) - i
      /\ \A j \in 1 .. Len(s) - i : after[j] = s[i + j]
  BY <1>1, SliceProperties
<1>4. RemoveAt(s, i) = before \o after
  BY DEF RemoveAt
<1> HIDE DEF before, after
<1>5. /\ before \o after \in Seq(S)
      /\ Len(before \o after) = Len(before) + Len(after)
      /\ \A j \in 1 .. Len(before) + Len(after) :
            (before \o after)[j] = IF j <= Len(before) THEN before[j]
                                   ELSE after[j - Len(before)]
  BY <1>2, <1>3, ConcatProperties
<1> QED
  BY <1>1, <1>2, <1>3, <1>4, <1>5

\* Vec::drain(0..n): the first n elements leave.
LEMMA DrainProperties ==
    ASSUME NEW S, NEW s \in Seq(S), NEW n \in 0 .. Len(s)
    PROVE  /\ SubSeq(s, n + 1, Len(s)) \in Seq(S)
           /\ Len(SubSeq(s, n + 1, Len(s))) = Len(s) - n
           /\ \A j \in 1 .. Len(s) - n : SubSeq(s, n + 1, Len(s))[j] = s[n + j]
<1>1. Len(s) \in Nat
  BY LenProperties
<1> QED
  BY <1>1, SliceProperties

Distinct(s) == \A i, j \in 1 .. Len(s) : s[i] = s[j] => i = j

\* rest is s without its i-th element.
Without(rest, s, i) ==
    /\ Len(rest) = Len(s) - 1
    /\ \A j \in 1 .. Len(s) - 1 : rest[j] = s[IF j < i THEN j ELSE j + 1]

\* position and Vec::remove, in a sequence without duplicates.
LEMMA RemoveFirstProperties ==
    ASSUME NEW S, NEW s \in Seq(S), Distinct(s), NEW i \in 1 .. Len(s)
    PROVE  RemoveFirst(s, s[i]) \in Seq(S) /\ Without(RemoveFirst(s, s[i]), s, i)
<1>1. Len(s) \in Nat
  BY LenProperties
<1>2. {j \in 1 .. Len(s) : s[j] = s[i]} = {i}
  BY <1>1 DEF Distinct
<1>3. SelectInSeq(s, LAMBDA v : v = s[i]) = i
  <2>1. Min({i}) = i
    BY <1>1 DEF Min
  <2> QED BY <1>2, <2>1 DEF SelectInSeq
<1>4. RemoveFirst(s, s[i]) = RemoveAt(s, i)
  BY <1>3 DEF RemoveFirst
<1> QED BY <1>4, RemoveAtProperties DEF Without

\* The others stay, each once.
LEMMA WithoutKeepsOthers ==
    ASSUME NEW S, NEW s \in Seq(S), Distinct(s), NEW i \in 1 .. Len(s),
           NEW rest \in Seq(S), Without(rest, s, i)
    PROVE  /\ Distinct(rest)
           /\ \A j \in 1 .. Len(rest) : rest[j] # s[i]
           /\ \A j \in 1 .. Len(rest) : \E k \in 1 .. Len(s) : s[k] = rest[j]
           /\ \A k \in 1 .. Len(s) \ {i} : \E j \in 1 .. Len(rest) : rest[j] = s[k]
<1> DEFINE was(j) == IF j < i THEN j ELSE j + 1
<1>1. /\ Len(s) \in Nat /\ Len(rest) = Len(s) - 1
      /\ \A j \in 1 .. Len(rest) : rest[j] = s[was(j)]
  BY LenProperties DEF Without
<1>2. \A j \in 1 .. Len(rest) : was(j) \in 1 .. Len(s) /\ was(j) # i
  BY <1>1
<1>3. \A j, k \in 1 .. Len(rest) : was(j) = was(k) => j = k
  BY <1>1
<1>4. \A k \in 1 .. Len(s) \ {i} : \E j \in 1 .. Len(rest) : was(j) = k
  <2> SUFFICES ASSUME NEW k \in 1 .. Len(s) \ {i}
               PROVE  \E j \in 1 .. Len(rest) : was(j) = k
    OBVIOUS
  <2>1. CASE k < i
    BY <1>1, <2>1
  <2>2. CASE k > i
    <3>1. k - 1 \in 1 .. Len(rest) /\ was(k - 1) = k
      BY <1>1, <2>2
    <3> QED BY <3>1
  <2> QED BY <1>1, <2>1, <2>2
<1> HIDE DEF was
<1>5. Distinct(rest)
  BY <1>1, <1>2, <1>3 DEF Distinct
<1>6. \A j \in 1 .. Len(rest) : rest[j] # s[i]
  BY <1>1, <1>2 DEF Distinct
<1> QED BY <1>1, <1>2, <1>4, <1>5, <1>6

-----------------------------------------------------------------------------
(* Induction.  The set of the arguments for which a fact holds takes the   *)
(* place of the predicate of the library's theorems.                       *)

\* Induction over the naturals, with a set in the place of a predicate.
LEMMA NatSetInduction ==
    ASSUME NEW T, 0 \in T, \A n \in Nat : n \in T => n + 1 \in T
    PROVE  Nat \subseteq T
<1> DEFINE Missing == {n \in Nat : n \notin T}
<1> SUFFICES ASSUME Missing # {}
             PROVE  FALSE
  OBVIOUS
<1>1. IsWellFoundedOn(OpToRel(<, Nat), Nat)
  BY NatLessThanWellFounded
<1>2. PICK n \in Missing : \A m \in Missing : ~(<<m, n>> \in OpToRel(<, Nat))
  <2>1. Missing \subseteq Nat
    OBVIOUS
  <2> HIDE DEF Missing
  <2> QED
    BY <1>1, <2>1, WFMin, Zenon
<1>3. \A m \in Nat : m < n => m \in T
  BY <1>2 DEF OpToRel
<1>4. n # 0
  OBVIOUS
<1>5. n - 1 \in T /\ n - 1 \in Nat
  BY <1>3, <1>4
<1>6. (n - 1) + 1 \in T
  BY <1>5
<1> QED
  BY <1>6

\* Induction over the subsets of a finite set, one element at a time.
LEMMA SubsetInduction ==
    ASSUME NEW D, IsFiniteSet(D), NEW T,
           \A s \in SUBSET D : (\A x \in s : s \ {x} \in T) => s \in T
    PROVE  SUBSET D \subseteq T
<1> DEFINE Size == {n \in Nat : \A s \in SUBSET D : Cardinality(s) = n => s \in T}
<1>1. \A s \in SUBSET D : IsFiniteSet(s) /\ Cardinality(s) \in Nat
  BY FS_Subset, FS_CardinalityType
<1>2. 0 \in Size
  BY <1>1, FS_EmptySet
<1>3. ASSUME NEW n \in Nat, n \in Size
      PROVE  n + 1 \in Size
  <2> SUFFICES ASSUME NEW s \in SUBSET D, Cardinality(s) = n + 1
               PROVE  \A x \in s : s \ {x} \in T
    OBVIOUS
  <2> TAKE x \in s
  <2>1. Cardinality(s \ {x}) = Cardinality(s) - 1
    BY <1>1, FS_RemoveElement
  <2>2. s \ {x} \in SUBSET D /\ Cardinality(s \ {x}) = n
    BY <2>1
  <2> QED
    BY <1>3, <2>2
<1> HIDE DEF Size
<1>4. Nat \subseteq Size
  BY <1>2, <1>3, NatSetInduction
<1> QED
  BY <1>1, <1>4 DEF Size

-----------------------------------------------------------------------------
(* Sums (SumFunction: the sum of a function's values over its domain). *)

\* What a fold that adds computes for every subset of the domain: some element
\* first, then the rest.
FirstOf(s) == CHOOSE x \in s : TRUE

IsTotalOf(f, total) ==
    total = [s \in SUBSET DOMAIN f |->
                IF s = {} THEN 0 ELSE f[FirstOf(s)] + total[s \ {FirstOf(s)}]]

\* The fold is one of these.
LEMMA SumIsChosen ==
    ASSUME NEW f
    PROVE  SumFunction(f) = (CHOOSE total : IsTotalOf(f, total))[DOMAIN f]
  BY DEF SumFunction, SumFunctionOnSet, FoldFunctionOnSet, MapThenFoldSet, IsTotalOf, FirstOf

\* There is such a function: the one for subsets of up to n elements gives the
\* one for subsets of up to n + 1.
LEMMA TotalExists ==
    ASSUME NEW D, IsFiniteSet(D), NEW f \in [D -> Int]
    PROVE  \E total \in [SUBSET D -> Int] : IsTotalOf(f, total)
<1> DEFINE next(g, s) == IF s = {} THEN 0 ELSE f[FirstOf(s)] + g[s \ {FirstOf(s)}]
           upTo(g, n) == \A s \in SUBSET D : Cardinality(s) <= n => g[s] = next(g, s)
           Size == {n \in Nat : \E g \in [SUBSET D -> Int] : upTo(g, n)}
<1>1. \A s \in SUBSET D : IsFiniteSet(s) /\ Cardinality(s) \in Nat
  BY FS_Subset, FS_CardinalityType
<1>2. \A s \in SUBSET D : s # {} => FirstOf(s) \in s
  BY DEF FirstOf
<1>3. \A s \in SUBSET D :
         s # {} => /\ s \ {FirstOf(s)} \in SUBSET D
                   /\ Cardinality(s \ {FirstOf(s)}) = Cardinality(s) - 1
  <2> SUFFICES ASSUME NEW s \in SUBSET D, s # {}
               PROVE  Cardinality(s \ {FirstOf(s)}) = Cardinality(s) - 1
    OBVIOUS
  <2>1. IsFiniteSet(s) /\ FirstOf(s) \in s
    BY <1>1, <1>2
  <2> QED
    BY <2>1, FS_RemoveElement
<1>4. \A g \in [SUBSET D -> Int] : \A s \in SUBSET D : next(g, s) \in Int
  BY <1>2, <1>3
<1>5. 0 \in Size
  <2> DEFINE g == [s \in SUBSET D |-> 0]
  <2>1. \A s \in SUBSET D : Cardinality(s) <= 0 => s = {}
    BY <1>1, FS_EmptySet
  <2>2. g \in [SUBSET D -> Int] /\ upTo(g, 0)
    BY <2>1
  <2> QED
    BY <2>2
<1>6. ASSUME NEW n \in Nat, n \in Size
      PROVE  n + 1 \in Size
  <2>1. PICK g \in [SUBSET D -> Int] : upTo(g, n)
    BY <1>6
  <2> DEFINE h == [s \in SUBSET D |-> next(g, s)]
  <2>2. h \in [SUBSET D -> Int]
    BY <1>4
  <2>3. ASSUME NEW s \in SUBSET D, Cardinality(s) <= n + 1
        PROVE  h[s] = next(h, s)
    <3>1. CASE s = {}
      BY <3>1
    <3>2. CASE s # {}
      <4> DEFINE rest == s \ {FirstOf(s)}
      <4>1. rest \in SUBSET D /\ Cardinality(rest) <= n
        BY <1>1, <1>3, <2>3, <3>2
      <4>2. g[rest] = next(g, rest)
        BY <2>1, <4>1
      <4>3. h[rest] = g[rest]
        BY <4>1, <4>2
      <4> QED
        BY <3>2, <4>3
    <3> QED
      BY <3>1, <3>2
  <2>4. upTo(h, n + 1)
    BY <2>3
  <2> HIDE DEF h, upTo
  <2> QED
    BY <2>2, <2>4
<1>7. Cardinality(D) \in Size
  <2> HIDE DEF Size
  <2>1. Nat \subseteq Size
    BY <1>5, <1>6, NatSetInduction
  <2> QED
    BY <1>1, <2>1
<1>8. PICK g \in [SUBSET D -> Int] : upTo(g, Cardinality(D))
  BY <1>7
<1>9. \A s \in SUBSET D : Cardinality(s) <= Cardinality(D)
  BY FS_Subset
<1>10. \A s \in SUBSET D : g[s] = next(g, s)
  BY <1>8, <1>9
<1>11. g = [s \in SUBSET D |-> next(g, s)]
  BY <1>8, <1>10
<1> QED
  BY <1>8, <1>11 DEF IsTotalOf

\* The order does not matter: any element may be taken first.
AddsUp(f, total) ==
    /\ total \in [SUBSET DOMAIN f -> Int]
    /\ total[{}] = 0
    /\ \A s \in SUBSET DOMAIN f : \A x \in s : total[s] = f[x] + total[s \ {x}]

\* It adds up, whichever element each set's first is.
LEMMA TotalAdds ==
    ASSUME NEW D, IsFiniteSet(D), NEW f \in [D -> Int],
           NEW total, IsTotalOf(f, total)
    PROVE  AddsUp(f, total)
<1>1. /\ total = [s \in SUBSET D |-> total[s]]
      /\ total[{}] = 0
      /\ \A s \in SUBSET D :
            s # {} => FirstOf(s) \in s /\ total[s] = f[FirstOf(s)] + total[s \ {FirstOf(s)}]
  <2>1. total = [s \in SUBSET D |->
                    IF s = {} THEN 0 ELSE f[FirstOf(s)] + total[s \ {FirstOf(s)}]]
    BY DEF IsTotalOf
  <2>2. \A t : t = [s \in SUBSET D |->
                    IF s = {} THEN 0 ELSE f[FirstOf(s)] + total[s \ {FirstOf(s)}]]
               => /\ t = [s \in SUBSET D |-> t[s]]
                  /\ t[{}] = 0
                  /\ \A s \in SUBSET D :
                       s # {} => t[s] = f[FirstOf(s)] + total[s \ {FirstOf(s)}]
    OBVIOUS
  <2> QED
    BY <2>1, <2>2 DEF FirstOf
<1>2. \A s \in SUBSET D : total[s] \in Int
  <2> DEFINE T == {s \in SUBSET D : total[s] \in Int}
  <2>1. ASSUME NEW s \in SUBSET D, \A x \in s : s \ {x} \in T
        PROVE  s \in T
    <3>1. CASE s # {}
      <4>1. /\ FirstOf(s) \in s /\ f[FirstOf(s)] \in Int
            /\ total[s] = f[FirstOf(s)] + total[s \ {FirstOf(s)}]
        BY <1>1, <3>1
      <4>2. total[s \ {FirstOf(s)}] \in Int
        BY <2>1, <4>1
      <4> QED
        BY <4>1, <4>2
    <3>2. CASE s = {}
      BY <1>1, <3>2
    <3> QED
      BY <3>1, <3>2
  <2> HIDE DEF T
  <2>2. SUBSET D \subseteq T
    BY <2>1, SubsetInduction
  <2> QED
    BY <2>2 DEF T
<1> DEFINE added(s) == \A x \in s : total[s] = f[x] + total[s \ {x}]
           T == {s \in SUBSET D : added(s)}
<1>3. ASSUME NEW s \in SUBSET D, \A x \in s : s \ {x} \in T
      PROVE  s \in T
  <2> SUFFICES ASSUME NEW x \in s
               PROVE  total[s] = f[x] + total[s \ {x}]
    OBVIOUS
  <2> DEFINE c == FirstOf(s)
  <2>1. c \in s /\ total[s] = f[c] + total[s \ {c}]
    BY <1>1
  <2> HIDE DEF c
  <2>2. CASE x = c
    BY <2>1, <2>2
  <2>3. CASE x # c
    <3> DEFINE rest == s \ {c, x}
    <3>1. total[s \ {c}] = f[x] + total[(s \ {c}) \ {x}]
      BY <1>3, <2>1, <2>3
    <3>2. total[s \ {x}] = f[c] + total[(s \ {x}) \ {c}]
      BY <1>3, <2>1, <2>3
    <3>3. (s \ {c}) \ {x} = rest /\ (s \ {x}) \ {c} = rest
      OBVIOUS
    <3>4. f[x] \in Int /\ f[c] \in Int /\ total[rest] \in Int
      BY <1>2, <2>1
    <3> HIDE DEF rest
    <3>5. /\ total[s \ {c}] = f[x] + total[rest]
          /\ total[s \ {x}] = f[c] + total[rest]
      BY <3>1, <3>2, <3>3
    <3> QED
      BY <2>1, <3>4, <3>5
  <2> QED
    BY <2>2, <2>3
<1> HIDE DEF T
<1>4. SUBSET D \subseteq T
  BY <1>3, SubsetInduction
<1> QED
  BY <1>1, <1>2, <1>4 DEF AddsUp, T

\* The sum of a function over a finite domain is the last of these totals.
LEMMA SumIsTotal ==
    ASSUME NEW D, IsFiniteSet(D), NEW f \in [D -> Int]
    PROVE  \E total : AddsUp(f, total) /\ SumFunction(f) = total[D]
<1>1. \E total : IsTotalOf(f, total)
  BY TotalExists
<1> DEFINE total == CHOOSE t : IsTotalOf(f, t)
<1>2. IsTotalOf(f, total)
  BY <1>1
<1>3. SumFunction(f) = total[D]
  BY SumIsChosen
<1> HIDE DEF total
<1>4. AddsUp(f, total)
  BY <1>2, TotalAdds
<1> QED
  BY <1>3, <1>4

\* A sum of integers is an integer.
LEMMA SumType ==
    ASSUME NEW D, IsFiniteSet(D), NEW f \in [D -> Int]
    PROVE  SumFunction(f) \in Int
<1>1. PICK total : AddsUp(f, total) /\ SumFunction(f) = total[D]
  BY SumIsTotal
<1>2. total \in [SUBSET D -> Int]
  BY <1>1 DEF AddsUp
<1> QED
  BY <1>1, <1>2

\* A sum of naturals is a natural, and no term exceeds it.
LEMMA SumOfNaturals ==
    ASSUME NEW D, IsFiniteSet(D), NEW f \in [D -> Nat]
    PROVE  /\ SumFunction(f) \in Nat
           /\ \A x \in D : f[x] <= SumFunction(f)
<1>0. f \in [D -> Int]
  OBVIOUS
<1>1. PICK total : AddsUp(f, total) /\ SumFunction(f) = total[D]
  BY <1>0, SumIsTotal
<1>2. /\ total[{}] = 0
      /\ \A s \in SUBSET D : \A x \in s : total[s] = f[x] + total[s \ {x}]
  BY <1>1 DEF AddsUp
<1> DEFINE T == {s \in SUBSET D : total[s] \in Nat}
<1>3. ASSUME NEW s \in SUBSET D, \A x \in s : s \ {x} \in T
      PROVE  s \in T
  <2>1. CASE s = {}
    BY <1>2, <2>1
  <2>2. ASSUME NEW x \in s
        PROVE  s \in T
    <3>1. total[s] = f[x] + total[s \ {x}] /\ total[s \ {x}] \in Nat /\ f[x] \in Nat
      BY <1>2, <1>3
    <3> QED
      BY <3>1
  <2> QED
    BY <2>1, <2>2
<1> HIDE DEF T
<1>4. SUBSET D \subseteq T
  BY <1>3, SubsetInduction
<1>5. ASSUME NEW x \in D
      PROVE  f[x] <= total[D]
  <2>1. total[D] = f[x] + total[D \ {x}] /\ total[D \ {x}] \in Nat
    BY <1>2, <1>4 DEF T
  <2> QED
    BY <2>1
<1> QED
  BY <1>1, <1>4, <1>5 DEF T

\* Term by term: sums add.
LEMMA SumPlus ==
    ASSUME NEW D, IsFiniteSet(D), NEW f \in [D -> Int], NEW g \in [D -> Int],
           NEW h \in [D -> Int], \A x \in D : h[x] = f[x] + g[x]
    PROVE  SumFunction(h) = SumFunction(f) + SumFunction(g)
<1>1. PICK tf : AddsUp(f, tf) /\ SumFunction(f) = tf[D]
  BY SumIsTotal
<1>2. PICK tg : AddsUp(g, tg) /\ SumFunction(g) = tg[D]
  BY SumIsTotal
<1>3. PICK th : AddsUp(h, th) /\ SumFunction(h) = th[D]
  BY SumIsTotal
<1> DEFINE T == {s \in SUBSET D : th[s] = tf[s] + tg[s]}
<1>4. ASSUME NEW s \in SUBSET D, \A x \in s : s \ {x} \in T
      PROVE  s \in T
  <2>1. CASE s = {}
    BY <1>1, <1>2, <1>3, <2>1 DEF AddsUp
  <2>2. ASSUME NEW x \in s
        PROVE  s \in T
    <3>1. /\ th[s] = h[x] + th[s \ {x}]
          /\ tf[s] = f[x] + tf[s \ {x}]
          /\ tg[s] = g[x] + tg[s \ {x}]
          /\ tf[s \ {x}] \in Int /\ tg[s \ {x}] \in Int
      BY <1>1, <1>2, <1>3 DEF AddsUp
    <3>2. th[s \ {x}] = tf[s \ {x}] + tg[s \ {x}]
      BY <1>4
    <3> QED
      BY <3>1, <3>2
  <2> QED
    BY <2>1, <2>2
<1> HIDE DEF T
<1>5. SUBSET D \subseteq T
  BY <1>4, SubsetInduction
<1> QED
  BY <1>1, <1>2, <1>3, <1>5 DEF T

\* A sum over a part of the domain is the sum over all of it of the function
\* that is 0 elsewhere.
LEMMA SumPart ==
    ASSUME NEW D, IsFiniteSet(D), NEW f \in [D -> Int],
           NEW P \in SUBSET D, NEW g \in [P -> Int],
           \A x \in D : f[x] = IF x \in P THEN g[x] ELSE 0
    PROVE  SumFunction(f) = SumFunction(g)
<1>1. PICK tf : AddsUp(f, tf) /\ SumFunction(f) = tf[D]
  BY SumIsTotal
<1>2. PICK tg : AddsUp(g, tg) /\ SumFunction(g) = tg[P]
  BY SumIsTotal, FS_Subset
<1> DEFINE T == {s \in SUBSET D : tf[s] = tg[s \cap P]}
<1>3. ASSUME NEW s \in SUBSET D, \A x \in s : s \ {x} \in T
      PROVE  s \in T
  <2>1. CASE s = {}
    BY <1>1, <1>2, <2>1 DEF AddsUp
  <2>2. ASSUME NEW x \in s
        PROVE  s \in T
    <3>1. /\ tf[s] = f[x] + tf[s \ {x}]
          /\ tf[s \ {x}] = tg[(s \ {x}) \cap P]
          /\ tf[s] \in Int /\ tf[s \ {x}] \in Int
      BY <1>1, <1>3 DEF AddsUp
    <3>2. CASE x \in P
      <4>1. (s \ {x}) \cap P = (s \cap P) \ {x}
        OBVIOUS
      <4>2. tg[s \cap P] = g[x] + tg[(s \cap P) \ {x}]
        BY <1>2, <3>2 DEF AddsUp
      <4> QED
        BY <3>1, <3>2, <4>1, <4>2
    <3>3. CASE x \notin P
      <4>1. (s \ {x}) \cap P = s \cap P
        BY <3>3
      <4>2. f[x] = 0
        BY <3>3
      <4>3. tf[s] = tf[s \ {x}]
        BY <3>1, <4>2
      <4> QED
        BY <3>1, <4>1, <4>3
    <3> QED
      BY <3>2, <3>3
  <2> QED
    BY <2>1, <2>2
<1> HIDE DEF T
<1>4. SUBSET D \subseteq T
  BY <1>3, SubsetInduction
<1>5. D \cap P = P
  OBVIOUS
<1> QED
  BY <1>1, <1>2, <1>4, <1>5 DEF T

\* Nothing adds up to nothing.
LEMMA SumOfZeros ==
    ASSUME NEW D, IsFiniteSet(D), NEW f \in [D -> Int], \A x \in D : f[x] = 0
    PROVE  SumFunction(f) = 0
<1>1. SumFunction(f) = SumFunction(f) + SumFunction(f)
  BY SumPlus
<1>2. SumFunction(f) \in Int
  BY SumType
<1>3. \A n \in Int : n = n + n => n = 0
  OBVIOUS
<1> QED
  BY <1>1, <1>2, <1>3, Zenon

\* The one term that is not 0 is the sum.
LEMMA SumOfOne ==
    ASSUME NEW D, IsFiniteSet(D), NEW f \in [D -> Int], NEW a \in D,
           \A y \in D \ {a} : f[y] = 0
    PROVE  SumFunction(f) = f[a]
<1>1. PICK total : AddsUp(f, total) /\ SumFunction(f) = total[D]
  BY SumIsTotal
<1> DEFINE Rest == D \ {a}
           T == {s \in SUBSET Rest : total[s] = 0}
<1>2. total[D] = f[a] + total[Rest]
  BY <1>1 DEF AddsUp
<1>3. IsFiniteSet(Rest)
  BY FS_RemoveElement
<1>4. ASSUME NEW s \in SUBSET Rest, \A x \in s : s \ {x} \in T
      PROVE  s \in T
  <2>1. CASE s = {}
    BY <1>1, <2>1 DEF AddsUp
  <2>2. ASSUME NEW y \in s
        PROVE  s \in T
    <3>1. total[s] = f[y] + total[s \ {y}] /\ total[s \ {y}] = 0 /\ f[y] = 0
      BY <1>1, <1>4 DEF AddsUp
    <3> QED
      BY <3>1
  <2> QED
    BY <2>1, <2>2
<1>5. Rest \in T
  <2> HIDE DEF T, Rest
  <2>1. SUBSET Rest \subseteq T
    BY <1>3, <1>4, SubsetInduction
  <2> QED
    BY <2>1
<1> QED
  BY <1>1, <1>2, <1>5

\* The laws below are about pairs of functions in relations named here: a proof
\* that cites a law establishes the relation, as a fact of its own.

\* g is f but for the value at a.
DiffersAt(f, g, D, a) ==
    /\ IsFiniteSet(D) /\ a \in D
    /\ f \in [D -> Int] /\ g \in [D -> Int]
    /\ \A y \in D \ {a} : g[y] = f[y]

\* g is f on the part P of its domain, h on the rest.
SplitsInto(f, D, g, P, h) ==
    /\ IsFiniteSet(D) /\ P \in SUBSET D
    /\ f \in [D -> Int] /\ g \in [P -> Int] /\ h \in [D \ P -> Int]
    /\ \A y \in P : g[y] = f[y]
    /\ \A y \in D \ P : h[y] = f[y]

\* g is f without its value at a.
LeavesOut(f, D, a, g) ==
    /\ IsFiniteSet(D) /\ a \in D
    /\ f \in [D -> Int] /\ g \in [D \ {a} -> Int]
    /\ \A y \in D \ {a} : g[y] = f[y]

\* f is g with its arguments renamed by the bijection b.
Renames(f, D, g, E, b) ==
    /\ IsFiniteSet(D) /\ IsFiniteSet(E)
    /\ f \in [D -> Int] /\ g \in [E -> Int] /\ b \in [D -> E]
    /\ \A y, z \in D : b[y] = b[z] => y = z
    /\ \A e \in E : \E y \in D : b[y] = e
    /\ \A y \in D : f[y] = g[b[y]]

\* Where one term changes, the sum changes by as much.
LEMMA SumChange ==
    ASSUME NEW D, NEW f, NEW g, NEW a, DiffersAt(f, g, D, a)
    PROVE  SumFunction(g) = SumFunction(f) + (g[a] - f[a])
<1> USE DEF DiffersAt
<1> DEFINE d == [y \in D |-> g[y] - f[y]]
<1>1. d \in [D -> Int] /\ d[a] = g[a] - f[a] /\ \A y \in D \ {a} : d[y] = 0
  OBVIOUS
<1>2. \A y \in D : g[y] = f[y] + d[y]
  OBVIOUS
<1> HIDE DEF d
<1>3. SumFunction(d) = g[a] - f[a]
  BY <1>1, SumOfOne
<1>4. d \in [D -> Int]
  BY <1>1
<1>5. SumFunction(g) = SumFunction(f) + SumFunction(d)
  BY <1>2, <1>4, SumPlus
<1> QED
  BY <1>3, <1>5

\* Larger terms, larger sum.
LEMMA SumMonotonic ==
    ASSUME NEW D, IsFiniteSet(D), NEW f \in [D -> Int], NEW g \in [D -> Int],
           \A x \in D : f[x] <= g[x]
    PROVE  SumFunction(f) <= SumFunction(g)
<1> DEFINE d == [y \in D |-> g[y] - f[y]]
<1>1. d \in [D -> Nat] /\ d \in [D -> Int] /\ \A y \in D : g[y] = f[y] + d[y]
  OBVIOUS
<1> HIDE DEF d
<1>2. SumFunction(d) \in Nat
  BY <1>1, SumOfNaturals
<1>3. SumFunction(g) = SumFunction(f) + SumFunction(d)
  BY <1>1, SumPlus
<1>4. SumFunction(f) \in Int
  BY SumType
<1> QED
  BY <1>2, <1>3, <1>4

\* A sum over a set is the sum over a part of it and the sum over the rest.
LEMMA SumSplit ==
    ASSUME NEW D, NEW f, NEW P, NEW g, NEW h, SplitsInto(f, D, g, P, h)
    PROVE  SumFunction(f) = SumFunction(g) + SumFunction(h)
<1> USE DEF SplitsInto
<1> DEFINE inside == [x \in D |-> IF x \in P THEN g[x] ELSE 0]
           Q == D \ P
           outside == [x \in D |-> IF x \in Q THEN h[x] ELSE 0]
<1>1. inside \in [D -> Int] /\ \A x \in D : inside[x] = IF x \in P THEN g[x] ELSE 0
  OBVIOUS
<1>2. /\ outside \in [D -> Int] /\ \A x \in D : outside[x] = IF x \in Q THEN h[x] ELSE 0
      /\ Q \in SUBSET D /\ h \in [Q -> Int]
  OBVIOUS
<1>3. \A x \in D : f[x] = inside[x] + outside[x]
  OBVIOUS
<1> HIDE DEF inside, outside, Q
<1>4. SumFunction(inside) = SumFunction(g)
  BY <1>1, SumPart
<1>5. SumFunction(outside) = SumFunction(h)
  BY <1>2, SumPart
<1>6. SumFunction(f) = SumFunction(inside) + SumFunction(outside)
  BY <1>1, <1>2, <1>3, SumPlus
<1> QED
  BY <1>4, <1>5, <1>6

\* One term taken out.
LEMMA SumWithout ==
    ASSUME NEW D, NEW f, NEW a, NEW g, LeavesOut(f, D, a, g)
    PROVE  SumFunction(f) = f[a] + SumFunction(g)
<1> USE DEF LeavesOut
<1> DEFINE one == [y \in D |-> IF y = a THEN f[y] ELSE 0]
           out == [y \in D |-> IF y \in D \ {a} THEN g[y] ELSE 0]
           Q == D \ {a}
<1>1. /\ one \in [D -> Int] /\ one[a] = f[a] /\ \A y \in D \ {a} : one[y] = 0
      /\ out \in [D -> Int] /\ \A y \in D : out[y] = IF y \in Q THEN g[y] ELSE 0
      /\ \A y \in D : f[y] = one[y] + out[y]
      /\ Q \in SUBSET D /\ g \in [Q -> Int]
  OBVIOUS
<1> HIDE DEF one, out
<1>2. SumFunction(one) = f[a]
  BY <1>1, SumOfOne
<1> HIDE DEF Q
<1>3. SumFunction(out) = SumFunction(g)
  BY <1>1, SumPart
<1>4. SumFunction(f) = SumFunction(one) + SumFunction(out)
  BY <1>1, SumPlus
<1> QED
  BY <1>2, <1>3, <1>4

\* Other names for the arguments, the same sum.
LEMMA SumReindexed ==
    ASSUME NEW D, NEW f, NEW E, NEW g, NEW b, Renames(f, D, g, E, b)
    PROVE  SumFunction(f) = SumFunction(g)
<1> USE DEF Renames
<1>1. PICK tf : AddsUp(f, tf) /\ SumFunction(f) = tf[D]
  BY SumIsTotal
<1>2. PICK tg : AddsUp(g, tg) /\ SumFunction(g) = tg[E]
  BY SumIsTotal
<1> DEFINE img(s) == {b[x] : x \in s}
           T == {s \in SUBSET D : tf[s] = tg[img(s)]}
<1>3. ASSUME NEW s \in SUBSET D, \A x \in s : s \ {x} \in T
      PROVE  s \in T
  <2>1. CASE s = {}
    <3>1. img(s) = {}
      BY <2>1
    <3> QED
      BY <1>1, <1>2, <2>1, <3>1 DEF AddsUp
  <2>2. ASSUME NEW a \in s
        PROVE  s \in T
    <3>1. img(s) \in SUBSET E /\ b[a] \in img(s) /\ img(s \ {a}) = img(s) \ {b[a]}
      OBVIOUS
    <3>2. tg[img(s)] = g[b[a]] + tg[img(s) \ {b[a]}]
      BY <1>2, <3>1 DEF AddsUp
    <3>3. tf[s] = f[a] + tf[s \ {a}]
      BY <1>1 DEF AddsUp
    <3>4. tf[s \ {a}] = tg[img(s \ {a})]
      BY <1>3
    <3> QED
      BY <3>1, <3>2, <3>3, <3>4
  <2> QED
    BY <2>1, <2>2
<1> HIDE DEF T
<1>4. SUBSET D \subseteq T
  BY <1>3, SubsetInduction
<1>5. img(D) = E
  OBVIOUS
<1> QED
  BY <1>1, <1>2, <1>4, <1>5 DEF T

-----------------------------------------------------------------------------
(* The price of a share. *)

\* Integer division is the quotient with a remainder below the divisor.
LEMMA Division ==
    ASSUME NEW n \in Nat, NEW d \in Nat \ {0}
    PROVE  /\ n \div d \in Nat
           /\ d * (n \div d) <= n
           /\ n < d * (n \div d) + d
  OBVIOUS

\* Products of naturals are naturals.
LEMMA Products ==
    ASSUME NEW m \in Nat, NEW n \in Nat
    PROVE  m * n \in Nat
  OBVIOUS

\* A product grows with its factors.
LEMMA ProductMonotonic ==
    ASSUME NEW d \in Nat, NEW m \in Int, NEW n \in Int, m <= n
    PROVE  d * m <= d * n
  OBVIOUS

\* compute_shares_for_deposit mints no more than the deposit is worth at the
\* price before it: the floor.
LEMMA DepositRoundsDown ==
    ASSUME NEW amount \in Nat, NEW supply \in Nat, NEW tma \in Nat
    PROVE  LET minted == compute_shares_for_deposit(amount, supply, tma) IN
           /\ minted \in Nat
           /\ (tma + VIRTUAL_ASSETS) * minted <= amount * (supply + VIRTUAL_SHARES)
<1>1. /\ supply + VIRTUAL_SHARES \in Nat
      /\ tma + VIRTUAL_ASSETS \in Nat \ {0}
  BY ShareMathAssumption
<1>2. amount * (supply + VIRTUAL_SHARES) \in Nat
  BY <1>1, Products
<1> QED
  BY <1>1, <1>2, Division DEF compute_shares_for_deposit

\* compute_assets_for_redeem pays at least what the shares are worth at the
\* price before the burn, and less than one unit more: the ceiling.
LEMMA RedeemRoundsUp ==
    ASSUME NEW shares \in Nat, NEW supply \in Nat, NEW tma \in Nat
    PROVE  LET paid == compute_assets_for_redeem(shares, supply, tma)
               fair == shares * (tma + VIRTUAL_ASSETS)
               denom == supply + VIRTUAL_SHARES
           IN /\ paid \in Nat
              /\ fair <= denom * paid
              /\ denom * paid < fair + denom
<1> DEFINE denom == supply + VIRTUAL_SHARES
           fair == shares * (tma + VIRTUAL_ASSETS)
           paid == (fair + denom - 1) \div denom
<1>1. denom \in Nat \ {0}
  BY ShareMathAssumption
<1>2. tma + VIRTUAL_ASSETS \in Nat
  BY ShareMathAssumption
<1>3. fair \in Nat
  BY <1>2, Products
<1>4. compute_assets_for_redeem(shares, supply, tma) = paid
  BY DEF compute_assets_for_redeem
<1> HIDE DEF denom, fair
<1>5. fair + denom - 1 \in Nat
  BY <1>1, <1>3
<1>6. /\ paid \in Nat
      /\ denom * paid <= fair + denom - 1
      /\ fair + denom - 1 < denom * paid + denom
  BY <1>1, <1>5, Division
<1> HIDE DEF paid
<1>7. denom * paid \in Nat
  BY <1>1, <1>6, Products
<1>8. fair <= denom * paid /\ denom * paid < fair + denom
  BY <1>1, <1>3, <1>6, <1>7
<1> QED
  BY <1>4, <1>6, <1>8 DEF denom, fair

\* A deposit never lowers the price of a share (deposit): the quotient of the
\* virtual reserves after it is at least the one before.
THEOREM DepositKeepsPrice ==
    ASSUME NEW amount \in Nat, NEW supply \in Nat, NEW tma \in Nat
    PROVE  (tma + amount + VIRTUAL_ASSETS) * (supply + VIRTUAL_SHARES)
             >= (tma + VIRTUAL_ASSETS)
                  * (supply + compute_shares_for_deposit(amount, supply, tma)
                       + VIRTUAL_SHARES)
<1> DEFINE S == supply + VIRTUAL_SHARES
           T == tma + VIRTUAL_ASSETS
           minted == compute_shares_for_deposit(amount, supply, tma)
<1>1. S \in Nat /\ T \in Nat /\ minted \in Nat /\ T * minted <= amount * S
  BY DepositRoundsDown, ShareMathAssumption
<1>2. (tma + amount + VIRTUAL_ASSETS) = T + amount
      /\ supply + minted + VIRTUAL_SHARES = S + minted
  BY <1>1, ShareMathAssumption
<1> HIDE DEF S, T, minted
<1>3. (T + amount) * S = T * S + amount * S /\ T * (S + minted) = T * S + T * minted
  BY <1>1
<1>4. T * S \in Nat /\ amount * S \in Nat /\ T * minted \in Nat
  BY <1>1, Products
<1>5. (T + amount) * S >= T * (S + minted)
  BY <1>1, <1>3, <1>4
<1> QED
  BY <1>2, <1>5 DEF S, T, minted

\* Depositing an amount and redeeming exactly the shares it minted, with
\* nothing in between, never returns more than the amount: rounding down the
\* shares pays for rounding up the assets.
THEOREM RoundTripReturnsNoMore ==
    ASSUME NEW amount \in Nat, NEW supply \in Nat, NEW tma \in Nat
    PROVE  LET minted == compute_shares_for_deposit(amount, supply, tma) IN
           compute_assets_for_redeem(minted, supply + minted, tma + amount) <= amount
<1> DEFINE S == supply + VIRTUAL_SHARES
           T == tma + VIRTUAL_ASSETS
           minted == compute_shares_for_deposit(amount, supply, tma)
           paid == compute_assets_for_redeem(minted, supply + minted, tma + amount)
<1>1. /\ S \in Nat \ {0} /\ T \in Nat \ {0} /\ minted \in Nat
      /\ T * minted <= amount * S
  BY DepositRoundsDown, ShareMathAssumption
<1>2. /\ supply + minted \in Nat /\ tma + amount \in Nat
      /\ supply + minted + VIRTUAL_SHARES = S + minted
      /\ tma + amount + VIRTUAL_ASSETS = T + amount
  BY <1>1, ShareMathAssumption
<1>3. /\ paid \in Nat
      /\ (supply + minted + VIRTUAL_SHARES) * paid
           < minted * (tma + amount + VIRTUAL_ASSETS)
               + (supply + minted + VIRTUAL_SHARES)
  BY <1>1, <1>2, RedeemRoundsUp
<1>4. (S + minted) * paid < minted * (T + amount) + (S + minted)
  BY <1>2, <1>3
<1> HIDE DEF S, T, minted, paid
<1>5. minted * (T + amount) <= (S + minted) * amount
  <2>1. minted * (T + amount) = T * minted + minted * amount
    BY <1>1
  <2>2. (S + minted) * amount = amount * S + minted * amount
    BY <1>1
  <2>3. T * minted \in Nat /\ amount * S \in Nat /\ minted * amount \in Nat
    BY <1>1, Products
  <2> QED
    BY <1>1, <2>1, <2>2, <2>3
<1>6. SUFFICES ASSUME paid >= amount + 1
               PROVE  FALSE
  BY <1>3 DEF paid, minted
<1>7. (S + minted) * (amount + 1) <= (S + minted) * paid
  BY <1>1, <1>3, <1>6, ProductMonotonic
<1>8. (S + minted) * (amount + 1) = (S + minted) * amount + (S + minted)
  BY <1>1
<1>9. /\ (S + minted) * amount \in Nat /\ (S + minted) * paid \in Nat
      /\ minted * (T + amount) \in Nat /\ S + minted \in Nat
  BY <1>1, <1>3, Products
<1> QED
  BY <1>4, <1>5, <1>7, <1>8, <1>9

-----------------------------------------------------------------------------
(* The handlers keep the accounts well formed. *)

\* The inductive invariant: the types, and the queue's counter next to the
\* queue, without which the counter's bound is not inductive; the queue in
\* arrival order, no request later than now.
WellFormed(v) ==
    /\ v \in VaultType
    /\ v.withdrawal_queue_count = Len(v.requests)

InOrder(requests) ==
    /\ \A i \in 1 .. Len(requests) : requests[i].timestamp <= now
    /\ \A i, j \in 1 .. Len(requests) :
          i < j => requests[i].timestamp <= requests[j].timestamp

\* Leaving requests out keeps the order of the others.
LEMMA InOrderPart ==
    ASSUME NEW old, NEW new, InOrder(old),
           NEW position \in [1 .. Len(new) -> 1 .. Len(old)],
           \A j \in 1 .. Len(new) : new[j] = old[position[j]],
           \A j, k \in 1 .. Len(new) : j < k => position[j] < position[k]
    PROVE  InOrder(new)
  BY DEF InOrder

\* The accounts of a vault are of their types.
LEMMA Fields ==
    ASSUME NEW v, v \in VaultType
    PROVE  /\ v.total_managed_assets \in U64 /\ v.locked_capital \in U64
           /\ v.supply \in U64 /\ v.vault_tokens \in U64
           /\ v.withdrawal_queue_count \in 0 .. MaxQueue
           /\ v.requests \in Seq(WithdrawalRequest)
           /\ v.shares \in [LPs -> U64] /\ v.stable \in [LPs -> U64]
           /\ v.claimable \in [LPs -> U64]
           /\ \A lp \in LPs : /\ v.shares[lp] \in U64 /\ v.stable[lp] \in U64
                              /\ v.claimable[lp] \in U64
  BY DEF VaultType

\* What is left of an amount is an amount.
LEMMA Less ==
    ASSUME NEW m \in U64, NEW n \in Nat, n <= m
    PROVE  m - n \in U64
  BY ChainAssumption DEF U64

\* Amounts are numbers.
LEMMA Amounts == U64 \subseteq Nat
  BY ChainAssumption DEF U64

\* deposit
LEMMA DepositWellFormed ==
    ASSUME NEW v, WellFormed(v), NEW lp \in LPs, NEW amount \in U64,
           NEW w \in deposit(v, lp, amount)
    PROVE  WellFormed(w) /\ w.requests = v.requests
<1> DEFINE minted == compute_shares_for_deposit(amount, v.supply, v.total_managed_assets)
           stable == [v.stable EXCEPT ![lp] = @ - amount]
           shares == [v.shares EXCEPT ![lp] = @ + minted]
<1>1. /\ amount <= v.stable[lp]
      /\ v.vault_tokens + amount \in U64
      /\ v.supply + minted \in U64
      /\ v.shares[lp] + minted \in U64
      /\ v.total_managed_assets + amount \in U64
  BY DEF deposit, When
<1>2. w = [v EXCEPT !.stable = stable, !.vault_tokens = @ + amount,
                    !.supply = @ + minted, !.shares = shares,
                    !.total_managed_assets = @ + amount]
  BY DEF deposit, When
<1> HIDE DEF minted
<1>3. stable \in [LPs -> U64] /\ shares \in [LPs -> U64]
  BY <1>1, Fields, Amounts, Less DEF WellFormed
<1> HIDE DEF stable, shares
<1> QED
  BY <1>1, <1>2, <1>3 DEF WellFormed, VaultType

\* redeem
LEMMA RedeemWellFormed ==
    ASSUME NEW v, WellFormed(v), NEW lp \in LPs, NEW burnt \in U64,
           NEW w \in redeem(v, lp, burnt)
    PROVE  WellFormed(w) /\ w.requests = v.requests
<1> DEFINE paid == compute_assets_for_redeem(burnt, v.supply, v.total_managed_assets)
           stable == [v.stable EXCEPT ![lp] = @ + paid]
           shares == [v.shares EXCEPT ![lp] = @ - burnt]
<1>1. /\ burnt <= v.shares[lp] /\ burnt <= v.supply
      /\ v.locked_capital <= v.total_managed_assets
      /\ paid <= v.total_managed_assets - v.locked_capital
      /\ paid <= v.vault_tokens
      /\ v.stable[lp] + paid \in U64
  BY DEF redeem, When
<1>2. w = [v EXCEPT !.supply = @ - burnt, !.shares = shares,
                    !.vault_tokens = @ - paid, !.stable = stable,
                    !.total_managed_assets = @ - paid]
  BY DEF redeem, When
<1>3. paid \in Nat
  BY RedeemRoundsUp, Fields, Amounts DEF WellFormed
<1> HIDE DEF paid
<1>4. stable \in [LPs -> U64] /\ shares \in [LPs -> U64]
  BY <1>1, Fields, Amounts, Less DEF WellFormed
<1>5. paid <= v.total_managed_assets
  <2>1. v.total_managed_assets \in Nat /\ v.locked_capital \in Nat
    BY Fields, Amounts DEF WellFormed
  <2> QED
    BY <1>1, <1>3, <2>1
<1>6. /\ v.supply - burnt \in U64 /\ v.vault_tokens - paid \in U64
      /\ v.total_managed_assets - paid \in U64
  BY <1>1, <1>3, <1>5, Fields, Amounts, Less DEF WellFormed
<1> HIDE DEF stable, shares
<1> QED
  BY <1>2, <1>4, <1>6 DEF WellFormed, VaultType

\* request_withdrawal: the new request is the last one, and the latest.
LEMMA RequestWithdrawalWellFormed ==
    ASSUME NEW v, WellFormed(v), NEW lp \in LPs, NEW burnt \in U64,
           now \in Time, Len(v.requests) < MaxQueue,
           NEW w \in request_withdrawal(v, lp, burnt)
    PROVE  WellFormed(w) /\ (InOrder(v.requests) => InOrder(w.requests))
<1> DEFINE pending == compute_assets_for_redeem(burnt, v.supply, v.total_managed_assets)
           request == [owner |-> lp, shares |-> burnt,
                       pending_assets |-> pending, timestamp |-> now]
           requests == Append(v.requests, request)
           shares == [v.shares EXCEPT ![lp] = @ - burnt]
<1>1. /\ burnt <= v.shares[lp] /\ burnt <= v.supply
      /\ pending <= v.total_managed_assets
  BY DEF request_withdrawal, When
<1>2. w = [v EXCEPT !.supply = @ - burnt, !.shares = shares,
                    !.requests = requests,
                    !.total_managed_assets = @ - pending,
                    !.withdrawal_queue_count = @ + 1]
  BY DEF request_withdrawal, When
<1>3. pending \in Nat
  BY RedeemRoundsUp, Fields, Amounts DEF WellFormed
<1> HIDE DEF pending
<1>4. shares \in [LPs -> U64]
  BY <1>1, Fields, Amounts, Less DEF WellFormed
<1>5. v.supply - burnt \in U64 /\ v.total_managed_assets - pending \in U64
  BY <1>1, <1>3, Fields, Amounts, Less DEF WellFormed
<1>6. pending \in U64
  <2>1. v.total_managed_assets \in U64
    BY Fields DEF WellFormed
  <2> QED
    BY <1>1, <1>3, <2>1, ChainAssumption DEF U64
<1>7. request \in WithdrawalRequest /\ request.timestamp = now
  BY <1>6 DEF WithdrawalRequest
<1> HIDE DEF request
<1>8. /\ requests \in Seq(WithdrawalRequest)
      /\ Len(requests) = Len(v.requests) + 1
      /\ \A i \in 1 .. Len(v.requests) : requests[i] = v.requests[i]
      /\ requests[Len(v.requests) + 1] = request
      /\ Len(v.requests) \in Nat
  BY <1>7, Fields DEF WellFormed
<1> HIDE DEF requests, shares
<1>9. InOrder(v.requests) => InOrder(requests)
  <2> SUFFICES ASSUME InOrder(v.requests)
               PROVE  InOrder(requests)
    OBVIOUS
  <2>1. now <= now
    BY DEF Time
  <2>2. \A i \in 1 .. Len(requests) : requests[i].timestamp <= now
    BY <1>7, <1>8, <2>1 DEF InOrder
  <2>3. ASSUME NEW i \in 1 .. Len(requests), NEW j \in 1 .. Len(requests), i < j
        PROVE  requests[i].timestamp <= requests[j].timestamp
    <3>1. i \in 1 .. Len(v.requests) /\ requests[i] = v.requests[i]
      BY <1>8, <2>3
    <3>2. CASE j = Len(v.requests) + 1
      BY <1>7, <1>8, <2>2, <3>2
    <3>3. CASE j \in 1 .. Len(v.requests)
      BY <1>8, <2>3, <3>1, <3>3 DEF InOrder
    <3> QED
      BY <1>8, <3>2, <3>3
  <2> QED
    BY <2>2, <2>3 DEF InOrder
<1>10. v.withdrawal_queue_count + 1 \in 0 .. MaxQueue
  BY <1>8, VaultAssumption DEF WellFormed
<1> QED
  BY <1>2, <1>4, <1>5, <1>8, <1>9, <1>10 DEF WellFormed, VaultType

\* cancel_withdrawal, at any position.
LEMMA CancelWithdrawalWellFormed ==
    ASSUME NEW v, WellFormed(v), NEW lp \in LPs, NEW i \in Nat,
           NEW w \in cancel_withdrawal(v, lp, i)
    PROVE  WellFormed(w) /\ (InOrder(v.requests) => InOrder(w.requests))
<1> DEFINE requests == RemoveAt(v.requests, i)
           shares == [v.shares EXCEPT ![lp] = @ + v.requests[i].shares]
<1>1. /\ i \in 1 .. Len(v.requests)
      /\ v.supply + v.requests[i].shares \in U64
      /\ v.shares[lp] + v.requests[i].shares \in U64
      /\ v.total_managed_assets + v.requests[i].pending_assets \in U64
      /\ v.withdrawal_queue_count > 0
  BY DEF cancel_withdrawal, When
<1>2. w = [v EXCEPT !.requests = requests,
                    !.supply = @ + v.requests[i].shares, !.shares = shares,
                    !.total_managed_assets = @ + v.requests[i].pending_assets,
                    !.withdrawal_queue_count = @ - 1]
  BY DEF cancel_withdrawal, When
<1>3. shares \in [LPs -> U64]
  BY <1>1, Fields DEF WellFormed
<1>4. /\ requests \in Seq(WithdrawalRequest)
      /\ Len(requests) = Len(v.requests) - 1
      /\ \A j \in 1 .. Len(v.requests) - 1 :
            requests[j] = v.requests[IF j < i THEN j ELSE j + 1]
      /\ Len(v.requests) \in Nat
  <2>1. v.requests \in Seq(WithdrawalRequest)
    BY Fields DEF WellFormed
  <2> QED
    BY <1>1, <2>1, RemoveAtProperties, LenProperties
<1> HIDE DEF requests, shares
<1>5. InOrder(v.requests) => InOrder(requests)
  <2> DEFINE position == [j \in 1 .. Len(requests) |-> IF j < i THEN j ELSE j + 1]
  <2>1. /\ position \in [1 .. Len(requests) -> 1 .. Len(v.requests)]
        /\ \A j \in 1 .. Len(requests) : requests[j] = v.requests[position[j]]
    BY <1>1, <1>4
  <2>2. \A j, k \in 1 .. Len(requests) : j < k => position[j] < position[k]
    BY <1>1, <1>4
  <2> HIDE DEF position
  <2> QED
    BY <2>1, <2>2, InOrderPart
<1>6. v.withdrawal_queue_count - 1 \in 0 .. MaxQueue
  BY <1>1, Fields, VaultAssumption DEF WellFormed
<1> QED
  BY <1>1, <1>2, <1>3, <1>4, <1>5, <1>6 DEF WellFormed, VaultType

\* collect
LEMMA CollectWellFormed ==
    ASSUME NEW v, WellFormed(v), NEW lp \in LPs, NEW w \in collect(v, lp)
    PROVE  WellFormed(w) /\ w.requests = v.requests /\ w.supply = v.supply
<1> DEFINE stable == [v.stable EXCEPT ![lp] = @ + v.claimable[lp]]
           claimable == [v.claimable EXCEPT ![lp] = 0]
<1>1. /\ v.claimable[lp] <= v.vault_tokens
      /\ v.stable[lp] + v.claimable[lp] \in U64
  BY DEF collect, When
<1>2. w = [v EXCEPT !.vault_tokens = @ - v.claimable[lp], !.stable = stable,
                    !.claimable = claimable]
  BY DEF collect, When
<1>3. 0 \in U64
  BY ChainAssumption DEF U64
<1>4. stable \in [LPs -> U64] /\ claimable \in [LPs -> U64]
  BY <1>1, <1>3, Fields DEF WellFormed
<1>5. v.vault_tokens - v.claimable[lp] \in U64
  BY <1>1, Fields, Amounts, Less DEF WellFormed
<1> HIDE DEF stable, claimable
<1> QED
  BY <1>2, <1>4, <1>5 DEF WellFormed, VaultType

\* increase_locked, decrease_locked, send_payout and record_premium_income move
\* one or two amounts and leave the queue alone.
LEMMA IncreaseLockedWellFormed ==
    ASSUME NEW v, WellFormed(v), NEW amount \in U64, NEW w \in increase_locked(v, amount)
    PROVE  WellFormed(w) /\ w.requests = v.requests /\ w.supply = v.supply
  BY DEF increase_locked, When, WellFormed, VaultType

\* decrease_locked
LEMMA DecreaseLockedWellFormed ==
    ASSUME NEW v, WellFormed(v), NEW amount \in Nat, NEW w \in decrease_locked(v, amount)
    PROVE  WellFormed(w) /\ w.requests = v.requests /\ w.supply = v.supply
<1>1. /\ amount <= v.locked_capital
      /\ w = [v EXCEPT !.locked_capital = @ - amount]
  <2>1. v.locked_capital \in U64
    BY Fields DEF WellFormed
  <2> QED
    BY <2>1, Amounts DEF decrease_locked, When
<1>2. v.locked_capital - amount \in U64
  BY <1>1, Fields, Less DEF WellFormed
<1> QED
  BY <1>1, <1>2 DEF WellFormed, VaultType

\* send_payout
LEMMA SendPayoutWellFormed ==
    ASSUME NEW v, WellFormed(v), NEW amount \in Nat, NEW w \in send_payout(v, amount)
    PROVE  WellFormed(w) /\ w.requests = v.requests /\ w.supply = v.supply
<1>1. /\ amount <= v.vault_tokens /\ amount <= v.total_managed_assets
      /\ w = [v EXCEPT !.vault_tokens = @ - amount,
                       !.total_managed_assets = @ - amount]
  BY DEF send_payout, When
<1>2. v.vault_tokens - amount \in U64 /\ v.total_managed_assets - amount \in U64
  BY <1>1, Fields, Less DEF WellFormed
<1> QED
  BY <1>1, <1>2 DEF WellFormed, VaultType

\* record_premium_income
LEMMA RecordPremiumIncomeWellFormed ==
    ASSUME NEW v, WellFormed(v), NEW amount \in Nat,
           NEW w \in record_premium_income(v, amount)
    PROVE  WellFormed(w) /\ w.requests = v.requests /\ w.supply = v.supply
  BY DEF record_premium_income, When, WellFormed, VaultType

\* process_withdrawal_queue, over any claimable accounts.
LEMMA ProcessWithdrawalQueueWellFormed ==
    ASSUME NEW v, WellFormed(v), NEW claimables,
           NEW w \in process_withdrawal_queue(v, claimables)
    PROVE  /\ WellFormed(w) /\ w.supply = v.supply
           /\ InOrder(v.requests) => InOrder(w.requests)
<1> DEFINE credited(filled) ==
               [lp \in LPs |-> v.claimable[lp] + OwedBy(v.requests, filled, {lp})]
<1>1. PICK filled \in Fillable(v, claimables) :
          /\ credited(filled) \in [LPs -> U64]
          /\ filled <= v.withdrawal_queue_count
          /\ w = [v EXCEPT !.claimable = credited(filled),
                           !.requests = SubSeq(@, filled + 1, Len(@)),
                           !.withdrawal_queue_count = @ - filled]
  BY DEF process_withdrawal_queue, When
<1>2. filled \in 0 .. Len(v.requests)
  BY DEF Fillable
<1> DEFINE claimable == credited(filled)
           requests == SubSeq(v.requests, filled + 1, Len(v.requests))
<1>3. /\ claimable \in [LPs -> U64]
      /\ w = [v EXCEPT !.claimable = claimable, !.requests = requests,
                       !.withdrawal_queue_count = @ - filled]
  BY <1>1
<1>4. v.requests \in Seq(WithdrawalRequest) /\ v.withdrawal_queue_count \in 0 .. MaxQueue
  BY Fields DEF WellFormed
<1>5. /\ requests \in Seq(WithdrawalRequest)
      /\ Len(requests) = Len(v.requests) - filled
      /\ \A j \in 1 .. Len(v.requests) - filled :
            requests[j] = v.requests[filled + j]
      /\ Len(v.requests) \in Nat
  BY <1>2, <1>4, DrainProperties, LenProperties
<1> HIDE DEF claimable, requests
<1>6. InOrder(v.requests) => InOrder(requests)
  <2> DEFINE position == [j \in 1 .. Len(requests) |-> filled + j]
  <2>1. /\ position \in [1 .. Len(requests) -> 1 .. Len(v.requests)]
        /\ \A j \in 1 .. Len(requests) : requests[j] = v.requests[position[j]]
    BY <1>2, <1>5
  <2>2. \A j, k \in 1 .. Len(requests) : j < k => position[j] < position[k]
    BY <1>2, <1>5
  <2> HIDE DEF position
  <2> QED
    BY <2>1, <2>2, InOrderPart
<1>7. v.withdrawal_queue_count - filled \in 0 .. MaxQueue
  BY <1>1, <1>2, <1>4, <1>5, VaultAssumption
<1> QED
  BY <1>3, <1>5, <1>6, <1>7 DEF WellFormed, VaultType

\* snapshot
LEMMA SnapshotWellFormed ==
    ASSUME NEW v, WellFormed(v), now \in Time, NEW day, NEW w \in snapshot(v, day)
    PROVE  WellFormed(w) /\ w.requests = v.requests /\ w.supply = v.supply
  BY DEF snapshot, When, WellFormed, VaultType

\* The drain and the snapshot at the end of execute_settlements.
LEMMA HousekeepingWellFormed ==
    ASSUME NEW v, WellFormed(v), now \in Time, NEW claimables, NEW day,
           NEW w \in housekeeping(v, claimables, day)
    PROVE  /\ WellFormed(w) /\ w.supply = v.supply
           /\ InOrder(v.requests) => InOrder(w.requests)
<1>1. PICK drained \in process_withdrawal_queue(v, claimables) :
          w \in snapshot(drained, day)
  BY DEF housekeeping
<1>2. /\ WellFormed(drained) /\ drained.supply = v.supply
      /\ InOrder(v.requests) => InOrder(drained.requests)
  BY ProcessWithdrawalQueueWellFormed
<1> QED
  BY <1>1, <1>2, SnapshotWellFormed

\* The calls that settle a flight on time.
LEMMA SettlePremiumWellFormed ==
    ASSUME NEW v, WellFormed(v), NEW premium \in Nat, NEW payoff \in Nat,
           NEW w \in settle_premium_into_vault(v, premium, payoff)
    PROVE  WellFormed(w) /\ w.requests = v.requests /\ w.supply = v.supply
<1> DEFINE arrived == [v EXCEPT !.vault_tokens = @ + premium]
<1>1. v.vault_tokens + premium \in U64
  BY DEF settle_premium_into_vault
<1>2. PICK booked \in record_premium_income(arrived, premium) :
          w \in decrease_locked(booked, payoff)
  BY DEF settle_premium_into_vault
<1>3. WellFormed(arrived) /\ arrived.requests = v.requests /\ arrived.supply = v.supply
  BY <1>1 DEF WellFormed, VaultType
<1> HIDE DEF arrived
<1>4. WellFormed(booked) /\ booked.requests = v.requests /\ booked.supply = v.supply
  BY <1>3, RecordPremiumIncomeWellFormed
<1> QED
  BY <1>2, <1>4, DecreaseLockedWellFormed

\* The calls that settle a delayed or cancelled flight.
LEMMA SettlePayoutWellFormed ==
    ASSUME NEW v, WellFormed(v), NEW payout_diff \in Nat, NEW payoff \in Nat,
           NEW w \in settle_payout_from_vault(v, payout_diff, payoff)
    PROVE  WellFormed(w) /\ w.requests = v.requests /\ w.supply = v.supply
<1>1. PICK paid \in IF payout_diff > 0 THEN send_payout(v, payout_diff) ELSE {v} :
          w \in decrease_locked(paid, payoff)
  BY DEF settle_payout_from_vault
<1>2. WellFormed(paid) /\ paid.requests = v.requests /\ paid.supply = v.supply
  BY <1>1, SendPayoutWellFormed
<1> QED
  BY <1>1, <1>2, DecreaseLockedWellFormed

-----------------------------------------------------------------------------
(* What the queue owes. *)

\* One request's part of what is owed to the LPs of S.
Part(request, S) == IF request.owner \in S THEN request.pending_assets ELSE 0

Parts(requests, k, S) == [i \in 1 .. k |-> Part(requests[i], S)]

\* What requests owe is a sum of numbers, over a finite set.
LEMMA PartsType ==
    ASSUME NEW requests \in Seq(WithdrawalRequest), NEW k \in 0 .. Len(requests), NEW S
    PROVE  /\ Parts(requests, k, S) \in [1 .. k -> Nat]
           /\ IsFiniteSet(1 .. k)
           /\ OwedBy(requests, k, S) = SumFunction(Parts(requests, k, S))
<1>1. Len(requests) \in Nat
  BY LenProperties
<1>2. \A i \in 1 .. k : Part(requests[i], S) \in Nat
  <2> SUFFICES ASSUME NEW i \in 1 .. k
               PROVE  Part(requests[i], S) \in Nat
    OBVIOUS
  <2>1. requests[i] \in WithdrawalRequest
    BY <1>1, ElementOfSeq
  <2> QED
    BY <2>1, Amounts DEF Part, WithdrawalRequest
<1> QED
  BY <1>1, <1>2, FS_Interval DEF Parts, OwedBy, Part

\* So it is a number.
LEMMA OwedType ==
    ASSUME NEW requests \in Seq(WithdrawalRequest), NEW k \in 0 .. Len(requests), NEW S
    PROVE  OwedBy(requests, k, S) \in Nat
<1>1. /\ Parts(requests, k, S) \in [1 .. k -> Nat] /\ IsFiniteSet(1 .. k)
      /\ OwedBy(requests, k, S) = SumFunction(Parts(requests, k, S))
  BY PartsType
<1> DEFINE D == 1 .. k
           f == Parts(requests, k, S)
<1> HIDE DEF D, f
<1>2. f \in [D -> Nat] /\ IsFiniteSet(D)
  BY <1>1 DEF D, f
<1>3. SumFunction(f) \in Nat
  BY <1>2, SumOfNaturals
<1> QED
  BY <1>1, <1>3 DEF f

\* An empty prefix owes nothing.
LEMMA OwedNothing ==
    ASSUME NEW requests \in Seq(WithdrawalRequest), NEW S
    PROVE  OwedBy(requests, 0, S) = 0
<1>1. 0 \in 0 .. Len(requests)
  BY LenProperties
<1>2. /\ Parts(requests, 0, S) \in [1 .. 0 -> Nat] /\ IsFiniteSet(1 .. 0)
      /\ OwedBy(requests, 0, S) = SumFunction(Parts(requests, 0, S))
  BY <1>1, PartsType
<1> DEFINE D == 1 .. 0
           f == Parts(requests, 0, S)
<1>3. /\ f \in [D -> Int] /\ IsFiniteSet(D) /\ \A i \in D : f[i] = 0
  BY <1>2
<1> HIDE DEF D, f
<1>4. SumFunction(f) = 0
  BY <1>3, SumOfZeros
<1> QED
  BY <1>2, <1>4 DEF f

\* A new request adds its part.
LEMMA OwedAppended ==
    ASSUME NEW requests \in Seq(WithdrawalRequest), NEW request \in WithdrawalRequest,
           NEW S
    PROVE  OwedBy(Append(requests, request), Len(requests) + 1, S)
              = OwedBy(requests, Len(requests), S) + Part(request, S)
<1> DEFINE n == Len(requests)
           longer == Append(requests, request)
           D == 1 .. n + 1
           last == n + 1
           f == Parts(longer, n + 1, S)
           g == Parts(requests, n, S)
<1>1. /\ n \in Nat /\ longer \in Seq(WithdrawalRequest) /\ Len(longer) = n + 1
      /\ longer[n + 1] = request /\ \A i \in 1 .. n : longer[i] = requests[i]
  BY LenProperties
<1>2. /\ f \in [D -> Nat] /\ IsFiniteSet(D)
      /\ OwedBy(longer, n + 1, S) = SumFunction(f)
  <2> HIDE DEF longer
  <2>1. n + 1 \in 0 .. Len(longer)
    BY <1>1
  <2> QED
    BY <1>1, <2>1, PartsType
<1>3. g \in [1 .. n -> Nat] /\ OwedBy(requests, n, S) = SumFunction(g)
  <2>1. n \in 0 .. Len(requests)
    BY <1>1
  <2> QED
    BY <2>1, PartsType
<1>4. last \in D /\ D \ {last} = 1 .. n
  BY <1>1
<1>5. f[last] = Part(request, S) /\ \A i \in 1 .. n : g[i] = f[i]
  BY <1>1 DEF Parts
<1> HIDE DEF n, longer, D, f, g, last
<1>6. SumFunction(f) = f[last] + SumFunction(g)
  <2>1. LeavesOut(f, D, last, g)
    BY <1>2, <1>3, <1>4, <1>5 DEF LeavesOut
  <2> QED
    BY <2>1, SumWithout
<1>7. Part(request, S) \in Int /\ SumFunction(g) \in Int
  <2>1. n \in 0 .. Len(requests)
    BY <1>1 DEF n
  <2>2. OwedBy(requests, n, S) \in Nat
    BY <2>1, OwedType
  <2> QED
    BY <1>2, <1>3, <1>4, <1>5, <2>2
<1> QED
  BY <1>2, <1>3, <1>5, <1>6, <1>7 DEF n, longer

\* A request that leaves takes its part with it, wherever it stood.
LEMMA OwedRemoved ==
    ASSUME NEW requests \in Seq(WithdrawalRequest), NEW i \in 1 .. Len(requests), NEW S
    PROVE  OwedBy(requests, Len(requests), S)
              = Part(requests[i], S)
                + OwedBy(RemoveAt(requests, i), Len(requests) - 1, S)
<1> DEFINE n == Len(requests)
           rest == RemoveAt(requests, i)
           D == 1 .. n
           E == 1 .. n - 1
           gone == i
           Q == D \ {gone}
           f == Parts(requests, n, S)
           g == [j \in Q |-> f[j]]
           h == Parts(rest, n - 1, S)
           was == [j \in E |-> IF j < i THEN j ELSE j + 1]
<1>1. /\ n \in Nat /\ rest \in Seq(WithdrawalRequest) /\ Len(rest) = n - 1
      /\ \A j \in E : rest[j] = requests[was[j]]
  BY LenProperties, RemoveAtProperties
<1>2. /\ f \in [D -> Nat] /\ IsFiniteSet(D)
      /\ OwedBy(requests, n, S) = SumFunction(f)
  <2>1. n \in 0 .. Len(requests)
    BY <1>1
  <2> QED
    BY <2>1, PartsType
<1>3. /\ h \in [E -> Nat] /\ IsFiniteSet(E)
      /\ OwedBy(rest, n - 1, S) = SumFunction(h)
  <2> HIDE DEF rest
  <2>1. n - 1 \in 0 .. Len(rest)
    BY <1>1
  <2> QED
    BY <1>1, <2>1, PartsType
<1>4. /\ was \in [E -> Q]
      /\ \A j, k \in E : was[j] = was[k] => j = k
      /\ \A k \in Q : \E j \in E : was[j] = k
  <2>1. was \in [E -> Q]
    BY <1>1
  <2>2. \A j, k \in E : was[j] = was[k] => j = k
    BY <1>1
  <2>3. ASSUME NEW k \in Q PROVE \E j \in E : was[j] = k
    <3>1. CASE k < i
      <4>1. k \in E /\ was[k] = k
        BY <1>1, <3>1
      <4> QED
        BY <4>1
    <3>2. CASE k > i
      <4>1. k - 1 \in E /\ was[k - 1] = k
        BY <1>1, <3>2
      <4> QED
        BY <4>1
    <3> QED
      BY <1>1, <3>1, <3>2
  <2> QED
    BY <2>1, <2>2, <2>3
<1>5. \A j \in E : h[j] = g[was[j]]
  BY <1>1, <1>4 DEF Parts
<1>6. f[gone] = Part(requests[i], S)
  BY DEF Parts
<1>7. /\ gone \in D /\ f \in [D -> Int] /\ h \in [E -> Int]
      /\ g \in [D \ {gone} -> Int] /\ \A j \in D \ {gone} : g[j] = f[j]
      /\ Q = D \ {gone}
  BY <1>2, <1>3
<1> HIDE DEF n, rest, D, E, Q, f, g, h, was, gone
<1>8. SumFunction(f) = f[gone] + SumFunction(g)
  <2>1. LeavesOut(f, D, gone, g)
    BY <1>2, <1>7 DEF LeavesOut
  <2> QED
    BY <2>1, SumWithout
<1>9. SumFunction(h) = SumFunction(g)
  <2>1. IsFiniteSet(Q) /\ g \in [Q -> Int]
    BY <1>2, <1>7, FS_RemoveElement
  <2>2. Renames(h, E, g, Q, was)
    BY <1>3, <1>4, <1>5, <1>7, <2>1 DEF Renames
  <2> QED
    BY <2>2, SumReindexed, Zenon
<1> QED
  BY <1>2, <1>3, <1>6, <1>8, <1>9 DEF n, rest

\* A drain splits what is owed between its prefix and what stays queued.
LEMMA OwedDrained ==
    ASSUME NEW requests \in Seq(WithdrawalRequest), NEW k \in 0 .. Len(requests), NEW S
    PROVE  OwedBy(requests, Len(requests), S)
              = OwedBy(requests, k, S)
                + OwedBy(SubSeq(requests, k + 1, Len(requests)), Len(requests) - k, S)
<1> DEFINE n == Len(requests)
           rest == SubSeq(requests, k + 1, n)
           D == 1 .. n
           P == 1 .. k
           Q == D \ P
           E == 1 .. n - k
           f == Parts(requests, n, S)
           g == Parts(requests, k, S)
           h == Parts(rest, n - k, S)
           u == [j \in Q |-> f[j]]
           was == [j \in E |-> k + j]
<1>1. /\ n \in Nat /\ rest \in Seq(WithdrawalRequest) /\ Len(rest) = n - k
      /\ \A j \in E : rest[j] = requests[was[j]]
  BY LenProperties, DrainProperties
<1>2. /\ f \in [D -> Nat] /\ IsFiniteSet(D)
      /\ OwedBy(requests, n, S) = SumFunction(f)
  <2>1. n \in 0 .. Len(requests)
    BY <1>1
  <2> QED
    BY <2>1, PartsType
<1>3. /\ g \in [P -> Nat] /\ OwedBy(requests, k, S) = SumFunction(g)
  BY PartsType
<1>4. /\ h \in [E -> Nat] /\ IsFiniteSet(E)
      /\ OwedBy(rest, n - k, S) = SumFunction(h)
  <2> HIDE DEF rest
  <2>1. n - k \in 0 .. Len(rest)
    BY <1>1
  <2> QED
    BY <1>1, <2>1, PartsType
<1>5. /\ was \in [E -> Q]
      /\ \A j, l \in E : was[j] = was[l] => j = l
      /\ \A l \in Q : \E j \in E : was[j] = l
  <2>1. was \in [E -> Q] /\ \A j, l \in E : was[j] = was[l] => j = l
    BY <1>1
  <2>2. ASSUME NEW l \in Q PROVE \E j \in E : was[j] = l
    <3>1. l - k \in E /\ was[l - k] = l
      BY <1>1
    <3> QED
      BY <3>1
  <2> QED
    BY <2>1, <2>2
<1>6. \A j \in E : h[j] = u[was[j]]
  BY <1>1, <1>5 DEF Parts
<1>7. /\ f \in [D -> Int] /\ P \in SUBSET D
      /\ g \in [P -> Int] /\ \A j \in P : g[j] = f[j]
      /\ u \in [D \ P -> Int] /\ \A j \in D \ P : u[j] = f[j]
      /\ Q = D \ P /\ h \in [E -> Int]
  BY <1>1, <1>2, <1>3, <1>4 DEF Parts
<1> HIDE DEF n, rest, D, P, Q, E, f, g, h, u, was
<1>8. SumFunction(f) = SumFunction(g) + SumFunction(u)
  <2>1. SplitsInto(f, D, g, P, u)
    BY <1>2, <1>7 DEF SplitsInto
  <2> QED
    BY <2>1, SumSplit
<1>9. SumFunction(h) = SumFunction(u)
  <2>1. IsFiniteSet(Q) /\ u \in [Q -> Int]
    BY <1>2, <1>7, FS_Difference
  <2>2. Renames(h, E, u, Q, was)
    BY <1>4, <1>5, <1>6, <1>7, <2>1 DEF Renames
  <2> QED
    BY <2>2, SumReindexed, Zenon
<1> QED
  BY <1>2, <1>3, <1>4, <1>8, <1>9 DEF n, rest

-----------------------------------------------------------------------------
(* Who owns what.  Each handler moves the holdings of the LP who calls it,  *)
(* or nobody's, and moves the vault's own books by as much.                 *)

\* What the vault owes an LP: queued for them, or credited to them.
Due(v, lp) == Queued(v, lp) + v.claimable[lp]

\* What the vault's account holds beyond what the books say.
Surplus(v) ==
    v.vault_tokens - v.total_managed_assets
    - SumFunction([lp \in LPs |-> Due(v, lp)])

SupplyIsHeld(v) == v.supply = SumFunction(v.shares)

\* An LP's call: nothing of the others moves.
MovesOnly(v, w, lp) ==
    /\ \A other \in LPs \ {lp} : /\ w.shares[other] = v.shares[other]
                                 /\ w.stable[other] = v.stable[other]
                                 /\ Due(w, other) = Due(v, other)
    /\ w.supply - v.supply = w.shares[lp] - v.shares[lp]
    /\ w.vault_tokens - v.vault_tokens =
          (w.total_managed_assets - v.total_managed_assets) + (Due(w, lp) - Due(v, lp))
    /\ w.claimable = v.claimable \/ w.requests = v.requests

\* The controller's calls: the holdings of the LPs do not move.
MovesNothing(v, w) ==
    /\ w.shares = v.shares /\ w.stable = v.stable /\ w.supply = v.supply
    /\ \A lp \in LPs : Due(w, lp) = Due(v, lp)
    /\ w.vault_tokens - v.vault_tokens = w.total_managed_assets - v.total_managed_assets

\* The amounts of a well-formed vault are numbers, and so is what it owes.
LEMMA Numbers ==
    ASSUME NEW v, WellFormed(v)
    PROVE  /\ v.total_managed_assets \in Nat /\ v.vault_tokens \in Nat
           /\ v.supply \in Nat /\ v.locked_capital \in Nat
           /\ \A lp \in LPs : /\ v.shares[lp] \in Nat /\ v.stable[lp] \in Nat
                              /\ v.claimable[lp] \in Nat
                              /\ Queued(v, lp) \in Nat /\ Due(v, lp) \in Nat
<1>1. /\ v.total_managed_assets \in Nat /\ v.vault_tokens \in Nat
      /\ v.supply \in Nat /\ v.locked_capital \in Nat
      /\ \A lp \in LPs : /\ v.shares[lp] \in Nat /\ v.stable[lp] \in Nat
                         /\ v.claimable[lp] \in Nat
  BY Fields, Amounts DEF WellFormed
<1>2. ASSUME NEW lp \in LPs PROVE Queued(v, lp) \in Nat
  <2>1. v.requests \in Seq(WithdrawalRequest)
    BY Fields DEF WellFormed
  <2>2. Len(v.requests) \in 0 .. Len(v.requests)
    BY <2>1, LenProperties
  <2> QED
    BY <2>1, <2>2, OwedType DEF Queued
<1> QED
  BY <1>1, <1>2 DEF Due

\* initialize: the accounts are empty, and so are the books.
LEMMA InitialVault ==
    ASSUME NEW stable \in [LPs -> U64], NEW v, v = initialize_vault(stable)
    PROVE  WellFormed(v) /\ Surplus(v) = 0 /\ SupplyIsHeld(v)
<1> DEFINE due == [lp \in LPs |-> Due(v, lp)]
           none == [lp \in LPs |-> 0]
<1>1. 0 \in U64 /\ 0 \in 0 .. MaxQueue
  BY ChainAssumption, VaultAssumption DEF U64
<1>2. << >> \in Seq(WithdrawalRequest) /\ Len(<< >>) = 0
  OBVIOUS
<1>3. WellFormed(v)
  BY <1>1, <1>2 DEF initialize_vault, VaultType, WellFormed
<1>4. /\ v.requests = << >> /\ v.claimable = none /\ v.shares = none
      /\ v.supply = 0 /\ v.vault_tokens = 0 /\ v.total_managed_assets = 0
  BY DEF initialize_vault
<1>5. ASSUME NEW lp \in LPs PROVE Due(v, lp) = 0
  <2>1. Queued(v, lp) = 0
    BY <1>2, <1>4, OwedNothing DEF Queued
  <2> QED
    BY <1>4, <2>1 DEF Due
<1>6. due = none
  BY <1>5
<1>7. none \in [LPs -> Int] /\ \A lp \in LPs : none[lp] = 0
  OBVIOUS
<1> HIDE DEF none
<1>8. SumFunction(none) = 0
  BY <1>7, SumOfZeros, VaultAssumption
<1> QED
  BY <1>3, <1>4, <1>6, <1>8 DEF Surplus, SupplyIsHeld

\* Where the queue stays, so does what it owes.
LEMMA SameQueueSameDue ==
    ASSUME NEW v, NEW w, w.requests = v.requests, NEW lp, w.claimable[lp] = v.claimable[lp]
    PROVE  Due(w, lp) = Due(v, lp)
  BY DEF Due, Queued

\* The laws of the sums carry a single LP's change to the totals.
LEMMA BooksFollow ==
    ASSUME NEW v, NEW w, WellFormed(v), WellFormed(w),
           MovesNothing(v, w) \/ \E lp \in LPs : MovesOnly(v, w, lp)
    PROVE  Surplus(w) = Surplus(v) /\ (SupplyIsHeld(v) => SupplyIsHeld(w))
<1> DEFINE due(u) == [lp \in LPs |-> Due(u, lp)]
           f == due(v)
           g == due(w)
           sf == v.shares
           sg == w.shares
<1>1. /\ f \in [LPs -> Int] /\ g \in [LPs -> Int]
      /\ sf \in [LPs -> Int] /\ sg \in [LPs -> Int]
      /\ \A lp \in LPs : f[lp] = Due(v, lp) /\ g[lp] = Due(w, lp)
  <2>1. v.shares \in [LPs -> U64] /\ w.shares \in [LPs -> U64]
    BY Fields DEF WellFormed
  <2> QED
    BY <2>1, Numbers, Amounts
<1>2. /\ v.vault_tokens \in Int /\ w.vault_tokens \in Int
      /\ v.total_managed_assets \in Int /\ w.total_managed_assets \in Int
      /\ v.supply \in Int /\ w.supply \in Int
  BY Numbers
<1>3. /\ Surplus(v) = v.vault_tokens - v.total_managed_assets - SumFunction(f)
      /\ Surplus(w) = w.vault_tokens - w.total_managed_assets - SumFunction(g)
  BY DEF Surplus
<1> HIDE DEF f, g, sf, sg
<1>4. SumFunction(f) \in Int /\ SumFunction(g) \in Int /\ SumFunction(sf) \in Int
  BY <1>1, SumType, VaultAssumption
<1>5. CASE MovesNothing(v, w)
  <2>1. g = f
    BY <1>1, <1>5 DEF MovesNothing, f, g
  <2> QED
    BY <1>2, <1>3, <1>4, <1>5, <2>1 DEF MovesNothing, SupplyIsHeld
<1>6. ASSUME NEW a \in LPs, MovesOnly(v, w, a)
      PROVE  Surplus(w) = Surplus(v) /\ (SupplyIsHeld(v) => SupplyIsHeld(w))
  <2>1. DiffersAt(f, g, LPs, a) /\ DiffersAt(sf, sg, LPs, a)
    BY <1>1, <1>6, VaultAssumption DEF MovesOnly, DiffersAt, sf, sg
  <2>2. SumFunction(g) = SumFunction(f) + (g[a] - f[a])
    BY <2>1, SumChange
  <2>3. SumFunction(sg) = SumFunction(sf) + (sg[a] - sf[a])
    BY <2>1, SumChange
  <2>4. /\ w.supply - v.supply = sg[a] - sf[a]
        /\ w.vault_tokens - v.vault_tokens =
              (w.total_managed_assets - v.total_managed_assets) + (g[a] - f[a])
    BY <1>1, <1>6 DEF MovesOnly, sf, sg
  <2>5. g[a] \in Int /\ f[a] \in Int /\ sg[a] \in Int /\ sf[a] \in Int
    BY <1>1
  <2>6. Surplus(w) = Surplus(v)
    BY <1>2, <1>3, <1>4, <2>2, <2>4, <2>5
  <2>7. v.supply = SumFunction(sf) => w.supply = SumFunction(sg)
    BY <1>2, <1>4, <2>3, <2>4, <2>5
  <2> QED
    BY <2>6, <2>7 DEF SupplyIsHeld, sf, sg
<1> QED
  BY <1>5, <1>6

\* deposit
LEMMA DepositMoves ==
    ASSUME NEW v, WellFormed(v), NEW lp \in LPs, NEW amount \in U64,
           NEW w \in deposit(v, lp, amount)
    PROVE  MovesOnly(v, w, lp)
<1> DEFINE minted == compute_shares_for_deposit(amount, v.supply, v.total_managed_assets)
<1>1. minted \in Nat /\ amount \in Nat
  BY DepositRoundsDown, Numbers, Amounts
<1>2. /\ w.stable = [v.stable EXCEPT ![lp] = @ - amount]
      /\ w.shares = [v.shares EXCEPT ![lp] = @ + minted]
      /\ w.supply = v.supply + minted
      /\ w.vault_tokens = v.vault_tokens + amount
      /\ w.total_managed_assets = v.total_managed_assets + amount
      /\ w.requests = v.requests /\ w.claimable = v.claimable
  BY DEF deposit, When, WellFormed, VaultType
<1> HIDE DEF minted
<1>3. \A other \in LPs : Due(w, other) = Due(v, other)
  BY <1>2, SameQueueSameDue
<1>4. v.stable \in [LPs -> U64] /\ v.shares \in [LPs -> U64]
  BY Fields DEF WellFormed
<1> QED
  BY <1>1, <1>2, <1>3, <1>4, Numbers DEF MovesOnly

\* redeem
LEMMA RedeemMoves ==
    ASSUME NEW v, WellFormed(v), NEW lp \in LPs, NEW burnt \in U64,
           NEW w \in redeem(v, lp, burnt)
    PROVE  MovesOnly(v, w, lp)
<1> DEFINE paid == compute_assets_for_redeem(burnt, v.supply, v.total_managed_assets)
<1>1. burnt \in Nat
  BY Amounts
<1>2. /\ w.stable = [v.stable EXCEPT ![lp] = @ + paid]
      /\ w.shares = [v.shares EXCEPT ![lp] = @ - burnt]
      /\ w.supply = v.supply - burnt
      /\ w.vault_tokens = v.vault_tokens - paid
      /\ w.total_managed_assets = v.total_managed_assets - paid
      /\ w.requests = v.requests /\ w.claimable = v.claimable
      /\ burnt <= v.supply
  BY DEF redeem, When, WellFormed, VaultType
<1>3. paid \in Nat
  BY <1>1, <1>2, RedeemRoundsUp, Numbers
<1> HIDE DEF paid
<1>4. \A other \in LPs : Due(w, other) = Due(v, other)
  BY <1>2, SameQueueSameDue
<1>5. v.stable \in [LPs -> U64] /\ v.shares \in [LPs -> U64]
  BY Fields DEF WellFormed
<1> QED
  BY <1>1, <1>2, <1>3, <1>4, <1>5, Numbers DEF MovesOnly

\* request_withdrawal: what leaves the managed assets is owed to the owner.
LEMMA RequestWithdrawalMoves ==
    ASSUME NEW v, WellFormed(v), NEW lp \in LPs, NEW burnt \in U64,
           now \in Time, Len(v.requests) < MaxQueue,
           NEW w \in request_withdrawal(v, lp, burnt)
    PROVE  MovesOnly(v, w, lp)
<1> DEFINE pending == compute_assets_for_redeem(burnt, v.supply, v.total_managed_assets)
           request == [owner |-> lp, shares |-> burnt,
                       pending_assets |-> pending, timestamp |-> now]
<1>1. burnt \in Nat
  BY Amounts
<1>2. /\ w.shares = [v.shares EXCEPT ![lp] = @ - burnt]
      /\ w.supply = v.supply - burnt
      /\ w.total_managed_assets = v.total_managed_assets - pending
      /\ w.requests = Append(v.requests, request)
      /\ w.vault_tokens = v.vault_tokens
      /\ w.stable = v.stable /\ w.claimable = v.claimable
      /\ burnt <= v.supply /\ pending <= v.total_managed_assets
  BY DEF request_withdrawal, When, WellFormed, VaultType
<1>3. pending \in Nat
  BY <1>1, <1>2, RedeemRoundsUp, Numbers
<1>4. request \in WithdrawalRequest /\ request.owner = lp /\ request.pending_assets = pending
  <2>1. v.total_managed_assets \in U64
    BY Fields DEF WellFormed
  <2>2. pending \in U64
    BY <1>2, <1>3, <2>1, ChainAssumption DEF U64
  <2> QED
    BY <2>2 DEF WithdrawalRequest
<1> HIDE DEF pending, request
<1>5. v.requests \in Seq(WithdrawalRequest) /\ Len(w.requests) = Len(v.requests) + 1
  <2>1. v.requests \in Seq(WithdrawalRequest)
    BY Fields DEF WellFormed
  <2> QED
    BY <1>2, <1>4, <2>1
<1>6. \A other \in LPs :
         Queued(w, other) = Queued(v, other) + Part(request, {other})
  BY <1>2, <1>4, <1>5, OwedAppended DEF Queued
<1>7. Due(w, lp) = Due(v, lp) + pending
  <2>1. Queued(w, lp) = Queued(v, lp) + pending
    BY <1>4, <1>6 DEF Part
  <2> QED
    BY <1>2, <1>3, <2>1, Numbers DEF Due
<1>8. ASSUME NEW other \in LPs \ {lp} PROVE Due(w, other) = Due(v, other)
  <2>1. Queued(w, other) = Queued(v, other) + 0
    BY <1>4, <1>6 DEF Part
  <2>2. Queued(w, other) = Queued(v, other)
    BY <2>1, Numbers
  <2> QED
    BY <1>2, <2>2 DEF Due
<1>9. \A other \in LPs \ {lp} : w.shares[other] = v.shares[other]
  BY <1>2, Fields DEF WellFormed
<1>10. w.supply - v.supply = w.shares[lp] - v.shares[lp]
  <2>1. w.shares[lp] = v.shares[lp] - burnt
    BY <1>2, Fields DEF WellFormed
  <2>2. v.shares[lp] \in Nat /\ v.supply \in Nat
    BY Numbers
  <2> QED
    BY <1>1, <1>2, <2>1, <2>2
<1>11. w.vault_tokens - v.vault_tokens =
          (w.total_managed_assets - v.total_managed_assets) + (Due(w, lp) - Due(v, lp))
  <2>1. /\ v.vault_tokens \in Nat /\ v.total_managed_assets \in Nat
        /\ Due(v, lp) \in Nat
    BY Numbers
  <2> QED
    BY <1>2, <1>3, <1>7, <2>1
<1> QED
  BY <1>2, <1>8, <1>9, <1>10, <1>11 DEF MovesOnly

\* cancel_withdrawal: what returns to the managed assets was the owner's.
LEMMA CancelWithdrawalMoves ==
    ASSUME NEW v, WellFormed(v), NEW lp \in LPs, NEW i \in Nat,
           NEW w \in cancel_withdrawal(v, lp, i)
    PROVE  MovesOnly(v, w, lp)
<1> DEFINE request == v.requests[i]
<1>1. /\ i \in 1 .. Len(v.requests) /\ request.owner = lp
      /\ w.shares = [v.shares EXCEPT ![lp] = @ + request.shares]
      /\ w.supply = v.supply + request.shares
      /\ w.total_managed_assets = v.total_managed_assets + request.pending_assets
      /\ w.requests = RemoveAt(v.requests, i)
      /\ w.vault_tokens = v.vault_tokens
      /\ w.stable = v.stable /\ w.claimable = v.claimable
  BY DEF cancel_withdrawal, When, WellFormed, VaultType
<1>2. v.requests \in Seq(WithdrawalRequest) /\ v.shares \in [LPs -> U64]
  BY Fields DEF WellFormed
<1>3. request \in WithdrawalRequest
  BY <1>1, <1>2, ElementOfSeq
<1>4. request.shares \in Nat /\ request.pending_assets \in Nat
  BY <1>3, Amounts DEF WithdrawalRequest
<1>5. Len(w.requests) = Len(v.requests) - 1
  BY <1>1, <1>2, RemoveAtProperties
<1>6. \A other \in LPs :
         Queued(v, other) = Part(request, {other}) + Queued(w, other)
  BY <1>1, <1>2, <1>5, OwedRemoved DEF Queued
<1> HIDE DEF request
<1>7. \A other \in LPs : Queued(w, other) \in Nat
  BY CancelWithdrawalWellFormed, Numbers
<1>8. Due(v, lp) = Due(w, lp) + request.pending_assets
  <2>1. Queued(v, lp) = request.pending_assets + Queued(w, lp)
    BY <1>1, <1>6 DEF Part
  <2>2. v.claimable[lp] \in Nat /\ w.claimable[lp] = v.claimable[lp]
    BY <1>1, Numbers
  <2>3. Queued(w, lp) \in Nat
    BY <1>7
  <2> QED
    BY <1>4, <2>1, <2>2, <2>3 DEF Due
<1>9. ASSUME NEW other \in LPs \ {lp} PROVE Due(w, other) = Due(v, other)
  <2>1. Queued(v, other) = 0 + Queued(w, other)
    BY <1>1, <1>6 DEF Part
  <2>2. Queued(w, other) = Queued(v, other)
    BY <1>7, <2>1
  <2> QED
    BY <1>1, <2>2 DEF Due
<1>10. \A other \in LPs \ {lp} : w.shares[other] = v.shares[other]
  BY <1>1, <1>2
<1>11. w.supply - v.supply = w.shares[lp] - v.shares[lp]
  <2>1. w.shares[lp] = v.shares[lp] + request.shares
    BY <1>1, <1>2
  <2>2. v.shares[lp] \in Nat /\ v.supply \in Nat
    BY Numbers
  <2> QED
    BY <1>1, <1>4, <2>1, <2>2
<1>12. w.vault_tokens - v.vault_tokens =
          (w.total_managed_assets - v.total_managed_assets) + (Due(w, lp) - Due(v, lp))
  <2>1. /\ v.vault_tokens \in Nat /\ v.total_managed_assets \in Nat
        /\ Due(v, lp) \in Nat /\ Due(w, lp) \in Nat
    BY Numbers, CancelWithdrawalWellFormed
  <2> QED
    BY <1>1, <1>4, <1>8, <2>1
<1> QED
  BY <1>1, <1>9, <1>10, <1>11, <1>12 DEF MovesOnly

\* collect: what was credited leaves with the tokens.
LEMMA CollectMoves ==
    ASSUME NEW v, WellFormed(v), NEW lp \in LPs, NEW w \in collect(v, lp)
    PROVE  MovesOnly(v, w, lp)
<1>1. /\ w.vault_tokens = v.vault_tokens - v.claimable[lp]
      /\ w.stable = [v.stable EXCEPT ![lp] = @ + v.claimable[lp]]
      /\ w.claimable = [v.claimable EXCEPT ![lp] = 0]
      /\ w.requests = v.requests /\ w.shares = v.shares /\ w.supply = v.supply
      /\ w.total_managed_assets = v.total_managed_assets
  BY DEF collect, When, WellFormed, VaultType
<1>2. v.stable \in [LPs -> U64] /\ v.claimable \in [LPs -> U64]
  BY Fields DEF WellFormed
<1>3. /\ w.claimable[lp] = 0
      /\ \A other \in LPs \ {lp} : w.claimable[other] = v.claimable[other]
  BY <1>1, <1>2
<1>4. \A other \in LPs : Queued(w, other) = Queued(v, other)
  BY <1>1 DEF Queued
<1>5. \A other \in LPs \ {lp} : Due(w, other) = Due(v, other)
  BY <1>1, <1>3, SameQueueSameDue
<1>6. Due(w, lp) = Due(v, lp) - v.claimable[lp]
  BY <1>3, <1>4, Numbers DEF Due
<1> QED
  BY <1>1, <1>2, <1>5, <1>6, Numbers DEF MovesOnly

\* increase_locked, decrease_locked, snapshot: books of another kind.
LEMMA IncreaseLockedMoves ==
    ASSUME NEW v, WellFormed(v), NEW amount \in U64, NEW w \in increase_locked(v, amount)
    PROVE  MovesNothing(v, w)
<1>1. /\ w.shares = v.shares /\ w.stable = v.stable /\ w.supply = v.supply
      /\ w.requests = v.requests /\ w.claimable = v.claimable
      /\ w.vault_tokens = v.vault_tokens
      /\ w.total_managed_assets = v.total_managed_assets
  BY DEF increase_locked, When, WellFormed, VaultType
<1> QED
  BY <1>1, SameQueueSameDue, Numbers DEF MovesNothing

\* decrease_locked
LEMMA DecreaseLockedMoves ==
    ASSUME NEW v, WellFormed(v), NEW amount \in Nat, NEW w \in decrease_locked(v, amount)
    PROVE  MovesNothing(v, w)
<1>1. /\ w.shares = v.shares /\ w.stable = v.stable /\ w.supply = v.supply
      /\ w.requests = v.requests /\ w.claimable = v.claimable
      /\ w.vault_tokens = v.vault_tokens
      /\ w.total_managed_assets = v.total_managed_assets
  BY DEF decrease_locked, When, WellFormed, VaultType
<1> QED
  BY <1>1, SameQueueSameDue, Numbers DEF MovesNothing

\* snapshot
LEMMA SnapshotMoves ==
    ASSUME NEW v, WellFormed(v), NEW day, NEW w \in snapshot(v, day)
    PROVE  MovesNothing(v, w)
<1>1. /\ w.shares = v.shares /\ w.stable = v.stable /\ w.supply = v.supply
      /\ w.requests = v.requests /\ w.claimable = v.claimable
      /\ w.vault_tokens = v.vault_tokens
      /\ w.total_managed_assets = v.total_managed_assets
  BY DEF snapshot, When, WellFormed, VaultType
<1> QED
  BY <1>1, SameQueueSameDue, Numbers DEF MovesNothing

\* The tokens of a payout leave the account and the managed assets alike.
LEMMA SendPayoutMoves ==
    ASSUME NEW v, WellFormed(v), NEW amount \in Nat, NEW w \in send_payout(v, amount)
    PROVE  MovesNothing(v, w)
<1>1. /\ w.shares = v.shares /\ w.stable = v.stable /\ w.supply = v.supply
      /\ w.requests = v.requests /\ w.claimable = v.claimable
      /\ w.vault_tokens = v.vault_tokens - amount
      /\ w.total_managed_assets = v.total_managed_assets - amount
  BY DEF send_payout, When, WellFormed, VaultType
<1> QED
  BY <1>1, SameQueueSameDue, Numbers DEF MovesNothing

\* A drain turns what is queued for an LP into what is credited to them, for
\* every LP at once, over any claimable accounts.
LEMMA ProcessWithdrawalQueueMoves ==
    ASSUME NEW v, WellFormed(v), NEW claimables,
           NEW w \in process_withdrawal_queue(v, claimables)
    PROVE  MovesNothing(v, w)
<1> DEFINE credited(filled) ==
               [lp \in LPs |-> v.claimable[lp] + OwedBy(v.requests, filled, {lp})]
<1>1. PICK filled \in Fillable(v, claimables) :
          w = [v EXCEPT !.claimable = credited(filled),
                        !.requests = SubSeq(@, filled + 1, Len(@)),
                        !.withdrawal_queue_count = @ - filled]
  BY DEF process_withdrawal_queue, When
<1>2. filled \in 0 .. Len(v.requests)
  BY DEF Fillable
<1> DEFINE rest == SubSeq(v.requests, filled + 1, Len(v.requests))
<1>3. /\ w.shares = v.shares /\ w.stable = v.stable /\ w.supply = v.supply
      /\ w.requests = rest /\ w.claimable = credited(filled)
      /\ w.vault_tokens = v.vault_tokens
      /\ w.total_managed_assets = v.total_managed_assets
  BY <1>1 DEF WellFormed, VaultType
<1>4. v.requests \in Seq(WithdrawalRequest) /\ Len(v.requests) \in Nat
  BY Fields, LenProperties DEF WellFormed
<1>5. rest \in Seq(WithdrawalRequest) /\ Len(rest) = Len(v.requests) - filled
  BY <1>2, <1>4, DrainProperties
<1>6. ASSUME NEW lp \in LPs PROVE Due(w, lp) = Due(v, lp)
  <2> DEFINE paid == OwedBy(v.requests, filled, {lp})
             left == OwedBy(rest, Len(v.requests) - filled, {lp})
  <2>1. Queued(v, lp) = paid + left
    BY <1>2, <1>4, OwedDrained DEF Queued
  <2>2. Queued(w, lp) = left
    BY <1>3, <1>5 DEF Queued
  <2>3. w.claimable[lp] = v.claimable[lp] + paid
    BY <1>3
  <2>4. paid \in Nat
    BY <1>2, <1>4, OwedType
  <2>5. left \in Nat
    <3>1. Len(v.requests) - filled \in 0 .. Len(rest)
      BY <1>2, <1>4, <1>5
    <3> HIDE DEF rest
    <3> QED
      BY <1>5, <3>1, OwedType
  <2>6. v.claimable[lp] \in Nat
    BY Numbers
  <2> HIDE DEF paid, left
  <2> QED
    BY <2>1, <2>2, <2>3, <2>4, <2>5, <2>6 DEF Due
<1> QED
  BY <1>3, <1>6, Numbers DEF MovesNothing

\* What moves nothing twice moves nothing.
LEMMA MovesNothingTwice ==
    ASSUME NEW u, NEW v, NEW w, WellFormed(u), WellFormed(v), WellFormed(w),
           MovesNothing(u, v), MovesNothing(v, w)
    PROVE  MovesNothing(u, w)
<1>1. \A y \in {u, v, w} : y.vault_tokens \in Nat /\ y.total_managed_assets \in Nat
  BY Numbers
<1> QED
  BY <1>1 DEF MovesNothing

\* The drain and the snapshot, together.
LEMMA HousekeepingMoves ==
    ASSUME NEW v, WellFormed(v), now \in Time, NEW claimables, NEW day,
           NEW w \in housekeeping(v, claimables, day)
    PROVE  MovesNothing(v, w)
<1>1. PICK drained \in process_withdrawal_queue(v, claimables) :
          w \in snapshot(drained, day)
  BY DEF housekeeping
<1>2. WellFormed(drained) /\ MovesNothing(v, drained)
  BY ProcessWithdrawalQueueWellFormed, ProcessWithdrawalQueueMoves
<1>3. WellFormed(w) /\ MovesNothing(drained, w)
  BY <1>1, <1>2, SnapshotWellFormed, SnapshotMoves
<1> QED
  BY <1>2, <1>3, MovesNothingTwice

\* The premiums that reached the token account are booked before the call ends.
LEMMA SettlePremiumMoves ==
    ASSUME NEW v, WellFormed(v), NEW premium \in Nat, NEW payoff \in Nat,
           NEW w \in settle_premium_into_vault(v, premium, payoff)
    PROVE  MovesNothing(v, w)
<1> DEFINE arrived == [v EXCEPT !.vault_tokens = @ + premium]
<1>1. v.vault_tokens + premium \in U64
  BY DEF settle_premium_into_vault
<1>2. PICK booked \in record_premium_income(arrived, premium) :
          w \in decrease_locked(booked, payoff)
  BY DEF settle_premium_into_vault
<1>3. /\ WellFormed(arrived)
      /\ arrived.vault_tokens = v.vault_tokens + premium
      /\ arrived.total_managed_assets = v.total_managed_assets
      /\ arrived.shares = v.shares /\ arrived.stable = v.stable
      /\ arrived.supply = v.supply
      /\ arrived.requests = v.requests /\ arrived.claimable = v.claimable
  BY <1>1 DEF WellFormed, VaultType
<1> HIDE DEF arrived
<1>4. /\ WellFormed(booked)
      /\ booked.vault_tokens = arrived.vault_tokens
      /\ booked.total_managed_assets = arrived.total_managed_assets + premium
      /\ booked.shares = arrived.shares /\ booked.stable = arrived.stable
      /\ booked.supply = arrived.supply
      /\ booked.requests = arrived.requests /\ booked.claimable = arrived.claimable
  BY <1>3, RecordPremiumIncomeWellFormed
     DEF record_premium_income, When, WellFormed, VaultType
<1>5. MovesNothing(v, booked)
  <2>1. \A lp \in LPs : Due(booked, lp) = Due(v, lp)
    BY <1>3, <1>4, SameQueueSameDue
  <2>2. booked.vault_tokens - v.vault_tokens =
           booked.total_managed_assets - v.total_managed_assets
    BY <1>3, <1>4, Numbers
  <2> QED
    BY <1>3, <1>4, <2>1, <2>2 DEF MovesNothing
<1>6. WellFormed(w) /\ MovesNothing(booked, w)
  BY <1>2, <1>4, DecreaseLockedWellFormed, DecreaseLockedMoves
<1> QED
  BY <1>4, <1>5, <1>6, MovesNothingTwice

\* A payout, and the release of the collateral.
LEMMA SettlePayoutMoves ==
    ASSUME NEW v, WellFormed(v), NEW payout_diff \in Nat, NEW payoff \in Nat,
           NEW w \in settle_payout_from_vault(v, payout_diff, payoff)
    PROVE  MovesNothing(v, w)
<1>1. PICK paid \in IF payout_diff > 0 THEN send_payout(v, payout_diff) ELSE {v} :
          w \in decrease_locked(paid, payoff)
  BY DEF settle_payout_from_vault
<1>2. WellFormed(paid) /\ MovesNothing(v, paid)
  <2>1. CASE payout_diff > 0
    BY <1>1, <2>1, SendPayoutWellFormed, SendPayoutMoves
  <2>2. CASE ~(payout_diff > 0)
    BY <1>1, <2>2, Numbers DEF MovesNothing
  <2> QED
    BY <2>1, <2>2
<1>3. WellFormed(w) /\ MovesNothing(paid, w)
  BY <1>1, <1>2, DecreaseLockedWellFormed, DecreaseLockedMoves
<1> QED
  BY <1>2, <1>3, MovesNothingTwice
=============================================================================
