------------------------------ MODULE SetFacts ------------------------------
(***************************************************************************)
(* Facts about numbers, finite sets and sums that several proofs rest on.  *)
(* What the library defines by recursion is reasoned about with the least  *)
(* number, or a smallest set, for which it would fail.                     *)
(***************************************************************************)
EXTENDS Integers, FiniteSetsExt, Functions, FiniteSetTheorems, WellFoundedInduction, TLAPS

\* A set of natural numbers has a least element.
LEMMA LeastNumber ==
    ASSUME NEW S \in SUBSET Nat, S # {}
    PROVE  \E n \in S : \A m \in S : n <= m
<1>1. PICK n \in S : \A m \in S : ~(<<m, n>> \in OpToRel(<, Nat))
  BY NatLessThanWellFounded, WFMin
<1>2. \A m \in S : ~(m < n)
  BY <1>1, Zenon DEF OpToRel
<1>. QED  BY <1>2

LEMMA MinElement ==
    ASSUME NEW S \in SUBSET Nat, S # {}
    PROVE  Min(S) \in S
BY LeastNumber DEF Min

\* Of some finite sets one has no other below it.
LEMMA SmallestSet ==
    ASSUME NEW F, F # {}, \A T \in F : IsFiniteSet(T)
    PROVE  \E T \in F : \A U \in F : U \subseteq T => U = T
<1>. DEFINE sizes == {Cardinality(T) : T \in F}
<1>1. sizes \in SUBSET Nat /\ sizes # {}
  BY FS_CardinalityType
<1>2. PICK n \in sizes : \A m \in sizes : n <= m
  <2>. HIDE DEF sizes
  <2>. QED  BY <1>1, LeastNumber
<1>3. PICK T \in F : n = Cardinality(T)
  BY <1>2
<1>4. ASSUME NEW U \in F, U \subseteq T, U # T PROVE FALSE
  <2>1. Cardinality(U) < Cardinality(T)
    BY <1>4, FS_Subset, FS_CardinalityType
  <2>2. n <= Cardinality(U) /\ n \in Nat /\ Cardinality(U) \in Nat
    BY <1>1, <1>2, FS_CardinalityType
  <2>. QED  BY <1>3, <2>1, <2>2
<1>. QED  BY <1>4

-----------------------------------------------------------------------------
(* SumFunctionOnSet.                                                       *)

\* The element a sum begins with.
Pick(s) == CHOOSE x \in s : TRUE

\* The function whose value for S is the sum of f over S.
Sums(it, f, S) ==
    it = [s \in SUBSET S |-> IF s = {} THEN 0 ELSE f[Pick(s)] + it[s \ {Pick(s)}]]

LEMMA PickIn == \A s : s # {} => Pick(s) \in s
BY DEF Pick

LEMMA SumsUnfold ==
    ASSUME NEW f, NEW S, NEW it, Sums(it, f, S), NEW s \in SUBSET S
    PROVE  it[s] = IF s = {} THEN 0 ELSE f[Pick(s)] + it[s \ {Pick(s)}]
BY Zenon DEF Sums

\* Two of them agree where both are defined.
LEMMA SumsAgree ==
    ASSUME NEW f, NEW S, NEW T, NEW i, NEW j, Sums(i, f, S), Sums(j, f, T),
           NEW s \in SUBSET (S \cap T), IsFiniteSet(s)
    PROVE  i[s] = j[s]
<1>. DEFINE Bad == {u \in SUBSET s : i[u] # j[u]}
<1>. SUFFICES ASSUME Bad # {} PROVE FALSE
  OBVIOUS
<1>1. \A u \in Bad : IsFiniteSet(u)
  BY FS_Subset
<1>2. PICK u \in Bad : \A v \in Bad : v \subseteq u => v = u
  <2>. HIDE DEF Bad
  <2>. QED  BY <1>1, SmallestSet
<1>3. u \in SUBSET S /\ u \in SUBSET T /\ i[u] # j[u]
  BY <1>2
<1>4. /\ i[u] = IF u = {} THEN 0 ELSE f[Pick(u)] + i[u \ {Pick(u)}]
      /\ j[u] = IF u = {} THEN 0 ELSE f[Pick(u)] + j[u \ {Pick(u)}]
  BY <1>3, SumsUnfold
<1>5. u # {} /\ Pick(u) \in u
  BY <1>3, <1>4, PickIn
<1>6. u \ {Pick(u)} \notin Bad
  BY <1>2, <1>5
<1>. QED  BY <1>2, <1>3, <1>4, <1>5, <1>6

LEMMA SumsExist ==
    ASSUME NEW f, NEW S, IsFiniteSet(S)
    PROVE  \E it : Sums(it, f, S)
<1>. DEFINE Bad == {u \in SUBSET S : ~\E it : Sums(it, f, u)}
<1>. SUFFICES ASSUME Bad # {} PROVE FALSE
  OBVIOUS
<1>1. \A u \in Bad : IsFiniteSet(u)
  BY FS_Subset
<1>2. PICK T \in Bad : \A v \in Bad : v \subseteq T => v = T
  <2>. HIDE DEF Bad
  <2>. QED  BY <1>1, SmallestSet
<1>3. T \in SUBSET S /\ ~\E it : Sums(it, f, T)
  BY <1>2
<1>. DEFINE Of(u) == CHOOSE it : Sums(it, f, u)
            g == [s \in SUBSET T |->
                     IF s = {} THEN 0 ELSE f[Pick(s)] + Of(s \ {Pick(s)})[s \ {Pick(s)}]]
<1>4. ASSUME NEW u \in SUBSET T, u # T PROVE Sums(Of(u), f, u)
  <2>1. \E it : Sums(it, f, u)
    BY <1>2, <1>4
  <2>. QED  BY <2>1
<1>. HIDE DEF Bad, Of
<1>5. ASSUME NEW u \in SUBSET T, u # T PROVE g[u] = Of(u)[u]
  <2>1. Of(u)[u] = IF u = {} THEN 0 ELSE f[Pick(u)] + Of(u)[u \ {Pick(u)}]
    BY <1>4, <1>5, SumsUnfold
  <2>2. g[u] = IF u = {} THEN 0 ELSE f[Pick(u)] + Of(u \ {Pick(u)})[u \ {Pick(u)}]
    OBVIOUS
  <2>3. u # {} => Of(u)[u \ {Pick(u)}] = Of(u \ {Pick(u)})[u \ {Pick(u)}]
    <3>. SUFFICES ASSUME u # {} PROVE Of(u)[u \ {Pick(u)}] = Of(u \ {Pick(u)})[u \ {Pick(u)}]
      OBVIOUS
    <3>1. PICK v : v = u \ {Pick(u)}
      OBVIOUS
    <3>2. v \in SUBSET u /\ v \in SUBSET T /\ v # T /\ IsFiniteSet(v)
      BY <1>3, <3>1, FS_Subset, PickIn
    <3>3. Sums(Of(u), f, u) /\ Sums(Of(v), f, v)
      BY <1>4, <1>5, <3>2
    <3>4. Of(u)[v] = Of(v)[v]
      BY <3>2, <3>3, SumsAgree
    <3>. QED  BY <3>1, <3>4
  <2>. HIDE DEF g
  <2>. QED  BY <2>1, <2>2, <2>3
<1>6. ASSUME NEW s \in SUBSET T
      PROVE  g[s] = IF s = {} THEN 0 ELSE f[Pick(s)] + g[s \ {Pick(s)}]
  <2>1. s # {} => s \ {Pick(s)} \in SUBSET T /\ s \ {Pick(s)} # T
    BY PickIn
  <2>2. g[s] = IF s = {} THEN 0 ELSE f[Pick(s)] + Of(s \ {Pick(s)})[s \ {Pick(s)}]
    OBVIOUS
  <2>. HIDE DEF g
  <2>. QED  BY <1>5, <2>1, <2>2
<1>7. Sums(g, f, T)
  <2>1. g = [s \in SUBSET T |-> g[s]]
    OBVIOUS
  <2>. HIDE DEF g
  <2>. QED  BY <1>6, <2>1 DEF Sums
<1>. QED  BY <1>3, <1>7

LEMMA SumOfSums ==
    ASSUME NEW f, NEW S, IsFiniteSet(S), NEW it, Sums(it, f, S)
    PROVE  SumFunctionOnSet(f, S) = it[S]
<1>. DEFINE Iter == CHOOSE iter : iter = [s \in SUBSET S |->
                        IF s = {} THEN 0
                        ELSE f[CHOOSE x \in s : TRUE] + iter[s \ {CHOOSE x \in s : TRUE}]]
<1>1. SumFunctionOnSet(f, S) = Iter[S]
  BY DEF SumFunctionOnSet, FoldFunctionOnSet, MapThenFoldSet
<1>2. Sums(Iter, f, S)
  BY DEF Sums, Pick
<1>. HIDE DEF Iter
<1>. QED  BY <1>1, <1>2, SumsAgree

\* The sum over nothing, and the sum that begins with the picked element.
LEMMA SumStep ==
    ASSUME NEW f, NEW S, IsFiniteSet(S)
    PROVE  SumFunctionOnSet(f, S) =
             IF S = {} THEN 0 ELSE f[Pick(S)] + SumFunctionOnSet(f, S \ {Pick(S)})
<1>1. PICK it : Sums(it, f, S)
  BY SumsExist
<1>2. PICK r : r = S \ {Pick(S)}
  OBVIOUS
<1>3. r \in SUBSET S /\ IsFiniteSet(r)
  BY <1>2, FS_Subset
<1>4. PICK rest : Sums(rest, f, r)
  BY <1>3, SumsExist
<1>5. it[r] = rest[r]
  BY <1>1, <1>3, <1>4, SumsAgree
<1>6. it[S] = IF S = {} THEN 0 ELSE f[Pick(S)] + it[r]
  BY <1>1, <1>2, SumsUnfold
<1>7. SumFunctionOnSet(f, S) = it[S] /\ SumFunctionOnSet(f, r) = rest[r]
  BY <1>1, <1>3, <1>4, SumOfSums
<1>. QED  BY <1>2, <1>5, <1>6, <1>7

\* A sum of integers is one; of natural numbers, too.
LEMMA SumType ==
    ASSUME NEW f, NEW S, IsFiniteSet(S)
    PROVE  /\ (\A x \in S : f[x] \in Int) => SumFunctionOnSet(f, S) \in Int
           /\ (\A x \in S : f[x] \in Nat) => SumFunctionOnSet(f, S) \in Nat
<1>. DEFINE Good(u) == /\ (\A x \in u : f[x] \in Int) => SumFunctionOnSet(f, u) \in Int
                       /\ (\A x \in u : f[x] \in Nat) => SumFunctionOnSet(f, u) \in Nat
            Bad == {u \in SUBSET S : ~Good(u)}
<1>. SUFFICES ASSUME Bad # {} PROVE FALSE
  OBVIOUS
<1>1. \A u \in Bad : IsFiniteSet(u)
  BY FS_Subset
<1>2. PICK u \in Bad : \A v \in Bad : v \subseteq u => v = u
  <2>. HIDE DEF Bad
  <2>. QED  BY <1>1, SmallestSet
<1>3. u \in SUBSET S /\ IsFiniteSet(u) /\ ~Good(u)
  BY <1>1, <1>2
<1>4. SumFunctionOnSet(f, u) = IF u = {} THEN 0 ELSE f[Pick(u)] + SumFunctionOnSet(f, u \ {Pick(u)})
  BY <1>3, SumStep
<1>5. u # {} /\ Pick(u) \in u
  BY <1>3, <1>4, PickIn
<1>6. Good(u \ {Pick(u)})
  BY <1>2, <1>5
<1>. QED  BY <1>3, <1>4, <1>5, <1>6

\* Functions that agree on a set have one sum over it.
LEMMA SumSame ==
    ASSUME NEW f, NEW g, NEW S, IsFiniteSet(S), \A x \in S : f[x] = g[x]
    PROVE  SumFunctionOnSet(f, S) = SumFunctionOnSet(g, S)
<1>. DEFINE Bad == {u \in SUBSET S : SumFunctionOnSet(f, u) # SumFunctionOnSet(g, u)}
<1>. SUFFICES ASSUME Bad # {} PROVE FALSE
  OBVIOUS
<1>1. \A u \in Bad : IsFiniteSet(u)
  BY FS_Subset
<1>2. PICK u \in Bad : \A v \in Bad : v \subseteq u => v = u
  <2>. HIDE DEF Bad
  <2>. QED  BY <1>1, SmallestSet
<1>3. u \in SUBSET S /\ IsFiniteSet(u) /\ SumFunctionOnSet(f, u) # SumFunctionOnSet(g, u)
  BY <1>1, <1>2
<1>4. /\ SumFunctionOnSet(f, u) = IF u = {} THEN 0 ELSE f[Pick(u)] + SumFunctionOnSet(f, u \ {Pick(u)})
      /\ SumFunctionOnSet(g, u) = IF u = {} THEN 0 ELSE g[Pick(u)] + SumFunctionOnSet(g, u \ {Pick(u)})
  BY <1>3, SumStep
<1>5. u # {} /\ Pick(u) \in u
  BY <1>3, <1>4, PickIn
<1>6. u \ {Pick(u)} \notin Bad
  BY <1>2, <1>5
<1>. QED  BY <1>3, <1>4, <1>5, <1>6

LEMMA SumZero ==
    ASSUME NEW f, NEW S, IsFiniteSet(S), \A x \in S : f[x] = 0
    PROVE  SumFunctionOnSet(f, S) = 0
<1>. DEFINE Bad == {u \in SUBSET S : SumFunctionOnSet(f, u) # 0}
<1>. SUFFICES ASSUME Bad # {} PROVE FALSE
  OBVIOUS
<1>1. \A u \in Bad : IsFiniteSet(u)
  BY FS_Subset
<1>2. PICK u \in Bad : \A v \in Bad : v \subseteq u => v = u
  <2>. HIDE DEF Bad
  <2>. QED  BY <1>1, SmallestSet
<1>3. u \in SUBSET S /\ IsFiniteSet(u) /\ SumFunctionOnSet(f, u) # 0
  BY <1>1, <1>2
<1>4. CASE u = {}
  BY <1>3, <1>4, SumStep
<1>5. CASE u # {}
  <2>1. Pick(u) \in u /\ u \ {Pick(u)} \subseteq u /\ u \ {Pick(u)} # u
    BY <1>5, PickIn
  <2>2. u \ {Pick(u)} \notin Bad
    BY <1>2, <2>1
  <2>3. SumFunctionOnSet(f, u \ {Pick(u)}) = 0
    BY <1>3, <2>2
  <2>4. f[Pick(u)] = 0
    BY <1>3, <2>1
  <2>. QED  BY <1>3, <1>5, <2>3, <2>4, SumStep
<1>. QED  BY <1>4, <1>5

\* Any element may be taken out of a sum.
LEMMA SumRemove ==
    ASSUME NEW f, NEW S, IsFiniteSet(S), \A y \in S : f[y] \in Int, NEW x \in S
    PROVE  SumFunctionOnSet(f, S) = f[x] + SumFunctionOnSet(f, S \ {x})
<1>. DEFINE Good(u) == \A y \in u :
                SumFunctionOnSet(f, u) = f[y] + SumFunctionOnSet(f, u \ {y})
            Bad == {u \in SUBSET S : ~Good(u)}
<1>. SUFFICES ASSUME Bad # {} PROVE FALSE
  OBVIOUS
<1>1. \A u \in Bad : IsFiniteSet(u)
  BY FS_Subset
<1>2. PICK u \in Bad : \A v \in Bad : v \subseteq u => v = u
  <2>. HIDE DEF Bad
  <2>. QED  BY <1>1, SmallestSet
<1>3. u \in SUBSET S /\ IsFiniteSet(u) /\ ~Good(u)
  BY <1>1, <1>2
<1>4. PICK y \in u : SumFunctionOnSet(f, u) # f[y] + SumFunctionOnSet(f, u \ {y})
  BY <1>3
<1>5. PICK c : c = Pick(u)
  OBVIOUS
<1>6. SumFunctionOnSet(f, u) = f[c] + SumFunctionOnSet(f, u \ {c}) /\ c \in u
  BY <1>3, <1>4, <1>5, SumStep, PickIn
<1>7. c # y
  BY <1>4, <1>6
<1>8. Good(u \ {c}) /\ Good(u \ {y})
  BY <1>2, <1>4, <1>6
<1>. HIDE DEF Bad
<1>9. PICK r : r = (u \ {c}) \ {y}
  OBVIOUS
<1>10. r = (u \ {y}) \ {c} /\ IsFiniteSet(r) /\ r \in SUBSET S
  BY <1>3, <1>9, FS_Subset
<1>11. /\ SumFunctionOnSet(f, u \ {c}) = f[y] + SumFunctionOnSet(f, r)
       /\ SumFunctionOnSet(f, u \ {y}) = f[c] + SumFunctionOnSet(f, r)
  BY <1>4, <1>6, <1>7, <1>8, <1>9, <1>10
<1>12. f[y] \in Int /\ f[c] \in Int /\ SumFunctionOnSet(f, r) \in Int
  BY <1>3, <1>4, <1>6, <1>10, SumType
<1>. HIDE DEF Good
<1>. QED  BY <1>4, <1>6, <1>11, <1>12

\* Adding an element to a sum, and changing the value of one of its elements.
LEMMA SumAdd ==
    ASSUME NEW f, NEW S, IsFiniteSet(S), NEW x, x \notin S, \A y \in S \cup {x} : f[y] \in Int
    PROVE  SumFunctionOnSet(f, S \cup {x}) = f[x] + SumFunctionOnSet(f, S)
<1>1. PICK T : T = S \cup {x}
  OBVIOUS
<1>2. IsFiniteSet(T) /\ T \ {x} = S /\ x \in T
  BY <1>1, FS_AddElement
<1>3. SumFunctionOnSet(f, T) = f[x] + SumFunctionOnSet(f, T \ {x})
  BY <1>1, <1>2, SumRemove
<1>. QED  BY <1>1, <1>2, <1>3

LEMMA SumChange ==
    ASSUME NEW f, NEW g, NEW S, IsFiniteSet(S), NEW x \in S,
           \A y \in S : f[y] \in Int /\ g[y] \in Int, \A y \in S \ {x} : f[y] = g[y]
    PROVE  SumFunctionOnSet(g, S) = SumFunctionOnSet(f, S) - f[x] + g[x]
<1>1. PICK T : T = S \ {x}
  OBVIOUS
<1>2. IsFiniteSet(T)
  BY <1>1, FS_Subset
<1>3. SumFunctionOnSet(f, T) = SumFunctionOnSet(g, T) /\ SumFunctionOnSet(f, T) \in Int
  BY <1>1, <1>2, SumSame, SumType
<1>4. /\ SumFunctionOnSet(f, S) = f[x] + SumFunctionOnSet(f, T)
      /\ SumFunctionOnSet(g, S) = g[x] + SumFunctionOnSet(g, T)
  BY <1>1, SumRemove
<1>. QED  BY <1>3, <1>4

\* The sum over the image of a set under a renaming of its elements.
LEMMA SumImage ==
    ASSUME NEW f, NEW S, IsFiniteSet(S), NEW g, NEW h,
           \A x, y \in S : h[x] = h[y] => x = y,
           \A x \in S : g[h[x]] = f[x] /\ f[x] \in Int
    PROVE  SumFunctionOnSet(g, {h[x] : x \in S}) = SumFunctionOnSet(f, S)
<1>. DEFINE Image(u) == {h[x] : x \in u}
            Bad == {u \in SUBSET S : SumFunctionOnSet(g, Image(u)) # SumFunctionOnSet(f, u)}
<1>. SUFFICES ASSUME Bad # {} PROVE FALSE
  OBVIOUS
<1>1. \A u \in Bad : IsFiniteSet(u)
  BY FS_Subset
<1>2. PICK u \in Bad : \A v \in Bad : v \subseteq u => v = u
  <2>. HIDE DEF Bad
  <2>. QED  BY <1>1, SmallestSet
<1>3. /\ u \in SUBSET S /\ IsFiniteSet(u)
      /\ SumFunctionOnSet(g, Image(u)) # SumFunctionOnSet(f, u)
  BY <1>1, <1>2
<1>4. u # {}
  <2>. SUFFICES ASSUME u = {} PROVE FALSE
    OBVIOUS
  <2>1. Image(u) = {}
    OBVIOUS
  <2>. HIDE DEF Image
  <2>. QED  BY <1>3, <2>1, SumStep, FS_EmptySet
<1>5. PICK c : c \in u
  BY <1>4
<1>6. u \ {c} \notin Bad /\ u \ {c} \in SUBSET S
  BY <1>2, <1>3, <1>5
<1>7. Image(u \ {c}) = Image(u) \ {h[c]} /\ h[c] \in Image(u)
  BY <1>3, <1>5
<1>8. IsFiniteSet(Image(u)) /\ \A y \in Image(u) : g[y] \in Int
  <2>1. \A y \in Image(u) : g[y] \in Int
    BY <1>3
  <2>. DEFINE onto == [x \in u |-> h[x]]
  <2>2. onto \in Surjection(u, Image(u))
    BY DEF Surjection
  <2>3. IsFiniteSet(Image(u))
    <3>. HIDE DEF Image, onto
    <3>. QED  BY <1>3, <2>2, FS_Surjection DEF ExistsSurjection
  <2>. QED  BY <2>1, <2>3
<1>9. SumFunctionOnSet(g, Image(u \ {c})) = SumFunctionOnSet(f, u \ {c})
  BY <1>6
<1>. HIDE DEF Bad, Image
<1>10. SumFunctionOnSet(g, Image(u)) = g[h[c]] + SumFunctionOnSet(g, Image(u) \ {h[c]})
  BY <1>7, <1>8, SumRemove
<1>11. SumFunctionOnSet(f, u) = f[c] + SumFunctionOnSet(f, u \ {c})
  BY <1>3, <1>5, SumRemove
<1>12. g[h[c]] = f[c]
  BY <1>3, <1>5
<1>. QED  BY <1>3, <1>7, <1>9, <1>10, <1>11, <1>12

=============================================================================
