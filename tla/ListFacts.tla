----------------------------- MODULE ListFacts ------------------------------
(***************************************************************************)
(* Facts about numbers and lists that several proofs rest on.  What is     *)
(* defined by recursion is reasoned about with the least number for which  *)
(* it would fail.                                                          *)
(***************************************************************************)
EXTENDS Selections, SequencesExt, SequenceTheorems, SetFacts

LEMMA SameLength ==
    ASSUME NEW m \in Nat, NEW n \in Nat, 1..m = 1..n
    PROVE  m = n
<1>1. (m = 0 \/ m \in 1..n) /\ (n = 0 \/ n \in 1..m)
  OBVIOUS
<1>. QED  BY <1>1

-----------------------------------------------------------------------------
(* Lists of anything: the sequences of their own elements.                 *)

\* A list is a function of the positions up to its length.
LEMMA ListShape ==
    ASSUME NEW s, s \in Seq(Range(s))
    PROVE  Len(s) \in Nat /\ DOMAIN s = 1..Len(s) /\ s = [i \in 1..Len(s) |-> s[i]]
BY LenProperties

\* Every function of the positions up to some length is a list.
LEMMA FunctionList ==
    ASSUME NEW n \in Nat, NEW s, s = [i \in 1..n |-> s[i]]
    PROVE  s \in Seq(Range(s)) /\ Len(s) = n /\ DOMAIN s = 1..n
<1>1. DOMAIN s = 1..n
  OBVIOUS
<1>2. s \in [1..n -> Range(s)]
  BY <1>1 DEF Range
<1>3. s \in Seq(Range(s))
  BY <1>2, SeqDef
<1>. QED  BY <1>1, <1>3, LenProperties

\* A list stays one when its elements are mapped.
LEMMA MappedList ==
    ASSUME NEW s, s \in Seq(Range(s)), NEW t, DOMAIN t = DOMAIN s, t = [i \in DOMAIN t |-> t[i]]
    PROVE  t \in Seq(Range(t)) /\ Len(t) = Len(s)
BY ListShape, FunctionList

\* The concatenation of two lists.
LEMMA ConcatList ==
    ASSUME NEW s, s \in Seq(Range(s)), NEW t, t \in Seq(Range(t))
    PROVE  s \o t \in Seq(Range(s \o t))
<1>. DEFINE S == Range(s) \cup Range(t)
<1>1. s \in Seq(S) /\ t \in Seq(S)
  BY SeqMonotonic
<1>. HIDE DEF S
<1>2. s \o t \in Seq(S)
  BY <1>1, ConcatProperties
<1>3. Len(s \o t) \in Nat /\ s \o t \in [1..Len(s \o t) -> S]
  BY <1>2, LenProperties
<1>. QED  BY <1>3, FunctionList

-----------------------------------------------------------------------------
(* FlattenSeq.                                                             *)

\* The function that FlattenSeq(seqs) is the last value of.
Flattens(f, seqs, n) ==
    f = [i \in 1..n |-> IF i = 1 THEN seqs[i] ELSE f[i - 1] \o seqs[i]]

\* There is such a function for every length.
LEMMA FlattenExists ==
    ASSUME NEW seqs, NEW len \in Nat
    PROVE  \E f : Flattens(f, seqs, len)
<1>. DEFINE Missing == {n \in Nat : ~\E f : Flattens(f, seqs, n)}
<1>. SUFFICES ASSUME Missing # {} PROVE FALSE
  OBVIOUS
<1>1. PICK n \in Missing : \A m \in Missing : n <= m
  BY LeastNumber
<1>2. n \in Nat /\ ~\E f : Flattens(f, seqs, n)
  BY <1>1
<1>. HIDE DEF Missing
<1>3. n # 0
  <2>. DEFINE g == [i \in 1..0 |-> <<>>]
  <2>1. Flattens(g, seqs, 0)
    BY DEF Flattens
  <2>. QED  BY <1>2, <2>1
<1>4. n - 1 \in Nat /\ n - 1 \notin Missing
  BY <1>1, <1>2, <1>3
<1>5. PICK f : Flattens(f, seqs, n - 1)
  BY <1>4 DEF Missing
<1>. DEFINE g == [i \in 1..n |-> IF i = n THEN IF n = 1 THEN seqs[n] ELSE f[n - 1] \o seqs[n] ELSE f[i]]
<1>6. ASSUME NEW i \in 1..n
      PROVE  g[i] = IF i = 1 THEN seqs[i] ELSE g[i - 1] \o seqs[i]
  <2>1. CASE i = n
    BY <1>2, <1>3, <2>1
  <2>2. CASE i # n
    <3>1. i \in 1..(n - 1) /\ g[i] = f[i]
      BY <1>2, <2>2
    <3>2. f[i] = IF i = 1 THEN seqs[i] ELSE f[i - 1] \o seqs[i]
      BY <1>5, <3>1 DEF Flattens
    <3>3. i # 1 => g[i - 1] = f[i - 1]
      BY <1>2, <3>1
    <3>. QED  BY <3>1, <3>2, <3>3
  <2>. QED  BY <2>1, <2>2
<1>7. Flattens(g, seqs, n)
  BY <1>6 DEF Flattens
<1>. QED  BY <1>2, <1>7

\* What is flattened from lists is a list.
LEMMA FlattenedList ==
    ASSUME NEW seqs, seqs \in Seq(Range(seqs)), \A i \in DOMAIN seqs : seqs[i] \in Seq(Range(seqs[i]))
    PROVE  FlattenSeq(seqs) \in Seq(Range(FlattenSeq(seqs)))
<1>1. Len(seqs) \in Nat /\ DOMAIN seqs = 1..Len(seqs)
  BY ListShape
<1>2. CASE Len(seqs) = 0
  BY <1>2 DEF FlattenSeq
<1>3. CASE Len(seqs) # 0
  <2>. DEFINE flatten == CHOOSE f : f = [i \in 1..Len(seqs) |-> IF i = 1 THEN seqs[i] ELSE f[i - 1] \o seqs[i]]
  <2>1. Flattens(flatten, seqs, Len(seqs))
    BY <1>1, FlattenExists DEF Flattens
  <2>2. FlattenSeq(seqs) = flatten[Len(seqs)]
    BY <1>3 DEF FlattenSeq
  <2>. HIDE DEF flatten
  <2>. DEFINE Bad == {i \in 1..Len(seqs) : flatten[i] \notin Seq(Range(flatten[i]))}
  <2>3. ASSUME Bad # {} PROVE FALSE
    <3>1. PICK i \in Bad : \A j \in Bad : i <= j
      <4>1. Bad \in SUBSET Nat
        BY <1>1
      <4>. HIDE DEF Bad
      <4>. QED  BY <2>3, <4>1, LeastNumber
    <3>2. i \in 1..Len(seqs) /\ flatten[i] \notin Seq(Range(flatten[i])) /\ i - 1 \notin Bad
      BY <1>1, <3>1
    <3>. HIDE DEF Bad
    <3>3. flatten[i] = IF i = 1 THEN seqs[i] ELSE flatten[i - 1] \o seqs[i]
      BY <2>1, <3>2 DEF Flattens
    <3>4. i # 1 => flatten[i - 1] \in Seq(Range(flatten[i - 1]))
      BY <1>1, <3>2 DEF Bad
    <3>. QED  BY <1>1, <3>2, <3>3, <3>4, ConcatList
  <2>. QED  BY <1>1, <1>3, <2>2, <2>3
<1>. QED  BY <1>2, <1>3

-----------------------------------------------------------------------------
(* Ordered and Where.                                                      *)

\* A strict total order of a set, given by what is below each element.
TotalOrder(S, below) ==
    /\ below \in [S -> SUBSET S]
    /\ \A e \in S : e \notin below[e]
    /\ \A d \in S, e \in S : d = e \/ d \in below[e] \/ e \in below[d]
    /\ \A d \in S, e \in S : d \in below[e] => below[d] \subseteq below[e]

\* The elements of a set at the places that their ranks give them.
Places(S, rank) ==
    LET ranked == {<<rank[e], e>> : e \in S}
    IN  [i \in 1..Cardinality(S) |-> (CHOOSE r \in ranked : r[1] = i - 1)[2]]

\* What is lower has a lower rank, and the ranks are the numbers below the size of the set.
LEMMA RanksOfOrder ==
    ASSUME NEW S, IsFiniteSet(S), NEW below, TotalOrder(S, below),
           NEW rank, rank = [e \in S |-> Cardinality(below[e])]
    PROVE  /\ Cardinality(S) \in Nat
           /\ rank \in [S -> 0..(Cardinality(S) - 1)]
           /\ \A d \in S, e \in S : (d \in below[e]) <=> rank[d] < rank[e]
           /\ \A d \in S, e \in S : rank[d] = rank[e] => d = e
           /\ \A i \in 0..(Cardinality(S) - 1) : \E e \in S : rank[e] = i
<1>1. Cardinality(S) \in Nat
  BY FS_CardinalityType
<1>2. \A e \in S : IsFiniteSet(below[e]) /\ Cardinality(below[e]) \in Nat
  BY FS_Subset, FS_CardinalityType DEF TotalOrder
<1>3. ASSUME NEW e \in S
      PROVE  rank[e] \in 0..(Cardinality(S) - 1)
  <2>1. below[e] \in SUBSET S /\ below[e] # S
    BY DEF TotalOrder
  <2>2. Cardinality(below[e]) <= Cardinality(S) /\ Cardinality(below[e]) # Cardinality(S)
    BY <2>1, FS_Subset
  <2>. QED  BY <1>1, <1>2, <2>2
<1>4. ASSUME NEW d \in S, NEW e \in S, d \in below[e]
      PROVE  rank[d] < rank[e]
  <2>1. below[d] \in SUBSET below[e] /\ below[d] # below[e]
    BY <1>4 DEF TotalOrder
  <2>2. Cardinality(below[d]) <= Cardinality(below[e]) /\ Cardinality(below[d]) # Cardinality(below[e])
    BY <1>2, <2>1, FS_Subset
  <2>. QED  BY <1>2, <2>2
<1>5. ASSUME NEW d \in S, NEW e \in S
      PROVE  /\ (d \in below[e]) <=> rank[d] < rank[e]
             /\ rank[d] = rank[e] => d = e
  <2>1. d = e \/ d \in below[e] \/ e \in below[d]
    BY DEF TotalOrder
  <2>2. rank[d] \in Int /\ rank[e] \in Int
    BY <1>1, <1>3
  <2>3. d = e => d \notin below[e]
    BY DEF TotalOrder
  <2>. QED  BY <1>4, <2>1, <2>2, <2>3
<1>6. rank \in [S -> 0..(Cardinality(S) - 1)]
  BY <1>3
<1>7. ASSUME NEW i \in 0..(Cardinality(S) - 1)
      PROVE  \E e \in S : rank[e] = i
  <2>. DEFINE T == 0..(Cardinality(S) - 1)
  <2>1. IsFiniteSet(T) /\ Cardinality(T) = Cardinality(S)
    BY <1>1, FS_Interval
  <2>. HIDE DEF T
  <2>2. rank \in Injection(S, T)
    BY <1>5, <1>6 DEF T, Injection, IsInjective
  <2>3. rank \in Surjection(S, T)
    BY <2>1, <2>2, FS_Injection
  <2>. QED  BY <2>3 DEF Surjection, T
<1>. QED  BY <1>1, <1>5, <1>6, <1>7

\* At every place is the element of its rank.
LEMMA PlacesOfRanks ==
    ASSUME NEW S, NEW n, n = Cardinality(S), n \in Nat, NEW rank \in [S -> 0..(n - 1)],
           \A d \in S, e \in S : rank[d] = rank[e] => d = e,
           \A i \in 0..(n - 1) : \E e \in S : rank[e] = i,
           NEW places, places = Places(S, rank)
    PROVE  /\ places \in [1..n -> S]
           /\ \A i \in 1..n : rank[places[i]] = i - 1
           /\ \A e \in S : rank[e] + 1 \in 1..n /\ places[rank[e] + 1] = e
<1>. DEFINE ranked == {<<rank[e], e>> : e \in S}
<1>1. ASSUME NEW i \in 1..n
      PROVE  places[i] \in S /\ rank[places[i]] = i - 1
  <2>1. \E r \in ranked : r[1] = i - 1
    <3>1. i - 1 \in 0..(n - 1)
      OBVIOUS
    <3>2. PICK e \in S : rank[e] = i - 1
      BY <3>1
    <3>3. <<rank[e], e>> \in ranked /\ <<rank[e], e>>[1] = i - 1
      BY <3>2
    <3>. QED  BY <3>3
  <2>. DEFINE r == CHOOSE x \in ranked : x[1] = i - 1
  <2>2. r \in ranked /\ r[1] = i - 1
    BY <2>1
  <2>. HIDE DEF r
  <2>3. PICK e \in S : r = <<rank[e], e>>
    BY <2>2
  <2>4. places[i] = r[2]
    BY DEF Places, r
  <2>. QED  BY <2>2, <2>3, <2>4
<1>2. places \in [1..n -> S]
  BY <1>1 DEF Places
<1>3. ASSUME NEW e \in S
      PROVE  rank[e] + 1 \in 1..n /\ places[rank[e] + 1] = e
  <2>1. rank[e] + 1 \in 1..n
    OBVIOUS
  <2>2. rank[places[rank[e] + 1]] = rank[e] /\ places[rank[e] + 1] \in S
    BY <1>1, <2>1
  <2>. QED  BY <2>1, <2>2
<1>. QED  BY <1>1, <1>2, <1>3

\* A set in its order.
LEMMA OrderPlaces ==
    ASSUME NEW S, IsFiniteSet(S), NEW below, TotalOrder(S, below),
           NEW rank, rank = [e \in S |-> Cardinality(below[e])], NEW places, places = Places(S, rank),
           NEW n, n = Cardinality(S)
    PROVE  /\ n \in Nat /\ places \in [1..n -> S]
           /\ \A i \in 1..n : Cardinality(below[places[i]]) = i - 1
           /\ \A i \in 1..n, j \in 1..n : (places[i] \in below[places[j]]) <=> i < j
           /\ \A e \in S : /\ Cardinality(below[e]) + 1 \in 1..n
                           /\ places[Cardinality(below[e]) + 1] = e
<1>1. \A e \in S : rank[e] = Cardinality(below[e])
  OBVIOUS
<1>2. /\ n \in Nat
      /\ rank \in [S -> 0..(n - 1)]
      /\ \A d \in S, e \in S : (d \in below[e]) <=> rank[d] < rank[e]
      /\ \A d \in S, e \in S : rank[d] = rank[e] => d = e
      /\ \A i \in 0..(n - 1) : \E e \in S : rank[e] = i
  BY RanksOfOrder
<1>3. /\ places \in [1..n -> S]
      /\ \A i \in 1..n : rank[places[i]] = i - 1
      /\ \A e \in S : rank[e] + 1 \in 1..n /\ places[rank[e] + 1] = e
  <2>1. PICK r \in [S -> 0..(n - 1)] : r = rank
    BY <1>2
  <2>2. /\ \A d \in S, e \in S : r[d] = r[e] => d = e
        /\ \A i \in 0..(n - 1) : \E e \in S : r[e] = i
        /\ places = Places(S, r) /\ n \in Nat
    BY <1>2, <2>1
  <2>3. places \in [1..n -> S]
    BY <2>2, PlacesOfRanks
  <2>4. \A i \in 1..n : r[places[i]] = i - 1
    BY <2>2, PlacesOfRanks
  <2>5. ASSUME NEW e \in S PROVE r[e] + 1 \in 1..n /\ places[r[e] + 1] = e
    BY <2>2, PlacesOfRanks
  <2>. QED  BY <2>1, <2>3, <2>4, <2>5
<1>4. ASSUME NEW i \in 1..n, NEW j \in 1..n
      PROVE  (places[i] \in below[places[j]]) <=> i < j
  <2>1. places[i] \in S /\ places[j] \in S /\ rank[places[i]] = i - 1 /\ rank[places[j]] = j - 1
    BY <1>3
  <2>2. (places[i] \in below[places[j]]) <=> i - 1 < j - 1
    BY <1>2, <2>1
  <2>. QED  BY <1>2, <2>2
<1>. QED  BY <1>1, <1>2, <1>3, <1>4

Numbers(S) == S \subseteq Int

\* Numbers in their order.
LEMMA AscendingNumbers ==
    ASSUME NEW P, IsFiniteSet(P), Numbers(P), NEW order, order = Ascending(P), NEW m, m = Cardinality(P)
    PROVE  /\ m \in Nat /\ order \in [1..m -> P]
           /\ \A i \in 1..m, j \in 1..m : order[i] < order[j] <=> i < j
           /\ \A i \in 1..m : Cardinality({d \in P : d < order[i]}) = i - 1
           /\ \A p \in P : \E i \in 1..m : order[i] = p
<1>. DEFINE below == [e \in P |-> {d \in P : d < e}]
            rank == [e \in P |-> Cardinality(below[e])]
<1>1. below \in [P -> SUBSET P] /\ \A e \in P : below[e] = {d \in P : d < e}
  OBVIOUS
<1>2. TotalOrder(P, below)
  <2>. HIDE DEF below
  <2>1. \A e \in P : e \notin below[e]
    BY <1>1 DEF Numbers
  <2>2. \A d \in P, e \in P : d = e \/ d \in below[e] \/ e \in below[d]
    BY <1>1 DEF Numbers
  <2>3. ASSUME NEW d \in P, NEW e \in P, d \in below[e], NEW c \in below[d]
        PROVE  c \in below[e]
    <3>1. c \in P /\ c < d /\ d < e
      BY <1>1, <2>3
    <3>2. c \in Int /\ d \in Int /\ e \in Int
      BY <3>1 DEF Numbers
    <3>. QED  BY <1>1, <3>1, <3>2
  <2>. QED  BY <1>1, <2>1, <2>2, <2>3 DEF TotalOrder
<1>3. order = Places(P, rank)
  <2>. DEFINE count(e) == Cardinality({d \in P : d < e})
  <2>1. order = LET ranked == {<<count(e), e>> : e \in P}
                IN  [i \in 1..Cardinality(P) |-> (CHOOSE r \in ranked : r[1] = i - 1)[2]]
    BY DEF Ascending, Ordered
  <2>2. \A e \in P : rank[e] = count(e)
    OBVIOUS
  <2>. HIDE DEF rank, count
  <2>3. {<<count(e), e>> : e \in P} = {<<rank[e], e>> : e \in P}
    BY <2>2
  <2>. QED  BY <2>1, <2>3 DEF Places
<1>. HIDE DEF below
<1>4. m \in Nat /\ order \in [1..m -> P]
  BY <1>2, <1>3, OrderPlaces
<1>5. \A i \in 1..m : Cardinality(below[order[i]]) = i - 1
  BY <1>2, <1>3, OrderPlaces
<1>6. ASSUME NEW i \in 1..m, NEW j \in 1..m
      PROVE  order[i] < order[j] <=> i < j
  <2>1. (order[i] \in below[order[j]]) <=> i < j
    BY <1>2, <1>3, OrderPlaces
  <2>. QED  BY <1>1, <1>4, <2>1
<1>7. ASSUME NEW p \in P
      PROVE  \E i \in 1..m : order[i] = p
  BY <1>2, <1>3, OrderPlaces
<1>. QED  BY <1>1, <1>4, <1>5, <1>6, <1>7

\* What a function makes of a set, the function keeping the elements apart, and how many of the
\* numbers of a set are less than one.
Image(f, P) == {f[p] : p \in P}
Apart(f, P) == \A p \in P, q \in P : f[p] = f[q] => p = q
Rank(P, p) == Cardinality({q \in P : q < p})

\* A set is as large as its image under a function that keeps its elements apart.
LEMMA ImageSize ==
    ASSUME NEW P, IsFiniteSet(P), NEW f, Apart(f, P)
    PROVE  IsFiniteSet(Image(f, P)) /\ Cardinality(Image(f, P)) = Cardinality(P)
<1>. DEFINE S == Image(f, P)
            g == [p \in P |-> f[p]]
<1>1. g \in Bijection(P, S)
  BY DEF Bijection, Injection, Surjection, IsInjective, Image, Apart
<1>2. ExistsBijection(P, S)
  BY <1>1 DEF ExistsBijection
<1>. HIDE DEF S
<1>3. IsFiniteSet(S) /\ Cardinality(S) = Cardinality(P)
  BY <1>2, FS_Bijection
<1>. QED  BY <1>3 DEF S

\* What is numbered is in its order when its numbers are in theirs.
LEMMA PlacesOfImage ==
    ASSUME NEW P, IsFiniteSet(P), Numbers(P), NEW f, Apart(f, P),
           NEW S, S = Image(f, P), NEW rank, \A p \in P : rank[f[p]] = Rank(P, p)
    PROVE  Places(S, rank) = Chosen(f, P)
<1>. DEFINE m == Cardinality(P)
            order == Ascending(P)
<1>1. /\ m \in Nat /\ order \in [1..m -> P]
      /\ \A i \in 1..m, j \in 1..m : order[i] < order[j] <=> i < j
      /\ \A i \in 1..m : Cardinality({d \in P : d < order[i]}) = i - 1
      /\ \A p \in P : \E i \in 1..m : order[i] = p
  BY AscendingNumbers
<1>2. Cardinality(S) = m
  BY ImageSize
<1>3. Chosen(f, P) = [i \in 1..m |-> f[order[i]]]
  BY DEF Chosen
<1>. HIDE DEF m, order
<1>. DEFINE ranked == {<<rank[e], e>> : e \in S}
            place(i) == (CHOOSE r \in ranked : r[1] = i - 1)[2]
<1>4. ASSUME NEW i \in 1..m
      PROVE  place(i) = f[order[i]]
  <2>. DEFINE r == CHOOSE x \in ranked : x[1] = i - 1
  <2>1. rank[f[order[i]]] = i - 1 /\ f[order[i]] \in S
    BY <1>1 DEF Rank, Image
  <2>2. r \in ranked /\ r[1] = i - 1
    <3>1. \E x \in ranked : x[1] = i - 1
      <4>1. <<rank[f[order[i]]], f[order[i]]>> \in ranked
        BY <2>1
      <4>. QED  BY <2>1, <4>1
    <3>. QED  BY <3>1
  <2>. HIDE DEF r
  <2>3. PICK e \in S : r = <<rank[e], e>>
    BY <2>2
  <2>4. rank[e] = i - 1 /\ r[2] = e
    BY <2>2, <2>3
  <2>5. PICK p \in P : e = f[p]
    BY <2>3 DEF Image
  <2>6. PICK j \in 1..m : order[j] = p
    BY <1>1, <2>5
  <2>7. rank[e] = j - 1
    BY <1>1, <2>5, <2>6 DEF Rank
  <2>8. i = j
    BY <1>1, <2>4, <2>7
  <2>. QED  BY <2>4, <2>5, <2>6, <2>8 DEF r
<1>. HIDE DEF ranked
<1>5. Places(S, rank) = [i \in 1..m |-> place(i)]
  BY <1>2 DEF Places, ranked
<1>. HIDE DEF place
<1>. QED  BY <1>4, <1>5, <1>3

\* What is chosen from a list: a list of those elements.
LEMMA ChosenList ==
    ASSUME NEW n \in Nat, NEW s, DOMAIN s = 1..n, NEW P \in SUBSET (1..n)
    PROVE  /\ Cardinality(P) \in Nat
           /\ Chosen(s, P) = [i \in 1..Cardinality(P) |-> s[Ascending(P)[i]]]
           /\ Chosen(s, P) \in Seq(Range(Chosen(s, P)))
           /\ Len(Chosen(s, P)) = Cardinality(P)
           /\ Range(Chosen(s, P)) = {s[i] : i \in P}
<1>. DEFINE m == Cardinality(P)
            order == Ascending(P)
<1>1. m \in Nat /\ order \in [1..m -> P] /\ \A p \in P : \E i \in 1..m : order[i] = p
  <2>1. PICK o, k : o = order /\ k = m
    OBVIOUS
  <2>2. IsFiniteSet(1..n) /\ 1..n \subseteq Int
    BY FS_Interval
  <2>3. IsFiniteSet(P) /\ Numbers(P)
    BY <2>2, FS_Subset DEF Numbers
  <2>4. k \in Nat /\ o \in [1..k -> P] /\ \A p \in P : \E i \in 1..k : o[i] = p
    BY <2>1, <2>3, AscendingNumbers
  <2>. QED  BY <2>1, <2>4
<1>2. Chosen(s, P) = [i \in 1..m |-> s[order[i]]]
  BY DEF Chosen
<1>. HIDE DEF m
<1>. HIDE DEF order
<1>3. Chosen(s, P) \in Seq(Range(Chosen(s, P))) /\ Len(Chosen(s, P)) = m
  BY <1>1, <1>2, FunctionList
<1>4. Range(Chosen(s, P)) = {s[i] : i \in P}
  <2>1. Range(Chosen(s, P)) = {s[order[i]] : i \in 1..m}
    BY <1>2 DEF Range
  <2>2. ASSUME NEW p \in P PROVE \E i \in 1..m : s[p] = s[order[i]]
    BY <1>1
  <2>. QED  BY <1>1, <2>1, <2>2
<1>. QED  BY <1>1, <1>2, <1>3, <1>4 DEF m, order

-----------------------------------------------------------------------------
(* Lists whose elements are related, place by place.                       *)

Related(s, t, R) ==
    /\ s \in Seq(Range(s)) /\ t \in Seq(Range(t)) /\ Len(s) = Len(t)
    /\ \A i \in DOMAIN s : <<s[i], t[i]>> \in R

LEMMA ConcatRelated ==
    ASSUME NEW R, NEW s, NEW t, Related(s, t, R), NEW u, NEW v, Related(u, v, R)
    PROVE  Related(s \o u, t \o v, R)
<1>1. /\ Len(s) \in Nat /\ DOMAIN s = 1..Len(s) /\ Len(t) = Len(s)
      /\ Len(u) \in Nat /\ DOMAIN u = 1..Len(u) /\ Len(v) = Len(u)
  BY ListShape DEF Related
<1>2. ASSUME NEW x, x \in Seq(Range(x)), NEW y, y \in Seq(Range(y))
      PROVE  /\ Len(x \o y) = Len(x) + Len(y)
             /\ \A i \in 1..(Len(x) + Len(y)) : (x \o y)[i] = IF i <= Len(x) THEN x[i] ELSE y[i - Len(x)]
  <2>1. x \in Seq(Range(x) \cup Range(y)) /\ y \in Seq(Range(x) \cup Range(y))
    BY <1>2, SeqMonotonic
  <2>. QED  BY <2>1, ConcatProperties
<1>3. s \o u \in Seq(Range(s \o u)) /\ t \o v \in Seq(Range(t \o v))
  BY ConcatList DEF Related
<1>4. /\ Len(s \o u) = Len(s) + Len(u) /\ Len(t \o v) = Len(s) + Len(u)
      /\ DOMAIN (s \o u) = 1..(Len(s) + Len(u))
  BY <1>1, <1>2, <1>3, ListShape DEF Related
<1>5. ASSUME NEW i \in 1..(Len(s) + Len(u))
      PROVE  <<(s \o u)[i], (t \o v)[i]>> \in R
  <2>1. /\ (s \o u)[i] = IF i <= Len(s) THEN s[i] ELSE u[i - Len(s)]
        /\ (t \o v)[i] = IF i <= Len(s) THEN t[i] ELSE v[i - Len(s)]
    BY <1>1, <1>2 DEF Related
  <2>2. CASE i <= Len(s)
    BY <1>1, <2>1, <2>2 DEF Related
  <2>3. CASE ~(i <= Len(s))
    <3>1. i - Len(s) \in DOMAIN u
      BY <1>1, <2>3
    <3>. QED  BY <2>1, <2>3, <3>1 DEF Related
  <2>. QED  BY <2>2, <2>3
<1>. QED  BY <1>3, <1>4, <1>5 DEF Related

\* What is flattened from related lists is related.
LEMMA FlattenRelated ==
    ASSUME NEW R, NEW n \in Nat, NEW ss, NEW ts, ss = [i \in 1..n |-> ss[i]], ts = [i \in 1..n |-> ts[i]],
           \A i \in 1..n : Related(ss[i], ts[i], R)
    PROVE  Related(FlattenSeq(ss), FlattenSeq(ts), R)
<1>1. Len(ss) = n /\ Len(ts) = n /\ ss \in Seq(Range(ss)) /\ ts \in Seq(Range(ts))
  BY FunctionList
<1>2. CASE n = 0
  <2>1. ss = <<>> /\ ts = <<>>
    BY <1>1, <1>2, EmptySeq
  <2>2. Related(<<>>, <<>>, R)
    BY EmptySeq DEF Related
  <2>. QED  BY <1>1, <1>2, <2>1, <2>2 DEF FlattenSeq
<1>3. CASE n # 0
  <2>. DEFINE f == CHOOSE h : h = [i \in 1..n |-> IF i = 1 THEN ss[i] ELSE h[i - 1] \o ss[i]]
              g == CHOOSE h : h = [i \in 1..n |-> IF i = 1 THEN ts[i] ELSE h[i - 1] \o ts[i]]
  <2>1. Flattens(f, ss, n) /\ Flattens(g, ts, n)
    BY FlattenExists DEF Flattens
  <2>2. FlattenSeq(ss) = f[n] /\ FlattenSeq(ts) = g[n]
    BY <1>1, <1>3 DEF FlattenSeq
  <2>. HIDE DEF f, g
  <2>. DEFINE Bad == {i \in 1..n : ~Related(f[i], g[i], R)}
  <2>3. ASSUME Bad # {} PROVE FALSE
    <3>1. PICK i \in Bad : \A j \in Bad : i <= j
      <4>1. Bad \in SUBSET Nat
        OBVIOUS
      <4>. HIDE DEF Bad
      <4>. QED  BY <2>3, <4>1, LeastNumber
    <3>2. i \in 1..n /\ ~Related(f[i], g[i], R) /\ i - 1 \notin Bad
      BY <3>1
    <3>3. i # 1 => Related(f[i - 1], g[i - 1], R)
      BY <3>2
    <3>. HIDE DEF Bad
    <3>4. /\ f[i] = IF i = 1 THEN ss[i] ELSE f[i - 1] \o ss[i]
          /\ g[i] = IF i = 1 THEN ts[i] ELSE g[i - 1] \o ts[i]
      BY <2>1, <3>2 DEF Flattens
    <3>5. Related(ss[i], ts[i], R)
      BY <3>2
    <3>. QED  BY <3>2, <3>3, <3>4, <3>5, ConcatRelated
  <2>. QED  BY <1>3, <2>2, <2>3
<1>. QED  BY <1>2, <1>3

\* A list whose beginning another one is.
Begins(s, t) == Len(s) <= Len(t) /\ \A i \in 1..Len(s) : s[i] = t[i]
LEMMA PrefixShape ==
    ASSUME NEW s, s \in Seq(Range(s)), NEW t, t \in Seq(Range(t))
    PROVE  IsPrefix(s, t) <=> Begins(s, t)
<1>1. PICK m \in Nat, n \in Nat : m = Len(s) /\ n = Len(t)
  BY ListShape
<1>2. DOMAIN s = 1..m /\ DOMAIN t = 1..n /\ s = [i \in 1..m |-> s[i]]
  BY <1>1, ListShape
<1>3. SubSeq(s, 1, m) = s
  BY <1>1, <1>2
<1>4. ASSUME m <= n
      PROVE  SubSeq(t, 1, m) = [i \in 1..m |-> t[i]]
  <2>1. \A i \in 1..m : t[i] \in Range(t)
    BY <1>2, <1>4 DEF Range
  <2>2. /\ SubSeq(t, 1, m) \in Seq(Range(t)) /\ Len(SubSeq(t, 1, m)) = m
        /\ \A i \in 1..m : SubSeq(t, 1, m)[i] = t[i]
    BY <2>1, SubSeqProperties
  <2>3. SubSeq(t, 1, m) = [i \in 1..m |-> SubSeq(t, 1, m)[i]]
    BY <2>2, LenProperties
  <2>. QED  BY <2>2, <2>3
<1>5. ASSUME m <= n
      PROVE  s = [i \in 1..m |-> t[i]] <=> \A i \in 1..m : s[i] = t[i]
  BY <1>2
<1>. QED  BY <1>1, <1>3, <1>4, <1>5 DEF IsPrefix, Begins

LEMMA PrefixSelf ==
    ASSUME NEW s, s \in Seq(Range(s))
    PROVE  IsPrefix(s, s)
<1>1. Len(s) \in Nat
  BY ListShape
<1>. QED  BY <1>1, PrefixShape DEF Begins

LEMMA PrefixOfPrefix ==
    ASSUME NEW s, s \in Seq(Range(s)), NEW t, t \in Seq(Range(t)), NEW u, u \in Seq(Range(u)),
           IsPrefix(s, t), IsPrefix(t, u)
    PROVE  IsPrefix(s, u)
<1>1. Begins(s, t) /\ Begins(t, u)
  BY PrefixShape
<1>2. PICK l \in Nat, m \in Nat, n \in Nat : l = Len(s) /\ m = Len(t) /\ n = Len(u)
  BY ListShape
<1>3. Begins(s, u)
  BY <1>1, <1>2 DEF Begins
<1>. QED  BY <1>3, PrefixShape

LEMMA PrefixOfAppended ==
    ASSUME NEW s, s \in Seq(Range(s)), NEW e
    PROVE  Append(s, e) \in Seq(Range(Append(s, e))) /\ IsPrefix(s, Append(s, e))
           /\ Range(Append(s, e)) = Range(s) \cup {e}
<1>. DEFINE t == Append(s, e)
            S == Range(s) \cup {e}
<1>1. PICK n \in Nat : n = Len(s) /\ DOMAIN s = 1..n
  BY ListShape
<1>2. s \in Seq(S) /\ e \in S
  BY SeqMonotonic
<1>. HIDE DEF S
<1>3. /\ t \in Seq(S) /\ Len(t) = n + 1 /\ \A i \in 1..n : t[i] = s[i]
      /\ t[n + 1] = e
  BY <1>1, <1>2, AppendProperties
<1>. HIDE DEF t
<1>4. t = [i \in 1..(n + 1) |-> t[i]] /\ DOMAIN t = 1..(n + 1)
  BY <1>1, <1>3, LenProperties
<1>5. t \in Seq(Range(t))
  BY <1>1, <1>4, FunctionList
<1>6. Begins(s, t)
  BY <1>1, <1>3 DEF Begins
<1>7. Range(t) = Range(s) \cup {e}
  <2>1. \A i \in 1..(n + 1) : i \in 1..n \/ i = n + 1
    BY <1>1
  <2>2. 1..n \subseteq 1..(n + 1) /\ n + 1 \in 1..(n + 1)
    BY <1>1
  <2>. QED  BY <1>1, <1>3, <1>4, <2>1, <2>2 DEF Range
<1>. QED  BY <1>5, <1>6, <1>7, PrefixShape DEF t

LEMMA PrefixOfNothing ==
    ASSUME NEW s, s \in Seq(Range(s)), IsPrefix(s, <<>>)
    PROVE  s = <<>>
<1>1. <<>> \in Seq(Range(<<>>)) /\ Len(<<>>) = 0
  BY EmptySeq
<1>2. Begins(s, <<>>)
  BY <1>1, PrefixShape
<1>3. Len(s) = 0
  BY <1>1, <1>2, ListShape DEF Begins
<1>. QED  BY <1>3, EmptySeq

\* What a concatenation is made of.
LEMMA ConcatShape ==
    ASSUME NEW s, s \in Seq(Range(s)), NEW t, t \in Seq(Range(t))
    PROVE  s \o t \in Seq(Range(s \o t)) /\ Range(s \o t) = Range(s) \cup Range(t)
<1>. DEFINE S == Range(s) \cup Range(t)
            u == s \o t
<1>1. s \in Seq(S) /\ t \in Seq(S)
  BY SeqMonotonic
<1>. HIDE DEF S
<1>2. PICK m \in Nat, n \in Nat : m = Len(s) /\ n = Len(t) /\ DOMAIN s = 1..m /\ DOMAIN t = 1..n
  BY ListShape
<1>3. u \in Seq(S) /\ Len(u) = m + n /\ \A i \in 1..(m + n) : u[i] = IF i <= m THEN s[i] ELSE t[i - m]
  BY <1>1, <1>2, ConcatProperties
<1>. HIDE DEF u
<1>4. DOMAIN u = 1..(m + n)
  BY <1>2, <1>3, LenProperties
<1>5. ASSUME NEW e \in Range(u) PROVE e \in Range(s) \cup Range(t)
  <2>1. PICK i \in 1..(m + n) : e = u[i]
    BY <1>4 DEF Range
  <2>2. CASE i <= m
    <3>1. i \in 1..m
      BY <1>2, <2>2
    <3>. QED  BY <1>2, <1>3, <2>1, <2>2, <3>1 DEF Range
  <2>3. CASE ~(i <= m)
    <3>1. i - m \in 1..n
      BY <1>2, <2>3
    <3>. QED  BY <1>2, <1>3, <2>1, <2>3, <3>1 DEF Range
  <2>. QED  BY <2>2, <2>3
<1>6. ASSUME NEW e \in Range(s) PROVE e \in Range(u)
  <2>1. PICK i \in 1..m : e = s[i]
    BY <1>2 DEF Range
  <2>2. i \in 1..(m + n) /\ u[i] = s[i]
    BY <1>2, <1>3, <2>1
  <2>. QED  BY <1>4, <2>1, <2>2 DEF Range
<1>7. ASSUME NEW e \in Range(t) PROVE e \in Range(u)
  <2>1. PICK i \in 1..n : e = t[i]
    BY <1>2 DEF Range
  <2>2. m + i \in 1..(m + n) /\ ~(m + i <= m) /\ (m + i) - m = i
    BY <1>2, <2>1
  <2>3. u[m + i] = t[i]
    BY <1>3, <2>2
  <2>. QED  BY <1>4, <2>1, <2>2, <2>3 DEF Range
<1>. QED  BY <1>5, <1>6, <1>7, ConcatList DEF u

\* Nothing is lost when lists are flattened.
LEMMA FlattenHas ==
    ASSUME NEW seqs, seqs \in Seq(Range(seqs)), \A i \in DOMAIN seqs : seqs[i] \in Seq(Range(seqs[i])),
           NEW k \in DOMAIN seqs
    PROVE  Range(seqs[k]) \subseteq Range(FlattenSeq(seqs))
<1>1. PICK n \in Nat : n = Len(seqs) /\ DOMAIN seqs = 1..n
  BY ListShape
<1>. DEFINE flatten == CHOOSE f : f = [i \in 1..n |-> IF i = 1 THEN seqs[i] ELSE f[i - 1] \o seqs[i]]
<1>2. Flattens(flatten, seqs, n)
  BY <1>1, FlattenExists DEF Flattens
<1>3. FlattenSeq(seqs) = flatten[n]
  BY <1>1 DEF FlattenSeq
<1>. HIDE DEF flatten
<1>4. ASSUME NEW i \in 1..n
      PROVE  flatten[i] = IF i = 1 THEN seqs[i] ELSE flatten[i - 1] \o seqs[i]
  BY <1>2 DEF Flattens
<1>. DEFINE Good(i) == /\ flatten[i] \in Seq(Range(flatten[i]))
                       /\ \A j \in 1..i : Range(seqs[j]) \subseteq Range(flatten[i])
            Bad == {i \in 1..n : ~Good(i)}
<1>5. ASSUME NEW i \in 1..n, i # 1, Good(i - 1)
      PROVE  Good(i)
  <2>0. PICK s, t : s = flatten[i - 1] /\ t = seqs[i]
    OBVIOUS
  <2>1. /\ flatten[i] \in Seq(Range(flatten[i]))
        /\ Range(flatten[i]) = Range(flatten[i - 1]) \cup Range(seqs[i])
    <3>1. s \in Seq(Range(s)) /\ t \in Seq(Range(t)) /\ flatten[i] = s \o t
      BY <1>1, <1>4, <1>5, <2>0
    <3>. QED  BY <2>0, <3>1, ConcatShape
  <2>2. \A j \in 1..i : j \in 1..(i - 1) \/ j = i
    BY <1>1
  <2>. QED  BY <1>5, <2>1, <2>2
<1>6. ASSUME 1 \in 1..n
      PROVE  Good(1)
  BY <1>1, <1>4, <1>6
<1>. HIDE DEF Good
<1>7. ASSUME Bad # {} PROVE FALSE
  <2>0. Bad \in SUBSET Nat
    BY <1>1
  <2>1. PICK i \in Bad : \A j \in Bad : i <= j
    <3>. HIDE DEF Bad
    <3>. QED  BY <1>7, <2>0, LeastNumber
  <2>2. i \in 1..n /\ ~Good(i) /\ i - 1 \notin Bad
    BY <1>1, <2>1
  <2>3. i # 1 => i - 1 \in 1..n
    BY <1>1, <2>2
  <2>. QED  BY <1>5, <1>6, <2>2, <2>3
<1>8. n \in 1..n /\ k \in 1..n
  BY <1>1
<1>9. Good(n)
  BY <1>7, <1>8
<1>. QED  BY <1>3, <1>8, <1>9 DEF Good

-----------------------------------------------------------------------------
(* The least and the greatest of finitely many numbers.                    *)

LEMMA Extremes ==
    ASSUME NEW S, IsFiniteSet(S), S # {}, Numbers(S)
    PROVE  /\ Min(S) \in S /\ \A x \in S : Min(S) <= x
           /\ Max(S) \in S /\ \A x \in S : x <= Max(S)
<1>1. PICK order, m : order = Ascending(S) /\ m = Cardinality(S)
  OBVIOUS
<1>2. /\ m \in Nat /\ order \in [1..m -> S]
      /\ \A i \in 1..m, j \in 1..m : order[i] < order[j] <=> i < j
      /\ \A p \in S : \E i \in 1..m : order[i] = p
  BY <1>1, AscendingNumbers
<1>3. 1 \in 1..m /\ m \in 1..m
  BY <1>2
<1>4. \A x \in S : x \in Int
  BY DEF Numbers
<1>5. ASSUME NEW x \in S
      PROVE  order[1] <= x /\ x <= order[m]
  <2>1. PICK i \in 1..m : order[i] = x
    BY <1>2
  <2>2. ~(order[i] < order[1]) /\ ~(order[m] < order[i])
    BY <1>2, <1>3
  <2>3. order[1] \in Int /\ order[m] \in Int /\ order[i] \in Int
    BY <1>2, <1>3, <1>4
  <2>. QED  BY <2>1, <2>2, <2>3
<1>6. order[1] \in S /\ order[m] \in S
  BY <1>2, <1>3
<1>7. \E x \in S : \A y \in S : x <= y
  BY <1>5, <1>6
<1>8. \E x \in S : \A y \in S : x >= y
  <2>1. \A y \in S : order[m] >= y
    BY <1>4, <1>5, <1>6
  <2>. QED  BY <1>6, <2>1
<1>9. Min(S) \in S /\ \A y \in S : Min(S) <= y
  BY <1>7 DEF Min
<1>10. Max(S) \in S /\ \A y \in S : Max(S) >= y
  BY <1>8 DEF Max
<1>11. ASSUME NEW y \in S PROVE y <= Max(S)
  <2>1. PICK v \in Int, w \in Int : v = Max(S) /\ w = y
    BY <1>4, <1>10
  <2>. QED  BY <1>10, <2>1
<1>. QED  BY <1>9, <1>10, <1>11

\* Choosing every place of a list leaves it as it is.
LEMMA ChosenAll ==
    ASSUME NEW n \in Nat, NEW s, s = [i \in 1..n |-> s[i]]
    PROVE  Chosen(s, 1..n) = s
<1>1. IsFiniteSet(1..n) /\ Cardinality(1..n) = n /\ Numbers(1..n)
  BY FS_Interval DEF Numbers
<1>. DEFINE order == Ascending(1..n)
<1>2. order \in [1..n -> 1..n] /\ \A i \in 1..n : Cardinality({d \in 1..n : d < order[i]}) = i - 1
  <2>1. PICK m : m = n
    OBVIOUS
  <2>2. m = Cardinality(1..n)
    BY <1>1, <2>1
  <2>3. PICK P, o : P = 1..n /\ o = order
    OBVIOUS
  <2>4. IsFiniteSet(P) /\ Numbers(P) /\ m = Cardinality(P) /\ o = Ascending(P)
    BY <1>1, <2>2, <2>3
  <2>5. o \in [1..m -> P] /\ \A i \in 1..m : Cardinality({d \in P : d < o[i]}) = i - 1
    BY <2>4, AscendingNumbers
  <2>. QED  BY <2>1, <2>3, <2>5
<1>. HIDE DEF order
<1>3. ASSUME NEW i \in 1..n PROVE order[i] = i
  <2>1. PICK k \in 1..n : k = order[i]
    BY <1>2
  <2>2. {d \in 1..n : d < k} = 1..(k - 1)
    BY <2>1
  <2>3. Cardinality(1..(k - 1)) = k - 1
    <3>1. PICK h \in Nat : h = k - 1
      BY <2>1
    <3>2. PICK a, size : a = 1 /\ size = IF a > h THEN 0 ELSE h - a + 1
      OBVIOUS
    <3>3. Cardinality(a..h) = size
      <4>1. a \in Int /\ h \in Int
        BY <3>2
      <4>2. Cardinality(a..h) = IF a > h THEN 0 ELSE h - a + 1
        BY <4>1, FS_Interval
      <4>. QED  BY <3>2, <4>2
    <3>4. size = h
      BY <3>2
    <3>. QED  BY <3>1, <3>2, <3>3, <3>4
  <2>4. Cardinality(1..(k - 1)) = i - 1
    BY <1>2, <2>1, <2>2
  <2>. QED  BY <2>1, <2>3, <2>4
<1>4. Chosen(s, 1..n) = [i \in 1..n |-> s[order[i]]]
  <2>1. PICK P, m : P = 1..n /\ m = Cardinality(P) /\ m = n
    BY <1>1
  <2>2. Chosen(s, P) = [i \in 1..m |-> s[Ascending(P)[i]]]
    BY <2>1 DEF Chosen
  <2>. QED  BY <2>1, <2>2 DEF order
<1>. QED  BY <1>2, <1>3, <1>4
=============================================================================
