--------------------------- MODULE MatchingProofs ---------------------------
(***************************************************************************)
(* Theorems about how the matching engine trades: the queues have a front, *)
(* so what crosses is matched and what rests does not cross; a fill-or-    *)
(* kill order is filled; what is matched is entered in the ledger; stops   *)
(* are not left behind.                                                    *)
(***************************************************************************)
EXTENDS EngineProofs, SetFacts

-----------------------------------------------------------------------------
(* Queues.                                                                 *)

\* The queue of o in B, and a book whose queues give every order a place of its own.
Queue(B, o) == {p \in B : SameQueue(p, o)}
Queued(B) ==
    \A o \in B : /\ o.place <= Cardinality(Queue(B, o))
                 /\ \A p \in Queue(B, o) : p.place = o.place => p = o

\* A set of orders is no larger than one that has their ids.
LEMMA FewerIds ==
    ASSUME NEW S, NEW T, IsFiniteSet(T), Distinct(S), \A p \in S : \E q \in T : q.id = p.id
    PROVE  Cardinality(S) <= Cardinality(T)
<1>. DEFINE h == [p \in S |-> CHOOSE q \in T : q.id = p.id]
<1>1. \A p \in S : h[p] \in T /\ h[p].id = p.id
  OBVIOUS
<1>2. h \in Injection(S, T)
  <2>1. h \in [S -> T]
    BY <1>1
  <2>2. \A p, q \in S : h[p] = h[q] => p = q
    BY <1>1 DEF Distinct
  <2>. HIDE DEF h
  <2>. QED  BY <2>1, <2>2 DEF Injection, IsInjective
<1>. HIDE DEF h
<1>. QED  BY <1>2, FS_Injection

LEMMA QueueFinite ==
    ASSUME NEW B, GoodBook(B), NEW o
    PROVE  IsFiniteSet(Queue(B, o)) /\ Cardinality(Queue(B, o)) \in Nat /\ Distinct(Queue(B, o))
<1>1. IsFiniteSet(B)
  BY GoodBookFinite DEF GoodBook
<1>2. IsFiniteSet(Queue(B, o))
  BY <1>1, FS_Subset DEF Queue
<1>. QED  BY <1>2, FS_CardinalityType DEF GoodBook, Distinct, Queue

\* Taking an order out: each of the others is still there, moved up if it was behind.
LEMMA WithoutAll ==
    ASSUME NEW B, GoodBook(B), NEW o \in B, NEW p \in B \ {o}
    PROVE  Shifted(o, p) \in Without(B, o) /\ Alike(Shifted(o, p), p)
BY ShiftedAlike DEF Without, Shifted, GoodBook

LEMMA WithoutQueued ==
    ASSUME NEW B, GoodBook(B), Queued(B), NEW o \in B
    PROVE  Queued(Without(B, o))
<1>1. PICK C : C = Without(B, o)
  OBVIOUS
<1>2. GoodBook(C) /\ C = {Shifted(o, p) : p \in B \ {o}}
  <2>1. GoodBook(C)
    BY <1>1, WithoutGood
  <2>2. C = {Shifted(o, p) : p \in B \ {o}}
    BY <1>1 DEF Without, Shifted
  <2>. QED  BY <2>1, <2>2
<1>3. ASSUME NEW x \in C PROVE x.place <= Cardinality(Queue(C, x))
  <2>1. PICK p \in B \ {o} : x = Shifted(o, p) /\ Alike(x, p)
    BY <1>2, ShiftedAlike DEF GoodBook
  <2>2. PICK others : others = Queue(B, p) \ {o}
    OBVIOUS
  <2>3. /\ IsFiniteSet(Queue(B, p)) /\ Cardinality(Queue(B, p)) \in Nat
        /\ IsFiniteSet(Queue(C, x)) /\ Cardinality(Queue(C, x)) \in Nat
        /\ Distinct(Queue(B, p))
    BY <1>2, QueueFinite
  <2>4. /\ Distinct(others)
        /\ Cardinality(others) = IF o \in Queue(B, p) THEN Cardinality(Queue(B, p)) - 1
                                 ELSE Cardinality(Queue(B, p))
    BY <2>2, <2>3, FS_RemoveElement DEF Distinct
  <2>5. \A q \in others : \E y \in Queue(C, x) : y.id = q.id
    <3>. SUFFICES ASSUME NEW q \in others PROVE \E y \in Queue(C, x) : y.id = q.id
      OBVIOUS
    <3>1. q \in B \ {o} /\ SameQueue(q, p)
      BY <2>2 DEF Queue
    <3>2. Shifted(o, q) \in C /\ Alike(Shifted(o, q), q)
      BY <1>1, <3>1, WithoutAll
    <3>. HIDE DEF Shifted
    <3>. QED  BY <2>1, <3>1, <3>2 DEF Alike, Queue, SameQueue
  <2>6. Cardinality(others) <= Cardinality(Queue(C, x))
    BY <2>3, <2>4, <2>5, FewerIds
  <2>7. p.place \in Int /\ o.place \in Int /\ x.place = IF SameQueue(p, o) /\ p.place > o.place THEN p.place - 1 ELSE p.place
    BY <2>1 DEF Shifted, GoodBook, BookOrder
  <2>8. p.place <= Cardinality(Queue(B, p))
    BY DEF Queued
  <2>9. CASE SameQueue(p, o)
    <3>1. Queue(B, p) = Queue(B, o) /\ o \in Queue(B, p)
      BY <2>9 DEF Queue, SameQueue
    <3>2. o.place <= Cardinality(Queue(B, p)) /\ p.place # o.place
      BY <2>1, <2>9, <3>1 DEF Queued, Queue, SameQueue
    <3>. QED  BY <2>3, <2>4, <2>6, <2>7, <2>8, <2>9, <3>1, <3>2
  <2>10. CASE ~SameQueue(p, o)
    <3>1. o \notin Queue(B, p)
      BY <2>10 DEF Queue, SameQueue
    <3>. QED  BY <2>3, <2>4, <2>6, <2>7, <2>8, <2>10, <3>1
  <2>. QED  BY <2>9, <2>10
<1>4. ASSUME NEW x \in C, NEW y \in Queue(C, x), y.place = x.place PROVE y = x
  <2>1. PICK p \in B \ {o} : x = Shifted(o, p) /\ Alike(x, p)
    BY <1>2, ShiftedAlike DEF GoodBook
  <2>2. PICK q \in B \ {o} : y = Shifted(o, q) /\ Alike(y, q)
    BY <1>2, ShiftedAlike DEF GoodBook, Queue
  <2>3. p.place \in Int /\ q.place \in Int /\ o.place \in Int
    BY DEF GoodBook, BookOrder
  <2>4. SameQueue(q, p) /\ (SameQueue(q, o) <=> SameQueue(p, o))
    BY <2>1, <2>2, <1>4 DEF Alike, Queue, SameQueue
  <2>5. /\ x.place = IF SameQueue(p, o) /\ p.place > o.place THEN p.place - 1 ELSE p.place
        /\ y.place = IF SameQueue(q, o) /\ q.place > o.place THEN q.place - 1 ELSE q.place
    BY <2>1, <2>2 DEF Shifted, GoodBook, BookOrder
  <2>6. SameQueue(p, o) => p.place # o.place /\ q.place # o.place
    BY <2>4 DEF Queued, Queue, SameQueue
  <2>7. p.place = q.place
    BY <1>4, <2>3, <2>4, <2>5, <2>6
  <2>8. p = q
    BY <2>4, <2>7 DEF Queued, Queue
  <2>. QED  BY <2>1, <2>2, <2>8
<1>. QED  BY <1>1, <1>3, <1>4 DEF Queued

\* An order that joins at the back of its queue.
LEMMA JoinQueued ==
    ASSUME NEW B, GoodBook(B), Queued(B), NEW x, \A p \in B : p.id # x.id,
           GoodBook(B \cup {x}), NEW o, x.place = BackPlace(B, o),
           x.sym = o.sym, x.side = o.side, x.price = o.price, x.kind = o.kind
    PROVE  Queued(B \cup {x})
<1>1. PICK C : C = B \cup {x}
  OBVIOUS
<1>2. Queue(C, x) = Queue(B, o) \cup {x} /\ x \notin Queue(B, o)
  BY <1>1 DEF Queue, SameQueue
<1>3. IsFiniteSet(Queue(B, o)) /\ Cardinality(Queue(B, o)) \in Nat
  BY QueueFinite
<1>4. Cardinality(Queue(C, x)) = Cardinality(Queue(B, o)) + 1
  BY <1>2, <1>3, FS_AddElement
<1>5. x.place = 1 + Cardinality(Queue(B, o))
  BY DEF BackPlace, Queue
<1>6. ASSUME NEW y \in B
      PROVE  /\ y.place <= Cardinality(Queue(C, y)) /\ y.place \in Int
             /\ SameQueue(y, x) => y.place < x.place
  <2>1. /\ IsFiniteSet(Queue(C, y)) /\ Cardinality(Queue(C, y)) \in Nat
        /\ Cardinality(Queue(B, y)) \in Nat
    BY <1>1, QueueFinite
  <2>2. Queue(B, y) \subseteq Queue(C, y)
    BY <1>1 DEF Queue
  <2>3. Cardinality(Queue(B, y)) <= Cardinality(Queue(C, y))
    BY <2>1, <2>2, FS_Subset
  <2>4. y.place <= Cardinality(Queue(B, y)) /\ y.place \in Int
    BY DEF Queued, GoodBook, BookOrder
  <2>5. SameQueue(y, x) => Queue(B, y) = Queue(B, o)
    BY DEF Queue, SameQueue
  <2>. QED  BY <1>3, <1>5, <2>1, <2>3, <2>4, <2>5
<1>7. ASSUME NEW y \in C
      PROVE  y.place <= Cardinality(Queue(C, y))
  <2>1. CASE y = x
    BY <1>3, <1>4, <1>5, <2>1
  <2>. QED  BY <1>1, <1>6, <2>1
<1>8. ASSUME NEW y \in C, NEW z \in Queue(C, y), z.place = y.place
      PROVE  z = y
  <2>1. z \in C /\ SameQueue(z, y) /\ SameQueue(y, z)
    BY DEF Queue, SameQueue
  <2>2. CASE y \in B /\ z \in B
    BY <1>8, <2>1, <2>2 DEF Queued, Queue
  <2>3. CASE y = x /\ z \in B
    BY <1>6, <1>8, <2>1, <2>3, <1>3, <1>5
  <2>4. CASE z = x /\ y \in B
    BY <1>6, <1>8, <2>1, <2>4, <1>3, <1>5
  <2>. QED  BY <1>1, <2>1, <2>2, <2>3, <2>4
<1>. QED  BY <1>1, <1>7, <1>8 DEF Queued

\* An order that changes in its place.
LEMMA ChangeQueued ==
    ASSUME NEW B, GoodBook(B), Queued(B), NEW o \in B, NEW x, SameQueue(x, o),
           x.place = o.place, x.id = o.id, GoodBook((B \ {o}) \cup {x})
    PROVE  Queued((B \ {o}) \cup {x})
<1>1. PICK C : C = (B \ {o}) \cup {x}
  OBVIOUS
<1>2. \A y \in C : \E p \in B : p.id = y.id /\ p.place = y.place /\ SameQueue(y, p)
  BY <1>1 DEF SameQueue
<1>3. \A p \in B : \E y \in C : p.id = y.id /\ SameQueue(y, p)
  BY <1>1 DEF SameQueue
<1>4. ASSUME NEW y \in C PROVE y.place <= Cardinality(Queue(C, y))
  <2>1. PICK p \in B : p.id = y.id /\ p.place = y.place /\ SameQueue(y, p)
    BY <1>2
  <2>2. /\ Distinct(Queue(B, p)) /\ IsFiniteSet(Queue(C, y))
        /\ Cardinality(Queue(C, y)) \in Nat /\ Cardinality(Queue(B, p)) \in Nat
    BY <1>1, QueueFinite
  <2>3. \A q \in Queue(B, p) : \E z \in Queue(C, y) : z.id = q.id
    <3>. SUFFICES ASSUME NEW q \in Queue(B, p) PROVE \E z \in Queue(C, y) : z.id = q.id
      OBVIOUS
    <3>1. PICK z \in C : q.id = z.id /\ SameQueue(z, q)
      BY <1>3 DEF Queue
    <3>. QED  BY <2>1, <3>1 DEF Queue, SameQueue
  <2>4. Cardinality(Queue(B, p)) <= Cardinality(Queue(C, y))
    BY <2>2, <2>3, FewerIds
  <2>5. p.place <= Cardinality(Queue(B, p)) /\ p.place \in Int
    BY DEF Queued, GoodBook, BookOrder
  <2>. QED  BY <2>1, <2>2, <2>4, <2>5
<1>5. ASSUME NEW y \in C, NEW z \in Queue(C, y), z.place = y.place PROVE z = y
  <2>1. PICK p \in B : p.id = y.id /\ p.place = y.place /\ SameQueue(y, p)
    BY <1>2
  <2>2. PICK q \in B : q.id = z.id /\ q.place = z.place /\ SameQueue(z, q)
    BY <1>2 DEF Queue
  <2>3. SameQueue(q, p) /\ q.place = p.place
    BY <1>5, <2>1, <2>2 DEF Queue, SameQueue
  <2>4. p = q
    BY <2>3 DEF Queued, Queue
  <2>. QED  BY <1>1, <2>1, <2>2, <2>4 DEF Queue, GoodBook, Distinct
<1>. QED  BY <1>1, <1>4, <1>5 DEF Queued

LEMMA AddQueued ==
    ASSUME NEW B, GoodBook(B), Queued(B),
           NEW o \in [id : OrderIds, sym : Symbols, side : Sides, price : Int, kind : Kinds,
                      qty : Int, clip : Int],
           \A p \in B : p.id # o.id
    PROVE  Queued(AddOrder(B, o))
<1>1. CASE AddOrder(B, o) = B
  BY <1>1
<1>2. CASE AddOrder(B, o) # B
  <2>1. PICK x : /\ AddOrder(B, o) = B \cup {x} /\ x.id = o.id /\ x.place = BackPlace(B, o)
                 /\ x.sym = o.sym /\ x.side = o.side /\ x.price = o.price /\ x.kind = o.kind
    BY <1>2 DEF AddOrder
  <2>2. GoodBook(B \cup {x})
    BY <2>1, AddGood, ZenonT(30)
  <2>. QED  BY <2>1, <2>2, JoinQueued
<1>. QED  BY <1>1, <1>2

\* A fill leaves an order out, in its place, or at the back; the others stay, each alike.
LEMMA FillQueued ==
    ASSUME NEW B, GoodBook(B), Queued(B), NEW o \in B, NEW n \in Nat \ {0}, n <= Fillable(o)
    PROVE  Queued(AfterFill(B, o, n))
<1>. DEFINE left == Reduced(o, n)
            others == Without(B, o)
<1>0. GoodBook(AfterFill(B, o, n))
  BY FillGood
<1>1. o \in BookOrder
  BY DEF GoodBook
<1>2. /\ left.id = o.id /\ left.sym = o.sym /\ left.side = o.side /\ left.price = o.price
      /\ left.kind = o.kind /\ left.place = o.place /\ left \in [id : OrderIds, sym : Symbols, side : Sides, price : Int, kind : Kinds,
              qty : Int, reserve : Int, clip : Int, place : Int]
  BY <1>1 DEF Reduced, BookOrder
<1>3. GoodBook(others) /\ Queued(others) /\ \A p \in others : p.id # o.id
  BY WithoutGood, WithoutQueued
<1>4. CASE AfterFill(B, o, n) = others
  BY <1>3, <1>4
<1>5. CASE AfterFill(B, o, n) = others \cup {Renewed(others, left)}
  <2>1. PICK x : x = Renewed(others, left)
    OBVIOUS
  <2>2. /\ x.id = left.id /\ x.place = BackPlace(others, left) /\ x.sym = left.sym
        /\ x.side = left.side /\ x.price = left.price /\ x.kind = left.kind
    BY <1>2, <2>1 DEF Renewed
  <2>. HIDE DEF left, others
  <2>. QED  BY <1>0, <1>2, <1>3, <1>5, <2>1, <2>2, JoinQueued
<1>6. CASE AfterFill(B, o, n) = (B \ {o}) \cup {left}
  <2>. HIDE DEF left
  <2>. QED  BY <1>0, <1>2, <1>6, ChangeQueued DEF SameQueue
<1>. QED  BY <1>4, <1>5, <1>6 DEF AfterFill

\* Of the orders of one side of a symbol one comes before all the others.
LEMMA FrontExists ==
    ASSUME NEW B, GoodBook(B), Queued(B), NEW S \in SUBSET B, S # {},
           \A o, p \in S : o.sym = p.sym /\ o.side = p.side
    PROVE  Front(S) # {}
<1>. DEFINE Before(o) == {p \in S : Ahead(p, o)}
            F == {Before(o) : o \in S}
<1>0. \A o \in S : /\ o.price \in Int /\ o.place \in Int /\ o.kind \in Kinds /\ o.side \in Sides
  BY DEF GoodBook, BookOrder
<1>1. IsFiniteSet(B)
  BY GoodBookFinite DEF GoodBook
<1>2. \A T \in F : IsFiniteSet(T)
  BY <1>1, FS_Subset
<1>3. PICK T \in F : \A U \in F : U \subseteq T => U = T
  <2>1. F # {}
    OBVIOUS
  <2>. HIDE DEF F
  <2>. QED  BY <1>2, <2>1, SmallestSet
<1>4. PICK o \in S : T = Before(o)
  BY <1>3
<1>5. ASSUME NEW p \in S, p # o PROVE Ahead(o, p)
  <2>1. CASE Ahead(p, o)
    <3>1. Before(p) \subseteq Before(o)
      <4>. SUFFICES ASSUME NEW q \in S, Ahead(q, p) PROVE Ahead(q, o)
        OBVIOUS
      <4>. QED  BY <1>0, <2>1 DEF Ahead, Better, QueueRank, Kinds, Sides
    <3>2. p \in Before(o) /\ p \notin Before(p)
      BY <1>0, <2>1 DEF Ahead, Better, QueueRank, Kinds, Sides
    <3>. QED  BY <1>3, <1>4, <3>1, <3>2
  <2>2. CASE ~Ahead(p, o)
    <3>1. ~(o.price = p.price /\ o.kind = p.kind /\ o.place = p.place)
      BY <1>5 DEF Queued, Queue, SameQueue
    <3>. QED  BY <1>0, <2>2, <3>1 DEF Ahead, Better, QueueRank, Kinds, Sides
  <2>. QED  BY <2>1, <2>2
<1>. QED  BY <1>5 DEF Front

-----------------------------------------------------------------------------
(* What a fill leaves of the book.                                         *)

LEMMA FillAll ==
    ASSUME NEW B, GoodBook(B), NEW o \in B, NEW n \in Nat \ {0}, n <= Fillable(o),
           NEW C, C = AfterFill(B, o, n)
    PROVE  /\ \A p \in B \ {o} : \E x \in C : Alike(x, p)
           /\ IF Remaining(o) = n THEN \A x \in C : x.id # o.id
              ELSE \E x \in C : LeftOf(x, o, n)
<1>. DEFINE left == Reduced(o, n)
            others == Without(B, o)
<1>1. o \in BookOrder /\ Shaped(o)
  BY DEF GoodBook
<1>2. left.id = o.id /\ Remaining(left) = Remaining(o) - n
  BY <1>1 DEF Reduced, BookOrder, Remaining, Fillable, Shaped
<1>3. Remaining(o) \in Int
  BY <1>1 DEF BookOrder, Remaining
<1>4. GoodBook(C) /\ \A x \in C : (\E p \in B \ {o} : Alike(x, p)) \/ LeftOf(x, o, n)
  BY FillGood
<1>5. \A p \in B \ {o} : \E x \in others : Alike(x, p)
  BY WithoutAll
<1>6. \A p \in B \ {o} : \E x \in C : Alike(x, p)
  <2>1. others \subseteq C \/ B \ {o} \subseteq C
    BY DEF AfterFill
  <2>2. \A p \in B : Alike(p, p)
    BY DEF Alike
  <2>. HIDE DEF others
  <2>. QED  BY <1>5, <2>1, <2>2
<1>7. CASE Remaining(o) = n
  <2>1. \A x \in C : ~LeftOf(x, o, n)
    BY <1>7, <1>3 DEF LeftOf
  <2>2. \A x \in C : x.id # o.id
    BY <1>4, <2>1 DEF Alike, GoodBook, Distinct
  <2>. QED  BY <1>6, <1>7, <2>2
<1>8. CASE Remaining(o) # n
  <2>1. Remaining(left) # 0
    BY <1>2, <1>3, <1>8
  <2>2. \E x \in C : x.id = o.id
    <3>1. CASE C = others \cup {Renewed(others, left)}
      <4>1. Renewed(others, left).id = left.id
        BY DEF Renewed, Reduced
      <4>. QED  BY <1>2, <3>1, <4>1
    <3>2. CASE C = (B \ {o}) \cup {left}
      BY <1>2, <3>2
    <3>. QED  BY <2>1, <3>1, <3>2 DEF AfterFill
  <2>3. PICK x \in C : x.id = o.id
    BY <2>2
  <2>4. LeftOf(x, o, n)
    BY <1>4, <2>3 DEF Alike, GoodBook, Distinct
  <2>. QED  BY <1>6, <1>8, <2>4
<1>. QED  BY <1>7, <1>8

\* What the orders with certain symbols, sides and prices have open together.
Place(o) == <<o.sym, o.side, o.price>>
OpenAt(B, K) == SumFunctionOnSet([o \in B |-> Remaining(o)], {o \in B : Place(o) \in K})

LEMMA RemainingType ==
    ASSUME NEW B, GoodBook(B)
    PROVE  \A o \in B : Remaining(o) \in Nat \ {0}
BY DEF GoodBook, BookOrder, Remaining, Shaped

LEMMA OpenAtType ==
    ASSUME NEW B, GoodBook(B), NEW K
    PROVE  OpenAt(B, K) \in Nat
<1>1. IsFiniteSet({o \in B : Place(o) \in K})
  BY GoodBookFinite, FS_Subset DEF GoodBook
<1>2. \A o \in {p \in B : Place(p) \in K} : [p \in B |-> Remaining(p)][o] \in Nat
  BY RemainingType
<1>. QED  BY <1>1, <1>2, SumType DEF OpenAt

\* Who is wanted is found, as long as something is open.
LEMMA OpenAtSome ==
    ASSUME NEW B, NEW K, OpenAt(B, K) # 0
    PROVE  \E o \in B : Place(o) \in K
<1>. SUFFICES ASSUME {o \in B : Place(o) \in K} = {} PROVE FALSE
  OBVIOUS
<1>. QED  BY SumStep, FS_EmptySet DEF OpenAt

\* A sum over the orders at certain places, after a fill of m: the others count for what
\* they did, and m for what is left of it.
LEMMA FillSum ==
    ASSUME NEW B, GoodBook(B), NEW m \in B, NEW n \in Nat \ {0}, n <= Fillable(m), NEW K,
           NEW C, C = AfterFill(B, m, n), NEW f, NEW g,
           \A o \in B : f[o] \in Nat, \A x \in C : g[x] \in Nat,
           \A x \in C, p \in B : Alike(x, p) => g[x] = f[p]
    PROVE  \E rest \in Nat :
             /\ SumFunctionOnSet(f, {o \in B : Place(o) \in K})
                    = rest + (IF Place(m) \in K THEN f[m] ELSE 0)
             /\ Place(m) \in K /\ Remaining(m) # n =>
                    \E x \in C : /\ LeftOf(x, m, n)
                                 /\ SumFunctionOnSet(g, {o \in C : Place(o) \in K}) = rest + g[x]
             /\ ~(Place(m) \in K /\ Remaining(m) # n) =>
                    SumFunctionOnSet(g, {o \in C : Place(o) \in K}) = rest
<1>2. /\ GoodBook(C)
      /\ \A x \in C : (\E p \in B \ {m} : Alike(x, p)) \/ LeftOf(x, m, n)
      /\ \A p \in B \ {m} : \E x \in C : Alike(x, p)
  BY FillGood, FillAll
<1>3. IsFiniteSet(B) /\ IsFiniteSet(C)
  BY <1>2, GoodBookFinite DEF GoodBook
<1>4. PICK S : S = {o \in B : Place(o) \in K} \ {m}
  OBVIOUS
<1>5. PICK h : h = [p \in S |-> CHOOSE x \in C : Alike(x, p)]
  OBVIOUS
<1>6. \A p \in S : h[p] \in C /\ Alike(h[p], p)
  BY <1>2, <1>4, <1>5
<1>7. IsFiniteSet(S) /\ S \subseteq B \ {m}
  BY <1>3, <1>4, FS_Subset
<1>8. PICK T : T = {h[p] : p \in S}
  OBVIOUS
<1>9. SumFunctionOnSet(g, T) = SumFunctionOnSet(f, S)
  <2>1. \A x, y \in S : h[x] = h[y] => x = y
    <3>1. \A x, y \in S : h[x] = h[y] => x.id = y.id
      BY <1>6 DEF Alike
    <3>. QED  BY <1>7, <3>1 DEF GoodBook, Distinct
  <2>2. \A x \in S : g[h[x]] = f[x] /\ f[x] \in Int
    BY <1>6, <1>7
  <2>. QED  BY <1>7, <1>8, <2>1, <2>2, SumImage
<1>10. PICK rest : rest = SumFunctionOnSet(f, S)
  OBVIOUS
<1>11. rest \in Nat
  BY <1>7, <1>10, SumType
<1>12. \A x \in C : x \in T <=> Place(x) \in K /\ x.id # m.id
  <2>. SUFFICES ASSUME NEW x \in C PROVE x \in T <=> Place(x) \in K /\ x.id # m.id
    OBVIOUS
  <2>1. ASSUME x \in T PROVE Place(x) \in K /\ x.id # m.id
    <3>1. PICK p \in S : x = h[p]
      BY <1>8, <2>1
    <3>2. Alike(x, p) /\ p \in B /\ p # m /\ Place(p) \in K
      BY <1>4, <1>6, <3>1
    <3>. QED  BY <3>2 DEF Alike, Place, GoodBook, Distinct
  <2>2. ASSUME Place(x) \in K, x.id # m.id PROVE x \in T
    <3>1. PICK p \in B \ {m} : Alike(x, p)
      BY <1>2, <2>2 DEF LeftOf
    <3>2. p \in S
      BY <1>4, <2>2, <3>1 DEF Alike, Place
    <3>3. h[p] = x
      BY <1>2, <1>6, <3>1, <3>2 DEF Alike, GoodBook, Distinct
    <3>. QED  BY <1>8, <3>2, <3>3
  <2>. QED  BY <2>1, <2>2
<1>13. T \subseteq C /\ IsFiniteSet(T)
  BY <1>3, <1>6, <1>8, FS_Subset
<1>14. SumFunctionOnSet(f, {o \in B : Place(o) \in K})
           = rest + (IF Place(m) \in K THEN f[m] ELSE 0)
  <2>1. CASE Place(m) \in K
    <3>1. PICK W : W = {o \in B : Place(o) \in K}
      OBVIOUS
    <3>2. IsFiniteSet(W) /\ m \in W /\ S = W \ {m} /\ \A y \in W : f[y] \in Int
      BY <1>3, <1>4, <2>1, <3>1, FS_Subset
    <3>3. SumFunctionOnSet(f, W) = f[m] + SumFunctionOnSet(f, S)
      BY <3>2, SumRemove
    <3>4. f[m] \in Int
      OBVIOUS
    <3>. QED  BY <1>10, <1>11, <2>1, <3>1, <3>3, <3>4
  <2>2. CASE Place(m) \notin K
    <3>1. S = {o \in B : Place(o) \in K}
      BY <1>4, <2>2
    <3>. QED  BY <1>10, <1>11, <2>2, <3>1
  <2>. QED  BY <2>1, <2>2
<1>15. ASSUME Place(m) \in K, Remaining(m) # n
       PROVE  \E x \in C : /\ LeftOf(x, m, n)
                           /\ SumFunctionOnSet(g, {o \in C : Place(o) \in K}) = rest + g[x]
  <2>1. PICK x \in C : LeftOf(x, m, n)
    BY <1>15, FillAll
  <2>2. x.id = m.id /\ Place(x) = Place(m)
    BY <2>1 DEF LeftOf, Place
  <2>3. {o \in C : Place(o) \in K} = T \cup {x} /\ x \notin T
    BY <1>2, <1>12, <1>13, <1>15, <2>2 DEF GoodBook, Distinct
  <2>4. \A y \in T \cup {x} : g[y] \in Int
    BY <1>13
  <2>5. SumFunctionOnSet(g, T \cup {x}) = g[x] + SumFunctionOnSet(g, T)
    BY <1>13, <2>3, <2>4, SumAdd
  <2>6. SumFunctionOnSet(g, {o \in C : Place(o) \in K}) = g[x] + rest
    BY <1>9, <1>10, <2>3, <2>5
  <2>7. g[x] + rest = rest + g[x]
    BY <1>11, <2>4
  <2>. QED  BY <2>1, <2>6, <2>7, Zenon
<1>16. ASSUME ~(Place(m) \in K /\ Remaining(m) # n)
       PROVE  SumFunctionOnSet(g, {o \in C : Place(o) \in K}) = rest
  <2>1. \A x \in C : Place(x) \in K => x.id # m.id
    <3>1. CASE Place(m) \notin K
      BY <1>2, <3>1 DEF LeftOf, Alike, Place, GoodBook, Distinct
    <3>2. CASE Remaining(m) = n
      BY <3>2, FillAll
    <3>. QED  BY <1>16, <3>1, <3>2
  <2>2. {o \in C : Place(o) \in K} = T
    BY <1>12, <1>13, <2>1
  <2>. QED  BY <1>9, <1>10, <2>2
<1>. QED  BY <1>11, <1>14, <1>15, <1>16

\* A fill of n takes n from what is open.
LEMMA OpenAtFill ==
    ASSUME NEW B, GoodBook(B), NEW m \in B, NEW n \in Nat \ {0}, n <= Fillable(m), NEW K
    PROVE  OpenAt(AfterFill(B, m, n), K) = OpenAt(B, K) - (IF Place(m) \in K THEN n ELSE 0)
<1>1. PICK C : C = AfterFill(B, m, n)
  OBVIOUS
<1>2. PICK f : f = [o \in B |-> Remaining(o)]
  OBVIOUS
<1>3. PICK g : g = [o \in C |-> Remaining(o)]
  OBVIOUS
<1>4. /\ \A o \in B : Remaining(o) \in Nat \ {0}
      /\ \A o \in C : Remaining(o) \in Nat \ {0}
  BY <1>1, FillGood, RemainingType
<1>5. \A x \in C, p \in B : Alike(x, p) => g[x] = f[p]
  BY <1>2, <1>3 DEF Alike, Remaining
<1>6. /\ OpenAt(B, K) = SumFunctionOnSet(f, {o \in B : Place(o) \in K})
      /\ OpenAt(C, K) = SumFunctionOnSet(g, {o \in C : Place(o) \in K})
  BY <1>2, <1>3 DEF OpenAt
<1>7. (\A o \in B : f[o] \in Nat) /\ \A x \in C : g[x] \in Nat
  BY <1>2, <1>3, <1>4
<1>8. PICK rest \in Nat :
         /\ OpenAt(B, K) = rest + (IF Place(m) \in K THEN f[m] ELSE 0)
         /\ Place(m) \in K /\ Remaining(m) # n =>
                \E x \in C : LeftOf(x, m, n) /\ OpenAt(C, K) = rest + g[x]
         /\ ~(Place(m) \in K /\ Remaining(m) # n) => OpenAt(C, K) = rest
  BY <1>1, <1>5, <1>6, <1>7, FillSum
<1>9. f[m] = Remaining(m) /\ \A x \in C : LeftOf(x, m, n) => g[x] = Remaining(m) - n
  BY <1>2, <1>3 DEF LeftOf
<1>. QED  BY <1>1, <1>4, <1>8, <1>9

\* What the orders at certain places show together, and what a fill leaves of it.
ShownAt(B, K) == SumFunctionOnSet([o \in B |-> o.qty], {o \in B : Place(o) \in K})

LEMMA ShownAtType ==
    ASSUME NEW B, GoodBook(B), NEW K
    PROVE  ShownAt(B, K) \in Nat
<1>1. IsFiniteSet({o \in B : Place(o) \in K})
  BY GoodBookFinite, FS_Subset DEF GoodBook
<1>2. \A o \in {p \in B : Place(p) \in K} : [p \in B |-> p.qty][o] \in Nat
  BY DEF GoodBook, BookOrder
<1>. QED  BY <1>1, <1>2, SumType DEF ShownAt

\* Where something is shown there is an order that shows it.
LEMMA ShownAtSome ==
    ASSUME NEW B, GoodBook(B), NEW K, ShownAt(B, K) # 0
    PROVE  \E o \in B : Place(o) \in K /\ o.qty > 0
<1>. SUFFICES ASSUME \A o \in B : Place(o) \in K => ~(o.qty > 0) PROVE FALSE
  OBVIOUS
<1>1. PICK f : f = [o \in B |-> o.qty]
  OBVIOUS
<1>2. PICK S : S = {o \in B : Place(o) \in K}
  OBVIOUS
<1>3. \A o \in S : f[o] = 0
  BY <1>1, <1>2 DEF GoodBook, BookOrder
<1>4. IsFiniteSet(S)
  BY <1>2, GoodBookFinite, FS_Subset DEF GoodBook
<1>5. SumFunctionOnSet(f, S) = 0
  BY <1>3, <1>4, SumZero
<1>. QED  BY <1>1, <1>2, <1>5 DEF ShownAt

\* Who shows an order, hidden orders apart, loses at most what is taken.
LEMMA LeftShown ==
    ASSUME NEW B, GoodBook(B), NEW m \in B, NEW n \in Nat \ {0}, n <= Fillable(m),
           NEW x \in AfterFill(B, m, n), LeftOf(x, m, n)
    PROVE  x.qty >= m.qty - n
<1>. DEFINE left == Reduced(m, n)
            others == Without(B, m)
<1>1. m \in BookOrder /\ Shaped(m) /\ GoodBook(AfterFill(B, m, n)) /\ x \in BookOrder
  BY FillGood DEF GoodBook
<1>2. x.id = m.id /\ \A p \in others : p.id # m.id
  BY WithoutGood DEF LeftOf
<1>3. CASE AfterFill(B, m, n) = others
  BY <1>2, <1>3
<1>4. CASE /\ AfterFill(B, m, n) = others \cup {Renewed(others, left)}
           /\ m.kind = "Iceberg" /\ left.qty = 0
  <2>1. m.qty = n
    BY <1>1, <1>4 DEF Reduced, BookOrder
  <2>. QED  BY <1>1, <2>1 DEF BookOrder
<1>5. CASE AfterFill(B, m, n) = (B \ {m}) \cup {left}
  <2>1. x = left
    BY <1>2, <1>5 DEF GoodBook, Distinct
  <2>. QED  BY <1>1, <2>1 DEF Reduced, BookOrder
<1>. QED  BY <1>3, <1>4, <1>5 DEF AfterFill

LEMMA ShownAtFill ==
    ASSUME NEW B, GoodBook(B), NEW m \in B, NEW n \in Nat \ {0}, n <= Fillable(m), NEW K
    PROVE  ShownAt(AfterFill(B, m, n), K) >= ShownAt(B, K) - (IF Place(m) \in K THEN n ELSE 0)
<1>1. PICK C : C = AfterFill(B, m, n)
  OBVIOUS
<1>2. PICK f : f = [o \in B |-> o.qty]
  OBVIOUS
<1>3. PICK g : g = [o \in C |-> o.qty]
  OBVIOUS
<1>4. (\A o \in B : o.qty \in Nat) /\ \A o \in C : o.qty \in Nat
  BY <1>1, FillGood DEF GoodBook, BookOrder
<1>5. \A x \in C, p \in B : Alike(x, p) => g[x] = f[p]
  BY <1>2, <1>3 DEF Alike
<1>6. /\ ShownAt(B, K) = SumFunctionOnSet(f, {o \in B : Place(o) \in K})
      /\ ShownAt(C, K) = SumFunctionOnSet(g, {o \in C : Place(o) \in K})
  BY <1>2, <1>3 DEF ShownAt
<1>7. (\A o \in B : f[o] \in Nat) /\ \A x \in C : g[x] \in Nat
  BY <1>2, <1>3, <1>4
<1>8. PICK rest \in Nat :
         /\ ShownAt(B, K) = rest + (IF Place(m) \in K THEN f[m] ELSE 0)
         /\ Place(m) \in K /\ Remaining(m) # n =>
                \E x \in C : LeftOf(x, m, n) /\ ShownAt(C, K) = rest + g[x]
         /\ ~(Place(m) \in K /\ Remaining(m) # n) => ShownAt(C, K) = rest
  BY <1>1, <1>5, <1>6, <1>7, FillSum
<1>9. f[m] = m.qty /\ \A x \in C : LeftOf(x, m, n) => g[x] >= m.qty - n
  BY <1>1, <1>2, <1>3, LeftShown
<1>10. Remaining(m) = n => m.qty <= n
  BY DEF GoodBook, BookOrder, Remaining
<1>. QED  BY <1>1, <1>4, <1>7, <1>8, <1>9, <1>10

-----------------------------------------------------------------------------
(* The steps that change the book.                                         *)

\* A fill of n of the order m: what ExecuteFill does once both are chosen.
FillEffect(m, n, b, s, buyerFee, sellerFee, free) ==
    LET sym == taker.sym
        a == MakerAccount(m.id)
    IN  /\ book' = AfterFill(book, m, n)
        /\ Settle(sym, b, s, m.price, n, buyerFee, sellerFee)
        /\ reserved' = [reserved EXCEPT ![a].cash = @ - free.cash,
                                        ![a].short = @ - free.short,
                                        ![a].qty[sym] = @ - free.qty]
        /\ held' = [held EXCEPT ![m.id].cash = @ - free.cash,
                                ![m.id].qty = @ - free.qty,
                                ![m.id].short = @ - free.short]
        /\ taker' = [taker EXCEPT !.left = @ - n]
        /\ IF InBand(sym, m.price)
           THEN /\ Record(sym, b, s, m.price, n, buyerFee, sellerFee)
                /\ owner' = FilledOwner(m, n)
                /\ UNCHANGED <<pc, phase>>
           ELSE BandBreach(sym)

\* Who trades with whom, and who pays which fee: the taker and the owner of m.
FillParties(m, n, b, s, buyerFee, sellerFee) ==
    LET maker == MakerAccount(m.id)
        takerFee == FeeForNotional(fee, m.price * n, "taker")
        makerFee == FeeForNotional(fee, m.price * n, "maker")
    IN  IF taker.side = "Bid"
        THEN b = taker.acct /\ s = maker /\ buyerFee = takerFee /\ sellerFee = makerFee
        ELSE b = maker /\ s = taker.acct /\ buyerFee = makerFee /\ sellerFee = takerFee

LEMMA FillStep ==
    ASSUME EngineInv, ExecuteFill
    PROVE  \E m \in NextMaker(taker), n \in Nat \ {0}, b \in Accounts, s \in Accounts,
              buyerFee \in Int, sellerFee \in Int :
             /\ m \in book /\ m.sym = taker.sym /\ m.side = Opposite(taker.side)
             /\ Crosses(taker.side, taker.price, m.price)
             /\ n = FillQty(m, taker.left) /\ n <= Fillable(m) /\ n <= taker.left
             /\ FillParties(m, n, b, s, buyerFee, sellerFee)
             /\ FillEffect(m, n, b, s, buyerFee, sellerFee,
                    TradeRelease(m.id, Opposite(taker.side), n, OpenQty(m.id, n)))
<1>1. PICK m \in NextMaker(taker) :
        LET n == FillQty(m, taker.left)
            a == MakerAccount(m.id)
            b == IF taker.side = "Bid" THEN taker.acct ELSE a
            s == IF taker.side = "Bid" THEN a ELSE taker.acct
            takerFee == FeeForNotional(fee, m.price * n, "taker")
            makerFee == FeeForNotional(fee, m.price * n, "maker")
            buyerFee == IF taker.side = "Bid" THEN takerFee ELSE makerFee
            sellerFee == IF taker.side = "Bid" THEN makerFee ELSE takerFee
        IN  FillEffect(m, n, b, s, buyerFee, sellerFee,
                TradeRelease(m.id, Opposite(taker.side), n, OpenQty(m.id, n)))
  BY DEF ExecuteFill, FillEffect
<1>2. PICK n : n = FillQty(m, taker.left)
  OBVIOUS
<1>3. PICK a : a = MakerAccount(m.id)
  OBVIOUS
<1>4. PICK takerFee : takerFee = FeeForNotional(fee, m.price * n, "taker")
  OBVIOUS
<1>5. PICK makerFee : makerFee = FeeForNotional(fee, m.price * n, "maker")
  OBVIOUS
<1>6. /\ m \in book /\ m \in BookOrder /\ Shaped(m) /\ m.sym = taker.sym
      /\ m.side = Opposite(taker.side) /\ Crosses(taker.side, taker.price, m.price)
      /\ m.id \in OrderIds /\ m.price \in Int
  BY InvBook DEF NextMaker, Front, Resting, GoodBook, BookOrder
<1>7. taker \in TakerRecord /\ taker.left \in Nat \ {0} /\ taker.acct \in Accounts
  BY DEF EngineInv, TypeOK, TakerRecord, ExecuteFill, NextMaker
<1>8. n \in Nat \ {0} /\ n <= Fillable(m) /\ n <= taker.left
  BY <1>2, <1>6, <1>7, FillQtyBound
<1>9. a \in Accounts
  BY <1>3, <1>6, <1>8, MakerType DEF EngineInv
<1>10. takerFee \in Int /\ makerFee \in Int
  <2>1. m.price * n \in Int /\ fee \in Fees
    BY <1>6, <1>8 DEF EngineInv, TypeOK
  <2>. QED  BY <1>4, <1>5, <2>1, FeeType
<1>11. CASE taker.side = "Bid"
  <2>1. FillEffect(m, n, taker.acct, a, takerFee, makerFee,
            TradeRelease(m.id, Opposite(taker.side), n, OpenQty(m.id, n)))
    BY <1>1, <1>2, <1>3, <1>4, <1>5, <1>11
  <2>2. FillParties(m, n, taker.acct, a, takerFee, makerFee)
    BY <1>3, <1>4, <1>5, <1>11 DEF FillParties
  <2>. QED  BY <1>2, <1>6, <1>7, <1>8, <1>9, <1>10, <2>1, <2>2
<1>12. CASE taker.side # "Bid"
  <2>1. FillEffect(m, n, a, taker.acct, makerFee, takerFee,
            TradeRelease(m.id, Opposite(taker.side), n, OpenQty(m.id, n)))
    BY <1>1, <1>2, <1>3, <1>4, <1>5, <1>12
  <2>2. FillParties(m, n, a, taker.acct, makerFee, takerFee)
    BY <1>3, <1>4, <1>5, <1>12 DEF FillParties
  <2>. QED  BY <1>2, <1>6, <1>7, <1>8, <1>9, <1>10, <2>1, <2>2
<1>. QED  BY <1>11, <1>12

\* An auction trade of n: the orders it is sized with, those it fills, and how much.
AuctionEffect(n, bid, ask, b, s, buyerFee, sellerFee) ==
    LET sym == auction.sym
        fromBid == TradeRelease(bid.id, "Bid", n, OpenQty(bid.id, n))
        fromAsk == TradeRelease(ask.id, "Ask", n, OpenQty(ask.id, n))
    IN  /\ Settle(sym, b, s, auction.price, n, buyerFee, sellerFee)
        /\ Record(sym, b, s, auction.price, n, buyerFee, sellerFee)
        /\ reserved' = [reserved EXCEPT ![b].cash = @ - fromBid.cash,
                                        ![s].short = @ - fromAsk.short,
                                        ![s].qty[sym] = @ - fromAsk.qty]
        /\ held' = [held EXCEPT ![bid.id].cash = @ - fromBid.cash,
                                ![ask.id].qty = @ - fromAsk.qty,
                                ![ask.id].short = @ - fromAsk.short]
        /\ owner' = AuctionOwner(AuctionOwner(owner, bid.id, n), ask.id, n)
        /\ auction' = [auction EXCEPT !.left = @ - n]

\* What one side of an auction trade gives: all the trade asks for, or, if it is hidden,
\* all it has.
Gives(o, k, n) ==
    /\ k \in Nat \ {0} /\ k <= n /\ k <= Fillable(o)
    /\ k = n \/ (Remaining(o) = k /\ o.kind = "Hidden")

AuctionParties(n, bid, ask, b, s, buyerFee, sellerFee) ==
    /\ b = MakerAccount(bid.id) /\ s = MakerAccount(ask.id)
    /\ buyerFee = FeeForNotional(fee, auction.price * n, "taker")
    /\ sellerFee = FeeForNotional(fee, auction.price * n, "maker")

LEMMA AuctionStep ==
    ASSUME EngineInv, AuctionTrade
    PROVE  \E n \in Nat \ {0}, bid \in FillFront("Bid"), ask \in FillFront("Ask"),
              kb \in Nat \ {0}, ka \in Nat \ {0}, b \in Accounts, s \in Accounts,
              buyerFee \in Int, sellerFee \in Int :
             /\ n <= auction.left
             /\ bid \in book /\ bid.sym = auction.sym /\ bid.side = "Bid"
             /\ ask \in book /\ ask.sym = auction.sym /\ ask.side = "Ask"
             /\ Gives(bid, kb, n) /\ Gives(ask, ka, n)
             /\ (\E shown \in ShownFront("Bid") : n <= shown.qty)
             /\ (\E shown \in ShownFront("Ask") : n <= shown.qty)
             /\ GoodBook(AfterFill(book, bid, kb)) /\ ask \in AfterFill(book, bid, kb)
             /\ book' = AfterFill(AfterFill(book, bid, kb), ask, ka)
             /\ AuctionParties(n, bid, ask, b, s, buyerFee, sellerFee)
             /\ AuctionEffect(n, bid, ask, b, s, buyerFee, sellerFee)
<1>1. PICK sb \in ShownFront("Bid"), sa \in ShownFront("Ask"),
           bid \in FillFront("Bid"), ask \in FillFront("Ask") :
        LET n == Lesser(auction.left, Lesser(sb.qty, sa.qty))
        IN  /\ book' = AfterFill(AfterFill(book, bid, FillQty(bid, n)), ask, FillQty(ask, n))
            /\ AuctionEffect(n, bid, ask, MakerAccount(bid.id), MakerAccount(ask.id),
                   FeeForNotional(fee, auction.price * n, "taker"),
                   FeeForNotional(fee, auction.price * n, "maker"))
  BY DEF AuctionTrade, AuctionEffect
<1>2. PICK n : n = Lesser(auction.left, Lesser(sb.qty, sa.qty))
  OBVIOUS
<1>3. PICK b, s : b = MakerAccount(bid.id) /\ s = MakerAccount(ask.id)
  OBVIOUS
<1>4. PICK buyerFee, sellerFee :
        /\ buyerFee = FeeForNotional(fee, auction.price * n, "taker")
        /\ sellerFee = FeeForNotional(fee, auction.price * n, "maker")
  OBVIOUS
<1>5. PICK kb, ka : kb = FillQty(bid, n) /\ ka = FillQty(ask, n)
  OBVIOUS
<1>6. /\ bid \in book /\ bid \in BookOrder /\ Shaped(bid) /\ bid.side = "Bid"
      /\ ask \in book /\ ask \in BookOrder /\ Shaped(ask) /\ ask.side = "Ask"
      /\ bid.id \in OrderIds /\ ask.id \in OrderIds
      /\ bid.sym = auction.sym /\ ask.sym = auction.sym
  BY InvBook DEF FillFront, Front, Resting, GoodBook, BookOrder
<1>7. auction \in [sym : Symbols, price : Int, left : Int] /\ auction.left > 0
  BY DEF EngineInv, TypeOK, AuctionTrade, Uncrossable
<1>8. n \in Nat \ {0} /\ n <= auction.left /\ n <= sb.qty /\ n <= sa.qty
  <2>1. sb.qty \in Nat \ {0} /\ sa.qty \in Nat \ {0}
    BY ShownFrontQty DEF Sides
  <2>. QED  BY <1>2, <1>7, <2>1 DEF Lesser
<1>9. /\ kb \in Nat \ {0} /\ kb <= Fillable(bid)
      /\ kb = n \/ (Remaining(bid) = kb /\ bid.kind = "Hidden")
      /\ ka \in Nat \ {0} /\ ka <= Fillable(ask)
      /\ ka = n \/ (Remaining(ask) = ka /\ ask.kind = "Hidden")
      /\ kb <= n /\ ka <= n
  BY <1>5, <1>6, <1>8, FillQtyBound, AuctionFillQty DEF Sides
<1>10. GoodBook(AfterFill(book, bid, kb)) /\ ask \in AfterFill(book, bid, kb)
  BY <1>6, <1>9, InvBook, FillGood
<1>11. b \in Accounts /\ s \in Accounts
  BY <1>3, <1>6, <1>8, MakerType DEF EngineInv
<1>12. buyerFee \in Int /\ sellerFee \in Int
  <2>1. auction.price * n \in Int /\ fee \in Fees
    BY <1>7, <1>8 DEF EngineInv, TypeOK
  <2>. QED  BY <1>4, <2>1, FeeType
<1>13. /\ book' = AfterFill(AfterFill(book, bid, kb), ask, ka)
       /\ AuctionEffect(n, bid, ask, b, s, buyerFee, sellerFee)
  BY <1>1, <1>2, <1>3, <1>4, <1>5
<1>14. Gives(bid, kb, n) /\ Gives(ask, ka, n)
  BY <1>9 DEF Gives
<1>15. (\E shown \in ShownFront("Bid") : n <= shown.qty)
       /\ (\E shown \in ShownFront("Ask") : n <= shown.qty)
  BY <1>8
<1>16. AuctionParties(n, bid, ask, b, s, buyerFee, sellerFee)
  BY <1>3, <1>4 DEF AuctionParties
<1>. QED  BY <1>6, <1>8, <1>9, <1>10, <1>11, <1>12, <1>13, <1>14, <1>15, <1>16

\* The order that is to rest, as it is given to the book.
TakerOrder == [id |-> taker.id, sym |-> taker.sym, side |-> taker.side, price |-> taker.price,
               kind |-> taker.kind, qty |-> taker.left, clip |-> taker.clip]

LEMMA TakerOrderType ==
    ASSUME EngineInv, pc \in Placing
    PROVE  /\ TakerOrder \in [id : OrderIds, sym : Symbols, side : Sides, price : Int,
                              kind : Kinds, qty : Int, clip : Int]
           /\ \A p \in book : p.id # TakerOrder.id
           /\ taker \in TakerRecord /\ taker # NoTaker /\ taker.sym \in Symbols
           /\ taker.left \in Int /\ taker.price \in Int /\ taker.side \in Sides
<1>1. taker \in TakerRecord
  BY DEF EngineInv, TypeOK, Placing
<1>2. taker # NoTaker
  BY <1>1, AccountsAssumption DEF TakerRecord, NoTaker, OrderIds
<1>3. \A p \in book : p.id # taker.id
  BY DEF EngineInv, IdsFresh, Placing
<1>. QED  BY <1>1, <1>2, <1>3 DEF TakerOrder, TakerRecord

\* A cancel takes an order out, a fill or an auction trade reduces orders, and an order
\* that has been matched may rest; nothing else touches the book.
LEMMA BookMoves ==
    ASSUME EngineInv, [Next]_vars
    PROVE  \/ UNCHANGED book
           \/ pc = "idle" /\ \E o \in book : book' = Without(book, o)
           \/ ExecuteFill
           \/ AuctionTrade
           \/ FinishOrder /\ RemainderRests(taker) /\ book' = AddOrder(book, TakerOrder)
<1>1. CASE Submission
  BY <1>1 DEF Submission, SubmitOrder, SubmitMarket, SubmitStop
<1>2. CASE Amendment
  <2>1. ASSUME NEW a \in Accounts, NEW id \in OrderIds, NEW o \in InBook(id),
               Withdraw(a, id, o)
        PROVE  o \in book /\ book' = Without(book, o)
    BY <2>1 DEF InBook, Withdraw, CancelOrder
  <2>2. ASSUME NEW a \in Accounts, NEW id \in OrderIds, Cancel(a, id)
        PROVE  pc = "idle" /\ \E o \in book : book' = Without(book, o)
    BY <2>1, <2>2 DEF Cancel
  <2>3. ASSUME NEW a \in Accounts, NEW id \in OrderIds, NEW r \in Amendments, Replace(a, id, r)
        PROVE  UNCHANGED book \/ (pc = "idle" /\ \E o \in book : book' = Without(book, o))
    BY <2>1, <2>3 DEF Replace
  <2>. QED  BY <1>2, <2>2, <2>3 DEF Amendment, CancelStop, ReplaceStop
<1>3. CASE MarketControl
  BY <1>3 DEF MarketControl, StartUncross, HaltSymbol, ResumeSymbol, SetTradingPhase,
     SetPriceBands, ClearPriceBands, ChangePhase, ChangeBand
<1>4. CASE Setting
  BY <1>4 DEF Setting, SetFeeModel, SetAccountRiskConfig, SetAccountState
<1>5. CASE Internal
  <2>1. CASE FinishOrder
    BY <2>1 DEF FinishOrder, RestTaker, TakerOrder
  <2>. QED  BY <1>5, <2>1 DEF Internal, RefuseOrder, AdmitOrder, ScanStops, TriggerStop,
            EndPass, EndUncross
<1>6. CASE UNCHANGED vars
  BY <1>6 DEF vars
<1>. QED  BY <1>1, <1>2, <1>3, <1>4, <1>5, <1>6 DEF Next, Inspect

LEMMA QueuedNext ==
    ASSUME EngineInv, Queued(book), [Next]_vars
    PROVE  Queued(book')
<1>1. GoodBook(book)
  BY InvBook
<1>2. CASE UNCHANGED book
  BY <1>2
<1>3. CASE \E o \in book : book' = Without(book, o)
  BY <1>1, <1>3, WithoutQueued
<1>4. CASE ExecuteFill
  <2>1. PICK m \in NextMaker(taker), n \in Nat \ {0}, b \in Accounts, s \in Accounts,
             buyerFee \in Int, sellerFee \in Int :
          /\ m \in book /\ n <= Fillable(m)
          /\ FillEffect(m, n, b, s, buyerFee, sellerFee,
                 TradeRelease(m.id, Opposite(taker.side), n, OpenQty(m.id, n)))
    BY <1>4, FillStep
  <2>2. book' = AfterFill(book, m, n)
    BY <2>1 DEF FillEffect
  <2>. QED  BY <1>1, <2>1, <2>2, FillQueued
<1>5. CASE AuctionTrade
  <2>1. PICK n \in Nat \ {0}, bid \in FillFront("Bid"), ask \in FillFront("Ask"),
             kb \in Nat \ {0}, ka \in Nat \ {0} :
          /\ bid \in book /\ ask \in AfterFill(book, bid, kb)
          /\ Gives(bid, kb, n) /\ Gives(ask, ka, n)
          /\ book' = AfterFill(AfterFill(book, bid, kb), ask, ka)
    BY <1>5, AuctionStep
  <2>2. GoodBook(AfterFill(book, bid, kb)) /\ Queued(AfterFill(book, bid, kb))
    BY <1>1, <2>1, FillGood, FillQueued DEF Gives
  <2>. QED  BY <2>1, <2>2, FillQueued DEF Gives
<1>6. CASE FinishOrder /\ RemainderRests(taker) /\ book' = AddOrder(book, TakerOrder)
  <2>1. pc \in Placing
    BY <1>6 DEF FinishOrder, Placing
  <2>. QED  BY <1>1, <1>6, <2>1, TakerOrderType, AddQueued
<1>. QED  BY <1>2, <1>3, <1>4, <1>5, <1>6, BookMoves

-----------------------------------------------------------------------------
(* The order being placed.                                                 *)

\* The places a taker trades at.
Crossed(sym, side, limit) ==
    {<<sym, Opposite(side), p>> : p \in {q \in Int : Crosses(side, limit, q)}}

LEMMA ExecutableIsOpen ==
    ASSUME NEW B, GoodBook(B), NEW sym, NEW side, NEW limit
    PROVE  ExecutableQty(B, sym, side, limit) = OpenAt(B, Crossed(sym, side, limit))
<1>1. {o \in Resting(B, sym, Opposite(side)) : Crosses(side, limit, o.price)}
          = {o \in B : Place(o) \in Crossed(sym, side, limit)}
  BY DEF Resting, Place, Crossed, GoodBook, BookOrder
<1>. QED  BY <1>1 DEF ExecutableQty, OpenAt

\* An order that has something left to trade and something to trade it with has a next
\* maker: the front of the other side, which is at least as good as what crosses.
LEMMA MakerFound ==
    ASSUME EngineInv, Queued(book), pc \in Placing, taker.left > 0,
           NEW o \in book, o.sym = taker.sym, o.side = Opposite(taker.side),
           Crosses(taker.side, taker.price, o.price)
    PROVE  NextMaker(taker) # {}
<1>1. PICK R : R = Resting(book, taker.sym, Opposite(taker.side))
  OBVIOUS
<1>2. o \in R /\ R \in SUBSET book /\ \A p, q \in R : p.sym = q.sym /\ p.side = q.side
  BY <1>1 DEF Resting
<1>3. GoodBook(book)
  BY InvBook
<1>4. PICK m \in Front(R) : TRUE
  BY <1>2, <1>3, FrontExists
<1>5. m \in R /\ (m = o \/ Ahead(m, o))
  BY <1>2, <1>4 DEF Front
<1>6. m.price \in Int /\ o.price \in Int /\ m.side = Opposite(taker.side)
  BY <1>1, <1>3, <1>5 DEF GoodBook, BookOrder, Resting
<1>7. taker.price \in Int /\ taker.side \in Sides
  BY TakerOrderType
<1>8. Crosses(taker.side, taker.price, m.price)
  BY <1>5, <1>6, <1>7 DEF Ahead, Better, Crosses, Opposite, Sides
<1>. QED  BY <1>1, <1>4, <1>8 DEF NextMaker

\* What the steps of a call leave as they are.
LEMMA TakerKept ==
    ASSUME EngineInv, TakerInv, pc' \notin Placing, taker' = taker, pc \notin Placing
    PROVE  TakerInv'
BY DEF TakerInv, Placing

LEMMA TakerPlaced ==
    ASSUME pc' = "place"
    PROVE  TakerInv'
BY DEF TakerInv, Placing

LEMMA TakerDone ==
    ASSUME taker' = NoTaker, pc' = AfterOrder
    PROVE  TakerInv'
BY DEF TakerInv, Placing, AfterOrder

LEMMA AdmitTaker ==
    ASSUME EngineInv, TakerInv, AdmitOrder
    PROVE  TakerInv'
<1>1. /\ taker \in TakerRecord /\ taker.left \in Int /\ taker.price \in Int
      /\ taker.sym \in Symbols
  BY TakerOrderType DEF AdmitOrder, Placing
<1>2. ValidPrice(taker.price) /\ taker.left > 0 /\ phase[taker.sym] # "Halted"
  BY DEF AdmitOrder, WellFormed, ValidQty, Halted
<1>3. book' = book /\ phase' = phase /\ phase[taker.sym] \in Phases
  BY <1>1 DEF AdmitOrder, EngineInv, TypeOK, market
<1>4. CASE pc' = AfterOrder /\ taker' = NoTaker
  BY <1>4, TakerDone
<1>5. CASE pc' = "rest" /\ taker' = taker
  BY <1>1, <1>2, <1>5 DEF TakerInv, Placing
<1>6. CASE pc' = "match" /\ taker' = taker /\ phase[taker.sym] \notin AuctionPhases
           /\ ~Unfillable(taker)
  <2>1. phase[taker.sym] = "Continuous"
    BY <1>2, <1>3, <1>6 DEF Phases, AuctionPhases
  <2>2. ExecutableQty(book, taker.sym, taker.side, taker.price) \in Int
    BY ExecutableIsOpen, OpenAtType, InvBook
  <2>3. taker.tif = "FOK" =>
            ExecutableQty(book, taker.sym, taker.side, taker.price) >= taker.left
    BY <1>1, <1>6, <2>2 DEF Unfillable
  <2>4. phase'[taker'.sym] = "Continuous"
    BY <1>3, <1>6, <2>1
  <2>5. taker'.tif = "FOK" =>
            ExecutableQty(book', taker'.sym, taker'.side, taker'.price) >= taker'.left
    BY <1>3, <1>6, <2>3
  <2>. QED  BY <1>1, <1>2, <1>6, <2>4, <2>5 DEF TakerInv, Placing
<1>. QED  BY <1>4, <1>5, <1>6 DEF AdmitOrder

LEMMA FillTaker ==
    ASSUME EngineInv, TakerInv, ExecuteFill
    PROVE  TakerInv'
<1>1. PICK m \in NextMaker(taker), n \in Nat \ {0}, b \in Accounts, s \in Accounts,
           buyerFee \in Int, sellerFee \in Int :
             /\ m \in book /\ m.sym = taker.sym /\ m.side = Opposite(taker.side)
             /\ Crosses(taker.side, taker.price, m.price)
             /\ n <= Fillable(m) /\ n <= taker.left
             /\ FillEffect(m, n, b, s, buyerFee, sellerFee,
                    TradeRelease(m.id, Opposite(taker.side), n, OpenQty(m.id, n)))
  BY FillStep
<1>2. /\ taker \in TakerRecord /\ taker.left \in Int /\ taker.price \in Int
      /\ taker.sym \in Symbols /\ pc = "match"
  BY TakerOrderType DEF ExecuteFill, Placing
<1>3. /\ taker' = [taker EXCEPT !.left = @ - n] /\ book' = AfterFill(book, m, n)
      /\ (pc' = pc /\ phase' = phase) \/ pc' = "rest"
  BY <1>1 DEF FillEffect, BandBreach
<1>4. /\ taker'.left = taker.left - n /\ taker'.price = taker.price /\ taker'.sym = taker.sym
      /\ taker'.side = taker.side /\ taker'.tif = taker.tif
  BY <1>2, <1>3 DEF TakerRecord
<1>5. ValidPrice(taker.price) /\ phase[taker.sym] = "Continuous"
  BY <1>2 DEF TakerInv
<1>6. ValidPrice(taker'.price) /\ taker'.left >= 0
  BY <1>1, <1>2, <1>4, <1>5
<1>7. CASE pc' = "rest"
  BY <1>6, <1>7 DEF TakerInv, Placing
<1>8. CASE pc' = pc /\ phase' = phase
  <2>1. PICK K : K = Crossed(taker.sym, taker.side, taker.price)
    OBVIOUS
  <2>2. GoodBook(book) /\ GoodBook(book')
    BY <1>1, <1>3, InvBook, FillGood
  <2>3. Place(m) \in K
    BY <1>1, <2>1, <2>2 DEF Place, Crossed, GoodBook, BookOrder
  <2>4. OpenAt(book', K) = OpenAt(book, K) - n
    BY <1>1, <1>3, <2>2, <2>3, OpenAtFill
  <2>5. OpenAt(book, K) \in Nat
    BY <2>2, OpenAtType
  <2>6. ExecutableQty(book, taker.sym, taker.side, taker.price) = OpenAt(book, K)
    BY <2>1, <2>2, ExecutableIsOpen
  <2>7. ExecutableQty(book', taker'.sym, taker'.side, taker'.price) = OpenAt(book', K)
    BY <1>4, <2>1, <2>2, ExecutableIsOpen
  <2>8. taker.tif = "FOK" => OpenAt(book, K) >= taker.left
    BY <1>2, <2>6 DEF TakerInv
  <2>9. taker'.tif = "FOK" =>
            ExecutableQty(book', taker'.sym, taker'.side, taker'.price) >= taker'.left
    BY <1>2, <1>4, <2>4, <2>5, <2>7, <2>8
  <2>10. phase'[taker'.sym] = "Continuous"
    BY <1>4, <1>5, <1>8
  <2>. QED  BY <1>2, <1>6, <1>8, <2>9, <2>10 DEF TakerInv, Placing
<1>. QED  BY <1>3, <1>7, <1>8

LEMMA TakerNext ==
    ASSUME EngineInv, TakerInv, [Next]_vars
    PROVE  TakerInv'
<1>1. CASE Submission
  <2>1. ASSUME NEW r \in MarketRequests, SubmitMarket(r) PROVE TakerInv'
    <3>1. pc' = "place" \/ (pc' = "evaluate" /\ taker' = taker)
      BY <2>1 DEF SubmitMarket, PlaceMarket
    <3>. QED  BY <2>1, <3>1, TakerKept, TakerPlaced DEF SubmitMarket, Placing
  <2>2. ASSUME NEW r \in StopRequests, SubmitStop(r) PROVE TakerInv'
    BY <2>2, TakerKept DEF SubmitStop, Placing
  <2>. QED  BY <1>1, <2>1, <2>2, TakerPlaced DEF Submission, SubmitOrder
<1>2. CASE Amendment
  <2>1. \/ pc = "idle" /\ pc' \in {"idle", "evaluate"} /\ taker' = taker
        \/ pc' = "place"
    BY <1>2, ZenonT(30) DEF Amendment, CancelStop, Cancel, Replace, ReplaceStop, control
  <2>. QED  BY <2>1, TakerKept, TakerPlaced DEF Placing
<1>3. CASE MarketControl
  <2>1. pc = "idle" /\ pc' \in {"idle", "uncross"} /\ taker' = taker
    BY <1>3 DEF MarketControl, StartUncross, HaltSymbol, ResumeSymbol, SetTradingPhase,
       SetPriceBands, ClearPriceBands, ChangePhase, ChangeBand, control
  <2>. QED  BY <2>1, TakerKept DEF Placing
<1>4. CASE Setting
  <2>1. pc = "idle" /\ pc' = "idle" /\ taker' = taker
    BY <1>4 DEF Setting, SetFeeModel, SetAccountRiskConfig, SetAccountState, control
  <2>. QED  BY <2>1, TakerKept DEF Placing
<1>5. CASE Internal
  <2>1. CASE RefuseOrder \/ FinishOrder
    BY <2>1, TakerDone DEF RefuseOrder, FinishOrder, OrderDone
  <2>2. CASE ScanStops \/ EndPass \/ EndUncross \/ AuctionTrade
    <3>1. pc \notin Placing /\ pc' \notin Placing /\ taker' = taker
      BY <2>2 DEF ScanStops, EndPass, EndUncross, AuctionTrade, AfterPass, Placing
    <3>. QED  BY <3>1, TakerKept
  <2>3. CASE TriggerStop
    <3>1. pc = "stops" /\ (pc' = "place" \/ (pc' = "stops" /\ taker' = taker))
      BY <2>3 DEF TriggerStop, PlaceMarket
    <3>. QED  BY <3>1, TakerKept, TakerPlaced DEF Placing
  <2>. QED  BY <1>5, <2>1, <2>2, <2>3, AdmitTaker, FillTaker DEF Internal
<1>6. CASE UNCHANGED vars
  BY <1>6 DEF TakerInv, vars, control, market
<1>. QED  BY <1>1, <1>2, <1>3, <1>4, <1>5, <1>6 DEF Next, Inspect

\* The inductive invariant of the theorems on matching.
TradeInv == EngineInv /\ Queued(book) /\ TakerInv

LEMMA TradeInit == Init => TradeInv
BY InitInv DEF Init, TradeInv, TakerInv, Queued, Placing

LEMMA TradeNext == TradeInv /\ [Next]_vars => TradeInv'
<1>. SUFFICES ASSUME TradeInv, [Next]_vars PROVE TradeInv'
  OBVIOUS
<1>1. EngineInv'
  BY NextInv DEF TradeInv
<1>2. Queued(book')
  BY QueuedNext DEF TradeInv
<1>3. TakerInv'
  BY TakerNext DEF TradeInv
<1>4. (Queued(book))'
  BY <1>2 DEF Queued, Queue
<1>. QED  BY <1>1, <1>3, <1>4 DEF TradeInv

THEOREM TradeInvariant == Spec => []TradeInv
BY TradeInit, TradeNext, PTL DEF Spec

LEMMA FokHolds == TradeInv => FokAllOrNothing
<1>. SUFFICES ASSUME TradeInv, pc = "match", taker.tif = "FOK", taker.left > 0
             PROVE  NextMaker(taker) # {}
  BY DEF FokAllOrNothing
<1>1. EngineInv /\ Queued(book) /\ GoodBook(book) /\ pc \in Placing
  BY InvBook DEF TradeInv, Placing
<1>2. PICK K : K = Crossed(taker.sym, taker.side, taker.price)
  OBVIOUS
<1>3. OpenAt(book, K) >= taker.left
  BY <1>1, <1>2, ExecutableIsOpen DEF TradeInv, TakerInv
<1>4. taker.left \in Int /\ OpenAt(book, K) \in Nat
  BY <1>1, TakerOrderType, OpenAtType
<1>5. PICK o \in book : Place(o) \in K
  BY <1>3, <1>4, OpenAtSome
<1>6. o.sym = taker.sym /\ o.side = Opposite(taker.side) /\ Crosses(taker.side, taker.price, o.price)
  BY <1>2, <1>5 DEF Place, Crossed
<1>. QED  BY <1>1, <1>5, <1>6, MakerFound

\* A fill-or-kill order that was found fillable (executable_quantity, before the loop of
\* place_visible_order_with_account_and_id) always has a maker as long as something of
\* it is open: the hidden quantity and the icebergs that were counted are all found by
\* the loop, clip after clip, and nobody else trades in between.
THEOREM FokAlwaysFilled == Spec => []FokAllOrNothing
BY FokHolds, TradeInvariant, PTL

-----------------------------------------------------------------------------
(* Sessions without auctions and price bands.                              *)

LEMMA PhaseMoves ==
    ASSUME EngineInv, [Next]_vars
    PROVE  \/ UNCHANGED phase
           \/ \E sym \in Symbols, new \in {"Halted", "Continuous"} \cup PhaseChoices :
                  phase' = [phase EXCEPT ![sym] = new]
<1>1. CASE Submission
  BY <1>1 DEF Submission, SubmitOrder, SubmitMarket, SubmitStop, market
<1>2. CASE Amendment
  BY <1>2, ZenonT(30) DEF Amendment, CancelStop, Cancel, Replace, ReplaceStop, market
<1>3. CASE MarketControl
  <2>1. PICK sym \in Symbols :
        \/ StartUncross(sym) \/ HaltSymbol(sym) \/ ResumeSymbol(sym)
        \/ \E new \in PhaseChoices : SetTradingPhase(sym, new)
        \/ \E new \in BandChoices : SetPriceBands(sym, new)
        \/ ClearPriceBands(sym)
    BY <1>3 DEF MarketControl
  <2>2. CASE StartUncross(sym)
    <3>1. UNCHANGED phase \/ phase' = [phase EXCEPT ![sym] = "Halted"]
      BY <2>2 DEF StartUncross
    <3>. QED  BY <3>1
  <2>. QED  BY <2>1, <2>2 DEF HaltSymbol, ResumeSymbol, SetTradingPhase, SetPriceBands,
            ClearPriceBands, ChangePhase, ChangeBand
<1>4. CASE Setting
  BY <1>4 DEF Setting, SetFeeModel, SetAccountRiskConfig, SetAccountState, market
<1>5. CASE Internal
  <2>1. CASE ExecuteFill
    <3>1. PICK m \in NextMaker(taker), n \in Nat \ {0}, b \in Accounts, s \in Accounts,
               buyerFee \in Int, sellerFee \in Int :
                 FillEffect(m, n, b, s, buyerFee, sellerFee,
                    TradeRelease(m.id, Opposite(taker.side), n, OpenQty(m.id, n)))
      BY <2>1, FillStep
    <3>2. UNCHANGED phase \/ phase' = [phase EXCEPT ![taker.sym] = "Halted"]
      BY <3>1 DEF FillEffect, BandBreach
    <3>3. taker.sym \in Symbols
      BY <2>1, TakerOrderType DEF ExecuteFill, Placing
    <3>. QED  BY <3>2, <3>3
  <2>2. CASE EndUncross
    <3>1. auction.sym \in Symbols /\ phase \in [Symbols -> Phases]
      BY <2>2 DEF EngineInv, TypeOK, EndUncross
    <3>2. \/ phase' = [phase EXCEPT ![auction.sym] = "Continuous"]
          \/ phase' = [phase EXCEPT ![auction.sym] = phase[auction.sym]]
      BY <2>2 DEF EndUncross
    <3>3. [phase EXCEPT ![auction.sym] = phase[auction.sym]] = phase
      BY <3>1
    <3>. QED  BY <3>1, <3>2, <3>3
  <2>. QED  BY <1>5, <2>1, <2>2 DEF Internal, RefuseOrder, AdmitOrder, FinishOrder,
            ScanStops, TriggerStop, EndPass, AuctionTrade, market
<1>6. CASE UNCHANGED vars
  BY <1>6 DEF vars, market
<1>. QED  BY <1>1, <1>2, <1>3, <1>4, <1>5, <1>6 DEF Next, Inspect

LEMMA BandMoves ==
    ASSUME [Next]_vars, NoBands
    PROVE  UNCHANGED band \/ \E sym \in Symbols : band' = [band EXCEPT ![sym] = NoBand]
<1>1. CASE Submission
  BY <1>1 DEF Submission, SubmitOrder, SubmitMarket, SubmitStop, market
<1>2. CASE Amendment
  BY <1>2, ZenonT(30) DEF Amendment, CancelStop, Cancel, Replace, ReplaceStop, market
<1>3. CASE MarketControl
  BY <1>3 DEF MarketControl, StartUncross, HaltSymbol, ResumeSymbol, SetTradingPhase,
     SetPriceBands, ClearPriceBands, ChangePhase, ChangeBand, NoBands
<1>4. CASE Setting
  BY <1>4 DEF Setting, SetFeeModel, SetAccountRiskConfig, SetAccountState, market
<1>5. CASE Internal
  BY <1>5 DEF Internal, RefuseOrder, AdmitOrder, ExecuteFill, FinishOrder, ScanStops,
     TriggerStop, EndPass, AuctionTrade, EndUncross, market
<1>6. CASE UNCHANGED vars
  BY <1>6 DEF vars, market
<1>. QED  BY <1>1, <1>2, <1>3, <1>4, <1>5, <1>6 DEF Next, Inspect

\* Where an order is left to rest from: an auction, or the breach of a band.
LEMMA RestMoves ==
    ASSUME [Next]_vars, pc' = "rest", pc # "rest"
    PROVE  \/ AdmitOrder /\ phase[taker.sym] \in AuctionPhases
           \/ ExecuteFill
<1>1. CASE Submission
  BY <1>1 DEF Submission, SubmitOrder, SubmitMarket, PlaceMarket, SubmitStop
<1>2. CASE Amendment
  BY <1>2 DEF Amendment, CancelStop, Cancel, Replace, ReplaceStop, control
<1>3. CASE MarketControl
  BY <1>3 DEF MarketControl, StartUncross, HaltSymbol, ResumeSymbol, SetTradingPhase,
     SetPriceBands, ClearPriceBands, ChangePhase, ChangeBand, control
<1>4. CASE Setting
  BY <1>4 DEF Setting, SetFeeModel, SetAccountRiskConfig, SetAccountState, control
<1>5. CASE Internal
  BY <1>5 DEF Internal, RefuseOrder, AdmitOrder, FinishOrder, OrderDone, AfterOrder, ScanStops,
     TriggerStop, PlaceMarket, EndPass, AfterPass, AuctionTrade, EndUncross
<1>6. CASE UNCHANGED vars
  BY <1>6 DEF vars, control
<1>. QED  BY <1>1, <1>2, <1>3, <1>4, <1>5, <1>6 DEF Next, Inspect

NotCrossed(B) ==
    \A b, a \in B : b.sym = a.sym /\ b.side = "Bid" /\ a.side = "Ask" => b.price < a.price

\* Orders that were there before, moved or reduced, do not cross.
LEMMA LessNotCrossed ==
    ASSUME NEW B, NotCrossed(B), NEW C,
           \A x \in C : \E p \in B : x.sym = p.sym /\ x.side = p.side /\ x.price = p.price
    PROVE  NotCrossed(C)
BY DEF NotCrossed

\* What a fill leaves is where it was.
LEMMA FillPlaces ==
    ASSUME NEW B, GoodBook(B), NEW o \in B, NEW n \in Nat \ {0}, n <= Fillable(o)
    PROVE  \A x \in AfterFill(B, o, n) :
               \E p \in B : x.id = p.id /\ x.sym = p.sym /\ x.side = p.side /\ x.price = p.price
BY FillGood DEF Alike, LeftOf

\* The orders of the next book are those of this one, but for one that comes to rest.
LEMMA PlacesKept ==
    ASSUME EngineInv, [Next]_vars
    PROVE  \/ FinishOrder /\ RemainderRests(taker) /\ book' = AddOrder(book, TakerOrder)
           \/ \A x \in book' : \E p \in book :
                  x.id = p.id /\ x.sym = p.sym /\ x.side = p.side /\ x.price = p.price
<1>1. GoodBook(book)
  BY InvBook
<1>2. CASE UNCHANGED book
  BY <1>2
<1>3. CASE \E o \in book : book' = Without(book, o)
  BY <1>1, <1>3, WithoutGood DEF Alike
<1>4. CASE ExecuteFill
  <2>1. PICK m \in NextMaker(taker), n \in Nat \ {0}, b \in Accounts, s \in Accounts,
             buyerFee \in Int, sellerFee \in Int :
          /\ m \in book /\ n <= Fillable(m)
          /\ FillEffect(m, n, b, s, buyerFee, sellerFee,
                 TradeRelease(m.id, Opposite(taker.side), n, OpenQty(m.id, n)))
    BY <1>4, FillStep
  <2>2. book' = AfterFill(book, m, n)
    BY <2>1 DEF FillEffect
  <2>. QED  BY <1>1, <2>1, <2>2, FillPlaces
<1>5. CASE AuctionTrade
  <2>1. PICK n \in Nat \ {0}, bid \in FillFront("Bid"), ask \in FillFront("Ask"),
             kb \in Nat \ {0}, ka \in Nat \ {0} :
          /\ bid \in book /\ ask \in AfterFill(book, bid, kb)
          /\ Gives(bid, kb, n) /\ Gives(ask, ka, n)
          /\ book' = AfterFill(AfterFill(book, bid, kb), ask, ka)
    BY <1>5, AuctionStep
  <2>2. PICK C : C = AfterFill(book, bid, kb)
    OBVIOUS
  <2>3. GoodBook(C) /\ \A x \in C : \E p \in book :
                  x.id = p.id /\ x.sym = p.sym /\ x.side = p.side /\ x.price = p.price
    BY <1>1, <2>1, <2>2, FillGood, FillPlaces DEF Gives
  <2>4. \A x \in book' : \E p \in C :
                  x.id = p.id /\ x.sym = p.sym /\ x.side = p.side /\ x.price = p.price
    BY <2>1, <2>2, <2>3, FillPlaces DEF Gives
  <2>. QED  BY <2>3, <2>4
<1>. QED  BY <1>2, <1>3, <1>4, <1>5, BookMoves

\* An order that rests after it has been matched is crossed by nothing.
LEMMA RestNotCrossed ==
    ASSUME TradeInv, NotCrossed(book), pc = "match", FinishOrder, RemainderRests(taker),
           book' = AddOrder(book, TakerOrder)
    PROVE  NotCrossed(book')
<1>1. EngineInv /\ Queued(book) /\ GoodBook(book) /\ pc \in Placing
  BY InvBook DEF TradeInv, Placing
<1>2. taker.left > 0 /\ NextMaker(taker) = {}
  BY DEF FinishOrder, RemainderRests
<1>3. \A o \in book : o.sym = taker.sym /\ o.side = Opposite(taker.side) =>
          ~Crosses(taker.side, taker.price, o.price)
  BY <1>1, <1>2, MakerFound
<1>4. taker.side \in Sides /\ taker.price \in Int /\ \A o \in book : o.price \in Int
  BY <1>1, TakerOrderType DEF GoodBook, BookOrder
<1>5. \A x \in book' : x \in book \/
          (x.sym = taker.sym /\ x.side = taker.side /\ x.price = taker.price)
  <2>1. \A x \in AddOrder(book, TakerOrder) : x \in book \/
            (x.sym = TakerOrder.sym /\ x.side = TakerOrder.side /\ x.price = TakerOrder.price)
    BY <1>1, TakerOrderType, AddGood
  <2>. QED  BY <2>1 DEF TakerOrder
<1>6. \A o \in book : o.sym = taker.sym =>
          /\ taker.side = "Bid" /\ o.side = "Ask" => taker.price < o.price
          /\ taker.side = "Ask" /\ o.side = "Bid" => o.price < taker.price
  BY <1>3, <1>4 DEF Crosses, Opposite, Sides
<1>. QED  BY <1>5, <1>6 DEF NotCrossed

LEMMA ContinuousNext ==
    ASSUME NoAuctions, NoBands, TradeInv, ContinuousInv, [Next]_vars
    PROVE  ContinuousInv'
<1>1. EngineInv /\ NotCrossed(book)
  BY DEF TradeInv, ContinuousInv, NotCrossed
<1>2. phase \in [Symbols -> Phases] /\ band \in [Symbols -> [lower : Int, upper : Int]]
  BY <1>1 DEF EngineInv, TypeOK
<1>3. \A s \in Symbols : phase'[s] \notin AuctionPhases /\ band'[s] = NoBand
  <2>1. \A s \in Symbols : phase'[s] \notin AuctionPhases
    BY <1>1, <1>2, PhaseMoves DEF ContinuousInv, NoAuctions, AuctionPhases
  <2>2. \A s \in Symbols : band'[s] = NoBand
    BY <1>2, BandMoves DEF ContinuousInv
  <2>. QED  BY <2>1, <2>2
<1>4. pc' # "rest"
  <2>. SUFFICES ASSUME pc' = "rest" PROVE FALSE
    OBVIOUS
  <2>1. CASE AdmitOrder /\ phase[taker.sym] \in AuctionPhases
    BY <1>1, <2>1, TakerOrderType DEF AdmitOrder, ContinuousInv, Placing
  <2>2. CASE ExecuteFill
    <3>1. PICK m \in NextMaker(taker), n \in Nat \ {0}, b \in Accounts, s \in Accounts,
               buyerFee \in Int, sellerFee \in Int :
                 FillEffect(m, n, b, s, buyerFee, sellerFee,
                    TradeRelease(m.id, Opposite(taker.side), n, OpenQty(m.id, n)))
      BY <1>1, <2>2, FillStep
    <3>2. taker.sym \in Symbols /\ pc = "match"
      BY <1>1, <2>2, TakerOrderType DEF ExecuteFill, Placing
    <3>3. InBand(taker.sym, m.price)
      BY <3>2 DEF InBand, ContinuousInv
    <3>. QED  BY <3>1, <3>2, <3>3 DEF FillEffect
  <2>. QED  BY <2>1, <2>2, RestMoves DEF ContinuousInv
<1>5. NotCrossed(book')
  <2>1. CASE FinishOrder /\ RemainderRests(taker) /\ book' = AddOrder(book, TakerOrder)
    <3>1. pc = "match"
      BY <2>1 DEF FinishOrder, ContinuousInv
    <3>. QED  BY <1>1, <2>1, <3>1, RestNotCrossed
  <2>. QED  BY <1>1, <2>1, PlacesKept, LessNotCrossed
<1>. QED  BY <1>3, <1>4, <1>5 DEF ContinuousInv, NotCrossed

THEOREM ContinuousInvariant == ASSUME NoAuctions, NoBands PROVE Spec => []ContinuousInv
<1>1. Init => ContinuousInv
  BY DEF Init, ContinuousInv, AuctionPhases
<1>2. TradeInv /\ ContinuousInv /\ [Next]_vars => ContinuousInv'
  BY ContinuousNext
<1>. QED  BY <1>1, <1>2, TradeInvariant, PTL DEF Spec

\* In a session without auctions and price bands a continuously traded book is never
\* crossed between calls, whatever is placed, replaced, canceled or triggered: the
\* matching loop leaves nothing that crosses, hidden orders included.
THEOREM NeverCrossed == ASSUME NoAuctions, NoBands PROVE Spec => []Uncrossed
<1>1. ContinuousInv => Uncrossed
  BY DEF ContinuousInv, Uncrossed, Resting
<1>. QED  BY <1>1, ContinuousInvariant, PTL

\* In such a session nothing but a good-till-canceled order comes to rest.
THEOREM OnlyGtcRests == ASSUME NoAuctions, NoBands PROVE Spec => NeverRests
<1>1. ASSUME TradeInv, ContinuousInv, [Next]_vars, taker # NoTaker, taker.tif # "GTC"
      PROVE  \A o \in book' : o.id # taker.id
  <2>1. EngineInv /\ pc \in Placing
    BY <1>1 DEF TradeInv, TakerInv
  <2>2. \A p \in book : p.id # taker.id
    BY <2>1 DEF EngineInv, IdsFresh, Placing
  <2>3. CASE FinishOrder /\ RemainderRests(taker)
    <3>1. pc = "match" /\ NextMaker(taker) = {} /\ taker.left > 0
      BY <1>1, <2>3 DEF FinishOrder, ContinuousInv, RemainderRests
    <3>2. phase[taker.sym] \notin AuctionPhases
      BY <1>1, <2>1, TakerOrderType DEF ContinuousInv
    <3>3. taker.tif = "FOK"
      BY <1>1, <2>1, <2>3, <3>2, TakerOrderType DEF RemainderRests, TakerRecord, Tifs
    <3>. QED  BY <1>1, <3>1, <3>3, FokHolds DEF FokAllOrNothing
  <2>. QED  BY <1>1, <2>1, <2>2, <2>3, PlacesKept
<1>2. TradeInv /\ ContinuousInv /\ [Next]_vars =>
          [taker # NoTaker /\ taker.tif # "GTC" => \A o \in book' : o.id # taker.id]_vars
  BY <1>1
<1>. QED  BY <1>2, ContinuousInvariant, TradeInvariant, PTL DEF Spec, NeverRests

-----------------------------------------------------------------------------
(* Balances and the ledger.                                                *)

Others == Accounts \ {DefaultAccount}

LEMMA ToppedUpOthers ==
    ASSUME EngineInv, NEW a \in Others, NEW t \in Accounts, NEW sym
    PROVE  ToppedUpCash(t)[a] = cash[a] /\ ToppedUpPosition(t, sym)[a] = position[a]
BY DEF Others, ToppedUpCash, ToppedUpPosition, EngineInv, TypeOK

\* Only trades and set_account_state move the balances of the other accounts.
LEMMA FundMoves ==
    ASSUME EngineInv, [Next]_vars
    PROVE  \/ /\ UNCHANGED booked
              /\ \A a \in Others : cash'[a] = cash[a] /\ position'[a] = position[a]
           \/ ExecuteFill
           \/ AuctionTrade
           \/ StateChoices # {}
<1>1. CASE Submission
  <2>1. ASSUME NEW r \in StopRequests, SubmitStop(r)
        PROVE  /\ UNCHANGED booked
               /\ \A a \in Others : cash'[a] = cash[a] /\ position'[a] = position[a]
    <3>1. r.acct \in Accounts
      BY RequestsAssumption
    <3>2. /\ cash' = cash \/ cash' = ToppedUpCash(r.acct)
          /\ position' = position \/ position' = ToppedUpPosition(r.acct, r.sym)
      BY <2>1 DEF SubmitStop
    <3>. QED  BY <2>1, <3>1, <3>2, ToppedUpOthers DEF SubmitStop
  <2>. QED  BY <1>1, <2>1 DEF Submission, SubmitOrder, SubmitMarket, funds
<1>2. CASE Amendment
  <2>1. cash' = cash /\ position' = position /\ booked' = booked
    BY <1>2, ZenonT(30) DEF Amendment, CancelStop, Cancel, Replace, ReplaceStop, funds
  <2>. QED  BY <2>1
<1>3. CASE MarketControl
  BY <1>3 DEF MarketControl, StartUncross, HaltSymbol, ResumeSymbol, SetTradingPhase,
     SetPriceBands, ClearPriceBands, ChangePhase, ChangeBand, funds
<1>4. CASE Setting
  BY <1>4 DEF Setting, SetFeeModel, SetAccountRiskConfig, SetAccountState, funds
<1>5. CASE Internal
  <2>1. CASE RefuseOrder \/ AdmitOrder
    <3>1. taker.acct \in Accounts
      BY <2>1, TakerOrderType DEF RefuseOrder, AdmitOrder, Placing, TakerRecord
    <3>2. /\ cash' = cash \/ cash' = ToppedUpCash(taker.acct)
          /\ position' = position \/ position' = ToppedUpPosition(taker.acct, taker.sym)
          /\ UNCHANGED booked
      BY <2>1 DEF RefuseOrder, AdmitOrder
    <3>. QED  BY <3>1, <3>2, ToppedUpOthers
  <2>. QED  BY <1>5, <2>1 DEF Internal, FinishOrder, ScanStops, TriggerStop, EndPass,
            EndUncross, funds
<1>6. CASE UNCHANGED vars
  BY <1>6 DEF vars, funds
<1>. QED  BY <1>1, <1>2, <1>3, <1>4, <1>5, <1>6 DEF Next, Inspect

\* The ledger records of an account what the settlement does to it.
LEMMA SettledAsBooked ==
    ASSUME EngineInv, LedgerReconciles, NEW sym \in Symbols, NEW b \in Accounts, NEW s \in Accounts,
           NEW p \in Int, NEW n \in Int, NEW buyerFee \in Int, NEW sellerFee \in Int,
           Settle(sym, b, s, p, n, buyerFee, sellerFee),
           Record(sym, b, s, p, n, buyerFee, sellerFee)
    PROVE  LedgerReconciles'
<1>1. /\ cash \in [Accounts -> Int] /\ position \in [Accounts -> [Symbols -> Int]]
      /\ booked \in [Accounts -> [cash : Int, units : [Symbols -> Int]]]
  BY DEF EngineInv, TypeOK
<1>2. StartCash \in [Accounts -> Int] /\ StartPosition \in [Accounts -> [Symbols -> Int]]
  BY StartAssumption
<1>. SUFFICES ASSUME NEW a \in Accounts \ {DefaultAccount}
              PROVE  /\ cash'[a] = StartCash[a] + booked'[a].cash
                     /\ \A x \in Symbols : position'[a][x] = StartPosition[a][x] + booked'[a].units[x]
  BY DEF LedgerReconciles
<1>3. PICK flow \in Int : flow = CashFlow(a, b, s, p, n, buyerFee, sellerFee)
  BY FlowType
<1>4. PICK units \in Int : units = UnitFlow(a, b, s, n)
  BY FlowType
<1>5. /\ cash'[a] = cash[a] + flow
      /\ position'[a] = [position[a] EXCEPT ![sym] = @ + units]
  BY <1>3, <1>4 DEF Settle
<1>6. booked'[a] = [cash |-> booked[a].cash + flow,
                    units |-> [booked[a].units EXCEPT ![sym] = @ + units]]
  BY <1>3, <1>4 DEF Record
<1>7. /\ cash[a] = StartCash[a] + booked[a].cash
      /\ \A x \in Symbols : position[a][x] = StartPosition[a][x] + booked[a].units[x]
  BY DEF LedgerReconciles
<1>8. cash'[a] = StartCash[a] + booked'[a].cash
  BY <1>1, <1>2, <1>5, <1>6, <1>7
<1>9. ASSUME NEW x \in Symbols
      PROVE  position'[a][x] = StartPosition[a][x] + booked'[a].units[x]
  <2>1. /\ position[a] \in [Symbols -> Int] /\ booked[a].units \in [Symbols -> Int]
        /\ StartPosition[a][x] \in Int
    BY <1>1, <1>2
  <2>2. position'[a][x] = position[a][x] + (IF x = sym THEN units ELSE 0)
    BY <1>5, <2>1
  <2>3. booked'[a].units[x] = booked[a].units[x] + (IF x = sym THEN units ELSE 0)
    BY <1>6, <2>1
  <2>. QED  BY <1>7, <2>1, <2>2, <2>3
<1>. QED  BY <1>8, <1>9

LEMMA BandsStayOff ==
    ASSUME NoBands
    PROVE  Spec => [](\A s \in Symbols : band[s] = NoBand)
<1>. DEFINE Off == \A s \in Symbols : band[s] = NoBand
<1>1. Init => Off
  BY DEF Init
<1>2. TradeInv /\ Off /\ [Next]_vars => Off'
  BY BandMoves DEF TradeInv, EngineInv, TypeOK
<1>. QED  BY <1>1, <1>2, TradeInvariant, PTL DEF Spec

\* In a session without price bands, and in which nobody overwrites an account, the
\* ledger accounts for every balance (append_account_ledger_entry): what was settled for
\* an account, fees included, is what it started with and what was booked for it, in the
\* auction as in the matching loop.  The circuit breaker is the exception: it returns
\* after a settlement it does not record.
THEOREM LedgerAlwaysReconciles ==
    ASSUME NoBands, StateChoices = {} PROVE Spec => []LedgerReconciles
<1>1. Init => LedgerReconciles
  <2>. SUFFICES ASSUME Init PROVE LedgerReconciles
    OBVIOUS
  <2>1. StartCash \in [Accounts -> Int] /\ StartPosition \in [Accounts -> [Symbols -> Int]]
    BY StartAssumption
  <2>2. \A a \in Accounts : booked[a].cash = 0 /\ \A s \in Symbols : booked[a].units[s] = 0
    BY DEF Init
  <2>. QED  BY <2>1, <2>2 DEF Init, LedgerReconciles
<1>2. ASSUME EngineInv, \A s \in Symbols : band[s] = NoBand, LedgerReconciles, [Next]_vars
      PROVE  LedgerReconciles'
  <2>1. CASE /\ UNCHANGED booked
             /\ \A a \in Others : cash'[a] = cash[a] /\ position'[a] = position[a]
    BY <1>2, <2>1 DEF LedgerReconciles, Others
  <2>2. CASE ExecuteFill
    <3>1. PICK m \in NextMaker(taker), n \in Nat \ {0}, b \in Accounts, s \in Accounts,
               buyerFee \in Int, sellerFee \in Int :
            /\ m \in book
            /\ FillEffect(m, n, b, s, buyerFee, sellerFee,
                   TradeRelease(m.id, Opposite(taker.side), n, OpenQty(m.id, n)))
      BY <1>2, <2>2, FillStep
    <3>2. taker.sym \in Symbols /\ m.price \in Int
      BY <1>2, <2>2, <3>1, TakerOrderType, InvBook DEF ExecuteFill, Placing, GoodBook, BookOrder
    <3>3. InBand(taker.sym, m.price)
      BY <1>2, <3>2 DEF InBand
    <3>4. /\ Settle(taker.sym, b, s, m.price, n, buyerFee, sellerFee)
          /\ Record(taker.sym, b, s, m.price, n, buyerFee, sellerFee)
      BY <3>1, <3>3 DEF FillEffect
    <3>. QED  BY <1>2, <3>2, <3>4, SettledAsBooked
  <2>3. CASE AuctionTrade
    <3>1. PICK n \in Nat \ {0}, bid \in FillFront("Bid"), ask \in FillFront("Ask"),
               kb \in Nat \ {0}, ka \in Nat \ {0}, b \in Accounts, s \in Accounts,
               buyerFee \in Int, sellerFee \in Int :
            AuctionEffect(n, bid, ask, b, s, buyerFee, sellerFee)
      BY <1>2, <2>3, AuctionStep
    <3>2. auction.sym \in Symbols /\ auction.price \in Int
      BY <1>2, <2>3 DEF AuctionTrade, EngineInv, TypeOK
    <3>3. /\ Settle(auction.sym, b, s, auction.price, n, buyerFee, sellerFee)
          /\ Record(auction.sym, b, s, auction.price, n, buyerFee, sellerFee)
      BY <3>1 DEF AuctionEffect
    <3>. QED  BY <1>2, <3>2, <3>3, SettledAsBooked
  <2>. QED  BY <1>2, <2>1, <2>2, <2>3, FundMoves
<1>. QED  BY <1>1, <1>2, BandsStayOff, EngineInvariant, PTL DEF Spec

\* In a session in which nobody overwrites an account and no auction is uncrossed, no
\* units change hands in a halted symbol: a halt is found before an order is matched, and
\* the breach of a band ends the loop that made it.
THEOREM HaltStopsTrade ==
    ASSUME StateChoices = {}, "uncross" \notin Calls PROVE Spec => NoTradeWhileHalted
<1>. DEFINE Quiet == pc # "uncross"
<1>1. Init => Quiet
  BY DEF Init
<1>2. ASSUME Quiet, [Next]_vars PROVE Quiet'
  <2>1. CASE Submission
    BY <2>1 DEF Submission, SubmitOrder, SubmitMarket, PlaceMarket, SubmitStop
  <2>2. CASE Amendment
    BY <1>2, <2>2, ZenonT(30) DEF Amendment, CancelStop, Cancel, Replace, ReplaceStop, control
  <2>3. CASE MarketControl
    BY <1>2, <2>3 DEF MarketControl, StartUncross, HaltSymbol, ResumeSymbol, SetTradingPhase,
       SetPriceBands, ClearPriceBands, ChangePhase, ChangeBand, control
  <2>4. CASE Setting
    BY <1>2, <2>4 DEF Setting, SetFeeModel, SetAccountRiskConfig, SetAccountState, control
  <2>5. CASE Internal
    BY <1>2, <2>5 DEF Internal, RefuseOrder, AdmitOrder, ExecuteFill, BandBreach, FinishOrder,
       OrderDone, AfterOrder, ScanStops, TriggerStop, PlaceMarket, EndPass, AfterPass,
       AuctionTrade, EndUncross
  <2>6. CASE UNCHANGED vars
    BY <1>2, <2>6 DEF vars, control
  <2>. QED  BY <1>2, <2>1, <2>2, <2>3, <2>4, <2>5, <2>6 DEF Next, Inspect
<1>3. Spec => []Quiet
  BY <1>1, <1>2, PTL DEF Spec
<1>4. ASSUME TradeInv, Quiet, [Next]_vars, NEW s \in Symbols, Halted(s),
             NEW a \in Accounts, a # DefaultAccount
      PROVE  position'[a][s] = position[a][s]
  <2>1. EngineInv /\ TakerInv /\ a \in Others
    BY <1>4 DEF TradeInv, Others
  <2>2. CASE ExecuteFill
    <3>1. PICK m \in NextMaker(taker), n \in Nat \ {0}, b \in Accounts, q \in Accounts,
               buyerFee \in Int, sellerFee \in Int :
            FillEffect(m, n, b, q, buyerFee, sellerFee,
                   TradeRelease(m.id, Opposite(taker.side), n, OpenQty(m.id, n)))
      BY <2>1, <2>2, FillStep
    <3>2. pc = "match" /\ taker.sym # s
      BY <1>4, <2>1, <2>2 DEF ExecuteFill, TakerInv, Halted
    <3>3. position'[a] = [position[a] EXCEPT ![taker.sym] = @ + UnitFlow(a, b, q, n)]
      BY <3>1 DEF FillEffect, Settle
    <3>4. position[a] \in [Symbols -> Int]
      BY <2>1 DEF EngineInv, TypeOK
    <3>. QED  BY <3>2, <3>3, <3>4
  <2>3. ~AuctionTrade
    BY <1>4 DEF AuctionTrade
  <2>. QED  BY <1>4, <2>1, <2>2, <2>3, FundMoves
<1>5. TradeInv /\ Quiet /\ [Next]_vars =>
        [\A s \in Symbols : Halted(s) => \A a \in Accounts :
            position'[a][s] = position[a][s] \/ a = DefaultAccount]_vars
  BY <1>4
<1>. QED  BY <1>3, <1>5, TradeInvariant, PTL DEF Spec, NoTradeWhileHalted

-----------------------------------------------------------------------------
(* Stops.                                                                  *)

LEMMA CurrentKept ==
    ASSUME NEW st, Current(st), mark' = mark, Halted(st.sym) => Halted(st.sym)'
    PROVE  Current(st)'
BY DEF Current, Halted

LEMMA StopIds ==
    ASSUME EngineInv
    PROVE  nextId \in Int /\ \A x \in stops : x.id \in Int
<1>1. nextId \in Int
  BY DEF EngineInv, TypeOK
<1>2. \A x \in stops : x.id \in Int
  BY DEF EngineInv, TypeOK, StopRecord, OrderIds
<1>. QED  BY <1>1, <1>2

\* A call that is over in one step, and moves no price.
LEMMA StopsKept ==
    ASSUME EngineInv, StopsInv, stops' \subseteq stops, mark' = mark, nextId' = nextId,
           UNCHANGED control, \A s \in Symbols : Halted(s) => Halted(s)'
    PROVE  StopsInv'
<1>1. \A st \in stops' : Current(st) => Current(st)'
  BY CurrentKept DEF EngineInv, TypeOK, StopRecord
<1>. QED  BY <1>1 DEF StopsInv, InPass, control

\* A call that begins: its symbol is the one whose stops are looked at.
LEMMA StopsCalled ==
    ASSUME EngineInv, StopsInv, pc = "idle", mark' = mark, phase' = phase,
           \A x \in stops' : (x \in stops \/ x.sym = target') /\ x.id < nextId',
           \A x, y \in stops' : x.id = y.id => x = y,
           caller' = "client", pc' \in {"place", "evaluate"},
           pc' = "place" => taker'.sym = target'
    PROVE  StopsInv'
<1>1. \A st \in stops : Current(st)'
  BY CurrentKept DEF StopsInv, Halted
<1>. QED  BY <1>1 DEF StopsInv, InPass, Placing

LEMMA SubmissionStops ==
    ASSUME EngineInv, TakerInv, StopsInv, Submission
    PROVE  StopsInv'
<1>1. /\ \A x, y \in stops : x.id = y.id => x = y
      /\ \A x \in stops : x.id < nextId /\ x.id \in Int
      /\ nextId \in Int
  BY StopIds DEF StopsInv
<1>2. ASSUME NEW r \in OrderRequests, SubmitOrder(r) PROVE StopsInv'
  <2>1. nextId' = nextId + 1 /\ stops' = stops /\ target' = r.sym /\ taker'.sym = r.sym
    BY <1>2 DEF SubmitOrder, NewTaker
  <2>. QED  BY <1>1, <1>2, <2>1, StopsCalled DEF SubmitOrder, market
<1>3. ASSUME NEW r \in MarketRequests, SubmitMarket(r) PROVE StopsInv'
  <2>1. /\ nextId' = nextId + 1 /\ stops' = stops /\ target' = r.sym
        /\ pc' = "evaluate" \/ (pc' = "place" /\ taker'.sym = r.sym)
    BY <1>3 DEF SubmitMarket, PlaceMarket, NewTaker
  <2>. QED  BY <1>1, <1>3, <2>1, StopsCalled DEF SubmitMarket, market
<1>4. ASSUME NEW r \in StopRequests, SubmitStop(r) PROVE StopsInv'
  <2>1. PICK new : new = [id |-> nextId, acct |-> r.acct, sym |-> r.sym, side |-> r.side,
                          stop |-> r.stop, qty |-> r.qty, limit |-> r.limit]
    OBVIOUS
  <2>2. /\ nextId' = nextId + 1 /\ target' = r.sym
        /\ stops' = stops \/ stops' = stops \cup {new}
        /\ new.id = nextId /\ new.sym = r.sym
    BY <1>4, <2>1 DEF SubmitStop
  <2>3. /\ \A x \in stops' : (x \in stops \/ x.sym = target') /\ x.id < nextId'
        /\ \A x, y \in stops' : x.id = y.id => x = y
    BY <1>1, <2>2
  <2>4. /\ pc = "idle" /\ mark' = mark /\ phase' = phase /\ caller' = "client"
        /\ pc' = "evaluate"
    BY <1>4 DEF SubmitStop, market
  <2>. QED  BY <2>3, <2>4, StopsCalled
<1>. QED  BY <1>2, <1>3, <1>4 DEF Submission

LEMMA AmendmentStops ==
    ASSUME NoRestarts, EngineInv, StopsInv, Amendment
    PROVE  StopsInv'
<1>1. \A x \in stops : x.id < nextId /\ x.id \in Int
  BY StopIds DEF StopsInv
<1>2. CASE \E a \in Accounts, st \in stops : CancelStop(a, st)
  BY <1>2, StopsKept DEF CancelStop, market, Halted
<1>3. CASE \E a \in Accounts, id \in OrderIds : Cancel(a, id)
  <2>1. stops' = stops /\ mark' = mark /\ nextId' = nextId /\ UNCHANGED control /\ phase' = phase
    BY <1>3 DEF Cancel, market
  <2>. QED  BY <2>1, StopsKept DEF Halted
<1>4. ASSUME NEW a \in Accounts, NEW st \in stops, NEW r \in StopAmendments,
             ReplaceStop(a, st, r)
      PROVE  StopsInv'
  <2>1. PICK limit : stops' = (stops \ {st}) \cup
                         {[st EXCEPT !.stop = r.stop, !.qty = r.qty, !.limit = limit]}
    BY <1>4 DEF ReplaceStop
  <2>2. PICK new : new = [st EXCEPT !.stop = r.stop, !.qty = r.qty, !.limit = limit]
    OBVIOUS
  <2>3. new.id = st.id /\ new.sym = st.sym
    BY <2>2 DEF EngineInv, TypeOK, StopRecord
  <2>4. target' = st.sym /\ nextId' = nextId
    BY <1>4 DEF ReplaceStop
  <2>5. stops' = (stops \ {st}) \cup {new}
    BY <2>1, <2>2
  <2>6. /\ \A x \in stops' : (x \in stops \/ x.sym = target') /\ x.id < nextId'
        /\ \A x, y \in stops' : x.id = y.id => x = y
    BY <1>1, <2>3, <2>4, <2>5 DEF StopsInv
  <2>7. /\ pc = "idle" /\ mark' = mark /\ phase' = phase /\ caller' = "client"
        /\ pc' = "evaluate"
    BY <1>4 DEF ReplaceStop, market
  <2>. QED  BY <2>6, <2>7, StopsCalled
<1>. QED  BY <1>2, <1>3, <1>4 DEF Amendment, NoRestarts

LEMMA ControlStops ==
    ASSUME NoRestarts, EngineInv, StopsInv, MarketControl \/ Setting
    PROVE  StopsInv'
<1>1. CASE Setting
  <2>1. /\ stops' = stops /\ mark' = mark /\ nextId' = nextId /\ UNCHANGED control
        /\ phase' = phase
    BY <1>1 DEF Setting, SetFeeModel, SetAccountRiskConfig, SetAccountState, market
  <2>. QED  BY <2>1, StopsKept DEF Halted
<1>2. CASE MarketControl
  <2>1. PICK sym \in Symbols :
        \/ StartUncross(sym) \/ HaltSymbol(sym) \/ ResumeSymbol(sym)
        \/ \E new \in PhaseChoices : SetTradingPhase(sym, new)
        \/ \E new \in BandChoices : SetPriceBands(sym, new)
        \/ ClearPriceBands(sym)
    BY <1>2 DEF MarketControl
  <2>2. ~StartUncross(sym) /\ ~ResumeSymbol(sym) /\ \A new \in PhaseChoices : new = "Halted"
    BY DEF NoRestarts, StartUncross, ResumeSymbol
  <2>3. /\ stops' = stops /\ mark' = mark /\ nextId' = nextId /\ UNCHANGED control
        /\ phase' = phase \/ phase' = [phase EXCEPT ![sym] = "Halted"]
    BY <2>1, <2>2 DEF HaltSymbol, SetTradingPhase, SetPriceBands, ClearPriceBands,
       ChangePhase, ChangeBand
  <2>4. \A s \in Symbols : Halted(s) => Halted(s)'
    BY <2>3 DEF Halted, EngineInv, TypeOK
  <2>. QED  BY <2>3, <2>4, StopsKept
<1>. QED  BY <1>1, <1>2

\* The steps of placing an order without a trade.
LEMMA StopsWalk ==
    ASSUME EngineInv, StopsInv, pc \in Placing,
           UNCHANGED <<stops, mark, phase, nextId, caller, target, ready, cascade>>,
           pc' = AfterOrder \/ (pc' \in Placing /\ taker'.sym = taker.sym)
    PROVE  StopsInv'
<1>1. \A st \in stops : Current(st) => Current(st)'
  BY CurrentKept DEF Halted
<1>2. caller \in {"client", "stops"}
  BY DEF EngineInv, TypeOK, Callers, StopsInv
<1>3. InPass' => InPass
  BY <1>2 DEF InPass, AfterOrder, Placing
<1>. QED  BY <1>1, <1>2, <1>3 DEF StopsInv, AfterOrder, Placing

LEMMA FillStops ==
    ASSUME EngineInv, StopsInv, ExecuteFill
    PROVE  StopsInv'
<1>1. PICK m \in NextMaker(taker), n \in Nat \ {0}, b \in Accounts, s \in Accounts,
           buyerFee \in Int, sellerFee \in Int :
             FillEffect(m, n, b, s, buyerFee, sellerFee,
                    TradeRelease(m.id, Opposite(taker.side), n, OpenQty(m.id, n)))
  BY FillStep
<1>2. taker \in TakerRecord /\ taker.sym \in Symbols /\ pc \in Placing
  BY TakerOrderType DEF ExecuteFill, Placing
<1>3. /\ mark' = [mark EXCEPT ![taker.sym] = m.price]
      /\ phase' = phase \/ phase' = [phase EXCEPT ![taker.sym] = "Halted"]
      /\ taker' = [taker EXCEPT !.left = @ - n]
      /\ pc' = pc \/ pc' = "rest"
  BY <1>1 DEF FillEffect, Settle, BandBreach
<1>4. /\ stops' = stops /\ nextId' = nextId /\ caller' = caller /\ target' = target
      /\ ready' = ready /\ cascade' = (cascade \/ caller = "stops")
  BY DEF ExecuteFill
<1>5. taker.sym = target /\ taker'.sym = taker.sym
  BY <1>2, <1>3 DEF StopsInv, TakerRecord
<1>6. \A st \in stops : st.sym # target => Current(st)'
  BY <1>2, <1>3, <1>5 DEF StopsInv, Current, Halted, EngineInv, TypeOK, StopRecord
<1>7. pc' \in Placing
  BY <1>2, <1>3 DEF Placing
<1>8. InPass' => InPass /\ cascade'
  BY <1>2, <1>4, <1>7 DEF InPass, Placing
<1>. QED  BY <1>2, <1>4, <1>5, <1>6, <1>7, <1>8 DEF StopsInv, Placing

LEMMA ScanStopsStops ==
    ASSUME EngineInv, StopsInv, ScanStops
    PROVE  StopsInv'
<1>1. PICK price : price = TriggerPrice(target)
  OBVIOUS
<1>2. PICK hit : hit = IF price = NoPrice \/ (pc = "evaluate" /\ Halted(target)) THEN {}
                       ELSE {st.id : st \in {x \in stops : x.sym = target /\ Triggered(x, price)}}
  OBVIOUS
<1>3. /\ ready' = hit /\ pc' = (IF hit = {} THEN "idle" ELSE "stops")
      /\ caller' = "client" /\ cascade' = FALSE
      /\ stops' = stops /\ mark' = mark /\ phase' = phase /\ nextId' = nextId
      /\ target' = target
  BY <1>1, <1>2 DEF ScanStops, market
<1>4. \A st \in stops : st.sym = target /\ st.id \notin hit => Current(st)
  <2>. SUFFICES ASSUME NEW st \in stops, st.sym = target, st.id \notin hit,
                       mark[target] # NoPrice, ~Halted(target)
                PROVE  ~Triggered(st, mark[target])
    BY DEF Current
  <2>1. price = mark[target]
    BY <1>1 DEF TriggerPrice
  <2>. QED  BY <1>2, <2>1
<1>5. \A st \in stops : Current(st) => Current(st)'
  BY <1>3, CurrentKept DEF Halted
<1>6. \A st \in stops : st.id \in hit => st.sym = target
  BY <1>2 DEF StopsInv
<1>7. \A st \in stops : st.id \notin hit => Current(st)'
  BY <1>4, <1>5 DEF StopsInv
<1>. QED  BY <1>3, <1>5, <1>6, <1>7 DEF StopsInv, InPass, Placing

LEMMA TriggerStops ==
    ASSUME EngineInv, StopsInv, TriggerStop
    PROVE  StopsInv'
<1>1. PICK st \in stops :
        /\ st.id = Min(ready)
        /\ stops' = stops \ {st}
        /\ ready' = ready \ {st.id}
        /\ nextId' = nextId + 1
        /\ IF st.limit = NoPrice THEN PlaceMarket(nextId, st, "stops")
           ELSE /\ pc' = "place"
                /\ taker' = NewTaker(nextId, st, st.limit, "GTC", "Displayed", 0)
  BY DEF TriggerStop
<1>2. st.id \in ready
  <2>1. ready \in SUBSET Nat /\ ready # {}
    BY DEF EngineInv, TypeOK, TriggerStop, OrderIds
  <2>. QED  BY <1>1, <2>1, MinElement
<1>3. /\ pc = "stops" /\ caller' = "stops" /\ mark' = mark /\ phase' = phase
      /\ target' = target /\ cascade' = cascade
  BY DEF TriggerStop, market
<1>4. st.sym = target
  BY <1>2, <1>3 DEF StopsInv, InPass
<1>5. pc' = "stops" \/ (pc' = "place" /\ taker'.sym = target)
  BY <1>1, <1>4 DEF PlaceMarket, NewTaker
<1>6. \A x \in stops : Current(x) => Current(x)'
  BY <1>3, CurrentKept DEF Halted
<1>7. \A x \in stops' : x \in stops /\ x.id # st.id
  BY <1>1 DEF StopsInv
<1>8. \A x \in stops' : x.id < nextId'
  BY <1>1, <1>7, StopIds DEF StopsInv
<1>9. \A x \in stops' : x.id \in ready <=> x.id \in ready'
  BY <1>1, <1>7
<1>. QED  BY <1>3, <1>5, <1>6, <1>7, <1>8, <1>9 DEF StopsInv, InPass, Placing

LEMMA EndPassStops ==
    ASSUME EngineInv, StopsInv, EndPass
    PROVE  StopsInv'
<1>1. /\ pc = "stops" /\ ready = {} /\ pc' = (IF cascade THEN "scan" ELSE "idle")
      /\ stops' = stops /\ mark' = mark /\ phase' = phase /\ nextId' = nextId
      /\ target' = target
  BY DEF EndPass, AfterPass, market
<1>2. \A st \in stops : Current(st) => Current(st)'
  BY <1>1, CurrentKept DEF Halted
<1>. QED  BY <1>1, <1>2 DEF StopsInv, InPass, Placing

LEMMA StopsNext ==
    ASSUME NoRestarts, TradeInv, StopsInv, [Next]_vars
    PROVE  StopsInv'
<1>1. EngineInv /\ TakerInv
  BY DEF TradeInv
<1>2. CASE Submission
  BY <1>1, <1>2, SubmissionStops
<1>3. CASE Amendment
  BY <1>1, <1>3, AmendmentStops
<1>4. CASE MarketControl \/ Setting
  BY <1>1, <1>4, ControlStops
<1>5. CASE Internal
  <2>1. CASE RefuseOrder \/ FinishOrder
    <3>1. /\ pc \in Placing /\ pc' = AfterOrder
          /\ UNCHANGED <<stops, mark, phase, nextId, caller, target, ready, cascade>>
      BY <2>1 DEF RefuseOrder, FinishOrder, OrderDone, market, Placing
    <3>. QED  BY <1>1, <3>1, StopsWalk
  <2>2. CASE AdmitOrder
    <3>1. /\ pc \in Placing
          /\ pc' = AfterOrder \/ (pc' \in Placing /\ taker'.sym = taker.sym)
          /\ UNCHANGED <<stops, mark, phase, nextId, caller, target, ready, cascade>>
      BY <2>2 DEF AdmitOrder, market, Placing
    <3>. QED  BY <1>1, <3>1, StopsWalk
  <2>3. CASE AuctionTrade \/ EndUncross
    BY <2>3 DEF AuctionTrade, EndUncross, StopsInv
  <2>. QED  BY <1>1, <1>5, <2>1, <2>2, <2>3, FillStops, ScanStopsStops, TriggerStops,
            EndPassStops DEF Internal
<1>6. CASE UNCHANGED vars
  <2>1. /\ stops' = stops /\ mark' = mark /\ nextId' = nextId /\ UNCHANGED control
        /\ phase' = phase
    BY <1>6 DEF vars, market
  <2>. QED  BY <1>1, <2>1, StopsKept DEF Halted
<1>. QED  BY <1>2, <1>3, <1>4, <1>5, <1>6 DEF Next, Inspect

\* In a session in which an order is not replaced, no auction is uncrossed and a halt is
\* not lifted, no call leaves a stop behind: evaluate_stop_orders makes another pass as
\* long as a triggered stop has traded, and what it did not trigger in its last pass is
\* still on its side of the last price.
THEOREM StopsNeverLeftBehind == ASSUME NoRestarts PROVE Spec => []StopsCurrent
<1>1. Init => StopsInv
  BY DEF Init, StopsInv, InPass, Placing
<1>2. TradeInv /\ StopsInv /\ [Next]_vars => StopsInv'
  BY StopsNext
<1>3. StopsInv => StopsCurrent
  BY DEF StopsInv, StopsCurrent, Current
<1>. QED  BY <1>1, <1>2, <1>3, TradeInvariant, PTL DEF Spec

-----------------------------------------------------------------------------
(* The uncross.                                                            *)

\* The places of a side at a price or better for its counterpart.
AtOrBetter(sym, side, price) ==
    {<<sym, side, p>> : p \in {q \in Int : ~Better(side, price, q)}}

LEMMA DisplayedIsShown ==
    ASSUME NEW B, GoodBook(B), NEW sym, NEW side, NEW price
    PROVE  DisplayedAtOrBetter(B, sym, side, price) = ShownAt(B, AtOrBetter(sym, side, price))
<1>1. {o \in Resting(B, sym, side) : ~Better(side, price, o.price)}
          = {o \in B : Place(o) \in AtOrBetter(sym, side, price)}
  BY DEF Resting, Place, AtOrBetter, GoodBook, BookOrder
<1>. QED  BY <1>1 DEF DisplayedAtOrBetter, ShownAt

\* An auction trade of n takes at most n from what either side shows.
LEMMA TradeShown ==
    ASSUME NEW B, GoodBook(B), NEW o \in B, NEW n \in Nat \ {0}, NEW k, Gives(o, k, n),
           NEW sym, NEW side, NEW price
    PROVE  DisplayedAtOrBetter(AfterFill(B, o, k), sym, side, price)
               >= DisplayedAtOrBetter(B, sym, side, price) - (IF o.side = side THEN n ELSE 0)
<1>1. PICK K : K = AtOrBetter(sym, side, price)
  OBVIOUS
<1>2. k \in Nat \ {0} /\ k <= n /\ k <= Fillable(o)
  BY DEF Gives
<1>3. PICK C : C = AfterFill(B, o, k)
  OBVIOUS
<1>4. GoodBook(C)
  BY <1>2, <1>3, FillGood
<1>5. ShownAt(C, K) >= ShownAt(B, K) - (IF Place(o) \in K THEN k ELSE 0)
  BY <1>2, <1>3, ShownAtFill
<1>6. Place(o) \in K => o.side = side
  BY <1>1 DEF Place, AtOrBetter
<1>7. ShownAt(C, K) \in Nat /\ ShownAt(B, K) \in Nat
  BY <1>4, ShownAtType
<1>8. ShownAt(C, K) >= ShownAt(B, K) - (IF o.side = side THEN n ELSE 0)
  BY <1>2, <1>5, <1>6, <1>7
<1>. QED  BY <1>1, <1>3, <1>4, <1>8, DisplayedIsShown

LEMMA UncrossMoves ==
    ASSUME [Next]_vars, pc' = "uncross"
    PROVE  (\E sym \in Symbols : StartUncross(sym)) \/ AuctionTrade \/ UNCHANGED vars
<1>1. CASE Submission
  BY <1>1 DEF Submission, SubmitOrder, SubmitMarket, PlaceMarket, SubmitStop
<1>2. CASE Amendment
  BY <1>2 DEF Amendment, CancelStop, Cancel, Replace, ReplaceStop, control
<1>3. CASE MarketControl
  BY <1>3 DEF MarketControl, HaltSymbol, ResumeSymbol, SetTradingPhase,
     SetPriceBands, ClearPriceBands, ChangePhase, ChangeBand, control
<1>4. CASE Setting
  BY <1>4 DEF Setting, SetFeeModel, SetAccountRiskConfig, SetAccountState, control
<1>5. CASE Internal
  BY <1>5 DEF Internal, RefuseOrder, AdmitOrder, ExecuteFill, BandBreach, FinishOrder,
     OrderDone, AfterOrder, ScanStops, TriggerStop, PlaceMarket, EndPass, AfterPass, EndUncross
<1>. QED  BY <1>1, <1>2, <1>3, <1>4, <1>5 DEF Next, Inspect

LEMMA UncrossNext ==
    ASSUME TradeInv, UncrossInv, [Next]_vars
    PROVE  UncrossInv'
<1>1. EngineInv /\ GoodBook(book)
  BY InvBook DEF TradeInv
<1>2. ASSUME NEW sym \in Symbols, StartUncross(sym), pc' = "uncross" PROVE UncrossInv'
  <2>1. PICK p \in ClearingPrice(book, sym, mark[sym]) :
          auction' = [sym |-> sym, price |-> p, left |-> Matched(book, sym, p)]
    BY <1>2 DEF StartUncross
  <2>2. PICK x, y : /\ x = DisplayedAtOrBetter(book, sym, "Bid", p)
                    /\ y = DisplayedAtOrBetter(book, sym, "Ask", p)
    OBVIOUS
  <2>3. x \in Nat /\ y \in Nat
    BY <1>1, <2>2, DisplayedIsShown, ShownAtType
  <2>4. auction'.sym = sym /\ auction'.price = p /\ auction'.left = Lesser(x, y)
    BY <2>1, <2>2 DEF Matched
  <2>5. book' = book
    BY <1>2 DEF StartUncross
  <2>6. Lesser(x, y) \in Nat /\ x >= Lesser(x, y) /\ y >= Lesser(x, y)
    BY <2>3 DEF Lesser
  <2>. QED  BY <2>2, <2>4, <2>5, <2>6 DEF UncrossInv, Sides
<1>3. CASE AuctionTrade
  <2>1. PICK n \in Nat \ {0}, bid \in FillFront("Bid"), ask \in FillFront("Ask"),
             kb \in Nat \ {0}, ka \in Nat \ {0}, b \in Accounts, s \in Accounts,
             buyerFee \in Int, sellerFee \in Int :
             /\ n <= auction.left
             /\ bid \in book /\ bid.side = "Bid" /\ ask.side = "Ask"
             /\ Gives(bid, kb, n) /\ Gives(ask, ka, n)
             /\ GoodBook(AfterFill(book, bid, kb)) /\ ask \in AfterFill(book, bid, kb)
             /\ book' = AfterFill(AfterFill(book, bid, kb), ask, ka)
             /\ AuctionEffect(n, bid, ask, b, s, buyerFee, sellerFee)
    BY <1>1, <1>3, AuctionStep
  <2>2. auction \in [sym : Symbols, price : Int, left : Int] /\ pc = "uncross"
    BY <1>1, <1>3 DEF AuctionTrade, EngineInv, TypeOK
  <2>3. auction' = [auction EXCEPT !.left = @ - n]
    BY <2>1 DEF AuctionEffect
  <2>4. /\ auction'.sym = auction.sym /\ auction'.price = auction.price
        /\ auction'.left = auction.left - n
    BY <2>2, <2>3
  <2>5. PICK C : C = AfterFill(book, bid, kb)
    OBVIOUS
  <2>6. PICK D : D = AfterFill(C, ask, ka)
    OBVIOUS
  <2>7. book' = D /\ GoodBook(D)
    BY <2>1, <2>5, <2>6, FillGood DEF Gives
  <2>8. ASSUME NEW side \in Sides
        PROVE  DisplayedAtOrBetter(D, auction.sym, side, auction.price) >= auction.left - n
    <3>1. PICK x, y, z : /\ x = DisplayedAtOrBetter(book, auction.sym, side, auction.price)
                         /\ y = DisplayedAtOrBetter(C, auction.sym, side, auction.price)
                         /\ z = DisplayedAtOrBetter(D, auction.sym, side, auction.price)
      OBVIOUS
    <3>2. x \in Nat /\ y \in Nat /\ z \in Nat
      BY <1>1, <2>1, <2>5, <2>7, <3>1, DisplayedIsShown, ShownAtType
    <3>3. y >= x - (IF bid.side = side THEN n ELSE 0)
      BY <1>1, <2>1, <2>5, <3>1, TradeShown
    <3>4. z >= y - (IF ask.side = side THEN n ELSE 0)
      BY <2>1, <2>5, <2>6, <3>1, TradeShown
    <3>5. x >= auction.left
      BY <2>2, <3>1 DEF UncrossInv
    <3>. QED  BY <2>1, <2>2, <3>1, <3>2, <3>3, <3>4, <3>5 DEF Sides
  <2>9. auction.left - n >= 0
    BY <2>1, <2>2
  <2>. QED  BY <2>4, <2>7, <2>8, <2>9 DEF UncrossInv
<1>4. CASE UNCHANGED vars
  BY <1>4 DEF UncrossInv, vars, control
<1>5. CASE pc' # "uncross"
  BY <1>5 DEF UncrossInv
<1>. QED  BY <1>2, <1>3, <1>4, <1>5, UncrossMoves

\* What is on display at the price of the uncross, or better, has a front.
LEMMA ShownFound ==
    ASSUME EngineInv, Queued(book), NEW side \in Sides, auction.price \in Int,
           DisplayedAtOrBetter(book, auction.sym, side, auction.price) # 0
    PROVE  ShownFront(side) # {}
<1>1. GoodBook(book)
  BY InvBook
<1>2. PICK K : K = AtOrBetter(auction.sym, side, auction.price)
  OBVIOUS
<1>3. PICK o \in book : Place(o) \in K /\ o.qty > 0
  BY <1>1, <1>2, DisplayedIsShown, ShownAtSome
<1>4. PICK R : R = Resting(book, auction.sym, side)
  OBVIOUS
<1>5. PICK D : D = {r \in R : r.qty > 0}
  OBVIOUS
<1>6. /\ R \in SUBSET book
      /\ \A p \in R : p \in BookOrder /\ p.price \in Int /\ p.side = side /\ p.sym = auction.sym
  BY <1>1, <1>4 DEF Resting, GoodBook, BookOrder
<1>7. o \in D /\ ~Better(side, auction.price, o.price)
  BY <1>2, <1>3, <1>4, <1>5 DEF Place, AtOrBetter, Resting
<1>8. PICK prices : prices = DisplayedPrices(book, auction.sym, side)
  OBVIOUS
<1>9. prices = {d.price : d \in D}
  BY <1>4, <1>5, <1>8 DEF DisplayedPrices
<1>10. PICK d \in Front(D) : TRUE
  <2>1. D \in SUBSET book /\ D # {} /\ \A p, q \in D : p.sym = q.sym /\ p.side = q.side
    BY <1>5, <1>6, <1>7
  <2>. QED  BY <1>1, <2>1, FrontExists
<1>11. d \in D /\ \A p \in D : p = d \/ Ahead(d, p)
  BY <1>10 DEF Front
<1>12. \A q \in prices : ~Better(side, q, d.price)
  <2>1. ASSUME NEW p \in D PROVE ~Better(side, p.price, d.price)
    BY <1>5, <1>6, <1>11, <2>1 DEF Ahead, Better
  <2>. QED  BY <1>9, <2>1
<1>13. PICK top : top = TopLevel(book, auction.sym, side)
  OBVIOUS
<1>14. top = {p \in R : p.price \in prices /\ \A q \in prices : ~Better(side, q, p.price)}
  BY <1>4, <1>8, <1>13 DEF TopLevel
<1>15. d \in top
  BY <1>5, <1>9, <1>11, <1>12, <1>14
<1>16. PICK t \in Front(top) : TRUE
  <2>1. top \in SUBSET book /\ top # {} /\ \A p, q \in top : p.sym = q.sym /\ p.side = q.side
    BY <1>6, <1>14, <1>15
  <2>. QED  BY <1>1, <2>1, FrontExists
<1>17. t \in top
  BY <1>16 DEF Front
<1>18. ~Better(side, o.price, t.price) /\ t \in R /\ o \in R
  BY <1>5, <1>7, <1>9, <1>14, <1>17
<1>19. ~Better(side, auction.price, t.price)
  BY <1>6, <1>7, <1>18 DEF Better
<1>. QED  BY <1>13, <1>16, <1>19 DEF ShownFront

\* An uncross trades all it announced as executable, whatever rests at its price, icebergs
\* and hidden orders included: the trades are sized with what is on display, at most that
\* much is taken from it, and so the loop finds both fronts as long as something is left.
THEOREM UncrossAlwaysComplete == Spec => []UncrossComplete
<1>1. Init => UncrossInv
  BY DEF Init, UncrossInv
<1>2. TradeInv /\ UncrossInv /\ [Next]_vars => UncrossInv'
  BY UncrossNext
<1>3. TradeInv /\ UncrossInv => UncrossComplete
  <2>. SUFFICES ASSUME TradeInv, UncrossInv, pc = "uncross", ~Uncrossable, auction.left # 0
                PROVE  FALSE
    BY DEF UncrossComplete
  <2>1. /\ EngineInv /\ Queued(book) /\ GoodBook(book)
        /\ auction.left \in Int /\ auction.price \in Int
    BY InvBook DEF TradeInv, EngineInv, TypeOK
  <2>2. auction.left > 0
    BY <2>1 DEF UncrossInv
  <2>3. \A side \in Sides :
            DisplayedAtOrBetter(book, auction.sym, side, auction.price) \in Nat
    BY <2>1, DisplayedIsShown, ShownAtType
  <2>4. \A side \in Sides : ShownFront(side) # {}
    <3>1. \A side \in Sides :
            DisplayedAtOrBetter(book, auction.sym, side, auction.price) # 0
      BY <2>1, <2>2, <2>3 DEF UncrossInv
    <3>. QED  BY <2>1, <3>1, ShownFound
  <2>. QED  BY <2>2, <2>4 DEF Uncrossable, Sides
<1>. QED  BY <1>1, <1>2, <1>3, TradeInvariant, PTL DEF Spec
-----------------------------------------------------------------------------
(* The tables of orders: ownership and reserves.                           *)

\* Only a cancel, a trade and an order that comes to rest touch the tables.
LEMMA TableMoves ==
    ASSUME [Next]_vars
    PROVE  \/ UNCHANGED <<book, owner, held, reserved>>
           \/ \E a \in Accounts, id \in OrderIds : \E o \in InBook(id) :
                  pc = "idle" /\ owner[id] # NoOwner /\ owner[id].acct = a /\ Withdraw(a, id, o)
           \/ ExecuteFill
           \/ AuctionTrade
           \/ FinishOrder /\ RemainderRests(taker) /\ RestTaker
<1>1. CASE Submission
  BY <1>1 DEF Submission, SubmitOrder, SubmitMarket, SubmitStop, funds
<1>2. CASE Amendment
  <2>1. ASSUME NEW a \in Accounts, NEW st \in stops, CancelStop(a, st)
        PROVE  UNCHANGED <<book, owner, held, reserved>>
    BY <2>1 DEF CancelStop, funds
  <2>2. ASSUME NEW a \in Accounts, NEW st \in stops, NEW r \in StopAmendments,
               ReplaceStop(a, st, r)
        PROVE  UNCHANGED <<book, owner, held, reserved>>
    BY <2>2 DEF ReplaceStop, funds
  <2>3. ASSUME NEW a \in Accounts, NEW id \in OrderIds, NEW r \in Amendments, Replace(a, id, r)
        PROVE  \/ UNCHANGED <<book, owner, held, reserved>>
               \/ \E o \in InBook(id) :
                      pc = "idle" /\ owner[id] # NoOwner /\ owner[id].acct = a /\ Withdraw(a, id, o)
    BY <2>3 DEF Replace
  <2>. QED  BY <1>2, <2>1, <2>2, <2>3 DEF Amendment, Cancel
<1>3. CASE MarketControl
  BY <1>3 DEF MarketControl, StartUncross, HaltSymbol, ResumeSymbol, SetTradingPhase,
     SetPriceBands, ClearPriceBands, ChangePhase, ChangeBand, funds
<1>4. CASE Setting
  BY <1>4 DEF Setting, SetFeeModel, SetAccountRiskConfig, SetAccountState, funds
<1>5. CASE Internal
  BY <1>5 DEF Internal, RefuseOrder, AdmitOrder, FinishOrder, ScanStops, TriggerStop,
     EndPass, EndUncross, funds
<1>6. CASE UNCHANGED vars
  BY <1>6 DEF vars, funds
<1>. QED  BY <1>1, <1>2, <1>3, <1>4, <1>5, <1>6 DEF Next, Inspect

\* Where the order being placed comes from, and what happens to it.
LEMMA TakerMoves ==
    ASSUME EngineInv, [Next]_vars, pc' \in Placing
    PROVE  \/ /\ taker'.id = nextId /\ pc' = "place" /\ UNCHANGED <<book, owner, held, reserved>>
              /\ \/ taker'.kind = "Displayed"
                 \/ \E r \in OrderRequests : taker'.kind = r.kind /\ taker'.clip = r.clip
           \/ \E a \in Accounts, id \in OrderIds, r \in Amendments : Replace(a, id, r)
           \/ AdmitOrder /\ taker' = taker
           \/ ExecuteFill
           \/ UNCHANGED <<book, owner, held, reserved, pc, taker>>
<1>1. CASE Submission
  <2>1. ASSUME NEW r \in OrderRequests, SubmitOrder(r)
        PROVE  /\ taker'.id = nextId /\ pc' = "place" /\ UNCHANGED <<book, owner, held, reserved>>
               /\ taker'.kind = r.kind /\ taker'.clip = r.clip
    BY <2>1 DEF SubmitOrder, NewTaker, funds
  <2>2. ASSUME NEW r \in MarketRequests, SubmitMarket(r)
        PROVE  /\ taker'.id = nextId /\ pc' = "place" /\ UNCHANGED <<book, owner, held, reserved>>
               /\ taker'.kind = "Displayed"
    BY <2>2 DEF SubmitMarket, PlaceMarket, NewTaker, funds, Placing
  <2>. QED  BY <1>1, <2>1, <2>2 DEF Submission, SubmitStop, Placing
<1>2. CASE Amendment
  <2>1. ASSUME NEW a \in Accounts, NEW st \in stops, CancelStop(a, st)
        PROVE  pc' = "idle"
    BY <2>1 DEF CancelStop, control
  <2>2. ASSUME NEW a \in Accounts, NEW id \in OrderIds, Cancel(a, id)
        PROVE  pc' = "idle"
    BY <2>2 DEF Cancel, control
  <2>3. ASSUME NEW a \in Accounts, NEW st \in stops, NEW r \in StopAmendments,
               ReplaceStop(a, st, r)
        PROVE  pc' = "evaluate"
    BY <2>3, Zenon DEF ReplaceStop
  <2>. QED  BY <1>2, <2>1, <2>2, <2>3 DEF Amendment, Placing
<1>3. CASE MarketControl
  BY <1>3 DEF MarketControl, StartUncross, HaltSymbol, ResumeSymbol, SetTradingPhase,
     SetPriceBands, ClearPriceBands, ChangePhase, ChangeBand, control, Placing
<1>4. CASE Setting
  BY <1>4 DEF Setting, SetFeeModel, SetAccountRiskConfig, SetAccountState, control, Placing
<1>5. CASE Internal
  <2>1. CASE TriggerStop
    <3>1. PICK st \in stops :
            IF st.limit = NoPrice THEN PlaceMarket(nextId, st, "stops")
            ELSE /\ pc' = "place"
                 /\ taker' = NewTaker(nextId, st, st.limit, "GTC", "Displayed", 0)
      BY <2>1 DEF TriggerStop
    <3>. QED  BY <2>1, <3>1 DEF TriggerStop, PlaceMarket, NewTaker, funds, Placing
  <2>2. CASE AdmitOrder
    BY <2>2 DEF AdmitOrder, AfterOrder, Placing
  <2>. QED  BY <1>5, <2>1, <2>2 DEF Internal, RefuseOrder, FinishOrder, OrderDone, AfterOrder,
            ScanStops, EndPass, AfterPass, AuctionTrade, EndUncross, Placing
<1>6. CASE UNCHANGED vars
  BY <1>6 DEF vars, control, funds
<1>. QED  BY <1>1, <1>2, <1>3, <1>4, <1>5, <1>6 DEF Next, Inspect, vars, control, funds

LEMMA UncrossStarts ==
    ASSUME [Next]_vars, pc' = "uncross", pc # "uncross"
    PROVE  "uncross" \in Calls
<1>1. CASE Submission
  BY <1>1 DEF Submission, SubmitOrder, SubmitMarket, PlaceMarket, SubmitStop
<1>2. CASE Amendment
  BY <1>2, ZenonT(30) DEF Amendment, CancelStop, Cancel, Replace, ReplaceStop, control
<1>3. CASE MarketControl
  BY <1>3 DEF MarketControl, StartUncross, HaltSymbol, ResumeSymbol, SetTradingPhase,
     SetPriceBands, ClearPriceBands, ChangePhase, ChangeBand, control
<1>4. CASE Setting
  BY <1>4 DEF Setting, SetFeeModel, SetAccountRiskConfig, SetAccountState, control
<1>5. CASE Internal
  BY <1>5 DEF Internal, RefuseOrder, AdmitOrder, ExecuteFill, BandBreach, FinishOrder, OrderDone,
     AfterOrder, ScanStops, TriggerStop, PlaceMarket, EndPass, AfterPass, AuctionTrade, EndUncross
<1>6. CASE UNCHANGED vars
  BY <1>6 DEF vars, control
<1>. QED  BY <1>1, <1>2, <1>3, <1>4, <1>5, <1>6 DEF Next, Inspect, vars, control

-----------------------------------------------------------------------------
(* Ownership is exact.                                                     *)

\* Every order of the book is owned for exactly what is left of it.
Exact(O, B) == \A o \in B : O[o.id] # NoOwner /\ O[o.id].qty = Remaining(o)

LEMMA ExactAlike ==
    ASSUME NEW x, NEW p, Alike(x, p)
    PROVE  Remaining(x) = Remaining(p) /\ x.id = p.id /\ x.kind = p.kind
BY DEF Alike, Remaining

LEMMA OwnedRecord ==
    ASSUME NEW r \in OwnerRecord
    PROVE  r # NoOwner
<1>1. "sym" \in DOMAIN r /\ "sym" \notin DOMAIN NoOwner
  BY DEF OwnerRecord, NoOwner
<1>. QED  BY <1>1

\* A trade of n updates the record of its order as it updates the order.
LEMMA TradedRecord ==
    ASSUME NEW O \in [OrderIds -> OwnerRecord \cup {NoOwner}], NEW id \in OrderIds,
           O[id] # NoOwner, NEW n \in Int
    PROVE  /\ AuctionOwner(O, id, n) \in [OrderIds -> OwnerRecord \cup {NoOwner}]
           /\ \A i \in OrderIds \ {id} : AuctionOwner(O, id, n)[i] = O[i]
           /\ IF O[id].qty = n THEN AuctionOwner(O, id, n)[id] = NoOwner
              ELSE /\ AuctionOwner(O, id, n)[id] # NoOwner
                   /\ AuctionOwner(O, id, n)[id] \in OwnerRecord
                   /\ AuctionOwner(O, id, n)[id].qty = O[id].qty - n
                   /\ AuctionOwner(O, id, n)[id].acct = O[id].acct
                   /\ AuctionOwner(O, id, n)[id].sym = O[id].sym
                   /\ AuctionOwner(O, id, n)[id].side = O[id].side
                   /\ AuctionOwner(O, id, n)[id].price = O[id].price
                   /\ AuctionOwner(O, id, n)[id].kind = O[id].kind
<1>1. PICK r : r = [O[id] EXCEPT !.qty = O[id].qty - n]
  OBVIOUS
<1>2. /\ r \in OwnerRecord /\ r.qty = O[id].qty - n /\ r.acct = O[id].acct /\ r.sym = O[id].sym
      /\ r.side = O[id].side /\ r.price = O[id].price /\ r.kind = O[id].kind
  BY <1>1 DEF OwnerRecord
<1>3. r # NoOwner
  BY <1>2, OwnedRecord
<1>4. PICK P : P = AuctionOwner(O, id, n)
  OBVIOUS
<1>5. P = [O EXCEPT ![id] = IF O[id].qty = n THEN NoOwner ELSE r]
  BY <1>1, <1>4 DEF AuctionOwner
<1>6. P \in [OrderIds -> OwnerRecord \cup {NoOwner}]
  BY <1>2, <1>5
<1>7. /\ \A i \in OrderIds \ {id} : P[i] = O[i]
      /\ P[id] = IF O[id].qty = n THEN NoOwner ELSE r
  BY <1>5
<1>. QED  BY <1>2, <1>3, <1>4, <1>6, <1>7

LEMMA FillExact ==
    ASSUME NEW B, GoodBook(B), NEW O \in [OrderIds -> OwnerRecord \cup {NoOwner}],
           Exact(O, B), NEW o \in B, NEW n \in Nat \ {0}, n <= Fillable(o)
    PROVE  /\ Exact(AuctionOwner(O, o.id, n), AfterFill(B, o, n))
           /\ \A x \in AfterFill(B, o, n) : \E p \in B : p.id = x.id /\ p.kind = x.kind
           /\ \A i \in OrderIds : AuctionOwner(O, o.id, n)[i] # NoOwner =>
                 /\ O[i] # NoOwner /\ AuctionOwner(O, o.id, n)[i].kind = O[i].kind
                 /\ (\E p \in B : p.id = i) => \E x \in AfterFill(B, o, n) : x.id = i
<1>1. PICK P, C : P = AuctionOwner(O, o.id, n) /\ C = AfterFill(B, o, n)
  OBVIOUS
<1>2. o.id \in OrderIds /\ O[o.id] # NoOwner /\ O[o.id].qty = Remaining(o)
  BY DEF GoodBook, BookOrder, Exact
<1>3. /\ \A i \in OrderIds \ {o.id} : P[i] = O[i]
      /\ IF O[o.id].qty = n THEN P[o.id] = NoOwner
         ELSE P[o.id] # NoOwner /\ P[o.id].qty = O[o.id].qty - n /\ P[o.id].kind = O[o.id].kind
  BY <1>1, <1>2, TradedRecord
<1>4. \A x \in C : (\E p \in B \ {o} : Alike(x, p)) \/ LeftOf(x, o, n)
  BY <1>1, FillGood
<1>5. /\ \A p \in B \ {o} : \E x \in C : Alike(x, p)
      /\ IF Remaining(o) = n THEN \A x \in C : x.id # o.id ELSE \E x \in C : LeftOf(x, o, n)
  BY <1>1, FillAll
<1>6. \A p \in B \ {o} : p.id \in OrderIds \ {o.id}
  BY DEF GoodBook, Distinct, BookOrder
<1>7. ASSUME NEW x \in C
      PROVE  /\ P[x.id] # NoOwner /\ P[x.id].qty = Remaining(x)
             /\ \E p \in B : p.id = x.id /\ p.kind = x.kind
  <2>1. CASE \E p \in B \ {o} : Alike(x, p)
    <3>1. PICK p \in B \ {o} : Alike(x, p)
      BY <2>1
    <3>2. Remaining(x) = Remaining(p) /\ x.id = p.id /\ x.kind = p.kind
      BY <3>1, ExactAlike
    <3>3. O[p.id] # NoOwner /\ O[p.id].qty = Remaining(p)
      BY DEF Exact
    <3>. QED  BY <1>3, <1>6, <3>2, <3>3
  <2>2. CASE LeftOf(x, o, n)
    <3>1. x.id = o.id /\ x.kind = o.kind /\ Remaining(x) = Remaining(o) - n /\ Remaining(o) # n
      BY <1>5, <2>2 DEF LeftOf
    <3>. QED  BY <1>2, <1>3, <3>1
  <2>. QED  BY <1>4, <2>1, <2>2
<1>8. ASSUME NEW i \in OrderIds, P[i] # NoOwner
      PROVE  /\ O[i] # NoOwner /\ P[i].kind = O[i].kind
             /\ (\E p \in B : p.id = i) => \E x \in C : x.id = i
  <2>1. CASE i = o.id
    BY <1>2, <1>3, <1>5, <1>8, <2>1 DEF LeftOf
  <2>2. CASE i # o.id
    BY <1>3, <1>5, <1>8, <2>2 DEF Alike
  <2>. QED  BY <2>1, <2>2
<1>9. Exact(P, C)
  BY <1>7 DEF Exact
<1>. QED  BY <1>1, <1>7, <1>8, <1>9

\* ExecuteFill updates the record of an exactly owned maker just as an auction trade does.
LEMMA FilledSame ==
    ASSUME NEW m, NEW n, owner[m.id] # NoOwner, owner[m.id].qty = Remaining(m)
    PROVE  FilledOwner(m, n) = AuctionOwner(owner, m.id, n)
BY DEF FilledOwner, AuctionOwner

\* What is owned rests, but for what is left of an iceberg.
Rested(O, B) ==
    \A i \in OrderIds : O[i] # NoOwner =>
        (\E x \in B : x.id = i) \/ (O[i].kind = "Iceberg" /\ ~SmallClips)

\* No hidden order rests where there are auctions.
Plain(B) == "uncross" \in Calls => \A x \in B : x.kind # "Hidden"

Tables(O, B) == Exact(O, B) /\ Rested(O, B) /\ Plain(B)

LEMMA OwnersTables ==
    ASSUME EngineInv, OwnersInv
    PROVE  Tables(owner, book) /\ GoodBook(book)
BY InvBook DEF OwnersInv, Tables, Exact, Rested, Plain, Claims

LEMMA FillTables ==
    ASSUME NEW B, GoodBook(B), NEW O \in [OrderIds -> OwnerRecord \cup {NoOwner}],
           Tables(O, B), NEW o \in B, NEW n \in Nat \ {0}, n <= Fillable(o)
    PROVE  Tables(AuctionOwner(O, o.id, n), AfterFill(B, o, n))
<1>1. PICK P, C : P = AuctionOwner(O, o.id, n) /\ C = AfterFill(B, o, n)
  OBVIOUS
<1>2. /\ Exact(P, C) /\ \A x \in C : \E p \in B : p.id = x.id /\ p.kind = x.kind
      /\ \A i \in OrderIds : P[i] # NoOwner =>
            /\ O[i] # NoOwner /\ P[i].kind = O[i].kind
            /\ (\E p \in B : p.id = i) => \E x \in C : x.id = i
  BY <1>1, FillExact DEF Tables
<1>3. Rested(P, C)
  BY <1>2 DEF Tables, Rested
<1>4. Plain(C)
  BY <1>2 DEF Tables, Plain
<1>. QED  BY <1>1, <1>2, <1>3, <1>4 DEF Tables

LEMMA WithdrawTables ==
    ASSUME EngineInv, Tables(owner, book), NEW a \in Accounts, NEW id \in OrderIds,
           NEW o \in InBook(id), Withdraw(a, id, o)
    PROVE  Tables(owner', book')
<1>1. GoodBook(book) /\ o \in book /\ o.id = id /\ \A p \in book : p.id \in OrderIds
  BY InvBook DEF InBook, GoodBook, BookOrder
<1>2. book' = Without(book, o) /\ owner' = [owner EXCEPT ![id] = NoOwner]
  BY DEF Withdraw, CancelOrder
<1>3. owner'[id] = NoOwner /\ \A i \in OrderIds \ {id} : owner'[i] = owner[i]
  BY <1>2 DEF EngineInv, TypeOK
<1>4. ASSUME NEW x \in book'
      PROVE  \E p \in book : p.id = x.id /\ p.kind = x.kind /\ Remaining(x) = Remaining(p) /\ x.id # id
  <2>1. PICK p \in book \ {o} : Alike(x, p)
    BY <1>1, <1>2, WithoutGood
  <2>2. x.id # id
    BY <1>1, <1>2, WithoutGood
  <2>. QED  BY <2>1, <2>2, ExactAlike
<1>5. ASSUME NEW p \in book, p.id # id
      PROVE  \E x \in book' : x.id = p.id
  <2>1. Shifted(o, p) \in book' /\ Alike(Shifted(o, p), p)
    BY <1>1, <1>2, <1>5, WithoutAll
  <2>. QED  BY <2>1 DEF Alike
<1>6. Exact(owner', book')
  <2>1. ASSUME NEW x \in book'
        PROVE  owner'[x.id] # NoOwner /\ owner'[x.id].qty = Remaining(x)
    <3>1. PICK p \in book : p.id = x.id /\ Remaining(x) = Remaining(p) /\ x.id # id
      BY <1>4
    <3>2. owner[p.id] # NoOwner /\ owner[p.id].qty = Remaining(p)
      BY DEF Tables, Exact
    <3>. QED  BY <1>1, <1>3, <3>1, <3>2
  <2>. QED  BY <2>1 DEF Exact
<1>7. Rested(owner', book')
  BY <1>3, <1>5 DEF Tables, Rested
<1>8. Plain(book')
  BY <1>4 DEF Tables, Plain
<1>. QED  BY <1>6, <1>7, <1>8 DEF Tables

\* An order the book has no reason to refuse joins it.
LEMMA AddAll ==
    ASSUME NEW B, NEW o, ValidPrice(o.price), ValidQty(o.qty), \A p \in B : p.id # o.id,
           o.kind = "Iceberg" => ValidQty(o.clip) /\ ~(o.qty < o.clip)
    PROVE  \E x \in AddOrder(B, o) : x.id = o.id
<1>. DEFINE shown == CASE o.kind = "Displayed" -> o.qty
                       [] o.kind = "Iceberg" -> o.clip
                       [] OTHER -> 0
            new == [id |-> o.id, sym |-> o.sym, side |-> o.side, price |-> o.price,
                    kind |-> o.kind, qty |-> shown, reserve |-> o.qty - shown,
                    clip |-> o.clip, place |-> BackPlace(B, o)]
<1>1. AddOrder(B, o) = B \cup {new}
  BY DEF AddOrder
<1>2. new.id = o.id
  OBVIOUS
<1>3. new \in B \cup {new}
  OBVIOUS
<1>. HIDE DEF new
<1>. QED  BY <1>1, <1>2, <1>3

LEMMA RestTables ==
    ASSUME TradeInv, OwnersInv, FinishOrder, RemainderRests(taker), RestTaker
    PROVE  Tables(owner', book')
<1>1. GoodBook(book) /\ EngineInv /\ Tables(owner, book) /\ \A p \in book : p.id \in OrderIds
  BY OwnersTables, InvBook DEF TradeInv, GoodBook, BookOrder
<1>2. pc \in {"match", "rest"} /\ pc \in Placing
  BY DEF FinishOrder, Placing
<1>3. PICK t : t = TakerOrder
  OBVIOUS
<1>4. /\ t \in [id : OrderIds, sym : Symbols, side : Sides, price : Int, kind : Kinds,
                qty : Int, clip : Int]
      /\ \A p \in book : p.id # t.id
      /\ taker \in TakerRecord
  BY <1>1, <1>2, <1>3, TakerOrderType
<1>5. /\ t.id = taker.id /\ t.price = taker.price /\ t.kind = taker.kind /\ t.qty = taker.left
      /\ t.clip = taker.clip
  BY <1>3 DEF TakerOrder
<1>6. PICK record : record = [acct |-> taker.acct, sym |-> taker.sym, side |-> taker.side,
                              price |-> taker.price, qty |-> taker.left, kind |-> taker.kind]
  OBVIOUS
<1>7. record \in OwnerRecord /\ record # NoOwner /\ record.qty = t.qty /\ record.kind = t.kind
  <2>1. record \in OwnerRecord
    BY <1>4, <1>6 DEF TakerRecord, OwnerRecord
  <2>. QED  BY <1>5, <1>6, <2>1, OwnedRecord
<1>8. book' = AddOrder(book, t) /\ owner' = [owner EXCEPT ![t.id] = record]
  BY <1>3, <1>5, <1>6 DEF RestTaker, TakerOrder
<1>9. owner'[t.id] = record /\ \A i \in OrderIds \ {t.id} : owner'[i] = owner[i]
  BY <1>1, <1>4, <1>8 DEF EngineInv, TypeOK
<1>10. \A x \in book' : x \in book \/ (x.id = t.id /\ x.kind = t.kind /\ Remaining(x) = t.qty)
  BY <1>1, <1>4, <1>8, AddGood
<1>11. book \subseteq book'
  BY <1>8 DEF AddOrder
<1>12. ValidPrice(t.price) /\ ValidQty(t.qty)
  BY <1>2, <1>5 DEF TradeInv, TakerInv, RemainderRests, ValidQty
<1>13. t.kind = "Iceberg" => ValidQty(t.clip) /\ (SmallClips => t.clip <= 1)
  BY <1>2, <1>5 DEF OwnersInv, ValidQty
<1>14. ASSUME t.kind # "Iceberg" \/ SmallClips
       PROVE  \E x \in book' : x.id = t.id
  <2>1. t.qty \in Int /\ t.clip \in Int
    BY <1>4
  <2>2. t.kind = "Iceberg" => ~(t.qty < t.clip)
    BY <1>12, <1>13, <1>14, <2>1 DEF ValidQty
  <2>. QED  BY <1>4, <1>8, <1>12, <1>13, <2>2, AddAll
<1>15. Exact(owner', book')
  <2>1. ASSUME NEW x \in book'
        PROVE  owner'[x.id] # NoOwner /\ owner'[x.id].qty = Remaining(x)
    <3>1. CASE x \in book
      <4>1. x.id \in OrderIds \ {t.id} /\ owner[x.id] # NoOwner /\ owner[x.id].qty = Remaining(x)
        BY <1>1, <1>4, <3>1 DEF Tables, Exact
      <4>. QED  BY <1>9, <4>1
    <3>2. CASE x.id = t.id /\ x.kind = t.kind /\ Remaining(x) = t.qty
      BY <1>7, <1>9, <3>2
    <3>. QED  BY <1>10, <3>1, <3>2
  <2>. QED  BY <2>1 DEF Exact
<1>16. Rested(owner', book')
  <2>1. ASSUME NEW i \in OrderIds, owner'[i] # NoOwner
        PROVE  (\E x \in book' : x.id = i) \/ (owner'[i].kind = "Iceberg" /\ ~SmallClips)
    <3>1. CASE i = t.id
      BY <1>7, <1>9, <1>14, <3>1
    <3>2. CASE i # t.id
      <4>1. owner'[i] = owner[i]
        BY <1>9, <3>2
      <4>2. (\E x \in book : x.id = i) \/ (owner[i].kind = "Iceberg" /\ ~SmallClips)
        BY <1>1, <2>1, <4>1 DEF Tables, Rested
      <4>. QED  BY <1>11, <4>1, <4>2
    <3>. QED  BY <3>1, <3>2
  <2>. QED  BY <2>1 DEF Rested
<1>17. Plain(book')
  BY <1>1, <1>2, <1>5, <1>10 DEF Tables, Plain, OwnersInv
<1>. QED  BY <1>15, <1>16, <1>17 DEF Tables

LEMMA TablesNext ==
    ASSUME TradeInv, OwnersInv, [Next]_vars, NoBands
    PROVE  Tables(owner', book')
<1>1. EngineInv /\ Tables(owner, book) /\ GoodBook(book)
  BY OwnersTables DEF TradeInv
<1>2. owner \in [OrderIds -> OwnerRecord \cup {NoOwner}]
  BY <1>1 DEF EngineInv, TypeOK
<1>3. CASE UNCHANGED <<book, owner, held, reserved>>
  BY <1>1, <1>3
<1>4. CASE \E a \in Accounts, id \in OrderIds : \E o \in InBook(id) :
             pc = "idle" /\ owner[id] # NoOwner /\ owner[id].acct = a /\ Withdraw(a, id, o)
  BY <1>1, <1>4, WithdrawTables
<1>5. CASE ExecuteFill
  <2>1. PICK m \in NextMaker(taker), n \in Nat \ {0}, b \in Accounts, s \in Accounts,
             buyerFee \in Int, sellerFee \in Int :
          /\ m \in book /\ m.sym = taker.sym /\ n <= Fillable(m)
          /\ FillEffect(m, n, b, s, buyerFee, sellerFee,
                 TradeRelease(m.id, Opposite(taker.side), n, OpenQty(m.id, n)))
    BY <1>1, <1>5, FillStep
  <2>2. owner[m.id] # NoOwner /\ owner[m.id].qty = Remaining(m)
    BY <1>1, <2>1 DEF Tables, Exact
  <2>3. InBand(taker.sym, m.price)
    BY <1>1, <2>1 DEF OwnersInv, InBand, GoodBook, BookOrder
  <2>4. book' = AfterFill(book, m, n) /\ owner' = AuctionOwner(owner, m.id, n)
    BY <2>1, <2>2, <2>3, FilledSame DEF FillEffect
  <2>. QED  BY <1>1, <1>2, <2>1, <2>4, FillTables
<1>6. CASE AuctionTrade
  <2>1. PICK n \in Nat \ {0}, bid \in FillFront("Bid"), ask \in FillFront("Ask"),
             kb \in Nat \ {0}, ka \in Nat \ {0}, b \in Accounts, s \in Accounts,
             buyerFee \in Int, sellerFee \in Int :
          /\ bid \in book /\ ask \in book
          /\ Gives(bid, kb, n) /\ Gives(ask, ka, n)
          /\ GoodBook(AfterFill(book, bid, kb)) /\ ask \in AfterFill(book, bid, kb)
          /\ book' = AfterFill(AfterFill(book, bid, kb), ask, ka)
          /\ AuctionEffect(n, bid, ask, b, s, buyerFee, sellerFee)
    BY <1>1, <1>6, AuctionStep
  <2>2. bid.kind # "Hidden" /\ ask.kind # "Hidden"
    BY <2>1, <1>6 DEF OwnersInv, AuctionTrade
  <2>3. kb = n /\ ka = n /\ n <= Fillable(bid) /\ n <= Fillable(ask)
    BY <2>1, <2>2 DEF Gives
  <2>4. PICK B, O : B = AfterFill(book, bid, n) /\ O = AuctionOwner(owner, bid.id, n)
    OBVIOUS
  <2>5. Tables(O, B)
    BY <1>1, <1>2, <2>1, <2>3, <2>4, FillTables
  <2>6. O \in [OrderIds -> OwnerRecord \cup {NoOwner}]
    <3>1. bid.id \in OrderIds /\ owner[bid.id] # NoOwner
      BY <1>1, <2>1 DEF Tables, Exact, GoodBook, BookOrder
    <3>. QED  BY <1>2, <2>4, <3>1, TradedRecord
  <2>7. book' = AfterFill(B, ask, n) /\ owner' = AuctionOwner(O, ask.id, n)
    BY <2>1, <2>3, <2>4 DEF AuctionEffect
  <2>8. ask \in B /\ GoodBook(B)
    BY <2>1, <2>3, <2>4
  <2>. QED  BY <2>3, <2>5, <2>6, <2>7, <2>8, FillTables
<1>7. CASE FinishOrder /\ RemainderRests(taker) /\ RestTaker
  BY <1>7, RestTables
<1>. QED  BY <1>3, <1>4, <1>5, <1>6, <1>7, TableMoves

\* The order being placed is not owned, and keeps the features it was submitted with.
TakerUnowned ==
    /\ pc \in Placing => owner[taker.id] = NoOwner
    /\ pc \in Placing /\ taker.kind = "Iceberg" /\ SmallClips => taker.clip <= 1
    /\ pc \in {"match", "rest"} /\ taker.kind = "Iceberg" => taker.clip > 0
    /\ "uncross" \in Calls => (pc \in Placing => taker.kind # "Hidden")

LEMMA UnownedNext ==
    ASSUME TradeInv, OwnersInv, [Next]_vars, NoBands, PlainAuctions
    PROVE  TakerUnowned'
<1>1. EngineInv /\ TakerUnowned /\ EngineInv' /\ GoodBook(book)
  BY NextInv, InvBook DEF TradeInv, OwnersInv, TakerUnowned
<1>2. owner \in [OrderIds -> OwnerRecord \cup {NoOwner}]
  BY <1>1 DEF EngineInv, TypeOK
<1>3. SUFFICES ASSUME pc' \in Placing PROVE TakerUnowned'
  BY DEF TakerUnowned, Placing
<1>4. taker'.id \in OrderIds
  BY <1>1, <1>3 DEF EngineInv, TypeOK, TakerRecord, Placing
<1>5. CASE /\ taker'.id = nextId /\ pc' = "place" /\ UNCHANGED <<book, owner, held, reserved>>
           /\ \/ taker'.kind = "Displayed"
              \/ \E r \in OrderRequests : taker'.kind = r.kind /\ taker'.clip = r.clip
  <2>1. owner[nextId] = NoOwner
    BY <1>1, <1>4, <1>5 DEF EngineInv, IdsFresh, TypeOK
  <2>2. taker'.kind = "Iceberg" /\ SmallClips => taker'.clip <= 1
    BY <1>5 DEF SmallClips
  <2>3. "uncross" \in Calls => taker'.kind # "Hidden"
    BY <1>5 DEF PlainAuctions
  <2>. QED  BY <1>5, <2>1, <2>2, <2>3 DEF TakerUnowned
<1>6. ASSUME NEW a \in Accounts, NEW id \in OrderIds, NEW r \in Amendments, Replace(a, id, r)
      PROVE  TakerUnowned'
  <2>1. taker'.id = id /\ taker'.kind = "Displayed" /\ pc' = "place"
    BY <1>6 DEF Replace, NewTaker
  <2>2. owner[id] # NoOwner /\ owner[id].kind = "Displayed"
    BY <1>6 DEF Replace
  <2>3. PICK o \in book : o.id = id
    BY <2>2 DEF OwnersInv
  <2>4. o \in InBook(id)
    BY <2>3, <1>1, InvBook DEF InBook, Claims
  <2>5. \E x \in InBook(id) : Withdraw(a, id, x)
    BY <1>6, <2>4 DEF Replace
  <2>6. owner'[id] = NoOwner
    BY <1>2, <2>5 DEF Withdraw
  <2>. QED  BY <2>1, <2>6 DEF TakerUnowned
<1>7. CASE AdmitOrder /\ taker' = taker
  <2>1. pc = "place" /\ owner' = owner
    BY <1>7 DEF AdmitOrder
  <2>2. taker.kind = "Iceberg" => taker.clip > 0
    BY <1>7 DEF AdmitOrder, WellFormed, ValidQty
  <2>. QED  BY <1>1, <1>7, <2>1, <2>2 DEF TakerUnowned, Placing
<1>8. CASE ExecuteFill
  <2>1. PICK m \in NextMaker(taker), n \in Nat \ {0}, b \in Accounts, s \in Accounts,
             buyerFee \in Int, sellerFee \in Int :
          /\ m \in book
          /\ FillEffect(m, n, b, s, buyerFee, sellerFee,
                 TradeRelease(m.id, Opposite(taker.side), n, OpenQty(m.id, n)))
    BY <1>1, <1>8, FillStep
  <2>2. pc = "match" /\ taker \in TakerRecord
    BY <1>1, <1>8 DEF ExecuteFill, EngineInv, TypeOK
  <2>3. taker' = [taker EXCEPT !.left = @ - n] /\ (owner' = owner \/ owner' = FilledOwner(m, n))
    BY <2>1 DEF FillEffect, BandBreach
  <2>4. taker'.id = taker.id /\ taker'.kind = taker.kind /\ taker'.clip = taker.clip
    BY <2>2, <2>3 DEF TakerRecord
  <2>5. m.id # taker.id
    BY <1>1, <2>1, <2>2 DEF EngineInv, IdsFresh
  <2>6. taker.id \in OrderIds
    BY <2>2 DEF TakerRecord
  <2>7. owner'[taker.id] = owner[taker.id]
    BY <1>2, <2>3, <2>5, <2>6 DEF FilledOwner
  <2>. QED  BY <1>1, <2>2, <2>4, <2>7 DEF TakerUnowned, Placing
<1>9. CASE UNCHANGED <<book, owner, held, reserved, pc, taker>>
  BY <1>1, <1>9 DEF TakerUnowned
<1>. QED  BY <1>1, <1>3, <1>5, <1>6, <1>7, <1>8, <1>9, TakerMoves

LEMMA OwnersNext ==
    ASSUME TradeInv, OwnersInv, [Next]_vars, NoBands, PlainAuctions
    PROVE  OwnersInv'
<1>1. Tables(owner, book)' /\ TakerUnowned'
  BY TablesNext, UnownedNext DEF Tables, Exact, Rested, Plain
<1>2. \A s \in Symbols : band'[s] = NoBand
  BY BandMoves DEF OwnersInv, TradeInv, EngineInv, TypeOK
<1>3. "uncross" \notin Calls => pc' # "uncross"
  BY UncrossStarts DEF OwnersInv
<1>. QED  BY <1>1, <1>2, <1>3 DEF OwnersInv, Tables, Exact, Rested, Plain, TakerUnowned

\* The record of an order (order_ownership_by_id_) follows it: in a session without price
\* bands, and with no hidden order where there are auctions, every trade reduces the
\* record as it reduces the order.
THEOREM OwnersInvariant == ASSUME NoBands, PlainAuctions PROVE Spec => []OwnersInv
<1>1. Init => OwnersInv
  BY DEF Init, OwnersInv, Placing
<1>2. TradeInv /\ OwnersInv /\ [Next]_vars => OwnersInv'
  BY OwnersNext
<1>. QED  BY <1>1, <1>2, TradeInvariant, PTL DEF Spec

\* So cancel finds every order a client owns, and no record is left of an order that is
\* gone.  It takes that no iceberg can be left with less than its clip, which the book
\* refuses to rest although the engine records its owner.
THEOREM OwnersAlwaysRest ==
    ASSUME NoBands, PlainAuctions, SmallClips
    PROVE  Spec => []OwnersRest
<1>1. EngineInv /\ OwnersInv => OwnersRest
  <2>. SUFFICES ASSUME EngineInv, OwnersInv, NEW id \in OrderIds, owner[id] # NoOwner
                PROVE  \E o \in book : o.id = id /\ o.sym = owner[id].sym
                                       /\ Remaining(o) = owner[id].qty
    BY DEF OwnersRest
  <2>1. PICK o \in book : o.id = id
    BY DEF OwnersInv
  <2>. QED  BY <2>1, InvBook DEF OwnersInv, Claims
<1>2. TradeInv => EngineInv
  BY DEF TradeInv
<1>. QED  BY <1>1, <1>2, OwnersInvariant, TradeInvariant, PTL

-----------------------------------------------------------------------------
(* Division.                                                               *)

LEMMA QuotientBounds ==
    ASSUME NEW a \in Nat, NEW b \in Nat \ {0}, NEW d \in Int, d = a \div b
    PROVE  b * d <= a /\ a < b * d + b
OBVIOUS

LEMMA OneMore ==
    ASSUME NEW b \in Nat \ {0}, NEW d \in Int, NEW h \in Int, d >= h + 1
    PROVE  b * d >= b * h + b
OBVIOUS

LEMMA TimesNat == ASSUME NEW x \in Nat, NEW y \in Nat PROVE x * y \in Nat
OBVIOUS

LEMMA CeilDivNat ==
    ASSUME NEW a \in Nat, NEW b \in Nat \ {0}
    PROVE  CeilDiv(a, b) \in Nat
<1>1. PICK c \in Nat : c = a + b - 1
  OBVIOUS
<1>2. c \div b \in Nat
  OBVIOUS
<1>. QED  BY <1>1, <1>2 DEF CeilDiv

LEMMA CeilDivExact ==
    ASSUME NEW h \in Nat, NEW b \in Nat \ {0}
    PROVE  CeilDiv(h * b, b) = h
<1>1. PICK a \in Nat : a = h * b + b - 1
  OBVIOUS
<1>2. PICK d \in Int : d = a \div b
  OBVIOUS
<1>3. b * d <= a /\ a < b * d + b
  BY <1>2, QuotientBounds
<1>4. b * h = h * b
  OBVIOUS
<1>5. ~(d >= h + 1)
  <2>1. d >= h + 1 => b * d >= b * h + b
    BY OneMore
  <2>. QED  BY <1>1, <1>3, <1>4, <2>1
<1>6. ~(h >= d + 1)
  <2>1. h >= d + 1 => b * h >= b * d + b
    BY OneMore
  <2>. QED  BY <1>1, <1>3, <1>4, <2>1
<1>7. d = h
  BY <1>5, <1>6
<1>. QED  BY <1>1, <1>2, <1>7 DEF CeilDiv

\* A part of a reserve that is freed is not more than the reserve, and the last part
\* is all of it.
LEMMA PartFreed ==
    ASSUME NEW h \in Nat, NEW n \in Nat \ {0}, NEW before \in Nat \ {0}
    PROVE  /\ ProportionalRelease(h, n, before) \in Nat
           /\ ProportionalRelease(h, n, before) <= h
           /\ n = before => ProportionalRelease(h, n, before) = h
<1>1. h * n \in Nat
  BY TimesNat
<1>2. PICK share : share = CeilDiv(h * n, before)
  OBVIOUS
<1>3. share \in Nat
  BY <1>1, <1>2, CeilDivNat
<1>4. n = before => share = h
  BY <1>2, CeilDivExact
<1>5. ProportionalRelease(h, n, before) = IF h < share THEN h ELSE share
  BY <1>2 DEF ProportionalRelease
<1>. QED  BY <1>3, <1>4, <1>5

\* What a resting order blocks is not negative.
LEMMA FeeNat ==
    ASSUME NEW f \in Fees, NEW notional \in Nat, NEW role \in {"maker", "taker"}
    PROVE  FeeForNotional(f, notional, role) \in Nat
<1>1. f[role] \in Nat /\ f.fixed \in Nat
  BY DEF Fees
<1>2. notional * f[role] \in Nat
  BY <1>1, TimesNat
<1>3. PICK due \in Nat, unit \in Nat \ {0} :
          due = 2 * notional * f[role] + FeeUnit /\ unit = 2 * FeeUnit
  <2>1. 2 * notional * f[role] = 2 * (notional * f[role])
    BY <1>1
  <2>2. 2 * notional * f[role] + FeeUnit \in Nat /\ 2 * FeeUnit \in Nat \ {0}
    BY <1>2, <2>1, UnitsAssumption
  <2>. QED  BY <2>2
<1>4. due \div unit \in Nat
  OBVIOUS
<1>. QED  BY <1>1, <1>3, <1>4 DEF FeeForNotional

LEMMA ReserveNat ==
    ASSUME NEW config \in RiskConfig, NEW f \in Fees, NEW price \in Nat, NEW qty \in Int
    PROVE  /\ qty >= 0 => BuyReserve(config, f, price, qty) \in Nat
           /\ ShortReserve(config, price, qty) \in Nat
<1>1. config.initial \in Nat /\ config.onShort \in Nat
  BY DEF RiskConfig
<1>2. ASSUME qty >= 0
      PROVE  BuyReserve(config, f, price, qty) \in Nat
  <2>1. PICK notional \in Nat : notional = price * qty
    BY <1>2, TimesNat
  <2>2. WorstFee(f, notional) \in Nat
    BY FeeNat DEF WorstFee, AtLeast
  <2>3. PICK due \in Nat : due = price * qty + WorstFee(f, price * qty)
    BY <2>1, <2>2
  <2>4. due * config.initial \in Nat
    BY <1>1, TimesNat
  <2>5. CeilDiv(due * config.initial, RiskUnit) \in Nat
    BY <2>4, CeilDivNat, UnitsAssumption
  <2>6. BuyReserve(config, f, price, qty) =
            IF config.mode = "CashOnly" THEN due ELSE CeilDiv(due * config.initial, RiskUnit)
    BY <2>3 DEF BuyReserve
  <2>. QED  BY <2>5, <2>6
<1>3. ASSUME qty > 0
      PROVE  ShortReserve(config, price, qty) \in Nat
  <2>1. price * qty \in Nat
    BY <1>3, TimesNat
  <2>2. price * qty * config.onShort \in Nat
    BY <1>1, <2>1, TimesNat
  <2>. QED  BY <1>3, <2>2, CeilDivNat, UnitsAssumption DEF ShortReserve
<1>. QED  BY <1>2, <1>3 DEF ShortReserve

-----------------------------------------------------------------------------
(* Reserves and the sums of them.                                          *)

Field(H, x) == [id \in OrderIds |-> H[id][x]]
Mine(O, a) == {id \in OrderIds : O[id] # NoOwner /\ O[id].acct = a}
MineIn(O, a, s) == {id \in Mine(O, a) : O[id].sym = s}

\* The reserves R of the accounts are the reserves H of the orders they own, and an
\* order that is not owned holds nothing.
Backed(O, H, R) ==
    /\ \A id \in OrderIds : O[id] = NoOwner =>
           H[id].cash = 0 /\ H[id].qty = 0 /\ H[id].short = 0
    /\ \A a \in Accounts :
           /\ R[a].cash = SumFunctionOnSet(Field(H, "cash"), Mine(O, a))
           /\ R[a].short = SumFunctionOnSet(Field(H, "short"), Mine(O, a))
           /\ \A s \in Symbols : R[a].qty[s] = SumFunctionOnSet(Field(H, "qty"), MineIn(O, a, s))

\* Only the order id of account a and symbol sym changes, and with it the account.
Shift(O, H, R, P, G, Q, id, a, sym) ==
    /\ \A i \in OrderIds \ {id} : /\ P[i] = O[i] /\ G[i].cash = H[i].cash
                                  /\ G[i].qty = H[i].qty /\ G[i].short = H[i].short
    /\ O[id] # NoOwner => O[id].acct = a /\ O[id].sym = sym
    /\ P[id] # NoOwner => P[id].acct = a /\ P[id].sym = sym
    /\ \A i \in Accounts :
           /\ Q[i].cash = R[i].cash + (IF i = a THEN G[id].cash - H[id].cash ELSE 0)
           /\ Q[i].short = R[i].short + (IF i = a THEN G[id].short - H[id].short ELSE 0)
           /\ \A s \in Symbols : Q[i].qty[s] =
                  R[i].qty[s] + (IF i = a /\ s = sym THEN G[id].qty - H[id].qty ELSE 0)

\* When one summand changes, or comes, or goes, the sum follows.
LEMMA OneMoved ==
    ASSUME NEW f \in [OrderIds -> Int], NEW g \in [OrderIds -> Int],
           NEW S \in SUBSET OrderIds, NEW T \in SUBSET OrderIds, NEW id \in OrderIds,
           S \ {id} = T \ {id}, \A i \in OrderIds \ {id} : g[i] = f[i]
    PROVE  /\ SumFunctionOnSet(f, S) \in Int
           /\ SumFunctionOnSet(g, T) = SumFunctionOnSet(f, S)
                  - (IF id \in S THEN f[id] ELSE 0) + (IF id \in T THEN g[id] ELSE 0)
<1>1. IsFiniteSet(S) /\ IsFiniteSet(T)
  <2>1. IsFiniteSet(OrderIds)
    BY FS_Interval, AccountsAssumption DEF OrderIds
  <2>. QED  BY <2>1, FS_Subset
<1>2. PICK U : U = S \ {id}
  OBVIOUS
<1>3. IsFiniteSet(U) /\ U \subseteq OrderIds \ {id} /\ U = T \ {id}
  BY <1>1, <1>2, FS_Subset
<1>4. PICK u \in Int : u = SumFunctionOnSet(f, U)
  BY <1>3, SumType
<1>5. SumFunctionOnSet(g, U) = u
  BY <1>3, <1>4, SumSame
<1>6. SumFunctionOnSet(f, S) = u + (IF id \in S THEN f[id] ELSE 0)
  <2>1. CASE id \in S
    <3>1. SumFunctionOnSet(f, S) = f[id] + u
      BY <1>1, <1>2, <1>4, <2>1, SumRemove
    <3>. QED  BY <2>1, <3>1
  <2>2. CASE id \notin S
    <3>1. S = U
      BY <1>2, <2>2
    <3>. QED  BY <1>4, <2>2, <3>1
  <2>. QED  BY <2>1, <2>2
<1>7. SumFunctionOnSet(g, T) = u + (IF id \in T THEN g[id] ELSE 0)
  <2>1. CASE id \in T
    <3>1. SumFunctionOnSet(g, T) = g[id] + SumFunctionOnSet(g, T \ {id})
      BY <1>1, <2>1, SumRemove
    <3>. QED  BY <1>3, <1>5, <2>1, <3>1
  <2>2. CASE id \notin T
    <3>1. T = U
      BY <1>3, <2>2
    <3>. QED  BY <1>5, <2>2, <3>1
  <2>. QED  BY <2>1, <2>2
<1>. QED  BY <1>6, <1>7

LEMMA ShiftBacked ==
    ASSUME NEW O, NEW P, NEW H \in [OrderIds -> Reserve], NEW G \in [OrderIds -> Reserve],
           NEW R, NEW Q, NEW id \in OrderIds, NEW a, NEW sym,
           Backed(O, H, R), Shift(O, H, R, P, G, Q, id, a, sym),
           P[id] = NoOwner => G[id].cash = 0 /\ G[id].qty = 0 /\ G[id].short = 0
    PROVE  Backed(P, G, Q)
<1>1. \A x \in {"cash", "qty", "short"} : /\ Field(H, x) \in [OrderIds -> Int]
                                          /\ Field(G, x) \in [OrderIds -> Int]
  BY DEF Field, Reserve
<1>2. \A x, i : i \in OrderIds => Field(H, x)[i] = H[i][x] /\ Field(G, x)[i] = G[i][x]
  BY DEF Field
<1>3. \A i \in OrderIds \ {id} : /\ P[i] = O[i] /\ G[i].cash = H[i].cash
                                 /\ G[i].qty = H[i].qty /\ G[i].short = H[i].short
  BY DEF Shift
<1>4. \A i \in OrderIds : P[i] = NoOwner => G[i].cash = 0 /\ G[i].qty = 0 /\ G[i].short = 0
  BY <1>3 DEF Backed
<1>5. ASSUME NEW S \in SUBSET OrderIds, NEW T \in SUBSET OrderIds, S \ {id} = T \ {id},
             NEW x \in {"cash", "qty", "short"},
             id \notin S => H[id][x] = 0 , id \notin T => G[id][x] = 0
      PROVE  /\ SumFunctionOnSet(Field(H, x), S) \in Int
             /\ SumFunctionOnSet(Field(G, x), T) =
                    SumFunctionOnSet(Field(H, x), S) + (G[id][x] - H[id][x])
  <2>1. PICK f \in [OrderIds -> Int], g \in [OrderIds -> Int] : f = Field(H, x) /\ g = Field(G, x)
    BY <1>1
  <2>2. f[id] = H[id][x] /\ g[id] = G[id][x] /\ \A i \in OrderIds \ {id} : g[i] = f[i]
    BY <1>2, <1>3, <2>1
  <2>3. /\ SumFunctionOnSet(f, S) \in Int
        /\ SumFunctionOnSet(g, T) = SumFunctionOnSet(f, S)
               - (IF id \in S THEN f[id] ELSE 0) + (IF id \in T THEN g[id] ELSE 0)
    BY <1>5, <2>2, OneMoved
  <2>4. f[id] \in Int /\ g[id] \in Int
    OBVIOUS
  <2>. QED  BY <1>5, <2>1, <2>2, <2>3, <2>4
<1>6. ASSUME NEW S \in SUBSET OrderIds, id \notin S, NEW x \in {"cash", "qty", "short"}
      PROVE  /\ SumFunctionOnSet(Field(H, x), S) \in Int
             /\ SumFunctionOnSet(Field(G, x), S) = SumFunctionOnSet(Field(H, x), S)
  <2>1. PICK f \in [OrderIds -> Int], g \in [OrderIds -> Int] : f = Field(H, x) /\ g = Field(G, x)
    BY <1>1
  <2>2. \A i \in OrderIds \ {id} : g[i] = f[i]
    BY <1>2, <1>3, <2>1
  <2>3. /\ SumFunctionOnSet(f, S) \in Int
        /\ SumFunctionOnSet(g, S) = SumFunctionOnSet(f, S)
               - (IF id \in S THEN f[id] ELSE 0) + (IF id \in S THEN g[id] ELSE 0)
    BY <2>2, OneMoved
  <2>. QED  BY <1>6, <2>1, <2>3
<1>7. ASSUME NEW i \in Accounts
      PROVE  /\ Mine(O, i) \in SUBSET OrderIds /\ Mine(P, i) \in SUBSET OrderIds
             /\ Mine(O, i) \ {id} = Mine(P, i) \ {id}
             /\ \A s \in Symbols : /\ MineIn(O, i, s) \in SUBSET OrderIds
                                   /\ MineIn(P, i, s) \in SUBSET OrderIds
                                   /\ MineIn(O, i, s) \ {id} = MineIn(P, i, s) \ {id}
  BY <1>3 DEF Mine, MineIn
<1>8. ASSUME NEW i \in Accounts, i = a
      PROVE  /\ id \notin Mine(O, i) => O[id] = NoOwner
             /\ id \notin Mine(P, i) => P[id] = NoOwner
             /\ id \notin MineIn(O, i, sym) => O[id] = NoOwner
             /\ id \notin MineIn(P, i, sym) => P[id] = NoOwner
             /\ \A s \in Symbols : s # sym => id \notin MineIn(O, i, s) /\ id \notin MineIn(P, i, s)
  BY <1>8 DEF Shift, Mine, MineIn
<1>9. ASSUME NEW i \in Accounts, i # a
      PROVE  /\ id \notin Mine(O, i) /\ id \notin Mine(P, i)
             /\ \A s \in Symbols : id \notin MineIn(O, i, s) /\ id \notin MineIn(P, i, s)
  BY <1>9 DEF Shift, Mine, MineIn
<1>10. ASSUME NEW i \in Accounts
       PROVE  /\ Q[i].cash = SumFunctionOnSet(Field(G, "cash"), Mine(P, i))
              /\ Q[i].short = SumFunctionOnSet(Field(G, "short"), Mine(P, i))
  <2>1. /\ R[i].cash = SumFunctionOnSet(Field(H, "cash"), Mine(O, i))
        /\ R[i].short = SumFunctionOnSet(Field(H, "short"), Mine(O, i))
    BY DEF Backed
  <2>2. /\ Q[i].cash = R[i].cash + (IF i = a THEN G[id].cash - H[id].cash ELSE 0)
        /\ Q[i].short = R[i].short + (IF i = a THEN G[id].short - H[id].short ELSE 0)
    BY DEF Shift
  <2>3. CASE i = a
    <3>1. /\ id \notin Mine(O, i) => H[id].cash = 0 /\ H[id].short = 0
          /\ id \notin Mine(P, i) => G[id].cash = 0 /\ G[id].short = 0
      BY <1>4, <1>8, <2>3 DEF Backed
    <3>2. /\ SumFunctionOnSet(Field(G, "cash"), Mine(P, i)) = R[i].cash + (G[id].cash - H[id].cash)
          /\ SumFunctionOnSet(Field(G, "short"), Mine(P, i)) =
                 R[i].short + (G[id].short - H[id].short)
      BY <1>5, <1>7, <2>1, <3>1
    <3>. QED  BY <2>2, <2>3, <3>2
  <2>4. CASE i # a
    <3>1. Mine(P, i) = Mine(O, i) /\ id \notin Mine(O, i)
      BY <1>7, <1>9, <2>4
    <3>2. /\ SumFunctionOnSet(Field(G, "cash"), Mine(P, i)) = R[i].cash /\ R[i].cash \in Int
          /\ SumFunctionOnSet(Field(G, "short"), Mine(P, i)) = R[i].short /\ R[i].short \in Int
      BY <1>6, <1>7, <2>1, <3>1
    <3>. QED  BY <2>2, <2>4, <3>2
  <2>. QED  BY <2>3, <2>4
<1>11. ASSUME NEW i \in Accounts, NEW s \in Symbols
       PROVE  Q[i].qty[s] = SumFunctionOnSet(Field(G, "qty"), MineIn(P, i, s))
  <2>1. R[i].qty[s] = SumFunctionOnSet(Field(H, "qty"), MineIn(O, i, s))
    BY DEF Backed
  <2>2. Q[i].qty[s] = R[i].qty[s] + (IF i = a /\ s = sym THEN G[id].qty - H[id].qty ELSE 0)
    BY DEF Shift
  <2>3. CASE i = a /\ s = sym
    <3>1. /\ id \notin MineIn(O, i, s) => H[id].qty = 0
          /\ id \notin MineIn(P, i, s) => G[id].qty = 0
      BY <1>4, <1>8, <2>3 DEF Backed
    <3>2. SumFunctionOnSet(Field(G, "qty"), MineIn(P, i, s)) = R[i].qty[s] + (G[id].qty - H[id].qty)
      BY <1>5, <1>7, <2>1, <3>1
    <3>. QED  BY <2>2, <2>3, <3>2
  <2>4. CASE ~(i = a /\ s = sym)
    <3>1. id \notin MineIn(O, i, s) /\ id \notin MineIn(P, i, s)
      <4>1. CASE i # a
        BY <1>9, <4>1
      <4>2. CASE i = a /\ s # sym
        BY <1>8, <4>2
      <4>. QED  BY <2>4, <4>1, <4>2
    <3>2. MineIn(P, i, s) = MineIn(O, i, s) /\ id \notin MineIn(O, i, s)
      <4>1. PICK X, Y : X = MineIn(O, i, s) /\ Y = MineIn(P, i, s)
        OBVIOUS
      <4>2. X \ {id} = Y \ {id} /\ id \notin X /\ id \notin Y
        BY <1>7, <3>1, <4>1
      <4>. QED  BY <3>1, <4>1, <4>2
    <3>3. /\ SumFunctionOnSet(Field(G, "qty"), MineIn(P, i, s)) = R[i].qty[s]
          /\ R[i].qty[s] \in Int
      BY <1>6, <1>7, <2>1, <3>2
    <3>. QED  BY <2>2, <2>4, <3>3
  <2>. QED  BY <2>3, <2>4
<1>. QED  BY <1>4, <1>10, <1>11 DEF Backed

\* What an order holds: cash for a bid, units and short margin for an ask.
Holding(O, H) ==
    \A id \in OrderIds :
        /\ H[id].cash >= 0 /\ H[id].qty >= 0 /\ H[id].short >= 0
        /\ O[id] # NoOwner =>
               /\ O[id].side = "Bid" => H[id].qty = 0 /\ H[id].short = 0
               /\ O[id].side = "Ask" => H[id].cash = 0 /\ H[id].qty <= O[id].qty

\* TradeRelease, of what an order holds.
Freed(h, side, n, before) ==
    [cash  |-> IF side = "Bid" THEN ProportionalRelease(h.cash, n, before) ELSE 0,
     qty   |-> IF side = "Ask" THEN Lesser(h.qty, n) ELSE 0,
     short |-> IF side = "Ask" THEN ProportionalRelease(h.short, n, before) ELSE 0]

LEMMA FreedPart ==
    ASSUME NEW h \in Reserve, NEW side \in Sides, NEW n \in Nat \ {0}, NEW before \in Nat \ {0},
           n <= before, h.cash >= 0, h.qty >= 0, h.short >= 0,
           side = "Bid" => h.qty = 0 /\ h.short = 0,
           side = "Ask" => h.cash = 0 /\ h.qty <= before,
           NEW free, free = Freed(h, side, n, before)
    PROVE  /\ free.cash \in Nat /\ free.cash <= h.cash
           /\ free.qty \in Nat /\ free.qty <= h.qty
           /\ free.short \in Nat /\ free.short <= h.short
           /\ side = "Ask" => h.qty - free.qty <= before - n
           /\ n = before => free.cash = h.cash /\ free.qty = h.qty /\ free.short = h.short
<1>1. h.cash \in Nat /\ h.qty \in Nat /\ h.short \in Nat
  BY DEF Reserve
<1>2. PICK c, q, s : /\ c = ProportionalRelease(h.cash, n, before)
                     /\ q = Lesser(h.qty, n)
                     /\ s = ProportionalRelease(h.short, n, before)
  OBVIOUS
<1>3. /\ c \in Nat /\ c <= h.cash /\ (n = before => c = h.cash)
      /\ s \in Nat /\ s <= h.short /\ (n = before => s = h.short)
  BY <1>1, <1>2, PartFreed
<1>4. /\ q \in Nat /\ q <= h.qty /\ q <= n /\ (q = n \/ q = h.qty)
  BY <1>1, <1>2 DEF Lesser
<1>5. /\ free.cash = IF side = "Bid" THEN c ELSE 0
      /\ free.qty = IF side = "Ask" THEN q ELSE 0
      /\ free.short = IF side = "Ask" THEN s ELSE 0
  BY <1>2 DEF Freed
<1>6. CASE side = "Bid"
  BY <1>1, <1>3, <1>5, <1>6
<1>7. CASE side = "Ask"
  BY <1>1, <1>3, <1>4, <1>5, <1>7
<1>. QED  BY <1>6, <1>7 DEF Sides

\* A trade of n of the order id frees its part of what the order holds.
Frees(O, H, R, G, Q, id, n) ==
    LET free == Freed(H[id], O[id].side, n, O[id].qty)
    IN  /\ \A i \in OrderIds \ {id} : /\ G[i].cash = H[i].cash /\ G[i].qty = H[i].qty
                                      /\ G[i].short = H[i].short
        /\ G[id].cash = H[id].cash - free.cash
        /\ G[id].qty = H[id].qty - free.qty
        /\ G[id].short = H[id].short - free.short
        /\ \A i \in Accounts :
               /\ Q[i].cash = R[i].cash - (IF i = O[id].acct THEN free.cash ELSE 0)
               /\ Q[i].short = R[i].short - (IF i = O[id].acct THEN free.short ELSE 0)
               /\ \A s \in Symbols : Q[i].qty[s] = R[i].qty[s]
                      - (IF i = O[id].acct /\ s = O[id].sym THEN free.qty ELSE 0)

LEMMA TradeBacked ==
    ASSUME NEW O \in [OrderIds -> OwnerRecord \cup {NoOwner}],
           NEW H \in [OrderIds -> Reserve], NEW G \in [OrderIds -> Reserve], NEW R, NEW Q,
           Backed(O, H, R), Holding(O, H),
           NEW id \in OrderIds, O[id] # NoOwner, NEW n \in Nat \ {0}, n <= O[id].qty,
           \A a \in Accounts : /\ R[a].cash \in Int /\ R[a].short \in Int
                               /\ \A s \in Symbols : R[a].qty[s] \in Int,
           Frees(O, H, R, G, Q, id, n)
    PROVE  /\ Backed(AuctionOwner(O, id, n), G, Q)
           /\ Holding(AuctionOwner(O, id, n), G)
<1>0. PICK free : free = Freed(H[id], O[id].side, n, O[id].qty)
  OBVIOUS
<1>1. PICK P : P = AuctionOwner(O, id, n)
  OBVIOUS
<1>. /\ \A i \in OrderIds \ {id} : G[i].cash = H[i].cash /\ G[i].qty = H[i].qty
                                    /\ G[i].short = H[i].short
     /\ G[id].cash = H[id].cash - free.cash
     /\ G[id].qty = H[id].qty - free.qty
     /\ G[id].short = H[id].short - free.short
     /\ \A i \in Accounts :
               /\ Q[i].cash = R[i].cash - (IF i = O[id].acct THEN free.cash ELSE 0)
               /\ Q[i].short = R[i].short - (IF i = O[id].acct THEN free.short ELSE 0)
               /\ \A s \in Symbols : Q[i].qty[s] = R[i].qty[s]
                      - (IF i = O[id].acct /\ s = O[id].sym THEN free.qty ELSE 0)
  BY <1>0 DEF Frees
<1>2. /\ \A i \in OrderIds \ {id} : P[i] = O[i]
      /\ IF O[id].qty = n THEN P[id] = NoOwner
         ELSE /\ P[id] # NoOwner /\ P[id].qty = O[id].qty - n /\ P[id].acct = O[id].acct
              /\ P[id].sym = O[id].sym /\ P[id].side = O[id].side
  BY <1>1, TradedRecord
<1>3. PICK h, side, before, a, sym :
        h = H[id] /\ side = O[id].side /\ before = O[id].qty /\ a = O[id].acct /\ sym = O[id].sym
  OBVIOUS
<1>4. h \in Reserve /\ side \in Sides /\ before \in Nat \ {0}
  <2>1. O[id] \in OwnerRecord
    OBVIOUS
  <2>. QED  BY <1>3, <2>1 DEF OwnerRecord
<1>5. /\ h.cash >= 0 /\ h.qty >= 0 /\ h.short >= 0
      /\ side = "Bid" => h.qty = 0 /\ h.short = 0
      /\ side = "Ask" => h.cash = 0 /\ h.qty <= before
  BY <1>3 DEF Holding
<1>6. /\ free.cash \in Nat /\ free.cash <= h.cash
      /\ free.qty \in Nat /\ free.qty <= h.qty
      /\ free.short \in Nat /\ free.short <= h.short
      /\ side = "Ask" => h.qty - free.qty <= before - n
      /\ n = before => free.cash = h.cash /\ free.qty = h.qty /\ free.short = h.short
  BY <1>0, <1>3, <1>4, <1>5, FreedPart
<1>7. /\ h.cash \in Nat /\ h.qty \in Nat /\ h.short \in Nat
      /\ G[id].cash = h.cash - free.cash /\ G[id].qty = h.qty - free.qty
      /\ G[id].short = h.short - free.short
  BY <1>3, <1>4, <1>5 DEF Reserve
<1>8. /\ G[id].cash >= 0 /\ G[id].qty >= 0 /\ G[id].short >= 0
      /\ side = "Bid" => G[id].qty = 0 /\ G[id].short = 0
      /\ side = "Ask" => G[id].cash = 0 /\ G[id].qty <= before - n
      /\ n = before => G[id].cash = 0 /\ G[id].qty = 0 /\ G[id].short = 0
  BY <1>5, <1>6, <1>7
<1>9. Holding(P, G)
  <2>1. ASSUME NEW i \in OrderIds
        PROVE  /\ G[i].cash >= 0 /\ G[i].qty >= 0 /\ G[i].short >= 0
               /\ P[i] # NoOwner =>
                     /\ P[i].side = "Bid" => G[i].qty = 0 /\ G[i].short = 0
                     /\ P[i].side = "Ask" => G[i].cash = 0 /\ G[i].qty <= P[i].qty
    <3>1. CASE i = id
      BY <1>2, <1>3, <1>8, <3>1
    <3>2. CASE i # id
      BY <1>2, <3>2 DEF Holding
    <3>. QED  BY <3>1, <3>2
  <2>. QED  BY <2>1 DEF Holding
<1>10. Shift(O, H, R, P, G, Q, id, a, sym)
  <2>1. ASSUME NEW i \in Accounts
        PROVE  /\ Q[i].cash = R[i].cash + (IF i = a THEN G[id].cash - H[id].cash ELSE 0)
               /\ Q[i].short = R[i].short + (IF i = a THEN G[id].short - H[id].short ELSE 0)
               /\ \A s \in Symbols : Q[i].qty[s] =
                      R[i].qty[s] + (IF i = a /\ s = sym THEN G[id].qty - H[id].qty ELSE 0)
    <3>1. /\ G[id].cash - H[id].cash = 0 - free.cash
          /\ G[id].short - H[id].short = 0 - free.short
          /\ G[id].qty - H[id].qty = 0 - free.qty
      BY <1>3, <1>6, <1>7
    <3>2. PICK dc, ds, dq : /\ dc = G[id].cash - H[id].cash /\ ds = G[id].short - H[id].short
                            /\ dq = G[id].qty - H[id].qty
      OBVIOUS
    <3>3. dc = 0 - free.cash /\ ds = 0 - free.short /\ dq = 0 - free.qty
      BY <3>1, <3>2
    <3>4. Q[i].cash = R[i].cash + (IF i = a THEN dc ELSE 0)
      BY <1>3, <1>6, <3>3
    <3>5. Q[i].short = R[i].short + (IF i = a THEN ds ELSE 0)
      BY <1>3, <1>6, <3>3
    <3>6. \A s \in Symbols : Q[i].qty[s] = R[i].qty[s] + (IF i = a /\ s = sym THEN dq ELSE 0)
      BY <1>3, <1>6, <3>3
    <3>. QED  BY <3>2, <3>4, <3>5, <3>6
  <2>2. /\ \A i \in OrderIds \ {id} : /\ P[i] = O[i] /\ G[i].cash = H[i].cash
                                      /\ G[i].qty = H[i].qty /\ G[i].short = H[i].short
        /\ O[id] # NoOwner => O[id].acct = a /\ O[id].sym = sym
        /\ P[id] # NoOwner => P[id].acct = a /\ P[id].sym = sym
    BY <1>2, <1>3
  <2>. QED  BY <2>1, <2>2 DEF Shift
<1>11. P[id] = NoOwner => G[id].cash = 0 /\ G[id].qty = 0 /\ G[id].short = 0
  BY <1>2, <1>3, <1>8
<1>12. Backed(P, G, Q)
  BY <1>10, <1>11, ShiftBacked
<1>. QED  BY <1>1, <1>9, <1>12

\* The updates of the tables, entry by entry: parts of reserves are freed, a reserve is
\* blocked, parts of what orders hold are taken, what an order holds is put down.
Released(r, a, b, sym, x, y, z) ==
    [r EXCEPT ![a].cash = @ - x, ![b].short = @ - y, ![b].qty[sym] = @ - z]

LEMMA ReleasedEntries ==
    ASSUME NEW r \in [Accounts -> Balances], NEW a \in Accounts, NEW b \in Accounts,
           NEW sym \in Symbols, NEW x \in Int, NEW y \in Int, NEW z \in Int,
           NEW q, q = Released(r, a, b, sym, x, y, z)
    PROVE  \A i \in Accounts :
             /\ q[i].cash = r[i].cash - (IF i = a THEN x ELSE 0)
             /\ q[i].short = r[i].short - (IF i = b THEN y ELSE 0)
             /\ \A s \in Symbols :
                    q[i].qty[s] = r[i].qty[s] - (IF i = b /\ s = sym THEN z ELSE 0)
<1>0. q = [r EXCEPT ![a].cash = @ - x, ![b].short = @ - y, ![b].qty[sym] = @ - z]
  BY DEF Released
<1>1. PICK t1 : t1 = [r EXCEPT ![a].cash = @ - x]
  OBVIOUS
<1>2. PICK t2 : t2 = [t1 EXCEPT ![b].short = @ - y]
  OBVIOUS
<1>3. PICK t3 : t3 = [t2 EXCEPT ![b].qty[sym] = @ - z]
  OBVIOUS
<1>4. q = t3
  <2>. DEFINE u1 == [r EXCEPT ![a].cash = @ - x]
              u2 == [u1 EXCEPT ![b].short = @ - y]
              u3 == [u2 EXCEPT ![b].qty[sym] = @ - z]
  <2>1. [r EXCEPT ![a].cash = @ - x, ![b].short = @ - y, ![b].qty[sym] = @ - z] = u3
    BY DEF Balances
  <2>. QED  BY <1>0, <1>1, <1>2, <1>3, <2>1, Zenon
<1>5. t1 \in [Accounts -> Balances]
  BY <1>1 DEF Balances
<1>6. \A i \in Accounts : /\ t1[i].cash = r[i].cash - (IF i = a THEN x ELSE 0)
                          /\ t1[i].short = r[i].short /\ t1[i].qty = r[i].qty
  BY <1>1 DEF Balances
<1>7. t2 \in [Accounts -> Balances]
  BY <1>2, <1>5, SMTT(30) DEF Balances
<1>8. \A i \in Accounts : /\ t2[i].short = t1[i].short - (IF i = b THEN y ELSE 0)
                          /\ t2[i].cash = t1[i].cash /\ t2[i].qty = t1[i].qty
  BY <1>2, <1>5 DEF Balances
<1>9. \A i \in Accounts :
         /\ t3[i].cash = t2[i].cash /\ t3[i].short = t2[i].short
         /\ \A s \in Symbols :
                t3[i].qty[s] = t2[i].qty[s] - (IF i = b /\ s = sym THEN z ELSE 0)
  BY <1>3, <1>7 DEF Balances
<1>10. ASSUME NEW i \in Accounts
       PROVE  /\ q[i].cash = r[i].cash - (IF i = a THEN x ELSE 0)
              /\ q[i].short = r[i].short - (IF i = b THEN y ELSE 0)
  BY <1>4, <1>5, <1>6, <1>7, <1>8, <1>9 DEF Balances
<1>11. ASSUME NEW i \in Accounts, NEW s \in Symbols
       PROVE  q[i].qty[s] = r[i].qty[s] - (IF i = b /\ s = sym THEN z ELSE 0)
  <2>1. t2[i].qty[s] = r[i].qty[s]
    BY <1>6, <1>8
  <2>2. t3[i].qty[s] = t2[i].qty[s] - (IF i = b /\ s = sym THEN z ELSE 0)
    BY <1>9
  <2>. QED  BY <1>4, <2>1, <2>2, Zenon
<1>. QED  BY <1>10, <1>11

Blocked(r, a, sym, x, y, z) ==
    [r EXCEPT ![a].cash = @ + x, ![a].short = @ + y, ![a].qty[sym] = @ + z]

LEMMA BlockedEntries ==
    ASSUME NEW r \in [Accounts -> Balances], NEW a \in Accounts,
           NEW sym \in Symbols, NEW x \in Int, NEW y \in Int, NEW z \in Int,
           NEW q, q = Blocked(r, a, sym, x, y, z)
    PROVE  \A i \in Accounts :
             /\ q[i].cash = r[i].cash + (IF i = a THEN x ELSE 0)
             /\ q[i].short = r[i].short + (IF i = a THEN y ELSE 0)
             /\ \A s \in Symbols :
                    q[i].qty[s] = r[i].qty[s] + (IF i = a /\ s = sym THEN z ELSE 0)
<1>0. q = [r EXCEPT ![a].cash = @ + x, ![a].short = @ + y, ![a].qty[sym] = @ + z]
  BY DEF Blocked
<1>1. PICK t1 : t1 = [r EXCEPT ![a].cash = @ + x]
  OBVIOUS
<1>2. PICK t2 : t2 = [t1 EXCEPT ![a].short = @ + y]
  OBVIOUS
<1>3. PICK t3 : t3 = [t2 EXCEPT ![a].qty[sym] = @ + z]
  OBVIOUS
<1>4. q = t3
  BY <1>0, <1>1, <1>2, <1>3 DEF Balances
<1>5. t1 \in [Accounts -> Balances]
  BY <1>1 DEF Balances
<1>6. \A i \in Accounts : /\ t1[i].cash = r[i].cash + (IF i = a THEN x ELSE 0)
                          /\ t1[i].short = r[i].short /\ t1[i].qty = r[i].qty
  BY <1>1 DEF Balances
<1>7. t2 \in [Accounts -> Balances]
  BY <1>2, <1>5, SMTT(30) DEF Balances
<1>8. \A i \in Accounts : /\ t2[i].short = t1[i].short + (IF i = a THEN y ELSE 0)
                          /\ t2[i].cash = t1[i].cash /\ t2[i].qty = t1[i].qty
  BY <1>2, <1>5 DEF Balances
<1>9. \A i \in Accounts :
         /\ t3[i].cash = t2[i].cash /\ t3[i].short = t2[i].short
         /\ \A s \in Symbols :
                t3[i].qty[s] = t2[i].qty[s] + (IF i = a /\ s = sym THEN z ELSE 0)
  BY <1>3, <1>7 DEF Balances
<1>10. ASSUME NEW i \in Accounts
       PROVE  /\ q[i].cash = r[i].cash + (IF i = a THEN x ELSE 0)
              /\ q[i].short = r[i].short + (IF i = a THEN y ELSE 0)
  BY <1>4, <1>5, <1>6, <1>7, <1>8, <1>9 DEF Balances
<1>11. ASSUME NEW i \in Accounts, NEW s \in Symbols
       PROVE  q[i].qty[s] = r[i].qty[s] + (IF i = a /\ s = sym THEN z ELSE 0)
  <2>1. t2[i].qty[s] = r[i].qty[s]
    BY <1>6, <1>8
  <2>2. t3[i].qty[s] = t2[i].qty[s] + (IF i = a /\ s = sym THEN z ELSE 0)
    BY <1>9
  <2>. QED  BY <1>4, <2>1, <2>2, Zenon
<1>. QED  BY <1>10, <1>11

Taken(h, i, j, x, y, z) ==
    [h EXCEPT ![i].cash = @ - x, ![j].qty = @ - y, ![j].short = @ - z]

LEMMA HeldEntries ==
    ASSUME NEW h \in [OrderIds -> Reserve], NEW i \in OrderIds, NEW j \in OrderIds,
           NEW x \in Int, NEW y \in Int, NEW z \in Int,
           NEW g, g = Taken(h, i, j, x, y, z)
    PROVE  \A k \in OrderIds :
             /\ g[k].cash = h[k].cash - (IF k = i THEN x ELSE 0)
             /\ g[k].qty = h[k].qty - (IF k = j THEN y ELSE 0)
             /\ g[k].short = h[k].short - (IF k = j THEN z ELSE 0)
<1>0. g = [h EXCEPT ![i].cash = @ - x, ![j].qty = @ - y, ![j].short = @ - z]
  BY DEF Taken
<1>1. PICK t1 : t1 = [h EXCEPT ![i].cash = @ - x]
  OBVIOUS
<1>2. PICK t2 : t2 = [t1 EXCEPT ![j].qty = @ - y]
  OBVIOUS
<1>3. PICK t3 : t3 = [t2 EXCEPT ![j].short = @ - z]
  OBVIOUS
<1>4. g = t3
  <2>. DEFINE u1 == [h EXCEPT ![i].cash = @ - x]
              u2 == [u1 EXCEPT ![j].qty = @ - y]
              u3 == [u2 EXCEPT ![j].short = @ - z]
  <2>1. [h EXCEPT ![i].cash = @ - x, ![j].qty = @ - y, ![j].short = @ - z] = u3
    BY DEF Reserve
  <2>. QED  BY <1>0, <1>1, <1>2, <1>3, <2>1, Zenon
<1>5. t1 \in [OrderIds -> Reserve]
  BY <1>1 DEF Reserve
<1>6. t2 \in [OrderIds -> Reserve]
  BY <1>2, <1>5 DEF Reserve
<1>7. \A k \in OrderIds : /\ t1[k].cash = h[k].cash - (IF k = i THEN x ELSE 0)
                          /\ t1[k].qty = h[k].qty /\ t1[k].short = h[k].short
  BY <1>1 DEF Reserve
<1>8. \A k \in OrderIds : /\ t2[k].qty = t1[k].qty - (IF k = j THEN y ELSE 0)
                          /\ t2[k].cash = t1[k].cash /\ t2[k].short = t1[k].short
  BY <1>2, <1>5 DEF Reserve
<1>9. \A k \in OrderIds : /\ t3[k].short = t2[k].short - (IF k = j THEN z ELSE 0)
                          /\ t3[k].cash = t2[k].cash /\ t3[k].qty = t2[k].qty
  BY <1>3, <1>6 DEF Reserve
<1>10. ASSUME NEW k \in OrderIds
       PROVE  /\ g[k].cash = h[k].cash - (IF k = i THEN x ELSE 0)
              /\ g[k].qty = h[k].qty - (IF k = j THEN y ELSE 0)
              /\ g[k].short = h[k].short - (IF k = j THEN z ELSE 0)
  BY <1>4, <1>5, <1>6, <1>7, <1>8, <1>9 DEF Reserve
<1>. QED  BY <1>10

Put(h, i, x, y, z) ==
    [h EXCEPT ![i].cash = x, ![i].qty = y, ![i].short = z]

LEMMA HeldSetEntries ==
    ASSUME NEW h \in [OrderIds -> Reserve], NEW i \in OrderIds,
           NEW x \in Int, NEW y \in Int, NEW z \in Int,
           NEW g, g = Put(h, i, x, y, z)
    PROVE  /\ g[i].cash = x /\ g[i].qty = y /\ g[i].short = z
           /\ \A k \in OrderIds \ {i} : g[k] = h[k]
BY DEF Reserve, Put

ReserveInv == Backed(owner, held, reserved) /\ Holding(owner, held)

\* The order id of account a in sym is withdrawn: its cash c, short margin k and units q
\* are free again.
Withdrawn(a, sym, id, c, k, q) ==
    /\ sym = owner[id].sym /\ c = held[id].cash /\ k = held[id].short /\ q = held[id].qty
    /\ owner'[id] = NoOwner /\ held'[id].cash = 0 /\ held'[id].qty = 0 /\ held'[id].short = 0
    /\ \A i \in OrderIds \ {id} : owner'[i] = owner[i] /\ held'[i] = held[i]
    /\ held' \in [OrderIds -> Reserve]
    /\ \A i \in Accounts :
         /\ reserved'[i].cash = reserved[i].cash - (IF i = a THEN c ELSE 0)
         /\ reserved'[i].short = reserved[i].short - (IF i = a THEN k ELSE 0)
         /\ \A s \in Symbols :
                reserved'[i].qty[s] = reserved[i].qty[s] - (IF i = a /\ s = sym THEN q ELSE 0)

LEMMA WithdrawStep ==
    ASSUME EngineInv, NEW a \in Accounts, NEW id \in OrderIds,
           owner[id] # NoOwner, owner[id].acct = a, NEW o \in InBook(id), Withdraw(a, id, o)
    PROVE  \E sym \in Symbols, c \in Int, k \in Int, q \in Int : Withdrawn(a, sym, id, c, k, q)
<1>1. /\ owner \in [OrderIds -> OwnerRecord \cup {NoOwner}] /\ held \in [OrderIds -> Reserve]
      /\ reserved \in [Accounts -> Balances]
  BY DEF EngineInv, TypeOK, Balances
<1>2. PICK sym \in Symbols, c \in Int, k \in Int, q \in Int :
        sym = owner[id].sym /\ c = held[id].cash /\ k = held[id].short /\ q = held[id].qty
  BY <1>1 DEF OwnerRecord, Reserve
<1>3. o.sym = sym
  BY <1>2 DEF InBook
<1>4. /\ reserved' = [reserved EXCEPT ![a].cash = @ - c, ![a].short = @ - k, ![a].qty[sym] = @ - q]
      /\ held' = [held EXCEPT ![id] = NoCredit]
      /\ owner' = [owner EXCEPT ![id] = NoOwner]
  BY <1>2, <1>3 DEF Withdraw, ReleaseAll
<1>5. \A i \in Accounts :
         /\ reserved'[i].cash = reserved[i].cash - (IF i = a THEN c ELSE 0)
         /\ reserved'[i].short = reserved[i].short - (IF i = a THEN k ELSE 0)
         /\ \A s \in Symbols :
                reserved'[i].qty[s] = reserved[i].qty[s] - (IF i = a /\ s = sym THEN q ELSE 0)
  <2>1. reserved' = Released(reserved, a, a, sym, c, k, q)
    BY <1>4 DEF Released
  <2>. QED  BY <1>1, <2>1, ReleasedEntries
<1>6. /\ \A i \in OrderIds \ {id} : owner'[i] = owner[i] /\ held'[i] = held[i]
      /\ owner'[id] = NoOwner /\ held'[id].cash = 0 /\ held'[id].qty = 0 /\ held'[id].short = 0
  BY <1>1, <1>4 DEF NoCredit
<1>7. held' \in [OrderIds -> Reserve]
  BY <1>1, <1>4 DEF NoCredit, Reserve
<1>8. Withdrawn(a, sym, id, c, k, q)
  BY <1>2, <1>5, <1>6, <1>7, Zenon DEF Withdrawn
<1>. QED  BY <1>2, <1>8

LEMMA WithdrawReserves ==
    ASSUME EngineInv, ReserveInv, NEW a \in Accounts, NEW id \in OrderIds,
           owner[id] # NoOwner, owner[id].acct = a, NEW o \in InBook(id), Withdraw(a, id, o)
    PROVE  ReserveInv'
<1>1. /\ owner \in [OrderIds -> OwnerRecord \cup {NoOwner}] /\ held \in [OrderIds -> Reserve]
      /\ reserved \in [Accounts -> Balances]
  BY DEF EngineInv, TypeOK, Balances
<1>2. PICK sym \in Symbols, c \in Int, k \in Int, q \in Int : Withdrawn(a, sym, id, c, k, q)
  BY WithdrawStep
<1>3. sym = owner[id].sym /\ c = held[id].cash /\ k = held[id].short /\ q = held[id].qty
  BY <1>2 DEF Withdrawn
<1>4. \A i \in Accounts :
         /\ reserved'[i].cash = reserved[i].cash - (IF i = a THEN c ELSE 0)
         /\ reserved'[i].short = reserved[i].short - (IF i = a THEN k ELSE 0)
         /\ \A s \in Symbols :
                reserved'[i].qty[s] = reserved[i].qty[s] - (IF i = a /\ s = sym THEN q ELSE 0)
  BY <1>2 DEF Withdrawn
<1>5. /\ \A i \in OrderIds \ {id} : owner'[i] = owner[i] /\ held'[i] = held[i]
      /\ owner'[id] = NoOwner /\ held'[id].cash = 0 /\ held'[id].qty = 0 /\ held'[id].short = 0
  BY <1>2 DEF Withdrawn
<1>6. held' \in [OrderIds -> Reserve]
  BY <1>2 DEF Withdrawn
<1>7. PICK dc, dk, dq : dc = held'[id].cash - held[id].cash /\ dk = held'[id].short - held[id].short
                        /\ dq = held'[id].qty - held[id].qty
  OBVIOUS
<1>8. dc = 0 - c /\ dk = 0 - k /\ dq = 0 - q
  BY <1>3, <1>5, <1>7
<1>9. ASSUME NEW i \in Accounts
       PROVE  /\ reserved'[i].cash = reserved[i].cash + (IF i = a THEN dc ELSE 0)
              /\ reserved'[i].short = reserved[i].short + (IF i = a THEN dk ELSE 0)
              /\ \A s \in Symbols :
                    reserved'[i].qty[s] = reserved[i].qty[s] + (IF i = a /\ s = sym THEN dq ELSE 0)
  <2>1. reserved[i].cash \in Int /\ reserved[i].short \in Int
        /\ \A s \in Symbols : reserved[i].qty[s] \in Int
    BY <1>1 DEF Balances
  <2>2. \A s \in Symbols :
           reserved'[i].qty[s] = reserved[i].qty[s] - (IF i = a /\ s = sym THEN q ELSE 0)
    BY <1>4
  <2>3. \A s \in Symbols :
           reserved'[i].qty[s] = reserved[i].qty[s] + (IF i = a /\ s = sym THEN dq ELSE 0)
    BY <1>8, <2>1, <2>2
  <2>4. /\ reserved'[i].cash = reserved[i].cash - (IF i = a THEN c ELSE 0)
        /\ reserved'[i].short = reserved[i].short - (IF i = a THEN k ELSE 0)
    BY <1>4
  <2>. QED  BY <1>8, <2>1, <2>3, <2>4
<1>10. Shift(owner, held, reserved, owner', held', reserved', id, a, sym)
  BY <1>3, <1>5, <1>7, <1>9 DEF Shift
<1>11. Backed(owner', held', reserved')
  BY <1>1, <1>5, <1>6, <1>10, ShiftBacked DEF ReserveInv
<1>12. Holding(owner', held')
  BY <1>5 DEF Holding, ReserveInv
<1>. QED  BY <1>11, <1>12 DEF ReserveInv, Backed, Holding, Field, Mine, MineIn

\* The order being placed comes to rest as order id of account a: it blocks cash c, short
\* margin k and units q.
Rests(a, sym, id, side, price, left, c, k, q) ==
    /\ a = taker.acct /\ sym = taker.sym /\ id = taker.id
    /\ side = taker.side /\ price = taker.price /\ left = taker.left
    /\ owner[id] = NoOwner /\ held[id].cash = 0 /\ held[id].qty = 0 /\ held[id].short = 0
    /\ c = RestingReserve.cash /\ k = RestingReserve.short /\ q = RestingReserve.qty
    /\ side = "Bid" => q = 0 /\ k = 0
    /\ side = "Ask" => c = 0 /\ q <= left
    /\ owner' = [owner EXCEPT ![id] = [acct |-> a, sym |-> sym, side |-> side, price |-> price,
                                       qty |-> left, kind |-> taker.kind]]
    /\ held'[id].cash = c /\ held'[id].qty = q /\ held'[id].short = k
    /\ \A i \in OrderIds \ {id} : held'[i] = held[i]
    /\ \A i \in Accounts :
         /\ reserved'[i].cash = reserved[i].cash + (IF i = a THEN c ELSE 0)
         /\ reserved'[i].short = reserved[i].short + (IF i = a THEN k ELSE 0)
         /\ \A s \in Symbols :
                reserved'[i].qty[s] = reserved[i].qty[s] + (IF i = a /\ s = sym THEN q ELSE 0)

LEMMA RestStep ==
    ASSUME TradeInv, OwnersInv, ReserveInv, FinishOrder, RemainderRests(taker), RestTaker
    PROVE  \E a \in Accounts, sym \in Symbols, id \in OrderIds, side \in Sides, price \in Nat,
              left \in Nat \ {0}, c \in Nat, k \in Nat, q \in Nat :
                  Rests(a, sym, id, side, price, left, c, k, q)
<1>1. EngineInv /\ pc \in {"match", "rest"} /\ pc \in Placing
  BY DEF FinishOrder, Placing, TradeInv
<1>2. /\ owner \in [OrderIds -> OwnerRecord \cup {NoOwner}] /\ held \in [OrderIds -> Reserve]
      /\ reserved \in [Accounts -> Balances] /\ taker \in TakerRecord
      /\ position \in [Accounts -> [Symbols -> Int]] /\ risk \in [Accounts -> RiskConfig]
      /\ fee \in Fees
  BY <1>1 DEF EngineInv, TypeOK, Balances, Placing
<1>3. PICK a, sym, id, side, price, left :
        /\ a = taker.acct /\ sym = taker.sym /\ id = taker.id
        /\ side = taker.side /\ price = taker.price /\ left = taker.left
  OBVIOUS
<1>4. /\ a \in Accounts /\ sym \in Symbols /\ id \in OrderIds /\ side \in Sides
      /\ price \in Nat /\ left \in Nat \ {0}
  <2>1. price >= 0 /\ left > 0
    BY <1>1, <1>3 DEF TradeInv, TakerInv, ValidPrice, RemainderRests
  <2>. QED  BY <1>2, <1>3, <2>1 DEF TakerRecord
<1>5. owner[id] = NoOwner /\ held[id].cash = 0 /\ held[id].qty = 0 /\ held[id].short = 0
  BY <1>1, <1>3, <1>4 DEF OwnersInv, ReserveInv, Backed
<1>6. PICK new : new = RestingReserve
  OBVIOUS
<1>7. /\ new.cash \in Nat /\ new.qty \in Nat /\ new.short \in Nat
      /\ side = "Bid" => new.qty = 0 /\ new.short = 0
      /\ side = "Ask" => new.cash = 0 /\ new.qty <= left
  <2>1. PICK free, long : /\ free = Greater(0, position[a][sym] - reserved[a].qty[sym])
                          /\ long = Lesser(left, free)
    OBVIOUS
  <2>2. position[a][sym] \in Int /\ reserved[a].qty[sym] \in Int
    BY <1>2, <1>4 DEF Balances
  <2>3. long \in Nat /\ long <= left
    BY <1>4, <2>1, <2>2 DEF Greater, Lesser
  <2>4. PICK buy, short : /\ buy = BuyReserve(risk[a], fee, price, left)
                          /\ short = ShortReserve(risk[a], price, left - long)
    OBVIOUS
  <2>5. buy \in Nat /\ short \in Nat
    BY <1>2, <1>4, <2>3, <2>4, ReserveNat
  <2>6. new = IF side = "Bid" THEN [cash |-> buy, qty |-> 0, short |-> 0]
              ELSE [cash |-> 0, qty |-> long, short |-> short]
    BY <1>3, <1>6, <2>1, <2>4 DEF RestingReserve
  <2>. QED  BY <2>3, <2>5, <2>6
<1>8. PICK c \in Nat, k \in Nat, q \in Nat : c = new.cash /\ k = new.short /\ q = new.qty
  BY <1>7
<1>9. reserved' = [reserved EXCEPT ![a].cash = @ + c, ![a].short = @ + k, ![a].qty[sym] = @ + q]
  BY <1>3, <1>6, <1>8 DEF RestTaker
<1>10. PICK hc, hq, hk : /\ hc = (IF side = "Bid" THEN c ELSE held[id].cash)
                         /\ hq = (IF q > 0 THEN q ELSE held[id].qty)
                         /\ hk = (IF k > 0 THEN k ELSE held[id].short)
  OBVIOUS
<1>11. hc = c /\ hq = q /\ hk = k
  BY <1>4, <1>5, <1>7, <1>8, <1>10 DEF Sides
<1>12. held' = [held EXCEPT ![id].cash = hc, ![id].qty = hq, ![id].short = hk]
  BY <1>2, <1>3, <1>4, <1>6, <1>8, <1>10 DEF RestTaker, Reserve
<1>13. /\ held'[id].cash = c /\ held'[id].qty = q /\ held'[id].short = k
       /\ \A i \in OrderIds \ {id} : held'[i] = held[i]
       /\ held' \in [OrderIds -> Reserve]
  <2>1. held' = [held EXCEPT ![id].cash = c, ![id].qty = q, ![id].short = k]
    BY <1>11, <1>12
  <2>2. held' = Put(held, id, c, q, k)
    BY <2>1 DEF Put
  <2>3. held' \in [OrderIds -> Reserve]
    <3>1. c \in Int /\ q \in Int /\ k \in Int
      OBVIOUS
    <3>2. [held EXCEPT ![id].cash = c, ![id].qty = q, ![id].short = k] \in [OrderIds -> Reserve]
      BY <1>2, <1>4, <3>1, HeldSet
    <3>. QED  BY <2>1, <3>2
  <2>. QED  BY <1>2, <1>4, <2>2, <2>3, HeldSetEntries
<1>14. \A i \in Accounts :
         /\ reserved'[i].cash = reserved[i].cash + (IF i = a THEN c ELSE 0)
         /\ reserved'[i].short = reserved[i].short + (IF i = a THEN k ELSE 0)
         /\ \A s \in Symbols :
                reserved'[i].qty[s] = reserved[i].qty[s] + (IF i = a /\ s = sym THEN q ELSE 0)
  <2>1. reserved' = Blocked(reserved, a, sym, c, k, q)
    BY <1>9 DEF Blocked
  <2>. QED  BY <1>2, <1>4, <2>1, BlockedEntries
<1>15. owner' = [owner EXCEPT ![id] = [acct |-> a, sym |-> sym, side |-> side, price |-> price,
                                      qty |-> left, kind |-> taker.kind]]
  BY <1>3 DEF RestTaker
<1>16. Rests(a, sym, id, side, price, left, c, k, q)
  <2>1. c = RestingReserve.cash /\ k = RestingReserve.short /\ q = RestingReserve.qty
    BY <1>6, <1>8
  <2>2. /\ side = "Bid" => q = 0 /\ k = 0
        /\ side = "Ask" => c = 0 /\ q <= left
    BY <1>7, <1>8
  <2>. QED  BY <1>3, <1>5, <1>13, <1>14, <1>15, <2>1, <2>2 DEF Rests
<1>. QED  BY <1>4, <1>16

LEMMA RestReserves ==
    ASSUME TradeInv, OwnersInv, ReserveInv, FinishOrder, RemainderRests(taker), RestTaker
    PROVE  ReserveInv'
<1>1. EngineInv /\ EngineInv' /\ pc \in Placing
  BY FinishOrderInv DEF FinishOrder, Placing, TradeInv
<1>2. /\ owner \in [OrderIds -> OwnerRecord \cup {NoOwner}] /\ held \in [OrderIds -> Reserve]
      /\ held' \in [OrderIds -> Reserve] /\ taker \in TakerRecord
  BY <1>1 DEF EngineInv, TypeOK, Placing
<1>3. PICK a \in Accounts, sym \in Symbols, id \in OrderIds, side \in Sides, price \in Nat,
           left \in Nat \ {0}, c \in Nat, k \in Nat, q \in Nat :
               Rests(a, sym, id, side, price, left, c, k, q)
  BY RestStep
<1>4. owner[id] = NoOwner /\ held[id].cash = 0 /\ held[id].qty = 0 /\ held[id].short = 0
  BY <1>3 DEF Rests
<1>5. /\ side = "Bid" => q = 0 /\ k = 0
      /\ side = "Ask" => c = 0 /\ q <= left
  BY <1>3 DEF Rests
<1>6. /\ held'[id].cash = c /\ held'[id].qty = q /\ held'[id].short = k
       /\ \A i \in OrderIds \ {id} : held'[i] = held[i]
  BY <1>3 DEF Rests
<1>7. \A i \in Accounts :
         /\ reserved'[i].cash = reserved[i].cash + (IF i = a THEN c ELSE 0)
         /\ reserved'[i].short = reserved[i].short + (IF i = a THEN k ELSE 0)
         /\ \A s \in Symbols :
                reserved'[i].qty[s] = reserved[i].qty[s] + (IF i = a /\ s = sym THEN q ELSE 0)
  BY <1>3 DEF Rests
<1>8. PICK record : record = [acct |-> a, sym |-> sym, side |-> side, price |-> price,
                               qty |-> left, kind |-> taker.kind]
  OBVIOUS
<1>9. owner' = [owner EXCEPT ![id] = record]
  BY <1>3, <1>8 DEF Rests
<1>10. /\ owner'[id] = record /\ \A i \in OrderIds \ {id} : owner'[i] = owner[i]
       /\ record.acct = a /\ record.sym = sym /\ record.side = side /\ record.qty = left
  BY <1>2, <1>3, <1>8, <1>9
<1>11. record # NoOwner
  <2>1. record \in OwnerRecord
    BY <1>2, <1>3, <1>8 DEF TakerRecord, OwnerRecord
  <2>. QED  BY <2>1, OwnedRecord
<1>12. /\ held'[id].cash - held[id].cash = c /\ held'[id].short - held[id].short = k
       /\ held'[id].qty - held[id].qty = q
  BY <1>4, <1>6
<1>13. Shift(owner, held, reserved, owner', held', reserved', id, a, sym)
  BY <1>4, <1>6, <1>7, <1>10, <1>12 DEF Shift
<1>14. Backed(owner', held', reserved')
  BY <1>2, <1>3, <1>6, <1>10, <1>11, <1>13, ShiftBacked DEF ReserveInv
<1>15. Holding(owner', held')
  <2>1. ASSUME NEW i \in OrderIds
        PROVE  /\ held'[i].cash >= 0 /\ held'[i].qty >= 0 /\ held'[i].short >= 0
               /\ owner'[i] # NoOwner =>
                     /\ owner'[i].side = "Bid" => held'[i].qty = 0 /\ held'[i].short = 0
                     /\ owner'[i].side = "Ask" => held'[i].cash = 0 /\ held'[i].qty <= owner'[i].qty
    <3>1. CASE i = id
      BY <1>5, <1>6, <1>10, <3>1
    <3>2. CASE i # id
      BY <1>6, <1>10, <3>2 DEF ReserveInv, Holding
    <3>. QED  BY <3>1, <3>2
  <2>. QED  BY <2>1 DEF Holding
<1>. QED  BY <1>14, <1>15 DEF ReserveInv, Backed, Holding, Field, Mine, MineIn

\* The record of an order of the book, which is exact.
LEMMA RecordOf ==
    ASSUME EngineInv, OwnersInv, NEW o \in book
    PROVE  /\ o.id \in OrderIds /\ owner[o.id] # NoOwner /\ owner[o.id] \in OwnerRecord
           /\ owner[o.id].qty = Remaining(o) /\ owner[o.id].side = o.side
           /\ owner[o.id].sym = o.sym /\ owner[o.id].acct = MakerAccount(o.id)
           /\ \A n : OpenQty(o.id, n) = Remaining(o)
           /\ \A n \in Int : n <= Fillable(o) => n <= Remaining(o)
<1>1. o \in BookOrder /\ Claims(owner[o.id], o)
  BY InvBook DEF GoodBook
<1>2. o.id \in OrderIds /\ owner[o.id] # NoOwner /\ owner[o.id] \in OwnerRecord
  BY <1>1 DEF BookOrder, Claims, EngineInv, TypeOK
<1>3. \A n \in Int : n <= Fillable(o) => n <= Remaining(o)
  BY <1>1 DEF BookOrder, Fillable, Remaining
<1>4. owner[o.id].qty = Remaining(o)
  BY DEF OwnersInv
<1>. QED  BY <1>1, <1>2, <1>3, <1>4 DEF Claims, MakerAccount, OpenQty

LEMMA ReserveKept ==
    ASSUME Backed(owner', held', reserved'), Holding(owner', held')
    PROVE  ReserveInv'
BY DEF ReserveInv, Backed, Holding, Field, Mine, MineIn

\* A trade sets cash x of order i and account a free, units z and short margin y of order j
\* and account b.
FreesBoth(i, j, a, b, sym, x, y, z) ==
    /\ \A k \in OrderIds :
         /\ held'[k].cash = held[k].cash - (IF k = i THEN x ELSE 0)
         /\ held'[k].qty = held[k].qty - (IF k = j THEN z ELSE 0)
         /\ held'[k].short = held[k].short - (IF k = j THEN y ELSE 0)
    /\ \A u \in Accounts :
         /\ reserved'[u].cash = reserved[u].cash - (IF u = a THEN x ELSE 0)
         /\ reserved'[u].short = reserved[u].short - (IF u = b THEN y ELSE 0)
         /\ \A w \in Symbols :
                reserved'[u].qty[w] = reserved[u].qty[w] - (IF u = b /\ w = sym THEN z ELSE 0)

\* Of the order id of account a in sym, n units are traded.
Trades(id, a, sym, n) ==
    /\ owner[id] # NoOwner /\ owner[id] \in OwnerRecord /\ n <= owner[id].qty
    /\ owner[id].acct = a /\ owner[id].sym = sym

\* A fill of n units of the maker m, whose record and reserve are those of order id.
Fills(m, id, a, sym, n, b, s, buyerFee, sellerFee, x, y, z) ==
    /\ id = m.id /\ sym = taker.sym /\ Trades(id, a, sym, n)
    /\ owner[id].side = Opposite(taker.side) /\ owner[id].price = m.price
    /\ Crosses(taker.side, taker.price, m.price) /\ n <= taker.left
    /\ a = MakerAccount(m.id) /\ FillParties(m, n, b, s, buyerFee, sellerFee)
    /\ Settle(sym, b, s, m.price, n, buyerFee, sellerFee)
    /\ taker' = [taker EXCEPT !.left = @ - n]
    /\ Freed(held[id], owner[id].side, n, owner[id].qty) = [cash |-> x, qty |-> z, short |-> y]
    /\ owner' = AuctionOwner(owner, id, n)
    /\ FreesBoth(id, id, a, a, sym, x, y, z)

LEMMA FillTrades ==
    ASSUME TradeInv, OwnersInv, ExecuteFill
    PROVE  \E m \in book, id \in OrderIds, a \in Accounts, sym \in Symbols, n \in Nat \ {0},
              b \in Accounts, s \in Accounts, buyerFee \in Int, sellerFee \in Int,
              x \in Int, y \in Int, z \in Int :
                  Fills(m, id, a, sym, n, b, s, buyerFee, sellerFee, x, y, z)
<1>1. /\ EngineInv /\ EngineInv' /\ owner \in [OrderIds -> OwnerRecord \cup {NoOwner}]
      /\ held \in [OrderIds -> Reserve] /\ reserved \in [Accounts -> Balances]
      /\ held' \in [OrderIds -> Reserve]
  BY ExecuteFillInv DEF TradeInv, EngineInv, TypeOK, Balances
<1>2. PICK m \in NextMaker(taker), n \in Nat \ {0}, b \in Accounts, s \in Accounts,
           buyerFee \in Int, sellerFee \in Int :
        /\ m \in book /\ m.sym = taker.sym /\ m.side = Opposite(taker.side)
        /\ Crosses(taker.side, taker.price, m.price)
        /\ n <= Fillable(m) /\ n <= taker.left
        /\ FillParties(m, n, b, s, buyerFee, sellerFee)
        /\ FillEffect(m, n, b, s, buyerFee, sellerFee,
               TradeRelease(m.id, Opposite(taker.side), n, OpenQty(m.id, n)))
  BY <1>1, FillStep
<1>3. PICK id \in OrderIds, a \in Accounts, sym \in Symbols :
        id = m.id /\ a = MakerAccount(m.id) /\ sym = taker.sym
  <2>1. m.id \in OrderIds /\ owner[m.id] # NoOwner /\ owner[m.id] \in OwnerRecord
        /\ owner[m.id].sym = m.sym
    BY <1>1, <1>2, RecordOf
  <2>2. MakerAccount(m.id) \in Accounts /\ taker.sym \in Symbols
    BY <1>2, <2>1 DEF OwnerRecord, MakerAccount
  <2>. QED  BY <2>1, <2>2
<1>4. /\ owner[id] # NoOwner /\ owner[id] \in OwnerRecord /\ n <= owner[id].qty
      /\ owner[id].acct = a /\ owner[id].sym = sym /\ owner[id].side = m.side
      /\ owner[id].qty = Remaining(m) /\ OpenQty(id, n) = owner[id].qty
  BY <1>1, <1>2, <1>3, RecordOf
<1>5. a \in Accounts /\ sym \in Symbols
  BY <1>4 DEF OwnerRecord
<1>6. PICK free : free = Freed(held[id], owner[id].side, n, owner[id].qty)
  OBVIOUS
<1>7. free = TradeRelease(m.id, Opposite(taker.side), n, OpenQty(m.id, n))
  BY <1>2, <1>3, <1>4, <1>6 DEF Freed, TradeRelease
<1>8. free \in Reserve
  <2>1. owner[id].qty \in Int
    BY <1>4 DEF OwnerRecord
  <2>2. TradeRelease(id, m.side, n, owner[id].qty) \in Reserve
    BY <1>1, <2>1, TradeReleaseType DEF EngineInv
  <2>. QED  BY <1>2, <1>3, <1>4, <1>7, <2>2
<1>9. PICK x \in Int, y \in Int, z \in Int : x = free.cash /\ y = free.short /\ z = free.qty
  BY <1>8 DEF Reserve
<1>10. /\ reserved' = Released(reserved, a, a, sym, x, y, z)
       /\ held' = Taken(held, id, id, x, z, y)
       /\ owner' = AuctionOwner(owner, id, n)
  <2>1. InBand(taker.sym, m.price)
    BY <1>3, <1>5 DEF OwnersInv, InBand
  <2>2. FilledOwner(m, n) = AuctionOwner(owner, m.id, n)
    BY <1>3, <1>4, FilledSame
  <2>. QED  BY <1>2, <1>3, <1>7, <1>9, <2>1, <2>2 DEF FillEffect, Released, Taken
<1>11. \A i \in Accounts :
         /\ reserved'[i].cash = reserved[i].cash - (IF i = a THEN x ELSE 0)
         /\ reserved'[i].short = reserved[i].short - (IF i = a THEN y ELSE 0)
         /\ \A w \in Symbols :
                reserved'[i].qty[w] = reserved[i].qty[w] - (IF i = a /\ w = sym THEN z ELSE 0)
  BY <1>1, <1>5, <1>10, ReleasedEntries
<1>12. \A k \in OrderIds :
             /\ held'[k].cash = held[k].cash - (IF k = id THEN x ELSE 0)
             /\ held'[k].qty = held[k].qty - (IF k = id THEN z ELSE 0)
             /\ held'[k].short = held[k].short - (IF k = id THEN y ELSE 0)
  BY <1>1, <1>10, HeldEntries
<1>13. FreesBoth(id, id, a, a, sym, x, y, z)
  BY <1>11, <1>12 DEF FreesBoth
<1>14. Freed(held[id], owner[id].side, n, owner[id].qty) = [cash |-> x, qty |-> z, short |-> y]
  BY <1>6, <1>9 DEF Freed
<1>15. owner[id].price = m.price /\ owner[id].side = Opposite(taker.side)
  BY <1>1, <1>2, <1>3, <1>4, InvBook DEF GoodBook, Claims
<1>16. Settle(sym, b, s, m.price, n, buyerFee, sellerFee) /\ taker' = [taker EXCEPT !.left = @ - n]
  BY <1>2, <1>3 DEF FillEffect
<1>17. Fills(m, id, a, sym, n, b, s, buyerFee, sellerFee, x, y, z)
  BY <1>2, <1>3, <1>4, <1>10, <1>13, <1>14, <1>15, <1>16, Zenon DEF Fills, Trades
<1>. QED  BY <1>2, <1>3, <1>9, <1>17

LEMMA FillReserves ==
    ASSUME TradeInv, OwnersInv, ReserveInv, ExecuteFill
    PROVE  ReserveInv'
<1>1. /\ EngineInv /\ EngineInv' /\ owner \in [OrderIds -> OwnerRecord \cup {NoOwner}]
      /\ held \in [OrderIds -> Reserve] /\ reserved \in [Accounts -> Balances]
      /\ held' \in [OrderIds -> Reserve]
  BY ExecuteFillInv DEF TradeInv, EngineInv, TypeOK, Balances
<1>2. PICK m \in book, id \in OrderIds, a \in Accounts, sym \in Symbols, n \in Nat \ {0},
           b \in Accounts, s \in Accounts, buyerFee \in Int, sellerFee \in Int,
           x \in Int, y \in Int, z \in Int :
               Fills(m, id, a, sym, n, b, s, buyerFee, sellerFee, x, y, z)
  BY FillTrades
<1>3. /\ owner[id] # NoOwner /\ owner[id] \in OwnerRecord /\ n <= owner[id].qty
      /\ owner[id].acct = a /\ owner[id].sym = sym
  BY <1>2 DEF Fills, Trades
<1>4. PICK free : free = Freed(held[id], owner[id].side, n, owner[id].qty)
  OBVIOUS
<1>5. x = free.cash /\ y = free.short /\ z = free.qty
  BY <1>2, <1>4 DEF Fills
<1>6. owner' = AuctionOwner(owner, id, n) /\ FreesBoth(id, id, a, a, sym, x, y, z)
  BY <1>2 DEF Fills
<1>7. \A i \in Accounts :
         /\ reserved'[i].cash = reserved[i].cash - (IF i = a THEN x ELSE 0)
         /\ reserved'[i].short = reserved[i].short - (IF i = a THEN y ELSE 0)
         /\ \A w \in Symbols :
                reserved'[i].qty[w] = reserved[i].qty[w] - (IF i = a /\ w = sym THEN z ELSE 0)
  BY <1>6 DEF FreesBoth
<1>8. \A k \in OrderIds :
             /\ held'[k].cash = held[k].cash - (IF k = id THEN x ELSE 0)
             /\ held'[k].qty = held[k].qty - (IF k = id THEN z ELSE 0)
             /\ held'[k].short = held[k].short - (IF k = id THEN y ELSE 0)
  BY <1>6 DEF FreesBoth
<1>9. /\ held'[id].cash = held[id].cash - free.cash
       /\ held'[id].qty = held[id].qty - free.qty
       /\ held'[id].short = held[id].short - free.short
       /\ \A i \in OrderIds \ {id} : /\ held'[i].cash = held[i].cash /\ held'[i].qty = held[i].qty
                                     /\ held'[i].short = held[i].short
  BY <1>1, <1>5, <1>8 DEF Reserve
<1>10. \A i \in Accounts : /\ reserved[i].cash \in Int /\ reserved[i].short \in Int
                           /\ \A w \in Symbols : reserved[i].qty[w] \in Int
  BY <1>1 DEF Balances
<1>11. /\ Backed(AuctionOwner(owner, id, n), held', reserved')
       /\ Holding(AuctionOwner(owner, id, n), held')
  <2>1. PICK G, Q : G = held' /\ Q = reserved'
    OBVIOUS
  <2>2. \A i \in Accounts :
         /\ Q[i].cash = reserved[i].cash - (IF i = owner[id].acct THEN free.cash ELSE 0)
         /\ Q[i].short = reserved[i].short - (IF i = owner[id].acct THEN free.short ELSE 0)
         /\ \A w \in Symbols : Q[i].qty[w] = reserved[i].qty[w]
                - (IF i = owner[id].acct /\ w = owner[id].sym THEN free.qty ELSE 0)
    BY <1>3, <1>5, <1>7, <2>1
  <2>3. Frees(owner, held, reserved, G, Q, id, n)
    BY <1>4, <1>9, <2>1, <2>2 DEF Frees
  <2>. QED  BY <1>1, <1>3, <1>10, <2>1, <2>3, TradeBacked DEF ReserveInv
<1>. QED  BY <1>6, <1>11, ReserveKept

\* Of what an auction trade frees, the cash is that of the bid, the rest of the ask.
LEMMA FreedSide ==
    ASSUME EngineInv, OwnersInv, NEW o \in book, NEW n \in Int,
           NEW free, free = TradeRelease(o.id, o.side, n, OpenQty(o.id, n))
    PROVE  /\ free \in Reserve
           /\ free = Freed(held[o.id], owner[o.id].side, n, owner[o.id].qty)
           /\ o.side = "Bid" => free.qty = 0 /\ free.short = 0
           /\ o.side = "Ask" => free.cash = 0
<1>1. /\ o.id \in OrderIds /\ owner[o.id] \in OwnerRecord /\ owner[o.id].side = o.side
      /\ owner[o.id].qty = Remaining(o) /\ OpenQty(o.id, n) = Remaining(o)
  BY RecordOf
<1>2. OpenQty(o.id, n) \in Int
  BY <1>1 DEF OwnerRecord
<1>3. free \in Reserve
  BY <1>1, <1>2, TradeReleaseType DEF EngineInv
<1>. QED  BY <1>1, <1>3 DEF Freed, TradeRelease

\* The order that is filled is of the auction price or better, like the one on display.
LEMMA FrontPriced ==
    ASSUME EngineInv, NEW side \in Sides, NEW o \in FillFront(side), ShownFront(side) # {},
           auction.price \in Int
    PROVE  ~Better(side, auction.price, o.price)
<1>1. PICK shown \in ShownFront(side) : ~Better(side, auction.price, shown.price)
  BY DEF ShownFront
<1>2. shown \in Resting(book, auction.sym, side) /\ o \in Resting(book, auction.sym, side)
  BY <1>1 DEF ShownFront, Front, TopLevel, FillFront
<1>3. /\ o \in BookOrder /\ shown \in BookOrder /\ o.side = side
  BY <1>2, InvBook DEF GoodBook, Resting
<1>4. o = shown \/ Ahead(o, shown)
  BY <1>2 DEF FillFront, Front
<1>5. o.price = shown.price \/ Better(side, o.price, shown.price)
  BY <1>3, <1>4 DEF Ahead
<1>. QED  BY <1>1, <1>3, <1>5 DEF Better, BookOrder

\* An auction trade of n units between the bid, of order id i, and the ask, of j.
Uncrosses(bid, ask, i, j, b, s, sym, n, buyerFee, sellerFee, x, y, z) ==
    /\ i = bid.id /\ j = ask.id /\ i # j /\ sym = auction.sym
    /\ Trades(i, b, sym, n) /\ owner[i].side = "Bid" /\ owner[i].price = bid.price
    /\ Trades(j, s, sym, n) /\ owner[j].side = "Ask" /\ auction.price <= bid.price
    /\ AuctionParties(n, bid, ask, b, s, buyerFee, sellerFee)
    /\ Settle(sym, b, s, auction.price, n, buyerFee, sellerFee)
    /\ Freed(held[i], owner[i].side, n, owner[i].qty) = [cash |-> x, qty |-> 0, short |-> 0]
    /\ Freed(held[j], owner[j].side, n, owner[j].qty) = [cash |-> 0, qty |-> z, short |-> y]
    /\ owner' = AuctionOwner(AuctionOwner(owner, i, n), j, n)
    /\ FreesBoth(i, j, b, s, sym, x, y, z)

LEMMA AuctionTrades ==
    ASSUME TradeInv, OwnersInv, AuctionTrade
    PROVE  \E bid \in book, ask \in book, i \in OrderIds, j \in OrderIds, b \in Accounts,
              s \in Accounts, sym \in Symbols, n \in Nat \ {0}, buyerFee \in Int, sellerFee \in Int,
              x \in Int, y \in Int, z \in Int :
                  Uncrosses(bid, ask, i, j, b, s, sym, n, buyerFee, sellerFee, x, y, z)
<1>1. /\ EngineInv /\ EngineInv' /\ owner \in [OrderIds -> OwnerRecord \cup {NoOwner}]
      /\ held \in [OrderIds -> Reserve] /\ reserved \in [Accounts -> Balances]
      /\ held' \in [OrderIds -> Reserve] /\ GoodBook(book)
  BY AuctionTradeInv, InvBook DEF TradeInv, EngineInv, TypeOK, Balances
<1>2. PICK n \in Nat \ {0}, bid \in FillFront("Bid"), ask \in FillFront("Ask"),
           kb \in Nat \ {0}, ka \in Nat \ {0}, b \in Accounts, s \in Accounts,
           buyerFee \in Int, sellerFee \in Int :
        /\ bid \in book /\ bid.sym = auction.sym /\ bid.side = "Bid"
        /\ ask \in book /\ ask.sym = auction.sym /\ ask.side = "Ask"
        /\ Gives(bid, kb, n) /\ Gives(ask, ka, n)
        /\ (\E shown \in ShownFront("Bid") : n <= shown.qty)
        /\ (\E shown \in ShownFront("Ask") : n <= shown.qty)
        /\ AuctionParties(n, bid, ask, b, s, buyerFee, sellerFee)
        /\ AuctionEffect(n, bid, ask, b, s, buyerFee, sellerFee)
  BY <1>1, AuctionStep
<1>3. n <= Fillable(bid) /\ n <= Fillable(ask)
  <2>1. bid.kind # "Hidden" /\ ask.kind # "Hidden"
    BY <1>2 DEF OwnersInv, AuctionTrade
  <2>. QED  BY <1>2, <2>1 DEF Gives
<1>4. PICK i \in OrderIds, j \in OrderIds, sym \in Symbols :
        i = bid.id /\ j = ask.id /\ sym = auction.sym
  BY <1>1, <1>2, RecordOf DEF GoodBook, BookOrder
<1>5. i # j
  BY <1>1, <1>2, <1>4 DEF GoodBook, Distinct
<1>6. /\ owner[i] # NoOwner /\ owner[i] \in OwnerRecord /\ n <= owner[i].qty
      /\ owner[i].acct = b /\ owner[i].sym = sym
      /\ owner[j] # NoOwner /\ owner[j] \in OwnerRecord /\ n <= owner[j].qty
      /\ owner[j].acct = s /\ owner[j].sym = sym
  BY <1>1, <1>2, <1>3, <1>4, RecordOf DEF AuctionParties
<1>7. PICK fb, fa : /\ fb = TradeRelease(bid.id, bid.side, n, OpenQty(bid.id, n))
                    /\ fa = TradeRelease(ask.id, ask.side, n, OpenQty(ask.id, n))
  OBVIOUS
<1>8. /\ fb \in Reserve /\ fb = Freed(held[i], owner[i].side, n, owner[i].qty)
      /\ fb.qty = 0 /\ fb.short = 0
      /\ fa \in Reserve /\ fa = Freed(held[j], owner[j].side, n, owner[j].qty)
      /\ fa.cash = 0
  BY <1>1, <1>2, <1>4, <1>7, FreedSide
<1>9. PICK x \in Int, y \in Int, z \in Int : x = fb.cash /\ y = fa.short /\ z = fa.qty
  BY <1>8 DEF Reserve
<1>10. /\ reserved' = Released(reserved, b, s, sym, x, y, z)
       /\ held' = Taken(held, i, j, x, z, y)
       /\ owner' = AuctionOwner(AuctionOwner(owner, i, n), j, n)
  BY <1>2, <1>4, <1>7, <1>9 DEF AuctionEffect, Released, Taken
<1>11. FreesBoth(i, j, b, s, sym, x, y, z)
  <2>1. \A k \in OrderIds : /\ held'[k].cash = held[k].cash - (IF k = i THEN x ELSE 0)
                             /\ held'[k].qty = held[k].qty - (IF k = j THEN z ELSE 0)
                             /\ held'[k].short = held[k].short - (IF k = j THEN y ELSE 0)
    BY <1>1, <1>10, HeldEntries
  <2>2. \A a \in Accounts :
          /\ reserved'[a].cash = reserved[a].cash - (IF a = b THEN x ELSE 0)
          /\ reserved'[a].short = reserved[a].short - (IF a = s THEN y ELSE 0)
          /\ \A w \in Symbols :
                reserved'[a].qty[w] = reserved[a].qty[w] - (IF a = s /\ w = sym THEN z ELSE 0)
    BY <1>1, <1>10, ReleasedEntries
  <2>. QED  BY <2>1, <2>2 DEF FreesBoth
<1>12. auction.price <= bid.price
  <2>1. auction.price \in Int
    BY <1>1, <1>2 DEF EngineInv, TypeOK, AuctionTrade
  <2>2. ~Better("Bid", auction.price, bid.price)
    BY <1>1, <1>2, <2>1, FrontPriced DEF Sides
  <2>. QED  BY <1>1, <1>2, <2>1, <2>2 DEF Better, GoodBook, BookOrder
<1>13. owner[i].side = "Bid" /\ owner[i].price = bid.price /\ owner[j].side = "Ask"
  BY <1>1, <1>2, <1>4, InvBook DEF GoodBook, Claims
<1>14. /\ Freed(held[i], owner[i].side, n, owner[i].qty) = [cash |-> x, qty |-> 0, short |-> 0]
       /\ Freed(held[j], owner[j].side, n, owner[j].qty) = [cash |-> 0, qty |-> z, short |-> y]
  BY <1>8, <1>9, <1>13 DEF Freed
<1>15. Settle(sym, b, s, auction.price, n, buyerFee, sellerFee)
  BY <1>2, <1>4 DEF AuctionEffect
<1>16. Uncrosses(bid, ask, i, j, b, s, sym, n, buyerFee, sellerFee, x, y, z)
  BY <1>2, <1>4, <1>5, <1>6, <1>10, <1>11, <1>12, <1>13, <1>14, <1>15, Zenon DEF Uncrosses, Trades
<1>. QED  BY <1>2, <1>4, <1>9, <1>16

LEMMA AuctionReserves ==
    ASSUME TradeInv, OwnersInv, ReserveInv, AuctionTrade
    PROVE  ReserveInv'
<1>1. /\ EngineInv /\ EngineInv' /\ owner \in [OrderIds -> OwnerRecord \cup {NoOwner}]
      /\ held \in [OrderIds -> Reserve] /\ reserved \in [Accounts -> Balances]
      /\ held' \in [OrderIds -> Reserve]
  BY AuctionTradeInv DEF TradeInv, EngineInv, TypeOK, Balances
<1>2. PICK bid \in book, ask \in book, i \in OrderIds, j \in OrderIds, b \in Accounts,
           s \in Accounts, sym \in Symbols, n \in Nat \ {0}, buyerFee \in Int, sellerFee \in Int,
           x \in Int, y \in Int, z \in Int :
               Uncrosses(bid, ask, i, j, b, s, sym, n, buyerFee, sellerFee, x, y, z)
  BY AuctionTrades
<1>3. i # j
  BY <1>2 DEF Uncrosses
<1>4. /\ owner[i] # NoOwner /\ owner[i] \in OwnerRecord /\ n <= owner[i].qty
      /\ owner[i].acct = b /\ owner[i].sym = sym
      /\ owner[j] # NoOwner /\ owner[j] \in OwnerRecord /\ n <= owner[j].qty
      /\ owner[j].acct = s /\ owner[j].sym = sym
  BY <1>2 DEF Uncrosses, Trades
<1>5. PICK fb, fa : /\ fb = Freed(held[i], owner[i].side, n, owner[i].qty)
                    /\ fa = Freed(held[j], owner[j].side, n, owner[j].qty)
  OBVIOUS
<1>6. /\ fb.cash = x /\ fb.qty = 0 /\ fb.short = 0
      /\ fa.cash = 0 /\ fa.qty = z /\ fa.short = y
  BY <1>2, <1>5 DEF Uncrosses
<1>7. x = fb.cash /\ y = fa.short /\ z = fa.qty
  BY <1>6
<1>8. owner' = AuctionOwner(AuctionOwner(owner, i, n), j, n)
       /\ FreesBoth(i, j, b, s, sym, x, y, z)
  BY <1>2 DEF Uncrosses
<1>9. PICK o \in Int : o = 0
  OBVIOUS
<1>10. PICK O, H, R : /\ O = AuctionOwner(owner, i, n)
                      /\ H = Taken(held, i, i, x, o, o)
                      /\ R = Released(reserved, b, b, sym, x, o, o)
  OBVIOUS
<1>11. /\ O \in [OrderIds -> OwnerRecord \cup {NoOwner}] /\ O[j] = owner[j]
       /\ H \in [OrderIds -> Reserve] /\ R \in [Accounts -> Balances]
  <2>1. O \in [OrderIds -> OwnerRecord \cup {NoOwner}] /\ O[j] = owner[j]
    BY <1>1, <1>3, <1>4, <1>10, TradedRecord
  <2>2. [held EXCEPT ![i].cash = @ - x, ![i].qty = @ - o, ![i].short = @ - o]
            \in [OrderIds -> Reserve]
    BY <1>1, HeldReleased
  <2>3. [reserved EXCEPT ![b].cash = @ - x, ![b].short = @ - o, ![b].qty[sym] = @ - o]
            \in [Accounts -> Balances]
    BY <1>1, ReservedReleased
  <2>. QED  BY <1>10, <2>1, <2>2, <2>3 DEF Taken, Released
<1>12. \A k \in OrderIds : /\ H[k].cash = held[k].cash - (IF k = i THEN x ELSE 0)
                           /\ H[k].qty = held[k].qty /\ H[k].short = held[k].short
  <2>1. \A k \in OrderIds : /\ H[k].cash = held[k].cash - (IF k = i THEN x ELSE 0)
                            /\ H[k].qty = held[k].qty - (IF k = i THEN o ELSE 0)
                            /\ H[k].short = held[k].short - (IF k = i THEN o ELSE 0)
    BY <1>1, <1>10, HeldEntries
  <2>. QED  BY <1>1, <1>9, <2>1 DEF Reserve
<1>13. \A a \in Accounts : /\ R[a].cash = reserved[a].cash - (IF a = b THEN x ELSE 0)
                           /\ R[a].short = reserved[a].short
                           /\ \A w \in Symbols : R[a].qty[w] = reserved[a].qty[w]
  <2>1. \A a \in Accounts :
           /\ R[a].cash = reserved[a].cash - (IF a = b THEN x ELSE 0)
           /\ R[a].short = reserved[a].short - (IF a = b THEN o ELSE 0)
           /\ \A w \in Symbols :
                R[a].qty[w] = reserved[a].qty[w] - (IF a = b /\ w = sym THEN o ELSE 0)
    BY <1>1, <1>10, ReleasedEntries
  <2>. QED  BY <1>1, <1>9, <2>1 DEF Balances
<1>14. \A k \in OrderIds : /\ held'[k].cash = held[k].cash - (IF k = i THEN x ELSE 0)
                           /\ held'[k].qty = held[k].qty - (IF k = j THEN z ELSE 0)
                           /\ held'[k].short = held[k].short - (IF k = j THEN y ELSE 0)
  BY <1>8 DEF FreesBoth
<1>15. \A a \in Accounts :
          /\ reserved'[a].cash = reserved[a].cash - (IF a = b THEN x ELSE 0)
          /\ reserved'[a].short = reserved[a].short - (IF a = s THEN y ELSE 0)
          /\ \A w \in Symbols :
                reserved'[a].qty[w] = reserved[a].qty[w] - (IF a = s /\ w = sym THEN z ELSE 0)
  BY <1>8 DEF FreesBoth
<1>16. \A a \in Accounts : /\ reserved[a].cash \in Int /\ reserved[a].short \in Int
                           /\ \A w \in Symbols : reserved[a].qty[w] \in Int
                           /\ R[a].cash \in Int /\ R[a].short \in Int
                           /\ \A w \in Symbols : R[a].qty[w] \in Int
  BY <1>1, <1>11 DEF Balances
<1>17. \A k \in OrderIds : /\ held[k].cash \in Int /\ held[k].qty \in Int /\ held[k].short \in Int
                           /\ H[k].cash \in Int /\ H[k].qty \in Int /\ H[k].short \in Int
  BY <1>1, <1>11 DEF Reserve
<1>18. Frees(owner, held, reserved, H, R, i, n)
  <2>1. /\ H[i].cash = held[i].cash - fb.cash /\ H[i].qty = held[i].qty - fb.qty
        /\ H[i].short = held[i].short - fb.short
    BY <1>6, <1>7, <1>12, <1>17
  <2>2. \A k \in OrderIds \ {i} : /\ H[k].cash = held[k].cash /\ H[k].qty = held[k].qty
                                  /\ H[k].short = held[k].short
    BY <1>12, <1>17
  <2>3. \A a \in Accounts :
           /\ R[a].cash = reserved[a].cash - (IF a = owner[i].acct THEN fb.cash ELSE 0)
           /\ R[a].short = reserved[a].short - (IF a = owner[i].acct THEN fb.short ELSE 0)
           /\ \A w \in Symbols : R[a].qty[w] = reserved[a].qty[w]
                  - (IF a = owner[i].acct /\ w = owner[i].sym THEN fb.qty ELSE 0)
    BY <1>4, <1>6, <1>7, <1>13, <1>16
  <2>. QED  BY <1>5, <1>6, <2>1, <2>2, <2>3 DEF Frees
<1>19. Backed(O, H, R) /\ Holding(O, H)
  BY <1>1, <1>4, <1>10, <1>11, <1>16, <1>18, TradeBacked DEF ReserveInv
<1>20. PICK G, Q : G = held' /\ Q = reserved'
  OBVIOUS
<1>21. Frees(O, H, R, G, Q, j, n)
  <2>1. /\ G[j].cash = H[j].cash - fa.cash /\ G[j].qty = H[j].qty - fa.qty
        /\ G[j].short = H[j].short - fa.short
    BY <1>3, <1>6, <1>7, <1>12, <1>14, <1>17, <1>20
  <2>2. \A k \in OrderIds \ {j} : /\ G[k].cash = H[k].cash /\ G[k].qty = H[k].qty
                                  /\ G[k].short = H[k].short
    BY <1>12, <1>14, <1>17, <1>20
  <2>3. \A a \in Accounts :
           /\ Q[a].cash = R[a].cash - (IF a = O[j].acct THEN fa.cash ELSE 0)
           /\ Q[a].short = R[a].short - (IF a = O[j].acct THEN fa.short ELSE 0)
           /\ \A w \in Symbols : Q[a].qty[w] = R[a].qty[w]
                  - (IF a = O[j].acct /\ w = O[j].sym THEN fa.qty ELSE 0)
    BY <1>4, <1>6, <1>7, <1>11, <1>13, <1>15, <1>16, <1>20
  <2>4. fa = Freed(H[j], O[j].side, n, O[j].qty)
    <3>1. H[j].cash = held[j].cash /\ H[j].qty = held[j].qty /\ H[j].short = held[j].short
      BY <1>3, <1>12, <1>17
    <3>. QED  BY <1>5, <1>11, <3>1 DEF Freed
  <2>. QED  BY <2>1, <2>2, <2>3, <2>4 DEF Frees
<1>22. Backed(AuctionOwner(O, j, n), G, Q) /\ Holding(AuctionOwner(O, j, n), G)
  BY <1>1, <1>4, <1>11, <1>16, <1>19, <1>20, <1>21, TradeBacked
<1>. QED  BY <1>8, <1>10, <1>20, <1>22, ReserveKept

LEMMA ReserveNext ==
    ASSUME TradeInv, OwnersInv, ReserveInv, [Next]_vars
    PROVE  ReserveInv'
<1>1. CASE UNCHANGED <<book, owner, held, reserved>>
  <2>1. /\ Field(held', "cash") = Field(held, "cash") /\ Field(held', "short") = Field(held, "short")
        /\ Field(held', "qty") = Field(held, "qty")
    BY <1>1 DEF Field
  <2>2. owner' = owner /\ held' = held /\ reserved' = reserved
    BY <1>1
  <2>. QED  BY <2>2, ZenonT(30) DEF ReserveInv
<1>2. CASE \E a \in Accounts, id \in OrderIds : \E o \in InBook(id) :
             pc = "idle" /\ owner[id] # NoOwner /\ owner[id].acct = a /\ Withdraw(a, id, o)
  BY <1>2, WithdrawReserves DEF TradeInv
<1>3. CASE FinishOrder /\ RemainderRests(taker) /\ RestTaker
  BY <1>3, RestReserves
<1>. QED  BY <1>1, <1>2, <1>3, FillReserves, AuctionReserves, TableMoves

\* The reserves of the accounts and of the orders move together.
LEMMA ReserveInvariant == ASSUME NoBands, PlainAuctions PROVE Spec => []ReserveInv
<1>1. Init => ReserveInv
  <2>. SUFFICES ASSUME Init PROVE ReserveInv
    OBVIOUS
  <2>1. \A id \in OrderIds : /\ owner[id] = NoOwner /\ held[id].cash = 0 /\ held[id].qty = 0
                             /\ held[id].short = 0
    BY DEF Init, NoCredit
  <2>2. IsFiniteSet({})
    BY FS_EmptySet
  <2>3. \A f : SumFunctionOnSet(f, {}) = 0
    BY <2>2, SumZero
  <2>4. \A a \in Accounts : Mine(owner, a) = {} /\ \A s \in Symbols : MineIn(owner, a, s) = {}
    BY <2>1 DEF Mine, MineIn
  <2>5. \A a \in Accounts : /\ reserved[a].cash = 0 /\ reserved[a].short = 0
                            /\ \A s \in Symbols : reserved[a].qty[s] = 0
    BY DEF Init
  <2>6. Backed(owner, held, reserved)
    BY <2>1, <2>3, <2>4, <2>5 DEF Backed
  <2>7. Holding(owner, held)
    BY <2>1 DEF Holding
  <2>. QED  BY <2>6, <2>7 DEF ReserveInv
<1>2. TradeInv /\ OwnersInv /\ ReserveInv /\ [Next]_vars => ReserveInv'
  BY ReserveNext
<1>. QED  BY <1>1, <1>2, OwnersInvariant, TradeInvariant, PTL DEF Spec

\* Reserves are exact and never negative (assert_invariants): what an account has blocked
\* is the sum of what its resting orders hold (reserved_cash_by_order_id_ and its two
\* companions), however they were filled, and an order that is gone holds nothing.
THEOREM ReservesAlwaysBacked ==
    ASSUME NoBands, PlainAuctions
    PROVE  Spec => []ReservesBacked
<1>1. TradeInv /\ ReserveInv => ReservesBacked
  <2>. SUFFICES ASSUME TradeInv, ReserveInv PROVE ReservesBacked
    OBVIOUS
  <2>1. held \in [OrderIds -> Reserve]
    BY DEF TradeInv, EngineInv, TypeOK
  <2>2. ASSUME NEW id \in OrderIds, owner[id] = NoOwner
        PROVE  held[id] = NoCredit
    BY <2>1, <2>2 DEF ReserveInv, Backed, Reserve, NoCredit
  <2>3. \A a \in Accounts : /\ Mine(owner, a) = OwnedBy(a)
                            /\ \A s \in Symbols : MineIn(owner, a, s) =
                                   {id \in OwnedBy(a) : owner[id].sym = s}
    BY DEF Mine, MineIn, OwnedBy
  <2>4. /\ Field(held, "cash") = [id \in OrderIds |-> held[id].cash]
        /\ Field(held, "short") = [id \in OrderIds |-> held[id].short]
        /\ Field(held, "qty") = [id \in OrderIds |-> held[id].qty]
    BY DEF Field
  <2>5. \A id \in OrderIds :
           /\ held[id].cash >= 0 /\ held[id].qty >= 0 /\ held[id].short >= 0
           /\ owner[id] = NoOwner => held[id] = NoCredit
    BY <2>2 DEF ReserveInv, Backed, Holding
  <2>6. \A a \in Accounts :
           /\ reserved[a].cash = SumFunctionOnSet(Field(held, "cash"), Mine(owner, a))
           /\ reserved[a].short = SumFunctionOnSet(Field(held, "short"), Mine(owner, a))
           /\ \A s \in Symbols : reserved[a].qty[s] =
                SumFunctionOnSet(Field(held, "qty"), MineIn(owner, a, s))
    BY Zenon DEF ReserveInv, Backed
  <2>7. \A a \in Accounts :
           /\ reserved[a].cash =
                SumFunctionOnSet([id \in OrderIds |-> held[id].cash], OwnedBy(a))
           /\ reserved[a].short =
                SumFunctionOnSet([id \in OrderIds |-> held[id].short], OwnedBy(a))
           /\ \A s \in Symbols : reserved[a].qty[s] =
                SumFunctionOnSet([id \in OrderIds |-> held[id].qty],
                                 {id \in OwnedBy(a) : owner[id].sym = s})
    BY <2>3, <2>4, <2>6, ZenonT(30)
  <2>. QED  BY <2>5, <2>7, Zenon DEF ReservesBacked
<1>. QED  BY <1>1, ReserveInvariant, TradeInvariant, PTL

-----------------------------------------------------------------------------
(* What is promised is there: units, cash and margin of resting orders.     *)

\* A top-up takes nothing away.
LEMMA ToppedUpMore ==
    ASSUME TypeOK, NEW a \in Accounts, NEW sym \in Symbols
    PROVE  \A b \in Accounts : /\ ToppedUpCash(a)[b] >= cash[b]
                               /\ b # DefaultAccount => ToppedUpCash(a)[b] = cash[b]
                               /\ \A s \in Symbols : ToppedUpPosition(a, sym)[b][s] >= position[b][s]
<1>1. cash \in [Accounts -> Int] /\ position \in [Accounts -> [Symbols -> Int]]
  BY DEF TypeOK
<1>2. LegacyCash \in Int /\ LegacyPosition \in Int
  BY AccountsAssumption
<1>3. \A b \in Accounts : /\ ToppedUpCash(a)[b] >= cash[b]
                          /\ b # DefaultAccount => ToppedUpCash(a)[b] = cash[b]
  BY <1>1, <1>2 DEF ToppedUpCash, Greater
<1>4. ASSUME NEW b \in Accounts, NEW s \in Symbols
      PROVE  ToppedUpPosition(a, sym)[b][s] >= position[b][s]
  <2>1. CASE b = a /\ s = sym /\ a = DefaultAccount
    BY <1>1, <1>2, <2>1 DEF ToppedUpPosition, Greater
  <2>2. CASE ~(b = a /\ s = sym /\ a = DefaultAccount)
    BY <1>1, <2>2 DEF ToppedUpPosition
  <2>. QED  BY <2>1, <2>2
<1>. QED  BY <1>3, <1>4

\* A step that leaves the tables of orders alone and takes nothing from an account; an
\* order that is matched after it was matched before.
Keeps ==
    /\ UNCHANGED <<owner, held, reserved>>
    /\ \A a \in Accounts : /\ cash'[a] >= cash[a]
                           /\ \A s \in Symbols : position'[a][s] >= position[a][s]
    /\ \/ pc' \notin {"match", "rest"}
       \/ pc \in {"match", "rest"} /\ taker' = taker

\* A step that keeps all funds and is not about an order being matched.
LEMMA KeepsFunds ==
    ASSUME EngineInv, UNCHANGED <<owner, funds>>,
           \/ pc' \notin {"match", "rest"}
           \/ pc \in {"match", "rest"} /\ taker' = taker
    PROVE  Keeps
<1>1. /\ cash \in [Accounts -> Int] /\ position \in [Accounts -> [Symbols -> Int]]
  BY DEF EngineInv, TypeOK
<1>2. owner' = owner /\ held' = held /\ reserved' = reserved /\ cash' = cash /\ position' = position
  BY DEF funds
<1>3. \A a \in Accounts : /\ cash'[a] >= cash[a]
                          /\ \A s \in Symbols : position'[a][s] >= position[a][s]
  BY <1>1, <1>2
<1>. QED  BY <1>2, <1>3 DEF Keeps

\* What the steps do to accounts and tables.
LEMMA AccountMoves ==
    ASSUME EngineInv, [Next]_vars
    PROVE  \/ Keeps
           \/ /\ StateChoices # {} /\ UNCHANGED <<owner, held, reserved>>
              /\ pc' \notin {"match", "rest"}
           \/ AdmitOrder
           \/ ExecuteFill
           \/ AuctionTrade
           \/ FinishOrder /\ RemainderRests(taker) /\ RestTaker
           \/ \E a \in Accounts, id \in OrderIds : \E o \in InBook(id) :
                  /\ owner[id] # NoOwner /\ owner[id].acct = a /\ Withdraw(a, id, o)
                  /\ UNCHANGED <<cash, position>> /\ pc' \notin {"match", "rest"}
<1>1. CASE Submission
  <2>1. ASSUME NEW r \in StopRequests, SubmitStop(r)
        PROVE  Keeps
    <3>1. r.acct \in Accounts /\ r.sym \in Symbols
      BY RequestsAssumption
    <3>2. /\ cash' = cash \/ cash' = ToppedUpCash(r.acct)
          /\ position' = position \/ position' = ToppedUpPosition(r.acct, r.sym)
          /\ UNCHANGED <<owner, held, reserved>> /\ pc' = "evaluate"
      BY <2>1 DEF SubmitStop
    <3>3. /\ cash \in [Accounts -> Int] /\ position \in [Accounts -> [Symbols -> Int]]
      BY DEF EngineInv, TypeOK
    <3>. QED  BY <3>1, <3>2, <3>3, ToppedUpMore DEF Keeps, EngineInv
  <2>2. ASSUME NEW r \in OrderRequests, SubmitOrder(r)
        PROVE  Keeps
    BY <2>2, KeepsFunds DEF SubmitOrder
  <2>3. ASSUME NEW r \in MarketRequests, SubmitMarket(r)
        PROVE  Keeps
    BY <2>3, KeepsFunds DEF SubmitMarket, PlaceMarket
  <2>. QED  BY <1>1, <2>1, <2>2, <2>3 DEF Submission
<1>2. CASE Amendment
  <2>1. ASSUME NEW a \in Accounts, NEW st \in stops, CancelStop(a, st)
        PROVE  Keeps
    BY <2>1, KeepsFunds DEF CancelStop, control
  <2>2. ASSUME NEW a \in Accounts, NEW id \in OrderIds, Cancel(a, id)
        PROVE  \E o \in InBook(id) :
                  /\ owner[id] # NoOwner /\ owner[id].acct = a /\ Withdraw(a, id, o)
                  /\ UNCHANGED <<cash, position>> /\ pc' \notin {"match", "rest"}
    BY <2>2 DEF Cancel, control
  <2>3. ASSUME NEW a \in Accounts, NEW id \in OrderIds, NEW r \in Amendments, Replace(a, id, r)
        PROVE  \/ Keeps
               \/ \E o \in InBook(id) :
                     /\ owner[id] # NoOwner /\ owner[id].acct = a /\ Withdraw(a, id, o)
                     /\ UNCHANGED <<cash, position>> /\ pc' \notin {"match", "rest"}
    <3>1. pc' = "place" /\ UNCHANGED <<cash, position>> /\ owner[id] # NoOwner /\ owner[id].acct = a
      BY <2>3 DEF Replace
    <3>2. \/ \E o \in InBook(id) : Withdraw(a, id, o)
          \/ UNCHANGED <<reserved, held, owner>>
      BY <2>3, Zenon DEF Replace
    <3>3. CASE UNCHANGED <<reserved, held, owner>>
      BY <3>1, <3>3, KeepsFunds DEF funds
    <3>. QED  BY <3>1, <3>2, <3>3
  <2>4. ASSUME NEW a \in Accounts, NEW st \in stops, NEW r \in StopAmendments,
               ReplaceStop(a, st, r)
        PROVE  Keeps
    <3>1. pc' = "evaluate" /\ UNCHANGED <<owner, funds>>
      BY <2>4, Zenon DEF ReplaceStop
    <3>. QED  BY <3>1, KeepsFunds
  <2>. QED  BY <1>2, <2>1, <2>2, <2>3, <2>4 DEF Amendment
<1>3. CASE MarketControl
  <2>1. UNCHANGED <<owner, funds>> /\ pc' \notin {"match", "rest"}
    BY <1>3 DEF MarketControl, StartUncross, HaltSymbol, ResumeSymbol, SetTradingPhase,
       SetPriceBands, ClearPriceBands, ChangePhase, ChangeBand, control
  <2>. QED  BY <2>1, KeepsFunds
<1>4. CASE Setting
  <2>1. CASE \E new \in FeeChoices : SetFeeModel(new)
    <3>1. UNCHANGED <<owner, funds>> /\ pc' \notin {"match", "rest"}
      BY <2>1 DEF SetFeeModel, control
    <3>. QED  BY <3>1, KeepsFunds
  <2>2. CASE \E a \in Accounts, new \in RiskChoices : SetAccountRiskConfig(a, new)
    <3>1. UNCHANGED <<owner, funds>> /\ pc' \notin {"match", "rest"}
      BY <2>2 DEF SetAccountRiskConfig, control
    <3>. QED  BY <3>1, KeepsFunds
  <2>3. CASE \E a \in Accounts, sym \in Symbols, new \in StateChoices : SetAccountState(a, sym, new)
    BY <2>3 DEF SetAccountState, control
  <2>. QED  BY <1>4, <2>1, <2>2, <2>3 DEF Setting
<1>5. CASE Internal
  <2>1. CASE RefuseOrder
    <3>1. taker.acct \in Accounts /\ taker.sym \in Symbols
      BY <2>1, TakerOrderType DEF RefuseOrder, Placing, TakerRecord
    <3>2. /\ cash' = cash \/ cash' = ToppedUpCash(taker.acct)
          /\ position' = position \/ position' = ToppedUpPosition(taker.acct, taker.sym)
          /\ UNCHANGED <<owner, held, reserved>> /\ pc' \notin {"match", "rest"}
      BY <2>1 DEF RefuseOrder, OrderDone, AfterOrder
    <3>3. /\ cash \in [Accounts -> Int] /\ position \in [Accounts -> [Symbols -> Int]]
      BY DEF EngineInv, TypeOK
    <3>. QED  BY <3>1, <3>2, <3>3, ToppedUpMore DEF Keeps, EngineInv
  <2>2. CASE FinishOrder
    <3>1. CASE RemainderRests(taker)
      BY <2>2, <3>1 DEF FinishOrder
    <3>2. CASE ~RemainderRests(taker)
      <4>1. UNCHANGED <<owner, funds>> /\ pc' \notin {"match", "rest"}
        BY <2>2, <3>2 DEF FinishOrder, funds, OrderDone, AfterOrder
      <4>. QED  BY <4>1, KeepsFunds
    <3>. QED  BY <3>1, <3>2
  <2>3. CASE ScanStops \/ TriggerStop \/ EndPass \/ EndUncross
    <3>1. UNCHANGED <<owner, funds>> /\ pc' \notin {"match", "rest"}
      BY <2>3 DEF ScanStops, TriggerStop, EndPass, AfterPass, EndUncross, PlaceMarket
    <3>. QED  BY <3>1, KeepsFunds
  <2>. QED  BY <1>5, <2>1, <2>2, <2>3 DEF Internal
<1>6. CASE UNCHANGED vars
  BY <1>6, KeepsFunds DEF vars, control
<1>. QED  BY <1>1, <1>2, <1>3, <1>4, <1>5, <1>6 DEF Next, Inspect

\* Without changes of the rules every account keeps those it started with.
LEMMA RiskKept ==
    ASSUME [Next]_vars, RiskChoices = {}
    PROVE  risk' = risk
BY ZenonT(30) DEF Next, Submission, SubmitOrder, SubmitMarket, SubmitStop, Amendment, CancelStop, Cancel,
   Replace, ReplaceStop, MarketControl, StartUncross, HaltSymbol, ResumeSymbol, SetTradingPhase,
   SetPriceBands, ClearPriceBands, ChangePhase, ChangeBand, Setting, SetFeeModel,
   SetAccountRiskConfig, SetAccountState, Internal, RefuseOrder, AdmitOrder, ExecuteFill,
   FinishOrder, ScanStops, TriggerStop, EndPass, AuctionTrade, EndUncross, Inspect, settings, vars

\* The free units of the ask being matched, and the blocked ones of the asks that rest.
AskFree(t, p, r) == p[t.acct][t.sym] - r[t.acct].qty[t.sym] >= t.left
AsksBlocked(O, H) ==
    \A id \in OrderIds :
        O[id] # NoOwner /\ O[id].side = "Ask" /\ ~risk[O[id].acct].short => H[id].qty = O[id].qty

\* Of what is blocked for orders, z units go with the trade of n units of one of them.
UnitsLess(O, H, G, id, n, z) ==
    /\ z = Freed(H[id], O[id].side, n, O[id].qty).qty
    /\ \A k \in OrderIds : G[k].qty = H[k].qty - (IF k = id THEN z ELSE 0)

\* A trade takes from an ask and from what it has blocked alike.
LEMMA TradeAsks ==
    ASSUME NEW O \in [OrderIds -> OwnerRecord \cup {NoOwner}], NEW H \in [OrderIds -> Reserve],
           NEW G, NEW id \in OrderIds, O[id] # NoOwner, NEW n \in Nat \ {0}, n <= O[id].qty,
           AsksBlocked(O, H), NEW z, UnitsLess(O, H, G, id, n, z)
    PROVE  /\ AsksBlocked(AuctionOwner(O, id, n), G)
           /\ O[id].side = "Ask" /\ ~risk[O[id].acct].short => z = n
           /\ O[id].side = "Bid" => z = 0
<1>1. PICK P : P = AuctionOwner(O, id, n)
  OBVIOUS
<1>2. /\ \A k \in OrderIds \ {id} : P[k] = O[k]
      /\ P[id] # NoOwner => /\ P[id].qty = O[id].qty - n /\ P[id].acct = O[id].acct
                            /\ P[id].side = O[id].side
  BY <1>1, TradedRecord
<1>3. O[id] \in OwnerRecord /\ O[id].qty \in Int
  BY DEF OwnerRecord
<1>4. z = IF O[id].side = "Ask" THEN Lesser(H[id].qty, n) ELSE 0
  BY DEF Freed, UnitsLess
<1>5. \A k \in OrderIds : H[k].qty \in Int
  BY DEF Reserve
<1>6. O[id].side = "Ask" /\ ~risk[O[id].acct].short => z = n
  BY <1>3, <1>4, <1>5 DEF AsksBlocked, Lesser
<1>7. ASSUME NEW k \in OrderIds, P[k] # NoOwner, P[k].side = "Ask", ~risk[P[k].acct].short
      PROVE  G[k].qty = P[k].qty
  <2>1. CASE k = id
    BY <1>2, <1>3, <1>5, <1>6, <1>7, <2>1 DEF AsksBlocked, UnitsLess
  <2>2. CASE k # id
    BY <1>2, <1>5, <1>7, <2>2 DEF AsksBlocked, UnitsLess
  <2>. QED  BY <2>1, <2>2
<1>8. AsksBlocked(P, G)
  BY <1>7, Zenon DEF AsksBlocked
<1>. QED  BY <1>1, <1>4, <1>6, <1>8

\* What risk promises of an ask when it is placed, and what each move does to that.
LEMMA AsksNext ==
    ASSUME TradeInv, OwnersInv, ReserveInv, AsksInv, [Next]_vars, RiskChoices = {}
    PROVE  AsksInv'
<1>1. /\ owner \in [OrderIds -> OwnerRecord \cup {NoOwner}] /\ held \in [OrderIds -> Reserve]
      /\ reserved \in [Accounts -> Balances] /\ position \in [Accounts -> [Symbols -> Int]]
      /\ cash \in [Accounts -> Int] /\ EngineInv
  BY DEF TradeInv, EngineInv, TypeOK, Balances
<1>2. risk' = risk /\ risk' = StartRisk /\ risk = StartRisk
  BY RiskKept DEF AsksInv
<1>3. AsksBlocked(owner, held)
  BY DEF AsksInv, AsksBlocked
<1>4. ASSUME AsksBlocked(owner', held'),
             pc' \in {"match", "rest"} /\ taker'.side = "Ask" /\ ~risk[taker'.acct].short =>
                 AskFree(taker', position', reserved')
      PROVE  AsksInv'
  BY <1>2, <1>4 DEF AsksInv, AsksBlocked, AskFree
<1>5. pc \in Placing => taker \in TakerRecord
  BY <1>1, TakerOrderType
<1>6. CASE Keeps
  <2>1. AsksBlocked(owner', held')
    BY <1>3, <1>6, Zenon DEF Keeps
  <2>2. ASSUME pc' \in {"match", "rest"}, taker'.side = "Ask", ~risk[taker'.acct].short
        PROVE  AskFree(taker', position', reserved')
    <3>1. pc \in {"match", "rest"} /\ taker' = taker
      BY <1>6, <2>2 DEF Keeps
    <3>2. taker.acct \in Accounts /\ taker.sym \in Symbols /\ taker.left \in Int
      BY <1>5, <3>1 DEF Placing, TakerRecord
    <3>3. position[taker.acct][taker.sym] - reserved[taker.acct].qty[taker.sym] >= taker.left
      BY <2>2, <3>1 DEF AsksInv
    <3>4. position'[taker.acct][taker.sym] >= position[taker.acct][taker.sym]
      BY <1>6, <3>2 DEF Keeps
    <3>5. position'[taker.acct][taker.sym] \in Int
      BY <3>2, NextInv, <1>1 DEF EngineInv, TypeOK
    <3>. QED  BY <1>1, <1>6, <3>1, <3>2, <3>3, <3>4, <3>5 DEF Keeps, AskFree, Balances
  <2>. QED  BY <1>4, <2>1, <2>2
<1>7. CASE UNCHANGED <<owner, held, reserved>> /\ pc' \notin {"match", "rest"}
  BY <1>3, <1>4, <1>7
<1>8. CASE AdmitOrder
  <2>1. UNCHANGED <<owner, held, reserved>> /\ (pc' \in {"match", "rest"} => taker' = taker)
        /\ position' = ToppedUpPosition(taker.acct, taker.sym) /\ Affordable(taker) /\ pc \in Placing
    BY <1>8 DEF AdmitOrder, AfterOrder, Placing
  <2>2. ASSUME pc' \in {"match", "rest"}, taker'.side = "Ask", ~risk[taker'.acct].short
        PROVE  AskFree(taker', position', reserved')
    <3>1. taker' = taker /\ taker.acct \in Accounts /\ taker.sym \in Symbols /\ taker.left \in Int
      BY <1>5, <2>1, <2>2 DEF TakerRecord
    <3>2. position'[taker.acct][taker.sym] - (reserved[taker.acct].qty[taker.sym] - 0) >= taker.left
      BY <2>1, <2>2, <3>1 DEF Affordable, RiskAllows, AskAllowed, NoCredit
    <3>. QED  BY <1>1, <2>1, <3>1, <3>2 DEF AskFree, Balances
  <2>3. AsksBlocked(owner', held')
    BY <1>3, <2>1, Zenon
  <2>. QED  BY <1>4, <2>2, <2>3
<1>9. CASE ExecuteFill
  <2>1. PICK m \in book, id \in OrderIds, a \in Accounts, sym \in Symbols, n \in Nat \ {0},
             b \in Accounts, s \in Accounts, buyerFee \in Int, sellerFee \in Int,
             x \in Int, y \in Int, z \in Int :
                 Fills(m, id, a, sym, n, b, s, buyerFee, sellerFee, x, y, z)
    BY <1>9, FillTrades
  <2>2. /\ owner[id] # NoOwner /\ owner[id] \in OwnerRecord /\ n <= owner[id].qty
        /\ owner[id].acct = a /\ owner[id].sym = sym /\ owner' = AuctionOwner(owner, id, n)
        /\ owner[id].side = Opposite(taker.side) /\ sym = taker.sym /\ n <= taker.left
    BY <2>1 DEF Fills, Trades
  <2>3. z = Freed(held[id], owner[id].side, n, owner[id].qty).qty
    BY <2>1 DEF Fills
  <2>4. \A k \in OrderIds : held'[k].qty = held[k].qty - (IF k = id THEN z ELSE 0)
    BY <2>1 DEF Fills, FreesBoth
  <2>5. PICK P, G : P = owner' /\ G = held'
    OBVIOUS
  <2>6. AsksBlocked(P, G) /\ (owner[id].side = "Bid" => z = 0)
    <3>1. P = AuctionOwner(owner, id, n) /\ UnitsLess(owner, held, G, id, n, z)
      BY <2>2, <2>3, <2>4, <2>5 DEF UnitsLess
    <3>2. /\ AsksBlocked(AuctionOwner(owner, id, n), G)
          /\ owner[id].side = "Bid" => z = 0
      BY <1>1, <1>3, <2>2, <3>1, TradeAsks
    <3>. QED  BY <3>1, <3>2, Zenon
  <2>7. /\ taker \in TakerRecord /\ taker.acct \in Accounts /\ taker.left \in Int
        /\ pc \in {"match", "rest"}
    BY <1>5, <1>9 DEF ExecuteFill, Placing, TakerRecord
  <2>8. ASSUME taker'.side = "Ask", ~risk[taker'.acct].short
        PROVE  AskFree(taker', position', reserved')
    <3>1. /\ taker'.left = taker.left - n /\ taker'.acct = taker.acct /\ taker'.sym = taker.sym
          /\ taker.side = "Ask" /\ ~risk[taker.acct].short
      BY <2>1, <2>7, <2>8 DEF Fills, TakerRecord
    <3>2. owner[id].side = "Bid" /\ z = 0
      BY <2>2, <2>6, <3>1 DEF Opposite
    <3>3. reserved'[taker.acct].qty[sym] = reserved[taker.acct].qty[sym]
      <4>1. reserved'[taker.acct].qty[sym] =
               reserved[taker.acct].qty[sym] - (IF taker.acct = a /\ sym = sym THEN z ELSE 0)
        BY <2>1, <2>7 DEF Fills, FreesBoth
      <4>. QED  BY <1>1, <2>7, <3>2, <4>1 DEF Balances
    <3>4. s = taker.acct
      BY <2>1, <3>1 DEF Fills, FillParties
    <3>5. position'[taker.acct][sym] = position[taker.acct][sym] + UnitFlow(taker.acct, b, s, n)
      BY <1>1, <2>1, <2>7 DEF Fills, Settle
    <3>6. UnitFlow(taker.acct, b, s, n) >= 0 - n /\ UnitFlow(taker.acct, b, s, n) \in Int
      BY <3>4 DEF UnitFlow
    <3>7. position[taker.acct][sym] - reserved[taker.acct].qty[sym] >= taker.left
      BY <2>2, <2>7, <3>1 DEF AsksInv
    <3>8. position[taker.acct][sym] \in Int /\ reserved[taker.acct].qty[sym] \in Int
      BY <1>1, <2>7 DEF Balances
    <3>9. position'[taker.acct][sym] - reserved'[taker.acct].qty[sym] >= taker.left - n
      BY <2>7, <3>3, <3>5, <3>6, <3>7, <3>8
    <3>. QED  BY <2>2, <3>1, <3>9 DEF AskFree
  <2>. QED  BY <1>4, <2>5, <2>6, <2>8
<1>10. CASE AuctionTrade
  <2>1. PICK bid \in book, ask \in book, i \in OrderIds, j \in OrderIds, b \in Accounts,
             s \in Accounts, sym \in Symbols, n \in Nat \ {0}, buyerFee \in Int, sellerFee \in Int,
             x \in Int, y \in Int, z \in Int :
                 Uncrosses(bid, ask, i, j, b, s, sym, n, buyerFee, sellerFee, x, y, z)
    BY <1>10, AuctionTrades
  <2>2. /\ i # j /\ owner[i] # NoOwner /\ owner[i] \in OwnerRecord /\ n <= owner[i].qty
        /\ owner[j] # NoOwner /\ owner[j] \in OwnerRecord /\ n <= owner[j].qty
        /\ owner[i].side = "Bid" /\ owner[j].side = "Ask"
        /\ owner' = AuctionOwner(AuctionOwner(owner, i, n), j, n)
    BY <2>1 DEF Uncrosses, Trades
  <2>3. z = Freed(held[j], owner[j].side, n, owner[j].qty).qty
    BY <2>1 DEF Uncrosses
  <2>4. \A k \in OrderIds : held'[k].qty = held[k].qty - (IF k = j THEN z ELSE 0)
    BY <2>1 DEF Uncrosses, FreesBoth
  <2>5. PICK O, P, G : O = AuctionOwner(owner, i, n) /\ P = owner' /\ G = held'
    OBVIOUS
  <2>6. /\ O \in [OrderIds -> OwnerRecord \cup {NoOwner}] /\ O[j] = owner[j]
        /\ AsksBlocked(O, held)
    <3>1. /\ AuctionOwner(owner, i, n) \in [OrderIds -> OwnerRecord \cup {NoOwner}]
          /\ \A k \in OrderIds \ {i} : AuctionOwner(owner, i, n)[k] = owner[k]
          /\ AuctionOwner(owner, i, n)[i] # NoOwner =>
                AuctionOwner(owner, i, n)[i].side = owner[i].side
      BY <1>1, <2>2, TradedRecord
    <3>2. /\ O \in [OrderIds -> OwnerRecord \cup {NoOwner}] /\ O[j] = owner[j]
          /\ \A k \in OrderIds \ {i} : O[k] = owner[k]
          /\ O[i] # NoOwner => O[i].side = "Bid"
      BY <2>2, <2>5, <3>1
    <3>3. ASSUME NEW k \in OrderIds, O[k] # NoOwner, O[k].side = "Ask", ~risk[O[k].acct].short
          PROVE  held[k].qty = O[k].qty
      <4>1. k # i
        BY <3>2, <3>3
      <4>2. O[k] = owner[k]
        BY <3>2, <4>1
      <4>. QED  BY <1>3, <3>3, <4>2 DEF AsksBlocked
    <3>. QED  BY <3>2, <3>3, Zenon DEF AsksBlocked
  <2>7. AsksBlocked(P, G)
    <3>1. P = AuctionOwner(O, j, n) /\ UnitsLess(O, held, G, j, n, z)
      BY <2>2, <2>3, <2>4, <2>5, <2>6 DEF UnitsLess
    <3>2. O[j] # NoOwner /\ n <= O[j].qty
      BY <2>2, <2>6
    <3>3. AsksBlocked(AuctionOwner(O, j, n), G)
      BY <1>1, <2>6, <3>1, <3>2, TradeAsks
    <3>. QED  BY <3>1, <3>3, Zenon
  <2>8. pc' \notin {"match", "rest"}
    BY <1>10 DEF AuctionTrade
  <2>. QED  BY <1>4, <2>5, <2>7, <2>8
<1>11. CASE FinishOrder /\ RemainderRests(taker) /\ RestTaker
  <2>1. PICK a \in Accounts, sym \in Symbols, id \in OrderIds, side \in Sides, price \in Nat,
             left \in Nat \ {0}, c \in Nat, k \in Nat, q \in Nat :
                 Rests(a, sym, id, side, price, left, c, k, q)
    BY <1>11, RestStep
  <2>2. pc \in {"match", "rest"} /\ pc' \notin {"match", "rest"}
    BY <1>11 DEF FinishOrder, OrderDone, AfterOrder
  <2>3. PICK record : record = [acct |-> a, sym |-> sym, side |-> side, price |-> price,
                                qty |-> left, kind |-> taker.kind]
    OBVIOUS
  <2>4. owner'[id] = record /\ \A i \in OrderIds \ {id} : owner'[i] = owner[i] /\ held'[i] = held[i]
    BY <1>1, <2>1, <2>3 DEF Rests
  <2>5. ASSUME side = "Ask", ~risk[a].short
        PROVE  held'[id].qty = left
    <3>1. position[a][sym] - reserved[a].qty[sym] >= left
      BY <2>1, <2>2, <2>5 DEF AsksInv, Rests
    <3>2. q = Lesser(left, Greater(0, position[a][sym] - reserved[a].qty[sym]))
      BY <2>1, <2>5 DEF Rests, RestingReserve
    <3>3. position[a][sym] \in Int /\ reserved[a].qty[sym] \in Int
      BY <1>1 DEF Balances
    <3>4. q = left
      BY <3>1, <3>2, <3>3 DEF Lesser, Greater
    <3>. QED  BY <2>1, <3>4 DEF Rests
  <2>6. ASSUME NEW i \in OrderIds, owner'[i] # NoOwner, owner'[i].side = "Ask",
               ~risk[owner'[i].acct].short
        PROVE  held'[i].qty = owner'[i].qty
    <3>1. CASE i = id
      BY <2>3, <2>4, <2>5, <2>6, <3>1
    <3>2. CASE i # id
      BY <1>3, <2>4, <2>6, <3>2 DEF AsksBlocked
    <3>. QED  BY <3>1, <3>2
  <2>7. AsksBlocked(owner', held')
    BY <2>6, Zenon DEF AsksBlocked
  <2>. QED  BY <1>4, <2>2, <2>7
<1>12. ASSUME NEW a \in Accounts, NEW id \in OrderIds, NEW o \in InBook(id),
              owner[id] # NoOwner, owner[id].acct = a, Withdraw(a, id, o),
              pc' \notin {"match", "rest"}
       PROVE  AsksInv'
  <2>1. PICK sym \in Symbols, c \in Int, k \in Int, q \in Int : Withdrawn(a, sym, id, c, k, q)
    BY <1>1, <1>12, WithdrawStep
  <2>2. owner'[id] = NoOwner /\ \A i \in OrderIds \ {id} : owner'[i] = owner[i] /\ held'[i] = held[i]
    BY <2>1 DEF Withdrawn
  <2>3. AsksBlocked(owner', held')
    BY <1>3, <2>2 DEF AsksBlocked
  <2>. QED  BY <1>4, <1>12, <2>3
<1>. QED  BY <1>1, <1>6, <1>7, <1>8, <1>9, <1>10, <1>11, <1>12, AccountMoves

\* Nothing less than nothing is blocked.
LEMMA NothingOwed ==
    ASSUME TradeInv, ReserveInv, NEW a \in Accounts
    PROVE  reserved[a].cash >= 0 /\ \A s \in Symbols : reserved[a].qty[s] >= 0
<1>1. held \in [OrderIds -> Reserve]
  BY DEF TradeInv, EngineInv, TypeOK
<1>2. IsFiniteSet(OrderIds)
  BY FS_Interval, AccountsAssumption DEF OrderIds
<1>3. \A id \in OrderIds : Field(held, "cash")[id] \in Nat /\ Field(held, "qty")[id] \in Nat
  BY <1>1 DEF Field, Reserve, ReserveInv, Holding
<1>4. SumFunctionOnSet(Field(held, "cash"), Mine(owner, a)) \in Nat
  <2>1. IsFiniteSet(Mine(owner, a)) /\ Mine(owner, a) \subseteq OrderIds
    BY <1>2, FS_Subset DEF Mine
  <2>. QED  BY <1>3, <2>1, SumType
<1>5. ASSUME NEW s \in Symbols
      PROVE  SumFunctionOnSet(Field(held, "qty"), MineIn(owner, a, s)) \in Nat
  <2>1. IsFiniteSet(MineIn(owner, a, s)) /\ MineIn(owner, a, s) \subseteq OrderIds
    BY <1>2, FS_Subset DEF Mine, MineIn
  <2>. QED  BY <1>3, <2>1, SumType
<1>. QED  BY <1>4, <1>5 DEF ReserveInv, Backed

\* What a trade of an ask frees, of an account that may not sell short.
LEMMA AskFreed ==
    ASSUME EngineInv, AsksInv, NEW id \in OrderIds, owner[id] # NoOwner,
           NEW n \in Nat \ {0}, n <= owner[id].qty,
           owner[id].side = "Ask", ~risk[owner[id].acct].short
    PROVE  Freed(held[id], owner[id].side, n, owner[id].qty).qty = n
<1>1. held[id].qty = owner[id].qty
  BY DEF AsksInv
<1>2. owner[id].qty \in Int
  BY DEF EngineInv, TypeOK, OwnerRecord
<1>. QED  BY <1>1, <1>2 DEF Freed, Lesser

\* No account that may not sell short has promised more units than it has.
UnitsHeld(p, r) == \A a \in Accounts, s \in Symbols : ~risk[a].short => p[a][s] >= r[a].qty[s]

LEMMA UnitsNext ==
    ASSUME TradeInv, OwnersInv, ReserveInv, AsksInv, UnitsHeld(position, reserved), [Next]_vars,
           StateChoices = {}
    PROVE  UnitsHeld(position', reserved')
<1>1. /\ owner \in [OrderIds -> OwnerRecord \cup {NoOwner}] /\ held \in [OrderIds -> Reserve]
      /\ \A a \in Accounts, s \in Symbols : /\ position[a][s] \in Int
                                            /\ reserved[a].qty[s] \in Int
      /\ \A a \in Accounts, s \in Symbols : /\ position'[a][s] \in Int
                                            /\ reserved'[a].qty[s] \in Int
      /\ position \in [Accounts -> [Symbols -> Int]] /\ EngineInv
  <2>1. TypeOK /\ TypeOK'
    BY NextInv DEF TradeInv, EngineInv
  <2>. QED  BY <2>1 DEF TradeInv, EngineInv, TypeOK, Balances
<1>2. pc \in Placing => taker \in TakerRecord
  BY <1>1, TakerOrderType
<1>3. CASE Keeps
  BY <1>1, <1>3 DEF Keeps, UnitsHeld
<1>4. CASE AdmitOrder
  <2>1. /\ reserved' = reserved /\ position' = ToppedUpPosition(taker.acct, taker.sym)
        /\ pc \in Placing
    BY <1>4 DEF AdmitOrder, Placing
  <2>2. \A a \in Accounts, s \in Symbols : position'[a][s] >= position[a][s]
    BY <1>1, <1>2, <2>1, ToppedUpMore DEF TakerRecord, EngineInv
  <2>. QED  BY <1>1, <2>1, <2>2 DEF UnitsHeld
<1>5. CASE ExecuteFill
  <2>1. PICK m \in book, id \in OrderIds, a \in Accounts, sym \in Symbols, n \in Nat \ {0},
             b \in Accounts, s \in Accounts, buyerFee \in Int, sellerFee \in Int,
             x \in Int, y \in Int, z \in Int :
                 Fills(m, id, a, sym, n, b, s, buyerFee, sellerFee, x, y, z)
    BY <1>5, FillTrades
  <2>2. taker \in TakerRecord /\ pc \in {"match", "rest"}
    BY <1>2, <1>5 DEF ExecuteFill, Placing
  <2>3. z = Freed(held[id], owner[id].side, n, owner[id].qty).qty
    BY <2>1 DEF Fills
  <2>4. owner[id].side = "Bid" => z = 0 /\ s = taker.acct
    BY <2>1, <2>2, <2>3 DEF Fills, Freed, FillParties, Opposite, TakerRecord, Sides
  <2>5. owner[id].side = "Ask" => s = a /\ z >= 0
    <3>1. held[id].qty >= 0
      BY DEF ReserveInv, Holding
    <3>. QED  BY <1>1, <2>1, <2>2, <2>3, <3>1
              DEF Fills, Freed, FillParties, Opposite, TakerRecord, Sides, Lesser
  <2>6. owner[id].side = "Ask" /\ ~risk[a].short => z = n
    BY <1>1, <2>1, <2>3, AskFreed DEF Fills, Trades
  <2>7. owner[id].side = "Bid" /\ ~risk[s].short =>
            position[s][sym] - reserved[s].qty[sym] >= n
    <3>. SUFFICES ASSUME owner[id].side = "Bid", ~risk[s].short
                  PROVE  position[s][sym] - reserved[s].qty[sym] >= n
      OBVIOUS
    <3>1. s = taker.acct /\ sym = taker.sym /\ taker.side = "Ask" /\ n <= taker.left
      BY <2>1, <2>2, <2>4 DEF Fills, Opposite, TakerRecord, Sides
    <3>2. position[s][sym] - reserved[s].qty[sym] >= taker.left
      BY <2>2, <3>1 DEF AsksInv
    <3>. QED  BY <1>1, <2>2, <3>1, <3>2 DEF TakerRecord
  <2>8. \A i \in Accounts, k \in Symbols :
           position'[i][k] = position[i][k] + (IF k = sym THEN UnitFlow(i, b, s, n) ELSE 0)
    BY <1>1, <2>1 DEF Fills, Settle
  <2>9. \A i \in Accounts, k \in Symbols :
           reserved'[i].qty[k] = reserved[i].qty[k] - (IF i = a /\ k = sym THEN z ELSE 0)
    BY <2>1 DEF Fills, FreesBoth
  <2>10. owner[id].side \in Sides
    BY <2>1 DEF Fills, Trades, OwnerRecord
  <2>11. ASSUME NEW i \in Accounts, NEW k \in Symbols, ~risk[i].short
         PROVE  position'[i][k] >= reserved'[i].qty[k]
    <3>1. position[i][k] >= reserved[i].qty[k]
      BY <2>11 DEF UnitsHeld
    <3>2. CASE k # sym
      BY <1>1, <2>8, <2>9, <3>1, <3>2
    <3>3. CASE k = sym /\ i # s
      <4>1. UnitFlow(i, b, s, n) >= 0 /\ UnitFlow(i, b, s, n) \in Int
        BY <3>3 DEF UnitFlow
      <4>2. z >= 0
        BY <2>4, <2>5, <2>10 DEF Sides
      <4>. QED  BY <1>1, <2>8, <2>9, <3>1, <3>3, <4>1, <4>2
    <3>4. CASE k = sym /\ i = s
      <4>1. UnitFlow(i, b, s, n) >= 0 - n /\ UnitFlow(i, b, s, n) \in Int
        BY <3>4 DEF UnitFlow
      <4>2. CASE owner[id].side = "Bid"
        BY <1>1, <2>4, <2>7, <2>8, <2>9, <2>11, <3>4, <4>1, <4>2
      <4>3. CASE owner[id].side = "Ask"
        BY <1>1, <2>5, <2>6, <2>8, <2>9, <2>11, <3>1, <3>4, <4>1, <4>3
      <4>. QED  BY <2>10, <4>2, <4>3 DEF Sides
    <3>. QED  BY <3>2, <3>3, <3>4
  <2>. QED  BY <2>11 DEF UnitsHeld
<1>6. CASE AuctionTrade
  <2>1. PICK bid \in book, ask \in book, i \in OrderIds, j \in OrderIds, b \in Accounts,
             s \in Accounts, sym \in Symbols, n \in Nat \ {0}, buyerFee \in Int, sellerFee \in Int,
             x \in Int, y \in Int, z \in Int :
                 Uncrosses(bid, ask, i, j, b, s, sym, n, buyerFee, sellerFee, x, y, z)
    BY <1>6, AuctionTrades
  <2>2. z = Freed(held[j], owner[j].side, n, owner[j].qty).qty
    BY <2>1 DEF Uncrosses
  <2>3. ~risk[s].short => z = n
    BY <1>1, <2>1, <2>2, AskFreed DEF Uncrosses, Trades
  <2>4. \A u \in Accounts, k \in Symbols :
           position'[u][k] = position[u][k] + (IF k = sym THEN UnitFlow(u, b, s, n) ELSE 0)
    BY <1>1, <2>1 DEF Uncrosses, Settle
  <2>5. \A u \in Accounts, k \in Symbols :
           reserved'[u].qty[k] = reserved[u].qty[k] - (IF u = s /\ k = sym THEN z ELSE 0)
    BY <2>1 DEF Uncrosses, FreesBoth
  <2>6. ASSUME NEW u \in Accounts, NEW k \in Symbols, ~risk[u].short
        PROVE  position'[u][k] >= reserved'[u].qty[k]
    <3>1. position[u][k] >= reserved[u].qty[k]
      BY <2>6 DEF UnitsHeld
    <3>2. CASE u = s
      <4>1. UnitFlow(u, b, s, n) >= 0 - n /\ UnitFlow(u, b, s, n) \in Int
        BY DEF UnitFlow
      <4>. QED  BY <1>1, <2>3, <2>4, <2>5, <2>6, <3>1, <3>2, <4>1
    <3>3. CASE u # s
      <4>1. UnitFlow(u, b, s, n) >= 0 /\ UnitFlow(u, b, s, n) \in Int
        BY <3>3 DEF UnitFlow
      <4>. QED  BY <1>1, <2>4, <2>5, <3>1, <3>3, <4>1
    <3>. QED  BY <3>2, <3>3
  <2>. QED  BY <2>6 DEF UnitsHeld
<1>7. CASE FinishOrder /\ RemainderRests(taker) /\ RestTaker
  <2>1. PICK a \in Accounts, sym \in Symbols, id \in OrderIds, side \in Sides, price \in Nat,
             left \in Nat \ {0}, c \in Nat, k \in Nat, q \in Nat :
                 Rests(a, sym, id, side, price, left, c, k, q)
    BY <1>7, RestStep
  <2>2. position' = position
    BY <1>7 DEF FinishOrder
  <2>3. \A i \in Accounts, w \in Symbols :
           reserved'[i].qty[w] = reserved[i].qty[w] + (IF i = a /\ w = sym THEN q ELSE 0)
    BY <2>1 DEF Rests
  <2>4. ~risk[a].short => position[a][sym] >= reserved[a].qty[sym] + q
    <3>1. CASE side = "Bid"
      BY <1>1, <2>1, <3>1 DEF Rests, UnitsHeld
    <3>2. CASE side = "Ask"
      <4>1. q = Lesser(left, Greater(0, position[a][sym] - reserved[a].qty[sym]))
        BY <2>1, <3>2 DEF Rests, RestingReserve
      <4>2. position[a][sym] \in Int /\ reserved[a].qty[sym] \in Int
        BY <1>1
      <4>3. ~risk[a].short => position[a][sym] >= reserved[a].qty[sym]
        BY DEF UnitsHeld
      <4>. QED  BY <4>1, <4>2, <4>3 DEF Lesser, Greater
    <3>. QED  BY <3>1, <3>2 DEF Sides
  <2>5. ASSUME NEW i \in Accounts, NEW w \in Symbols, ~risk[i].short
        PROVE  position[i][w] >= reserved'[i].qty[w]
    <3>1. position[i][w] >= reserved[i].qty[w]
      BY <2>5 DEF UnitsHeld
    <3>. QED  BY <1>1, <2>3, <2>4, <2>5, <3>1
  <2>. QED  BY <2>2, <2>5 DEF UnitsHeld
<1>8. ASSUME NEW a \in Accounts, NEW id \in OrderIds, NEW o \in InBook(id),
             owner[id] # NoOwner, owner[id].acct = a, Withdraw(a, id, o),
             UNCHANGED <<cash, position>>
      PROVE  UnitsHeld(position', reserved')
  <2>1. PICK sym \in Symbols, c \in Int, k \in Int, q \in Int : Withdrawn(a, sym, id, c, k, q)
    BY <1>1, <1>8, WithdrawStep
  <2>2. q >= 0 /\ \A i \in Accounts, w \in Symbols :
           reserved'[i].qty[w] = reserved[i].qty[w] - (IF i = a /\ w = sym THEN q ELSE 0)
    BY <2>1 DEF Withdrawn, ReserveInv, Holding
  <2>. QED  BY <1>1, <1>8, <2>2 DEF UnitsHeld
<1>. QED  BY <1>1, <1>3, <1>4, <1>5, <1>6, <1>7, <1>8, AccountMoves

\* Between calls and within them an account that may not sell short has the units its
\* asks promise: what an ask blocks was free when it came to rest, and each trade takes
\* as many units from the position as from what is blocked.
THEOREM NeverNakedShort ==
    ASSUME NoBands, PlainAuctions, RiskChoices = {}, StateChoices = {}, CoveredStart
    PROVE  Spec => []NoNakedShort
<1>1. Init => AsksInv /\ UnitsHeld(position, reserved)
  <2>. SUFFICES ASSUME Init PROVE AsksInv /\ UnitsHeld(position, reserved)
    OBVIOUS
  <2>1. AsksInv
    BY DEF Init, AsksInv
  <2>2. risk = StartRisk /\ position = StartPosition
        /\ \A a \in Accounts, s \in Symbols : reserved[a].qty[s] = 0
    BY DEF Init
  <2>. QED  BY <2>1, <2>2 DEF UnitsHeld, CoveredStart
<1>2. TradeInv /\ OwnersInv /\ ReserveInv /\ AsksInv /\ [Next]_vars => AsksInv'
  BY AsksNext
<1>3. /\ TradeInv /\ OwnersInv /\ ReserveInv /\ AsksInv /\ [Next]_vars
      /\ UnitsHeld(position, reserved)
      => UnitsHeld(position, reserved)'
  <2>. SUFFICES ASSUME TradeInv, OwnersInv, ReserveInv, AsksInv, [Next]_vars,
                       UnitsHeld(position, reserved)
                PROVE  UnitsHeld(position, reserved)'
    OBVIOUS
  <2>1. UnitsHeld(position', reserved') /\ risk' = risk
    BY UnitsNext, RiskKept
  <2>. QED  BY <2>1 DEF UnitsHeld
<1>4. TradeInv /\ ReserveInv /\ UnitsHeld(position, reserved) => NoNakedShort
  BY NothingOwed DEF NoNakedShort, UnitsHeld
<1>. QED  BY <1>1, <1>2, <1>3, <1>4, TradeInvariant, OwnersInvariant, ReserveInvariant, PTL DEF Spec

-----------------------------------------------------------------------------
(* What bids have blocked.                                                  *)

LEMMA OneLess ==
    ASSUME NEW b \in Nat \ {0}, NEW d \in Int, NEW h \in Int, d <= h - 1
    PROVE  b * d <= b * h - b
OBVIOUS

LEMMA TimesMore ==
    ASSUME NEW x \in Nat, NEW y \in Int, NEW z \in Int, y >= z
    PROVE  x * y >= x * z
OBVIOUS

\* Of a reserve of at least u for each unit a trade frees at least u for each of its
\* units, and leaves as much for each of the others.
LEMMA ShareCovers ==
    ASSUME NEW h \in Nat, NEW n \in Nat \ {0}, NEW before \in Nat \ {0}, n <= before,
           NEW u \in Nat, h >= u * before, NEW free, free = ProportionalRelease(h, n, before)
    PROVE  /\ free \in Nat
           /\ free >= u * n
           /\ h - free >= u * (before - n)
<1>1. PICK hn \in Nat : hn = h * n
  BY TimesNat
<1>2. PICK share \in Int : share = (hn + before - 1) \div before
  OBVIOUS
<1>3. before * share <= hn + before - 1 /\ hn + before - 1 < before * share + before
  <2>1. hn + before - 1 \in Nat
    OBVIOUS
  <2>. QED  BY <1>2, <2>1, QuotientBounds
<1>4. free = IF h < share THEN h ELSE share
  BY <1>1, <1>2 DEF ProportionalRelease, CeilDiv
<1>5. PICK rest \in Nat : rest = before - n
  OBVIOUS
<1>6. hn + h * rest = before * h
  BY <1>1, <1>5
<1>7. h * rest >= (u * before) * rest
  <2>1. rest * h >= rest * (u * before)
    BY TimesMore
  <2>. QED  BY <2>1
<1>8. hn >= (u * before) * n
  <2>1. n * h >= n * (u * before)
    BY TimesMore
  <2>. QED  BY <1>1, <2>1
<1>9. (u * before) * rest = before * (u * rest) /\ (u * before) * n = before * (u * n)
  OBVIOUS
<1>10. PICK un \in Nat, ur \in Nat : un = u * n /\ ur = u * rest
  BY TimesNat
<1>11. share >= un
  <2>1. share <= un - 1 => before * share <= before * un - before
    BY OneLess
  <2>2. before * share >= hn /\ hn >= before * un
    <3>1. before * share \in Int
      OBVIOUS
    <3>2. before * share > hn - 1
      BY <1>3, <3>1
    <3>. QED  BY <1>8, <1>9, <1>10, <3>1, <3>2
  <2>3. before * share \in Int /\ before * un \in Int
    OBVIOUS
  <2>. QED  BY <2>1, <2>2, <2>3
<1>12. h - share >= ur
  <2>1. PICK left \in Int : left = h - share
    OBVIOUS
  <2>2. left <= ur - 1 => before * left <= before * ur - before
    BY OneLess
  <2>3. before * left = before * h - before * share
    BY <2>1
  <2>4. before * left >= h * rest - before + 1
    <3>1. before * share \in Int /\ before * h \in Int /\ h * rest \in Int
      OBVIOUS
    <3>. QED  BY <1>3, <1>6, <2>3, <3>1
  <2>5. h * rest >= before * ur
    BY <1>7, <1>9, <1>10
  <2>6. before * left \in Int /\ before * ur \in Int /\ h * rest \in Int
    OBVIOUS
  <2>. QED  BY <2>1, <2>2, <2>4, <2>5, <2>6
<1>13. free = share /\ share \in Nat
  BY <1>4, <1>10, <1>11, <1>12
<1>. QED  BY <1>5, <1>10, <1>11, <1>12, <1>13

\* Every unit of a bid of a cash-only account has what U says of its price blocked.
BidsPaid(O, H, U) ==
    \A id \in OrderIds :
        O[id] # NoOwner /\ O[id].side = "Bid" /\ risk[O[id].acct].mode = "CashOnly" =>
            H[id].cash >= U[O[id].price] * O[id].qty

\* Of what is blocked for orders, cash x goes with the trade of n units of one of them.
CashLess(O, H, G, id, n, x) ==
    /\ x = Freed(H[id], O[id].side, n, O[id].qty).cash
    /\ \A k \in OrderIds : G[k].cash = H[k].cash - (IF k = id THEN x ELSE 0)

\* A trade takes at least what U says of each unit from a bid and leaves as much for
\* each of the others.
LEMMA TradeBids ==
    ASSUME NEW U \in [Int -> Nat],
           NEW O \in [OrderIds -> OwnerRecord \cup {NoOwner}], NEW H \in [OrderIds -> Reserve],
           NEW G, NEW id \in OrderIds, O[id] # NoOwner, NEW n \in Nat \ {0}, n <= O[id].qty,
           H[id].cash >= 0, BidsPaid(O, H, U), NEW x, CashLess(O, H, G, id, n, x)
    PROVE  /\ BidsPaid(AuctionOwner(O, id, n), G, U)
           /\ O[id].side = "Bid" /\ risk[O[id].acct].mode = "CashOnly" => x >= U[O[id].price] * n
<1>1. PICK P : P = AuctionOwner(O, id, n)
  OBVIOUS
<1>2. O[id] \in OwnerRecord
  OBVIOUS
<1>3. O[id].qty \in Nat \ {0} /\ O[id].price \in Int /\ H[id].cash \in Nat
  BY <1>2 DEF OwnerRecord, Reserve
<1>4. PICK before \in Nat \ {0}, u \in Nat, h \in Nat :
          before = O[id].qty /\ u = U[O[id].price] /\ h = H[id].cash
  BY <1>3
<1>5. /\ \A k \in OrderIds \ {id} : P[k] = O[k]
      /\ P[id] # NoOwner => /\ P[id].qty = O[id].qty - n /\ P[id].acct = O[id].acct
                            /\ P[id].side = O[id].side /\ P[id].price = O[id].price
  BY <1>1, TradedRecord
<1>6. x = IF O[id].side = "Bid" THEN ProportionalRelease(h, n, before) ELSE 0
  BY <1>4 DEF Freed, CashLess
<1>7. O[id].side = "Bid" /\ risk[O[id].acct].mode = "CashOnly" =>
          x \in Nat /\ x >= u * n /\ h - x >= u * (before - n)
  <2>. SUFFICES ASSUME O[id].side = "Bid", risk[O[id].acct].mode = "CashOnly"
                PROVE  x \in Nat /\ x >= u * n /\ h - x >= u * (before - n)
    OBVIOUS
  <2>1. h >= u * before
    BY <1>4 DEF BidsPaid
  <2>2. x = ProportionalRelease(h, n, before)
    BY <1>6
  <2>3. n <= before
    BY <1>4
  <2>. QED  BY <2>1, <2>2, <2>3, ShareCovers
<1>8. ASSUME NEW k \in OrderIds, P[k] # NoOwner, P[k].side = "Bid",
             risk[P[k].acct].mode = "CashOnly"
      PROVE  G[k].cash >= U[P[k].price] * P[k].qty
  <2>1. CASE k = id
    <3>1. G[k].cash = h - x
      BY <1>4, <2>1 DEF CashLess
    <3>2. U[P[k].price] * P[k].qty = u * (before - n)
      BY <1>4, <1>5, <1>8, <2>1
    <3>3. h - x >= u * (before - n)
      BY <1>5, <1>7, <1>8, <2>1
    <3>. QED  BY <3>1, <3>2, <3>3
  <2>2. CASE k # id
    <3>1. G[k].cash = H[k].cash - 0
      BY <2>2 DEF CashLess
    <3>2. H[k].cash \in Int
      BY DEF Reserve
    <3>3. P[k] = O[k]
      BY <1>5, <2>2
    <3>4. H[k].cash >= U[O[k].price] * O[k].qty
      BY <1>8, <3>3 DEF BidsPaid
    <3>. QED  BY <3>1, <3>2, <3>3, <3>4
  <2>. QED  BY <2>1, <2>2
<1>9. BidsPaid(P, G, U)
  BY <1>8, Zenon DEF BidsPaid
<1>. QED  BY <1>1, <1>4, <1>7, <1>9

\* It stays so, if what a bid is asked to block when it comes to rest is enough.
LEMMA BidsNext ==
    ASSUME TradeInv, OwnersInv, ReserveInv, NEW U \in [Int -> Nat], BidsPaid(owner, held, U),
           [Next]_vars,
           pc \in {"match", "rest"} /\ taker.side = "Bid" /\ risk[taker.acct].mode = "CashOnly" =>
               RestingReserve.cash >= U[taker.price] * taker.left
    PROVE  BidsPaid(owner', held', U)
<1>1. /\ owner \in [OrderIds -> OwnerRecord \cup {NoOwner}] /\ held \in [OrderIds -> Reserve]
      /\ EngineInv
  BY DEF TradeInv, EngineInv, TypeOK
<1>2. \A id \in OrderIds : held[id].cash >= 0
  BY DEF ReserveInv, Holding
<1>3. CASE UNCHANGED <<owner, held, reserved>>
  BY <1>3, Zenon
<1>4. CASE ExecuteFill
  <2>1. PICK m \in book, id \in OrderIds, a \in Accounts, sym \in Symbols, n \in Nat \ {0},
             b \in Accounts, s \in Accounts, buyerFee \in Int, sellerFee \in Int,
             x \in Int, y \in Int, z \in Int :
                 Fills(m, id, a, sym, n, b, s, buyerFee, sellerFee, x, y, z)
    BY <1>4, FillTrades
  <2>2. /\ owner[id] # NoOwner /\ n <= owner[id].qty /\ owner' = AuctionOwner(owner, id, n)
        /\ x = Freed(held[id], owner[id].side, n, owner[id].qty).cash
        /\ \A k \in OrderIds : held'[k].cash = held[k].cash - (IF k = id THEN x ELSE 0)
    BY <2>1 DEF Fills, Trades, FreesBoth
  <2>3. PICK P, G : P = owner' /\ G = held'
    OBVIOUS
  <2>4. P = AuctionOwner(owner, id, n) /\ CashLess(owner, held, G, id, n, x)
    BY <2>2, <2>3 DEF CashLess
  <2>5. BidsPaid(AuctionOwner(owner, id, n), G, U)
    BY <1>1, <1>2, <2>2, <2>4, TradeBids
  <2>. QED  BY <2>3, <2>4, <2>5, Zenon
<1>5. CASE AuctionTrade
  <2>1. PICK bid \in book, ask \in book, i \in OrderIds, j \in OrderIds, b \in Accounts,
             s \in Accounts, sym \in Symbols, n \in Nat \ {0}, buyerFee \in Int, sellerFee \in Int,
             x \in Int, y \in Int, z \in Int :
                 Uncrosses(bid, ask, i, j, b, s, sym, n, buyerFee, sellerFee, x, y, z)
    BY <1>5, AuctionTrades
  <2>2. /\ owner[i] # NoOwner /\ n <= owner[i].qty /\ i # j
        /\ owner[j] # NoOwner /\ owner[j].side = "Ask"
        /\ owner' = AuctionOwner(AuctionOwner(owner, i, n), j, n)
        /\ x = Freed(held[i], owner[i].side, n, owner[i].qty).cash
        /\ \A k \in OrderIds : held'[k].cash = held[k].cash - (IF k = i THEN x ELSE 0)
    BY <2>1 DEF Uncrosses, Trades, FreesBoth
  <2>3. PICK O, P, G : O = AuctionOwner(owner, i, n) /\ P = owner' /\ G = held'
    OBVIOUS
  <2>4. CashLess(owner, held, G, i, n, x)
    BY <2>2, <2>3 DEF CashLess
  <2>5. BidsPaid(AuctionOwner(owner, i, n), G, U)
    BY <1>1, <1>2, <2>2, <2>4, TradeBids
  <2>6. /\ AuctionOwner(owner, i, n) \in [OrderIds -> OwnerRecord \cup {NoOwner}]
        /\ \A k \in OrderIds \ {i} : AuctionOwner(owner, i, n)[k] = owner[k]
    BY <1>1, <2>2, TradedRecord
  <2>7. O \in [OrderIds -> OwnerRecord \cup {NoOwner}] /\ O[j] = owner[j] /\ BidsPaid(O, G, U)
    BY <2>2, <2>3, <2>5, <2>6
  <2>8. /\ \A k \in OrderIds \ {j} : AuctionOwner(O, j, n)[k] = O[k]
        /\ AuctionOwner(O, j, n)[j] # NoOwner => AuctionOwner(O, j, n)[j].side = O[j].side
    BY <2>2, <2>7, TradedRecord
  <2>9. P = AuctionOwner(O, j, n)
    BY <2>2, <2>3
  <2>10. ASSUME NEW k \in OrderIds, P[k] # NoOwner, P[k].side = "Bid",
                risk[P[k].acct].mode = "CashOnly"
         PROVE  G[k].cash >= U[P[k].price] * P[k].qty
    <3>1. k # j
      BY <2>2, <2>7, <2>8, <2>9, <2>10
    <3>2. P[k] = O[k]
      BY <2>8, <2>9, <3>1
    <3>. QED  BY <2>7, <2>10, <3>2 DEF BidsPaid
  <2>11. BidsPaid(P, G, U)
    BY <2>10, Zenon DEF BidsPaid
  <2>. QED  BY <2>3, <2>11, Zenon
<1>6. CASE FinishOrder /\ RemainderRests(taker) /\ RestTaker
  <2>1. PICK a \in Accounts, sym \in Symbols, id \in OrderIds, side \in Sides, price \in Nat,
             left \in Nat \ {0}, c \in Nat, k \in Nat, q \in Nat :
                 Rests(a, sym, id, side, price, left, c, k, q)
    BY <1>6, RestStep
  <2>2. pc \in {"match", "rest"}
    BY <1>6 DEF FinishOrder
  <2>3. PICK record : record = [acct |-> a, sym |-> sym, side |-> side, price |-> price,
                                qty |-> left, kind |-> taker.kind]
    OBVIOUS
  <2>4. /\ owner'[id] = record /\ held'[id].cash = c
        /\ \A i \in OrderIds \ {id} : owner'[i] = owner[i] /\ held'[i] = held[i]
    BY <1>1, <2>1, <2>3 DEF Rests
  <2>5. side = "Bid" /\ risk[a].mode = "CashOnly" => c >= U[price] * left
    BY <2>1, <2>2 DEF Rests
  <2>6. ASSUME NEW i \in OrderIds, owner'[i] # NoOwner, owner'[i].side = "Bid",
               risk[owner'[i].acct].mode = "CashOnly"
        PROVE  held'[i].cash >= U[owner'[i].price] * owner'[i].qty
    <3>1. CASE i = id
      BY <2>3, <2>4, <2>5, <2>6, <3>1
    <3>2. CASE i # id
      BY <2>4, <2>6, <3>2 DEF BidsPaid
    <3>. QED  BY <3>1, <3>2
  <2>. QED  BY <2>6, Zenon DEF BidsPaid
<1>7. ASSUME NEW a \in Accounts, NEW id \in OrderIds, NEW o \in InBook(id),
             owner[id] # NoOwner, owner[id].acct = a, Withdraw(a, id, o)
      PROVE  BidsPaid(owner', held', U)
  <2>1. PICK sym \in Symbols, c \in Int, k \in Int, q \in Int : Withdrawn(a, sym, id, c, k, q)
    BY <1>1, <1>7, WithdrawStep
  <2>2. owner'[id] = NoOwner /\ \A i \in OrderIds \ {id} : owner'[i] = owner[i] /\ held'[i] = held[i]
    BY <2>1 DEF Withdrawn
  <2>. QED  BY <2>2 DEF BidsPaid
<1>8. CASE AdmitOrder
  BY <1>3, <1>8 DEF AdmitOrder
<1>9. CASE Keeps
  BY <1>3, <1>9 DEF Keeps
<1>. QED  BY <1>1, <1>3, <1>4, <1>5, <1>6, <1>7, <1>8, <1>9, AccountMoves

\* The price itself, as a function on all integers.
FacePrice == [p \in Int |-> Greater(0, p)]

LEMMA FaceNext ==
    ASSUME TradeInv, OwnersInv, ReserveInv, BidsPaid(owner, held, FacePrice), [Next]_vars,
           RiskChoices = {}
    PROVE  BidsPaid(owner, held, FacePrice)'
<1>1. FacePrice \in [Int -> Nat] /\ \A p \in Nat : FacePrice[p] = p
  BY DEF FacePrice, Greater
<1>2. ASSUME pc \in {"match", "rest"}, taker.side = "Bid", risk[taker.acct].mode = "CashOnly"
      PROVE  RestingReserve.cash >= FacePrice[taker.price] * taker.left
  <2>1. taker \in TakerRecord /\ fee \in Fees
    BY <1>2, TakerOrderType DEF TradeInv, EngineInv, TypeOK, Placing
  <2>2. taker.price >= 0 /\ taker.left >= 0
    BY <1>2 DEF TradeInv, TakerInv, ValidPrice
  <2>3. PICK price \in Nat, left \in Nat : price = taker.price /\ left = taker.left
    BY <2>1, <2>2 DEF TakerRecord
  <2>4. PICK notional \in Nat : notional = price * left
    BY TimesNat
  <2>5. WorstFee(fee, notional) \in Nat
    BY <2>1, FeeNat DEF WorstFee, AtLeast
  <2>6. RestingReserve.cash = notional + WorstFee(fee, notional)
    BY <1>2, <2>3, <2>4 DEF RestingReserve, BuyReserve
  <2>. QED  BY <1>1, <2>3, <2>4, <2>5, <2>6
<1>3. BidsPaid(owner', held', FacePrice) /\ risk' = risk
  BY <1>1, <1>2, BidsNext, RiskKept
<1>. QED  BY <1>3, Zenon DEF BidsPaid

\* What is left of a resting order is covered, however it was filled: proportional_release
\* rounds the part it frees so that the rest still pays for the open quantity, and asks
\* have all their units blocked.
THEOREM AlwaysRestCovered ==
    ASSUME NoBands, PlainAuctions, RiskChoices = {}, NoShortSales
    PROVE  Spec => []RestCovered
<1>1. Init => AsksInv /\ BidsPaid(owner, held, FacePrice)
  BY DEF Init, AsksInv, BidsPaid
<1>2. TradeInv /\ OwnersInv /\ ReserveInv /\ AsksInv /\ [Next]_vars => AsksInv'
  BY AsksNext
<1>3. /\ TradeInv /\ OwnersInv /\ ReserveInv /\ BidsPaid(owner, held, FacePrice) /\ [Next]_vars
      => BidsPaid(owner, held, FacePrice)'
  BY FaceNext
<1>4. /\ TradeInv /\ OwnersInv /\ ReserveInv /\ AsksInv /\ BidsPaid(owner, held, FacePrice)
      => RestCovered
  <2>. SUFFICES ASSUME TradeInv, OwnersInv, ReserveInv, AsksInv, BidsPaid(owner, held, FacePrice),
                       NEW o \in book, NEW config, config = risk[owner[o.id].acct]
                PROVE  IF o.side = "Bid"
                       THEN config.mode = "CashOnly" => held[o.id].cash >= o.price * Remaining(o)
                       ELSE held[o.id].short >=
                               ShortReserve(config, o.price, Remaining(o) - held[o.id].qty)
    BY DEF RestCovered
  <2>1. /\ EngineInv /\ book \subseteq BookOrder /\ held \in [OrderIds -> Reserve]
        /\ owner \in [OrderIds -> OwnerRecord \cup {NoOwner}]
    BY DEF TradeInv, EngineInv, TypeOK
  <2>2. o \in BookOrder /\ o.id \in OrderIds
    BY <2>1 DEF BookOrder
  <2>3. PICK id \in OrderIds : id = o.id
    BY <2>2
  <2>4. /\ owner[id] # NoOwner /\ owner[id].side = o.side /\ owner[id].price = o.price
        /\ owner[id].qty = Remaining(o)
    BY <2>1, <2>3, InvBook DEF OwnersInv, Claims
  <2>5. owner[id] \in OwnerRecord /\ held[id] \in Reserve
    BY <2>1, <2>4
  <2>6. PICK price \in Int, left \in Nat : price = o.price /\ left = Remaining(o)
    BY <2>2 DEF BookOrder, Remaining
  <2>7. CASE o.side = "Bid"
    <3>1. FacePrice[price] >= price /\ FacePrice[price] \in Int
      BY DEF FacePrice, Greater
    <3>2. left * FacePrice[price] >= left * price
      BY <3>1, TimesMore
    <3>3. FacePrice[price] * left = left * FacePrice[price] /\ price * left = left * price
      BY <3>1
    <3>4. config.mode = "CashOnly" => held[id].cash >= FacePrice[price] * left
      BY <2>3, <2>4, <2>6, <2>7 DEF BidsPaid
    <3>5. held[id].cash \in Int /\ FacePrice[price] * left \in Int /\ price * left \in Int
      BY <2>5, <3>1 DEF Reserve
    <3>6. config.mode = "CashOnly" => held[id].cash >= price * left
      BY <3>2, <3>3, <3>4, <3>5
    <3>. QED  BY <2>3, <2>6, <2>7, <3>6
  <2>8. CASE o.side # "Bid"
    <3>1. o.side = "Ask"
      BY <2>2, <2>8 DEF BookOrder, Sides
    <3>2. ~risk[owner[id].acct].short
      BY <2>5 DEF AsksInv, NoShortSales, OwnerRecord
    <3>3. held[id].qty = left
      BY <2>4, <2>6, <3>1, <3>2 DEF AsksInv
    <3>4. ShortReserve(config, o.price, Remaining(o) - held[o.id].qty) = 0
      BY <2>3, <2>6, <3>3 DEF ShortReserve
    <3>. QED  BY <2>3, <2>8, <3>4 DEF ReserveInv, Holding
  <2>. QED  BY <2>7, <2>8
<1>. QED  BY <1>1, <1>2, <1>3, <1>4, TradeInvariant, OwnersInvariant, ReserveInvariant, PTL DEF Spec

-----------------------------------------------------------------------------
(* Replacing an order.                                                      *)

\* The margin of a short sale grows with its size.
LEMMA ShortGrows ==
    ASSUME NEW config \in RiskConfig, NEW price \in Nat, NEW few \in Int, NEW many \in Int,
           few <= many
    PROVE  /\ ShortReserve(config, price, few) <= ShortReserve(config, price, many)
           /\ ShortReserve(config, price, few) \in Nat /\ ShortReserve(config, price, many) \in Nat
<1>1. PICK f \in Fees : TRUE
  <2>1. [maker |-> 0, taker |-> 0, fixed |-> 0] \in Fees
    BY DEF Fees
  <2>. QED  BY <2>1
<1>2. ShortReserve(config, price, few) \in Nat /\ ShortReserve(config, price, many) \in Nat
  BY <1>1, ReserveNat
<1>3. CASE few <= 0
  <2>1. ShortReserve(config, price, few) = 0
    BY <1>3 DEF ShortReserve
  <2>. QED  BY <1>2, <2>1
<1>4. CASE few > 0
  <2>1. PICK x \in Nat, y \in Nat : x = few /\ y = many
    BY <1>4
  <2>2. PICK rate \in Nat, unit \in Nat \ {0} : rate = config.onShort /\ unit = RiskUnit
    BY UnitsAssumption DEF RiskConfig
  <2>3. PICK w \in Nat : w = price * rate
    BY TimesNat
  <2>4. w * x <= w * y
    BY <1>4, <2>1, TimesMore
  <2>5. price * few * config.onShort = w * x /\ price * many * config.onShort = w * y
    BY <2>1, <2>2, <2>3
  <2>6. PICK u \in Nat, v \in Nat : u = w * x + unit - 1 /\ v = w * y + unit - 1
    <3>1. w * x \in Nat /\ w * y \in Nat
      BY TimesNat
    <3>. QED  BY <3>1
  <2>7. PICK d \in Int, e \in Int : d = u \div unit /\ e = v \div unit
    OBVIOUS
  <2>8. /\ unit * d <= u /\ u < unit * d + unit
        /\ unit * e <= v /\ v < unit * e + unit
    BY <2>7, QuotientBounds
  <2>9. d <= e
    <3>1. u <= v
      <4>1. w * x \in Int /\ w * y \in Int
        OBVIOUS
      <4>. QED  BY <2>4, <2>6, <4>1
    <3>2. d >= e + 1 => unit * d >= unit * e + unit
      BY OneMore
    <3>3. unit * d \in Int /\ unit * e \in Int
      OBVIOUS
    <3>. QED  BY <2>8, <3>1, <3>2, <3>3
  <2>10. ShortReserve(config, price, few) = d
    BY <1>4, <2>1, <2>2, <2>5, <2>6, <2>7 DEF ShortReserve, CeilDiv
  <2>11. ShortReserve(config, price, many) = e
    BY <1>4, <2>1, <2>2, <2>5, <2>6, <2>7 DEF ShortReserve, CeilDiv
  <2>. QED  BY <1>2, <2>9, <2>10, <2>11
<1>. QED  BY <1>3, <1>4

\* The reserves S are the reserves R without the credit C, and there is no less cash d and
\* no fewer units q than the cash c and the units p were.
Relieved(c, p, R, C, d, q, S, sym) ==
    /\ c \in Int /\ d \in Int /\ d >= c
    /\ p[sym] \in Int /\ q[sym] \in Int /\ q[sym] >= p[sym]
    /\ R \in Balances /\ S \in Balances /\ C \in Reserve
    /\ S.cash = R.cash - C.cash /\ S.short = R.short - C.short
    /\ S.qty[sym] = R.qty[sym] - C.qty

\* What was allowed with a credit is allowed when the credit has been granted.
LEMMA StillAllowed ==
    ASSUME NEW config \in RiskConfig, config.mode = "CashOnly", NEW f, NEW sym \in Symbols,
           NEW price \in Nat, NEW qty \in Nat \ {0},
           NEW c, NEW p, NEW R, NEW C, NEW d, NEW q, NEW S, NEW m, NEW w,
           Relieved(c, p, R, C, d, q, S, sym)
    PROVE  /\ BidAllowed(config, f, c, p, m, R, C, price, qty) /\ f \in Fees =>
                  BidAllowed(config, f, d, q, w, S, NoCredit, price, qty)
           /\ AskAllowed(config, c, p, m, R, C, sym, price, qty) =>
                  AskAllowed(config, d, q, w, S, NoCredit, sym, price, qty)
<1>1. /\ R.cash \in Int /\ R.short \in Int /\ R.qty[sym] \in Int
      /\ S.cash \in Int /\ S.short \in Int /\ S.qty[sym] \in Int
      /\ C.cash \in Int /\ C.short \in Int /\ C.qty \in Int
  BY DEF Relieved, Balances, Reserve
<1>2. NoCredit.cash = 0 /\ NoCredit.qty = 0 /\ NoCredit.short = 0
  BY DEF NoCredit
<1>3. ASSUME BidAllowed(config, f, c, p, m, R, C, price, qty), f \in Fees
      PROVE  BidAllowed(config, f, d, q, w, S, NoCredit, price, qty)
  <2>1. PICK notional \in Nat : notional = price * qty
    BY TimesNat
  <2>2. WorstFee(f, notional) \in Nat
    BY <1>3, FeeNat DEF WorstFee, AtLeast
  <2>3. PICK due \in Nat : due = price * qty + WorstFee(f, price * qty)
    BY <2>1, <2>2
  <2>4. c - (R.cash - C.cash) >= due
    BY <1>3, <2>3 DEF BidAllowed
  <2>5. d - (S.cash - NoCredit.cash) >= due
    BY <1>1, <1>2, <2>4 DEF Relieved
  <2>. QED  BY <2>3, <2>5 DEF BidAllowed
<1>4. ASSUME AskAllowed(config, c, p, m, R, C, sym, price, qty)
      PROVE  AskAllowed(config, d, q, w, S, NoCredit, sym, price, qty)
  <2>1. PICK free \in Int, more \in Int : /\ free = p[sym] - (R.qty[sym] - C.qty)
                                          /\ more = q[sym] - (S.qty[sym] - NoCredit.qty)
    BY <1>1, <1>2 DEF Relieved
  <2>2. more >= free
    BY <1>1, <1>2, <2>1 DEF Relieved
  <2>3. CASE free >= qty
    BY <2>1, <2>2, <2>3 DEF AskAllowed
  <2>4. CASE ~(free >= qty)
    <3>0. qty - AtLeast(0, free) \in Int /\ qty - AtLeast(0, more) \in Int
      BY DEF AtLeast
    <3>1. PICK many \in Int, few \in Int : /\ many = qty - AtLeast(0, free)
                                           /\ few = qty - AtLeast(0, more)
      BY <3>0
    <3>2. few <= many
      BY <2>2, <3>1 DEF AtLeast
    <3>3. /\ config.short
          /\ c - (R.cash - C.cash) - (R.short - C.short) >= ShortReserve(config, price, many)
      BY <1>4, <2>1, <2>4, <3>1 DEF AskAllowed
    <3>4. PICK x \in Nat, y \in Nat : /\ x = ShortReserve(config, price, few)
                                      /\ y = ShortReserve(config, price, many) /\ x <= y
      BY <3>2, ShortGrows
    <3>5. d - (S.cash - NoCredit.cash) - (S.short - NoCredit.short) >= x
      BY <1>1, <1>2, <3>3, <3>4 DEF Relieved
    <3>. QED  BY <2>1, <3>1, <3>3, <3>4, <3>5 DEF AskAllowed
  <2>. QED  BY <2>3, <2>4
<1>. QED  BY <1>3, <1>4

\* A replacement is being placed only when replace_order has begun to place it.
LEMMA ReplaceOnly ==
    ASSUME [Next]_vars, pc' = "place", caller' = "replace"
    PROVE  \/ UNCHANGED vars
           \/ \E a \in Accounts, id \in OrderIds, r \in Amendments : Replace(a, id, r)
<1>1. CASE Submission
  BY <1>1 DEF Submission, SubmitOrder, SubmitMarket, SubmitStop
<1>2. CASE Amendment
  BY <1>2 DEF Amendment, CancelStop, Cancel, ReplaceStop, control
<1>3. CASE MarketControl
  BY <1>3 DEF MarketControl, StartUncross, HaltSymbol, ResumeSymbol, SetTradingPhase,
     SetPriceBands, ClearPriceBands, ChangePhase, ChangeBand, control
<1>4. CASE Setting
  BY <1>4 DEF Setting, SetFeeModel, SetAccountRiskConfig, SetAccountState, control
<1>5. CASE Internal
  <2>1. CASE RefuseOrder \/ AdmitOrder \/ FinishOrder
    BY <2>1 DEF RefuseOrder, AdmitOrder, FinishOrder, OrderDone, AfterOrder
  <2>2. CASE ExecuteFill
    BY <2>2 DEF ExecuteFill, BandBreach
  <2>3. CASE ScanStops \/ TriggerStop \/ EndPass \/ AuctionTrade \/ EndUncross
    BY <2>3 DEF ScanStops, TriggerStop, EndPass, AfterPass, AuctionTrade, EndUncross
  <2>. QED  BY <1>5, <2>1, <2>2, <2>3 DEF Internal
<1>6. CASE UNCHANGED vars
  BY <1>6
<1>. QED  BY <1>1, <1>2, <1>3, <1>4, <1>5, <1>6 DEF Next, Inspect

\* The rules change by set_account_risk_config only.
LEMMA CashKept ==
    ASSUME EngineInv, \A a \in Accounts : risk[a].mode = "CashOnly", [Next]_vars, CashAccounts
    PROVE  \A a \in Accounts : risk'[a].mode = "CashOnly"
<1>1. \/ risk' = risk
      \/ \E a \in Accounts, new \in RiskChoices : risk' = [risk EXCEPT ![a] = new]
  BY ZenonT(30) DEF Next, Submission, SubmitOrder, SubmitMarket, SubmitStop, Amendment, CancelStop,
     Cancel, Replace, ReplaceStop, MarketControl, StartUncross, HaltSymbol, ResumeSymbol,
     SetTradingPhase, SetPriceBands, ClearPriceBands, ChangePhase, ChangeBand, Setting, SetFeeModel,
     SetAccountRiskConfig, SetAccountState, Internal, RefuseOrder, AdmitOrder, ExecuteFill,
     FinishOrder, ScanStops, TriggerStop, EndPass, AuctionTrade, EndUncross, Inspect, settings, vars
<1>2. risk \in [Accounts -> RiskConfig]
  BY DEF EngineInv, TypeOK
<1>. QED  BY <1>1, <1>2 DEF CashAccounts

\* The order that is replaced is withdrawn, and the check passes again without it.
LEMMA ReplaceAdmitted ==
    ASSUME TradeInv, OwnersInv, \A a \in Accounts : risk[a].mode = "CashOnly",
           NEW a \in Accounts, NEW id \in OrderIds, NEW r \in Amendments, Replace(a, id, r)
    PROVE  (WellFormed(taker) /\ Affordable(taker))'
<1>1. /\ owner \in [OrderIds -> OwnerRecord \cup {NoOwner}] /\ held \in [OrderIds -> Reserve]
      /\ reserved \in [Accounts -> Balances] /\ position \in [Accounts -> [Symbols -> Int]]
      /\ cash \in [Accounts -> Int] /\ risk \in [Accounts -> RiskConfig] /\ fee \in Fees
      /\ EngineInv
  BY DEF TradeInv, EngineInv, TypeOK, Balances
<1>2. reserved' \in [Accounts -> Balances]
  BY <1>1, NextInv DEF Next, Amendment, EngineInv, TypeOK, Balances
<1>3. /\ owner[id] # NoOwner /\ owner[id].acct = a /\ owner[id].kind = "Displayed"
      /\ ValidPrice(r.price) /\ ValidQty(r.qty) /\ r.price \in Int /\ r.qty \in Int
      /\ UNCHANGED <<cash, position, phase, band, fee, risk>>
  BY RequestsAssumption DEF Replace, market, settings
<1>4. PICK sym \in Symbols, side \in Sides, price \in Nat, qty \in Nat \ {0} :
          /\ sym = owner[id].sym /\ side = owner[id].side /\ price = r.price /\ qty = r.qty
  <2>1. owner[id] \in OwnerRecord
    BY <1>1, <1>3
  <2>2. owner[id].sym \in Symbols /\ owner[id].side \in Sides
    BY <2>1 DEF OwnerRecord
  <2>3. r.price \in Nat /\ r.qty \in Nat \ {0}
    BY <1>3 DEF ValidPrice, ValidQty
  <2>. QED  BY <2>2, <2>3
<1>5. /\ ~Halted(sym) /\ InBand(sym, price)
      /\ RiskAllows(cash, position, a, sym, side, price, qty, held[id])
      /\ taker' = NewTaker(id, [acct |-> a, sym |-> sym, side |-> side, qty |-> qty], price,
                           "GTC", "Displayed", 0)
  BY <1>4 DEF Replace
<1>6. PICK o \in InBook(id) : Withdraw(a, id, o)
  <2>1. PICK o \in book : o.id = id
    BY <1>3 DEF OwnersInv
  <2>2. o \in InBook(id)
    BY <1>1, <2>1, InvBook DEF InBook, Claims
  <2>. QED  BY <2>2 DEF Replace
<1>7. /\ reserved'[a].cash = reserved[a].cash - held[id].cash
      /\ reserved'[a].short = reserved[a].short - held[id].short
      /\ reserved'[a].qty[sym] = reserved[a].qty[sym] - held[id].qty
  <2>1. PICK w \in Symbols, c \in Int, k \in Int, q \in Int : Withdrawn(a, w, id, c, k, q)
    BY <1>1, <1>3, <1>6, WithdrawStep
  <2>2. w = sym /\ c = held[id].cash /\ k = held[id].short /\ q = held[id].qty
    BY <1>4, <2>1 DEF Withdrawn
  <2>. QED  BY <2>1, <2>2 DEF Withdrawn
<1>8. PICK d, u, S, m, w : /\ d = ToppedUpCash(a)[a] /\ u = ToppedUpPosition(a, sym)[a]
                           /\ S = reserved'[a] /\ m = Marks2 /\ w = Marks2'
  OBVIOUS
<1>9. Relieved(cash[a], position[a], reserved[a], held[id], d, u, S, sym)
  <2>1. d >= cash[a] /\ u[sym] >= position[a][sym]
    BY <1>1, <1>8, ToppedUpMore DEF EngineInv
  <2>2. d \in Int /\ u[sym] \in Int
    BY <1>1, <1>8, AccountsAssumption DEF ToppedUpCash, ToppedUpPosition, Greater
  <2>. QED  BY <1>1, <1>2, <1>7, <1>8, <2>1, <2>2 DEF Relieved
<1>10. IF side = "Bid"
       THEN BidAllowed(risk[a], fee, d, u, w, S, NoCredit, price, qty)
       ELSE AskAllowed(risk[a], d, u, w, S, NoCredit, sym, price, qty)
  <2>1. PICK config \in RiskConfig, c \in Int, p \in [Symbols -> Int], R \in Balances,
             C \in Reserve : /\ config = risk[a] /\ c = cash[a] /\ p = position[a]
                             /\ R = reserved[a] /\ C = held[id]
    BY <1>1
  <2>2. config.mode = "CashOnly" /\ Relieved(c, p, R, C, d, u, S, sym)
    BY <1>9, <2>1
  <2>3. IF side = "Bid" THEN BidAllowed(config, fee, c, p, m, R, C, price, qty)
        ELSE AskAllowed(config, c, p, m, R, C, sym, price, qty)
    BY <1>5, <1>8, <2>1 DEF RiskAllows
  <2>4. IF side = "Bid" THEN BidAllowed(config, fee, d, u, w, S, NoCredit, price, qty)
        ELSE AskAllowed(config, d, u, w, S, NoCredit, sym, price, qty)
    BY <1>1, <2>2, <2>3, StillAllowed
  <2>. QED  BY <2>1, <2>4
<1>11. PICK T : T = taker'
  OBVIOUS
<1>12. /\ T.acct = a /\ T.sym = sym /\ T.side = side /\ T.price = price /\ T.left = qty
       /\ T.kind = "Displayed"
  BY <1>5, <1>11 DEF NewTaker
<1>13. WellFormed(taker)'
  <2>1. ~Halted(sym)' /\ InBand(sym, price)'
    BY <1>3, <1>5 DEF Halted, InBand
  <2>. QED  BY <1>11, <1>12, <2>1 DEF WellFormed, ValidPrice, ValidQty
<1>14. Affordable(taker)'
  <2>1. ToppedUpCash(a)'[a] = d /\ ToppedUpPosition(a, sym)'[a] = u
    BY <1>3, <1>8 DEF ToppedUpCash, ToppedUpPosition
  <2>2. IF side = "Bid"
        THEN BidAllowed(risk'[a], fee', ToppedUpCash(a)'[a], ToppedUpPosition(a, sym)'[a], w,
                        reserved'[a], NoCredit, price, qty)
        ELSE AskAllowed(risk'[a], ToppedUpCash(a)'[a], ToppedUpPosition(a, sym)'[a], w,
                        reserved'[a], NoCredit, sym, price, qty)
    BY <1>3, <1>8, <1>10, <2>1
  <2>. QED  BY <1>8, <1>11, <1>12, <2>2 DEF Affordable, RiskAllows
<1>. QED  BY <1>13, <1>14

\* A replace never costs a client its old order: replace_order checks the new one as if
\* what the old one has blocked were free, and canceling the old one frees exactly that.
THEOREM ReplaceAlwaysSafe ==
    ASSUME NoBands, PlainAuctions, CashAccounts
    PROVE  Spec => []ReplaceSafe
<1>. DEFINE CashInv == \A a \in Accounts : risk[a].mode = "CashOnly"
<1>1. Init => CashInv /\ ReplaceSafe
  BY DEF Init, CashAccounts, ReplaceSafe
<1>2. TradeInv /\ CashInv /\ [Next]_vars => CashInv'
  BY CashKept DEF TradeInv
<1>3. TradeInv /\ OwnersInv /\ CashInv /\ ReplaceSafe /\ [Next]_vars => ReplaceSafe'
  <2>. SUFFICES ASSUME TradeInv, OwnersInv, CashInv, ReplaceSafe, [Next]_vars,
                       pc' = "place", caller' = "replace"
                PROVE  (WellFormed(taker) /\ Affordable(taker))'
    BY DEF ReplaceSafe
  <2>1. CASE UNCHANGED vars
    <3>1. pc = "place" /\ caller = "replace"
      BY <2>1 DEF vars, control
    <3>2. WellFormed(taker) /\ Affordable(taker)
      BY <3>1 DEF ReplaceSafe
    <3>. QED  BY <2>1, <3>2 DEF vars, control, funds, market, settings, WellFormed, Affordable,
              Halted, InBand, RiskAllows, ToppedUpCash, ToppedUpPosition, Marks2, Mark2
  <2>2. CASE \E a \in Accounts, id \in OrderIds, r \in Amendments : Replace(a, id, r)
    BY <2>2, ReplaceAdmitted
  <2>. QED  BY <2>1, <2>2, ReplaceOnly
<1>. QED  BY <1>1, <1>2, <1>3, TradeInvariant, OwnersInvariant, PTL DEF Spec

-----------------------------------------------------------------------------
(* Fees that are not rounded.                                               *)

\* A fee of at most m by its rate is at most m when it has been rounded, and a fee of
\* exactly m is m.
LEMMA FeeBounds ==
    ASSUME NEW f \in Fees, f.fixed = 0, NEW role \in {"maker", "taker"},
           NEW paid \in Nat, NEW m \in Nat
    PROVE  /\ paid * f[role] <= m * FeeUnit => FeeForNotional(f, paid, role) <= m
           /\ paid * f[role] = m * FeeUnit => FeeForNotional(f, paid, role) = m
<1>1. PICK rate \in Nat, one \in Nat \ {0} : rate = f[role] /\ one = FeeUnit
  BY UnitsAssumption DEF Fees
<1>2. PICK share \in Nat, whole \in Nat : share = paid * rate /\ whole = m * one
  BY TimesNat
<1>3. PICK unit \in Nat \ {0}, due \in Nat : unit = 2 * one /\ due = 2 * share + one
  OBVIOUS
<1>4. PICK d \in Int : d = due \div unit
  OBVIOUS
<1>5. unit * d <= due /\ due < unit * d + unit
  BY <1>4, QuotientBounds
<1>6. FeeForNotional(f, paid, role) = d
  <2>1. 2 * paid * f[role] = 2 * share
    BY <1>1, <1>2
  <2>. QED  BY <1>1, <1>3, <1>4, <2>1 DEF FeeForNotional
<1>7. unit * m = 2 * whole /\ unit * m \in Int /\ unit * d \in Int
  BY <1>2, <1>3
<1>8. share <= whole => d <= m
  <2>1. d >= m + 1 => unit * d >= unit * m + unit
    BY OneMore
  <2>. QED  BY <1>3, <1>5, <1>7, <2>1
<1>9. share = whole => d >= m
  <2>1. m >= d + 1 => unit * m >= unit * d + unit
    BY OneMore
  <2>. QED  BY <1>3, <1>5, <1>7, <2>1
<1>. QED  BY <1>1, <1>2, <1>6, <1>8, <1>9

\* What a unit costs a buyer at most, at its limit price.
WorstRate == AtLeast(StartFee.taker, StartFee.maker)
UnitCost == [p \in Int |-> Greater(0, p) + ((Greater(0, p) * WorstRate) \div FeeUnit)]

LEMMA UnitCostType == UnitCost \in [Int -> Nat]
<1>1. WorstRate \in Nat /\ FeeUnit \in Nat \ {0}
  BY UnitsAssumption, StartAssumption DEF WorstRate, AtLeast, Fees
<1>2. ASSUME NEW p \in Int
      PROVE  Greater(0, p) + ((Greater(0, p) * WorstRate) \div FeeUnit) \in Nat
  <2>1. PICK g \in Nat : g = Greater(0, p)
    BY DEF Greater
  <2>2. PICK x \in Nat : x = g * WorstRate
    BY <1>1, TimesNat
  <2>3. x \div FeeUnit \in Nat
    BY <1>1
  <2>. QED  BY <2>1, <2>2, <2>3
<1>. QED  BY <1>2 DEF UnitCost

\* A reserve of a bid is what its units cost, and a trade at its limit or below does not
\* cost more.
LEMMA UnitCosts ==
    ASSUME WholeFees, NEW price \in Nat, WholeFee(price), NEW n \in Nat
    PROVE  /\ price * n + WorstFee(StartFee, price * n) = UnitCost[price] * n
           /\ \A paid \in Nat, role \in {"maker", "taker"} :
                 paid <= price * n => paid + FeeForNotional(StartFee, paid, role) <= UnitCost[price] * n
<1>1. PICK one \in Nat \ {0}, maker \in Nat, taken \in Nat, worst \in Nat :
          one = FeeUnit /\ maker = StartFee.maker /\ taken = StartFee.taker /\ worst = WorstRate
  BY UnitsAssumption, StartAssumption DEF WorstRate, AtLeast, Fees
<1>2. worst >= maker /\ worst >= taken /\ (worst = maker \/ worst = taken)
  BY <1>1 DEF WorstRate, AtLeast
<1>3. StartFee \in Fees /\ StartFee.fixed = 0
  BY StartAssumption DEF WholeFees
<1>4. PICK gross \in Nat, k \in Int : gross = price * worst /\ k = gross \div one
  BY TimesNat
<1>5. gross = one * k
  <2>1. gross % one = 0
    BY <1>1, <1>2, <1>4 DEF WholeFee, ValidPrice
  <2>. QED  BY <1>4, <2>1
<1>6. k \in Nat
  BY <1>4
<1>7. UnitCost[price] = price + k
  BY <1>1, <1>4 DEF UnitCost, Greater
<1>8. PICK notional \in Nat, m \in Nat : notional = price * n /\ m = k * n
  BY <1>6, TimesNat
<1>9. UnitCost[price] * n = notional + m
  BY <1>6, <1>7, <1>8
<1>10. notional * worst = m * one
  <2>1. notional * worst = (price * worst) * n
    BY <1>8
  <2>2. m * one = (one * k) * n
    BY <1>6, <1>8
  <2>. QED  BY <1>4, <1>5, <2>1, <2>2
<1>11. ASSUME NEW paid \in Nat, NEW role \in {"maker", "taker"}, paid <= notional
       PROVE  FeeForNotional(StartFee, paid, role) <= m
  <2>1. PICK rate \in Nat : rate = StartFee[role] /\ rate <= worst
    BY <1>1, <1>2
  <2>2. paid * rate <= paid * worst
    BY <2>1, TimesMore
  <2>3. worst * paid <= worst * notional
    BY <1>11, TimesMore
  <2>4. /\ paid * worst = worst * paid /\ notional * worst = worst * notional
        /\ paid * rate \in Int /\ worst * paid \in Int /\ worst * notional \in Int
    OBVIOUS
  <2>5. paid * StartFee[role] <= m * FeeUnit
    BY <1>1, <1>10, <2>1, <2>2, <2>3, <2>4
  <2>. QED  BY <1>3, <2>5, FeeBounds
<1>12. \E role \in {"maker", "taker"} : FeeForNotional(StartFee, notional, role) = m
  <2>1. PICK role \in {"maker", "taker"} : StartFee[role] = worst
    BY <1>1, <1>2
  <2>2. notional * StartFee[role] = m * FeeUnit
    BY <1>1, <1>10, <2>1
  <2>. QED  BY <1>3, <2>2, FeeBounds
<1>13. WorstFee(StartFee, notional) = m
  <2>1. PICK x \in Nat, y \in Nat : /\ x = FeeForNotional(StartFee, notional, "taker")
                                    /\ y = FeeForNotional(StartFee, notional, "maker")
    BY <1>3, FeeNat
  <2>2. x <= m /\ y <= m /\ (x = m \/ y = m)
    BY <1>11, <1>12, <2>1
  <2>. QED  BY <2>1, <2>2 DEF WorstFee, AtLeast
<1>14. ASSUME NEW paid \in Nat, NEW role \in {"maker", "taker"}, paid <= price * n
       PROVE  paid + FeeForNotional(StartFee, paid, role) <= UnitCost[price] * n
  <2>1. FeeForNotional(StartFee, paid, role) <= m /\ FeeForNotional(StartFee, paid, role) \in Nat
    BY <1>3, <1>8, <1>11, <1>14, FeeNat
  <2>. QED  BY <1>8, <1>9, <1>14, <2>1
<1>. QED  BY <1>8, <1>9, <1>13, <1>14

\* A seller is never charged more than it is paid.
LEMMA SaleCosts ==
    ASSUME WholeFees, NEW paid \in Nat, NEW role \in {"maker", "taker"}
    PROVE  FeeForNotional(StartFee, paid, role) <= paid
<1>1. PICK one \in Nat, rate \in Nat : one = FeeUnit /\ rate = StartFee[role] /\ rate <= one
  BY UnitsAssumption, StartAssumption DEF WholeFees, Fees
<1>2. paid * rate <= paid * one
  BY <1>1, TimesMore
<1>3. StartFee \in Fees /\ StartFee.fixed = 0
  BY StartAssumption DEF WholeFees
<1>. QED  BY <1>1, <1>2, <1>3, FeeBounds

-----------------------------------------------------------------------------
(* Where prices come from.                                                  *)

\* The limit of a market order is a price of the book.
LEMMA MarketPrice ==
    ASSUME NEW id, NEW r, NEW refused, PlaceMarket(id, r, refused)
    PROVE  (pc' = refused /\ taker' = taker) \/ \E o \in book : taker'.price = o.price
<1>1. CASE MarketRefused(r)
  BY <1>1 DEF PlaceMarket
<1>2. CASE ~MarketRefused(r)
  <2>1. PICK p \in MarketLimit(book, r.sym, r.side, r.qty) :
            taker' = NewTaker(id, r, p, "IOC", "Displayed", 0)
    BY <1>2 DEF PlaceMarket
  <2>2. \E o \in book : p = o.price
    BY <2>1 DEF MarketLimit, DisplayedPrices, Resting
  <2>3. taker'.price = p
    BY <2>1 DEF NewTaker
  <2>. QED  BY <2>2, <2>3
<1>. QED  BY <1>1, <1>2

\* The limit price of the order being placed.
LEMMA TakerPrices ==
    ASSUME EngineInv, [Next]_vars
    PROVE  \/ pc' \notin Placing
           \/ pc \in Placing /\ taker'.price = taker.price
           \/ \E r \in OrderRequests \cup Amendments : taker'.price = r.price
           \/ \E st \in stops : taker'.price = st.limit
           \/ \E o \in book : taker'.price = o.price
<1>1. CASE Submission
  <2>1. ASSUME NEW r \in OrderRequests, SubmitOrder(r)
        PROVE  taker'.price = r.price
    BY <2>1 DEF SubmitOrder, NewTaker
  <2>2. ASSUME NEW r \in MarketRequests, SubmitMarket(r)
        PROVE  pc' \notin Placing \/ \E o \in book : taker'.price = o.price
    BY <2>2, MarketPrice DEF SubmitMarket, Placing
  <2>3. ASSUME NEW r \in StopRequests, SubmitStop(r)
        PROVE  pc' \notin Placing
    BY <2>3 DEF SubmitStop, Placing
  <2>. QED  BY <1>1, <2>1, <2>2, <2>3 DEF Submission
<1>2. CASE Amendment
  <2>1. ASSUME NEW a \in Accounts, NEW id \in OrderIds, NEW r \in Amendments, Replace(a, id, r)
        PROVE  taker'.price = r.price
    BY <2>1 DEF Replace, NewTaker
  <2>2. ASSUME NEW a \in Accounts, NEW st \in stops, CancelStop(a, st)
        PROVE  pc' \notin Placing
    BY <2>2 DEF CancelStop, control, Placing
  <2>3. ASSUME NEW a \in Accounts, NEW id \in OrderIds, Cancel(a, id)
        PROVE  pc' \notin Placing
    BY <2>3 DEF Cancel, control, Placing
  <2>4. ASSUME NEW a \in Accounts, NEW st \in stops, NEW r \in StopAmendments, ReplaceStop(a, st, r)
        PROVE  pc' \notin Placing
    BY <2>4 DEF ReplaceStop, Placing
  <2>. QED  BY <1>2, <2>1, <2>2, <2>3, <2>4, Zenon DEF Amendment
<1>3. CASE MarketControl
  BY <1>3 DEF MarketControl, StartUncross, HaltSymbol, ResumeSymbol, SetTradingPhase,
     SetPriceBands, ClearPriceBands, ChangePhase, ChangeBand, control, Placing
<1>4. CASE Setting
  BY <1>4 DEF Setting, SetFeeModel, SetAccountRiskConfig, SetAccountState, control, Placing
<1>5. CASE Internal
  <2>1. CASE RefuseOrder \/ FinishOrder
    BY <2>1 DEF RefuseOrder, FinishOrder, OrderDone, AfterOrder, Placing
  <2>2. CASE AdmitOrder
    BY <2>2 DEF AdmitOrder, AfterOrder, Placing
  <2>3. CASE ExecuteFill
    <3>1. pc \in Placing /\ taker \in TakerRecord
      BY <2>3, TakerOrderType DEF ExecuteFill, Placing
    <3>2. \E n : taker' = [taker EXCEPT !.left = @ - n]
      BY <2>3 DEF ExecuteFill
    <3>. QED  BY <3>1, <3>2 DEF TakerRecord
  <2>4. CASE TriggerStop
    <3>1. PICK st \in stops :
             IF st.limit = NoPrice THEN PlaceMarket(nextId, st, "stops")
             ELSE taker' = NewTaker(nextId, st, st.limit, "GTC", "Displayed", 0)
      BY <2>4 DEF TriggerStop
    <3>2. CASE PlaceMarket(nextId, st, "stops")
      BY <3>2, MarketPrice DEF Placing
    <3>3. CASE taker' = NewTaker(nextId, st, st.limit, "GTC", "Displayed", 0)
      BY <3>3 DEF NewTaker
    <3>. QED  BY <3>1, <3>2, <3>3
  <2>5. CASE ScanStops \/ EndPass \/ AuctionTrade \/ EndUncross
    BY <2>5 DEF ScanStops, EndPass, AfterPass, AuctionTrade, EndUncross, Placing
  <2>. QED  BY <1>5, <2>1, <2>2, <2>3, <2>4, <2>5 DEF Internal
<1>6. CASE UNCHANGED vars
  BY <1>6 DEF vars, control
<1>. QED  BY <1>1, <1>2, <1>3, <1>4, <1>5, <1>6 DEF Next, Inspect

\* The limit prices of stops.
LEMMA StopPrices ==
    ASSUME EngineInv, [Next]_vars
    PROVE  \A x \in stops' : \/ \E st \in stops : x.limit = st.limit
                             \/ \E r \in StopRequests \cup StopAmendments : x.limit = r.limit
<1>1. CASE stops' \subseteq stops
  BY <1>1
<1>2. ASSUME NEW r \in StopRequests, SubmitStop(r)
      PROVE  \A x \in stops' : x \in stops \/ x.limit = r.limit
  BY <1>2 DEF SubmitStop
<1>3. ASSUME NEW a \in Accounts, NEW st \in stops, NEW r \in StopAmendments, ReplaceStop(a, st, r)
      PROVE  \A x \in stops' : x \in stops \/ x.limit = st.limit \/ x.limit = r.limit
  <2>1. st \in StopRecord
    BY DEF EngineInv, TypeOK
  <2>2. PICK limit : /\ limit = IF r.limit = NoPrice THEN st.limit ELSE r.limit
                     /\ stops' = (stops \ {st}) \cup
                           {[st EXCEPT !.stop = r.stop, !.qty = r.qty, !.limit = limit]}
    BY <1>3 DEF ReplaceStop
  <2>3. [st EXCEPT !.stop = r.stop, !.qty = r.qty, !.limit = limit].limit = limit
    BY <2>1 DEF StopRecord
  <2>. QED  BY <2>2, <2>3
<1>4. CASE TriggerStop
  BY <1>1, <1>4 DEF TriggerStop
<1>5. CASE Submission
  BY <1>1, <1>2, <1>5 DEF Submission, SubmitOrder, SubmitMarket
<1>6. CASE Amendment
  <2>1. (\E a \in Accounts, st \in stops : CancelStop(a, st)) => stops' \subseteq stops
    BY DEF CancelStop
  <2>2. /\ (\E a \in Accounts, id \in OrderIds : Cancel(a, id)) => stops' = stops
        /\ (\E a \in Accounts, id \in OrderIds, r \in Amendments : Replace(a, id, r)) =>
              stops' = stops
    BY Zenon DEF Cancel, Replace
  <2>. QED  BY <1>1, <1>3, <1>6, <2>1, <2>2 DEF Amendment
<1>7. CASE stops' = stops
  BY <1>7
<1>8. MarketControl => stops' = stops
  BY DEF MarketControl, StartUncross, HaltSymbol, ResumeSymbol, SetTradingPhase,
     SetPriceBands, ClearPriceBands, ChangePhase, ChangeBand
<1>9. Setting => stops' = stops
  BY DEF Setting, SetFeeModel, SetAccountRiskConfig, SetAccountState
<1>10. Internal => TriggerStop \/ stops' = stops
  BY DEF Internal, RefuseOrder, AdmitOrder, ExecuteFill, FinishOrder, ScanStops, EndPass,
     AuctionTrade, EndUncross
<1>11. UNCHANGED vars => stops' = stops
  BY DEF vars
<1>. QED  BY <1>4, <1>5, <1>6, <1>7, <1>8, <1>9, <1>10, <1>11 DEF Next, Inspect

\* The price of an uncross is one of the book's.
LEMMA AuctionPrices ==
    ASSUME EngineInv, [Next]_vars, pc' = "uncross"
    PROVE  \/ pc = "uncross" /\ auction'.price = auction.price
           \/ \E o \in book : auction'.price = o.price
<1>1. CASE \E sym \in Symbols : StartUncross(sym)
  <2>1. PICK sym \in Symbols : StartUncross(sym)
    BY <1>1
  <2>2. PICK p \in ClearingPrice(book, sym, mark[sym]) :
            \/ auction' = [sym |-> sym, price |-> p, left |-> Matched(book, sym, p)]
            \/ pc' = pc
    BY <2>1 DEF StartUncross
  <2>3. \E o \in book : p = o.price
    BY <2>2 DEF ClearingPrice, DisplayedPrices, Resting
  <2>4. pc = "idle"
    BY <2>1 DEF StartUncross
  <2>. QED  BY <2>2, <2>3, <2>4
<1>2. CASE AuctionTrade
  <2>1. pc = "uncross" /\ \E n : auction' = [auction EXCEPT !.left = @ - n]
    <3>1. pc = "uncross"
      BY <1>2 DEF AuctionTrade
    <3>2. PICK n, bid, ask, b, s, buyerFee, sellerFee :
             AuctionEffect(n, bid, ask, b, s, buyerFee, sellerFee)
      BY <1>2, AuctionStep
    <3>. QED  BY <3>1, <3>2 DEF AuctionEffect
  <2>2. auction \in [sym : Symbols, price : Int, left : Int]
    BY <2>1 DEF EngineInv, TypeOK
  <2>. QED  BY <2>1, <2>2
<1>3. CASE UNCHANGED vars
  BY <1>3 DEF vars, control
<1>4. ~Submission
  BY MarketPrice DEF Submission, SubmitOrder, SubmitMarket, SubmitStop, PlaceMarket
<1>5. ~Amendment /\ ~Setting
  BY DEF Amendment, CancelStop, Cancel, Replace, ReplaceStop, Setting, SetFeeModel,
     SetAccountRiskConfig, SetAccountState, control
<1>6. MarketControl => \E sym \in Symbols : StartUncross(sym)
  BY DEF MarketControl, HaltSymbol, ResumeSymbol, SetTradingPhase,
     SetPriceBands, ClearPriceBands, ChangePhase, ChangeBand, control
<1>7. Internal => AuctionTrade
  BY DEF Internal, RefuseOrder, AdmitOrder, ExecuteFill, BandBreach, FinishOrder, OrderDone,
     AfterOrder, ScanStops, TriggerStop, PlaceMarket, EndPass, AfterPass, EndUncross
<1>. QED  BY <1>1, <1>2, <1>3, <1>4, <1>5, <1>6, <1>7 DEF Next, Inspect

\* No price is invented on the way.
LEMMA PricesNext ==
    ASSUME TradeInv, OwnersInv, ReserveInv, PricesInv, [Next]_vars, WholeFees
    PROVE  PricesInv'
<1>1. EngineInv /\ owner \in [OrderIds -> OwnerRecord \cup {NoOwner}]
  BY DEF TradeInv, EngineInv, TypeOK
<1>2. ASSUME NEW o \in book
      PROVE  ValidPrice(o.price) /\ WholeFee(o.price)
  <2>1. o.id \in OrderIds /\ owner[o.id] # NoOwner /\ owner[o.id].price = o.price
    BY <1>1, InvBook DEF GoodBook, BookOrder, Claims
  <2>. QED  BY <2>1 DEF PricesInv
<1>3. \A r \in OrderRequests \cup Amendments : WholeFee(r.price)
  BY DEF WholeFees
<1>4. \A x \in stops' : WholeFee(x.limit)
  BY <1>1, StopPrices DEF WholeFees, PricesInv
<1>5. pc' \in Placing => WholeFee(taker'.price)
  <2>1. pc \in Placing /\ taker'.price = taker.price => WholeFee(taker'.price)
    BY DEF PricesInv
  <2>2. (\E st \in stops : taker'.price = st.limit) => WholeFee(taker'.price)
    BY DEF PricesInv
  <2>. QED  BY <1>1, <1>2, <1>3, <2>1, <2>2, TakerPrices
<1>6. pc' = "uncross" => ValidPrice(auction'.price)
  BY <1>1, <1>2, AuctionPrices DEF PricesInv, ValidPrice
<1>7. ASSUME NEW id \in OrderIds, owner'[id] # NoOwner
      PROVE  ValidPrice(owner'[id].price) /\ WholeFee(owner'[id].price)
  <2>1. CASE owner' = owner
    BY <1>7, <2>1 DEF PricesInv
  <2>2. CASE ExecuteFill
    <3>1. PICK m \in book, i \in OrderIds, a \in Accounts, sym \in Symbols, n \in Nat \ {0},
               b \in Accounts, s \in Accounts, buyerFee \in Int, sellerFee \in Int,
               x \in Int, y \in Int, z \in Int :
                   Fills(m, i, a, sym, n, b, s, buyerFee, sellerFee, x, y, z)
      BY <2>2, FillTrades
    <3>2. owner[i] # NoOwner /\ owner' = AuctionOwner(owner, i, n)
      BY <3>1 DEF Fills, Trades
    <3>3. owner[id] # NoOwner /\ owner'[id].price = owner[id].price
      BY <1>1, <1>7, <3>2, TradedRecord
    <3>. QED  BY <3>3 DEF PricesInv
  <2>3. CASE AuctionTrade
    <3>1. PICK bid \in book, ask \in book, i \in OrderIds, j \in OrderIds, b \in Accounts,
               s \in Accounts, sym \in Symbols, n \in Nat \ {0}, buyerFee \in Int,
               sellerFee \in Int, x \in Int, y \in Int, z \in Int :
                   Uncrosses(bid, ask, i, j, b, s, sym, n, buyerFee, sellerFee, x, y, z)
      BY <2>3, AuctionTrades
    <3>2. /\ owner[i] # NoOwner /\ owner[j] # NoOwner /\ i # j
          /\ owner' = AuctionOwner(AuctionOwner(owner, i, n), j, n)
      BY <3>1 DEF Uncrosses, Trades
    <3>3. PICK O : O = AuctionOwner(owner, i, n)
      OBVIOUS
    <3>4. /\ O \in [OrderIds -> OwnerRecord \cup {NoOwner}] /\ O[j] # NoOwner
          /\ \A k \in OrderIds : O[k] # NoOwner => owner[k] # NoOwner /\ O[k].price = owner[k].price
      BY <1>1, <3>2, <3>3, TradedRecord
    <3>5. owner' = AuctionOwner(O, j, n)
      BY <3>2, <3>3
    <3>6. O[id] # NoOwner /\ owner'[id].price = O[id].price
      BY <1>7, <3>4, <3>5, TradedRecord
    <3>. QED  BY <3>4, <3>6 DEF PricesInv
  <2>4. CASE FinishOrder /\ RemainderRests(taker) /\ RestTaker
    <3>1. PICK a \in Accounts, sym \in Symbols, i \in OrderIds, side \in Sides, price \in Nat,
               left \in Nat \ {0}, c \in Nat, k \in Nat, q \in Nat :
                   Rests(a, sym, i, side, price, left, c, k, q)
      BY <2>4, RestStep
    <3>2. price = taker.price /\ pc \in Placing
      BY <2>4, <3>1 DEF Rests, FinishOrder, Placing
    <3>3. ValidPrice(price) /\ WholeFee(price)
      BY <3>2 DEF PricesInv, ValidPrice
    <3>4. /\ owner'[i] = [acct |-> a, sym |-> sym, side |-> side, price |-> price, qty |-> left,
                          kind |-> taker.kind]
          /\ \A j \in OrderIds \ {i} : owner'[j] = owner[j]
      BY <1>1, <3>1 DEF Rests
    <3>5. owner'[i].price = price
      BY <3>4
    <3>. QED  BY <1>7, <3>3, <3>4, <3>5 DEF PricesInv
  <2>5. ASSUME NEW a \in Accounts, NEW i \in OrderIds, NEW o \in InBook(i),
               owner[i] # NoOwner, owner[i].acct = a, Withdraw(a, i, o)
        PROVE  ValidPrice(owner'[id].price) /\ WholeFee(owner'[id].price)
    <3>1. PICK sym \in Symbols, c \in Int, k \in Int, q \in Int : Withdrawn(a, sym, i, c, k, q)
      BY <1>1, <2>5, WithdrawStep
    <3>2. owner'[i] = NoOwner /\ \A j \in OrderIds \ {i} : owner'[j] = owner[j]
      BY <3>1 DEF Withdrawn
    <3>. QED  BY <1>7, <3>2 DEF PricesInv
  <2>6. CASE AdmitOrder
    BY <2>1, <2>6 DEF AdmitOrder
  <2>7. CASE Keeps
    BY <2>1, <2>7 DEF Keeps
  <2>. QED  BY <1>1, <2>1, <2>2, <2>3, <2>4, <2>5, <2>6, <2>7, AccountMoves
<1>. QED  BY <1>4, <1>5, <1>6, <1>7 DEF PricesInv

\* Without changes of the fees they are those of the start.
LEMMA FeeKept ==
    ASSUME [Next]_vars, FeeChoices = {}
    PROVE  fee' = fee
BY ZenonT(30) DEF Next, Submission, SubmitOrder, SubmitMarket, SubmitStop, Amendment, CancelStop, Cancel,
   Replace, ReplaceStop, MarketControl, StartUncross, HaltSymbol, ResumeSymbol, SetTradingPhase,
   SetPriceBands, ClearPriceBands, ChangePhase, ChangeBand, Setting, SetFeeModel,
   SetAccountRiskConfig, SetAccountState, Internal, RefuseOrder, AdmitOrder, ExecuteFill,
   FinishOrder, ScanStops, TriggerStop, EndPass, AuctionTrade, EndUncross, Inspect, settings, vars

-----------------------------------------------------------------------------
(* Solvency.                                                                *)

\* A trade takes from an account at most what it pays as a buyer.
LEMMA FlowBound ==
    ASSUME NEW i, NEW b, NEW s, NEW p \in Int, NEW n \in Int, p * n \in Nat,
           NEW buyerFee \in Int, NEW sellerFee \in Int, sellerFee <= p * n
    PROVE  /\ CashFlow(i, b, s, p, n, buyerFee, sellerFee) \in Int
           /\ CashFlow(i, b, s, p, n, buyerFee, sellerFee) >=
                  0 - (IF i = b THEN p * n + buyerFee ELSE 0)
<1>1. PICK paid \in Nat : paid = p * n
  OBVIOUS
<1>. QED  BY <1>1 DEF CashFlow

\* What a trade frees of cash is not negative.
LEMMA FreedCash ==
    ASSUME EngineInv, ReserveInv, NEW id \in OrderIds, owner[id] # NoOwner, NEW n \in Nat \ {0},
           n <= owner[id].qty, NEW x, x = Freed(held[id], owner[id].side, n, owner[id].qty).cash
    PROVE  x \in Nat /\ (owner[id].side = "Ask" => x = 0)
<1>1. owner[id] \in OwnerRecord /\ held[id] \in Reserve
  BY DEF EngineInv, TypeOK
<1>2. owner[id].qty \in Nat \ {0} /\ held[id].cash \in Nat
  BY <1>1 DEF OwnerRecord, Reserve, ReserveInv, Holding
<1>3. ProportionalRelease(held[id].cash, n, owner[id].qty) \in Nat
  BY <1>2, PartFreed
<1>. QED  BY <1>3 DEF Freed

\* The bid being matched is paid for.
BidPaid(t, c, r) ==
    t.side = "Bid" /\ t.acct # DefaultAccount /\ risk[t.acct].mode = "CashOnly" =>
        c[t.acct] - r[t.acct].cash >= UnitCost[t.price] * t.left
CashHeld(c, r) ==
    \A a \in Accounts \ {DefaultAccount} : risk[a].mode = "CashOnly" => c[a] >= r[a].cash

\* A fill costs a buyer no more than what its order promised of it.
LEMMA FillCosts ==
    ASSUME TradeInv, OwnersInv, ReserveInv, PricesInv, WholeFees, fee = StartFee,
           BidsPaid(owner, held, UnitCost),
           NEW m \in book, NEW id \in OrderIds, NEW a \in Accounts, NEW sym \in Symbols,
           NEW n \in Nat \ {0}, NEW b \in Accounts, NEW s \in Accounts,
           NEW buyerFee \in Int, NEW sellerFee \in Int, NEW x \in Int, NEW y \in Int, NEW z \in Int,
           Fills(m, id, a, sym, n, b, s, buyerFee, sellerFee, x, y, z), pc = "match"
    PROVE  /\ m.price \in Nat /\ m.price * n \in Nat /\ sellerFee <= m.price * n
           /\ x \in Nat
           /\ taker.side = "Bid" => /\ b = taker.acct
                                    /\ m.price * n + buyerFee <= UnitCost[taker.price] * n
           /\ taker.side = "Ask" => /\ b = a
                                    /\ risk[b].mode = "CashOnly" => m.price * n + buyerFee <= x
<1>1. /\ EngineInv /\ taker \in TakerRecord
      /\ owner \in [OrderIds -> OwnerRecord \cup {NoOwner}] /\ held \in [OrderIds -> Reserve]
  BY TakerOrderType DEF TradeInv, EngineInv, TypeOK, Placing
<1>2. /\ owner[id] # NoOwner /\ owner[id].price = m.price /\ n <= owner[id].qty
      /\ owner[id].acct = a /\ owner[id].side = Opposite(taker.side)
      /\ x = Freed(held[id], owner[id].side, n, owner[id].qty).cash
      /\ Crosses(taker.side, taker.price, m.price)
      /\ FillParties(m, n, b, s, buyerFee, sellerFee) /\ a = MakerAccount(m.id)
  BY DEF Fills, Trades
<1>3. m.price \in Int /\ m.price >= 0 /\ WholeFee(m.price)
  <2>1. m.price \in Int
    BY <1>1, <1>2 DEF OwnerRecord
  <2>. QED  BY <1>2, <2>1 DEF PricesInv, ValidPrice
<1>4. PICK price \in Nat, limit \in Nat : price = m.price /\ limit = taker.price
  BY <1>1, <1>3 DEF TradeInv, TakerInv, ValidPrice, TakerRecord
<1>5. WholeFee(limit)
  BY <1>4 DEF PricesInv, Placing
<1>6. PICK paid \in Nat : paid = price * n
  BY TimesNat
<1>7. x \in Nat
  BY <1>1, <1>2, FreedCash
<1>8. sellerFee <= paid
  <2>1. \/ sellerFee = FeeForNotional(StartFee, paid, "maker")
        \/ sellerFee = FeeForNotional(StartFee, paid, "taker")
    BY <1>2, <1>4, <1>6 DEF FillParties
  <2>. QED  BY <2>1, SaleCosts
<1>9. ASSUME taker.side = "Bid"
      PROVE  b = taker.acct /\ paid + buyerFee <= UnitCost[limit] * n
  <2>1. b = taker.acct /\ buyerFee = FeeForNotional(StartFee, paid, "taker")
    BY <1>2, <1>4, <1>6, <1>9 DEF FillParties
  <2>2. price <= limit
    BY <1>2, <1>4, <1>9 DEF Crosses
  <2>3. n * price <= n * limit
    BY <2>2, TimesMore
  <2>4. paid <= limit * n
    BY <1>6, <2>3
  <2>. QED  BY <1>5, <2>1, <2>4, UnitCosts
<1>10. ASSUME taker.side = "Ask"
       PROVE  b = a /\ (risk[b].mode = "CashOnly" => paid + buyerFee <= x)
  <2>1. b = a /\ buyerFee = FeeForNotional(StartFee, paid, "maker") /\ owner[id].side = "Bid"
    BY <1>2, <1>4, <1>6, <1>10 DEF FillParties, Opposite
  <2>2. paid + buyerFee <= UnitCost[price] * n
    BY <1>3, <1>4, <1>6, <2>1, UnitCosts
  <2>3. PICK G : CashLess(owner, held, G, id, n, x)
    <3>1. \A k \in OrderIds : held'[k].cash = held[k].cash - (IF k = id THEN x ELSE 0)
      BY DEF Fills, FreesBoth
    <3>. QED  BY <1>2, <3>1 DEF CashLess
  <2>4. held[id].cash >= 0
    BY DEF ReserveInv, Holding
  <2>5. risk[owner[id].acct].mode = "CashOnly" => x >= UnitCost[owner[id].price] * n
    BY <1>1, <1>2, <2>1, <2>3, <2>4, TradeBids, UnitCostType
  <2>6. UnitCost[price] * n \in Int
    BY UnitCostType
  <2>. QED  BY <1>2, <1>4, <1>7, <2>1, <2>2, <2>5, <2>6
<1>11. taker.side \in Sides
  BY <1>1 DEF TakerRecord
<1>. QED  BY <1>4, <1>6, <1>7, <1>8, <1>9, <1>10

\* The same of an auction trade.
LEMMA AuctionCosts ==
    ASSUME TradeInv, OwnersInv, ReserveInv, PricesInv, WholeFees, fee = StartFee,
           BidsPaid(owner, held, UnitCost), pc = "uncross",
           NEW bid \in book, NEW ask \in book, NEW i \in OrderIds, NEW j \in OrderIds,
           NEW b \in Accounts, NEW s \in Accounts, NEW sym \in Symbols, NEW n \in Nat \ {0},
           NEW buyerFee \in Int, NEW sellerFee \in Int, NEW x \in Int, NEW y \in Int, NEW z \in Int,
           Uncrosses(bid, ask, i, j, b, s, sym, n, buyerFee, sellerFee, x, y, z)
    PROVE  /\ auction.price \in Nat /\ auction.price * n \in Nat /\ sellerFee <= auction.price * n
           /\ x \in Nat
           /\ risk[b].mode = "CashOnly" => auction.price * n + buyerFee <= x
<1>1. /\ EngineInv /\ auction \in [sym : Symbols, price : Int, left : Int]
      /\ owner \in [OrderIds -> OwnerRecord \cup {NoOwner}] /\ held \in [OrderIds -> Reserve]
  BY DEF TradeInv, EngineInv, TypeOK
<1>2. /\ owner[i] # NoOwner /\ owner[i].price = bid.price /\ n <= owner[i].qty
      /\ owner[i].acct = b /\ owner[i].side = "Bid" /\ auction.price <= bid.price
      /\ x = Freed(held[i], owner[i].side, n, owner[i].qty).cash
      /\ AuctionParties(n, bid, ask, b, s, buyerFee, sellerFee)
  BY DEF Uncrosses, Trades
<1>3. bid.price \in Int /\ bid.price >= 0 /\ WholeFee(bid.price)
  <2>1. bid.price \in Int
    BY <1>1, <1>2 DEF OwnerRecord
  <2>. QED  BY <1>2, <2>1 DEF PricesInv, ValidPrice
<1>4. PICK price \in Nat, limit \in Nat : price = auction.price /\ limit = bid.price
  BY <1>1, <1>3 DEF PricesInv, ValidPrice
<1>5. PICK paid \in Nat : paid = price * n
  BY TimesNat
<1>6. x \in Nat
  BY <1>1, <1>2, FreedCash
<1>7. sellerFee <= paid
  <2>1. sellerFee = FeeForNotional(StartFee, paid, "maker")
    BY <1>2, <1>4, <1>5 DEF AuctionParties
  <2>. QED  BY <2>1, SaleCosts
<1>8. risk[b].mode = "CashOnly" => paid + buyerFee <= x
  <2>1. buyerFee = FeeForNotional(StartFee, paid, "taker")
    BY <1>2, <1>4, <1>5 DEF AuctionParties
  <2>2. n * price <= n * limit
    BY <1>2, <1>4, TimesMore
  <2>3. paid <= limit * n
    BY <1>5, <2>2
  <2>4. paid + buyerFee <= UnitCost[limit] * n
    BY <1>3, <1>4, <2>1, <2>3, UnitCosts
  <2>5. PICK G : CashLess(owner, held, G, i, n, x)
    <3>1. \A k \in OrderIds : held'[k].cash = held[k].cash - (IF k = i THEN x ELSE 0)
      BY DEF Uncrosses, FreesBoth
    <3>. QED  BY <1>2, <3>1 DEF CashLess
  <2>6. held[i].cash >= 0
    BY DEF ReserveInv, Holding
  <2>7. risk[owner[i].acct].mode = "CashOnly" => x >= UnitCost[owner[i].price] * n
    BY <1>1, <1>2, <2>5, <2>6, TradeBids, UnitCostType
  <2>8. UnitCost[limit] * n \in Int
    BY UnitCostType
  <2>. QED  BY <1>2, <1>4, <1>6, <2>4, <2>7, <2>8
<1>. QED  BY <1>4, <1>5, <1>6, <1>7, <1>8

LEMMA SolventNext ==
    ASSUME TradeInv, OwnersInv, ReserveInv, PricesInv, WholeFees, fee = StartFee,
           BidsPaid(owner, held, UnitCost), CashHeld(cash, reserved),
           pc \in {"match", "rest"} => BidPaid(taker, cash, reserved),
           [Next]_vars, StateChoices = {}
    PROVE  /\ CashHeld(cash', reserved')
           /\ pc' \in {"match", "rest"} => BidPaid(taker', cash', reserved')
<1>1. /\ EngineInv /\ cash \in [Accounts -> Int] /\ reserved \in [Accounts -> Balances]
      /\ \A a \in Accounts : /\ cash[a] \in Int /\ cash'[a] \in Int
                             /\ reserved[a].cash \in Int /\ reserved'[a].cash \in Int
  <2>1. TypeOK /\ TypeOK'
    BY NextInv DEF TradeInv, EngineInv
  <2>. QED  BY <2>1 DEF TradeInv, EngineInv, TypeOK, Balances
<1>2. pc \in Placing => taker \in TakerRecord /\ WholeFee(taker.price)
  BY <1>1, TakerOrderType DEF PricesInv
<1>3. CASE Keeps
  <2>1. CashHeld(cash', reserved')
    BY <1>1, <1>3 DEF Keeps, CashHeld
  <2>2. ASSUME pc' \in {"match", "rest"}
        PROVE  BidPaid(taker', cash', reserved')
    <3>1. taker' = taker /\ BidPaid(taker, cash, reserved) /\ taker \in TakerRecord
      BY <1>2, <1>3, <2>2 DEF Keeps, Placing
    <3>2. taker.acct \in Accounts /\ taker.price \in Int /\ taker.left \in Int
      BY <3>1 DEF TakerRecord
    <3>3. cash'[taker.acct] >= cash[taker.acct] /\ reserved' = reserved
      BY <1>3, <3>2 DEF Keeps
    <3>4. UnitCost[taker.price] * taker.left \in Int
      BY <3>2, UnitCostType
    <3>. QED  BY <1>1, <3>1, <3>2, <3>3, <3>4 DEF BidPaid
  <2>. QED  BY <2>1, <2>2
<1>4. CASE AdmitOrder
  <2>1. /\ reserved' = reserved /\ cash' = ToppedUpCash(taker.acct) /\ Affordable(taker)
        /\ pc \in Placing /\ WellFormed(taker) /\ (pc' \in {"match", "rest"} => taker' = taker)
    BY <1>4 DEF AdmitOrder, Placing, AfterOrder
  <2>2. taker \in TakerRecord /\ WholeFee(taker.price) /\ taker.price >= 0 /\ taker.left > 0
    BY <1>2, <2>1 DEF WellFormed, ValidPrice, ValidQty
  <2>3. \A a \in Accounts : cash'[a] >= cash[a]
    BY <1>1, <2>1, <2>2, ToppedUpMore DEF TakerRecord, EngineInv
  <2>4. CashHeld(cash', reserved')
    BY <1>1, <2>1, <2>3 DEF CashHeld
  <2>5. BidPaid(taker, cash', reserved')
    <3>. SUFFICES ASSUME taker.side = "Bid", risk[taker.acct].mode = "CashOnly"
                  PROVE  cash'[taker.acct] - reserved'[taker.acct].cash
                             >= UnitCost[taker.price] * taker.left
      BY DEF BidPaid
    <3>1. PICK price \in Nat, left \in Nat : price = taker.price /\ left = taker.left
      BY <2>2 DEF TakerRecord
    <3>2. taker.acct \in Accounts
      BY <2>2 DEF TakerRecord
    <3>3. cash'[taker.acct] - (reserved[taker.acct].cash - 0)
             >= price * left + WorstFee(StartFee, price * left)
      BY <2>1, <3>1 DEF Affordable, RiskAllows, BidAllowed, NoCredit
    <3>4. price * left + WorstFee(StartFee, price * left) = UnitCost[price] * left
      BY <2>2, <3>1, UnitCosts
    <3>. QED  BY <1>1, <2>1, <3>1, <3>2, <3>3, <3>4
  <2>. QED  BY <2>1, <2>4, <2>5
<1>5. CASE ExecuteFill
  <2>1. PICK m \in book, id \in OrderIds, a \in Accounts, sym \in Symbols, n \in Nat \ {0},
             b \in Accounts, s \in Accounts, buyerFee \in Int, sellerFee \in Int,
             x \in Int, y \in Int, z \in Int :
                 Fills(m, id, a, sym, n, b, s, buyerFee, sellerFee, x, y, z)
    BY <1>5, FillTrades
  <2>2. pc = "match" /\ taker \in TakerRecord /\ BidPaid(taker, cash, reserved)
    BY <1>2, <1>5 DEF ExecuteFill, Placing
  <2>3. /\ m.price \in Nat /\ m.price * n \in Nat /\ sellerFee <= m.price * n /\ x \in Nat
        /\ taker.side = "Bid" => /\ b = taker.acct
                                 /\ m.price * n + buyerFee <= UnitCost[taker.price] * n
        /\ taker.side = "Ask" => /\ b = a
                                 /\ risk[b].mode = "CashOnly" => m.price * n + buyerFee <= x
    BY <2>1, <2>2, FillCosts
  <2>4. PICK paid \in Int : paid = m.price * n + buyerFee
    BY <2>3
  <2>5. PICK left \in Nat, rest \in Nat, u \in Nat :
            left = taker.left /\ rest = left - n /\ u = UnitCost[taker.price]
    <3>1. taker.left >= 0 /\ n <= taker.left
      BY <2>1, <2>2 DEF TradeInv, TakerInv, Fills
    <3>2. taker.left \in Int /\ taker.price \in Int
      BY <2>2 DEF TakerRecord
    <3>3. UnitCost[taker.price] \in Nat
      BY <3>2, UnitCostType
    <3>4. taker.left \in Nat /\ taker.left - n \in Nat
      BY <3>1, <3>2
    <3>. QED  BY <3>3, <3>4
  <2>6. ASSUME NEW i \in Accounts
        PROVE  /\ cash'[i] >= cash[i] - (IF i = b THEN paid ELSE 0)
               /\ reserved'[i].cash = reserved[i].cash - (IF i = a THEN x ELSE 0)
    <3>1. cash'[i] = cash[i] + CashFlow(i, b, s, m.price, n, buyerFee, sellerFee)
      BY <2>1 DEF Fills, Settle
    <3>2. /\ CashFlow(i, b, s, m.price, n, buyerFee, sellerFee) \in Int
          /\ CashFlow(i, b, s, m.price, n, buyerFee, sellerFee) >= 0 - (IF i = b THEN paid ELSE 0)
      BY <2>3, <2>4, FlowBound
    <3>3. reserved'[i].cash = reserved[i].cash - (IF i = a THEN x ELSE 0)
      BY <2>1 DEF Fills, FreesBoth
    <3>. QED  BY <1>1, <3>1, <3>2, <3>3
  <2>7. u * left - u * n = u * rest /\ u * rest \in Nat /\ u * n \in Nat /\ u * left \in Nat
    BY <2>5, TimesNat
  <2>8. ASSUME taker.side = "Bid", b # DefaultAccount, risk[b].mode = "CashOnly"
        PROVE  cash'[b] - reserved'[b].cash >= u * rest
    <3>1. cash[b] - reserved[b].cash >= u * left
      BY <2>2, <2>3, <2>5, <2>8 DEF BidPaid
    <3>2. paid <= u * n
      BY <2>3, <2>4, <2>5, <2>8
    <3>3. cash'[b] >= cash[b] - paid
      BY <2>6
    <3>4. reserved'[b].cash <= reserved[b].cash
      BY <1>1, <2>3, <2>6
    <3>5. PICK one \in Int, all \in Int, some \in Int :
              one = u * n /\ all = u * left /\ some = u * rest
      BY <2>7
    <3>6. all - one = some /\ paid <= one /\ cash[b] - reserved[b].cash >= all
      BY <2>7, <3>1, <3>2, <3>5
    <3>7. cash'[b] - reserved'[b].cash >= some
      BY <1>1, <3>3, <3>4, <3>6
    <3>. QED  BY <3>5, <3>7
  <2>9. ASSUME NEW i \in Accounts \ {DefaultAccount}, risk[i].mode = "CashOnly"
        PROVE  cash'[i] >= reserved'[i].cash
    <3>1. cash[i] >= reserved[i].cash
      BY <2>9 DEF CashHeld
    <3>2. CASE i # b
      BY <1>1, <2>3, <2>6, <3>1, <3>2
    <3>3. CASE i = b /\ taker.side = "Bid"
      BY <1>1, <2>7, <2>8, <2>9, <3>3
    <3>4. CASE i = b /\ taker.side = "Ask"
      BY <1>1, <2>3, <2>4, <2>6, <2>9, <3>1, <3>4
    <3>. QED  BY <2>2, <3>2, <3>3, <3>4 DEF TakerRecord, Sides
  <2>10. CashHeld(cash', reserved')
    BY <2>9 DEF CashHeld
  <2>11. BidPaid(taker', cash', reserved')
    <3>1. /\ taker'.side = taker.side /\ taker'.acct = taker.acct /\ taker'.price = taker.price
          /\ taker'.left = rest
      BY <2>1, <2>2, <2>5 DEF Fills, TakerRecord
    <3>. QED  BY <2>3, <2>5, <2>8, <3>1 DEF BidPaid
  <2>. QED  BY <2>10, <2>11
<1>6. CASE AuctionTrade
  <2>1. PICK bid \in book, ask \in book, i \in OrderIds, j \in OrderIds, b \in Accounts,
             s \in Accounts, sym \in Symbols, n \in Nat \ {0}, buyerFee \in Int, sellerFee \in Int,
             x \in Int, y \in Int, z \in Int :
                 Uncrosses(bid, ask, i, j, b, s, sym, n, buyerFee, sellerFee, x, y, z)
    BY <1>6, AuctionTrades
  <2>2. pc = "uncross" /\ pc' \notin {"match", "rest"}
    BY <1>6 DEF AuctionTrade
  <2>3. /\ auction.price \in Nat /\ auction.price * n \in Nat
        /\ sellerFee <= auction.price * n /\ x \in Nat
        /\ risk[b].mode = "CashOnly" => auction.price * n + buyerFee <= x
    BY <2>1, <2>2, AuctionCosts
  <2>4. PICK paid \in Int : paid = auction.price * n + buyerFee
    BY <2>3
  <2>5. ASSUME NEW k \in Accounts
        PROVE  /\ cash'[k] >= cash[k] - (IF k = b THEN paid ELSE 0)
               /\ reserved'[k].cash = reserved[k].cash - (IF k = b THEN x ELSE 0)
    <3>1. cash'[k] = cash[k] + CashFlow(k, b, s, auction.price, n, buyerFee, sellerFee)
      BY <2>1 DEF Uncrosses, Settle
    <3>2. /\ CashFlow(k, b, s, auction.price, n, buyerFee, sellerFee) \in Int
          /\ CashFlow(k, b, s, auction.price, n, buyerFee, sellerFee)
                 >= 0 - (IF k = b THEN paid ELSE 0)
      BY <2>3, <2>4, FlowBound
    <3>3. reserved'[k].cash = reserved[k].cash - (IF k = b THEN x ELSE 0)
      BY <2>1 DEF Uncrosses, FreesBoth
    <3>. QED  BY <1>1, <3>1, <3>2, <3>3
  <2>6. ASSUME NEW k \in Accounts \ {DefaultAccount}, risk[k].mode = "CashOnly"
        PROVE  cash'[k] >= reserved'[k].cash
    <3>1. cash[k] >= reserved[k].cash
      BY <2>6 DEF CashHeld
    <3>. QED  BY <1>1, <2>3, <2>4, <2>5, <2>6, <3>1
  <2>. QED  BY <2>2, <2>6 DEF CashHeld
<1>7. CASE FinishOrder /\ RemainderRests(taker) /\ RestTaker
  <2>1. PICK a \in Accounts, sym \in Symbols, id \in OrderIds, side \in Sides, price \in Nat,
             left \in Nat \ {0}, c \in Nat, k \in Nat, q \in Nat :
                 Rests(a, sym, id, side, price, left, c, k, q)
    BY <1>7, RestStep
  <2>2. /\ pc \in {"match", "rest"} /\ pc \in Placing /\ cash' = cash
        /\ pc' \notin {"match", "rest"}
    BY <1>7 DEF FinishOrder, OrderDone, AfterOrder, Placing
  <2>3. \A i \in Accounts : reserved'[i].cash = reserved[i].cash + (IF i = a THEN c ELSE 0)
    BY <2>1 DEF Rests
  <2>4. a # DefaultAccount /\ risk[a].mode = "CashOnly" => cash[a] - reserved[a].cash >= c
    <3>. SUFFICES ASSUME a # DefaultAccount, risk[a].mode = "CashOnly"
                  PROVE  cash[a] - reserved[a].cash >= c
      OBVIOUS
    <3>1. CASE side = "Ask"
      <4>1. c = 0 /\ cash[a] >= reserved[a].cash
        BY <2>1, <3>1 DEF Rests, CashHeld
      <4>. QED  BY <1>1, <4>1
    <3>2. CASE side = "Bid"
      <4>1. c = price * left + WorstFee(StartFee, price * left)
        BY <2>1, <3>2 DEF Rests, RestingReserve, BuyReserve
      <4>2. WholeFee(price)
        BY <1>2, <2>1, <2>2 DEF Rests
      <4>3. c = UnitCost[price] * left
        BY <4>1, <4>2, UnitCosts
      <4>. QED  BY <2>1, <2>2, <3>2, <4>3 DEF BidPaid, Rests
    <3>. QED  BY <3>1, <3>2 DEF Sides
  <2>5. ASSUME NEW i \in Accounts \ {DefaultAccount}, risk[i].mode = "CashOnly"
        PROVE  cash'[i] >= reserved'[i].cash
    <3>1. cash[i] >= reserved[i].cash
      BY <2>5 DEF CashHeld
    <3>. QED  BY <1>1, <2>2, <2>3, <2>4, <2>5, <3>1
  <2>. QED  BY <2>2, <2>5 DEF CashHeld
<1>8. ASSUME NEW a \in Accounts, NEW id \in OrderIds, NEW o \in InBook(id),
             owner[id] # NoOwner, owner[id].acct = a, Withdraw(a, id, o),
             UNCHANGED <<cash, position>>, pc' \notin {"match", "rest"}
      PROVE  CashHeld(cash', reserved')
  <2>1. PICK sym \in Symbols, c \in Int, k \in Int, q \in Int : Withdrawn(a, sym, id, c, k, q)
    BY <1>1, <1>8, WithdrawStep
  <2>2. c >= 0 /\ \A i \in Accounts :
           reserved'[i].cash = reserved[i].cash - (IF i = a THEN c ELSE 0)
    BY <2>1 DEF Withdrawn, ReserveInv, Holding
  <2>. QED  BY <1>1, <1>8, <2>2 DEF CashHeld
<1>. QED  BY <1>1, <1>3, <1>4, <1>5, <1>6, <1>7, <1>8, AccountMoves

\* The reserves of bids are what their units cost.
LEMMA CostsNext ==
    ASSUME TradeInv, OwnersInv, ReserveInv, PricesInv, WholeFees, fee = StartFee,
           BidsPaid(owner, held, UnitCost), [Next]_vars, RiskChoices = {}
    PROVE  BidsPaid(owner, held, UnitCost)'
<1>1. ASSUME pc \in {"match", "rest"}, taker.side = "Bid", risk[taker.acct].mode = "CashOnly"
      PROVE  RestingReserve.cash >= UnitCost[taker.price] * taker.left
  <2>1. taker \in TakerRecord /\ WholeFee(taker.price)
    BY <1>1, TakerOrderType DEF TradeInv, PricesInv, Placing
  <2>2. PICK price \in Nat, left \in Nat : price = taker.price /\ left = taker.left
    BY <1>1, <2>1 DEF TradeInv, TakerInv, ValidPrice, TakerRecord
  <2>3. RestingReserve.cash = price * left + WorstFee(StartFee, price * left)
    BY <1>1, <2>2 DEF RestingReserve, BuyReserve
  <2>4. price * left + WorstFee(StartFee, price * left) = UnitCost[price] * left
    BY <2>1, <2>2, UnitCosts
  <2>5. UnitCost[price] * left \in Int
    BY UnitCostType
  <2>. QED  BY <2>2, <2>3, <2>4, <2>5
<1>2. BidsPaid(owner', held', UnitCost) /\ risk' = risk
  BY <1>1, BidsNext, RiskKept, UnitCostType
<1>. QED  BY <1>2, Zenon DEF BidsPaid

\* A cash-only account can always pay for what it has resting: settlement and fees of a
\* fill, at whatever price it happens, cost no more than the part of the reserve that
\* goes with it, and what a new bid blocks has been looked for in the cash that is free.
\* The settings stay as they were and the fees come out whole: several fees rounded one
\* by one can exceed the one that was rounded for the reserve.
THEOREM AlwaysSolvent ==
    ASSUME NoBands, PlainAuctions, RiskChoices = {}, FeeChoices = {}, StateChoices = {},
           PaidStart, WholeFees
    PROVE  Spec => []Solvent
<1>. DEFINE PaidInv == /\ fee = StartFee
                       /\ BidsPaid(owner, held, UnitCost)
                       /\ CashHeld(cash, reserved)
                       /\ pc \in {"match", "rest"} => BidPaid(taker, cash, reserved)
<1>1. Init => PricesInv /\ PaidInv
  <2>. SUFFICES ASSUME Init PROVE PricesInv /\ PaidInv
    OBVIOUS
  <2>1. PricesInv
    BY DEF Init, PricesInv, Placing
  <2>2. BidsPaid(owner, held, UnitCost)
    BY DEF Init, BidsPaid
  <2>3. cash = StartCash /\ \A a \in Accounts : reserved[a].cash = 0
    BY DEF Init
  <2>4. CashHeld(cash, reserved)
    BY <2>3 DEF CashHeld, PaidStart
  <2>5. fee = StartFee /\ pc \notin {"match", "rest"}
    BY DEF Init
  <2>. QED  BY <2>1, <2>2, <2>4, <2>5
<1>2. TradeInv /\ OwnersInv /\ ReserveInv /\ PricesInv /\ [Next]_vars => PricesInv'
  BY PricesNext
<1>3. TradeInv /\ OwnersInv /\ ReserveInv /\ PricesInv /\ PaidInv /\ [Next]_vars => PaidInv'
  <2>. SUFFICES ASSUME TradeInv, OwnersInv, ReserveInv, PricesInv, PaidInv, [Next]_vars
                PROVE  PaidInv'
    OBVIOUS
  <2>1. fee' = StartFee /\ risk' = risk
    BY FeeKept, RiskKept
  <2>2. BidsPaid(owner, held, UnitCost)'
    BY CostsNext
  <2>3. /\ CashHeld(cash', reserved')
        /\ pc' \in {"match", "rest"} => BidPaid(taker', cash', reserved')
    BY SolventNext
  <2>4. CashHeld(cash, reserved)'
    BY <2>1, <2>3 DEF CashHeld
  <2>5. pc' \in {"match", "rest"} => BidPaid(taker, cash, reserved)'
    BY <2>1, <2>3 DEF BidPaid
  <2>. QED  BY <2>1, <2>2, <2>4, <2>5
<1>4. PaidInv => Solvent
  BY DEF CashHeld, Solvent
<1>. HIDE DEF PaidInv
<1>. QED  BY <1>1, <1>2, <1>3, <1>4, TradeInvariant, OwnersInvariant, ReserveInvariant, PTL DEF Spec
=============================================================================
