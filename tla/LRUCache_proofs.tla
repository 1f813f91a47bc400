--------------------------- MODULE LRUCache_proofs ---------------------------
(***************************************************************************)
(* Theorems about the memory of a storage node: for any finite set of      *)
(* users, any number of files, any lengths of values and any capacity.     *)
(***************************************************************************)
EXTENDS LRUCache, FiniteSetTheorems, TLAPS

(***************************************************************************)
(* A set that holds 0 and with n also n+1 holds every natural: of the      *)
(* intervals 0..n for the n it misses, one includes no other strictly.     *)
(***************************************************************************)
LEMMA NatInduct ==
  ASSUME NEW G, 0 \in G, \A n \in Nat : n \in G => n + 1 \in G
  PROVE  Nat \subseteq G
<1> SUFFICES ASSUME Nat \ G # {} PROVE FALSE
  OBVIOUS
<1> DEFINE F == {0 .. n : n \in Nat \ G}
<1>1. F # {} /\ F \subseteq FiniteSubsetsOf(Nat)
  <2>1. \A n \in Nat : IsFiniteSet(0 .. n) /\ 0 .. n \subseteq Nat
    BY FS_Interval
  <2> QED BY <2>1 DEF FiniteSubsetsOf
<1>2. \E X \in F : \A Y \in F : <<Y, X>> \notin StrictSubsetOrdering(Nat)
  <2> HIDE DEF F
  <2> QED BY <1>1, FS_StrictSubsetOrderingWellFounded, WFMin, Zenon
<1>3. PICK x \in Nat \ G :
        \A y \in Nat \ G : <<0 .. y, 0 .. x>> \notin StrictSubsetOrdering(Nat)
  BY <1>2
<1>4. x - 1 \in Nat \ G
  BY <1>3, SMT
<1>5. /\ 0 .. x - 1 \subseteq 0 .. x /\ 0 .. x \subseteq Nat
      /\ x \in 0 .. x /\ x \notin 0 .. x - 1
  BY SMT
<1> QED BY <1>3, <1>4, <1>5 DEF StrictSubsetOrdering

(***************************************************************************)
(* A set that holds the empty set, and with a subset of S also that with   *)
(* one more element, holds every subset of the finite set S.               *)
(***************************************************************************)
LEMMA SetInduct ==
  ASSUME NEW S, IsFiniteSet(S), NEW G, {} \in G,
         \A T \in SUBSET S : T # {} /\ (\A x \in T : T \ {x} \in G) => T \in G
  PROVE  SUBSET S \subseteq G
<1> SUFFICES ASSUME (SUBSET S) \ G # {} PROVE FALSE
  OBVIOUS
<1> DEFINE F == (SUBSET S) \ G
<1>1. F # {} /\ F \subseteq FiniteSubsetsOf(S)
  BY FS_Subset DEF FiniteSubsetsOf
<1>2. PICK T \in F : \A U \in F : <<U, T>> \notin StrictSubsetOrdering(S)
  <2> HIDE DEF F
  <2> QED BY <1>1, FS_StrictSubsetOrderingWellFounded, WFMin, Zenon
<1>3. ASSUME NEW x \in T PROVE T \ {x} \in G
  <2> DEFINE U == T \ {x}
  <2>1. U \in SUBSET S /\ T \in SUBSET S /\ U \subseteq T /\ U # T
    BY <1>3
  <2> HIDE DEF U
  <2>2. <<U, T>> \in StrictSubsetOrdering(S)
    BY <2>1 DEF StrictSubsetOrdering
  <2>3. U \in G
    BY <1>2, <2>1, <2>2
  <2> QED BY <2>3 DEF U
<1> QED BY <1>3

-----------------------------------------------------------------------------
(***************************************************************************)
(* Sums.  SumFunction adds the values in the order in which CHOOSE takes   *)
(* the elements; Sums says what is true of any order.                      *)
(***************************************************************************)
Chosen(T) == CHOOSE y \in T : TRUE

Adds(g, f, T) == g[T] = IF T = {} THEN 0 ELSE f[Chosen(T)] + g[T \ {Chosen(T)}]

Sums(g, f, S) ==
  /\ g \in [SUBSET S -> Int]
  /\ g[{}] = 0
  /\ \A T \in SUBSET S : \A y \in T : g[T] = f[y] + g[T \ {y}]

LEMMA AddsExists ==
  ASSUME NEW S, IsFiniteSet(S), NEW f \in [S -> Int]
  PROVE  \E g \in [SUBSET S -> Int] : \A T \in SUBSET S : Adds(g, f, T)
<1> DEFINE P(n, g) == \A T \in SUBSET S : Cardinality(T) <= n => Adds(g, f, T)
           G == {n \in Nat : \E g \in [SUBSET S -> Int] : P(n, g)}
<1>1. \A T \in SUBSET S : /\ IsFiniteSet(T) /\ Cardinality(T) \in Nat
                          /\ Cardinality(T) <= Cardinality(S)
  BY FS_Subset, FS_CardinalityType
<1>2. 0 \in G
  <2> DEFINE g == [T \in SUBSET S |-> 0]
  <2>1. g \in [SUBSET S -> Int]
    OBVIOUS
  <2>2. ASSUME NEW T \in SUBSET S, Cardinality(T) <= 0 PROVE Adds(g, f, T)
    <3>1. T = {}
      BY <1>1, <2>2, FS_EmptySet
    <3> QED BY <3>1 DEF Adds
  <2> QED BY <2>1, <2>2
<1>3. ASSUME NEW n \in Nat, n \in G PROVE n + 1 \in G
  <2>1. PICK g \in [SUBSET S -> Int] : P(n, g)
    BY <1>3
  <2> DEFINE h == [T \in SUBSET S |-> IF Cardinality(T) <= n THEN g[T]
                                       ELSE f[Chosen(T)] + g[T \ {Chosen(T)}]]
  <2>2. \A T \in SUBSET S : T # {} => Chosen(T) \in T
    BY DEF Chosen
  <2>3. \A T \in SUBSET S : ~(Cardinality(T) <= n) => T # {}
    BY <1>1, FS_EmptySet
  <2>4. h \in [SUBSET S -> Int]
    <3> SUFFICES ASSUME NEW T \in SUBSET S PROVE h[T] \in Int
      OBVIOUS
    <3>1. CASE Cardinality(T) <= n
      BY <3>1
    <3>2. CASE ~(Cardinality(T) <= n)
      <4>1. Chosen(T) \in S
        BY <2>2, <2>3, <3>2
      <4> QED BY <3>2, <4>1
    <3> QED BY <3>1, <3>2
  <2>5. ASSUME NEW T \in SUBSET S, Cardinality(T) <= n + 1 PROVE Adds(h, f, T)
    <3>1. CASE T = {}
      <4>1. Cardinality(T) <= n
        BY <3>1, FS_EmptySet
      <4> QED BY <2>1, <3>1, <4>1 DEF Adds
    <3>2. CASE T # {}
      <4>1. Chosen(T) \in T
        BY <2>2, <3>2
      <4>2. Cardinality(T \ {Chosen(T)}) = Cardinality(T) - 1
        BY <1>1, <4>1, FS_RemoveElement
      <4>3. Cardinality(T \ {Chosen(T)}) <= n
        BY <1>1, <2>5, <4>2
      <4>4. h[T \ {Chosen(T)}] = g[T \ {Chosen(T)}]
        BY <4>3
      <4>5. h[T] = f[Chosen(T)] + g[T \ {Chosen(T)}]
        BY <2>1, <3>2 DEF Adds
      <4> QED BY <3>2, <4>4, <4>5 DEF Adds
    <3> QED BY <3>1, <3>2
  <2> HIDE DEF h
  <2> QED BY <2>4, <2>5
<1>4. Cardinality(S) \in G
  <2> HIDE DEF G
  <2>1. Nat \subseteq G
    BY <1>2, <1>3, NatInduct
  <2> QED BY <2>1, FS_CardinalityType
<1> QED BY <1>1, <1>4

\* The order does not matter.
LEMMA AddsSums ==
  ASSUME NEW S, IsFiniteSet(S), NEW f \in [S -> Int], NEW g \in [SUBSET S -> Int],
         \A T \in SUBSET S : Adds(g, f, T)
  PROVE  Sums(g, f, S)
<1> DEFINE G == {T \in SUBSET S : \A y \in T : g[T] = f[y] + g[T \ {y}]}
<1>1. ASSUME NEW T \in SUBSET S, T # {}, \A x \in T : T \ {x} \in G PROVE T \in G
  <2> SUFFICES ASSUME NEW y \in T PROVE g[T] = f[y] + g[T \ {y}]
    OBVIOUS
  <2> DEFINE x == Chosen(T)
  <2>1. x \in T /\ g[T] = f[x] + g[T \ {x}]
    BY <1>1 DEF Adds, Chosen
  <2> HIDE DEF x
  <2>2. CASE y = x
    BY <2>1, <2>2
  <2>3. CASE y # x
    <3>1. g[T \ {x}] = f[y] + g[(T \ {x}) \ {y}]
      BY <1>1, <2>1, <2>3
    <3>2. g[T \ {y}] = f[x] + g[(T \ {y}) \ {x}]
      BY <1>1, <2>1, <2>3
    <3>3. (T \ {x}) \ {y} = (T \ {y}) \ {x}
      OBVIOUS
    <3> DEFINE v == g[(T \ {y}) \ {x}]
    <3>4. f[x] \in Int /\ f[y] \in Int /\ v \in Int
      BY <2>1
    <3>5. g[T] = f[x] + (f[y] + v) /\ g[T \ {y}] = f[x] + v
      BY <2>1, <3>1, <3>2, <3>3, Zenon
    <3>6. f[x] + (f[y] + v) = f[y] + (f[x] + v)
      <4> HIDE DEF v
      <4> QED BY <3>4
    <3> QED BY <3>5, <3>6, Zenon
  <2> QED BY <2>2, <2>3
<1>2. SUBSET S \subseteq G
  <2> HIDE DEF G
  <2>1. {} \in G
    BY DEF G
  <2> QED BY <1>1, <2>1, SetInduct
<1>3. g[{}] = 0
  BY DEF Adds
<1> QED BY <1>2, <1>3 DEF Sums

LEMMA SumFunctionSums ==
  ASSUME NEW S, IsFiniteSet(S), NEW f \in [S -> Int]
  PROVE  \E g : Sums(g, f, S) /\ SumFunction(f) = g[S]
<1> DEFINE Rec(g) == g = [T \in SUBSET S |->
             IF T = {} THEN 0 ELSE f[Chosen(T)] + g[T \ {Chosen(T)}]]
           iter == CHOOSE g : Rec(g)
<1>1. SumFunction(f) = iter[S]
  <2>1. DOMAIN f = S
    OBVIOUS
  <2> QED
    BY <2>1, Zenon
       DEF Chosen, SumFunction, SumFunctionOnSet, FoldFunctionOnSet, MapThenFoldSet
<1>2. PICK g \in [SUBSET S -> Int] : \A T \in SUBSET S : Adds(g, f, T)
  BY AddsExists
<1>3. Rec(g)
  BY <1>2 DEF Adds
<1>4. Rec(iter)
  <2> HIDE DEF Rec
  <2> QED BY <1>3
<1>5. ASSUME NEW h, Rec(h) PROVE h \in [SUBSET S -> Int] /\ \A T \in SUBSET S : Adds(h, f, T)
  <2>1. \A T \in SUBSET S : Adds(h, f, T)
    BY <1>5 DEF Adds
  <2> DEFINE G == {T \in SUBSET S : h[T] \in Int}
  <2>2. {} \in G
    <3>1. h[{}] = 0
      BY <2>1, Zenon DEF Adds
    <3> QED BY <3>1
  <2>3. ASSUME NEW T \in SUBSET S, T # {}, \A x \in T : T \ {x} \in G PROVE T \in G
    <3>1. Chosen(T) \in T
      BY <2>3 DEF Chosen
    <3>2. h[T] = f[Chosen(T)] + h[T \ {Chosen(T)}]
      BY <2>1, <2>3, Zenon DEF Adds
    <3>3. h[T \ {Chosen(T)}] \in Int /\ f[Chosen(T)] \in Int
      BY <2>3, <3>1
    <3> QED BY <3>2, <3>3
  <2>4. SUBSET S \subseteq G
    <3> HIDE DEF G
    <3> QED BY <2>2, <2>3, SetInduct
  <2>5. \E k : h = [T \in SUBSET S |-> k[T]]
    <3> WITNESS [T \in SUBSET S |-> IF T = {} THEN 0 ELSE f[Chosen(T)] + h[T \ {Chosen(T)}]]
    <3> QED BY <1>5
  <2> QED BY <2>1, <2>4, <2>5
<1>6. Sums(iter, f, S)
  <2> HIDE DEF iter, Rec
  <2> QED BY <1>4, <1>5, AddsSums
<1> QED BY <1>1, <1>6

LEMMA SumInt ==
  ASSUME NEW S, IsFiniteSet(S), NEW f \in [S -> Int]
  PROVE  SumFunction(f) \in Int
<1>1. PICK g : Sums(g, f, S) /\ SumFunction(f) = g[S]
  BY SumFunctionSums
<1> QED BY <1>1 DEF Sums

\* No value of a function to the naturals is larger than their sum.
LEMMA SumNat ==
  ASSUME NEW S, IsFiniteSet(S), NEW f \in [S -> Nat]
  PROVE  /\ SumFunction(f) \in Nat
         /\ \A x \in S : f[x] <= SumFunction(f)
<1>1. f \in [S -> Int]
  OBVIOUS
<1>2. PICK g : Sums(g, f, S) /\ SumFunction(f) = g[S]
  BY <1>1, SumFunctionSums
<1> DEFINE G == {T \in SUBSET S : g[T] \in Nat}
<1>3. SUBSET S \subseteq G
  <2>1. {} \in G
    BY <1>2 DEF Sums
  <2>2. ASSUME NEW T \in SUBSET S, T # {}, \A x \in T : T \ {x} \in G PROVE T \in G
    <3>1. PICK x \in T : TRUE
      BY <2>2
    <3>2. g[T] = f[x] + g[T \ {x}]
      BY <1>2, Zenon DEF Sums
    <3>3. g[T \ {x}] \in Nat /\ f[x] \in Nat
      BY <2>2
    <3> QED BY <3>2, <3>3
  <2> HIDE DEF G
  <2> QED BY <2>1, <2>2, SetInduct
<1>4. ASSUME NEW x \in S PROVE f[x] <= g[S]
  <2>1. g[S] = f[x] + g[S \ {x}]
    BY <1>2, Zenon DEF Sums
  <2>2. g[S \ {x}] \in Nat /\ f[x] \in Nat
    BY <1>3
  <2> QED BY <2>1, <2>2
<1> QED BY <1>2, <1>3, <1>4

LEMMA SumZero ==
  ASSUME NEW S, IsFiniteSet(S), NEW f, f = [x \in S |-> 0]
  PROVE  SumFunction(f) = 0
<1>1. f \in [S -> Int]
  OBVIOUS
<1>2. PICK g : Sums(g, f, S) /\ SumFunction(f) = g[S]
  BY <1>1, SumFunctionSums
<1> DEFINE G == {T \in SUBSET S : g[T] = 0}
<1>3. {} \in G
  BY <1>2 DEF Sums
<1>4. ASSUME NEW T \in SUBSET S, T # {}, \A x \in T : T \ {x} \in G PROVE T \in G
  <2>1. PICK x \in T : TRUE
    BY <1>4
  <2>2. g[T] = f[x] + g[T \ {x}]
    BY <1>2, Zenon DEF Sums
  <2> QED BY <1>4, <2>2
<1>5. SUBSET S \subseteq G
  <2> HIDE DEF G
  <2> QED BY <1>3, <1>4, SetInduct
<1> QED BY <1>2, <1>5

\* Of two functions that differ at one element at most.
LEMMA SumChange ==
  ASSUME NEW S, IsFiniteSet(S), NEW f \in [S -> Int], NEW h \in [S -> Int],
         NEW x \in S, \A y \in S : y # x => h[y] = f[y]
  PROVE  SumFunction(h) = SumFunction(f) - f[x] + h[x]
<1>1. PICK g : Sums(g, f, S) /\ SumFunction(f) = g[S]
  BY SumFunctionSums
<1>2. PICK k : Sums(k, h, S) /\ SumFunction(h) = k[S]
  BY SumFunctionSums
<1> DEFINE G == {T \in SUBSET S : x \notin T => k[T] = g[T]}
<1>3. {} \in G
  BY <1>1, <1>2 DEF Sums
<1>4. ASSUME NEW T \in SUBSET S, T # {}, \A y \in T : T \ {y} \in G PROVE T \in G
  <2> SUFFICES ASSUME x \notin T PROVE k[T] = g[T]
    OBVIOUS
  <2>1. PICK y \in T : TRUE
    BY <1>4
  <2>2. g[T] = f[y] + g[T \ {y}] /\ k[T] = h[y] + k[T \ {y}]
    BY <1>1, <1>2, Zenon DEF Sums
  <2>3. k[T \ {y}] = g[T \ {y}]
    BY <1>4
  <2> QED BY <2>2, <2>3
<1>5. SUBSET S \subseteq G
  <2> HIDE DEF G
  <2> QED BY <1>3, <1>4, SetInduct
<1> DEFINE v == g[S \ {x}]
<1>6. k[S \ {x}] = v
  BY <1>5
<1>7. g[S] = f[x] + v /\ k[S] = h[x] + k[S \ {x}]
  BY <1>1, <1>2, Zenon DEF Sums
<1>8. v \in Int /\ f[x] \in Int /\ h[x] \in Int
  BY <1>1 DEF Sums
<1> HIDE DEF v
<1>9. SumFunction(f) = f[x] + v /\ SumFunction(h) = h[x] + v
  BY <1>1, <1>2, <1>6, <1>7, Zenon
<1> QED BY <1>8, <1>9

-----------------------------------------------------------------------------
(***************************************************************************)
(* The files of a row, and a sequence without one of its elements.         *)
(***************************************************************************)
\* Line f of the list that FilesOf builds.
Listing(g, row, f) ==
  g[f] = IF f = 0 THEN <<>>
         ELSE IF row[f] = NoFile THEN g[f - 1] ELSE Append(g[f - 1], f)

LEMMA ListingExists ==
  ASSUME NEW row \in Row
  PROVE  \E g \in [0 .. NumFiles -> Seq(Nat)] : \A f \in 0 .. NumFiles : Listing(g, row, f)
<1> NumFiles \in Nat \ {0}
  BY SizesAssumption
<1> DEFINE P(n, g) == \A f \in 0 .. NumFiles : f <= n => Listing(g, row, f)
           G == {n \in Nat : \E g \in [0 .. NumFiles -> Seq(Nat)] : P(n, g)}
<1>1. 0 \in G
  <2> DEFINE g == [f \in 0 .. NumFiles |-> <<>>]
  <2>1. g \in [0 .. NumFiles -> Seq(Nat)]
    OBVIOUS
  <2>2. P(0, g)
    BY DEF Listing
  <2> QED BY <2>1, <2>2
<1>2. ASSUME NEW n \in Nat, n \in G PROVE n + 1 \in G
  <2>1. PICK g \in [0 .. NumFiles -> Seq(Nat)] : P(n, g)
    BY <1>2
  <2> DEFINE last == IF row[n + 1] = NoFile THEN g[n] ELSE Append(g[n], n + 1)
             h == [f \in 0 .. NumFiles |-> IF f = n + 1 THEN last ELSE g[f]]
  <2>2. h \in [0 .. NumFiles -> Seq(Nat)]
    <3> SUFFICES ASSUME n + 1 \in 0 .. NumFiles PROVE last \in Seq(Nat)
      OBVIOUS
    <3>1. g[n] \in Seq(Nat)
      OBVIOUS
    <3> QED BY <3>1
  <2>3. ASSUME NEW f \in 0 .. NumFiles, f <= n + 1 PROVE Listing(h, row, f)
    <3>1. CASE f = n + 1
      <4>1. f # 0 /\ f - 1 = n /\ n \in 0 .. NumFiles /\ n # n + 1
        BY <3>1
      <4>2. h[f] = last /\ h[f - 1] = g[n]
        BY <3>1, <4>1
      <4> HIDE DEF h
      <4> QED BY <3>1, <4>1, <4>2 DEF Listing
    <3>2. CASE f <= n
      <4>1. f # n + 1 /\ (f # 0 => f - 1 \in 0 .. NumFiles /\ f - 1 # n + 1)
        BY <3>2
      <4>2. h[f] = g[f] /\ (f # 0 => h[f - 1] = g[f - 1])
        BY <4>1
      <4>3. Listing(g, row, f)
        BY <2>1, <3>2
      <4> HIDE DEF h
      <4> QED BY <4>2, <4>3 DEF Listing
    <3> QED BY <2>3, <3>1, <3>2
  <2> HIDE DEF h
  <2>4. P(n + 1, h)
    BY <2>3
  <2> HIDE DEF P
  <2> QED BY <2>2, <2>4
<1>3. Nat \subseteq G
  <2> HIDE DEF G
  <2> QED BY <1>1, <1>2, NatInduct
<1>4. PICK g \in [0 .. NumFiles -> Seq(Nat)] : P(NumFiles, g)
  <2> HIDE DEF P
  <2> QED BY <1>3
<1>5. \A f \in 0 .. NumFiles : f <= NumFiles
  OBVIOUS
<1> QED BY <1>4, <1>5

\* The files that are there, each once.
LEMMA FilesOfRow ==
  ASSUME NEW row \in Row
  PROVE  /\ FilesOf(row) \in Seq(Files)
         /\ \A i \in DOMAIN FilesOf(row) : row[FilesOf(row)[i]] # NoFile
         /\ \A f \in Files : row[f] # NoFile => \E i \in DOMAIN FilesOf(row) : FilesOf(row)[i] = f
         /\ \A i, j \in DOMAIN FilesOf(row) : FilesOf(row)[i] = FilesOf(row)[j] => i = j
<1> NumFiles \in Nat \ {0}
  BY SizesAssumption
<1> DEFINE Rec(g) == g = [f \in 0 .. NumFiles |->
             IF f = 0 THEN <<>> ELSE IF row[f] = NoFile THEN g[f - 1] ELSE Append(g[f - 1], f)]
           upTo == CHOOSE g : Rec(g)
<1>1. FilesOf(row) = upTo[NumFiles]
  BY Zenon DEF FilesOf
<1>2. PICK g \in [0 .. NumFiles -> Seq(Nat)] : \A f \in 0 .. NumFiles : Listing(g, row, f)
  BY ListingExists
<1>3. Rec(g)
  BY <1>2 DEF Listing
<1>4. Rec(upTo)
  <2> HIDE DEF Rec
  <2> QED BY <1>3
<1>5. \A f \in 0 .. NumFiles : Listing(upTo, row, f)
  <2> HIDE DEF upTo
  <2> QED BY <1>4 DEF Listing
<1> HIDE DEF upTo, Rec
<1> DEFINE Lists(s, n) ==
             /\ s \in Seq(Files)
             /\ \A i \in DOMAIN s : s[i] <= n /\ row[s[i]] # NoFile
             /\ \A f \in 1 .. n : row[f] # NoFile => \E i \in DOMAIN s : s[i] = f
             /\ \A i, j \in DOMAIN s : s[i] = s[j] => i = j
           G == {n \in Nat : n <= NumFiles => Lists(upTo[n], n)}
<1>6. 0 \in G
  <2>1. upTo[0] = <<>>
    BY <1>5 DEF Listing
  <2>2. Lists(<<>>, 0)
    OBVIOUS
  <2> HIDE DEF Lists
  <2> QED BY <2>1, <2>2
<1>7. ASSUME NEW n \in Nat, n \in G PROVE n + 1 \in G
  <2> SUFFICES ASSUME n + 1 <= NumFiles PROVE Lists(upTo[n + 1], n + 1)
    OBVIOUS
  <2>1. Lists(upTo[n], n)
    BY <1>7
  <2>2. upTo[n + 1] = IF row[n + 1] = NoFile THEN upTo[n] ELSE Append(upTo[n], n + 1)
    <3>1. n + 1 \in 0 .. NumFiles /\ n + 1 # 0 /\ (n + 1) - 1 = n
      OBVIOUS
    <3> QED BY <1>5, <3>1 DEF Listing
  <2> DEFINE s == upTo[n]
             t == upTo[n + 1]
  <2> HIDE DEF s, t
  <2>3. Lists(s, n)
    BY <2>1 DEF s
  <2>4. n + 1 \in Files
    BY DEF Files
  <2>5. CASE row[n + 1] = NoFile
    <3>1. t = s
      BY <2>2, <2>5 DEF s, t
    <3>2. \A f \in 1 .. n + 1 : row[f] # NoFile => f \in 1 .. n
      <4>1. \A f \in 1 .. n + 1 : f \in 1 .. n \/ f = n + 1
        OBVIOUS
      <4> QED BY <2>5, <4>1
    <3>3. \A i \in DOMAIN s : s[i] \in Files /\ s[i] <= n + 1
      BY <2>3 DEF Files
    <3>4. Lists(s, n + 1)
      BY <2>3, <3>2, <3>3
    <3> QED BY <3>1, <3>4 DEF t
  <2>6. CASE row[n + 1] # NoFile
    <3>1. t = Append(s, n + 1)
      BY <2>2, <2>6 DEF s, t
    <3> DEFINE k == Len(s)
    <3>2. /\ k \in Nat /\ DOMAIN s = 1 .. k /\ DOMAIN t = 1 .. k + 1
          /\ \A i \in 1 .. k : t[i] = s[i]
          /\ t[k + 1] = n + 1
          /\ t \in Seq(Files)
      BY <2>3, <2>4, <3>1
    <3> HIDE DEF k
    <3>3. \A i \in 1 .. k + 1 : i \in 1 .. k \/ i = k + 1
      BY <3>2
    <3>4. \A i \in 1 .. k : s[i] \in Nat /\ s[i] <= n /\ s[i] # n + 1
      <4>1. s \in Seq(Files) /\ \A i \in 1 .. k : s[i] <= n
        BY <2>3, <3>2
      <4>2. \A i \in 1 .. k : s[i] \in Files
        BY <3>2, <4>1
      <4>3. \A m \in Files : m \in Nat /\ (m <= n => m # n + 1)
        BY DEF Files
      <4> QED BY <4>1, <4>2, <4>3
    <3>5. \A i \in 1 .. k + 1 : t[i] <= n + 1 /\ row[t[i]] # NoFile
      <4>1. \A i \in 1 .. k : s[i] <= n + 1 /\ row[s[i]] # NoFile
        <5>1. \A i \in 1 .. k : row[s[i]] # NoFile
          BY <2>3, <3>2
        <5> QED BY <3>4, <5>1
      <4>2. n + 1 <= n + 1
        OBVIOUS
      <4> QED BY <2>6, <3>2, <3>3, <4>1, <4>2
    <3>6. \A i, j \in 1 .. k + 1 : t[i] = t[j] => i = j
      BY <2>3, <3>2, <3>3, <3>4
    <3>7. ASSUME NEW f \in 1 .. n + 1, row[f] # NoFile PROVE \E i \in 1 .. k + 1 : t[i] = f
      <4>1. CASE f = n + 1
        <5>1. k + 1 \in 1 .. k + 1
          BY <3>2
        <5> QED BY <3>2, <4>1, <5>1
      <4>2. CASE f \in 1 .. n
        <5>1. PICK i \in 1 .. k : s[i] = f
          BY <2>3, <3>2, <3>7, <4>2
        <5>2. i \in 1 .. k + 1
          BY <3>2
        <5> QED BY <3>2, <5>1, <5>2
      <4> QED BY <4>1, <4>2
    <3>8. Lists(t, n + 1)
      BY <3>2, <3>5, <3>6, <3>7
    <3> QED BY <3>8 DEF t
  <2> QED BY <2>5, <2>6
<1>8. Nat \subseteq G
  <2> HIDE DEF G
  <2> QED BY <1>6, <1>7, NatInduct
<1>9. Lists(upTo[NumFiles], NumFiles)
  BY <1>8
<1> QED BY <1>1, <1>9 DEF Files

\* The sequence s without the element at p.
Skip(s, p) == [i \in 1 .. Len(s) - 1 |-> IF i < p THEN s[i] ELSE s[i + 1]]

LEMMA RemoveFound ==
  ASSUME NEW X, NEW s \in Seq(X), NEW p \in DOMAIN s,
         \A i \in DOMAIN s : s[i] = s[p] => i = p
  PROVE  /\ RemoveFirst(s, s[p]) = Skip(s, p)
         /\ Skip(s, p) \in Seq(X)
<1> DEFINE I == {i \in 1 .. Len(s) : s[i] = s[p]}
           k == Len(s)
<1>1. k \in Nat /\ DOMAIN s = 1 .. k /\ p \in 1 .. k
  OBVIOUS
<1>2. I = {p}
  BY <1>1
<1>3. Min({p}) = p
  BY <1>1 DEF Min
<1>4. SelectInSeq(s, LAMBDA v : v = s[p]) = p
  <2>1. SelectInSeq(s, LAMBDA v : v = s[p]) = IF I # {} THEN Min(I) ELSE 0
    BY Zenon DEF SelectInSeq
  <2> QED BY <1>2, <1>3, <2>1
<1>5. RemoveFirst(s, s[p]) = SubSeq(s, 1, p - 1) \o SubSeq(s, p + 1, k)
  <2>1. \E i \in 1 .. Len(s) : s[i] = s[p]
    BY <1>1
  <2>2. RemoveFirst(s, s[p]) = RemoveAt(s, SelectInSeq(s, LAMBDA v : v = s[p]))
    BY <2>1, Zenon DEF RemoveFirst
  <2> QED BY <1>4, <2>2 DEF RemoveAt
<1> HIDE DEF k
<1> DEFINE a == SubSeq(s, 1, p - 1)
           b == SubSeq(s, p + 1, k)
<1>6. /\ a \in Seq(X) /\ Len(a) = p - 1
      /\ \A i \in 1 .. p - 1 : a[i] = s[i]
  BY <1>1 DEF k
<1>7. /\ b \in Seq(X) /\ Len(b) = k - p
      /\ \A i \in 1 .. k - p : b[i] = s[p + i]
  BY <1>1 DEF k
<1> HIDE DEF a, b
<1>8. a \o b \in Seq(X) /\ Len(a \o b) = k - 1
  <2>1. a \o b \in Seq(X) /\ Len(a \o b) = Len(a) + Len(b)
    <3>1. a \in Seq(X) /\ b \in Seq(X)
      BY <1>6, <1>7
    <3> QED BY <3>1
  <2> QED BY <1>1, <1>6, <1>7, <2>1
<1>9. \A i \in 1 .. k - 1 : (a \o b)[i] = IF i < p THEN s[i] ELSE s[i + 1]
  <2> SUFFICES ASSUME NEW i \in 1 .. k - 1
               PROVE  (a \o b)[i] = IF i < p THEN s[i] ELSE s[i + 1]
    OBVIOUS
  <2>1. CASE i < p
    BY <1>1, <1>6, <1>7, <2>1
  <2>2. CASE ~(i < p)
    <3>1. (a \o b)[i] = b[i - (p - 1)]
      <4>1. i \in 1 .. Len(a) + Len(b) /\ ~(i <= Len(a))
        BY <1>1, <1>6, <1>7, <2>2
      <4>2. (a \o b)[i] = b[i - Len(a)]
        BY <1>6, <1>7, <4>1
      <4> QED BY <1>6, <4>2
    <3>2. i - (p - 1) \in 1 .. k - p /\ p + (i - (p - 1)) = i + 1
      BY <1>1, <2>2
    <3> QED BY <1>7, <2>2, <3>1, <3>2
  <2> QED BY <2>1, <2>2
<1>10. a \o b = Skip(s, p)
  <2> DEFINE c == a \o b
  <2>1. c \in Seq(X) /\ Len(c) = k - 1 /\ k - 1 \in Nat
    BY <1>1, <1>8
  <2>2. \A i \in 1 .. k - 1 : c[i] = IF i < p THEN s[i] ELSE s[i + 1]
    BY <1>9
  <2> HIDE DEF c
  <2>3. c = [i \in 1 .. k - 1 |-> c[i]]
    BY <2>1
  <2>4. c = [i \in 1 .. k - 1 |-> IF i < p THEN s[i] ELSE s[i + 1]]
    BY <2>2, <2>3
  <2> QED BY <2>4 DEF Skip, c, k
<1> QED BY <1>5, <1>8, <1>10 DEF a, b

LEMMA RemoveAbsent ==
  ASSUME NEW X, NEW s \in Seq(X), NEW e, \A i \in DOMAIN s : s[i] # e
  PROVE  RemoveFirst(s, e) = s
BY DEF RemoveFirst

-----------------------------------------------------------------------------
(***************************************************************************)
(* The stack of calls.                                                     *)
(***************************************************************************)
CallSet == [step : {"start", "loaded"}, rq : Request]

LEMMA Concat3 ==
  ASSUME NEW X, NEW a \in Seq(X), NEW h \in X, NEW b \in Seq(X)
  PROVE  LET c == a \o <<h>> \o b
             k == Len(a)
         IN  /\ c \in Seq(X)
             /\ Len(c) = k + 1 + Len(b)
             /\ \A i \in 1 .. k : c[i] = a[i]
             /\ c[k + 1] = h
             /\ \A i \in 1 .. Len(b) : c[k + 1 + i] = b[i]
<1> DEFINE d == a \o <<h>>
           c == d \o b
           k == Len(a)
           m == Len(b)
<1>1. k \in Nat /\ m \in Nat
  OBVIOUS
<1>2. /\ d \in Seq(X) /\ Len(d) = k + 1
      /\ \A i \in 1 .. k : d[i] = a[i]
      /\ d[k + 1] = h
  OBVIOUS
<1> HIDE DEF d, k, m
<1>3. c \in Seq(X) /\ Len(c) = (k + 1) + m
  BY <1>1, <1>2 DEF m
<1>4. \A i \in 1 .. k + 1 : c[i] = d[i]
  BY <1>1, <1>2 DEF m
<1>5. \A i \in 1 .. m : c[(k + 1) + i] = b[i]
  <2> SUFFICES ASSUME NEW i \in 1 .. m PROVE c[(k + 1) + i] = b[i]
    OBVIOUS
  <2>1. /\ (k + 1) + i \in 1 .. (k + 1) + m /\ ~((k + 1) + i <= k + 1)
        /\ ((k + 1) + i) - (k + 1) = i
    BY <1>1
  <2>2. c[(k + 1) + i] = b[((k + 1) + i) - (k + 1)]
    BY <1>1, <1>2, <2>1 DEF m
  <2> QED BY <2>1, <2>2
<1>6. (\A i \in 1 .. k : c[i] = a[i]) /\ c[k + 1] = h
  BY <1>1, <1>2, <1>4
<1> QED BY <1>3, <1>5, <1>6 DEF d, k, m

LEMMA Top ==
  ASSUME NEW c \in Seq(CallSet), c # <<>>
  PROVE  /\ 1 \in DOMAIN c /\ Head(c) = c[1] /\ c[1] \in CallSet
         /\ Head(c).rq \in Request /\ Head(c).step \in {"start", "loaded"}
         /\ Tail(c) \in Seq(CallSet)
         /\ DOMAIN Tail(c) = 1 .. Len(c) - 1 /\ DOMAIN c = 1 .. Len(c)
         /\ \A i \in DOMAIN Tail(c) : Tail(c)[i] = c[i + 1] /\ i + 1 \in DOMAIN c
<1>1. c[1] \in CallSet /\ Head(c) = c[1] /\ 1 \in DOMAIN c
  OBVIOUS
<1>2. Tail(c) \in Seq(CallSet) /\ Len(Tail(c)) = Len(c) - 1
  OBVIOUS
<1>3. \A i \in 1 .. Len(c) - 1 : Tail(c)[i] = c[i + 1] /\ i + 1 \in DOMAIN c
  OBVIOUS
<1> QED BY <1>1, <1>2, <1>3 DEF CallSet

LEMMA CallType ==
  ASSUME NEW u \in Users, NEW f \in Files, NEW len \in Nat,
         NEW k \in {"put", "restore", "get", "cput", "dele", "rename", "list"},
         NEW t \in Files, NEW b \in BOOLEAN
  PROVE  /\ Call(k, u, f) \in Request
         /\ [Call(k, u, f) EXCEPT !.len = len] \in Request
         /\ [Call(k, u, f) EXCEPT !.to = t] \in Request
         /\ [Call(k, u, f) EXCEPT !.len = len, !.match = b] \in Request
BY DEF Call, Request

\* The calls of restore_user: one for each file that the row has.
PutsBack(c, u, row) ==
  /\ \A i \in DOMAIN c :
       /\ c[i].step = "start" /\ c[i].rq.kind = "restore" /\ c[i].rq.user = u
       /\ c[i].rq.file \in Files
       /\ c[i].rq.len = row[c[i].rq.file] /\ c[i].rq.len # NoFile
  /\ \A f \in Files : row[f] # NoFile => \E i \in DOMAIN c : c[i].rq.file = f
  /\ \A i, j \in DOMAIN c : c[i].rq.file = c[j].rq.file => i = j

LEMMA RestoresOfRow ==
  ASSUME NEW u \in Users, virmem[u] \in Row
  PROVE  /\ Restores(u) \in Seq(CallSet)
         /\ PutsBack(Restores(u), u, virmem[u])
<1> DEFINE names == FilesOf(virmem[u])
           c == Restores(u)
<1>1. /\ names \in Seq(Files)
      /\ \A i \in DOMAIN names : virmem[u][names[i]] # NoFile
      /\ \A f \in Files : virmem[u][f] # NoFile => \E i \in DOMAIN names : names[i] = f
      /\ \A i, j \in DOMAIN names : names[i] = names[j] => i = j
  BY FilesOfRow
<1> DEFINE r(i) == [Call("restore", u, names[i]) EXCEPT !.len = virmem[u][names[i]]]
<1>2. c = [i \in DOMAIN names |-> [step |-> "start", rq |-> r(i)]]
  BY DEF Restores
<1> HIDE DEF names, c
<1>3. \A i \in DOMAIN names : names[i] \in Files /\ virmem[u][names[i]] \in Nat
  BY <1>1 DEF Row
<1>4. \A i \in DOMAIN names :
        /\ r(i) \in Request /\ r(i).kind = "restore" /\ r(i).user = u /\ r(i).file = names[i]
        /\ r(i).len = virmem[u][names[i]]
  BY <1>3, CallType DEF Call
<1> HIDE DEF r
<1>5. DOMAIN c = DOMAIN names /\ DOMAIN names = 1 .. Len(names)
  BY <1>1, <1>2
<1>6. \A i \in DOMAIN c : c[i] = [step |-> "start", rq |-> r(i)]
  BY <1>2
<1>7. c \in Seq(CallSet)
  <2>1. \A i \in DOMAIN names : [step |-> "start", rq |-> r(i)] \in CallSet
    BY <1>4 DEF CallSet
  <2>2. c \in [1 .. Len(names) -> CallSet] /\ Len(names) \in Nat
    BY <1>1, <1>2, <1>5, <2>1
  <2> QED BY <2>2
<1>8. \A i \in DOMAIN c : /\ c[i].step = "start" /\ c[i].rq = r(i)
                          /\ c[i].rq.file = names[i]
  BY <1>4, <1>5, <1>6
<1>9. \A i \in DOMAIN c :
        /\ c[i].step = "start" /\ c[i].rq.kind = "restore" /\ c[i].rq.user = u
        /\ c[i].rq.file \in Files
        /\ c[i].rq.len = virmem[u][c[i].rq.file] /\ c[i].rq.len # NoFile
  BY <1>1, <1>3, <1>4, <1>5, <1>8
<1>10. \A f \in Files : virmem[u][f] # NoFile => \E i \in DOMAIN c : c[i].rq.file = f
  BY <1>1, <1>5, <1>8
<1>11. \A i, j \in DOMAIN c : c[i].rq.file = c[j].rq.file => i = j
  BY <1>1, <1>5, <1>8
<1>12. PutsBack(c, u, virmem[u])
  BY <1>9, <1>10, <1>11 DEF PutsBack
<1> QED BY <1>7, <1>12 DEF c

-----------------------------------------------------------------------------
(***************************************************************************)
(* The list.  ListType is what TypeOK says of it, with N nodes; Linked     *)
(* that it leads through the nodes of s in their order, both ways.         *)
(***************************************************************************)
Ends(N) == 1 .. N \cup {head, tail}

PrevType(p, N) ==
  /\ p \in [Ends(N) -> 1 .. N \cup {head, Null}]
  /\ \A n \in Ends(N) : p[n] = Null <=> n = head

NextType(x, N) ==
  /\ x \in [Ends(N) -> 1 .. N \cup {tail, Null}]
  /\ \A n \in Ends(N) : x[n] = Null <=> n = tail

ListType(l, N) ==
  /\ l = [prev |-> l.prev, next |-> l.next]
  /\ PrevType(l.prev, N)
  /\ NextType(l.next, N)

LEMMA ListTyped ==
  ASSUME TypeOK
  PROVE  Len(key) \in Nat /\ ListType(list, Len(key))
<1>1. list \in [prev : [Ends(Len(key)) -> 1 .. Len(key) \cup {head, Null}],
                next : [Ends(Len(key)) -> 1 .. Len(key) \cup {tail, Null}]]
  BY DEF TypeOK, Node, Ends
<1>2. \A n \in Ends(Len(key)) :
        (list.prev[n] = Null <=> n = head) /\ (list.next[n] = Null <=> n = tail)
  BY DEF TypeOK, Node, Ends
<1>3. Len(key) \in Nat
  BY DEF TypeOK
<1>4. list = [prev |-> list.prev, next |-> list.next]
  BY <1>1
<1>5. /\ list.prev \in [Ends(Len(key)) -> 1 .. Len(key) \cup {head, Null}]
      /\ list.next \in [Ends(Len(key)) -> 1 .. Len(key) \cup {tail, Null}]
  BY <1>1
<1> QED BY <1>2, <1>3, <1>4, <1>5 DEF ListType, PrevType, NextType

LEMMA MoveFields ==
  ASSUME NEW l, NEW n
  PROVE  LET m == MoveToTail(l, n) IN
         /\ m = [prev |-> m.prev, next |-> m.next]
         /\ m.prev = [l.prev EXCEPT ![n] = l.prev[tail], ![tail] = n]
         /\ m.next = [l.next EXCEPT ![l.prev[tail]] = n, ![n] = tail]
BY DEF MoveToTail

LEMMA UnlinkFields ==
  ASSUME NEW N \in Nat, NEW l, ListType(l, N), NEW n \in 1 .. N
  PROVE  LET m == Unlink(l, n) IN
         /\ m = [prev |-> m.prev, next |-> m.next]
         /\ m.prev = [l.prev EXCEPT ![l.next[n]] = l.prev[n]]
         /\ m.next = [l.next EXCEPT ![l.prev[n]] = l.next[n]]
<1>1. /\ n \in Ends(N) /\ l.next \in [Ends(N) -> 1 .. N \cup {tail, Null}]
      /\ l.prev[n] # Null /\ l.prev[n] \in 1 .. N \cup {head, Null}
  BY DEF ListType, PrevType, NextType, Ends, head, tail
<1>2. [l.next EXCEPT ![l.prev[n]] = l.next[n]][n] = l.next[n]
  BY <1>1
<1> QED BY <1>2 DEF Unlink

LEMMA MoveTyped ==
  ASSUME NEW N \in Nat, NEW l, ListType(l, N), NEW n \in 1 .. N
  PROVE  ListType(MoveToTail(l, n), N)
<1> DEFINE m == MoveToTail(l, n)
           last == l.prev[tail]
<1>1. /\ m = [prev |-> m.prev, next |-> m.next]
      /\ m.prev = [l.prev EXCEPT ![n] = last, ![tail] = n]
      /\ m.next = [l.next EXCEPT ![last] = n, ![n] = tail]
  BY MoveFields
<1> HIDE DEF m
<1>2. /\ tail \in Ends(N) /\ n \in Ends(N) /\ tail # head /\ n # head /\ n # tail
      /\ n # Null /\ tail # Null /\ head # Null
  BY DEF Ends, head, tail, Null
<1>3. last \in 1 .. N \cup {head} /\ last \in Ends(N) /\ last # tail /\ last # Null
  <2>1. last \in 1 .. N \cup {head, Null} /\ last # Null
    BY <1>2 DEF ListType, PrevType
  <2>2. 1 .. N \cup {head} \subseteq Ends(N) /\ tail \notin 1 .. N \cup {head}
    BY DEF Ends, head, tail
  <2> QED BY <2>1, <2>2
<1> HIDE DEF last
<1>4. PrevType(m.prev, N)
  BY <1>1, <1>2, <1>3 DEF ListType, PrevType
<1>5. NextType(m.next, N)
  BY <1>1, <1>2, <1>3 DEF ListType, NextType
<1> QED BY <1>1, <1>4, <1>5 DEF ListType, m

LEMMA UnlinkTyped ==
  ASSUME NEW N \in Nat, NEW l, ListType(l, N), NEW n \in 1 .. N
  PROVE  ListType(Unlink(l, n), N)
<1> DEFINE m == Unlink(l, n)
           p == l.prev[n]
           x == l.next[n]
<1>1. /\ m = [prev |-> m.prev, next |-> m.next]
      /\ m.prev = [l.prev EXCEPT ![x] = p]
      /\ m.next = [l.next EXCEPT ![p] = x]
  BY UnlinkFields
<1> HIDE DEF m
<1>2. /\ n \in Ends(N) /\ n # head /\ n # tail /\ tail # head
      /\ 1 .. N \cup {head} \subseteq Ends(N) /\ tail \notin 1 .. N \cup {head}
      /\ 1 .. N \cup {tail} \subseteq Ends(N) /\ head \notin 1 .. N \cup {tail}
  BY DEF Ends, head, tail
<1>3. p \in 1 .. N \cup {head} /\ p # Null
  BY <1>2 DEF ListType, PrevType
<1>4. x \in 1 .. N \cup {tail} /\ x # Null
  BY <1>2 DEF ListType, NextType
<1> HIDE DEF p, x
<1>5. PrevType(m.prev, N)
  BY <1>1, <1>2, <1>3, <1>4 DEF ListType, PrevType
<1>6. NextType(m.next, N)
  BY <1>1, <1>2, <1>3, <1>4 DEF ListType, NextType
<1> QED BY <1>1, <1>5, <1>6 DEF ListType, m

\* A new node, made and moved to the tail.
LEMMA WithNodeFields ==
  ASSUME NEW N \in Nat, NEW l, ListType(l, N)
  PROVE  LET m == WithNode(l, N + 1) IN
         /\ m.prev = [k \in Ends(N + 1) |-> IF k = N + 1 THEN Null ELSE l.prev[k]]
         /\ m.next = [k \in Ends(N + 1) |-> IF k = N + 1 THEN Null ELSE l.next[k]]
<1>1. DOMAIN l.prev = Ends(N) /\ DOMAIN l.next = Ends(N)
  BY DEF ListType, PrevType, NextType
<1>2. Ends(N) \cup {N + 1} = Ends(N + 1)
  BY DEF Ends
<1> QED BY <1>1, <1>2 DEF WithNode

LEMMA NewTyped ==
  ASSUME NEW N \in Nat, NEW l, ListType(l, N)
  PROVE  ListType(MoveToTail(WithNode(l, N + 1), N + 1), N + 1)
<1> DEFINE n == N + 1
           w == WithNode(l, n)
           m == MoveToTail(w, n)
           last == w.prev[tail]
<1>1. /\ m = [prev |-> m.prev, next |-> m.next]
      /\ m.prev = [w.prev EXCEPT ![n] = last, ![tail] = n]
      /\ m.next = [w.next EXCEPT ![last] = n, ![n] = tail]
  BY MoveFields
<1>2. /\ w.prev = [k \in Ends(n) |-> IF k = n THEN Null ELSE l.prev[k]]
      /\ w.next = [k \in Ends(n) |-> IF k = n THEN Null ELSE l.next[k]]
  BY WithNodeFields
<1> HIDE DEF m, w
<1>3. /\ n \in Nat /\ n \in 1 .. n /\ n \notin 1 .. N /\ n \notin Ends(N)
      /\ tail \in Ends(N) /\ head \in Ends(N)
      /\ tail # head /\ n # head /\ n # tail /\ n # Null
      /\ Ends(n) = Ends(N) \cup {n} /\ 1 .. n = 1 .. N \cup {n}
  BY DEF Ends, head, tail, Null
<1>4. Null \notin Ends(n) /\ 1 .. N \cup {head} \subseteq Ends(N) /\ tail \notin 1 .. N \cup {head}
  BY <1>3 DEF Ends, head, tail, Null
<1> HIDE DEF n
<1>5. last = l.prev[tail]
  BY <1>2, <1>3
<1>6. last \in 1 .. N \cup {head} /\ last \in Ends(N) /\ last # tail /\ last # n /\ last # Null
  <2>1. last \in 1 .. N \cup {head, Null} /\ last # Null
    BY <1>3, <1>5 DEF ListType, PrevType
  <2> QED BY <1>3, <1>4, <2>1
<1> HIDE DEF last
<1>7. PrevType(m.prev, n)
  <2>1. m.prev = [k \in Ends(n) |-> IF k = tail THEN n ELSE IF k = n THEN last ELSE l.prev[k]]
    BY <1>1, <1>2, <1>3, ZenonT(30)
  <2>2. ASSUME NEW k \in Ends(n)
        PROVE m.prev[k] \in 1 .. n \cup {head, Null} /\ (m.prev[k] = Null <=> k = head)
    <3>1. k \in Ends(N) => l.prev[k] \in 1 .. N \cup {head, Null} /\ (l.prev[k] = Null <=> k = head)
      BY DEF ListType, PrevType
    <3> QED BY <1>3, <1>6, <2>1, <3>1
  <2> QED BY <2>1, <2>2 DEF PrevType
<1>8. NextType(m.next, n)
  <2>1. m.next = [k \in Ends(n) |-> IF k = n THEN tail ELSE IF k = last THEN n ELSE l.next[k]]
    BY <1>1, <1>2, <1>3, <1>6
  <2>2. ASSUME NEW k \in Ends(n)
        PROVE m.next[k] \in 1 .. n \cup {tail, Null} /\ (m.next[k] = Null <=> k = tail)
    <3>1. k \in Ends(N) => l.next[k] \in 1 .. N \cup {tail, Null} /\ (l.next[k] = Null <=> k = tail)
      BY DEF ListType, NextType
    <3>2. tail # Null
      BY DEF tail, Null
    <3> QED BY <1>3, <1>6, <2>1, <3>1, <3>2
  <2> QED BY <2>1, <2>2 DEF NextType
<1> QED BY <1>1, <1>7, <1>8 DEF ListType, m, w, n

Once(s) == \A i, j \in DOMAIN s : s[i] = s[j] => i = j

\* The i-th stop on the way from head to tail.
Stop(s, i) == IF i = 0 THEN head ELSE IF i = Len(s) + 1 THEN tail ELSE s[i]

Linked(l, s) ==
  \A i \in 0 .. Len(s) : /\ l.next[Stop(s, i)] = Stop(s, i + 1)
                         /\ l.prev[Stop(s, i + 1)] = Stop(s, i)

LEMMA LinkedOrder ==
  ASSUME NEW N \in Nat, NEW l, NEW s \in Seq(1 .. N)
  PROVE  Linked(l, s) <=>
           LET order == <<head>> \o s \o <<tail>> IN
           \A i \in 1 .. Len(order) - 1 :
             l.next[order[i]] = order[i + 1] /\ l.prev[order[i + 1]] = order[i]
<1> DEFINE k == Len(s)
           a == <<head>> \o s
           order == a \o <<tail>>
<1>1. k \in Nat /\ DOMAIN s = 1 .. k
  OBVIOUS
<1>2. s \in Seq(Int) /\ <<head>> \in Seq(Int) /\ <<tail>> \in Seq(Int)
  BY DEF head, tail
<1>3. /\ a \in Seq(Int) /\ Len(a) = k + 1 /\ a[1] = head
      /\ \A i \in 1 .. k : a[i + 1] = s[i]
  <2>1. a \in Seq(Int) /\ Len(a) = 1 + k
    BY <1>2
  <2>2. \A i \in 1 .. 1 + k : a[i] = IF i <= 1 THEN head ELSE s[i - 1]
    BY <1>2
  <2> HIDE DEF a, k
  <2>3. \A i \in 1 .. k : i + 1 \in 1 .. 1 + k /\ ~(i + 1 <= 1) /\ (i + 1) - 1 = i
    BY <1>1
  <2>4. 1 \in 1 .. 1 + k
    BY <1>1
  <2>5. \A i \in 1 .. k : a[i + 1] = s[i]
    BY <2>2, <2>3
  <2>6. a[1] = head
    BY <2>2, <2>4
  <2> QED BY <1>1, <2>1, <2>5, <2>6
<1> HIDE DEF a, k
<1>4. /\ Len(order) = k + 2
      /\ \A i \in 1 .. k + 1 : order[i] = a[i]
      /\ order[k + 2] = tail
  <2>1. Len(order) = (k + 1) + 1
    BY <1>1, <1>2, <1>3
  <2>2. \A i \in 1 .. (k + 1) + 1 : order[i] = IF i <= k + 1 THEN a[i] ELSE tail
    BY <1>1, <1>2, <1>3
  <2> HIDE DEF order
  <2> QED BY <1>1, <2>1, <2>2
<1> HIDE DEF order
<1>5. \A i \in 0 .. k + 1 : order[i + 1] = Stop(s, i)
  <2> SUFFICES ASSUME NEW i \in 0 .. k + 1 PROVE order[i + 1] = Stop(s, i)
    OBVIOUS
  <2>1. CASE i = 0
    <3>1. 1 \in 1 .. k + 1
      BY <1>1
    <3> QED BY <1>3, <1>4, <2>1, <3>1 DEF Stop
  <2>2. CASE i = k + 1
    <3>1. i # 0 /\ i + 1 = k + 2
      BY <1>1, <2>2
    <3> QED BY <1>4, <2>2, <3>1 DEF Stop, k
  <2>3. CASE i \in 1 .. k
    <3>1. i # 0 /\ i # k + 1 /\ i + 1 \in 1 .. k + 1
      BY <1>1, <2>3
    <3> QED BY <1>3, <1>4, <2>3, <3>1 DEF Stop, k
  <2> QED BY <1>1, <2>1, <2>2, <2>3
<1>6. Linked(l, s) <=>
        \A i \in 0 .. k : /\ l.next[order[i + 1]] = order[(i + 1) + 1]
                          /\ l.prev[order[(i + 1) + 1]] = order[i + 1]
  <2>1. \A i \in 0 .. k : i \in 0 .. k + 1 /\ i + 1 \in 0 .. k + 1
    BY <1>1
  <2>2. \A i \in 0 .. k : order[i + 1] = Stop(s, i) /\ order[(i + 1) + 1] = Stop(s, i + 1)
    BY <1>5, <2>1
  <2> QED BY <2>2, Zenon DEF Linked, k
<1>7. (\A i \in 0 .. k : /\ l.next[order[i + 1]] = order[(i + 1) + 1]
                         /\ l.prev[order[(i + 1) + 1]] = order[i + 1])
      <=> \A i \in 1 .. (k + 2) - 1 : /\ l.next[order[i]] = order[i + 1]
                                      /\ l.prev[order[i + 1]] = order[i]
  <2>1. \A i \in 1 .. (k + 2) - 1 : i - 1 \in 0 .. k /\ (i - 1) + 1 = i
    BY <1>1
  <2>2. \A i \in 0 .. k : i + 1 \in 1 .. (k + 2) - 1
    BY <1>1
  <2> QED BY <2>1, <2>2
<1> QED BY <1>4, <1>6, <1>7, Zenon DEF a, order

LEMMA Stops ==
  ASSUME NEW N \in Nat, NEW s \in Seq(1 .. N)
  PROVE  /\ \A i \in 0 .. Len(s) + 1 : Stop(s, i) \in Ends(N)
         /\ \A i \in 0 .. Len(s) + 1 : Stop(s, i) = head => i = 0
         /\ \A i \in 0 .. Len(s) + 1 : Stop(s, i) = tail => i = Len(s) + 1
         /\ Stop(s, 0) = head /\ Stop(s, Len(s) + 1) = tail
         /\ \A i \in DOMAIN s : Stop(s, i) = s[i]
         /\ Once(s) => \A i, j \in 0 .. Len(s) + 1 : Stop(s, i) = Stop(s, j) => i = j
<1> DEFINE k == Len(s)
<1>1. k \in Nat /\ DOMAIN s = 1 .. k /\ \A i \in 1 .. k : s[i] \in 1 .. N
  OBVIOUS
<1>2. head \notin 1 .. N /\ tail \notin 1 .. N /\ head # tail /\ 1 .. N \subseteq Ends(N)
      /\ head \in Ends(N) /\ tail \in Ends(N)
  BY DEF head, tail, Ends
<1>3. \A i : Stop(s, i) = IF i = 0 THEN head ELSE IF i = k + 1 THEN tail ELSE s[i]
  BY DEF Stop
<1> HIDE DEF k
<1>4. \A i \in 0 .. k + 1 : i = 0 \/ i = k + 1 \/ (i \in 1 .. k /\ i # 0 /\ i # k + 1)
  BY <1>1
<1>5. k + 1 # 0
  BY <1>1
<1>6. \A i \in 1 .. k : i # 0 /\ i # k + 1
  BY <1>1
<1>7. /\ \A i \in 0 .. k + 1 : Stop(s, i) \in Ends(N)
      /\ \A i \in 0 .. k + 1 : Stop(s, i) = head => i = 0
      /\ \A i \in 0 .. k + 1 : Stop(s, i) = tail => i = k + 1
      /\ Stop(s, 0) = head /\ Stop(s, k + 1) = tail
  <2>1. Stop(s, 0) = head /\ Stop(s, k + 1) = tail
    BY <1>3, <1>5
  <2>2. \A i \in 1 .. k : Stop(s, i) \in 1 .. N
    BY <1>1, <1>3, <1>6
  <2> QED BY <1>2, <1>4, <2>1, <2>2
<1>8. \A i \in 1 .. k : Stop(s, i) = s[i]
  BY <1>3, <1>6
<1>9. ASSUME Once(s), NEW i \in 0 .. k + 1, NEW j \in 0 .. k + 1, Stop(s, i) = Stop(s, j)
      PROVE i = j
  <2>1. CASE i \in 1 .. k /\ j \in 1 .. k
    BY <1>1, <1>8, <1>9, <2>1 DEF Once
  <2>2. CASE i \notin 1 .. k \/ j \notin 1 .. k
    BY <1>4, <1>7, <1>9, <2>2, Zenon
  <2> QED BY <2>1, <2>2
<1> QED BY <1>1, <1>7, <1>8, <1>9 DEF k

\* What MoveToTail does with a node that is not in the list.
LEMMA LinkLast ==
  ASSUME NEW N \in Nat, NEW l,
         l.prev = [j \in Ends(N) |-> l.prev[j]], l.next = [j \in Ends(N) |-> l.next[j]],
         NEW s \in Seq(1 .. N), Once(s), Linked(l, s),
         NEW n \in 1 .. N, \A i \in DOMAIN s : s[i] # n
  PROVE  Linked(MoveToTail(l, n), Append(s, n))
<1> DEFINE k == Len(s)
           t == Append(s, n)
           m == MoveToTail(l, n)
<1>1. k \in Nat /\ DOMAIN s = 1 .. k
  OBVIOUS
<1>2. t \in Seq(1 .. N) /\ Len(t) = k + 1 /\ t[k + 1] = n /\ \A i \in 1 .. k : t[i] = s[i]
  OBVIOUS
<1>3. /\ m.prev = [l.prev EXCEPT ![n] = l.prev[tail], ![tail] = n]
      /\ m.next = [l.next EXCEPT ![l.prev[tail]] = n, ![n] = tail]
  BY MoveFields
<1> HIDE DEF k, t, m
<1>4. /\ \A i \in 0 .. k + 1 : Stop(s, i) \in Ends(N)
      /\ \A i \in 0 .. k + 1 : Stop(s, i) = tail => i = k + 1
      /\ Stop(s, 0) = head /\ Stop(s, k + 1) = tail
      /\ \A i \in 1 .. k : Stop(s, i) = s[i]
      /\ \A i, j \in 0 .. k + 1 : Stop(s, i) = Stop(s, j) => i = j
  BY <1>1, Stops DEF k
<1>5. /\ l.prev = [j \in Ends(N) |-> l.prev[j]] /\ l.next = [j \in Ends(N) |-> l.next[j]]
      /\ n \in Ends(N) /\ tail \in Ends(N) /\ n # tail /\ n # head
  BY DEF Ends, head, tail
<1>6. \A i \in 0 .. k : Stop(t, i) = Stop(s, i)
  <2>1. \A i \in 0 .. k : i = 0 \/ (i \in 1 .. k /\ i # 0 /\ i # k + 1 /\ i # (k + 1) + 1)
    BY <1>1
  <2> QED BY <1>2, <2>1, Zenon DEF Stop, k
<1>7. Stop(t, k + 1) = n /\ Stop(t, (k + 1) + 1) = tail
  <2>1. k + 1 # 0 /\ k + 1 # (k + 1) + 1 /\ (k + 1) + 1 # 0
    BY <1>1
  <2> QED BY <1>2, <2>1, Zenon DEF Stop
<1>8. \A i \in 0 .. k : Stop(s, i) # n
  <2>1. \A i \in 0 .. k : i = 0 \/ i \in 1 .. k
    BY <1>1
  <2> QED BY <1>1, <1>4, <1>5, <2>1
<1>9. \A i \in 0 .. k : l.next[Stop(s, i)] = Stop(s, i + 1) /\ l.prev[Stop(s, i + 1)] = Stop(s, i)
  BY DEF Linked, k
<1>10. k \in 0 .. k /\ k \in 0 .. k + 1 /\ k # k + 1
  BY <1>1
<1> DEFINE last == Stop(s, k)
<1>11. l.prev[tail] = last /\ last \in Ends(N) /\ last # n /\ last # tail
  BY <1>4, <1>8, <1>9, <1>10
<1>12. ASSUME NEW i \in 0 .. k + 1
       PROVE m.next[Stop(t, i)] = Stop(t, i + 1) /\ m.prev[Stop(t, i + 1)] = Stop(t, i)
  <2>1. CASE i = k + 1
    <3>1. m.next[n] = tail /\ m.prev[tail] = n
      BY <1>3, <1>5
    <3> QED BY <1>7, <2>1, <3>1
  <2>2. CASE i = k
    <3>1. m.next[last] = n /\ m.prev[n] = last
      BY <1>3, <1>5, <1>11
    <3> QED BY <1>6, <1>7, <1>10, <2>2, <3>1
  <2>3. CASE i \in 0 .. k /\ i # k
    <3>1. i \in 0 .. k + 1 /\ i + 1 \in 0 .. k /\ i + 1 \in 0 .. k + 1 /\ i + 1 # k + 1
      BY <1>1, <2>3
    <3>2. Stop(s, i) # last /\ Stop(s, i) # n /\ Stop(s, i) \in Ends(N)
      BY <1>4, <1>8, <1>10, <2>3, <3>1
    <3>3. Stop(s, i + 1) # tail /\ Stop(s, i + 1) # n /\ Stop(s, i + 1) \in Ends(N)
      BY <1>4, <1>8, <3>1
    <3> HIDE DEF last
    <3>4. m.next[Stop(s, i)] = l.next[Stop(s, i)]
      BY <1>3, <1>5, <1>11, <3>2
    <3>5. m.prev[Stop(s, i + 1)] = l.prev[Stop(s, i + 1)]
      BY <1>3, <1>5, <3>3
    <3> QED BY <1>6, <1>9, <2>3, <3>1, <3>4, <3>5
  <2> QED BY <1>1, <2>1, <2>2, <2>3
<1>13. Len(t) = k + 1
  BY <1>2
<1> QED BY <1>12, <1>13 DEF Linked, m, t

\* What Unlink does with the p-th node.
LEMMA LinkWithout ==
  ASSUME NEW N \in Nat, NEW l, ListType(l, N), NEW s \in Seq(1 .. N), Once(s), Linked(l, s),
         NEW p \in DOMAIN s
  PROVE  Linked(Unlink(l, s[p]), Skip(s, p))
<1> SUFFICES ASSUME NEW n \in 1 .. N, n = s[p] PROVE Linked(Unlink(l, n), Skip(s, p))
  OBVIOUS
<1> DEFINE k == Len(s)
           t == Skip(s, p)
           m == Unlink(l, n)
           S(i) == Stop(s, i)
<1>1. k \in Nat /\ DOMAIN s = 1 .. k /\ p \in 1 .. k
  OBVIOUS
<1>2. t = [i \in 1 .. k - 1 |-> IF i < p THEN s[i] ELSE s[i + 1]] /\ Len(t) = k - 1
  <2>1. t = [i \in 1 .. k - 1 |-> IF i < p THEN s[i] ELSE s[i + 1]]
    BY DEF Skip
  <2>2. k - 1 \in Nat
    BY <1>1
  <2> HIDE DEF t, k
  <2> QED BY <2>1, <2>2
<1>3. /\ m = [prev |-> m.prev, next |-> m.next]
      /\ m.prev = [l.prev EXCEPT ![l.next[n]] = l.prev[n]]
      /\ m.next = [l.next EXCEPT ![l.prev[n]] = l.next[n]]
  BY UnlinkFields, SMTT(20)
<1> HIDE DEF k, t, m
<1>4. /\ \A i \in 0 .. k + 1 : S(i) \in Ends(N)
      /\ S(0) = head /\ S(k + 1) = tail
      /\ \A i \in 1 .. k : S(i) = s[i]
      /\ \A i, j \in 0 .. k + 1 : S(i) = S(j) => i = j
  BY <1>1, Stops DEF k
<1>5. DOMAIN l.prev = Ends(N) /\ DOMAIN l.next = Ends(N)
  BY DEF ListType, PrevType, NextType
<1>6. \A i \in 0 .. k : l.next[S(i)] = S(i + 1) /\ l.prev[S(i + 1)] = S(i)
  BY DEF Linked, k
<1>7. \A i \in 0 .. k : Stop(t, i) = IF i < p THEN S(i) ELSE S(i + 1)
  <2> SUFFICES ASSUME NEW i \in 0 .. k PROVE Stop(t, i) = IF i < p THEN S(i) ELSE S(i + 1)
    OBVIOUS
  <2>1. Stop(t, i) = IF i = 0 THEN head ELSE IF i = k THEN tail ELSE t[i]
    <3>1. Len(t) + 1 = k
      BY <1>1, <1>2
    <3> QED BY <3>1 DEF Stop
  <2>2. CASE i = 0
    BY <1>1, <1>4, <2>1, <2>2
  <2>3. CASE i = k
    <3>1. i # 0 /\ ~(i < p)
      BY <1>1, <2>3
    <3> QED BY <1>4, <2>1, <2>3, <3>1
  <2>4. CASE i # 0 /\ i # k
    <3>1. i \in 1 .. k - 1 /\ i \in 1 .. k /\ i + 1 \in 1 .. k
      BY <1>1, <2>4
    <3>2. t[i] = IF i < p THEN s[i] ELSE s[i + 1]
      BY <1>2, <3>1
    <3> QED BY <1>4, <2>1, <2>4, <3>1, <3>2
  <2> QED BY <2>2, <2>3, <2>4
<1>8. l.prev[n] = S(p - 1) /\ l.next[n] = S(p + 1)
  <2>1. p - 1 \in 0 .. k /\ (p - 1) + 1 = p /\ p \in 0 .. k
    BY <1>1
  <2> QED BY <1>1, <1>4, <1>6, <2>1
<1> HIDE DEF S
<1>9. ASSUME NEW i \in 0 .. k - 1
      PROVE m.next[Stop(t, i)] = Stop(t, i + 1) /\ m.prev[Stop(t, i + 1)] = Stop(t, i)
  <2>1. /\ i \in 0 .. k /\ i + 1 \in 0 .. k
        /\ p - 1 \in 0 .. k + 1 /\ p + 1 \in 0 .. k + 1
        /\ i \in 0 .. k + 1 /\ i + 1 \in 0 .. k + 1 /\ (i + 1) + 1 \in 0 .. k + 1
    BY <1>1
  <2>2. CASE i < p - 1
    <3>1. i < p /\ i + 1 < p /\ i # p - 1 /\ i + 1 # p + 1
      BY <1>1, <2>2
    <3>2. Stop(t, i) = S(i) /\ Stop(t, i + 1) = S(i + 1)
      BY <1>7, <2>1, <3>1
    <3>3. S(i) # S(p - 1) /\ S(i + 1) # S(p + 1)
      BY <1>4, <2>1, <3>1
    <3>4. m.next[S(i)] = l.next[S(i)] /\ m.prev[S(i + 1)] = l.prev[S(i + 1)]
      BY <1>3, <1>4, <1>5, <1>8, <2>1, <3>3
    <3> QED BY <1>6, <2>1, <3>2, <3>4
  <2>3. CASE i = p - 1
    <3>1. i < p /\ ~(i + 1 < p) /\ (i + 1) + 1 = p + 1
      BY <1>1, <2>3
    <3>2. Stop(t, i) = S(p - 1) /\ Stop(t, i + 1) = S(p + 1)
      BY <1>7, <2>1, <2>3, <3>1
    <3>3. m.next[S(p - 1)] = S(p + 1) /\ m.prev[S(p + 1)] = S(p - 1)
      BY <1>3, <1>4, <1>5, <1>8, <2>1
    <3> QED BY <3>2, <3>3
  <2>4. CASE i > p - 1
    <3>1. ~(i < p) /\ ~(i + 1 < p) /\ i + 1 # p - 1 /\ (i + 1) + 1 # p + 1
      BY <1>1, <2>4
    <3>2. Stop(t, i) = S(i + 1) /\ Stop(t, i + 1) = S((i + 1) + 1)
      BY <1>7, <2>1, <3>1
    <3>3. S(i + 1) # S(p - 1) /\ S((i + 1) + 1) # S(p + 1)
      BY <1>4, <2>1, <3>1
    <3>4. /\ m.next[S(i + 1)] = l.next[S(i + 1)]
          /\ m.prev[S((i + 1) + 1)] = l.prev[S((i + 1) + 1)]
      BY <1>3, <1>4, <1>5, <1>8, <2>1, <3>3
    <3> QED BY <1>6, <2>1, <3>2, <3>4
  <2> QED BY <1>1, <2>2, <2>3, <2>4
<1> QED BY <1>2, <1>9 DEF Linked, m, t

LEMMA LinkMade ==
  ASSUME NEW N \in Nat, NEW l, ListType(l, N), NEW s \in Seq(1 .. N), Linked(l, s)
  PROVE  Linked(WithNode(l, N + 1), s)
<1> DEFINE w == WithNode(l, N + 1)
           k == Len(s)
<1>1. /\ w.prev = [j \in Ends(N + 1) |-> IF j = N + 1 THEN Null ELSE l.prev[j]]
      /\ w.next = [j \in Ends(N + 1) |-> IF j = N + 1 THEN Null ELSE l.next[j]]
  BY WithNodeFields
<1>2. \A j \in Ends(N) : j \in Ends(N + 1) /\ j # N + 1
  BY DEF Ends, head, tail
<1> HIDE DEF w
<1>3. \A j \in Ends(N) : w.prev[j] = l.prev[j] /\ w.next[j] = l.next[j]
  BY <1>1, <1>2
<1>4. \A i \in 0 .. k + 1 : Stop(s, i) \in Ends(N)
  BY Stops
<1>5. k \in Nat
  OBVIOUS
<1> HIDE DEF k
<1>6. \A i \in 0 .. k : i \in 0 .. k + 1 /\ i + 1 \in 0 .. k + 1
  BY <1>5
<1>7. \A i \in 0 .. k : Stop(s, i) \in Ends(N) /\ Stop(s, i + 1) \in Ends(N)
  BY <1>4, <1>6
<1> QED BY <1>3, <1>7 DEF Linked, w, k

LEMMA Removal ==
  ASSUME NEW X, NEW s \in Seq(X), Once(s), NEW e
  PROVE  LET t == RemoveFirst(s, e) IN
         /\ t \in Seq(X) /\ Once(t)
         /\ \A i \in DOMAIN t : t[i] # e
         /\ \A j \in DOMAIN s : s[j] # e => \E i \in DOMAIN t : t[i] = s[j]
<1> DEFINE t == RemoveFirst(s, e)
           k == Len(s)
<1>1. k \in Nat /\ DOMAIN s = 1 .. k
  OBVIOUS
<1>2. CASE \A i \in DOMAIN s : s[i] # e
  <2>1. t = s
    BY <1>2, RemoveAbsent
  <2> HIDE DEF t
  <2> QED BY <1>2, <2>1 DEF t
<1>3. CASE ~(\A i \in DOMAIN s : s[i] # e)
  <2>1. PICK p \in DOMAIN s : s[p] = e
    BY <1>3
  <2>2. \A i \in DOMAIN s : s[i] = e => i = p
    BY <2>1 DEF Once
  <2>3. t = Skip(s, p) /\ Skip(s, p) \in Seq(X)
    BY <2>1, <2>2, RemoveFound
  <2>4. t = [i \in 1 .. k - 1 |-> IF i < p THEN s[i] ELSE s[i + 1]]
    BY <2>3 DEF Skip
  <2> HIDE DEF t, k
  <2>5. DOMAIN t = 1 .. k - 1
    BY <2>4
  <2>6. p \in 1 .. k
    BY <1>1, <2>1
  <2>7. \A i \in 1 .. k - 1 : t[i] = s[IF i < p THEN i ELSE i + 1]
    BY <2>4
  <2> DEFINE at(i) == IF i < p THEN i ELSE i + 1
  <2>8. /\ \A i \in 1 .. k - 1 : at(i) \in 1 .. k /\ at(i) # p
        /\ \A i, j \in 1 .. k - 1 : at(i) = at(j) => i = j
        /\ \A j \in 1 .. k : j # p => \E i \in 1 .. k - 1 : at(i) = j
    <3>1. \A i \in 1 .. k - 1 : at(i) \in 1 .. k /\ at(i) # p
      BY <1>1, <2>6
    <3>2. \A i, j \in 1 .. k - 1 : at(i) = at(j) => i = j
      BY <1>1, <2>6
    <3>3. ASSUME NEW j \in 1 .. k, j # p PROVE \E i \in 1 .. k - 1 : at(i) = j
      <4>1. CASE j < p
        <5>1. j \in 1 .. k - 1 /\ at(j) = j
          BY <1>1, <2>6, <4>1
        <5> QED BY <5>1
      <4>2. CASE j > p
        <5>1. j - 1 \in 1 .. k - 1 /\ at(j - 1) = j
          BY <1>1, <2>6, <4>2
        <5> QED BY <5>1
      <4> QED BY <1>1, <2>6, <3>3, <4>1, <4>2
    <3> QED BY <3>1, <3>2, <3>3
  <2>9. \A i \in 1 .. k - 1 : t[i] = s[at(i)]
    BY <2>7
  <2> HIDE DEF at
  <2>10. Once(t)
    <3> SUFFICES ASSUME NEW i \in 1 .. k - 1, NEW j \in 1 .. k - 1, t[i] = t[j] PROVE i = j
      BY <2>5 DEF Once
    <3>1. s[at(i)] = s[at(j)] /\ at(i) \in DOMAIN s /\ at(j) \in DOMAIN s
      BY <1>1, <2>8, <2>9
    <3>2. at(i) = at(j)
      BY <3>1 DEF Once
    <3> QED BY <2>8, <3>2
  <2>11. \A i \in 1 .. k - 1 : t[i] # e
    BY <1>1, <2>2, <2>8, <2>9
  <2>12. \A j \in 1 .. k : s[j] # e => \E i \in 1 .. k - 1 : t[i] = s[j]
    BY <2>1, <2>8, <2>9
  <2> QED BY <1>1, <2>3, <2>5, <2>10, <2>11, <2>12 DEF t
<1> QED BY <1>2, <1>3

LEMMA AppendOnce ==
  ASSUME NEW X, NEW s \in Seq(X), Once(s), NEW e \in X, \A i \in DOMAIN s : s[i] # e,
         NEW t, t = Append(s, e)
  PROVE  /\ t \in Seq(X) /\ Once(t)
         /\ \A i \in DOMAIN s : \E j \in DOMAIN t : t[j] = s[i]
         /\ \E j \in DOMAIN t : t[j] = e
<1> DEFINE k == Len(s)
<1>1. /\ k \in Nat /\ DOMAIN s = 1 .. k /\ DOMAIN t = 1 .. k + 1 /\ t \in Seq(X)
      /\ t[k + 1] = e /\ \A i \in 1 .. k : t[i] = s[i]
  OBVIOUS
<1> HIDE DEF k
<1>2. /\ \A i \in 1 .. k + 1 : i \in 1 .. k \/ i = k + 1
      /\ \A i \in 1 .. k : i \in 1 .. k + 1
      /\ k + 1 \in 1 .. k + 1
  BY <1>1
<1>3. Once(t)
  BY <1>1, <1>2 DEF Once
<1> QED BY <1>1, <1>2, <1>3

-----------------------------------------------------------------------------
(***************************************************************************)
(* The inductive invariant.                                                *)
(***************************************************************************)
\* A user's row is not in both places, and its node carries the user's name.
OnePlace ==
  /\ \A u \in Users : InMemory(u) => ~InVirMem(u)
  /\ \A u \in Users : InMemory(u) => key[tablets[u]] = u

\* Above a put of a row that is loaded, and above a call that waits for its
\* row, there are puts of that row only; the second half of a cput is on top.
Ordered(c) ==
  /\ \A i, j \in DOMAIN c : c[i].rq.user = c[j].rq.user
  /\ \A i, j \in DOMAIN c :
       i < j /\ (c[j].step = "loaded" \/ c[j].rq.kind = "restore") => c[i].rq.kind = "restore"
  /\ \A i \in DOMAIN c : c[i].rq.kind = "rewrite" => i = 1 /\ c[i].step = "start"

StackInOrder ==
  /\ Ordered(calls)
  /\ calls # <<>> /\ rq.kind = "rewrite" => InMemory(rq.user)

\* The put of a file of a row that is loaded, with its place in the stack.
Restoring(c, i, u, f) == c[i].rq.kind = "restore" /\ c[i].rq.user = u /\ c[i].rq.file = f

\* A file that is d long is held, or exactly one call is about to put it back.
Pending(c, u, f, held, d) ==
  \/ /\ \A i \in DOMAIN c : ~Restoring(c, i, u, f)
     /\ held = d
  \/ \E i \in DOMAIN c :
       /\ Restoring(c, i, u, f)
       /\ \A j \in DOMAIN c : Restoring(c, j, u, f) => j = i
       /\ c[i].rq.len = d
       /\ d # NoFile
       /\ held = NoFile

NothingMislaid ==
  ~crashed => \A u \in Users \ mark.lost, f \in Files :
                Pending(calls, u, f, Held(u)[f], due[u][f])

Waiting(u) == calls # <<>> /\ Head(calls).step = "loaded" /\ Head(calls).rq.user = u

\* An empty row in virtual memory has left its mark, and a call that goes on
\* finds its row in memory unless that row was empty or its files were cut off.
HollowMarked ==
  ~crashed => \A u \in Users :
    /\ virmem[u] = EmptyRow => mark.hollow
    /\ Waiting(u) => InMemory(u) \/ mark.hollow \/ mark.cut

\* Whoever lost a row to a node left behind has an empty row, and never
\* comes back into memory.
LostStayOut ==
  ~crashed /\ ~mark.drifted => \A u \in mark.lost :
    /\ mark.hollow
    /\ ~InMemory(u)
    /\ virmem[u] = EmptyRow \/ Waiting(u)

\* What cput has taken off the counts and has not put back.
Owed(u) ==
  IF calls # <<>> /\ rq.kind = "rewrite" /\ rq.user = u THEN due[u][rq.file] ELSE 0

SizeIn(u) == IF InMemory(u) THEN SizeOf(RowOf(u)) ELSE 0

CountedExactly ==
  ~crashed /\ ~mark.drifted =>
    /\ \A u \in Users : size[u] = SizeOf(due[u]) - Owed(u) /\ size[u] < Capacity
    /\ used = SumFunction([u \in Users |-> SizeIn(u) - Owed(u)])

\* A put that waits for its row was not too much for its user, and still is not.
LoadedFits ==
  ~crashed => \A i \in DOMAIN calls :
    calls[i].step = "loaded" /\ calls[i].rq.kind = "put" =>
      ~Exceeds(calls[i].rq.user, calls[i].rq.len)

\* While the counts are exact no file that is put back is too large.
RestoresFit ==
  ~crashed /\ ~mark.drifted => \A i \in DOMAIN calls :
    calls[i].rq.kind = "restore" => calls[i].rq.len <= Capacity

CutHasCause == mark.cut => mark.drifted

\* LeastRecentFirst, with the list as Linked.
InOrder ==
  ~crashed /\ ~mark.relinked =>
    /\ Linked(list, recent)
    /\ \A u \in Users : InMemory(u) => \E i \in DOMAIN recent : recent[i] = tablets[u]

IInv ==
  /\ TypeOK
  /\ OnePlace
  /\ StackInOrder
  /\ NothingMislaid
  /\ HollowMarked
  /\ LostStayOut
  /\ LoadedFits
  /\ CountedExactly
  /\ RestoresFit
  /\ CutHasCause
  /\ Once(recent)
  /\ InOrder
  /\ CrashHasCause

-----------------------------------------------------------------------------
(***************************************************************************)
(* Types.                                                                  *)
(***************************************************************************)
MarkSet == [relinked : BOOLEAN, drifted : BOOLEAN, hollow : BOOLEAN, cut : BOOLEAN,
            lost : SUBSET Users]

LEMMA TypeFacts ==
  ASSUME TypeOK
  PROVE  /\ used \in Int /\ size \in [Users -> Int]
         /\ tablets \in [Users -> 1 .. Len(key) \cup {Null}]
         /\ virmem \in [Users -> Row \cup {None}]
         /\ key \in Seq(Users)
         /\ value \in Seq(Row) /\ Len(value) = Len(key)
         /\ ListType(list, Len(key))
         /\ calls \in Seq(CallSet)
         /\ crashed \in BOOLEAN
         /\ served \in 0 .. MaxRequests
         /\ due \in [Users -> Row]
         /\ recent \in Seq(1 .. Len(key))
         /\ mark \in MarkSet
BY ListTyped DEF TypeOK, Node, CallSet, MarkSet

LEMMA TypeBack ==
  ASSUME used' \in Int /\ size' \in [Users -> Int],
         tablets' \in [Users -> 1 .. Len(key') \cup {Null}],
         virmem' \in [Users -> Row \cup {None}],
         key' \in Seq(Users),
         value' \in Seq(Row) /\ Len(value') = Len(key'),
         ListType(list', Len(key')),
         calls' \in Seq(CallSet),
         crashed' \in BOOLEAN,
         served' \in 0 .. MaxRequests,
         due' \in [Users -> Row],
         recent' \in Seq(1 .. Len(key')),
         mark' \in MarkSet
  PROVE  TypeOK'
<1> DEFINE l == list'
           N == Len(key')
<1>1. /\ l = [prev |-> l.prev, next |-> l.next]
      /\ l.prev \in [Ends(N) -> 1 .. N \cup {head, Null}]
      /\ l.next \in [Ends(N) -> 1 .. N \cup {tail, Null}]
  BY DEF ListType, PrevType, NextType
<1>2. l \in [prev : [Ends(N) -> 1 .. N \cup {head, Null}],
             next : [Ends(N) -> 1 .. N \cup {tail, Null}]]
  BY <1>1
<1>3. \A n \in Ends(N) : (l.prev[n] = Null <=> n = head) /\ (l.next[n] = Null <=> n = tail)
  BY DEF ListType, PrevType, NextType
<1> QED BY <1>2, <1>3 DEF TypeOK, Node, CallSet, MarkSet, Ends

LEMMA AtTop ==
  ASSUME TypeOK, NEW step, NEW kinds, At(step, kinds)
  PROVE  /\ calls \in Seq(CallSet) /\ calls # <<>> /\ ~crashed
         /\ Head(calls) = calls[1] /\ calls[1] \in CallSet /\ calls[1].step = step
         /\ rq = calls[1].rq /\ rq \in Request /\ rq.kind \in kinds
         /\ rq.user \in Users /\ rq.file \in Files /\ rq.to \in Files /\ rq.len \in Nat
         /\ Tail(calls) \in Seq(CallSet)
<1>1. calls \in Seq(CallSet) /\ calls # <<>>
  BY TypeFacts DEF At
<1>2. /\ Head(calls) = calls[1] /\ calls[1] \in CallSet /\ Tail(calls) \in Seq(CallSet)
      /\ Head(calls).rq \in Request
  BY <1>1, Top
<1>3. /\ rq.user \in Users /\ rq.file \in Files /\ rq.to \in Files /\ rq.len \in Nat
  BY <1>2 DEF Request, rq
<1> QED BY <1>1, <1>2, <1>3 DEF At, rq

LEMMA RowFacts ==
  /\ EmptyRow \in Row
  /\ None \notin Row
  /\ \A row \in Row, f \in Files, n \in Nat : [row EXCEPT ![f] = n] \in Row
  /\ \A row \in Row, f \in Files : row[f] \in Nat
  /\ IsFiniteSet(Files) /\ 1 \in Files /\ NoFile \in Nat
<1>1. NumFiles \in Nat \ {0}
  BY SizesAssumption
<1>2. EmptyRow \in Row /\ NoFile \in Nat
  BY DEF EmptyRow, Row, NoFile
<1>3. IsFiniteSet(Files) /\ 1 \in Files
  BY <1>1, FS_Interval DEF Files
<1>4. None \notin Row
  <2>1. DOMAIN None = {}
    BY DEF None
  <2>2. \A row \in Row : DOMAIN row = Files
    BY DEF Row
  <2> QED BY <1>3, <2>1, <2>2
<1>5. /\ \A row \in Row, f \in Files, n \in Nat : [row EXCEPT ![f] = n] \in Row
      /\ \A row \in Row, f \in Files : row[f] \in Nat
  BY DEF Row
<1> QED BY <1>2, <1>3, <1>4, <1>5

LEMMA SizeNat ==
  ASSUME NEW row \in Row
  PROVE  SizeOf(row) \in Nat /\ \A f \in Files : row[f] <= SizeOf(row)
BY SumNat, RowFacts DEF Row, SizeOf

LEMMA SizeEmpty == SizeOf(EmptyRow) = 0
BY SumZero, RowFacts DEF EmptyRow, NoFile, SizeOf

LEMMA SizeChange ==
  ASSUME NEW row \in Row, NEW f \in Files, NEW n \in Nat
  PROVE  SizeOf([row EXCEPT ![f] = n]) = SizeOf(row) - row[f] + n
<1> DEFINE new == [row EXCEPT ![f] = n]
<1>1. row \in [Files -> Int] /\ new \in [Files -> Int]
  BY DEF Row
<1>2. new[f] = n /\ \A g \in Files : g # f => new[g] = row[g]
  BY DEF Row
<1> HIDE DEF new
<1>3. SumFunction(new) = SumFunction(row) - row[f] + new[f]
  BY <1>1, <1>2, RowFacts, SumChange
<1> QED BY <1>2, <1>3 DEF SizeOf, new

\* The row of a user in memory.
LEMMA RowInMemory ==
  ASSUME TypeOK, NEW u \in Users, InMemory(u)
  PROVE  tablets[u] \in 1 .. Len(key) /\ RowOf(u) \in Row
<1>1. tablets[u] \in 1 .. Len(key)
  BY TypeFacts DEF InMemory
<1> QED BY <1>1, TypeFacts DEF RowOf

\* What arrives is a request of a client.
LEMMA Arrives ==
  ASSUME Receive
  PROVE  \E r \in Request : /\ Arrive(r)
                            /\ r.kind \in {"put", "get", "cput", "dele", "rename", "list"}
                            /\ r.kind = "put" => r.len \in Lengths
<1> DEFINE Good(r) == /\ r \in Request
                      /\ r.kind \in {"put", "get", "cput", "dele", "rename", "list"}
                      /\ r.kind = "put" => r.len \in Lengths
<1>1. PICK u \in Users, f \in Files :
        \/ \E len \in Lengths : Arrive([Call("put", u, f) EXCEPT !.len = len])
        \/ Arrive(Call("get", u, f))
        \/ \E len \in Lengths : Arrive([Call("cput", u, f) EXCEPT !.len = len, !.match = TRUE])
        \/ Arrive(Call("cput", u, f))
        \/ Arrive(Call("dele", u, f))
        \/ \E to \in Files \ {f} : Arrive([Call("rename", u, f) EXCEPT !.to = to])
        \/ f = 1 /\ Arrive(Call("list", u, f))
  BY DEF Receive
<1>2. \A len \in Lengths : len \in Nat
  BY SizesAssumption, CapacityAssumption
<1>3. \A len \in Lengths : Good([Call("put", u, f) EXCEPT !.len = len])
  BY <1>2, CallType DEF Call
<1>4. \A len \in Lengths : Good([Call("cput", u, f) EXCEPT !.len = len, !.match = TRUE])
  BY <1>2, CallType DEF Call
<1>5. \A to \in Files \ {f} : Good([Call("rename", u, f) EXCEPT !.to = to])
  BY CallType DEF Call
<1>6. Good(Call("get", u, f)) /\ Good(Call("cput", u, f)) /\ Good(Call("dele", u, f))
      /\ Good(Call("list", u, f))
  <2>1. 0 \in Nat
    OBVIOUS
  <2> QED BY <2>1, CallType DEF Call
<1> HIDE DEF Good
<1>7. \E r : Good(r) /\ Arrive(r)
  BY <1>1, <1>3, <1>4, <1>5, <1>6
<1> QED BY <1>7 DEF Good

\* The stack after load_user_from_disk: the files of the row on top.
LEMMA LoadCalls ==
  ASSUME TypeOK, NEW step, NEW kinds, At(step, kinds), InVirMem(rq.user), Load
  PROVE  LET R == Restores(rq.user)
             k == Len(R)
         IN  /\ virmem[rq.user] \in Row
             /\ R \in Seq(CallSet) /\ calls' \in Seq(CallSet)
             /\ Len(calls') = k + Len(calls)
             /\ \A i \in 1 .. k : calls'[i] = R[i]
             /\ calls'[k + 1].step = "loaded" /\ calls'[k + 1].rq = rq
             /\ \A i \in 2 .. Len(calls) : calls'[k + i] = calls[i]
<1> DEFINE R == Restores(rq.user)
           h == [Head(calls) EXCEPT !.step = "loaded"]
           T == Tail(calls)
           k == Len(R)
           n == Len(calls)
<1>1. /\ calls \in Seq(CallSet) /\ calls # <<>> /\ Head(calls) \in CallSet
      /\ rq = Head(calls).rq /\ rq.user \in Users
  BY AtTop DEF rq
<1>2. virmem[rq.user] \in Row
  BY <1>1, TypeFacts DEF InVirMem
<1>3. R \in Seq(CallSet)
  BY <1>1, <1>2, RestoresOfRow
<1>4. h \in CallSet /\ h.step = "loaded" /\ h.rq = rq
  BY <1>1 DEF CallSet
<1>5. /\ T \in Seq(CallSet) /\ Len(T) = n - 1 /\ n \in Nat
      /\ \A i \in 1 .. n - 1 : T[i] = calls[i + 1]
  BY <1>1
<1>6. calls' = R \o <<h>> \o T
  BY DEF Load
<1> HIDE DEF R, h, T
<1>7. /\ calls' \in Seq(CallSet)
      /\ Len(calls') = k + 1 + Len(T)
      /\ \A i \in 1 .. k : calls'[i] = R[i]
      /\ calls'[k + 1] = h
      /\ \A i \in 1 .. Len(T) : calls'[k + 1 + i] = T[i]
  <2> DEFINE Joined(c, a, x, b) ==
        /\ c \in Seq(CallSet)
        /\ Len(c) = Len(a) + 1 + Len(b)
        /\ \A i \in 1 .. Len(a) : c[i] = a[i]
        /\ c[Len(a) + 1] = x
        /\ \A i \in 1 .. Len(b) : c[Len(a) + 1 + i] = b[i]
  <2>1. \A a \in Seq(CallSet), x \in CallSet, b \in Seq(CallSet) :
          Joined(a \o <<x>> \o b, a, x, b)
    BY Concat3
  <2>2. R \in Seq(CallSet) /\ h \in CallSet /\ T \in Seq(CallSet)
    BY <1>3, <1>4, <1>5
  <2> HIDE DEF Joined
  <2>3. Joined(R \o <<h>> \o T, R, h, T)
    BY <2>1, <2>2
  <2>4. Joined(calls', R, h, T)
    BY <1>6, <2>3
  <2> QED BY <2>4 DEF Joined
<1>8. k \in Nat
  BY <1>3
<1> HIDE DEF k, n
<1>9. \A i \in 2 .. n : calls'[k + i] = calls[i]
  <2> SUFFICES ASSUME NEW i \in 2 .. n PROVE calls'[k + i] = calls[i]
    OBVIOUS
  <2>1. i - 1 \in 1 .. n - 1 /\ (i - 1) + 1 = i /\ k + 1 + (i - 1) = k + i
    BY <1>5, <1>8
  <2> QED BY <1>5, <1>7, <2>1
<1>10. Len(calls') = k + n
  BY <1>5, <1>7, <1>8
<1> QED BY <1>2, <1>3, <1>4, <1>7, <1>9, <1>10 DEF R, k, n

\* The stack after a list request: a get of each file.
LEMMA ListCalls ==
  ASSUME TypeOK, ListFiles
  PROVE  \E L \in Seq(CallSet) :
           /\ calls' = L \o Tail(calls)
           /\ \A i \in DOMAIN L : /\ L[i].step = "start" /\ L[i].rq.kind = "get"
                                  /\ L[i].rq.user = rq.user
<1>1. rq.user \in Users
  BY AtTop DEF ListFiles
<1>2. CASE ~InMemory(rq.user)
  <2>1. calls' = <<>> \o Tail(calls)
    BY <1>2 DEF ListFiles
  <2> DEFINE L == <<>>
  <2>2. L \in Seq(CallSet) /\ DOMAIN L = {}
    OBVIOUS
  <2> HIDE DEF L
  <2>3. \A i \in DOMAIN L : L[i].step = "start" /\ L[i].rq.kind = "get" /\ L[i].rq.user = rq.user
    BY <2>2
  <2>4. calls' = L \o Tail(calls)
    BY <2>1 DEF L
  <2> QED BY <2>2, <2>3, <2>4
<1>3. CASE InMemory(rq.user)
  <2> DEFINE names == FilesOf(RowOf(rq.user))
             L == [i \in DOMAIN names |->
                     [step |-> "start", rq |-> Call("get", rq.user, names[i])]]
  <2>1. RowOf(rq.user) \in Row
    BY <1>1, <1>3, RowInMemory
  <2>2. names \in Seq(Files)
    BY <2>1, FilesOfRow
  <2>3. calls' = L \o Tail(calls)
    BY <1>3 DEF ListFiles
  <2> HIDE DEF names
  <2>4. \A i \in DOMAIN names : names[i] \in Files
    BY <2>2
  <2>5. ASSUME NEW i \in DOMAIN names
        PROVE /\ [step |-> "start", rq |-> Call("get", rq.user, names[i])] \in CallSet
              /\ Call("get", rq.user, names[i]).kind = "get"
              /\ Call("get", rq.user, names[i]).user = rq.user
    <3>1. 0 \in Nat
      OBVIOUS
    <3>2. Call("get", rq.user, names[i]) \in Request
      BY <1>1, <2>4, <3>1, CallType
    <3> QED BY <3>2 DEF CallSet, Call
  <2>6. DOMAIN names = 1 .. Len(names) /\ Len(names) \in Nat
    BY <2>2
  <2>7. L \in Seq(CallSet)
    BY <2>5, <2>6
  <2>8. DOMAIN L = DOMAIN names
    OBVIOUS
  <2>9. \A i \in DOMAIN names : L[i] = [step |-> "start", rq |-> Call("get", rq.user, names[i])]
    OBVIOUS
  <2> HIDE DEF L
  <2>10. \A i \in DOMAIN L : /\ L[i].step = "start" /\ L[i].rq.kind = "get"
                             /\ L[i].rq.user = rq.user
    BY <2>5, <2>8, <2>9
  <2> QED BY <2>3, <2>7, <2>10
<1> QED BY <1>2, <1>3

LEMMA MarkFields ==
  ASSUME NEW m \in MarkSet, NEW b \in BOOLEAN, NEW c \in BOOLEAN, NEW S \in SUBSET Users
  PROVE  /\ [m EXCEPT !.drifted = b] \in MarkSet
         /\ [m EXCEPT !.relinked = b] \in MarkSet
         /\ [m EXCEPT !.cut = b] \in MarkSet
         /\ [m EXCEPT !.hollow = b, !.drifted = c, !.lost = S] \in MarkSet
         /\ m.drifted \in BOOLEAN /\ m.hollow \in BOOLEAN /\ m.lost \in SUBSET Users
         /\ m.relinked \in BOOLEAN /\ m.cut \in BOOLEAN
BY DEF MarkSet

\* Every element of s is one of o.
Within(s, o) == \A j \in DOMAIN s : \E i \in DOMAIN o : o[i] = s[j]

\* The node goes last in the order of use.
LEMMA UsedLast ==
  ASSUME NEW X, NEW s \in Seq(X), Once(s), NEW n \in X
  PROVE  LET t == Append(RemoveFirst(s, n), n)
         IN  t \in Seq(X) /\ Once(t) /\ Within(s, t)
<1> DEFINE r == RemoveFirst(s, n)
           t == Append(r, n)
<1>1. r \in Seq(X) /\ Once(r) /\ \A i \in DOMAIN r : r[i] # n
  BY Removal
<1>2. \A j \in DOMAIN s : s[j] # n => \E i \in DOMAIN r : r[i] = s[j]
  BY Removal
<1> HIDE DEF r
<1>3. t = Append(r, n)
  OBVIOUS
<1> HIDE DEF t
<1>4. t \in Seq(X) /\ Once(t)
  BY <1>1, <1>3, AppendOnce
<1>5. \A i \in DOMAIN r : \E j \in DOMAIN t : t[j] = r[i]
  BY <1>1, <1>3, AppendOnce
<1>6. \E j \in DOMAIN t : t[j] = n
  BY <1>1, <1>3, AppendOnce
<1>7. ASSUME NEW j \in DOMAIN s PROVE \E i \in DOMAIN t : t[i] = s[j]
  BY <1>2, <1>5, <1>6, Zenon
<1> QED BY <1>4, <1>7 DEF r, t, Within

LEMMA CountTyped ==
  ASSUME TypeOK, NEW step, NEW kinds, At(step, kinds), Count,
         rq.kind \in {"put", "restore", "rewrite"}
  PROVE  used' \in Int /\ size' \in [Users -> Int] /\ due' \in [Users -> Row]
<1>1. rq.user \in Users /\ rq.file \in Files /\ rq.len \in Nat
  BY AtTop
<1>2. used \in Int /\ size \in [Users -> Int] /\ due \in [Users -> Row]
  BY TypeFacts
<1>3. used' \in Int /\ size' \in [Users -> Int]
  BY <1>1, <1>2 DEF Count
<1>4. due[rq.user] \in Row /\ due[rq.user][rq.file] \in Nat
  BY <1>1, <1>2, RowFacts
<1>5. \A n \in Nat : [due EXCEPT ![rq.user][rq.file] = n] \in [Users -> Row]
  <2> SUFFICES ASSUME NEW n \in Nat PROVE [due EXCEPT ![rq.user][rq.file] = n] \in [Users -> Row]
    OBVIOUS
  <2>1. [due[rq.user] EXCEPT ![rq.file] = n] \in Row
    BY <1>1, <1>4, RowFacts
  <2> QED BY <1>1, <1>2, <2>1
<1>6. due[rq.user][rq.file] + rq.len \in Nat
  BY <1>1, <1>4
<1>7. \/ rq.kind = "put" /\ due' = [due EXCEPT ![rq.user][rq.file] =
                                       due[rq.user][rq.file] + rq.len]
      \/ rq.kind = "rewrite" /\ due' = [due EXCEPT ![rq.user][rq.file] = rq.len]
      \/ rq.kind = "restore" /\ due' = due
  BY DEF Count
<1> QED BY <1>1, <1>2, <1>3, <1>5, <1>6, <1>7

LEMMA StoreTyped ==
  ASSUME TypeOK, Once(recent), NEW step, NEW kinds, At(step, kinds),
         rq.kind \in {"put", "restore", "rewrite"}, InMemory(rq.user), StoreInRow
  PROVE  TypeOK' /\ Once(recent')
<1> DEFINE n == tablets[rq.user]
<1>1. rq.user \in Users /\ rq.file \in Files /\ rq.len \in Nat /\ Tail(calls) \in Seq(CallSet)
  BY AtTop
<1>2. n \in 1 .. Len(key) /\ RowOf(rq.user) \in Row
  BY <1>1, RowInMemory
<1>3. Stored \in Nat
  BY <1>1, <1>2, RowFacts DEF Stored
<1>4. value' = [value EXCEPT ![n] = [value[n] EXCEPT ![rq.file] = Stored]]
  BY DEF StoreInRow
<1>5. /\ key' = key /\ tablets' = tablets /\ virmem' = virmem
      /\ crashed' = crashed /\ served' = served
      /\ list' = MoveToTail(list, n) /\ recent' = Append(RemoveFirst(recent, n), n)
      /\ calls' = Tail(calls) /\ mark' = [mark EXCEPT !.relinked = TRUE]
  BY DEF StoreInRow, Return
<1>6. used' \in Int /\ size' \in [Users -> Int] /\ due' \in [Users -> Row]
  BY CountTyped DEF StoreInRow
<1>7. value \in Seq(Row) /\ Len(value) = Len(key) /\ Len(key) \in Nat
  BY TypeFacts, ListTyped
<1> HIDE DEF n
<1>8. value' \in Seq(Row) /\ Len(value') = Len(key')
  <2>1. [value[n] EXCEPT ![rq.file] = Stored] \in Row
    BY <1>1, <1>2, <1>3, <1>7, RowFacts
  <2> DEFINE row == [value[n] EXCEPT ![rq.file] = Stored]
  <2> HIDE DEF row
  <2>2. [value EXCEPT ![n] = row] \in Seq(Row) /\ Len([value EXCEPT ![n] = row]) = Len(value)
    BY <1>2, <1>7, <2>1 DEF row
  <2> QED BY <1>4, <1>5, <1>7, <2>2 DEF row
<1>9. ListType(list', Len(key'))
  BY <1>2, <1>5, <1>7, TypeFacts, MoveTyped
<1>10. recent' \in Seq(1 .. Len(key')) /\ Once(recent')
  BY <1>2, <1>5, <1>7, TypeFacts, UsedLast
<1>11. mark' \in MarkSet
  BY <1>5, TypeFacts, MarkFields
<1>12. tablets' \in [Users -> 1 .. Len(key') \cup {Null}] /\ virmem' \in [Users -> Row \cup {None}]
       /\ key' \in Seq(Users) /\ calls' \in Seq(CallSet) /\ crashed' \in BOOLEAN
       /\ served' \in 0 .. MaxRequests
  BY <1>1, <1>5, TypeFacts
<1> QED BY <1>6, <1>8, <1>9, <1>10, <1>11, <1>12, TypeBack

LEMMA AccessTyped ==
  ASSUME TypeOK, Once(recent), NEW step, NEW kinds, At(step, kinds), InMemory(rq.user), Access
  PROVE  TypeOK' /\ Once(recent')
<1> DEFINE n == tablets[rq.user]
           row == value[n]
<1>1. /\ rq.user \in Users /\ rq.file \in Files /\ rq.to \in Files
      /\ Tail(calls) \in Seq(CallSet) /\ rq \in Request
  BY AtTop
<1>2. n \in 1 .. Len(key) /\ row \in Row
  BY <1>1, RowInMemory DEF RowOf
<1>3. /\ list' = MoveToTail(Unlink(list, n), n) /\ recent' = Append(RemoveFirst(recent, n), n)
      /\ virmem' = virmem /\ key' = key /\ crashed' = crashed /\ served' = served
  BY DEF Access, Touch
<1>4. value \in Seq(Row) /\ Len(value) = Len(key) /\ Len(key) \in Nat
  BY TypeFacts, ListTyped
<1>5. \A new \in Row : [value EXCEPT ![n] = new] \in Seq(Row)
                       /\ Len([value EXCEPT ![n] = new]) = Len(key)
  <2> HIDE DEF n
  <2> QED BY <1>2, <1>4
<1>6. row[rq.file] \in Nat /\ row[rq.to] \in Nat
  BY <1>1, <1>2, RowFacts
<1>7. /\ used \in Int /\ size \in [Users -> Int] /\ due \in [Users -> Row]
      /\ tablets \in [Users -> 1 .. Len(key) \cup {Null}] /\ mark \in MarkSet
  BY TypeFacts
<1>8. \A new \in Row : [due EXCEPT ![rq.user] = new] \in [Users -> Row]
  BY <1>1, <1>7
<1>9. due[rq.user] \in Row
  BY <1>1, <1>7
<1>10. \A r \in Row : /\ [r EXCEPT ![rq.file] = NoFile] \in Row
                      /\ Moved(r) \in Row
  <2> SUFFICES ASSUME NEW r \in Row
               PROVE  [r EXCEPT ![rq.file] = NoFile] \in Row /\ Moved(r) \in Row
    OBVIOUS
  <2> DEFINE o == [r EXCEPT ![rq.file] = NoFile]
  <2>1. o \in Row /\ r[rq.file] \in Nat
    BY <1>1, RowFacts
  <2> HIDE DEF o
  <2>2. [o EXCEPT ![rq.to] = r[rq.file]] \in Row
    BY <1>1, <2>1, RowFacts
  <2> QED BY <2>1, <2>2 DEF Moved, o
<1>11. /\ used' \in Int /\ size' \in [Users -> Int] /\ due' \in [Users -> Row]
       /\ tablets' \in [Users -> 1 .. Len(key) \cup {Null}] /\ mark' \in MarkSet
       /\ value' \in Seq(Row) /\ Len(value') = Len(key)
       /\ calls' \in Seq(CallSet)
  <2>1. CASE Return /\ Untouched
    <3>1. /\ used' = used /\ size' = size /\ tablets' = tablets /\ value' = value
          /\ due' = due /\ mark' = mark /\ calls' = Tail(calls)
      BY <2>1 DEF Return, Untouched, memory
    <3> QED BY <1>1, <1>4, <1>7, <3>1
  <2>2. CASE /\ rq.match /\ Uncount(row[rq.file])
             /\ calls' = <<[step |-> "start", rq |-> [rq EXCEPT !.kind = "rewrite"]]>>
                           \o Tail(calls)
             /\ UNCHANGED <<tablets, value, due, mark>>
    <3>1. [step |-> "start", rq |-> [rq EXCEPT !.kind = "rewrite"]] \in CallSet
      BY <1>1 DEF CallSet, Request
    <3>2. calls' \in Seq(CallSet)
      BY <1>1, <2>2, <3>1
    <3>3. used' = used - row[rq.file] /\ size' = [size EXCEPT ![rq.user] = @ - row[rq.file]]
      BY <2>2 DEF Uncount
    <3> HIDE DEF row
    <3>4. used' \in Int /\ size' \in [Users -> Int]
      BY <1>1, <1>6, <1>7, <3>3
    <3>5. tablets' = tablets /\ value' = value /\ due' = due /\ mark' = mark
      BY <2>2
    <3> QED BY <1>4, <1>7, <3>2, <3>4, <3>5
  <2>3. CASE Erase(n)
    <3> DEFINE left == [row EXCEPT ![rq.file] = NoFile]
    <3>1. /\ used' = used - row[rq.file] /\ size' = [size EXCEPT ![rq.user] = @ - row[rq.file]]
          /\ value' = [value EXCEPT ![n] = left]
          /\ tablets' = IF left = EmptyRow THEN [tablets EXCEPT ![rq.user] = Null] ELSE tablets
          /\ due' = [due EXCEPT ![rq.user][rq.file] = NoFile]
          /\ calls' = Tail(calls) /\ mark' = mark
      BY <2>3 DEF Erase, Uncount, Return
    <3>2. left \in Row
      BY <1>2, <1>10
    <3>3. value' \in Seq(Row) /\ Len(value') = Len(key)
      BY <1>5, <3>1, <3>2
    <3> HIDE DEF row, left
    <3>4. used' \in Int /\ size' \in [Users -> Int]
      BY <1>1, <1>6, <1>7, <3>1
    <3>5. tablets' \in [Users -> 1 .. Len(key) \cup {Null}]
      BY <1>7, <3>1
    <3>6. due' \in [Users -> Row]
      <4>1. [due[rq.user] EXCEPT ![rq.file] = NoFile] \in Row
        BY <1>9, <1>10
      <4> QED BY <1>8, <3>1, <4>1
    <3> QED BY <1>1, <1>7, <3>1, <3>3, <3>4, <3>5, <3>6
  <2>4. CASE Rename(n)
    <3>1. /\ value' = [value EXCEPT ![n] = Moved(row)]
          /\ due' = [due EXCEPT ![rq.user] = Moved(due[rq.user])]
          /\ mark' = [mark EXCEPT !.drifted = mark.drifted \/ row[rq.to] # NoFile]
          /\ calls' = Tail(calls)
          /\ used' = used /\ size' = size /\ tablets' = tablets
      BY <2>4 DEF Rename, Return, memory
    <3>2. value' \in Seq(Row) /\ Len(value') = Len(key)
      BY <1>2, <1>5, <1>10, <3>1
    <3>3. due' \in [Users -> Row]
      BY <1>8, <1>9, <1>10, <3>1
    <3>4. mark' \in MarkSet
      <4>1. (mark.drifted \/ row[rq.to] # NoFile) \in BOOLEAN
        OBVIOUS
      <4> QED BY <1>7, <3>1, <4>1, MarkFields
    <3> QED BY <1>1, <1>7, <3>1, <3>2, <3>3, <3>4
  <2>5. \/ Return /\ Untouched
        \/ /\ rq.match /\ Uncount(row[rq.file])
           /\ calls' = <<[step |-> "start", rq |-> [rq EXCEPT !.kind = "rewrite"]]>> \o Tail(calls)
           /\ UNCHANGED <<tablets, value, due, mark>>
        \/ Erase(n)
        \/ Rename(n)
    BY DEF Access, Compare
  <2> QED BY <2>1, <2>2, <2>3, <2>4, <2>5
<1> HIDE DEF n, row
<1>12. ListType(list', Len(key'))
  <2>1. ListType(Unlink(list, n), Len(key))
    BY <1>2, <1>4, TypeFacts, UnlinkTyped
  <2> QED BY <1>2, <1>3, <1>4, <2>1, MoveTyped
<1>13. recent' \in Seq(1 .. Len(key')) /\ Once(recent')
  BY <1>2, <1>3, TypeFacts, UsedLast
<1>14. key' \in Seq(Users) /\ virmem' \in [Users -> Row \cup {None}]
       /\ crashed' \in BOOLEAN /\ served' \in 0 .. MaxRequests
  BY <1>3, TypeFacts
<1> QED BY <1>3, <1>11, <1>12, <1>13, <1>14, TypeBack

\* Steps that leave the memory as it is.
LEMMA SameTyped ==
  ASSUME TypeOK, UNCHANGED <<used, size, tablets, key, value, list, due, recent>>,
         virmem' \in [Users -> Row \cup {None}], calls' \in Seq(CallSet), crashed' \in BOOLEAN,
         served' \in 0 .. MaxRequests, mark' \in MarkSet
  PROVE  TypeOK'
BY TypeFacts, TypeBack

LEMMA TooLargeTyped ==
  ASSUME TypeOK, PutTooLarge
  PROVE  TypeOK' /\ recent' = recent
<1>1. /\ calls' \in Seq(CallSet) /\ rq.user \in Users /\ rq.file \in Files
  BY AtTop DEF PutTooLarge, Return
<1>2. /\ UNCHANGED <<used, size, tablets, key, value, list, recent, virmem, crashed, served>>
      /\ due' = [due EXCEPT ![rq.user][rq.file] = NoFile] \/ due' = due
      /\ mark' = [mark EXCEPT !.cut = TRUE] \/ mark' = mark
  BY DEF PutTooLarge, cache, memory, heap
<1>3. [due EXCEPT ![rq.user][rq.file] = NoFile] \in [Users -> Row]
  BY <1>1, TypeFacts DEF Row, NoFile
<1>4. due' \in [Users -> Row]
  BY <1>2, <1>3, TypeFacts
<1>5. [mark EXCEPT !.cut = TRUE] \in MarkSet
  BY TypeFacts, MarkFields
<1>6. mark' \in MarkSet
  BY <1>2, <1>5, TypeFacts
<1> QED BY <1>1, <1>2, <1>4, <1>6, TypeFacts, TypeBack

LEMMA SegfaultTyped ==
  ASSUME TypeOK, Segfault
  PROVE  TypeOK' /\ recent' = recent
<1>1. calls' \in Seq(CallSet) /\ crashed' \in BOOLEAN
  BY DEF Segfault
<1>2. UNCHANGED <<used, size, tablets, key, value, list, due, recent, virmem, served, mark>>
  BY DEF Segfault, cache, memory, heap, story
<1> QED BY <1>1, <1>2, TypeFacts, SameTyped

LEMMA LoadTyped ==
  ASSUME TypeOK, NEW step, NEW kinds, At(step, kinds), InVirMem(rq.user), Load
  PROVE  TypeOK' /\ recent' = recent
<1>1. calls' \in Seq(CallSet)
  BY LoadCalls
<1>2. rq.user \in Users /\ virmem' = [virmem EXCEPT ![rq.user] = None]
  BY AtTop DEF Load
<1>3. virmem' \in [Users -> Row \cup {None}]
  BY <1>2, TypeFacts
<1>4. UNCHANGED <<used, size, tablets, key, value, list, due, recent, crashed, served, mark>>
  BY DEF Load, memory, heap, story
<1> QED BY <1>1, <1>3, <1>4, TypeFacts, SameTyped

\* use_virtual_memory makes the second node the first.
LEMMA FirstOutTyped ==
  ASSUME NEW N \in Nat, NEW l, ListType(l, N), l.next[head] # tail
  PROVE  /\ l.next[head] \in 1 .. N
         /\ ListType([prev |-> [l.prev EXCEPT ![l.next[l.next[head]]] = head],
                      next |-> [l.next EXCEPT ![head] = l.next[l.next[head]]]], N)
<1> DEFINE n == l.next[head]
           x == l.next[n]
           p == [l.prev EXCEPT ![x] = head]
           y == [l.next EXCEPT ![head] = x]
<1>1. /\ head \in Ends(N) /\ tail # head /\ head # Null
      /\ 1 .. N \subseteq Ends(N) /\ tail \in Ends(N) /\ tail \notin 1 .. N /\ head \notin 1 .. N
  BY DEF Ends, head, tail, Null
<1>2. n \in 1 .. N
  BY <1>1 DEF ListType, NextType
<1>3. x \in 1 .. N \cup {tail} /\ x # Null /\ x # head /\ x \in Ends(N)
  BY <1>1, <1>2 DEF ListType, NextType
<1> HIDE DEF n, x
<1>4. PrevType(p, N)
  BY <1>1, <1>3 DEF ListType, PrevType
<1>5. NextType(y, N)
  BY <1>1, <1>3 DEF ListType, NextType
<1> DEFINE m == [prev |-> p, next |-> y]
<1>6. m.prev = p /\ m.next = y /\ m = [prev |-> p, next |-> y]
  OBVIOUS
<1> HIDE DEF m, p, y
<1>7. ListType(m, N)
  BY <1>4, <1>5, <1>6 DEF ListType
<1> QED BY <1>2, <1>7 DEF n, x, p, y, m

LEMMA EvictTyped ==
  ASSUME TypeOK, Once(recent), Evict
  PROVE  TypeOK' /\ Once(recent')
<1> DEFINE n == list.next[head]
           u == key[n]
<1>1. Len(key) \in Nat /\ ListType(list, Len(key))
  BY ListTyped
<1>2. n # tail
  BY DEF Evict
<1>3. n \in 1 .. Len(key)
  BY <1>1, <1>2, FirstOutTyped
<1>4. list' = [prev |-> [list.prev EXCEPT ![list.next[n]] = head],
               next |-> [list.next EXCEPT ![head] = list.next[n]]]
  BY DEF Evict
<1>5. ListType(list', Len(key))
  BY <1>1, <1>2, <1>4, FirstOutTyped
<1>6. /\ virmem' = [virmem EXCEPT ![u] = value[n]]
      /\ tablets' = [tablets EXCEPT ![u] = Null]
      /\ used' = used - SizeOf(value[n])
      /\ recent' = RemoveFirst(recent, n)
      /\ mark' = [mark EXCEPT
           !.hollow = mark.hollow \/ value[n] = EmptyRow,
           !.drifted = mark.drifted \/ (tablets[u] # n /\ (InMemory(u) \/ value[n] # EmptyRow)),
           !.lost = IF tablets[u] = n THEN mark.lost ELSE mark.lost \cup {u}]
      /\ UNCHANGED <<size, key, value, calls, crashed, served, due>>
  BY DEF Evict
<1> HIDE DEF n
<1>7. /\ used \in Int /\ virmem \in [Users -> Row \cup {None}]
      /\ tablets \in [Users -> 1 .. Len(key) \cup {Null}]
      /\ key \in Seq(Users) /\ value \in Seq(Row) /\ Len(value) = Len(key)
      /\ recent \in Seq(1 .. Len(key)) /\ mark \in MarkSet
  BY TypeFacts
<1>8. u \in Users /\ value[n] \in Row
  BY <1>1, <1>3, <1>7
<1> HIDE DEF u
<1>9. SizeOf(value[n]) \in Nat
  BY <1>8, SizeNat
<1>10. used' \in Int
  BY <1>6, <1>7, <1>9
<1>11. virmem' \in [Users -> Row \cup {None}] /\ tablets' \in [Users -> 1 .. Len(key) \cup {Null}]
  BY <1>6, <1>7, <1>8
<1>12. recent' \in Seq(1 .. Len(key)) /\ Once(recent')
  BY <1>3, <1>6, <1>7, Removal
<1>13. mark' \in MarkSet
  <2> DEFINE S == IF tablets[u] = n THEN mark.lost ELSE mark.lost \cup {u}
             b == mark.hollow \/ value[n] = EmptyRow
             c == mark.drifted \/ (tablets[u] # n /\ (InMemory(u) \/ value[n] # EmptyRow))
  <2>1. S \in SUBSET Users
    BY <1>7, <1>8, MarkFields
  <2>2. b \in BOOLEAN /\ c \in BOOLEAN
    OBVIOUS
  <2>3. mark' = [mark EXCEPT !.hollow = b, !.drifted = c, !.lost = S]
    BY <1>6
  <2> HIDE DEF S, b, c
  <2> QED BY <1>7, <2>1, <2>2, <2>3, MarkFields
<1>14. /\ size' \in [Users -> Int] /\ key' = key /\ value' = value
       /\ calls' \in Seq(CallSet) /\ crashed' \in BOOLEAN
       /\ served' \in 0 .. MaxRequests /\ due' \in [Users -> Row]
  BY <1>6, TypeFacts
<1> QED BY <1>5, <1>7, <1>10, <1>11, <1>12, <1>13, <1>14, TypeBack

LEMMA PutNewTyped ==
  ASSUME TypeOK, Once(recent), PutNew
  PROVE  TypeOK' /\ Once(recent')
<1> DEFINE N == Len(key)
           row == [EmptyRow EXCEPT ![rq.file] = rq.len]
<1>1. At("start", Puts)
  BY DEF PutNew
<1>2. /\ rq.user \in Users /\ rq.file \in Files /\ rq.len \in Nat /\ rq.kind \in Puts
      /\ Tail(calls) \in Seq(CallSet)
  BY <1>1, AtTop
<1>3. /\ key' = Append(key, rq.user) /\ value' = Append(value, row)
      /\ tablets' = [tablets EXCEPT ![rq.user] = N + 1]
      /\ list' = MoveToTail(WithNode(list, N + 1), N + 1)
      /\ recent' = Append(recent, N + 1)
      /\ Count /\ calls' = Tail(calls)
      /\ UNCHANGED <<virmem, crashed, served, mark>>
  BY DEF PutNew, Return
<1>4. /\ key \in Seq(Users) /\ value \in Seq(Row) /\ Len(value) = N /\ N \in Nat
      /\ tablets \in [Users -> 1 .. N \cup {Null}] /\ recent \in Seq(1 .. N)
      /\ ListType(list, N)
  BY TypeFacts, ListTyped
<1>5. row \in Row
  BY <1>2, RowFacts
<1> HIDE DEF row
<1>6. used' \in Int /\ size' \in [Users -> Int] /\ due' \in [Users -> Row]
  BY <1>1, <1>2, <1>3, CountTyped DEF Puts
<1>7. /\ key' \in Seq(Users) /\ Len(key') = N + 1
      /\ value' \in Seq(Row) /\ Len(value') = N + 1
  <2>1. key' \in Seq(Users) /\ Len(key') = Len(key) + 1
    BY <1>2, <1>3, <1>4
  <2>2. value' \in Seq(Row) /\ Len(value') = Len(value) + 1
    BY <1>3, <1>4, <1>5
  <2> QED BY <1>4, <2>1, <2>2
<1>8. ListType(list', N + 1)
  BY <1>3, <1>4, NewTyped
<1> HIDE DEF N
<1>9. 1 .. N \subseteq 1 .. N + 1 /\ N + 1 \in 1 .. N + 1 /\ N + 1 \notin 1 .. N
  BY <1>4
<1>10. tablets' \in [Users -> 1 .. N + 1 \cup {Null}]
  BY <1>2, <1>3, <1>4, <1>9
<1>11. recent' \in Seq(1 .. N + 1) /\ Once(recent')
  <2>1. recent \in Seq(1 .. N + 1)
    BY <1>4, <1>9
  <2>2. \A i \in DOMAIN recent : recent[i] # N + 1
    BY <1>4, <1>9
  <2>3. recent' \in Seq(1 .. N + 1)
    BY <1>3, <1>9, <2>1
  <2>4. Once(recent')
    BY <1>3, <1>9, <2>1, <2>2, AppendOnce
  <2> QED BY <2>3, <2>4
<1>12. /\ virmem' \in [Users -> Row \cup {None}] /\ calls' \in Seq(CallSet)
       /\ crashed' \in BOOLEAN /\ served' \in 0 .. MaxRequests /\ mark' \in MarkSet
  BY <1>2, <1>3, TypeFacts
<1> QED BY <1>6, <1>7, <1>8, <1>10, <1>11, <1>12, TypeBack

LEMMA TypesKept ==
  ASSUME TypeOK, Once(recent), [Next]_vars
  PROVE  TypeOK' /\ Once(recent')
<1>1. CASE UNCHANGED vars
  <2>1. UNCHANGED <<used, size, tablets, key, value, list, due, recent, virmem, calls, crashed,
                    served, mark>>
    BY <1>1 DEF vars, cache, memory, heap, story
  <2> QED BY <2>1, TypeFacts, SameTyped
<1>2. CASE Receive
  <2>1. PICK r \in Request : Arrive(r)
    BY <1>2, Arrives
  <2>2. calls' = <<[step |-> "start", rq |-> r]>> /\ served' = served + 1 /\ served < MaxRequests
    BY <2>1 DEF Arrive
  <2>3. calls' \in Seq(CallSet)
    <3>1. [step |-> "start", rq |-> r] \in CallSet
      BY DEF CallSet
    <3> QED BY <2>2, <3>1
  <2>4. served' \in 0 .. MaxRequests
    BY <2>2, TypeFacts, CapacityAssumption
  <2>5. UNCHANGED <<used, size, tablets, key, value, list, due, recent, virmem, crashed, mark>>
    BY <2>1 DEF Arrive, cache, memory, heap, story
  <2> QED BY <2>3, <2>4, <2>5, TypeFacts, SameTyped
<1>3. CASE Refuse \/ Drop
  <2>1. At("start", {"put", "rewrite"}) \/ At("start", {"rewrite"})
    BY <1>3 DEF Refuse, Drop
  <2>2. calls' \in Seq(CallSet)
    BY <1>3, <2>1, AtTop DEF Refuse, Drop, Return
  <2>3. mark' \in MarkSet
    <3>1. \E b \in BOOLEAN : mark' = [mark EXCEPT !.drifted = b]
      <4>1. CASE Refuse
        BY <4>1 DEF Refuse
      <4>2. CASE Drop
        BY <4>2 DEF Drop
      <4> QED BY <1>3, <4>1, <4>2
    <3> QED BY <3>1, TypeFacts, MarkFields, ZenonT(30)
  <2>4. UNCHANGED <<used, size, tablets, key, value, list, due, recent, virmem, crashed, served>>
    BY <1>3 DEF Refuse, Drop, cache, memory, heap
  <2> QED BY <2>2, <2>3, <2>4, TypeFacts, SameTyped
<1>4. CASE PutNew
  BY <1>4, PutNewTyped
<1>5. CASE PutInMemory
  BY <1>5, StoreTyped, AtTop DEF PutInMemory, Puts
<1>6. CASE PutLoads
  BY <1>6, LoadTyped DEF PutLoads
<1>7. CASE PutLoaded
  BY <1>7, StoreTyped, SegfaultTyped, AtTop DEF PutLoaded, Puts
<1>8. CASE Evict
  BY <1>8, EvictTyped
<1>9. CASE EvictNothing
  BY <1>9, SegfaultTyped DEF EvictNothing
<1>10. CASE GetInMemory
  BY <1>10, AccessTyped DEF GetInMemory
<1>11. CASE GetLoads
  BY <1>11, LoadTyped DEF GetLoads
<1>12. CASE GetLoaded
  BY <1>12, AccessTyped, SegfaultTyped DEF GetLoaded
<1>13. CASE GetNobody
  <2>1. calls' \in Seq(CallSet)
    BY <1>13, AtTop DEF GetNobody, Return
  <2>2. UNCHANGED <<used, size, tablets, key, value, list, due, recent, virmem, crashed, served,
                    mark>>
    BY <1>13 DEF GetNobody, cache, memory, heap, story
  <2> QED BY <2>1, <2>2, TypeFacts, SameTyped
<1>14. CASE ListFiles
  <2>1. calls' \in Seq(CallSet)
    <3>1. PICK L \in Seq(CallSet) : calls' = L \o Tail(calls)
      BY <1>14, ListCalls
    <3>2. Tail(calls) \in Seq(CallSet)
      BY <1>14, AtTop DEF ListFiles
    <3> QED BY <3>1, <3>2
  <2>2. UNCHANGED <<used, size, tablets, key, value, list, due, recent, virmem, crashed, served,
                    mark>>
    BY <1>14 DEF ListFiles, cache, memory, heap, story
  <2> QED BY <2>1, <2>2, TypeFacts, SameTyped
<1>15. CASE Finished
  BY <1>1, <1>15 DEF Finished
<1>16. CASE PutTooLarge
  BY <1>16, TooLargeTyped
<1> QED
  BY <1>1, <1>2, <1>3, <1>4, <1>5, <1>6, <1>7, <1>8, <1>9, <1>10, <1>11, <1>12, <1>13, <1>14,
     <1>15, <1>16 DEF Next, Step

-----------------------------------------------------------------------------
(***************************************************************************)
(* The steps by what they do.                                              *)
(***************************************************************************)
Stores ==
  /\ (At("start", Puts \cup {"rewrite"}) /\ Accepted) \/ At("loaded", Puts)
  /\ InMemory(rq.user)
  /\ StoreInRow

Loads ==
  /\ At("start", Puts \cup Gets)
  /\ InVirMem(rq.user)
  /\ rq.kind \in Puts => Accepted
  /\ Load

Accesses ==
  /\ At("start", Gets) \/ At("loaded", Gets)
  /\ InMemory(rq.user)
  /\ Access

Breaks ==
  /\ EvictNothing \/ (At("loaded", Puts \cup Gets) /\ ~InMemory(rq.user))
  /\ Segfault

\* Answered, and nothing changes.
Ignores ==
  /\ At("start", Gets \cup {"put"})
  /\ Return
  /\ UNCHANGED <<cache, crashed, served, story>>

\* A file of a row that is loaded is refused.
Cuts ==
  /\ At("start", {"restore"}) /\ rq.len > Capacity
  /\ Return
  /\ due' = [due EXCEPT ![rq.user][rq.file] = NoFile]
  /\ mark' = [mark EXCEPT !.cut = TRUE]
  /\ UNCHANGED <<cache, crashed, served, recent>>

LEMMA StepKinds ==
  ASSUME [Next]_vars
  PROVE  \/ UNCHANGED vars
         \/ Receive
         \/ Refuse \/ Drop
         \/ PutNew
         \/ Stores
         \/ Loads
         \/ Evict
         \/ Accesses
         \/ Breaks
         \/ Ignores
         \/ Cuts
         \/ ListFiles
<1>1. PutInMemory => Stores
  BY DEF PutInMemory, Stores
<1>2. PutLoads => Loads
  BY DEF PutLoads, Loads, At
<1>3. PutLoaded => Stores \/ Breaks
  BY DEF PutLoaded, Stores, Breaks, At
<1>4. GetInMemory => Accesses
  BY DEF GetInMemory, Accesses
<1>5. GetLoads => Loads
  BY DEF GetLoads, Loads, At, Puts, Gets
<1>6. GetLoaded => Accesses \/ Breaks
  BY DEF GetLoaded, Accesses, Breaks, At
<1>7. EvictNothing => Breaks
  BY DEF EvictNothing, Breaks
<1>8. Finished => UNCHANGED vars
  BY DEF Finished
<1>9. GetNobody => Ignores
  BY DEF GetNobody, Ignores, At
<1>10. PutTooLarge => Ignores \/ Cuts
  <2>1. PutTooLarge /\ rq.kind = "restore" => Cuts
    BY DEF PutTooLarge, TooLarge, Cuts, At
  <2>2. PutTooLarge /\ rq.kind # "restore" => Ignores
    BY DEF PutTooLarge, Ignores, At, Puts, story
  <2> QED BY <2>1, <2>2
<1> QED
  BY <1>1, <1>2, <1>3, <1>4, <1>5, <1>6, <1>7, <1>8, <1>9, <1>10 DEF Next, Step

\* Whoever serves a call knows its request.
LEMMA StoresTop ==
  ASSUME TypeOK, Stores
  PROVE  /\ calls \in Seq(CallSet) /\ calls # <<>> /\ ~crashed
         /\ rq = calls[1].rq /\ Head(calls) = calls[1]
         /\ rq \in Request /\ rq.kind \in {"put", "restore", "rewrite"}
         /\ rq.user \in Users /\ rq.file \in Files /\ rq.len \in Nat
         /\ tablets[rq.user] \in 1 .. Len(key) /\ RowOf(rq.user) \in Row
<1>1. PICK step, kinds : At(step, kinds) /\ kinds \in {Puts, Puts \cup {"rewrite"}}
  BY DEF Stores
<1>2. rq.kind \in {"put", "restore", "rewrite"}
  BY <1>1 DEF At, Puts
<1>3. rq.user \in Users
  BY <1>1, AtTop
<1>4. tablets[rq.user] \in 1 .. Len(key) /\ RowOf(rq.user) \in Row
  BY <1>3, RowInMemory DEF Stores
<1> QED BY <1>1, <1>2, <1>4, AtTop

LEMMA AccessTop ==
  ASSUME TypeOK, Accesses
  PROVE  /\ calls \in Seq(CallSet) /\ calls # <<>> /\ ~crashed
         /\ rq = calls[1].rq /\ Head(calls) = calls[1]
         /\ rq \in Request /\ rq.kind \in Gets
         /\ rq.user \in Users /\ rq.file \in Files /\ rq.to \in Files
         /\ tablets[rq.user] \in 1 .. Len(key) /\ RowOf(rq.user) \in Row
<1>1. PICK step : At(step, Gets)
  BY DEF Accesses
<1>2. rq.user \in Users
  BY <1>1, AtTop
<1>3. tablets[rq.user] \in 1 .. Len(key) /\ RowOf(rq.user) \in Row
  BY <1>2, RowInMemory DEF Accesses
<1> QED BY <1>1, <1>3, AtTop

\* cput's first half: the old value goes off the counts.
Takes ==
  LET n == tablets[rq.user] IN
  /\ Uncount(value[n][rq.file])
  /\ calls' = <<[step |-> "start", rq |-> [rq EXCEPT !.kind = "rewrite"]]>> \o Tail(calls)
  /\ UNCHANGED <<tablets, value, due, mark>>

LEMMA AccessKinds ==
  ASSUME Accesses
  PROVE  LET n == tablets[rq.user] IN
         /\ Touch(n) /\ UNCHANGED <<virmem, key, crashed, served>>
         /\ \/ Return /\ Untouched
            \/ Takes /\ value[n][rq.file] # NoFile
            \/ Erase(n) /\ value[n][rq.file] # NoFile
            \/ Rename(n) /\ value[n][rq.file] # NoFile
BY DEF Accesses, Access, Compare, Takes

LEMMA MarkEffects ==
  ASSUME NEW m \in MarkSet, NEW b, NEW c, NEW S
  PROVE  /\ LET x == [m EXCEPT !.drifted = b] IN
              /\ x.drifted = b /\ x.relinked = m.relinked /\ x.hollow = m.hollow
              /\ x.lost = m.lost /\ x.cut = m.cut
         /\ LET x == [m EXCEPT !.relinked = b] IN
              /\ x.relinked = b /\ x.drifted = m.drifted /\ x.hollow = m.hollow
              /\ x.lost = m.lost /\ x.cut = m.cut
         /\ LET x == [m EXCEPT !.cut = b] IN
              /\ x.cut = b /\ x.drifted = m.drifted /\ x.hollow = m.hollow
              /\ x.lost = m.lost /\ x.relinked = m.relinked
         /\ LET x == [m EXCEPT !.hollow = b, !.drifted = c, !.lost = S] IN
              /\ x.hollow = b /\ x.drifted = c /\ x.lost = S /\ x.relinked = m.relinked
              /\ x.cut = m.cut
BY DEF MarkSet

\* Whose file is cut off.
LEMMA CutsTop ==
  ASSUME TypeOK, Cuts
  PROVE  /\ calls \in Seq(CallSet) /\ calls # <<>> /\ ~crashed /\ 1 \in DOMAIN calls
         /\ rq = calls[1].rq /\ rq.kind = "restore" /\ rq.user \in Users /\ rq.file \in Files
         /\ rq.len \in Nat /\ rq.len > Capacity
         /\ UNCHANGED <<used, size, tablets, key, value, list, virmem, crashed, served, recent>>
         /\ mark'.cut /\ mark'.drifted = mark.drifted /\ mark'.hollow = mark.hollow
         /\ mark'.lost = mark.lost /\ mark'.relinked = mark.relinked
<1>1. At("start", {"restore"})
  BY DEF Cuts
<1>2. mark' = [mark EXCEPT !.cut = TRUE] /\ mark \in MarkSet
  BY TypeFacts DEF Cuts
<1>3. /\ mark'.cut /\ mark'.drifted = mark.drifted /\ mark'.hollow = mark.hollow
      /\ mark'.lost = mark.lost /\ mark'.relinked = mark.relinked
  BY <1>2, MarkEffects
<1>4. rq.kind = "restore"
  BY <1>1 DEF At
<1>5. UNCHANGED <<used, size, tablets, key, value, list, virmem, crashed, served, recent>>
  BY DEF Cuts, cache, memory, heap
<1> QED BY <1>1, <1>3, <1>4, <1>5, AtTop DEF Cuts

\* The first node and what evicting it does.
LEMMA EvictEffects ==
  ASSUME TypeOK, Evict
  PROVE  LET n == list.next[head]
             u == key[n]
         IN  /\ At("start", Puts) /\ Full
             /\ n \in 1 .. Len(key) /\ u \in Users /\ value[n] \in Row
             /\ virmem' = [virmem EXCEPT ![u] = value[n]]
             /\ tablets' = [tablets EXCEPT ![u] = Null]
             /\ used' = used - SizeOf(value[n])
             /\ recent' = RemoveFirst(recent, n)
             /\ mark'.hollow = (mark.hollow \/ value[n] = EmptyRow)
             /\ mark'.drifted = (mark.drifted \/
                  (tablets[u] # n /\ (InMemory(u) \/ value[n] # EmptyRow)))
             /\ mark'.lost = IF tablets[u] = n THEN mark.lost ELSE mark.lost \cup {u}
             /\ mark'.relinked = mark.relinked /\ mark'.cut = mark.cut
             /\ UNCHANGED <<size, key, value, calls, crashed, served, due>>
<1> DEFINE n == list.next[head]
           u == key[n]
<1>1. Len(key) \in Nat /\ ListType(list, Len(key)) /\ n # tail
  BY ListTyped DEF Evict
<1>2. n \in 1 .. Len(key)
  BY <1>1, FirstOutTyped
<1>3. key \in Seq(Users) /\ value \in Seq(Row) /\ Len(value) = Len(key) /\ mark \in MarkSet
  BY TypeFacts
<1>4. /\ At("start", Puts) /\ Full
      /\ virmem' = [virmem EXCEPT ![u] = value[n]]
      /\ tablets' = [tablets EXCEPT ![u] = Null]
      /\ used' = used - SizeOf(value[n])
      /\ recent' = RemoveFirst(recent, n)
      /\ UNCHANGED <<size, key, value, calls, crashed, served, due>>
  BY DEF Evict
<1>5. mark' = [mark EXCEPT
        !.hollow = mark.hollow \/ value[n] = EmptyRow,
        !.drifted = mark.drifted \/ (tablets[u] # n /\ (InMemory(u) \/ value[n] # EmptyRow)),
        !.lost = IF tablets[u] = n THEN mark.lost ELSE mark.lost \cup {u}]
  BY DEF Evict
<1> HIDE DEF n
<1>6. u \in Users /\ value[n] \in Row
  BY <1>1, <1>2, <1>3
<1>7. /\ mark'.hollow = (mark.hollow \/ value[n] = EmptyRow)
      /\ mark'.drifted = (mark.drifted \/
           (tablets[u] # n /\ (InMemory(u) \/ value[n] # EmptyRow)))
      /\ mark'.lost = IF tablets[u] = n THEN mark.lost ELSE mark.lost \cup {u}
      /\ mark'.relinked = mark.relinked /\ mark'.cut = mark.cut
  <2> DEFINE S == IF tablets[u] = n THEN mark.lost ELSE mark.lost \cup {u}
             b == mark.hollow \/ value[n] = EmptyRow
             c == mark.drifted \/ (tablets[u] # n /\ (InMemory(u) \/ value[n] # EmptyRow))
  <2>1. mark' = [mark EXCEPT !.hollow = b, !.drifted = c, !.lost = S]
    BY <1>5
  <2> HIDE DEF S, b, c
  <2>2. /\ mark'.hollow = b /\ mark'.drifted = c /\ mark'.lost = S
        /\ mark'.relinked = mark.relinked /\ mark'.cut = mark.cut
    BY <1>3, <2>1, MarkEffects
  <2> QED BY <2>2 DEF S, b, c
<1> QED BY <1>2, <1>4, <1>6, <1>7 DEF n

-----------------------------------------------------------------------------
(***************************************************************************)
(* The list and the order of use.                                          *)
(***************************************************************************)
LEMMA OrderMeans ==
  ASSUME TypeOK, InOrder
  PROVE  LeastRecentFirst
<1>1. Len(key) \in Nat /\ recent \in Seq(1 .. Len(key))
  BY TypeFacts, ListTyped
<1>2. Linked(list, recent) <=>
        LET order == <<head>> \o recent \o <<tail>> IN
        \A i \in 1 .. Len(order) - 1 :
          list.next[order[i]] = order[i + 1] /\ list.prev[order[i + 1]] = order[i]
  BY <1>1, LinkedOrder, ZenonT(30)
<1> QED BY <1>2 DEF InOrder, LeastRecentFirst

LEMMA ListFunctions ==
  ASSUME NEW N \in Nat, NEW l, ListType(l, N)
  PROVE  l.prev = [j \in Ends(N) |-> l.prev[j]] /\ l.next = [j \in Ends(N) |-> l.next[j]]
BY DEF ListType, PrevType, NextType

LEMMA PutNewOrder ==
  ASSUME TypeOK, Once(recent), InOrder, PutNew
  PROVE  InOrder'
<1> SUFFICES ASSUME ~mark.relinked
             PROVE  /\ Linked(list', recent')
                    /\ \A u \in Users : tablets'[u] # Null =>
                         \E i \in DOMAIN recent' : recent'[i] = tablets'[u]
  BY DEF InOrder, InMemory, PutNew
<1> DEFINE N == Len(key)
           w == WithNode(list, N + 1)
<1>1. /\ At("start", Puts)
      /\ tablets' = [tablets EXCEPT ![rq.user] = N + 1]
      /\ list' = MoveToTail(w, N + 1)
      /\ recent' = Append(recent, N + 1)
  BY DEF PutNew
<1>2. /\ ~crashed /\ rq.user \in Users /\ N \in Nat /\ ListType(list, N)
      /\ recent \in Seq(1 .. N) /\ tablets \in [Users -> 1 .. N \cup {Null}]
  BY <1>1, AtTop, TypeFacts, ListTyped
<1>3. /\ Linked(list, recent)
      /\ \A u \in Users : tablets[u] # Null => \E i \in DOMAIN recent : recent[i] = tablets[u]
  BY <1>2 DEF InOrder, InMemory
<1>4. Linked(w, recent)
  BY <1>2, <1>3, LinkMade
<1>5. w.prev = [j \in Ends(N + 1) |-> w.prev[j]] /\ w.next = [j \in Ends(N + 1) |-> w.next[j]]
  <2>1. /\ w.prev = [k \in Ends(N + 1) |-> IF k = N + 1 THEN Null ELSE list.prev[k]]
        /\ w.next = [k \in Ends(N + 1) |-> IF k = N + 1 THEN Null ELSE list.next[k]]
    BY <1>2, WithNodeFields
  <2> HIDE DEF w
  <2> QED BY <2>1
<1> HIDE DEF w, N
<1>6. 1 .. N \subseteq 1 .. N + 1 /\ N + 1 \in 1 .. N + 1 /\ N + 1 \notin 1 .. N /\ N + 1 \in Nat
  BY <1>2
<1>7. recent \in Seq(1 .. N + 1) /\ \A i \in DOMAIN recent : recent[i] # N + 1
  BY <1>2, <1>6
<1>8. Linked(list', recent')
  BY <1>1, <1>4, <1>5, <1>6, <1>7, LinkLast
<1>9. \A i \in DOMAIN recent : \E j \in DOMAIN recent' : recent'[j] = recent[i]
  BY <1>1, <1>6, <1>7, AppendOnce
<1>10. \E j \in DOMAIN recent' : recent'[j] = N + 1
  BY <1>1, <1>6, <1>7, AppendOnce
<1>11. ASSUME NEW u \in Users, tablets'[u] # Null
       PROVE \E i \in DOMAIN recent' : recent'[i] = tablets'[u]
  <2>1. CASE u = rq.user
    BY <1>1, <1>2, <1>10, <2>1
  <2>2. CASE u # rq.user
    <3>1. tablets'[u] = tablets[u]
      BY <1>1, <1>2, <2>2
    <3> QED BY <1>3, <1>9, <1>11, <3>1
  <2> QED BY <2>1, <2>2
<1> QED BY <1>8, <1>11

LEMMA EvictOrder ==
  ASSUME TypeOK, OnePlace, Once(recent), InOrder, Evict
  PROVE  InOrder'
<1>1. PICK n, u :
        /\ n = list.next[head] /\ u = key[n]
        /\ n \in 1 .. Len(key) /\ u \in Users
        /\ tablets' = [tablets EXCEPT ![u] = Null]
        /\ recent' = RemoveFirst(recent, n)
        /\ mark'.relinked = mark.relinked /\ crashed' = crashed
  BY EvictEffects
<1> SUFFICES ASSUME ~mark.relinked, ~crashed
             PROVE  /\ Linked(list', recent')
                    /\ \A v \in Users : tablets'[v] # Null =>
                         \E i \in DOMAIN recent' : recent'[i] = tablets'[v]
  BY <1>1 DEF InOrder, InMemory
<1> DEFINE N == Len(key)
           k == Len(recent)
<1>2. /\ N \in Nat /\ ListType(list, N) /\ recent \in Seq(1 .. N)
      /\ tablets \in [Users -> 1 .. N \cup {Null}]
  BY TypeFacts, ListTyped
<1> HIDE DEF N
<1>3. /\ Linked(list, recent)
      /\ \A v \in Users : tablets[v] # Null => \E i \in DOMAIN recent : recent[i] = tablets[v]
  BY DEF InOrder, InMemory
<1>4. k \in Nat /\ DOMAIN recent = 1 .. k
  BY <1>2
<1>5. list.next[head] = Stop(recent, 1) /\ list.prev[Stop(recent, 1)] = head
  <2>1. 0 \in 0 .. k /\ 0 + 1 = 1
    BY <1>4
  <2> QED BY <1>3, <2>1 DEF Linked, Stop
<1>6. n # tail
  BY <1>1 DEF tail
<1>7. k # 0 /\ recent[1] = n /\ list.prev[n] = head
  <2>1. k # 0
    <3>1. k = 0 => Stop(recent, 1) = tail
      BY DEF Stop
    <3> QED BY <1>1, <1>5, <1>6, <3>1
  <2>2. 1 # k + 1
    BY <1>4, <2>1
  <2>3. Stop(recent, 1) = recent[1]
    BY <2>2 DEF Stop
  <2> QED BY <1>1, <1>5, <2>1, <2>3
<1>8. 1 \in DOMAIN recent
  BY <1>4, <1>7
<1>9. list' = Unlink(list, n)
  <2>1. list' = [prev |-> [list.prev EXCEPT ![list.next[n]] = head],
                 next |-> [list.next EXCEPT ![head] = list.next[n]]]
    BY <1>1 DEF Evict
  <2>2. Unlink(list, n) = [prev |-> [list.prev EXCEPT ![list.next[n]] = list.prev[n]],
                           next |-> [list.next EXCEPT ![list.prev[n]] = list.next[n]]]
    <3> DEFINE m == Unlink(list, n)
    <3>1. /\ m = [prev |-> m.prev, next |-> m.next]
          /\ m.prev = [list.prev EXCEPT ![list.next[n]] = list.prev[n]]
          /\ m.next = [list.next EXCEPT ![list.prev[n]] = list.next[n]]
      <4>1. N \in Nat /\ ListType(list, N) /\ n \in 1 .. N
        BY <1>1, <1>2 DEF N
      <4> QED BY <4>1, UnlinkFields
    <3> HIDE DEF m
    <3>2. m = [prev |-> [list.prev EXCEPT ![list.next[n]] = list.prev[n]],
               next |-> [list.next EXCEPT ![list.prev[n]] = list.next[n]]]
      BY <3>1
    <3> QED BY <3>2 DEF m
  <2> QED BY <1>7, <2>1, <2>2
<1>10. recent' = Skip(recent, 1)
  <2>1. \A i \in DOMAIN recent : recent[i] = recent[1] => i = 1
    BY <1>8 DEF Once
  <2>2. RemoveFirst(recent, recent[1]) = Skip(recent, 1)
    BY <1>2, <1>8, <2>1, RemoveFound
  <2> QED BY <1>1, <1>7, <2>2
<1>11. Linked(list', recent')
  <2>1. Linked(Unlink(list, recent[1]), Skip(recent, 1))
    BY <1>2, <1>3, <1>8, LinkWithout
  <2> QED BY <1>7, <1>9, <1>10, <2>1
<1>12. \A j \in DOMAIN recent : recent[j] # n => \E i \in DOMAIN recent' : recent'[i] = recent[j]
  BY <1>1, <1>2, Removal
<1>13. ASSUME NEW v \in Users, tablets'[v] # Null
       PROVE \E i \in DOMAIN recent' : recent'[i] = tablets'[v]
  <2>1. v # u /\ tablets'[v] = tablets[v]
    BY <1>1, <1>2, <1>13
  <2>2. tablets[v] # n
    BY <1>1, <1>13, <2>1 DEF OnePlace, InMemory
  <2> QED BY <1>3, <1>12, <1>13, <2>1, <2>2
<1> QED BY <1>11, <1>13

LEMMA AccessOrder ==
  ASSUME TypeOK, Once(recent), InOrder, Accesses
  PROVE  InOrder'
<1>1. PICK n : /\ n = tablets[rq.user] /\ n \in 1 .. Len(key) /\ rq.user \in Users /\ ~crashed
               /\ InMemory(rq.user)
  BY AccessTop DEF Accesses
<1>2. /\ list' = MoveToTail(Unlink(list, n), n)
      /\ recent' = Append(RemoveFirst(recent, n), n)
      /\ crashed' = crashed
  BY <1>1, AccessKinds DEF Touch
<1>3. /\ Len(key) \in Nat /\ ListType(list, Len(key)) /\ recent \in Seq(1 .. Len(key))
      /\ tablets \in [Users -> 1 .. Len(key) \cup {Null}] /\ mark \in MarkSet
  BY TypeFacts, ListTyped
<1>4. mark'.relinked = mark.relinked
  <2>1. mark' = mark \/ \E b : mark' = [mark EXCEPT !.drifted = b]
    BY AccessKinds DEF Untouched, Takes, Erase, Rename
  <2>2. \A b : [mark EXCEPT !.drifted = b].relinked = mark.relinked
    BY <1>3, MarkEffects
  <2> QED BY <2>1, <2>2
<1>5. \A u \in Users : tablets'[u] # Null => tablets'[u] = tablets[u]
  BY <1>3, AccessKinds DEF Untouched, memory, Takes, Erase, Rename
<1> SUFFICES ASSUME ~mark.relinked
             PROVE  /\ Linked(list', recent')
                    /\ \A v \in Users : tablets'[v] # Null =>
                         \E i \in DOMAIN recent' : recent'[i] = tablets'[v]
  BY <1>4 DEF InOrder, InMemory
<1>6. /\ Linked(list, recent)
      /\ \A v \in Users : tablets[v] # Null => \E i \in DOMAIN recent : recent[i] = tablets[v]
  BY <1>1 DEF InOrder, InMemory
<1>7. PICK p \in DOMAIN recent : recent[p] = n
  BY <1>1, <1>6 DEF InMemory
<1> DEFINE s == Skip(recent, p)
           l == Unlink(list, n)
<1>8. RemoveFirst(recent, n) = s /\ s \in Seq(1 .. Len(key))
  <2>1. \A i \in DOMAIN recent : recent[i] = recent[p] => i = p
    BY DEF Once
  <2>2. RemoveFirst(recent, recent[p]) = s
    BY <1>3, <2>1, RemoveFound
  <2>3. s \in Seq(1 .. Len(key))
    BY <1>3, <2>1, RemoveFound
  <2> QED BY <1>7, <2>2, <2>3
<1>9. Once(s) /\ \A i \in DOMAIN s : s[i] # n
  <2> DEFINE r == RemoveFirst(recent, n)
  <2>1. Once(r)
    BY <1>3, Removal
  <2>2. \A i \in DOMAIN r : r[i] # n
    BY <1>3, Removal
  <2> QED BY <1>8, <2>1, <2>2
<1>10. Linked(l, s)
  BY <1>3, <1>6, <1>7, LinkWithout
<1>11. /\ l.prev = [j \in Ends(Len(key)) |-> l.prev[j]]
       /\ l.next = [j \in Ends(Len(key)) |-> l.next[j]]
  <2>1. ListType(l, Len(key))
    BY <1>1, <1>3, UnlinkTyped
  <2> HIDE DEF l
  <2> QED BY <1>3, <2>1, ListFunctions
<1> HIDE DEF s, l
<1>12. Linked(MoveToTail(l, n), Append(s, n))
  BY <1>1, <1>3, <1>8, <1>9, <1>10, <1>11, LinkLast
<1>13. \A j \in DOMAIN recent : \E i \in DOMAIN recent' : recent'[i] = recent[j]
  <2>1. Within(recent, Append(RemoveFirst(recent, n), n))
    BY <1>1, <1>3, UsedLast
  <2> QED BY <1>2, <2>1 DEF Within
<1> QED BY <1>2, <1>5, <1>6, <1>8, <1>12, <1>13 DEF l

LEMMA OrderKept ==
  ASSUME TypeOK, OnePlace, Once(recent), InOrder, [Next]_vars
  PROVE  InOrder'
<1>1. CASE UNCHANGED <<list, recent, tablets>> /\ crashed' = crashed
             /\ mark'.relinked = mark.relinked
  BY <1>1 DEF InOrder, InMemory
<1>2. CASE UNCHANGED vars \/ Receive \/ Loads \/ Ignores \/ ListFiles
  <2>1. UNCHANGED vars => UNCHANGED <<list, recent, tablets, crashed, mark>>
    BY DEF vars, cache, memory, heap, story
  <2>2. Receive => UNCHANGED <<list, recent, tablets, crashed, mark>>
    BY DEF Receive, Arrive, cache, memory, heap, story
  <2>3. Loads => UNCHANGED <<list, recent, tablets, crashed, mark>>
    BY DEF Loads, Load, memory, heap, story
  <2>4. Ignores \/ ListFiles => UNCHANGED <<list, recent, tablets, crashed, mark>>
    BY DEF Ignores, ListFiles, cache, memory, heap, story
  <2> QED BY <1>1, <1>2, <2>1, <2>2, <2>3, <2>4
<1>3. CASE Refuse \/ Drop
  <2>1. UNCHANGED <<list, recent, tablets, crashed>>
    BY <1>3 DEF Refuse, Drop, cache, memory, heap
  <2>2. \E b : mark' = [mark EXCEPT !.drifted = b]
    BY <1>3 DEF Refuse, Drop
  <2> QED BY <1>1, <2>1, <2>2, TypeFacts, MarkEffects
<1>4. CASE PutNew
  BY <1>4, PutNewOrder
<1>5. CASE Stores
  <2>1. mark' = [mark EXCEPT !.relinked = TRUE]
    BY <1>5 DEF Stores, StoreInRow
  <2>2. mark'.relinked
    BY <2>1, TypeFacts, MarkEffects
  <2> QED BY <2>2 DEF InOrder
<1>6. CASE Evict
  BY <1>6, EvictOrder
<1>7. CASE Accesses
  BY <1>7, AccessOrder
<1>8. CASE Breaks
  BY <1>8 DEF Breaks, Segfault, InOrder
<1>9. CASE Cuts
  BY <1>1, <1>9, CutsTop
<1> QED BY <1>2, <1>3, <1>4, <1>5, <1>6, <1>7, <1>8, <1>9, StepKinds

-----------------------------------------------------------------------------
(***************************************************************************)
(* One place, and the order of the calls.                                  *)
(***************************************************************************)
LEMMA OnePlaceKept ==
  ASSUME TypeOK, OnePlace, [Next]_vars
  PROVE  OnePlace'
<1>1. CASE UNCHANGED <<tablets, virmem, key>>
  BY <1>1 DEF OnePlace, InMemory, InVirMem
<1>2. CASE UNCHANGED vars \/ Receive \/ Refuse \/ Drop \/ Breaks \/ Ignores \/ ListFiles
  <2>1. UNCHANGED vars => UNCHANGED <<tablets, virmem, key>>
    BY DEF vars, cache, memory, heap
  <2>2. Receive => UNCHANGED <<tablets, virmem, key>>
    BY DEF Receive, Arrive, cache, memory, heap
  <2>3. Refuse \/ Drop => UNCHANGED <<tablets, virmem, key>>
    BY DEF Refuse, Drop, cache, memory, heap
  <2>4. Breaks => UNCHANGED <<tablets, virmem, key>>
    BY DEF Breaks, Segfault, cache, memory, heap
  <2>5. Ignores \/ ListFiles => UNCHANGED <<tablets, virmem, key>>
    BY DEF Ignores, ListFiles, cache, memory, heap
  <2> QED BY <1>1, <1>2, <2>1, <2>2, <2>3, <2>4, <2>5
<1>3. CASE Stores
  BY <1>1, <1>3 DEF Stores, StoreInRow
<1> DEFINE N == Len(key)
<1>4. /\ tablets \in [Users -> 1 .. N \cup {Null}] /\ key \in Seq(Users) /\ N \in Nat
      /\ virmem \in [Users -> Row \cup {None}] /\ Null \notin 1 .. N + 1
  BY TypeFacts DEF Null
<1>5. CASE PutNew
  <2>1. /\ tablets' = [tablets EXCEPT ![rq.user] = N + 1] /\ key' = Append(key, rq.user)
        /\ virmem' = virmem /\ virmem[rq.user] = None /\ rq.user \in Users
    BY <1>5, AtTop DEF PutNew, InVirMem
  <2>2. /\ \A i \in 1 .. N : key'[i] = key[i]
        /\ key'[N + 1] = rq.user
    BY <1>4, <2>1
  <2> HIDE DEF N
  <2>3. ASSUME NEW u \in Users, tablets'[u] # Null
        PROVE virmem'[u] = None /\ key'[tablets'[u]] = u
    <3>1. CASE u = rq.user
      BY <1>4, <2>1, <2>2, <3>1
    <3>2. CASE u # rq.user
      <4>1. tablets'[u] = tablets[u] /\ tablets[u] \in 1 .. N
        BY <1>4, <2>1, <2>3, <3>2
      <4> QED BY <2>1, <2>2, <2>3, <4>1 DEF OnePlace, InMemory, InVirMem
    <3> QED BY <3>1, <3>2
  <2> QED BY <2>3 DEF OnePlace, InMemory, InVirMem
<1>6. CASE Loads
  <2>1. virmem' = [virmem EXCEPT ![rq.user] = None] /\ UNCHANGED <<tablets, key>>
    BY <1>6 DEF Loads, Load, memory, heap
  <2> QED BY <1>4, <2>1 DEF OnePlace, InMemory, InVirMem
<1>7. CASE Evict
  <2>1. PICK n, u :
          /\ u \in Users /\ virmem' = [virmem EXCEPT ![u] = value[n]]
          /\ tablets' = [tablets EXCEPT ![u] = Null] /\ key' = key
    BY <1>7, EvictEffects
  <2> QED BY <1>4, <2>1 DEF OnePlace, InMemory, InVirMem
<1>8. CASE Accesses
  <2>1. virmem' = virmem /\ key' = key
    BY <1>8, AccessKinds
  <2>2. \A u \in Users : tablets'[u] # Null => tablets'[u] = tablets[u]
    BY <1>4, <1>8, AccessKinds DEF Untouched, memory, Takes, Erase, Rename
  <2> QED BY <2>1, <2>2 DEF OnePlace, InMemory, InVirMem
<1>9. CASE Cuts
  BY <1>1, <1>9, CutsTop
<1> QED BY <1>2, <1>3, <1>5, <1>6, <1>7, <1>8, <1>9, StepKinds

\* No row is loaded now.
NoRestore(c) == \A i \in DOMAIN c : c[i].rq.kind # "restore"

LEMMA OrderedTail ==
  ASSUME NEW c \in Seq(CallSet), c # <<>>, Ordered(c)
  PROVE  /\ Ordered(Tail(c))
         /\ Tail(c) # <<>> => Head(Tail(c)).rq.kind # "rewrite"
         /\ Tail(c) # <<>> /\ Head(Tail(c)).step = "loaded" => Head(c).rq.kind = "restore"
         /\ Head(c).rq.kind # "restore" => NoRestore(c) /\ NoRestore(Tail(c))
<1> DEFINE t == Tail(c)
           k == Len(c)
<1>1. /\ k \in Nat /\ DOMAIN c = 1 .. k /\ DOMAIN t = 1 .. k - 1 /\ 1 \in 1 .. k
      /\ Head(c) = c[1]
      /\ \A i \in 1 .. k - 1 : t[i] = c[i + 1]
      /\ t # <<>> => 1 \in 1 .. k - 1 /\ Head(t) = t[1]
  BY Top
<1> HIDE DEF t, k
<1>2. \A i \in 1 .. k - 1 : i + 1 \in 1 .. k /\ i + 1 # 1 /\ 1 < i + 1
  BY <1>1
<1>3. \A i, j \in 1 .. k - 1 : i < j => i + 1 < j + 1
  BY <1>1
<1>4. \A i \in 1 .. k - 1 : c[i + 1].rq.kind # "rewrite"
  BY <1>1, <1>2 DEF Ordered
<1>5. \A j \in 1 .. k - 1 : c[j + 1].step = "loaded" \/ c[j + 1].rq.kind = "restore" =>
                              c[1].rq.kind = "restore"
  BY <1>1, <1>2 DEF Ordered
<1>6. ASSUME NEW i \in 1 .. k - 1, NEW j \in 1 .. k - 1 PROVE t[i].rq.user = t[j].rq.user
  <2>1. i + 1 \in DOMAIN c /\ j + 1 \in DOMAIN c /\ t[i] = c[i + 1] /\ t[j] = c[j + 1]
    BY <1>1, <1>2
  <2> QED BY <2>1 DEF Ordered
<1>7. \A i, j \in DOMAIN t :
        i < j /\ (t[j].step = "loaded" \/ t[j].rq.kind = "restore") => t[i].rq.kind = "restore"
  <2> SUFFICES ASSUME NEW i \in 1 .. k - 1, NEW j \in 1 .. k - 1, i < j,
                      c[j + 1].step = "loaded" \/ c[j + 1].rq.kind = "restore"
               PROVE  c[i + 1].rq.kind = "restore"
    BY <1>1
  <2>1. i + 1 < j + 1 /\ i + 1 \in DOMAIN c /\ j + 1 \in DOMAIN c
    BY <1>1, <1>2, <1>3
  <2> QED BY <2>1 DEF Ordered
<1>8. t # <<>> => t[1] = c[1 + 1]
  BY <1>1
<1>9. Ordered(t)
  BY <1>1, <1>4, <1>6, <1>7 DEF Ordered
<1>10. ASSUME c[1].rq.kind # "restore" PROVE NoRestore(c) /\ NoRestore(t)
  <2>1. \A i \in 1 .. k - 1 : t[i].rq.kind # "restore"
    BY <1>1, <1>5, <1>10
  <2>2. ASSUME NEW i \in 1 .. k PROVE c[i].rq.kind # "restore"
    <3>1. i = 1 \/ (i - 1 \in 1 .. k - 1 /\ (i - 1) + 1 = i)
      BY <1>1
    <3> QED BY <1>5, <1>10, <3>1
  <2> QED BY <1>1, <2>1, <2>2 DEF NoRestore
<1> QED BY <1>1, <1>4, <1>5, <1>8, <1>9, <1>10 DEF t

\* What calls of the same user, none of them a restore, may be put on the stack.
LEMMA OrderedUnder ==
  ASSUME NEW a \in Seq(CallSet), NEW b \in Seq(CallSet), NEW u,
         \A i \in DOMAIN a : /\ a[i].step = "start" /\ a[i].rq.user = u
                             /\ a[i].rq.kind \notin {"restore", "put"}
                             /\ a[i].rq.kind = "rewrite" => Len(a) = 1,
         Ordered(b), NoRestore(b), \A i \in DOMAIN b : b[i].rq.user = u,
         \A i \in DOMAIN b : b[i].step = "start" /\ b[i].rq.kind # "rewrite"
  PROVE  Ordered(a \o b) /\ NoRestore(a \o b) /\ a \o b \in Seq(CallSet)
<1> DEFINE c == a \o b
           k == Len(a)
           m == Len(b)
<1>1. /\ k \in Nat /\ m \in Nat /\ DOMAIN a = 1 .. k /\ DOMAIN b = 1 .. m
      /\ c \in Seq(CallSet) /\ DOMAIN c = 1 .. k + m
      /\ \A i \in 1 .. k + m : c[i] = IF i <= k THEN a[i] ELSE b[i - k]
  OBVIOUS
<1> HIDE DEF c, k, m
<1>2. ASSUME NEW i \in 1 .. k + m
      PROVE  /\ c[i].step = "start" /\ c[i].rq.user = u /\ c[i].rq.kind # "restore"
             /\ c[i].rq.kind = "rewrite" => i = 1
  <2>1. CASE i <= k
    <3>1. i \in 1 .. k /\ c[i] = a[i]
      BY <1>1, <2>1
    <3>2. c[i].rq.kind = "rewrite" => k = 1
      BY <1>1, <3>1 DEF k
    <3>3. k = 1 => i = 1
      BY <3>1
    <3> QED BY <1>1, <3>1, <3>2, <3>3
  <2>2. CASE ~(i <= k)
    <3>1. i - k \in 1 .. m /\ c[i] = b[i - k]
      BY <1>1, <2>2
    <3> QED BY <1>1, <3>1, ZenonT(30) DEF Ordered, NoRestore
  <2> QED BY <2>1, <2>2
<1> QED BY <1>1, <1>2 DEF Ordered, NoRestore, c

\* The stack after load_user_from_disk is in order.
LEMMA LoadOrdered ==
  ASSUME TypeOK, Ordered(calls), Loads
  PROVE  Ordered(calls') /\ calls' # <<>> /\ Head(calls').rq.kind # "rewrite"
<1> DEFINE R == Restores(rq.user)
           k == Len(R)
           n == Len(calls)
           c == calls'
<1>1. PICK step, kinds : At(step, kinds) /\ kinds = Puts \cup Gets
  BY DEF Loads
<1>2. /\ virmem[rq.user] \in Row
      /\ R \in Seq(CallSet) /\ c \in Seq(CallSet)
      /\ Len(c) = k + n
      /\ \A i \in 1 .. k : c[i] = R[i]
      /\ c[k + 1].step = "loaded" /\ c[k + 1].rq = rq
      /\ \A i \in 2 .. n : c[k + i] = calls[i]
  BY <1>1, LoadCalls DEF Loads
<1>3. /\ calls \in Seq(CallSet) /\ calls # <<>> /\ rq = calls[1].rq /\ rq.user \in Users
      /\ rq.kind \in Puts \cup Gets
  BY <1>1, AtTop
<1>4. \A i \in DOMAIN R : /\ R[i].step = "start" /\ R[i].rq.kind = "restore"
                          /\ R[i].rq.user = rq.user
  BY <1>2, <1>3, RestoresOfRow DEF PutsBack
<1>5. /\ k \in Nat /\ n \in Nat \ {0} /\ DOMAIN R = 1 .. k /\ DOMAIN calls = 1 .. n
      /\ DOMAIN c = 1 .. k + n
  <2>1. k \in Nat /\ DOMAIN R = 1 .. k
    BY <1>2
  <2>2. n \in Nat \ {0} /\ DOMAIN calls = 1 .. n
    BY <1>3
  <2>3. DOMAIN c = 1 .. Len(c)
    BY <1>2
  <2> QED BY <1>2, <2>1, <2>2, <2>3
<1> HIDE DEF R, k, n, c
<1>6. rq.kind \notin {"rewrite", "list"}
  BY <1>3 DEF Puts, Gets
<1>7. ASSUME NEW i \in 1 .. k + n
      PROVE  \/ i \in 1 .. k /\ c[i] = R[i]
             \/ i = k + 1 /\ c[i].step = "loaded" /\ c[i].rq = rq
             \/ i - k \in 2 .. n /\ c[i] = calls[i - k]
  <2>1. i \in 1 .. k \/ i = k + 1 \/ (i - k \in 2 .. n /\ k + (i - k) = i)
    BY <1>5
  <2> QED BY <1>2, <2>1
<1>8. \A i \in 1 .. k + n : c[i].rq.user = rq.user
  <2>1. \A i \in 2 .. n : calls[i].rq.user = rq.user
    BY <1>3, <1>5 DEF Ordered
  <2> QED BY <1>4, <1>5, <1>7, <2>1
<1>9. \A i \in 2 .. n : calls[i].step = "loaded" \/ calls[i].rq.kind = "restore" =>
                          rq.kind = "restore"
  <2> SUFFICES ASSUME NEW i \in 2 .. n, calls[i].step = "loaded" \/ calls[i].rq.kind = "restore"
               PROVE  rq.kind = "restore"
    OBVIOUS
  <2>1. 1 \in DOMAIN calls /\ i \in DOMAIN calls /\ 1 < i
    BY <1>5
  <2> QED BY <1>3, <2>1 DEF Ordered
<1>10. ASSUME NEW i \in 1 .. k + n, NEW j \in 1 .. k + n, i < j,
              c[j].step = "loaded" \/ c[j].rq.kind = "restore"
       PROVE  c[i].rq.kind = "restore"
  <2>1. CASE i \in 1 .. k
    BY <1>2, <1>4, <1>5, <2>1
  <2>2. CASE i \notin 1 .. k
    <3>1. j - k \in 2 .. n /\ c[j] = calls[j - k] /\ i - k \in 1 .. n /\ i - k < j - k
      BY <1>5, <1>7, <1>10, <2>2
    <3>2. rq.kind = "restore"
      BY <1>9, <1>10, <3>1
    <3>3. CASE i = k + 1
      BY <1>2, <3>2, <3>3
    <3>4. CASE i # k + 1
      <4>1. i - k \in 2 .. n /\ c[i] = calls[i - k]
        BY <1>5, <1>7, <2>2, <3>4
      <4> QED BY <1>5, <1>10, <3>1, <4>1 DEF Ordered
    <3> QED BY <3>3, <3>4
  <2> QED BY <2>1, <2>2
<1>11. ASSUME NEW i \in 1 .. k + n PROVE c[i].rq.kind # "rewrite"
  <2>1. CASE i \in 1 .. k
    BY <1>2, <1>4, <1>5, <2>1
  <2>2. CASE i = k + 1
    BY <1>2, <1>6, <2>2
  <2>3. CASE i - k \in 2 .. n /\ c[i] = calls[i - k]
    <3>1. i - k \in DOMAIN calls /\ i - k # 1
      BY <1>5, <2>3
    <3> QED BY <2>3, <3>1 DEF Ordered
  <2> QED BY <1>7, <2>1, <2>2, <2>3
<1>12. Ordered(c)
  BY <1>5, <1>8, <1>10, <1>11 DEF Ordered
<1>13. c # <<>> /\ Head(c).rq.kind # "rewrite"
  <2>1. 1 \in 1 .. k + n
    BY <1>5
  <2>2. c # <<>> /\ Head(c) = c[1]
    BY <1>2, <1>5, <2>1
  <2> QED BY <1>11, <2>1, <2>2
<1> QED BY <1>12, <1>13 DEF c

\* Under a call that is not a restore nothing waits for a row.
LEMMA PlainUnder ==
  ASSUME NEW c \in Seq(CallSet), c # <<>>, Ordered(c), Head(c).rq.kind # "restore"
  PROVE  \A i \in DOMAIN Tail(c) : /\ Tail(c)[i].step = "start"
                                   /\ Tail(c)[i].rq.kind # "rewrite"
                                   /\ Tail(c)[i].rq.user = Head(c).rq.user
<1> DEFINE t == Tail(c)
<1>1. /\ t \in Seq(CallSet) /\ DOMAIN t = 1 .. Len(c) - 1 /\ DOMAIN c = 1 .. Len(c)
      /\ \A i \in DOMAIN t : t[i] = c[i + 1] /\ i + 1 \in DOMAIN c
      /\ Head(c) = c[1] /\ 1 \in DOMAIN c /\ Len(c) \in Nat
  BY Top
<1> HIDE DEF t
<1> SUFFICES ASSUME NEW i \in DOMAIN t
             PROVE  /\ t[i].step = "start" /\ t[i].rq.kind # "rewrite"
                    /\ t[i].rq.user = c[1].rq.user
  BY <1>1 DEF t
<1>2. i + 1 \in DOMAIN c /\ t[i] = c[i + 1] /\ 1 < i + 1 /\ i + 1 # 1
  BY <1>1
<1>3. c[i + 1].step # "loaded" /\ c[i + 1].rq.kind # "rewrite"
      /\ c[i + 1].rq.user = c[1].rq.user
  BY <1>1, <1>2 DEF Ordered
<1>4. t[i] \in CallSet
  BY <1>1
<1> QED BY <1>2, <1>3, <1>4 DEF CallSet

LEMMA TakesOrdered ==
  ASSUME TypeOK, Ordered(calls), Accesses, Takes
  PROVE  /\ Ordered(calls') /\ NoRestore(calls')
         /\ calls' # <<>> /\ Head(calls').step = "start"
         /\ Head(calls').rq = [rq EXCEPT !.kind = "rewrite"]
<1> DEFINE h == [step |-> "start", rq |-> [rq EXCEPT !.kind = "rewrite"]]
           a == <<h>>
           t == Tail(calls)
<1>1. /\ calls \in Seq(CallSet) /\ calls # <<>> /\ rq = calls[1].rq /\ Head(calls) = calls[1]
      /\ rq \in Request /\ rq.kind \in Gets
  BY AccessTop
<1>2. rq.kind # "restore" /\ Head(calls).rq.kind # "restore"
  BY <1>1 DEF Gets
<1>3. h \in CallSet /\ h.step = "start" /\ h.rq = [rq EXCEPT !.kind = "rewrite"]
      /\ h.rq.kind = "rewrite" /\ h.rq.user = rq.user
  BY <1>1 DEF CallSet, Request
<1>4. Ordered(t) /\ NoRestore(t) /\ t \in Seq(CallSet)
  BY <1>1, <1>2, OrderedTail, Top
<1>5. \A i \in DOMAIN t : t[i].step = "start" /\ t[i].rq.kind # "rewrite"
                          /\ t[i].rq.user = rq.user
  BY <1>1, <1>2, PlainUnder
<1> HIDE DEF h, t
<1>6. a \in Seq(CallSet) /\ Len(a) = 1 /\ DOMAIN a = {1} /\ a[1] = h
  BY <1>3
<1>7. calls' = a \o t
  BY DEF Takes, h, t
<1>8. calls' # <<>> /\ Head(calls') = h
  BY <1>3, <1>4, <1>7
<1> HIDE DEF a
<1>9. \A i \in DOMAIN a : /\ a[i].step = "start" /\ a[i].rq.user = rq.user
                          /\ a[i].rq.kind \notin {"restore", "put"}
                          /\ a[i].rq.kind = "rewrite" => Len(a) = 1
  BY <1>3, <1>6
<1>10. Ordered(a \o t) /\ NoRestore(a \o t)
  BY <1>4, <1>5, <1>6, <1>9, OrderedUnder
<1> QED BY <1>3, <1>7, <1>8, <1>10

LEMMA ListOrdered ==
  ASSUME TypeOK, Ordered(calls), ListFiles
  PROVE  /\ Ordered(calls') /\ NoRestore(calls')
         /\ calls' # <<>> => Head(calls').step = "start" /\ Head(calls').rq.kind # "rewrite"
<1> DEFINE t == Tail(calls)
<1>1. PICK a \in Seq(CallSet) :
        /\ calls' = a \o t
        /\ \A i \in DOMAIN a : /\ a[i].step = "start" /\ a[i].rq.kind = "get"
                               /\ a[i].rq.user = rq.user
  BY ListCalls
<1>2. /\ calls \in Seq(CallSet) /\ calls # <<>> /\ rq = calls[1].rq /\ Head(calls) = calls[1]
      /\ rq.kind = "list"
  BY AtTop DEF ListFiles
<1>3. Head(calls).rq.kind # "restore"
  BY <1>2
<1>4. Ordered(t) /\ NoRestore(t) /\ t \in Seq(CallSet)
  BY <1>2, <1>3, OrderedTail, Top
<1>5. \A i \in DOMAIN t : t[i].step = "start" /\ t[i].rq.kind # "rewrite"
                          /\ t[i].rq.user = rq.user
  BY <1>2, <1>3, PlainUnder
<1> HIDE DEF t
<1>6. Ordered(a \o t) /\ NoRestore(a \o t)
  BY <1>1, <1>4, <1>5, OrderedUnder
<1>7. ASSUME calls' # <<>>
      PROVE Head(calls').step = "start" /\ Head(calls').rq.kind # "rewrite"
  <2>1. CASE a = <<>>
    <3>1. calls' = t
      BY <1>1, <1>4, <2>1
    <3>2. 1 \in DOMAIN t /\ Head(t) = t[1]
      BY <1>4, <1>7, <3>1
    <3> QED BY <1>5, <3>1, <3>2
  <2>2. CASE a # <<>>
    <3>1. 1 \in DOMAIN a /\ Head(a \o t) = a[1]
      BY <1>4, <2>2
    <3> QED BY <1>1, <3>1
  <2> QED BY <2>1, <2>2
<1> QED BY <1>1, <1>6, <1>7

LEMMA ReturnInOrder ==
  ASSUME calls \in Seq(CallSet), calls # <<>>, Ordered(calls), Return
  PROVE  StackInOrder'
<1>1. Ordered(calls') /\ (calls' # <<>> => Head(calls').rq.kind # "rewrite")
  BY OrderedTail DEF Return
<1> QED BY <1>1 DEF StackInOrder, rq

LEMMA StackKept ==
  ASSUME TypeOK, StackInOrder, [Next]_vars
  PROVE  StackInOrder'
<1>0. Ordered(calls)
  BY DEF StackInOrder
<1>1. CASE UNCHANGED vars
  BY <1>1 DEF StackInOrder, rq, InMemory, vars, cache, memory
<1>2. CASE Receive
  <2>1. PICK r \in Request : /\ Arrive(r)
                             /\ r.kind \in {"put", "get", "cput", "dele", "rename", "list"}
    BY <1>2, Arrives
  <2> DEFINE h == [step |-> "start", rq |-> r]
  <2>2. calls' = <<h>> /\ h.step = "start" /\ h.rq = r
    BY <2>1 DEF Arrive
  <2> HIDE DEF h
  <2>3. DOMAIN calls' = {1} /\ calls'[1] = h /\ Head(calls') = h
    BY <2>2
  <2>4. Ordered(calls')
    BY <2>1, <2>2, <2>3 DEF Ordered
  <2> QED BY <2>1, <2>2, <2>3, <2>4 DEF StackInOrder, rq
<1>3. CASE Refuse \/ Drop \/ PutNew \/ Stores \/ Ignores \/ Cuts
  <2>1. Return /\ \E step, kinds : At(step, kinds)
    BY <1>3 DEF Refuse, Drop, PutNew, Stores, StoreInRow, Ignores, Cuts
  <2> QED BY <1>0, <2>1, AtTop, ReturnInOrder
<1>4. CASE Loads
  BY <1>0, <1>4, LoadOrdered DEF StackInOrder, rq
<1>5. CASE Evict
  <2>1. calls' = calls /\ rq.kind \in Puts
    BY <1>5 DEF Evict, At
  <2> QED BY <1>0, <2>1 DEF StackInOrder, rq, Puts
<1>6. CASE Accesses
  <2>1. CASE Takes
    <3>1. calls' # <<>> /\ Ordered(calls') /\ Head(calls').rq = [rq EXCEPT !.kind = "rewrite"]
      BY <1>0, <1>6, <2>1, TakesOrdered
    <3>2. rq \in Request /\ InMemory(rq.user)
      BY <1>6, AccessTop DEF Accesses
    <3>3. Head(calls').rq.user = rq.user
      BY <3>1, <3>2 DEF Request
    <3>4. tablets' = tablets
      BY <2>1 DEF Takes
    <3> QED BY <3>1, <3>2, <3>3, <3>4 DEF StackInOrder, rq, InMemory
  <2>2. CASE ~Takes
    <3>1. Return
      BY <1>6, <2>2, AccessKinds DEF Erase, Rename
    <3> QED BY <1>0, <1>6, <3>1, AccessTop, ReturnInOrder
  <2> QED BY <2>1, <2>2
<1>7. CASE Breaks
  <2>1. calls' = <<>>
    BY <1>7 DEF Breaks, Segfault
  <2>2. DOMAIN calls' = {}
    BY <2>1
  <2> QED BY <2>1, <2>2 DEF StackInOrder, Ordered
<1>8. CASE ListFiles
  BY <1>0, <1>8, ListOrdered DEF StackInOrder, rq
<1> QED BY <1>1, <1>2, <1>3, <1>4, <1>5, <1>6, <1>7, <1>8, StepKinds

-----------------------------------------------------------------------------
(***************************************************************************)
(* Nothing is mislaid.                                                     *)
(***************************************************************************)
LEMMA PendingPlain ==
  ASSUME NEW c, NEW u, NEW f, NEW held, NEW d, \A i \in DOMAIN c : ~Restoring(c, i, u, f)
  PROVE  Pending(c, u, f, held, d) <=> held = d
BY DEF Pending

LEMMA PendingPop ==
  ASSUME NEW c \in Seq(CallSet), c # <<>>, NEW u, NEW f, NEW held, NEW d,
         Pending(c, u, f, held, d), ~Restoring(c, 1, u, f)
  PROVE  Pending(Tail(c), u, f, held, d)
<1> DEFINE t == Tail(c)
<1>1. /\ DOMAIN t = 1 .. Len(c) - 1 /\ DOMAIN c = 1 .. Len(c) /\ Len(c) \in Nat
      /\ \A i \in DOMAIN t : t[i] = c[i + 1] /\ i + 1 \in DOMAIN c
  BY Top
<1> HIDE DEF t
<1>2. \A i \in DOMAIN t : Restoring(t, i, u, f) <=> Restoring(c, i + 1, u, f)
  BY <1>1 DEF Restoring
<1>3. CASE \A i \in DOMAIN c : ~Restoring(c, i, u, f)
  BY <1>1, <1>2, <1>3 DEF Pending, t
<1>4. ASSUME NEW i \in DOMAIN c, Restoring(c, i, u, f)
      PROVE  Pending(t, u, f, held, d)
  <2>1. /\ \A j \in DOMAIN c : Restoring(c, j, u, f) => j = i
        /\ c[i].rq.len = d /\ d # NoFile /\ held = NoFile
    BY <1>4 DEF Pending
  <2>2. i - 1 \in DOMAIN t /\ (i - 1) + 1 = i
    BY <1>1, <1>4
  <2>3. Restoring(t, i - 1, u, f) /\ t[i - 1].rq.len = d
    BY <1>1, <1>2, <1>4, <2>1, <2>2
  <2>4. \A j \in DOMAIN t : Restoring(t, j, u, f) => j = i - 1
    BY <1>1, <1>2, <2>1
  <2> QED BY <2>1, <2>2, <2>3, <2>4 DEF Pending
<1> QED BY <1>3, <1>4 DEF t

LEMMA PendingDone ==
  ASSUME NEW c \in Seq(CallSet), c # <<>>, NEW u, NEW f, NEW held, NEW d,
         Pending(c, u, f, held, d), Restoring(c, 1, u, f)
  PROVE  /\ held = NoFile /\ d = c[1].rq.len /\ d # NoFile
         /\ \A x : Pending(Tail(c), u, f, x, x)
<1> DEFINE t == Tail(c)
<1>1. /\ DOMAIN t = 1 .. Len(c) - 1 /\ DOMAIN c = 1 .. Len(c) /\ Len(c) \in Nat
      /\ \A i \in DOMAIN t : t[i] = c[i + 1] /\ i + 1 \in DOMAIN c
      /\ 1 \in DOMAIN c
  BY Top
<1> HIDE DEF t
<1>2. /\ \A j \in DOMAIN c : Restoring(c, j, u, f) => j = 1
      /\ d = c[1].rq.len /\ d # NoFile /\ held = NoFile
  BY <1>1 DEF Pending
<1>3. ASSUME NEW i \in DOMAIN t PROVE ~Restoring(t, i, u, f)
  <2>1. i + 1 \in DOMAIN c /\ i + 1 # 1 /\ t[i] = c[i + 1]
    BY <1>1
  <2>2. ~Restoring(c, i + 1, u, f)
    BY <1>2, <2>1
  <2> QED BY <2>1, <2>2 DEF Restoring
<1> QED BY <1>2, <1>3 DEF Pending, t

LEMMA HeldFacts ==
  ASSUME TypeOK, NEW u \in Users
  PROVE  /\ Held(u) \in Row
         /\ InMemory(u) => Held(u) = RowOf(u)
         /\ ~InMemory(u) /\ InVirMem(u) => Held(u) = virmem[u]
         /\ ~InMemory(u) /\ ~InVirMem(u) => Held(u) = EmptyRow
<1>1. InMemory(u) => RowOf(u) \in Row
  BY RowInMemory
<1>2. InVirMem(u) => virmem[u] \in Row
  BY TypeFacts DEF InVirMem
<1>3. EmptyRow \in Row
  BY RowFacts
<1>4. CASE InMemory(u)
  BY <1>1, <1>4 DEF Held
<1>5. CASE ~InMemory(u) /\ InVirMem(u)
  BY <1>2, <1>5 DEF Held
<1>6. CASE ~InMemory(u) /\ ~InVirMem(u)
  BY <1>3, <1>6 DEF Held
<1> QED BY <1>4, <1>5, <1>6

LEMMA HeldSame ==
  ASSUME NEW u, tablets'[u] = tablets[u], virmem'[u] = virmem[u],
         InMemory(u) => value'[tablets[u]] = value[tablets[u]]
  PROVE  Held(u)' = Held(u)
<1>1. (InMemory(u)' <=> InMemory(u)) /\ (InVirMem(u)' <=> InVirMem(u))
  BY DEF InMemory, InVirMem
<1>2. InMemory(u) => RowOf(u)' = RowOf(u)
  BY DEF RowOf
<1>3. CASE InMemory(u)
  BY <1>1, <1>2, <1>3 DEF Held
<1>4. CASE ~InMemory(u) /\ InVirMem(u)
  BY <1>1, <1>4 DEF Held
<1>5. CASE ~InMemory(u) /\ ~InVirMem(u)
  BY <1>1, <1>5 DEF Held
<1> QED BY <1>3, <1>4, <1>5

\* Between loads everybody has what is due.
LEMMA HeldIsDue ==
  ASSUME TypeOK, NothingMislaid, ~crashed, NoRestore(calls), NEW u \in Users, u \notin mark.lost
  PROVE  Held(u) = due[u]
<1>1. \A f \in Files : Held(u)[f] = due[u][f]
  BY PendingPlain DEF NothingMislaid, NoRestore, Restoring
<1>2. Held(u) \in Row /\ due[u] \in Row
  BY HeldFacts, TypeFacts
<1> QED BY <1>1, <1>2 DEF Row

\* A step after which nobody waits for a file.
LEMMA HeldStaysDue ==
  ASSUME NoRestore(calls'), \A u \in Users \ mark'.lost : Held(u)' = due'[u]
  PROVE  NothingMislaid'
<1> SUFFICES ASSUME NEW u \in Users \ mark'.lost, NEW f \in Files
             PROVE  Pending(calls', u, f, Held(u)'[f], due'[u][f])
  BY DEF NothingMislaid
<1>1. \A i \in DOMAIN calls' : ~Restoring(calls', i, u, f)
  BY DEF NoRestore, Restoring
<1> QED BY <1>1, PendingPlain

\* A call returns and has put no file anywhere.
LEMMA PopMislaysNothing ==
  ASSUME calls \in Seq(CallSet), calls # <<>>, NothingMislaid, Return,
         crashed' = crashed, due' = due, mark.lost \subseteq mark'.lost,
         calls[1].rq.kind # "restore",
         \A u \in Users : Held(u)' = Held(u)
  PROVE  NothingMislaid'
<1> SUFFICES ASSUME ~crashed, NEW u \in Users \ mark.lost, NEW f \in Files
             PROVE  Pending(Tail(calls), u, f, Held(u)[f], due[u][f])
  BY DEF NothingMislaid, Return
<1>1. Pending(calls, u, f, Held(u)[f], due[u][f])
  BY DEF NothingMislaid
<1>2. ~Restoring(calls, 1, u, f)
  BY DEF Restoring
<1> QED BY <1>1, <1>2, PendingPop

\* A put writes its file and returns.
LEMMA PutMislaysNothing ==
  ASSUME TypeOK, Ordered(calls), NothingMislaid, calls # <<>>,
         rq.kind \in {"put", "restore", "rewrite"}, Return, Count,
         crashed' = crashed, mark'.lost = mark.lost,
         NEW v, NEW g, v = rq.user, g = rq.file,
         \A u \in Users : u # v => Held(u)' = Held(u),
         Held(v)' = [Held(v) EXCEPT ![g] = IF rq.kind = "rewrite" THEN rq.len
                                           ELSE Held(v)[g] + rq.len]
  PROVE  NothingMislaid'
<1> SUFFICES ASSUME ~crashed, NEW u \in Users \ mark.lost, NEW f \in Files
             PROVE  Pending(Tail(calls), u, f, Held(u)'[f], due'[u][f])
  BY DEF NothingMislaid, Return
<1> DEFINE t == Tail(calls)
<1>1. /\ calls \in Seq(CallSet) /\ rq = calls[1].rq /\ Head(calls) = calls[1]
      /\ v \in Users /\ g \in Files /\ rq.len \in Nat
  <2>1. calls \in Seq(CallSet)
    BY TypeFacts
  <2>2. Head(calls) = calls[1] /\ Head(calls).rq \in Request
    BY <2>1, Top
  <2> QED BY <2>1, <2>2 DEF rq, Request
<1>2. /\ \A w \in Users : Held(w) \in Row /\ due[w] \in Row
      /\ due \in [Users -> Row]
  BY HeldFacts, TypeFacts
<1>3. Pending(calls, u, f, Held(u)[f], due[u][f])
  BY DEF NothingMislaid
<1>4. /\ rq.kind = "put" => due' = [due EXCEPT ![v][g] = due[v][g] + rq.len]
      /\ rq.kind = "rewrite" => due' = [due EXCEPT ![v][g] = rq.len]
      /\ rq.kind = "restore" => due' = due
  BY DEF Count
<1> HIDE DEF t
<1>5. ASSUME NEW n, NEW e, e = [due EXCEPT ![v][g] = n]
      PROVE  /\ e[v][g] = n
             /\ \A w \in Users, h \in Files : w # v \/ h # g => e[w][h] = due[w][h]
  <2>1. e[v] = [due[v] EXCEPT ![g] = n] /\ \A w \in Users : w # v => e[w] = due[w]
    BY <1>1, <1>2, <1>5
  <2>2. due[v] = [h \in Files |-> due[v][h]]
    BY <1>1, <1>2 DEF Row
  <2> QED BY <1>1, <2>1, <2>2
<1>6. CASE u # v \/ f # g
  <2>1. ~Restoring(calls, 1, u, f)
    BY <1>1, <1>6 DEF Restoring
  <2>2. Pending(t, u, f, Held(u)[f], due[u][f])
    BY <1>1, <1>3, <2>1, PendingPop DEF t
  <2>3. Held(u)'[f] = Held(u)[f]
    <3>1. CASE u # v
      BY <3>1
    <3>2. CASE u = v /\ f # g
      BY <1>1, <1>2, <3>2 DEF Row
    <3> QED BY <1>6, <3>1, <3>2
  <2>4. due'[u][f] = due[u][f]
    <3>1. \E n : due' = [due EXCEPT ![v][g] = n] \/ due' = due
      BY <1>4
    <3>2. PICK n : due' = [due EXCEPT ![v][g] = n] \/ due' = due
      BY <3>1
    <3>3. \A w \in Users, h \in Files : w # v \/ h # g => due'[w][h] = due[w][h]
      BY <1>5, <3>2
    <3> QED BY <1>6, <3>3
  <2> QED BY <2>2, <2>3, <2>4 DEF t
<1>7. CASE u = v /\ f = g
  <2>1. Held(u)'[f] = IF rq.kind = "rewrite" THEN rq.len ELSE Held(u)[f] + rq.len
    BY <1>1, <1>2, <1>7 DEF Row
  <2>2. Held(u)[f] \in Nat /\ due[u][f] \in Nat
    BY <1>2 DEF Row
  <2>3. CASE rq.kind # "restore"
    <3>1. NoRestore(calls) /\ NoRestore(t)
      BY <1>1, <2>3, OrderedTail DEF t
    <3>2. Held(u)[f] = due[u][f]
      BY <1>3, <3>1, PendingPlain DEF NoRestore, Restoring
    <3>3. due'[u][f] = Held(u)'[f]
      <4>1. /\ rq.kind = "put" => due'[v][g] = due[v][g] + rq.len
            /\ rq.kind = "rewrite" => due'[v][g] = rq.len
        BY <1>4, <1>5, ZenonT(30)
      <4> QED BY <1>7, <2>1, <2>3, <3>2, <4>1
    <3> QED BY <3>1, <3>3, PendingPlain, ZenonT(30) DEF NoRestore, Restoring, t
  <2>4. CASE rq.kind = "restore"
    <3>1. Restoring(calls, 1, u, f)
      BY <1>1, <1>7, <2>4 DEF Restoring
    <3>2. Held(u)[f] = NoFile /\ due[u][f] = rq.len
      BY <1>1, <1>3, <3>1, PendingDone
    <3>3. Pending(t, u, f, due[u][f], due[u][f])
      BY <1>1, <1>3, <3>1, PendingDone DEF t
    <3>4. Held(u)'[f] = due[u][f] /\ due'[u][f] = due[u][f]
      BY <1>4, <2>1, <2>2, <2>4, <3>2 DEF NoFile
    <3> QED BY <3>3, <3>4 DEF t
  <2> QED BY <2>3, <2>4
<1> QED BY <1>6, <1>7

LEMMA PutNewMislays ==
  ASSUME TypeOK, OnePlace, Ordered(calls), NothingMislaid, PutNew
  PROVE  NothingMislaid'
<1> DEFINE N == Len(key)
           row == [EmptyRow EXCEPT ![rq.file] = rq.len]
<1>1. At("start", Puts)
  BY DEF PutNew
<1>2. /\ rq.user \in Users /\ rq.file \in Files /\ rq.len \in Nat /\ rq.kind \in Puts
      /\ calls # <<>>
  BY <1>1, AtTop
<1>3. /\ value' = Append(value, row) /\ tablets' = [tablets EXCEPT ![rq.user] = N + 1]
      /\ virmem' = virmem /\ crashed' = crashed /\ mark' = mark
      /\ ~InMemory(rq.user) /\ ~InVirMem(rq.user) /\ Count /\ Return
  BY DEF PutNew
<1>4. /\ value \in Seq(Row) /\ Len(value) = N /\ N \in Nat
      /\ tablets \in [Users -> 1 .. N \cup {Null}]
  BY TypeFacts, ListTyped
<1>5. value'[N + 1] = row /\ \A i \in 1 .. N : value'[i] = value[i]
  BY <1>3, <1>4
<1>6. ASSUME NEW u \in Users, u # rq.user PROVE Held(u)' = Held(u)
  <2>1. tablets'[u] = tablets[u] /\ virmem'[u] = virmem[u]
    BY <1>3, <1>4, <1>6
  <2>2. InMemory(u) => value'[tablets[u]] = value[tablets[u]]
    BY <1>4, <1>5 DEF InMemory
  <2> QED BY <2>1, <2>2, HeldSame
<1>7. PICK v : v = rq.user
  OBVIOUS
<1>8. Held(v)' = row
  <2>1. tablets'[v] = N + 1 /\ N + 1 # Null
    BY <1>2, <1>3, <1>4, <1>7 DEF Null
  <2> QED BY <1>5, <2>1 DEF Held, InMemory, RowOf
<1>9. Held(rq.user) = EmptyRow /\ EmptyRow[rq.file] + rq.len = rq.len
  BY <1>2, <1>3, HeldFacts DEF EmptyRow, NoFile
<1>10. rq.kind \in {"put", "restore", "rewrite"} /\ rq.kind # "rewrite"
  BY <1>2 DEF Puts
<1> QED BY <1>2, <1>3, <1>6, <1>7, <1>8, <1>9, <1>10, PutMislaysNothing

\* The row in memory changes or, empty, leaves it; nobody else's does.
LEMMA RowChanges ==
  ASSUME TypeOK, OnePlace, NEW v \in Users, InMemory(v), NEW row,
         value' = [value EXCEPT ![tablets[v]] = row], virmem' = virmem,
         \/ tablets' = tablets
         \/ row = EmptyRow /\ tablets' = [tablets EXCEPT ![v] = Null]
  PROVE  /\ \A u \in Users : u # v => Held(u)' = Held(u)
         /\ Held(v)' = row
<1> DEFINE n == tablets[v]
<1>1. n \in 1 .. Len(key) /\ value \in Seq(Row) /\ Len(value) = Len(key)
  BY RowInMemory, TypeFacts
<1> HIDE DEF n
<1>2. value'[n] = row /\ \A i \in 1 .. Len(key) : i # n => value'[i] = value[i]
  BY <1>1 DEF n
<1>3. ASSUME NEW u \in Users, u # v PROVE Held(u)' = Held(u)
  <2>1. InMemory(u) => tablets[u] # n /\ tablets[u] \in 1 .. Len(key)
    BY <1>3, RowInMemory DEF OnePlace, n
  <2>2. tablets'[u] = tablets[u]
    BY <1>3, TypeFacts
  <2> QED BY <1>2, <2>1, <2>2, HeldSame
<1>4. Held(v)' = row
  <2>1. CASE tablets' = tablets
    BY <1>2, <2>1 DEF Held, InMemory, RowOf, n
  <2>2. CASE row = EmptyRow /\ tablets' = [tablets EXCEPT ![v] = Null]
    <3>1. tablets'[v] = Null /\ virmem'[v] = None
      BY <2>2, TypeFacts DEF OnePlace, InVirMem
    <3> QED BY <2>2, <3>1 DEF Held, InMemory, InVirMem
  <2> QED BY <2>1, <2>2
<1> QED BY <1>3, <1>4

LEMMA StoreMislays ==
  ASSUME TypeOK, OnePlace, Ordered(calls), NothingMislaid, Stores
  PROVE  NothingMislaid'
<1>1. /\ rq.user \in Users /\ rq.file \in Files /\ calls # <<>> /\ InMemory(rq.user)
      /\ rq.kind \in {"put", "restore", "rewrite"}
  BY StoresTop DEF Stores
<1> DEFINE row == [RowOf(rq.user) EXCEPT ![rq.file] = Stored]
<1>2. /\ value' = [value EXCEPT ![tablets[rq.user]] = row]
      /\ tablets' = tablets /\ virmem' = virmem /\ crashed' = crashed
      /\ Count /\ Return
  BY DEF Stores, StoreInRow, RowOf
<1>3. mark'.lost = mark.lost
  <2>1. mark' = [mark EXCEPT !.relinked = TRUE]
    BY DEF Stores, StoreInRow
  <2> QED BY <2>1, TypeFacts, MarkEffects
<1>4. Held(rq.user) = RowOf(rq.user)
  BY <1>1, HeldFacts
<1>5. row = [Held(rq.user) EXCEPT ![rq.file] = IF rq.kind = "rewrite" THEN rq.len
                                               ELSE Held(rq.user)[rq.file] + rq.len]
  BY <1>4 DEF Stored
<1> HIDE DEF row
<1>6. PICK v : v = rq.user
  OBVIOUS
<1>7. (\A u \in Users : u # v => Held(u)' = Held(u)) /\ Held(v)' = row
  BY <1>1, <1>2, <1>6, RowChanges
<1> QED BY <1>1, <1>2, <1>3, <1>5, <1>6, <1>7, PutMislaysNothing

\* The requests on the stack after load_user_from_disk, place by place.
LEMMA LoadPlaces ==
  ASSUME TypeOK, Loads
  PROVE  LET R == Restores(rq.user)
             k == Len(R)
             n == Len(calls)
         IN  /\ virmem[rq.user] \in Row /\ rq.user \in Users /\ ~crashed
             /\ k \in Nat /\ n \in Nat /\ DOMAIN R = 1 .. k /\ DOMAIN calls = 1 .. n
             /\ DOMAIN calls' = 1 .. k + n
             /\ \A j \in 1 .. k : calls'[j] = R[j]
             /\ \A i \in 1 .. n : calls'[k + i].rq = calls[i].rq
             /\ calls'[k + 1].step = "loaded" /\ calls # <<>> /\ rq = calls[1].rq
<1> DEFINE R == Restores(rq.user)
           k == Len(R)
           n == Len(calls)
<1>1. PICK step, kinds : At(step, kinds) /\ kinds = Puts \cup Gets
  BY DEF Loads
<1>2. /\ virmem[rq.user] \in Row
      /\ R \in Seq(CallSet) /\ calls' \in Seq(CallSet)
      /\ Len(calls') = k + n
      /\ \A i \in 1 .. k : calls'[i] = R[i]
      /\ calls'[k + 1].step = "loaded" /\ calls'[k + 1].rq = rq
      /\ \A i \in 2 .. n : calls'[k + i] = calls[i]
  BY <1>1, LoadCalls DEF Loads
<1>3. /\ calls \in Seq(CallSet) /\ calls # <<>> /\ rq = calls[1].rq /\ rq.user \in Users
      /\ ~crashed
  BY <1>1, AtTop
<1>4. k \in Nat /\ n \in Nat /\ DOMAIN R = 1 .. k /\ DOMAIN calls = 1 .. n
  BY <1>2, <1>3
<1>5. DOMAIN calls' = 1 .. k + n
  BY <1>2
<1> HIDE DEF R, k, n
<1>6. ASSUME NEW i \in 1 .. n PROVE calls'[k + i].rq = calls[i].rq
  <2>1. i = 1 \/ i \in 2 .. n
    BY <1>4
  <2> QED BY <1>2, <1>3, <2>1
<1> QED BY <1>2, <1>3, <1>4, <1>5, <1>6 DEF R, k, n

LEMMA LoadMislays ==
  ASSUME TypeOK, OnePlace, Ordered(calls), NothingMislaid, Loads
  PROVE  NothingMislaid'
<1> DEFINE R == Restores(rq.user)
           k == Len(R)
           n == Len(calls)
           c == calls'
<1>1. /\ virmem[rq.user] \in Row /\ rq.user \in Users /\ ~crashed
      /\ k \in Nat /\ n \in Nat /\ DOMAIN R = 1 .. k /\ DOMAIN calls = 1 .. n
      /\ DOMAIN c = 1 .. k + n
      /\ \A j \in 1 .. k : c[j] = R[j]
      /\ \A i \in 1 .. n : c[k + i].rq = calls[i].rq
      /\ calls # <<>> /\ rq = calls[1].rq
  BY LoadPlaces
<1>2. PICK v, row : v = rq.user /\ row = virmem[rq.user]
  OBVIOUS
<1>3. /\ \A i \in DOMAIN R : /\ R[i].rq.kind = "restore" /\ R[i].rq.user = v
                             /\ R[i].rq.file \in Files
                             /\ R[i].rq.len = row[R[i].rq.file] /\ R[i].rq.len # NoFile
      /\ \A f \in Files : row[f] # NoFile => \E i \in DOMAIN R : R[i].rq.file = f
      /\ \A i, j \in DOMAIN R : R[i].rq.file = R[j].rq.file => i = j
  <2>1. PutsBack(R, v, row)
    BY <1>1, <1>2, RestoresOfRow
  <2> HIDE DEF R
  <2> QED BY <2>1 DEF PutsBack
<1>4. virmem' = [virmem EXCEPT ![v] = None] /\ UNCHANGED <<tablets, value, due, mark>>
  BY <1>2 DEF Loads, Load, memory, heap, story
<1>5. ~InMemory(v) /\ InVirMem(v)
  BY <1>1, <1>2 DEF OnePlace, Loads
<1> HIDE DEF R, k, n, c
<1>6. Held(v) = row /\ Held(v)' = EmptyRow
  <2>1. Held(v) = row
    BY <1>1, <1>2, <1>5, HeldFacts
  <2>2. tablets'[v] = Null /\ virmem'[v] = None
    BY <1>1, <1>2, <1>4, <1>5, TypeFacts DEF InMemory
  <2> QED BY <2>1, <2>2 DEF Held, InMemory, InVirMem
<1>7. ASSUME NEW u \in Users, u # v PROVE Held(u)' = Held(u)
  <2>1. virmem'[u] = virmem[u]
    BY <1>4, <1>7, TypeFacts
  <2> QED BY <1>4, <2>1, HeldSame
<1>8. \A i \in 1 .. n : calls[i].rq.user = v
  <2>1. 1 \in 1 .. n
    <3>1. n # 0
      BY <1>1, TypeFacts DEF n
    <3> QED BY <1>1, <3>1
  <2> QED BY <1>1, <1>2, <2>1 DEF Ordered
<1>9. ASSUME NEW j \in 1 .. k + n
      PROVE  (j \in 1 .. k /\ c[j] = R[j]) \/ (j - k \in 1 .. n /\ c[j].rq = calls[j - k].rq)
  <2>1. j \in 1 .. k \/ (j - k \in 1 .. n /\ k + (j - k) = j)
    BY <1>1
  <2> QED BY <1>1, <2>1
<1> SUFFICES ASSUME NEW u \in Users \ mark.lost, NEW f \in Files
             PROVE  Pending(c, u, f, Held(u)'[f], due[u][f])
  BY <1>4 DEF NothingMislaid, c
<1>10. Pending(calls, u, f, Held(u)[f], due[u][f])
  BY <1>1 DEF NothingMislaid
<1>11. CASE u # v
  <2>1. \A i \in DOMAIN calls : ~Restoring(calls, i, u, f)
    BY <1>1, <1>8, <1>11 DEF Restoring
  <2>2. \A j \in DOMAIN c : ~Restoring(c, j, u, f)
    BY <1>1, <1>3, <1>8, <1>9, <1>11 DEF Restoring
  <2> QED BY <1>7, <1>10, <1>11, <2>1, <2>2, PendingPlain
<1>12. CASE u = v /\ row[f] # NoFile
  <2>1. /\ \A i \in DOMAIN calls : ~Restoring(calls, i, v, f)
        /\ row[f] = due[v][f]
    BY <1>6, <1>10, <1>12 DEF Pending
  <2>2. PICK i \in DOMAIN R : R[i].rq.file = f
    BY <1>3, <1>12
  <2>3. i \in DOMAIN c /\ Restoring(c, i, v, f) /\ c[i].rq.len = due[v][f]
    BY <1>1, <1>3, <2>1, <2>2 DEF Restoring
  <2>4. ASSUME NEW j \in DOMAIN c, Restoring(c, j, v, f) PROVE j = i
    <3>1. ~(j - k \in 1 .. n /\ c[j].rq = calls[j - k].rq)
      BY <1>1, <2>1, <2>4 DEF Restoring
    <3>2. j \in 1 .. k /\ c[j] = R[j]
      BY <1>1, <1>9, <3>1
    <3> QED BY <1>1, <1>3, <2>2, <2>4, <3>2 DEF Restoring
  <2>5. Held(u)'[f] = NoFile
    BY <1>6, <1>12 DEF EmptyRow
  <2> QED BY <1>12, <2>1, <2>3, <2>4, <2>5 DEF Pending
<1>13. CASE u = v /\ row[f] = NoFile
  <2>1. Held(u)'[f] = NoFile /\ Held(u)[f] = NoFile
    BY <1>6, <1>13 DEF EmptyRow
  <2>2. ASSUME NEW j \in DOMAIN c, Restoring(c, j, v, f)
        PROVE j - k \in DOMAIN calls /\ Restoring(calls, j - k, v, f)
    <3>1. ~(j \in 1 .. k /\ c[j] = R[j])
      BY <1>1, <1>3, <1>13, <2>2 DEF Restoring
    <3> QED BY <1>1, <1>9, <2>2, <3>1 DEF Restoring
  <2>3. CASE \A i \in DOMAIN calls : ~Restoring(calls, i, v, f)
    <3>1. \A j \in DOMAIN c : ~Restoring(c, j, v, f)
      BY <2>2, <2>3
    <3> QED BY <1>10, <1>13, <2>1, <2>3, <3>1, PendingPlain
  <2>4. ASSUME NEW i \in DOMAIN calls, Restoring(calls, i, v, f)
        PROVE  Pending(c, v, f, NoFile, due[v][f])
    <3>1. /\ \A j \in DOMAIN calls : Restoring(calls, j, v, f) => j = i
          /\ calls[i].rq.len = due[v][f] /\ due[v][f] # NoFile
      BY <1>10, <1>13, <2>4 DEF Pending
    <3>2. k + i \in DOMAIN c /\ c[k + i].rq = calls[i].rq
      BY <1>1, <2>4
    <3>3. Restoring(c, k + i, v, f) /\ c[k + i].rq.len = due[v][f]
      BY <2>4, <3>1, <3>2 DEF Restoring
    <3>4. ASSUME NEW j \in DOMAIN c, Restoring(c, j, v, f) PROVE j = k + i
      <4>1. j - k = i
        BY <2>2, <3>1, <3>4
      <4> QED BY <1>1, <4>1
    <3> QED BY <3>1, <3>2, <3>3, <3>4 DEF Pending
  <2> QED BY <1>13, <2>1, <2>3, <2>4
<1> QED BY <1>11, <1>12, <1>13

LEMMA EvictMislays ==
  ASSUME TypeOK, OnePlace, NothingMislaid, Evict
  PROVE  NothingMislaid'
<1>1. PICK n, v :
        /\ n \in 1 .. Len(key) /\ v \in Users /\ v = key[n] /\ value[n] \in Row
        /\ virmem' = [virmem EXCEPT ![v] = value[n]]
        /\ tablets' = [tablets EXCEPT ![v] = Null]
        /\ mark'.lost = IF tablets[v] = n THEN mark.lost ELSE mark.lost \cup {v}
        /\ UNCHANGED <<value, calls, crashed, due>>
  BY EvictEffects
<1>2. virmem \in [Users -> Row \cup {None}] /\ tablets \in [Users -> 1 .. Len(key) \cup {Null}]
  BY TypeFacts
<1>3. ASSUME NEW u \in Users, u # v PROVE Held(u)' = Held(u)
  BY <1>1, <1>2, <1>3, HeldSame
<1>4. ASSUME tablets[v] = n PROVE Held(v)' = Held(v)
  <2>1. InMemory(v) /\ Held(v) = value[n]
    BY <1>1, <1>4, HeldFacts DEF InMemory, RowOf, Null
  <2>2. tablets'[v] = Null /\ virmem'[v] = value[n] /\ value[n] # None
    BY <1>1, <1>2, RowFacts
  <2>3. Held(v)' = value[n]
    BY <2>2 DEF Held, InMemory, InVirMem
  <2> QED BY <2>1, <2>3
<1>5. mark.lost \subseteq mark'.lost /\ (tablets[v] # n => v \in mark'.lost)
  BY <1>1
<1>6. \A u \in Users \ mark'.lost : Held(u)' = Held(u) /\ u \notin mark.lost
  BY <1>3, <1>4, <1>5
<1> QED BY <1>1, <1>6 DEF NothingMislaid

LEMMA AccessMislays ==
  ASSUME TypeOK, OnePlace, Ordered(calls), NothingMislaid, Accesses
  PROVE  NothingMislaid'
<1>1. /\ calls \in Seq(CallSet) /\ calls # <<>> /\ ~crashed /\ rq = calls[1].rq
      /\ Head(calls) = calls[1] /\ rq.kind \in Gets
      /\ rq.user \in Users /\ rq.file \in Files /\ rq.to \in Files
  BY AccessTop
<1>2. PICK v, n, row, g : v = rq.user /\ n = tablets[v] /\ row = value[n] /\ g = rq.file
  OBVIOUS
<1>3. n \in 1 .. Len(key) /\ row \in Row /\ InMemory(v) /\ Held(v) = row /\ v \in Users
  <2>1. v \in Users /\ InMemory(v)
    BY <1>1, <1>2 DEF Accesses
  <2>2. n \in 1 .. Len(key) /\ RowOf(v) \in Row /\ Held(v) = RowOf(v)
    BY <1>2, <2>1, RowInMemory, HeldFacts
  <2> QED BY <1>2, <2>1, <2>2 DEF RowOf
<1>4. Head(calls).rq.kind # "restore"
  BY <1>1 DEF Gets
<1>5. NoRestore(calls) /\ NoRestore(Tail(calls))
  BY <1>1, <1>4, OrderedTail
<1>6. \A u \in Users \ mark.lost : Held(u) = due[u]
  BY <1>1, <1>5, HeldIsDue
<1>7. due \in [Users -> Row] /\ mark \in MarkSet /\ Len(key) \in Nat
  BY TypeFacts, ListTyped
<1>8. /\ Touch(n) /\ UNCHANGED <<virmem, key, crashed, served>>
      /\ \/ Return /\ Untouched
         \/ Takes
         \/ Erase(n)
         \/ Rename(n)
  BY <1>2, AccessKinds
<1>9. CASE (Return /\ Untouched) \/ Takes
  <2>1. UNCHANGED <<tablets, virmem, value, due, mark>>
    BY <1>8, <1>9 DEF Untouched, memory, Takes
  <2>2. NoRestore(calls')
    BY <1>5, <1>9, TakesOrdered DEF Return
  <2>3. \A u \in Users : Held(u)' = Held(u)
    BY <2>1, HeldSame
  <2> QED BY <1>6, <2>1, <2>2, <2>3, HeldStaysDue
<1>10. CASE Erase(n)
  <2> DEFINE left == [row EXCEPT ![g] = NoFile]
  <2>1. /\ value' = [value EXCEPT ![n] = left]
        /\ tablets' = (IF left = EmptyRow THEN [tablets EXCEPT ![v] = Null] ELSE tablets)
        /\ due' = [due EXCEPT ![v][g] = NoFile] /\ mark' = mark /\ Return
    BY <1>2, <1>10 DEF Erase
  <2>2. (\A u \in Users : u # v => Held(u)' = Held(u)) /\ Held(v)' = left
    <3> HIDE DEF left
    <3>1. value' = [value EXCEPT ![tablets[v]] = left]
      BY <1>2, <2>1
    <3>2. tablets' = tablets \/ (left = EmptyRow /\ tablets' = [tablets EXCEPT ![v] = Null])
      BY <2>1
    <3> QED BY <1>3, <1>8, <3>1, <3>2, RowChanges
  <2>3. due'[v] = [due[v] EXCEPT ![g] = NoFile] /\ \A u \in Users : u # v => due'[u] = due[u]
    BY <1>3, <1>7, <2>1
  <2>4. \A u \in Users \ mark'.lost : Held(u)' = due'[u]
    BY <1>3, <1>6, <2>1, <2>2, <2>3
  <2>5. NoRestore(calls')
    BY <1>5, <2>1 DEF Return
  <2> QED BY <2>4, <2>5, HeldStaysDue
<1>11. CASE Rename(n)
  <2>1. /\ value' = [value EXCEPT ![n] = Moved(row)] /\ tablets' = tablets
        /\ due' = [due EXCEPT ![v] = Moved(due[v])] /\ Return
        /\ \E b : mark' = [mark EXCEPT !.drifted = b]
    BY <1>2, <1>11 DEF Rename, memory
  <2>2. mark'.lost = mark.lost
    BY <1>7, <2>1, MarkEffects
  <2>3. PICK new : new = Moved(row)
    OBVIOUS
  <2>4. (\A u \in Users : u # v => Held(u)' = Held(u)) /\ Held(v)' = new
    BY <1>2, <1>3, <1>8, <2>1, <2>3, RowChanges
  <2>5. due'[v] = Moved(due[v]) /\ \A u \in Users : u # v => due'[u] = due[u]
    BY <1>3, <1>7, <2>1
  <2>6. \A u \in Users \ mark'.lost : Held(u)' = due'[u]
    BY <1>3, <1>6, <2>2, <2>3, <2>4, <2>5
  <2>7. NoRestore(calls')
    BY <1>5, <2>1 DEF Return
  <2> QED BY <2>6, <2>7, HeldStaysDue
<1> QED BY <1>8, <1>9, <1>10, <1>11

\* A file that put refuses is not due any more.
LEMMA CutMislays ==
  ASSUME TypeOK, NothingMislaid, Cuts
  PROVE  NothingMislaid'
<1>1. PICK v, g : v = rq.user /\ g = rq.file
  OBVIOUS
<1>2. /\ calls \in Seq(CallSet) /\ calls # <<>> /\ ~crashed /\ v \in Users /\ g \in Files
      /\ rq = calls[1].rq /\ rq.kind = "restore" /\ mark'.lost = mark.lost
      /\ UNCHANGED <<tablets, virmem, value>>
  BY <1>1, CutsTop
<1>3. due' = [due EXCEPT ![v][g] = NoFile] /\ calls' = Tail(calls)
  BY <1>1 DEF Cuts, Return
<1>4. /\ due'[v][g] = NoFile
      /\ \A u \in Users, f \in Files : u # v \/ f # g => due'[u][f] = due[u][f]
  <2>1. due \in [Users -> Row] /\ due[v] = [f \in Files |-> due[v][f]]
    BY <1>2, TypeFacts DEF Row
  <2>2. due'[v] = [due[v] EXCEPT ![g] = NoFile] /\ \A u \in Users : u # v => due'[u] = due[u]
    BY <1>2, <1>3, <2>1
  <2> QED BY <1>2, <2>1, <2>2
<1>5. \A u \in Users : Held(u)' = Held(u)
  BY <1>2, HeldSame
<1> SUFFICES ASSUME NEW u \in Users \ mark.lost, NEW f \in Files
             PROVE  Pending(Tail(calls), u, f, Held(u)[f], due'[u][f])
  BY <1>2, <1>3, <1>5 DEF NothingMislaid
<1>6. Pending(calls, u, f, Held(u)[f], due[u][f])
  BY <1>2 DEF NothingMislaid
<1>7. CASE u # v \/ f # g
  <2>1. ~Restoring(calls, 1, u, f)
    BY <1>1, <1>2, <1>7 DEF Restoring
  <2>2. due'[u][f] = due[u][f]
    BY <1>4, <1>7
  <2> QED BY <1>2, <1>6, <2>1, <2>2, PendingPop
<1>8. CASE u = v /\ f = g
  <2>1. Restoring(calls, 1, u, f)
    BY <1>1, <1>2, <1>8 DEF Restoring
  <2>2. Held(u)[f] = NoFile /\ \A x : Pending(Tail(calls), u, f, x, x)
    BY <1>2, <1>6, <2>1, PendingDone
  <2> QED BY <1>4, <1>8, <2>2
<1> QED BY <1>7, <1>8

LEMMA MislaidKept ==
  ASSUME TypeOK, OnePlace, StackInOrder, NothingMislaid, [Next]_vars
  PROVE  NothingMislaid'
<1>0. Ordered(calls) /\ calls \in Seq(CallSet) /\ mark \in MarkSet
  BY TypeFacts DEF StackInOrder
<1>1. CASE UNCHANGED vars
  BY <1>1 DEF NothingMislaid, Held, InMemory, InVirMem, RowOf, vars, cache, memory, heap, story
<1>2. CASE Receive
  <2>1. PICK r \in Request : /\ Arrive(r)
                             /\ r.kind \in {"put", "get", "cput", "dele", "rename", "list"}
    BY <1>2, Arrives
  <2>2. /\ calls' = <<[step |-> "start", rq |-> r]>> /\ calls = <<>> /\ ~crashed
        /\ UNCHANGED <<tablets, virmem, value, due, mark>>
    BY <2>1 DEF Arrive, cache, memory, heap, story
  <2>3. NoRestore(calls)
    BY <2>2 DEF NoRestore
  <2>4. NoRestore(calls')
    BY <2>1, <2>2 DEF NoRestore
  <2>5. \A u \in Users : Held(u)' = Held(u)
    BY <2>2, HeldSame
  <2> QED BY <2>2, <2>3, <2>4, <2>5, HeldIsDue, HeldStaysDue
<1>3. CASE Refuse \/ Drop \/ Ignores
  <2>1. PICK step, kinds : At(step, kinds) /\ "restore" \notin kinds
    BY <1>3 DEF Refuse, Drop, Ignores, Gets
  <2>2. calls # <<>> /\ calls[1].rq.kind # "restore"
    BY <2>1, AtTop
  <2>3. UNCHANGED <<tablets, virmem, value, due, crashed>> /\ Return
    BY <1>3 DEF Refuse, Drop, Ignores, cache, memory, heap, story
  <2>4. mark' = mark \/ \E b : mark' = [mark EXCEPT !.drifted = b]
    BY <1>3 DEF Refuse, Drop, Ignores, story
  <2>5. mark'.lost = mark.lost
    <3>1. \A b : [mark EXCEPT !.drifted = b].lost = mark.lost
      BY <1>0, MarkEffects
    <3> QED BY <2>4, <3>1
  <2>6. \A u \in Users : Held(u)' = Held(u)
    BY <2>3, HeldSame
  <2> QED BY <1>0, <2>2, <2>3, <2>5, <2>6, PopMislaysNothing
<1>4. CASE PutNew
  BY <1>0, <1>4, PutNewMislays
<1>5. CASE Stores
  BY <1>0, <1>5, StoreMislays
<1>6. CASE Loads
  BY <1>0, <1>6, LoadMislays
<1>7. CASE Evict
  BY <1>7, EvictMislays
<1>8. CASE Accesses
  BY <1>0, <1>8, AccessMislays
<1>9. CASE Breaks
  BY <1>9 DEF Breaks, Segfault, NothingMislaid
<1>10. CASE ListFiles
  <2>1. /\ calls # <<>> /\ Head(calls).rq.kind # "restore" /\ ~crashed
        /\ UNCHANGED <<tablets, virmem, value, due, mark>>
    BY <1>10 DEF ListFiles, At, rq, cache, memory, heap, story
  <2>2. NoRestore(calls) /\ NoRestore(calls')
    BY <1>0, <1>10, <2>1, OrderedTail, ListOrdered
  <2>3. \A u \in Users : Held(u)' = Held(u)
    BY <2>1, HeldSame
  <2> QED BY <2>1, <2>2, <2>3, HeldIsDue, HeldStaysDue
<1>11. CASE Cuts
  BY <1>11, CutMislays
<1> QED
  BY <1>1, <1>2, <1>3, <1>4, <1>5, <1>6, <1>7, <1>8, <1>9, <1>10, <1>11, StepKinds

-----------------------------------------------------------------------------
(***************************************************************************)
(* Empty rows, and rows lost to a node left behind.                        *)
(***************************************************************************)
\* Who waits for a row does so with the call on top of the stack.
LEMMA NobodyWaits ==
  ASSUME TypeOK, NEW kinds, At("start", kinds), NEW u
  PROVE  ~Waiting(u)
BY DEF At, Waiting

\* After a call has returned somebody waits only where a restore was.
LEMMA WaitsUnderRestore ==
  ASSUME calls \in Seq(CallSet), calls # <<>>, Ordered(calls), Return, NEW u, Waiting(u)'
  PROVE  calls[1].rq.kind = "restore" /\ calls[1].rq.user = u
<1>1. Tail(calls) # <<>> /\ Head(Tail(calls)).step = "loaded" /\ Head(Tail(calls)).rq.user = u
  BY DEF Waiting, Return
<1>2. Head(calls).rq.kind = "restore"
  BY <1>1, OrderedTail
<1>3. /\ Head(calls) = calls[1] /\ 1 \in DOMAIN calls /\ Tail(calls) \in Seq(CallSet)
      /\ \A i \in DOMAIN Tail(calls) : Tail(calls)[i] = calls[i + 1] /\ i + 1 \in DOMAIN calls
  BY Top
<1>4. 1 \in DOMAIN Tail(calls) /\ Head(Tail(calls)) = Tail(calls)[1]
  BY <1>1, <1>3
<1>5. Tail(calls)[1] = calls[1 + 1] /\ 1 + 1 \in DOMAIN calls
  BY <1>3, <1>4
<1>6. calls[1 + 1].rq.user = calls[1].rq.user
  BY <1>3, <1>5 DEF Ordered
<1> QED BY <1>1, <1>2, <1>3, <1>4, <1>5, <1>6

\* A load of an empty row, and no other, puts nothing above the call that waits.
LEMMA LoadWaits ==
  ASSUME TypeOK, Loads, NEW v, v = rq.user
  PROVE  /\ \A u : Waiting(u)' => u = v /\ virmem[v] = EmptyRow
         /\ virmem[v] = EmptyRow => Waiting(v)'
<1> DEFINE R == Restores(rq.user)
           k == Len(R)
           n == Len(calls)
           c == calls'
<1>1. /\ virmem[v] \in Row /\ v \in Users
      /\ k \in Nat /\ n \in Nat /\ DOMAIN R = 1 .. k /\ DOMAIN calls = 1 .. n
      /\ DOMAIN c = 1 .. k + n
      /\ \A j \in 1 .. k : c[j] = R[j]
      /\ \A i \in 1 .. n : c[k + i].rq = calls[i].rq
      /\ c[k + 1].step = "loaded" /\ calls # <<>> /\ rq = calls[1].rq
  BY LoadPlaces
<1>2. /\ \A i \in DOMAIN R : /\ R[i].step = "start"
                             /\ R[i].rq.file \in Files
                             /\ R[i].rq.len = virmem[v][R[i].rq.file] /\ R[i].rq.len # NoFile
      /\ \A f \in Files : virmem[v][f] # NoFile => \E i \in DOMAIN R : R[i].rq.file = f
  <2>1. PutsBack(R, v, virmem[v])
    BY <1>1, RestoresOfRow
  <2> HIDE DEF R
  <2> QED BY <2>1 DEF PutsBack
<1>3. c \in Seq(CallSet)
  BY LoadCalls DEF Loads
<1>4. 1 \in 1 .. n
  BY <1>1, TypeFacts
<1> HIDE DEF R, k, n, c
<1>5. 1 \in 1 .. k + n /\ c # <<>> /\ Head(c) = c[1]
  BY <1>1, <1>3, <1>4
<1>6. CASE k = 0
  <2>1. c[1].step = "loaded" /\ c[1].rq.user = v
    BY <1>1, <1>4, <1>6
  <2>2. virmem[v] = EmptyRow
    <3>1. \A f \in Files : virmem[v][f] = NoFile
      BY <1>1, <1>2, <1>6
    <3> QED BY <1>1, <3>1 DEF Row, EmptyRow
  <2> QED BY <1>5, <2>1, <2>2 DEF Waiting, c
<1>7. CASE k # 0
  <2>1. 1 \in 1 .. k
    BY <1>1, <1>7
  <2>2. c[1].step = "start"
    BY <1>1, <1>2, <2>1
  <2>3. virmem[v] # EmptyRow
    BY <1>1, <1>2, <2>1 DEF EmptyRow
  <2> QED BY <1>5, <2>2, <2>3 DEF Waiting, c
<1> QED BY <1>6, <1>7

LEMMA HollowKept ==
  ASSUME TypeOK, OnePlace, StackInOrder, HollowMarked, [Next]_vars
  PROVE  HollowMarked'
<1>0. Ordered(calls) /\ calls \in Seq(CallSet) /\ mark \in MarkSet
      /\ virmem \in [Users -> Row \cup {None}] /\ None # EmptyRow
  BY TypeFacts, RowFacts DEF StackInOrder
<1>1. CASE UNCHANGED vars
  BY <1>1 DEF HollowMarked, Waiting, InMemory, vars, cache, memory, story
<1>2. ASSUME crashed' = crashed, mark.hollow => mark'.hollow, virmem' = virmem,
             \A u \in Users : ~crashed /\ Waiting(u)' => InMemory(u)' \/ mark'.hollow \/ mark'.cut
      PROVE HollowMarked'
  BY <1>2 DEF HollowMarked
<1>3. CASE Receive
  <2>1. PICK r : Arrive(r)
    BY <1>3, Arrives
  <2>2. /\ calls' = <<[step |-> "start", rq |-> r]>>
        /\ crashed' = crashed /\ UNCHANGED <<virmem, mark>>
    BY <2>1 DEF Arrive, cache, story
  <2>3. Head(calls').step = "start"
    BY <2>2
  <2>4. \A u \in Users : ~Waiting(u)'
    BY <2>3 DEF Waiting
  <2> QED BY <1>2, <2>2, <2>4
<1>4. CASE Refuse \/ Drop \/ Ignores
  <2>1. PICK step, kinds : At(step, kinds) /\ "restore" \notin kinds
    BY <1>4 DEF Refuse, Drop, Ignores, Gets
  <2>2. calls # <<>> /\ calls[1].rq.kind # "restore"
    BY <2>1, AtTop
  <2>3. UNCHANGED <<virmem, crashed>> /\ Return
    BY <1>4 DEF Refuse, Drop, Ignores, cache, story
  <2>4. mark' = mark \/ \E b : mark' = [mark EXCEPT !.drifted = b]
    BY <1>4 DEF Refuse, Drop, Ignores, story
  <2>5. mark'.hollow = mark.hollow
    <3>1. \A b : [mark EXCEPT !.drifted = b].hollow = mark.hollow
      BY <1>0, MarkEffects
    <3> QED BY <2>4, <3>1
  <2>6. \A u \in Users : ~Waiting(u)'
    BY <1>0, <2>2, <2>3, WaitsUnderRestore
  <2> QED BY <1>2, <2>3, <2>5, <2>6
<1>5. CASE PutNew
  <2>1. /\ tablets' = [tablets EXCEPT ![rq.user] = Len(key) + 1] /\ Return
        /\ virmem' = virmem /\ crashed' = crashed /\ mark' = mark /\ At("start", Puts)
    BY <1>5 DEF PutNew
  <2>2. rq.user \in Users /\ rq = calls[1].rq /\ calls # <<>>
    BY <2>1, AtTop
  <2>3. Len(key) + 1 # Null
    BY ListTyped DEF Null
  <2>4. tablets'[rq.user] # Null
    BY <2>1, <2>2, <2>3, TypeFacts
  <2>5. \A u \in Users : Waiting(u)' => u = rq.user
    BY <1>0, <2>1, <2>2, WaitsUnderRestore
  <2>6. \A u \in Users : Waiting(u)' => InMemory(u)'
    BY <2>4, <2>5 DEF InMemory
  <2> QED BY <1>2, <2>1, <2>6
<1>6. CASE Stores
  <2>1. /\ tablets' = tablets /\ Return /\ virmem' = virmem /\ crashed' = crashed
        /\ mark' = [mark EXCEPT !.relinked = TRUE] /\ InMemory(rq.user)
    BY <1>6 DEF Stores, StoreInRow
  <2>2. calls # <<>> /\ rq = calls[1].rq
    BY <1>6, StoresTop
  <2>3. \A u \in Users : Waiting(u)' => u = rq.user
    BY <1>0, <2>1, <2>2, WaitsUnderRestore
  <2>4. \A u \in Users : Waiting(u)' => InMemory(u)'
    BY <2>1, <2>3 DEF InMemory
  <2>5. mark'.hollow = mark.hollow
    BY <1>0, <2>1, MarkEffects
  <2> QED BY <1>2, <2>1, <2>4, <2>5
<1>7. CASE Loads
  <2>1. PICK v : v = rq.user
    OBVIOUS
  <2>2. virmem' = [virmem EXCEPT ![v] = None] /\ UNCHANGED <<tablets, crashed, mark>> /\ ~crashed
    BY <1>7, <2>1 DEF Loads, Load, memory, story, At
  <2>3. v \in Users /\ \A u : Waiting(u)' => u = v /\ virmem[v] = EmptyRow
    BY <1>7, <2>1, LoadWaits, LoadPlaces
  <2>4. \A u \in Users : Waiting(u)' => mark.hollow
    BY <2>2, <2>3 DEF HollowMarked
  <2>5. \A u \in Users : virmem'[u] = EmptyRow => mark.hollow
    BY <1>0, <2>2 DEF HollowMarked
  <2> QED BY <2>2, <2>4, <2>5 DEF HollowMarked
<1>8. CASE Evict
  <2>1. PICK n, v :
          /\ At("start", Puts)
          /\ v \in Users /\ virmem' = [virmem EXCEPT ![v] = value[n]]
          /\ mark'.hollow = (mark.hollow \/ value[n] = EmptyRow)
          /\ UNCHANGED <<calls, crashed>>
    BY <1>8, EvictEffects
  <2>2. \A u \in Users : ~Waiting(u)'
    BY <2>1, NobodyWaits DEF Waiting
  <2>3. \A u \in Users : ~crashed /\ virmem'[u] = EmptyRow => mark'.hollow
    BY <1>0, <2>1 DEF HollowMarked
  <2> QED BY <2>1, <2>2, <2>3 DEF HollowMarked
<1>9. CASE Accesses
  <2>1. virmem' = virmem /\ crashed' = crashed
    BY <1>9, AccessKinds
  <2>2. mark' = mark \/ \E b : mark' = [mark EXCEPT !.drifted = b]
    BY <1>9, AccessKinds DEF Untouched, Takes, Erase, Rename
  <2>3. mark'.hollow = mark.hollow
    <3>1. \A b : [mark EXCEPT !.drifted = b].hollow = mark.hollow
      BY <1>0, MarkEffects
    <3> QED BY <2>2, <3>1
  <2>4. calls # <<>> /\ calls[1].rq.kind # "restore"
    BY <1>9, AccessTop DEF Gets
  <2>5. \A u \in Users : ~Waiting(u)'
    <3>1. CASE Takes
      BY <1>0, <1>9, <3>1, TakesOrdered DEF Waiting
    <3>2. CASE ~Takes
      <4>1. Return
        BY <1>9, <3>2, AccessKinds DEF Erase, Rename
      <4> QED BY <1>0, <2>4, <4>1, WaitsUnderRestore
    <3> QED BY <3>1, <3>2
  <2> QED BY <1>2, <2>1, <2>3, <2>5
<1>10. CASE Breaks
  BY <1>10 DEF Breaks, Segfault, HollowMarked
<1>11. CASE ListFiles
  <2>1. crashed' = crashed /\ UNCHANGED <<virmem, mark>>
    BY <1>11 DEF ListFiles, cache, story
  <2>2. \A u \in Users : ~Waiting(u)'
    BY <1>0, <1>11, ListOrdered DEF Waiting
  <2> QED BY <1>2, <2>1, <2>2
<1>12. CASE Cuts
  <2>1. UNCHANGED <<virmem, crashed>> /\ mark'.hollow = mark.hollow /\ mark'.cut
    BY <1>12, CutsTop
  <2> QED BY <1>2, <2>1
<1> QED
  BY <1>1, <1>3, <1>4, <1>5, <1>6, <1>7, <1>8, <1>9, <1>10, <1>11, <1>12, StepKinds

\* A file is cut off only when the counts have drifted.
LEMMA CutNeedsDrift ==
  ASSUME TypeOK, RestoresFit, Cuts
  PROVE  mark.drifted /\ mark'.drifted
<1>1. /\ ~crashed /\ 1 \in DOMAIN calls /\ calls[1].rq.kind = "restore"
      /\ calls[1].rq.len \in Nat /\ calls[1].rq.len > Capacity
      /\ mark'.drifted = mark.drifted /\ mark.drifted \in BOOLEAN
  BY CutsTop, TypeFacts, MarkFields
<1> QED BY <1>1, CapacityAssumption DEF RestoresFit

LEMMA LostKept ==
  ASSUME TypeOK, OnePlace, StackInOrder, LostStayOut, RestoresFit, [Next]_vars
  PROVE  LostStayOut'
<1>0. /\ mark \in MarkSet /\ virmem \in [Users -> Row \cup {None}]
      /\ tablets \in [Users -> 1 .. Len(key) \cup {Null}] /\ None # EmptyRow
      /\ calls \in Seq(CallSet)
  BY TypeFacts, RowFacts
<1>1. CASE UNCHANGED vars
  BY <1>1 DEF LostStayOut, Waiting, InMemory, vars, cache, memory, story
<1>2. ASSUME UNCHANGED <<crashed, tablets, virmem>>, mark'.lost = mark.lost,
             mark'.hollow = mark.hollow, mark.drifted => mark'.drifted,
             \A u \in Users : ~Waiting(u)
      PROVE LostStayOut'
  BY <1>0, <1>2, MarkFields DEF LostStayOut, InMemory
<1>3. CASE Receive
  <2>1. PICK r : Arrive(r)
    BY <1>3, Arrives
  <2>2. calls = <<>> /\ UNCHANGED <<crashed, tablets, virmem, mark>>
    BY <2>1 DEF Arrive, cache, memory, story
  <2> QED BY <1>2, <2>2 DEF Waiting
<1>4. CASE Refuse \/ Drop \/ Ignores \/ ListFiles
  <2>1. PICK kinds : At("start", kinds)
    BY <1>4 DEF Refuse, Drop, Ignores, ListFiles
  <2>2. UNCHANGED <<crashed, tablets, virmem>>
    BY <1>4 DEF Refuse, Drop, Ignores, ListFiles, cache, memory, story
  <2>3. \/ mark' = mark
        \/ \E b : mark' = [mark EXCEPT !.drifted = mark.drifted \/ b]
    BY <1>4 DEF Refuse, Drop, Ignores, ListFiles, story
  <2>4. mark'.lost = mark.lost /\ mark'.hollow = mark.hollow /\ (mark.drifted => mark'.drifted)
    <3>1. \A b : LET m == [mark EXCEPT !.drifted = b] IN
                   m.lost = mark.lost /\ m.hollow = mark.hollow /\ m.drifted = b
      BY <1>0, MarkEffects
    <3> QED BY <2>3, <3>1
  <2> QED BY <1>2, <2>1, <2>2, <2>4, NobodyWaits
<1>5. CASE PutNew
  <2>1. /\ At("start", Puts) /\ ~InVirMem(rq.user)
        /\ tablets' = [tablets EXCEPT ![rq.user] = Len(key) + 1]
        /\ UNCHANGED <<virmem, crashed, mark>>
    BY <1>5 DEF PutNew
  <2>2. \A u \in Users : ~Waiting(u)
    BY <2>1, NobodyWaits
  <2>3. ASSUME ~crashed, ~mark.drifted, NEW u \in mark.lost
        PROVE  mark.hollow /\ tablets'[u] = Null /\ virmem[u] = EmptyRow
    <3>1. u \in Users /\ mark.hollow /\ tablets[u] = Null /\ virmem[u] = EmptyRow
      BY <1>0, <2>2, <2>3, MarkFields DEF LostStayOut, InMemory
    <3>2. u # rq.user
      BY <1>0, <2>1, <3>1 DEF InVirMem
    <3> QED BY <1>0, <2>1, <3>1, <3>2
  <2> QED BY <2>1, <2>3 DEF LostStayOut, InMemory
<1>6. CASE Stores
  <2>1. UNCHANGED <<tablets, virmem, crashed>> /\ InMemory(rq.user)
        /\ mark' = [mark EXCEPT !.relinked = TRUE]
    BY <1>6 DEF Stores, StoreInRow
  <2>2. mark'.lost = mark.lost /\ mark'.hollow = mark.hollow /\ mark'.drifted = mark.drifted
    BY <1>0, <2>1, MarkEffects
  <2>3. \A u \in Users : Waiting(u) => InMemory(u)
    BY <2>1 DEF Waiting, rq
  <2> QED BY <1>0, <2>1, <2>2, <2>3, MarkFields DEF LostStayOut, InMemory
<1>7. CASE Loads
  <2>1. PICK v : v = rq.user
    OBVIOUS
  <2>2. virmem' = [virmem EXCEPT ![v] = None] /\ UNCHANGED <<tablets, crashed, mark>>
        /\ At("start", Puts \cup Gets)
    BY <1>7, <2>1 DEF Loads, Load, memory, story
  <2>3. v \in Users /\ (virmem[v] = EmptyRow => Waiting(v)')
    BY <1>7, <2>1, LoadWaits, LoadPlaces
  <2>4. \A u \in Users : ~Waiting(u)
    BY <2>2, NobodyWaits
  <2>5. ASSUME ~crashed, ~mark.drifted, NEW u \in mark.lost
        PROVE  mark.hollow /\ ~InMemory(u) /\ (virmem'[u] = EmptyRow \/ Waiting(u)')
    <3>1. u \in Users /\ mark.hollow /\ ~InMemory(u) /\ virmem[u] = EmptyRow
      BY <1>0, <2>4, <2>5, MarkFields DEF LostStayOut
    <3>2. u = v \/ virmem'[u] = virmem[u]
      BY <1>0, <2>2, <3>1
    <3> QED BY <2>3, <3>1, <3>2
  <2> QED BY <2>2, <2>5 DEF LostStayOut, InMemory
<1>8. CASE Evict
  <2>1. PICK n, v :
          /\ At("start", Puts) /\ n \in 1 .. Len(key)
          /\ v \in Users /\ virmem' = [virmem EXCEPT ![v] = value[n]]
          /\ tablets' = [tablets EXCEPT ![v] = Null]
          /\ mark'.hollow = (mark.hollow \/ value[n] = EmptyRow)
          /\ mark'.drifted = (mark.drifted \/
               (tablets[v] # n /\ (InMemory(v) \/ value[n] # EmptyRow)))
          /\ mark'.lost = IF tablets[v] = n THEN mark.lost ELSE mark.lost \cup {v}
          /\ UNCHANGED <<calls, crashed>>
    BY <1>8, EvictEffects
  <2>2. \A u \in Users : ~Waiting(u)
    BY <2>1, NobodyWaits
  <2>3. ASSUME ~crashed, ~mark'.drifted, NEW u \in mark'.lost
        PROVE  mark'.hollow /\ tablets'[u] = Null /\ virmem'[u] = EmptyRow
    <3>1. ~mark.drifted
      BY <2>1, <2>3
    <3>2. CASE u = v /\ tablets[v] # n
      BY <1>0, <2>1, <2>3, <3>2
    <3>3. CASE u \in mark.lost
      <4>1. u \in Users /\ mark.hollow /\ tablets[u] = Null /\ virmem[u] = EmptyRow
        BY <1>0, <2>2, <2>3, <3>1, <3>3, MarkFields DEF LostStayOut, InMemory
      <4>2. u = v => tablets[v] # n
        BY <2>1, <4>1 DEF Null
      <4>3. CASE u = v
        BY <3>2, <4>2, <4>3
      <4>4. CASE u # v
        BY <1>0, <2>1, <4>1, <4>4
      <4> QED BY <4>3, <4>4
    <3> QED BY <2>1, <2>3, <3>2, <3>3
  <2> QED BY <2>1, <2>3 DEF LostStayOut, InMemory
<1>9. CASE Accesses
  <2>1. virmem' = virmem /\ crashed' = crashed /\ InMemory(rq.user)
    BY <1>9, AccessKinds DEF Accesses
  <2>2. mark' = mark \/ \E b : mark' = [mark EXCEPT !.drifted = mark.drifted \/ b]
    BY <1>9, AccessKinds DEF Untouched, Takes, Erase, Rename
  <2>3. mark'.lost = mark.lost /\ mark'.hollow = mark.hollow /\ (mark.drifted => mark'.drifted)
    <3>1. \A b : LET m == [mark EXCEPT !.drifted = b] IN
                   m.lost = mark.lost /\ m.hollow = mark.hollow /\ m.drifted = b
      BY <1>0, MarkEffects
    <3> QED BY <2>2, <3>1
  <2>4. \A u \in Users : tablets[u] = Null => tablets'[u] = Null
    BY <1>0, <1>9, AccessKinds DEF Untouched, memory, Takes, Erase, Rename
  <2>5. \A u \in Users : Waiting(u) => InMemory(u)
    BY <2>1 DEF Waiting, rq
  <2> QED BY <1>0, <2>1, <2>3, <2>4, <2>5, MarkFields DEF LostStayOut, InMemory
<1>10. CASE Breaks
  BY <1>10 DEF Breaks, Segfault, LostStayOut
<1>11. CASE Cuts
  BY <1>11, CutNeedsDrift DEF LostStayOut
<1> QED
  BY <1>1, <1>3, <1>4, <1>5, <1>6, <1>7, <1>8, <1>9, <1>10, <1>11, StepKinds

-----------------------------------------------------------------------------
(***************************************************************************)
(* The counts.                                                             *)
(***************************************************************************)
LEMMA NothingLoaded ==
  ASSUME NEW c \in Seq(CallSet), Ordered(c), NoRestore(c), c # <<>> => Head(c).step = "start"
  PROVE  \A i \in DOMAIN c : c[i].step = "start"
<1> SUFFICES ASSUME NEW i \in DOMAIN c PROVE c[i].step = "start"
  OBVIOUS
<1>1. c # <<>> /\ Head(c) = c[1] /\ 1 \in DOMAIN c /\ c[i] \in CallSet /\ i \in Nat /\ 1 <= i
  OBVIOUS
<1>2. CASE i = 1
  BY <1>1, <1>2
<1>3. CASE i # 1
  <2>1. 1 < i
    BY <1>1, <1>3
  <2>2. c[i].step # "loaded"
    BY <1>1, <2>1 DEF Ordered, NoRestore
  <2> QED BY <1>1, <2>2 DEF CallSet
<1> QED BY <1>2, <1>3

LEMMA FitsKept ==
  ASSUME TypeOK, StackInOrder, LoadedFits, [Next]_vars
  PROVE  LoadedFits'
<1>0. Ordered(calls) /\ calls \in Seq(CallSet)
  BY TypeFacts DEF StackInOrder
<1> DEFINE Fit(s, c) == c.step = "loaded" /\ c.rq.kind = "put" =>
                          ~(s[c.rq.user] + c.rq.len < 0 \/ s[c.rq.user] + c.rq.len >= Capacity)
<1>1. /\ LoadedFits <=> (~crashed => \A i \in DOMAIN calls : Fit(size, calls[i]))
      /\ LoadedFits' <=> (~crashed' => \A i \in DOMAIN calls' : Fit(size', calls'[i]))
  BY DEF LoadedFits, Exceeds
<1>2. ASSUME size' = size, crashed' = crashed,
             \A i \in DOMAIN calls' : calls'[i].step = "loaded" =>
               \E j \in DOMAIN calls : calls'[i] = calls[j]
      PROVE LoadedFits'
  <2> HIDE DEF Fit
  <2> SUFFICES ASSUME ~crashed, NEW i \in DOMAIN calls' PROVE Fit(size, calls'[i])
    BY <1>1, <1>2
  <2>1. CASE calls'[i].step = "loaded"
    BY <1>1, <1>2, <2>1
  <2>2. CASE calls'[i].step # "loaded"
    BY <2>2 DEF Fit
  <2> QED BY <2>1, <2>2
<1>3. ASSUME \A i \in DOMAIN calls' : calls'[i].step = "start" PROVE LoadedFits'
  BY <1>3 DEF LoadedFits
<1>4. ASSUME Return, calls # <<>>
      PROVE \A i \in DOMAIN calls' : \E j \in DOMAIN calls : calls'[i] = calls[j]
  BY <1>0, <1>4, Top DEF Return
<1>5. CASE UNCHANGED vars
  BY <1>2, <1>5 DEF vars, cache, memory
<1>6. CASE Receive
  <2>1. PICK r : Arrive(r)
    BY <1>6, Arrives
  <2>2. calls' = <<[step |-> "start", rq |-> r]>>
    BY <2>1 DEF Arrive
  <2> QED BY <1>3, <2>2
<1>7. CASE Refuse \/ Drop \/ Ignores \/ Cuts
  <2>1. calls # <<>> /\ Return /\ size' = size /\ crashed' = crashed
    BY <1>7 DEF Refuse, Drop, Ignores, Cuts, At, cache, memory
  <2> QED BY <1>2, <1>4, <2>1
<1>8. CASE PutNew \/ Stores
  <2>1. Count /\ Return /\ crashed' = crashed /\ calls # <<>>
    BY <1>8 DEF PutNew, Stores, StoreInRow, At
  <2>2. CASE rq.kind = "restore"
    <3>1. size' = size
      BY <2>1, <2>2 DEF Count, ByClient
    <3> QED BY <1>2, <1>4, <2>1, <3>1
  <2>3. CASE rq.kind # "restore"
    BY <1>0, <1>3, <2>1, <2>3, PlainUnder DEF Return, rq
  <2> QED BY <2>2, <2>3
<1>9. CASE Loads
  <2> DEFINE R == Restores(rq.user)
             k == Len(R)
             n == Len(calls)
             c == calls'
  <2>1. At("start", Puts \cup Gets) /\ InVirMem(rq.user) /\ Load
    BY <1>9 DEF Loads
  <2>2. /\ c \in Seq(CallSet) /\ R \in Seq(CallSet)
        /\ Len(c) = k + n
        /\ \A i \in 1 .. k : c[i] = R[i]
        /\ c[k + 1].step = "loaded" /\ c[k + 1].rq = rq
        /\ \A i \in 2 .. n : c[k + i] = calls[i]
    BY <2>1, LoadCalls
  <2>3. \A i \in DOMAIN R : R[i].step = "start"
    BY <2>1, AtTop, LoadCalls, RestoresOfRow DEF PutsBack
  <2>4. /\ k \in Nat /\ n \in Nat /\ DOMAIN R = 1 .. k /\ DOMAIN calls = 1 .. n
        /\ DOMAIN c = 1 .. k + n
    BY <1>0, <2>2
  <2>5. size' = size /\ ~crashed
    BY <2>1 DEF Load, memory, At
  <2>6. rq.kind = "put" => ~Exceeds(rq.user, rq.len)
    BY <1>9 DEF Loads, Accepted, ByClient, Puts
  <2>7. Fit(size, c[k + 1])
    BY <2>2, <2>6 DEF Exceeds
  <2> HIDE DEF R, k, n, c, Fit
  <2>8. ASSUME NEW i \in 1 .. k + n PROVE Fit(size, c[i])
    <3>1. i \in 1 .. k \/ i = k + 1 \/ (i - k \in 2 .. n /\ k + (i - k) = i)
      BY <2>4
    <3>2. CASE i \in 1 .. k
      <4>1. c[i].step = "start"
        BY <2>2, <2>3, <2>4, <3>2
      <4> QED BY <4>1 DEF Fit
    <3>3. CASE i = k + 1
      BY <2>7, <3>3
    <3>4. CASE i - k \in 2 .. n /\ k + (i - k) = i
      <4>1. c[i] = calls[i - k] /\ i - k \in DOMAIN calls
        BY <2>2, <2>4, <3>4
      <4> QED BY <1>1, <2>5, <4>1
    <3> QED BY <3>1, <3>2, <3>3, <3>4
  <2> QED BY <1>1, <2>4, <2>5, <2>8 DEF c
<1>10. CASE Evict
  BY <1>2, <1>10 DEF Evict
<1>11. CASE Accesses
  <2>1. calls # <<>> /\ Head(calls).rq.kind # "restore"
    BY <1>11, AccessTop DEF Gets
  <2>2. CASE Takes
    <3>1. Ordered(calls') /\ NoRestore(calls') /\ Head(calls').step = "start"
      BY <1>0, <1>11, <2>2, TakesOrdered
    <3>2. calls' \in Seq(CallSet)
      <4>1. [step |-> "start", rq |-> [rq EXCEPT !.kind = "rewrite"]] \in CallSet
        BY <1>11, AccessTop DEF CallSet, Request
      <4>2. Tail(calls) \in Seq(CallSet)
        BY <1>0, <2>1
      <4> QED BY <2>2, <4>1, <4>2 DEF Takes
    <3> QED BY <1>3, <3>1, <3>2, NothingLoaded
  <2>3. CASE ~Takes
    <3>1. Return
      BY <1>11, <2>3, AccessKinds DEF Erase, Rename
    <3> QED BY <1>0, <1>3, <2>1, <3>1, PlainUnder DEF Return
  <2> QED BY <2>2, <2>3
<1>12. CASE Breaks
  BY <1>12 DEF Breaks, Segfault, LoadedFits
<1>13. CASE ListFiles
  <2>1. /\ Ordered(calls') /\ NoRestore(calls')
        /\ calls' # <<>> => Head(calls').step = "start"
    BY <1>0, <1>13, ListOrdered
  <2>2. calls' \in Seq(CallSet)
    <3>1. PICK L \in Seq(CallSet) : calls' = L \o Tail(calls)
      BY <1>13, ListCalls
    <3>2. Tail(calls) \in Seq(CallSet)
      BY <1>0, <1>13, Top DEF ListFiles, At
    <3> QED BY <3>1, <3>2
  <2> QED BY <1>3, <2>1, <2>2, NothingLoaded
<1> QED
  BY <1>5, <1>6, <1>7, <1>8, <1>9, <1>10, <1>11, <1>12, <1>13, StepKinds

LEMMA OwedNothing ==
  /\ (calls # <<>> => rq.kind # "rewrite") => \A u : Owed(u) = 0
  /\ (calls' # <<>> => Head(calls').rq.kind # "rewrite") => \A u : Owed(u)' = 0
BY DEF Owed, rq

LEMMA SizesIn ==
  ASSUME TypeOK, NEW u \in Users
  PROVE  SizeIn(u) \in Nat /\ Owed(u) \in Nat
<1>1. SizeIn(u) \in Nat
  BY RowInMemory, SizeNat DEF SizeIn
<1>2. Owed(u) \in Nat
  <2>1. calls # <<>> => rq \in Request
    BY TypeFacts, Top DEF rq
  <2>2. calls # <<>> => rq.file \in Files
    BY <2>1 DEF Request
  <2>3. due[u] \in Row
    BY TypeFacts
  <2> QED BY <2>2, <2>3, RowFacts DEF Owed
<1> QED BY <1>1, <1>2

LEMMA SizeInSame ==
  ASSUME NEW u, tablets'[u] = tablets[u],
         InMemory(u) => value'[tablets[u]] = value[tablets[u]]
  PROVE  SizeIn(u)' = SizeIn(u)
BY DEF SizeIn, InMemory, RowOf

UsedExactly == used = SumFunction([u \in Users |-> SizeIn(u) - Owed(u)])

LEMMA UsedSame ==
  ASSUME UsedExactly, used' = used,
         \A u \in Users : SizeIn(u)' = SizeIn(u) /\ Owed(u)' = Owed(u)
  PROVE  UsedExactly'
<1>1. [u \in Users |-> SizeIn(u)' - Owed(u)'] = [u \in Users |-> SizeIn(u) - Owed(u)]
  OBVIOUS
<1> QED BY <1>1 DEF UsedExactly

LEMMA UsedMoves ==
  ASSUME TypeOK, UsedExactly, NEW v \in Users, NEW x \in Int, NEW y \in Int,
         SizeIn(v)' = x, Owed(v)' = y,
         \A u \in Users : u # v => SizeIn(u)' = SizeIn(u) /\ Owed(u)' = Owed(u),
         used' = used - (SizeIn(v) - Owed(v)) + (x - y)
  PROVE  UsedExactly'
<1> DEFINE f == [u \in Users |-> SizeIn(u) - Owed(u)]
           h == [u \in Users |-> SizeIn(u)' - Owed(u)']
<1>1. \A u \in Users : SizeIn(u) \in Int /\ Owed(u) \in Int
  BY SizesIn
<1>2. f \in [Users -> Int] /\ h \in [Users -> Int]
  <2>1. \A u \in Users : SizeIn(u) - Owed(u) \in Int
    BY <1>1
  <2>2. \A u \in Users : SizeIn(u)' - Owed(u)' \in Int
    BY <1>1
  <2> QED BY <2>1, <2>2
<1>3. f[v] = SizeIn(v) - Owed(v) /\ h[v] = x - y /\ \A u \in Users : u # v => h[u] = f[u]
  OBVIOUS
<1> HIDE DEF f, h
<1>4. SumFunction(h) = SumFunction(f) - f[v] + h[v]
  BY <1>2, <1>3, UsersAssumption, SumChange
<1>5. used = SumFunction(f)
  BY DEF UsedExactly, f
<1>6. used' = SumFunction(h)
  BY <1>3, <1>4, <1>5
<1> QED BY <1>6 DEF UsedExactly, h

SizesExactly ==
  \A u \in Users : size[u] = SizeOf(due[u]) - Owed(u) /\ size[u] < Capacity

LEMMA CountedMeans ==
  /\ CountedExactly <=> (~crashed /\ ~mark.drifted => SizesExactly /\ UsedExactly)
  /\ CountedExactly' <=> (~crashed' /\ ~mark'.drifted => SizesExactly' /\ UsedExactly')
BY DEF CountedExactly, SizesExactly, UsedExactly

\* Nothing is counted and nothing is owed.
LEMMA CountedSame ==
  ASSUME CountedExactly, UNCHANGED <<used, size, due>>, crashed' = crashed,
         mark.drifted => mark'.drifted,
         \A u \in Users : SizeIn(u)' = SizeIn(u) /\ Owed(u)' = Owed(u)
  PROVE  CountedExactly'
<1>1. SizesExactly => SizesExactly'
  BY DEF SizesExactly
<1>2. UsedExactly => UsedExactly'
  BY UsedSame
<1> QED BY <1>1, <1>2, CountedMeans

\* A put is counted, for its user too if a client asked for it.
LEMMA PutCounted ==
  ASSUME TypeOK, Ordered(calls), SizesExactly, UsedExactly, calls # <<>>,
         NEW v, NEW g, v = rq.user, g = rq.file,
         rq.kind \in {"put", "restore", "rewrite"}, Count, Return,
         ByClient => ~Exceeds(v, rq.len),
         NEW old \in Row, SizeIn(v) = SizeOf(old),
         SizeIn(v)' = SizeOf(old) - old[g] + (IF rq.kind = "rewrite" THEN rq.len
                                              ELSE old[g] + rq.len),
         rq.kind = "rewrite" => old[g] = due[v][g],
         \A u \in Users : u # v => SizeIn(u)' = SizeIn(u)
  PROVE  SizesExactly' /\ UsedExactly'
<1> DEFINE len == rq.len
<1>1. v \in Users /\ g \in Files /\ len \in Nat /\ calls \in Seq(CallSet)
  <2>1. calls \in Seq(CallSet) /\ rq \in Request
    BY TypeFacts, Top DEF rq
  <2> QED BY <2>1 DEF Request
<1>2. used \in Int /\ size \in [Users -> Int] /\ due \in [Users -> Row]
  BY TypeFacts
<1>3. SizeOf(old) \in Nat /\ old[g] \in Nat /\ due[v][g] \in Nat /\ SizeOf(due[v]) \in Nat
  BY <1>1, <1>2, RowFacts, SizeNat
<1>4. \A u : Owed(u)' = 0
  BY <1>1, OrderedTail, OwedNothing DEF Return
<1>5. /\ \A u \in Users : u # v => Owed(u) = 0
      /\ rq.kind = "rewrite" => Owed(v) = due[v][g]
      /\ rq.kind # "rewrite" => Owed(v) = 0
  BY DEF Owed
<1>6. used' = used + len /\ size' = IF ByClient THEN [size EXCEPT ![v] = size[v] + len] ELSE size
  BY DEF Count
<1>7. /\ rq.kind = "put" => due' = [due EXCEPT ![v][g] = due[v][g] + len]
      /\ rq.kind = "rewrite" => due' = [due EXCEPT ![v][g] = len]
      /\ rq.kind = "restore" => due' = due
  BY DEF Count
<1> HIDE DEF len
<1>8. UsedExactly'
  <2> DEFINE x == SizeOf(old) - old[g] + (IF rq.kind = "rewrite" THEN len ELSE old[g] + len)
  <2>1. x \in Int /\ SizeIn(v)' = x
    BY <1>1, <1>3 DEF len
  <2>2. used' = used - (SizeIn(v) - Owed(v)) + (x - 0)
    <3>1. CASE rq.kind = "rewrite"
      <4>1. x = SizeOf(old) - old[g] + len /\ Owed(v) = old[g]
        BY <1>5, <3>1
      <4> HIDE DEF x
      <4> QED BY <1>1, <1>2, <1>3, <1>6, <4>1
    <3>2. CASE rq.kind # "rewrite"
      <4>1. x = SizeOf(old) - old[g] + (old[g] + len) /\ Owed(v) = 0
        BY <1>5, <3>2
      <4> HIDE DEF x
      <4> QED BY <1>1, <1>2, <1>3, <1>6, <4>1
    <3> QED BY <3>1, <3>2
  <2>3. 0 \in Int
    OBVIOUS
  <2> HIDE DEF x
  <2> QED BY <1>1, <1>4, <1>5, <2>1, <2>2, <2>3, UsedMoves
<1>9. ASSUME NEW u \in Users, u # v
      PROVE  size'[u] = SizeOf(due'[u]) - Owed(u)' /\ size'[u] < Capacity
  <2>1. size'[u] = size[u]
    BY <1>1, <1>2, <1>6, <1>9
  <2>2. due'[u] = due[u]
    BY <1>1, <1>2, <1>7, <1>9
  <2>3. Owed(u)' = Owed(u)
    BY <1>4, <1>5, <1>9
  <2> QED BY <2>1, <2>2, <2>3 DEF SizesExactly
<1>10. size[v] = SizeOf(due[v]) - Owed(v) /\ size[v] < Capacity /\ size[v] \in Int
  BY <1>1, <1>2 DEF SizesExactly
<1>11. \A m \in Nat : SizeOf([due[v] EXCEPT ![g] = m]) = SizeOf(due[v]) - due[v][g] + m
  BY <1>1, <1>2, SizeChange
<1>12. size'[v] = SizeOf(due'[v]) - Owed(v)' /\ size'[v] < Capacity
  <2>1. CASE ByClient
    <3>1. size'[v] = size[v] + len /\ size[v] + len < Capacity
      BY <1>1, <1>2, <1>6, <1>10, <2>1, CapacityAssumption DEF Exceeds, len
    <3>2. CASE rq.kind = "put"
      <4>1. due'[v] = [due[v] EXCEPT ![g] = due[v][g] + len]
        BY <1>1, <1>2, <1>7, <3>2
      <4>2. due[v][g] + len \in Nat
        BY <1>1, <1>3
      <4>3. SizeOf(due'[v]) = SizeOf(due[v]) - due[v][g] + (due[v][g] + len)
        BY <1>11, <4>1, <4>2
      <4>4. Owed(v) = 0 /\ Owed(v)' = 0
        BY <1>4, <1>5, <3>2
      <4> QED BY <1>1, <1>3, <1>10, <3>1, <4>3, <4>4
    <3>3. CASE rq.kind = "rewrite"
      <4>1. due'[v] = [due[v] EXCEPT ![g] = len]
        BY <1>1, <1>2, <1>7, <3>3
      <4>2. SizeOf(due'[v]) = SizeOf(due[v]) - due[v][g] + len
        BY <1>1, <1>11, <4>1
      <4>3. Owed(v) = due[v][g] /\ Owed(v)' = 0
        BY <1>4, <1>5, <3>3
      <4> QED BY <1>1, <1>3, <1>10, <3>1, <4>2, <4>3
    <3> QED BY <2>1, <3>2, <3>3 DEF ByClient
  <2>2. CASE ~ByClient
    <3>1. size'[v] = size[v] /\ due'[v] = due[v] /\ rq.kind # "rewrite"
      BY <1>6, <1>7, <2>2 DEF ByClient
    <3> QED BY <1>4, <1>5, <1>10, <3>1
  <2> QED BY <2>1, <2>2
<1> QED BY <1>8, <1>9, <1>12 DEF SizesExactly

\* Nobody else's row changes its size with a user's row in memory.
LEMMA RowSizes ==
  ASSUME TypeOK, OnePlace, NEW v \in Users, InMemory(v), NEW row \in Row,
         value' = [value EXCEPT ![tablets[v]] = row],
         \/ tablets' = tablets
         \/ row = EmptyRow /\ tablets' = [tablets EXCEPT ![v] = Null]
  PROVE  /\ \A u \in Users : u # v => SizeIn(u)' = SizeIn(u)
         /\ SizeIn(v)' = SizeOf(row)
<1> DEFINE n == tablets[v]
<1>1. n \in 1 .. Len(key) /\ value \in Seq(Row) /\ Len(value) = Len(key)
  BY RowInMemory, TypeFacts
<1> HIDE DEF n
<1>2. value'[n] = row /\ \A i \in 1 .. Len(key) : i # n => value'[i] = value[i]
  BY <1>1 DEF n
<1>3. ASSUME NEW u \in Users, u # v PROVE SizeIn(u)' = SizeIn(u)
  <2>1. InMemory(u) => tablets[u] # n /\ tablets[u] \in 1 .. Len(key)
    BY <1>3, RowInMemory DEF OnePlace, n
  <2>2. tablets'[u] = tablets[u]
    BY <1>3, TypeFacts
  <2> QED BY <1>2, <2>1, <2>2, SizeInSame
<1>4. SizeIn(v)' = SizeOf(row)
  <2>1. CASE tablets' = tablets
    BY <1>2, <2>1 DEF SizeIn, InMemory, RowOf, n
  <2>2. CASE row = EmptyRow /\ tablets' = [tablets EXCEPT ![v] = Null]
    <3>1. tablets'[v] = Null
      BY <2>2, TypeFacts
    <3> QED BY <2>2, <3>1, SizeEmpty DEF SizeIn, InMemory
  <2> QED BY <2>1, <2>2
<1> QED BY <1>3, <1>4

LEMMA StoreCounted ==
  ASSUME TypeOK, OnePlace, StackInOrder, NothingMislaid, LostStayOut, LoadedFits,
         CountedExactly, Stores
  PROVE  CountedExactly'
<1>1. /\ rq.user \in Users /\ rq.file \in Files /\ calls # <<>> /\ InMemory(rq.user)
      /\ rq.kind \in {"put", "restore", "rewrite"} /\ ~crashed /\ rq.len \in Nat
      /\ RowOf(rq.user) \in Row /\ calls \in Seq(CallSet) /\ rq = calls[1].rq
      /\ Head(calls) = calls[1]
  BY StoresTop DEF Stores
<1>2. PICK v, g : v = rq.user /\ g = rq.file
  OBVIOUS
<1>3. PICK old : old = RowOf(v)
  OBVIOUS
<1>4. old \in Row /\ v \in Users /\ g \in Files /\ InMemory(v)
  BY <1>1, <1>2, <1>3
<1>5. PICK m : m = IF rq.kind = "rewrite" THEN rq.len ELSE old[g] + rq.len
  OBVIOUS
<1>6. m \in Nat
  BY <1>1, <1>4, <1>5, RowFacts
<1>7. PICK row : row = [old EXCEPT ![g] = m]
  OBVIOUS
<1>8. row \in Row /\ SizeOf(row) = SizeOf(old) - old[g] + m
  BY <1>4, <1>6, <1>7, RowFacts, SizeChange
<1>9. value' = [value EXCEPT ![tablets[v]] = row] /\ tablets' = tablets
  BY <1>2, <1>3, <1>5, <1>7 DEF Stores, StoreInRow, Stored, RowOf
<1>10. (\A u \in Users : u # v => SizeIn(u)' = SizeIn(u)) /\ SizeIn(v)' = SizeOf(row)
  BY <1>4, <1>8, <1>9, RowSizes
<1>11. SizeIn(v) = SizeOf(old)
  BY <1>3, <1>4 DEF SizeIn
<1>12. Count /\ Return /\ crashed' = crashed /\ mark' = [mark EXCEPT !.relinked = TRUE]
  BY DEF Stores, StoreInRow
<1>13. mark'.drifted = mark.drifted
  BY <1>12, TypeFacts, MarkEffects
<1>14. ByClient => ~Exceeds(v, rq.len)
  <2>1. CASE At("start", Puts \cup {"rewrite"}) /\ Accepted
    BY <1>2, <2>1 DEF Accepted
  <2>2. CASE At("loaded", Puts)
    <3>1. 1 \in DOMAIN calls /\ calls[1].step = "loaded" /\ rq.kind # "rewrite"
      BY <1>1, <2>2 DEF At, Puts
    <3> QED BY <1>1, <1>2, <3>1 DEF LoadedFits, ByClient
  <2> QED BY <2>1, <2>2 DEF Stores
<1>15. ASSUME rq.kind = "rewrite", ~mark.drifted PROVE old[g] = due[v][g]
  <2>1. Head(calls).rq.kind # "restore" /\ Ordered(calls)
    BY <1>1, <1>15 DEF StackInOrder
  <2>2. NoRestore(calls)
    BY <1>1, <2>1, OrderedTail
  <2>3. v \notin mark.lost
    BY <1>1, <1>4, <1>15 DEF LostStayOut
  <2>4. Held(v) = due[v]
    BY <1>1, <1>4, <2>2, <2>3, HeldIsDue
  <2> QED BY <1>3, <1>4, <2>4, HeldFacts
<1> SUFFICES ASSUME ~mark.drifted PROVE SizesExactly' /\ UsedExactly'
  BY <1>13, CountedMeans
<1>16. SizesExactly /\ UsedExactly
  BY <1>1, CountedMeans
<1>17. Ordered(calls)
  BY DEF StackInOrder
<1>18. SizeIn(v)' = SizeOf(old) - old[g] + (IF rq.kind = "rewrite" THEN rq.len
                                            ELSE old[g] + rq.len)
  BY <1>5, <1>8, <1>10
<1> QED
  BY <1>1, <1>2, <1>4, <1>10, <1>11, <1>12, <1>14, <1>15, <1>16, <1>17, <1>18, PutCounted

LEMMA PutNewCounted ==
  ASSUME TypeOK, StackInOrder, CountedExactly, PutNew
  PROVE  CountedExactly'
<1> DEFINE N == Len(key)
<1>1. At("start", Puts)
  BY DEF PutNew
<1>2. /\ rq.user \in Users /\ rq.file \in Files /\ rq.len \in Nat /\ rq.kind \in Puts
      /\ calls # <<>> /\ ~crashed
  BY <1>1, AtTop
<1>3. PICK v, g : v = rq.user /\ g = rq.file
  OBVIOUS
<1>4. PICK row : row = [EmptyRow EXCEPT ![g] = rq.len]
  OBVIOUS
<1>5. /\ value' = Append(value, row) /\ tablets' = [tablets EXCEPT ![v] = N + 1]
      /\ crashed' = crashed /\ mark' = mark
      /\ ~InMemory(v) /\ Count /\ Return /\ Accepted
  BY <1>3, <1>4 DEF PutNew
<1>6. /\ value \in Seq(Row) /\ Len(value) = N /\ N \in Nat
      /\ tablets \in [Users -> 1 .. N \cup {Null}]
  BY TypeFacts, ListTyped
<1>7. value'[N + 1] = row /\ \A i \in 1 .. N : value'[i] = value[i]
  BY <1>5, <1>6
<1>8. ASSUME NEW u \in Users, u # v PROVE SizeIn(u)' = SizeIn(u)
  <2>1. tablets'[u] = tablets[u]
    BY <1>5, <1>6, <1>8
  <2>2. InMemory(u) => value'[tablets[u]] = value[tablets[u]]
    BY <1>6, <1>7 DEF InMemory
  <2> QED BY <2>1, <2>2, SizeInSame
<1>9. SizeIn(v)' = SizeOf(row)
  <2>1. tablets'[v] = N + 1 /\ N + 1 # Null
    BY <1>2, <1>3, <1>5, <1>6 DEF Null
  <2> QED BY <1>7, <2>1 DEF SizeIn, InMemory, RowOf
<1>10. SizeOf(row) = SizeOf(EmptyRow) - EmptyRow[g] + rq.len /\ EmptyRow \in Row
       /\ EmptyRow[g] = 0
  BY <1>2, <1>3, <1>4, RowFacts, SizeChange DEF EmptyRow, NoFile
<1>11. SizeIn(v) = SizeOf(EmptyRow)
  BY <1>5, SizeEmpty DEF SizeIn
<1>12. rq.kind \in {"put", "restore", "rewrite"} /\ rq.kind # "rewrite"
  BY <1>2 DEF Puts
<1>13. ByClient => ~Exceeds(v, rq.len)
  BY <1>3, <1>5 DEF Accepted
<1>14. SizeIn(v)' = SizeOf(EmptyRow) - EmptyRow[g] +
                    (IF rq.kind = "rewrite" THEN rq.len ELSE EmptyRow[g] + rq.len)
  BY <1>2, <1>9, <1>10, <1>12
<1> SUFFICES ASSUME ~mark.drifted PROVE SizesExactly' /\ UsedExactly'
  BY <1>5, CountedMeans
<1>15. SizesExactly /\ UsedExactly
  BY <1>2, CountedMeans
<1>16. Ordered(calls)
  BY DEF StackInOrder
<1> HIDE DEF N
<1> QED
  BY <1>2, <1>3, <1>5, <1>8, <1>10, <1>11, <1>12, <1>13, <1>14, <1>15, <1>16, PutCounted

LEMMA EvictCounted ==
  ASSUME TypeOK, OnePlace, CountedExactly, Evict
  PROVE  CountedExactly'
<1>1. PICK n, v :
        /\ n \in 1 .. Len(key) /\ v \in Users /\ value[n] \in Row
        /\ tablets' = [tablets EXCEPT ![v] = Null]
        /\ used' = used - SizeOf(value[n])
        /\ mark'.drifted = (mark.drifted \/
             (tablets[v] # n /\ (InMemory(v) \/ value[n] # EmptyRow)))
        /\ UNCHANGED <<size, value, calls, crashed, due>>
  BY EvictEffects
<1>2. \A u : Owed(u)' = Owed(u)
  BY <1>1 DEF Owed, rq
<1>3. ASSUME NEW u \in Users, u # v PROVE SizeIn(u)' = SizeIn(u)
  <2>1. tablets'[u] = tablets[u]
    BY <1>1, <1>3, TypeFacts
  <2> QED BY <1>1, <2>1, SizeInSame
<1>4. SizeIn(v)' = 0
  <2>1. tablets'[v] = Null
    BY <1>1, TypeFacts
  <2> QED BY <2>1 DEF SizeIn, InMemory
<1> SUFFICES ASSUME ~crashed, ~mark.drifted, ~mark'.drifted PROVE SizesExactly' /\ UsedExactly'
  BY <1>1, CountedMeans
<1>5. SizesExactly /\ UsedExactly
  BY CountedMeans
<1>6. SizesExactly'
  BY <1>1, <1>2, <1>5 DEF SizesExactly
<1>7. SizeIn(v) = SizeOf(value[n])
  <2>1. CASE tablets[v] = n
    <3>1. n # Null
      BY <1>1 DEF Null
    <3> QED BY <2>1, <3>1 DEF SizeIn, InMemory, RowOf
  <2>2. CASE tablets[v] # n
    <3>1. ~InMemory(v) /\ value[n] = EmptyRow
      BY <1>1, <2>2
    <3> QED BY <3>1, SizeEmpty DEF SizeIn
  <2> QED BY <2>1, <2>2
<1>8. Owed(v) \in Int /\ SizeIn(v) \in Int /\ used \in Int /\ 0 \in Int
  BY <1>1, SizesIn, TypeFacts
<1>9. used' = used - (SizeIn(v) - Owed(v)) + (0 - Owed(v))
  BY <1>1, <1>7, <1>8
<1>10. PICK y \in Int : y = Owed(v)
  BY <1>8
<1>11. Owed(v)' = y /\ used' = used - (SizeIn(v) - Owed(v)) + (0 - y)
  BY <1>2, <1>9, <1>10
<1>12. UsedExactly'
  BY <1>1, <1>2, <1>3, <1>4, <1>5, <1>8, <1>11, UsedMoves
<1> QED BY <1>6, <1>12

\* The counts go down by the length of a file, and the row or the debt goes along.
LEMMA TakeCounted ==
  ASSUME TypeOK, SizesExactly, UsedExactly,
         NEW v \in Users, NEW d \in Nat, NEW x \in Int, NEW y \in Nat,
         Owed(v) = 0, Owed(v)' = y, SizeIn(v)' = x,
         used' = used - d, size' = [size EXCEPT ![v] = size[v] - d],
         SizeIn(v) - d = x - y,
         SizeOf(due'[v]) - y = SizeOf(due[v]) - d, SizeOf(due'[v]) \in Int,
         \A u \in Users : u # v => /\ SizeIn(u)' = SizeIn(u)
                                   /\ Owed(u)' = Owed(u)
                                   /\ due'[u] = due[u]
  PROVE  SizesExactly' /\ UsedExactly'
<1>1. used \in Int /\ size \in [Users -> Int] /\ SizeIn(v) \in Int /\ due[v] \in Row
  BY TypeFacts, SizesIn
<1>2. SizeOf(due[v]) \in Int
  BY <1>1, SizeNat
<1>3. used' = used - (SizeIn(v) - Owed(v)) + (x - y)
  BY <1>1
<1>4. UsedExactly'
  <2>1. y \in Int
    OBVIOUS
  <2> QED BY <1>3, <2>1, UsedMoves
<1>5. size[v] = SizeOf(due[v]) - Owed(v) /\ size[v] < Capacity /\ size[v] \in Int
  BY <1>1 DEF SizesExactly
<1>6. size'[v] = size[v] - d /\ \A u \in Users : u # v => size'[u] = size[u]
  BY <1>1
<1>7. size'[v] = SizeOf(due'[v]) - Owed(v)' /\ size'[v] < Capacity
  <2>1. size'[v] < Capacity
    BY <1>5, <1>6, CapacityAssumption
  <2>2. size'[v] = SizeOf(due[v]) - d
    BY <1>2, <1>5, <1>6
  <2> QED BY <2>1, <2>2
<1>8. \A u \in Users : u # v => size'[u] = SizeOf(due'[u]) - Owed(u)' /\ size'[u] < Capacity
  BY <1>6 DEF SizesExactly
<1> QED BY <1>4, <1>7, <1>8 DEF SizesExactly

\* A file takes another name that no file has.
LEMMA MovedSize ==
  ASSUME NEW row \in Row, rq.file \in Files, rq.to \in Files,
         row[rq.file] # NoFile, row[rq.to] = NoFile
  PROVE  Moved(row) \in Row /\ SizeOf(Moved(row)) = SizeOf(row)
<1> DEFINE f == rq.file
           t == rq.to
           mid == [row EXCEPT ![f] = NoFile]
           n == row[f]
<1>1. NoFile \in Nat /\ n \in Nat /\ mid \in Row /\ SizeOf(row) \in Nat /\ f # t
  BY RowFacts, SizeNat
<1>2. SizeOf(mid) = SizeOf(row) - n + NoFile
  BY <1>1, SizeChange
<1>3. mid[t] = NoFile
  BY <1>1 DEF Row
<1>4. Moved(row) = [mid EXCEPT ![t] = n]
  BY DEF Moved
<1> HIDE DEF mid, n, f, t
<1>5. Moved(row) \in Row
  <2>1. [mid EXCEPT ![t] = n] \in Row
    BY <1>1 DEF Row
  <2> QED BY <1>4, <2>1
<1>6. SizeOf([mid EXCEPT ![t] = n]) = SizeOf(mid) - mid[t] + n
  BY <1>1, SizeChange DEF t
<1> QED BY <1>1, <1>2, <1>3, <1>4, <1>5, <1>6 DEF NoFile

LEMMA AccessCounted ==
  ASSUME TypeOK, OnePlace, StackInOrder, NothingMislaid, LostStayOut, CountedExactly, Accesses
  PROVE  CountedExactly'
<1>1. /\ calls \in Seq(CallSet) /\ calls # <<>> /\ ~crashed /\ rq = calls[1].rq
      /\ Head(calls) = calls[1] /\ rq.kind \in Gets
      /\ rq.user \in Users /\ rq.file \in Files /\ rq.to \in Files
  BY AccessTop
<1>2. PICK v, n, row, g : v = rq.user /\ n = tablets[v] /\ row = value[n] /\ g = rq.file
  OBVIOUS
<1>3. n \in 1 .. Len(key) /\ row \in Row /\ InMemory(v) /\ Held(v) = row /\ v \in Users
      /\ SizeIn(v) = SizeOf(row)
  <2>1. v \in Users /\ InMemory(v)
    BY <1>1, <1>2 DEF Accesses
  <2>2. n \in 1 .. Len(key) /\ RowOf(v) \in Row /\ Held(v) = RowOf(v)
    BY <1>2, <2>1, RowInMemory, HeldFacts
  <2> QED BY <1>2, <2>1, <2>2 DEF RowOf, SizeIn
<1>4. Head(calls).rq.kind # "restore" /\ rq.kind # "rewrite" /\ Ordered(calls)
  BY <1>1 DEF Gets, StackInOrder
<1>5. NoRestore(calls)
  BY <1>1, <1>4, OrderedTail
<1>6. \A u : Owed(u) = 0
  BY <1>4, OwedNothing
<1>7. due \in [Users -> Row] /\ mark \in MarkSet /\ used \in Int /\ size \in [Users -> Int]
  BY TypeFacts
<1>8. /\ crashed' = crashed
      /\ \/ Return /\ Untouched
         \/ Takes
         \/ Erase(n) /\ row[g] # NoFile
         \/ Rename(n) /\ row[g] # NoFile
  BY <1>2, AccessKinds
<1>9. ASSUME Return PROVE \A u : Owed(u)' = 0
  BY <1>1, <1>4, <1>9, OrderedTail, OwedNothing DEF Return
<1>10. ASSUME ~mark.drifted PROVE due[v] = row /\ SizesExactly /\ UsedExactly
  <2>1. v \notin mark.lost
    BY <1>1, <1>3, <1>10 DEF LostStayOut
  <2>2. Held(v) = due[v]
    BY <1>1, <1>3, <1>5, <2>1, HeldIsDue
  <2> QED BY <1>1, <1>3, <1>10, <2>2, CountedMeans
<1>11. PICK d : d = row[g]
  OBVIOUS
<1>12. d \in Nat /\ SizeOf(row) \in Nat /\ NoFile \in Nat /\ NoFile = 0
  BY <1>1, <1>2, <1>3, <1>11, RowFacts, SizeNat DEF NoFile
<1>13. CASE Return /\ Untouched
  <2>1. UNCHANGED <<used, size, tablets, value, due, mark>>
    BY <1>13 DEF Untouched, memory
  <2>2. \A u \in Users : SizeIn(u)' = SizeIn(u)
    BY <2>1, SizeInSame
  <2>3. \A u \in Users : Owed(u)' = Owed(u)
    BY <1>6, <1>9, <1>13
  <2> QED BY <1>8, <2>1, <2>2, <2>3, CountedSame
<1>14. CASE Takes
  <2>1. /\ used' = used - d /\ size' = [size EXCEPT ![v] = size[v] - d]
        /\ UNCHANGED <<tablets, value, due, mark>>
    BY <1>2, <1>11, <1>14 DEF Takes, Uncount
  <2> SUFFICES ASSUME ~mark.drifted PROVE SizesExactly' /\ UsedExactly'
    BY <2>1, CountedMeans
  <2>2. \A u \in Users : SizeIn(u)' = SizeIn(u)
    BY <2>1, SizeInSame
  <2>3. calls' # <<>> /\ Head(calls').rq = [rq EXCEPT !.kind = "rewrite"]
    BY <1>4, <1>14, TakesOrdered
  <2>4. /\ Head(calls').rq.kind = "rewrite" /\ Head(calls').rq.user = v
        /\ Head(calls').rq.file = g
    BY <1>2, <2>3, AccessTop DEF Request
  <2>5. Owed(v)' = d /\ \A u : u # v => Owed(u)' = 0
    BY <1>10, <1>11, <2>1, <2>3, <2>4 DEF Owed, rq
  <2>6. PICK x : x = SizeOf(row)
    OBVIOUS
  <2>7. x \in Int /\ SizeIn(v)' = x /\ SizeIn(v) - d = x - d
    BY <1>3, <1>12, <2>2, <2>6
  <2>8. SizeOf(due'[v]) - d = SizeOf(due[v]) - d /\ SizeOf(due'[v]) \in Int
    BY <1>10, <1>12, <2>1
  <2>9. \A u \in Users : u # v => SizeIn(u)' = SizeIn(u) /\ Owed(u)' = Owed(u) /\ due'[u] = due[u]
    BY <1>6, <2>1, <2>2, <2>5
  <2> QED BY <1>3, <1>6, <1>10, <1>12, <2>1, <2>5, <2>7, <2>8, <2>9, TakeCounted
<1>15. CASE Erase(n) /\ row[g] # NoFile
  <2>1. PICK left : left = [row EXCEPT ![g] = NoFile]
    OBVIOUS
  <2>2. /\ used' = used - d /\ size' = [size EXCEPT ![v] = size[v] - d]
        /\ value' = [value EXCEPT ![n] = left] /\ mark' = mark /\ Return
        /\ due' = [due EXCEPT ![v][g] = NoFile]
        /\ tablets' = (IF left = EmptyRow THEN [tablets EXCEPT ![v] = Null] ELSE tablets)
    BY <1>2, <1>11, <1>15, <2>1 DEF Erase, Uncount
  <2> SUFFICES ASSUME ~mark.drifted PROVE SizesExactly' /\ UsedExactly'
    BY <2>2, CountedMeans
  <2>3. left \in Row /\ SizeOf(left) = SizeOf(row) - d + 0
    BY <1>1, <1>2, <1>3, <1>11, <1>12, <2>1, RowFacts, SizeChange
  <2>4. value' = [value EXCEPT ![tablets[v]] = left]
        /\ (tablets' = tablets \/ (left = EmptyRow /\ tablets' = [tablets EXCEPT ![v] = Null]))
    BY <1>2, <2>2
  <2>5. (\A u \in Users : u # v => SizeIn(u)' = SizeIn(u)) /\ SizeIn(v)' = SizeOf(left)
    BY <1>3, <2>3, <2>4, RowSizes
  <2>6. \A u : Owed(u)' = 0
    BY <1>9, <2>2
  <2>7. due'[v] = left /\ \A u \in Users : u # v => due'[u] = due[u]
    BY <1>3, <1>7, <1>10, <2>1, <2>2
  <2>8. PICK x : x = SizeOf(left)
    OBVIOUS
  <2>9. x \in Int /\ SizeIn(v)' = x /\ SizeIn(v) - d = x - 0
    BY <1>3, <1>12, <2>3, <2>5, <2>8
  <2>10. SizeOf(due'[v]) - 0 = SizeOf(due[v]) - d /\ SizeOf(due'[v]) \in Int
    BY <1>10, <1>12, <2>3, <2>7
  <2>11. \A u \in Users : u # v => SizeIn(u)' = SizeIn(u) /\ Owed(u)' = Owed(u)
                                   /\ due'[u] = due[u]
    BY <1>6, <2>5, <2>6, <2>7
  <2>12. 0 \in Nat /\ Owed(v)' = 0
    BY <2>6
  <2> QED BY <1>3, <1>6, <1>10, <1>12, <2>2, <2>9, <2>10, <2>11, <2>12, TakeCounted
<1>16. CASE Rename(n) /\ row[g] # NoFile
  <2>1. PICK new : new = Moved(row)
    OBVIOUS
  <2>2. /\ used' = used /\ size' = size /\ tablets' = tablets
        /\ value' = [value EXCEPT ![n] = new] /\ Return
        /\ due' = [due EXCEPT ![v] = Moved(due[v])]
        /\ mark' = [mark EXCEPT !.drifted = mark.drifted \/ row[rq.to] # NoFile]
    BY <1>2, <1>16, <2>1 DEF Rename, memory
  <2>3. mark'.drifted = (mark.drifted \/ row[rq.to] # NoFile)
    <3>1. \A b : [mark EXCEPT !.drifted = b].drifted = b
      BY <1>7, MarkEffects
    <3> QED BY <2>2, <3>1
  <2> SUFFICES ASSUME ~mark.drifted, row[rq.to] = NoFile PROVE SizesExactly' /\ UsedExactly'
    BY <2>3, CountedMeans
  <2>4. new \in Row /\ SizeOf(new) = SizeOf(row)
    BY <1>1, <1>2, <1>3, <1>16, <2>1, MovedSize
  <2>5. value' = [value EXCEPT ![tablets[v]] = new]
    BY <1>2, <2>2
  <2>6. (\A u \in Users : u # v => SizeIn(u)' = SizeIn(u)) /\ SizeIn(v)' = SizeOf(new)
    BY <1>3, <2>2, <2>4, <2>5, RowSizes
  <2>7. \A u : Owed(u)' = 0
    BY <1>9, <2>2
  <2>8. due'[v] = new /\ \A u \in Users : u # v => due'[u] = due[u]
    BY <1>3, <1>7, <1>10, <2>1, <2>2
  <2>9. PICK x : x = SizeOf(new)
    OBVIOUS
  <2>10. x \in Int /\ SizeIn(v)' = x /\ SizeIn(v) - 0 = x - 0
    BY <1>3, <1>12, <2>4, <2>6, <2>9
  <2>11. SizeOf(due'[v]) - 0 = SizeOf(due[v]) - 0 /\ SizeOf(due'[v]) \in Int
    BY <1>10, <1>12, <2>4, <2>8
  <2>12. \A u \in Users : u # v => SizeIn(u)' = SizeIn(u) /\ Owed(u)' = Owed(u)
                                   /\ due'[u] = due[u]
    BY <1>6, <2>6, <2>7, <2>8
  <2>13. 0 \in Nat /\ Owed(v)' = 0
    BY <2>7
  <2>14. used' = used - 0 /\ size' = [size EXCEPT ![v] = size[v] - 0]
    BY <1>3, <1>7, <2>2
  <2> QED BY <1>3, <1>6, <1>10, <2>10, <2>11, <2>12, <2>13, <2>14, TakeCounted
<1> QED BY <1>8, <1>13, <1>14, <1>15, <1>16

LEMMA CountedKept ==
  ASSUME TypeOK, OnePlace, StackInOrder, NothingMislaid, LostStayOut, LoadedFits,
         CountedExactly, RestoresFit, [Next]_vars
  PROVE  CountedExactly'
<1>0. Ordered(calls) /\ calls \in Seq(CallSet) /\ mark \in MarkSet
  BY TypeFacts DEF StackInOrder
<1>1. ASSUME UNCHANGED <<used, size, tablets, value, due, crashed>>,
             mark.drifted => mark'.drifted,
             calls # <<>> => rq.kind # "rewrite",
             calls' # <<>> => Head(calls').rq.kind # "rewrite"
      PROVE CountedExactly'
  <2>1. \A u \in Users : SizeIn(u)' = SizeIn(u)
    BY <1>1, SizeInSame
  <2>2. (\A u : Owed(u) = 0) /\ (\A u : Owed(u)' = 0)
    BY <1>1, OwedNothing
  <2> QED BY <1>1, <2>1, <2>2, CountedSame
<1>2. ASSUME calls # <<>>, Return
      PROVE  calls' # <<>> => Head(calls').rq.kind # "rewrite"
  BY <1>0, <1>2, OrderedTail DEF Return
<1>3. CASE UNCHANGED vars
  <2>1. UNCHANGED <<used, size, tablets, value, due, crashed, mark, calls>>
    BY <1>3 DEF vars, cache, memory, heap, story
  <2>2. \A u \in Users : SizeIn(u)' = SizeIn(u)
    BY <2>1, SizeInSame
  <2>3. \A u \in Users : Owed(u)' = Owed(u)
    BY <2>1 DEF Owed, rq
  <2> QED BY <2>1, <2>2, <2>3, CountedSame
<1>4. CASE Receive
  <2>1. PICK r \in Request : /\ Arrive(r)
                             /\ r.kind \in {"put", "get", "cput", "dele", "rename", "list"}
    BY <1>4, Arrives
  <2>2. /\ calls' = <<[step |-> "start", rq |-> r]>> /\ calls = <<>>
        /\ UNCHANGED <<used, size, tablets, value, due, crashed, mark>>
    BY <2>1 DEF Arrive, cache, memory, heap, story
  <2>3. Head(calls').rq.kind # "rewrite"
    BY <2>1, <2>2
  <2> QED BY <1>1, <2>2, <2>3
<1>5. CASE Refuse \/ Drop
  <2>1. /\ UNCHANGED <<used, size, tablets, value, due, crashed>>
        /\ calls # <<>> /\ Return /\ rq.kind \in {"put", "rewrite"}
    BY <1>5 DEF Refuse, Drop, At, cache, memory, heap
  <2>2. /\ \E b : mark' = [mark EXCEPT !.drifted = mark.drifted \/ b]
        /\ rq.kind = "rewrite" => mark' = [mark EXCEPT !.drifted = TRUE]
    BY <1>5 DEF Refuse, Drop, At
  <2>3. \A b : [mark EXCEPT !.drifted = b].drifted = b
    BY <1>0, MarkEffects
  <2>4. CASE rq.kind = "rewrite"
    BY <2>2, <2>3, <2>4, CountedMeans
  <2>5. CASE rq.kind # "rewrite"
    <3>1. mark.drifted => mark'.drifted
      BY <2>2, <2>3
    <3> QED BY <1>1, <1>2, <2>1, <2>5, <3>1
  <2> QED BY <2>4, <2>5
<1>6. CASE Ignores
  <2>1. /\ UNCHANGED <<used, size, tablets, value, due, crashed, mark>>
        /\ calls # <<>> /\ Return /\ rq.kind # "rewrite"
    BY <1>6 DEF Ignores, At, Gets, cache, memory, heap, story
  <2> QED BY <1>1, <1>2, <2>1
<1>7. CASE PutNew
  BY <1>7, PutNewCounted
<1>8. CASE Stores
  BY <1>8, StoreCounted
<1>9. CASE Loads
  <2>1. /\ UNCHANGED <<used, size, tablets, value, due, crashed, mark>>
        /\ calls # <<>> /\ rq.kind # "rewrite"
    BY <1>9 DEF Loads, Load, At, Puts, Gets, memory, heap, story
  <2>2. Head(calls').rq.kind # "rewrite"
    BY <1>0, <1>9, LoadOrdered
  <2> QED BY <1>1, <2>1, <2>2
<1>10. CASE Evict
  BY <1>10, EvictCounted
<1>11. CASE Accesses
  BY <1>11, AccessCounted
<1>12. CASE Breaks
  BY <1>12 DEF Breaks, Segfault, CountedExactly
<1>13. CASE ListFiles
  <2>1. /\ UNCHANGED <<used, size, tablets, value, due, crashed, mark>>
        /\ calls # <<>> /\ rq.kind # "rewrite"
    BY <1>13 DEF ListFiles, At, cache, memory, heap, story
  <2>2. calls' # <<>> => Head(calls').rq.kind # "rewrite"
    BY <1>0, <1>13, ListOrdered
  <2> QED BY <1>1, <2>1, <2>2
<1>14. CASE Cuts
  BY <1>14, CutNeedsDrift, CountedMeans
<1> QED
  BY <1>3, <1>4, <1>5, <1>6, <1>7, <1>8, <1>9, <1>10, <1>11, <1>12, <1>13, <1>14, StepKinds

\* What load_user_from_disk puts back is what is due, and that is counted.
LEMMA LoadFits ==
  ASSUME TypeOK, OnePlace, StackInOrder, NothingMislaid, LostStayOut, CountedExactly,
         RestoresFit, Loads
  PROVE  RestoresFit'
<1> DEFINE R == Restores(rq.user)
           k == Len(R)
           n == Len(calls)
           c == calls'
<1>1. PICK v : v = rq.user
  OBVIOUS
<1>2. /\ virmem[v] \in Row /\ v \in Users
      /\ k \in Nat /\ n \in Nat /\ DOMAIN R = 1 .. k /\ DOMAIN calls = 1 .. n
      /\ DOMAIN c = 1 .. k + n
      /\ \A j \in 1 .. k : c[j] = R[j]
      /\ \A i \in 1 .. n : c[k + i].rq = calls[i].rq
  BY <1>1, LoadPlaces
<1>3. \A i \in DOMAIN R : /\ R[i].rq.file \in Files
                          /\ R[i].rq.len = virmem[v][R[i].rq.file] /\ R[i].rq.len # NoFile
  <2>1. PutsBack(R, v, virmem[v])
    BY <1>1, <1>2, RestoresOfRow
  <2> HIDE DEF R
  <2> QED BY <2>1 DEF PutsBack
<1>4. /\ At("start", Puts \cup Gets) /\ InVirMem(v) /\ mark' = mark /\ crashed' = crashed
      /\ ~crashed
  BY <1>1 DEF Loads, Load, At, story
<1>5. rq.kind # "rewrite" /\ calls # <<>>
  BY <1>4 DEF At, Puts, Gets
<1> HIDE DEF R, k, n, c
<1> SUFFICES ASSUME ~mark.drifted, NEW i \in 1 .. k + n, c[i].rq.kind = "restore"
             PROVE  c[i].rq.len <= Capacity
  BY <1>2, <1>4 DEF RestoresFit, c
<1>6. CASE i \in 1 .. k
  <2>1. PICK f \in Files : c[i].rq.len = virmem[v][f] /\ virmem[v][f] # NoFile
    BY <1>2, <1>3, <1>6
  <2>2. ~InMemory(v) /\ Held(v) = virmem[v]
    BY <1>2, <1>4, HeldFacts DEF OnePlace
  <2>3. v \notin mark.lost
    <3>1. ~Waiting(v)
      BY <1>4, NobodyWaits
    <3>2. virmem[v] # EmptyRow
      BY <1>2, <2>1 DEF EmptyRow
    <3> QED BY <1>4, <3>1, <3>2 DEF LostStayOut
  <2>4. Pending(calls, v, f, virmem[v][f], due[v][f])
    BY <1>2, <1>4, <2>2, <2>3 DEF NothingMislaid
  <2>5. due[v][f] = virmem[v][f]
    BY <2>1, <2>4 DEF Pending
  <2>6. due[v] \in Row
    BY <1>2, TypeFacts
  <2>7. SizeOf(due[v]) \in Nat /\ due[v][f] <= SizeOf(due[v]) /\ due[v][f] \in Nat
    BY <2>6, SizeNat DEF Row
  <2>8. Owed(v) = 0
    BY <1>5, OwedNothing
  <2>9. size[v] = SizeOf(due[v]) - Owed(v) /\ size[v] < Capacity
    BY <1>2, <1>4, CountedMeans DEF SizesExactly
  <2> QED BY <2>1, <2>5, <2>7, <2>8, <2>9, CapacityAssumption
<1>7. CASE i \notin 1 .. k
  <2>1. i - k \in 1 .. n /\ k + (i - k) = i
    BY <1>2, <1>7
  <2>2. c[i].rq = calls[i - k].rq /\ i - k \in DOMAIN calls
    BY <1>2, <2>1
  <2> QED BY <1>4, <2>2 DEF RestoresFit
<1> QED BY <1>6, <1>7

LEMMA RestoresKept ==
  ASSUME TypeOK, OnePlace, StackInOrder, NothingMislaid, LostStayOut, CountedExactly,
         RestoresFit, [Next]_vars
  PROVE  RestoresFit'
<1>0. Ordered(calls) /\ calls \in Seq(CallSet) /\ mark \in MarkSet
  BY TypeFacts DEF StackInOrder
<1>1. ASSUME crashed' = crashed, mark.drifted => mark'.drifted,
             \A i \in DOMAIN calls' : calls'[i].rq.kind = "restore" =>
               \E j \in DOMAIN calls : calls'[i] = calls[j]
      PROVE RestoresFit'
  <2> SUFFICES ASSUME ~crashed, ~mark.drifted, NEW i \in DOMAIN calls',
                      calls'[i].rq.kind = "restore"
               PROVE  calls'[i].rq.len <= Capacity
    BY <1>1 DEF RestoresFit
  <2>1. PICK j \in DOMAIN calls : calls'[i] = calls[j]
    BY <1>1
  <2> QED BY <2>1 DEF RestoresFit
<1>2. ASSUME NoRestore(calls') PROVE RestoresFit'
  BY <1>2 DEF RestoresFit, NoRestore
<1>3. ASSUME Return, calls # <<>>
      PROVE \A i \in DOMAIN calls' : \E j \in DOMAIN calls : calls'[i] = calls[j]
  BY <1>0, <1>3, Top DEF Return
<1>4. \A b : [mark EXCEPT !.drifted = b].drifted = b
  BY <1>0, MarkEffects
<1>5. CASE UNCHANGED vars
  BY <1>1, <1>5 DEF vars, story
<1>6. CASE Receive
  <2>1. PICK r \in Request : /\ Arrive(r)
                             /\ r.kind \in {"put", "get", "cput", "dele", "rename", "list"}
    BY <1>6, Arrives
  <2>2. calls' = <<[step |-> "start", rq |-> r]>>
    BY <2>1 DEF Arrive
  <2>3. NoRestore(calls')
    BY <2>1, <2>2 DEF NoRestore
  <2> QED BY <1>2, <2>3
<1>7. CASE Refuse \/ Drop \/ Ignores \/ Cuts \/ PutNew \/ Stores
  <2>1. Return /\ calls # <<>> /\ crashed' = crashed
    BY <1>7 DEF Refuse, Drop, Ignores, Cuts, PutNew, Stores, StoreInRow, At
  <2>2. mark.drifted => mark'.drifted
    <3>1. CASE Refuse \/ Drop
      <4>1. \E b : mark' = [mark EXCEPT !.drifted = mark.drifted \/ b]
        BY <3>1 DEF Refuse, Drop
      <4> QED BY <1>4, <4>1
    <3>2. CASE Ignores \/ PutNew
      BY <3>2 DEF Ignores, PutNew, story
    <3>3. CASE Cuts
      BY <3>3, CutsTop
    <3>4. CASE Stores
      <4>1. mark' = [mark EXCEPT !.relinked = TRUE]
        BY <3>4 DEF Stores, StoreInRow
      <4> QED BY <1>0, <4>1, MarkEffects
    <3> QED BY <1>7, <3>1, <3>2, <3>3, <3>4
  <2> QED BY <1>1, <1>3, <2>1, <2>2
<1>8. CASE Loads
  BY <1>8, LoadFits
<1>9. CASE Evict
  <2>1. calls' = calls /\ crashed' = crashed
    BY <1>9 DEF Evict
  <2>2. mark.drifted => mark'.drifted
    BY <1>9, EvictEffects
  <2> QED BY <1>1, <2>1, <2>2
<1>10. CASE Accesses
  <2>1. calls # <<>> /\ Head(calls).rq.kind # "restore"
    BY <1>10, AccessTop DEF Gets
  <2>2. CASE Takes
    BY <1>0, <1>2, <1>10, <2>2, TakesOrdered
  <2>3. CASE ~Takes
    <3>1. Return
      BY <1>10, <2>3, AccessKinds DEF Erase, Rename
    <3>2. NoRestore(calls')
      BY <1>0, <2>1, <3>1, OrderedTail DEF Return
    <3> QED BY <1>2, <3>2
  <2> QED BY <2>2, <2>3
<1>11. CASE Breaks
  BY <1>11 DEF Breaks, Segfault, RestoresFit
<1>12. CASE ListFiles
  BY <1>0, <1>2, <1>12, ListOrdered
<1> QED
  BY <1>5, <1>6, <1>7, <1>8, <1>9, <1>10, <1>11, <1>12, StepKinds

LEMMA CutKept ==
  ASSUME TypeOK, RestoresFit, CutHasCause, [Next]_vars
  PROVE  CutHasCause'
<1>0. mark \in MarkSet
  BY TypeFacts
<1>1. CASE Cuts
  BY <1>1, CutNeedsDrift DEF CutHasCause
<1>2. CASE Evict
  BY <1>2, EvictEffects DEF CutHasCause
<1>3. ASSUME \/ mark' = mark
             \/ \E b : mark' = [mark EXCEPT !.drifted = mark.drifted \/ b]
             \/ mark' = [mark EXCEPT !.relinked = TRUE]
      PROVE CutHasCause'
  <2>1. \A b : LET m == [mark EXCEPT !.drifted = b] IN m.drifted = b /\ m.cut = mark.cut
    BY <1>0, MarkEffects
  <2>2. LET m == [mark EXCEPT !.relinked = TRUE] IN m.drifted = mark.drifted /\ m.cut = mark.cut
    BY <1>0, MarkEffects
  <2> QED BY <1>3, <2>1, <2>2 DEF CutHasCause
<1>4. CASE Refuse \/ Drop
  BY <1>3, <1>4 DEF Refuse, Drop
<1>5. CASE Accesses
  BY <1>3, <1>5, AccessKinds DEF Untouched, Takes, Erase, Rename
<1>6. CASE Stores
  BY <1>3, <1>6 DEF Stores, StoreInRow
<1>7. CASE UNCHANGED vars \/ Loads \/ PutNew \/ Ignores \/ ListFiles \/ Breaks
  BY <1>3, <1>7 DEF vars, Loads, Load, PutNew, Ignores, ListFiles, Breaks, Segfault, story
<1>8. CASE Receive
  <2>1. PICK r : Arrive(r)
    BY <1>8, Arrives
  <2> QED BY <1>3, <2>1 DEF Arrive, story
<1> QED BY <1>1, <1>2, <1>4, <1>5, <1>6, <1>7, <1>8, StepKinds

-----------------------------------------------------------------------------
(***************************************************************************)
(* The causes of a crash.                                                  *)
(***************************************************************************)
\* With nothing in the list nothing is in memory, and nothing is in use.
LEMMA EmptyListUsesNothing ==
  ASSUME TypeOK, Linked(list, recent), list.next[head] = tail, UsedExactly,
         \A u \in Users : InMemory(u) => \E i \in DOMAIN recent : recent[i] = tablets[u],
         \A u : Owed(u) = 0
  PROVE  used = 0
<1>1. recent \in Seq(1 .. Len(key)) /\ Len(key) \in Nat
  BY TypeFacts, ListTyped
<1>2. recent = <<>>
  <2> SUFFICES ASSUME recent # <<>> PROVE FALSE
    OBVIOUS
  <2>1. Len(recent) \in Nat /\ Len(recent) # 0 /\ recent[1] \in 1 .. Len(key)
    BY <1>1
  <2>2. list.next[Stop(recent, 0)] = Stop(recent, 0 + 1)
    BY <2>1 DEF Linked
  <2>3. Stop(recent, 0) = head /\ Stop(recent, 0 + 1) = recent[1]
    BY <2>1 DEF Stop
  <2> QED BY <2>1, <2>2, <2>3 DEF tail
<1>3. \A u \in Users : SizeIn(u) = 0
  BY <1>2 DEF SizeIn
<1>4. [u \in Users |-> SizeIn(u) - Owed(u)] = [u \in Users |-> 0]
  BY <1>3
<1> QED BY <1>4, UsersAssumption, SumZero DEF UsedExactly

LEMMA CauseKept ==
  ASSUME TypeOK, HollowMarked, CountedExactly, CutHasCause, InOrder, CrashHasCause, [Next]_vars
  PROVE  CrashHasCause'
<1>1. CASE UNCHANGED vars
  BY <1>1 DEF CrashHasCause, vars, story
<1>2. CASE ~crashed /\ crashed' = crashed
  BY <1>2 DEF CrashHasCause
<1>3. Receive => ~crashed /\ crashed' = crashed
  <2> SUFFICES ASSUME Receive PROVE ~crashed /\ crashed' = crashed
    OBVIOUS
  <2>1. PICK r \in Request : Arrive(r)
    BY Arrives
  <2> QED BY <2>1 DEF Arrive
<1>4. Refuse \/ Drop \/ PutNew \/ Evict => ~crashed /\ crashed' = crashed
  BY DEF Refuse, Drop, PutNew, Evict, At
<1>5. Stores => ~crashed /\ crashed' = crashed
  BY DEF Stores, StoreInRow, At
<1>6. Loads => ~crashed /\ crashed' = crashed
  BY DEF Loads, Load, At
<1>7. Accesses => ~crashed /\ crashed' = crashed
  BY DEF Accesses, Access, At
<1>8. Ignores \/ Cuts \/ ListFiles => ~crashed /\ crashed' = crashed
  BY DEF Ignores, Cuts, ListFiles, At, cache
<1>9. CASE Breaks
  <2>1. mark' = mark
    BY <1>9 DEF Breaks, Segfault, story
  <2> SUFFICES ASSUME ~mark.relinked, ~mark.drifted, ~mark.hollow PROVE FALSE
    BY <2>1 DEF CrashHasCause
  <2>2. CASE At("loaded", Puts \cup Gets) /\ ~InMemory(rq.user)
    <3>1. rq.user \in Users /\ ~crashed
      BY <2>2, AtTop
    <3>2. Waiting(rq.user)
      BY <2>2 DEF At, Waiting, rq
    <3> QED BY <2>2, <3>1, <3>2 DEF HollowMarked, CutHasCause
  <2>3. CASE EvictNothing
    <3>1. At("start", Puts) /\ Full /\ list.next[head] = tail
      BY <2>3 DEF EvictNothing
    <3>2. /\ calls \in Seq(CallSet) /\ calls # <<>> /\ ~crashed
          /\ rq = calls[1].rq /\ rq.user \in Users /\ rq.file \in Files /\ rq.len \in Nat
          /\ rq.kind \in {"put", "restore"} /\ 1 \in DOMAIN calls
      BY <3>1, AtTop DEF Puts
    <3>3. \A u : Owed(u) = 0
      BY <3>2, OwedNothing
    <3>4. SizesExactly /\ UsedExactly
      BY <3>2, CountedMeans
    <3>5. /\ Linked(list, recent)
          /\ \A u \in Users : InMemory(u) => \E i \in DOMAIN recent : recent[i] = tablets[u]
      BY <3>2 DEF InOrder
    <3>6. used = 0
      BY <3>1, <3>3, <3>4, <3>5, EmptyListUsesNothing
    <3>7. ~(rq.len <= Capacity)
      BY <3>1, <3>2, <3>6 DEF Full, Fits
    <3>8. rq.len <= Capacity
      BY <3>1, <3>2, CapacityAssumption DEF Full, TooLarge
    <3> QED BY <3>7, <3>8
  <2> QED BY <1>9, <2>2, <2>3 DEF Breaks
<1> QED
  BY <1>1, <1>2, <1>3, <1>4, <1>5, <1>6, <1>7, <1>8, <1>9, StepKinds

-----------------------------------------------------------------------------
(***************************************************************************)
(* The theorems.                                                           *)
(***************************************************************************)
LEMMA InitTypes ==
  ASSUME Init
  PROVE  TypeOK /\ Once(recent)
<1>1. 0 \in 0 .. MaxRequests /\ 0 \in Int
  BY CapacityAssumption
<1>2. key = <<>> /\ value = <<>> /\ recent = <<>> /\ calls = <<>> /\ Len(key) = 0
  BY DEF Init
<1>3. list \in [prev : [Node \cup {head, tail} -> Node \cup {head, Null}],
                next : [Node \cup {head, tail} -> Node \cup {tail, Null}]]
  <2> DEFINE p == [n \in {head, tail} |-> IF n = tail THEN head ELSE Null]
             x == [n \in {head, tail} |-> IF n = head THEN tail ELSE Null]
  <2>1. Node = {}
    BY <1>2 DEF Node
  <2>2. p \in [{head, tail} -> {head, Null}] /\ x \in [{head, tail} -> {tail, Null}]
    OBVIOUS
  <2>3. list = [prev |-> p, next |-> x]
    BY DEF Init
  <2> HIDE DEF p, x
  <2>4. {} \cup {head, tail} = {head, tail} /\ {} \cup {head, Null} = {head, Null}
        /\ {} \cup {tail, Null} = {tail, Null}
    OBVIOUS
  <2> QED BY <2>1, <2>2, <2>3, <2>4
<1>4. \A n \in Node \cup {head, tail} :
        (list.prev[n] = Null <=> n = head) /\ (list.next[n] = Null <=> n = tail)
  <2>1. Node = {}
    BY <1>2 DEF Node
  <2> QED BY <2>1 DEF Init, head, tail, Null
<1>5. mark \in [relinked : BOOLEAN, drifted : BOOLEAN, hollow : BOOLEAN, cut : BOOLEAN,
                lost : SUBSET Users]
  BY DEF Init
<1>6. due \in [Users -> Row] /\ virmem \in [Users -> Row \cup {None}]
  BY RowFacts DEF Init
<1>7. /\ used \in Int /\ size \in [Users -> Int] /\ tablets \in [Users -> Node \cup {Null}]
      /\ crashed \in BOOLEAN /\ served \in 0 .. MaxRequests
  BY <1>1 DEF Init
<1>8. /\ key \in Seq(Users) /\ value \in Seq(Row) /\ Len(value) = Len(key)
      /\ calls \in Seq([step : {"start", "loaded"}, rq : Request]) /\ recent \in Seq(Node)
  BY <1>2
<1>9. Once(recent)
  BY <1>2 DEF Once
<1> QED BY <1>3, <1>4, <1>5, <1>6, <1>7, <1>8, <1>9 DEF TypeOK

LEMMA InitCounts ==
  ASSUME Init
  PROVE  CountedExactly
<1>1. \A u : Owed(u) = 0
  BY DEF Init, Owed
<1>2. \A u \in Users : SizeIn(u) = 0
  BY DEF Init, SizeIn, InMemory
<1>3. \A u \in Users : SizeOf(due[u]) = 0 /\ size[u] = 0
  BY SizeEmpty DEF Init
<1>4. SizesExactly
  <2>1. 0 < Capacity
    BY CapacityAssumption
  <2> QED BY <1>1, <1>3, <2>1 DEF SizesExactly
<1>5. UsedExactly
  <2>1. [u \in Users |-> SizeIn(u) - Owed(u)] = [u \in Users |-> 0]
    BY <1>1, <1>2
  <2>2. used = 0
    BY DEF Init
  <2> QED BY <2>1, <2>2, UsersAssumption, SumZero DEF UsedExactly
<1> QED BY <1>4, <1>5, CountedMeans

LEMMA InitHolds ==
  ASSUME Init
  PROVE  IInv
<1>1. TypeOK /\ Once(recent)
  BY InitTypes
<1>2. OnePlace /\ StackInOrder
  BY DEF Init, OnePlace, InMemory, StackInOrder, Ordered
<1>3. NothingMislaid
  <2> SUFFICES ASSUME NEW u \in Users, NEW f \in Files
               PROVE  Pending(calls, u, f, Held(u)[f], due[u][f])
    BY DEF NothingMislaid
  <2>1. Held(u) = EmptyRow /\ due[u] = EmptyRow /\ calls = <<>>
    BY DEF Init, Held, InMemory, InVirMem
  <2> QED BY <2>1, PendingPlain
<1>4. HollowMarked
  <2>1. None # EmptyRow
    BY RowFacts
  <2> QED BY <2>1 DEF Init, HollowMarked, Waiting
<1>5. LostStayOut /\ LoadedFits /\ CrashHasCause /\ RestoresFit /\ CutHasCause
  BY DEF Init, LostStayOut, LoadedFits, CrashHasCause, RestoresFit, CutHasCause
<1>6. InOrder
  <2>1. recent = <<>> /\ list.next[head] = tail /\ list.prev[tail] = head
    BY DEF Init, head, tail
  <2>2. Stop(recent, 0) = head /\ Stop(recent, 1) = tail /\ 0 .. Len(recent) = {0}
    BY <2>1 DEF Stop
  <2>3. Linked(list, recent)
    BY <2>1, <2>2 DEF Linked
  <2>4. \A u \in Users : ~InMemory(u)
    BY DEF Init, InMemory
  <2> QED BY <2>3, <2>4 DEF InOrder
<1> QED BY <1>1, <1>2, <1>3, <1>4, <1>5, <1>6, InitCounts DEF IInv

LEMMA NextKeeps ==
  ASSUME IInv, [Next]_vars
  PROVE  IInv'
<1>1. /\ TypeOK /\ OnePlace /\ StackInOrder /\ NothingMislaid /\ HollowMarked /\ LostStayOut
      /\ LoadedFits /\ CountedExactly /\ RestoresFit /\ CutHasCause
      /\ Once(recent) /\ InOrder /\ CrashHasCause
  BY DEF IInv
<1>2. TypeOK' /\ Once(recent')
  BY <1>1, TypesKept
<1>3. OnePlace' /\ StackInOrder'
  BY <1>1, OnePlaceKept, StackKept
<1>4. NothingMislaid' /\ HollowMarked' /\ LostStayOut'
  BY <1>1, MislaidKept, HollowKept, LostKept
<1>5. LoadedFits' /\ CountedExactly'
  BY <1>1, FitsKept, CountedKept
<1>6. InOrder' /\ CrashHasCause'
  BY <1>1, OrderKept, CauseKept
<1>7. RestoresFit' /\ CutHasCause'
  BY <1>1, RestoresKept, CutKept
<1> QED BY <1>2, <1>3, <1>4, <1>5, <1>6, <1>7 DEF IInv

\* The inductive invariant holds in every state the node can be in.
THEOREM CacheInvariant == Spec => []IInv
<1>1. Init => IInv
  BY InitHolds
<1>2. IInv /\ [Next]_vars => IInv'
  BY NextKeeps
<1> QED BY <1>1, <1>2, PTL DEF Spec

\* The state of the cache is well typed: every pointer in the list leads to a
\* node that new has made, or to head or tail (lrucache.cc).
THEOREM CacheTypes == Spec => []TypeOK
<1>1. IInv => TypeOK
  BY DEF IInv
<1> QED BY <1>1, CacheInvariant, PTL

\* Between requests the row of every user is in one place and is what the
\* answers promised, less the files larger than the memory that put refused to
\* load; there are such files only when counts have drifted (use_virtual_memory,
\* load_user_from_disk, restore_user, put).
THEOREM RowsAreKept == Spec => []Kept
<1>1. ASSUME IInv PROVE Kept
  <2> SUFFICES ASSUME Quiet, NEW u \in Users
               PROVE  ~(InMemory(u) /\ InVirMem(u)) /\ (u \notin mark.lost => Held(u) = due[u])
    BY <1>1 DEF Kept, IInv, CutHasCause
  <2>1. TypeOK /\ OnePlace /\ NothingMislaid /\ ~crashed /\ calls = <<>>
    BY <1>1 DEF IInv, Quiet
  <2>2. ~(InMemory(u) /\ InVirMem(u))
    BY <2>1 DEF OnePlace
  <2>3. NoRestore(calls)
    BY <2>1 DEF NoRestore
  <2> QED BY <2>1, <2>2, <2>3, HeldIsDue
<1> QED BY <1>1, CacheInvariant, PTL

\* Between requests memory_used and user_size are the sizes of the rows, until
\* one of the three things has happened that make them drift (put_helper, cput,
\* rename and use_virtual_memory).
THEOREM CountsAreExact == Spec => []Accounted
<1>1. ASSUME IInv PROVE Accounted
  <2> SUFFICES ASSUME Quiet, ~mark.drifted
               PROVE  /\ used = SumFunction([u \in Users |->
                                  IF InMemory(u) THEN SizeOf(RowOf(u)) ELSE 0])
                      /\ \A u \in Users : size[u] = SizeOf(due[u])
    BY DEF Accounted
  <2>1. TypeOK /\ SizesExactly /\ UsedExactly /\ calls = <<>>
    BY <1>1, CountedMeans DEF IInv, Quiet
  <2>2. \A u : Owed(u) = 0
    BY <2>1, OwedNothing
  <2>3. \A u \in Users : SizeIn(u) - Owed(u) = SizeIn(u)
    BY <2>1, <2>2, SizesIn
  <2>4. [u \in Users |-> SizeIn(u) - Owed(u)]
          = [u \in Users |-> IF InMemory(u) THEN SizeOf(RowOf(u)) ELSE 0]
    BY <2>3 DEF SizeIn
  <2>5. \A u \in Users : SizeOf(due[u]) \in Int
    BY <2>1, TypeFacts, SizeNat
  <2>6. \A u \in Users : size[u] = SizeOf(due[u])
    BY <2>1, <2>2, <2>5 DEF SizesExactly
  <2> QED BY <2>1, <2>4, <2>6 DEF UsedExactly
<1> QED BY <1>1, CacheInvariant, PTL

\* The list is the order of use in both directions, and has everybody who is in
\* memory, as long as no put went to a user in memory (lrucache.h:11).
THEOREM LeastRecentIsFirst == Spec => []LeastRecentFirst
<1>1. IInv => LeastRecentFirst
  BY OrderMeans DEF IInv
<1> QED BY <1>1, CacheInvariant, PTL

\* The process follows a null pointer only if the list, the counts or a row
\* loaded from virtual memory has gone wrong before (put and get_helper).
THEOREM CrashesHaveCause == Spec => []CrashHasCause
<1>1. IInv => CrashHasCause
  BY DEF IInv
<1> QED BY <1>1, CacheInvariant, PTL

LEMMA OverStep ==
  ASSUME TypeOK, [Next]_vars, used' > used, used' > Capacity
  PROVE  Head(calls).step = "loaded"
<1>1. used \in Int /\ Capacity \in Nat
  BY TypeFacts, CapacityAssumption
<1>2. CASE used' = used
  BY <1>1, <1>2
<1>3. ASSUME NEW d \in Nat, used' = used - d PROVE FALSE
  BY <1>1, <1>3
<1>4. ASSUME NEW d \in Nat, used' = used + d, Fits(d) PROVE FALSE
  BY <1>1, <1>4 DEF Fits
<1>5. CASE UNCHANGED vars
  BY <1>2, <1>5 DEF vars, cache, memory
<1>6. CASE Receive
  <2>1. PICK r : Arrive(r)
    BY <1>6, Arrives
  <2> QED BY <1>2, <2>1 DEF Arrive, cache, memory
<1>7. CASE Refuse \/ Drop \/ Loads \/ Ignores \/ Cuts \/ ListFiles \/ Breaks
  <2>1. Refuse \/ Drop \/ Ignores \/ Cuts \/ ListFiles => used' = used
    BY DEF Refuse, Drop, Ignores, Cuts, ListFiles, cache, memory
  <2>2. Loads \/ Breaks => used' = used
    BY DEF Loads, Load, Breaks, Segfault, cache, memory
  <2> QED BY <1>2, <1>7, <2>1, <2>2
<1>8. CASE PutNew
  <2>1. PICK d : d = rq.len
    OBVIOUS
  <2>2. d \in Nat
    BY <1>8, <2>1, AtTop DEF PutNew
  <2>3. used' = used + d /\ Fits(d)
    BY <1>8, <2>1 DEF PutNew, Count, Accepted
  <2> QED BY <1>4, <2>2, <2>3
<1>9. CASE Stores
  <2>1. CASE At("loaded", Puts)
    BY <2>1 DEF At
  <2>2. CASE At("start", Puts \cup {"rewrite"}) /\ Accepted
    <3>1. PICK d : d = rq.len
      OBVIOUS
    <3>2. d \in Nat
      BY <2>2, <3>1, AtTop
    <3>3. used' = used + d /\ Fits(d)
      BY <1>9, <2>2, <3>1 DEF Stores, StoreInRow, Count, Accepted
    <3> QED BY <1>4, <3>2, <3>3
  <2> QED BY <1>9, <2>1, <2>2 DEF Stores
<1>10. CASE Evict
  <2>1. PICK row \in Row : used' = used - SizeOf(row)
    BY <1>10, EvictEffects
  <2> QED BY <1>3, <2>1, SizeNat
<1>11. CASE Accesses
  <2>1. PICK d : d = value[tablets[rq.user]][rq.file]
    OBVIOUS
  <2>2. d \in Nat
    BY <1>11, <2>1, AccessTop, RowFacts DEF RowOf
  <2>3. used' = used \/ used' = used - d
    BY <1>11, <2>1, AccessKinds DEF Untouched, memory, Takes, Uncount, Erase, Rename
  <2> QED BY <1>2, <1>3, <2>2, <2>3
<1> QED
  BY <1>5, <1>6, <1>7, <1>8, <1>9, <1>10, <1>11, StepKinds

\* memory_used grows past the capacity only in a put that had to load its row
\* first (put_helper looks at the capacity before load_user_from_disk).
THEOREM OnlyLoadsGoOver == Spec => OverOnlyByLoading
<1>1. TypeOK /\ [Next]_vars
        => [used' > used /\ used' > Capacity => Head(calls).step = "loaded"]_vars
  BY OverStep
<1> QED BY <1>1, CacheTypes, PTL DEF Spec, OverOnlyByLoading
=============================================================================
