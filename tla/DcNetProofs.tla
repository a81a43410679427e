---------------------------- MODULE DcNetProofs ----------------------------
(***************************************************************************)
(* The arithmetic of the dining-cryptographers net, for every number of    *)
(* clients, every size of int and char and whatever keys are drawn: the    *)
(* signed keys of all clients cancel, and what is not a char is cast to    *)
(* one.                                                                    *)
(***************************************************************************)
EXTENDS DcNet, Counting

-----------------------------------------------------------------------------
(* The arithmetic of int.                                                  *)

Half == Word \div 2

\* Cong: a and b are the same int.
Cong(a, b) == \E q \in Int : a = b + q * Word

LEMMA WordHalves ==
  /\ Word \in Nat /\ Half \in Nat /\ Word = 2 * Half
  /\ MAX_CHAR \in Nat \ {0} /\ 2 * N * MAX_CHAR < Half
<1>1. /\ MAX_CHAR \in Nat \ {0} /\ Word \in Nat /\ Word % (2 * (MAX_CHAR + 1)) = 0
      /\ 2 * N * MAX_CHAR < Word \div 2
  BY ArithmeticAssumption
<1> DEFINE m == 2 * (MAX_CHAR + 1)
           q == Word \div m
<1>2. m \in Nat \ {0} /\ q \in Int /\ Word = m * q + (Word % m)
  BY <1>1
<1>3. Word = 2 * ((MAX_CHAR + 1) * q) /\ (MAX_CHAR + 1) * q \in Int
  BY <1>1, <1>2
<1> QED
  BY <1>1, <1>3 DEF Half

LEMMA WordPositive == Half > 0 /\ Word > 0
<1>1. 2 * N * MAX_CHAR \in Nat
  BY WordHalves, NAssumption
<1> QED
  BY <1>1, WordHalves

LEMMA KeysAreInts == \A v \in KeyValues : v \in Int
<1>1. KeyValues \subseteq -Half .. Half - 1
  BY ArithmeticAssumption DEF Half, JavaInt
<1>2. Half \in Int
  BY WordHalves
<1> HIDE DEF Half
<1> QED
  BY <1>1, <1>2

LEMMA CongSums ==
  ASSUME NEW a \in Int, NEW b \in Int, NEW c \in Int, NEW d \in Int,
         Cong(a, b), Cong(c, d)
  PROVE  Cong(a + c, b + d)
<1>1. PICK q \in Int : a = b + q * Word
  BY DEF Cong
<1>2. PICK s \in Int : c = d + s * Word
  BY DEF Cong
<1>3. q * Word \in Int /\ s * Word \in Int /\ (q + s) * Word = q * Word + s * Word
  BY WordHalves
<1>4. q + s \in Int /\ a + c = b + d + (q + s) * Word
  BY <1>1, <1>2, <1>3
<1> QED
  BY <1>4 DEF Cong

LEMMA CongTransitive ==
  ASSUME NEW a \in Int, NEW b \in Int, NEW c \in Int, Cong(a, b), Cong(b, c)
  PROVE  Cong(a, c)
<1>1. PICK q \in Int : a = b + q * Word
  BY DEF Cong
<1>2. PICK s \in Int : b = c + s * Word
  BY DEF Cong
<1>3. q * Word \in Int /\ s * Word \in Int /\ (q + s) * Word = q * Word + s * Word
  BY WordHalves
<1>4. q + s \in Int /\ a = c + (q + s) * Word
  BY <1>1, <1>2, <1>3
<1> QED
  BY <1>4 DEF Cong

LEMMA CongReflexive == ASSUME NEW a \in Int PROVE Cong(a, a)
<1>1. 0 \in Int /\ a = a + 0 * Word
  BY WordHalves
<1> QED
  BY <1>1 DEF Cong

LEMMA CongSymmetric == ASSUME NEW a \in Int, NEW b \in Int, Cong(a, b) PROVE Cong(b, a)
<1>1. PICK q \in Int : a = b + q * Word
  BY DEF Cong
<1>2. q * Word \in Int /\ (-q) * Word = -(q * Word)
  BY WordHalves
<1>3. -q \in Int /\ b = a + (-q) * Word
  BY <1>1, <1>2
<1> QED
  BY <1>3 DEF Cong

\* Two values of int that are the same int are equal.
LEMMA CongEqual ==
  ASSUME NEW a \in JavaInt, NEW b \in JavaInt, Cong(a, b)
  PROVE  a = b
<1>1. PICK q \in Int : a = b + q * Word
  BY DEF Cong
<1>2. a \in Int /\ b \in Int /\ q * Word < Word /\ -Word < q * Word
  BY <1>1, WordHalves DEF JavaInt, Half
<1>3. CASE q >= 1
  BY <1>2, <1>3, WordHalves
<1>4. CASE q <= -1
  BY <1>2, <1>4, WordHalves
<1>5. CASE q = 0
  BY <1>1, <1>2, <1>5, WordHalves
<1> QED
  BY <1>3, <1>4, <1>5

\* Wrapping around gives the same int, and one in the range.
LEMMA Wraps == ASSUME NEW x \in Int PROVE Wrap(x) \in JavaInt /\ Wrap(x) \in Int /\ Cong(Wrap(x), x)
<1> DEFINE y == x + Half
           d == y \div Word
<1>1. y \in Int /\ d \in Int /\ (y % Word) \in 0 .. Word - 1 /\ y = Word * d + (y % Word)
  BY WordHalves, WordPositive
<1>2. -d \in Int /\ (y % Word) = y + (-d) * Word
  <2>1. Word * d \in Int /\ (-d) * Word = -(Word * d)
    <3> HIDE DEF d
    <3> QED
      BY <1>1, WordHalves
  <2> HIDE DEF y, d
  <2> QED
    BY <1>1, <2>1
<1>3. Wrap(x) = (y % Word) - Half
  BY DEF Wrap, Half
<1>4. Wrap(x) = x + (-d) * Word
  <2>1. (-d) * Word \in Int /\ Half \in Int
    BY <1>1, WordHalves
  <2> HIDE DEF d
  <2> QED
    BY <1>2, <1>3, <2>1
<1>5. Wrap(x) \in JavaInt
  <2> HIDE DEF y
  <2> QED
    BY <1>1, <1>3, WordHalves DEF JavaInt, Half
<1> HIDE DEF d
<1>6. Cong(Wrap(x), x)
  BY <1>2, <1>4 DEF Cong
<1> QED
  BY <1>5, <1>6, WordHalves DEF JavaInt, Half
-----------------------------------------------------------------------------
(* The sums of the model are sums in the sense of module Counting.         *)

Signed(k) == [e \in UNION {KeySetOf(x) : x \in Clients} |->
                IF e.op = "ADD" THEN k[e.pair] ELSE -k[e.pair]]

LEMMA KeySetsFinite ==
  /\ IsFiniteSet(Clients) /\ IsFiniteSet(Pairs)
  /\ \A x \in Clients : IsFiniteSet(KeySetOf(x))
<1>1. IsFiniteSet(Clients)
  BY FS_Interval, NAssumption DEF Clients
<1>2. IsFiniteSet(Pairs)
  BY <1>1, FS_Product, FS_Subset DEF Pairs
<1>3. ASSUME NEW x \in Clients PROVE IsFiniteSet(KeySetOf(x))
  <2> DEFINE Entries == Pairs \X {"ADD", "SUBTRACT"}
             entryOf == [z \in Entries |-> [pair |-> z[1], op |-> z[2]]]
             All == {entryOf[z] : z \in Entries}
  <2>1. IsFiniteSet({"ADD"} \cup {"SUBTRACT"}) /\ {"ADD", "SUBTRACT"} = {"ADD"} \cup {"SUBTRACT"}
    BY FS_Singleton, FS_Union
  <2>2. IsFiniteSet(Entries)
    BY <1>2, <2>1, FS_Product
  <2>3. entryOf \in Surjection(Entries, All)
    BY DEF Surjection
  <2>4. IsFiniteSet(All)
    BY <2>2, <2>3, FS_Surjection
  <2>5. KeySetOf(x) \subseteq All
    <3> SUFFICES ASSUME NEW e \in KeySetOf(x) PROVE e \in All
      OBVIOUS
    <3>1. <<e.pair, e.op>> \in Entries /\ e = [pair |-> e.pair, op |-> e.op]
      BY DEF KeySetOf
    <3>2. e = entryOf[<<e.pair, e.op>>]
      BY <3>1
    <3> QED
      BY <3>1, <3>2
  <2> QED
    BY <2>4, <2>5, FS_Subset
<1> QED
  BY <1>1, <1>2, <1>3

LEMMA OutputsAdded ==
  ASSUME NEW k, NEW T \in SUBSET Clients,
         \A x \in Clients : sum(k, KeySetOf(x)) \in Int
  PROVE  MapThenSumSet(LAMBDA x : sum(k, KeySetOf(x)), T)
           = SumOf([x \in Clients |-> sum(k, KeySetOf(x))], T)
<1> DEFINE f == [x \in Clients |-> sum(k, KeySetOf(x))]
           Iter(g) == g = [s \in SUBSET T |-> IF s = {} THEN 0
                             ELSE sum(k, KeySetOf(Some(s))) + g[s \ {Some(s)}]]
           h == CHOOSE g : Iter(g)
<1>1. IsFiniteSet(T) /\ Ints(f, T)
  BY KeySetsFinite, FS_Subset DEF Ints
<1>2. \A s \in SUBSET T : s # {} => sum(k, KeySetOf(Some(s))) = f[Some(s)]
  BY SomeElement
<1>3. \A g : Iter(g) <=> Adds(g, f, T)
  BY <1>2 DEF Adds
<1>4. Adds(h, f, T)
  BY <1>1, <1>3, AddsExist
<1>5. MapThenSumSet(LAMBDA x : sum(k, KeySetOf(x)), T) = h[T]
  BY DEF MapThenSumSet, MapThenFoldSet, Some
<1> QED
  BY <1>1, <1>4, <1>5, AddsUp

LEMMA SpeechAdded ==
  ASSUME NEW w, NEW T \in SUBSET Clients, \A c \in T : Encoded(w[c]) \in Int
  PROVE  MapThenSumSet(LAMBDA c : Encoded(w[c]), T) = SumOf([c \in T |-> Encoded(w[c])], T)
<1> DEFINE f == [c \in T |-> Encoded(w[c])]
           Iter(g) == g = [s \in SUBSET T |-> IF s = {} THEN 0
                             ELSE Encoded(w[Some(s)]) + g[s \ {Some(s)}]]
           h == CHOOSE g : Iter(g)
<1>1. IsFiniteSet(T) /\ Ints(f, T)
  BY KeySetsFinite, FS_Subset DEF Ints
<1>2. \A s \in SUBSET T : s # {} => Encoded(w[Some(s)]) = f[Some(s)]
  BY SomeElement
<1>3. \A g : Iter(g) <=> Adds(g, f, T)
  BY <1>2 DEF Adds
<1>4. Adds(h, f, T)
  BY <1>1, <1>3, AddsExist
<1>5. MapThenSumSet(LAMBDA c : Encoded(w[c]), T) = h[T]
  BY DEF MapThenSumSet, MapThenFoldSet, Some
<1> QED
  BY <1>1, <1>4, <1>5, AddsUp

-----------------------------------------------------------------------------
(* Sums that wrap around at every step are the same int as sums that don't. *)

\* KeySet.sum, whatever order the HashSet's iterator takes.
LEMMA KeySetSum ==
  ASSUME NEW k \in [Pairs -> KeyValues], NEW x \in Clients
  PROVE  /\ Ints(Signed(k), KeySetOf(x))
         /\ sum(k, KeySetOf(x)) \in Int
         /\ Cong(sum(k, KeySetOf(x)), SumOf(Signed(k), KeySetOf(x)))
<1> DEFINE K == KeySetOf(x)
           f == Signed(k)
           first == [s \in SUBSET K |-> Some(s)]
           step == [s \in SUBSET K |-> [v \in Int |-> Wrap(v + f[Some(s)])]]
           Iter(g) == g = [s \in SUBSET K |-> IF s = {} THEN 0
                             ELSE Wrap(IF Some(s).op = "ADD"
                                         THEN g[s \ {Some(s)}] + k[Some(s).pair]
                                         ELSE g[s \ {Some(s)}] - k[Some(s).pair])]
           h == CHOOSE g : Iter(g)
<1>1. IsFiniteSet(K)
  BY KeySetsFinite
<1>2. ASSUME NEW e \in K
      PROVE  k[e.pair] \in Int /\ f[e] = IF e.op = "ADD" THEN k[e.pair] ELSE -k[e.pair]
  <2>1. e.pair \in Pairs
    BY DEF KeySetOf
  <2>2. k[e.pair] \in Int
    BY <2>1, KeysAreInts
  <2> QED
    BY <2>2 DEF Signed
<1>3. Ints(f, K)
  BY <1>2 DEF Ints
<1> HIDE DEF K, f
<1>4. \E g : Iter(g)
  <2>1. Foldable(K, Int, 0, first, step)
    BY <1>1, <1>3, SomeElement, Wraps DEF Foldable, Ints
  <2>2. PICK g : g \in FoldsOf(K, Int, 0, first, step)
    <3> HIDE DEF first, step
    <3> QED
      BY <2>1, FoldExists
  <2>3. g \in [SUBSET K -> Int]
    BY <2>2 DEF FoldsOf
  <2>4. ASSUME NEW s \in SUBSET K, s # {}
        PROVE  g[s] = Wrap(IF Some(s).op = "ADD"
                             THEN g[s \ {Some(s)}] + k[Some(s).pair]
                             ELSE g[s \ {Some(s)}] - k[Some(s).pair])
    <3>1. Some(s) \in K
      BY <2>4, SomeElement
    <3>2. g[s \ {Some(s)}] \in Int
      BY <2>3
    <3>3. g[s] = Wrap(g[s \ {Some(s)}] + f[Some(s)])
      BY <2>2, <2>4, <3>2 DEF FoldsOf
    <3> QED
      BY <1>2, <3>1, <3>2, <3>3
  <2>5. g[{}] = 0
    BY <2>2 DEF FoldsOf
  <2> QED
    BY <2>3, <2>4, <2>5
<1>5. Iter(h)
  BY <1>4
<1>6. sum(k, K) = h[K]
  BY DEF sum, FoldSet, MapThenFoldSet, Some
<1> DEFINE Reached == {T \in SUBSET K : h[T] \in Int /\ Cong(h[T], SumOf(f, T))}
<1>7. ASSUME NEW T \in SUBSET K, \A e \in T : T \ {e} \in Reached PROVE T \in Reached
  <2> IsFiniteSet(T) /\ Ints(f, T) /\ SumOf(f, T) \in Int
    BY <1>1, <1>3, PartsSum
  <2>1. CASE T = {}
    <3>1. h[T] = 0 /\ SumOf(f, T) = 0
      BY <1>5, <2>1, SumUnfolds
    <3> QED
      BY <3>1, CongReflexive
  <2>2. CASE T # {}
    <3> DEFINE e == Some(T)
               rest == T \ {e}
    <3>1. e \in T /\ e \in K /\ SumOf(f, T) = f[e] + SumOf(f, rest)
      BY <2>2, SumUnfolds
    <3>2. h[T] = Wrap(IF e.op = "ADD" THEN h[rest] + k[e.pair] ELSE h[rest] - k[e.pair])
      BY <1>5, <2>2
    <3>3. h[rest] \in Int /\ Cong(h[rest], SumOf(f, rest))
      BY <1>7, <3>1
    <3>4. f[e] \in Int /\ SumOf(f, rest) \in Int
      BY <1>1, <1>3, <3>1, PartsSum DEF Ints
    <3> HIDE DEF e, rest
    <3>5. h[T] = Wrap(h[rest] + f[e])
      BY <1>2, <3>1, <3>2, <3>3
    <3>6. h[rest] + f[e] \in Int /\ Cong(h[rest] + f[e], SumOf(f, T))
      <4>1. Cong(h[rest] + f[e], SumOf(f, rest) + f[e])
        BY <3>3, <3>4, CongReflexive, CongSums
      <4> QED
        BY <3>1, <3>3, <3>4, <4>1
    <3>7. h[T] \in Int /\ Cong(h[T], SumOf(f, T))
      BY <3>5, <3>6, Wraps, CongTransitive
    <3> QED
      BY <3>7
  <2> QED
    BY <2>1, <2>2
<1>8. K \in Reached
  <2> HIDE DEF Reached
  <2>1. SUBSET K \subseteq Reached
    BY <1>1, <1>7, SubsetsReached
  <2> QED
    BY <2>1
<1> QED
  BY <1>3, <1>6, <1>8 DEF K, f

LEMMA LargestExists ==
  ASSUME NEW S, IsFiniteSet(S), S \subseteq Nat, NEW T \in SUBSET S, T # {}
  PROVE  Max(T) \in T
<1> DEFINE Reached == {U \in SUBSET S : U # {} => \E x \in U : \A y \in U : x >= y}
<1>1. ASSUME NEW U \in SUBSET S, \A x \in U : U \ {x} \in Reached PROVE U \in Reached
  <2> SUFFICES ASSUME NEW x \in U PROVE \E z \in U : \A y \in U : z >= y
    OBVIOUS
  <2>1. CASE U = {x}
    BY <2>1
  <2>2. CASE U # {x}
    <3>1. PICK z \in U \ {x} : \A y \in U \ {x} : z >= y
      BY <1>1, <2>2
    <3> QED
      BY <3>1
  <2> QED
    BY <2>1, <2>2
<1>2. T \in Reached
  <2> HIDE DEF Reached
  <2>1. SUBSET S \subseteq Reached
    BY <1>1, SubsetsReached
  <2> QED
    BY <2>1
<1> QED
  BY <1>2 DEF Max

\* The loop of collate, which takes the outputs in their order.
LEMMA TotalSum ==
  ASSUME NEW m \in Seq(Int)
  PROVE  /\ IsFiniteSet(DOMAIN m) /\ Ints(m, DOMAIN m)
         /\ Total(m) \in Int /\ Total(m) \in JavaInt
         /\ Cong(Total(m), SumOf(m, DOMAIN m))
<1> DEFINE K == DOMAIN m
           first == [s \in SUBSET K |-> Max(s)]
           step == [s \in SUBSET K |-> [v \in Int |-> Wrap(v + m[Max(s)])]]
           Iter(g) == g = [s \in SUBSET K |-> IF s = {} THEN 0
                             ELSE Wrap(g[s \ {Max(s)}] + m[Max(s)])]
           h == CHOOSE g : Iter(g)
<1>1. IsFiniteSet(K) /\ K \subseteq Nat
  BY FS_Interval
<1>2. Ints(m, K)
  BY DEF Ints
<1>3. \A s \in SUBSET K : s # {} => Max(s) \in s
  BY <1>1, LargestExists
<1>4. \E g : Iter(g)
  <2>1. Foldable(K, Int, 0, first, step)
    <3>1. ASSUME NEW s \in (SUBSET K) \ {{}}, NEW v \in Int PROVE Wrap(v + m[Max(s)]) \in Int
      <4>1. m[Max(s)] \in Int
        BY <1>2, <1>3 DEF Ints
      <4>2. v + m[Max(s)] \in Int
        BY <4>1
      <4> QED
        BY <4>2, Wraps
    <3>2. 0 \in Int
      OBVIOUS
    <3> HIDE DEF K
    <3> QED
      BY <1>1, <1>3, <3>1, <3>2 DEF Foldable
  <2>2. PICK g : g \in FoldsOf(K, Int, 0, first, step)
    <3> HIDE DEF first, step
    <3> QED
      BY <2>1, FoldExists
  <2>3. g \in [SUBSET K -> Int]
    BY <2>2 DEF FoldsOf
  <2>4. ASSUME NEW s \in SUBSET K, s # {}
        PROVE  g[s] = Wrap(g[s \ {Max(s)}] + m[Max(s)])
    <3>1. g[s \ {Max(s)}] \in Int
      BY <2>3
    <3> QED
      BY <2>2, <2>4, <3>1 DEF FoldsOf
  <2>5. g[{}] = 0
    BY <2>2 DEF FoldsOf
  <2> QED
    BY <2>3, <2>4, <2>5
<1>5. Iter(h)
  BY <1>4
<1>6. Total(m) = h[K]
  BY DEF Total, FoldLeft, MapThenFoldSet
<1> HIDE DEF K, h
<1> DEFINE Reached == {T \in SUBSET K : /\ h[T] \in Int /\ h[T] \in JavaInt
                                        /\ Cong(h[T], SumOf(m, T))}
<1>7. ASSUME NEW T \in SUBSET K, \A i \in T : T \ {i} \in Reached PROVE T \in Reached
  <2> IsFiniteSet(T) /\ Ints(m, T) /\ SumOf(m, T) \in Int
    BY <1>1, <1>2, PartsSum
  <2>1. CASE T = {}
    <3>1. h[T] = 0 /\ SumOf(m, T) = 0
      BY <1>5, <2>1, SumUnfolds
    <3>2. 0 \in JavaInt
      BY WordHalves, WordPositive DEF JavaInt, Half
    <3> QED
      BY <3>1, <3>2, CongReflexive
  <2>2. CASE T # {}
    <3> DEFINE i == Max(T)
               rest == T \ {i}
    <3>1. i \in T /\ i \in K
      BY <1>3, <2>2
    <3>2. h[T] = Wrap(h[rest] + m[i])
      BY <1>5, <2>2
    <3>3. h[rest] \in Int /\ Cong(h[rest], SumOf(m, rest))
      BY <1>7, <3>1
    <3>4. m[i] \in Int /\ SumOf(m, rest) \in Int
      BY <1>1, <1>2, <3>1, PartsSum DEF Ints
    <3>5. SumOf(m, T) = m[i] + SumOf(m, rest)
      BY <3>1, SumOfRest
    <3> HIDE DEF i, rest
    <3>6. h[rest] + m[i] \in Int /\ Cong(h[rest] + m[i], SumOf(m, T))
      <4>1. Cong(h[rest] + m[i], SumOf(m, rest) + m[i])
        BY <3>3, <3>4, CongReflexive, CongSums
      <4> QED
        BY <3>3, <3>4, <3>5, <4>1
    <3>7. h[T] \in Int /\ h[T] \in JavaInt /\ Cong(h[T], SumOf(m, T))
      BY <3>2, <3>6, Wraps, CongTransitive
    <3> QED
      BY <3>7
  <2> QED
    BY <2>1, <2>2
<1>8. K \in Reached
  <2> HIDE DEF Reached
  <2>1. SUBSET K \subseteq Reached
    BY <1>1, <1>7, SubsetsReached
  <2> QED
    BY <2>1
<1> QED
  BY <1>1, <1>2, <1>6, <1>8 DEF K

\* What is added to the outputs is added to their total.
LEMMA TotalGrows ==
  ASSUME NEW m \in Seq(Int), NEW x \in Int
  PROVE  /\ Total(<<>>) = 0
         /\ Total(Append(m, x)) \in Int
         /\ Cong(Total(Append(m, x)), Total(m) + x)
<1> DEFINE n == Append(m, x)
           last == Len(m) + 1
<1>1. n \in Seq(Int) /\ DOMAIN n = DOMAIN m \cup {last} /\ last \notin DOMAIN m
      /\ n[last] = x /\ \A i \in DOMAIN m : n[i] = m[i]
  OBVIOUS
<1>2. Total(<<>>) = 0
  <2>1. <<>> \in Seq(Int) /\ DOMAIN <<>> = {}
    OBVIOUS
  <2>2. SumOf(<<>>, {}) = 0
    BY <2>1, TotalSum, SumUnfolds
  <2>3. Total(<<>>) \in JavaInt /\ Cong(Total(<<>>), 0)
    BY <2>1, <2>2, TotalSum
  <2>4. 0 \in JavaInt
    BY WordHalves, WordPositive DEF JavaInt, Half
  <2> QED
    BY <2>3, <2>4, CongEqual
<1>3. /\ IsFiniteSet(DOMAIN m) /\ Ints(m, DOMAIN m) /\ Total(m) \in Int
      /\ Cong(Total(m), SumOf(m, DOMAIN m))
  BY TotalSum
<1>4. Total(n) \in Int /\ Cong(Total(n), SumOf(n, DOMAIN n)) /\ Ints(n, DOMAIN m)
  BY <1>1, TotalSum DEF Ints
<1> HIDE DEF n, last
<1>5. SumOf(n, DOMAIN n) = SumOf(m, DOMAIN m) + x
  <2>1. SumOf(n, DOMAIN n) = SumOf(n, DOMAIN m) + x
    BY <1>1, <1>3, <1>4, SumOfMore
  <2>2. SumOf(n, DOMAIN m) = SumOf(m, DOMAIN m)
    BY <1>1, <1>3, SameSum
  <2> QED
    BY <2>1, <2>2
<1>6. SumOf(m, DOMAIN m) \in Int
  BY <1>3, SumUnfolds
<1>7. Cong(SumOf(m, DOMAIN m) + x, Total(m) + x)
  BY <1>3, <1>6, CongSymmetric, CongReflexive, CongSums
<1>8. Cong(Total(n), Total(m) + x)
  BY <1>3, <1>4, <1>5, <1>6, <1>7, CongTransitive
<1> QED
  BY <1>2, <1>4, <1>8 DEF n

LEMMA CongOfSums ==
  ASSUME NEW S, IsFiniteSet(S), NEW f, Ints(f, S), NEW g, Ints(g, S),
         \A x \in S : Cong(f[x], g[x])
  PROVE  Cong(SumOf(f, S), SumOf(g, S))
<1> DEFINE Reached == {T \in SUBSET S : Cong(SumOf(f, T), SumOf(g, T))}
<1>1. ASSUME NEW T \in SUBSET S, \A x \in T : T \ {x} \in Reached PROVE T \in Reached
  <2> IsFiniteSet(T) /\ Ints(f, T) /\ Ints(g, T)
    BY PartsSum
  <2>1. CASE T = {}
    <3>1. SumOf(f, T) = 0 /\ SumOf(g, T) = 0
      BY <2>1, SumUnfolds
    <3> QED
      BY <3>1, CongReflexive
  <2>2. CASE T # {}
    <3> DEFINE x == Some(T)
               rest == T \ {x}
    <3>1. x \in T /\ SumOf(f, T) = f[x] + SumOf(f, rest)
      BY <2>2, SumUnfolds
    <3>2. SumOf(g, T) = g[x] + SumOf(g, rest)
      BY <2>2, SumUnfolds
    <3>3. Cong(f[x], g[x]) /\ Cong(SumOf(f, rest), SumOf(g, rest))
      BY <1>1, <3>1
    <3>4. f[x] \in Int /\ g[x] \in Int /\ SumOf(f, rest) \in Int /\ SumOf(g, rest) \in Int
      BY <3>1, PartsSum DEF Ints
    <3> HIDE DEF x, rest
    <3>5. Cong(SumOf(f, T), SumOf(g, T))
      BY <3>1, <3>2, <3>3, <3>4, CongSums
    <3> QED
      BY <3>5
  <2> QED
    BY <2>1, <2>2
<1>2. S \in Reached
  <2> HIDE DEF Reached
  <2>1. SUBSET S \subseteq Reached
    BY <1>1, SubsetsReached
  <2> QED
    BY <2>1
<1> QED
  BY <1>2

-----------------------------------------------------------------------------
(* The keys of a generation cancel: every pair of clients adds its key once *)
(* and subtracts it once.                                                  *)

\* What client x adds of the keys of the pairs in Q alone.
OfPairs(x, Q) == {e \in KeySetOf(x) : e.pair \in Q}
Part(k, Q) == [x \in Clients |-> SumOf(Signed(k), OfPairs(x, Q))]

LEMMA PartsAreInts ==
  ASSUME NEW k \in [Pairs -> KeyValues], NEW Q, NEW x \in Clients
  PROVE  /\ IsFiniteSet(OfPairs(x, Q)) /\ Ints(Signed(k), OfPairs(x, Q))
         /\ Part(k, Q)[x] \in Int
<1>1. OfPairs(x, Q) \in SUBSET KeySetOf(x)
  BY DEF OfPairs
<1>2. IsFiniteSet(KeySetOf(x)) /\ Ints(Signed(k), KeySetOf(x))
  BY KeySetsFinite, KeySetSum
<1> QED
  BY <1>1, <1>2, PartsSum DEF Part

\* One more pair: its key once and once the opposite.
LEMMA PairAdds ==
  ASSUME NEW k \in [Pairs -> KeyValues], NEW Q \in SUBSET Pairs, NEW p \in Pairs \ Q,
         NEW x \in Clients
  PROVE  Part(k, Q \cup {p})[x] = CASE x = p[1] -> Part(k, Q)[x] + k[p]
                                    [] x = p[2] -> Part(k, Q)[x] - k[p]
                                    [] OTHER    -> Part(k, Q)[x]
<1> DEFINE e == [pair |-> p, op |-> IF x = p[1] THEN "ADD" ELSE "SUBTRACT"]
           f == Signed(k)
<1>1. p[1] \in Clients /\ p[2] \in Clients /\ p[1] # p[2]
  BY NAssumption DEF Pairs, Clients
<1>2. k[p] \in Int
  BY KeysAreInts
<1>3. CASE x = p[1] \/ x = p[2]
  <2>1. OfPairs(x, Q \cup {p}) = OfPairs(x, Q) \cup {e} /\ e \notin OfPairs(x, Q)
    BY <1>1, <1>3 DEF OfPairs, KeySetOf
  <2>2. e \in UNION {KeySetOf(z) : z \in Clients}
    BY <1>1, <1>3 DEF KeySetOf
  <2>3. f[e] = IF x = p[1] THEN k[p] ELSE -k[p]
    BY <2>2 DEF Signed
  <2>4. f[e] \in Int
    BY <1>2, <2>3
  <2>5. IsFiniteSet(OfPairs(x, Q)) /\ Ints(f, OfPairs(x, Q)) /\ Part(k, Q)[x] \in Int
    BY PartsAreInts
  <2> HIDE DEF e, f
  <2>6. SumOf(f, OfPairs(x, Q) \cup {e}) = SumOf(f, OfPairs(x, Q)) + f[e]
    BY <2>1, <2>4, <2>5, SumOfMore
  <2>7. Part(k, Q \cup {p})[x] = Part(k, Q)[x] + f[e]
    BY <2>1, <2>6 DEF Part, f
  <2> QED
    BY <1>1, <1>2, <1>3, <2>3, <2>5, <2>7
<1>4. CASE x # p[1] /\ x # p[2]
  <2>1. OfPairs(x, Q \cup {p}) = OfPairs(x, Q)
    BY <1>4 DEF OfPairs, KeySetOf
  <2> QED
    BY <1>4, <2>1 DEF Part
<1> QED
  BY <1>3, <1>4

LEMMA SignedKeysCancel ==
  ASSUME NEW k \in [Pairs -> KeyValues]
  PROVE  SumOf([x \in Clients |-> SumOf(Signed(k), KeySetOf(x))], Clients) = 0
<1> DEFINE Reached == {Q \in SUBSET Pairs : SumOf(Part(k, Q), Clients) = 0}
<1>1. ASSUME NEW Q \in SUBSET Pairs PROVE Ints(Part(k, Q), Clients)
  BY PartsAreInts DEF Ints
<1>2. ASSUME NEW Q \in SUBSET Pairs, \A p \in Q : Q \ {p} \in Reached PROVE Q \in Reached
  <2>1. CASE Q = {}
    <3>1. ASSUME NEW x \in Clients PROVE Part(k, Q)[x] = 0
      <4>1. OfPairs(x, Q) = {}
        BY <2>1 DEF OfPairs
      <4>2. IsFiniteSet(OfPairs(x, Q)) /\ Ints(Signed(k), OfPairs(x, Q))
        BY PartsAreInts
      <4> QED
        BY <4>1, <4>2, SumUnfolds DEF Part
    <3>2. SumOf(Part(k, Q), Clients) \in 0 .. 0 * Cardinality(Clients)
      BY <3>1, KeySetsFinite, SumBounded
    <3>3. Cardinality(Clients) = N
      BY ClientsCounted
    <3>4. SumOf(Part(k, Q), Clients) = 0
      BY <3>2, <3>3, NAssumption
    <3> QED
      BY <3>4
  <2>2. CASE Q # {}
    <3>1. PICK p \in Q : TRUE
      BY <2>2
    <3> DEFINE R == Q \ {p}
               d == k[p]
               f == Part(k, R)
               g == [f EXCEPT ![p[1]] = @ + d]
               h == Part(k, Q)
    <3>2. p \in Pairs \ R /\ R \in SUBSET Pairs /\ R \cup {p} = Q
      BY <3>1
    <3>3. p[1] \in Clients /\ p[2] \in Clients /\ p[1] # p[2] /\ d \in Int /\ -d \in Int
      BY <3>2, KeysAreInts, NAssumption DEF Pairs, Clients
    <3>4. Ints(f, Clients) /\ SumOf(f, Clients) = 0 /\ DOMAIN f = Clients
      BY <1>1, <1>2, <3>1, <3>2 DEF Part
    <3>5. \A x \in Clients : h[x] = CASE x = p[1] -> f[x] + d
                                      [] x = p[2] -> f[x] - d
                                      [] OTHER    -> f[x]
      BY <3>2, PairAdds
    <3> HIDE DEF R, d, f, h
    <3>6. /\ g[p[1]] = f[p[1]] + d /\ \A y \in Clients \ {p[1]} : g[y] = f[y]
          /\ Ints(g, Clients)
      BY <3>3, <3>4 DEF Ints
    <3>7. h[p[2]] = g[p[2]] + (-d) /\ \A y \in Clients \ {p[2]} : h[y] = g[y]
      BY <3>3, <3>4, <3>5, <3>6 DEF Ints
    <3> HIDE DEF g
    <3>8. SumOf(g, Clients) = 0 + d
      BY <3>3, <3>4, <3>6, KeySetsFinite, SumGrows
    <3>9. SumOf(h, Clients) = 0 + d + (-d)
      BY <3>3, <3>6, <3>7, <3>8, KeySetsFinite, SumGrows
    <3>10. SumOf(h, Clients) = 0
      BY <3>3, <3>9
    <3> QED
      BY <3>10 DEF h
  <2> QED
    BY <2>1, <2>2
<1>3. Pairs \in Reached
  <2> HIDE DEF Reached
  <2>1. SUBSET Pairs \subseteq Reached
    BY <1>2, KeySetsFinite, SubsetsReached
  <2> QED
    BY <2>1
<1>4. \A x \in Clients : OfPairs(x, Pairs) = KeySetOf(x)
  BY DEF OfPairs, KeySetOf
<1>5. Part(k, Pairs) = [x \in Clients |-> SumOf(Signed(k), KeySetOf(x))]
  BY <1>4 DEF Part
<1> QED
  BY <1>3, <1>5

\* The sums of the keysets of one generation are 0 together.
LEMMA KeySetsCancel ==
  ASSUME NEW k \in [Pairs -> KeyValues]
  PROVE  Cong(SumOf([x \in Clients |-> sum(k, KeySetOf(x))], Clients), 0)
<1> DEFINE f == [x \in Clients |-> sum(k, KeySetOf(x))]
           g == [x \in Clients |-> SumOf(Signed(k), KeySetOf(x))]
<1>1. ASSUME NEW x \in Clients
      PROVE  f[x] \in Int /\ g[x] \in Int /\ Cong(f[x], g[x])
  <2>1. IsFiniteSet(KeySetOf(x))
    BY KeySetsFinite
  <2> QED
    BY <2>1, KeySetSum, SumUnfolds
<1>2. Ints(f, Clients) /\ Ints(g, Clients)
  BY <1>1 DEF Ints
<1>3. SumOf(g, Clients) = 0
  BY SignedKeysCancel
<1> HIDE DEF f, g
<1>4. Cong(SumOf(f, Clients), SumOf(g, Clients))
  BY <1>1, <1>2, KeySetsFinite, CongOfSums
<1> QED
  BY <1>3, <1>4 DEF f

-----------------------------------------------------------------------------
(* Types.                                                                  *)

LEMMA TransmitType ==
  ASSUME NEW k \in [Pairs -> KeyValues], NEW x \in Clients, NEW ch \in Chars \cup {Silence}
  PROVE  /\ Encoded(ch) \in 0 .. 2 * MAX_CHAR /\ Encoded(ch) \in Int
         /\ sum(k, KeySetOf(x)) \in Int
         /\ transmit(ch, k, KeySetOf(x)) \in JavaInt
         /\ transmit(ch, k, KeySetOf(x)) \in Int
         /\ Cong(transmit(ch, k, KeySetOf(x)), sum(k, KeySetOf(x)) + Encoded(ch))
<1>1. Encoded(ch) \in 0 .. 2 * MAX_CHAR /\ Encoded(ch) \in Int
  BY WordHalves DEF Encoded, Chars, Silence
<1>2. sum(k, KeySetOf(x)) \in Int
  BY KeySetSum
<1>3. sum(k, KeySetOf(x)) + Encoded(ch) \in Int
  BY <1>1, <1>2
<1> QED
  BY <1>1, <1>2, <1>3, Wraps DEF transmit

\* A char from an int, and the same if it is one already.
LEMMA CharOfInt ==
  ASSUME NEW x \in Int
  PROVE  ToChar(x) \in Chars \cup {Silence} /\ (x \in 0 .. MAX_CHAR => ToChar(x) = x)
<1>1. MAX_CHAR + 1 \in Nat \ {0}
  BY WordHalves
<1>2. x % (MAX_CHAR + 1) \in 0 .. MAX_CHAR
  BY <1>1, WordHalves
<1>3. x \in 0 .. MAX_CHAR => x % (MAX_CHAR + 1) = x
  <2> SUFFICES ASSUME x \in 0 .. MAX_CHAR PROVE x % (MAX_CHAR + 1) = x
    OBVIOUS
  <2> DEFINE m == MAX_CHAR + 1
             q == x \div m
             z == x % m
  <2>1. m \in Nat \ {0} /\ x \in 0 .. m - 1
    BY <1>1, WordHalves
  <2> HIDE DEF m
  <2>2. x = m * q + z /\ q \in Int /\ z \in 0 .. m - 1
    BY <2>1
  <2> HIDE DEF q, z
  <2>3. CASE q >= 1
    <3>1. m * q >= m
      BY <2>1, <2>2, <2>3
    <3> QED
      BY <2>1, <2>2, <3>1
  <2>4. CASE q <= -1
    <3>1. m * q <= -m
      BY <2>1, <2>2, <2>4
    <3> QED
      BY <2>1, <2>2, <3>1
  <2>5. CASE q = 0
    BY <2>1, <2>2, <2>5 DEF z, m
  <2> QED
    BY <2>2, <2>3, <2>4, <2>5
<1> QED
  BY <1>2, <1>3 DEF ToChar, Chars, Silence

LEMMA CollateType == ASSUME NEW m \in Seq(Int) PROVE collate(m) \in Chars \cup {Silence}
<1>1. Total(m) \in Int /\ Total(m) - MAX_CHAR \in Int
  BY TotalSum, WordHalves
<1> QED
  BY <1>1, CharOfInt DEF collate
=============================================================================
