------------------------------ MODULE Counting ------------------------------
(***************************************************************************)
(* Counting and adding up over finite sets, which the proofs about threads *)
(* and those about keys rest on: how many clients a set of clients can     *)
(* have, induction over finite sets, and sums that do not depend on the    *)
(* order in which they are taken.                                          *)
(***************************************************************************)
EXTENDS Protocol, Integers, FiniteSetTheorems, TLAPS

\* There are N clients, and a set of clients with one more member is larger.
LEMMA ClientsCounted ==
  /\ \A A, B : A \subseteq B /\ B \subseteq Clients =>
       Cardinality(A) \in Nat /\ Cardinality(B) \in Nat /\ Cardinality(A) <= Cardinality(B)
  /\ \A A, B : \A t : A \cup {t} \subseteq B /\ t \notin A /\ B \subseteq Clients =>
       Cardinality(A) + 1 <= Cardinality(B)
  /\ Cardinality(Clients) = N
<1>1. IsFiniteSet(Clients) /\ Cardinality(Clients) = N
  BY FS_Interval, NAssumption DEF Clients
<1>2. \A A : A \subseteq Clients => IsFiniteSet(A) /\ Cardinality(A) \in Nat
  BY <1>1, FS_Subset, FS_CardinalityType
<1>3. \A A, B : A \subseteq B /\ B \subseteq Clients => Cardinality(A) <= Cardinality(B)
  BY <1>2, FS_Subset
<1>4. ASSUME NEW A, NEW B, NEW t, A \cup {t} \subseteq B, t \notin A, B \subseteq Clients
      PROVE  Cardinality(A) + 1 <= Cardinality(B)
  <2>1. IsFiniteSet(A)
    BY <1>2, <1>4
  <2>2. Cardinality(A \cup {t}) = Cardinality(A) + 1
    BY <1>4, <2>1, FS_AddElement
  <2> QED
    BY <1>3, <1>4, <2>2
<1> QED
  BY <1>1, <1>2, <1>3, <1>4

-----------------------------------------------------------------------------
(* Induction.  What is to be shown is a set, of numbers or of subsets of S. *)

\* A set of numbers with 0 and every successor has all numbers.
LEMMA NumbersReached ==
  ASSUME NEW T \in SUBSET Nat, 0 \in T, \A n \in T : n + 1 \in T
  PROVE  T = Nat
<1> SUFFICES ASSUME Nat \ T # {} PROVE FALSE
  OBVIOUS
<1>1. PICK x \in Nat \ T : \A y \in Nat \ T : <<y, x>> \notin OpToRel(<, Nat)
  BY NatLessThanWellFounded, WFMin
<1>2. x - 1 \in Nat \ T
  OBVIOUS
<1>3. <<x - 1, x>> \in OpToRel(<, Nat)
  BY <1>2 DEF OpToRel
<1> QED
  BY <1>1, <1>2, <1>3

\* P has all subsets of S if it has each one whose own subsets with one
\* element less are in P.
LEMMA SubsetsReached ==
  ASSUME NEW S, IsFiniteSet(S), NEW P,
         \A T \in SUBSET S : (\A x \in T : T \ {x} \in P) => T \in P
  PROVE  SUBSET S \subseteq P
<1> SUFFICES ASSUME (SUBSET S) \ P # {} PROVE FALSE
  OBVIOUS
<1>1. PICK T \in (SUBSET S) \ P :
        \A U \in (SUBSET S) \ P : <<U, T>> \notin StrictSubsetOrdering(S)
  BY FS_StrictSubsetOrderingWellFounded, FS_FiniteSubsetsOfFinite, WFMin
<1>2. ASSUME NEW x \in T PROVE T \ {x} \in P
  <2>1. <<T \ {x}, T>> \in StrictSubsetOrdering(S)
    BY DEF StrictSubsetOrdering
  <2> QED
    BY <1>1, <2>1
<1> QED
  BY <1>2

(* A fold with values in V: b for the empty set, and for others a step from *)
(* the value for the set without its first element.                         *)
Foldable(S, V, b, first, step) ==
  /\ IsFiniteSet(S)
  /\ b \in V
  /\ \A s \in (SUBSET S) \ {{}} : first[s] \in s
  /\ \A s \in (SUBSET S) \ {{}} : \A v \in V : step[s][v] \in V

FoldsOf(S, V, b, first, step) ==
  {g \in [SUBSET S -> V] : \A s \in SUBSET S :
     g[s] = IF s = {} THEN b ELSE step[s][g[s \ {first[s]}]]}

\* A fold exists, whichever element it takes first.
LEMMA FoldExists ==
  ASSUME NEW S, NEW V, NEW b, NEW first, NEW step, Foldable(S, V, b, first, step)
  PROVE  FoldsOf(S, V, b, first, step) # {}
<1> USE DEF Foldable
<1> DEFINE Rest(s) == s \ {first[s]}
           Next(g) == [s \in SUBSET S |-> IF s = {} THEN b ELSE step[s][g[Rest(s)]]]
           UpTo(n) == {s \in SUBSET S : Cardinality(s) <= n}
           Reached == {n \in Nat : \E g \in [SUBSET S -> V] :
                                     \A s \in UpTo(n) : g[s] = Next(g)[s]}
<1>1. \A s \in SUBSET S : IsFiniteSet(s) /\ Cardinality(s) \in 0 .. Cardinality(S)
  BY FS_Subset, FS_CardinalityType
<1>2. ASSUME NEW s \in SUBSET S, s # {}
      PROVE  Rest(s) \in SUBSET S /\ Cardinality(Rest(s)) = Cardinality(s) - 1
  BY <1>1, <1>2, FS_RemoveElement
<1>3. ASSUME NEW g \in [SUBSET S -> V] PROVE Next(g) \in [SUBSET S -> V]
  BY <1>2
<1>4. 0 \in Reached
  <2>1. [s \in SUBSET S |-> b] \in [SUBSET S -> V]
    OBVIOUS
  <2>2. \A s \in UpTo(0) : s = {}
    BY <1>1, FS_EmptySet
  <2>3. \A s \in UpTo(0) : [u \in SUBSET S |-> b][s] = Next([u \in SUBSET S |-> b])[s]
    BY <2>2
  <2> QED
    BY <2>1, <2>3
<1>5. ASSUME NEW n \in Reached PROVE n + 1 \in Reached
  <2>1. PICK g \in [SUBSET S -> V] : \A s \in UpTo(n) : g[s] = Next(g)[s]
    BY <1>5
  <2>2. ASSUME NEW s \in UpTo(n + 1) PROVE Next(g)[s] = Next(Next(g))[s]
    <3>1. CASE s = {}
      BY <3>1
    <3>2. CASE s # {}
      <4>1. Rest(s) \in UpTo(n)
        BY <1>1, <1>2, <3>2
      <4>2. g[Rest(s)] = Next(g)[Rest(s)]
        BY <2>1, <4>1
      <4> QED
        BY <3>2, <4>1, <4>2
    <3> QED
      BY <3>1, <3>2
  <2>3. Next(g) \in [SUBSET S -> V]
    BY <1>3
  <2>4. n + 1 \in Nat
    OBVIOUS
  <2> HIDE DEF Next, UpTo
  <2> QED
    BY <2>2, <2>3, <2>4
<1>6. Cardinality(S) \in Nat /\ Reached \in SUBSET Nat
  BY <1>1
<1>7. Cardinality(S) \in Reached
  BY <1>4, <1>5, <1>6, NumbersReached
<1>8. PICK g \in [SUBSET S -> V] : \A s \in UpTo(Cardinality(S)) : g[s] = Next(g)[s]
  BY <1>7
<1>9. UpTo(Cardinality(S)) = SUBSET S
  BY <1>1
<1>10. \A s \in SUBSET S : g[s] = IF s = {} THEN b ELSE step[s][g[s \ {first[s]}]]
  BY <1>8, <1>9
<1>11. g \in FoldsOf(S, V, b, first, step)
  BY <1>10 DEF FoldsOf
<1> QED
  BY <1>11

-----------------------------------------------------------------------------
(* Sums of the values of a function f over a finite set.                   *)

Some(s) == CHOOSE x \in s : TRUE
Adds(g, f, S) ==
  g = [s \in SUBSET S |-> IF s = {} THEN 0 ELSE f[Some(s)] + g[s \ {Some(s)}]]
SumOf(f, S) == (CHOOSE g : Adds(g, f, S))[S]

Ints(f, S) == \A x \in S : f[x] \in Int

LEMMA SomeElement == \A s : s # {} => Some(s) \in s
  BY DEF Some

\* Something adds up f.
LEMMA AddsExist ==
  ASSUME NEW S, IsFiniteSet(S), NEW f, Ints(f, S)
  PROVE  \E g \in [SUBSET S -> Int] : Adds(g, f, S)
<1> DEFINE first == [s \in SUBSET S |-> Some(s)]
           step == [s \in SUBSET S |-> [v \in Int |-> f[Some(s)] + v]]
<1>1. Foldable(S, Int, 0, first, step)
  BY SomeElement DEF Foldable, Ints
<1>2. PICK g : g \in FoldsOf(S, Int, 0, first, step)
  <2> HIDE DEF first, step
  <2> QED
    BY <1>1, FoldExists
<1>3. g \in [SUBSET S -> Int]
  BY <1>2 DEF FoldsOf
<1>4. ASSUME NEW s \in SUBSET S
      PROVE  g[s] = IF s = {} THEN 0 ELSE f[Some(s)] + g[s \ {Some(s)}]
  BY <1>2 DEF FoldsOf
<1> QED
  BY <1>3, <1>4 DEF Adds

\* What adds up f on the subsets of S yields its sum on each of them.
LEMMA AddsUp ==
  ASSUME NEW S, IsFiniteSet(S), NEW f, Ints(f, S), NEW g, Adds(g, f, S),
         NEW T \in SUBSET S
  PROVE  g[T] = SumOf(f, T) /\ g[T] \in Int
<1> DEFINE h == CHOOSE i : Adds(i, f, T)
           Same == {s \in SUBSET T : g[s] = h[s] /\ g[s] \in Int}
<1>1. IsFiniteSet(T) /\ Ints(f, T)
  BY FS_Subset DEF Ints
<1>2. \A s \in SUBSET T : s # {} => Some(s) \in s /\ f[Some(s)] \in Int
  BY SomeElement DEF Ints
<1>3. \E i : Adds(i, f, T)
  BY <1>1, AddsExist
<1>4. Adds(h, f, T)
  BY <1>3
<1>5. ASSUME NEW s \in SUBSET T, \A x \in s : s \ {x} \in Same PROVE s \in Same
  <2>1. CASE s = {}
    <3>1. h[s] = 0
      BY <1>4, <2>1 DEF Adds
    <3>2. g[s] = 0
      BY <2>1 DEF Adds
    <3> QED
      BY <3>1, <3>2
  <2>2. CASE s # {}
    <3>1. Some(s) \in s /\ s \ {Some(s)} \in Same /\ f[Some(s)] \in Int
      BY <1>2, <1>5, <2>2
    <3>2. h[s] = f[Some(s)] + h[s \ {Some(s)}]
      BY <1>4, <2>2 DEF Adds
    <3>3. g[s] = f[Some(s)] + g[s \ {Some(s)}]
      BY <2>2 DEF Adds
    <3> QED
      BY <3>1, <3>2, <3>3
  <2> QED
    BY <2>1, <2>2
<1>6. T \in Same
  <2> HIDE DEF Same
  <2>1. SUBSET T \subseteq Same
    BY <1>1, <1>5, SubsetsReached
  <2> QED
    BY <2>1
<1> QED
  BY <1>6 DEF SumOf

\* The sum of none is 0; any other is that of one value and of the rest.
LEMMA SumUnfolds ==
  ASSUME NEW S, IsFiniteSet(S), NEW f, Ints(f, S)
  PROVE  /\ SumOf(f, S) \in Int
         /\ S = {} => SumOf(f, S) = 0
         /\ S # {} => Some(S) \in S /\ SumOf(f, S) = f[Some(S)] + SumOf(f, S \ {Some(S)})
<1>1. PICK g \in [SUBSET S -> Int] : Adds(g, f, S)
  BY AddsExist
<1>2. ASSUME NEW s \in SUBSET S
      PROVE  g[s] = IF s = {} THEN 0 ELSE f[Some(s)] + g[s \ {Some(s)}]
  BY <1>1 DEF Adds
<1>3. \A s \in SUBSET S : g[s] = SumOf(f, s)
  BY <1>1, AddsUp
<1> QED
  BY <1>2, <1>3, SomeElement

LEMMA PartsSum ==
  ASSUME NEW S, IsFiniteSet(S), NEW f, Ints(f, S), NEW T \in SUBSET S
  PROVE  IsFiniteSet(T) /\ Ints(f, T) /\ SumOf(f, T) \in Int
<1>1. IsFiniteSet(T) /\ Ints(f, T)
  BY FS_Subset DEF Ints
<1> QED
  BY <1>1, SumUnfolds

\* It does not matter which value is taken first.
LEMMA SumOfRest ==
  ASSUME NEW S, IsFiniteSet(S), NEW f, Ints(f, S), NEW x \in S
  PROVE  SumOf(f, S) = f[x] + SumOf(f, S \ {x})
<1> DEFINE Reached == {T \in SUBSET S : \A y \in T : SumOf(f, T) = f[y] + SumOf(f, T \ {y})}
<1>1. ASSUME NEW T \in SUBSET S, \A y \in T : T \ {y} \in Reached PROVE T \in Reached
  <2> SUFFICES ASSUME NEW y \in T PROVE SumOf(f, T) = f[y] + SumOf(f, T \ {y})
    OBVIOUS
  <2> DEFINE z == Some(T)
             both == T \ {y, z}
  <2>1. z \in T /\ SumOf(f, T) = f[z] + SumOf(f, T \ {z})
    <3>1. IsFiniteSet(T) /\ Ints(f, T)
      BY PartsSum
    <3> QED
      BY <3>1, SumUnfolds
  <2>2. CASE y = z
    BY <2>1, <2>2
  <2>3. CASE y # z
    <3>1. y \in T \ {z} /\ z \in T \ {y} /\ (T \ {z}) \ {y} = both /\ (T \ {y}) \ {z} = both
      BY <2>1, <2>3
    <3>2. SumOf(f, T \ {z}) = f[y] + SumOf(f, both)
      BY <1>1, <2>1, <3>1
    <3>3. SumOf(f, T \ {y}) = f[z] + SumOf(f, both)
      BY <1>1, <3>1
    <3>4. f[y] \in Int /\ f[z] \in Int /\ SumOf(f, both) \in Int
      <4>1. both \in SUBSET S
        OBVIOUS
      <4> QED
        BY <2>1, <4>1, PartsSum DEF Ints
    <3> QED
      BY <2>1, <3>2, <3>3, <3>4
  <2> QED
    BY <2>2, <2>3
<1>2. S \in Reached
  <2> HIDE DEF Reached
  <2>1. SUBSET S \subseteq Reached
    BY <1>1, SubsetsReached
  <2> QED
    BY <2>1
<1> QED
  BY <1>2

\* Equal values have equal sums.
LEMMA SameSum ==
  ASSUME NEW S, IsFiniteSet(S), NEW f, Ints(f, S), NEW g, \A x \in S : g[x] = f[x]
  PROVE  SumOf(g, S) = SumOf(f, S)
<1> DEFINE Reached == {T \in SUBSET S : SumOf(g, T) = SumOf(f, T)}
<1>1. Ints(g, S)
  BY DEF Ints
<1>2. ASSUME NEW T \in SUBSET S, \A x \in T : T \ {x} \in Reached PROVE T \in Reached
  <2> IsFiniteSet(T) /\ Ints(f, T) /\ Ints(g, T)
    BY <1>1, PartsSum
  <2>1. CASE T = {}
    BY <2>1, SumUnfolds
  <2>2. CASE T # {}
    <3>1. Some(T) \in T /\ SumOf(f, T) = f[Some(T)] + SumOf(f, T \ {Some(T)})
      BY <2>2, SumUnfolds
    <3>2. SumOf(g, T) = g[Some(T)] + SumOf(g, T \ {Some(T)})
      BY <2>2, SumUnfolds
    <3> QED
      BY <1>2, <3>1, <3>2
  <2> QED
    BY <2>1, <2>2
<1>3. S \in Reached
  <2> HIDE DEF Reached
  <2>1. SUBSET S \subseteq Reached
    BY <1>2, SubsetsReached
  <2> QED
    BY <2>1
<1> QED
  BY <1>3

\* One more element adds its value.
LEMMA SumOfMore ==
  ASSUME NEW S, IsFiniteSet(S), NEW x, x \notin S, NEW f, Ints(f, S), f[x] \in Int
  PROVE  SumOf(f, S \cup {x}) = SumOf(f, S) + f[x]
<1>1. IsFiniteSet(S \cup {x}) /\ Ints(f, S \cup {x}) /\ (S \cup {x}) \ {x} = S
  BY FS_AddElement DEF Ints
<1>2. SumOf(f, S) \in Int
  BY SumUnfolds
<1>3. SumOf(f, S \cup {x}) = f[x] + SumOf(f, S)
  BY <1>1, SumOfRest
<1> QED
  BY <1>2, <1>3

\* A value that grows by d makes the sum grow by d.
LEMMA SumGrows ==
  ASSUME NEW S, IsFiniteSet(S), NEW f, Ints(f, S), NEW x \in S, NEW d \in Int,
         NEW g, g[x] = f[x] + d, \A y \in S \ {x} : g[y] = f[y]
  PROVE  SumOf(g, S) = SumOf(f, S) + d
<1>1. f[x] \in Int /\ Ints(g, S) /\ Ints(f, S \ {x}) /\ IsFiniteSet(S \ {x})
  BY FS_Subset DEF Ints
<1>2. SumOf(f, S \ {x}) \in Int
  BY <1>1, SumUnfolds
<1>3. SumOf(g, S \ {x}) = SumOf(f, S \ {x})
  BY <1>1, SameSum
<1>4. SumOf(g, S) = g[x] + SumOf(g, S \ {x}) /\ SumOf(f, S) = f[x] + SumOf(f, S \ {x})
  BY <1>1, SumOfRest
<1> QED
  BY <1>1, <1>2, <1>3, <1>4

\* Values from 0 to b add up to at most b times their number.
LEMMA SumBounded ==
  ASSUME NEW S, IsFiniteSet(S), NEW b \in Nat, NEW f, \A x \in S : f[x] \in 0 .. b
  PROVE  SumOf(f, S) \in 0 .. b * Cardinality(S)
<1> DEFINE Reached == {T \in SUBSET S : SumOf(f, T) \in 0 .. b * Cardinality(T)}
<1>1. Ints(f, S)
  BY DEF Ints
<1>2. ASSUME NEW T \in SUBSET S, \A x \in T : T \ {x} \in Reached PROVE T \in Reached
  <2> IsFiniteSet(T) /\ Ints(f, T)
    BY <1>1, PartsSum
  <2>1. CASE T = {}
    <3>1. SumOf(f, T) = 0 /\ Cardinality(T) = 0
      BY <2>1, SumUnfolds, FS_EmptySet
    <3> QED
      BY <3>1
  <2>2. CASE T # {}
    <3> DEFINE x == Some(T)
    <3>1. x \in T /\ SumOf(f, T) = f[x] + SumOf(f, T \ {x}) /\ SumOf(f, T) \in Int
      BY <2>2, SumUnfolds
    <3>2. IsFiniteSet(T)
      BY FS_Subset
    <3>3. Cardinality(T) \in Nat /\ Cardinality(T \ {x}) = Cardinality(T) - 1
          /\ Cardinality(T \ {x}) \in Nat
      BY <3>1, <3>2, FS_RemoveElement, FS_CardinalityType
    <3>4. b * (Cardinality(T) - 1) + b = b * Cardinality(T) /\ b * Cardinality(T) \in Int
      BY <3>3
    <3>5. SumOf(f, T \ {x}) \in 0 .. b * (Cardinality(T) - 1) /\ f[x] \in 0 .. b
      BY <1>2, <3>1, <3>3
    <3>6. SumOf(f, T) \in 0 .. b * Cardinality(T)
      <4> DEFINE u == b * (Cardinality(T) - 1)
                 w == b * Cardinality(T)
      <4>1. u \in Int
        BY <3>3
      <4> HIDE DEF u, w, x
      <4> QED
        BY <3>1, <3>4, <3>5, <4>1 DEF u, w
    <3> QED
      BY <3>6
  <2> QED
    BY <2>1, <2>2
<1>3. S \in Reached
  <2> HIDE DEF Reached
  <2>1. SUBSET S \subseteq Reached
    BY <1>2, SubsetsReached
  <2> QED
    BY <2>1
<1> QED
  BY <1>3
=============================================================================
