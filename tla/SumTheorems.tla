---------------------------- MODULE SumTheorems ----------------------------
(***************************************************************************)
(* Sums over finite sets, for the proofs about counters and statistics.    *)
(* The library's induction theorems take an operator no prover here can    *)
(* instantiate, so an induction over a set's size is written as a minimal  *)
(* counterexample: the sizes for which a claim fails have no least.        *)
(***************************************************************************)
EXTENDS FiniteSetsExt, FiniteSetTheorems, WellFoundedInduction, TLAPS

LEMMA LeastNumber == ASSUME NEW T \in SUBSET Nat, T # {} PROVE \E n \in T : \A m \in T : n <= m
  <1>1. IsWellFoundedOn(OpToRel(<,Nat), Nat)
    BY NatLessThanWellFounded
  <1>2. PICK n \in T : \A m \in T : ~(<<m, n>> \in OpToRel(<,Nat))
    BY <1>1, WFMin
  <1>3. \A m \in T : m \in Nat /\ n \in Nat /\ ~(m < n)
    BY <1>2 DEF OpToRel
  <1>4. \A m \in T : n <= m
    BY <1>3
  <1> QED BY <1>4

AnyOf(s) == CHOOSE x \in s : TRUE
SumOver(f, S) == MapThenSumSet(LAMBDA w : f[w], S)

\* g is the sum of f over every subset of S, taking first elements first.
Sums(g, f, S) ==
    g = [s \in SUBSET S |-> IF s = {} THEN 0 ELSE f[AnyOf(s)] + g[s \ {AnyOf(s)}]]

LEMMA SumIs == ASSUME NEW f, NEW S PROVE SumOver(f, S) = (CHOOSE g : Sums(g, f, S))[S]
  BY DEF SumOver, MapThenSumSet, MapThenFoldSet, Sums, AnyOf

\* Taking its first element leaves a smaller set.
LEMMA Smaller ==
    ASSUME NEW s, IsFiniteSet(s), NEW x \in s
    PROVE  /\ IsFiniteSet(s \ {x}) /\ Cardinality(s) \in Nat \ {0}
           /\ Cardinality(s \ {x}) = Cardinality(s) - 1
  <1>1. /\ IsFiniteSet(s \ {x}) /\ Cardinality(s) \in Nat
        /\ Cardinality(s \ {x}) = Cardinality(s) - 1
    BY FS_CardinalityType, FS_RemoveElement
  <1>2. Cardinality(s \ {x}) \in Nat
    BY <1>1, FS_CardinalityType
  <1> QED BY <1>1, <1>2

LEMMA FirstOf == ASSUME NEW s, s # {} PROVE AnyOf(s) \in s
  BY DEF AnyOf

\* The recursion has a solution on the subsets of every size, so on all of them.
LEMMA SumsExist == ASSUME NEW f, NEW S, IsFiniteSet(S) PROVE \E g : Sums(g, f, S)
  <1> DEFINE Upto(n) == {s \in SUBSET S : Cardinality(s) <= n}
             Good(g, n) == g = [s \in Upto(n) |->
                                  IF s = {} THEN 0 ELSE f[AnyOf(s)] + g[s \ {AnyOf(s)}]]
             Bad == {n \in Nat : ~\E g : Good(g, n)}
  <1>1. \A s \in SUBSET S : IsFiniteSet(s) /\ Cardinality(s) \in Nat /\ Cardinality(s) <= Cardinality(S)
    BY FS_Subset, FS_CardinalityType
  <1>2. Bad = {}
    <2> SUFFICES ASSUME Bad # {} PROVE FALSE
      OBVIOUS
    <2>1. PICK n \in Bad : \A m \in Bad : n <= m
      BY LeastNumber
    <2>2. CASE n = 0
      <3> DEFINE g == [s \in Upto(0) |-> 0]
      <3>1. ASSUME NEW s \in Upto(0), NEW x \in s PROVE FALSE
        <4>1. IsFiniteSet(s) /\ Cardinality(s) <= 0
          BY <1>1, <3>1
        <4>2. Cardinality(s) \in Nat \ {0}
          BY <3>1, <4>1, Smaller
        <4> QED BY <4>1, <4>2
      <3>2. Good(g, 0)
        BY <3>1
      <3> QED BY <2>1, <2>2, <3>2
    <2>3. CASE n # 0
      <3>1. n \in Nat /\ n - 1 \in Nat /\ ~(n <= n - 1)
        BY <2>1, <2>3
      <3>2. PICK h : Good(h, n - 1)
        BY <2>1, <3>1
      <3> DEFINE g == [s \in Upto(n) |-> IF s = {} THEN 0 ELSE f[AnyOf(s)] + h[s \ {AnyOf(s)}]]
      <3>3. \A s \in Upto(n) : s # {} => s \ {AnyOf(s)} \in Upto(n - 1)
        BY <1>1, <3>1, Smaller, FirstOf
      <3>4. \A s \in Upto(n - 1) : s \in Upto(n)
        BY <1>1, <3>1
      <3>5. \A s \in Upto(n - 1) : h[s] = IF s = {} THEN 0 ELSE f[AnyOf(s)] + h[s \ {AnyOf(s)}]
        BY <3>2
      <3>6. \A s \in Upto(n - 1) : g[s] = h[s]
        BY <3>4, <3>5
      <3>7. Good(g, n)
        BY <3>3, <3>6
      <3> QED BY <2>1, <3>7
    <2> QED BY <2>2, <2>3
  <1>3. Cardinality(S) \in Nat /\ Upto(Cardinality(S)) = SUBSET S
    BY <1>1, FS_CardinalityType
  <1>4. \E g : Good(g, Cardinality(S))
    BY <1>2, <1>3
  <1> QED BY <1>3, <1>4 DEF Sums

\* Two solutions agree on what they have in common.
LEMMA SumsAgree ==
    ASSUME NEW f, NEW S, IsFiniteSet(S), NEW T \in SUBSET S,
           NEW g, Sums(g, f, S), NEW h, Sums(h, f, T)
    PROVE  g[T] = h[T]
  <1> DEFINE Bad == {n \in Nat : \E s \in SUBSET T : Cardinality(s) = n /\ g[s] # h[s]}
  <1>1. \A s \in SUBSET T : IsFiniteSet(s) /\ Cardinality(s) \in Nat
    BY FS_Subset, FS_CardinalityType
  <1>2. Bad = {}
    <2> SUFFICES ASSUME Bad # {} PROVE FALSE
      OBVIOUS
    <2>1. PICK n \in Bad : \A m \in Bad : n <= m
      BY LeastNumber
    <2>2. PICK s \in SUBSET T : Cardinality(s) = n /\ g[s] # h[s]
      BY <2>1
    <2>3. /\ g[s] = IF s = {} THEN 0 ELSE f[AnyOf(s)] + g[s \ {AnyOf(s)}]
          /\ h[s] = IF s = {} THEN 0 ELSE f[AnyOf(s)] + h[s \ {AnyOf(s)}]
      BY DEF Sums
    <2>4. s # {}
      BY <2>2, <2>3
    <2>5. s \ {AnyOf(s)} \in SUBSET T /\ Cardinality(s \ {AnyOf(s)}) = n - 1 /\ n - 1 \in Nat
      BY <1>1, <2>2, <2>4, Smaller, FirstOf
    <2>6. g[s \ {AnyOf(s)}] = h[s \ {AnyOf(s)}]
      <3>1. n - 1 \notin Bad
        BY <2>1, <2>5
      <3> QED BY <2>5, <3>1
    <2> QED BY <2>2, <2>3, <2>4, <2>6
  <1>3. Cardinality(T) \in Nat
    BY <1>1
  <1> QED BY <1>2, <1>3

\* A sum is its first term and the sum of the rest.
LEMMA SumUnfolds ==
    ASSUME NEW f, NEW S, IsFiniteSet(S)
    PROVE  SumOver(f, S) = IF S = {} THEN 0 ELSE f[AnyOf(S)] + SumOver(f, S \ {AnyOf(S)})
  <1> DEFINE g == CHOOSE g : Sums(g, f, S)
  <1>1. Sums(g, f, S) /\ SumOver(f, S) = g[S]
    BY SumsExist, SumIs
  <1>2. g[S] = IF S = {} THEN 0 ELSE f[AnyOf(S)] + g[S \ {AnyOf(S)}]
    BY <1>1 DEF Sums
  <1>3. ASSUME S # {} PROVE g[S \ {AnyOf(S)}] = SumOver(f, S \ {AnyOf(S)})
    <2> DEFINE T == S \ {AnyOf(S)}
               h == CHOOSE h : Sums(h, f, T)
    <2>1. IsFiniteSet(T) /\ T \in SUBSET S
      BY FS_Subset
    <2>2. Sums(h, f, T) /\ SumOver(f, T) = h[T]
      BY <2>1, SumsExist, SumIs
    <2> HIDE DEF g, h, T
    <2>3. g[T] = h[T]
      BY <1>1, <2>1, <2>2, SumsAgree
    <2> QED BY <2>2, <2>3 DEF T
  <1> QED BY <1>1, <1>2, <1>3

LEMMA SumIsNat ==
    ASSUME NEW S, IsFiniteSet(S), NEW f, \A x \in S : f[x] \in Nat
    PROVE  SumOver(f, S) \in Nat
  <1> DEFINE Bad == {n \in Nat : \E s \in SUBSET S : Cardinality(s) = n /\ SumOver(f, s) \notin Nat}
  <1>1. \A s \in SUBSET S : IsFiniteSet(s) /\ Cardinality(s) \in Nat
    BY FS_Subset, FS_CardinalityType
  <1>2. Bad = {}
    <2> SUFFICES ASSUME Bad # {} PROVE FALSE
      OBVIOUS
    <2>1. PICK n \in Bad : \A m \in Bad : n <= m
      BY LeastNumber
    <2>2. PICK s \in SUBSET S : Cardinality(s) = n /\ SumOver(f, s) \notin Nat
      BY <2>1
    <2>3. SumOver(f, s) = IF s = {} THEN 0 ELSE f[AnyOf(s)] + SumOver(f, s \ {AnyOf(s)})
      BY <1>1, SumUnfolds
    <2>4. s # {} /\ AnyOf(s) \in S
      BY <2>2, <2>3, FirstOf
    <2>5. s \ {AnyOf(s)} \in SUBSET S /\ Cardinality(s \ {AnyOf(s)}) = n - 1 /\ n - 1 \in Nat
      BY <1>1, <2>2, <2>4, Smaller, FirstOf
    <2>6. n - 1 \notin Bad
      BY <2>1, <2>5
    <2>7. SumOver(f, s \ {AnyOf(s)}) \in Nat
      BY <2>5, <2>6
    <2>8. f[AnyOf(s)] \in Nat
      BY <2>4
    <2> QED BY <2>2, <2>3, <2>4, <2>7, <2>8
  <1> QED BY <1>1, <1>2

LEMMA SumIsInt ==
    ASSUME NEW S, IsFiniteSet(S), NEW f, \A x \in S : f[x] \in Int
    PROVE  SumOver(f, S) \in Int
  <1> DEFINE Bad == {n \in Nat : \E s \in SUBSET S : Cardinality(s) = n /\ SumOver(f, s) \notin Int}
  <1>1. \A s \in SUBSET S : IsFiniteSet(s) /\ Cardinality(s) \in Nat
    BY FS_Subset, FS_CardinalityType
  <1>2. Bad = {}
    <2> SUFFICES ASSUME Bad # {} PROVE FALSE
      OBVIOUS
    <2>1. PICK n \in Bad : \A m \in Bad : n <= m
      BY LeastNumber
    <2>2. PICK s \in SUBSET S : Cardinality(s) = n /\ SumOver(f, s) \notin Int
      BY <2>1
    <2>3. SumOver(f, s) = IF s = {} THEN 0 ELSE f[AnyOf(s)] + SumOver(f, s \ {AnyOf(s)})
      BY <1>1, SumUnfolds
    <2>4. s # {} /\ AnyOf(s) \in S
      BY <2>2, <2>3, FirstOf
    <2>5. s \ {AnyOf(s)} \in SUBSET S /\ Cardinality(s \ {AnyOf(s)}) = n - 1 /\ n - 1 \in Nat
      BY <1>1, <2>2, <2>4, Smaller, FirstOf
    <2>6. n - 1 \notin Bad
      BY <2>1, <2>5
    <2>7. SumOver(f, s \ {AnyOf(s)}) \in Int
      BY <2>5, <2>6
    <2>8. f[AnyOf(s)] \in Int
      BY <2>4
    <2> QED BY <2>2, <2>3, <2>4, <2>7, <2>8
  <1> QED BY <1>1, <1>2

\* A sum does not depend on which element is taken first.
LEMMA SumRemove ==
    ASSUME NEW S, IsFiniteSet(S), NEW f, \A x \in S : f[x] \in Int, NEW w \in S
    PROVE  SumOver(f, S) = f[w] + SumOver(f, S \ {w})
  <1> DEFINE Bad == {n \in Nat : \E s \in SUBSET S : \E x \in s :
                       Cardinality(s) = n /\ SumOver(f, s) # f[x] + SumOver(f, s \ {x})}
  <1>1. \A s \in SUBSET S : IsFiniteSet(s) /\ Cardinality(s) \in Nat /\ SumOver(f, s) \in Int
    BY FS_Subset, FS_CardinalityType, SumIsInt
  <1>2. Bad = {}
    <2> SUFFICES ASSUME Bad # {} PROVE FALSE
      OBVIOUS
    <2>1. PICK n \in Bad : \A m \in Bad : n <= m
      BY LeastNumber
    <2>0. PICK s \in SUBSET S : \E x \in s :
            Cardinality(s) = n /\ SumOver(f, s) # f[x] + SumOver(f, s \ {x})
      BY <2>1
    <2>2. PICK x \in s : Cardinality(s) = n /\ SumOver(f, s) # f[x] + SumOver(f, s \ {x})
      BY <2>0
    <2>3. PICK y \in s : y = AnyOf(s)
      BY <2>2, FirstOf
    <2>4. SumOver(f, s) = f[y] + SumOver(f, s \ {y})
      BY <1>1, <2>3, SumUnfolds
    <2>5. x # y
      BY <2>2, <2>4
    <2>6. /\ n - 1 \in Nat
          /\ s \ {y} \in SUBSET S /\ x \in s \ {y} /\ Cardinality(s \ {y}) = n - 1
          /\ s \ {x} \in SUBSET S /\ y \in s \ {x} /\ Cardinality(s \ {x}) = n - 1
      BY <1>1, <2>2, <2>3, <2>5, Smaller
    <2>7. n - 1 \notin Bad
      <3>1. n \in Int /\ ~(n <= n - 1)
        BY <2>1
      <3> HIDE DEF Bad
      <3> QED BY <2>1, <3>1
    <2>8. /\ SumOver(f, s \ {y}) = f[x] + SumOver(f, (s \ {y}) \ {x})
          /\ SumOver(f, s \ {x}) = f[y] + SumOver(f, (s \ {x}) \ {y})
      BY <2>6, <2>7
    <2>9. (s \ {y}) \ {x} = (s \ {x}) \ {y} /\ (s \ {x}) \ {y} \in SUBSET S
      OBVIOUS
    <2>10. f[x] \in Int /\ f[y] \in Int /\ SumOver(f, (s \ {x}) \ {y}) \in Int
      BY <1>1, <2>9
    <2>11. SumOver(f, s) = f[x] + SumOver(f, s \ {x})
      <3> HIDE DEF Bad
      <3>1. \A a, b, c \in Int : a + (b + c) = b + (a + c)
        OBVIOUS
      <3>2. PICK c \in Int : c = SumOver(f, (s \ {x}) \ {y})
        BY <2>10
      <3>3. SumOver(f, (s \ {y}) \ {x}) = c
        BY <2>9, <3>2
      <3>4. f[y] + (f[x] + c) = f[x] + (f[y] + c)
        BY <2>10, <3>1
      <3> QED BY <2>4, <2>8, <3>2, <3>3, <3>4, Zenon
    <2> QED BY <2>2, <2>11
  <1>3. Cardinality(S) \in Nat /\ S \in SUBSET S
    BY <1>1
  <1> QED BY <1>2, <1>3

\* A sum depends on nothing but its terms.
LEMMA SumSame ==
    ASSUME NEW S, IsFiniteSet(S), NEW f, NEW g, \A x \in S : f[x] = g[x]
    PROVE  SumOver(f, S) = SumOver(g, S)
  <1> DEFINE Bad == {n \in Nat : \E s \in SUBSET S : Cardinality(s) = n /\ SumOver(f, s) # SumOver(g, s)}
  <1>1. \A s \in SUBSET S : IsFiniteSet(s) /\ Cardinality(s) \in Nat
    BY FS_Subset, FS_CardinalityType
  <1>2. Bad = {}
    <2> SUFFICES ASSUME Bad # {} PROVE FALSE
      OBVIOUS
    <2>1. PICK n \in Bad : \A m \in Bad : n <= m
      BY LeastNumber
    <2>2. PICK s \in SUBSET S : Cardinality(s) = n /\ SumOver(f, s) # SumOver(g, s)
      BY <2>1
    <2>3. /\ SumOver(f, s) = IF s = {} THEN 0 ELSE f[AnyOf(s)] + SumOver(f, s \ {AnyOf(s)})
          /\ SumOver(g, s) = IF s = {} THEN 0 ELSE g[AnyOf(s)] + SumOver(g, s \ {AnyOf(s)})
      BY <1>1, SumUnfolds
    <2>4. s # {} /\ AnyOf(s) \in S
      BY <2>2, <2>3, FirstOf
    <2>5. s \ {AnyOf(s)} \in SUBSET S /\ Cardinality(s \ {AnyOf(s)}) = n - 1 /\ n - 1 \in Nat
      BY <1>1, <2>2, <2>4, Smaller, FirstOf
    <2>6. n - 1 \notin Bad
      BY <2>1, <2>5
    <2>7. SumOver(f, s \ {AnyOf(s)}) = SumOver(g, s \ {AnyOf(s)})
      BY <2>5, <2>6
    <2> QED BY <2>2, <2>3, <2>4, <2>7
  <1> QED BY <1>1, <1>2

\* One term of a sum and the rest of it.
LEMMA SumSplit ==
    ASSUME NEW S, IsFiniteSet(S), NEW f, \A x \in S : f[x] \in Nat, NEW w
    PROVE  /\ SumOver(f, S \ {w}) \in Nat
           /\ SumOver(f, S) = SumOver(f, S \ {w}) + (IF w \in S THEN f[w] ELSE 0)
  <1>1. IsFiniteSet(S \ {w}) /\ \A x \in S \ {w} : f[x] \in Nat
    BY FS_Subset
  <1>2. SumOver(f, S \ {w}) \in Nat
    BY <1>1, SumIsNat
  <1>3. CASE w \in S
    <2>1. SumOver(f, S) = f[w] + SumOver(f, S \ {w}) /\ f[w] \in Nat
      BY <1>3, SumRemove
    <2> QED BY <1>2, <1>3, <2>1
  <1>4. CASE w \notin S
    <2>1. S \ {w} = S
      BY <1>4
    <2>2. SumOver(f, S \ {w}) = SumOver(f, S)
      BY <2>1
    <2> QED BY <1>2, <1>4, <2>2
  <1> QED BY <1>3, <1>4

\* A sum to which one term is added.
LEMMA SumGrows ==
    ASSUME NEW S, IsFiniteSet(S), NEW f, \A x \in S : f[x] \in Int,
           NEW w, w \notin S, NEW g, g[w] \in Int, \A x \in S : g[x] = f[x]
    PROVE  SumOver(g, S \cup {w}) = SumOver(f, S) + g[w] /\ SumOver(f, S) \in Int
  <1>1. /\ IsFiniteSet(S \cup {w}) /\ \A x \in S \cup {w} : g[x] \in Int
        /\ w \in S \cup {w} /\ (S \cup {w}) \ {w} = S
    BY FS_AddElement
  <1>2. SumOver(g, S \cup {w}) = g[w] + SumOver(g, S)
    BY <1>1, SumRemove
  <1>3. SumOver(g, S) = SumOver(f, S) /\ SumOver(f, S) \in Int
    BY SumSame, SumIsInt
  <1> QED BY <1>2, <1>3

============================================================================
