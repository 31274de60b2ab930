-------------------------------- MODULE Sums ---------------------------------
(***************************************************************************)
(* Facts about sums over finite sets and about least and greatest numbers, *)
(* for the proofs about what the models add up.  The library's theorems on *)
(* induction take an operator as a parameter, which the provers cannot     *)
(* instantiate, so induction is by a least counterexample.                 *)
(***************************************************************************)
EXTENDS Integers, Sequences, FiniteSets, SequencesExt, FiniteSetsExt,
        FiniteSetTheorems, WellFoundedInduction, TLAPS

\* Every set of naturals with a member has a least one.
LEMMA LeastNatural ==
    ASSUME NEW S \in SUBSET Nat, S # {}
    PROVE  \E x \in S : \A y \in S : x <= y
<1> DEFINE R == OpToRel(<, Nat)
<1>1. IsWellFoundedOn(R, Nat)  BY NatLessThanWellFounded
<1>2. \A x, y \in Nat : x < y => <<x, y>> \in R  BY DEF OpToRel
<1> HIDE DEF R
<1>3. PICK x \in S : \A y \in S : ~ (<<y, x>> \in R)  BY <1>1, WFMin
<1>4. \A y \in S : x <= y
  <2> TAKE y \in S
  <2>1. x \in Nat /\ y \in Nat  OBVIOUS
  <2>2. ~(y < x)  BY <1>2, <1>3, <2>1
  <2> QED  BY <2>1, <2>2
<1> QED  BY <1>3, <1>4

\* The element that the folds take from a set next.
Pick(s) == CHOOSE x \in s : TRUE

\* g sums f over the subsets of S that are in D, as the folds do it.
SumsOver(g, f, D) ==
    \A s \in D : g[s] = IF s = {} THEN 0 ELSE f[Pick(s)] + g[s \ {Pick(s)}]

UpToSize(S, k) == {s \in SUBSET S : Cardinality(s) <= k}

LEMMA PickedIsIn == ASSUME NEW s, s # {} PROVE Pick(s) \in s
  BY DEF Pick

LEMMA WithoutOne ==
    ASSUME NEW S, IsFiniteSet(S), NEW s \in SUBSET S, NEW x \in s
    PROVE  /\ s \ {x} \in SUBSET S /\ IsFiniteSet(s) /\ IsFiniteSet(s \ {x})
           /\ Cardinality(s) \in Nat /\ Cardinality(s \ {x}) \in Nat
           /\ Cardinality(s \ {x}) = Cardinality(s) - 1
  BY FS_Subset, FS_RemoveElement, FS_CardinalityType

LEMMA SumUpTo ==
    ASSUME NEW S, IsFiniteSet(S), NEW f, \A x \in S : f[x] \in Nat, NEW k \in Nat
    PROVE  \E g \in [UpToSize(S, k) -> Nat] : SumsOver(g, f, UpToSize(S, k))
<1> DEFINE There(n) == \E g \in [UpToSize(S, n) -> Nat] : SumsOver(g, f, UpToSize(S, n))
           Bad == {n \in Nat : ~There(n)}
<1> SUFFICES Bad = {}  OBVIOUS
<1> SUFFICES ASSUME Bad # {} PROVE FALSE  OBVIOUS
<1>1. PICK n \in Bad : \A o \in Bad : n <= o  BY LeastNatural
<1>2. CASE n = 0
  <2>1. \A s \in UpToSize(S, 0) : s = {}
    <3> TAKE s \in UpToSize(S, 0)
    <3>1. s \in SUBSET S /\ Cardinality(s) <= 0  BY DEF UpToSize
    <3>2. IsFiniteSet(s) /\ Cardinality(s) \in Nat  BY <3>1, FS_Subset, FS_CardinalityType
    <3> QED  BY <3>1, <3>2, FS_EmptySet
  <2> DEFINE g == [s \in UpToSize(S, 0) |-> 0]
  <2>2. g \in [UpToSize(S, 0) -> Nat]  OBVIOUS
  <2>3. SumsOver(g, f, UpToSize(S, 0))  BY <2>1 DEF SumsOver
  <2> QED  BY <1>2, <2>2, <2>3
<1>3. CASE n # 0
  <2>1. n - 1 \in Nat /\ ~(n <= n - 1)  BY <1>3
  <2>2. There(n - 1)  BY <1>1, <2>1
  <2>3. PICK g \in [UpToSize(S, n - 1) -> Nat] : SumsOver(g, f, UpToSize(S, n - 1))  BY <2>2
  <2>4. \A s \in UpToSize(S, n) : s # {} =>
            Pick(s) \in S /\ s \ {Pick(s)} \in UpToSize(S, n - 1)
    <3> SUFFICES ASSUME NEW s \in UpToSize(S, n), s # {}
                 PROVE  Pick(s) \in S /\ s \ {Pick(s)} \in UpToSize(S, n - 1)
      OBVIOUS
    <3>1. s \in SUBSET S /\ Cardinality(s) <= n  BY DEF UpToSize
    <3>2. Pick(s) \in s  BY PickedIsIn
    <3>3. /\ s \ {Pick(s)} \in SUBSET S /\ Cardinality(s) \in Nat
          /\ Cardinality(s \ {Pick(s)}) = Cardinality(s) - 1
      BY <3>1, <3>2, WithoutOne
    <3>4. Cardinality(s) - 1 <= n - 1  BY <3>1, <3>3
    <3> QED  BY <3>1, <3>2, <3>3, <3>4 DEF UpToSize
  <2> DEFINE h == [s \in UpToSize(S, n) |->
                      IF s = {} THEN 0 ELSE f[Pick(s)] + g[s \ {Pick(s)}]]
  <2>5. h \in [UpToSize(S, n) -> Nat]
    <3> SUFFICES ASSUME NEW s \in UpToSize(S, n), s # {}
                 PROVE  f[Pick(s)] + g[s \ {Pick(s)}] \in Nat
      OBVIOUS
    <3>1. f[Pick(s)] \in Nat /\ g[s \ {Pick(s)}] \in Nat  BY <2>4
    <3> QED  BY <3>1
  <2>6. \A s \in UpToSize(S, n - 1) : s \in UpToSize(S, n)
    <3> TAKE s \in UpToSize(S, n - 1)
    <3>1. s \in SUBSET S /\ Cardinality(s) <= n - 1  BY DEF UpToSize
    <3>2. Cardinality(s) \in Nat  BY <3>1, FS_Subset, FS_CardinalityType
    <3>3. Cardinality(s) <= n  BY <3>1, <3>2
    <3> QED  BY <3>1, <3>3 DEF UpToSize
  <2>7. \A s \in UpToSize(S, n - 1) : h[s] = g[s]  BY <2>3, <2>6 DEF SumsOver
  <2>8. SumsOver(h, f, UpToSize(S, n))
    <3> SUFFICES ASSUME NEW s \in UpToSize(S, n)
                 PROVE  h[s] = IF s = {} THEN 0 ELSE f[Pick(s)] + h[s \ {Pick(s)}]
      BY DEF SumsOver
    <3>1. CASE s = {}  BY <3>1
    <3>2. CASE s # {}
      <4>1. h[s \ {Pick(s)}] = g[s \ {Pick(s)}]  BY <2>4, <2>7, <3>2
      <4>2. h[s] = f[Pick(s)] + g[s \ {Pick(s)}]  BY <3>2
      <4> QED  BY <3>2, <4>1, <4>2
    <3> QED  BY <3>1, <3>2
  <2> HIDE DEF h
  <2>9. There(n)  BY <2>5, <2>8
  <2> QED  BY <1>1, <2>9
<1> QED  BY <1>2, <1>3

LEMMA SumExists ==
    ASSUME NEW S, IsFiniteSet(S), NEW f, \A x \in S : f[x] \in Nat
    PROVE  \E g \in [SUBSET S -> Nat] : SumsOver(g, f, SUBSET S)
<1>1. Cardinality(S) \in Nat  BY FS_CardinalityType
<1>2. UpToSize(S, Cardinality(S)) = SUBSET S  BY FS_Subset DEF UpToSize
<1>3. \E g \in [UpToSize(S, Cardinality(S)) -> Nat] :
          SumsOver(g, f, UpToSize(S, Cardinality(S)))
  BY <1>1, SumUpTo
<1> QED  BY <1>2, <1>3

\* Sums of the same function agree, over one set or over a set and a larger one.
LEMMA SumsAgree ==
    ASSUME NEW T, IsFiniteSet(T), NEW S \in SUBSET T, NEW f, NEW g, NEW h,
           SumsOver(g, f, SUBSET S), SumsOver(h, f, SUBSET T)
    PROVE  \A s \in SUBSET S : g[s] = h[s]
<1> DEFINE Bad  == {s \in SUBSET S : g[s] # h[s]}
           Bads == {Cardinality(s) : s \in Bad}
<1> SUFFICES ASSUME Bad # {} PROVE FALSE  OBVIOUS
<1>1. IsFiniteSet(S)  BY FS_Subset
<1>2. \A s \in Bad : Cardinality(s) \in Nat  BY <1>1, FS_Subset, FS_CardinalityType
<1>3. Bads \in SUBSET Nat /\ Bads # {}  BY <1>2
<1>4. PICK n \in Bads : \A o \in Bads : n <= o  BY <1>3, LeastNatural
<1>5. PICK s \in Bad : n = Cardinality(s)  BY <1>4
<1>6. CASE s = {}
  <2>1. {} \in SUBSET S /\ {} \in SUBSET T  OBVIOUS
  <2>2. g[{}] = 0 /\ h[{}] = 0  BY <2>1 DEF SumsOver
  <2> QED  BY <1>5, <1>6, <2>2
<1>7. CASE s # {}
  <2> DEFINE rest == s \ {Pick(s)}
  <2>1. Pick(s) \in s  BY <1>7, PickedIsIn
  <2>2. rest \in SUBSET S /\ Cardinality(rest) = n - 1 /\ n \in Nat /\ n - 1 \in Nat
    <3>1. s \in SUBSET S  OBVIOUS
    <3>2. /\ s \ {Pick(s)} \in SUBSET S
          /\ Cardinality(s) \in Nat /\ Cardinality(s \ {Pick(s)}) \in Nat
          /\ Cardinality(s \ {Pick(s)}) = Cardinality(s) - 1
      BY <1>1, <2>1, <3>1, WithoutOne
    <3> QED  BY <1>5, <3>2
  <2>3. rest \notin Bad
    <3> SUFFICES ASSUME rest \in Bad PROVE FALSE  OBVIOUS
    <3>1. n - 1 \in Bads  BY <2>2
    <3>2. n <= n - 1  BY <1>4, <3>1
    <3> QED  BY <2>2, <3>2
  <2>4. g[rest] = h[rest]  BY <2>2, <2>3
  <2>5. s \in SUBSET S /\ s \in SUBSET T  OBVIOUS
  <2>6. g[s] = f[Pick(s)] + g[rest]  BY <1>7, <2>5 DEF SumsOver
  <2>7. h[s] = f[Pick(s)] + h[rest]  BY <1>7, <2>5 DEF SumsOver
  <2> QED  BY <1>5, <2>4, <2>6, <2>7
<1> QED  BY <1>6, <1>7

\* The fold is such a sum.
LEMMA FoldIsSum ==
    ASSUME NEW S, IsFiniteSet(S), NEW f, \A x \in S : f[x] \in Nat
    PROVE  \E g \in [SUBSET S -> Nat] :
               SumsOver(g, f, SUBSET S) /\ SumFunctionOnSet(f, S) = g[S]
<1> DEFINE Is(g) == g = [s \in SUBSET S |->
                            IF s = {} THEN 0 ELSE f[Pick(s)] + g[s \ {Pick(s)}]]
           iter == CHOOSE g : Is(g)
<1>1. SumFunctionOnSet(f, S) = iter[S]
  BY DEF SumFunctionOnSet, FoldFunctionOnSet, MapThenFoldSet, Pick
<1>2. PICK h \in [SUBSET S -> Nat] : SumsOver(h, f, SUBSET S)  BY SumExists
<1>3. Is(h)  BY <1>2 DEF SumsOver
<1>4. Is(iter)  BY <1>3
<1> HIDE DEF iter
<1>5. iter \in [SUBSET S -> Nat]
  <2>1. iter = [s \in SUBSET S |-> iter[s]]  BY <1>4
  <2> SUFFICES \A s \in SUBSET S : iter[s] \in Nat  BY <2>1
  <2>2. SumsOver(iter, f, SUBSET S)  BY <1>4 DEF SumsOver
  <2>3. S \in SUBSET S  OBVIOUS
  <2>4. \A s \in SUBSET S : iter[s] = h[s]  BY <1>2, <2>2, <2>3, SumsAgree
  <2> QED  BY <2>4
<1>6. SumsOver(iter, f, SUBSET S)  BY <1>4 DEF SumsOver
<1> QED  BY <1>1, <1>5, <1>6

\* A sum may take the elements in any order.
AnyNext(g, f, S) == \A s \in SUBSET S, y \in S : y \in s => g[s] = f[y] + g[s \ {y}]

LEMMA AnyOrder ==
    ASSUME NEW S, IsFiniteSet(S), NEW f, \A x \in S : f[x] \in Nat,
           NEW g \in [SUBSET S -> Nat], SumsOver(g, f, SUBSET S)
    PROVE  AnyNext(g, f, S)
<1> DEFINE TakesAny(s) == \A y \in s : g[s] = f[y] + g[s \ {y}]
           Bad  == {s \in SUBSET S : ~TakesAny(s)}
           Bads == {Cardinality(s) : s \in Bad}
<1> SUFFICES ASSUME Bad # {} PROVE FALSE  BY DEF AnyNext
<1>1. \A s \in Bad : Cardinality(s) \in Nat  BY FS_Subset, FS_CardinalityType
<1>2. Bads \in SUBSET Nat /\ Bads # {}  BY <1>1
<1>3. PICK n \in Bads : \A o \in Bads : n <= o  BY <1>2, LeastNatural
<1>4. PICK s \in Bad : n = Cardinality(s)  BY <1>3
<1>5. PICK y \in s : g[s] # f[y] + g[s \ {y}]  BY <1>4
<1> DEFINE x == Pick(s)
<1>6. x \in s /\ s \in SUBSET S /\ x \in S /\ y \in S  BY <1>5, PickedIsIn
<1>7. g[s] = f[x] + g[s \ {x}]  BY <1>5, <1>6 DEF SumsOver
<1>8. x # y  BY <1>5, <1>7
<1> HIDE DEF x
<1>9. /\ s \ {y} \in SUBSET S /\ s \ {x} \in SUBSET S /\ n \in Nat
      /\ Cardinality(s \ {y}) = n - 1 /\ Cardinality(s \ {x}) = n - 1
  <2>1. /\ s \ {y} \in SUBSET S /\ Cardinality(s) \in Nat
        /\ Cardinality(s \ {y}) = Cardinality(s) - 1
    BY <1>6, WithoutOne
  <2>2. /\ s \ {x} \in SUBSET S
        /\ Cardinality(s \ {x}) = Cardinality(s) - 1
    BY <1>6, WithoutOne
  <2> QED  BY <1>4, <2>1, <2>2
<1>10. \A t \in SUBSET S : Cardinality(t) = n - 1 => TakesAny(t)
  <2> SUFFICES ASSUME NEW t \in SUBSET S, Cardinality(t) = n - 1, t \in Bad PROVE FALSE
    OBVIOUS
  <2>1. n - 1 \in Bads  OBVIOUS
  <2>2. n <= n - 1  BY <1>3, <2>1
  <2> QED  BY <1>9, <2>2
<1>11. g[s \ {x}] = f[y] + g[(s \ {x}) \ {y}]
  BY <1>6, <1>8, <1>9, <1>10
<1>12. g[s \ {y}] = f[x] + g[(s \ {y}) \ {x}]
  BY <1>6, <1>8, <1>9, <1>10
<1>13. (s \ {x}) \ {y} = (s \ {y}) \ {x} /\ (s \ {x}) \ {y} \in SUBSET S  BY <1>6
<1>14. f[x] \in Nat /\ f[y] \in Nat /\ g[(s \ {x}) \ {y}] \in Nat  BY <1>6, <1>13
<1>15. g[s] = f[x] + (f[y] + g[(s \ {x}) \ {y}])  BY <1>7, <1>11
<1>16. f[y] + g[s \ {y}] = f[y] + (f[x] + g[(s \ {x}) \ {y}])  BY <1>12, <1>13
<1> QED  BY <1>5, <1>14, <1>15, <1>16

\* What the sums of the models rest on: a sum is a natural number, grows by
\* the value of an element that is added, and a smaller set has a smaller one.
LEMMA SumAdds ==
    ASSUME NEW S, IsFiniteSet(S), NEW f, NEW x, x \notin S,
           \A y \in S \cup {x} : f[y] \in Nat
    PROVE  /\ SumFunctionOnSet(f, S) \in Nat
           /\ SumFunctionOnSet(f, S \cup {x}) = f[x] + SumFunctionOnSet(f, S)
<1> DEFINE T == S \cup {x}
<1>1. IsFiniteSet(T) /\ S \in SUBSET T /\ T \in SUBSET T /\ x \in T /\ T \ {x} = S
  BY FS_AddElement
<1>2. (\A y \in T : f[y] \in Nat) /\ (\A y \in S : f[y] \in Nat)  OBVIOUS
<1> HIDE DEF T
<1>3. PICK g \in [SUBSET S -> Nat] :
          SumsOver(g, f, SUBSET S) /\ SumFunctionOnSet(f, S) = g[S]
  BY <1>2, FoldIsSum
<1>4. PICK h \in [SUBSET T -> Nat] :
          SumsOver(h, f, SUBSET T) /\ SumFunctionOnSet(f, T) = h[T]
  BY <1>1, <1>2, FoldIsSum
<1>5. g[S] = h[S]
  <2>1. \A s \in SUBSET S : g[s] = h[s]  BY <1>1, <1>3, <1>4, SumsAgree
  <2> QED  BY <2>1
<1>6. h[T] = f[x] + h[T \ {x}]
  <2>1. AnyNext(h, f, T)  BY <1>1, <1>2, <1>4, AnyOrder
  <2> QED  BY <1>1, <2>1 DEF AnyNext
<1>7. SumFunctionOnSet(f, T) = f[x] + SumFunctionOnSet(f, S)
  BY <1>1, <1>3, <1>4, <1>5, <1>6
<1>8. g[S] \in Nat  BY <1>3
<1> QED  BY <1>3, <1>7, <1>8 DEF T

LEMMA SumOfNone == \A f : SumFunctionOnSet(f, {}) = 0
<1> TAKE f
<1>1. PICK g \in [SUBSET {} -> Nat] :
          SumsOver(g, f, SUBSET {}) /\ SumFunctionOnSet(f, {}) = g[{}]
  <2>1. IsFiniteSet({}) /\ \A x \in {} : f[x] \in Nat  BY FS_EmptySet
  <2> QED  BY <2>1, FoldIsSum
<1> QED  BY <1>1 DEF SumsOver

LEMMA SumShrinks ==
    ASSUME NEW T, IsFiniteSet(T), NEW S \in SUBSET T, NEW f, \A x \in T : f[x] \in Nat
    PROVE  SumFunctionOnSet(f, S) \in Nat /\ SumFunctionOnSet(f, S) <= SumFunctionOnSet(f, T)
<1> DEFINE Less(U) == /\ SumFunctionOnSet(f, S) \in Nat /\ SumFunctionOnSet(f, U) \in Nat
                      /\ SumFunctionOnSet(f, S) <= SumFunctionOnSet(f, U)
           Bad  == {U \in SUBSET T : S \subseteq U /\ ~Less(U)}
           Bads == {Cardinality(U) : U \in Bad}
<1>1. IsFiniteSet(S)  BY FS_Subset
<1>2. SumFunctionOnSet(f, S) \in Nat
  <2>1. \A x \in S : f[x] \in Nat  OBVIOUS
  <2>2. PICK g \in [SUBSET S -> Nat] :
            SumsOver(g, f, SUBSET S) /\ SumFunctionOnSet(f, S) = g[S]
    BY <1>1, <2>1, FoldIsSum
  <2> QED  BY <2>2
<1>3. Bad = {}
  <2> SUFFICES ASSUME Bad # {} PROVE FALSE  OBVIOUS
  <2>1. \A U \in Bad : Cardinality(U) \in Nat  BY FS_Subset, FS_CardinalityType
  <2>2. Bads \in SUBSET Nat /\ Bads # {}  BY <2>1
  <2>3. PICK n \in Bads : \A o \in Bads : n <= o  BY <2>2, LeastNatural
  <2>4. PICK U \in Bad : n = Cardinality(U)  BY <2>3
  <2>5. U \in SUBSET T /\ S \subseteq U /\ ~Less(U)  OBVIOUS
  <2>6. U # S  BY <1>2, <2>5
  <2>7. PICK x \in U : x \notin S  BY <2>5, <2>6
  <2> DEFINE V == U \ {x}
  <2>8. /\ V \in SUBSET T /\ IsFiniteSet(V) /\ n \in Nat /\ Cardinality(V) = n - 1
    <3>1. /\ U \ {x} \in SUBSET T /\ IsFiniteSet(U \ {x})
          /\ Cardinality(U) \in Nat /\ Cardinality(U \ {x}) = Cardinality(U) - 1
      BY <2>5, WithoutOne
    <3> QED  BY <2>4, <3>1
  <2>9. V \notin Bad
    <3> SUFFICES ASSUME V \in Bad PROVE FALSE  OBVIOUS
    <3>1. n - 1 \in Bads  BY <2>8
    <3>2. n <= n - 1  BY <2>3, <3>1
    <3> QED  BY <2>8, <3>2
  <2>10. Less(V)  BY <2>5, <2>7, <2>8, <2>9
  <2>11. SumFunctionOnSet(f, V \cup {x}) = f[x] + SumFunctionOnSet(f, V)
    <3>1. x \notin V /\ \A y \in V \cup {x} : f[y] \in Nat  BY <2>5, <2>7
    <3> QED  BY <2>8, <3>1, SumAdds
  <2>12. V \cup {x} = U /\ f[x] \in Nat  BY <2>5, <2>7
  <2>13. /\ SumFunctionOnSet(f, S) \in Nat /\ SumFunctionOnSet(f, V) \in Nat
         /\ SumFunctionOnSet(f, S) <= SumFunctionOnSet(f, V)
    BY <2>10
  <2>14. SumFunctionOnSet(f, U) = f[x] + SumFunctionOnSet(f, V)  BY <2>11, <2>12
  <2>15. Less(U)  BY <2>12, <2>13, <2>14
  <2> QED  BY <2>5, <2>15
<1>4. T \notin Bad /\ S \subseteq T /\ T \in SUBSET T  BY <1>3
<1> QED  BY <1>4
\* A finite set of integers with a member has a greatest one.
LEMMA GreatestInteger ==
    ASSUME NEW S, IsFiniteSet(S), S \in SUBSET Int, S # {}
    PROVE  Max(S) \in S /\ \A y \in S : y <= Max(S)
<1> DEFINE Has(s) == \E x \in s : \A y \in s : y <= x
           Bad  == {s \in SUBSET S : s # {} /\ ~Has(s)}
           Bads == {Cardinality(s) : s \in Bad}
<1>1. Bad = {}
  <2> SUFFICES ASSUME Bad # {} PROVE FALSE  OBVIOUS
  <2>1. \A s \in Bad : Cardinality(s) \in Nat  BY FS_Subset, FS_CardinalityType
  <2>2. Bads \in SUBSET Nat /\ Bads # {}  BY <2>1
  <2>3. PICK n \in Bads : \A o \in Bads : n <= o  BY <2>2, LeastNatural
  <2>4. PICK s \in Bad : n = Cardinality(s)  BY <2>3
  <2>5. s \in SUBSET S /\ s # {} /\ ~Has(s)  OBVIOUS
  <2>6. PICK x \in s : TRUE  BY <2>5
  <2> DEFINE rest == s \ {x}
  <2>7. rest \in SUBSET S /\ n \in Nat /\ Cardinality(rest) = n - 1
    <3>1. /\ s \ {x} \in SUBSET S /\ Cardinality(s) \in Nat
          /\ Cardinality(s \ {x}) = Cardinality(s) - 1
      BY <2>5, WithoutOne
    <3> QED  BY <2>4, <3>1
  <2>8. rest \notin Bad
    <3> SUFFICES ASSUME rest \in Bad PROVE FALSE  OBVIOUS
    <3>1. n - 1 \in Bads  BY <2>7
    <3>2. n <= n - 1  BY <2>3, <3>1
    <3> QED  BY <2>7, <3>2
  <2>9. CASE rest = {}
    <3>1. \A y \in s : y = x  BY <2>9
    <3>2. x \in Int  BY <2>5, <2>6
    <3>3. Has(s)  BY <2>6, <3>1, <3>2
    <3> QED  BY <2>5, <3>3
  <2>10. CASE rest # {}
    <3>1. PICK z \in rest : \A y \in rest : y <= z  BY <2>7, <2>8, <2>10
    <3>2. /\ x \in Int /\ z \in Int /\ z \in s /\ \A y \in s : y \in Int
          /\ \A y \in s : y = x \/ y \in rest
      BY <2>5, <2>6, <3>1
    <3>3. CASE x <= z
      <4>1. \A y \in s : y <= z  BY <3>1, <3>2, <3>3
      <4> QED  BY <2>5, <3>2, <4>1
    <3>4. CASE z <= x
      <4>1. \A y \in s : y <= x  BY <3>1, <3>2, <3>4
      <4> QED  BY <2>5, <2>6, <4>1
    <3> QED  BY <3>2, <3>3, <3>4
  <2> QED  BY <2>9, <2>10
<1>2. Has(S)  BY <1>1
<1> QED  BY <1>2 DEF Max

\* A sum is any of its elements and the sum of the others.
LEMMA SumTakes ==
    ASSUME NEW S, IsFiniteSet(S), NEW f, \A y \in S : f[y] \in Nat, NEW x \in S
    PROVE  /\ SumFunctionOnSet(f, S \ {x}) \in Nat
           /\ SumFunctionOnSet(f, S) = f[x] + SumFunctionOnSet(f, S \ {x})
<1> DEFINE R == S \ {x}
<1>1. IsFiniteSet(R) /\ x \notin R /\ R \cup {x} = S  BY FS_RemoveElement
<1>2. \A y \in R \cup {x} : f[y] \in Nat  BY <1>1
<1> HIDE DEF R
<1>3. /\ SumFunctionOnSet(f, R) \in Nat
      /\ SumFunctionOnSet(f, R \cup {x}) = f[x] + SumFunctionOnSet(f, R)
  BY <1>1, <1>2, SumAdds
<1> QED  BY <1>1, <1>3 DEF R

\* Whatever takes the elements off one by one, in some order, is the sum.
TakesOff(g, f, S) ==
    \A s \in SUBSET S : IF s = {} THEN g[s] = 0
                        ELSE \E x \in s : g[s] = g[s \ {x}] + f[x]

LEMMA SumIsUnique ==
    ASSUME NEW S, IsFiniteSet(S), NEW f, \A x \in S : f[x] \in Nat,
           NEW g, TakesOff(g, f, S)
    PROVE  g[S] = SumFunctionOnSet(f, S)
<1> DEFINE Bad  == {s \in SUBSET S : g[s] # SumFunctionOnSet(f, s)}
           Bads == {Cardinality(s) : s \in Bad}
<1> SUFFICES ASSUME Bad # {} PROVE FALSE  OBVIOUS
<1>1. \A s \in Bad : Cardinality(s) \in Nat  BY FS_Subset, FS_CardinalityType
<1>2. Bads \in SUBSET Nat /\ Bads # {}  BY <1>1
<1>3. PICK n \in Bads : \A o \in Bads : n <= o  BY <1>2, LeastNatural
<1>4. PICK s \in Bad : n = Cardinality(s)  BY <1>3
<1>5. s \in SUBSET S /\ g[s] # SumFunctionOnSet(f, s)  OBVIOUS
<1>6. CASE s = {}
  <2>1. g[s] = 0  BY <1>5, <1>6 DEF TakesOff
  <2> QED  BY <1>5, <1>6, <2>1, SumOfNone
<1>7. CASE s # {}
  <2>1. PICK x \in s : g[s] = g[s \ {x}] + f[x]  BY <1>5, <1>7 DEF TakesOff
  <2> DEFINE rest == s \ {x}
  <2>2. rest \in SUBSET S /\ n \in Nat /\ Cardinality(rest) = n - 1 /\ IsFiniteSet(s)
    <3>1. /\ s \ {x} \in SUBSET S /\ Cardinality(s) \in Nat
          /\ Cardinality(s \ {x}) = Cardinality(s) - 1
      BY <1>5, WithoutOne
    <3> QED  BY <1>4, <1>5, <3>1, FS_Subset
  <2>3. rest \notin Bad
    <3> SUFFICES ASSUME rest \in Bad PROVE FALSE  OBVIOUS
    <3>1. n - 1 \in Bads  BY <2>2
    <3>2. n <= n - 1  BY <1>3, <3>1
    <3> QED  BY <2>2, <3>2
  <2>4. g[rest] = SumFunctionOnSet(f, rest)  BY <2>2, <2>3
  <2>5. SumFunctionOnSet(f, s) = f[x] + SumFunctionOnSet(f, rest)
    <3>1. \A y \in s : f[y] \in Nat  BY <1>5
    <3> QED  BY <2>2, <3>1, SumTakes
  <2>6. f[x] \in Nat /\ SumFunctionOnSet(f, rest) \in Nat
    <3>1. \A y \in s : f[y] \in Nat  BY <1>5
    <3> QED  BY <2>2, <3>1, SumTakes
  <2> QED  BY <1>5, <2>1, <2>4, <2>5, <2>6
<1> QED  BY <1>6, <1>7

LEMMA ImageIsFinite ==
    ASSUME NEW S, IsFiniteSet(S), NEW e
    PROVE  IsFiniteSet({e[x] : x \in S})
<1> DEFINE T == {e[x] : x \in S}
           h == [x \in S |-> e[x]]
<1>1. h \in Surjection(S, T)  BY DEF Surjection
<1> HIDE DEF h, T
<1>2. IsFiniteSet(T)  BY <1>1, FS_Surjection
<1> QED  BY <1>2 DEF T

\* A sum over the places of different elements is the sum over the elements.
LEMMA SumReindexes ==
    ASSUME NEW S, IsFiniteSet(S), NEW e, \A x, y \in S : e[x] = e[y] => x = y,
           NEW f, \A x \in S : f[e[x]] \in Nat
    PROVE  SumFunctionOnSet([x \in S |-> f[e[x]]], S)
             = SumFunctionOnSet(f, {e[x] : x \in S})
<1> DEFINE At(s) == {e[x] : x \in s}
           h == [x \in S |-> f[e[x]]]
           g == [s \in SUBSET S |-> SumFunctionOnSet(f, At(s))]
<1>1. TakesOff(g, h, S)
  <2> SUFFICES ASSUME NEW s \in SUBSET S
               PROVE  IF s = {} THEN g[s] = 0
                      ELSE \E x \in s : g[s] = g[s \ {x}] + h[x]
    BY DEF TakesOff
  <2>1. CASE s = {}
    <3>1. At(s) = {}  BY <2>1
    <3> QED  BY <2>1, <3>1, SumOfNone
  <2>2. CASE s # {}
    <3>1. PICK x \in s : TRUE  BY <2>2
    <3>2. x \in S /\ h[x] = f[e[x]] /\ e[x] \in At(s)  BY <3>1
    <3>3. At(s \ {x}) = At(s) \ {e[x]}
      <4>1. \A y \in s \ {x} : e[y] # e[x]  BY <3>1
      <4> QED  BY <4>1
    <3>4. IsFiniteSet(At(s))  BY FS_Subset, ImageIsFinite
    <3>5. \A y \in At(s) : f[y] \in Nat  OBVIOUS
    <3>6. SumFunctionOnSet(f, At(s)) = f[e[x]] + SumFunctionOnSet(f, At(s) \ {e[x]})
      <4> HIDE DEF At
      <4> QED  BY <3>2, <3>4, <3>5, SumTakes
    <3>7. g[s] = SumFunctionOnSet(f, At(s)) /\ g[s \ {x}] = SumFunctionOnSet(f, At(s \ {x}))
      OBVIOUS
    <3>8. g[s] = g[s \ {x}] + h[x]
      <4>1. SumFunctionOnSet(f, At(s) \ {e[x]}) \in Nat
        <5> HIDE DEF At
        <5> QED  BY <3>2, <3>4, <3>5, SumTakes
      <4>2. f[e[x]] \in Nat  BY <3>2
      <4> DEFINE m == SumFunctionOnSet(f, At(s) \ {e[x]})
                 n == f[e[x]]
      <4>3. m + n = n + m  BY <4>1, <4>2
      <4>4. g[s \ {x}] = m  BY <3>3, <3>7
      <4>5. g[s] = n + m  BY <3>6, <3>7
      <4>6. h[x] = n  BY <3>2
      <4> HIDE DEF g, h, m, n
      <4> QED  BY <4>3, <4>4, <4>5, <4>6
    <3> QED  BY <2>2, <3>1, <3>8
  <2> QED  BY <2>1, <2>2
<1>2. \A x \in S : h[x] \in Nat  OBVIOUS
<1>3. g[S] = SumFunctionOnSet(f, At(S))  OBVIOUS
<1> HIDE DEF g, h, At
<1>4. g[S] = SumFunctionOnSet(h, S)  BY <1>1, <1>2, SumIsUnique
<1> QED  BY <1>3, <1>4 DEF h, At
-----------------------------------------------------------------------------
(* Folds of sequences that have no closed form.  FoldLeft takes the last   *)
(* place of a set of places first; op is a function here, since a lemma    *)
(* with an operator as parameter cannot be instantiated.                   *)
FoldsOver(g, op, base, seq, D) ==
    \A s \in D : g[s] = IF s = {} THEN base
                        ELSE op[<<g[s \ {Max(s)}], seq[Max(s)]>>]

LEMMA GreatestPlace ==
    ASSUME NEW n \in Nat, NEW s \in SUBSET (1 .. n), s # {}
    PROVE  /\ Max(s) \in s /\ Max(s) \in 1 .. n
           /\ \A y \in s : y <= Max(s)
           /\ n \in s => Max(s) = n
<1>1. IsFiniteSet(1 .. n)  BY FS_Interval
<1>2. IsFiniteSet(s)  BY <1>1, FS_Subset
<1>3. s \in SUBSET Int  OBVIOUS
<1>4. Max(s) \in s /\ \A y \in s : y <= Max(s)  BY <1>2, <1>3, GreatestInteger
<1>5. Max(s) \in 1 .. n  BY <1>4
<1>6. n \in s => Max(s) = n  BY <1>4, <1>5
<1> QED  BY <1>4, <1>5, <1>6

LEMMA FoldExists ==
    ASSUME NEW A, NEW T, NEW seq \in Seq(A), NEW op \in [T \X A -> T], NEW base \in T,
           NEW k \in 0 .. Len(seq)
    PROVE  \E g \in [SUBSET (1 .. k) -> T] : FoldsOver(g, op, base, seq, SUBSET (1 .. k))
<1> DEFINE There(n) == \E g \in [SUBSET (1 .. n) -> T] :
                           FoldsOver(g, op, base, seq, SUBSET (1 .. n))
           Bad == {n \in 0 .. Len(seq) : ~There(n)}
<1> SUFFICES ASSUME Bad # {} PROVE FALSE  OBVIOUS
<1>1. Len(seq) \in Nat /\ Bad \in SUBSET Nat  OBVIOUS
<1>2. PICK n \in Bad : \A o \in Bad : n <= o  BY <1>1, LeastNatural
<1>3. CASE n = 0
  <2> DEFINE g == [s \in SUBSET (1 .. 0) |-> base]
  <2>1. g \in [SUBSET (1 .. 0) -> T]  OBVIOUS
  <2>2. \A s \in SUBSET (1 .. 0) : s = {}  OBVIOUS
  <2>3. FoldsOver(g, op, base, seq, SUBSET (1 .. 0))  BY <2>2 DEF FoldsOver
  <2> HIDE DEF g
  <2>4. There(0)  BY <2>1, <2>3
  <2> QED  BY <1>2, <1>3, <2>4
<1>4. CASE n # 0
  <2>1. n - 1 \in 0 .. Len(seq) /\ ~(n <= n - 1) /\ n \in 1 .. Len(seq) /\ n \in Nat
    BY <1>2, <1>4
  <2>2. There(n - 1)  BY <1>2, <2>1
  <2> DEFINE D == SUBSET (1 .. n)
             E == SUBSET (1 .. (n - 1))
  <2>3. PICK g \in [E -> T] : FoldsOver(g, op, base, seq, E)  BY <2>2
  <2>4. \A s \in D : /\ n \in s => s \ {n} \in E
                     /\ n \notin s => s \in E
    BY <2>1
  <2>5. E \subseteq D /\ \A s \in E : n \notin s  BY <2>1
  <2> DEFINE h == [s \in D |-> IF n \in s THEN op[<<g[s \ {n}], seq[n]>>] ELSE g[s]]
  <2>6. seq[n] \in A  BY <2>1
  <2>7. h \in [D -> T]
    <3> SUFFICES ASSUME NEW s \in D
                 PROVE  (IF n \in s THEN op[<<g[s \ {n}], seq[n]>>] ELSE g[s]) \in T
      OBVIOUS
    <3>1. CASE n \in s
      <4>1. g[s \ {n}] \in T  BY <2>3, <2>4, <3>1
      <4>2. <<g[s \ {n}], seq[n]>> \in T \X A  BY <2>6, <4>1
      <4>3. op[<<g[s \ {n}], seq[n]>>] \in T  BY <4>2
      <4> QED  BY <3>1, <4>3
    <3>2. CASE n \notin s  BY <2>3, <2>4, <3>2
    <3> QED  BY <3>1, <3>2
  <2>8. \A s \in E : h[s] = g[s]  BY <2>5
  <2>9. \A s \in D : n \in s => h[s] = op[<<g[s \ {n}], seq[n]>>]  OBVIOUS
  <2> HIDE DEF h, D, E
  <2>10. FoldsOver(h, op, base, seq, D)
    <3> SUFFICES ASSUME NEW s \in D
                 PROVE  h[s] = IF s = {} THEN base ELSE op[<<h[s \ {Max(s)}], seq[Max(s)]>>]
      BY DEF FoldsOver
    <3>1. CASE n \in s
      <4>1. s # {} /\ Max(s) = n  BY <2>1, <3>1, GreatestPlace DEF D
      <4>2. h[s \ {n}] = g[s \ {n}]  BY <2>4, <2>8, <3>1
      <4> QED  BY <2>9, <3>1, <4>1, <4>2
    <3>2. CASE n \notin s
      <4>1. s \in E /\ h[s] = g[s]  BY <2>4, <2>8, <3>2
      <4>2. g[s] = IF s = {} THEN base ELSE op[<<g[s \ {Max(s)}], seq[Max(s)]>>]
        BY <2>3, <4>1 DEF FoldsOver
      <4>3. s \ {Max(s)} \in E  BY <4>1 DEF E
      <4> QED  BY <2>8, <4>1, <4>2, <4>3
    <3> QED  BY <3>1, <3>2
  <2>11. There(n)  BY <2>7, <2>10 DEF D
  <2> QED  BY <1>2, <2>11
<1> QED  BY <1>3, <1>4

\* A fold by an operator that stays in T is a run of it over the sequence: g is
\* the recursive function of the fold, and whichever function fits its equation
\* ends where the run h does.
IsRun(g, h, op, base, seq, T) ==
    /\ g \in [SUBSET (DOMAIN seq) -> T] /\ h \in [0 .. Len(seq) -> T]
    /\ FoldsOver(g, op, base, seq, SUBSET (DOMAIN seq))
    /\ h[0] = base
    /\ \A i \in 1 .. Len(seq) : h[i] = op[<<h[i - 1], seq[i]>>]
    /\ \A f : (/\ f[{}] = base
               /\ \A s \in SUBSET (DOMAIN seq) :
                  (s # {} /\ f[s \ {Max(s)}] \in T) =>
                      f[s] = op[<<f[s \ {Max(s)}], seq[Max(s)]>>])
              => f[DOMAIN seq] = h[Len(seq)]

LEMMA FoldRuns ==
    ASSUME NEW A, NEW T, NEW seq \in Seq(A), NEW op \in [T \X A -> T], NEW base \in T
    PROVE  \E g, h : IsRun(g, h, op, base, seq, T)
<1> DEFINE n == Len(seq)
           D == SUBSET (DOMAIN seq)
<1>1. n \in Nat /\ n \in 0 .. n /\ DOMAIN seq = 1 .. n  OBVIOUS
<1>2. PICK g \in [D -> T] : FoldsOver(g, op, base, seq, D)
  <2>1. \E g \in [SUBSET (1 .. n) -> T] : FoldsOver(g, op, base, seq, SUBSET (1 .. n))
    <3> DEFINE k == n
    <3>1. k \in 0 .. Len(seq)  BY <1>1
    <3> HIDE DEF k
    <3>2. \E g \in [SUBSET (1 .. k) -> T] : FoldsOver(g, op, base, seq, SUBSET (1 .. k))
      BY <3>1, FoldExists
    <3> QED  BY <3>2 DEF k
  <2> QED  BY <1>1, <2>1
<1> DEFINE h == [i \in 0 .. n |-> g[1 .. i]]
<1>3. \A i \in 0 .. n : 1 .. i \in D  BY <1>1
<1>4. h \in [0 .. n -> T]  BY <1>2, <1>3
<1>5. \A i \in 1 .. n : 1 .. i # {} /\ Max(1 .. i) = i /\ (1 .. i) \ {i} = 1 .. (i - 1)
  <2> TAKE i \in 1 .. n
  <2>1. i \in Nat /\ i \in 1 .. i /\ 1 .. i \in SUBSET (1 .. i)  BY <1>1
  <2>2. Max(1 .. i) = i  BY <2>1, GreatestPlace
  <2>3. (1 .. i) \ {i} = 1 .. (i - 1)  BY <2>1
  <2> QED  BY <2>1, <2>2, <2>3
<1>6. h[0] = base
  <2>1. 1 .. 0 = {} /\ {} \in D /\ 0 \in 0 .. n  BY <1>1
  <2>2. g[{}] = base  BY <1>2, <2>1 DEF FoldsOver
  <2>3. h[0] = g[1 .. 0]  BY <2>1
  <2> QED  BY <2>1, <2>2, <2>3
<1>7. ASSUME NEW i \in 1 .. n PROVE h[i] = op[<<h[i - 1], seq[i]>>]
  <2>1. i \in 0 .. n /\ i - 1 \in 0 .. n  BY <1>1
  <2>2. h[i] = g[1 .. i] /\ h[i - 1] = g[1 .. (i - 1)]  BY <2>1
  <2>3. g[1 .. i] = op[<<g[(1 .. i) \ {Max(1 .. i)}], seq[Max(1 .. i)]>>]
    BY <1>2, <1>3, <1>5, <2>1 DEF FoldsOver
  <2> QED  BY <1>5, <2>2, <2>3
<1> HIDE DEF h
<1>8. ASSUME NEW f, f[{}] = base,
             \A s \in D : (s # {} /\ f[s \ {Max(s)}] \in T) =>
                              f[s] = op[<<f[s \ {Max(s)}], seq[Max(s)]>>]
      PROVE  f[DOMAIN seq] = h[n]
  <2> DEFINE Bad == {i \in 0 .. n : f[1 .. i] # h[i]}
  <2>1. Bad = {}
    <3> SUFFICES ASSUME Bad # {} PROVE FALSE  OBVIOUS
    <3>1. Bad \in SUBSET Nat  BY <1>1
    <3>2. PICK i \in Bad : \A o \in Bad : i <= o  BY <3>1, LeastNatural
    <3>3. i \in 0 .. n /\ f[1 .. i] # h[i]  OBVIOUS
    <3>4. i # 0
      <4>1. 1 .. 0 = {}  OBVIOUS
      <4>2. f[1 .. 0] = h[0]  BY <1>6, <1>8, <4>1
      <4> QED  BY <3>3, <4>2
    <3>5. i \in 1 .. n /\ i - 1 \in 0 .. n /\ ~(i <= i - 1)  BY <1>1, <3>3, <3>4
    <3>6. f[1 .. (i - 1)] = h[i - 1]  BY <3>2, <3>5
    <3>7. h[i - 1] \in T  BY <1>4, <3>5
    <3>8. f[1 .. i] = op[<<f[(1 .. i) \ {Max(1 .. i)}], seq[Max(1 .. i)]>>]
      <4>1. 1 .. i \in D /\ 1 .. i # {}  BY <1>3, <1>5, <3>3, <3>5
      <4>2. f[(1 .. i) \ {Max(1 .. i)}] \in T  BY <1>5, <3>5, <3>6, <3>7
      <4> QED  BY <1>8, <4>1, <4>2
    <3>9. f[1 .. i] = op[<<f[1 .. (i - 1)], seq[i]>>]  BY <1>5, <3>5, <3>8
    <3>10. f[1 .. i] = h[i]  BY <1>7, <3>5, <3>6, <3>9
    <3> QED  BY <3>3, <3>10
  <2>2. n \notin Bad  BY <2>1
  <2> QED  BY <1>1, <2>2
<1> QED  BY <1>1, <1>2, <1>4, <1>6, <1>7, <1>8 DEF IsRun
=============================================================================
