------------------------------ MODULE CountSums ------------------------------
(***************************************************************************)
(* Lemmas about SumFunction, the sum of the counts in a map.  The fold     *)
(* behind it is a recursive function over the subsets of a set; its facts  *)
(* are shown by looking at a smallest subset that would violate them.      *)
(***************************************************************************)
EXTENDS Functions, FiniteSetTheorems, TLAPS

-----------------------------------------------------------------------------
(* Induction over the subsets of a finite set *)

\* Among the subsets that do not have some property one is the smallest.
LEMMA SmallestSubset ==
  ASSUME NEW S, IsFiniteSet(S), NEW Bad \in SUBSET SUBSET S, Bad # {}
  PROVE  \E T \in Bad : IsFiniteSet(T) /\ \A U \in SUBSET T : U # T => U \notin Bad
<1>1. IsWellFoundedOn(StrictSubsetOrdering(S), FiniteSubsetsOf(S))
  BY FS_StrictSubsetOrderingWellFounded
<1>2. FiniteSubsetsOf(S) = SUBSET S
  BY FS_FiniteSubsetsOfFinite
<1>3. PICK T \in Bad : \A U \in Bad : ~ (<<U, T>> \in StrictSubsetOrdering(S))
  BY <1>1, <1>2, WFMin
<1>4. IsFiniteSet(T)
  BY FS_Subset
<1>5. \A U \in SUBSET T : U # T => U \notin Bad
  BY <1>3 DEF StrictSubsetOrdering
<1> QED
  BY <1>4, <1>5

-----------------------------------------------------------------------------
(* The recursive function behind the sum *)

First(S) == CHOOSE x \in S : TRUE

Step(f, g, S) == IF S = {} THEN 0 ELSE f[First(S)] + g[S \ {First(S)}]

\* The function that SumFunctionOnSet(f, S) applies to S.
Solves(g, f, S) == g = [T \in SUBSET S |-> Step(f, g, T)]

LEMMA FirstIn == \A S : S # {} => First(S) \in S
BY Zenon DEF First

LEMMA SumUnfolds ==
  ASSUME NEW f, NEW S
  PROVE  SumFunctionOnSet(f, S) = (CHOOSE g : Solves(g, f, S))[S]
BY Zenon DEF SumFunctionOnSet, FoldFunctionOnSet, MapThenFoldSet, Solves, Step, First

\* Two such functions agree where both are defined.
LEMMA SolutionsAgree ==
  ASSUME NEW f, NEW S, IsFiniteSet(S), NEW A, NEW B, S \subseteq A, S \subseteq B,
         NEW g, Solves(g, f, A), NEW h, Solves(h, f, B)
  PROVE  g[S] = h[S]
<1> DEFINE Bad == {T \in SUBSET S : g[T] # h[T]}
<1>1. SUFFICES ASSUME Bad # {} PROVE FALSE
  OBVIOUS
<1>2. PICK T \in Bad : \A U \in SUBSET T : U # T => U \notin Bad
  <2>1. Bad \in SUBSET SUBSET S
    OBVIOUS
  <2> HIDE DEF Bad
  <2> QED
    BY <1>1, <2>1, SmallestSubset
<1>3. /\ T \in SUBSET S /\ g[T] # h[T]
      /\ g[T] = Step(f, g, T) /\ h[T] = Step(f, h, T)
  BY DEF Solves
<1>4. T # {}
  BY <1>3 DEF Step
<1> DEFINE U == T \ {First(T)}
<1>5. U \in SUBSET T /\ U # T
  BY <1>4, FirstIn
<1>6. g[U] = h[U]
  BY <1>2, <1>3, <1>5
<1> QED
  BY <1>3, <1>4, <1>6 DEF Step

\* The function exists.
LEMMA SolutionExists ==
  ASSUME NEW f, NEW S, IsFiniteSet(S)
  PROVE  \E g : Solves(g, f, S)
<1> DEFINE Bad == {T \in SUBSET S : ~ \E g : Solves(g, f, T)}
<1>1. SUFFICES ASSUME Bad # {} PROVE FALSE
  BY DEF Bad
<1>2. PICK T \in Bad : IsFiniteSet(T) /\ \A U \in SUBSET T : U # T => U \notin Bad
  <2>1. Bad \in SUBSET SUBSET S
    OBVIOUS
  <2> HIDE DEF Bad
  <2> QED
    BY <1>1, <2>1, SmallestSubset
<1>3. /\ T \in SUBSET S /\ ~ \E g : Solves(g, f, T)
      /\ \A U \in SUBSET T : U # T => \E g : Solves(g, f, U)
  BY <1>2
<1> DEFINE Of(U) == CHOOSE g : Solves(g, f, U)
           G == [U \in SUBSET T |-> IF U = {} THEN 0
                                    ELSE f[First(U)] + Of(U \ {First(U)})[U \ {First(U)}]]
<1>4. \A U \in SUBSET T : U # T => Solves(Of(U), f, U)
  BY <1>3, Zenon
<1> HIDE DEF Of, Bad
<1>5. ASSUME NEW U \in SUBSET T, U # T
      PROVE  G[U] = Of(U)[U]
  <2>1. Of(U)[U] = Step(f, Of(U), U)
    BY <1>4, <1>5 DEF Solves
  <2>2. CASE U = {}
    BY <2>1, <2>2 DEF Step
  <2>3. CASE U # {}
    <3> DEFINE V == U \ {First(U)}
    <3>1. V \in SUBSET T /\ V \subseteq U /\ V # T /\ IsFiniteSet(V)
      BY <1>2, <1>5, <2>3, FirstIn, FS_Subset
    <3>2. Solves(Of(V), f, V) /\ Solves(Of(U), f, U)
      BY <1>4, <1>5, <3>1
    <3>3. Of(U)[V] = Of(V)[V]
      BY <3>1, <3>2, SolutionsAgree
    <3> QED
      BY <2>1, <2>3, <3>3 DEF Step
  <2> QED
    BY <2>2, <2>3
<1>6. ASSUME NEW U \in SUBSET T
      PROVE  G[U] = Step(f, G, U)
  <2>1. CASE U = {}
    BY <2>1 DEF Step
  <2>2. CASE U # {}
    <3>1. U \ {First(U)} \in SUBSET T /\ U \ {First(U)} # T
      BY <1>6, <2>2, FirstIn
    <3>2. G[U \ {First(U)}] = Of(U \ {First(U)})[U \ {First(U)}]
      BY <1>5, <3>1
    <3> QED
      BY <2>2, <3>2 DEF Step
  <2> QED
    BY <2>1, <2>2
<1>7. G = [U \in SUBSET T |-> Step(f, G, U)]
  BY <1>6
<1> QED
  BY <1>3, <1>7 DEF Solves

\* The equations of the sum.
LEMMA SumEquation ==
  ASSUME NEW f, NEW S, IsFiniteSet(S)
  PROVE  SumFunctionOnSet(f, S) =
           IF S = {} THEN 0
           ELSE f[First(S)] + SumFunctionOnSet(f, S \ {First(S)})
<1> DEFINE Of(U) == CHOOSE g : Solves(g, f, U)
<1>1. \A U \in SUBSET S : Solves(Of(U), f, U)
  <2>1. ASSUME NEW U \in SUBSET S PROVE Solves(Of(U), f, U)
    <3>1. \E g : Solves(g, f, U)
      BY FS_Subset, SolutionExists
    <3> QED
      BY <3>1, Zenon
  <2> QED
    BY <2>1
<1>2. \A U : SumFunctionOnSet(f, U) = Of(U)[U]
  BY SumUnfolds
<1> HIDE DEF Of
<1>3. Of(S)[S] = Step(f, Of(S), S)
  BY <1>1 DEF Solves
<1>4. CASE S = {}
  BY <1>2, <1>3, <1>4 DEF Step
<1>5. CASE S # {}
  <2> DEFINE V == S \ {First(S)}
  <2>1. V \in SUBSET S /\ IsFiniteSet(V)
    BY FS_Subset
  <2>2. Of(S)[V] = Of(V)[V]
    BY <1>1, <2>1, SolutionsAgree
  <2> QED
    BY <1>2, <1>3, <1>5, <2>2 DEF Step
<1> QED
  BY <1>4, <1>5

-----------------------------------------------------------------------------
(* Sums over a finite part of a map's keys *)

LEMMA SumOnNothing == \A f : SumFunctionOnSet(f, {}) = 0
BY SumEquation, FS_EmptySet

LEMMA SumOnType ==
  ASSUME NEW K, NEW f \in [K -> Nat], NEW S \in SUBSET K, IsFiniteSet(S)
  PROVE  SumFunctionOnSet(f, S) \in Nat
<1> DEFINE Bad == {T \in SUBSET S : SumFunctionOnSet(f, T) \notin Nat}
<1>1. SUFFICES ASSUME Bad # {} PROVE FALSE
  BY DEF Bad
<1>2. PICK T \in Bad : IsFiniteSet(T) /\ \A U \in SUBSET T : U # T => U \notin Bad
  <2>1. Bad \in SUBSET SUBSET S
    OBVIOUS
  <2> HIDE DEF Bad
  <2> QED
    BY <1>1, <2>1, SmallestSubset
<1>3. T # {}
  BY SumOnNothing
<1>4. /\ SumFunctionOnSet(f, T) = f[First(T)] + SumFunctionOnSet(f, T \ {First(T)})
      /\ First(T) \in T /\ T \ {First(T)} \in SUBSET T /\ T \ {First(T)} # T
  BY <1>2, <1>3, SumEquation, FirstIn
<1>5. f[First(T)] \in Nat /\ SumFunctionOnSet(f, T \ {First(T)}) \in Nat
  BY <1>2, <1>4
<1> QED
  BY <1>4, <1>5

\* Any key can be taken out.
LEMMA SumWithout ==
  ASSUME NEW K, NEW f \in [K -> Nat], NEW S \in SUBSET K, IsFiniteSet(S), NEW x \in S
  PROVE  SumFunctionOnSet(f, S) = f[x] + SumFunctionOnSet(f, S \ {x})
<1> DEFINE Splits(T) == \A y \in T :
             SumFunctionOnSet(f, T) = f[y] + SumFunctionOnSet(f, T \ {y})
           Bad == {T \in SUBSET S : ~ Splits(T)}
<1>1. SUFFICES ASSUME Bad # {} PROVE FALSE
  BY DEF Bad
<1>2. PICK T \in Bad : IsFiniteSet(T) /\ \A U \in SUBSET T : U # T => U \notin Bad
  <2>1. Bad \in SUBSET SUBSET S
    OBVIOUS
  <2> HIDE DEF Bad
  <2> QED
    BY <1>1, <2>1, SmallestSubset
<1>3. PICK y \in T :
        SumFunctionOnSet(f, T) # f[y] + SumFunctionOnSet(f, T \ {y})
  BY <1>2
<1> DEFINE z == First(T)
<1>4. z \in T /\ SumFunctionOnSet(f, T) = f[z] + SumFunctionOnSet(f, T \ {z})
  BY <1>2, FirstIn, SumEquation
<1> HIDE DEF z
<1>5. y # z
  BY <1>3, <1>4
<1>6. /\ SumFunctionOnSet(f, T \ {z}) = f[y] + SumFunctionOnSet(f, (T \ {z}) \ {y})
      /\ SumFunctionOnSet(f, T \ {y}) = f[z] + SumFunctionOnSet(f, (T \ {y}) \ {z})
  <2>1. Splits(T \ {z}) /\ Splits(T \ {y})
    BY <1>2, <1>3, <1>4
  <2>2. y \in T \ {z} /\ z \in T \ {y}
    BY <1>3, <1>4, <1>5
  <2> QED
    BY <2>1, <2>2
<1>7. (T \ {z}) \ {y} = (T \ {y}) \ {z}
  OBVIOUS
<1>8. f[y] \in Nat /\ f[z] \in Nat /\ SumFunctionOnSet(f, (T \ {y}) \ {z}) \in Nat
  <2>1. (T \ {y}) \ {z} \in SUBSET K /\ IsFiniteSet((T \ {y}) \ {z})
    BY <1>2, FS_Subset
  <2> QED
    BY <1>3, <1>4, <2>1, SumOnType
<1> HIDE DEF Splits, Bad
<1>9. /\ SumFunctionOnSet(f, T) = f[z] + (f[y] + SumFunctionOnSet(f, (T \ {y}) \ {z}))
      /\ SumFunctionOnSet(f, T \ {y}) = f[z] + SumFunctionOnSet(f, (T \ {y}) \ {z})
  BY <1>4, <1>6, <1>7
<1>10. SumFunctionOnSet(f, T) = f[y] + SumFunctionOnSet(f, T \ {y})
  BY ONLY <1>8, <1>9
<1> QED
  BY <1>3, <1>10

\* Larger counts have a larger sum.
LEMMA SumMonotone ==
  ASSUME NEW S, IsFiniteSet(S), NEW K, NEW f \in [K -> Nat], NEW L, NEW g \in [L -> Nat],
         S \subseteq K, S \subseteq L, \A x \in S : f[x] <= g[x]
  PROVE  SumFunctionOnSet(f, S) <= SumFunctionOnSet(g, S)
<1> DEFINE Bad == {T \in SUBSET S : ~ (SumFunctionOnSet(f, T) <= SumFunctionOnSet(g, T))}
<1>1. SUFFICES ASSUME Bad # {} PROVE FALSE
  BY DEF Bad
<1>2. PICK T \in Bad : IsFiniteSet(T) /\ \A U \in SUBSET T : U # T => U \notin Bad
  <2>1. Bad \in SUBSET SUBSET S
    OBVIOUS
  <2> HIDE DEF Bad
  <2> QED
    BY <1>1, <2>1, SmallestSubset
<1>3. T # {}
  BY SumOnNothing
<1> DEFINE z == First(T)
           U == T \ {First(T)}
<1>4. /\ SumFunctionOnSet(f, T) = f[z] + SumFunctionOnSet(f, U)
      /\ SumFunctionOnSet(g, T) = g[z] + SumFunctionOnSet(g, U)
      /\ z \in T /\ U \in SUBSET T /\ U # T /\ IsFiniteSet(U)
  BY <1>2, <1>3, SumEquation, FirstIn, FS_Subset
<1>5. SumFunctionOnSet(f, U) \in Nat /\ SumFunctionOnSet(g, U) \in Nat
  BY <1>2, <1>4, SumOnType
<1>6. f[z] \in Nat /\ g[z] \in Nat /\ f[z] <= g[z]
  BY <1>2, <1>4
<1>7. SumFunctionOnSet(f, U) <= SumFunctionOnSet(g, U)
  BY <1>2, <1>4
<1>8. ~ (SumFunctionOnSet(f, T) <= SumFunctionOnSet(g, T))
  BY <1>2
<1> HIDE DEF z, U, Bad
<1> QED
  BY <1>4, <1>5, <1>6, <1>7, <1>8

\* Each positive count adds at least one.
LEMMA SumCoversKeys ==
  ASSUME NEW K, NEW f \in [K -> Nat], NEW S \in SUBSET K, IsFiniteSet(S)
  PROVE  Cardinality({x \in S : f[x] > 0}) <= SumFunctionOnSet(f, S)
<1> DEFINE Keys(T) == {x \in T : f[x] > 0}
           Bad == {T \in SUBSET S : ~ (Cardinality(Keys(T)) <= SumFunctionOnSet(f, T))}
<1>1. SUFFICES ASSUME Bad # {} PROVE FALSE
  BY DEF Bad
<1>2. PICK T \in Bad : IsFiniteSet(T) /\ \A U \in SUBSET T : U # T => U \notin Bad
  <2>1. Bad \in SUBSET SUBSET S
    OBVIOUS
  <2> HIDE DEF Bad
  <2> QED
    BY <1>1, <2>1, SmallestSubset
<1>3. T # {}
  <2>1. Keys({}) = {} /\ Cardinality({}) = 0 /\ SumFunctionOnSet(f, {}) = 0
    BY FS_EmptySet, SumOnNothing
  <2>2. {} \notin Bad
    BY <2>1
  <2> QED
    BY <1>2, <2>2
<1> DEFINE z == First(T)
           U == T \ {First(T)}
<1>4. /\ SumFunctionOnSet(f, T) = f[z] + SumFunctionOnSet(f, U)
      /\ z \in T /\ U \in SUBSET T /\ U # T /\ IsFiniteSet(U)
  BY <1>2, <1>3, SumEquation, FirstIn, FS_Subset
<1>5. SumFunctionOnSet(f, U) \in Nat /\ f[z] \in Nat
  BY <1>2, <1>4, SumOnType
<1>6. /\ IsFiniteSet(Keys(U)) /\ Cardinality(Keys(U)) \in Nat
      /\ Cardinality(Keys(U)) <= SumFunctionOnSet(f, U)
  <2>1. Keys(U) \in SUBSET U
    OBVIOUS
  <2>2. IsFiniteSet(Keys(U)) /\ Cardinality(Keys(U)) \in Nat
    BY <1>4, <2>1, FS_Subset, FS_CardinalityType
  <2> QED
    BY <1>2, <1>4, <2>2
<1>7. CASE f[z] > 0
  <2>1. Keys(T) = Keys(U) \cup {z} /\ z \notin Keys(U)
    BY <1>4, <1>7
  <2>2. Cardinality(Keys(T)) = Cardinality(Keys(U)) + 1
    BY <1>6, <2>1, FS_AddElement
  <2>3. Cardinality(Keys(T)) <= SumFunctionOnSet(f, T)
    <3> HIDE DEF z, U, Keys
    <3> QED
      BY <1>4, <1>5, <1>6, <1>7, <2>2
  <2> QED
    BY <1>2, <2>3
<1>8. CASE ~ (f[z] > 0)
  <2>1. Keys(T) = Keys(U) /\ f[z] = 0
    BY <1>4, <1>5, <1>8
  <2>2. Cardinality(Keys(T)) <= SumFunctionOnSet(f, T)
    <3> HIDE DEF z, U, Keys
    <3> QED
      BY <1>4, <1>5, <1>6, <2>1
  <2> QED
    BY <1>2, <2>2
<1> QED
  BY <1>7, <1>8

\* A selection without repetition adds up to no more than the whole.
LEMMA SumOfSelection ==
  ASSUME NEW K, NEW f \in [K -> Nat], IsFiniteSet(K), NEW I, IsFiniteSet(I),
         NEW s \in [I -> K], \A a, b \in I : a # b => s[a] # s[b],
         NEW h \in [I -> Nat], \A a \in I : h[a] = f[s[a]]
  PROVE  SumFunctionOnSet(h, I) <= SumFunctionOnSet(f, K)
<1> DEFINE Within(A) == \A S \in SUBSET K :
             (\A a \in A : s[a] \in S) => SumFunctionOnSet(h, A) <= SumFunctionOnSet(f, S)
           Bad == {A \in SUBSET I : ~ Within(A)}
<1>1. SUFFICES ASSUME Bad # {} PROVE FALSE
  BY DEF Bad
<1>2. PICK A \in Bad : IsFiniteSet(A) /\ \A B \in SUBSET A : B # A => B \notin Bad
  <2>1. Bad \in SUBSET SUBSET I
    OBVIOUS
  <2> HIDE DEF Bad
  <2> QED
    BY <1>1, <2>1, SmallestSubset
<1>3. PICK S \in SUBSET K :
        /\ \A a \in A : s[a] \in S
        /\ ~ (SumFunctionOnSet(h, A) <= SumFunctionOnSet(f, S))
  BY <1>2
<1>4. IsFiniteSet(S) /\ SumFunctionOnSet(f, S) \in Nat
  BY FS_Subset, SumOnType
<1>5. A # {}
  <2>1. SumFunctionOnSet(h, {}) = 0 /\ 0 <= SumFunctionOnSet(f, S)
    BY <1>4, SumOnNothing
  <2> QED
    BY <1>3, <2>1
<1> DEFINE z == First(A)
           B == A \ {First(A)}
           R == S \ {s[First(A)]}
<1>6. /\ SumFunctionOnSet(h, A) = h[z] + SumFunctionOnSet(h, B)
      /\ z \in A /\ B \in SUBSET A /\ B # A /\ IsFiniteSet(B)
  BY <1>2, <1>5, SumEquation, FirstIn, FS_Subset
<1>7. SumFunctionOnSet(f, S) = f[s[z]] + SumFunctionOnSet(f, R)
  BY <1>3, <1>4, <1>6, SumWithout
<1>8. SumFunctionOnSet(h, B) <= SumFunctionOnSet(f, R)
  <2>1. \A a \in B : s[a] \in R
    BY <1>2, <1>3, <1>6
  <2>2. Within(B) /\ R \in SUBSET K
    BY <1>2, <1>6
  <2> QED
    BY <2>1, <2>2
<1>9. /\ SumFunctionOnSet(h, B) \in Nat /\ SumFunctionOnSet(f, R) \in Nat
      /\ h[z] \in Nat /\ h[z] = f[s[z]]
  <2>1. IsFiniteSet(R) /\ R \in SUBSET K
    BY <1>4, FS_Subset
  <2> QED
    BY <1>2, <1>6, <2>1, SumOnType
<1> HIDE DEF z, B, R, Bad
<1> QED
  BY <1>3, <1>6, <1>7, <1>8, <1>9

-----------------------------------------------------------------------------
(* The sum of a whole map *)

LEMMA SumType ==
  ASSUME NEW K, IsFiniteSet(K), NEW f \in [K -> Nat]
  PROVE  SumFunction(f) \in Nat
BY SumOnType DEF SumFunction

\* Counting a key adds one to the sum.
LEMMA SumCounted ==
  ASSUME NEW K, IsFiniteSet(K), NEW f \in [K -> Nat], NEW k \in K
  PROVE  SumFunction([f EXCEPT ![k] = @ + 1]) = SumFunction(f) + 1
<1> DEFINE g == [f EXCEPT ![k] = @ + 1]
           R == K \ {k}
<1>1. g \in [K -> Nat] /\ g[k] = f[k] + 1 /\ \A x \in R : g[x] = f[x]
  OBVIOUS
<1>2. DOMAIN f = K /\ DOMAIN g = K
  OBVIOUS
<1> HIDE DEF g
<1>3. IsFiniteSet(R) /\ R \in SUBSET K
  BY FS_Subset
<1>4. /\ SumFunctionOnSet(f, K) = f[k] + SumFunctionOnSet(f, R)
      /\ SumFunctionOnSet(g, K) = g[k] + SumFunctionOnSet(g, R)
  BY <1>1, SumWithout
<1>5. SumFunctionOnSet(f, R) \in Nat /\ SumFunctionOnSet(g, R) \in Nat /\ f[k] \in Nat
  BY <1>1, <1>3, SumOnType
<1>6. /\ SumFunctionOnSet(f, R) <= SumFunctionOnSet(g, R)
      /\ SumFunctionOnSet(g, R) <= SumFunctionOnSet(f, R)
  <2>1. \A x \in R : f[x] <= g[x] /\ g[x] <= f[x]
    BY <1>1
  <2> QED
    BY <1>1, <1>3, <2>1, SumMonotone
<1> HIDE DEF R
<1>7. SumFunctionOnSet(g, K) = SumFunctionOnSet(f, K) + 1
  BY <1>1, <1>4, <1>5, <1>6
<1> QED
  BY <1>2, <1>7 DEF SumFunction, g

\* A map that counts nothing has the sum zero.
LEMMA SumOfZeros ==
  ASSUME NEW K, IsFiniteSet(K)
  PROVE  SumFunction([k \in K |-> 0]) = 0
<1> DEFINE f == [k \in K |-> 0]
           Bad == {T \in SUBSET K : SumFunctionOnSet(f, T) # 0}
<1>1. SUFFICES ASSUME Bad # {} PROVE FALSE
  BY DEF SumFunction
<1>2. PICK T \in Bad : IsFiniteSet(T) /\ \A U \in SUBSET T : U # T => U \notin Bad
  <2>1. Bad \in SUBSET SUBSET K
    OBVIOUS
  <2> HIDE DEF Bad
  <2> QED
    BY <1>1, <2>1, SmallestSubset
<1>3. T # {}
  BY <1>2, SumOnNothing
<1>4. /\ SumFunctionOnSet(f, T) = f[First(T)] + SumFunctionOnSet(f, T \ {First(T)})
      /\ First(T) \in T /\ T \ {First(T)} \in SUBSET T /\ T \ {First(T)} # T
  BY <1>2, <1>3, SumEquation, FirstIn
<1>5. f[First(T)] = 0 /\ SumFunctionOnSet(f, T \ {First(T)}) = 0
  BY <1>2, <1>4
<1> QED
  BY <1>2, <1>4, <1>5

=============================================================================
