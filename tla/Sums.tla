-------------------------------- MODULE Sums --------------------------------
(***************************************************************************)
(* Facts about SumFunctionOnSet, the sum of the values of a function over  *)
(* a finite set, which Stock, Trade, Settlement and Journals use for       *)
(* quantities and balances. The operator is a fold, so each of them is by  *)
(* induction over the subsets of the set.                                  *)
(***************************************************************************)
EXTENDS Integers, Functions, FiniteSetTheorems, WellFoundedInduction, TLAPS

\* Induction, with the statement given as the set of subsets it holds of.
LEMMA SubsetInduction ==
    ASSUME NEW S, IsFiniteSet(S), NEW Q,
           \A T \in SUBSET S : (\A U \in SUBSET T : U # T => U \in Q) => T \in Q
    PROVE  \A T \in SUBSET S : T \in Q
<1> DEFINE Bad == {T \in SUBSET S : T \notin Q}
<1> SUFFICES ASSUME Bad # {} PROVE FALSE
    OBVIOUS
<1>1. Bad \subseteq SUBSET S
    OBVIOUS
<1>2. IsWellFoundedOn(StrictSubsetOrdering(S), SUBSET S)
    <2>1. IsWellFoundedOn(StrictSubsetOrdering(S), FiniteSubsetsOf(S))
        BY FS_StrictSubsetOrderingWellFounded
    <2>2. FiniteSubsetsOf(S) = SUBSET S
        BY FS_FiniteSubsetsOfFinite
    <2> QED
        BY <2>1, <2>2
<1>3. PICK T \in Bad : \A U \in Bad : ~(<<U, T>> \in StrictSubsetOrdering(S))
    <2> HIDE DEF Bad
    <2> QED
        BY <1>1, <1>2, WFMin
<1>4. \A U \in SUBSET T : U # T => U \in Q
    BY <1>3 DEF StrictSubsetOrdering
<1> QED
    BY <1>3, <1>4

-----------------------------------------------------------------------------
(* The fold is what its recursion says.                                    *)

AnyOf(T) == CHOOSE x \in T : TRUE
FoldBody(f, g, T) == IF T = {} THEN 0 ELSE f[AnyOf(T)] + g[T \ {AnyOf(T)}]
SumFold(f, S) == CHOOSE g : g = [T \in SUBSET S |-> FoldBody(f, g, T)]
IsSumFold(f, g, S) == \A T \in SUBSET S : g[T] = FoldBody(f, g, T)

\* The community module's operator is this fold.
LEMMA SumIsFold ==
    ASSUME NEW f, NEW S
    PROVE  SumFunctionOnSet(f, S) = SumFold(f, S)[S]
BY DEF SumFunctionOnSet, FoldFunctionOnSet, MapThenFoldSet, SumFold, FoldBody, AnyOf

\* The element taken out is one of the set.
LEMMA AnyOfIn ==
    ASSUME NEW T, T # {}
    PROVE  AnyOf(T) \in T
BY DEF AnyOf

\* Two functions with the recursion of the fold agree.
LEMMA FoldsAgree ==
    ASSUME NEW f, NEW g, NEW h, NEW S, IsFiniteSet(S), IsSumFold(f, g, S), IsSumFold(f, h, S)
    PROVE  g[S] = h[S]
<1> DEFINE Q == {T \in SUBSET S : g[T] = h[T]}
<1>1. ASSUME NEW T \in SUBSET S, \A U \in SUBSET T : U # T => U \in Q
      PROVE  T \in Q
    <2>1. CASE T = {}
        BY <2>1 DEF IsSumFold, FoldBody
    <2>2. CASE T # {}
        <3>1. T \ {AnyOf(T)} \in Q
            BY <1>1, <2>2, AnyOfIn
        <3> QED
            BY <2>2, <3>1 DEF IsSumFold, FoldBody
    <2> QED
        BY <2>1, <2>2
<1>2. S \in Q
    <2> HIDE DEF Q
    <2> QED
        BY <1>1, SubsetInduction
<1> QED
    BY <1>2

\* A function with the recursion of the fold exists: the one chosen.
LEMMA FoldExists ==
    ASSUME NEW f, NEW S, IsFiniteSet(S)
    PROVE  IsSumFold(f, SumFold(f, S), S)
<1> DEFINE Is(T) == SumFold(f, T) = [U \in SUBSET T |-> FoldBody(f, SumFold(f, T), U)]
           Q == {T \in SUBSET S : Is(T)}
<1>1. ASSUME NEW T \in SUBSET S, \A U \in SUBSET T : U # T => U \in Q
      PROVE  T \in Q
    <2> DEFINE h == [U \in SUBSET T |-> IF U = T THEN FoldBody(f, SumFold(f, T \ {AnyOf(T)}), T)
                                        ELSE SumFold(f, U)[U]]
    <2>1. ASSUME NEW U \in SUBSET T, U # T
          PROVE  IsSumFold(f, SumFold(f, U), U)
        <3>1. SumFold(f, U) = [V \in SUBSET U |-> FoldBody(f, SumFold(f, U), V)]
            BY <1>1, <2>1
        <3> HIDE DEF Q
        <3> DEFINE g == SumFold(f, U)
        <3> HIDE DEF g
        <3>2. g = [V \in SUBSET U |-> FoldBody(f, g, V)]
            BY <3>1 DEF g
        <3>3. \A V \in SUBSET U : g[V] = FoldBody(f, g, V)
            BY <3>2
        <3> QED
            BY <3>3 DEF g, IsSumFold
    <2>2. ASSUME NEW U \in SUBSET T
          PROVE  h[U] = FoldBody(f, h, U)
        <3>1. CASE U = {}
            <4>1. CASE U = T
                BY <3>1, <4>1 DEF FoldBody
            <4>2. CASE U # T
                BY <2>1, <3>1, <4>2 DEF IsSumFold, FoldBody
            <4> QED
                BY <4>1, <4>2
        <3>2. CASE U # {}
            <4> DEFINE W == U \ {AnyOf(U)}
            <4>1. W \in SUBSET T /\ W # T /\ W \in SUBSET U
                BY <3>2, AnyOfIn
            <4>2. h[W] = SumFold(f, W)[W]
                BY <4>1
            <4>3. CASE U = T
                BY <3>2, <4>2, <4>3 DEF FoldBody
            <4>4. CASE U # T
                <5>1. IsSumFold(f, SumFold(f, U), W) /\ IsSumFold(f, SumFold(f, W), W)
                    BY <2>1, <4>1, <4>4 DEF IsSumFold
                <5>2. IsFiniteSet(W)
                    BY FS_Subset
                <5>3. SumFold(f, U)[W] = SumFold(f, W)[W]
                    BY <5>1, <5>2, FoldsAgree
                <5>4. SumFold(f, U)[U] = f[AnyOf(U)] + SumFold(f, U)[W]
                    BY <2>1, <3>2, <4>4 DEF IsSumFold, FoldBody
                <5> QED
                    BY <3>2, <4>2, <4>4, <5>3, <5>4 DEF FoldBody
            <4> QED
                BY <4>3, <4>4
        <3> QED
            BY <3>1, <3>2
    <2>3. h = [U \in SUBSET T |-> FoldBody(f, h, U)]
        <3>1. h = [U \in SUBSET T |-> h[U]]
            OBVIOUS
        <3> HIDE DEF h
        <3> QED
            BY <2>2, <3>1
    <2>4. Is(T)
        <3> HIDE DEF h
        <3> QED
            BY <2>3 DEF SumFold
    <2> QED
        BY <2>4
<1>2. S \in Q
    <2> HIDE DEF Q
    <2> QED
        BY <1>1, SubsetInduction
<1>3. Is(S)
    BY <1>2
<1> DEFINE g == SumFold(f, S)
<1>4. g = [U \in SUBSET S |-> FoldBody(f, g, U)]
    BY <1>3
<1> HIDE DEF g
<1>5. \A U \in SUBSET S : g[U] = FoldBody(f, g, U)
    BY <1>4
<1> QED
    BY <1>5 DEF g, IsSumFold

\* Nothing sums to zero.
LEMMA SumEmpty ==
    ASSUME NEW f
    PROVE  SumFunctionOnSet(f, {}) = 0
BY SumIsFold, FoldExists, FS_EmptySet DEF IsSumFold, FoldBody

\* One element is taken out of a sum.
LEMMA SumStep ==
    ASSUME NEW f, NEW S, IsFiniteSet(S), S # {}
    PROVE  SumFunctionOnSet(f, S) = f[AnyOf(S)] + SumFunctionOnSet(f, S \ {AnyOf(S)})
<1> DEFINE W == S \ {AnyOf(S)}
<1>1. IsFiniteSet(W)
    BY FS_Subset
<1>2. IsSumFold(f, SumFold(f, S), W) /\ IsSumFold(f, SumFold(f, W), W)
    BY <1>1, FoldExists DEF IsSumFold
<1>3. SumFold(f, S)[W] = SumFold(f, W)[W]
    BY <1>1, <1>2, FoldsAgree
<1>4. SumFold(f, S)[S] = f[AnyOf(S)] + SumFold(f, S)[W]
    BY FoldExists DEF IsSumFold, FoldBody
<1> QED
    BY <1>3, <1>4, SumIsFold

-----------------------------------------------------------------------------
(* Sums.                                                                   *)

\* A sum depends on the values of its own set only.
LEMMA SumSame ==
    ASSUME NEW f, NEW g, NEW S, IsFiniteSet(S), \A x \in S : f[x] = g[x]
    PROVE  SumFunctionOnSet(f, S) = SumFunctionOnSet(g, S)
<1> DEFINE Q == {T \in SUBSET S : SumFunctionOnSet(f, T) = SumFunctionOnSet(g, T)}
<1>1. ASSUME NEW T \in SUBSET S, \A U \in SUBSET T : U # T => U \in Q
      PROVE  T \in Q
    <2>1. CASE T = {}
        BY <2>1, SumEmpty
    <2>2. CASE T # {}
        <3>1. AnyOf(T) \in T /\ IsFiniteSet(T)
            BY <2>2, AnyOfIn, FS_Subset
        <3>2. T \ {AnyOf(T)} \in Q
            BY <1>1, <3>1
        <3>3. f[AnyOf(T)] = g[AnyOf(T)]
            BY <3>1
        <3> QED
            BY <2>2, <3>1, <3>2, <3>3, SumStep
    <2> QED
        BY <2>1, <2>2
<1>2. S \in Q
    <2> HIDE DEF Q
    <2> QED
        BY <1>1, SubsetInduction
<1> QED
    BY <1>2

\* A sum of integers is an integer ...
LEMMA SumInt ==
    ASSUME NEW f, NEW S, IsFiniteSet(S), \A x \in S : f[x] \in Int
    PROVE  SumFunctionOnSet(f, S) \in Int
<1> DEFINE Q == {T \in SUBSET S : SumFunctionOnSet(f, T) \in Int}
<1>1. ASSUME NEW T \in SUBSET S, \A U \in SUBSET T : U # T => U \in Q
      PROVE  T \in Q
    <2>1. CASE T = {}
        BY <2>1, SumEmpty
    <2>2. CASE T # {}
        <3>1. AnyOf(T) \in T /\ IsFiniteSet(T)
            BY <2>2, AnyOfIn, FS_Subset
        <3>2. T \ {AnyOf(T)} \in Q
            BY <1>1, <3>1
        <3>3. f[AnyOf(T)] \in Int
            BY <3>1
        <3> QED
            BY <2>2, <3>1, <3>2, <3>3, SumStep
    <2> QED
        BY <2>1, <2>2
<1>2. S \in Q
    <2> HIDE DEF Q
    <2> QED
        BY <1>1, SubsetInduction
<1> QED
    BY <1>2

\* ... and of naturals a natural.
LEMMA SumNat ==
    ASSUME NEW f, NEW S, IsFiniteSet(S), \A x \in S : f[x] \in Nat
    PROVE  SumFunctionOnSet(f, S) \in Nat
<1> DEFINE Q == {T \in SUBSET S : SumFunctionOnSet(f, T) \in Nat}
<1>1. ASSUME NEW T \in SUBSET S, \A U \in SUBSET T : U # T => U \in Q
      PROVE  T \in Q
    <2>1. CASE T = {}
        BY <2>1, SumEmpty
    <2>2. CASE T # {}
        <3>1. AnyOf(T) \in T /\ IsFiniteSet(T)
            BY <2>2, AnyOfIn, FS_Subset
        <3>2. T \ {AnyOf(T)} \in Q
            BY <1>1, <3>1
        <3>3. f[AnyOf(T)] \in Nat
            BY <3>1
        <3> QED
            BY <2>2, <3>1, <3>2, <3>3, SumStep
    <2> QED
        BY <2>1, <2>2
<1>2. S \in Q
    <2> HIDE DEF Q
    <2> QED
        BY <1>1, SubsetInduction
<1> QED
    BY <1>2

\* Whichever element is taken out first.
LEMMA SumRemove ==
    ASSUME NEW f, NEW S, IsFiniteSet(S), \A x \in S : f[x] \in Int, NEW x \in S
    PROVE  SumFunctionOnSet(f, S) = f[x] + SumFunctionOnSet(f, S \ {x})
<1> DEFINE Sum(T) == SumFunctionOnSet(f, T)
           Q == {T \in SUBSET S : \A y \in T : Sum(T) = f[y] + Sum(T \ {y})}
<1>1. ASSUME NEW T \in SUBSET S, \A U \in SUBSET T : U # T => U \in Q, NEW y \in T
      PROVE  Sum(T) = f[y] + Sum(T \ {y})
    <2> DEFINE c == AnyOf(T)
    <2>1. c \in T /\ IsFiniteSet(T)
        BY AnyOfIn, FS_Subset
    <2> HIDE DEF c
    <2>2. Sum(T) = f[c] + Sum(T \ {c})
        BY <2>1, SumStep DEF c
    <2>3. CASE y # c
        <3>1. T \ {c} \in Q /\ T \ {y} \in Q
            BY <1>1, <2>1
        <3>2. Sum(T \ {c}) = f[y] + Sum((T \ {c}) \ {y})
            BY <2>3, <3>1
        <3>3. Sum(T \ {y}) = f[c] + Sum((T \ {y}) \ {c})
            BY <2>1, <2>3, <3>1
        <3>4. (T \ {c}) \ {y} = (T \ {y}) \ {c}
            OBVIOUS
        <3>5. f[c] \in Int /\ f[y] \in Int /\ Sum((T \ {c}) \ {y}) \in Int
            <4>1. IsFiniteSet((T \ {c}) \ {y})
                BY <2>1, FS_Subset
            <4> QED
                BY <2>1, <4>1, SumInt
        <3> DEFINE rest == Sum((T \ {c}) \ {y})
        <3>6. /\ Sum(T) = f[c] + (f[y] + rest)
              /\ Sum(T \ {y}) = f[c] + rest
            BY <2>2, <3>2, <3>3, <3>4
        <3>7. rest \in Int
            BY <3>5
        <3> HIDE DEF rest, Sum
        <3> QED
            BY <3>5, <3>6, <3>7
    <2> QED
        BY <2>2, <2>3
<1>2. S \in Q
    <2> HIDE DEF Sum
    <2>1. \A T \in SUBSET S : (\A U \in SUBSET T : U # T => U \in Q) => T \in Q
        BY <1>1
    <2> HIDE DEF Q
    <2> QED
        BY <2>1, SubsetInduction
<1> QED
    BY <1>2

\* An element joins the set.
LEMMA SumAdd ==
    ASSUME NEW f, NEW S, IsFiniteSet(S), NEW x, x \notin S, \A y \in S \cup {x} : f[y] \in Int
    PROVE  SumFunctionOnSet(f, S \cup {x}) = f[x] + SumFunctionOnSet(f, S)
<1>1. IsFiniteSet(S \cup {x}) /\ (S \cup {x}) \ {x} = S
    BY FS_AddElement
<1> QED
    BY <1>1, SumRemove

\* One value changes.
LEMMA SumChange ==
    ASSUME NEW f, NEW g, NEW S, IsFiniteSet(S), NEW x \in S,
           \A y \in S : f[y] \in Int /\ g[y] \in Int,
           \A y \in S : y # x => g[y] = f[y]
    PROVE  SumFunctionOnSet(g, S) = SumFunctionOnSet(f, S) + g[x] - f[x]
<1>1. IsFiniteSet(S \ {x})
    BY FS_Subset
<1>2. SumFunctionOnSet(g, S \ {x}) = SumFunctionOnSet(f, S \ {x})
    BY <1>1, SumSame
<1>3. SumFunctionOnSet(f, S \ {x}) \in Int
    BY <1>1, SumInt
<1> QED
    BY <1>2, <1>3, SumRemove

\* One value moves by a, if it is counted at all.
LEMMA SumShift ==
    ASSUME NEW f, NEW g, NEW S, IsFiniteSet(S), NEW x, NEW a \in Int,
           \A y \in S : f[y] \in Int /\ g[y] = IF y = x THEN f[y] + a ELSE f[y]
    PROVE  SumFunctionOnSet(g, S) = SumFunctionOnSet(f, S) + (IF x \in S THEN a ELSE 0)
<1> DEFINE new == SumFunctionOnSet(g, S)
           old == SumFunctionOnSet(f, S)
<1>1. old \in Int
    BY SumInt
<1>2. CASE x \in S
    <2>1. f[x] \in Int /\ g[x] = f[x] + a
        BY <1>2
    <2>2. new = old + g[x] - f[x]
        <3>1. /\ \A y \in S : f[y] \in Int /\ g[y] \in Int
              /\ \A y \in S : y # x => g[y] = f[y]
            OBVIOUS
        <3> QED
            BY <1>2, <3>1, SumChange
    <2> HIDE DEF new, old
    <2>3. new = old + a
        BY <1>1, <2>1, <2>2
    <2> QED
        BY <1>2, <2>3 DEF new, old
<1>3. CASE x \notin S
    <2>1. new = old
        <3>1. \A y \in S : f[y] = g[y]
            BY <1>3
        <3> QED
            BY <3>1, SumSame
    <2> HIDE DEF new, old
    <2>2. new = old + 0
        BY <1>1, <2>1
    <2> QED
        BY <1>3, <2>2 DEF new, old
<1> QED
    BY <1>2, <1>3

\* The sum of two functions.
LEMMA SumPlus ==
    ASSUME NEW f, NEW g, NEW h, NEW S, IsFiniteSet(S),
           \A x \in S : f[x] \in Int /\ g[x] \in Int /\ h[x] = f[x] + g[x]
    PROVE  SumFunctionOnSet(h, S) = SumFunctionOnSet(f, S) + SumFunctionOnSet(g, S)
<1> DEFINE Q == {T \in SUBSET S :
                  SumFunctionOnSet(h, T) = SumFunctionOnSet(f, T) + SumFunctionOnSet(g, T)}
<1>1. ASSUME NEW T \in SUBSET S, \A U \in SUBSET T : U # T => U \in Q
      PROVE  T \in Q
    <2>1. CASE T = {}
        BY <2>1, SumEmpty
    <2>2. CASE T # {}
        <3> DEFINE c == AnyOf(T)
        <3>1. c \in T /\ IsFiniteSet(T) /\ IsFiniteSet(T \ {c})
            BY <2>2, AnyOfIn, FS_Subset
        <3>2. T \ {c} \in Q
            BY <1>1, <3>1
        <3>3. /\ SumFunctionOnSet(f, T) = f[c] + SumFunctionOnSet(f, T \ {c})
              /\ SumFunctionOnSet(g, T) = g[c] + SumFunctionOnSet(g, T \ {c})
              /\ SumFunctionOnSet(h, T) = h[c] + SumFunctionOnSet(h, T \ {c})
            BY <2>2, <3>1, SumStep
        <3>4. SumFunctionOnSet(f, T \ {c}) \in Int /\ SumFunctionOnSet(g, T \ {c}) \in Int
            BY <3>1, SumInt
        <3> HIDE DEF c
        <3> QED
            BY <3>1, <3>2, <3>3, <3>4
    <2> QED
        BY <2>1, <2>2
<1>2. S \in Q
    <2> HIDE DEF Q
    <2> QED
        BY <1>1, SubsetInduction
<1> QED
    BY <1>2

\* Two disjoint sets.
LEMMA SumUnion ==
    ASSUME NEW f, NEW S, NEW T, IsFiniteSet(S), IsFiniteSet(T), S \cap T = {},
           \A x \in S \cup T : f[x] \in Int
    PROVE  SumFunctionOnSet(f, S \cup T) = SumFunctionOnSet(f, S) + SumFunctionOnSet(f, T)
<1> DEFINE b == SumFunctionOnSet(f, T)
           Q == {U \in SUBSET S : SumFunctionOnSet(f, U \cup T) = SumFunctionOnSet(f, U) + b}
<1>b. b \in Int
    BY SumInt
<1>1. ASSUME NEW U \in SUBSET S, \A V \in SUBSET U : V # U => V \in Q
      PROVE  U \in Q
    <2> DEFINE a == SumFunctionOnSet(f, U)
               w == SumFunctionOnSet(f, U \cup T)
    <2>1. CASE U = {}
        <3>1. U \cup T = T
            BY <2>1
        <3>2. w = b
            BY <3>1
        <3>3. a = 0
            BY <2>1, SumEmpty
        <3> HIDE DEF a, b, w
        <3> QED
            BY <3>2, <3>3, <1>b DEF a, w
    <2>2. CASE U # {}
        <3> DEFINE c == AnyOf(U)
                   rest == SumFunctionOnSet(f, U \ {c})
        <3>1. c \in U /\ IsFiniteSet(U) /\ IsFiniteSet(U \ {c}) /\ IsFiniteSet(U \cup T)
            BY <2>2, AnyOfIn, FS_Subset, FS_Union
        <3> HIDE DEF c
        <3>2. U \ {c} \in Q
            BY <1>1, <3>1
        <3>3. (U \cup T) \ {c} = (U \ {c}) \cup T
            BY <3>1
        <3>4. /\ a = f[c] + rest
              /\ SumFunctionOnSet(f, U \cup T) = f[c] + SumFunctionOnSet(f, (U \cup T) \ {c})
            BY <3>1, SumRemove
        <3>5. rest \in Int /\ f[c] \in Int
            BY <3>1, SumInt
        <3>6. SumFunctionOnSet(f, (U \ {c}) \cup T) = rest + b
            BY <3>2
        <3>7. w = f[c] + (rest + b)
            BY <3>3, <3>4, <3>6
        <3> HIDE DEF a, b, w, rest
        <3>8. w = a + b
            BY <1>b, <3>4, <3>5, <3>7
        <3> QED
            BY <3>8 DEF a, w
    <2> QED
        BY <2>1, <2>2
<1>2. S \in Q
    <2> HIDE DEF Q
    <2> QED
        BY <1>1, SubsetInduction
<1> QED
    BY <1>2

\* Elements of value zero do not count.
LEMMA SumZero ==
    ASSUME NEW f, NEW S, IsFiniteSet(S), \A x \in S : f[x] = 0
    PROVE  SumFunctionOnSet(f, S) = 0
<1> DEFINE Q == {T \in SUBSET S : SumFunctionOnSet(f, T) = 0}
<1>1. ASSUME NEW T \in SUBSET S, \A U \in SUBSET T : U # T => U \in Q
      PROVE  T \in Q
    <2>1. CASE T = {}
        BY <2>1, SumEmpty
    <2>2. CASE T # {}
        <3>1. AnyOf(T) \in T /\ IsFiniteSet(T)
            BY <2>2, AnyOfIn, FS_Subset
        <3>2. T \ {AnyOf(T)} \in Q
            BY <1>1, <3>1
        <3> QED
            BY <2>2, <3>1, <3>2, SumStep
    <2> QED
        BY <2>1, <2>2
<1>2. S \in Q
    <2> HIDE DEF Q
    <2> QED
        BY <1>1, SubsetInduction
<1> QED
    BY <1>2

LEMMA SumSupport ==
    ASSUME NEW f, NEW S, NEW T, IsFiniteSet(S), IsFiniteSet(T),
           \A x \in S \cup T : f[x] \in Int,
           \A x \in S \ T : f[x] = 0, \A x \in T \ S : f[x] = 0
    PROVE  SumFunctionOnSet(f, S) = SumFunctionOnSet(f, T)
<1> DEFINE B == S \cap T
<1>1. ASSUME NEW U, IsFiniteSet(U), B \subseteq U, \A x \in U : f[x] \in Int,
             \A x \in U \ B : f[x] = 0
      PROVE  SumFunctionOnSet(f, U) = SumFunctionOnSet(f, B)
    <2> DEFINE rest == SumFunctionOnSet(f, U \ B)
               b == SumFunctionOnSet(f, B)
    <2>1. IsFiniteSet(B) /\ IsFiniteSet(U \ B)
        BY <1>1, FS_Subset
    <2>2. rest = 0
        BY <1>1, <2>1, SumZero
    <2>3. b \in Int
        BY <1>1, <2>1, SumInt
    <2>4. U = B \cup (U \ B) /\ B \cap (U \ B) = {}
        BY <1>1
    <2>5. SumFunctionOnSet(f, B \cup (U \ B)) = b + rest
        <3>1. \A x \in B \cup (U \ B) : f[x] \in Int
            BY <1>1
        <3> HIDE DEF B
        <3> QED
            BY <2>1, <2>4, <3>1, SumUnion
    <2>6. SumFunctionOnSet(f, U) = b + rest
        BY <2>4, <2>5
    <2> HIDE DEF rest, b
    <2>7. SumFunctionOnSet(f, U) = b
        BY <2>2, <2>3, <2>6
    <2> QED
        BY <2>7 DEF b
<1>2. SumFunctionOnSet(f, S) = SumFunctionOnSet(f, B)
    BY <1>1
<1>3. SumFunctionOnSet(f, T) = SumFunctionOnSet(f, B)
    BY <1>1
<1> QED
    BY <1>2, <1>3

\* A sum taken class by class: class[i] holds the elements whose pick is i.
LEMMA SumByClass ==
    ASSUME NEW I, IsFiniteSet(I), NEW L, IsFiniteSet(L), NEW pick, NEW q,
           \A l \in L : q[l] \in Int,
           NEW class, \A i \in I : \A l : l \in class[i] <=> l \in L /\ pick[l] = i,
           NEW share, \A i \in I : share[i] = SumFunctionOnSet(q, class[i])
    PROVE  SumFunctionOnSet(share, I) = SumFunctionOnSet(q, {l \in L : pick[l] \in I})
<1> DEFINE Of(J) == {l \in L : pick[l] \in J}
           Q == {J \in SUBSET I : SumFunctionOnSet(share, J) = SumFunctionOnSet(q, Of(J))}
<1>1. ASSUME NEW J \in SUBSET I, \A U \in SUBSET J : U # J => U \in Q
      PROVE  J \in Q
    <2>1. CASE J = {}
        <3>1. Of(J) = {}
            BY <2>1
        <3> QED
            BY <2>1, <3>1, SumEmpty
    <2>2. CASE J # {}
        <3> DEFINE c == AnyOf(J)
                   One == class[c]
                   Rest == Of(J \ {c})
        <3>1. c \in J /\ IsFiniteSet(J)
            BY <2>2, AnyOfIn, FS_Subset
        <3>2. J \ {c} \in Q
            BY <1>1, <3>1
        <3>3. SumFunctionOnSet(share, J) = share[c] + SumFunctionOnSet(share, J \ {c})
            BY <2>2, <3>1, SumStep
        <3> HIDE DEF c
        <3>0. \A l : l \in One <=> l \in L /\ pick[l] = c
            BY <3>1
        <3> HIDE DEF One
        <3>4. /\ Of(J) = One \cup Rest /\ One \cap Rest = {}
              /\ One \subseteq L /\ Rest \subseteq L
            BY <3>0, <3>1
        <3>5. share[c] = SumFunctionOnSet(q, One)
            BY <3>1 DEF One
        <3>6. SumFunctionOnSet(share, J \ {c}) = SumFunctionOnSet(q, Rest)
            BY <3>2
        <3> HIDE DEF Rest
        <3>7. IsFiniteSet(One) /\ IsFiniteSet(Rest)
            BY <3>4, FS_Subset
        <3>8. \A l \in One \cup Rest : q[l] \in Int
            BY <3>4
        <3>9. SumFunctionOnSet(q, One \cup Rest)
                = SumFunctionOnSet(q, One) + SumFunctionOnSet(q, Rest)
            BY <3>4, <3>7, <3>8, SumUnion
        <3>10. SumFunctionOnSet(share, J) = SumFunctionOnSet(q, Of(J))
            BY <3>3, <3>4, <3>5, <3>6, <3>9
        <3> QED
            BY <3>10
    <2> QED
        BY <2>1, <2>2
<1>2. I \in Q
    <2> HIDE DEF Q
    <2> QED
        BY <1>1, SubsetInduction
<1> QED
    BY <1>2

\* A sum over pairs with one second component.
LEMMA SumOverPairs ==
    ASSUME NEW S, IsFiniteSet(S), NEW p, NEW q, NEW f,
           \A x \in S : f[x] \in Int /\ q[<<x, p>>] = f[x]
    PROVE  SumFunctionOnSet(q, S \X {p}) = SumFunctionOnSet(f, S)
<1> DEFINE Q == {T \in SUBSET S : SumFunctionOnSet(q, T \X {p}) = SumFunctionOnSet(f, T)}
<1>1. ASSUME NEW T \in SUBSET S, \A U \in SUBSET T : U # T => U \in Q
      PROVE  T \in Q
    <2>1. CASE T = {}
        <3>1. T \X {p} = {}
            BY <2>1
        <3> QED
            BY <2>1, <3>1, SumEmpty
    <2>2. CASE T # {}
        <3> DEFINE c == AnyOf(T)
                   D == T \X {p}
        <3>1. c \in T /\ IsFiniteSet(T)
            BY <2>2, AnyOfIn, FS_Subset
        <3>2. T \ {c} \in Q
            BY <1>1, <3>1
        <3>3. SumFunctionOnSet(f, T) = f[c] + SumFunctionOnSet(f, T \ {c})
            BY <2>2, <3>1, SumStep
        <3> HIDE DEF c
        <3>4. D \ {<<c, p>>} = (T \ {c}) \X {p} /\ <<c, p>> \in D
            BY <3>1
        <3>5. \A l \in D : q[l] \in Int
            OBVIOUS
        <3>6. IsFiniteSet(D)
            <4>1. IsFiniteSet({p})
                BY FS_Singleton
            <4> QED
                BY <3>1, <4>1, FS_Product
        <3> HIDE DEF D
        <3>7. SumFunctionOnSet(q, D) = q[<<c, p>>] + SumFunctionOnSet(q, D \ {<<c, p>>})
            BY <3>4, <3>5, <3>6, SumRemove
        <3>8. q[<<c, p>>] = f[c]
            BY <3>1
        <3>9. SumFunctionOnSet(q, D) = SumFunctionOnSet(f, T)
            BY <3>2, <3>3, <3>4, <3>7, <3>8
        <3> QED
            BY <3>9 DEF D
    <2> QED
        BY <2>1, <2>2
<1>2. S \in Q
    <2> HIDE DEF Q
    <2> QED
        BY <1>1, SubsetInduction
<1> QED
    BY <1>2

\* Sums of values that are within a of each other.
LEMMA SumsNear ==
    ASSUME NEW f, NEW g, NEW S, IsFiniteSet(S), NEW a \in Nat,
           \A x \in S : /\ f[x] \in Int /\ g[x] \in Int
                        /\ f[x] - g[x] <= a /\ g[x] - f[x] <= a
    PROVE  SumFunctionOnSet(f, S) - SumFunctionOnSet(g, S)
             \in -(a * Cardinality(S)) .. (a * Cardinality(S))
<1> DEFINE gap(T) == SumFunctionOnSet(f, T) - SumFunctionOnSet(g, T)
           most(T) == a * Cardinality(T)
           Q == {T \in SUBSET S : gap(T) \in -most(T) .. most(T)}
<1>1. ASSUME NEW T \in SUBSET S, \A U \in SUBSET T : U # T => U \in Q
      PROVE  T \in Q
    <2>1. CASE T = {}
        <3>1. Cardinality(T) = 0
            BY <2>1, FS_EmptySet
        <3>2. gap(T) = 0
            BY <2>1, SumEmpty
        <3> QED
            BY <3>1, <3>2
    <2>2. CASE T # {}
        <3> DEFINE c == AnyOf(T)
                   W == T \ {c}
        <3>1. c \in T /\ IsFiniteSet(T)
            BY <2>2, AnyOfIn, FS_Subset
        <3>2. W \in Q
            BY <1>1, <3>1
        <3>3. /\ SumFunctionOnSet(f, T) = f[c] + SumFunctionOnSet(f, W)
              /\ SumFunctionOnSet(g, T) = g[c] + SumFunctionOnSet(g, W)
            BY <2>2, <3>1, SumStep
        <3>4. /\ SumFunctionOnSet(f, W) \in Int /\ SumFunctionOnSet(g, W) \in Int
              /\ f[c] \in Int /\ g[c] \in Int /\ f[c] - g[c] <= a /\ g[c] - f[c] <= a
            <4>1. IsFiniteSet(W) /\ \A x \in W : f[x] \in Int /\ g[x] \in Int
                BY <3>1, FS_Subset
            <4> QED
                BY <3>1, <4>1, SumInt
        <3> HIDE DEF c
        <3>5. PICK k \in Nat : k = Cardinality(W) /\ Cardinality(T) = k + 1
            <4>1. Cardinality(T) \in Nat
                BY <3>1, FS_CardinalityType
            <4>2. IsFiniteSet(W) /\ Cardinality(W) = Cardinality(T) - 1
                BY <3>1, FS_RemoveElement
            <4>3. Cardinality(W) \in Nat
                BY <4>2, FS_CardinalityType
            <4> QED
                BY <4>1, <4>2, <4>3
        <3>6. PICK m \in Int : m = a * k /\ a * (k + 1) = m + a
            OBVIOUS
        <3>7. gap(W) \in -m .. m
            BY <3>2, <3>5, <3>6
        <3>8. gap(T) = (f[c] - g[c]) + gap(W)
            BY <3>3, <3>4
        <3>9. gap(W) \in Int
            BY <3>4
        <3> HIDE DEF W, gap
        <3>10. gap(T) \in -(m + a) .. (m + a)
            BY <3>4, <3>7, <3>8, <3>9
        <3> QED
            BY <3>5, <3>6, <3>10
    <2> QED
        BY <2>1, <2>2
<1>2. S \in Q
    <2> HIDE DEF Q
    <2> QED
        BY <1>1, SubsetInduction
<1> QED
    BY <1>2
=============================================================================
