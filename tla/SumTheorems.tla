----------------------------- MODULE SumTheorems -----------------------------
(***************************************************************************)
(* What the proofs need to know of sums over finite sets: the totals of    *)
(* the limiter, the context of the requests in flight and the usage of a   *)
(* fusion workflow are all SumFunctionOnSet(f, S).                         *)
(*                                                                         *)
(* The library defines a sum by a recursive function on the subsets of S.  *)
(* Each fact is proved from a smallest counterexample (SmallestSet), which *)
(* needs no induction rule with an operator parameter.  So is the fact     *)
(* that a finite set has a least element.                                  *)
(***************************************************************************)
EXTENDS Integers, FiniteSets, Functions, FiniteSetTheorems, WellFoundedInduction, TLAPS

\* A non-empty collection of subsets of a finite set has a smallest member.
LEMMA SmallestSet ==
    ASSUME NEW U, IsFiniteSet(U), NEW T \in SUBSET (SUBSET U), T # {}
    PROVE  \E s \in T : \A t \in T : t \subseteq s => t = s
<1>1. T \subseteq FiniteSubsetsOf(U)
  BY FS_Subset DEF FiniteSubsetsOf
<1>2. PICK s \in T : \A t \in T : ~ (<<t, s>> \in StrictSubsetOrdering(U))
  BY <1>1, FS_StrictSubsetOrderingWellFounded, WFMin
<1>3. QED
  BY <1>2 DEF StrictSubsetOrdering

\* The element a sum takes first, and the equation that defines the sum.
FirstTaken(s) == CHOOSE x \in s : TRUE
Equation(g, f, s) == g[s] = IF s = {} THEN 0 ELSE f[FirstTaken(s)] + g[s \ {FirstTaken(s)}]
IsSum(g, f, U) == g = [s \in SUBSET U |-> IF s = {} THEN 0 ELSE f[FirstTaken(s)] + g[s \ {FirstTaken(s)}]]

LEMMA FirstTakenIn == ASSUME NEW s, s # {} PROVE FirstTaken(s) \in s
  BY DEF FirstTaken

LEMMA SumDef ==
    ASSUME NEW f, NEW U
    PROVE  SumFunctionOnSet(f, U) = (CHOOSE g : IsSum(g, f, U))[U]
  BY DEF SumFunctionOnSet, FoldFunctionOnSet, MapThenFoldSet, IsSum, FirstTaken

\* The equation has at most one solution.
LEMMA SumUnique ==
    ASSUME NEW f, NEW U, IsFiniteSet(U), NEW g, NEW h, IsSum(g, f, U), IsSum(h, f, U)
    PROVE  g = h
<1> DEFINE T == {s \in SUBSET U : g[s] # h[s]}
<1>0. \A s \in SUBSET U : Equation(g, f, s) /\ Equation(h, f, s)
  BY DEF IsSum, Equation
<1>1. SUFFICES ASSUME T # {} PROVE FALSE
  <2>1. DOMAIN g = SUBSET U /\ DOMAIN h = SUBSET U
    BY DEF IsSum
  <2>2. g = [s \in SUBSET U |-> g[s]] /\ h = [s \in SUBSET U |-> h[s]]
    BY DEF IsSum
  <2>3. QED
    BY <2>1, <2>2
<1>2. PICK s \in T : \A t \in T : t \subseteq s => t = s
  <2>1. T \in SUBSET (SUBSET U)
    OBVIOUS
  <2> HIDE DEF T
  <2>2. QED
    BY <1>1, <2>1, SmallestSet
<1>3. s # {}
  BY <1>0, <1>2 DEF Equation
<1>4. FirstTaken(s) \in s /\ s \ {FirstTaken(s)} \in SUBSET U
  BY <1>3, FirstTakenIn
<1>5. g[s \ {FirstTaken(s)}] = h[s \ {FirstTaken(s)}]
  BY <1>2, <1>4
<1>6. QED
  BY <1>0, <1>2, <1>3, <1>5 DEF Equation

\* It has a solution, which gives the sums over all subsets.
LEMMA SumExists ==
    ASSUME NEW f, NEW U, IsFiniteSet(U)
    PROVE  IsSum([s \in SUBSET U |-> SumFunctionOnSet(f, s)], f, U)
<1> DEFINE Sums(V) == [s \in SUBSET V |-> SumFunctionOnSet(f, s)]
           T == {V \in SUBSET U : ~ IsSum(Sums(V), f, V)}
<1>1. SUFFICES ASSUME T # {} PROVE FALSE
  OBVIOUS
<1>2. PICK V \in T : \A t \in T : t \subseteq V => t = V
  <2>1. T \in SUBSET (SUBSET U)
    OBVIOUS
  <2> HIDE DEF T
  <2>2. QED
    BY <1>1, <2>1, SmallestSet
<1>3. \A s \in SUBSET V : s # V => IsSum(Sums(s), f, s)
  BY <1>2
<1> DEFINE c == FirstTaken(V)
           top == IF V = {} THEN 0 ELSE f[c] + SumFunctionOnSet(f, V \ {c})
           g == [s \in SUBSET V |-> IF s = V THEN top ELSE SumFunctionOnSet(f, s)]
<1>4. \A s \in SUBSET V : s # V => Equation(g, f, s)
  <2> SUFFICES ASSUME NEW s \in SUBSET V, s # V PROVE Equation(g, f, s)
    OBVIOUS
  <2>1. IsSum(Sums(s), f, s)
    BY <1>3
  <2>2. Equation(Sums(s), f, s)
    BY <2>1 DEF IsSum, Equation
  <2>3. g[s] = Sums(s)[s]
    OBVIOUS
  <2>4. CASE s = {}
    BY <2>2, <2>3, <2>4 DEF Equation
  <2>5. CASE s # {}
    <3>1. FirstTaken(s) \in s
      BY <2>5, FirstTakenIn
    <3>2. g[s \ {FirstTaken(s)}] = Sums(s)[s \ {FirstTaken(s)}]
      BY <3>1
    <3>3. QED
      BY <2>2, <2>3, <2>5, <3>2 DEF Equation
  <2>6. QED
    BY <2>4, <2>5
<1>5. Equation(g, f, V)
  <2>1. CASE V = {}
    BY <2>1 DEF Equation
  <2>2. CASE V # {}
    <3>1. c \in V /\ V \ {c} # V /\ V \ {c} \in SUBSET V
      BY <2>2, FirstTakenIn
    <3>2. g[V \ {c}] = SumFunctionOnSet(f, V \ {c})
      BY <3>1
    <3>3. QED
      BY <2>2, <3>2 DEF Equation
  <2>3. QED
    BY <2>1, <2>2
<1>6. IsSum(g, f, V)
  <2>1. \A s \in SUBSET V : Equation(g, f, s)
    BY <1>4, <1>5
  <2>2. g = [s \in SUBSET V |-> g[s]]
    OBVIOUS
  <2> HIDE DEF g
  <2>3. QED
    BY <2>1, <2>2 DEF IsSum, Equation
<1>7. SumFunctionOnSet(f, V) = top
  <2> DEFINE h == CHOOSE h : IsSum(h, f, V)
  <2>1. IsSum(h, f, V)
    BY <1>6
  <2>2. IsFiniteSet(V)
    BY FS_Subset
  <2>3. h = g
    <3> HIDE DEF h, g
    <3> QED
      BY <1>6, <2>1, <2>2, SumUnique
  <2>4. g[V] = top
    OBVIOUS
  <2>5. QED
    BY <2>3, <2>4, SumDef
<1>8. g = Sums(V)
  BY <1>7
<1>9. QED
  BY <1>2, <1>6, <1>8

\* The sum over a set by its definition.
LEMMA SumStep ==
    ASSUME NEW f, NEW S, IsFiniteSet(S)
    PROVE  SumFunctionOnSet(f, S) =
              IF S = {} THEN 0 ELSE f[FirstTaken(S)] + SumFunctionOnSet(f, S \ {FirstTaken(S)})
<1> DEFINE g == [s \in SUBSET S |-> SumFunctionOnSet(f, s)]
<1>1. Equation(g, f, S)
  <2>1. IsSum(g, f, S)
    BY SumExists
  <2> HIDE DEF g
  <2>2. QED
    BY <2>1 DEF IsSum, Equation
<1>2. QED
  BY <1>1 DEF Equation

\* Nothing sums up to zero.
LEMMA SumEmpty == ASSUME NEW f PROVE SumFunctionOnSet(f, {}) = 0
  BY SumStep, FS_EmptySet

\* A sum depends on the values in the set only.
LEMMA SumAgree ==
    ASSUME NEW f, NEW h, NEW S, IsFiniteSet(S), \A x \in S : f[x] = h[x]
    PROVE  SumFunctionOnSet(f, S) = SumFunctionOnSet(h, S)
<1> DEFINE T == {s \in SUBSET S : SumFunctionOnSet(f, s) # SumFunctionOnSet(h, s)}
<1>1. SUFFICES ASSUME T # {} PROVE FALSE
  OBVIOUS
<1>2. PICK s \in T : \A t \in T : t \subseteq s => t = s
  <2>1. T \in SUBSET (SUBSET S)
    OBVIOUS
  <2> HIDE DEF T
  <2>2. QED
    BY <1>1, <2>1, SmallestSet
<1>3. IsFiniteSet(s)
  BY FS_Subset
<1>4. s # {}
  BY <1>2, SumEmpty
<1>5. FirstTaken(s) \in s
  BY <1>4, FirstTakenIn
<1>6. SumFunctionOnSet(f, s \ {FirstTaken(s)}) = SumFunctionOnSet(h, s \ {FirstTaken(s)})
  BY <1>2, <1>5
<1>7. QED
  BY <1>2, <1>3, <1>4, <1>5, <1>6, SumStep

\* A sum of integers is one.
LEMMA SumInt ==
    ASSUME NEW f, NEW S, IsFiniteSet(S), \A x \in S : f[x] \in Int
    PROVE  SumFunctionOnSet(f, S) \in Int
<1> DEFINE T == {s \in SUBSET S : SumFunctionOnSet(f, s) \notin Int}
<1>1. SUFFICES ASSUME T # {} PROVE FALSE
  OBVIOUS
<1>2. PICK s \in T : \A t \in T : t \subseteq s => t = s
  <2>1. T \in SUBSET (SUBSET S)
    OBVIOUS
  <2> HIDE DEF T
  <2>2. QED
    BY <1>1, <2>1, SmallestSet
<1>3. IsFiniteSet(s)
  BY FS_Subset
<1>4. s # {}
  <2>1. SumFunctionOnSet(f, {}) \in Int
    BY SumEmpty
  <2>2. QED
    BY <2>1
<1>5. FirstTaken(s) \in s
  BY <1>4, FirstTakenIn
<1>6. SumFunctionOnSet(f, s \ {FirstTaken(s)}) \in Int
  BY <1>2, <1>5
<1>7. SumFunctionOnSet(f, s) = f[FirstTaken(s)] + SumFunctionOnSet(f, s \ {FirstTaken(s)})
  BY <1>3, <1>4, SumStep
<1>8. f[FirstTaken(s)] \in Int
  BY <1>5
<1>9. QED
  BY <1>2, <1>6, <1>7, <1>8

\* Any element may be taken first.
LEMMA SumRemove ==
    ASSUME NEW f, NEW S, IsFiniteSet(S), \A x \in S : f[x] \in Int, NEW y \in S
    PROVE  SumFunctionOnSet(f, S) = f[y] + SumFunctionOnSet(f, S \ {y})
<1> DEFINE Sum(s) == SumFunctionOnSet(f, s)
           T == {s \in SUBSET S : \E x \in s : Sum(s) # f[x] + Sum(s \ {x})}
<1>1. SUFFICES ASSUME T # {} PROVE FALSE
  OBVIOUS
<1>2. PICK s \in T : \A t \in T : t \subseteq s => t = s
  <2>1. T \in SUBSET (SUBSET S)
    OBVIOUS
  <2> HIDE DEF T
  <2>2. QED
    BY <1>1, <2>1, SmallestSet
<1>3. PICK x \in s : Sum(s) # f[x] + Sum(s \ {x})
  BY <1>2
<1> DEFINE c == FirstTaken(s)
<1>4. IsFiniteSet(s) /\ c \in s
  BY <1>3, FS_Subset, FirstTakenIn
<1>5. Sum(s) = f[c] + Sum(s \ {c})
  BY <1>3, <1>4, SumStep
<1>6. c # x
  BY <1>3, <1>5
<1>7. s \ {c} \notin T /\ s \ {x} \notin T /\ x \in s \ {c} /\ c \in s \ {x}
  BY <1>2, <1>3, <1>4, <1>6
<1>8. Sum(s \ {c}) = f[x] + Sum((s \ {c}) \ {x})
  BY <1>7
<1>9. Sum(s \ {x}) = f[c] + Sum((s \ {x}) \ {c})
  BY <1>7
<1>10. (s \ {c}) \ {x} = (s \ {x}) \ {c}
  OBVIOUS
<1>11. f[x] \in Int /\ f[c] \in Int /\ Sum((s \ {c}) \ {x}) \in Int
  <2>1. IsFiniteSet((s \ {c}) \ {x})
    BY <1>4, FS_Subset
  <2>2. QED
    BY <1>3, <1>4, <2>1, SumInt
<1> HIDE DEF Sum, c
<1>12. QED
  BY <1>3, <1>5, <1>8, <1>9, <1>10, <1>11

\* The sum over a set with one more element.
LEMMA SumAdd ==
    ASSUME NEW f, NEW S, IsFiniteSet(S), NEW y, y \notin S, \A x \in S \cup {y} : f[x] \in Int
    PROVE  SumFunctionOnSet(f, S \cup {y}) = f[y] + SumFunctionOnSet(f, S)
<1>1. IsFiniteSet(S \cup {y}) /\ (S \cup {y}) \ {y} = S
  BY FS_AddElement
<1>2. SumFunctionOnSet(f, S \cup {y}) = f[y] + SumFunctionOnSet(f, (S \cup {y}) \ {y})
  BY <1>1, SumRemove
<1>3. QED
  BY <1>1, <1>2

\* A function that differs in one place.
LEMMA SumChange ==
    ASSUME NEW f, NEW h, NEW S, IsFiniteSet(S), \A x \in S : f[x] \in Int /\ h[x] \in Int,
           NEW y \in S, \A x \in S : x # y => h[x] = f[x]
    PROVE  SumFunctionOnSet(h, S) = SumFunctionOnSet(f, S) + (h[y] - f[y])
<1>1. IsFiniteSet(S \ {y})
  BY FS_Subset
<1>2. SumFunctionOnSet(h, S \ {y}) = SumFunctionOnSet(f, S \ {y})
  BY <1>1, SumAgree
<1>3. SumFunctionOnSet(f, S \ {y}) \in Int
  BY <1>1, SumInt
<1>4. /\ SumFunctionOnSet(h, S) = h[y] + SumFunctionOnSet(h, S \ {y})
      /\ SumFunctionOnSet(f, S) = f[y] + SumFunctionOnSet(f, S \ {y})
  BY SumRemove
<1>5. QED
  BY <1>2, <1>3, <1>4

\* A sum of naturals is one, and grows with the set.
LEMMA SumNat ==
    ASSUME NEW f, NEW S, IsFiniteSet(S), \A x \in S : f[x] \in Nat
    PROVE  /\ SumFunctionOnSet(f, S) \in Nat
           /\ \A R \in SUBSET S : /\ SumFunctionOnSet(f, R) \in Nat
                                  /\ SumFunctionOnSet(f, R) <= SumFunctionOnSet(f, S)
<1> DEFINE Sum(s) == SumFunctionOnSet(f, s)
           Good(s) == \A R \in SUBSET s : Sum(R) \in Nat /\ Sum(R) <= Sum(s)
           T == {s \in SUBSET S : ~ Good(s)}
<1>0. SUFFICES ASSUME T # {} PROVE FALSE
  OBVIOUS
<1>2. PICK s \in T : \A t \in T : t \subseteq s => t = s
  <2>1. T \in SUBSET (SUBSET S)
    OBVIOUS
  <2> HIDE DEF T
  <2>2. QED
    BY <1>0, <2>1, SmallestSet
<1>3. PICK R \in SUBSET s : ~ (Sum(R) \in Nat /\ Sum(R) <= Sum(s))
  BY <1>2
<1>4. IsFiniteSet(s) /\ \A x \in s : f[x] \in Int /\ f[x] \in Nat
  BY FS_Subset
<1>5. CASE s = {}
  BY <1>3, <1>5, SumEmpty
<1>6. CASE R # s
  <2>1. PICK x \in s : x \notin R
    BY <1>6
  <2>2. Good(s \ {x})
    BY <1>2, <2>1
  <2>3. Sum(s) = f[x] + Sum(s \ {x})
    BY <1>4, <2>1, SumRemove
  <2>4. Sum(R) \in Nat /\ Sum(R) <= Sum(s \ {x}) /\ Sum(s \ {x}) \in Nat
    BY <2>1, <2>2
  <2>5. f[x] \in Nat
    BY <1>4
  <2> HIDE DEF Sum
  <2>6. QED
    BY <1>3, <2>3, <2>4, <2>5
<1>7. CASE R = s /\ s # {}
  <2>1. PICK x \in s : TRUE
    BY <1>7
  <2>2. Good(s \ {x})
    BY <1>2, <2>1
  <2>3. Sum(s) = f[x] + Sum(s \ {x})
    BY <1>4, <2>1, SumRemove
  <2>4. Sum(s \ {x}) \in Nat
    BY <2>2
  <2>5. f[x] \in Nat
    BY <1>4
  <2> HIDE DEF Sum
  <2>6. QED
    BY <1>3, <1>7, <2>3, <2>4, <2>5
<1>8. QED
  BY <1>5, <1>6, <1>7

\* Zeros sum up to zero.
LEMMA SumZero ==
    ASSUME NEW f, NEW S, IsFiniteSet(S), \A x \in S : f[x] = 0
    PROVE  SumFunctionOnSet(f, S) = 0
<1> DEFINE T == {s \in SUBSET S : SumFunctionOnSet(f, s) # 0}
<1>1. SUFFICES ASSUME T # {} PROVE FALSE
  OBVIOUS
<1>2. PICK s \in T : \A t \in T : t \subseteq s => t = s
  <2>1. T \in SUBSET (SUBSET S)
    OBVIOUS
  <2> HIDE DEF T
  <2> QED
    BY <1>1, <2>1, SmallestSet
<1>3. IsFiniteSet(s) /\ s # {}
  BY FS_Subset, SumEmpty
<1>4. PICK x \in s : TRUE
  BY <1>3
<1>5. SumFunctionOnSet(f, s) = f[x] + SumFunctionOnSet(f, s \ {x})
  BY <1>3, SumRemove
<1>6. SumFunctionOnSet(f, s \ {x}) = 0
  BY <1>2
<1> QED
  BY <1>5, <1>6

\* A function that is nowhere larger has no larger sum.
LEMMA SumLeq ==
    ASSUME NEW f, NEW h, NEW S, IsFiniteSet(S),
           \A x \in S : f[x] \in Int /\ h[x] \in Int /\ f[x] <= h[x]
    PROVE  SumFunctionOnSet(f, S) <= SumFunctionOnSet(h, S)
<1> DEFINE T == {s \in SUBSET S : ~(SumFunctionOnSet(f, s) <= SumFunctionOnSet(h, s))}
<1>1. SUFFICES ASSUME T # {} PROVE FALSE
  OBVIOUS
<1>2. PICK s \in T : \A t \in T : t \subseteq s => t = s
  <2>1. T \in SUBSET (SUBSET S)
    OBVIOUS
  <2> HIDE DEF T
  <2> QED
    BY <1>1, <2>1, SmallestSet
<1>3. IsFiniteSet(s) /\ s # {}
  <2>1. SumFunctionOnSet(f, {}) <= SumFunctionOnSet(h, {})
    <3>1. SumFunctionOnSet(f, {}) = 0 /\ SumFunctionOnSet(h, {}) = 0
      BY SumEmpty
    <3> QED
      BY <3>1
  <2>2. s # {}
    BY <2>1
  <2>3. IsFiniteSet(s)
    BY FS_Subset
  <2> QED
    BY <2>2, <2>3
<1>4. PICK x \in s : TRUE
  BY <1>3
<1>5. /\ SumFunctionOnSet(f, s) = f[x] + SumFunctionOnSet(f, s \ {x})
      /\ SumFunctionOnSet(h, s) = h[x] + SumFunctionOnSet(h, s \ {x})
  BY <1>3, SumRemove
<1>6. IsFiniteSet(s \ {x})
  BY <1>3, FS_Subset
<1>7. SumFunctionOnSet(f, s \ {x}) \in Int /\ SumFunctionOnSet(h, s \ {x}) \in Int
  BY <1>6, SumInt
<1>8. SumFunctionOnSet(f, s \ {x}) <= SumFunctionOnSet(h, s \ {x})
  BY <1>2
<1>9. f[x] \in Int /\ h[x] \in Int /\ f[x] <= h[x]
  OBVIOUS
<1>10. SumFunctionOnSet(f, s) <= SumFunctionOnSet(h, s)
  BY <1>5, <1>7, <1>8, <1>9
<1> QED
  BY <1>2, <1>10

\* A function that is larger in one place only, by at most d.
LEMMA SumLeqChange ==
    ASSUME NEW S, IsFiniteSet(S), NEW f \in [S -> Int], NEW h \in [S -> Int], NEW y \in S, NEW d \in Int,
           \A x \in S : x # y => h[x] <= f[x], h[y] <= f[y] + d
    PROVE  SumFunctionOnSet(h, S) <= SumFunctionOnSet(f, S) + d
<1>1. PICK g : g = [f EXCEPT ![y] = @ + d]
  OBVIOUS
<1>2. /\ \A x \in S : f[x] \in Int /\ g[x] \in Int /\ h[x] \in Int
      /\ g[y] = f[y] + d /\ f[y] \in Int
      /\ \A x \in S : x # y => g[x] = f[x]
  BY <1>1
<1>3. SumFunctionOnSet(g, S) = SumFunctionOnSet(f, S) + (g[y] - f[y])
  BY <1>2, SumChange
<1>4. \A x \in S : h[x] <= g[x]
  BY <1>2
<1>5. SumFunctionOnSet(h, S) <= SumFunctionOnSet(g, S)
  BY <1>2, <1>4, SumLeq
<1>6. SumFunctionOnSet(f, S) \in Int /\ SumFunctionOnSet(h, S) \in Int
  BY <1>2, SumInt
<1> QED
  BY <1>2, <1>3, <1>5, <1>6

-----------------------------------------------------------------------------
\* A finite set has an element where f is least.
LEMMA LeastAt ==
    ASSUME NEW S, IsFiniteSet(S), S # {}, NEW f, \A x \in S : f[x] \in Int
    PROVE  \E x \in S : \A y \in S : f[x] <= f[y]
<1> DEFINE Has(s) == \E x \in s : \A y \in s : f[x] <= f[y]
           T == {s \in SUBSET S : s # {} /\ ~Has(s)}
<1>1. SUFFICES ASSUME T # {} PROVE FALSE
  OBVIOUS
<1>2. PICK s \in T : \A t \in T : t \subseteq s => t = s
  <2>1. T \in SUBSET (SUBSET S)
    OBVIOUS
  <2> HIDE DEF T
  <2> QED
    BY <1>1, <2>1, SmallestSet
<1>3. PICK e \in s : TRUE
  OBVIOUS
<1>4. s \ {e} \notin T
  BY <1>2, <1>3
<1>5. CASE s \ {e} = {}
  <2>1. \A y \in s : y = e
    BY <1>5
  <2>2. f[e] <= f[e]
    BY <1>3
  <2> QED
    BY <1>2, <1>3, <2>1, <2>2
<1>6. CASE s \ {e} # {}
  <2>1. PICK x \in s \ {e} : \A y \in s \ {e} : f[x] <= f[y]
    BY <1>4, <1>6
  <2>2. f[x] \in Int /\ f[e] \in Int /\ \A y \in s : f[y] \in Int
    BY <1>2, <1>3
  <2>3. CASE f[x] <= f[e]
    <3>1. \A y \in s : f[x] <= f[y]
      BY <2>1, <2>3
    <3> QED
      BY <1>2, <3>1
  <2>4. CASE f[e] <= f[x]
    <3>1. \A y \in s : f[e] <= f[y]
      BY <2>1, <2>2, <2>4
    <3> QED
      BY <1>2, <1>3, <3>1
  <2> QED
    BY <2>2, <2>3, <2>4
<1> QED
  BY <1>5, <1>6

LEMMA LeastNumber ==
    ASSUME NEW S, IsFiniteSet(S), S # {}, S \subseteq Int
    PROVE  \E x \in S : \A y \in S : x <= y
<1> DEFINE f == [x \in S |-> x]
<1>1. \A x \in S : f[x] = x /\ f[x] \in Int
  OBVIOUS
<1>2. \E x \in S : \A y \in S : f[x] <= f[y]
  <2> HIDE DEF f
  <2> QED
    BY <1>1, LeastAt
<1> QED
  BY <1>1, <1>2
=============================================================================
