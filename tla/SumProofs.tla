------------------------------ MODULE SumProofs ------------------------------
(***************************************************************************)
(* Sums over a finite set, as Functions defines them: by a fold that picks *)
(* one element after the other.  Induction goes over the subsets of a set, *)
(* smallest first.                                                         *)
(***************************************************************************)
EXTENDS Integers, FiniteSets, Functions, FiniteSetTheorems, TLAPS

Inside(y, x) == y \subseteq x /\ y # x

\* Strict inclusion is well-founded on the subsets of a finite set.
LEMMA SmallestSubset ==
  ASSUME NEW S, IsFiniteSet(S), NEW T \in SUBSET SUBSET S, T # {}
  PROVE  \E x \in T : \A y \in T : ~Inside(y, x)
<1>1. IsWellFoundedOn(StrictSubsetOrdering(S), FiniteSubsetsOf(S))
  BY FS_StrictSubsetOrderingWellFounded
<1>2. FiniteSubsetsOf(S) = SUBSET S
  BY FS_FiniteSubsetsOfFinite
<1>3. \E x \in T : \A y \in T : <<y, x>> \notin StrictSubsetOrdering(S)
  BY <1>1, <1>2, WFMin
<1>4. \A x, y \in T : Inside(y, x) => <<y, x>> \in StrictSubsetOrdering(S)
  BY DEF StrictSubsetOrdering, Inside
<1>5. QED BY <1>3, <1>4

Pick(s) == CHOOSE x \in s : TRUE

\* g is the function by which the fold adds up f on the subsets of S.
AddsUp(g, f, S) ==
  g = [s \in SUBSET S |-> IF s = {} THEN 0 ELSE f[Pick(s)] + g[s \ {Pick(s)}]]

LEMMA AddsUpValue ==
  ASSUME NEW f, NEW S, NEW g, AddsUp(g, f, S), NEW s \in SUBSET S
  PROVE  g[s] = IF s = {} THEN 0 ELSE f[Pick(s)] + g[s \ {Pick(s)}]
BY DEF AddsUp

LEMMA PickIn == ASSUME NEW s, s # {} PROVE Pick(s) \in s
BY DEF Pick

\* Wherever two such functions are both defined they agree, ...
LEMMA AddsUpOnce ==
  ASSUME NEW f, NEW S, NEW T, IsFiniteSet(S), NEW g, NEW h,
         AddsUp(g, f, S), AddsUp(h, f, T), NEW s \in SUBSET S, s \in SUBSET T
  PROVE  g[s] = h[s]
<1> DEFINE Differ == {r \in SUBSET S : r \in SUBSET T /\ g[r] # h[r]}
<1>1. SUFFICES ASSUME Differ # {} PROVE FALSE
  OBVIOUS
<1>2. PICK r \in Differ : \A q \in Differ : ~Inside(q, r)
  BY <1>1, SmallestSubset
<1>3. g[r] = IF r = {} THEN 0 ELSE f[Pick(r)] + g[r \ {Pick(r)}]
  BY <1>2, AddsUpValue
<1>4. h[r] = IF r = {} THEN 0 ELSE f[Pick(r)] + h[r \ {Pick(r)}]
  BY <1>2, AddsUpValue
<1>5. r # {}
  BY <1>2, <1>3, <1>4
<1>6. g[r \ {Pick(r)}] = h[r \ {Pick(r)}]
  BY <1>2, <1>5, PickIn DEF Inside
<1>7. QED BY <1>2, <1>3, <1>4, <1>6

\* ... and there is one.
LEMMA AddsUpExists ==
  ASSUME NEW f, NEW S, IsFiniteSet(S)
  PROVE  \E g : AddsUp(g, f, S)
<1> DEFINE Without == {T \in SUBSET S : ~\E g : AddsUp(g, f, T)}
<1>1. SUFFICES ASSUME Without # {} PROVE FALSE
  OBVIOUS
<1>2. PICK T \in Without : \A q \in Without : ~Inside(q, T)
  BY <1>1, SmallestSubset
<1>3. \A s \in SUBSET T : s # T => \E g : AddsUp(g, f, s)
  BY <1>2 DEF Inside
<1> DEFINE G(s) == CHOOSE g : AddsUp(g, f, s)
           next(s) == s \ {Pick(s)}
           g == [s \in SUBSET T |-> IF s = {} THEN 0 ELSE f[Pick(s)] + G(next(s))[next(s)]]
<1>4. \A s \in SUBSET T : s # T => AddsUp(G(s), f, s)
  BY <1>3
<1>5. ASSUME NEW s \in SUBSET T, s # T PROVE g[s] = G(s)[s]
  <2>1. G(s)[s] = IF s = {} THEN 0 ELSE f[Pick(s)] + G(s)[next(s)]
    BY <1>4, <1>5, AddsUpValue
  <2>2. CASE s = {}
    BY <2>1, <2>2
  <2>3. CASE s # {}
    <3>1. next(s) \in SUBSET T /\ next(s) # T /\ next(s) \in SUBSET s
      BY <2>3, PickIn
    <3>2. IsFiniteSet(s)
      BY <1>2, FS_Subset
    <3>3. AddsUp(G(s), f, s) /\ AddsUp(G(next(s)), f, next(s))
      BY <1>4, <1>5, <3>1
    <3>4. next(s) \in SUBSET next(s)
      OBVIOUS
    <3>5. G(s)[next(s)] = G(next(s))[next(s)]
      <4> HIDE DEF G, next
      <4> QED BY <3>1, <3>2, <3>3, <3>4, AddsUpOnce
    <3>6. QED BY <2>1, <2>3, <3>5
  <2>4. QED BY <2>2, <2>3
<1>6. \A s \in SUBSET T : s # {} => next(s) \in SUBSET T /\ next(s) # T
  BY PickIn
<1>7. AddsUp(g, f, T)
  <2>1. \A s \in SUBSET T : s # {} => g[next(s)] = G(next(s))[next(s)]
    <3> HIDE DEF G, next, g
    <3> QED BY <1>5, <1>6
  <2>2. g = [s \in SUBSET T |-> IF s = {} THEN 0 ELSE f[Pick(s)] + g[next(s)]]
    <3> HIDE DEF G, next
    <3> QED BY <2>1
  <2>3. QED BY <2>2 DEF AddsUp
<1>8. QED BY <1>2, <1>7

LEMMA SumIs ==
  ASSUME NEW f, NEW S, IsFiniteSet(S)
  PROVE  \E g : AddsUp(g, f, S) /\ SumFunctionOnSet(f, S) = g[S]
<1>1. SumFunctionOnSet(f, S) = (CHOOSE g : AddsUp(g, f, S))[S]
  BY DEF SumFunctionOnSet, FoldFunctionOnSet, MapThenFoldSet, AddsUp, Pick
<1>2. QED BY <1>1, AddsUpExists

-----------------------------------------------------------------------------
(* What a sum is. *)

LEMMA SumEmpty == ASSUME NEW f PROVE SumFunctionOnSet(f, {}) = 0
<1>1. IsFiniteSet({})
  BY FS_EmptySet
<1>2. PICK g : AddsUp(g, f, {}) /\ SumFunctionOnSet(f, {}) = g[{}]
  BY <1>1, SumIs
<1>3. QED BY <1>2, AddsUpValue

LEMMA SumPick ==
  ASSUME NEW f, NEW S, IsFiniteSet(S), S # {}
  PROVE  SumFunctionOnSet(f, S) = f[Pick(S)] + SumFunctionOnSet(f, S \ {Pick(S)})
<1> DEFINE R == S \ {Pick(S)}
<1>1. PICK g : AddsUp(g, f, S) /\ SumFunctionOnSet(f, S) = g[S]
  BY SumIs
<1>2. IsFiniteSet(R)
  BY FS_Subset
<1>3. PICK h : AddsUp(h, f, R) /\ SumFunctionOnSet(f, R) = h[R]
  BY <1>2, SumIs
<1>4. R \in SUBSET S /\ R \in SUBSET R
  OBVIOUS
<1>5. g[R] = h[R]
  <2> HIDE DEF R
  <2> QED BY <1>1, <1>3, <1>4, AddsUpOnce
<1>6. g[S] = f[Pick(S)] + g[R]
  BY <1>1, AddsUpValue
<1>7. QED BY <1>1, <1>3, <1>5, <1>6

LEMMA SumInt ==
  ASSUME NEW S, IsFiniteSet(S), NEW f, \A x \in S : f[x] \in Int
  PROVE  SumFunctionOnSet(f, S) \in Int
<1> DEFINE Bad == {T \in SUBSET S : SumFunctionOnSet(f, T) \notin Int}
<1>1. SUFFICES ASSUME Bad # {} PROVE FALSE
  OBVIOUS
<1>2. PICK T \in Bad : \A q \in Bad : ~Inside(q, T)
  BY <1>1, SmallestSubset
<1>3. T # {} /\ IsFiniteSet(T)
  <2>1. SumFunctionOnSet(f, {}) \in Int
    BY SumEmpty
  <2>2. QED BY <1>2, <2>1, FS_Subset
<1>4. SumFunctionOnSet(f, T \ {Pick(T)}) \in Int
  BY <1>2, <1>3, PickIn DEF Inside
<1>5. QED BY <1>2, <1>3, <1>4, SumPick, PickIn

\* The order does not matter: any element can be taken out.
LEMMA SumWithout ==
  ASSUME NEW S, IsFiniteSet(S), NEW f, \A x \in S : f[x] \in Int, NEW e \in S
  PROVE  SumFunctionOnSet(f, S) = f[e] + SumFunctionOnSet(f, S \ {e})
<1> DEFINE Sum(T) == SumFunctionOnSet(f, T)
           Bad == {T \in SUBSET S : \E d \in T : Sum(T) # f[d] + Sum(T \ {d})}
<1>1. SUFFICES ASSUME Bad # {} PROVE FALSE
  OBVIOUS
<1>2. PICK T \in Bad : \A q \in Bad : ~Inside(q, T)
  BY <1>1, SmallestSubset
<1>3. PICK d \in T : Sum(T) # f[d] + Sum(T \ {d})
  BY <1>2
<1> DEFINE c == Pick(T)
<1>4. c \in T
  BY <1>3, PickIn
<1>5. \A R \in SUBSET S : IsFiniteSet(R) /\ Sum(R) \in Int
  <2> SUFFICES ASSUME NEW R \in SUBSET S PROVE IsFiniteSet(R) /\ Sum(R) \in Int
    OBVIOUS
  <2>1. IsFiniteSet(R)
    BY FS_Subset
  <2>2. QED BY <2>1, SumInt
<1>6. Sum(T) = f[c] + Sum(T \ {c})
  BY <1>2, <1>3, <1>5, SumPick
<1>7. c # d
  BY <1>3, <1>6
<1>8. T \ {c} \notin Bad /\ T \ {d} \notin Bad
  BY <1>2, <1>3, <1>4 DEF Inside
<1>9. Sum(T \ {c}) = f[d] + Sum((T \ {c}) \ {d})
  BY <1>2, <1>3, <1>7, <1>8
<1>10. Sum(T \ {d}) = f[c] + Sum((T \ {d}) \ {c})
  BY <1>2, <1>4, <1>7, <1>8
<1>11. Sum((T \ {c}) \ {d}) = Sum((T \ {d}) \ {c})
  <2>1. (T \ {c}) \ {d} = (T \ {d}) \ {c}
    OBVIOUS
  <2>2. QED BY <2>1
<1>12. f[c] \in Int /\ f[d] \in Int /\ Sum((T \ {d}) \ {c}) \in Int
  BY <1>2, <1>3, <1>4, <1>5
<1>13. QED
  <2> HIDE DEF Sum, c, Bad
  <2> QED BY <1>3, <1>6, <1>9, <1>10, <1>11, <1>12

LEMMA SumSame ==
  ASSUME NEW S, IsFiniteSet(S), NEW f, NEW g, \A x \in S : f[x] = g[x]
  PROVE  SumFunctionOnSet(f, S) = SumFunctionOnSet(g, S)
<1> DEFINE Bad == {T \in SUBSET S : SumFunctionOnSet(f, T) # SumFunctionOnSet(g, T)}
<1>1. SUFFICES ASSUME Bad # {} PROVE FALSE
  OBVIOUS
<1>2. PICK T \in Bad : \A q \in Bad : ~Inside(q, T)
  BY <1>1, SmallestSubset
<1>3. T # {} /\ IsFiniteSet(T)
  BY <1>2, SumEmpty, FS_Subset
<1>4. SumFunctionOnSet(f, T \ {Pick(T)}) = SumFunctionOnSet(g, T \ {Pick(T)})
  BY <1>2, <1>3, PickIn DEF Inside
<1>5. QED BY <1>2, <1>3, <1>4, SumPick, PickIn

LEMMA SumAdd ==
  ASSUME NEW S, IsFiniteSet(S), NEW e, e \notin S, NEW f, \A x \in S \cup {e} : f[x] \in Int
  PROVE  SumFunctionOnSet(f, S \cup {e}) = f[e] + SumFunctionOnSet(f, S)
<1>1. IsFiniteSet(S \cup {e})
  BY FS_AddElement
<1>2. (S \cup {e}) \ {e} = S
  OBVIOUS
<1>3. QED BY <1>1, <1>2, SumWithout

\* A sum in which one summand is replaced.
LEMMA SumReplaced ==
  ASSUME NEW S, IsFiniteSet(S), NEW e \in S, NEW f, NEW g,
         \A x \in S : f[x] \in Int /\ g[x] \in Int,
         \A x \in S \ {e} : f[x] = g[x]
  PROVE  SumFunctionOnSet(g, S) = SumFunctionOnSet(f, S) + g[e] - f[e]
<1>1. IsFiniteSet(S \ {e})
  BY FS_Subset
<1>2. SumFunctionOnSet(f, S \ {e}) = SumFunctionOnSet(g, S \ {e})
  BY <1>1, SumSame
<1>3. SumFunctionOnSet(f, S) = f[e] + SumFunctionOnSet(f, S \ {e})
  BY SumWithout
<1>4. SumFunctionOnSet(g, S) = g[e] + SumFunctionOnSet(g, S \ {e})
  BY SumWithout
<1>5. SumFunctionOnSet(f, S \ {e}) \in Int
  BY <1>1, SumInt
<1>6. QED BY <1>2, <1>3, <1>4, <1>5

\* Sums compare as their summands do, whatever they are multiplied by.
LEMMA SumScaled ==
  ASSUME NEW S, IsFiniteSet(S), NEW f, NEW g, NEW a \in Int, NEW b \in Int,
         \A x \in S : f[x] \in Int /\ g[x] \in Int /\ a * f[x] <= b * g[x]
  PROVE  a * SumFunctionOnSet(f, S) <= b * SumFunctionOnSet(g, S)
<1> DEFINE F(T) == SumFunctionOnSet(f, T)
           G(T) == SumFunctionOnSet(g, T)
           Bad == {T \in SUBSET S : ~(a * F(T) <= b * G(T))}
<1>1. SUFFICES ASSUME Bad # {} PROVE FALSE
  OBVIOUS
<1>2. PICK T \in Bad : \A q \in Bad : ~Inside(q, T)
  BY <1>1, SmallestSubset
<1>3. IsFiniteSet(T)
  BY <1>2, FS_Subset
<1>4. T # {}
  <2>1. F({}) = 0 /\ G({}) = 0
    BY SumEmpty
  <2>2. a * 0 <= b * 0
    OBVIOUS
  <2>3. QED BY <1>2, <2>1, <2>2
<1>5. PICK c : c \in T
  BY <1>4
<1>6. a * F(T \ {c}) <= b * G(T \ {c})
  BY <1>2, <1>5 DEF Inside
<1>7. F(T) = f[c] + F(T \ {c}) /\ G(T) = g[c] + G(T \ {c})
  BY <1>2, <1>3, <1>5, SumWithout
<1>8. F(T \ {c}) \in Int /\ G(T \ {c}) \in Int
  <2>1. IsFiniteSet(T \ {c})
    BY <1>3, FS_Subset
  <2>2. QED BY <1>2, <2>1, SumInt
<1>9. f[c] \in Int /\ g[c] \in Int /\ a * f[c] <= b * g[c]
  BY <1>2, <1>5
<1>10. ~(a * F(T) <= b * G(T))
  BY <1>2
<1>11. \A i, j, k \in Int : i * (j + k) = i * j + i * k /\ i * j \in Int
  OBVIOUS
<1>12. QED
  <2> HIDE DEF F, G, Bad
  <2> QED BY <1>6, <1>7, <1>8, <1>9, <1>10, <1>11

LEMMA SumOrdered ==
  ASSUME NEW S, IsFiniteSet(S), NEW f, NEW g,
         \A x \in S : f[x] \in Int /\ g[x] \in Int /\ f[x] <= g[x]
  PROVE  SumFunctionOnSet(f, S) <= SumFunctionOnSet(g, S)
<1>1. \A i \in Int : 1 * i = i
  OBVIOUS
<1>2. 1 * SumFunctionOnSet(f, S) <= 1 * SumFunctionOnSet(g, S)
  BY <1>1, SumScaled
<1>3. QED BY <1>1, <1>2, SumInt

LEMMA SumOfNothing ==
  ASSUME NEW S, IsFiniteSet(S), NEW f, \A x \in S : f[x] = 0
  PROVE  SumFunctionOnSet(f, S) = 0
<1> DEFINE Bad == {T \in SUBSET S : SumFunctionOnSet(f, T) # 0}
<1>1. SUFFICES ASSUME Bad # {} PROVE FALSE
  OBVIOUS
<1>2. PICK T \in Bad : \A q \in Bad : ~Inside(q, T)
  BY <1>1, SmallestSubset
<1>3. T # {} /\ IsFiniteSet(T)
  BY <1>2, SumEmpty, FS_Subset
<1>4. PICK c : c \in T
  BY <1>3
<1>5. SumFunctionOnSet(f, T \ {c}) = 0
  BY <1>2, <1>4 DEF Inside
<1>6. SumFunctionOnSet(f, T) = f[c] + SumFunctionOnSet(f, T \ {c})
  BY <1>2, <1>3, <1>4, SumWithout
<1>7. f[c] = 0
  BY <1>2, <1>4
<1>8. QED BY <1>2, <1>5, <1>6, <1>7

\* Sums add up term by term.
LEMMA SumOfSums ==
  ASSUME NEW S, IsFiniteSet(S), NEW f, NEW g, NEW h,
         \A x \in S : f[x] \in Int /\ g[x] \in Int /\ h[x] = f[x] + g[x]
  PROVE  SumFunctionOnSet(h, S) = SumFunctionOnSet(f, S) + SumFunctionOnSet(g, S)
<1> DEFINE F(T) == SumFunctionOnSet(f, T)
           G(T) == SumFunctionOnSet(g, T)
           H(T) == SumFunctionOnSet(h, T)
           Bad == {T \in SUBSET S : H(T) # F(T) + G(T)}
<1>1. SUFFICES ASSUME Bad # {} PROVE FALSE
  OBVIOUS
<1>2. PICK T \in Bad : \A q \in Bad : ~Inside(q, T)
  BY <1>1, SmallestSubset
<1>3. IsFiniteSet(T)
  BY <1>2, FS_Subset
<1>4. T # {}
  <2>1. F({}) = 0 /\ G({}) = 0 /\ H({}) = 0
    BY SumEmpty
  <2>2. QED BY <1>2, <2>1
<1>5. PICK c : c \in T
  BY <1>4
<1>6. H(T \ {c}) = F(T \ {c}) + G(T \ {c})
  BY <1>2, <1>5 DEF Inside
<1>7. \A x \in S : h[x] \in Int
  OBVIOUS
<1>8. F(T) = f[c] + F(T \ {c}) /\ G(T) = g[c] + G(T \ {c}) /\ H(T) = h[c] + H(T \ {c})
  BY <1>2, <1>3, <1>5, <1>7, SumWithout
<1>9. F(T \ {c}) \in Int /\ G(T \ {c}) \in Int
  <2>1. IsFiniteSet(T \ {c})
    BY <1>3, FS_Subset
  <2>2. QED BY <1>2, <2>1, SumInt
<1>10. f[c] \in Int /\ g[c] \in Int /\ h[c] = f[c] + g[c] /\ H(T) # F(T) + G(T)
  BY <1>2, <1>5
<1>11. QED
  <2> HIDE DEF F, G, H, Bad
  <2> QED BY <1>6, <1>8, <1>9, <1>10

\* A sum of numbers is a number, and none of them is more than it.
LEMMA SumCovers ==
  ASSUME NEW S, IsFiniteSet(S), NEW f, \A x \in S : f[x] \in Nat
  PROVE  /\ SumFunctionOnSet(f, S) \in Nat
         /\ \A x \in S : f[x] <= SumFunctionOnSet(f, S)
<1>1. ASSUME NEW T \in SUBSET S PROVE SumFunctionOnSet(f, T) \in Nat
  <2> DEFINE g == [x \in S |-> 0]
  <2>1. IsFiniteSet(T)
    BY FS_Subset
  <2>2. \A x \in T : f[x] \in Int /\ g[x] \in Int /\ 1 * f[x] >= 0 * g[x]
    OBVIOUS
  <2>3. 0 * SumFunctionOnSet(g, T) <= 1 * SumFunctionOnSet(f, T)
    BY <2>1, <2>2, SumScaled
  <2>4. SumFunctionOnSet(f, T) \in Int /\ SumFunctionOnSet(g, T) \in Int
    BY <2>1, <2>2, SumInt
  <2> HIDE DEF g
  <2>5. QED BY <2>3, <2>4
<1>2. ASSUME NEW x \in S PROVE f[x] <= SumFunctionOnSet(f, S)
  <2>1. SumFunctionOnSet(f, S) = f[x] + SumFunctionOnSet(f, S \ {x})
    BY SumWithout
  <2>2. SumFunctionOnSet(f, S \ {x}) \in Nat
    BY <1>1
  <2>3. QED BY <2>1, <2>2
<1>3. QED BY <1>1, <1>2

\* A set of numbers up to N has a least one.
LEMMA LeastNumber ==
  ASSUME NEW N \in Nat, NEW S \in SUBSET (0..N), S # {}
  PROVE  \E x \in S : \A y \in S : x <= y
<1> DEFINE T == {0..z : z \in S}
<1>1. T \in SUBSET SUBSET (0..N) /\ T # {}
  <2>1. \A z \in S : 0..z \subseteq 0..N
    OBVIOUS
  <2>2. QED BY <2>1
<1>2. IsFiniteSet(0..N)
  BY 0 \in Int, N \in Int, FS_Interval
<1>3. PICK t \in T : \A y \in T : ~Inside(y, t)
  BY <1>1, <1>2, SmallestSubset
<1>4. PICK x \in S : \A y \in S : ~Inside(0..y, 0..x)
  BY <1>3
<1>5. ASSUME NEW y \in S, y < x PROVE FALSE
  BY <1>4, <1>5, x \in 0..x, x \notin 0..y DEF Inside
<1>6. QED BY <1>5
=============================================================================
