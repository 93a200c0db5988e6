--------------------------------- MODULE Sums ----------------------------------
(***************************************************************************)
(* Facts about sums over finite sets.  The specifications add with         *)
(* MapThenSumSet of the community modules; a SUM() of the backend's SQL is *)
(* one.  Here the summand is a function, so that the facts have no         *)
(* operator parameter and can be cited for any sum.  They all rest on      *)
(* MinimalSubset, which is induction over finite sets without an operator  *)
(* parameter: a set of counterexamples has a smallest one.                 *)
(***************************************************************************)
EXTENDS Integers, FiniteSetsExt, FiniteSetTheorems, TLAPS

SumOver(f, S) == MapThenSumSet(LAMBDA x : f[x], S)

(* The recursion that the fold stands for, one element after the other.    *)
Choice(s) == CHOOSE x \in s : TRUE
Partial(f, g, s) == IF s = {} THEN 0 ELSE f[Choice(s)] + g[s \ {Choice(s)}]
IsSum(g, f, S) == g = [s \in SUBSET S |-> Partial(f, g, s)]

-----------------------------------------------------------------------------
(* A non-empty set of subsets of a finite set has a minimal member.        *)
LEMMA MinimalSubset ==
    ASSUME NEW S, IsFiniteSet(S), NEW B \in SUBSET SUBSET S, B # {}
    PROVE  \E T \in B : \A U \in B : U \subseteq T => U = T
<1> DEFINE R == StrictSubsetOrdering(S)
<1>1. IsWellFoundedOn(R, SUBSET S)
  BY FS_StrictSubsetOrderingWellFounded, FS_FiniteSubsetsOfFinite
<1> HIDE DEF R
<1>2. PICK T \in B : \A U \in B : ~ (<<U, T>> \in R)
  BY <1>1, WFMin
<1>3. ASSUME NEW U \in B, U \subseteq T PROVE U = T
  BY <1>2, <1>3 DEF R, StrictSubsetOrdering
<1> QED BY <1>3

(* A non-empty set of natural numbers has a least member.                  *)
LEMMA LeastNatural ==
    ASSUME NEW B \in SUBSET Nat, B # {}
    PROVE  \E n \in B : \A m \in B : n <= m
<1> DEFINE R == OpToRel(<, Nat)
<1>1. IsWellFoundedOn(R, Nat)
  BY NatLessThanWellFounded
<1>2. \A m, n \in Nat : m < n => <<m, n>> \in R
  BY DEF OpToRel
<1> HIDE DEF R
<1>3. PICK n \in B : \A m \in B : ~ (<<m, n>> \in R)
  BY <1>1, WFMin
<1>4. ASSUME NEW m \in B PROVE n <= m
  <2>1. ~ (m < n)
    BY <1>2, <1>3
  <2> QED BY <2>1
<1> QED BY <1>4

-----------------------------------------------------------------------------
(* SumOver is the value of that recursion.                                 *)
LEMMA SumIsChosen ==
    ASSUME NEW f, NEW S
    PROVE  SumOver(f, S) = (CHOOSE g : IsSum(g, f, S))[S]
BY Zenon DEF SumOver, MapThenSumSet, MapThenFoldSet, IsSum, Partial, Choice

LEMMA ChoiceIn == ASSUME NEW s, s # {} PROVE Choice(s) \in s
BY DEF Choice

LEMMA SumStep ==
    ASSUME NEW f, NEW S, NEW g, IsSum(g, f, S), NEW T \in SUBSET S
    PROVE  g[T] = IF T = {} THEN 0 ELSE f[Choice(T)] + g[T \ {Choice(T)}]
BY DEF IsSum, Partial

(* Two such recursions agree wherever both are defined.                    *)
LEMMA SumsAgree ==
    ASSUME NEW f, NEW S, IsFiniteSet(S), NEW T \in SUBSET S,
           NEW g, IsSum(g, f, S), NEW h, IsSum(h, f, T)
    PROVE  \A U \in SUBSET T : g[U] = h[U]
<1> DEFINE B == {U \in SUBSET T : g[U] # h[U]}
<1> SUFFICES ASSUME B # {} PROVE FALSE
  OBVIOUS
<1>1. B \in SUBSET SUBSET S
  OBVIOUS
<1> HIDE DEF B
<1>2. PICK U \in B : \A V \in B : V \subseteq U => V = U
  BY <1>1, MinimalSubset
<1>3. U \in SUBSET T /\ U \in SUBSET S /\ g[U] # h[U]
  BY DEF B
<1>4. g[U] = IF U = {} THEN 0 ELSE f[Choice(U)] + g[U \ {Choice(U)}]
  BY <1>3, SumStep
<1>5. h[U] = IF U = {} THEN 0 ELSE f[Choice(U)] + h[U \ {Choice(U)}]
  BY <1>3, SumStep
<1>6. U # {}
  BY <1>3, <1>4, <1>5
<1>7. g[U \ {Choice(U)}] = h[U \ {Choice(U)}]
  BY <1>2, <1>3, <1>6, ChoiceIn DEF B
<1> QED BY <1>3, <1>4, <1>5, <1>6, <1>7

LEMMA SumExists ==
    ASSUME NEW f, NEW S, IsFiniteSet(S)
    PROVE  \E g : IsSum(g, f, S)
<1> DEFINE B == {T \in SUBSET S : ~ \E g : IsSum(g, f, T)}
<1> SUFFICES ASSUME B # {} PROVE FALSE
  BY DEF B
<1>0. B \in SUBSET SUBSET S
  OBVIOUS
<1> HIDE DEF B
<1>1. PICK T \in B : \A U \in B : U \subseteq T => U = T
  BY <1>0, MinimalSubset
<1>2. T \in SUBSET S /\ ~ \E g : IsSum(g, f, T)
  BY DEF B
<1> DEFINE h(U) == CHOOSE g : IsSum(g, f, U)
           g0 == [s \in SUBSET T |-> IF s = {} THEN 0
                    ELSE f[Choice(s)] + SumOver(f, s \ {Choice(s)})]
<1>3. ASSUME NEW U \in SUBSET T, U # T PROVE IsSum(h(U), f, U)
  <2>1. U \notin B
    BY <1>1, <1>3
  <2>2. \E g : IsSum(g, f, U)
    BY <1>2, <2>1 DEF B
  <2> QED BY Zenon, <2>2 DEF h
<1>4. ASSUME NEW U \in SUBSET T PROVE SumOver(f, U) = h(U)[U]
  BY Zenon, SumIsChosen
<1> HIDE DEF h
<1>5. ASSUME NEW s \in SUBSET T, s # {}
      PROVE  g0[s \ {Choice(s)}] = SumOver(f, s \ {Choice(s)})
  <2> DEFINE u == s \ {Choice(s)}
  <2>1. Choice(s) \in s
    BY <1>5, ChoiceIn
  <2>2. u \in SUBSET T /\ u # T /\ IsFiniteSet(u)
    BY <1>2, <2>1, FS_Subset
  <2> HIDE DEF u
  <2>3. IsSum(h(u), f, u)
    BY <1>3, <2>2
  <2>8. ASSUME NEW g, IsSum(g, f, u)
        PROVE  g[u] = IF u = {} THEN 0 ELSE f[Choice(u)] + g[u \ {Choice(u)}]
    BY <2>8, SumStep
  <2>9. h(u)[u] = IF u = {} THEN 0 ELSE f[Choice(u)] + h(u)[u \ {Choice(u)}]
    BY Zenon, <2>3, <2>8
  <2>4. SumOver(f, u) = IF u = {} THEN 0
                        ELSE f[Choice(u)] + h(u)[u \ {Choice(u)}]
    BY Zenon, <1>4, <2>2, <2>9
  <2>5. CASE u = {}
    BY <2>2, <2>4, <2>5 DEF u
  <2>6. CASE u # {}
    <3> DEFINE v == u \ {Choice(u)}
    <3>1. v \in SUBSET u /\ v \in SUBSET T /\ v # T
      BY <2>2, <2>6, ChoiceIn
    <3>2. IsSum(h(v), f, v)
      BY <1>3, <3>1
    <3>3. h(u)[v] = h(v)[v]
      BY <2>2, <2>3, <3>1, <3>2, SumsAgree
    <3>4. SumOver(f, v) = h(v)[v]
      BY <1>4, <3>1
    <3>5. g0[u] = f[Choice(u)] + SumOver(f, v)
      BY <2>2, <2>6
    <3> QED BY <2>4, <2>6, <3>3, <3>4, <3>5 DEF u
  <2> QED BY <2>5, <2>6
<1>6. \A s \in SUBSET T : g0[s] = Partial(f, g0, s)
  BY <1>5 DEF Partial
<1>7. g0 = [s \in SUBSET T |-> Partial(f, g0, s)]
  BY <1>6
<1>8. IsSum(g0, f, T)
  BY <1>7 DEF IsSum
<1> QED BY <1>2, <1>8

-----------------------------------------------------------------------------
(* The sum over a finite set, one chosen element first.                    *)
LEMMA SumDef ==
    ASSUME NEW f, NEW S, IsFiniteSet(S)
    PROVE  SumOver(f, S) = IF S = {} THEN 0
                           ELSE f[Choice(S)] + SumOver(f, S \ {Choice(S)})
<1> DEFINE h(U) == CHOOSE g : IsSum(g, f, U)
<1>1. ASSUME NEW U \in SUBSET S
      PROVE  IsSum(h(U), f, U) /\ SumOver(f, U) = h(U)[U]
  <2>1. \E g : IsSum(g, f, U)
    BY FS_Subset, SumExists
  <2> QED BY Zenon, <2>1, SumIsChosen
<1> HIDE DEF h
<1>2. SumOver(f, S) = IF S = {} THEN 0 ELSE f[Choice(S)] + h(S)[S \ {Choice(S)}]
  BY <1>1, SumStep
<1>3. h(S)[S \ {Choice(S)}] = SumOver(f, S \ {Choice(S)})
  <2> DEFINE v == S \ {Choice(S)}
  <2>1. v \in SUBSET S
    OBVIOUS
  <2> HIDE DEF v
  <2>2. IsSum(h(S), f, S) /\ IsSum(h(v), f, v)
    BY <1>1, <2>1
  <2>3. h(S)[v] = h(v)[v]
    BY <2>1, <2>2, SumsAgree
  <2>4. h(S)[v] = SumOver(f, v)
    BY <1>1, <2>1, <2>3
  <2> QED BY <2>4 DEF v
<1> QED BY <1>2, <1>3

LEMMA SumEmpty == ASSUME NEW f PROVE SumOver(f, {}) = 0
BY SumDef, FS_EmptySet

(* A sum of integers is an integer, one of naturals a natural.             *)
LEMMA SumType ==
    ASSUME NEW f, NEW S, IsFiniteSet(S), \A x \in S : f[x] \in Int
    PROVE  SumOver(f, S) \in Int
<1> DEFINE B == {T \in SUBSET S : SumOver(f, T) \notin Int}
<1>0. B \in SUBSET SUBSET S
  OBVIOUS
<1> SUFFICES ASSUME B # {} PROVE FALSE
  BY DEF B
<1> HIDE DEF B
<1>1. PICK T \in B : \A U \in B : U \subseteq T => U = T
  BY <1>0, MinimalSubset
<1>2. T \in SUBSET S /\ SumOver(f, T) \notin Int /\ IsFiniteSet(T)
  BY FS_Subset DEF B
<1>3. T # {} /\ SumOver(f, T) = f[Choice(T)] + SumOver(f, T \ {Choice(T)})
  BY <1>2, SumDef
<1>4. Choice(T) \in T
  BY <1>3, ChoiceIn
<1>5. SumOver(f, T \ {Choice(T)}) \in Int
  BY <1>1, <1>2, <1>4 DEF B
<1> QED BY <1>2, <1>3, <1>4, <1>5

LEMMA SumNat ==
    ASSUME NEW f, NEW S, IsFiniteSet(S), \A x \in S : f[x] \in Nat
    PROVE  SumOver(f, S) \in Nat
<1> DEFINE B == {T \in SUBSET S : SumOver(f, T) \notin Nat}
<1>0. B \in SUBSET SUBSET S
  OBVIOUS
<1> SUFFICES ASSUME B # {} PROVE FALSE
  BY DEF B
<1> HIDE DEF B
<1>1. PICK T \in B : \A U \in B : U \subseteq T => U = T
  BY <1>0, MinimalSubset
<1>2. T \in SUBSET S /\ SumOver(f, T) \notin Nat /\ IsFiniteSet(T)
  BY FS_Subset DEF B
<1>9. SumOver(f, T) = IF T = {} THEN 0
                      ELSE f[Choice(T)] + SumOver(f, T \ {Choice(T)})
  BY <1>2, SumDef
<1>3. T # {} /\ SumOver(f, T) = f[Choice(T)] + SumOver(f, T \ {Choice(T)})
  BY <1>2, <1>9
<1>4. Choice(T) \in T
  BY <1>3, ChoiceIn
<1>5. SumOver(f, T \ {Choice(T)}) \in Nat
  BY <1>1, <1>2, <1>4 DEF B
<1> QED BY <1>2, <1>3, <1>4, <1>5

(* Any element may be taken first: addition is associative and commutative. *)
LEMMA SumRemove ==
    ASSUME NEW f, NEW S, IsFiniteSet(S), \A x \in S : f[x] \in Int, NEW x \in S
    PROVE  SumOver(f, S) = f[x] + SumOver(f, S \ {x})
<1> DEFINE Splits(T, y) == SumOver(f, T) = f[y] + SumOver(f, T \ {y})
           B == {T \in SUBSET S : \E y \in T : ~ Splits(T, y)}
<1>0. B \in SUBSET SUBSET S
  OBVIOUS
<1> SUFFICES ASSUME B # {} PROVE FALSE
  BY DEF B
<1> HIDE DEF B, Splits
<1>1. PICK T \in B : \A U \in B : U \subseteq T => U = T
  BY <1>0, MinimalSubset
<1>2. PICK y \in T : ~ Splits(T, y)
  BY DEF B
<1>3. T \in SUBSET S /\ IsFiniteSet(T)
  BY FS_Subset DEF B
<1> DEFINE c == Choice(T)
<1>4. c \in T /\ SumOver(f, T) = f[c] + SumOver(f, T \ {c})
  BY <1>2, <1>3, SumDef, ChoiceIn
<1> HIDE DEF c
<1>5. c # y
  BY <1>2, <1>4 DEF Splits
<1>6. Splits(T \ {c}, y)
  BY <1>1, <1>3, <1>4, <1>5 DEF B
<1>7. Splits(T \ {y}, c)
  BY <1>1, <1>2, <1>3, <1>4, <1>5 DEF B
<1> DEFINE u == (T \ {c}) \ {y}
<1>8. u = (T \ {y}) \ {c} /\ u \in SUBSET S
  BY <1>3
<1>9. SumOver(f, u) \in Int /\ f[c] \in Int /\ f[y] \in Int
  BY <1>2, <1>3, <1>4, <1>8, SumType, FS_Subset
<1>10. SumOver(f, T \ {c}) = f[y] + SumOver(f, u)
  BY <1>6 DEF Splits
<1>11. SumOver(f, T \ {y}) = f[c] + SumOver(f, u)
  BY <1>7, <1>8 DEF Splits
<1> HIDE DEF u
<1>12. SumOver(f, T) = f[y] + SumOver(f, T \ {y})
  BY <1>4, <1>9, <1>10, <1>11
<1> QED BY <1>2, <1>12 DEF Splits

LEMMA SumAdd ==
    ASSUME NEW f, NEW S, IsFiniteSet(S), NEW x, x \notin S,
           \A y \in S \union {x} : f[y] \in Int
    PROVE  SumOver(f, S \union {x}) = f[x] + SumOver(f, S)
<1>1. IsFiniteSet(S \union {x}) /\ (S \union {x}) \ {x} = S
  BY FS_AddElement
<1> DEFINE T == S \union {x}
<1>2. x \in T /\ IsFiniteSet(T) /\ T \ {x} = S /\ \A y \in T : f[y] \in Int
  BY <1>1
<1> HIDE DEF T
<1>3. SumOver(f, T) = f[x] + SumOver(f, T \ {x})
  BY <1>2, SumRemove
<1> QED BY <1>2, <1>3 DEF T

(* The sum depends on the summands only.                                   *)
LEMMA SumSame ==
    ASSUME NEW f, NEW g, NEW S, IsFiniteSet(S), \A x \in S : f[x] = g[x]
    PROVE  SumOver(f, S) = SumOver(g, S)
<1> DEFINE B == {T \in SUBSET S : SumOver(f, T) # SumOver(g, T)}
<1>0. B \in SUBSET SUBSET S
  OBVIOUS
<1> SUFFICES ASSUME B # {} PROVE FALSE
  BY DEF B
<1> HIDE DEF B
<1>1. PICK T \in B : \A U \in B : U \subseteq T => U = T
  BY <1>0, MinimalSubset
<1>2. T \in SUBSET S /\ SumOver(f, T) # SumOver(g, T) /\ IsFiniteSet(T)
  BY FS_Subset DEF B
<1>3. SumOver(f, T) = IF T = {} THEN 0 ELSE f[Choice(T)] + SumOver(f, T \ {Choice(T)})
  BY <1>2, SumDef
<1>4. SumOver(g, T) = IF T = {} THEN 0 ELSE g[Choice(T)] + SumOver(g, T \ {Choice(T)})
  BY <1>2, SumDef
<1>5. T # {} /\ Choice(T) \in T
  BY <1>2, <1>3, <1>4, ChoiceIn
<1>6. SumOver(f, T \ {Choice(T)}) = SumOver(g, T \ {Choice(T)})
  BY <1>1, <1>2, <1>5 DEF B
<1> QED BY <1>2, <1>3, <1>4, <1>5, <1>6

(* Larger summands make a larger sum.                                      *)
LEMMA SumMonotone ==
    ASSUME NEW f, NEW g, NEW S, IsFiniteSet(S),
           \A x \in S : f[x] \in Int /\ g[x] \in Int /\ f[x] <= g[x]
    PROVE  SumOver(f, S) <= SumOver(g, S)
<1> DEFINE B == {T \in SUBSET S : ~ (SumOver(f, T) <= SumOver(g, T))}
<1>0. B \in SUBSET SUBSET S
  OBVIOUS
<1> SUFFICES ASSUME B # {} PROVE FALSE
  BY DEF B
<1> HIDE DEF B
<1>1. PICK T \in B : \A U \in B : U \subseteq T => U = T
  BY <1>0, MinimalSubset
<1>2. T \in SUBSET S /\ ~ (SumOver(f, T) <= SumOver(g, T)) /\ IsFiniteSet(T)
  BY FS_Subset DEF B
<1>3. SumOver(f, T) = IF T = {} THEN 0 ELSE f[Choice(T)] + SumOver(f, T \ {Choice(T)})
  BY <1>2, SumDef
<1>4. SumOver(g, T) = IF T = {} THEN 0 ELSE g[Choice(T)] + SumOver(g, T \ {Choice(T)})
  BY <1>2, SumDef
<1>5. T # {} /\ Choice(T) \in T
  BY <1>2, <1>3, <1>4, ChoiceIn
<1>6. SumOver(f, T \ {Choice(T)}) <= SumOver(g, T \ {Choice(T)})
  BY <1>1, <1>2, <1>5 DEF B
<1>7. IsFiniteSet(T \ {Choice(T)})
  BY <1>2, FS_Subset
<1>8. SumOver(f, T \ {Choice(T)}) \in Int /\ SumOver(g, T \ {Choice(T)}) \in Int
  BY <1>2, <1>7, SumType
<1> QED BY <1>2, <1>3, <1>4, <1>5, <1>6, <1>8

LEMMA SumZero ==
    ASSUME NEW f, NEW S, IsFiniteSet(S), \A x \in S : f[x] = 0
    PROVE  SumOver(f, S) = 0
<1> DEFINE B == {T \in SUBSET S : SumOver(f, T) # 0}
<1>0. B \in SUBSET SUBSET S
  OBVIOUS
<1> SUFFICES ASSUME B # {} PROVE FALSE
  BY DEF B
<1> HIDE DEF B
<1>1. PICK T \in B : \A U \in B : U \subseteq T => U = T
  BY <1>0, MinimalSubset
<1>2. T \in SUBSET S /\ SumOver(f, T) # 0 /\ IsFiniteSet(T)
  BY FS_Subset DEF B
<1>3. SumOver(f, T) = IF T = {} THEN 0 ELSE f[Choice(T)] + SumOver(f, T \ {Choice(T)})
  BY <1>2, SumDef
<1>4. T # {} /\ Choice(T) \in T
  BY <1>2, <1>3, ChoiceIn
<1>5. SumOver(f, T \ {Choice(T)}) = 0
  BY <1>1, <1>2, <1>4 DEF B
<1> QED BY <1>2, <1>3, <1>4, <1>5

(* A sum with one summand that counts.                                     *)
LEMMA SumSingle ==
    ASSUME NEW f, NEW S, IsFiniteSet(S), NEW x \in S, f[x] \in Int,
           \A y \in S \ {x} : f[y] = 0
    PROVE  SumOver(f, S) = f[x]
<1>1. SumOver(f, S) = f[x] + SumOver(f, S \ {x})
  BY SumRemove
<1>2. SumOver(f, S \ {x}) = 0
  <2> DEFINE T == S \ {x}
  <2>1. IsFiniteSet(T) /\ \A y \in T : f[y] = 0
    BY FS_Subset
  <2> HIDE DEF T
  <2>2. SumOver(f, T) = 0
    BY <2>1, SumZero
  <2> QED BY <2>2 DEF T
<1> QED BY <1>1, <1>2

(* One summand changes.                                                    *)
LEMMA SumUpdate ==
    ASSUME NEW f, NEW g, NEW S, IsFiniteSet(S), NEW x \in S,
           \A y \in S : f[y] \in Int /\ g[y] \in Int,
           \A y \in S \ {x} : f[y] = g[y]
    PROVE  SumOver(g, S) = SumOver(f, S) + (g[x] - f[x])
<1> DEFINE T == S \ {x}
<1>1. IsFiniteSet(T) /\ \A y \in T : f[y] = g[y] /\ f[y] \in Int
  BY FS_Subset
<1>2. SumOver(f, S) = f[x] + SumOver(f, T) /\ SumOver(g, S) = g[x] + SumOver(g, T)
  BY SumRemove
<1> HIDE DEF T
<1>3. SumOver(f, T) = SumOver(g, T) /\ SumOver(f, T) \in Int
  BY <1>1, SumSame, SumType
<1> QED BY <1>2, <1>3

(* What a sum loses is at most the sum of what its summands lose.          *)
LEMMA SumBound ==
    ASSUME NEW f, NEW g, NEW S, IsFiniteSet(S), NEW T \in SUBSET S,
           \A x \in S : f[x] \in Int, \A x \in T : g[x] \in Int,
           \A x \in T : f[x] + g[x] >= 0, \A x \in S \ T : f[x] >= 0
    PROVE  SumOver(f, S) + SumOver(g, T) >= 0
<1> DEFINE B == {U \in SUBSET S : ~ (SumOver(f, U) + SumOver(g, U \intersect T) >= 0)}
<1>0. B \in SUBSET SUBSET S
  OBVIOUS
<1>00. S \intersect T = T
  OBVIOUS
<1> SUFFICES ASSUME B # {} PROVE FALSE
  BY <1>00 DEF B
<1> HIDE DEF B
<1>1. PICK U \in B : \A V \in B : V \subseteq U => V = U
  BY <1>0, MinimalSubset
<1>2. U \in SUBSET S /\ ~ (SumOver(f, U) + SumOver(g, U \intersect T) >= 0) /\ IsFiniteSet(U)
  BY FS_Subset DEF B
<1>3. U # {}
  <2> SUFFICES ASSUME U = {} PROVE FALSE
    OBVIOUS
  <2>1. U \intersect T = {}
    OBVIOUS
  <2> QED BY <1>2, <2>1, SumEmpty
<1> DEFINE c == Choice(U)  V == U \ {c}
<1>4. c \in U /\ SumOver(f, U) = f[c] + SumOver(f, V)
  BY <1>2, <1>3, SumDef, ChoiceIn
<1>5. V \in SUBSET S /\ IsFiniteSet(V) /\ V # U /\ V \subseteq U
  BY <1>2, <1>4, FS_Subset
<1>6. SumOver(f, V) + SumOver(g, V \intersect T) >= 0
  BY <1>1, <1>5 DEF B
<1> DEFINE W == V \intersect T
<1>7. IsFiniteSet(W) /\ (\A x \in W : g[x] \in Int) /\ (\A x \in V : f[x] \in Int)
  BY <1>5, FS_Subset
<1>8. SumOver(f, V) \in Int
  BY <1>5, <1>7, SumType
<1>9. SumOver(g, W) \in Int
  <2> HIDE DEF W
  <2> QED BY <1>7, SumType
<1>10. CASE c \in T
  <2>1. U \intersect T = W \union {c} /\ c \notin W /\ f[c] \in Int /\ g[c] \in Int
    BY <1>2, <1>4, <1>10
  <2> HIDE DEF W, c
  <2>2. \A y \in W \union {c} : g[y] \in Int
    BY <1>7, <2>1
  <2>3. SumOver(g, W \union {c}) = g[c] + SumOver(g, W)
    BY <1>7, <2>1, <2>2, SumAdd
  <2>4. SumOver(g, U \intersect T) = g[c] + SumOver(g, W)
    BY <2>1, <2>3
  <2>5. SumOver(f, V) + SumOver(g, W) >= 0
    BY <1>6 DEF W
  <2>6. f[c] + g[c] >= 0
    BY <1>10
  <2> HIDE DEF V
  <2> QED BY <1>2, <1>4, <1>8, <1>9, <2>1, <2>4, <2>5, <2>6
<1>11. CASE c \notin T
  <2>1. U \intersect T = W
    BY <1>4, <1>11
  <2>4. SumOver(g, U \intersect T) = SumOver(g, W)
    BY <2>1
  <2>2. f[c] \in Int /\ f[c] >= 0
    BY <1>2, <1>4, <1>11
  <2> HIDE DEF c, V
  <2>3. SumOver(f, V) + SumOver(g, W) >= 0
    BY <1>6
  <2> HIDE DEF W
  <2> QED BY <1>2, <1>4, <1>8, <1>9, <2>2, <2>3, <2>4
<1> QED BY <1>10, <1>11

(* Two sets without a common member add up to their union.                 *)
LEMMA SumUnion ==
    ASSUME NEW f, NEW S, IsFiniteSet(S), NEW T, IsFiniteSet(T), S \intersect T = {},
           \A x \in S \union T : f[x] \in Int
    PROVE  SumOver(f, S \union T) = SumOver(f, S) + SumOver(f, T)
<1> DEFINE Adds(U) == SumOver(f, S \union U) = SumOver(f, S) + SumOver(f, U)
           B == {U \in SUBSET T : ~ Adds(U)}
<1>0. B \in SUBSET SUBSET T
  OBVIOUS
<1> SUFFICES ASSUME B # {} PROVE FALSE
  OBVIOUS
<1> HIDE DEF B, Adds
<1>1. PICK U \in B : \A V \in B : V \subseteq U => V = U
  BY <1>0, MinimalSubset
<1>2. U \in SUBSET T /\ ~ Adds(U) /\ IsFiniteSet(U)
  BY FS_Subset DEF B
<1>3. SumOver(f, S) \in Int
  BY SumType
<1>4. U # {}
  <2> SUFFICES ASSUME U = {} PROVE FALSE
    OBVIOUS
  <2>1. S \union {} = S
    OBVIOUS
  <2> QED BY <1>2, <1>3, <2>1, SumEmpty DEF Adds
<1> DEFINE c == Choice(U)  V == U \ {c}
<1>5. c \in U /\ SumOver(f, U) = f[c] + SumOver(f, V)
  BY <1>2, <1>4, SumDef, ChoiceIn
<1> HIDE DEF c
<1>6. V \in SUBSET T /\ IsFiniteSet(V) /\ V # U /\ V \subseteq U
  BY <1>2, <1>5, FS_Subset
<1>7. Adds(V)
  BY <1>1, <1>6 DEF B
<1>8. S \union U = (S \union V) \union {c} /\ c \notin S \union V
  BY <1>2, <1>5
<1>9. IsFiniteSet(S \union V) /\ (\A x \in (S \union V) \union {c} : f[x] \in Int)
  BY <1>2, <1>5, <1>6, FS_Union
<1>10. f[c] \in Int /\ SumOver(f, V) \in Int
  BY <1>2, <1>5, <1>6, SumType
<1>11. SumOver(f, S \union U) = f[c] + SumOver(f, S \union V)
  <2> DEFINE W == S \union V
  <2>1. IsFiniteSet(W) /\ c \notin W /\ \A x \in W \union {c} : f[x] \in Int
    BY <1>8, <1>9
  <2> HIDE DEF W
  <2>2. SumOver(f, W \union {c}) = f[c] + SumOver(f, W)
    BY <2>1, SumAdd
  <2> QED BY <1>8, <2>2 DEF W
<1> HIDE DEF V
<1>12. SumOver(f, S \union U) = SumOver(f, S) + SumOver(f, U)
  BY <1>3, <1>5, <1>7, <1>10, <1>11 DEF Adds
<1> QED BY <1>2, <1>12 DEF Adds
================================================================================
