---------------------------- MODULE AccountProofs ----------------------------
(***************************************************************************)
(* What an account owes and holds, for any number of top-ups, requests,    *)
(* months, accounts, seats and uploads.                                    *)
(*                                                                         *)
(* StripeCredit: refunds and disputes never take more than was paid, the   *)
(* credit ends at what Stripe still has once its events are answered, what *)
(* the closed months cost is taken, charged, recorded or carried over, and *)
(* Pay-as-you-go stays on with a debt only if it was turned on with one.   *)
(*                                                                         *)
(* FamilyPool: no more accounts get into a family than there are seats: a  *)
(* joinFamily that has counted holds the owner's row until it has          *)
(* inserted, so what it has counted (SeatIsFree) can only shrink (only     *)
(* removals take no lock).  Nobody keeps the plan of a family that nobody  *)
(* pays for.  And what an account, or a family, can be overbooked by is    *)
(* bounded: what is committed and what is promised together (Load) grow    *)
(* only by a check that has found the quota kept.                          *)
(*                                                                         *)
(* Both are about sums over finite sets, which come first.                 *)
(***************************************************************************)
EXTENDS FamilyPool, StripeCredit, FiniteSetTheorems, WellFoundedInduction, TLAPS

-----------------------------------------------------------------------------
(* Sums over finite sets                                                   *)

\* A set of subsets of a finite set that holds a set whenever it holds all its proper
\* subsets holds them all.
LEMMA FiniteInduction ==
  ASSUME NEW S, IsFiniteSet(S), NEW K,
         \A T \in SUBSET S : (\A U \in SUBSET T : U # T => U \in K) => T \in K
  PROVE  SUBSET S \subseteq K
<1> DEFINE Bad == (SUBSET S) \ K
           R == StrictSubsetOrdering(S)
<1>1. IsWellFoundedOn(R, SUBSET S)
  BY FS_StrictSubsetOrderingWellFounded, FS_FiniteSubsetsOfFinite
<1>2. SUFFICES ASSUME Bad # {} PROVE FALSE
  OBVIOUS
<1>3. Bad \subseteq SUBSET S
  OBVIOUS
<1> HIDE DEF Bad, R
<1>4. \E T \in Bad : \A U \in Bad : ~(<<U, T>> \in R)
  BY <1>1, <1>2, <1>3, WFMin
<1>5. PICK T \in Bad : \A U \in Bad : ~(<<U, T>> \in R)
  BY <1>4
<1>6. T \in SUBSET S /\ T \notin K
  BY DEF Bad
<1>7. ASSUME NEW U \in SUBSET T, U # T PROVE U \in K
  <2>1. U \in SUBSET S
    BY <1>6
  <2>2. <<U, T>> \in R
    BY <1>6, <1>7, <2>1 DEF R, StrictSubsetOrdering
  <2>3. QED
    BY <1>5, <2>1, <2>2 DEF Bad
<1>8. QED
  BY <1>6, <1>7

Any(s) == CHOOSE x \in s : TRUE

\* g sums f over every part of S, as SumFunctionOnSet does.
Adds(g, f, S) ==
  g = [s \in SUBSET S |-> IF s = {} THEN 0 ELSE f[Any(s)] + g[s \ {Any(s)}]]

\* By its definition, SumFunctionOnSet sums with a function that does so.
LEMMA SumIs ==
  ASSUME NEW f, NEW S
  PROVE  SumFunctionOnSet(f, S) = (CHOOSE g : Adds(g, f, S))[S]
BY DEF SumFunctionOnSet, FoldFunctionOnSet, MapThenFoldSet, Adds, Any

LEMMA AnyIn == ASSUME NEW s, s # {} PROVE Any(s) \in s
BY DEF Any

LEMMA AddsIs ==
  ASSUME NEW g, NEW f, NEW S, Adds(g, f, S), NEW s \in SUBSET S
  PROVE  /\ s = {} => g[s] = 0
         /\ s # {} => g[s] = f[Any(s)] + g[s \ {Any(s)}]
BY DEF Adds

\* Two that sum f agree on the parts they share.
LEMMA AddsOnce ==
  ASSUME NEW f, NEW S, IsFiniteSet(S), NEW T, NEW U, S \subseteq T, S \subseteq U,
         NEW g, NEW h, Adds(g, f, T), Adds(h, f, U)
  PROVE  g[S] = h[S]
<1> DEFINE K == {s \in SUBSET S : g[s] = h[s]}
<1>1. ASSUME NEW s \in SUBSET S, \A u \in SUBSET s : u # s => u \in K
      PROVE  s \in K
  <2>1. CASE s = {}
    <3>1. g[s] = 0 /\ h[s] = 0
      BY <2>1, AddsIs
    <3>2. QED
      BY <3>1
  <2>2. CASE s # {}
    <3>1. s \ {Any(s)} \in K
      BY <1>1, <2>2, AnyIn
    <3>2. s \in SUBSET T /\ s \in SUBSET U
      OBVIOUS
    <3>3. g[s] = f[Any(s)] + g[s \ {Any(s)}]
      BY ONLY Adds(g, f, T), <2>2, <3>2 DEF Adds
    <3>4. h[s] = f[Any(s)] + h[s \ {Any(s)}]
      BY ONLY Adds(h, f, U), <2>2, <3>2 DEF Adds
    <3>5. g[s \ {Any(s)}] = h[s \ {Any(s)}]
      BY <3>1
    <3>6. g[s] = h[s]
      BY <3>3, <3>4, <3>5
    <3>7. QED
      BY <3>6
  <2>3. QED
    BY <2>1, <2>2
<1> HIDE DEF K
<1>2. SUBSET S \subseteq K
  BY <1>1, FiniteInduction
<1>3. QED
  BY <1>2 DEF K

\* There is one for every finite set.
LEMMA AddsExists ==
  ASSUME NEW f, NEW S, IsFiniteSet(S)
  PROVE  \E g : Adds(g, f, S)
<1> DEFINE K == {T \in SUBSET S : \E g : Adds(g, f, T)}
<1>1. ASSUME NEW T \in SUBSET S, \A U \in SUBSET T : U # T => U \in K
      PROVE  T \in K
  <2> DEFINE G(U) == CHOOSE g : Adds(g, f, U)
             g == [s \in SUBSET T |-> IF s = {} THEN 0
                                      ELSE f[Any(s)] + G(s \ {Any(s)})[s \ {Any(s)}]]
  <2>1. ASSUME NEW U \in SUBSET T, U # T
        PROVE  Adds(G(U), f, U)
    BY <1>1, <2>1
  <2>2. ASSUME NEW s \in SUBSET T, s # T
        PROVE  g[s] = G(s)[s]
    <3>1. Adds(G(s), f, s)
      BY <2>1, <2>2
    <3>2. CASE s = {}
      <4>1. G(s)[s] = 0
        BY <3>1, <3>2, AddsIs
      <4>2. QED
        BY <3>2, <4>1
    <3>3. CASE s # {}
      <4> DEFINE v == s \ {Any(s)}
      <4>1. v \in SUBSET T /\ v # T /\ v \subseteq s
        BY <3>3, AnyIn
      <4>2. IsFiniteSet(v)
        BY <4>1, FS_Subset
      <4>3. Adds(G(v), f, v)
        BY <2>1, <4>1
      <4>4. G(s)[v] = G(v)[v]
        BY <3>1, <4>1, <4>2, <4>3, AddsOnce
      <4>5. G(s)[s] = f[Any(s)] + G(s)[v]
        BY <3>1, <3>3, AddsIs
      <4>6. QED
        BY <3>3, <4>4, <4>5
    <3>4. QED
      BY <3>2, <3>3
  <2>3. ASSUME NEW s \in SUBSET T, s # {}
        PROVE  g[s] = f[Any(s)] + g[s \ {Any(s)}]
    <3>1. s \ {Any(s)} \in SUBSET T /\ s \ {Any(s)} # T
      BY <2>3, AnyIn
    <3>2. g[s \ {Any(s)}] = G(s \ {Any(s)})[s \ {Any(s)}]
      BY <2>2, <3>1
    <3>3. QED
      BY <2>3, <3>2
  <2>4. g = [s \in SUBSET T |-> g[s]] /\ \A s \in SUBSET T : s = {} => g[s] = 0
    OBVIOUS
  <2> HIDE DEF g
  <2>5. Adds(g, f, T)
    BY <2>3, <2>4 DEF Adds
  <2>6. QED
    BY <2>5
<1> HIDE DEF K
<1>2. SUBSET S \subseteq K
  BY <1>1, FiniteInduction
<1>3. QED
  BY <1>2 DEF K

LEMMA SumAdds ==
  ASSUME NEW f, NEW S, IsFiniteSet(S)
  PROVE  \E g : Adds(g, f, S) /\ SumFunctionOnSet(f, S) = g[S]
BY AddsExists, SumIs

\* What the recursion says: nothing for no element, else one element and the rest.
LEMMA SumUnfolds ==
  ASSUME NEW f, NEW S, IsFiniteSet(S)
  PROVE  /\ S = {} => SumFunctionOnSet(f, S) = 0
         /\ S # {} => SumFunctionOnSet(f, S) = f[Any(S)] + SumFunctionOnSet(f, S \ {Any(S)})
<1>1. PICK g : Adds(g, f, S) /\ SumFunctionOnSet(f, S) = g[S]
  BY SumAdds
<1>2. CASE S = {}
  BY <1>1, <1>2, AddsIs
<1>3. CASE S # {}
  <2> DEFINE T == S \ {Any(S)}
  <2>1. IsFiniteSet(T) /\ T \subseteq S
    BY FS_Subset
  <2>2. PICK h : Adds(h, f, T) /\ SumFunctionOnSet(f, T) = h[T]
    BY <2>1, SumAdds
  <2>3. g[T] = h[T]
    BY <1>1, <2>1, <2>2, AddsOnce
  <2>4. g[S] = f[Any(S)] + g[T]
    BY <1>1, <1>3, AddsIs
  <2>5. QED
    BY <1>1, <1>3, <2>2, <2>3, <2>4
<1>4. QED
  BY <1>2, <1>3

LEMMA SumType ==
  ASSUME NEW S, IsFiniteSet(S), NEW f, \A x \in S : f[x] \in Int
  PROVE  SumFunctionOnSet(f, S) \in Int
<1> DEFINE K == {T \in SUBSET S : SumFunctionOnSet(f, T) \in Int}
<1>1. ASSUME NEW T \in SUBSET S, \A U \in SUBSET T : U # T => U \in K
      PROVE  T \in K
  <2>1. IsFiniteSet(T)
    BY FS_Subset
  <2>2. CASE T = {}
    <3>1. SumFunctionOnSet(f, T) = 0
      BY <2>1, <2>2, SumUnfolds
    <3>2. QED
      BY <3>1
  <2>3. CASE T # {}
    <3>1. Any(T) \in T /\ T \ {Any(T)} \in K
      BY <1>1, <2>3, AnyIn
    <3>2. SumFunctionOnSet(f, T) = f[Any(T)] + SumFunctionOnSet(f, T \ {Any(T)})
      BY <2>1, <2>3, SumUnfolds
    <3>3. QED
      BY <3>1, <3>2
  <2>4. QED
    BY <2>2, <2>3
<1> HIDE DEF K
<1>2. SUBSET S \subseteq K
  BY <1>1, FiniteInduction
<1>3. QED
  BY <1>2 DEF K

\* It does not matter which element is taken first.
LEMMA SumTake ==
  ASSUME NEW S, IsFiniteSet(S), NEW f, \A x \in S : f[x] \in Int, NEW a \in S
  PROVE  SumFunctionOnSet(f, S) = f[a] + SumFunctionOnSet(f, S \ {a})
<1> DEFINE Sum(T) == SumFunctionOnSet(f, T)
           K == {T \in SUBSET S : \A x \in T : Sum(T) = f[x] + Sum(T \ {x})}
<1>1. \A T \in SUBSET S : IsFiniteSet(T) /\ Sum(T) \in Int
  BY FS_Subset, SumType
<1>2. \A T \in SUBSET S : T # {} => Sum(T) = f[Any(T)] + Sum(T \ {Any(T)})
  BY <1>1, SumUnfolds
<1> HIDE DEF Sum
<1>3. ASSUME NEW T \in SUBSET S, \A U \in SUBSET T : U # T => U \in K, NEW x \in T
      PROVE  Sum(T) = f[x] + Sum(T \ {x})
  <2> DEFINE c == Any(T)
  <2>1. c \in T /\ Sum(T) = f[c] + Sum(T \ {c})
    BY <1>2, AnyIn
  <2> HIDE DEF c
  <2>2. CASE x # c
    <3>1. T \ {c} \in K /\ T \ {x} \in K
      BY <1>3, <2>1
    <3>2. Sum(T \ {c}) = f[x] + Sum((T \ {c}) \ {x})
      BY <2>2, <3>1
    <3>3. Sum(T \ {x}) = f[c] + Sum((T \ {x}) \ {c})
      BY <2>1, <2>2, <3>1
    <3>4. (T \ {c}) \ {x} = (T \ {x}) \ {c}
      OBVIOUS
    <3>5. f[c] \in Int /\ f[x] \in Int /\ Sum((T \ {c}) \ {x}) \in Int
      BY <1>1, <2>1
    <3>6. Sum(T) = f[c] + (f[x] + Sum((T \ {c}) \ {x}))
      BY <2>1, <3>2
    <3>7. Sum(T \ {x}) = f[c] + Sum((T \ {c}) \ {x})
      BY <3>3, <3>4
    <3>8. QED
      BY <3>5, <3>6, <3>7
  <2>3. QED
    BY <2>1, <2>2
<1>4. \A T \in SUBSET S : (\A U \in SUBSET T : U # T => U \in K) => T \in K
  BY <1>3
<1> HIDE DEF K
<1>5. SUBSET S \subseteq K
  BY <1>4, FiniteInduction
<1>6. QED
  BY <1>5 DEF K, Sum

\* A sum over a part of S plus one more element.
LEMMA SumAdd ==
  ASSUME NEW S, IsFiniteSet(S), NEW f, \A x \in S : f[x] \in Int, NEW a, a \notin S, f[a] \in Int
  PROVE  SumFunctionOnSet(f, S \cup {a}) = f[a] + SumFunctionOnSet(f, S)
<1>1. IsFiniteSet(S \cup {a})
  BY FS_AddElement
<1>2. \A x \in S \cup {a} : f[x] \in Int
  OBVIOUS
<1>3. SumFunctionOnSet(f, S \cup {a}) = f[a] + SumFunctionOnSet(f, (S \cup {a}) \ {a})
  BY <1>1, <1>2, SumTake
<1>4. (S \cup {a}) \ {a} = S
  OBVIOUS
<1>5. QED
  BY <1>3, <1>4

\* Where one function exceeds the other by at most c everywhere, so do the sums by at
\* most c for every element.
LEMMA SumExceeds ==
  ASSUME NEW S, IsFiniteSet(S), NEW c \in Nat, NEW f, NEW g,
         \A x \in S : f[x] \in Int /\ g[x] \in Int /\ f[x] <= g[x] + c
  PROVE  SumFunctionOnSet(f, S) <= SumFunctionOnSet(g, S) + Cardinality(S) * c
<1> DEFINE F(T) == SumFunctionOnSet(f, T)
           G(T) == SumFunctionOnSet(g, T)
           K == {T \in SUBSET S : F(T) <= G(T) + Cardinality(T) * c}
<1>1. \A T \in SUBSET S : IsFiniteSet(T) /\ Cardinality(T) \in Nat /\ F(T) \in Int /\ G(T) \in Int
  BY FS_Subset, FS_CardinalityType, SumType
<1>2. \A T \in SUBSET S : T = {} => F(T) = 0 /\ G(T) = 0 /\ Cardinality(T) = 0
  BY <1>1, SumUnfolds, FS_EmptySet
<1>3. \A T \in SUBSET S : \A x \in T :
        /\ F(T) = f[x] + F(T \ {x}) /\ G(T) = g[x] + G(T \ {x})
        /\ Cardinality(T) = Cardinality(T \ {x}) + 1
  <2> SUFFICES ASSUME NEW T \in SUBSET S, NEW x \in T
               PROVE  /\ F(T) = f[x] + F(T \ {x}) /\ G(T) = g[x] + G(T \ {x})
                      /\ Cardinality(T) = Cardinality(T \ {x}) + 1
    OBVIOUS
  <2>1. \A y \in T : f[y] \in Int /\ g[y] \in Int
    OBVIOUS
  <2>2. F(T) = f[x] + F(T \ {x}) /\ G(T) = g[x] + G(T \ {x})
    BY <1>1, <2>1, SumTake
  <2>3. Cardinality(T \ {x}) = Cardinality(T) - 1
    BY <1>1, FS_RemoveElement
  <2>4. QED
    BY <1>1, <2>2, <2>3
<1> HIDE DEF F, G
<1>4. ASSUME NEW T \in SUBSET S, \A U \in SUBSET T : U # T => U \in K
      PROVE  T \in K
  <2>1. CASE T = {}
    BY <1>2, <2>1
  <2>2. CASE T # {}
    <3>1. PICK x : x \in T
      BY <2>2
    <3> DEFINE U == T \ {x}
    <3>2. F(U) <= G(U) + Cardinality(U) * c
      BY <1>4, <3>1
    <3>3. /\ F(T) = f[x] + F(U) /\ G(T) = g[x] + G(U)
          /\ Cardinality(T) = Cardinality(U) + 1
      BY <1>3, <3>1
    <3>4. /\ F(U) \in Int /\ G(U) \in Int /\ Cardinality(U) \in Nat
          /\ f[x] \in Int /\ g[x] \in Int /\ f[x] <= g[x] + c
      BY <1>1, <3>1
    <3>5. (Cardinality(U) + 1) * c = Cardinality(U) * c + c /\ Cardinality(U) * c \in Nat
      BY <3>4
    <3> HIDE DEF U
    <3>6. F(T) <= G(T) + Cardinality(T) * c
      BY <3>2, <3>3, <3>4, <3>5
    <3>7. QED
      BY <3>6
  <2>3. QED
    BY <2>1, <2>2
<1> HIDE DEF K
<1>5. SUBSET S \subseteq K
  BY <1>4, FiniteInduction
<1>6. QED
  BY <1>5 DEF K, F, G

\* No value grows, nor does the sum.
LEMMA SumMonotone ==
  ASSUME NEW S, IsFiniteSet(S), NEW f, NEW g,
         \A x \in S : f[x] \in Int /\ g[x] \in Int /\ f[x] <= g[x]
  PROVE  SumFunctionOnSet(f, S) <= SumFunctionOnSet(g, S)
<1>1. 0 \in Nat /\ \A x \in S : f[x] \in Int /\ g[x] \in Int /\ f[x] <= g[x] + 0
  OBVIOUS
<1>2. SumFunctionOnSet(f, S) <= SumFunctionOnSet(g, S) + Cardinality(S) * 0
  BY <1>1, SumExceeds
<1>3. Cardinality(S) * 0 = 0
  BY FS_CardinalityType
<1>4. SumFunctionOnSet(g, S) \in Int
  BY SumType
<1>5. QED
  BY <1>2, <1>3, <1>4

LEMMA SumSame ==
  ASSUME NEW S, IsFiniteSet(S), NEW f, NEW g,
         \A x \in S : f[x] \in Int /\ f[x] = g[x]
  PROVE  SumFunctionOnSet(f, S) = SumFunctionOnSet(g, S)
<1>1. SumFunctionOnSet(f, S) <= SumFunctionOnSet(g, S) /\ SumFunctionOnSet(g, S) <= SumFunctionOnSet(f, S)
  BY SumMonotone
<1>2. SumFunctionOnSet(f, S) \in Int /\ SumFunctionOnSet(g, S) \in Int
  BY SumType
<1>3. QED
  BY <1>1, <1>2

\* One value changes, and with it the sum.
LEMMA SumChange ==
  ASSUME NEW S, IsFiniteSet(S), NEW f, NEW g, NEW a \in S,
         \A x \in S : f[x] \in Int /\ g[x] \in Int,
         \A x \in S \ {a} : g[x] = f[x]
  PROVE  SumFunctionOnSet(g, S) = SumFunctionOnSet(f, S) - f[a] + g[a]
<1> DEFINE T == S \ {a}
<1>1. IsFiniteSet(T)
  BY FS_Subset
<1>2. SumFunctionOnSet(g, T) = SumFunctionOnSet(f, T)
  BY <1>1, SumSame
<1>3. SumFunctionOnSet(f, T) \in Int
  BY <1>1, SumType
<1>4. SumFunctionOnSet(f, S) = f[a] + SumFunctionOnSet(f, T)
  BY SumTake
<1>5. SumFunctionOnSet(g, S) = g[a] + SumFunctionOnSet(g, T)
  BY SumTake
<1> HIDE DEF T
<1>6. QED
  BY <1>2, <1>3, <1>4, <1>5

LEMMA SumZero ==
  ASSUME NEW S, IsFiniteSet(S), NEW f, \A x \in S : f[x] = 0
  PROVE  SumFunctionOnSet(f, S) = 0
<1> DEFINE K == {T \in SUBSET S : SumFunctionOnSet(f, T) = 0}
<1>1. ASSUME NEW T \in SUBSET S, \A U \in SUBSET T : U # T => U \in K
      PROVE  T \in K
  <2>1. IsFiniteSet(T)
    BY FS_Subset
  <2>2. CASE T = {}
    <3>1. SumFunctionOnSet(f, T) = 0
      BY <2>1, <2>2, SumUnfolds
    <3>2. QED
      BY <3>1
  <2>3. CASE T # {}
    <3>1. Any(T) \in T /\ T \ {Any(T)} \in K
      BY <1>1, <2>3, AnyIn
    <3>2. SumFunctionOnSet(f, T) = f[Any(T)] + SumFunctionOnSet(f, T \ {Any(T)})
      BY <2>1, <2>3, SumUnfolds
    <3>3. QED
      BY <3>1, <3>2
  <2>4. QED
    BY <2>2, <2>3
<1> HIDE DEF K
<1>2. SUBSET S \subseteq K
  BY <1>1, FiniteInduction
<1>3. QED
  BY <1>2 DEF K

\* The sum of two functions.
LEMMA SumPlus ==
  ASSUME NEW S, IsFiniteSet(S), NEW f, NEW g, NEW h,
         \A x \in S : f[x] \in Int /\ g[x] \in Int /\ h[x] = f[x] + g[x]
  PROVE  SumFunctionOnSet(h, S) = SumFunctionOnSet(f, S) + SumFunctionOnSet(g, S)
<1> DEFINE F(T) == SumFunctionOnSet(f, T)
           G(T) == SumFunctionOnSet(g, T)
           H(T) == SumFunctionOnSet(h, T)
           K == {T \in SUBSET S : H(T) = F(T) + G(T)}
<1>1. \A T \in SUBSET S : IsFiniteSet(T) /\ F(T) \in Int /\ G(T) \in Int
  BY FS_Subset, SumType
<1>2. \A T \in SUBSET S : T = {} => F(T) = 0 /\ G(T) = 0 /\ H(T) = 0
  BY <1>1, SumUnfolds
<1>3. \A T \in SUBSET S : T # {} =>
        /\ F(T) = f[Any(T)] + F(T \ {Any(T)})
        /\ G(T) = g[Any(T)] + G(T \ {Any(T)})
        /\ H(T) = h[Any(T)] + H(T \ {Any(T)})
  BY <1>1, SumUnfolds
<1> HIDE DEF F, G, H
<1>4. ASSUME NEW T \in SUBSET S, \A U \in SUBSET T : U # T => U \in K
      PROVE  T \in K
  <2>1. CASE T = {}
    BY <1>2, <2>1
  <2>2. CASE T # {}
    <3> DEFINE c == Any(T)
               U == T \ {Any(T)}
    <3>1. c \in T
      BY <2>2, AnyIn
    <3>2. H(U) = F(U) + G(U)
      BY <1>4, <3>1
    <3>3. F(T) = f[c] + F(U) /\ G(T) = g[c] + G(U) /\ H(T) = h[c] + H(U)
      BY <1>3, <2>2
    <3>4. /\ F(U) \in Int /\ G(U) \in Int /\ f[c] \in Int /\ g[c] \in Int
          /\ h[c] = f[c] + g[c]
      BY <1>1, <3>1
    <3> HIDE DEF U, c
    <3>5. H(T) = F(T) + G(T)
      BY <3>2, <3>3, <3>4
    <3>6. QED
      BY <3>5
  <2>3. QED
    BY <2>1, <2>2
<1> HIDE DEF K
<1>5. SUBSET S \subseteq K
  BY <1>4, FiniteInduction
<1>6. QED
  BY <1>5 DEF K, F, G, H

\* Naturals sum up to a natural, at most c for every element.
LEMMA SumBounds ==
  ASSUME NEW S, IsFiniteSet(S), NEW c \in Nat, NEW f, \A x \in S : f[x] \in 0..c
  PROVE  /\ SumFunctionOnSet(f, S) \in Nat
         /\ SumFunctionOnSet(f, S) <= Cardinality(S) * c
<1> DEFINE zero == [x \in S |-> 0]
<1>1. SumFunctionOnSet(zero, S) = 0
  BY SumZero
<1>2. SumFunctionOnSet(f, S) \in Int
  BY SumType
<1>3. SumFunctionOnSet(zero, S) <= SumFunctionOnSet(f, S)
  BY SumMonotone
<1>4. SumFunctionOnSet(f, S) <= SumFunctionOnSet(zero, S) + Cardinality(S) * c
  <2>1. \A x \in S : f[x] \in Int /\ zero[x] \in Int /\ f[x] <= zero[x] + c
    OBVIOUS
  <2> HIDE DEF zero
  <2>2. QED
    BY <2>1, SumExceeds
<1>5. Cardinality(S) * c \in Nat
  BY FS_CardinalityType
<1>6. QED
  BY <1>1, <1>2, <1>3, <1>4, <1>5

-----------------------------------------------------------------------------
(* The credit: types, and what does not depend on the order of the events  *)

\* A request works on an event that there is and that it has recorded, no two on the same.
HandlersWork ==
  /\ \A h \in Handler : handler[h].at # "idle" => handler[h].event \in sent \cap seen
  /\ \A h, i \in Handler :
       handler[h].at # "idle" /\ handler[i].at # "idle" /\ handler[h].event = handler[i].event => h = i

\* A run closes a month that has ended.
ClosersWork ==
  /\ month >= 2
  /\ \A c \in Closer : closer[c].at # "idle" => closer[c].month \in 1..month - 1

\* What a won dispute gives back is what the dispute has taken.
WonAsTaken == \A t \in Topup : ledger[t].won \in {0, ledger[t].dispute}

\* Where there are bills, one is the newest.
HasNewest == Closed # {} => \E n \in Closed : \A b \in Closed : b <= n

\* Conditions that do not depend on the order in which the events come.
BaseInv ==
  CreditTypeOK /\ HandlersWork /\ ClosersWork /\ WonAsTaken /\ ReversedAtMostPaid /\ HasNewest

-----------------------------------------------------------------------------
LEMMA RefundsType ==
  ASSUME CreditTypeOK, NEW t \in Topup
  PROVE  Refunds(t) \in Nat /\ Reversed(t) \in Nat
<1>1. ledger[t] \in Rows
  BY DEF CreditTypeOK
<1>2. ledger[t].refund \in [1..Paid -> 0..Paid] /\ ledger[t].dispute \in 0..Paid /\ Paid \in Nat
  BY <1>1, PaidAssumption DEF Rows
<1>3. IsFiniteSet(1..Paid)
  BY <1>2, FS_Interval
<1>4. \A x \in 1..Paid : ledger[t].refund[x] \in 0..Paid
  BY <1>2
<1>5. SumFunctionOnSet(ledger[t].refund, 1..Paid) \in Nat
  BY <1>2, <1>3, <1>4, SumBounds
<1>6. QED
  BY <1>2, <1>5 DEF Refunds, Reversed

\* What an event takes is not negative, and is left of the top-up.
LEMMA AmountType ==
  ASSUME CreditTypeOK, NEW e \in Event
  PROVE  /\ Amount(e) \in 0..Paid
         /\ Amount(e) # 0 => /\ RowOf(e) = 0
                             /\ Amount(e) <= New(e) /\ Amount(e) <= Left(e)
<1>1. e.top \in Topup /\ (e.type = "refunded" => e.sum \in 1..Paid)
  BY DEF Event
<1>2. Refunds(e.top) \in Nat /\ Reversed(e.top) \in Nat
  BY <1>1, RefundsType
<1>3. ledger[e.top] \in Rows /\ charge[e.top] \in Charge
  BY <1>1 DEF CreditTypeOK
<1>4. ledger[e.top].top \in {0, Paid} /\ charge[e.top].disputed \in 0..Paid /\ Paid \in Nat
  BY <1>3, PaidAssumption DEF Rows, Charge
<1>5. Left(e) \in Int /\ Left(e) <= Paid
  BY <1>2, <1>4 DEF Left
<1>6. New(e) \in Int
  BY <1>1, <1>2, <1>4 DEF New
<1>7. QED
  BY <1>4, <1>5, <1>6 DEF Amount, Most0, Least

\* A step of the ledger changes the rows of one top-up only.
LEMMA RowsType ==
  ASSUME CreditTypeOK, NEW t \in Topup
  PROVE  /\ ledger[t] \in Rows
         /\ ledger[t].top \in {0, Paid} /\ ledger[t].dispute \in 0..Paid /\ ledger[t].won \in 0..Paid
         /\ ledger[t].refund \in [1..Paid -> 0..Paid] /\ Worth(t) \in Int
<1>1. ledger[t] \in Rows
  BY DEF CreditTypeOK
<1>2. /\ ledger[t].top \in {0, Paid} /\ ledger[t].dispute \in 0..Paid /\ ledger[t].won \in 0..Paid
      /\ ledger[t].refund \in [1..Paid -> 0..Paid]
  BY <1>1 DEF Rows
<1>3. Refunds(t) \in Nat /\ Reversed(t) \in Nat /\ Paid \in Nat
  BY RefundsType, PaidAssumption
<1>4. QED
  BY <1>1, <1>2, <1>3 DEF Worth

\* What debitCredit does to the rows.
LEMMA DebitRows ==
  ASSUME CreditTypeOK, NEW e \in Event, Debit(e)
  PROVE  /\ ledger' \in [Topup -> Rows]
         /\ \A t \in Topup :
              /\ ledger'[t].top = ledger[t].top /\ ledger'[t].won = ledger[t].won
              /\ t # e.top => ledger'[t] = ledger[t]
         /\ Refunds(e.top)' = Refunds(e.top) + (IF e.type = "refunded" THEN Amount(e) ELSE 0)
         /\ ledger'[e.top].dispute = ledger[e.top].dispute + (IF e.type = "refunded" THEN 0 ELSE Amount(e))
         /\ \A c \in 1..Paid : ledger'[e.top].refund[c] # ledger[e.top].refund[c]
                                 => e.type = "refunded" /\ c = e.sum /\ Amount(e) # 0
<1> DEFINE u == e.top
<1>1. u \in Topup /\ (e.type = "refunded" => e.sum \in 1..Paid)
  BY DEF Event
<1>2. ledger \in [Topup -> Rows] /\ Amount(e) \in 0..Paid /\ Paid \in Nat
  BY AmountType, PaidAssumption DEF CreditTypeOK
<1>3. /\ ledger[u].refund \in [1..Paid -> 0..Paid] /\ ledger[u].dispute \in 0..Paid
      /\ Refunds(u) \in Nat /\ ledger[u] \in Rows
  BY <1>1, RowsType, RefundsType
<1>4. CASE Amount(e) = 0
  <2>1. ledger' = ledger
    BY <1>4 DEF Debit
  <2>2. Refunds(u)' = Refunds(u)
    BY <2>1 DEF Refunds
  <2>3. QED
    BY <1>2, <1>3, <1>4, <2>1, <2>2
<1>5. CASE Amount(e) # 0 /\ e.type = "refunded"
  <2> DEFINE f == ledger[u].refund
             g == [f EXCEPT ![e.sum] = Amount(e)]
  <2>1. ledger' = [ledger EXCEPT ![u].refund[e.sum] = Amount(e)]
    BY <1>5 DEF Debit
  <2>2. ledger' = [ledger EXCEPT ![u] = [ledger[u] EXCEPT !.refund = g]]
    BY <2>1
  <2>3. g \in [1..Paid -> 0..Paid]
    BY <1>1, <1>2, <1>3, <1>5
  <2>4. [ledger[u] EXCEPT !.refund = g] \in Rows
    BY <1>3, <2>3 DEF Rows
  <2>5. ledger'[u] = [ledger[u] EXCEPT !.refund = g] /\ \A t \in Topup \ {u} : ledger'[t] = ledger[t]
    BY <1>1, <1>2, <2>2
  <2>6. ledger'[u].refund = g /\ ledger'[u].dispute = ledger[u].dispute
        /\ ledger'[u].top = ledger[u].top /\ ledger'[u].won = ledger[u].won
    BY <1>3, <2>5 DEF Rows
  <2>7. Refunds(u)' = Refunds(u) + Amount(e)
    <3>1. f[e.sum] = 0
      BY <1>5, AmountType DEF RowOf
    <3> DEFINE S == 1..Paid
               k == e.sum
               n == Amount(e)
    <3>2. IsFiniteSet(S)
      BY <1>2, FS_Interval
    <3>3. k \in S
      BY <1>1, <1>5
    <3>4. g[k] = n /\ f[k] = 0
      BY <1>3, <3>1, <3>3
    <3>5. SumFunctionOnSet(g, S) = SumFunctionOnSet(f, S) - f[k] + g[k]
      <4>1. \A x \in S : f[x] \in Int /\ g[x] \in Int
        BY <1>2, <1>3, <2>3
      <4>2. \A x \in S \ {k} : g[x] = f[x]
        BY <1>3
      <4> HIDE DEF f, g, k, S
      <4>3. QED
        BY ONLY <3>2, <4>1, <4>2, <3>3, SumChange
    <3> HIDE DEF f, g, S
    <3>6. SumFunctionOnSet(g, S) = Refunds(u)' /\ SumFunctionOnSet(f, S) = Refunds(u)
      BY <2>6 DEF Refunds, f, S
    <3>7. QED
      BY <1>2, <1>3, <3>4, <3>5, <3>6 DEF n
  <2>8. ledger' \in [Topup -> Rows]
    BY <1>1, <1>2, <2>2, <2>4
  <2>9. \A c \in 1..Paid : g[c] # f[c] => c = e.sum
    BY <1>3
  <2>10. \A c \in 1..Paid : ledger'[u].refund[c] # ledger[u].refund[c] => c = e.sum
    BY <2>6, <2>9
  <2>11. \A t \in Topup : ledger'[t].top = ledger[t].top /\ ledger'[t].won = ledger[t].won
    BY <2>5, <2>6
  <2> HIDE DEF g, f
  <2>12. ledger'[u].dispute = ledger[u].dispute + 0
    BY <1>3, <2>6
  <2>13. QED
    BY <1>5, <2>5, <2>7, <2>8, <2>10, <2>11, <2>12
<1>6. CASE Amount(e) # 0 /\ e.type # "refunded"
  <2>1. ledger' = [ledger EXCEPT ![u].dispute = Amount(e)]
    BY <1>6 DEF Debit
  <2>2. ledger'[u] = [ledger[u] EXCEPT !.dispute = Amount(e)] /\ \A t \in Topup \ {u} : ledger'[t] = ledger[t]
    BY <1>1, <1>2, <2>1
  <2>3. [ledger[u] EXCEPT !.dispute = Amount(e)] \in Rows
    BY <1>2, <1>3 DEF Rows
  <2>4. ledger' \in [Topup -> Rows]
    BY <1>1, <1>2, <2>1, <2>3
  <2>5. ledger'[u].refund = ledger[u].refund /\ ledger'[u].dispute = Amount(e)
        /\ ledger'[u].top = ledger[u].top /\ ledger'[u].won = ledger[u].won
    BY <1>3, <2>2 DEF Rows
  <2>6. Refunds(u)' = Refunds(u)
    BY <2>5 DEF Refunds
  <2>7. ledger[u].dispute = 0
    BY <1>6, AmountType DEF RowOf
  <2>8. \A t \in Topup : ledger'[t].top = ledger[t].top /\ ledger'[t].won = ledger[t].won
    BY <2>2, <2>5
  <2>9. Refunds(u)' = Refunds(u) + 0 /\ ledger'[u].dispute = ledger[u].dispute + Amount(e)
    BY <1>2, <1>3, <2>5, <2>6, <2>7
  <2>10. QED
    BY <1>6, <2>2, <2>4, <2>5, <2>8, <2>9
<1>7. QED
  BY <1>4, <1>5, <1>6

\* The step is one of these.
CreditSteps(h) == Begin(h) \/ Credit(h) \/ Book(h) \/ Won(h) \/ Answer(h) \/ Fail(h) \/ Undo(h) \/ Die(h)
StripeSteps(t) == Pay(t) \/ Refund(t) \/ Dispute(t) \/ Win(t)
CloserSteps(c) == Select(c) \/ Prev(c) \/ Consume(c) \/ ChargeOnce(c) \/ InsertInvoice(c) \/ StopClosing(c)

HandlerTypes == [at : {"idle", "credit", "book", "won", "answer", "undo"}, event : Event \cup {NoEvent}]
CloserTypes == [at : {"idle", "prev", "consume", "charge", "insert"},
                month : 0..MaxMonth, customer : BOOLEAN, total : Nat, rest : Nat]

LEMMA InitBase == CreditInit => BaseInv
<1> SUFFICES ASSUME CreditInit PROVE BaseInv
  OBVIOUS
<1> USE PaidAssumption, BoundAssumption DEF CreditInit
<1>1. NoRows \in Rows
  BY DEF NoRows, Rows
<1>2. ledger \in [Topup -> Rows]
  BY <1>1
<1>3. charge \in [Topup -> Charge]
  BY DEF Charge
<1>4. handler \in [Handler -> HandlerTypes]
  BY DEF NoRequest, HandlerTypes
<1>5. closer \in [Closer -> CloserTypes]
  BY DEF NoRun, CloserTypes
<1>6. invoice \in [Month -> Bill]
  <2>1. \A m \in Month : cost[m] \in 0..MinInvoice - 1
    OBVIOUS
  <2>2. QED
    BY <2>1 DEF Bill
<1>7. consumed \in [Month -> Nat] /\ cost \in [Month -> Nat] /\ billed \in [Month -> Nat]
  <2>1. MinInvoice - 1 \in Nat /\ 0 \in Nat
    <3>1. MinInvoice \in Nat /\ MinInvoice # 0
      BY ONLY BoundAssumption
    <3>2. QED
      BY ONLY <3>1
  <2>2. cost \in [Month -> Nat]
    BY <2>1
  <2>3. consumed \in [Month -> Nat] /\ billed \in [Month -> Nat]
    OBVIOUS
  <2>4. QED
    BY <2>2, <2>3
<1>8. month \in 1..MaxMonth + 1 /\ faults \in 0..MaxFaults
  OBVIOUS
<1>9. CreditTypeOK
  BY <1>2, <1>3, <1>4, <1>5, <1>6, <1>7, <1>8 DEF CreditTypeOK, HandlerTypes, CloserTypes
<1>10. HandlersWork /\ ClosersWork /\ WonAsTaken
  BY DEF HandlersWork, ClosersWork, WonAsTaken, NoRequest, NoRun, NoRows
<1>11. ReversedAtMostPaid
  <2> SUFFICES ASSUME NEW t \in Topup PROVE Reversed(t) <= ledger[t].top
    BY DEF ReversedAtMostPaid
  <2>1. ledger[t].refund = [c \in 1..Paid |-> 0] /\ ledger[t].top = 0 /\ ledger[t].dispute = 0
    BY DEF NoRows
  <2>2. Refunds(t) = 0
    <3> DEFINE S == 1..Paid
    <3>1. IsFiniteSet(S)
      BY FS_Interval
    <3>2. \A x \in S : ledger[t].refund[x] = 0
      BY <2>1
    <3> HIDE DEF S
    <3>3. SumFunctionOnSet(ledger[t].refund, S) = 0
      BY ONLY <3>1, <3>2, SumZero
    <3>4. QED
      BY ONLY <3>3 DEF Refunds, S
  <2>3. QED
    BY <2>1, <2>2 DEF Reversed
<1>12. HasNewest
  <2>1. \A m \in Month : invoice[m].there <=> m = 1
    OBVIOUS
  <2>2. 1 \in Month
    BY BoundAssumption DEF Month
  <2>3. QED
    BY <2>1, <2>2 DEF HasNewest, Closed, Month
<1>13. QED
  BY <1>9, <1>10, <1>11, <1>12 DEF BaseInv

\* Stripe only adds to what it has sent.
LEMMA StripeTypes ==
  ASSUME CreditTypeOK, NEW t \in Topup, StripeSteps(t)
  PROVE  /\ charge' \in [Topup -> Charge]
         /\ sent' \subseteq Event /\ sent \subseteq sent'
         /\ \A u \in Topup \ {t} : charge'[u] = charge[u]
         /\ UNCHANGED <<customer, hooks, credit, closing, time, paygo, faults>>
<1>1. Paid \in Nat \ {0} /\ charge \in [Topup -> Charge] /\ charge[t] \in Charge /\ sent \subseteq Event
  BY PaidAssumption DEF CreditTypeOK
<1>2. /\ charge[t].paid \in BOOLEAN /\ charge[t].refunded \in 0..Paid
      /\ charge[t].disputed \in 0..Paid /\ charge[t].dispute \in {"none", "open", "won"}
  BY <1>1 DEF Charge
<1>3. CASE Pay(t)
  <2>1. [charge[t] EXCEPT !.paid = TRUE] \in Charge
    BY <1>1, <1>2 DEF Charge
  <2>2. [type |-> "paid", top |-> t, sum |-> 0] \in Event
    BY DEF Event
  <2>3. QED
    BY <1>1, <1>3, <2>1, <2>2 DEF Pay, Send
<1>4. CASE Refund(t)
  <2>1. PICK sum \in charge[t].refunded + 1..Paid :
          /\ charge' = [charge EXCEPT ![t].refunded = sum]
          /\ Send("refunded", t, sum)
    BY <1>4 DEF Refund
  <2>2. sum \in 1..Paid
    BY <1>1, <1>2, <2>1
  <2>3. [charge[t] EXCEPT !.refunded = sum] \in Charge
    BY <1>1, <1>2, <2>2 DEF Charge
  <2>4. [type |-> "refunded", top |-> t, sum |-> sum] \in Event
    BY <2>2 DEF Event
  <2>5. QED
    BY <1>1, <1>4, <2>1, <2>3, <2>4 DEF Refund, Send
<1>5. CASE Dispute(t)
  <2>1. Paid - charge[t].refunded \in 0..Paid
    BY <1>1, <1>2
  <2>2. [charge[t] EXCEPT !.dispute = "open", !.disputed = Paid - charge[t].refunded] \in Charge
    BY <1>1, <1>2, <2>1 DEF Charge
  <2>3. [type |-> "disputed", top |-> t, sum |-> 0] \in Event
    BY DEF Event
  <2>4. QED
    BY <1>1, <1>5, <2>2, <2>3 DEF Dispute, Send
<1>6. CASE Win(t)
  <2>1. [charge[t] EXCEPT !.dispute = "won"] \in Charge
    BY <1>1, <1>2 DEF Charge
  <2>2. [type |-> "won", top |-> t, sum |-> 0] \in Event
    BY DEF Event
  <2>3. QED
    BY <1>1, <1>6, <2>1, <2>2 DEF Win, Send
<1>7. QED
  BY <1>3, <1>4, <1>5, <1>6 DEF StripeSteps

\* What a request works on is an event of a top-up.
LEMMA WorksOn ==
  ASSUME BaseInv, NEW h \in Handler, handler[h].at # "idle"
  PROVE  /\ handler[h].event \in sent \cap seen
         /\ handler[h].event \in Event /\ handler[h].event.top \in Topup
         /\ handler[h] \in HandlerTypes
<1>1. handler[h].event \in sent \cap seen /\ sent \subseteq Event /\ handler[h] \in HandlerTypes
  BY DEF BaseInv, HandlersWork, CreditTypeOK, HandlerTypes
<1>2. QED
  BY <1>1 DEF Event

\* A request starts, goes on, or ends.
LEMMA RequestMoves ==
  ASSUME BaseInv, NEW h \in Handler, CreditSteps(h)
  PROVE  /\ handler' \in [Handler -> HandlerTypes]
         /\ \A i \in Handler \ {h} : handler'[i] = handler[i]
         /\ \/ Begin(h) /\ \E e \in sent \ (answered \cup seen) :
                  /\ handler'[h] = [at |-> "credit", event |-> e]
                  /\ seen' = seen \cup {e}
            \/ (Answer(h) \/ Die(h)) /\ handler'[h] = NoRequest /\ UNCHANGED seen
            \/ Undo(h) /\ handler'[h] = NoRequest /\ seen' = seen \ {handler[h].event}
            \/ /\ Credit(h) \/ Book(h) \/ Won(h) \/ Fail(h)
               /\ handler[h].at # "idle" /\ handler'[h].at # "idle"
               /\ handler'[h].event = handler[h].event /\ UNCHANGED seen
         /\ UNCHANGED <<stripe, time, closing>>
<1>1. handler \in [Handler -> HandlerTypes] /\ handler[h] \in HandlerTypes /\ sent \subseteq Event
  BY DEF BaseInv, CreditTypeOK, HandlerTypes
<1>2. NoRequest \in HandlerTypes /\ NoRequest.at = "idle"
  BY DEF NoRequest, HandlerTypes
<1>3. ASSUME NEW step \in {"book", "won", "answer", "undo"}, Goto(h, step)
      PROVE  /\ handler' \in [Handler -> HandlerTypes]
             /\ \A i \in Handler \ {h} : handler'[i] = handler[i]
             /\ handler'[h].at = step /\ handler'[h].event = handler[h].event
  <2>1. [handler[h] EXCEPT !.at = step] \in HandlerTypes
    BY <1>1 DEF HandlerTypes
  <2>2. QED
    BY <1>1, <1>3, <2>1 DEF Goto, HandlerTypes
<1>4. ASSUME handler' = [handler EXCEPT ![h] = NoRequest]
      PROVE  /\ handler' \in [Handler -> HandlerTypes]
             /\ \A i \in Handler \ {h} : handler'[i] = handler[i]
             /\ handler'[h] = NoRequest
  BY <1>1, <1>2, <1>4
<1>5. CASE Begin(h)
  <2>1. PICK e \in sent \ (answered \cup seen) :
          /\ seen' = seen \cup {e}
          /\ handler' = [handler EXCEPT ![h] = [at |-> "credit", event |-> e]]
    BY <1>5 DEF Begin
  <2>2. [at |-> "credit", event |-> e] \in HandlerTypes
    BY <1>1, <2>1 DEF HandlerTypes
  <2>3. UNCHANGED <<stripe, time, closing>>
    BY <1>5 DEF Begin
  <2>4. QED
    BY <1>1, <1>5, <2>1, <2>2, <2>3
<1>6. CASE Answer(h)
  BY <1>4, <1>6 DEF Answer
<1>7. CASE Die(h)
  BY <1>4, <1>7 DEF Die
<1>8. CASE Undo(h)
  BY <1>4, <1>8 DEF Undo
<1>9. CASE Credit(h)
  <2>1. PICK step \in {"book", "won", "answer", "undo"} : Goto(h, step)
    <3> DEFINE s == CASE handler[h].event.type = "paid" -> "answer"
                      [] handler[h].event.type = "won"  -> "won"
                      [] OTHER                          -> "book"
    <3>1. Goto(h, s)
      BY <1>9 DEF Credit
    <3>2. s \in {"book", "won", "answer", "undo"}
      OBVIOUS
    <3> HIDE DEF s
    <3>3. QED
      BY <3>1, <3>2
  <2>2. handler[h].at = "credit" /\ UNCHANGED <<seen, stripe, time, closing>>
    BY <1>9 DEF Credit, At
  <2>3. QED
    BY <1>3, <1>9, <2>1, <2>2
<1>10. CASE Book(h)
  <2>1. handler[h].at = "book" /\ UNCHANGED <<seen, stripe, time, closing>> /\ Goto(h, "answer")
    BY <1>10 DEF Book, At
  <2>2. QED
    BY <1>3, <1>10, <2>1
<1>11. CASE Won(h)
  <2>1. handler[h].at = "won" /\ UNCHANGED <<seen, stripe, time, closing>> /\ Goto(h, "answer")
    BY <1>11 DEF Won, At
  <2>2. QED
    BY <1>3, <1>11, <2>1
<1>12. CASE Fail(h)
  <2>1. handler[h].at # "idle" /\ UNCHANGED <<seen, stripe, time, closing>> /\ Goto(h, "undo")
    BY <1>12 DEF Fail
  <2>2. QED
    BY <1>3, <1>12, <2>1
<1>13. QED
  BY <1>5, <1>6, <1>7, <1>8, <1>9, <1>10, <1>11, <1>12 DEF CreditSteps

LEMMA RequestsWork ==
  ASSUME BaseInv, NEW h \in Handler, CreditSteps(h)
  PROVE  HandlersWork'
<1>1. /\ \A i \in Handler \ {h} : handler'[i] = handler[i]
      /\ \/ \E e \in sent \ (answered \cup seen) :
              handler'[h] = [at |-> "credit", event |-> e] /\ seen' = seen \cup {e}
         \/ handler'[h] = NoRequest /\ UNCHANGED seen
         \/ handler'[h] = NoRequest /\ seen' = seen \ {handler[h].event} /\ handler[h].at # "idle"
         \/ /\ handler[h].at # "idle" /\ handler'[h].at # "idle"
            /\ handler'[h].event = handler[h].event /\ UNCHANGED seen
      /\ sent' = sent
  <2>1. Undo(h) => handler[h].at # "idle"
    BY DEF Undo, At
  <2>2. UNCHANGED stripe => sent' = sent
    BY DEF stripe
  <2>3. QED
    BY <2>1, <2>2, RequestMoves
<1>2. /\ \A i \in Handler : handler[i].at # "idle" => handler[i].event \in sent \cap seen
      /\ \A i, j \in Handler : handler[i].at # "idle" /\ handler[j].at # "idle"
                                 /\ handler[i].event = handler[j].event => i = j
  BY DEF BaseInv, HandlersWork
<1>3. CASE \E e \in sent \ (answered \cup seen) :
              handler'[h] = [at |-> "credit", event |-> e] /\ seen' = seen \cup {e}
  <2>1. PICK e \in sent \ (answered \cup seen) :
              handler'[h].at = "credit" /\ handler'[h].event = e /\ seen' = seen \cup {e}
    BY <1>3
  <2>2. \A i \in Handler : handler'[i].at # "idle" => handler'[i].event \in sent \cap seen'
    BY <1>1, <1>2, <2>1
  <2>3. \A i \in Handler \ {h} : handler'[i].at # "idle" => handler'[i].event # e
    BY <1>1, <1>2, <2>1
  <2>4. QED
    BY <1>1, <1>2, <2>1, <2>2, <2>3 DEF HandlersWork
<1>4. CASE handler'[h] = NoRequest
  <2>1. handler'[h].at = "idle"
    BY <1>4 DEF NoRequest
  <2>2. CASE seen' = seen
    BY <1>1, <1>2, <2>1, <2>2 DEF HandlersWork
  <2>3. CASE seen' = seen \ {handler[h].event} /\ handler[h].at # "idle"
    BY <1>1, <1>2, <2>1, <2>3 DEF HandlersWork
  <2>4. QED
    BY <1>1, <2>2, <2>3, <1>4, <2>1
<1>5. CASE /\ handler[h].at # "idle" /\ handler'[h].at # "idle"
           /\ handler'[h].event = handler[h].event /\ UNCHANGED seen
  BY <1>1, <1>2, <1>5 DEF HandlersWork
<1>6. QED
  BY <1>1, <1>3, <1>4, <1>5

\* What the steps of a request do to the rows.
LEMMA CreditRows ==
  ASSUME BaseInv, NEW h \in Handler, Credit(h), NEW t, t = handler[h].event.top
  PROVE  /\ ledger' \in [Topup -> Rows]
         /\ \A u \in Topup : u # t => ledger'[u] = ledger[u]
         /\ ledger'[t].top = Paid /\ ledger'[t].dispute = ledger[t].dispute
         /\ ledger'[t].won = ledger[t].won /\ ledger'[t].refund = ledger[t].refund
         /\ Refunds(t)' = Refunds(t)
<1>1. handler[h].at # "idle" /\ AddTopup(t)
  BY DEF Credit, At
<1>2. t \in Topup /\ ledger \in [Topup -> Rows] /\ ledger[t] \in Rows
  BY <1>1, WorksOn DEF BaseInv, CreditTypeOK
<1>3. ledger' = [ledger EXCEPT ![t] = [ledger[t] EXCEPT !.top = Paid]]
  BY <1>1 DEF AddTopup
<1>4. [ledger[t] EXCEPT !.top = Paid] \in Rows
  BY <1>2 DEF Rows
<1>5. ledger' \in [Topup -> Rows] /\ \A u \in Topup : u # t => ledger'[u] = ledger[u]
  BY <1>2, <1>3, <1>4
<1>6. ledger'[t].top = Paid /\ ledger'[t].dispute = ledger[t].dispute
      /\ ledger'[t].won = ledger[t].won /\ ledger'[t].refund = ledger[t].refund
  BY <1>2, <1>3 DEF Rows
<1>7. SumFunctionOnSet(ledger'[t].refund, 1..Paid) = SumFunctionOnSet(ledger[t].refund, 1..Paid)
  BY <1>6
<1>8. QED
  BY <1>5, <1>6, <1>7 DEF Refunds

LEMMA WonRows ==
  ASSUME BaseInv, NEW h \in Handler, Won(h), NEW t, t = handler[h].event.top
  PROVE  /\ ledger' \in [Topup -> Rows]
         /\ \A u \in Topup : u # t => ledger'[u] = ledger[u]
         /\ ledger'[t].top = ledger[t].top /\ ledger'[t].dispute = ledger[t].dispute
         /\ ledger'[t].won = ledger[t].dispute /\ ledger'[t].refund = ledger[t].refund
         /\ Refunds(t)' = Refunds(t)
<1>1. handler[h].at # "idle" /\ ledger' = [ledger EXCEPT ![t].won = ledger[t].dispute]
  BY DEF Won, At
<1>2. t \in Topup /\ ledger \in [Topup -> Rows] /\ ledger[t] \in Rows
  BY <1>1, WorksOn DEF BaseInv, CreditTypeOK
<1>3. ledger' = [ledger EXCEPT ![t] = [ledger[t] EXCEPT !.won = ledger[t].dispute]]
  BY <1>1
<1>4. [ledger[t] EXCEPT !.won = ledger[t].dispute] \in Rows
  BY <1>2 DEF Rows
<1>5. ledger' \in [Topup -> Rows] /\ \A u \in Topup : u # t => ledger'[u] = ledger[u]
  BY <1>2, <1>3, <1>4
<1>6. ledger'[t].top = ledger[t].top /\ ledger'[t].dispute = ledger[t].dispute
      /\ ledger'[t].won = ledger[t].dispute /\ ledger'[t].refund = ledger[t].refund
  BY <1>2, <1>3 DEF Rows
<1>7. SumFunctionOnSet(ledger'[t].refund, 1..Paid) = SumFunctionOnSet(ledger[t].refund, 1..Paid)
  BY <1>6
<1>8. QED
  BY <1>5, <1>6, <1>7 DEF Refunds

-----------------------------------------------------------------------------
(* The balance, and the months                                             *)

LEMMA MaxIs ==
  ASSUME NEW S, S \subseteq Int, NEW n \in S, \A b \in S : b <= n
  PROVE  Max(S) = n
<1>1. \A y \in S : n >= y
  OBVIOUS
<1>2. Max(S) \in S /\ \A y \in S : Max(S) >= y
  BY <1>1 DEF Max
<1> DEFINE k == Max(S)
<1>3. k \in Int /\ k >= n /\ n >= k /\ n \in Int
  BY <1>1, <1>2
<1> HIDE DEF k
<1>4. k = n
  BY <1>3
<1>5. QED
  BY <1>4 DEF k

LEMMA CarriedIs ==
  ASSUME CreditTypeOK
  PROVE  /\ Closed = {} => Carried = 0
         /\ \A n \in Closed : (\A b \in Closed : b <= n) => Carried = invoice[n].carriedOut
         /\ HasNewest => Carried \in Nat
<1>1. Closed = {} => Carried = 0
  BY DEF Closed, Carried
<1>2. ASSUME NEW n \in Closed, \A b \in Closed : b <= n
      PROVE  Carried = invoice[n].carriedOut
  <2>1. Closed \subseteq Int
    BY DEF Closed, Month
  <2>2. Max(Closed) = n
    BY <1>2, <2>1, MaxIs
  <2>3. Carried = IF Closed = {} THEN 0 ELSE invoice[Max(Closed)].carriedOut
    BY DEF Carried, Closed
  <2>4. QED
    BY <1>2, <2>2, <2>3
<1>3. \A n \in Closed : invoice[n].carriedOut \in Nat
  <2>1. MinInvoice \in Nat
    BY BoundAssumption
  <2>2. \A n \in Closed : invoice[n] \in Bill
    BY DEF CreditTypeOK, Closed
  <2>3. QED
    BY <2>1, <2>2 DEF Bill
<1>4. QED
  BY <1>1, <1>2, <1>3 DEF HasNewest

LEMMA MonthIsFinite == IsFiniteSet(Month)
BY BoundAssumption, FS_Interval DEF Month

LEMMA BalanceType == ASSUME CreditTypeOK PROVE Balance \in Int
<1> DEFINE worths == [t \in Topup |-> Worth(t)]
<1>1. \A t \in Topup : worths[t] \in Int
  BY RowsType
<1>2. \A m \in Month : consumed[m] \in Int
  BY DEF CreditTypeOK
<1>3. SumFunctionOnSet(consumed, Month) \in Int
  BY ONLY <1>2, MonthIsFinite, SumType
<1> HIDE DEF worths
<1>4. SumFunctionOnSet(worths, Topup) \in Int
  BY ONLY <1>1, TopupAssumption, SumType
<1>5. QED
  BY <1>3, <1>4 DEF Balance, worths

LEMMA WorthOfRows ==
  ASSUME NEW l \in Rows
  PROVE  l.top + l.won - (SumFunctionOnSet(l.refund, 1..Paid) + l.dispute) \in Int
<1>1. /\ l.top \in {0, Paid} /\ l.dispute \in 0..Paid /\ l.won \in 0..Paid
      /\ l.refund \in [1..Paid -> 0..Paid] /\ Paid \in Nat
  BY PaidAssumption DEF Rows
<1>2. IsFiniteSet(1..Paid)
  BY <1>1, FS_Interval
<1>3. \A x \in 1..Paid : l.refund[x] \in Int
  BY <1>1
<1>4. SumFunctionOnSet(l.refund, 1..Paid) \in Int
  BY <1>2, <1>3, SumType
<1>5. QED
  BY <1>1, <1>4

\* The rows of one top-up change, and the balance with its worth.
LEMMA BalanceMoves ==
  ASSUME CreditTypeOK, ledger' \in [Topup -> Rows], NEW t \in Topup,
         \A u \in Topup : u # t => ledger'[u] = ledger[u], consumed' = consumed
  PROVE  Balance' = Balance - Worth(t) + Worth(t)' /\ Worth(t) \in Int /\ Worth(t)' \in Int
<1>1. PICK f : f = [u \in Topup |-> Worth(u)]
  OBVIOUS
<1>2. PICK g : g = [u \in Topup |-> Worth(u)']
  OBVIOUS
<1>3. \A u \in Topup : Worth(u) \in Int
  BY RowsType
<1>4. \A u \in Topup : Worth(u)' \in Int
  BY WorthOfRows DEF Worth, Reversed, Refunds
<1>5. SumFunctionOnSet(g, Topup) = SumFunctionOnSet(f, Topup) - f[t] + g[t]
  <2>1. \A u \in Topup : f[u] \in Int /\ g[u] \in Int
    BY <1>1, <1>2, <1>3, <1>4
  <2>2. \A u \in Topup \ {t} : g[u] = f[u]
    BY <1>1, <1>2 DEF Worth, Reversed, Refunds
  <2>3. QED
    BY ONLY TopupAssumption, t \in Topup, <2>1, <2>2, SumChange
<1>6. SumFunctionOnSet(f, Topup) \in Int /\ SumFunctionOnSet(consumed, Month) \in Int
  <2>1. \A u \in Topup : f[u] \in Int
    BY <1>1, <1>3
  <2>2. \A m \in Month : consumed[m] \in Int
    BY DEF CreditTypeOK
  <2>3. SumFunctionOnSet(consumed, Month) \in Int
    BY ONLY <2>2, MonthIsFinite, SumType
  <2>4. SumFunctionOnSet(f, Topup) \in Int
    BY ONLY <2>1, TopupAssumption, SumType
  <2>5. QED
    BY <2>3, <2>4
<1>7. /\ Balance = SumFunctionOnSet(f, Topup) - SumFunctionOnSet(consumed, Month)
      /\ Balance' = SumFunctionOnSet(g, Topup) - SumFunctionOnSet(consumed, Month)
  BY <1>1, <1>2 DEF Balance
<1>8. f[t] = Worth(t) /\ g[t] = Worth(t)' /\ Worth(t) \in Int /\ Worth(t)' \in Int
  BY <1>1, <1>2, <1>3, <1>4
<1>9. QED
  BY ONLY <1>5, <1>6, <1>7, <1>8

\* What the runs that close a month change, and what they leave alone.
LEMMA CloserBase ==
  ASSUME BaseInv, NEW c \in Closer, CloserSteps(c)
  PROVE  /\ closer' \in [Closer -> CloserTypes]
         /\ consumed' \in [Month -> Nat] /\ billed' \in [Month -> Nat]
         /\ invoice' \in [Month -> Bill] /\ faults' \in 0..MaxFaults
         /\ doubled' \in BOOLEAN /\ late' \in BOOLEAN
         /\ ClosersWork' /\ HasNewest'
         /\ UNCHANGED <<stripe, hooks, ledger, time, paygo>>
<1>1. /\ closer \in [Closer -> CloserTypes] /\ closer[c] \in CloserTypes
      /\ consumed \in [Month -> Nat] /\ billed \in [Month -> Nat] /\ cost \in [Month -> Nat]
      /\ invoice \in [Month -> Bill] /\ doubled \in BOOLEAN /\ late \in BOOLEAN /\ faults \in 0..MaxFaults
      /\ month \in 1..MaxMonth + 1 /\ customer \in BOOLEAN /\ ClosersWork /\ HasNewest
  BY DEF BaseInv, CreditTypeOK, CloserTypes
<1>2. MaxMonth \in Nat /\ MinInvoice \in Nat /\ MinInvoice # 0 /\ MaxFaults \in Nat
  BY BoundAssumption
<1>3. Carried \in Nat
  BY CarriedIs DEF BaseInv
<1>4. closer[c].at # "idle" => closer[c].month \in Month /\ closer[c].month \in 1..month - 1
  <2>1. closer[c].at # "idle" => closer[c].month \in 1..month - 1
    BY <1>1 DEF ClosersWork
  <2>2. QED
    BY <1>1, <1>2, <2>1 DEF Month
<1>5. NoRun \in CloserTypes /\ NoRun.at = "idle"
  BY <1>2 DEF NoRun, CloserTypes
<1>6. ASSUME NEW job \in CloserTypes, Step(c, job), job.at # "idle" => job.month \in 1..month - 1,
             month' = month
      PROVE  closer' \in [Closer -> CloserTypes] /\ ClosersWork'
  <2>1. closer' \in [Closer -> CloserTypes] /\ closer'[c] = job
        /\ \A d \in Closer \ {c} : closer'[d] = closer[d]
    BY <1>1, <1>6 DEF Step
  <2>2. QED
    BY <1>1, <1>6, <2>1 DEF ClosersWork
<1>7. UNCHANGED invoice => HasNewest'
  BY <1>1 DEF HasNewest, Closed
<1>8. CASE Select(c)
  <2> DEFINE job == [at |-> "prev", month |-> month - 1, customer |-> customer, total |-> 0, rest |-> 0]
  <2>1. month - 1 \in 1..month - 1 /\ month - 1 \in 0..MaxMonth
    BY <1>1, <1>2 DEF ClosersWork
  <2>2. job \in CloserTypes /\ job.month = month - 1
    BY <1>1, <2>1 DEF CloserTypes
  <2>3. Step(c, job) /\ UNCHANGED <<stripe, hooks, credit, invoice, billed, time, paygo, faults>>
        /\ doubled' \in BOOLEAN /\ late' \in BOOLEAN
    BY <1>8 DEF Select
  <2>4. month' = month /\ consumed' = consumed /\ ledger' = ledger
    BY <2>3 DEF time, credit, overlap
  <2> HIDE DEF job
  <2>5. QED
    BY <1>1, <1>6, <1>7, <2>1, <2>2, <2>3, <2>4
<1>9. CASE Prev(c)
  <2> DEFINE total == cost[closer[c].month] + Carried
             job == [closer[c] EXCEPT !.at = IF Due(total) THEN "consume" ELSE "insert", !.total = total]
  <2>1. closer[c].at # "idle"
    BY <1>9 DEF Prev
  <2>2. total \in Nat
    BY <1>1, <1>3, <1>4, <2>1
  <2>3. Step(c, job) /\ UNCHANGED <<stripe, hooks, credit, invoice, billed, overlap, time, paygo, faults>>
    BY <1>9 DEF Prev
  <2> HIDE DEF total
  <2>4. job \in CloserTypes /\ job.month = closer[c].month
    BY <1>1, <2>2 DEF CloserTypes
  <2>5. month' = month /\ consumed' = consumed /\ ledger' = ledger
    BY <2>3 DEF time, credit, overlap
  <2> HIDE DEF job
  <2>6. QED
    BY <1>1, <1>4, <1>6, <1>7, <2>1, <2>3, <2>4, <2>5 DEF overlap
<1>10. CASE Consume(c)
  <2> DEFINE m   == closer[c].month
             use == IF consumed[m] # 0 THEN consumed[m] ELSE Least(Most0(Balance), closer[c].total)
             job == [closer[c] EXCEPT !.at = IF closer[c].total > use THEN "charge" ELSE "insert",
                                      !.rest = Most0(closer[c].total - use)]
  <2>1. closer[c].at # "idle"
    BY <1>10 DEF Consume
  <2>2. m \in Month /\ closer[c].total \in Nat
    BY <1>1, <1>4, <2>1 DEF CloserTypes
  <2>3. Balance \in Int
    BY BalanceType DEF BaseInv
  <2>4. use \in Nat
    BY <1>1, <2>2, <2>3 DEF Least, Most0
  <2>5. Step(c, job) /\ consumed' = [consumed EXCEPT ![m] = use]
        /\ UNCHANGED <<stripe, hooks, ledger, invoice, billed, overlap, time, paygo, faults>>
    BY <1>10 DEF Consume
  <2> HIDE DEF use
  <2>6. Most0(closer[c].total - use) \in Nat
    BY <2>2, <2>4 DEF Most0
  <2>7. job \in CloserTypes /\ job.month = closer[c].month
    BY <1>1, <2>6 DEF CloserTypes
  <2>8. month' = month
    BY <2>5 DEF time
  <2>9. consumed' \in [Month -> Nat]
    BY <1>1, <2>2, <2>4, <2>5
  <2> HIDE DEF job, m
  <2>10. QED
    BY <1>1, <1>4, <1>6, <1>7, <2>1, <2>5, <2>7, <2>8, <2>9 DEF overlap
<1>11. CASE ChargeOnce(c)
  <2> DEFINE m   == closer[c].month
             job == [closer[c] EXCEPT !.at = "insert"]
  <2>1. closer[c].at # "idle"
    BY <1>11 DEF ChargeOnce
  <2>2. m \in Month /\ closer[c].rest \in Nat
    BY <1>1, <1>4, <2>1 DEF CloserTypes
  <2>3. Step(c, job) /\ billed' \in {billed, [billed EXCEPT ![m] = billed[m] + closer[c].rest]}
        /\ UNCHANGED <<stripe, hooks, credit, invoice, overlap, time, paygo, faults>>
    BY <1>1, <1>11, <2>2 DEF ChargeOnce
  <2>4. job \in CloserTypes /\ job.month = closer[c].month
    BY <1>1 DEF CloserTypes
  <2>5. month' = month /\ consumed' = consumed /\ ledger' = ledger
    BY <2>3 DEF time, credit, overlap
  <2>6. billed' \in [Month -> Nat]
    BY <1>1, <2>2, <2>3
  <2> HIDE DEF job, m
  <2>7. QED
    BY <1>1, <1>4, <1>6, <1>7, <2>1, <2>3, <2>4, <2>5, <2>6 DEF overlap
<1>12. CASE InsertInvoice(c)
  <2> DEFINE m   == closer[c].month
             out == IF Due(closer[c].total) THEN 0 ELSE closer[c].total
             open == IF closer[c].customer THEN 0 ELSE closer[c].rest
             bill == IF invoice[m].there THEN invoice[m] ELSE [there |-> TRUE, carriedOut |-> out, unpaid |-> open]
  <2>1. closer[c].at # "idle"
    BY <1>12 DEF InsertInvoice, Bills
  <2>2. m \in Month /\ closer[c].total \in Nat /\ open \in Nat
    BY <1>1, <1>4, <2>1 DEF CloserTypes
  <2>3. out \in 0..MinInvoice - 1
    BY <1>2, <2>2 DEF Due
  <2>4. /\ Step(c, NoRun) /\ invoice' = [invoice EXCEPT ![m] = bill]
        /\ UNCHANGED <<stripe, hooks, credit, billed, overlap, time, paygo, faults>>
    BY <1>1, <1>12, <2>2 DEF InsertInvoice, Bills
  <2> HIDE DEF out, open
  <2>5. bill \in Bill /\ bill.there
    BY <1>1, <2>2, <2>3 DEF Bill
  <2>6. month' = month /\ consumed' = consumed /\ ledger' = ledger
    BY <2>4 DEF time, credit, overlap
  <2> HIDE DEF bill, m
  <2>7. invoice' \in [Month -> Bill]
    BY <1>1, <2>2, <2>4, <2>5
  <2>8. Closed' = Closed \cup {m}
    BY <1>1, <2>2, <2>4, <2>5 DEF Closed
  <2>9. HasNewest'
    <3>1. Closed \subseteq Int /\ m \in Int
      BY <2>2 DEF Closed, Month
    <3>2. \E n \in Closed \cup {m} : \A b \in Closed \cup {m} : b <= n
      <4>1. CASE Closed = {}
        BY <3>1, <4>1
      <4>2. CASE Closed # {}
        <5>1. PICK n \in Closed : \A b \in Closed : b <= n
          BY <1>1, <4>2 DEF HasNewest
        <5>2. CASE m <= n
          BY <3>1, <5>1, <5>2
        <5>3. CASE n < m
          <6>1. \A b \in Closed \cup {m} : b <= m
            BY <3>1, <5>1, <5>3
          <6>2. QED
            BY <6>1
        <5>4. QED
          BY <3>1, <5>2, <5>3
      <4>3. QED
        BY <4>1, <4>2
    <3>3. QED
      BY <2>8, <3>2 DEF HasNewest
  <2>10. QED
    BY <1>1, <1>5, <1>6, <2>4, <2>6, <2>7, <2>9 DEF overlap
<1>13. CASE StopClosing(c)
  <2>1. /\ Step(c, NoRun) /\ doubled' \in BOOLEAN /\ late' = late /\ faults < MaxFaults /\ faults' = faults + 1
        /\ UNCHANGED <<stripe, hooks, credit, invoice, billed, time, paygo>>
    BY <1>13 DEF StopClosing, Fault
  <2>2. month' = month /\ consumed' = consumed /\ ledger' = ledger
    BY <2>1 DEF time, credit, overlap
  <2>3. faults' \in 0..MaxFaults
    BY <1>1, <1>2, <2>1
  <2>4. QED
    BY <1>1, <1>5, <1>6, <1>7, <2>1, <2>2, <2>3
<1>14. QED
  BY <1>8, <1>9, <1>10, <1>11, <1>12, <1>13 DEF CloserSteps

\* The steps of a request keep the rows in order, and leave no debt with Pay-as-you-go on.
LEMMA RequestRows ==
  ASSUME BaseInv, NEW h \in Handler, CreditSteps(h)
  PROVE  /\ ledger' \in [Topup -> Rows] /\ consumed' = consumed
         /\ payg' \in BOOLEAN /\ blind' \in BOOLEAN /\ looked' = looked
         /\ WonAsTaken' /\ ReversedAtMostPaid' /\ (DebtStopsPayg => DebtStopsPayg')
<1>1. /\ CreditTypeOK /\ ledger \in [Topup -> Rows] /\ payg \in BOOLEAN /\ blind \in BOOLEAN
      /\ \A t \in Topup : ledger[t].won \in {0, ledger[t].dispute}
      /\ \A t \in Topup : Refunds(t) + ledger[t].dispute <= ledger[t].top
  BY DEF BaseInv, CreditTypeOK, WonAsTaken, ReversedAtMostPaid, Reversed
<1>2. Paid \in Nat
  BY PaidAssumption
<1>3. ASSUME UNCHANGED <<ledger, consumed, paygo>>
      PROVE  /\ ledger' \in [Topup -> Rows] /\ consumed' = consumed
             /\ payg' \in BOOLEAN /\ blind' \in BOOLEAN /\ looked' = looked
             /\ WonAsTaken' /\ ReversedAtMostPaid' /\ (DebtStopsPayg => DebtStopsPayg')
  <2>1. WonAsTaken'
    BY <1>1, <1>3 DEF WonAsTaken
  <2>2. ReversedAtMostPaid'
    BY <1>1, <1>3 DEF ReversedAtMostPaid, Reversed, Refunds
  <2>3. Balance' = Balance
    BY <1>3 DEF Balance, Worth, Reversed, Refunds
  <2>4. QED
    BY <1>1, <1>3, <2>1, <2>2, <2>3 DEF DebtStopsPayg, paygo
<1>4. ASSUME ledger' \in [Topup -> Rows], consumed' = consumed, NEW t \in Topup,
             \A u \in Topup : u # t => ledger'[u] = ledger[u],
             ledger'[t].won \in {0, ledger'[t].dispute},
             Refunds(t)' + ledger'[t].dispute <= ledger'[t].top
      PROVE  /\ WonAsTaken' /\ ReversedAtMostPaid'
             /\ Worth(t) \in Int /\ Worth(t)' \in Int /\ Balance \in Int
             /\ Balance' = Balance - Worth(t) + Worth(t)'
  <2>1. WonAsTaken'
    BY <1>1, <1>4 DEF WonAsTaken
  <2>2. \A u \in Topup : Refunds(u)' + ledger'[u].dispute <= ledger'[u].top
    <3> SUFFICES ASSUME NEW u \in Topup PROVE Refunds(u)' + ledger'[u].dispute <= ledger'[u].top
      OBVIOUS
    <3>1. CASE u = t
      BY <1>4, <3>1
    <3>2. CASE u # t
      <4>1. ledger'[u] = ledger[u]
        BY <1>4, <3>2
      <4>2. Refunds(u)' = Refunds(u)
        BY <4>1 DEF Refunds
      <4>3. QED
        BY <1>1, <4>1, <4>2
    <3>3. QED
      BY <3>1, <3>2
  <2>3. ReversedAtMostPaid'
    BY <2>2 DEF ReversedAtMostPaid, Reversed
  <2>4. Balance' = Balance - Worth(t) + Worth(t)' /\ Worth(t) \in Int /\ Worth(t)' \in Int
    BY <1>1, <1>4, BalanceMoves
  <2>5. Balance \in Int
    BY <1>1, BalanceType
  <2>6. QED
    BY <2>1, <2>3, <2>4, <2>5
<1>5. CASE Credit(h)
  <2>1. handler[h].at # "idle" /\ consumed' = consumed /\ UNCHANGED paygo
    BY <1>5 DEF Credit, At
  <2>2. PICK t : t = handler[h].event.top
    OBVIOUS
  <2>3. t \in Topup
    BY <2>1, <2>2, WorksOn
  <2>4. /\ ledger' \in [Topup -> Rows]
        /\ \A u \in Topup : u # t => ledger'[u] = ledger[u]
        /\ ledger'[t].top = Paid /\ ledger'[t].dispute = ledger[t].dispute
        /\ ledger'[t].won = ledger[t].won /\ Refunds(t)' = Refunds(t)
    BY <1>5, <2>2, CreditRows
  <2>5. /\ Refunds(t) \in Nat /\ ledger[t].top \in {0, Paid}
        /\ ledger[t].dispute \in Nat /\ ledger[t].won \in Nat
    BY <1>1, <1>2, <2>3, RefundsType, RowsType
  <2>6. Refunds(t)' + ledger'[t].dispute <= ledger'[t].top
    <3>1. Refunds(t) + ledger[t].dispute <= ledger[t].top
      BY <1>1, <2>3
    <3>2. QED
      BY <1>2, <2>4, <2>5, <3>1
  <2>7. ledger'[t].won \in {0, ledger'[t].dispute}
    BY <1>1, <2>3, <2>4
  <2>8. /\ WonAsTaken' /\ ReversedAtMostPaid'
        /\ Worth(t) \in Int /\ Worth(t)' \in Int /\ Balance \in Int
        /\ Balance' = Balance - Worth(t) + Worth(t)'
    BY <1>4, <2>1, <2>3, <2>4, <2>6, <2>7
  <2>9. /\ Worth(t) = ledger[t].top + ledger[t].won - (Refunds(t) + ledger[t].dispute)
        /\ Worth(t)' = Paid + ledger[t].won - (Refunds(t) + ledger[t].dispute)
    BY <2>4 DEF Worth, Reversed
  <2>10. Worth(t)' >= Worth(t)
    BY <1>2, <2>5, <2>9
  <2>11. Balance' >= Balance
    BY <2>8, <2>10
  <2>12. DebtStopsPayg => DebtStopsPayg'
    <3>1. Balance \in Int /\ Balance' \in Int
      BY <2>8
    <3>2. QED
      BY <2>1, <2>11, <3>1 DEF DebtStopsPayg, paygo
  <2>13. QED
    BY <1>1, <2>1, <2>4, <2>8, <2>12 DEF paygo
<1>6. CASE Won(h)
  <2>1. handler[h].at # "idle" /\ consumed' = consumed /\ UNCHANGED paygo
    BY <1>6 DEF Won, At
  <2>2. PICK t : t = handler[h].event.top
    OBVIOUS
  <2>3. t \in Topup
    BY <2>1, <2>2, WorksOn
  <2>4. /\ ledger' \in [Topup -> Rows]
        /\ \A u \in Topup : u # t => ledger'[u] = ledger[u]
        /\ ledger'[t].top = ledger[t].top /\ ledger'[t].dispute = ledger[t].dispute
        /\ ledger'[t].won = ledger[t].dispute /\ Refunds(t)' = Refunds(t)
    BY <1>6, <2>2, WonRows
  <2>5. /\ Refunds(t) \in Nat /\ ledger[t].top \in Nat
        /\ ledger[t].dispute \in Nat /\ ledger[t].won \in {0, ledger[t].dispute}
    BY <1>1, <1>2, <2>3, RefundsType, RowsType
  <2>6. Refunds(t)' + ledger'[t].dispute <= ledger'[t].top
    BY <1>1, <2>3, <2>4
  <2>7. ledger'[t].won \in {0, ledger'[t].dispute}
    BY <2>4
  <2>8. /\ WonAsTaken' /\ ReversedAtMostPaid'
        /\ Worth(t) \in Int /\ Worth(t)' \in Int /\ Balance \in Int
        /\ Balance' = Balance - Worth(t) + Worth(t)'
    BY <1>4, <2>1, <2>3, <2>4, <2>6, <2>7
  <2>9. /\ Worth(t) = ledger[t].top + ledger[t].won - (Refunds(t) + ledger[t].dispute)
        /\ Worth(t)' = ledger[t].top + ledger[t].dispute - (Refunds(t) + ledger[t].dispute)
    BY <2>4 DEF Worth, Reversed
  <2>10. Worth(t)' >= Worth(t)
    BY <2>5, <2>9
  <2>11. Balance' >= Balance
    BY <2>8, <2>10
  <2>12. DebtStopsPayg => DebtStopsPayg'
    <3>1. Balance \in Int /\ Balance' \in Int
      BY <2>8
    <3>2. QED
      BY <2>1, <2>11, <3>1 DEF DebtStopsPayg, paygo
  <2>13. QED
    BY <1>1, <2>1, <2>4, <2>8, <2>12 DEF paygo
<1>7. CASE Book(h)
  <2>1. /\ handler[h].at # "idle" /\ consumed' = consumed /\ looked' = looked
        /\ Debit(handler[h].event)
    BY <1>7 DEF Book, At
  <2>2. PICK e : e = handler[h].event
    OBVIOUS
  <2>3. e \in Event /\ Debit(e)
    BY <2>1, <2>2, WorksOn
  <2>4. PICK t : t = e.top
    OBVIOUS
  <2>5. t \in Topup
    BY <2>3, <2>4 DEF Event
  <2>6. PICK n : n = Amount(e)
    OBVIOUS
  <2>7. n \in Nat /\ (n # 0 => n <= ledger[t].top - Reversed(t))
    BY <1>1, <1>2, <2>3, <2>4, <2>6, AmountType DEF Left
  <2>8. /\ ledger' \in [Topup -> Rows]
        /\ \A u \in Topup : u # t => ledger'[u] = ledger[u]
        /\ ledger'[t].top = ledger[t].top /\ ledger'[t].won = ledger[t].won
        /\ Refunds(t)' = Refunds(t) + (IF e.type = "refunded" THEN n ELSE 0)
        /\ ledger'[t].dispute = ledger[t].dispute + (IF e.type = "refunded" THEN 0 ELSE n)
    BY <1>1, <2>3, <2>4, <2>5, <2>6, DebitRows
  <2>9. /\ Refunds(t) \in Nat /\ ledger[t].top \in Nat
        /\ ledger[t].dispute \in Nat /\ ledger[t].won \in {0, ledger[t].dispute}
    BY <1>1, <1>2, <2>5, RefundsType, RowsType
  <2>10. Refunds(t)' + ledger'[t].dispute = Refunds(t) + ledger[t].dispute + n
    <3>1. CASE e.type = "refunded"
      BY <2>7, <2>8, <2>9, <3>1
    <3>2. CASE e.type # "refunded"
      BY <2>7, <2>8, <2>9, <3>2
    <3>3. QED
      BY <3>1, <3>2
  <2>11. Refunds(t)' + ledger'[t].dispute <= ledger'[t].top
    <3>1. Refunds(t) + ledger[t].dispute <= ledger[t].top
      BY <1>1, <2>5
    <3>2. n # 0 => n <= ledger[t].top - (Refunds(t) + ledger[t].dispute)
      BY <2>7 DEF Reversed
    <3>3. QED
      BY <2>7, <2>8, <2>9, <2>10, <3>1, <3>2
  <2>12. ledger'[t].won \in {0, ledger'[t].dispute}
    <3>1. CASE ledger[t].dispute = 0
      BY <2>8, <2>9, <3>1
    <3>2. CASE ledger[t].dispute # 0
      <4>1. e.type = "refunded" \/ n = 0
        BY <1>1, <2>3, <2>4, <2>6, <3>2, AmountType DEF RowOf
      <4>2. ledger'[t].dispute = ledger[t].dispute
        BY <2>8, <2>9, <4>1
      <4>3. QED
        BY <2>8, <2>9, <4>2
    <3>3. QED
      BY <3>1, <3>2
  <2>13. /\ WonAsTaken' /\ ReversedAtMostPaid'
         /\ Worth(t) \in Int /\ Worth(t)' \in Int /\ Balance \in Int
         /\ Balance' = Balance - Worth(t) + Worth(t)'
    BY <1>4, <2>1, <2>5, <2>8, <2>11, <2>12
  <2>14. Worth(t)' = Worth(t) - n
    <3>1. /\ Worth(t) = ledger[t].top + ledger[t].won - (Refunds(t) + ledger[t].dispute)
          /\ Worth(t)' = ledger[t].top + ledger[t].won - (Refunds(t)' + ledger'[t].dispute)
      BY <2>8 DEF Worth, Reversed
    <3>2. QED
      BY <2>7, <2>9, <2>10, <3>1
  <2>15. payg' = (payg /\ (n = 0 \/ Balance >= n)) /\ blind' = (blind /\ payg')
    BY <2>3, <2>6 DEF Debit
  <2>16. DebtStopsPayg => DebtStopsPayg'
    <3>1. Balance' = Balance - n /\ Balance \in Int
      BY <2>7, <2>13, <2>14
    <3>2. SUFFICES ASSUME DebtStopsPayg, payg', Balance' < 0 PROVE blind'
      BY DEF DebtStopsPayg
    <3>3. payg /\ (n = 0 \/ Balance >= n)
      BY <2>15, <3>2
    <3>4. n = 0
      BY <2>7, <3>1, <3>2, <3>3
    <3>5. Balance < 0
      BY <3>1, <3>2, <3>4
    <3>6. blind
      BY <3>2, <3>3, <3>5 DEF DebtStopsPayg
    <3>7. QED
      BY <2>15, <3>2, <3>6
  <2>17. QED
    BY <1>1, <2>1, <2>8, <2>13, <2>15, <2>16
<1>8. CASE Begin(h) \/ Answer(h) \/ Fail(h) \/ Undo(h) \/ Die(h)
  <2>1. UNCHANGED <<ledger, consumed, paygo>>
    BY <1>8 DEF Begin, Answer, Fail, Undo, Die, credit
  <2>2. QED
    BY <1>3, <2>1
<1>9. QED
  BY <1>5, <1>6, <1>7, <1>8 DEF CreditSteps

\* What has been seen, answered and lost, has been sent.
LEMMA RequestSets ==
  ASSUME BaseInv, NEW h \in Handler, CreditSteps(h)
  PROVE  seen' \subseteq sent /\ answered' \subseteq sent /\ lost' \subseteq sent /\ faults' \in 0..MaxFaults
<1>1. seen \subseteq sent /\ answered \subseteq sent /\ lost \subseteq sent
      /\ faults \in 0..MaxFaults /\ MaxFaults \in Nat
  BY BoundAssumption DEF BaseInv, CreditTypeOK
<1>2. handler[h].at # "idle" => handler[h].event \in sent
  BY WorksOn
<1>3. CASE Begin(h)
  BY <1>1, <1>3 DEF Begin
<1>4. CASE Credit(h) \/ Book(h)
  BY <1>1, <1>4 DEF Credit, Book
<1>5. CASE Won(h)
  BY <1>1, <1>2, <1>5 DEF Won, At
<1>6. CASE Answer(h)
  BY <1>1, <1>2, <1>6 DEF Answer, At
<1>7. CASE Fail(h)
  BY <1>1, <1>7 DEF Fail, Fault
<1>8. CASE Undo(h)
  BY <1>1, <1>8 DEF Undo
<1>9. CASE Die(h)
  BY <1>1, <1>2, <1>9 DEF Die, Fault, At
<1>10. QED
  BY <1>3, <1>4, <1>5, <1>6, <1>7, <1>8, <1>9 DEF CreditSteps

\* A run of the closing takes no more than the balance has.
LEMMA CloserDebt ==
  ASSUME BaseInv, NEW c \in Closer, CloserSteps(c), DebtStopsPayg
  PROVE  DebtStopsPayg'
<1>1. CASE Consume(c)
  <2> DEFINE m   == closer[c].month
             use == IF consumed[m] # 0 THEN consumed[m] ELSE Least(Most0(Balance), closer[c].total)
  <2>1. /\ CreditTypeOK /\ consumed \in [Month -> Nat] /\ Balance \in Int
        /\ closer[c] \in CloserTypes
    BY BalanceType DEF BaseInv, CreditTypeOK, CloserTypes
  <2>2. m \in Month
    <3>1. closer[c].month \in 1..month - 1 /\ month \in 1..MaxMonth + 1
      BY <1>1 DEF Consume, BaseInv, ClosersWork, CreditTypeOK
    <3>2. QED
      BY <3>1, BoundAssumption DEF Month
  <2>3. closer[c].total \in Nat
    BY <2>1 DEF CloserTypes
  <2>4. use \in Nat /\ (Balance >= 0 => use = consumed[m] \/ (consumed[m] = 0 /\ use <= Balance))
    BY <2>1, <2>2, <2>3 DEF Least, Most0
  <2>5. consumed' = [consumed EXCEPT ![m] = use] /\ ledger' = ledger /\ UNCHANGED paygo
    BY <1>1 DEF Consume
  <2> HIDE DEF use, m
  <2>6. \A x \in Month : consumed[x] \in Int /\ consumed'[x] \in Int
    BY <2>1, <2>2, <2>4, <2>5
  <2>7. \A x \in Month \ {m} : consumed'[x] = consumed[x]
    BY <2>1, <2>5
  <2>8. consumed'[m] = use
    BY <2>1, <2>2, <2>5
  <2>9. SumFunctionOnSet(consumed', Month) = SumFunctionOnSet(consumed, Month) - consumed[m] + consumed'[m]
    BY ONLY <2>2, <2>6, <2>7, MonthIsFinite, SumChange
  <2>10. PICK w : w = SumFunctionOnSet([t \in Topup |-> Worth(t)], Topup)
    OBVIOUS
  <2>11. Balance = w - SumFunctionOnSet(consumed, Month) /\ Balance' = w - SumFunctionOnSet(consumed', Month)
    BY <2>5, <2>10 DEF Balance, Worth, Reversed, Refunds
  <2>12. SumFunctionOnSet(consumed, Month) \in Int
    <3>1. \A x \in Month : consumed[x] \in Int
      BY <2>6
    <3>2. QED
      BY ONLY <3>1, MonthIsFinite, SumType
  <2>13. w \in Int
    <3> DEFINE worths == [t \in Topup |-> Worth(t)]
    <3>1. \A t \in Topup : worths[t] \in Int
      BY <2>1, RowsType
    <3> HIDE DEF worths
    <3>2. SumFunctionOnSet(worths, Topup) \in Int
      BY ONLY <3>1, TopupAssumption, SumType
    <3>3. QED
      BY <2>10, <3>2 DEF worths
  <2>14. Balance' = Balance + consumed[m] - use
    BY <2>1, <2>2, <2>4, <2>8, <2>9, <2>11, <2>12, <2>13
  <2>15. consumed[m] \in Nat
    BY <2>1, <2>2
  <2>16. SUFFICES ASSUME payg', Balance' < 0 PROVE blind'
    BY DEF DebtStopsPayg
  <2>17. Balance < 0
    BY <2>1, <2>4, <2>14, <2>15, <2>16
  <2>18. QED
    BY <2>5, <2>16, <2>17 DEF DebtStopsPayg, paygo
<1>2. CASE Select(c) \/ Prev(c) \/ ChargeOnce(c) \/ InsertInvoice(c) \/ StopClosing(c)
  <2>1. UNCHANGED <<ledger, consumed, paygo>>
    BY <1>2 DEF Select, Prev, ChargeOnce, InsertInvoice, Bills, StopClosing, credit
  <2>2. QED
    BY <2>1 DEF DebtStopsPayg, Balance, Worth, Reversed, Refunds, paygo
<1>3. QED
  BY <1>1, <1>2 DEF CloserSteps

\* What only concerns the customer and Pay-as-you-go.
SwitchSteps == EnsureCustomer \/ LookAtBalance \/ PaygOn \/ CardStored \/ PaygOff

LEMMA SwitchTypes ==
  ASSUME CreditTypeOK, SwitchSteps
  PROVE  /\ customer' \in BOOLEAN /\ payg' \in BOOLEAN /\ looked' \in BOOLEAN /\ blind' \in BOOLEAN
         /\ UNCHANGED <<charge, sent, hooks, credit, closing, time, faults>>
<1>1. customer \in BOOLEAN /\ payg \in BOOLEAN /\ looked \in BOOLEAN /\ blind \in BOOLEAN
  BY DEF CreditTypeOK
<1>2. CASE EnsureCustomer
  BY <1>1, <1>2 DEF EnsureCustomer, paygo
<1>3. CASE LookAtBalance
  BY <1>1, <1>3 DEF LookAtBalance, stripe
<1>4. CASE PaygOn
  BY <1>1, <1>4 DEF PaygOn, Turn, stripe
<1>5. CASE CardStored \/ PaygOff
  BY <1>1, <1>5 DEF CardStored, PaygOff, Turn, stripe
<1>6. QED
  BY <1>2, <1>3, <1>4, <1>5 DEF SwitchSteps

LEMMA CreditNextCases ==
  CreditNext <=> \/ \E t \in Topup : StripeSteps(t)
                 \/ Duplicate \/ EndMonth \/ SwitchSteps
                 \/ \E h \in Handler : CreditSteps(h)
                 \/ \E c \in Closer : CloserSteps(c)
BY DEF CreditNext, StripeSteps, SwitchSteps, CreditSteps, CloserSteps

LEMMA StepBase == BaseInv /\ [CreditNext]_creditVars => BaseInv'
<1> SUFFICES ASSUME BaseInv, [CreditNext]_creditVars PROVE BaseInv'
  OBVIOUS
<1>1. /\ CreditTypeOK /\ HandlersWork /\ ClosersWork /\ WonAsTaken /\ ReversedAtMostPaid /\ HasNewest
  BY DEF BaseInv
<1>2. UNCHANGED <<closing, month>> => ClosersWork' /\ HasNewest'
  BY <1>1 DEF closing, ClosersWork, HasNewest, Closed
<1>3. UNCHANGED ledger => WonAsTaken' /\ ReversedAtMostPaid'
  BY <1>1 DEF WonAsTaken, ReversedAtMostPaid, Reversed, Refunds
<1>4. ASSUME NEW t \in Topup, StripeSteps(t) PROVE BaseInv'
  <2>1. /\ charge' \in [Topup -> Charge]
        /\ sent' \subseteq Event /\ sent \subseteq sent'
        /\ UNCHANGED <<customer, hooks, credit, closing, time, paygo, faults>>
    BY <1>1, <1>4, StripeTypes
  <2>2. HandlersWork'
    BY <1>1, <2>1 DEF HandlersWork, hooks
  <2>3. CreditTypeOK'
    BY <1>1, <2>1 DEF CreditTypeOK, hooks, credit, closing, time, overlap, paygo
  <2>4. QED
    BY <1>2, <1>3, <2>1, <2>2, <2>3 DEF BaseInv, credit, time
<1>5. CASE Duplicate
  <2>1. PICK e \in (sent \cap seen) \ answered :
          answered' = answered \cup {e} /\ lost' \in {lost, lost \cup {e}}
    BY <1>5 DEF Duplicate
  <2>2. UNCHANGED <<stripe, seen, handler, credit, closing, time, paygo, faults>>
    BY <1>5 DEF Duplicate
  <2>3. answered' \subseteq sent /\ lost' \subseteq sent
    BY <1>1, <2>1 DEF CreditTypeOK
  <2>4. HandlersWork'
    BY <1>1, <2>2 DEF HandlersWork, stripe
  <2>5. CreditTypeOK'
    BY <1>1, <2>2, <2>3 DEF CreditTypeOK, stripe, credit, closing, time, overlap, paygo
  <2>6. QED
    BY <1>2, <1>3, <2>2, <2>4, <2>5 DEF BaseInv, credit, time
<1>6. CASE EndMonth
  <2>1. PICK x \in 1..MaxUsage : cost' = [cost EXCEPT ![month] = x]
    BY <1>6 DEF EndMonth
  <2>2. /\ month <= MaxMonth /\ month' = month + 1
        /\ UNCHANGED <<stripe, hooks, credit, closing, paygo, faults>>
    BY <1>6 DEF EndMonth
  <2>3. month \in 1..MaxMonth + 1 /\ cost \in [Month -> Nat] /\ MaxMonth \in Nat /\ MaxUsage \in Nat
    BY <1>1, BoundAssumption DEF CreditTypeOK
  <2>4. month' \in 1..MaxMonth + 1 /\ cost' \in [Month -> Nat]
    BY <2>1, <2>2, <2>3 DEF Month
  <2>5. HandlersWork'
    BY <1>1, <2>2 DEF HandlersWork, stripe, hooks
  <2>6. ClosersWork' /\ HasNewest'
    <3>1. month >= 2 /\ \A c \in Closer : closer[c].at # "idle" => closer[c].month \in 1..month - 1
      BY <1>1 DEF ClosersWork
    <3>2. \A k \in 1..month - 1 : k \in 1..(month + 1) - 1
      BY <2>3
    <3>3. month + 1 >= 2
      BY <2>3, <3>1
    <3>4. ClosersWork'
      BY <2>2, <3>1, <3>2, <3>3 DEF ClosersWork, closing
    <3>5. HasNewest'
      BY <1>1, <2>2 DEF HasNewest, Closed, closing
    <3>6. QED
      BY <3>4, <3>5
  <2>7. CreditTypeOK'
    BY <1>1, <2>2, <2>4 DEF CreditTypeOK, stripe, hooks, credit, closing, overlap, paygo
  <2>8. QED
    BY <1>3, <2>2, <2>5, <2>6, <2>7 DEF BaseInv, credit
<1>7. CASE SwitchSteps
  <2>1. /\ customer' \in BOOLEAN /\ payg' \in BOOLEAN /\ looked' \in BOOLEAN /\ blind' \in BOOLEAN
        /\ UNCHANGED <<charge, sent, hooks, credit, closing, time, faults>>
    BY <1>1, <1>7, SwitchTypes
  <2>2. HandlersWork'
    BY <1>1, <2>1 DEF HandlersWork, hooks
  <2>3. CreditTypeOK'
    BY <1>1, <2>1 DEF CreditTypeOK, stripe, hooks, credit, closing, time, overlap, paygo
  <2>4. QED
    BY <1>2, <1>3, <2>1, <2>2, <2>3 DEF BaseInv, credit, time
<1>8. ASSUME NEW h \in Handler, CreditSteps(h) PROVE BaseInv'
  <2>1. handler' \in [Handler -> HandlerTypes] /\ UNCHANGED <<stripe, time, closing>>
    BY <1>8, RequestMoves
  <2>2. HandlersWork'
    BY <1>8, RequestsWork
  <2>3. /\ ledger' \in [Topup -> Rows] /\ consumed' = consumed
        /\ payg' \in BOOLEAN /\ blind' \in BOOLEAN /\ looked' = looked
        /\ WonAsTaken' /\ ReversedAtMostPaid'
    BY <1>8, RequestRows
  <2>4. seen' \subseteq sent /\ answered' \subseteq sent /\ lost' \subseteq sent /\ faults' \in 0..MaxFaults
    BY <1>8, RequestSets
  <2>5. CreditTypeOK'
    BY <1>1, <2>1, <2>3, <2>4 DEF CreditTypeOK, stripe, closing, time, HandlerTypes, overlap, paygo
  <2>6. QED
    BY <1>2, <2>1, <2>2, <2>3, <2>5 DEF BaseInv, time
<1>9. ASSUME NEW c \in Closer, CloserSteps(c) PROVE BaseInv'
  <2>1. /\ closer' \in [Closer -> CloserTypes]
        /\ consumed' \in [Month -> Nat] /\ billed' \in [Month -> Nat]
        /\ invoice' \in [Month -> Bill] /\ faults' \in 0..MaxFaults
        /\ doubled' \in BOOLEAN /\ late' \in BOOLEAN
        /\ ClosersWork' /\ HasNewest'
        /\ UNCHANGED <<stripe, hooks, ledger, time, paygo>>
    BY <1>9, CloserBase
  <2>2. HandlersWork'
    BY <1>1, <2>1 DEF HandlersWork, stripe, hooks
  <2>3. CreditTypeOK'
    BY <1>1, <2>1 DEF CreditTypeOK, stripe, hooks, time, CloserTypes, overlap, paygo
  <2>4. QED
    BY <1>3, <2>1, <2>2, <2>3 DEF BaseInv
<1>10. CASE UNCHANGED creditVars
  <2>1. UNCHANGED <<stripe, hooks, credit, closing, time, paygo, faults>>
    BY <1>10 DEF creditVars
  <2>2. HandlersWork'
    BY <1>1, <2>1 DEF HandlersWork, stripe, hooks
  <2>3. CreditTypeOK'
    BY <1>1, <2>1 DEF CreditTypeOK, stripe, hooks, credit, closing, time, overlap, paygo
  <2>4. QED
    BY <1>2, <1>3, <2>1, <2>2, <2>3 DEF BaseInv, credit, time
<1>11. QED
  BY <1>4, <1>5, <1>6, <1>7, <1>8, <1>9, <1>10, CreditNextCases

LEMMA BaseHolds == CreditSpec => []BaseInv
BY InitBase, StepBase, PTL DEF CreditSpec

\* Every variable of the credit, its events and its months keeps its type.
THEOREM CreditTypes == CreditSpec => []CreditTypeOK
<1>1. BaseInv => CreditTypeOK
  BY DEF BaseInv
<1>2. QED
  BY <1>1, BaseHolds, PTL

\* Refunds and disputes never take more than the top-up has brought: topupForPayment
\* books it first, and what is left of it is computed under the lock that debits.
THEOREM NoMoreThanPaid == CreditSpec => []ReversedAtMostPaid
<1>1. BaseInv => ReversedAtMostPaid
  BY DEF BaseInv
<1>2. QED
  BY <1>1, BaseHolds, PTL

LEMMA StepDebt ==
  BaseInv /\ DebtStopsPayg /\ [CreditNext]_creditVars => DebtStopsPayg'
<1> SUFFICES ASSUME BaseInv, DebtStopsPayg, [CreditNext]_creditVars PROVE DebtStopsPayg'
  OBVIOUS
<1>1. UNCHANGED <<ledger, consumed>> => Balance' = Balance
  BY DEF Balance, Worth, Reversed, Refunds
<1>2. UNCHANGED <<ledger, consumed, paygo>> => DebtStopsPayg'
  BY <1>1 DEF DebtStopsPayg, paygo
<1>3. ASSUME NEW t \in Topup, StripeSteps(t) PROVE DebtStopsPayg'
  BY <1>2, <1>3 DEF StripeSteps, Pay, Refund, Dispute, Win, credit
<1>4. CASE Duplicate
  BY <1>2, <1>4 DEF Duplicate, credit
<1>5. CASE EndMonth
  BY <1>2, <1>5 DEF EndMonth, credit
<1>6. CASE SwitchSteps
  <2>1. Balance' = Balance
    BY <1>1, <1>6, SwitchTypes DEF credit, BaseInv
  <2>2. CASE EnsureCustomer
    BY <1>2, <2>2 DEF EnsureCustomer, credit
  <2>3. CASE LookAtBalance
    BY <2>1, <2>3 DEF LookAtBalance, DebtStopsPayg
  <2>4. CASE PaygOn \/ CardStored \/ PaygOff
    BY <2>1, <2>4 DEF PaygOn, CardStored, PaygOff, Turn, DebtStopsPayg
  <2>5. QED
    BY <1>6, <2>2, <2>3, <2>4 DEF SwitchSteps
<1>7. ASSUME NEW h \in Handler, CreditSteps(h) PROVE DebtStopsPayg'
  BY <1>7, RequestRows
<1>8. ASSUME NEW c \in Closer, CloserSteps(c) PROVE DebtStopsPayg'
  BY <1>8, CloserDebt
<1>9. CASE UNCHANGED creditVars
  BY <1>2, <1>9 DEF creditVars, credit
<1>10. QED
  BY <1>3, <1>4, <1>5, <1>6, <1>7, <1>8, <1>9, CreditNextCases

\* Whatever is refunded, disputed or billed: Pay-as-you-go is on with a debt only if it
\* was turned on with one, by a setPayg that had looked before or by a stored card.
THEOREM DebtTurnsPaygOff == CreditSpec => []DebtStopsPayg
<1>1. CreditInit => DebtStopsPayg
  BY DEF CreditInit, DebtStopsPayg
<1>2. BaseInv /\ DebtStopsPayg /\ [CreditNext]_creditVars => DebtStopsPayg'
  BY StepDebt
<1>3. QED
  BY <1>1, <1>2, BaseHolds, PTL DEF CreditSpec

-----------------------------------------------------------------------------
(* Every month once                                                        *)

\* A month that can still get a bill, and what it is to be about.
Newest(m) == m \notin Closed /\ \A b \in Closed : b < m
Owed(m)   == cost[m] + Carried

\* Nothing has happened to a month before it has ended.
ClosedArePast == \A m \in Month : m >= month => m \notin Closed /\ consumed[m] = 0 /\ billed[m] = 0

\* No two closings at a time.
OneCloses == \A c, d \in Closer : closer[c].at # "idle" /\ closer[d].at # "idle" => c = d

\* A run that has failed on a month may have taken credit for it ...
TakenFits == \A m \in Month :
  Newest(m) /\ m < month => (consumed[m] # 0 => Due(Owed(m)) /\ consumed[m] <= Owed(m))

\* ... but has charged nothing.
Charging(m)   == \E c \in Closer : closer[c].at = "insert" /\ closer[c].month = m
NothingCharged == \A m \in Month \ Closed : billed[m] = 0 \/ Charging(m)

MonthsFit == TakenFits /\ NothingCharged

\* How far a run is, and what it has done so far.
RunFits(j) ==
  /\ Newest(j.month)
  /\ \A n \in Month : n > j.month => consumed[n] = 0 /\ billed[n] = 0
  /\ j.at \in {"prev", "consume"} => j.rest = 0
  /\ j.at # "prev" => j.total = Owed(j.month)
  /\ j.at \in {"consume", "charge"} => Due(j.total)
  /\ j.at = "charge" => j.rest = j.total - consumed[j.month] /\ j.rest > 0
  /\ j.at = "insert" =>
       /\ billed[j.month] = IF j.customer THEN j.rest ELSE 0
       /\ IF Due(j.total) THEN consumed[j.month] + j.rest = j.total
                          ELSE consumed[j.month] = 0 /\ j.rest = 0

\* Every run is where it may be.
ClosersFit == \A c \in Closer : closer[c].at # "idle" => RunFits(closer[c])

\* While one run at a time closes the months, they add up, and can still be closed.
MonthsInv == ClosedArePast /\ (~doubled => OneCloses /\ MonthsFit /\ ClosersFit /\ BillsAddUp)

-----------------------------------------------------------------------------
\* The sums only depend on the months that have a bill.
LEMMA BillsKept ==
  ASSUME CreditTypeOK, BillsAddUp, invoice' = invoice,
         \A b \in Closed : cost'[b] = cost[b] /\ consumed'[b] = consumed[b] /\ billed'[b] = billed[b]
  PROVE  BillsAddUp'
<1>1. PICK f : f = [m \in Month |-> consumed[m] + billed[m] + invoice[m].unpaid]
  OBVIOUS
<1>2. PICK g : g = [m \in Month |-> consumed'[m] + billed'[m] + invoice'[m].unpaid]
  OBVIOUS
<1>3. PICK S : S = Closed
  OBVIOUS
<1>4. S \subseteq Month
  BY <1>3 DEF Closed
<1>5. IsFiniteSet(S)
  BY <1>4, MonthIsFinite, FS_Subset
<1>6. \A b \in S : cost[b] \in Int /\ cost[b] = cost'[b]
  BY <1>3, <1>4 DEF CreditTypeOK
<1>7. \A b \in S : f[b] \in Int /\ f[b] = g[b]
  <2> SUFFICES ASSUME NEW b \in S PROVE f[b] \in Int /\ f[b] = g[b]
    OBVIOUS
  <2>1. b \in Month /\ consumed'[b] = consumed[b] /\ billed'[b] = billed[b]
    BY <1>3, <1>4
  <2>2. consumed[b] \in Nat /\ billed[b] \in Nat /\ invoice[b].unpaid \in Nat
    BY <2>1 DEF CreditTypeOK, Bill
  <2>3. f[b] = consumed[b] + billed[b] + invoice[b].unpaid
    BY <1>1, <2>1
  <2>4. g[b] = consumed[b] + billed[b] + invoice[b].unpaid
    BY <1>2, <2>1
  <2>5. QED
    BY <2>2, <2>3, <2>4
<1>8. SumFunctionOnSet(cost, S) = SumFunctionOnSet(cost', S)
  BY ONLY <1>5, <1>6, SumSame
<1>9. SumFunctionOnSet(f, S) = SumFunctionOnSet(g, S)
  BY ONLY <1>5, <1>7, SumSame
<1>10. SumFunctionOnSet(cost, S) = SumFunctionOnSet(f, S) + Carried
  BY <1>1, <1>3 DEF BillsAddUp, Owing, Taken
<1>11. S = Closed' /\ Carried' = Carried
  BY <1>3 DEF Closed, Carried
<1>12. SumFunctionOnSet(cost', S) = SumFunctionOnSet(g, S) + Carried'
  BY <1>8, <1>9, <1>10, <1>11
<1>13. QED
  BY <1>2, <1>11, <1>12 DEF BillsAddUp, Owing, Taken

\* A bill more, newer than the others.
LEMMA BillAdded ==
  ASSUME CreditTypeOK, CreditTypeOK', BillsAddUp, NEW m \in Month, m \notin Closed, Closed' = Closed \cup {m},
         \A n \in Closed : invoice'[n] = invoice[n],
         UNCHANGED <<cost, consumed, billed>>, Carried \in Nat, Carried' \in Nat,
         Owed(m) = consumed[m] + billed[m] + invoice'[m].unpaid + Carried'
  PROVE  BillsAddUp'
<1>1. PICK f : f = [n \in Month |-> consumed[n] + billed[n] + invoice[n].unpaid]
  OBVIOUS
<1>2. PICK g : g = [n \in Month |-> consumed[n] + billed[n] + invoice'[n].unpaid]
  OBVIOUS
<1>3. PICK S : S = Closed
  OBVIOUS
<1>4. S \subseteq Month /\ m \notin S
  BY <1>3 DEF Closed
<1>5. IsFiniteSet(S)
  BY <1>4, MonthIsFinite, FS_Subset
<1>6. \A b \in S : cost[b] \in Int
  BY <1>4 DEF CreditTypeOK
<1>7. \A n \in Month : consumed[n] \in Nat /\ billed[n] \in Nat /\ invoice[n].unpaid \in Nat /\ invoice'[n].unpaid \in Nat
  BY DEF CreditTypeOK, Bill
<1>8. \A n \in Month : f[n] \in Int /\ g[n] \in Int
  BY <1>1, <1>2, <1>7
<1>9. \A b \in S : f[b] \in Int /\ f[b] = g[b]
  BY <1>1, <1>2, <1>3, <1>4, <1>8
<1>10. \A b \in S : g[b] \in Int
  BY <1>4, <1>8
<1>11. m \notin S
  BY <1>4
<1>12. cost[m] \in Int
  BY DEF CreditTypeOK
<1>13. g[m] \in Int /\ g[m] = consumed[m] + billed[m] + invoice'[m].unpaid
  BY <1>2, <1>8
<1>14. g[m] \in Int
  BY <1>13
<1>15. SumFunctionOnSet(cost, S \cup {m}) = cost[m] + SumFunctionOnSet(cost, S)
  BY ONLY <1>5, <1>6, <1>11, <1>12, SumAdd
<1>16. SumFunctionOnSet(g, S \cup {m}) = g[m] + SumFunctionOnSet(g, S)
  BY ONLY <1>5, <1>10, <1>11, <1>14, SumAdd
<1>17. SumFunctionOnSet(f, S) = SumFunctionOnSet(g, S)
  BY ONLY <1>5, <1>9, SumSame
<1>18. SumFunctionOnSet(cost, S) \in Int
  BY ONLY <1>5, <1>6, SumType
<1>19. SumFunctionOnSet(g, S) \in Int
  BY ONLY <1>5, <1>10, SumType
<1>20. SumFunctionOnSet(cost, S) = SumFunctionOnSet(f, S) + Carried
  BY <1>1, <1>3 DEF BillsAddUp, Owing, Taken
<1>21. cost[m] + Carried = g[m] + Carried'
  BY <1>13 DEF Owed
<1>22. SumFunctionOnSet(cost, S \cup {m}) = SumFunctionOnSet(g, S \cup {m}) + Carried'
  BY <1>12, <1>14, <1>15, <1>16, <1>17, <1>18, <1>19, <1>20, <1>21
<1>23. S \cup {m} = Closed'
  BY <1>3
<1>24. g = [n \in Month |-> consumed'[n] + billed'[n] + invoice'[n].unpaid] /\ cost' = cost
  BY <1>2
<1>25. QED
  BY <1>22, <1>23, <1>24 DEF BillsAddUp, Owing, Taken

LEMMA InitMonths == CreditInit => MonthsInv
<1> SUFFICES ASSUME CreditInit PROVE MonthsInv
  OBVIOUS
<1>1. BaseInv /\ CreditTypeOK
  BY InitBase DEF BaseInv
<1>2. /\ month = 2 /\ \A m \in Month : consumed[m] = 0 /\ billed[m] = 0
      /\ \A m \in Month : (invoice[m].there <=> m = 1) /\ invoice[m].carriedOut = cost[m] /\ invoice[m].unpaid = 0
      /\ \A c \in Closer : closer[c].at = "idle"
  BY DEF CreditInit, NoRun
<1>3. 1 \in Month /\ Month \subseteq Int
  BY BoundAssumption DEF Month
<1>4. Closed = {1}
  BY <1>2, <1>3 DEF Closed
<1>5. Carried = cost[1] /\ cost[1] \in Nat
  <2>1. Carried = invoice[1].carriedOut
    BY <1>1, <1>4, CarriedIs
  <2>2. QED
    BY <1>1, <1>2, <1>3, <2>1 DEF CreditTypeOK
<1>6. ClosedArePast
  BY <1>2, <1>4 DEF ClosedArePast
<1>7. OneCloses /\ MonthsFit /\ ClosersFit
  BY <1>2 DEF OneCloses, MonthsFit, TakenFits, NothingCharged, ClosersFit
<1>8. BillsAddUp
  <2>1. PICK f : f = [n \in Month |-> consumed[n] + billed[n] + invoice[n].unpaid]
    OBVIOUS
  <2>2. \A b \in {} : cost[b] \in Int
    OBVIOUS
  <2>3. \A b \in {} : f[b] \in Int
    OBVIOUS
  <2>4. cost[1] \in Int /\ f[1] \in Int /\ f[1] = 0
    BY <1>2, <1>3, <1>5, <2>1
  <2>5. IsFiniteSet({}) /\ 1 \notin {}
    BY FS_EmptySet
  <2>6. cost[1] \in Int
    BY <2>4
  <2>7. f[1] \in Int
    BY <2>4
  <2>8. SumFunctionOnSet(cost, {} \cup {1}) = cost[1] + SumFunctionOnSet(cost, {})
    BY ONLY <2>2, <2>5, <2>6, SumAdd
  <2>9. SumFunctionOnSet(f, {} \cup {1}) = f[1] + SumFunctionOnSet(f, {})
    BY ONLY <2>3, <2>5, <2>7, SumAdd
  <2>10. SumFunctionOnSet(cost, {}) = 0 /\ SumFunctionOnSet(f, {}) = 0
    BY <2>5, SumUnfolds
  <2>11. {} \cup {1} = Closed
    BY <1>4
  <2>12. SumFunctionOnSet(cost, {} \cup {1}) = SumFunctionOnSet(f, {} \cup {1}) + Carried
    BY <1>5, <2>4, <2>8, <2>9, <2>10
  <2>13. QED
    BY <2>1, <2>11, <2>12 DEF BillsAddUp, Owing, Taken
<1>9. QED
  BY <1>6, <1>7, <1>8 DEF MonthsInv

LEMMA AtWork ==
  ASSUME BaseInv, NEW c \in Closer, closer[c].at # "idle"
  PROVE  /\ closer[c].month \in Month /\ closer[c].month < month
         /\ closer[c] \in CloserTypes /\ closer[c].total \in Nat /\ closer[c].rest \in Nat
<1>1. closer[c] \in CloserTypes /\ month \in 1..MaxMonth + 1 /\ closer[c].month \in 1..month - 1
  BY DEF BaseInv, CreditTypeOK, CloserTypes, ClosersWork
<1>2. MaxMonth \in Nat
  BY BoundAssumption
<1>3. closer[c].month \in Month /\ closer[c].month < month
  BY <1>1, <1>2 DEF Month
<1>4. QED
  BY <1>1, <1>3 DEF CloserTypes

LEMMA MonthTypes ==
  ASSUME BaseInv
  PROVE  /\ consumed \in [Month -> Nat] /\ billed \in [Month -> Nat] /\ cost \in [Month -> Nat]
         /\ invoice \in [Month -> Bill] /\ closer \in [Closer -> CloserTypes]
         /\ month \in 1..MaxMonth + 1 /\ month \in Nat /\ Month \subseteq Nat /\ Carried \in Nat
         /\ MinInvoice \in Nat /\ MinInvoice # 0 /\ doubled \in BOOLEAN
<1>1. MaxMonth \in Nat /\ MinInvoice \in Nat /\ MinInvoice # 0
  BY BoundAssumption
<1>2. Carried \in Nat
  BY CarriedIs DEF BaseInv
<1>3. month \in 1..MaxMonth + 1 /\ month \in Nat /\ Month \subseteq Nat
  BY <1>1 DEF BaseInv, CreditTypeOK, Month
<1>4. QED
  BY <1>1, <1>2, <1>3 DEF BaseInv, CreditTypeOK, CloserTypes

\* Only a month that has ended is worked on.
LEMMA StaysPast ==
  ASSUME BaseInv, ClosedArePast, month' = month, NEW m \in Month, m < month,
         Closed' \subseteq Closed \cup {m},
         \A n \in Month \ {m} : consumed'[n] = consumed[n] /\ billed'[n] = billed[n]
  PROVE  ClosedArePast'
<1> SUFFICES ASSUME NEW n \in Month, n >= month
             PROVE  n \notin Closed' /\ consumed'[n] = 0 /\ billed'[n] = 0
  BY DEF ClosedArePast
<1>1. n # m
  BY MonthTypes
<1>2. QED
  BY <1>1 DEF ClosedArePast

\* The bills stay, and with them what is owed.
LEMMA SameBills ==
  ASSUME UNCHANGED <<invoice, cost>>
  PROVE  /\ Closed' = Closed /\ Carried' = Carried
         /\ \A m : (Newest(m)' <=> Newest(m)) /\ Owed(m)' = Owed(m)
<1>1. Closed' = Closed /\ Carried' = Carried
  BY DEF Closed, Carried
<1>2. QED
  BY <1>1 DEF Newest, Owed

LEMMA SelectMonths ==
  ASSUME BaseInv, MonthsInv, NEW c \in Closer, Select(c)
  PROVE  MonthsInv'
<1>1. /\ closer[c].at = "idle" /\ ~invoice[month - 1].there
      /\ closer' = [closer EXCEPT ![c] = [at |-> "prev", month |-> month - 1, customer |-> customer, total |-> 0, rest |-> 0]]
      /\ doubled' = (doubled \/ \E d \in Closer : closer[d].at # "idle")
      /\ UNCHANGED <<consumed, billed, cost, invoice, month>>
  BY DEF Select, Step, credit, time
<1>2. /\ Closed' = Closed /\ Carried' = Carried
      /\ \A m : (Newest(m)' <=> Newest(m)) /\ Owed(m)' = Owed(m)
  BY <1>1, SameBills
<1>3. ClosedArePast /\ ClosedArePast'
  BY <1>1, <1>2 DEF MonthsInv, ClosedArePast
<1>4. SUFFICES ASSUME ~doubled' PROVE OneCloses' /\ MonthsFit' /\ ClosersFit' /\ BillsAddUp'
  BY <1>3 DEF MonthsInv
<1>5. /\ ~doubled /\ \A d \in Closer : closer[d].at = "idle"
      /\ OneCloses /\ MonthsFit /\ ClosersFit /\ BillsAddUp
  BY <1>1, <1>4 DEF MonthsInv
<1>6. /\ closer'[c].at = "prev" /\ closer'[c].month = month - 1 /\ closer'[c].rest = 0
      /\ \A d \in Closer \ {c} : closer'[d] = closer[d]
  BY <1>1, MonthTypes
<1>7. OneCloses'
  BY <1>5, <1>6 DEF OneCloses
<1>8. MonthsFit'
  BY <1>1, <1>2, <1>5, <1>6 DEF MonthsFit, TakenFits, NothingCharged, Charging
<1>9. Newest(month - 1)
  <2>1. month >= 2 /\ month \in 1..MaxMonth + 1 /\ MaxMonth \in Nat
    BY BoundAssumption, MonthTypes DEF BaseInv, ClosersWork
  <2>2. month - 1 \notin Closed
    BY <1>1 DEF Closed
  <2>3. \A b \in Closed : b \in Month /\ ~(b >= month) /\ b # month - 1
    BY <1>3, <2>2 DEF ClosedArePast, Closed
  <2>4. \A b \in Closed : b < month - 1
    BY <2>1, <2>3, MonthTypes
  <2>5. QED
    BY <2>2, <2>4 DEF Newest
<1>10. \A n \in Month : n > month - 1 => consumed[n] = 0 /\ billed[n] = 0
  BY <1>3, MonthTypes DEF ClosedArePast
<1>11. ClosersFit'
  <2>1. PICK job : job = closer'[c]
    OBVIOUS
  <2>2. RunFits(job)'
    BY <1>1, <1>2, <1>6, <1>9, <1>10, <2>1 DEF RunFits
  <2>3. QED
    BY <1>5, <1>6, <2>1, <2>2 DEF ClosersFit
<1>12. BillsAddUp'
  BY <1>1, <1>2, <1>5, BillsKept DEF BaseInv
<1>13. QED
  BY <1>7, <1>8, <1>11, <1>12

\* What the cases of the other steps have in common: the run is the only one.
LEMMA OnlyRun ==
  ASSUME BaseInv, MonthsInv, NEW c \in Closer, closer[c].at # "idle", ~doubled,
         NEW job, closer' = [closer EXCEPT ![c] = job]
  PROVE  /\ closer'[c] = job /\ \A d \in Closer \ {c} : closer'[d].at = "idle" /\ closer[d].at = "idle"
         /\ OneCloses' /\ MonthsFit /\ ClosersFit /\ BillsAddUp
<1>1. OneCloses /\ MonthsFit /\ ClosersFit /\ BillsAddUp
  BY DEF MonthsInv
<1>2. closer'[c] = job /\ \A d \in Closer \ {c} : closer'[d] = closer[d]
  BY MonthTypes
<1>3. \A d \in Closer \ {c} : closer[d].at = "idle"
  BY <1>1 DEF OneCloses
<1>4. OneCloses'
  BY <1>2, <1>3 DEF OneCloses
<1>5. QED
  BY <1>1, <1>2, <1>3, <1>4

LEMMA PrevMonths ==
  ASSUME BaseInv, MonthsInv, NEW c \in Closer, Prev(c)
  PROVE  MonthsInv'
<1>1. PICK m, total, job :
        /\ m = closer[c].month /\ total = Owed(m)
        /\ job = [closer[c] EXCEPT !.at = IF Due(total) THEN "consume" ELSE "insert", !.total = total]
        /\ closer' = [closer EXCEPT ![c] = job]
  BY DEF Prev, Step, Owed
<1>2. closer[c].at = "prev" /\ UNCHANGED <<consumed, billed, cost, invoice, month, doubled>>
  BY DEF Prev, credit, time, overlap
<1>3. /\ Closed' = Closed /\ Carried' = Carried
      /\ \A n : (Newest(n)' <=> Newest(n)) /\ Owed(n)' = Owed(n)
  BY <1>2, SameBills
<1>4. ClosedArePast'
  BY <1>2, <1>3 DEF MonthsInv, ClosedArePast
<1>5. SUFFICES ASSUME ~doubled PROVE OneCloses' /\ MonthsFit' /\ ClosersFit' /\ BillsAddUp'
  BY <1>2, <1>4 DEF MonthsInv
<1>6. /\ closer'[c] = job /\ \A d \in Closer \ {c} : closer'[d].at = "idle" /\ closer[d].at = "idle"
      /\ OneCloses' /\ MonthsFit /\ ClosersFit /\ BillsAddUp
  BY <1>1, <1>2, <1>5, OnlyRun
<1>7. m \in Month /\ m < month /\ closer[c] \in CloserTypes
  BY <1>1, <1>2, AtWork
<1>8. /\ job.month = m /\ job.total = total /\ job.rest = closer[c].rest
      /\ job.at = IF Due(total) THEN "consume" ELSE "insert"
  BY <1>1, <1>7 DEF CloserTypes
<1>9. /\ Newest(m) /\ closer[c].rest = 0
      /\ \A n \in Month : n > m => consumed[n] = 0 /\ billed[n] = 0
  BY <1>1, <1>2, <1>6 DEF ClosersFit, RunFits
<1>10. billed[m] = 0 /\ (~Due(total) => consumed[m] = 0)
  <2>1. ~Charging(m) /\ m \notin Closed
    BY <1>2, <1>6, <1>9 DEF Charging, Newest
  <2>2. QED
    BY <1>1, <1>6, <1>7, <1>9, <2>1 DEF MonthsFit, TakenFits, NothingCharged
<1>11. MonthsFit'
  <2>1. \A d \in Closer : closer[d].at # "insert"
    BY <1>2, <1>6
  <2>2. \A n \in Month \ Closed : billed[n] = 0
    BY <1>6, <2>1 DEF MonthsFit, NothingCharged, Charging
  <2>3. QED
    BY <1>2, <1>3, <1>6, <2>2 DEF MonthsFit, TakenFits, NothingCharged
<1>12. ClosersFit'
  <2>1. RunFits(job)'
    <3>1. CASE Due(total)
      BY <1>1, <1>2, <1>3, <1>8, <1>9, <3>1 DEF RunFits
    <3>2. CASE ~Due(total)
      BY <1>1, <1>2, <1>3, <1>8, <1>9, <1>10, <3>2 DEF RunFits
    <3>3. QED
      BY <3>1, <3>2
  <2>2. QED
    BY <1>6, <2>1 DEF ClosersFit
<1>13. BillsAddUp'
  BY <1>2, <1>3, <1>6, BillsKept DEF BaseInv
<1>14. QED
  BY <1>6, <1>11, <1>12, <1>13

LEMMA ConsumeMonths ==
  ASSUME BaseInv, MonthsInv, NEW c \in Closer, Consume(c)
  PROVE  MonthsInv'
<1>1. PICK m, use, job :
        /\ m = closer[c].month
        /\ use = IF consumed[m] # 0 THEN consumed[m] ELSE Least(Most0(Balance), closer[c].total)
        /\ job = [closer[c] EXCEPT !.at = IF closer[c].total > use THEN "charge" ELSE "insert",
                                   !.rest = Most0(closer[c].total - use)]
        /\ closer' = [closer EXCEPT ![c] = job]
        /\ consumed' = [consumed EXCEPT ![m] = use]
  BY DEF Consume, Step
<1>2. closer[c].at = "consume" /\ UNCHANGED <<billed, cost, invoice, month, doubled>>
  BY DEF Consume, time, overlap
<1>3. /\ Closed' = Closed /\ Carried' = Carried
      /\ \A n : (Newest(n)' <=> Newest(n)) /\ Owed(n)' = Owed(n)
  BY <1>2, SameBills
<1>4. m \in Month /\ m < month /\ closer[c] \in CloserTypes /\ closer[c].total \in Nat
  BY <1>1, <1>2, AtWork
<1>5. consumed'[m] = use /\ \A n \in Month \ {m} : consumed'[n] = consumed[n]
  BY <1>1, <1>4, MonthTypes
<1>6. ClosedArePast'
  BY <1>2, <1>3, <1>4, <1>5, StaysPast DEF MonthsInv
<1>7. SUFFICES ASSUME ~doubled PROVE OneCloses' /\ MonthsFit' /\ ClosersFit' /\ BillsAddUp'
  BY <1>2, <1>6 DEF MonthsInv
<1>8. /\ closer'[c] = job /\ \A d \in Closer \ {c} : closer'[d].at = "idle" /\ closer[d].at = "idle"
      /\ OneCloses' /\ MonthsFit /\ ClosersFit /\ BillsAddUp
  BY <1>1, <1>2, <1>7, OnlyRun
<1>9. PICK total : total = closer[c].total
  OBVIOUS
<1>10. RunFits(closer[c])
  BY <1>2, <1>8 DEF ClosersFit
<1>11. /\ Newest(m) /\ closer[c].rest = 0 /\ total = Owed(m) /\ Due(total)
       /\ \A n \in Month : n > m => consumed[n] = 0 /\ billed[n] = 0
  BY <1>1, <1>2, <1>9, <1>10 DEF RunFits
<1>12. m \notin Closed /\ \A n \in Month \ Closed : billed[n] = 0
  <2>1. \A d \in Closer : closer[d].at # "insert"
    BY <1>2, <1>8
  <2>2. QED
    BY <1>8, <1>11, <2>1 DEF MonthsFit, NothingCharged, Charging, Newest
<1>13. use \in Nat /\ use <= total /\ total \in Nat
  <2>1. consumed[m] # 0 => consumed[m] <= total
    BY <1>4, <1>8, <1>11 DEF MonthsFit, TakenFits
  <2>2. Balance \in Int /\ consumed[m] \in Nat
    BY <1>4, MonthTypes, BalanceType DEF BaseInv
  <2>3. QED
    BY <1>1, <1>4, <1>9, <2>1, <2>2 DEF Least, Most0
<1>14. /\ job.month = m /\ job.total = total
       /\ job.at = IF total > use THEN "charge" ELSE "insert"
       /\ job.rest = total - use
  <2>1. Most0(total - use) = total - use
    BY <1>13 DEF Most0
  <2>2. QED
    BY <1>1, <1>4, <1>9, <2>1 DEF CloserTypes
<1>15. MonthsFit'
  <2>1. NothingCharged'
    BY <1>2, <1>3, <1>12 DEF NothingCharged
  <2>2. SUFFICES ASSUME NEW n \in Month, Newest(n), n < month, consumed'[n] # 0
                 PROVE  Due(Owed(n)) /\ consumed'[n] <= Owed(n)
    BY <1>2, <1>3, <2>1 DEF MonthsFit, TakenFits, Due
  <2>3. CASE n = m
    BY <1>5, <1>11, <1>13, <2>3
  <2>4. CASE n # m
    BY <1>5, <1>8, <2>2, <2>4 DEF MonthsFit, TakenFits
  <2>5. QED
    BY <2>3, <2>4
<1>16. ClosersFit'
  <2>1. \A n \in Month : n > m => consumed'[n] = 0 /\ billed[n] = 0
    <3>1. \A n \in Month : n > m => n # m
      BY <1>4, MonthTypes
    <3>2. QED
      BY <1>5, <1>11, <3>1
  <2>2. billed[m] = 0
    BY <1>4, <1>11, <1>12
  <2>3. RunFits(job)'
    <3>1. CASE total > use
      <4>1. job.at = "charge" /\ job.rest = total - consumed'[m] /\ job.rest > 0
        BY <1>5, <1>13, <1>14, <3>1
      <4>2. QED
        BY <1>2, <1>3, <1>11, <1>14, <2>1, <4>1 DEF RunFits, Due
    <3>2. CASE ~(total > use)
      <4>1. /\ job.at = "insert" /\ job.rest = 0 /\ use = total /\ consumed'[m] + job.rest = total
            /\ billed[m] = IF job.customer THEN job.rest ELSE 0
        BY <2>2, <1>5, <1>13, <1>14, <3>2
      <4>2. QED
        BY <1>2, <1>3, <1>11, <1>14, <2>1, <2>2, <4>1 DEF RunFits, Due
    <3>3. QED
      BY <3>1, <3>2
  <2>4. QED
    BY <1>8, <2>3 DEF ClosersFit
<1>17. BillsAddUp'
  <2>1. m \notin Closed
    BY <1>11 DEF Newest
  <2>2. \A b \in Closed : cost'[b] = cost[b] /\ consumed'[b] = consumed[b] /\ billed'[b] = billed[b]
    BY <1>2, <1>5, <2>1 DEF Closed
  <2>3. QED
    BY <1>2, <1>3, <1>8, <2>2, BillsKept DEF BaseInv
<1>18. QED
  BY <1>8, <1>15, <1>16, <1>17

LEMMA ChargeMonths ==
  ASSUME BaseInv, MonthsInv, NEW c \in Closer, ChargeOnce(c)
  PROVE  MonthsInv'
<1>1. PICK m, job, extra :
        /\ m = closer[c].month /\ extra = (IF closer[c].customer THEN closer[c].rest ELSE 0) /\ job = [closer[c] EXCEPT !.at = "insert"]
        /\ closer' = [closer EXCEPT ![c] = job]
        /\ billed' = [billed EXCEPT ![m] = @ + extra]
  <2>1. closer[c].month \in Month /\ closer[c].rest \in Nat
    BY AtWork DEF ChargeOnce
  <2>2. billed = [billed EXCEPT ![closer[c].month] = @ + 0]
    BY <2>1, MonthTypes
  <2>3. QED
    BY <2>2 DEF ChargeOnce, Step
<1>2. closer[c].at = "charge" /\ UNCHANGED <<consumed, cost, invoice, month, doubled>>
  BY DEF ChargeOnce, time, credit, overlap
<1>3. /\ Closed' = Closed /\ Carried' = Carried
      /\ \A n : (Newest(n)' <=> Newest(n)) /\ Owed(n)' = Owed(n)
  BY <1>2, SameBills
<1>4. m \in Month /\ m < month /\ closer[c] \in CloserTypes /\ closer[c].total \in Nat /\ closer[c].rest \in Nat
  BY <1>1, <1>2, AtWork
<1>5. billed'[m] = billed[m] + extra /\ \A n \in Month \ {m} : billed'[n] = billed[n]
  BY <1>1, <1>4, MonthTypes
<1>6. ClosedArePast'
  BY <1>2, <1>3, <1>4, <1>5, StaysPast DEF MonthsInv
<1>7. SUFFICES ASSUME ~doubled PROVE OneCloses' /\ MonthsFit' /\ ClosersFit' /\ BillsAddUp'
  BY <1>2, <1>6 DEF MonthsInv
<1>8. /\ closer'[c] = job /\ \A d \in Closer \ {c} : closer'[d].at = "idle" /\ closer[d].at = "idle"
      /\ OneCloses' /\ MonthsFit /\ ClosersFit /\ BillsAddUp
  BY <1>1, <1>2, <1>7, OnlyRun
<1>9. PICK total, rest : total = closer[c].total /\ rest = closer[c].rest
  OBVIOUS
<1>10. RunFits(closer[c])
  BY <1>2, <1>8 DEF ClosersFit
<1>11. /\ Newest(m) /\ total = Owed(m) /\ Due(total) /\ rest = total - consumed[m]
       /\ \A n \in Month : n > m => consumed[n] = 0 /\ billed[n] = 0
  BY <1>1, <1>2, <1>9, <1>10 DEF RunFits
<1>12. m \notin Closed /\ \A n \in Month \ Closed : billed[n] = 0
  <2>1. \A d \in Closer : closer[d].at # "insert"
    BY <1>2, <1>8
  <2>2. QED
    BY <1>8, <1>11, <2>1 DEF MonthsFit, NothingCharged, Charging, Newest
<1>13. job.month = m /\ job.total = total /\ job.at = "insert" /\ job.rest = rest /\ job.customer = closer[c].customer
  BY <1>1, <1>4, <1>9 DEF CloserTypes
<1>14. billed'[m] = (IF job.customer THEN rest ELSE 0) /\ consumed[m] + rest = total
  <2>1. extra = IF job.customer THEN rest ELSE 0
    BY <1>1, <1>9, <1>13
  <2>2. billed[m] = 0
    BY <1>4, <1>12
  <2>3. rest \in Nat /\ total \in Nat /\ consumed[m] \in Nat
    BY <1>4, <1>9, MonthTypes
  <2>4. extra \in Nat
    BY <2>1, <2>3
  <2>5. QED
    BY <1>5, <1>11, <2>1, <2>2, <2>3, <2>4
<1>15. MonthsFit'
  <2>1. TakenFits'
    BY <1>2, <1>3, <1>8 DEF MonthsFit, TakenFits, Due
  <2>2. Charging(m)'
    BY <1>8, <1>13 DEF Charging
  <2>3. \A n \in Month \ Closed : n # m => billed'[n] = 0
    BY <1>5, <1>12
  <2>4. QED
    BY <1>3, <2>1, <2>2, <2>3 DEF MonthsFit, NothingCharged
<1>16. ClosersFit'
  <2>1. \A n \in Month : n > m => consumed[n] = 0 /\ billed'[n] = 0
    <3>1. \A n \in Month : n > m => n # m
      BY <1>4, MonthTypes
    <3>2. QED
      BY <1>5, <1>11, <3>1
  <2>2. RunFits(job)'
    BY <1>2, <1>3, <1>11, <1>13, <1>14, <2>1 DEF RunFits, Due
  <2>3. QED
    BY <1>8, <2>2 DEF ClosersFit
<1>17. BillsAddUp'
  <2>1. m \notin Closed
    BY <1>11 DEF Newest
  <2>2. \A b \in Closed : cost'[b] = cost[b] /\ consumed'[b] = consumed[b] /\ billed'[b] = billed[b]
    BY <1>2, <1>5, <2>1 DEF Closed
  <2>3. QED
    BY <1>2, <1>3, <1>8, <2>2, BillsKept DEF BaseInv
<1>18. QED
  BY <1>8, <1>15, <1>16, <1>17

LEMMA InsertMonths ==
  ASSUME BaseInv, BaseInv', MonthsInv, NEW c \in Closer, InsertInvoice(c)
  PROVE  MonthsInv'
<1>1. PICK m, total, out, open :
        /\ m = closer[c].month /\ total = closer[c].total
        /\ out = (IF Due(total) THEN 0 ELSE total) /\ open = (IF closer[c].customer THEN 0 ELSE closer[c].rest)
        /\ closer' = [closer EXCEPT ![c] = NoRun]
        /\ invoice' = [invoice EXCEPT ![m] = IF @.there THEN @ ELSE [there |-> TRUE, carriedOut |-> out, unpaid |-> open]]
  BY DEF InsertInvoice, Bills, Step
<1>2. closer[c].at = "insert" /\ UNCHANGED <<consumed, billed, cost, month, doubled>>
  BY DEF InsertInvoice, Bills, time, credit, overlap
<1>3. m \in Month /\ m < month /\ total \in Nat /\ closer[c].rest \in Nat
  BY <1>1, <1>2, AtWork
<1>4. /\ Closed' = Closed \cup {m} /\ \A n \in Closed : invoice'[n] = invoice[n]
      /\ m \notin Closed => invoice'[m].carriedOut = out /\ invoice'[m].unpaid = open
  BY <1>1, <1>3, MonthTypes DEF Closed
<1>5. ClosedArePast'
  BY <1>2, <1>3, <1>4, StaysPast DEF MonthsInv
<1>6. SUFFICES ASSUME ~doubled PROVE OneCloses' /\ MonthsFit' /\ ClosersFit' /\ BillsAddUp'
  BY <1>2, <1>5 DEF MonthsInv
<1>7. /\ closer'[c] = NoRun /\ \A d \in Closer \ {c} : closer'[d].at = "idle" /\ closer[d].at = "idle"
      /\ OneCloses' /\ MonthsFit /\ ClosersFit /\ BillsAddUp
  BY <1>1, <1>2, <1>6, OnlyRun
<1>8. \A d \in Closer : closer'[d].at = "idle"
  BY <1>7 DEF NoRun
<1>9. RunFits(closer[c])
  BY <1>2, <1>7 DEF ClosersFit
<1>10. PICK rest : rest = closer[c].rest
  OBVIOUS
<1>11. /\ Newest(m) /\ total = Owed(m) /\ billed[m] = (IF closer[c].customer THEN rest ELSE 0)
       /\ IF Due(total) THEN consumed[m] + rest = total ELSE consumed[m] = 0 /\ rest = 0
       /\ \A n \in Month : n > m => consumed[n] = 0 /\ billed[n] = 0
  BY <1>1, <1>2, <1>9, <1>10 DEF RunFits
<1>12. m \notin Closed /\ \A b \in Closed \cup {m} : b <= m
  <2>1. m \notin Closed /\ \A b \in Closed : b < m /\ b \in Nat
    BY <1>11, MonthTypes DEF Newest, Closed
  <2>2. m \in Nat
    BY <1>3, MonthTypes
  <2>3. QED
    BY <2>1, <2>2
<1>13. Carried' = out
  <2>1. CreditTypeOK'
    BY DEF BaseInv
  <2>2. Closed' \subseteq Int /\ m \in Closed' /\ \A b \in Closed' : b <= m
    BY <1>3, <1>4, <1>12, MonthTypes DEF Closed
  <2>3. PICK S : S = Closed'
    OBVIOUS
  <2>4. Max(S) = m
    BY <2>2, <2>3, MaxIs
  <2>5. Carried' = invoice'[Max(S)].carriedOut
    <3>1. S = {n \in Month : invoice'[n].there} /\ S # {}
      BY <2>2, <2>3 DEF Closed
    <3>2. QED
      BY <3>1 DEF Carried
  <2>6. QED
    BY <1>4, <1>12, <2>4, <2>5
<1>14. MonthsFit'
  <2>1. ASSUME NEW n \in Month, Newest(n)' PROVE consumed[n] = 0
    <3>1. n > m
      BY <1>3, <1>4, <2>1, MonthTypes DEF Newest
    <3>2. QED
      BY <1>11, <3>1
  <2>2. \A n \in Month \ Closed' : billed[n] = 0
    BY <1>1, <1>4, <1>7 DEF MonthsFit, NothingCharged, Charging
  <2>3. QED
    BY <1>2, <2>1, <2>2 DEF MonthsFit, TakenFits, NothingCharged
<1>15. ClosersFit'
  BY <1>8 DEF ClosersFit
<1>16. BillsAddUp'
  <2>1. out \in Nat /\ rest \in Nat /\ open = (IF closer[c].customer THEN 0 ELSE rest) /\ invoice'[m].unpaid = open
    BY <1>1, <1>3, <1>4, <1>10, <1>12
  <2>2. Owed(m) = consumed[m] + billed[m] + invoice'[m].unpaid + Carried'
    <3>1. consumed[m] \in Nat /\ billed[m] + invoice'[m].unpaid = rest /\ billed[m] \in Nat /\ open \in Nat
      BY <1>3, <1>11, <2>1, MonthTypes
    <3>2. CASE Due(total)
      <4>1. out = 0
        BY <1>1, <3>2
      <4>2. QED
        BY <1>3, <1>11, <1>13, <2>1, <3>1, <3>2, <4>1
    <3>3. CASE ~Due(total)
      <4>1. out = total
        BY <1>1, <3>3
      <4>2. QED
        BY <1>3, <1>11, <1>13, <2>1, <3>1, <3>3, <4>1
    <3>4. QED
      BY <3>2, <3>3
  <2>3. CreditTypeOK /\ CreditTypeOK' /\ Carried \in Nat /\ Carried' \in Nat
    BY <1>13, <2>1, MonthTypes DEF BaseInv
  <2>4. QED
    BY <1>2, <1>3, <1>4, <1>7, <1>12, <2>2, <2>3, BillAdded
<1>17. QED
  BY <1>7, <1>14, <1>15, <1>16

LEMMA StopMonths ==
  ASSUME BaseInv, MonthsInv, NEW c \in Closer, StopClosing(c)
  PROVE  MonthsInv'
<1>1. /\ closer[c].at # "idle" /\ UNCHANGED <<consumed, billed, cost, invoice, month>>
      /\ closer' = [closer EXCEPT ![c] = NoRun]
      /\ doubled' = (doubled \/ (closer[c].at = "insert" /\ closer[c].customer /\ closer[c].rest > 0))
  BY DEF StopClosing, Step, credit, time
<1>2. /\ Closed' = Closed /\ Carried' = Carried
      /\ \A n : (Newest(n)' <=> Newest(n)) /\ Owed(n)' = Owed(n)
  BY <1>1, SameBills
<1>3. ClosedArePast'
  BY <1>1, <1>2 DEF MonthsInv, ClosedArePast
<1>4. SUFFICES ASSUME ~doubled' PROVE OneCloses' /\ MonthsFit' /\ ClosersFit' /\ BillsAddUp'
  BY <1>3 DEF MonthsInv
<1>5. ~doubled /\ (closer[c].at = "insert" /\ closer[c].customer => ~(closer[c].rest > 0))
  BY <1>1, <1>4
<1>6. /\ closer'[c] = NoRun /\ \A d \in Closer \ {c} : closer'[d].at = "idle" /\ closer[d].at = "idle"
      /\ OneCloses' /\ MonthsFit /\ ClosersFit /\ BillsAddUp
  BY <1>1, <1>5, OnlyRun
<1>7. \A d \in Closer : closer'[d].at = "idle"
  BY <1>6 DEF NoRun
<1>8. \A n \in Month \ Closed : billed[n] = 0
  <2> SUFFICES ASSUME NEW n \in Month \ Closed PROVE billed[n] = 0
    OBVIOUS
  <2>1. CASE closer[c].at = "insert" /\ closer[c].month = n
    <3>1. RunFits(closer[c])
      BY <1>1, <1>6 DEF ClosersFit
    <3>2. billed[n] = IF closer[c].customer THEN closer[c].rest ELSE 0
      BY <2>1, <3>1 DEF RunFits
    <3>3. QED
      BY <1>1, <1>5, <2>1, <3>2, AtWork
  <2>2. CASE ~(closer[c].at = "insert" /\ closer[c].month = n)
    <3>1. ~Charging(n)
      BY <1>6, <2>2 DEF Charging
    <3>2. QED
      BY <1>6, <3>1 DEF MonthsFit, NothingCharged
  <2>3. QED
    BY <2>1, <2>2
<1>9. MonthsFit'
  BY <1>1, <1>2, <1>6, <1>8 DEF MonthsFit, TakenFits, NothingCharged
<1>10. ClosersFit'
  BY <1>7 DEF ClosersFit
<1>11. BillsAddUp'
  BY <1>1, <1>2, <1>6, BillsKept DEF BaseInv
<1>12. QED
  BY <1>6, <1>9, <1>10, <1>11

LEMMA EndMonths ==
  ASSUME BaseInv, MonthsInv, EndMonth
  PROVE  MonthsInv'
<1>1. PICK x \in 1..MaxUsage : cost' = [cost EXCEPT ![month] = x]
  BY DEF EndMonth
<1>2. month' = month + 1 /\ UNCHANGED <<consumed, billed, invoice, closer, doubled>>
  BY DEF EndMonth, closing, credit, overlap
<1>3. Closed' = Closed /\ Carried' = Carried /\ \A n : (Newest(n)' <=> Newest(n))
  BY <1>2 DEF Closed, Carried, Newest
<1>4. \A n \in Month : n < month => cost'[n] = cost[n] /\ Owed(n)' = Owed(n)
  BY <1>1, <1>3, MonthTypes DEF Owed
<1>5. ClosedArePast
  BY DEF MonthsInv
<1>6. ClosedArePast'
  <2> SUFFICES ASSUME NEW n \in Month, n >= month + 1
               PROVE  n \notin Closed /\ consumed[n] = 0 /\ billed[n] = 0
    BY <1>2, <1>3 DEF ClosedArePast
  <2>1. n >= month
    BY MonthTypes
  <2>2. QED
    BY <1>5, <2>1 DEF ClosedArePast
<1>7. SUFFICES ASSUME ~doubled PROVE OneCloses' /\ MonthsFit' /\ ClosersFit' /\ BillsAddUp'
  BY <1>2, <1>6 DEF MonthsInv
<1>8. OneCloses /\ MonthsFit /\ ClosersFit /\ BillsAddUp
  BY <1>7 DEF MonthsInv
<1>9. OneCloses'
  BY <1>2, <1>8 DEF OneCloses
<1>10. MonthsFit'
  <2>1. NothingCharged'
    BY <1>2, <1>3, <1>8 DEF MonthsFit, NothingCharged, Charging
  <2>2. SUFFICES ASSUME NEW n \in Month, Newest(n), n < month + 1, consumed[n] # 0
                 PROVE  Due(Owed(n)') /\ consumed[n] <= Owed(n)'
    BY <1>2, <1>3, <2>1 DEF MonthsFit, TakenFits, Due
  <2>3. CASE n < month
    BY <1>4, <1>8, <2>2, <2>3 DEF MonthsFit, TakenFits
  <2>4. CASE n >= month
    BY <1>5, <2>2, <2>4 DEF ClosedArePast
  <2>5. QED
    BY <2>3, <2>4, MonthTypes
<1>11. ClosersFit'
  <2> SUFFICES ASSUME NEW c \in Closer, closer[c].at # "idle" PROVE RunFits(closer[c])'
    BY <1>2 DEF ClosersFit
  <2>1. PICK j : j = closer[c]
    OBVIOUS
  <2>2. RunFits(j) /\ j.month \in Month /\ j.month < month
    BY <1>8, <2>1, AtWork DEF ClosersFit
  <2>3. Owed(j.month)' = Owed(j.month)
    BY <1>4, <2>2
  <2>4. RunFits(j)'
    BY <1>2, <1>3, <2>2, <2>3 DEF RunFits, Due
  <2>5. closer'[c] = j
    BY <1>2, <2>1
  <2>6. QED
    BY <2>4, <2>5
<1>12. BillsAddUp'
  <2>1. \A b \in Closed : b \in Month /\ ~(b >= month)
    BY <1>5 DEF ClosedArePast, Closed
  <2>2. \A b \in Closed : cost'[b] = cost[b] /\ consumed'[b] = consumed[b] /\ billed'[b] = billed[b]
    BY <1>2, <1>4, <2>1, MonthTypes
  <2>3. QED
    BY <1>2, <1>3, <1>8, <2>2, BillsKept DEF BaseInv
<1>13. QED
  BY <1>9, <1>10, <1>11, <1>12

LEMMA OtherMonths ==
  ASSUME BaseInv, MonthsInv, UNCHANGED <<consumed, closing, time>>
  PROVE  MonthsInv'
<1>1. UNCHANGED <<consumed, billed, cost, invoice, month, closer, doubled>>
  BY DEF closing, time, overlap
<1>2. /\ Closed' = Closed /\ Carried' = Carried
      /\ \A n : (Newest(n)' <=> Newest(n)) /\ Owed(n)' = Owed(n)
  BY <1>1, SameBills
<1>3. ClosedArePast'
  BY <1>1, <1>2 DEF MonthsInv, ClosedArePast
<1>4. OneCloses => OneCloses'
  BY <1>1 DEF OneCloses
<1>5. MonthsFit => MonthsFit'
  BY <1>1, <1>2 DEF MonthsFit, TakenFits, NothingCharged, Charging
<1>6. ClosersFit => ClosersFit'
  BY <1>1, <1>2 DEF ClosersFit, RunFits
<1>7. BillsAddUp => BillsAddUp'
  BY <1>1, <1>2, BillsKept DEF BaseInv
<1>8. QED
  BY <1>1, <1>3, <1>4, <1>5, <1>6, <1>7 DEF MonthsInv

LEMMA StepMonths == BaseInv /\ MonthsInv /\ [CreditNext]_creditVars => MonthsInv'
<1> SUFFICES ASSUME BaseInv, MonthsInv, [CreditNext]_creditVars PROVE MonthsInv'
  OBVIOUS
<1>1. ASSUME NEW t \in Topup, StripeSteps(t) PROVE MonthsInv'
  BY <1>1, OtherMonths DEF StripeSteps, Pay, Refund, Dispute, Win, credit
<1>2. CASE Duplicate
  BY <1>2, OtherMonths DEF Duplicate, credit
<1>3. CASE EndMonth
  BY <1>3, EndMonths
<1>4. CASE SwitchSteps
  BY <1>4, OtherMonths, SwitchTypes DEF credit, BaseInv
<1>5. ASSUME NEW h \in Handler, CreditSteps(h) PROVE MonthsInv'
  <2>1. UNCHANGED <<time, closing>> /\ consumed' = consumed
    BY <1>5, RequestMoves, RequestRows
  <2>2. QED
    BY <2>1, OtherMonths
<1>6. ASSUME NEW c \in Closer, CloserSteps(c) PROVE MonthsInv'
  <2>1. BaseInv'
    BY StepBase
  <2>2. QED
    BY <1>6, <2>1, SelectMonths, PrevMonths, ConsumeMonths, ChargeMonths, InsertMonths, StopMonths
       DEF CloserSteps
<1>7. CASE UNCHANGED creditVars
  BY <1>7, OtherMonths DEF creditVars, credit
<1>8. QED
  BY <1>1, <1>2, <1>3, <1>4, <1>5, <1>6, <1>7, CreditNextCases

\* Unless two runs of the closing overlap, or one fails after its charge, what the closed
\* months have cost is taken from the credit, charged or carried over, once: a month is
\* closed only when it is over, and only once with the bill of the month before in view.
THEOREM EveryMonthOnce == CreditSpec => []MonthsAddUp
<1>1. MonthsInv => MonthsAddUp
  BY DEF MonthsInv, MonthsAddUp, MonthsFit, NothingCharged, Charging
<1>2. QED
  BY <1>1, InitMonths, StepMonths, BaseHolds, PTL DEF CreditSpec

-----------------------------------------------------------------------------
(* The events of a top-up                                                  *)

\* Stripe has sent an event of the type about the session.
Told(t, type) == \E e \in sent : e.top = t /\ e.type = type

\* After a dispute, nothing more was refunded.
Fair(t) == charge[t].dispute # "none" => charge[t].refunded + charge[t].disputed = Paid

\* What Stripe knows of a session it has told, and nothing else.
StripeTells == \A t \in Topup :
  LET s == charge[t] IN
  /\ s.paid => Told(t, "paid")
  /\ s.refunded # 0 => \E e \in sent : e.top = t /\ e.type = "refunded" /\ e.sum = s.refunded
  /\ s.dispute # "none" <=> Told(t, "disputed")
  /\ s.dispute = "won" <=> Told(t, "won")
  /\ \A e \in sent : e.top = t => s.paid /\ (e.type = "refunded" => e.sum <= s.refunded)
  /\ ~s.paid => s.refunded = 0 /\ s.dispute = "none"
  /\ s.dispute = "none" <=> s.disputed = 0
  /\ s.dispute # "none" => s.refunded + s.disputed >= Paid
  /\ s.dispute = "open" => s.refunded + s.disputed = Paid

\* The rows of a top-up are never ahead of Stripe.
BookFits(t) ==
  LET s == charge[t]  l == ledger[t] IN
  /\ ~s.paid => l.top = 0
  /\ Refunds(t) <= s.refunded /\ l.dispute <= s.disputed
  /\ l.won # 0 => s.dispute = "won"
  /\ Fair(t) => /\ \A c \in 1..Paid : l.refund[c] # 0 => Refunds(t) >= c
                /\ l.dispute \in {0, s.disputed}

BooksFit == \A t \in Topup : BookFits(t)

\* What an event is to bring about has come about.
Done(e) ==
  LET t == e.top  l == ledger[t] IN
  /\ l.top = Paid
  /\ Fair(t) /\ e.type = "refunded" => Refunds(t) >= e.sum
  /\ Fair(t) /\ e.type = "disputed" => l.dispute = charge[t].disputed
  /\ e.type = "won" => l.won # 0

\* Where a request is says what its event has brought about; what was answered before
\* it ends counts as lost.
RequestsFit == \A h \in Handler :
  LET e == handler[h].event IN
  /\ handler[h].at = "book" => ledger[e.top].top = Paid /\ e.type \in {"refunded", "disputed"}
  /\ handler[h].at = "won" => ledger[e.top].top = Paid /\ e.type = "won"
  /\ handler[h].at = "answer" => Done(e) \/ (e.type = "won" /\ ledger[e.top].won = 0 /\ e \in lost)
  /\ handler[h].at # "idle" /\ e \in answered => e \in lost

\* An event that is recorded is worked on, lost, or done.
EventsFit ==
  /\ \A e \in seen : Working(e) \/ e \in lost \/ Done(e)
  /\ answered \ lost \subseteq seen

\* The inductive invariant of CreditFollowsStripe, with BaseInv.
EventsInv == StripeTells /\ BooksFit /\ RequestsFit /\ EventsFit

-----------------------------------------------------------------------------
\* What Stripe does, and tells: s and z are the session before and after it.
StripeMove(e, s, z) ==
  \/ /\ e.type = "paid" /\ ~s.paid
     /\ z.paid /\ z.refunded = s.refunded /\ z.dispute = s.dispute /\ z.disputed = s.disputed
  \/ /\ e.type = "refunded" /\ s.paid /\ s.dispute # "open" /\ s.refunded < e.sum /\ e.sum <= Paid
     /\ z.paid /\ z.refunded = e.sum /\ z.dispute = s.dispute /\ z.disputed = s.disputed
  \/ /\ e.type = "disputed" /\ s.paid /\ s.dispute = "none" /\ s.refunded < Paid
     /\ z.paid /\ z.refunded = s.refunded /\ z.dispute = "open" /\ z.disputed = Paid - s.refunded
  \/ /\ e.type = "won" /\ s.dispute = "open"
     /\ z.paid = s.paid /\ z.refunded = s.refunded /\ z.dispute = "won" /\ z.disputed = s.disputed

LEMMA StripeMoves ==
  ASSUME CreditTypeOK, NEW t \in Topup, StripeSteps(t)
  PROVE  \E e : sent' = sent \cup {e} /\ e.top = t /\ StripeMove(e, charge[t], charge'[t])
<1>1. Paid \in Nat \ {0} /\ charge \in [Topup -> Charge] /\ charge[t] \in Charge
  BY PaidAssumption DEF CreditTypeOK
<1>2. PICK s : s = charge[t]
  OBVIOUS
<1>3. PICK z : z = charge'[t]
  OBVIOUS
<1>4. s \in Charge /\ s.refunded \in 0..Paid
  BY <1>1, <1>2 DEF Charge
<1>5. CASE Pay(t)
  <2>1. z = [s EXCEPT !.paid = TRUE] /\ ~s.paid
    BY <1>1, <1>2, <1>3, <1>5 DEF Pay
  <2>2. z.paid /\ z.refunded = s.refunded /\ z.dispute = s.dispute /\ z.disputed = s.disputed
    BY <1>4, <2>1 DEF Charge
  <2>3. PICK e : e = [type |-> "paid", top |-> t, sum |-> 0]
    OBVIOUS
  <2>4. sent' = sent \cup {e} /\ e.top = t /\ e.type = "paid"
    BY <1>5, <2>3 DEF Pay, Send
  <2>5. StripeMove(e, s, z)
    BY <2>1, <2>2, <2>4 DEF StripeMove
  <2>6. QED
    BY <1>2, <1>3, <2>4, <2>5
<1>6. CASE Refund(t)
  <2>1. PICK sum \in charge[t].refunded + 1..Paid :
          /\ charge' = [charge EXCEPT ![t].refunded = sum]
          /\ Send("refunded", t, sum)
    BY <1>6 DEF Refund
  <2>2. z = [s EXCEPT !.refunded = sum] /\ s.paid /\ s.dispute # "open"
    BY <1>1, <1>2, <1>3, <1>6, <2>1 DEF Refund
  <2>3. z.paid /\ z.refunded = sum /\ z.dispute = s.dispute /\ z.disputed = s.disputed
    BY <1>4, <2>2 DEF Charge
  <2>4. s.refunded < sum /\ sum <= Paid
    BY <1>1, <1>2, <1>4, <2>1
  <2>5. PICK e : e = [type |-> "refunded", top |-> t, sum |-> sum]
    OBVIOUS
  <2>6. sent' = sent \cup {e} /\ e.top = t /\ e.type = "refunded" /\ e.sum = sum
    BY <2>1, <2>5 DEF Send
  <2>7. StripeMove(e, s, z)
    BY <2>2, <2>3, <2>4, <2>6 DEF StripeMove
  <2>8. QED
    BY <1>2, <1>3, <2>6, <2>7
<1>7. CASE Dispute(t)
  <2>1. /\ z = [s EXCEPT !.dispute = "open", !.disputed = Paid - s.refunded]
        /\ s.paid /\ s.dispute = "none" /\ s.refunded < Paid
    BY <1>1, <1>2, <1>3, <1>7 DEF Dispute
  <2>2. z.paid /\ z.refunded = s.refunded /\ z.dispute = "open" /\ z.disputed = Paid - s.refunded
    BY <1>4, <2>1 DEF Charge
  <2>3. PICK e : e = [type |-> "disputed", top |-> t, sum |-> 0]
    OBVIOUS
  <2>4. sent' = sent \cup {e} /\ e.top = t /\ e.type = "disputed"
    BY <1>7, <2>3 DEF Dispute, Send
  <2>5. StripeMove(e, s, z)
    BY <2>1, <2>2, <2>4 DEF StripeMove
  <2>6. QED
    BY <1>2, <1>3, <2>4, <2>5
<1>8. CASE Win(t)
  <2>1. z = [s EXCEPT !.dispute = "won"] /\ s.dispute = "open"
    BY <1>1, <1>2, <1>3, <1>8 DEF Win
  <2>2. z.paid = s.paid /\ z.refunded = s.refunded /\ z.dispute = "won" /\ z.disputed = s.disputed
    BY <1>4, <2>1 DEF Charge
  <2>3. PICK e : e = [type |-> "won", top |-> t, sum |-> 0]
    OBVIOUS
  <2>4. sent' = sent \cup {e} /\ e.top = t /\ e.type = "won"
    BY <1>8, <2>3 DEF Win, Send
  <2>5. StripeMove(e, s, z)
    BY <2>1, <2>2, <2>4 DEF StripeMove
  <2>6. QED
    BY <1>2, <1>3, <2>4, <2>5
<1>9. QED
  BY <1>5, <1>6, <1>7, <1>8 DEF StripeSteps

LEMMA StripeStepTells ==
  ASSUME CreditTypeOK, StripeTells, NEW t \in Topup, StripeSteps(t)
  PROVE  StripeTells'
<1>1. PICK e, s, z : /\ s = charge[t] /\ z = charge'[t] /\ sent' = sent \cup {e} /\ e.top = t
                    /\ StripeMove(e, s, z)
  BY StripeMoves
<1>2. \A u \in Topup \ {t} : charge'[u] = charge[u]
  BY StripeTypes
<1>3. s \in Charge /\ s.refunded \in 0..Paid /\ s.disputed \in 0..Paid /\ Paid \in Nat /\ Paid # 0
      /\ s.dispute \in {"none", "open", "won"} /\ sent \subseteq Event
  BY <1>1, PaidAssumption DEF CreditTypeOK, Charge
<1> DEFINE Tells(u, x) ==
  /\ x.paid => Told(u, "paid")
  /\ x.refunded # 0 => \E d \in sent : d.top = u /\ d.type = "refunded" /\ d.sum = x.refunded
  /\ x.dispute # "none" <=> Told(u, "disputed")
  /\ x.dispute = "won" <=> Told(u, "won")
  /\ \A d \in sent : d.top = u => x.paid /\ (d.type = "refunded" => d.sum <= x.refunded)
  /\ ~x.paid => x.refunded = 0 /\ x.dispute = "none"
  /\ x.dispute = "none" <=> x.disputed = 0
  /\ x.dispute # "none" => x.refunded + x.disputed >= Paid
  /\ x.dispute = "open" => x.refunded + x.disputed = Paid
<1>4. SUFFICES ASSUME NEW u \in Topup, NEW x, x = charge'[u] PROVE Tells(u, x)'
  BY DEF StripeTells
<1>5. CASE u # t
  <2>1. x = charge[u] /\ Tells(u, x)
    BY <1>2, <1>4, <1>5 DEF StripeTells
  <2>2. \A d \in sent' : d.top = u => d \in sent
    BY <1>1, <1>5
  <2>3. sent \subseteq sent'
    BY <1>1
  <2>4. \A type : Told(u, type)' <=> Told(u, type)
    BY <2>2, <2>3 DEF Told
  <2>5. QED
    BY <2>1, <2>2, <2>3, <2>4
<1>6. CASE u = t
  <2>1. x = z /\ Tells(t, s)
    BY <1>1, <1>4, <1>6 DEF StripeTells
  <2>2. \A type : Told(t, type)' <=> (Told(t, type) \/ e.type = type)
    BY <1>1 DEF Told
  <2>3. \A d \in sent' : d \in sent \/ d = e
    BY <1>1
  <2>4. sent \subseteq sent' /\ e \in sent'
    BY <1>1
  <2>5. \A d \in sent : d.top = t /\ d.type = "refunded" => d.sum \in Nat /\ d.sum <= s.refunded /\ s.paid
    BY <1>3, <2>1 DEF Event
  <2>6. CASE e.type = "paid"
    BY <1>1, <1>6, <2>1, <2>2, <2>3, <2>4, <2>6 DEF StripeMove
  <2>7. CASE e.type = "refunded"
    <3>1. /\ s.paid /\ s.dispute # "open" /\ s.refunded < e.sum /\ e.sum <= Paid
          /\ z.paid /\ z.refunded = e.sum /\ z.dispute = s.dispute /\ z.disputed = s.disputed
      BY <1>1, <2>7 DEF StripeMove
    <3>2. \A d \in sent' : d.top = t => z.paid /\ (d.type = "refunded" => d.sum <= z.refunded)
      <4> SUFFICES ASSUME NEW d \in sent', d.top = t, d.type = "refunded" PROVE d.sum <= z.refunded
        BY <3>1
      <4>1. CASE d = e
        <5>1. e.sum \in Nat
          BY <1>1, <2>4, <2>7, StripeTypes DEF Event
        <5>2. QED
          BY <3>1, <4>1, <5>1
      <4>2. CASE d \in sent
        <5>1. d.sum \in Nat /\ d.sum <= s.refunded
          BY <2>5, <4>2
        <5>2. e.sum \in Nat
          BY <1>1, <2>4, <2>7, StripeTypes DEF Event
        <5>3. QED
          BY <1>3, <3>1, <5>1, <5>2
      <4>3. QED
        BY <2>3, <4>1, <4>2
    <3>3. \E d \in sent' : d.top = t /\ d.type = "refunded" /\ d.sum = z.refunded
      BY <1>1, <2>4, <2>7, <3>1
    <3>4. e.sum \in Nat
      BY <2>4, <2>7, StripeTypes DEF Event
    <3>5. z.dispute # "none" => z.refunded + z.disputed >= Paid
      BY <1>3, <2>1, <3>1, <3>4
    <3>6. QED
      BY <1>6, <2>1, <2>2, <2>7, <3>1, <3>2, <3>3, <3>5
  <2>8. CASE e.type = "disputed"
    <3>1. /\ s.paid /\ s.dispute = "none" /\ s.refunded < Paid
          /\ z.paid /\ z.refunded = s.refunded /\ z.dispute = "open" /\ z.disputed = Paid - s.refunded
      BY <1>1, <2>8 DEF StripeMove
    <3>2. z.disputed # 0 /\ z.refunded + z.disputed = Paid
      BY <1>3, <3>1
    <3>3. \A d \in sent' : d.top = t => z.paid /\ (d.type = "refunded" => d.sum <= z.refunded)
      BY <2>3, <2>5, <2>8, <3>1
    <3>4. z.refunded # 0 => \E d \in sent' : d.top = t /\ d.type = "refunded" /\ d.sum = z.refunded
      BY <2>1, <2>4, <3>1
    <3>5. Told(t, "paid")' /\ Told(t, "disputed")' /\ ~Told(t, "won")'
      BY <2>1, <2>2, <2>8, <3>1
    <3>6. z.refunded + z.disputed >= Paid
      BY <1>3, <3>2
    <3>7. QED
      BY <1>6, <2>1, <3>1, <3>2, <3>3, <3>4, <3>5, <3>6
  <2>9. CASE e.type = "won"
    <3>1. /\ s.dispute = "open"
          /\ z.paid = s.paid /\ z.refunded = s.refunded /\ z.dispute = "won" /\ z.disputed = s.disputed
      BY <1>1, <2>9 DEF StripeMove
    <3>2. \A d \in sent' : d.top = t => z.paid /\ (d.type = "refunded" => d.sum <= z.refunded)
      BY <2>1, <2>3, <2>5, <2>9, <3>1
    <3>3. z.refunded # 0 => \E d \in sent' : d.top = t /\ d.type = "refunded" /\ d.sum = z.refunded
      BY <2>1, <2>4, <3>1
    <3>4. Told(t, "paid")' /\ Told(t, "disputed")' /\ Told(t, "won")'
      BY <2>1, <2>2, <2>9, <3>1
    <3>5. QED
      BY <1>6, <2>1, <3>1, <3>2, <3>3, <3>4
  <2>10. QED
    BY <1>1, <2>6, <2>7, <2>8, <2>9 DEF StripeMove
<1>7. QED
  BY <1>5, <1>6

LEMMA StripeStepBooks ==
  ASSUME BaseInv, StripeTells, BooksFit, NEW t \in Topup, StripeSteps(t)
  PROVE  BooksFit' /\ \A d \in sent : Done(d) => Done(d)'
<1>1. PICK e, s, z : /\ s = charge[t] /\ z = charge'[t] /\ sent' = sent \cup {e} /\ e.top = t
                     /\ StripeMove(e, s, z)
  BY StripeMoves DEF BaseInv
<1>2. \A u \in Topup \ {t} : charge'[u] = charge[u]
  BY StripeTypes DEF BaseInv
<1>3. ledger' = ledger /\ CreditTypeOK
  BY StripeTypes DEF BaseInv, credit
<1>4. s \in Charge /\ s.refunded \in 0..Paid /\ s.disputed \in 0..Paid /\ Paid \in Nat
      /\ s.dispute \in {"none", "open", "won"} /\ sent \subseteq Event
  BY <1>1, <1>3, PaidAssumption DEF CreditTypeOK, Charge
<1>5. \A u \in Topup : Refunds(u)' = Refunds(u) /\ Refunds(u) \in Nat /\ ledger[u].dispute \in Nat
  BY <1>3, <1>4, RefundsType, RowsType DEF Refunds
<1>6. \A u \in Topup \ {t} : Fair(u)' <=> Fair(u)
  BY <1>2 DEF Fair
<1>7. /\ s.dispute = "none" <=> s.disputed = 0
      /\ s.dispute # "none" => s.refunded + s.disputed >= Paid
      /\ s.dispute = "open" => s.refunded + s.disputed = Paid
      /\ \A d \in sent : d.top = t /\ d.type = "disputed" => s.dispute # "none"
  BY <1>1 DEF StripeTells, Told
<1>8. e.type = "refunded" => e.sum \in Nat
  <2>1. e \in Event
    BY <1>1, <1>3, StripeTypes
  <2>2. QED
    BY <1>4, <2>1 DEF Event
<1>9. /\ z.refunded >= s.refunded /\ z.refunded \in Int /\ z.disputed \in Int
      /\ s.paid => z.paid
      /\ s.dispute # "none" => z.dispute # "none" /\ z.disputed = s.disputed
      /\ z.disputed >= s.disputed
      /\ s.dispute = "won" => z.dispute = "won"
  BY <1>1, <1>4, <1>7, <1>8 DEF StripeMove
<1>10. Fair(t)' => Fair(t)
  <2> SUFFICES ASSUME z.dispute # "none" => z.refunded + z.disputed = Paid, s.dispute # "none"
               PROVE  s.refunded + s.disputed = Paid
    BY <1>1 DEF Fair
  <2>1. z.refunded + s.disputed = Paid
    BY <1>9
  <2>2. s.refunded + s.disputed >= Paid
    BY <1>7
  <2>3. QED
    BY <1>4, <1>9, <2>1, <2>2
<1>11. BookFits(t)'
  <2>1. BookFits(t)
    BY DEF BooksFit
  <2>2. ~z.paid => ledger[t].top = 0
    BY <1>1, <1>9, <2>1 DEF BookFits
  <2>3. Refunds(t) <= z.refunded /\ ledger[t].dispute <= z.disputed
    BY <1>1, <1>4, <1>5, <1>9, <2>1 DEF BookFits
  <2>4. ledger[t].won # 0 => z.dispute = "won"
    BY <1>1, <1>9, <2>1 DEF BookFits
  <2>5. Fair(t)' => /\ \A c \in 1..Paid : ledger[t].refund[c] # 0 => Refunds(t) >= c
                    /\ ledger[t].dispute \in {0, z.disputed}
    <3> SUFFICES ASSUME Fair(t) PROVE /\ \A c \in 1..Paid : ledger[t].refund[c] # 0 => Refunds(t) >= c
                                      /\ ledger[t].dispute \in {0, z.disputed}
      BY <1>10
    <3>1. /\ \A c \in 1..Paid : ledger[t].refund[c] # 0 => Refunds(t) >= c
          /\ ledger[t].dispute \in {0, s.disputed}
      BY <1>1, <2>1 DEF BookFits
    <3>2. CASE s.dispute = "none"
      BY <1>7, <3>1, <3>2
    <3>3. CASE s.dispute # "none"
      BY <1>9, <3>1, <3>3
    <3>4. QED
      BY <3>2, <3>3
  <2>6. QED
    BY <1>1, <1>3, <1>5, <2>2, <2>3, <2>4, <2>5 DEF BookFits
<1>12. \A u \in Topup : BookFits(u)'
  <2> SUFFICES ASSUME NEW u \in Topup, u # t PROVE BookFits(u)'
    BY <1>11
  <2>1. BookFits(u)
    BY DEF BooksFit
  <2>2. QED
    BY <1>2, <1>3, <1>5, <1>6, <2>1 DEF BookFits
<1>13. BooksFit'
  BY <1>12 DEF BooksFit
<1>14. ASSUME NEW d \in sent, Done(d) PROVE Done(d)'
  <2>1. d.top \in Topup
    BY <1>4 DEF Event
  <2>2. CASE d.top # t
    BY <1>2, <1>3, <1>5, <1>6, <1>14, <2>1, <2>2 DEF Done
  <2>3. CASE d.top = t
    <3>1. d.type = "disputed" => z.disputed = s.disputed
      BY <1>7, <1>9, <2>3
    <3>2. QED
      BY <1>1, <1>3, <1>5, <1>10, <1>14, <2>1, <2>3, <3>1 DEF Done
  <2>4. QED
    BY <2>2, <2>3
<1>15. QED
  BY <1>13, <1>14

\* Booking a refund or a dispute brings the books up with it, wherever Stripe has been
\* fair, and undoes nothing.
LEMMA BookBooks ==
  ASSUME BaseInv, StripeTells, BooksFit, NEW e \in sent, e.type \in {"refunded", "disputed"},
         ledger[e.top].top = Paid, Debit(e), charge' = charge
  PROVE  BooksFit' /\ Done(e)' /\ \A d \in sent : Done(d) => Done(d)'
<1>1. e \in Event /\ e.top \in Topup /\ (e.type = "refunded" => e.sum \in 1..Paid) /\ CreditTypeOK
  BY DEF BaseInv, CreditTypeOK, Event
<1>2. PICK t : t = e.top
  OBVIOUS
<1>3. PICK s, l, z : s = charge[t] /\ l = ledger[t] /\ z = ledger'[t]
  OBVIOUS
<1>4. PICK R, T, n : R = Refunds(t) /\ T = Refunds(t)' /\ n = Amount(e)
  OBVIOUS
<1>5. /\ ledger' \in [Topup -> Rows] /\ \A u \in Topup : u # t => ledger'[u] = ledger[u]
      /\ z.top = l.top /\ z.won = l.won
      /\ T = R + (IF e.type = "refunded" THEN n ELSE 0)
      /\ z.dispute = l.dispute + (IF e.type = "refunded" THEN 0 ELSE n)
      /\ \A c \in 1..Paid : z.refund[c] # l.refund[c] => e.type = "refunded" /\ c = e.sum /\ n # 0
  BY <1>1, <1>2, <1>3, <1>4, DebitRows
<1>6. /\ s.refunded \in 0..Paid /\ s.disputed \in 0..Paid /\ Paid \in Nat
      /\ R \in Nat /\ l.dispute \in Nat /\ l.top = Paid
      /\ l.refund \in [1..Paid -> 0..Paid]
  <2>1. t \in Topup /\ s \in Charge /\ Paid \in Nat
    BY <1>1, <1>2, <1>3, PaidAssumption DEF CreditTypeOK
  <2>2. s.refunded \in 0..Paid /\ s.disputed \in 0..Paid
    BY <2>1 DEF Charge
  <2>3. /\ R \in Nat /\ l.dispute \in Nat /\ l.refund \in [1..Paid -> 0..Paid]
    BY <1>1, <1>3, <1>4, <2>1, RefundsType, RowsType
  <2>4. l.top = Paid
    BY <1>2, <1>3
  <2>5. QED
    BY <2>1, <2>2, <2>3, <2>4
<1>7. /\ n \in Nat
      /\ n # 0 => RowOf(e) = 0 /\ n <= New(e)
      /\ RowOf(e) = 0 => n = Most0(Least(New(e), Paid - (R + l.dispute)))
  BY <1>1, <1>2, <1>3, <1>4, <1>6, AmountType DEF Amount, Left, Reversed
<1>8. /\ s.paid /\ (e.type = "refunded" => e.sum <= s.refunded)
      /\ e.type = "disputed" => s.dispute # "none"
      /\ s.dispute = "none" <=> s.disputed = 0
      /\ \A d \in sent : d.top = t /\ d.type = "disputed" => s.dispute # "none"
  BY <1>1, <1>2, <1>3 DEF StripeTells, Told
<1>9. BookFits(t)
  BY <1>1, <1>2 DEF BooksFit
<1>10. R <= s.refunded /\ l.dispute <= s.disputed /\ (l.won # 0 => s.dispute = "won")
  BY <1>3, <1>4, <1>9 DEF BookFits
<1>11. Fair(t) => /\ \A c \in 1..Paid : l.refund[c] # 0 => R >= c
                  /\ l.dispute \in {0, s.disputed}
  BY <1>3, <1>4, <1>9 DEF BookFits
<1>12. Fair(t)' <=> Fair(t)
  BY DEF Fair
<1>13. Fair(t) => (s.dispute # "none" => s.refunded + s.disputed = Paid)
  BY <1>3 DEF Fair
<1>14. T \in Nat /\ T >= R /\ T <= s.refunded /\ z.dispute <= s.disputed
       /\ (Fair(t) => (e.type = "refunded" => T >= e.sum) /\ (e.type = "disputed" => z.dispute = s.disputed)
                      /\ z.dispute \in {0, s.disputed})
  <2>1. CASE e.type = "refunded"
    <3>1. RowOf(e) = l.refund[e.sum] /\ New(e) = e.sum - R /\ T = R + n /\ z.dispute = l.dispute
      BY <1>2, <1>3, <1>4, <1>5, <1>6, <2>1 DEF RowOf, New
    <3>2. e.sum \in 1..Paid /\ e.sum <= s.refunded
      BY <1>1, <1>8, <2>1
    <3>3. T \in Nat /\ T >= R /\ T <= s.refunded
      <4>1. CASE n = 0
        BY <1>6, <1>10, <3>1, <4>1
      <4>2. CASE n # 0
        <5>1. n <= e.sum - R
          BY <1>7, <3>1, <4>2
        <5>2. QED
          BY <1>6, <1>7, <3>1, <3>2, <5>1
      <4>3. QED
        BY <4>1, <4>2
    <3>4. ASSUME Fair(t) PROVE T >= e.sum
      <4>1. CASE l.refund[e.sum] # 0
        BY <1>6, <1>11, <3>1, <3>2, <3>3, <3>4, <4>1
      <4>2. CASE l.refund[e.sum] = 0
        <5>1. n = Most0(Least(e.sum - R, Paid - (R + l.dispute)))
          BY <1>7, <3>1, <4>2
        <5>2. l.dispute <= Paid - e.sum
          BY <1>6, <1>8, <1>10, <1>13, <3>2, <3>4
        <5>3. Least(e.sum - R, Paid - (R + l.dispute)) = e.sum - R
          BY <1>6, <3>2, <5>2 DEF Least
        <5>4. n >= e.sum - R
          BY <1>6, <3>2, <5>1, <5>3 DEF Most0
        <5>5. QED
          BY <1>6, <1>7, <3>1, <3>2, <5>4
      <4>3. QED
        BY <4>1, <4>2
    <3>5. QED
      BY <1>10, <1>11, <2>1, <3>1, <3>3, <3>4
  <2>2. CASE e.type = "disputed"
    <3>1. RowOf(e) = l.dispute /\ New(e) = s.disputed /\ T = R /\ z.dispute = l.dispute + n
      BY <1>2, <1>3, <1>4, <1>5, <1>6, <2>2 DEF RowOf, New
    <3>2. z.dispute <= s.disputed
      BY <1>6, <1>7, <1>10, <3>1
    <3>3. ASSUME Fair(t) PROVE z.dispute = s.disputed
      <4>1. CASE l.dispute # 0
        BY <1>6, <1>7, <1>11, <3>1, <3>3, <4>1
      <4>2. CASE l.dispute = 0
        <5>1. n = Most0(Least(s.disputed, Paid - (R + 0)))
          BY <1>7, <3>1, <4>2
        <5>2. s.disputed <= Paid - R
          BY <1>6, <1>8, <1>10, <1>13, <2>2, <3>3
        <5>3. n = s.disputed
          BY <1>6, <5>1, <5>2 DEF Most0, Least
        <5>4. QED
          BY <1>6, <3>1, <4>2, <5>3
      <4>3. QED
        BY <4>1, <4>2
    <3>4. QED
      BY <1>6, <1>10, <2>2, <3>1, <3>2, <3>3
  <2>3. QED
    BY <2>1, <2>2
<1>15. ASSUME Fair(t), NEW c \in 1..Paid, z.refund[c] # 0 PROVE T >= c
  <2>1. CASE z.refund[c] = l.refund[c]
    <3>1. R >= c
      BY <1>11, <1>15, <2>1
    <3>2. QED
      BY <1>6, <1>14, <3>1
  <2>2. CASE z.refund[c] # l.refund[c]
    BY <1>5, <1>14, <1>15, <2>2
  <2>3. QED
    BY <2>1, <2>2
<1>16. BookFits(t)'
  BY <1>3, <1>4, <1>5, <1>8, <1>10, <1>12, <1>14, <1>15 DEF BookFits
<1>17. \A u \in Topup : u # t => Refunds(u)' = Refunds(u) /\ (Fair(u)' <=> Fair(u))
  BY <1>5 DEF Refunds, Fair
<1>18. BooksFit'
  <2>1. \A u \in Topup : BookFits(u)'
    <3> SUFFICES ASSUME NEW u \in Topup, u # t PROVE BookFits(u)'
      BY <1>16
    <3>1. BookFits(u)
      BY DEF BooksFit
    <3>2. QED
      BY <1>5, <1>17, <3>1 DEF BookFits
  <2>2. QED
    BY <2>1 DEF BooksFit
<1>19. Done(e)'
  BY <1>2, <1>3, <1>4, <1>5, <1>6, <1>12, <1>14 DEF Done
<1>20. ASSUME NEW d \in sent, Done(d) PROVE Done(d)'
  <2>1. d \in Event /\ d.top \in Topup
    BY <1>1 DEF CreditTypeOK, Event
  <2>2. CASE d.top # t
    BY <1>5, <1>17, <1>20, <2>1, <2>2 DEF Done
  <2>3. CASE d.top = t
    <3>1. /\ l.top = Paid
          /\ Fair(t) /\ d.type = "refunded" => R >= d.sum
          /\ Fair(t) /\ d.type = "disputed" => l.dispute = s.disputed
          /\ d.type = "won" => l.won # 0
      BY <1>3, <1>4, <1>20, <2>3 DEF Done
    <3>2. Fair(t) /\ d.type = "refunded" => T >= d.sum
      <4>1. d.type = "refunded" => d.sum \in Nat
        BY <2>1 DEF Event
      <4>2. QED
        BY <1>6, <1>14, <3>1, <4>1
    <3>3. Fair(t) /\ d.type = "disputed" => z.dispute = s.disputed
      <4> SUFFICES ASSUME Fair(t), d.type = "disputed" PROVE z.dispute = s.disputed
        OBVIOUS
      <4>1. s.disputed # 0 /\ l.dispute = s.disputed
        BY <1>8, <2>3, <3>1
      <4>2. z.dispute \in {0, s.disputed} /\ z.dispute >= l.dispute
        BY <1>5, <1>6, <1>7, <1>14
      <4>3. QED
        BY <1>6, <4>1, <4>2
    <3>4. QED
      BY <1>3, <1>4, <1>5, <1>12, <2>3, <3>1, <3>2, <3>3 DEF Done
  <2>4. QED
    BY <2>2, <2>3
<1>21. QED
  BY <1>18, <1>19, <1>20

\* There is one event of a kind for a session, unless it is a refund.
LEMMA SameEvent ==
  ASSUME NEW d \in Event, NEW e \in Event, d.type = "won", e.type = "won", d.top = e.top
  PROVE  d = e
BY DEF Event

\* The top-up is booked, or what a won dispute has taken; the rest of the books stays.
LEMMA BooksKept ==
  ASSUME BaseInv, BooksFit, NEW t \in Topup,
         ledger' \in [Topup -> Rows], charge' = charge,
         \A u \in Topup : u # t => ledger'[u] = ledger[u],
         ledger'[t].refund = ledger[t].refund, ledger'[t].dispute = ledger[t].dispute,
         \/ ledger'[t].top = ledger[t].top
         \/ ledger'[t].top = Paid /\ charge[t].paid,
         \/ ledger'[t].won = ledger[t].won
         \/ ledger'[t].won = ledger[t].dispute /\ charge[t].dispute = "won"
  PROVE  BooksFit' /\ \A d \in sent : Done(d) => Done(d)'
<1>1. PICK s, l, z : s = charge[t] /\ l = ledger[t] /\ z = ledger'[t]
  OBVIOUS
<1>2. \A u \in Topup : Refunds(u)' = Refunds(u) /\ (Fair(u)' <=> Fair(u))
  BY DEF Refunds, Fair
<1>3. BookFits(t)
  BY DEF BooksFit
<1>4. l.won \in {0, l.dispute} /\ l.top \in {0, Paid}
  BY <1>1, RowsType DEF BaseInv, WonAsTaken
<1>5. BookFits(t)'
  <2>1. ~s.paid => z.top = 0
    BY <1>1, <1>3 DEF BookFits
  <2>2. z.won # 0 => s.dispute = "won"
    BY <1>1, <1>3 DEF BookFits
  <2>3. QED
    BY <1>1, <1>2, <1>3, <2>1, <2>2 DEF BookFits
<1>6. \A u \in Topup : BookFits(u)'
  <2> SUFFICES ASSUME NEW u \in Topup, u # t PROVE BookFits(u)'
    BY <1>5
  <2>1. BookFits(u)
    BY DEF BooksFit
  <2>2. QED
    BY <1>2, <2>1 DEF BookFits
<1>7. ASSUME NEW d \in sent, Done(d) PROVE Done(d)'
  <2>1. d.top \in Topup
    BY DEF BaseInv, CreditTypeOK, Event
  <2>2. CASE d.top # t
    BY <1>2, <1>7, <2>1, <2>2 DEF Done
  <2>3. CASE d.top = t
    <3>1. z.top = Paid
      BY <1>1, <1>7, <2>3 DEF Done
    <3>2. d.type = "won" => z.won # 0
      BY <1>1, <1>4, <1>7, <2>3 DEF Done
    <3>3. QED
      BY <1>1, <1>2, <1>7, <2>3, <3>1, <3>2 DEF Done
  <2>4. QED
    BY <2>2, <2>3
<1>8. QED
  BY <1>6, <1>7 DEF BooksFit

\* No step of a request puts the books ahead of Stripe, or undoes what an event has
\* brought about.
LEMMA RequestBooks ==
  ASSUME BaseInv, EventsInv, NEW h \in Handler, CreditSteps(h)
  PROVE  /\ BooksFit' /\ \A d \in sent : Done(d) => Done(d)'
         /\ \A u \in Topup : ledger[u].top = Paid => ledger'[u].top = Paid
         /\ \A u \in Topup : ledger'[u].won # ledger[u].won => Won(h) /\ u = handler[h].event.top
         /\ charge' = charge /\ sent' = sent
<1>1. StripeTells /\ BooksFit /\ RequestsFit
  BY DEF EventsInv
<1>2. charge' = charge /\ sent' = sent
  BY RequestMoves DEF stripe
<1>3. PICK e : e = handler[h].event
  OBVIOUS
<1>4. handler[h].at # "idle" => e \in sent /\ e.top \in Topup
  BY <1>3, WorksOn
<1>5. CASE UNCHANGED ledger
  <2>1. BooksFit'
    BY <1>1, <1>2, <1>5 DEF BooksFit, BookFits, Refunds, Fair
  <2>2. \A d \in sent : Done(d) => Done(d)'
    BY <1>2, <1>5 DEF Done, Refunds, Fair
  <2>3. QED
    BY <1>2, <1>5, <2>1, <2>2
<1>6. CASE Credit(h)
  <2>1. handler[h].at = "credit"
    BY <1>6 DEF Credit, At
  <2>2. PICK t : t = e.top /\ t \in Topup
    BY <1>4, <2>1
  <2>3. /\ ledger' \in [Topup -> Rows]
        /\ \A u \in Topup : u # t => ledger'[u] = ledger[u]
        /\ ledger'[t].top = Paid /\ ledger'[t].dispute = ledger[t].dispute
        /\ ledger'[t].won = ledger[t].won /\ ledger'[t].refund = ledger[t].refund
    BY <1>3, <1>6, <2>2, CreditRows
  <2>4. charge[t].paid
    BY <1>1, <1>4, <2>1, <2>2 DEF StripeTells
  <2>5. BooksFit' /\ \A d \in sent : Done(d) => Done(d)'
    BY <1>1, <1>2, <2>2, <2>3, <2>4, BooksKept
  <2>6. QED
    BY <1>2, <2>2, <2>3, <2>5
<1>7. CASE Won(h)
  <2>1. handler[h].at = "won"
    BY <1>7 DEF Won, At
  <2>2. PICK t : t = e.top /\ t \in Topup
    BY <1>4, <2>1
  <2>3. /\ ledger' \in [Topup -> Rows]
        /\ \A u \in Topup : u # t => ledger'[u] = ledger[u]
        /\ ledger'[t].top = ledger[t].top /\ ledger'[t].dispute = ledger[t].dispute
        /\ ledger'[t].won = ledger[t].dispute /\ ledger'[t].refund = ledger[t].refund
    BY <1>3, <1>7, <2>2, WonRows
  <2>4. charge[t].dispute = "won"
    <3>1. e.type = "won" /\ e \in sent
      BY <1>1, <1>3, <1>4, <2>1 DEF RequestsFit
    <3>2. QED
      BY <1>1, <2>2, <3>1 DEF StripeTells, Told
  <2>5. BooksFit' /\ \A d \in sent : Done(d) => Done(d)'
    BY <1>1, <1>2, <2>2, <2>3, <2>4, BooksKept
  <2>6. \A u \in Topup : ledger'[u].won # ledger[u].won => u = t
    BY <2>3
  <2>7. QED
    BY <1>2, <1>3, <1>7, <2>2, <2>3, <2>5, <2>6
<1>8. CASE Book(h)
  <2>1. handler[h].at = "book" /\ Debit(e)
    BY <1>3, <1>8 DEF Book, At
  <2>2. e \in sent /\ e.type \in {"refunded", "disputed"} /\ ledger[e.top].top = Paid
    BY <1>1, <1>3, <1>4, <2>1 DEF RequestsFit
  <2>3. BooksFit' /\ \A d \in sent : Done(d) => Done(d)'
    BY <1>1, <1>2, <2>1, <2>2, BookBooks
  <2>4. e \in Event /\ CreditTypeOK
    BY <2>2 DEF BaseInv, CreditTypeOK
  <2>5. \A u \in Topup : ledger'[u].top = ledger[u].top /\ ledger'[u].won = ledger[u].won
    BY <2>1, <2>4, DebitRows
  <2>6. QED
    BY <1>2, <2>3, <2>5
<1>9. QED
  BY <1>5, <1>6, <1>7, <1>8 DEF CreditSteps, Begin, Answer, Fail, Undo, Die, credit

\* What a step of a request notes about its own event, and about no other.
LEMMA OwnEvent ==
  ASSUME BaseInv, NEW h \in Handler, CreditSteps(h), ~Begin(h), NEW x, x = handler[h].event
  PROVE  /\ handler[h].at # "idle" /\ x \in sent \cap seen
         /\ \A i \in Handler \ {h} : handler[i].at # "idle" => handler[i].event # x
         /\ \A d : d # x => /\ d \in lost' <=> d \in lost
                            /\ d \in answered' <=> d \in answered
                            /\ d \in seen' <=> d \in seen
<1>1. handler[h].at # "idle"
  BY DEF CreditSteps, Credit, Book, Won, Answer, Fail, Undo, Die, At
<1>2. x \in sent \cap seen
  BY <1>1, WorksOn
<1>3. \A i \in Handler \ {h} : handler[i].at # "idle" => handler[i].event # x
  BY <1>1 DEF BaseInv, HandlersWork
<1>4. \A d : d # x => /\ d \in lost' <=> d \in lost
                      /\ d \in answered' <=> d \in answered
                      /\ d \in seen' <=> d \in seen
  BY DEF CreditSteps, Credit, Book, Won, Answer, Fail, Undo, Die
<1>5. QED
  BY <1>1, <1>2, <1>3, <1>4

\* A request that is not the one that steps is where it was.
LEMMA OthersFit ==
  ASSUME BaseInv, EventsInv, NEW h \in Handler, CreditSteps(h), NEW i \in Handler \ {h},
         NEW e, e = handler'[i].event
  PROVE  /\ handler'[i].at = "book" => ledger'[e.top].top = Paid /\ e.type \in {"refunded", "disputed"}
         /\ handler'[i].at = "won" => ledger'[e.top].top = Paid /\ e.type = "won"
         /\ handler'[i].at = "answer" => Done(e)' \/ (e.type = "won" /\ ledger'[e.top].won = 0 /\ e \in lost')
         /\ handler'[i].at # "idle" /\ e \in answered' => e \in lost'
<1>1. handler'[i] = handler[i]
  BY RequestMoves
<1>2. SUFFICES ASSUME handler[i].at # "idle" PROVE
         /\ handler[i].at = "book" => ledger'[e.top].top = Paid /\ e.type \in {"refunded", "disputed"}
         /\ handler[i].at = "won" => ledger'[e.top].top = Paid /\ e.type = "won"
         /\ handler[i].at = "answer" => Done(e)' \/ (e.type = "won" /\ ledger'[e.top].won = 0 /\ e \in lost')
         /\ e \in answered' => e \in lost'
  BY <1>1
<1>3. e = handler[i].event
  BY <1>1
<1>4. e \in sent \cap seen /\ e \in Event /\ e.top \in Topup
  BY <1>2, <1>3, WorksOn
<1>5. /\ handler[i].at = "book" => ledger[e.top].top = Paid /\ e.type \in {"refunded", "disputed"}
      /\ handler[i].at = "won" => ledger[e.top].top = Paid /\ e.type = "won"
      /\ handler[i].at = "answer" => Done(e) \/ (e.type = "won" /\ ledger[e.top].won = 0 /\ e \in lost)
      /\ e \in answered => e \in lost
  BY <1>2, <1>3 DEF EventsInv, RequestsFit
<1>6. /\ \A d \in sent : Done(d) => Done(d)'
      /\ \A u \in Topup : ledger[u].top = Paid => ledger'[u].top = Paid
      /\ \A u \in Topup : ledger'[u].won # ledger[u].won => Won(h) /\ u = handler[h].event.top
  BY RequestBooks
<1>7. (e \in lost => e \in lost') /\ (e \in answered' => e \in answered)
  <2>1. CASE Begin(h)
    BY <2>1 DEF Begin
  <2>2. CASE ~Begin(h)
    BY <1>2, <1>3, <2>2, OwnEvent
  <2>3. QED
    BY <2>1, <2>2
<1>8. handler[i].at = "answer" /\ e.type = "won" => ledger'[e.top].won = ledger[e.top].won
  <2> SUFFICES ASSUME e.type = "won", ledger'[e.top].won # ledger[e.top].won PROVE FALSE
    OBVIOUS
  <2>1. Won(h) /\ e.top = handler[h].event.top
    BY <1>4, <1>6
  <2>2. handler[h].at = "won"
    BY <2>1 DEF Won, At
  <2>3. handler[h].event.type = "won" /\ handler[h].event \in Event
    BY <2>2, WorksOn DEF EventsInv, RequestsFit
  <2>4. handler[h].event = e
    BY <1>4, <2>1, <2>3, SameEvent
  <2>5. QED
    BY <1>2, <1>3, <2>2, <2>4 DEF BaseInv, HandlersWork
<1>9. QED
  BY <1>3, <1>4, <1>5, <1>6, <1>7, <1>8

\* Where the step has taken its own request.
LEMMA OwnFits ==
  ASSUME BaseInv, EventsInv, NEW h \in Handler, CreditSteps(h),
         NEW e, e = handler'[h].event
  PROVE  /\ handler'[h].at = "book" => ledger'[e.top].top = Paid /\ e.type \in {"refunded", "disputed"}
         /\ handler'[h].at = "won" => ledger'[e.top].top = Paid /\ e.type = "won"
         /\ handler'[h].at = "answer" => Done(e)' \/ (e.type = "won" /\ ledger'[e.top].won = 0 /\ e \in lost')
         /\ handler'[h].at # "idle" /\ e \in answered' => e \in lost'
<1>1. handler \in [Handler -> HandlerTypes] /\ handler[h] \in HandlerTypes
  BY DEF BaseInv, CreditTypeOK, HandlerTypes
<1>2. PICK x : x = handler[h].event
  OBVIOUS
<1>3. \A step : Goto(h, step) => handler'[h].at = step /\ handler'[h].event = x
  BY <1>1, <1>2 DEF Goto, HandlerTypes
<1>4. /\ handler[h].at = "book" => ledger[x.top].top = Paid /\ x.type \in {"refunded", "disputed"}
      /\ handler[h].at = "won" => ledger[x.top].top = Paid /\ x.type = "won"
      /\ handler[h].at # "idle" /\ x \in answered => x \in lost
  BY <1>2 DEF EventsInv, RequestsFit
<1>5. handler[h].at # "idle" => x \in sent \cap seen /\ x \in Event /\ x.top \in Topup
  BY <1>2, WorksOn
<1>6. CASE Begin(h)
  <2>1. e \notin answered /\ handler'[h].at = "credit"
    BY <1>1, <1>6 DEF Begin
  <2>2. answered' = answered
    BY <1>6 DEF Begin
  <2>3. QED
    BY <2>1, <2>2
<1>7. CASE Credit(h)
  <2>1. handler[h].at = "credit" /\ answered' = answered /\ lost' = lost
    BY <1>7 DEF Credit, At
  <2>2. ledger'[x.top].top = Paid
    BY <1>2, <1>7, CreditRows
  <2>3. x.type \in {"paid", "disputed", "won", "refunded"}
    BY <1>5, <2>1 DEF Event
  <2>4. CASE x.type = "paid"
    <3>1. Goto(h, "answer")
      BY <1>2, <1>7, <2>4 DEF Credit
    <3>2. Done(x)'
      BY <2>2, <2>4 DEF Done
    <3>3. e = x /\ handler'[h].at = "answer"
      BY <1>3, <3>1
    <3>4. Done(e)'
      BY <3>2, <3>3
    <3>5. QED
      BY <1>4, <2>1, <3>3, <3>4
  <2>5. CASE x.type = "won"
    <3>1. Goto(h, "won")
      BY <1>2, <1>7, <2>5 DEF Credit
    <3>2. QED
      BY <1>3, <1>4, <2>1, <2>2, <2>5, <3>1
  <2>6. CASE x.type \in {"refunded", "disputed"}
    <3>1. Goto(h, "book")
      BY <1>2, <1>7, <2>6 DEF Credit
    <3>2. QED
      BY <1>3, <1>4, <2>1, <2>2, <2>6, <3>1
  <2>7. QED
    BY <2>3, <2>4, <2>5, <2>6
<1>8. CASE Book(h)
  <2>1. handler[h].at = "book" /\ Debit(x) /\ Goto(h, "answer") /\ answered' = answered /\ lost' = lost
        /\ charge' = charge
    BY <1>2, <1>8 DEF Book, At, stripe
  <2>2. Done(x)'
    BY <1>4, <1>5, <2>1, BookBooks DEF EventsInv
  <2>3. QED
    BY <1>3, <1>4, <2>1, <2>2
<1>9. CASE Won(h)
  <2>1. handler[h].at = "won" /\ Goto(h, "answer") /\ answered' = answered
    BY <1>9 DEF Won, At
  <2>2. lost' = IF ledger[x.top].dispute = 0 THEN lost \cup {x} ELSE lost
    BY <1>2, <1>9 DEF Won
  <2>3. ledger'[x.top].top = ledger[x.top].top /\ ledger'[x.top].won = ledger[x.top].dispute
    BY <1>2, <1>9, WonRows
  <2>4. x.type = "won" /\ ledger[x.top].top = Paid
    BY <1>4, <2>1
  <2>5. CASE ledger[x.top].dispute = 0
    BY <1>3, <1>4, <2>1, <2>2, <2>3, <2>4, <2>5
  <2>6. CASE ledger[x.top].dispute # 0
    <3>1. Done(x)'
      BY <2>3, <2>4, <2>6 DEF Done
    <3>2. QED
      BY <1>3, <1>4, <2>1, <2>2, <2>6, <3>1
  <2>7. QED
    BY <2>5, <2>6
<1>10. CASE Answer(h) \/ Die(h) \/ Undo(h)
  <2>1. handler'[h] = NoRequest
    BY <1>1, <1>10 DEF Answer, Die, Undo
  <2>2. handler'[h].at = "idle"
    BY <2>1 DEF NoRequest
  <2>3. QED
    BY <2>2
<1>11. CASE Fail(h)
  <2>1. handler[h].at # "idle" /\ Goto(h, "undo") /\ answered' = answered /\ lost' = lost
    BY <1>11 DEF Fail
  <2>2. QED
    BY <1>3, <1>4, <2>1
<1>12. QED
  BY <1>6, <1>7, <1>8, <1>9, <1>10, <1>11 DEF CreditSteps

LEMMA StepRequestsFit ==
  ASSUME BaseInv, EventsInv, NEW h \in Handler, CreditSteps(h)
  PROVE  RequestsFit'
<1> SUFFICES ASSUME NEW i \in Handler, NEW e, e = handler'[i].event
             PROVE
         /\ handler'[i].at = "book" => ledger'[e.top].top = Paid /\ e.type \in {"refunded", "disputed"}
         /\ handler'[i].at = "won" => ledger'[e.top].top = Paid /\ e.type = "won"
         /\ handler'[i].at = "answer" => Done(e)' \/ (e.type = "won" /\ ledger'[e.top].won = 0 /\ e \in lost')
         /\ handler'[i].at # "idle" /\ e \in answered' => e \in lost'
  BY DEF RequestsFit
<1>1. CASE i = h
  BY <1>1, OwnFits
<1>2. CASE i # h
  BY <1>2, OthersFit
<1>3. QED
  BY <1>1, <1>2

LEMMA StepEventsFit ==
  ASSUME BaseInv, EventsInv, NEW h \in Handler, CreditSteps(h)
  PROVE  EventsFit'
<1>1. /\ \A e \in seen : Working(e) \/ e \in lost \/ Done(e)
      /\ answered \ lost \subseteq seen
  BY DEF EventsInv, EventsFit
<1>2. \A d \in sent : Done(d) => Done(d)'
  BY RequestBooks
<1>3. seen \subseteq sent
  BY DEF BaseInv, CreditTypeOK
<1>4. \A i \in Handler \ {h} : handler'[i] = handler[i]
  BY RequestMoves
<1>5. CASE Begin(h)
  <2>1. PICK x \in sent \ (answered \cup seen) :
              handler'[h] = [at |-> "credit", event |-> x] /\ seen' = seen \cup {x}
    BY <1>5, RequestMoves DEF Begin, At, CreditSteps, Credit, Book, Won, Answer, Fail, Undo, Die
  <2>2. answered' = answered /\ lost' = lost
    BY <1>5 DEF Begin
  <2>3. Working(x)'
    BY <2>1 DEF Working
  <2>4. ASSUME NEW e \in seen PROVE Working(e)' \/ e \in lost' \/ Done(e)'
    <3>1. handler[h].at = "idle"
      BY <1>5 DEF Begin, At
    <3>2. Working(e) => Working(e)'
      BY <1>4, <3>1 DEF Working
    <3>3. QED
      BY <1>1, <1>2, <1>3, <2>2, <2>4, <3>2
  <2>5. QED
    BY <1>1, <2>1, <2>2, <2>3, <2>4 DEF EventsFit
<1>6. CASE ~Begin(h)
  <2>1. PICK x : x = handler[h].event
    OBVIOUS
  <2>2. /\ handler[h].at # "idle" /\ x \in sent \cap seen
        /\ \A d : d # x => /\ d \in lost' <=> d \in lost
                           /\ d \in answered' <=> d \in answered
                           /\ d \in seen' <=> d \in seen
    BY <1>6, <2>1, OwnEvent
  <2>3. ASSUME NEW e \in seen', e # x PROVE Working(e)' \/ e \in lost' \/ Done(e)'
    <3>1. e \in seen /\ e \in sent
      BY <1>3, <2>2, <2>3
    <3>2. Working(e) => Working(e)'
      BY <1>4, <2>1, <2>3 DEF Working
    <3>3. QED
      BY <1>1, <1>2, <2>2, <2>3, <3>1, <3>2
  <2>4. /\ handler[h].at = "answer" => Done(x) \/ (x.type = "won" /\ ledger[x.top].won = 0 /\ x \in lost)
        /\ x \in answered => x \in lost
    BY <2>1, <2>2 DEF EventsInv, RequestsFit
  <2>5. /\ x \in seen' => Working(x)' \/ x \in lost' \/ Done(x)'
        /\ x \in answered' => x \in lost' \/ x \in seen'
    <3>1. CASE Credit(h) \/ Book(h) \/ Won(h) \/ Fail(h)
      <4>1. handler'[h].at # "idle" /\ handler'[h].event = x /\ seen' = seen
        <5>1. handler \in [Handler -> HandlerTypes] /\ handler[h] \in HandlerTypes
          BY DEF BaseInv, CreditTypeOK, HandlerTypes
        <5>2. \A step : Goto(h, step) => handler'[h].at = step /\ handler'[h].event = x
          BY <2>1, <5>1 DEF Goto, HandlerTypes
        <5>3. seen' = seen /\ \E step \in {"answer", "won", "book", "undo"} : Goto(h, step)
          BY <3>1 DEF Credit, Book, Won, Fail
        <5>4. QED
          BY <5>2, <5>3
      <4>2. Working(x)'
        BY <4>1 DEF Working
      <4>3. QED
        BY <2>2, <4>1, <4>2
    <3>2. CASE Answer(h)
      <4>1. handler[h].at = "answer" /\ seen' = seen
            /\ lost' = IF x.type = "won" /\ ledger[x.top].won = 0 THEN lost ELSE lost \ {x}
        BY <2>1, <3>2 DEF Answer, At
      <4>2. QED
        BY <1>2, <2>2, <2>4, <4>1
    <3>3. CASE Undo(h)
      <4>1. seen' = seen \ {x} /\ answered' = answered /\ lost' = lost
        BY <2>1, <3>3 DEF Undo
      <4>2. QED
        BY <2>4, <4>1
    <3>4. CASE Die(h)
      BY <2>1, <3>4 DEF Die
    <3>5. QED
      BY <1>6, <3>1, <3>2, <3>3, <3>4 DEF CreditSteps
  <2>6. QED
    BY <1>1, <2>2, <2>3, <2>5 DEF EventsFit
<1>7. QED
  BY <1>5, <1>6

LEMMA InitEvents == CreditInit => EventsInv
<1> SUFFICES ASSUME CreditInit PROVE EventsInv
  OBVIOUS
<1>1. BaseInv
  BY InitBase
<1>2. sent = {} /\ seen = {} /\ answered = {} /\ \A h \in Handler : handler[h].at = "idle"
  BY DEF CreditInit, NoRequest
<1>3. Paid \in Nat /\ Paid # 0
  BY PaidAssumption
<1>4. ASSUME NEW t \in Topup
      PROVE  /\ ~charge[t].paid /\ charge[t].refunded = 0 /\ charge[t].disputed = 0
             /\ charge[t].dispute = "none" /\ ledger[t].top = 0 /\ ledger[t].dispute = 0
             /\ ledger[t].won = 0 /\ \A c \in 1..Paid : ledger[t].refund[c] = 0
  BY DEF CreditInit, NoRows
<1>5. StripeTells
  BY <1>2, <1>3, <1>4 DEF StripeTells, Told
<1>6. ASSUME NEW t \in Topup PROVE BookFits(t)
  <2>1. Reversed(t) <= ledger[t].top /\ Refunds(t) \in Nat
    BY <1>1, RefundsType DEF BaseInv, ReversedAtMostPaid
  <2>2. Refunds(t) = 0
    BY <1>4, <2>1 DEF Reversed
  <2>3. QED
    BY <1>4, <2>2 DEF BookFits
<1>7. RequestsFit /\ EventsFit
  BY <1>2 DEF RequestsFit, EventsFit
<1>8. QED
  BY <1>5, <1>6, <1>7 DEF EventsInv, BooksFit

LEMMA StepEvents == BaseInv /\ EventsInv /\ [CreditNext]_creditVars => EventsInv'
<1> SUFFICES ASSUME BaseInv, EventsInv, [CreditNext]_creditVars PROVE EventsInv'
  OBVIOUS
<1>1. StripeTells /\ BooksFit /\ RequestsFit /\ EventsFit
  BY DEF EventsInv
<1>2. UNCHANGED <<charge, sent>> => StripeTells'
  BY <1>1 DEF StripeTells, Told
<1>3. UNCHANGED <<charge, ledger>> => BooksFit' /\ \A d : Done(d)' <=> Done(d)
  BY <1>1 DEF BooksFit, BookFits, Fair, Refunds, Done
<1>4. UNCHANGED handler => \A d : Working(d)' <=> Working(d)
  BY DEF Working
<1>5. ASSUME UNCHANGED <<charge, sent, hooks, ledger>> PROVE EventsInv'
  <2>1. UNCHANGED <<charge, sent, answered, seen, handler, lost, ledger>>
    BY <1>5 DEF hooks
  <2>2. RequestsFit'
    BY <1>1, <1>3, <2>1 DEF RequestsFit
  <2>3. EventsFit'
    BY <1>1, <1>3, <1>4, <2>1 DEF EventsFit
  <2>4. QED
    BY <1>2, <1>3, <2>1, <2>2, <2>3 DEF EventsInv
<1>6. ASSUME NEW t \in Topup, StripeSteps(t) PROVE EventsInv'
  <2>1. sent \subseteq sent' /\ UNCHANGED <<answered, seen, handler, lost, ledger>>
    BY <1>6, StripeTypes DEF BaseInv, hooks, credit
  <2>2. StripeTells'
    BY <1>1, <1>6, StripeStepTells DEF BaseInv
  <2>3. BooksFit' /\ \A d \in sent : Done(d) => Done(d)'
    BY <1>1, <1>6, StripeStepBooks
  <2>4. RequestsFit'
    <3> SUFFICES ASSUME NEW h \in Handler, NEW e, e = handler[h].event, handler[h].at # "idle" PROVE
          /\ handler[h].at = "book" => ledger[e.top].top = Paid /\ e.type \in {"refunded", "disputed"}
          /\ handler[h].at = "won" => ledger[e.top].top = Paid /\ e.type = "won"
          /\ handler[h].at = "answer" => Done(e)' \/ (e.type = "won" /\ ledger[e.top].won = 0 /\ e \in lost)
          /\ e \in answered => e \in lost
      BY <2>1 DEF RequestsFit
    <3>1. e \in sent
      BY WorksOn
    <3>2. QED
      BY <1>1, <2>3, <3>1 DEF RequestsFit
  <2>5. EventsFit'
    <3>1. seen \subseteq sent
      BY DEF BaseInv, CreditTypeOK
    <3>2. QED
      BY <1>1, <1>4, <2>1, <2>3, <3>1 DEF EventsFit
  <2>6. QED
    BY <2>2, <2>3, <2>4, <2>5 DEF EventsInv
<1>7. CASE Duplicate
  <2>1. PICK x \in (sent \cap seen) \ answered :
          answered' = answered \cup {x} /\ lost' = IF Working(x) THEN lost \cup {x} ELSE lost
    BY <1>7 DEF Duplicate
  <2>2. UNCHANGED <<charge, sent, seen, handler, ledger>>
    BY <1>7 DEF Duplicate, stripe, credit
  <2>3. RequestsFit'
    <3> SUFFICES ASSUME NEW h \in Handler, NEW e, e = handler[h].event, handler[h].at # "idle" PROVE
          /\ handler[h].at = "book" => ledger[e.top].top = Paid /\ e.type \in {"refunded", "disputed"}
          /\ handler[h].at = "won" => ledger[e.top].top = Paid /\ e.type = "won"
          /\ handler[h].at = "answer" => Done(e)' \/ (e.type = "won" /\ ledger[e.top].won = 0 /\ e \in lost')
          /\ e \in answered' => e \in lost'
      BY <2>2 DEF RequestsFit
    <3>1. /\ handler[h].at = "book" => ledger[e.top].top = Paid /\ e.type \in {"refunded", "disputed"}
          /\ handler[h].at = "won" => ledger[e.top].top = Paid /\ e.type = "won"
          /\ handler[h].at = "answer" => Done(e) \/ (e.type = "won" /\ ledger[e.top].won = 0 /\ e \in lost)
          /\ e \in answered => e \in lost
      BY <1>1 DEF RequestsFit
    <3>2. Working(e)
      BY DEF Working
    <3>3. QED
      BY <1>3, <2>1, <2>2, <3>1, <3>2
  <2>4. EventsFit'
    BY <1>1, <1>3, <1>4, <2>1, <2>2 DEF EventsFit
  <2>5. QED
    BY <1>2, <1>3, <2>2, <2>3, <2>4 DEF EventsInv
<1>8. ASSUME NEW h \in Handler, CreditSteps(h) PROVE EventsInv'
  <2>1. StripeTells' /\ BooksFit'
    BY <1>2, <1>8, RequestBooks
  <2>2. RequestsFit' /\ EventsFit'
    BY <1>8, StepRequestsFit, StepEventsFit
  <2>3. QED
    BY <2>1, <2>2 DEF EventsInv
<1>9. ASSUME NEW c \in Closer, CloserSteps(c) PROVE EventsInv'
  BY <1>5, <1>9, CloserBase DEF stripe
<1>10. CASE EndMonth \/ SwitchSteps
  BY <1>5, <1>10, SwitchTypes DEF EndMonth, credit, stripe, BaseInv
<1>11. CASE UNCHANGED creditVars
  BY <1>5, <1>11 DEF creditVars, credit, stripe
<1>12. QED
  BY <1>6, <1>7, <1>8, <1>9, <1>10, <1>11, CreditNextCases

\* What Stripe says of a session is in the books, once its events are answered.
LEMMA SettledBooks ==
  ASSUME BaseInv, EventsInv, NEW t \in Topup, NEW s, s = charge[t], Settled(t),
         s.dispute = "won" => s.refunded + s.disputed = Paid
  PROVE  Worth(t) = (IF s.paid THEN Paid ELSE 0) - s.refunded
                    - (IF s.dispute = "open" THEN s.disputed ELSE 0)
<1>1. /\ s.paid \in BOOLEAN /\ s.refunded \in 0..Paid /\ s.disputed \in 0..Paid
      /\ s.dispute \in {"none", "open", "won"} /\ Paid \in Nat
  <2>1. s \in Charge
    BY DEF BaseInv, CreditTypeOK
  <2>2. QED
    BY <2>1, PaidAssumption DEF Charge
<1>2. PICK l, R : l = ledger[t] /\ R = Refunds(t)
  OBVIOUS
<1>3. /\ R \in Nat /\ l.dispute \in Nat /\ l.top \in {0, Paid} /\ l.won \in {0, l.dispute}
      /\ Worth(t) = l.top + l.won - (R + l.dispute)
  BY <1>2, RefundsType, RowsType DEF BaseInv, WonAsTaken, Worth, Reversed
<1>4. /\ s.paid => Told(t, "paid")
      /\ s.refunded # 0 => \E e \in sent : e.top = t /\ e.type = "refunded" /\ e.sum = s.refunded
      /\ s.dispute # "none" <=> Told(t, "disputed")
      /\ s.dispute = "won" <=> Told(t, "won")
      /\ ~s.paid => s.refunded = 0 /\ s.dispute = "none"
      /\ s.dispute = "none" <=> s.disputed = 0
      /\ s.dispute = "open" => s.refunded + s.disputed = Paid
  BY DEF EventsInv, StripeTells
<1>5. /\ ~s.paid => l.top = 0
      /\ R <= s.refunded /\ l.dispute <= s.disputed
      /\ l.won # 0 => s.dispute = "won"
  <2>1. BookFits(t)
    BY DEF EventsInv, BooksFit
  <2>2. QED
    BY <1>2, <2>1 DEF BookFits
<1>6. Fair(t)
  BY <1>1, <1>4 DEF Fair
<1>7. ASSUME NEW e \in sent, e.top = t
      PROVE  /\ l.top = Paid
             /\ e.type = "refunded" => R >= e.sum
             /\ e.type = "disputed" => l.dispute = s.disputed
             /\ e.type = "won" => l.won # 0
  <2>1. e \in answered \ lost /\ ~Working(e)
    BY <1>7 DEF Settled
  <2>2. Done(e)
    BY <2>1 DEF EventsInv, EventsFit
  <2>3. QED
    BY <1>2, <1>6, <1>7, <2>2 DEF Done
<1>8. s.paid => l.top = Paid
  BY <1>4, <1>7 DEF Told
<1>9. R = s.refunded
  <2>1. CASE s.refunded = 0
    BY <1>1, <1>3, <1>5, <2>1
  <2>2. CASE s.refunded # 0
    <3>1. R >= s.refunded
      BY <1>4, <1>7, <2>2
    <3>2. QED
      BY <1>1, <1>3, <1>5, <3>1
  <2>3. QED
    BY <2>1, <2>2
<1>10. l.dispute = s.disputed
  <2>1. CASE s.dispute = "none"
    BY <1>1, <1>3, <1>4, <1>5, <2>1
  <2>2. CASE s.dispute # "none"
    BY <1>4, <1>7, <2>2 DEF Told
  <2>3. QED
    BY <2>1, <2>2
<1>11. l.won = IF s.dispute = "won" THEN s.disputed ELSE 0
  <2>1. CASE s.dispute = "won"
    <3>1. l.won # 0
      BY <1>4, <1>7, <2>1 DEF Told
    <3>2. QED
      BY <1>3, <1>10, <2>1, <3>1
  <2>2. CASE s.dispute # "won"
    BY <1>5, <2>2
  <2>3. QED
    BY <2>1, <2>2
<1>12. l.top = IF s.paid THEN Paid ELSE 0
  BY <1>5, <1>8
<1>13. s.disputed = 0 \/ s.dispute = "open" \/ s.dispute = "won"
  BY <1>1, <1>4
<1>14. QED
  BY <1>1, <1>3, <1>4, <1>9, <1>10, <1>11, <1>12, <1>13

\* However the events of a top-up are repeated, delayed, retried and reordered: once
\* they are answered, none in vain, the credit is what Stripe still has.
THEOREM CreditEndsAtStripe == CreditSpec => []CreditFollowsStripe
<1>1. BaseInv /\ EventsInv => CreditFollowsStripe
  BY SettledBooks DEF CreditFollowsStripe
<1>2. QED
  BY BaseHolds, InitEvents, StepEvents, <1>1, PTL DEF CreditSpec

-----------------------------------------------------------------------------
(* The family: seats                                                       *)
USE AccountAssumption, SeatAssumption, SizeAssumption, PutAssumption
  DEF AccountAssumption, SeatAssumption, SizeAssumption, PutAssumption

\* What follows a plan change works for an account.
WorksForSomebody == \A s \in Sync : sync[s].at # "idle" => sync[s].acct \in Account

\* Who counts the seats holds the owner's row.
OwnerIsLocked ==
  \A a \in Invitee : joining[a].at \in {"owner", "seat"} => rowLock[Owner] = a

\* Who has found a free seat still has one: the plan that decides is that of the row.
SeatIsFree ==
  \A a \in Invitee :
    /\ joining[a].at \in {"owner", "seat"} => plan[Owner] \in GroupPlan
    /\ joining[a].at = "seat" => Cardinality(members) < Seats[plan[Owner]] - 1

SeatInv == TypeOK /\ WorksForSomebody /\ OwnerIsLocked /\ SeatIsFree

-----------------------------------------------------------------------------
(* Counting                                                                *)

\* A set of accounts is finite, and its part has no more of them.
LEMMA CountAccounts ==
  ASSUME NEW S \in SUBSET Account, NEW T \in SUBSET S
  PROVE  Cardinality(S) \in Nat /\ Cardinality(T) \in Nat /\ Cardinality(T) <= Cardinality(S)
<1>1. IsFiniteSet(S)
  BY FS_Subset
<1>2. IsFiniteSet(T) /\ Cardinality(T) <= Cardinality(S)
  BY <1>1, FS_Subset
<1>3. QED
  BY <1>1, <1>2, FS_CardinalityType

\* One account more is at most one more.
LEMMA CountOneMore ==
  ASSUME NEW S \in SUBSET Account, NEW a \in Account
  PROVE  Cardinality(S \cup {a}) <= Cardinality(S) + 1
<1>1. IsFiniteSet(S)
  BY FS_Subset
<1>2. Cardinality(S) \in Nat
  BY <1>1, FS_CardinalityType
<1>3. Cardinality(S \cup {a}) = IF a \in S THEN Cardinality(S) ELSE Cardinality(S) + 1
  BY <1>1, FS_AddElement
<1>4. QED
  BY <1>2, <1>3

-----------------------------------------------------------------------------
(* Types                                                                   *)

LEMMA InitTypeOK == Init => TypeOK
<1>1. SUFFICES ASSUME Init PROVE TypeOK
  OBVIOUS
<1>2. PICK p \in GroupPlan :
        /\ paid = [a \in Account |-> IF a = Owner THEN p ELSE "free"]
        /\ plan = [a \in Account |-> IF a \in FirstMembers \cup {Owner} THEN p ELSE "free"]
  BY <1>1 DEF Init
<1>3. paid \in [Account -> Plan] /\ plan \in [Account -> Plan]
  BY <1>2 DEF Plan
<1>4. writer \in [Writer -> Task] /\ sync \in [Sync -> Job]
  BY <1>1 DEF Init, Task, Idle, Job, Resting, Plan
<1>5. joining \in [Invitee -> [at : {"none", "counted", "invited", "own", "owner", "seat"}, plan : Plan]]
  BY <1>1 DEF Init, Plan
<1>6. used \in [Account -> Nat] /\ changes \in 0..MaxChanges /\ joined \subseteq Invitee /\ joins \in Nat
  BY <1>1 DEF Init
<1>7. rowLock \in [Account -> Writer \cup Account \cup {None}] /\ members \subseteq Account \ {Owner}
  BY <1>1 DEF Init
<1>8. QED
  BY <1>3, <1>4, <1>5, <1>6, <1>7 DEF TypeOK

\* A quota is none that is larger than the largest.
LEMMA QuotaType == ASSUME TypeOK, NEW a \in Account PROVE Quota(a) \in 0..LargestQuota
<1>1. plan[a] \in GroupPlan \cup {"free"}
  BY DEF TypeOK, Plan
<1>2. QED
  BY <1>1 DEF Quota

\* The requests of uploads: what they read and take.
LEMMA QuotaTypeOK ==
  ASSUME TypeOK, NEW w \in Writer,
         \/ \E a \in Account, n \in Size : LockRow(w, a, n) \/ S3Start(w, a, n)
         \/ SumPool(w) \/ Insert(w)
  PROVE  TypeOK'
<1> USE DEF TypeOK, family, past, Size
<1> writer[w] \in Task /\ w \notin Account /\ Idle \in Task
  BY DEF Writer, Task, Idle
<1>1. ASSUME NEW a \in Account, NEW n \in Size
      PROVE  [at |-> "sum", acct |-> a, size |-> n, quota |-> Quota(a)] \in Task
  BY QuotaType DEF Task
<1>2. ASSUME NEW a \in Account, NEW n \in Size, S3Start(w, a, n) PROVE TypeOK'
  BY <1>1, <1>2 DEF S3Start, Set
<1>3. ASSUME NEW a \in Account, NEW n \in Size, LockRow(w, a, n) PROVE TypeOK'
  <2>1. rowLock' \in [Account -> Writer \cup Account \cup {None}]
    BY <1>3 DEF LockRow, Take
  <2>2. writer' \in [Writer -> Task]
    BY <1>1, <1>3 DEF LockRow, Set
  <2>3. QED
    BY <1>3, <2>1, <2>2 DEF LockRow
<1>4. CASE SumPool(w)
  <2>1. rowLock' \in [Account -> Writer \cup Account \cup {None}]
    BY <1>4 DEF SumPool, Drop
  <2>2. writer' \in [Writer -> Task]
    BY <1>4 DEF SumPool, Set, Task
  <2>3. QED
    BY <1>4, <2>1, <2>2 DEF SumPool
<1>5. CASE Insert(w)
  <2>1. rowLock' \in [Account -> Writer \cup Account \cup {None}]
    BY <1>5 DEF Insert, Drop
  <2>2. used' \in [Account -> Nat]
    <3>1. writer[w].size \in Nat
      BY DEF Task
    <3>2. used[writer[w].acct] + writer[w].size \in Nat \/ writer[w].acct \notin Account
      BY <3>1
    <3>3. QED
      BY <1>5, <3>2 DEF Insert
  <2>3. writer' \in [Writer -> Task]
    BY <1>5 DEF Insert, Set
  <2>4. QED
    BY <1>5, <2>1, <2>2, <2>3 DEF Insert
<1>6. QED
  BY <1>2, <1>3, <1>4, <1>5

\* The ways into the family.
LEMMA JoinTypeOK ==
  ASSUME TypeOK, NEW a \in Invitee,
         \/ CountSeats(a) \/ CreateInvite(a) \/ RevokeInvite(a)
         \/ JoinOwn(a) \/ JoinOwner(a) \/ JoinRefused(a) \/ JoinSeat(a) \/ JoinCommit(a)
  PROVE  TypeOK'
<1> USE DEF TypeOK, quotas, past
<1>1. a \in Account \ {Owner} /\ joining[a].plan \in Plan /\ "free" \in Plan
  BY DEF Plan
<1>2. CASE CountSeats(a) \/ CreateInvite(a) \/ RevokeInvite(a) \/ JoinSeat(a)
  BY <1>2 DEF CountSeats, CreateInvite, RevokeInvite, JoinSeat
<1>3. CASE JoinOwn(a) \/ JoinOwner(a)
  BY <1>1, <1>3 DEF JoinOwn, JoinOwner, Take
<1>4. CASE JoinRefused(a)
  BY <1>1, <1>4 DEF JoinRefused, Drop
<1>5. CASE JoinCommit(a)
  BY <1>1, <1>5 DEF JoinCommit, Drop
<1>6. QED
  BY <1>2, <1>3, <1>4, <1>5

\* The ways out of it, and the plans.
LEMMA PlanTypeOK ==
  ASSUME TypeOK, WorksForSomebody,
         \/ \E a \in Account : RemoveMember(a)
         \/ \E s \in Sync :
              \/ \E a \in Account, p \in Plan : ChangePlan(s, a, p)
              \/ ReadPlan(s) \/ Follow(s) \/ Leave(s) \/ List(s)
              \/ EndMembership(s) \/ RevokeInvites(s)
  PROVE  TypeOK'
<1> USE DEF TypeOK, past
<1> "free" \in Plan /\ Resting \in Job
  BY DEF Plan, Job, Resting
<1>1. ASSUME NEW a \in Account, Detach(a)
      PROVE  /\ used' \in [Account -> Nat] /\ members' \subseteq Account \ {Owner}
             /\ plan' \in [Account -> Plan]
  <2>1. used[a] \in Nat /\ used[Owner] \in Nat
    OBVIOUS
  <2>2. PICK n \in IF a \in members THEN 0..used[a] ELSE {0} :
          used' = [used EXCEPT ![a] = @ - n, ![Owner] = @ + n]
    BY <1>1 DEF Detach
  <2>3. n \in Nat /\ n <= used[a]
    BY <2>1, <2>2
  <2>4. used' \in [Account -> Nat]
    BY <2>1, <2>2, <2>3
  <2>5. QED
    BY <1>1, <2>4 DEF Detach
<1>2. ASSUME NEW a \in Account, RemoveMember(a) PROVE TypeOK'
  BY <1>1, <1>2 DEF RemoveMember
<1>3. ASSUME NEW s \in Sync, NEW a \in Account, NEW p \in Plan, ChangePlan(s, a, p) PROVE TypeOK'
  <2>1. [Resting EXCEPT !.at = "plan", !.acct = a] \in Job
    BY DEF Resting, Job, Plan
  <2>2. sync' \in [Sync -> Job]
    BY <1>3, <2>1 DEF ChangePlan, Go
  <2>3. changes' \in 0..MaxChanges
    <3>1. changes < MaxChanges /\ changes' = changes + 1
      BY <1>3 DEF ChangePlan
    <3>2. QED
      BY <3>1
  <2>4. paid' \in [Account -> Plan] /\ plan' \in [Account -> Plan]
    BY <1>3 DEF ChangePlan
  <2>5. QED
    BY <1>3, <2>2, <2>3, <2>4 DEF ChangePlan, quotas
<1>4. ASSUME NEW s \in Sync, ReadPlan(s) PROVE TypeOK'
  <2> DEFINE p   == plan[sync[s].acct]
             job == [sync[s] EXCEPT !.at = IF p \in GroupPlan THEN "follow" ELSE "leave", !.plan = p]
  <2>1. sync[s] \in Job /\ sync[s].acct \in Account
    BY <1>4 DEF ReadPlan, WorksForSomebody
  <2>2. job \in Job
    BY <2>1 DEF Job
  <2>3. sync' \in [Sync -> Job]
    BY <1>4, <2>2 DEF ReadPlan, Go
  <2>4. QED
    BY <1>4, <2>3 DEF ReadPlan, quotas
<1>5. ASSUME NEW s \in Sync, Follow(s) PROVE TypeOK'
  BY <1>5 DEF Follow, Go, Job, quotas
<1>6. ASSUME NEW s \in Sync, Leave(s) \/ List(s) PROVE TypeOK'
  <2>1. sync[s] \in Job /\ members \in SUBSET Account
    OBVIOUS
  <2>2. [sync[s] EXCEPT !.at = "list"] \in Job /\ [sync[s] EXCEPT !.at = "end", !.todo = members] \in Job
    BY <2>1 DEF Job
  <2>3. sync' \in [Sync -> Job]
    <3>1. \E job \in Job : Go(s, job)
      BY <1>6, <2>2 DEF Leave, List
    <3>2. QED
      BY <3>1 DEF Go
  <2>4. members' \subseteq Account \ {Owner}
    BY <1>6 DEF Leave, List
  <2>5. UNCHANGED <<used, writer, rowLock, paid, plan, joining, changes, joined, joins>>
    BY <1>6 DEF Leave, List, quotas
  <2>6. QED
    BY ONLY TypeOK, <2>3, <2>4, <2>5 DEF TypeOK
<1>7. ASSUME NEW s \in Sync, EndMembership(s) PROVE TypeOK'
  <2>1. PICK a \in sync[s].todo : Detach(a) /\ Go(s, [sync[s] EXCEPT !.todo = @ \ {a}])
    BY <1>7 DEF EndMembership
  <2>2. a \in Account /\ sync' \in [Sync -> Job]
    BY <2>1 DEF Go, Job
  <2>3. QED
    BY <1>1, <1>7, <2>1, <2>2 DEF EndMembership
<1>8. ASSUME NEW s \in Sync, RevokeInvites(s) PROVE TypeOK'
  BY <1>8 DEF RevokeInvites, Go, quotas
<1>9. QED
  BY <1>2, <1>3, <1>4, <1>5, <1>6, <1>7, <1>8

LEMMA InitWorks == Init => WorksForSomebody
BY DEF Init, WorksForSomebody, Resting

LEMMA StepWorks == WorksForSomebody /\ TypeOK /\ [Next]_vars => WorksForSomebody'
<1> SUFFICES ASSUME WorksForSomebody, TypeOK, [Next]_vars PROVE WorksForSomebody'
  OBVIOUS
<1> USE DEF WorksForSomebody
<1>1. CASE UNCHANGED sync
  BY <1>1
<1>2. ASSUME NEW s \in Sync, NEW job, Go(s, job), job = Resting \/ job.acct \in Account
      PROVE  WorksForSomebody'
  BY <1>2 DEF Go, Resting, TypeOK
<1>3. ASSUME NEW s \in Sync, NEW a \in Account, NEW p \in Plan, ChangePlan(s, a, p)
      PROVE  WorksForSomebody'
  <2>1. [Resting EXCEPT !.at = "plan", !.acct = a].acct \in Account
    BY DEF Resting
  <2>2. QED
    BY <1>2, <1>3, <2>1 DEF ChangePlan
<1>4. ASSUME NEW s \in Sync, ReadPlan(s) \/ Leave(s) \/ List(s) \/ EndMembership(s)
      PROVE  WorksForSomebody'
  <2>1. sync[s] \in Job /\ sync[s].acct \in Account
    BY <1>4 DEF ReadPlan, Leave, List, EndMembership, TypeOK
  <2>2. CASE ReadPlan(s)
    BY <2>1, <2>2 DEF ReadPlan, Go, Job, TypeOK
  <2>3. CASE Leave(s) \/ List(s)
    <3>1. /\ [sync[s] EXCEPT !.at = "list"].acct \in Account
          /\ [sync[s] EXCEPT !.at = "end", !.todo = members].acct \in Account
      BY <2>1 DEF Job
    <3>2. QED
      BY <1>2, <2>3, <3>1 DEF Leave, List
  <2>4. CASE EndMembership(s)
    BY <2>1, <2>4 DEF EndMembership, Go, Job, TypeOK
  <2>5. QED
    BY <1>4, <2>2, <2>3, <2>4
<1>5. ASSUME NEW s \in Sync, Follow(s) \/ RevokeInvites(s) PROVE WorksForSomebody'
  BY <1>2, <1>5 DEF Follow, RevokeInvites
<1>6. CASE Next
  <2>1. CASE UNCHANGED sync
    BY <1>1, <2>1
  <2>2. CASE sync' # sync
    BY <1>3, <1>4, <1>5, <1>6, <2>2
    DEF Next, S3Start, LockRow, SumPool, Insert, Free, CountSeats, CreateInvite, RevokeInvite,
        JoinOwn, JoinOwner, JoinRefused, JoinSeat, JoinCommit, RemoveMember, family
  <2>3. QED
    BY <2>1, <2>2
<1>7. QED
  BY <1>1, <1>6 DEF vars

LEMMA StepTypeOK == TypeOK /\ WorksForSomebody /\ [Next]_vars => TypeOK'
<1> SUFFICES ASSUME TypeOK, WorksForSomebody, [Next]_vars PROVE TypeOK'
  OBVIOUS
<1>1. CASE UNCHANGED vars
  BY <1>1 DEF vars, TypeOK
<1>2. ASSUME NEW a \in Account, NEW n \in Size, Free(a, n) PROVE TypeOK'
  BY <1>2 DEF Free, TypeOK, family, past, Size
<1>3. CASE Next
  BY <1>2, <1>3, QuotaTypeOK, JoinTypeOK, PlanTypeOK DEF Next
<1>4. QED
  BY <1>1, <1>3

\* The variables have their types, in every reachable state.
THEOREM FamilyTypes == Spec => []TypeOK
<1>1. TypeOK /\ WorksForSomebody /\ [Next]_vars => (TypeOK /\ WorksForSomebody)'
  BY StepTypeOK, StepWorks
<1>2. QED
  BY InitTypeOK, InitWorks, <1>1, PTL DEF Spec

-----------------------------------------------------------------------------
(* The seats                                                               *)

\* Nobody takes the owner's row from who has it.
LEMMA StepOwnerIsLocked == TypeOK /\ OwnerIsLocked /\ [Next]_vars => OwnerIsLocked'
<1> SUFFICES ASSUME TypeOK, OwnerIsLocked, [Next]_vars,
                    NEW a \in Invitee, (joining[a].at \in {"owner", "seat"})'
             PROVE  rowLock'[Owner] = a
  BY DEF OwnerIsLocked
<1> USE DEF TypeOK, OwnerIsLocked
<1>1. a \in Account \ {Owner} /\ Owner \in Account /\ a # None /\ a \notin Writer
  BY DEF Writer
<1>2. CASE rowLock' = rowLock /\ joining' = joining
  BY <1>2
<1>3. CASE \E w \in Writer, b \in Account, n \in Size : LockRow(w, b, n)
  BY <1>1, <1>3 DEF LockRow, Take, family
<1>4. CASE \E w \in Writer : SumPool(w) \/ Insert(w)
  BY <1>1, <1>4 DEF SumPool, Insert, Drop, family
<1>5. ASSUME NEW b \in Invitee, CountSeats(b) \/ CreateInvite(b) \/ RevokeInvite(b)
      PROVE  rowLock'[Owner] = a
  BY <1>5 DEF CountSeats, CreateInvite, RevokeInvite
<1>6. ASSUME NEW b \in Invitee, JoinOwn(b)
      PROVE  rowLock'[Owner] = a
  BY <1>1, <1>6 DEF JoinOwn, Take
<1>7. ASSUME NEW b \in Invitee, JoinOwner(b)
      PROVE  rowLock'[Owner] = a
  BY <1>1, <1>7 DEF JoinOwner, Take
<1>8. ASSUME NEW b \in Invitee, JoinSeat(b)
      PROVE  rowLock'[Owner] = a
  BY <1>8 DEF JoinSeat
<1>9. ASSUME NEW b \in Invitee, JoinRefused(b) \/ JoinCommit(b)
      PROVE  rowLock'[Owner] = a
  <2>1. a # b /\ joining'[a] = joining[a]
    BY <1>9 DEF JoinRefused, JoinCommit
  <2>2. QED
    BY <1>9, <2>1 DEF JoinRefused, JoinCommit, Drop
<1>10. ASSUME NEW s \in Sync, RevokeInvites(s)
       PROVE  rowLock'[Owner] = a
  BY <1>10 DEF RevokeInvites
<1>11. QED
  BY <1>2, <1>3, <1>4, <1>5, <1>6, <1>7, <1>8, <1>9, <1>10
  DEF Next, vars, S3Start, Free, RemoveMember, ChangePlan, ReadPlan, Follow, Leave, List,
      EndMembership, family, quotas

\* Who holds the owner's row keeps the plan in it.
LEMMA OwnerKeepsPlan ==
  ASSUME TypeOK, [Next]_vars, rowLock[Owner] # None
  PROVE  plan'[Owner] = plan[Owner]
<1> USE DEF TypeOK
<1>1. CASE UNCHANGED plan
  BY <1>1
<1>2. ASSUME NEW a \in Invitee, JoinCommit(a) PROVE plan'[Owner] = plan[Owner]
  BY <1>2 DEF JoinCommit
<1>3. ASSUME NEW a \in Account, Detach(a) PROVE plan'[Owner] = plan[Owner]
  BY <1>3 DEF Detach
<1>4. ASSUME NEW s \in Sync, NEW a \in Account, NEW p \in Plan, ChangePlan(s, a, p)
      PROVE  plan'[Owner] = plan[Owner]
  BY <1>4 DEF ChangePlan
<1>5. ASSUME NEW s \in Sync, Follow(s) PROVE plan'[Owner] = plan[Owner]
  BY <1>5 DEF Follow, MembersOf
<1>6. ASSUME NEW s \in Sync, EndMembership(s) PROVE plan'[Owner] = plan[Owner]
  BY <1>3, <1>6 DEF EndMembership, Job
<1>7. QED
  BY <1>1, <1>2, <1>3, <1>4, <1>5, <1>6
  DEF Next, vars, S3Start, LockRow, SumPool, Insert, Free, CountSeats, CreateInvite, RevokeInvite,
      JoinOwn, JoinOwner, JoinRefused, JoinSeat, RemoveMember, ReadPlan, Leave, List, RevokeInvites, family

\* Only joinFamily adds a member, one.
LEMMA MembersGrow ==
  ASSUME TypeOK, [Next]_vars
  PROVE  members' \subseteq members \/ \E a \in Invitee : JoinCommit(a)
BY DEF Next, vars, S3Start, LockRow, SumPool, Insert, Free, CountSeats, CreateInvite, RevokeInvite,
   JoinOwn, JoinOwner, JoinRefused, JoinSeat, RemoveMember, Detach, ChangePlan, ReadPlan, Follow, Leave,
   List, EndMembership, RevokeInvites, family

\* Who has counted knows that it may, until it has joined.
LEMMA StepSeats ==
  ASSUME TypeOK, TypeOK', OwnerIsLocked, SeatIsFree, [Next]_vars
  PROVE  SeatIsFree'
<1> SUFFICES ASSUME NEW a \in Invitee, joining'[a].at \in {"owner", "seat"}
             PROVE  /\ plan'[Owner] \in GroupPlan
                    /\ joining'[a].at = "seat" => Cardinality(members') < Seats[plan'[Owner]] - 1
  BY DEF SeatIsFree
<1>1. members \in SUBSET Account /\ members' \in SUBSET Account
      /\ Cardinality(members) \in Nat /\ Cardinality(members') \in Nat
  BY CountAccounts DEF TypeOK
<1>2. CASE JoinOwner(a)
  <2>1. joining'[a].at = "owner" /\ plan' = plan /\ plan[Owner] \in GroupPlan
    BY <1>2 DEF JoinOwner, TypeOK
  <2>2. QED
    BY <2>1
<1>3. CASE JoinSeat(a)
  <2>1. /\ joining[a].at = "owner" /\ plan[Owner] \in GroupPlan /\ UNCHANGED <<plan, members>>
        /\ ~(Cardinality(members) >= Seats[plan[Owner]] - 1)
    BY <1>3 DEF JoinSeat, SeatIsFree, Full
  <2>2. Seats[plan[Owner]] \in Nat
    BY <2>1
  <2>3. QED
    BY <1>1, <2>1, <2>2
<1>4. CASE ~JoinOwner(a) /\ ~JoinSeat(a)
  <2>1. joining[a].at = joining'[a].at
    <3>1. ASSUME NEW b \in Invitee,
                 \/ CountSeats(b) \/ CreateInvite(b) \/ RevokeInvite(b) \/ JoinOwn(b)
                 \/ JoinRefused(b) \/ JoinCommit(b) \/ (b # a /\ (JoinOwner(b) \/ JoinSeat(b)))
          PROVE  joining[a].at = joining'[a].at
      <4>1. b # a
        BY <3>1 DEF CountSeats, CreateInvite, RevokeInvite, JoinOwn, JoinRefused, JoinCommit, TypeOK
      <4>2. QED
        BY <3>1, <4>1 DEF CountSeats, CreateInvite, RevokeInvite, JoinOwn, JoinRefused, JoinCommit,
           JoinOwner, JoinSeat, TypeOK
    <3>2. ASSUME NEW s \in Sync, RevokeInvites(s) PROVE joining[a].at = joining'[a].at
      BY <3>2 DEF RevokeInvites, Joins
    <3>3. QED
      BY <1>4, <3>1, <3>2
      DEF Next, vars, S3Start, LockRow, SumPool, Insert, Free, RemoveMember, ChangePlan, ReadPlan, Follow,
          Leave, List, EndMembership, family
  <2>2. rowLock[Owner] = a /\ a # None
    BY <2>1 DEF OwnerIsLocked
  <2>3. plan'[Owner] = plan[Owner] /\ plan[Owner] \in GroupPlan
    BY <2>1, <2>2, OwnerKeepsPlan DEF SeatIsFree
  <2>4. members' \subseteq members
    <3>1. ASSUME NEW b \in Invitee, JoinCommit(b) PROVE FALSE
      <4>1. b = a
        BY <2>2, <3>1 DEF JoinCommit, OwnerIsLocked
      <4>2. QED
        BY <2>1, <3>1, <4>1 DEF JoinCommit, TypeOK
    <3>2. QED
      BY <3>1, MembersGrow
  <2>5. Cardinality(members') <= Cardinality(members)
    BY <1>1, <2>4, CountAccounts
  <2>6. Seats[plan[Owner]] \in Nat
    BY <2>3
  <2>7. QED
    BY <1>1, <2>1, <2>3, <2>5, <2>6 DEF SeatIsFree
<1>5. QED
  BY <1>2, <1>3, <1>4

\* "gleichzeitige Beitritte zählen die Plätze nacheinander": with any number of
\* invitations and of requests at the same time, and whatever plans the owner changes
\* to meanwhile, nobody gets in without a seat that the plan has.
THEOREM SeatsAlwaysSuffice == Spec => SeatsSuffice
<1>1. Init => SeatInv
  BY InitTypeOK, InitWorks DEF Init, SeatInv, OwnerIsLocked, SeatIsFree
<1>2. SeatInv /\ [Next]_vars => SeatInv'
  BY StepTypeOK, StepWorks, StepOwnerIsLocked, StepSeats DEF SeatInv
<1>3. SeatInv /\ [Next]_vars =>
        [\/ members' \subseteq members
         \/ plan[Owner] \in GroupPlan /\ Cardinality(members') < Seats[plan[Owner]]]_vars
  <2>1. SUFFICES ASSUME SeatInv, [Next]_vars, ~(members' \subseteq members)
                 PROVE  plan[Owner] \in GroupPlan /\ Cardinality(members') < Seats[plan[Owner]]
    OBVIOUS
  <2>2. PICK a \in Invitee : JoinCommit(a)
    BY <2>1, MembersGrow DEF SeatInv
  <2>3. /\ a \in Account /\ members' = members \cup {a} /\ plan[Owner] \in GroupPlan
        /\ Cardinality(members) < Seats[plan[Owner]] - 1
    BY <2>1, <2>2 DEF JoinCommit, SeatInv, SeatIsFree
  <2>4. members \in SUBSET Account /\ members' \in SUBSET Account
    BY <2>1, <2>3 DEF SeatInv, TypeOK
  <2>5. /\ Cardinality(members) \in Nat /\ Cardinality(members') \in Nat
        /\ Cardinality(members') <= Cardinality(members) + 1
    BY <2>3, <2>4, CountAccounts, CountOneMore
  <2>6. Seats[plan[Owner]] \in Nat
    BY <2>3
  <2>7. QED
    BY <2>3, <2>5, <2>6
<1>4. QED
  BY <1>1, <1>2, <1>3, PTL DEF Spec, SeatsSuffice

-----------------------------------------------------------------------------
(* Who pays                                                                *)

\* The owner's plan is the only one that changes.  (Otherwise NobodyRidesFree does not
\* hold: a member that has left and pays for a family of its own is in a list that is old.)
OwnerChanges == Changing \subseteq {Owner}

\* A plan of one's own is the owner's, and what follows is about the owner.
OwnerPays ==
  /\ plan[Owner] = paid[Owner]
  /\ \A a \in Account \ {Owner} : paid[a] = "free"
  /\ \A s \in Sync : sync[s].at # "idle" => sync[s].acct = Owner

\* Others have the plan of a family as its members.
MembersOnly == \A a \in Account \ {Owner} : plan[a] \in GroupPlan => a \in members

\* Who joins has read a plan that is still paid.
IsPaidFor == paid[Owner] \in GroupPlan
JoinsPaid == \A a \in Invitee : joining[a].at \in {"owner", "seat"} => IsPaidFor

\* If the owner pays no more, whoever still has the plan will lose it.
Doomed(a) == \E s \in Sync : \/ sync[s].at \in {"plan", "leave", "list"}
                             \/ sync[s].at = "end" /\ a \in sync[s].todo
OthersAreDoomed ==
  ~IsPaidFor => \A a \in Account \ {Owner} : plan[a] \in GroupPlan => Doomed(a)

\* Who is found to be a member is not the owner.
TodoIsOthers == \A s \in Sync : sync[s].todo \subseteq Account \ {Owner}

PayInv == OwnerPays /\ MembersOnly /\ JoinsPaid /\ OthersAreDoomed /\ TodoIsOthers

LEMMA InitPays == Init => PayInv
<1> SUFFICES ASSUME Init PROVE PayInv
  OBVIOUS
<1>1. PICK p \in GroupPlan :
        /\ paid = [a \in Account |-> IF a = Owner THEN p ELSE "free"]
        /\ plan = [a \in Account |-> IF a \in FirstMembers \cup {Owner} THEN p ELSE "free"]
  BY DEF Init
<1>2. /\ members = FirstMembers /\ IsPaidFor
      /\ \A s \in Sync : sync[s].at = "idle" /\ sync[s].todo = {}
      /\ \A a \in Invitee : joining[a].at = "none"
  BY <1>1 DEF Init, Resting, IsPaidFor
<1>3. QED
  BY <1>1, <1>2 DEF PayInv, OwnerPays, MembersOnly, JoinsPaid, OthersAreDoomed, TodoIsOthers

\* Uploads, and invitations that nobody uses, change nothing of it.
LEMMA PayStays ==
  ASSUME PayInv, TypeOK, UNCHANGED <<paid, plan, members, sync>>,
         \A a \in Invitee : joining'[a].at \in {"owner", "seat"} => joining[a].at \in {"owner", "seat"}
  PROVE  PayInv'
BY DEF PayInv, OwnerPays, MembersOnly, JoinsPaid, OthersAreDoomed, TodoIsOthers, IsPaidFor, Doomed

LEMMA JoinPays ==
  ASSUME PayInv, TypeOK, NEW a \in Invitee,
         \/ CountSeats(a) \/ CreateInvite(a) \/ RevokeInvite(a)
         \/ JoinOwn(a) \/ JoinOwner(a) \/ JoinRefused(a) \/ JoinSeat(a) \/ JoinCommit(a)
  PROVE  PayInv'
<1>1. a \in Account \ {Owner}
  OBVIOUS
<1>2. CASE CountSeats(a) \/ CreateInvite(a) \/ RevokeInvite(a) \/ JoinOwn(a) \/ JoinSeat(a)
           \/ JoinRefused(a)
  <2>1. UNCHANGED <<paid, plan, members, sync>>
    BY <1>2 DEF CountSeats, CreateInvite, RevokeInvite, JoinOwn, JoinSeat, JoinRefused
  <2>2. \A b \in Invitee : joining'[b].at \in {"owner", "seat"} => joining[b].at \in {"owner", "seat"}
    BY <1>2 DEF CountSeats, CreateInvite, RevokeInvite, JoinOwn, JoinSeat, JoinRefused, TypeOK
  <2>3. QED
    BY <2>1, <2>2, PayStays
<1>3. CASE JoinOwner(a)
  <2>1. UNCHANGED <<paid, plan, members, sync>> /\ IsPaidFor
    BY <1>3 DEF JoinOwner, IsPaidFor, PayInv, OwnerPays
  <2>2. QED
    BY <2>1 DEF PayInv, OwnerPays, MembersOnly, JoinsPaid, OthersAreDoomed, TodoIsOthers, IsPaidFor, Doomed
<1>4. CASE JoinCommit(a)
  <2>1. /\ members' = members \cup {a} /\ UNCHANGED <<paid, sync>> /\ IsPaidFor
        /\ \A b \in Account : b # a => plan'[b] = plan[b]
    BY <1>1, <1>4 DEF JoinCommit, PayInv, JoinsPaid, TypeOK
  <2>2. IsPaidFor'
    BY <2>1 DEF IsPaidFor
  <2>3. OwnerPays' /\ MembersOnly' /\ TodoIsOthers'
    BY <1>1, <2>1 DEF PayInv, OwnerPays, MembersOnly, TodoIsOthers
  <2>4. QED
    BY <2>1, <2>2, <2>3 DEF PayInv, JoinsPaid, OthersAreDoomed
<1>5. QED
  BY <1>2, <1>3, <1>4

LEMMA DetachPays ==
  ASSUME TypeOK, PayInv, NEW a \in Account \ {Owner}, Detach(a)
  PROVE  /\ plan'[Owner] = plan[Owner] /\ plan'[a] = "free" /\ a \notin members'
         /\ \A b \in Account \ {a} : plan'[b] = plan[b] /\ (b \in members => b \in members')
BY DEF Detach, TypeOK

LEMMA PlanPays ==
  ASSUME PayInv, TypeOK, OwnerIsLocked, OwnerChanges,
         \/ \E a \in Account : RemoveMember(a)
         \/ \E s \in Sync :
              \/ \E a \in Account, p \in Plan : ChangePlan(s, a, p)
              \/ ReadPlan(s) \/ Follow(s) \/ Leave(s) \/ List(s)
              \/ EndMembership(s) \/ RevokeInvites(s)
  PROVE  PayInv'
<1> USE DEF TypeOK
<1>1. ASSUME NEW a \in Account, RemoveMember(a) PROVE PayInv'
  <2>1. a \in Account \ {Owner} /\ Detach(a) /\ UNCHANGED <<paid, sync, joining>>
    BY <1>1 DEF RemoveMember
  <2>2. /\ plan'[Owner] = plan[Owner] /\ plan'[a] = "free" /\ a \notin members'
        /\ \A b \in Account \ {a} : plan'[b] = plan[b] /\ (b \in members => b \in members')
    BY <2>1, DetachPays
  <2>3. QED
    BY <2>1, <2>2
    DEF PayInv, OwnerPays, MembersOnly, JoinsPaid, OthersAreDoomed, TodoIsOthers, IsPaidFor, Doomed
<1>2. ASSUME NEW s \in Sync, NEW a \in Account, NEW p \in Plan, ChangePlan(s, a, p) PROVE PayInv'
  <2>1. a = Owner /\ rowLock[Owner] = None
    BY <1>2 DEF ChangePlan, OwnerChanges
  <2>2. /\ paid' = [paid EXCEPT ![Owner] = p] /\ plan' = [plan EXCEPT ![Owner] = p]
        /\ UNCHANGED <<members, joining>>
        /\ sync' = [sync EXCEPT ![s] = [Resting EXCEPT !.at = "plan", !.acct = Owner]]
    BY <1>2, <2>1 DEF ChangePlan, Go
  <2>3. sync'[s].at = "plan" /\ sync'[s].acct = Owner /\ sync'[s].todo = {}
    BY <2>2 DEF Resting
  <2>4. \A t \in Sync : t # s => sync'[t] = sync[t]
    BY <2>2
  <2>5. \A b \in Invitee : joining'[b].at \notin {"owner", "seat"}
    BY <2>1, <2>2 DEF OwnerIsLocked
  <2>6. OwnerPays' /\ MembersOnly' /\ JoinsPaid' /\ TodoIsOthers'
    BY <2>2, <2>3, <2>4, <2>5 DEF PayInv, OwnerPays, MembersOnly, JoinsPaid, TodoIsOthers
  <2>7. OthersAreDoomed'
    BY <2>3 DEF OthersAreDoomed, Doomed
  <2>8. QED
    BY <2>6, <2>7 DEF PayInv
<1>3. ASSUME NEW s \in Sync, ReadPlan(s) PROVE PayInv'
  <2>1. /\ UNCHANGED <<paid, plan, members, joining>>
        /\ sync[s].at = "plan" /\ sync[s].acct = Owner /\ sync[s] \in Job
    BY <1>3 DEF ReadPlan, PayInv, OwnerPays
  <2>2. /\ sync'[s].at = IF IsPaidFor THEN "follow" ELSE "leave"
        /\ sync'[s].acct = Owner /\ sync'[s].todo = sync[s].todo
    BY <1>3, <2>1 DEF ReadPlan, Go, Job, IsPaidFor, PayInv, OwnerPays
  <2>3. \A t \in Sync : t # s => sync'[t] = sync[t]
    BY <1>3 DEF ReadPlan, Go
  <2>4. IsPaidFor' <=> IsPaidFor
    BY <2>1 DEF IsPaidFor
  <2>5. OwnerPays' /\ MembersOnly' /\ JoinsPaid' /\ TodoIsOthers'
    BY <2>1, <2>2, <2>3, <2>4 DEF PayInv, OwnerPays, MembersOnly, JoinsPaid, TodoIsOthers
  <2>6. ~IsPaidFor' => \A a \in Account : Doomed(a)'
    BY <2>2, <2>4 DEF Doomed
  <2>7. QED
    BY <2>5, <2>6 DEF PayInv, OthersAreDoomed
<1>4. ASSUME NEW s \in Sync, Follow(s) PROVE PayInv'
  <2>1. /\ UNCHANGED <<paid, members, joining>> /\ sync' = [sync EXCEPT ![s] = Resting]
        /\ sync[s].at = "follow" /\ sync[s].acct = Owner
    BY <1>4 DEF Follow, Go, PayInv, OwnerPays
  <2>2. \A a \in Account : plan'[a] = plan[a] \/ (a \in members /\ plan[a] \in GroupPlan)
    BY <1>4 DEF Follow, MembersOf
  <2>3. /\ sync'[s].at = "idle" /\ sync'[s].todo = {} /\ (IsPaidFor' <=> IsPaidFor)
        /\ \A t \in Sync : t # s => sync'[t] = sync[t]
    BY <2>1 DEF Resting, IsPaidFor
  <2>4. plan'[Owner] = plan[Owner]
    BY <2>2
  <2>5. OwnerPays' /\ MembersOnly' /\ JoinsPaid' /\ TodoIsOthers'
    BY <2>1, <2>2, <2>3, <2>4 DEF PayInv, OwnerPays, MembersOnly, JoinsPaid, TodoIsOthers
  <2>6. \A a \in Account : Doomed(a) => Doomed(a)'
    BY <2>1, <2>3 DEF Doomed
  <2>7. QED
    BY <2>2, <2>3, <2>5, <2>6 DEF PayInv, OthersAreDoomed
<1>5. ASSUME NEW s \in Sync, Leave(s) \/ List(s) PROVE PayInv'
  <2>1. /\ UNCHANGED <<paid, plan, joining>> /\ sync[s].acct = Owner /\ sync[s] \in Job
        /\ members' = members
        /\ sync[s].at \in {"leave", "list"}
    <3>1. UNCHANGED <<paid, plan, joining>> /\ sync[s].at \in {"leave", "list"}
      BY <1>5 DEF Leave, List
    <3>2. sync[s].acct = Owner /\ sync[s] \in Job
      BY <3>1 DEF PayInv, OwnerPays
    <3>3. members \ {Owner} = members
      OBVIOUS
    <3>4. members' = members
      BY <1>5, <3>2, <3>3 DEF Leave, List
    <3>5. QED
      BY <3>1, <3>2, <3>4
  <2>2. /\ sync'[s].acct = Owner
        /\ \/ sync'[s].at = "list" /\ sync'[s].todo = sync[s].todo
           \/ sync'[s].at = "end" /\ sync'[s].todo = members
    <3>1. CASE Leave(s)
      BY <2>1, <3>1 DEF Leave, Go, Job
    <3>2. CASE List(s)
      <4>1. sync'[s] = [sync[s] EXCEPT !.at = "end", !.todo = members]
        BY <2>1, <3>2 DEF List, Go
      <4>2. QED
        BY <2>1, <4>1 DEF Job
    <3>3. QED
      BY <1>5, <3>1, <3>2
  <2>3. \A t \in Sync : t # s => sync'[t] = sync[t]
    BY <1>5 DEF Leave, List, Go
  <2>4. OwnerPays' /\ MembersOnly' /\ JoinsPaid' /\ TodoIsOthers'
    BY <2>1, <2>2, <2>3 DEF PayInv, OwnerPays, MembersOnly, JoinsPaid, TodoIsOthers, IsPaidFor
  <2>5. \A a \in members : Doomed(a)'
    BY <2>2 DEF Doomed
  <2>6. QED
    BY <2>1, <2>4, <2>5 DEF PayInv, OthersAreDoomed, MembersOnly
<1>6. ASSUME NEW s \in Sync, EndMembership(s) PROVE PayInv'
  <2>1. PICK a \in sync[s].todo : Detach(a) /\ Go(s, [sync[s] EXCEPT !.todo = @ \ {a}])
    BY <1>6 DEF EndMembership
  <2>2. /\ UNCHANGED <<paid, joining>> /\ sync[s].at = "end" /\ sync[s].acct = Owner
        /\ sync[s] \in Job
    BY <1>6 DEF EndMembership, PayInv, OwnerPays
  <2>3. /\ sync'[s].acct = Owner /\ sync'[s].at = "end" /\ sync'[s].todo = sync[s].todo \ {a}
        /\ \A t \in Sync : t # s => sync'[t] = sync[t]
    BY <2>1, <2>2 DEF Go, Job
  <2>4. a \in Account \ {Owner}
    BY <2>1 DEF PayInv, TodoIsOthers
  <2>5. /\ plan'[Owner] = plan[Owner] /\ plan'[a] = "free" /\ a \notin members'
        /\ \A b \in Account \ {a} : plan'[b] = plan[b] /\ (b \in members => b \in members')
    BY <2>1, <2>4, DetachPays
  <2>6. QED
    BY <2>2, <2>3, <2>5
    DEF PayInv, OwnerPays, MembersOnly, JoinsPaid, OthersAreDoomed, TodoIsOthers, IsPaidFor, Doomed
<1>7. ASSUME NEW s \in Sync, RevokeInvites(s) PROVE PayInv'
  <2>1. /\ UNCHANGED <<paid, plan, members>> /\ sync' = [sync EXCEPT ![s] = Resting]
        /\ sync[s].at = "end" /\ sync[s].todo = {}
        /\ \A a \in Invitee : joining'[a].at \in {"owner", "seat"} => joining[a].at \in {"owner", "seat"}
    BY <1>7 DEF RevokeInvites, Go
  <2>2. /\ sync'[s].at = "idle" /\ sync'[s].todo = {} /\ (IsPaidFor' <=> IsPaidFor)
        /\ \A t \in Sync : t # s => sync'[t] = sync[t]
    BY <2>1 DEF Resting, IsPaidFor
  <2>3. OwnerPays' /\ MembersOnly' /\ JoinsPaid' /\ TodoIsOthers'
    BY <2>1, <2>2 DEF PayInv, OwnerPays, MembersOnly, JoinsPaid, TodoIsOthers
  <2>4. \A a \in Account : Doomed(a) => Doomed(a)'
    BY <2>1, <2>2 DEF Doomed
  <2>5. QED
    BY <2>1, <2>2, <2>3, <2>4 DEF PayInv, OthersAreDoomed
<1>8. QED
  BY <1>1, <1>2, <1>3, <1>4, <1>5, <1>6, <1>7

LEMMA StepPays ==
  ASSUME OwnerChanges, PayInv, TypeOK, OwnerIsLocked, [Next]_vars
  PROVE  PayInv'
<1>1. CASE UNCHANGED <<paid, plan, members, sync, joining>>
  BY <1>1, PayStays
<1>2. CASE Next
  BY <1>1, <1>2, JoinPays, PlanPays
  DEF Next, S3Start, LockRow, SumPool, Insert, Free, family
<1>3. QED
  BY <1>1, <1>2 DEF vars

\* Nobody keeps the plan of a family that nobody pays for: with any number of members
\* and invitations, and with any number of changes of the owner's plan under way.
THEOREM NoFreeRides == ASSUME OwnerChanges PROVE Spec => []NobodyRidesFree
<1> DEFINE Inv == TypeOK /\ WorksForSomebody /\ OwnerIsLocked /\ PayInv
<1>1. Init => Inv
  BY InitTypeOK, InitWorks, InitPays DEF Init, OwnerIsLocked
<1>2. Inv /\ [Next]_vars => Inv'
  BY StepTypeOK, StepWorks, StepOwnerIsLocked, StepPays
<1>3. Inv => NobodyRidesFree
  <2>1. SUFFICES ASSUME Inv, \A s \in Sync : sync[s].at = "idle",
                        NEW a \in Account, plan[a] \in GroupPlan, paid[a] \notin GroupPlan
                 PROVE  a \in members /\ paid[Owner] \in GroupPlan
    BY DEF NobodyRidesFree
  <2>2. a # Owner
    BY <2>1 DEF PayInv, OwnerPays
  <2>3. a \in members
    BY <2>1, <2>2 DEF PayInv, MembersOnly
  <2>4. ~Doomed(a)
    BY <2>1 DEF Doomed
  <2>5. QED
    BY <2>1, <2>2, <2>3, <2>4 DEF PayInv, OthersAreDoomed, IsPaidFor
<1>4. QED
  BY <1>1, <1>2, <1>3, PTL DEF Spec

-----------------------------------------------------------------------------
(* Overbooking                                                             *)

\* What the upload that holds the row of b is about to insert.
Promised(b) ==
  IF rowLock[b] \in Upload /\ writer[rowLock[b]].at = "insert" THEN writer[rowLock[b]].size ELSE 0

\* What an account has, with what it was promised; what the S3 store is about to add
\* to the accounts A; and what A holds, all together.
Holds     == [b \in Account |-> used[b] + Promised(b)]
Coming(A) == [w \in S3Upload |->
                IF writer[w].at = "insert" /\ writer[w].acct \in A THEN writer[w].size ELSE 0]
Load(A)   == SumFunctionOnSet(Holds, A) + SumFunctionOnSet(Coming(A), S3Upload)

\* An account that was never in the family and has no plan of its own.
Newcomer(a) == a \notin FirstMembers \cup {Owner} \cup Changing \cup joined

\* A request has a row exactly while it is between its lock and its end.
RowsFit ==
  /\ \A w \in Upload : writer[w].at \in {"sum", "insert"} =>
       writer[w].acct \in Account /\ rowLock[writer[w].acct] = w
  /\ \A b \in Account : rowLock[b] \in Writer =>
       /\ rowLock[b] \in Upload
       /\ writer[rowLock[b]].at \in {"sum", "insert"} /\ writer[rowLock[b]].acct = b

\* Who works has an account, and for a newcomer the quota of one.
WritersFit ==
  \A w \in Writer :
    /\ writer[w].at # "idle" => writer[w].acct \in Account /\ writer[w].size \in Size
    /\ writer[w].at = "sum" /\ Newcomer(writer[w].acct) => writer[w].quota = SoloQuota

\* Newcomers have no plan and are in no family; members were there from the start or joined.
NewcomersFit ==
  /\ \A a \in Account : Newcomer(a) => plan[a] = "free"
  /\ members \subseteq FirstMembers \cup joined
  /\ Cardinality(joined) <= joins

\* The most that an account but the owner can have, with what it was promised.
MostOf(a) == S3Most + IF Newcomer(a) THEN SoloQuota ELSE LargestQuota
AccountsHold == \A a \in Account \ {Owner} : Load({a}) <= MostOf(a)

BookInv == TypeOK /\ WorksForSomebody /\ RowsFit /\ WritersFit /\ NewcomersFit /\ AccountsHold

Family   == {Owner} \cup members
MostWith(n) ==
  LargestQuota + (Cardinality(FirstMembers) + n) * MaxSize + n * (LargestQuota + S3Most) + S3Most
PoolMost == MostWith(joins)

PoolHolds == \A A \in SUBSET Account : A = Family => Load(A) <= PoolMost

\* The steps of uploads, of invitees and of everything else.
Writes(w) ==
  \/ \E a \in Account, n \in Size : LockRow(w, a, n) \/ S3Start(w, a, n)
  \/ SumPool(w) \/ Insert(w)
Moves(a) ==
  \/ CountSeats(a) \/ CreateInvite(a) \/ RevokeInvite(a)
  \/ JoinOwn(a) \/ JoinOwner(a) \/ JoinRefused(a) \/ JoinSeat(a) \/ JoinCommit(a)
Plans(s) ==
  \/ \E a \in Account, p \in Plan : ChangePlan(s, a, p)
  \/ ReadPlan(s) \/ Follow(s) \/ Leave(s) \/ List(s) \/ EndMembership(s) \/ RevokeInvites(s)

LEMMA NextCases ==
  Next <=> \/ \E w \in Writer : Writes(w)
           \/ \E a \in Account, n \in Size : Free(a, n)
           \/ \E a \in Invitee : Moves(a)
           \/ \E a \in Account : RemoveMember(a)
           \/ \E s \in Sync : Plans(s)
BY DEF Next, Writes, Moves, Plans

\* The history only grows, by who joins.
LEMMA JoinedStay ==
  ASSUME TypeOK, [Next]_vars
  PROVE  /\ joined \subseteq joined' /\ \A a \in Account : Newcomer(a)' => Newcomer(a)
         /\ (\A a \in Invitee : ~JoinCommit(a)) => UNCHANGED past
<1>1. CASE UNCHANGED past
  BY <1>1 DEF Newcomer, past
<1>2. ASSUME NEW a \in Invitee, JoinCommit(a)
      PROVE  joined \subseteq joined'
  BY <1>2 DEF JoinCommit
<1>3. UNCHANGED past \/ \E a \in Invitee : JoinCommit(a)
  BY DEF Next, vars, S3Start, LockRow, SumPool, Insert, Free, CountSeats, CreateInvite, RevokeInvite,
     JoinOwn, JoinOwner, JoinRefused, JoinSeat, RemoveMember, ChangePlan, ReadPlan, Follow, Leave,
     List, EndMembership, RevokeInvites, family, past
<1>4. QED
  BY <1>1, <1>2, <1>3 DEF Newcomer

LEMMA StepNewcomers ==
  ASSUME TypeOK, TypeOK', NewcomersFit, [Next]_vars
  PROVE  NewcomersFit'
<1>1. /\ joined \subseteq joined' /\ \A a \in Account : Newcomer(a)' => Newcomer(a)
      /\ Cardinality(joined') <= joins'
  <2>1. CASE \A a \in Invitee : ~JoinCommit(a)
    BY <2>1, JoinedStay DEF past, NewcomersFit
  <2>2. ASSUME NEW a \in Invitee, JoinCommit(a)
        PROVE  Cardinality(joined') <= joins'
    <3>1. joined' = joined \cup {a} /\ joins' = joins + 1
      BY <2>2 DEF JoinCommit
    <3>2. joined \in SUBSET Account /\ a \in Account /\ joins \in Nat
      BY DEF TypeOK
    <3>3. Cardinality(joined \cup {a}) <= Cardinality(joined) + 1
      BY <3>2, CountOneMore
    <3>4. Cardinality(joined) \in Nat /\ Cardinality(joined \cup {a}) \in Nat
      BY <3>2, CountAccounts
    <3>5. QED
      BY <3>1, <3>2, <3>3, <3>4 DEF NewcomersFit
  <2>3. QED
    BY <2>1, <2>2, JoinedStay
<1>2. ASSUME members' \subseteq members,
             \A a \in Account : Newcomer(a)' => plan'[a] = plan[a] \/ plan'[a] = "free"
      PROVE  NewcomersFit'
  BY <1>1, <1>2 DEF NewcomersFit
<1>3. ASSUME NEW w \in Writer, Writes(w)
      PROVE  NewcomersFit'
  <2>1. UNCHANGED <<members, plan>>
    BY <1>3 DEF Writes, S3Start, LockRow, SumPool, Insert, family
  <2>2. QED
    BY <1>2, <2>1
<1>4. ASSUME NEW a \in Account, NEW n \in Size, Free(a, n)
      PROVE  NewcomersFit'
  BY <1>2, <1>4 DEF Free, family
<1>5. ASSUME NEW a \in Invitee, Moves(a)
      PROVE  NewcomersFit'
  <2>1. CASE ~JoinCommit(a)
    <3>1. UNCHANGED <<members, plan>>
      BY <1>5, <2>1 DEF Moves, CountSeats, CreateInvite, RevokeInvite, JoinOwn, JoinOwner, JoinRefused, JoinSeat
    <3>2. QED
      BY <1>2, <3>1
  <2>2. CASE JoinCommit(a)
    <3>1. a \in joined' /\ members' = members \cup {a}
      BY <2>2 DEF JoinCommit
    <3>2. \A b \in Account : b # a => plan'[b] = plan[b]
      BY <2>2 DEF JoinCommit, TypeOK
    <3>3. ~Newcomer(a)'
      BY <3>1 DEF Newcomer
    <3>4. QED
      BY <1>1, <3>1, <3>2, <3>3 DEF NewcomersFit
  <2>3. QED
    BY <2>1, <2>2
<1>6. ASSUME NEW a \in Account, Detach(a)
      PROVE  NewcomersFit'
  <2>1. members' \subseteq members /\ \A b \in Account : plan'[b] = plan[b] \/ plan'[b] = "free"
    BY <1>6 DEF Detach, TypeOK
  <2>2. QED
    BY <1>2, <2>1
<1>7. ASSUME NEW a \in Account, RemoveMember(a)
      PROVE  NewcomersFit'
  BY <1>6, <1>7 DEF RemoveMember
<1>8. ASSUME NEW s \in Sync, Plans(s)
      PROVE  NewcomersFit'
  <2>1. ASSUME NEW a \in Account, NEW p \in Plan, ChangePlan(s, a, p)
        PROVE  NewcomersFit'
    <3>1. members' = members /\ ~Newcomer(a)' /\ \A b \in Account : b # a => plan'[b] = plan[b]
      BY <2>1 DEF ChangePlan, Newcomer, TypeOK
    <3>2. QED
      BY <1>2, <3>1
  <2>2. CASE Follow(s)
    <3>1. members' = members /\ \A b \in Account : b \notin members => plan'[b] = plan[b]
      BY <2>2 DEF Follow, MembersOf
    <3>2. \A b \in Account : Newcomer(b) => b \notin members
      BY DEF Newcomer, NewcomersFit
    <3>3. QED
      BY <1>1, <1>2, <3>1, <3>2
  <2>3. CASE EndMembership(s)
    <3>1. PICK a \in sync[s].todo : Detach(a)
      BY <2>3 DEF EndMembership
    <3>2. a \in Account
      BY <3>1 DEF TypeOK, Job
    <3>3. QED
      BY <1>6, <3>1, <3>2
  <2>4. CASE ReadPlan(s) \/ Leave(s) \/ List(s) \/ RevokeInvites(s)
    <3>1. members' \subseteq members /\ plan' = plan
      BY <2>4 DEF ReadPlan, Leave, List, RevokeInvites
    <3>2. QED
      BY <1>2, <3>1
  <2>5. QED
    BY <1>8, <2>1, <2>2, <2>3, <2>4 DEF Plans
<1>9. CASE UNCHANGED vars
  BY <1>2, <1>9 DEF vars
<1>10. QED
  BY <1>3, <1>4, <1>5, <1>7, <1>8, <1>9, NextCases

\* The steps of uploads: what becomes of the row locks.
LEMMA WritesRows ==
  ASSUME TypeOK, RowsFit, WritersFit, NEW w \in Writer, Writes(w)
  PROVE  RowsFit'
<1>1. writer \in [Writer -> Task] /\ rowLock \in [Account -> Writer \cup Account \cup {None}]
  BY DEF TypeOK
<1>2. /\ None \notin Writer /\ Upload \subseteq Writer /\ Upload \cap S3Upload = {}
      /\ Account \cap Writer = {}
  BY DEF Writer
<1>3. ASSUME NEW t \in Task, Set(w, t), UNCHANGED rowLock, t.at \notin {"sum", "insert"} \/ w \in S3Upload,
             writer[w].at \notin {"sum", "insert"} \/ w \in S3Upload
      PROVE  RowsFit'
  <2>1. writer'[w] = t /\ \A v \in Writer : v # w => writer'[v] = writer[v]
    BY <1>1, <1>3 DEF Set
  <2>2. \A b \in Account : rowLock[b] # w
    BY <1>2, <1>3 DEF RowsFit
  <2>3. ASSUME NEW v \in Upload, writer'[v].at \in {"sum", "insert"}
        PROVE  writer'[v].acct \in Account /\ rowLock'[writer'[v].acct] = v
    <3>1. v # w
      BY <1>2, <1>3, <2>1, <2>3
    <3>2. QED
      BY <1>2, <1>3, <2>1, <2>3, <3>1 DEF RowsFit
  <2>4. ASSUME NEW b \in Account, rowLock'[b] \in Writer
        PROVE  /\ rowLock'[b] \in Upload
               /\ writer'[rowLock'[b]].at \in {"sum", "insert"} /\ writer'[rowLock'[b]].acct = b
    BY <1>3, <2>1, <2>2, <2>4 DEF RowsFit
  <2>5. QED
    BY <2>3, <2>4 DEF RowsFit
<1>5. ASSUME NEW a \in Account, NEW n \in Size, S3Start(w, a, n)
      PROVE  RowsFit'
  <2> DEFINE t == [at |-> "sum", acct |-> a, size |-> n, quota |-> Quota(a)]
  <2>1. t \in Task
    BY QuotaType DEF Task
  <2>2. Set(w, t) /\ UNCHANGED rowLock /\ w \in S3Upload
    BY <1>5 DEF S3Start
  <2> HIDE DEF t
  <2>3. QED
    BY <1>3, <2>1, <2>2
<1>6. ASSUME NEW a \in Account, NEW n \in Size, LockRow(w, a, n)
      PROVE  RowsFit'
  <2>1. w \in Upload /\ rowLock[a] = None
    BY <1>6 DEF LockRow, Take
  <2>2. /\ rowLock' = [rowLock EXCEPT ![a] = w]
        /\ writer'[w].at = "sum" /\ writer'[w].acct = a
        /\ \A v \in Writer : v # w => writer'[v] = writer[v]
    BY <1>1, <1>6 DEF LockRow, Take, Set
  <2>3. writer[w].at = "idle" /\ \A b \in Account : rowLock[b] # w
    BY <1>6 DEF LockRow, RowsFit
  <2>4. QED
    BY <1>1, <1>2, <2>1, <2>2, <2>3 DEF RowsFit
<1>7. CASE SumPool(w)
  <2>1. CASE writer'[w].at = "insert"
    <3>1. /\ writer'[w].acct = writer[w].acct /\ UNCHANGED rowLock /\ writer[w].at = "sum"
          /\ \A v \in Writer : v # w => writer'[v] = writer[v]
      BY <1>1, <1>7, <2>1 DEF SumPool, Set, Idle, Task
    <3>2. QED
      BY <1>2, <2>1, <3>1 DEF RowsFit
  <2>2. CASE writer'[w].at # "insert"
    <3>1. /\ writer' = [writer EXCEPT ![w] = Idle]
          /\ rowLock' = [a \in Account |-> IF rowLock[a] = w THEN None ELSE rowLock[a]]
      BY <1>1, <1>7, <2>2 DEF SumPool, Set, Drop, Task
    <3>2. QED
      BY <1>1, <1>2, <3>1 DEF RowsFit, Idle
  <2>3. QED
    BY <2>1, <2>2
<1>8. CASE Insert(w)
  <2>1. /\ writer' = [writer EXCEPT ![w] = Idle]
        /\ rowLock' = [a \in Account |-> IF rowLock[a] = w THEN None ELSE rowLock[a]]
    BY <1>8 DEF Insert, Set, Drop
  <2>2. QED
    BY <1>1, <1>2, <2>1 DEF RowsFit, Idle
<1>9. QED
  BY <1>5, <1>6, <1>7, <1>8 DEF Writes

\* joinFamily takes and drops rows in its own name.
LEMMA JoinsRows ==
  ASSUME TypeOK, RowsFit, NEW a \in Invitee, Moves(a)
  PROVE  RowsFit'
<1>1. /\ rowLock \in [Account -> Writer \cup Account \cup {None}] /\ a \in Account
      /\ None \notin Writer /\ Account \cap Writer = {} /\ None \notin Account
  BY DEF TypeOK, Writer
<1>2. writer' = writer
  BY DEF Moves, CountSeats, CreateInvite, RevokeInvite, JoinOwn, JoinOwner, JoinRefused, JoinSeat,
     JoinCommit, quotas
<1>3. \A w \in Upload : w \in Writer
  BY DEF Writer
<1>4. CASE UNCHANGED rowLock
  BY <1>2, <1>4 DEF RowsFit
<1>5. ASSUME NEW b \in Account, Take(b, a)
      PROVE  RowsFit'
  BY <1>1, <1>2, <1>3, <1>5 DEF Take, RowsFit
<1>6. CASE Drop(a)
  BY <1>1, <1>2, <1>3, <1>6 DEF Drop, RowsFit
<1>7. (\E b \in Account : Take(b, a)) \/ Drop(a) \/ UNCHANGED rowLock
  BY <1>1 DEF Moves, CountSeats, CreateInvite, RevokeInvite, JoinOwn, JoinOwner,
     JoinRefused, JoinSeat, JoinCommit
<1>8. QED
  BY <1>4, <1>5, <1>6, <1>7

\* Whose step is no request's.
LEMMA OthersWriters ==
  ASSUME [Next]_vars, \A w \in Writer : ~Writes(w)
  PROVE  writer' = writer
BY NextCases DEF Moves, CountSeats, CreateInvite, RevokeInvite, JoinOwn, JoinOwner, JoinRefused, JoinSeat,
   JoinCommit, quotas, Plans, ChangePlan, ReadPlan, Follow, Leave, List, EndMembership, RevokeInvites,
   RemoveMember, Free, vars

LEMMA StepRows ==
  ASSUME TypeOK, RowsFit, WritersFit, [Next]_vars
  PROVE  RowsFit'
<1>1. CASE \E w \in Writer : Writes(w)
  BY <1>1, WritesRows
<1>2. CASE \E a \in Invitee : Moves(a)
  BY <1>2, JoinsRows
<1>3. CASE ~(\E w \in Writer : Writes(w)) /\ ~(\E a \in Invitee : Moves(a))
  <2>1. UNCHANGED rowLock
    BY <1>3, NextCases DEF Plans, ChangePlan, ReadPlan, Follow, Leave, List, EndMembership, RevokeInvites,
       RemoveMember, Free, vars
  <2>2. QED
    BY <1>3, <2>1, OthersWriters DEF RowsFit
<1>4. QED
  BY <1>1, <1>2, <1>3

LEMMA StepWriters ==
  ASSUME TypeOK, WritersFit, NewcomersFit, [Next]_vars
  PROVE  WritersFit'
<1>1. \A a \in Account : Newcomer(a)' => Newcomer(a)
  BY JoinedStay
<1>2. ASSUME NEW w \in Writer, Writes(w)
      PROVE  WritersFit'
  <2>1. ASSUME NEW t \in Task, Set(w, t),
               t.at # "idle" => t.acct \in Account /\ t.size \in Size,
               t.at = "sum" /\ Newcomer(t.acct) => t.quota = SoloQuota
        PROVE  WritersFit'
    <3>1. writer'[w] = t /\ \A v \in Writer : v # w => writer'[v] = writer[v]
      BY <2>1 DEF Set, TypeOK
    <3>2. QED
      BY <1>1, <2>1, <3>1 DEF WritersFit
  <2>2. \A a \in Account : Newcomer(a) => Quota(a) = SoloQuota
    BY DEF NewcomersFit, Quota
  <2>3. writer[w] \in Task /\ Idle \in Task /\ Idle.at = "idle"
    BY DEF TypeOK, Idle, Task
  <2>4. ASSUME NEW a \in Account, NEW n \in Size, LockRow(w, a, n) \/ S3Start(w, a, n)
        PROVE  WritersFit'
    <3> DEFINE t == [at |-> "sum", acct |-> a, size |-> n, quota |-> Quota(a)]
    <3>1. t \in Task /\ t.at = "sum" /\ t.acct = a /\ t.size = n /\ t.quota = Quota(a)
      BY QuotaType DEF Task
    <3>2. Set(w, t)
      BY <2>4 DEF S3Start, LockRow
    <3> HIDE DEF t
    <3>3. QED
      BY <2>1, <2>2, <3>1, <3>2
  <2>7. CASE SumPool(w)
    <3> DEFINE t == [at |-> "insert", acct |-> writer[w].acct, size |-> writer[w].size, quota |-> 0]
    <3>1. t \in Task /\ t.at = "insert" /\ t.acct = writer[w].acct /\ t.size = writer[w].size
      BY <2>3 DEF Task
    <3>2. writer[w].acct \in Account /\ writer[w].size \in Size
      BY <2>7 DEF WritersFit, SumPool
    <3>3. Set(w, t) \/ Set(w, Idle)
      BY <2>7 DEF SumPool
    <3> HIDE DEF t
    <3>4. QED
      BY <2>1, <2>3, <3>1, <3>2, <3>3
  <2>8. CASE Insert(w)
    BY <2>1, <2>3, <2>8 DEF Insert
  <2>9. QED
    BY <1>2, <2>4, <2>7, <2>8 DEF Writes
<1>3. CASE \A w \in Writer : ~Writes(w)
  BY <1>1, <1>3, OthersWriters DEF WritersFit
<1>4. QED
  BY <1>2, <1>3

-----------------------------------------------------------------------------
LEMMA Most == S3Most \in Nat
BY FS_CardinalityType DEF S3Most

\* What can be summed up: bytes of accounts, and of PUTs that are about to be inserted.
LEMMA LoadLaw ==
  ASSUME NEW A \in SUBSET Account, NEW h \in [Account -> Nat], NEW c \in [S3Upload -> 0..MaxSize]
  PROVE  /\ IsFiniteSet(A) /\ SumFunctionOnSet(h, A) \in Int
         /\ SumFunctionOnSet(c, S3Upload) \in Nat /\ SumFunctionOnSet(c, S3Upload) <= S3Most
<1>1. IsFiniteSet(A)
  BY FS_Subset
<1>2. \A b \in A : h[b] \in Int
  OBVIOUS
<1>3. \A w \in S3Upload : c[w] \in 0..MaxSize
  OBVIOUS
<1>4. QED
  BY <1>1, <1>2, <1>3, SumType, SumBounds DEF S3Most

LEMMA HoldsType ==
  ASSUME TypeOK
  PROVE  /\ Holds \in [Account -> Nat] /\ \A b \in Account : Promised(b) \in 0..MaxSize
         /\ \A A : Coming(A) \in [S3Upload -> 0..MaxSize]
<1>1. \A w \in Writer : writer[w].size \in 0..MaxSize
  BY DEF TypeOK, Task, Size
<1>2. \A w \in Upload \cup S3Upload : w \in Writer
  BY DEF Writer
<1>3. \A b \in Account : Promised(b) \in 0..MaxSize
  BY <1>1, <1>2 DEF Promised
<1>4. \A b \in Account : used[b] + Promised(b) \in Nat
  BY <1>3 DEF TypeOK
<1>5. QED
  BY <1>1, <1>2, <1>3, <1>4 DEF Holds, Coming

LEMMA HoldsTypeNext ==
  ASSUME TypeOK'
  PROVE  /\ Holds' \in [Account -> Nat] /\ \A b \in Account : Promised(b)' \in 0..MaxSize
         /\ \A A : Coming(A)' \in [S3Upload -> 0..MaxSize]
<1>1. \A w \in Writer : writer'[w].size \in 0..MaxSize
  BY DEF TypeOK, Task, Size
<1>2. \A w \in Upload \cup S3Upload : w \in Writer
  BY DEF Writer
<1>3. \A b \in Account : Promised(b)' \in 0..MaxSize
  BY <1>1, <1>2 DEF Promised
<1>4. \A b \in Account : used'[b] + Promised(b)' \in Nat
  BY <1>3 DEF TypeOK
<1>5. QED
  BY <1>1, <1>2, <1>3, <1>4 DEF Holds, Coming

\* The sums do not grow where nothing in them does.
LEMMA LoadShrinks ==
  ASSUME TypeOK, TypeOK', NEW A \in SUBSET Account,
         \A b \in A : Holds'[b] <= Holds[b],
         \A w \in S3Upload : Coming(A)'[w] <= Coming(A)[w]
  PROVE  Load(A)' <= Load(A)
<1> DEFINE h == Holds  g == Holds'  c == Coming(A)  d == Coming(A)'
<1>1. h \in [Account -> Nat] /\ c \in [S3Upload -> 0..MaxSize]
  BY HoldsType
<1>2. g \in [Account -> Nat] /\ d \in [S3Upload -> 0..MaxSize]
  BY HoldsTypeNext
<1>3. Load(A) = SumFunctionOnSet(h, A) + SumFunctionOnSet(c, S3Upload)
  BY DEF Load
<1>4. Load(A)' = SumFunctionOnSet(g, A) + SumFunctionOnSet(d, S3Upload)
  BY DEF Load
<1>5. (\A b \in A : g[b] <= h[b]) /\ \A w \in S3Upload : d[w] <= c[w]
  OBVIOUS
<1> HIDE DEF h, g, c, d
<1>6. IsFiniteSet(A) /\ IsFiniteSet(S3Upload)
  BY FS_Subset
<1>7. (\A b \in A : h[b] \in Int /\ g[b] \in Int) /\ \A w \in S3Upload : c[w] \in Int /\ d[w] \in Int
  BY <1>1, <1>2
<1>8. SumFunctionOnSet(g, A) <= SumFunctionOnSet(h, A)
  BY <1>5, <1>6, <1>7, SumMonotone
<1>9. SumFunctionOnSet(d, S3Upload) <= SumFunctionOnSet(c, S3Upload)
  BY <1>5, <1>6, <1>7, SumMonotone
<1>10. QED
  BY <1>1, <1>2, <1>3, <1>4, <1>8, <1>9, LoadLaw

LEMMA QuietLoad ==
  ASSUME TypeOK, TypeOK', NEW A \in SUBSET Account, UNCHANGED writer,
         \A b \in A : /\ used'[b] <= used[b]
                      /\ rowLock'[b] = rowLock[b] \/ rowLock'[b] \notin Upload
  PROVE  Load(A)' <= Load(A)
<1>1. ASSUME NEW b \in A
      PROVE  Holds'[b] <= Holds[b]
  <2>1. Promised(b)' = Promised(b) \/ Promised(b)' = 0
    BY DEF Promised
  <2>2. /\ Holds[b] = used[b] + Promised(b) /\ Holds'[b] = used'[b] + Promised(b)'
        /\ Promised(b) \in Nat /\ Promised(b)' \in Nat
        /\ used[b] \in Nat /\ used'[b] \in Nat /\ used'[b] <= used[b]
    BY HoldsType, HoldsTypeNext DEF Holds, TypeOK
  <2>3. QED
    BY <2>1, <2>2
<1>2. ASSUME NEW w \in S3Upload
      PROVE  Coming(A)'[w] <= Coming(A)[w]
  <2>1. Coming(A)' = Coming(A)
    BY DEF Coming
  <2>2. Coming(A)[w] \in Nat
    BY HoldsType
  <2>3. QED
    BY <2>1, <2>2
<1>3. QED
  BY <1>1, <1>2, LoadShrinks

\* A step of a request weighs nothing, unless it is a check that goes on.
LEMMA WritesLoad ==
  ASSUME TypeOK, TypeOK', RowsFit, WritersFit, NEW A \in SUBSET Account, NEW w \in Writer, Writes(w),
         SumPool(w) /\ writer'[w].at = "insert" => writer[w].acct \notin A
  PROVE  Load(A)' <= Load(A)
<1>1. /\ writer \in [Writer -> Task] /\ writer[w] \in Task /\ used \in [Account -> Nat]
      /\ rowLock \in [Account -> Writer \cup Account \cup {None}]
      /\ None \notin Writer /\ Upload \subseteq Writer /\ S3Upload \subseteq Writer
      /\ Upload \cap S3Upload = {}
  BY DEF TypeOK, Writer
<1>2. \A v \in Writer : v # w => writer'[v] = writer[v]
  BY <1>1 DEF Writes, S3Start, LockRow, SumPool, Insert, Set
<1>3. \A b \in Account : /\ Holds[b] = used[b] + Promised(b) /\ Holds'[b] = used'[b] + Promised(b)'
                         /\ Promised(b) \in Nat /\ Promised(b)' \in Nat /\ Holds[b] \in Nat
  BY HoldsType, HoldsTypeNext DEF Holds
<1>4. \A v \in S3Upload : Coming(A)[v] \in Nat
  BY HoldsType
<1>5. ASSUME UNCHANGED used, writer'[w].at # "insert",
             \A b \in A : rowLock'[b] = rowLock[b] \/ rowLock'[b] \in {w, None}
      PROVE  Load(A)' <= Load(A)
  <2>1. ASSUME NEW b \in A
        PROVE  Holds'[b] <= Holds[b]
    <3>1. Promised(b)' = Promised(b) \/ Promised(b)' = 0
      <4>1. CASE rowLock'[b] \notin Upload \/ rowLock'[b] = w
        BY <1>5, <4>1 DEF Promised
      <4>2. CASE rowLock'[b] \in Upload /\ rowLock'[b] # w
        <5>1. rowLock'[b] = rowLock[b] /\ writer'[rowLock[b]] = writer[rowLock[b]]
          BY <1>1, <1>2, <1>5, <4>2
        <5>2. QED
          BY <5>1 DEF Promised
      <4>3. QED
        BY <4>1, <4>2
    <3>2. used'[b] = used[b] /\ used[b] \in Nat
      BY <1>1, <1>5
    <3>3. QED
      BY <1>3, <3>1, <3>2
  <2>2. ASSUME NEW v \in S3Upload
        PROVE  Coming(A)'[v] <= Coming(A)[v]
    <3>1. Coming(A)'[v] = Coming(A)[v] \/ Coming(A)'[v] = 0
      BY <1>1, <1>2, <1>5 DEF Coming
    <3>2. QED
      BY <1>4, <3>1
  <2>3. QED
    BY <2>1, <2>2, LoadShrinks
<1>6. ASSUME NEW a \in Account, NEW n \in Size, S3Start(w, a, n)
      PROVE  Load(A)' <= Load(A)
  <2>1. UNCHANGED <<used, rowLock>> /\ writer'[w].at = "sum"
    BY <1>1, <1>6 DEF S3Start, Set
  <2>2. QED
    BY <1>5, <2>1
<1>7. ASSUME NEW a \in Account, NEW n \in Size, LockRow(w, a, n)
      PROVE  Load(A)' <= Load(A)
  <2>1. UNCHANGED used /\ writer'[w].at = "sum"
    BY <1>1, <1>7 DEF LockRow, Set
  <2>2. \A b \in A : rowLock'[b] = rowLock[b] \/ rowLock'[b] = w
    BY <1>1, <1>7 DEF LockRow, Take
  <2>3. QED
    BY <1>5, <2>1, <2>2
<1>8. CASE SumPool(w) /\ writer'[w].at # "insert"
  <2>1. UNCHANGED used /\ Drop(w)
    BY <1>1, <1>8 DEF SumPool, Set, Task
  <2>2. \A b \in A : rowLock'[b] = rowLock[b] \/ rowLock'[b] = None
    BY <2>1 DEF Drop
  <2>3. QED
    BY <1>5, <1>8, <2>1, <2>2
<1>9. CASE SumPool(w) /\ writer'[w].at = "insert"
  <2>1. UNCHANGED <<used, rowLock>> /\ writer[w].acct \notin A /\ writer'[w].acct = writer[w].acct
        /\ writer[w].at = "sum"
    BY <1>1, <1>9 DEF SumPool, Set, Task, Idle
  <2>2. ASSUME NEW b \in A
        PROVE  Holds'[b] <= Holds[b]
    <3>1. rowLock[b] # w
      BY <1>1, <2>1 DEF RowsFit
    <3>2. Promised(b)' = Promised(b)
      BY <1>1, <1>2, <2>1, <3>1 DEF Promised
    <3>3. QED
      BY <1>3, <2>1, <3>2
  <2>3. ASSUME NEW v \in S3Upload
        PROVE  Coming(A)'[v] <= Coming(A)[v]
    <3>1. Coming(A)'[v] = Coming(A)[v]
      BY <1>1, <1>2, <2>1 DEF Coming
    <3>2. QED
      BY <1>4, <3>1
  <2>4. QED
    BY <2>2, <2>3, LoadShrinks
<1>10. CASE Insert(w)
  <2>1. PICK a \in Account, n \in Size : writer[w].acct = a /\ writer[w].size = n
    BY <1>10 DEF Insert, WritersFit
  <2>2. /\ writer[w].at = "insert" /\ used' = [used EXCEPT ![a] = @ + n] /\ writer'[w] = Idle
        /\ rowLock' = [b \in Account |-> IF rowLock[b] = w THEN None ELSE rowLock[b]]
        /\ n \in Nat
    BY <1>1, <1>10, <2>1 DEF Insert, Set, Drop, Size
  <2>3. \A b \in Account : rowLock[b] = w => w \in Upload /\ b = a
    BY <1>1, <2>1 DEF RowsFit
  <2>4. \A b \in Account : b # a => Holds'[b] = Holds[b]
    <3>1. SUFFICES ASSUME NEW b \in Account, b # a PROVE Holds'[b] = Holds[b]
      OBVIOUS
    <3>2. rowLock'[b] = rowLock[b] /\ rowLock[b] # w /\ used'[b] = used[b]
      BY <1>1, <2>2, <2>3, <3>1
    <3>3. Promised(b)' = Promised(b)
      BY <1>1, <1>2, <3>2 DEF Promised
    <3>4. QED
      BY <1>3, <3>2, <3>3
  <2>5. \A v \in S3Upload : v # w => Coming(A)'[v] = Coming(A)[v]
    BY <1>1, <1>2 DEF Coming
  <2>6. CASE w \in Upload
    <3>1. rowLock[a] = w /\ rowLock'[a] = None /\ used'[a] = used[a] + n /\ None \notin Upload
      BY <1>1, <2>1, <2>2, <2>6 DEF RowsFit
    <3>2. Promised(a) = n /\ Promised(a)' = 0
      BY <2>1, <2>2, <2>6, <3>1 DEF Promised
    <3>3. Holds'[a] = Holds[a]
      BY <1>1, <1>3, <2>2, <3>1, <3>2
    <3>4. (\A b \in A : Holds'[b] <= Holds[b]) /\ w \notin S3Upload
      BY <1>1, <1>3, <2>4, <2>6, <3>3
    <3>5. QED
      BY <1>4, <2>5, <3>4, LoadShrinks
  <2>7. CASE w \in S3Upload
    <3>1. \A b \in Account : rowLock'[b] = rowLock[b] /\ rowLock[b] # w
      BY <1>1, <2>2, <2>3, <2>7
    <3>2. Promised(a)' = Promised(a)
      BY <1>1, <1>2, <2>2, <3>1 DEF Promised
    <3>3. Holds'[a] = Holds[a] + n
      BY <1>1, <1>3, <2>2, <3>2
    <3>4. Coming(A)[w] = (IF a \in A THEN n ELSE 0) /\ Coming(A)'[w] = 0
      BY <2>1, <2>2, <2>7 DEF Coming, Idle
    <3>5. CASE a \notin A
      <4>1. (\A b \in A : Holds'[b] <= Holds[b]) /\ \A v \in S3Upload : Coming(A)'[v] <= Coming(A)[v]
        BY <1>3, <1>4, <2>4, <2>5, <3>4, <3>5
      <4>2. QED
        BY <4>1, LoadShrinks
    <3>6. CASE a \in A
      <4> DEFINE h == Holds  g == Holds'  c == Coming(A)  d == Coming(A)'
      <4>1. h \in [Account -> Nat] /\ c \in [S3Upload -> 0..MaxSize]
        BY HoldsType
      <4>2. g \in [Account -> Nat] /\ d \in [S3Upload -> 0..MaxSize]
        BY HoldsTypeNext
      <4>3. /\ Load(A) = SumFunctionOnSet(h, A) + SumFunctionOnSet(c, S3Upload)
            /\ Load(A)' = SumFunctionOnSet(g, A) + SumFunctionOnSet(d, S3Upload)
        BY DEF Load
      <4>4. /\ \A b \in A \ {a} : g[b] = h[b]
            /\ \A v \in S3Upload \ {w} : d[v] = c[v]
            /\ g[a] = h[a] + n /\ c[w] = n /\ d[w] = 0
        BY <2>4, <2>5, <3>3, <3>4, <3>6
      <4> HIDE DEF h, g, c, d
      <4>5. IsFiniteSet(A) /\ IsFiniteSet(S3Upload)
        BY FS_Subset
      <4>6. /\ \A b \in A : h[b] \in Int /\ g[b] \in Int
            /\ \A v \in S3Upload : c[v] \in Int /\ d[v] \in Int
        BY <4>1, <4>2
      <4>7. SumFunctionOnSet(g, A) = SumFunctionOnSet(h, A) - h[a] + g[a]
        <5>1. \A b \in A : h[b] \in Int /\ g[b] \in Int
          BY <4>6
        <5>2. \A b \in A \ {a} : g[b] = h[b]
          BY <4>4
        <5>3. QED
          BY ONLY <3>6, <4>5, <5>1, <5>2, SumChange
      <4>8. SumFunctionOnSet(d, S3Upload) = SumFunctionOnSet(c, S3Upload) - c[w] + d[w]
        <5>1. \A v \in S3Upload : c[v] \in Int /\ d[v] \in Int
          BY <4>6
        <5>2. \A v \in S3Upload \ {w} : d[v] = c[v]
          BY <4>4
        <5>3. QED
          BY ONLY <2>7, <4>5, <5>1, <5>2, SumChange
      <4>9. /\ SumFunctionOnSet(h, A) \in Int /\ SumFunctionOnSet(c, S3Upload) \in Int
            /\ h[a] \in Int /\ n \in Int
        BY <2>2, <3>6, <4>1, <4>6, LoadLaw
      <4>10. QED
        BY <4>3, <4>4, <4>7, <4>8, <4>9
    <3>7. QED
      BY <3>5, <3>6
  <2>8. QED
    BY <2>6, <2>7 DEF Writer
<1>11. QED
  BY <1>6, <1>7, <1>8, <1>9, <1>10 DEF Writes

\* One element more, one c more.
LEMMA OneMore ==
  ASSUME NEW S, IsFiniteSet(S), NEW x \in S, NEW c \in Nat
  PROVE  /\ IsFiniteSet(S \ {x}) /\ Cardinality(S \ {x}) = Cardinality(S) - 1
         /\ Cardinality(S) \in Nat /\ Cardinality(S \ {x}) \in Nat
         /\ Cardinality(S) * c = Cardinality(S \ {x}) * c + c
         /\ Cardinality(S) * c \in Nat /\ Cardinality(S \ {x}) * c \in Nat
<1>1. IsFiniteSet(S \ {x}) /\ Cardinality(S \ {x}) = Cardinality(S) - 1
  BY FS_RemoveElement
<1>2. Cardinality(S) \in Nat /\ Cardinality(S \ {x}) \in Nat
  BY <1>1, FS_CardinalityType
<1>3. \A n, m \in Nat : m = n - 1 => n * c = m * c + c /\ n * c \in Nat /\ m * c \in Nat
  OBVIOUS
<1>4. QED
  BY <1>1, <1>2, <1>3

\* A sum over one element, and one over a set with that element.
LEMMA SumOne ==
  ASSUME NEW f, NEW a, f[a] \in Int
  PROVE  SumFunctionOnSet(f, {a}) = f[a]
<1>1. IsFiniteSet({}) /\ SumFunctionOnSet(f, {}) = 0
  BY FS_EmptySet, SumUnfolds
<1>2. SumFunctionOnSet(f, {} \cup {a}) = f[a] + SumFunctionOnSet(f, {})
  BY ONLY f[a] \in Int, <1>1, SumAdd
<1>3. {} \cup {a} = {a}
  OBVIOUS
<1>4. QED
  BY <1>1, <1>2, <1>3

LEMMA SumHasOne ==
  ASSUME NEW S, IsFiniteSet(S), NEW a \in S, NEW f, \A x \in S : f[x] \in Nat
  PROVE  f[a] <= SumFunctionOnSet(f, S)
<1> DEFINE zero == [x \in S \ {a} |-> 0]
<1>1. IsFiniteSet(S \ {a})
  BY FS_Subset
<1>2. SumFunctionOnSet(f, S) = f[a] + SumFunctionOnSet(f, S \ {a})
  BY SumTake
<1>3. \A x \in S \ {a} : zero[x] = 0 /\ zero[x] \in Int /\ f[x] \in Int /\ zero[x] <= f[x]
  OBVIOUS
<1> HIDE DEF zero
<1>4. SumFunctionOnSet(zero, S \ {a}) = 0 /\ SumFunctionOnSet(zero, S \ {a}) <= SumFunctionOnSet(f, S \ {a})
  BY <1>1, <1>3, SumZero, SumMonotone
<1>5. SumFunctionOnSet(f, S \ {a}) \in Int
  BY <1>1, <1>3, SumType
<1>6. QED
  BY <1>2, <1>4, <1>5

\* A check that goes on has found its quota kept: what the pool holds then, or what the
\* account alone does, is above it by one upload of everybody else in it at most, and
\* by the uploads of the S3 store.
LEMMA CheckLoad ==
  ASSUME TypeOK, TypeOK', RowsFit, WritersFit, NEW w \in Writer, SumPool(w), writer'[w].at = "insert",
         NEW A \in SUBSET Account, A = Pool(writer[w].acct) \/ A = {writer[w].acct}
  PROVE  Load(A)' <= writer[w].quota + (Cardinality(A) - 1) * MaxSize + S3Most
<1>1. /\ writer \in [Writer -> Task] /\ used \in [Account -> Nat]
      /\ S3Upload \subseteq Writer
  BY DEF TypeOK, Writer
<1>2. PICK a \in Account, n \in Size : writer[w].acct = a /\ writer[w].size = n
  BY DEF SumPool, WritersFit
<1>3. a \in A /\ n \in Nat /\ n <= MaxSize
  BY <1>2 DEF Pool, InFamily, Size
<1>4. /\ SumFunctionOnSet(used, A) + n <= writer[w].quota /\ writer[w].quota \in Int
      /\ used' = used /\ rowLock' = rowLock
      /\ writer[w].at = "sum" /\ writer'[w].acct = a /\ writer'[w].size = n
      /\ \A v \in Writer : v # w => writer'[v] = writer[v]
  <2>1. writer[w] \in Task /\ writer[w].quota \in Int
    BY <1>1 DEF Task
  <2>2. ~(SumFunctionOnSet(used, Pool(a)) + n > writer[w].quota)
    BY <1>1, <1>2, <2>1 DEF SumPool, PooledUsed, Set, Idle
  <2>3. /\ SumFunctionOnSet(used, A) \in Int /\ SumFunctionOnSet(used, Pool(a)) \in Int
        /\ SumFunctionOnSet(used, A) <= SumFunctionOnSet(used, Pool(a))
    <3>1. a \in Pool(a) /\ Pool(a) \in SUBSET Account
      BY DEF Pool, InFamily, TypeOK
    <3>2. IsFiniteSet(A) /\ IsFiniteSet(Pool(a)) /\ \A b \in Account : used[b] \in Int /\ used[b] \in Nat
      BY <1>1, <3>1, FS_Subset
    <3>3. SumFunctionOnSet(used, A) \in Int /\ SumFunctionOnSet(used, Pool(a)) \in Int
      <4>1. (\A b \in A : used[b] \in Int) /\ \A b \in Pool(a) : used[b] \in Int
        BY <3>1, <3>2
      <4>2. QED
        BY ONLY <3>2, <4>1, SumType
    <3>4. SumFunctionOnSet(used, {a}) <= SumFunctionOnSet(used, Pool(a))
      <4>1. SumFunctionOnSet(used, {a}) = used[a]
        BY <3>2, SumOne
      <4>2. used[a] <= SumFunctionOnSet(used, Pool(a))
        BY <3>1, <3>2, SumHasOne
      <4>3. QED
        BY <4>1, <4>2
    <3>5. CASE A = Pool(a)
      BY <3>3, <3>5
    <3>6. CASE A = {a}
      BY <3>3, <3>4, <3>6
    <3>7. QED
      BY <1>2, <3>5, <3>6
  <2>4. /\ used' = used /\ rowLock' = rowLock /\ writer[w].at = "sum"
        /\ writer' = [writer EXCEPT ![w] = [at |-> "insert", acct |-> writer[w].acct, size |-> writer[w].size, quota |-> 0]]
    BY <1>1, <1>2 DEF SumPool, Set, Idle
  <2>5. /\ writer'[w].acct = a /\ writer'[w].size = n
        /\ \A v \in Writer : v # w => writer'[v] = writer[v]
    BY <1>1, <1>2, <2>1, <2>4 DEF Task
  <2>6. QED
    BY <1>3, <2>1, <2>2, <2>3, <2>4, <2>5
<1> DEFINE g == Holds'  d == Coming(A)'  u == used  B == A \ {a}  V == S3Upload \ {w}
<1>5. g \in [Account -> Nat] /\ d \in [S3Upload -> 0..MaxSize]
  BY HoldsTypeNext
<1>6. \A b \in Account : Promised(b)' \in 0..MaxSize /\ g[b] = u[b] + Promised(b)' /\ u[b] \in Nat
  BY <1>1, <1>4, HoldsTypeNext DEF Holds
<1>7. Load(A)' = SumFunctionOnSet(g, A) + SumFunctionOnSet(d, S3Upload)
  BY DEF Load
<1>8. w \in Upload => g[a] = u[a] + n
  <2>1. w \in Upload => rowLock[a] = w
    BY <1>2, <1>4 DEF RowsFit
  <2>2. w \in Upload => Promised(a)' = n
    BY <1>4, <2>1 DEF Promised
  <2>3. QED
    BY <1>6, <2>2
<1>9. w \in S3Upload => d[w] = n
  BY <1>3, <1>4 DEF Coming
<1>10. IsFiniteSet(A) /\ IsFiniteSet(S3Upload)
  BY FS_Subset
<1> HIDE DEF g, d, u
<1>11. /\ \A b \in A : g[b] \in Int /\ u[b] \in Int /\ g[b] <= u[b] + MaxSize
       /\ SumFunctionOnSet(u, A) \in Int
  BY <1>6, <1>10, SumType
<1>12. /\ IsFiniteSet(B) /\ Cardinality(B) = Cardinality(A) - 1 /\ Cardinality(A) * MaxSize \in Nat
       /\ Cardinality(A) * MaxSize = Cardinality(B) * MaxSize + MaxSize /\ Cardinality(B) * MaxSize \in Nat
  <2>1. MaxSize \in Nat /\ a \in A
    BY <1>3
  <2>2. QED
    BY ONLY <1>10, <2>1, OneMore
<1>13. SumFunctionOnSet(d, S3Upload) \in Nat /\ SumFunctionOnSet(d, S3Upload) <= S3Most
  BY <1>5, <1>10, SumBounds DEF S3Most
<1> HIDE DEF B, V
<1>14. (Cardinality(A) - 1) * MaxSize = Cardinality(B) * MaxSize
  BY <1>12
<1>15. CASE w \in Upload
  <2>1. /\ SumFunctionOnSet(g, A) = g[a] + SumFunctionOnSet(g, B)
        /\ SumFunctionOnSet(u, A) = u[a] + SumFunctionOnSet(u, B)
    BY <1>3, <1>10, <1>11, SumTake DEF B
  <2>2. \A b \in B : g[b] \in Int /\ u[b] \in Int /\ g[b] <= u[b] + MaxSize
    BY <1>11 DEF B
  <2>3. /\ SumFunctionOnSet(g, B) <= SumFunctionOnSet(u, B) + Cardinality(B) * MaxSize
    BY <1>12, <2>2, SumExceeds
  <2>4. SumFunctionOnSet(g, B) \in Int /\ SumFunctionOnSet(u, B) \in Int
    BY <1>12, <2>2, SumType
  <2>5. g[a] = u[a] + n /\ u[a] \in Int
    BY <1>6, <1>8, <1>15
  <2>6. SumFunctionOnSet(g, A) <= writer[w].quota + Cardinality(B) * MaxSize
    BY <1>3, <1>4, <1>12, <2>1, <2>3, <2>4, <2>5 DEF u
  <2>7. SumFunctionOnSet(g, A) \in Int
    BY <2>1, <2>4, <2>5, <1>3
  <2>8. /\ Cardinality(B) * MaxSize \in Nat /\ writer[w].quota \in Int /\ S3Most \in Nat
        /\ SumFunctionOnSet(d, S3Upload) \in Nat /\ SumFunctionOnSet(d, S3Upload) <= S3Most
    BY <1>4, <1>12, <1>13, Most
  <2>9. QED
    BY ONLY <1>7, <1>14, <2>6, <2>7, <2>8
<1>16. CASE w \in S3Upload
  <2>1. SumFunctionOnSet(g, A) <= SumFunctionOnSet(u, A) + Cardinality(A) * MaxSize
    BY <1>10, <1>11, SumExceeds
  <2>2. /\ IsFiniteSet(V) /\ Cardinality(S3Upload) * MaxSize = Cardinality(V) * MaxSize + MaxSize
        /\ Cardinality(V) * MaxSize \in Nat
    <3>1. MaxSize \in Nat
      OBVIOUS
    <3>2. QED
      BY ONLY <1>10, <1>16, <3>1, OneMore DEF V
  <2>3. SumFunctionOnSet(d, S3Upload) = d[w] + SumFunctionOnSet(d, V)
    <3>1. \A v \in S3Upload : d[v] \in Int
      BY <1>5
    <3>2. QED
      BY ONLY <1>10, <1>16, <3>1, SumTake DEF V
  <2>4. SumFunctionOnSet(d, V) \in Nat /\ SumFunctionOnSet(d, V) <= Cardinality(V) * MaxSize
    <3>1. \A v \in V : d[v] \in 0..MaxSize
      BY <1>5 DEF V
    <3>2. QED
      BY <2>2, <3>1, SumBounds
  <2>5. SumFunctionOnSet(d, S3Upload) <= n + S3Most - MaxSize
    BY <1>3, <1>9, <1>16, <2>2, <2>3, <2>4 DEF S3Most
  <2>6. SumFunctionOnSet(g, A) \in Int
    BY <1>10, <1>11, SumType
  <2>7. SumFunctionOnSet(g, A) <= writer[w].quota - n + Cardinality(B) * MaxSize + MaxSize
    BY <1>3, <1>4, <1>11, <1>12, <2>1, <2>6 DEF u
  <2>8. QED
    BY <1>3, <1>4, <1>7, <1>12, <1>13, <1>14, <2>5, <2>6, <2>7, Most
<1>17. QED
  BY <1>15, <1>16 DEF Writer

LEMMA LoadType ==
  ASSUME NEW A \in SUBSET Account
  PROVE  /\ TypeOK => Load(A) \in Nat
         /\ TypeOK' => Load(A)' \in Nat
<1>1. ASSUME NEW h \in [Account -> Nat], NEW c \in [S3Upload -> 0..MaxSize]
      PROVE  SumFunctionOnSet(h, A) + SumFunctionOnSet(c, S3Upload) \in Nat
  <2>1. /\ IsFiniteSet(A) /\ SumFunctionOnSet(h, A) \in Int
        /\ SumFunctionOnSet(c, S3Upload) \in Nat
    BY LoadLaw
  <2> DEFINE zero == [b \in A |-> 0]
  <2>2. \A b \in A : zero[b] \in Int /\ h[b] \in Int /\ zero[b] <= h[b]
    OBVIOUS
  <2>3. \A b \in A : zero[b] = 0
    OBVIOUS
  <2> HIDE DEF zero
  <2>4. SumFunctionOnSet(zero, A) = 0 /\ SumFunctionOnSet(zero, A) <= SumFunctionOnSet(h, A)
    BY <2>1, <2>2, <2>3, SumZero, SumMonotone
  <2>5. QED
    BY <2>1, <2>4
<1>2. ASSUME TypeOK PROVE Load(A) \in Nat
  <2> DEFINE h == Holds  c == Coming(A)
  <2>1. h \in [Account -> Nat] /\ c \in [S3Upload -> 0..MaxSize]
    BY <1>2, HoldsType
  <2>2. Load(A) = SumFunctionOnSet(h, A) + SumFunctionOnSet(c, S3Upload)
    BY DEF Load
  <2> HIDE DEF h, c
  <2>3. QED
    BY <1>1, <2>1, <2>2
<1>3. ASSUME TypeOK' PROVE Load(A)' \in Nat
  <2> DEFINE h == Holds'  c == Coming(A)'
  <2>1. h \in [Account -> Nat] /\ c \in [S3Upload -> 0..MaxSize]
    BY <1>3, HoldsTypeNext
  <2>2. Load(A)' = SumFunctionOnSet(h, A) + SumFunctionOnSet(c, S3Upload)
    BY DEF Load
  <2> HIDE DEF h, c
  <2>3. QED
    BY <1>1, <2>1, <2>2
<1>4. QED
  BY <1>2, <1>3

\* One account more, one account less.
LEMMA LoadAdd ==
  ASSUME TypeOK, NEW A \in SUBSET Account, NEW a \in Account, a \notin A
  PROVE  Load(A \cup {a}) = Load(A) + Load({a})
<1> DEFINE h == Holds  c == Coming(A)  d == Coming({a})  e == Coming(A \cup {a})
<1>1. h \in [Account -> Nat]
  BY HoldsType
<1>2. /\ c \in [S3Upload -> 0..MaxSize] /\ d \in [S3Upload -> 0..MaxSize]
      /\ e \in [S3Upload -> 0..MaxSize]
  BY HoldsType
<1>3. \A w \in S3Upload : e[w] = c[w] + d[w]
  <2>1. \A w \in S3Upload : writer[w].size \in Nat
    BY DEF TypeOK, Task, Size, Writer
  <2>2. QED
    BY <2>1 DEF Coming
<1>4. /\ Load(A) = SumFunctionOnSet(h, A) + SumFunctionOnSet(c, S3Upload)
      /\ Load({a}) = SumFunctionOnSet(h, {a}) + SumFunctionOnSet(d, S3Upload)
      /\ Load(A \cup {a}) = SumFunctionOnSet(h, A \cup {a}) + SumFunctionOnSet(e, S3Upload)
  BY DEF Load
<1> HIDE DEF h, c, d, e
<1>5. IsFiniteSet(A) /\ \A x \in A : h[x] \in Int
  BY <1>1, FS_Subset
<1>6. h[a] \in Int
  BY <1>1
<1>7. SumFunctionOnSet(h, A \cup {a}) = h[a] + SumFunctionOnSet(h, A)
  BY ONLY a \notin A, <1>5, <1>6, SumAdd
<1>8. SumFunctionOnSet(h, {a}) = h[a]
  <2>1. IsFiniteSet({}) /\ SumFunctionOnSet(h, {}) = 0
    BY FS_EmptySet, SumUnfolds
  <2>2. SumFunctionOnSet(h, {} \cup {a}) = h[a] + SumFunctionOnSet(h, {})
    BY ONLY <1>6, <2>1, SumAdd
  <2>3. {} \cup {a} = {a}
    OBVIOUS
  <2>4. QED
    BY <1>6, <2>1, <2>2, <2>3
<1>9. \A w \in S3Upload : c[w] \in Int /\ d[w] \in Int /\ e[w] = c[w] + d[w]
  BY <1>2, <1>3
<1>10. SumFunctionOnSet(e, S3Upload) = SumFunctionOnSet(c, S3Upload) + SumFunctionOnSet(d, S3Upload)
  BY <1>9, SumPlus
<1>11. /\ SumFunctionOnSet(h, A) \in Int
       /\ SumFunctionOnSet(c, S3Upload) \in Int /\ SumFunctionOnSet(d, S3Upload) \in Int
  BY <1>1, <1>2, LoadLaw
<1>12. QED
  BY <1>4, <1>6, <1>7, <1>8, <1>10, <1>11

LEMMA LoadLess ==
  ASSUME TypeOK, NEW A \in SUBSET Account, NEW a \in A
  PROVE  Load(A \ {a}) <= Load(A)
<1>1. (A \ {a}) \cup {a} = A
  OBVIOUS
<1>2. Load(A) = Load(A \ {a}) + Load({a})
  BY <1>1, LoadAdd
<1>3. Load(A \ {a}) \in Nat /\ Load({a}) \in Nat
  BY LoadType
<1>4. QED
  BY <1>2, <1>3

\* What the steps of nobody's upload do to the rows and to the bytes.
LEMMA OthersRows ==
  ASSUME TypeOK, [Next]_vars, \A w \in Writer : ~Writes(w)
  PROVE  /\ writer' = writer
         /\ \A b \in Account : rowLock'[b] = rowLock[b] \/ rowLock'[b] \notin Upload
<1>1. writer' = writer
  BY OthersWriters
<1>2. /\ Account \cap Upload = {} /\ None \notin Upload
      /\ rowLock \in [Account -> Writer \cup Account \cup {None}]
  BY DEF TypeOK
<1>3. UNCHANGED rowLock => \A b \in Account : rowLock'[b] = rowLock[b] \/ rowLock'[b] \notin Upload
  OBVIOUS
<1>4. ASSUME NEW a \in Invitee, Moves(a)
      PROVE  \A b \in Account : rowLock'[b] = rowLock[b] \/ rowLock'[b] \notin Upload
  <2>1. (\E b \in Account : Take(b, a)) \/ Drop(a) \/ UNCHANGED rowLock
    BY <1>4 DEF Moves, CountSeats, CreateInvite, RevokeInvite, JoinOwn, JoinOwner,
       JoinRefused, JoinSeat, JoinCommit
  <2>2. ASSUME NEW b \in Account, Take(b, a)
        PROVE  \A x \in Account : rowLock'[x] = rowLock[x] \/ rowLock'[x] \notin Upload
    BY <1>2, <2>2 DEF Take
  <2>3. CASE Drop(a)
    BY <1>2, <2>3 DEF Drop
  <2>4. QED
    BY <1>3, <2>1, <2>2, <2>3
<1>5. ~(\E a \in Invitee : Moves(a)) => UNCHANGED rowLock
  BY NextCases DEF Plans, ChangePlan, ReadPlan, Follow, Leave, List, EndMembership, RevokeInvites,
     RemoveMember, Free, vars
<1>6. QED
  BY <1>1, <1>3, <1>4, <1>5

LEMMA OthersUsed ==
  ASSUME TypeOK, [Next]_vars, \A w \in Writer : ~Writes(w)
  PROVE  \/ UNCHANGED used
         \/ UNCHANGED members /\ \A b \in Account : used'[b] <= used[b]
         \/ (\E a \in Account : Detach(a)) /\ UNCHANGED joining
<1>1. ASSUME NEW a \in Account, NEW n \in Size, Free(a, n)
      PROVE  UNCHANGED members /\ \A b \in Account : used'[b] <= used[b]
  <2>1. used \in [Account -> Nat] /\ n \in Nat
    BY DEF TypeOK, Size
  <2>2. QED
    BY <1>1, <2>1 DEF Free, family
<1>2. ASSUME NEW s \in Sync, EndMembership(s)
      PROVE  (\E a \in Account : Detach(a)) /\ UNCHANGED joining
  BY <1>2 DEF EndMembership, TypeOK, Job
<1>3. ASSUME NEW a \in Account, RemoveMember(a)
      PROVE  (\E b \in Account : Detach(b)) /\ UNCHANGED joining
  BY <1>3 DEF RemoveMember
<1>4. ASSUME NEW s \in Sync, Plans(s), ~EndMembership(s)
      PROVE  UNCHANGED used
  BY <1>4 DEF Plans, ChangePlan, ReadPlan, Follow, Leave, List, RevokeInvites, quotas
<1>5. ASSUME NEW a \in Invitee, Moves(a)
      PROVE  UNCHANGED used
  BY <1>5 DEF Moves, CountSeats, CreateInvite, RevokeInvite, JoinOwn, JoinOwner,
     JoinRefused, JoinSeat, JoinCommit, quotas
<1>6. CASE UNCHANGED vars
  BY <1>6 DEF vars
<1>7. QED
  BY <1>1, <1>2, <1>3, <1>4, <1>5, <1>6, NextCases

-----------------------------------------------------------------------------
\* An account keeps to its quota, and as long as it is alone to that of one.
LEMMA StepAccounts ==
  ASSUME TypeOK, TypeOK', RowsFit, WritersFit, NewcomersFit, AccountsHold, [Next]_vars
  PROVE  AccountsHold'
<1> SUFFICES ASSUME NEW a \in Account \ {Owner}
             PROVE  Load({a})' <= MostOf(a)'
  BY DEF AccountsHold
<1>1. /\ S3Most \in Nat /\ SoloQuota \in Nat /\ LargestQuota \in Nat /\ SoloQuota <= LargestQuota
      /\ Newcomer(a)' => Newcomer(a) /\ a \notin members
  BY Most, JoinedStay DEF Newcomer, NewcomersFit
<1>2. /\ MostOf(a) = S3Most + IF Newcomer(a) THEN SoloQuota ELSE LargestQuota
      /\ MostOf(a)' = S3Most + IF Newcomer(a)' THEN SoloQuota ELSE LargestQuota
  BY DEF MostOf, S3Most
<1>3. Load({a}) \in Nat /\ Load({a})' \in Nat /\ Load({a}) <= MostOf(a)
  BY LoadType DEF AccountsHold
<1>4. Load({a})' <= Load({a}) => Load({a})' <= MostOf(a)'
  BY <1>1, <1>2, <1>3
<1>5. ASSUME NEW w \in Writer, Writes(w)
      PROVE  Load({a})' <= MostOf(a)'
  <2>1. CASE ~(SumPool(w) /\ writer'[w].at = "insert" /\ writer[w].acct = a)
    <3>1. Load({a})' <= Load({a})
      BY <1>5, <2>1, WritesLoad
    <3>2. QED
      BY <1>4, <3>1
  <2>2. CASE SumPool(w) /\ writer'[w].at = "insert" /\ writer[w].acct = a
    <3>1. writer[w].quota \in 0..LargestQuota /\ (Newcomer(a) => writer[w].quota = SoloQuota)
      BY <2>2 DEF WritersFit, SumPool, TypeOK, Task
    <3>2. Cardinality({a}) = 1
      BY FS_Singleton
    <3>3. Load({a})' <= writer[w].quota + (Cardinality({a}) - 1) * MaxSize + S3Most
      BY <2>2, CheckLoad
    <3>4. (1 - 1) * MaxSize = 0
      OBVIOUS
    <3>5. QED
      BY <1>1, <1>2, <1>3, <3>1, <3>2, <3>3, <3>4
  <2>3. QED
    BY <2>1, <2>2
<1>6. CASE \A w \in Writer : ~Writes(w)
  <2>1. used'[a] <= used[a]
    <3>1. used \in [Account -> Nat]
      BY DEF TypeOK
    <3>2. ASSUME NEW b \in Account, Detach(b)
          PROVE  used'[a] <= used[a]
      <4>1. PICK n \in IF b \in members THEN 0..used[b] ELSE {0} :
              used' = [used EXCEPT ![b] = @ - n, ![Owner] = @ + n]
        BY <3>2 DEF Detach
      <4>2. n \in Nat /\ used[a] \in Nat /\ used'[a] \in {used[a], used[a] - n}
        BY <3>1, <4>1
      <4>3. QED
        BY <4>2
    <3>3. used[a] \in Nat
      BY <3>1
    <3>4. QED
      BY <1>6, <3>2, <3>3, OthersUsed
  <2>2. Load({a})' <= Load({a})
    BY <1>6, <2>1, OthersRows, QuietLoad
  <2>3. QED
    BY <1>4, <2>2
<1>7. QED
  BY <1>5, <1>6

-----------------------------------------------------------------------------
LEMMA MostGrows ==
  /\ Cardinality(FirstMembers) \in Nat
  /\ \A n \in Nat : MostWith(n) \in Nat
  /\ \A n, m \in Nat : n <= m => MostWith(n) <= MostWith(m)
  /\ \A n \in Nat : MostWith(n + 1) = MostWith(n) + MaxSize + LargestQuota + S3Most
  /\ \A n \in Nat : LargestQuota + (Cardinality(FirstMembers) + n) * MaxSize + S3Most <= MostWith(n)
<1>1. /\ Cardinality(FirstMembers) \in Nat /\ S3Most \in Nat /\ MaxSize \in Nat
      /\ LargestQuota \in Nat
  <2>1. IsFiniteSet(FirstMembers)
    BY FS_Subset
  <2>2. QED
    BY <2>1, FS_CardinalityType, Most
<1>2. \A n, m, c \in Nat : /\ n * c \in Nat /\ (n + m) * c = n * c + m * c
                           /\ (n + 1) * c = n * c + c
  OBVIOUS
<1> DEFINE f == Cardinality(FirstMembers)  c == LargestQuota + S3Most
<1>3. f \in Nat /\ c \in Nat
  BY <1>1
<1>4. \A n \in Nat : MostWith(n) = LargestQuota + (f + n) * MaxSize + n * c + S3Most
  BY DEF MostWith
<1>5. c = LargestQuota + S3Most
  OBVIOUS
<1> HIDE DEF f, c
<1>6. \A n \in Nat : MostWith(n) = LargestQuota + f * MaxSize + n * MaxSize + n * c + S3Most
  <2>1. \A n \in Nat : (f + n) * MaxSize = f * MaxSize + n * MaxSize
    BY <1>1, <1>2, <1>3
  <2>2. QED
    BY <1>1, <1>2, <1>3, <1>4, <2>1
<1>7. \A n \in Nat : n * MaxSize \in Nat /\ n * c \in Nat /\ f * MaxSize \in Nat
  BY <1>1, <1>2, <1>3
<1>8. ASSUME NEW n \in Nat
      PROVE  MostWith(n) \in Nat
  <2>1. MostWith(n) = LargestQuota + f * MaxSize + n * MaxSize + n * c + S3Most
    BY <1>6
  <2>2. n * MaxSize \in Nat /\ n * c \in Nat /\ f * MaxSize \in Nat
    BY <1>7
  <2>3. QED
    BY <1>1, <2>1, <2>2
<1>9. ASSUME NEW n \in Nat, NEW m \in Nat, n <= m
      PROVE  MostWith(n) <= MostWith(m)
  <2>1. PICK k \in Nat : m = n + k
    <3>1. m - n \in Nat /\ m = n + (m - n)
      BY <1>9
    <3>2. QED
      BY <3>1
  <2>2. m * MaxSize = n * MaxSize + k * MaxSize /\ m * c = n * c + k * c
    BY <1>1, <1>2, <1>3, <2>1
  <2>3. /\ MostWith(n) = LargestQuota + f * MaxSize + n * MaxSize + n * c + S3Most
        /\ MostWith(m) = LargestQuota + f * MaxSize + m * MaxSize + m * c + S3Most
    BY <1>6
  <2>4. /\ n * MaxSize \in Nat /\ k * MaxSize \in Nat /\ n * c \in Nat /\ k * c \in Nat
        /\ f * MaxSize \in Nat
    BY <1>7
  <2>5. QED
    BY <1>1, <2>2, <2>3, <2>4
<1>10. ASSUME NEW n \in Nat
       PROVE  MostWith(n + 1) = MostWith(n) + MaxSize + c
  <2>1. n + 1 \in Nat /\ (n + 1) * MaxSize = n * MaxSize + MaxSize /\ (n + 1) * c = n * c + c
    BY <1>1, <1>2, <1>3
  <2>2. /\ MostWith(n) = LargestQuota + f * MaxSize + n * MaxSize + n * c + S3Most
        /\ MostWith(n + 1) = LargestQuota + f * MaxSize + (n + 1) * MaxSize + (n + 1) * c + S3Most
    BY <1>6, <2>1
  <2>3. n * MaxSize \in Nat /\ n * c \in Nat /\ f * MaxSize \in Nat
    BY <1>7
  <2>4. QED
    BY <1>1, <1>3, <2>1, <2>2, <2>3
<1>11. ASSUME NEW n \in Nat
       PROVE  LargestQuota + (f + n) * MaxSize + S3Most <= MostWith(n)
  <2>1. n * c \in Nat /\ f + n \in Nat
    BY <1>3, <1>7
  <2>2. (f + n) * MaxSize \in Nat
    BY <1>1, <1>2, <2>1
  <2>3. QED
    BY <1>1, <1>4, <2>1, <2>2
<1>12. f = Cardinality(FirstMembers)
  BY DEF f
<1>13. \A n \in Nat : MostWith(n + 1) = MostWith(n) + MaxSize + LargestQuota + S3Most
  BY <1>1, <1>5, <1>8, <1>10
<1>14. QED
  BY <1>1, <1>8, <1>9, <1>11, <1>12, <1>13

\* In the family are the owner, those of the start and those who joined.
LEMMA FamilySize ==
  ASSUME TypeOK, NewcomersFit
  PROVE  /\ Family \in SUBSET Account /\ joins \in Nat /\ Owner \notin members
         /\ Cardinality(Family) - 1 <= Cardinality(FirstMembers) + joins
         /\ Cardinality(Family) \in Nat
<1>1. members \subseteq Account /\ Owner \notin members /\ joined \subseteq Account /\ joins \in Nat
  BY DEF TypeOK
<1>2. /\ IsFiniteSet(members) /\ IsFiniteSet(joined) /\ IsFiniteSet(FirstMembers)
  BY <1>1, FS_Subset
<1>3. /\ Cardinality(members) \in Nat /\ Cardinality(joined) \in Nat /\ Cardinality(FirstMembers) \in Nat
  BY <1>2, FS_CardinalityType
<1>4. /\ IsFiniteSet(FirstMembers \cup joined) /\ IsFiniteSet(FirstMembers \cap joined)
      /\ Cardinality(FirstMembers \cup joined) =
           Cardinality(FirstMembers) + Cardinality(joined) - Cardinality(FirstMembers \cap joined)
  BY <1>2, FS_Union, FS_Subset
<1>5. /\ Cardinality(FirstMembers \cap joined) \in Nat /\ Cardinality(FirstMembers \cup joined) \in Nat
  BY <1>4, FS_CardinalityType
<1>6. Cardinality(members) <= Cardinality(FirstMembers \cup joined) /\ Cardinality(joined) <= joins
  <2>1. members \subseteq FirstMembers \cup joined /\ Cardinality(joined) <= joins
    BY DEF NewcomersFit
  <2>2. QED
    BY <1>4, <2>1, FS_Subset
<1>7. Cardinality(members \cup {Owner}) = Cardinality(members) + 1
  BY <1>1, <1>2, FS_AddElement
<1>8. members \cup {Owner} = Family
  BY DEF Family
<1>9. Family \in SUBSET Account
  BY <1>1, <1>8
<1>10. Cardinality(Family) = Cardinality(members) + 1
  BY <1>7, <1>8
<1>11. Cardinality(members) <= Cardinality(FirstMembers) + joins
  BY <1>1, <1>3, <1>4, <1>5, <1>6
<1>12. QED
  BY <1>1, <1>3, <1>9, <1>10, <1>11

\* What a member takes to the owner when it leaves was the family's before.
LEMMA DetachLoad ==
  ASSUME TypeOK, TypeOK', NEW a \in Account, Detach(a), UNCHANGED writer,
         \A b \in Account : rowLock'[b] = rowLock[b] \/ rowLock'[b] \notin Upload,
         NEW A \in SUBSET Account, A = Family'
  PROVE  Load(A)' <= Load(Family)
<1>1. /\ members \subseteq Account /\ Owner \notin members /\ used \in [Account -> Nat]
      /\ used' \in [Account -> Nat]
  BY DEF TypeOK
<1>2. PICK n \in IF a \in members THEN 0..used[a] ELSE {0} :
        used' = [used EXCEPT ![a] = @ - n, ![Owner] = @ + n]
  BY DEF Detach
<1>3. members' = members \ {a} /\ A = {Owner} \cup (members \ {a})
  BY DEF Detach, Family
<1>4. Family \in SUBSET Account
  BY <1>1, <1>3 DEF Family
<1>5. CASE a \notin members
  <2>1. A = Family /\ \A b \in Account : used'[b] <= used[b]
    BY <1>1, <1>2, <1>3, <1>5 DEF Family
  <2>2. Load(A)' <= Load(A)
    BY <1>4, <2>1, QuietLoad
  <2>3. QED
    BY <2>1, <2>2
<1>6. CASE a \in members
  <2>1. /\ n \in Nat /\ n <= used[a] /\ a # Owner /\ used'[Owner] = used[Owner] + n
        /\ \A b \in Account \ {a, Owner} : used'[b] = used[b]
    BY <1>1, <1>2, <1>6
  <2>2. A = Family \ {a} /\ a \in Family /\ Owner \in A /\ a \notin A
    BY <1>1, <1>3, <1>6 DEF Family
  <2> DEFINE h == Holds  g == Holds'  c == Coming(Family)  d == Coming(A)'
             m == [b \in Account |-> IF b = Owner THEN h[b] + n ELSE h[b]]
  <2>3. h \in [Account -> Nat] /\ c \in [S3Upload -> 0..MaxSize]
    BY HoldsType
  <2>4. g \in [Account -> Nat] /\ d \in [S3Upload -> 0..MaxSize]
    BY HoldsTypeNext
  <2>5. h[a] >= n
    BY <2>1, <1>1, HoldsType DEF Holds
  <2>6. \A b \in A : g[b] <= m[b]
    <3>1. ASSUME NEW b \in Account, b # a
          PROVE  g[b] <= m[b]
      <4>1. Promised(b)' = Promised(b) \/ Promised(b)' = 0
        BY DEF Promised
      <4>2. Promised(b) \in Nat /\ g[b] = used'[b] + Promised(b)' /\ h[b] = used[b] + Promised(b)
        BY HoldsType DEF Holds
      <4>3. used'[b] = IF b = Owner THEN used[b] + n ELSE used[b]
        BY <2>1, <3>1
      <4>4. used[b] \in Nat /\ used'[b] \in Nat
        BY <1>1
      <4>5. m[b] = IF b = Owner THEN h[b] + n ELSE h[b]
        OBVIOUS
      <4> HIDE DEF h, g, m
      <4>6. QED
        BY <2>1, <4>1, <4>2, <4>3, <4>4, <4>5
    <3>2. QED
      BY <1>4, <2>2, <3>1
  <2>7. \A w \in S3Upload : d[w] <= c[w]
    <3>1. \A w \in S3Upload : writer[w].size \in Nat
      BY DEF TypeOK, Task, Size, Writer
    <3>2. \A w \in S3Upload : d[w] = c[w] \/ d[w] = 0
      BY <2>2 DEF Coming
    <3>3. QED
      BY <2>3, <3>2
  <2>8. m \in [Account -> Nat] /\ m[Owner] = h[Owner] + n /\ \A b \in A \ {Owner} : m[b] = h[b]
    BY <1>4, <2>1, <2>3
  <2>9. /\ Load(Family) = SumFunctionOnSet(h, Family) + SumFunctionOnSet(c, S3Upload)
        /\ Load(A)' = SumFunctionOnSet(g, A) + SumFunctionOnSet(d, S3Upload)
    BY DEF Load
  <2> HIDE DEF h, g, c, d, m
  <2>10. IsFiniteSet(Family) /\ IsFiniteSet(A) /\ IsFiniteSet(S3Upload)
    BY <1>4, FS_Subset
  <2>11. /\ \A b \in Family : h[b] \in Int
         /\ \A b \in A : h[b] \in Int /\ g[b] \in Int /\ m[b] \in Int
         /\ \A w \in S3Upload : c[w] \in Int /\ d[w] \in Int
    BY <1>4, <2>3, <2>4, <2>8
  <2>12. SumFunctionOnSet(g, A) <= SumFunctionOnSet(m, A)
    BY <2>6, <2>10, <2>11, SumMonotone
  <2>13. SumFunctionOnSet(m, A) = SumFunctionOnSet(h, A) - h[Owner] + m[Owner]
    <3>1. \A b \in A : h[b] \in Int /\ m[b] \in Int
      BY <2>11
    <3>2. \A b \in A \ {Owner} : m[b] = h[b]
      BY <2>8
    <3>3. IsFiniteSet(A) /\ Owner \in A
      BY <2>2, <2>10
    <3>4. QED
      BY ONLY <3>1, <3>2, <3>3, SumChange
  <2>14. SumFunctionOnSet(h, Family) = h[a] + SumFunctionOnSet(h, A)
    BY <2>2, <2>10, <2>11, SumTake
  <2>15. SumFunctionOnSet(d, S3Upload) <= SumFunctionOnSet(c, S3Upload)
    BY <2>7, <2>10, <2>11, SumMonotone
  <2>16. /\ SumFunctionOnSet(g, A) \in Int /\ SumFunctionOnSet(h, A) \in Int /\ SumFunctionOnSet(m, A) \in Int
         /\ SumFunctionOnSet(c, S3Upload) \in Int /\ SumFunctionOnSet(d, S3Upload) \in Int
         /\ h[a] \in Int /\ h[Owner] \in Int
    BY <2>2, <2>10, <2>11, SumType
  <2>17. QED
    BY <1>4, <2>1, <2>5, <2>8, <2>9, <2>12, <2>13, <2>14, <2>15, <2>16
<1>7. QED
  BY <1>5, <1>6

\* The family keeps to its bound: who joins brings what an account may hold.
LEMMA StepPool ==
  ASSUME TypeOK, TypeOK', RowsFit, WritersFit, NewcomersFit, AccountsHold, PoolHolds, [Next]_vars
  PROVE  PoolHolds'
<1> SUFFICES ASSUME NEW A \in SUBSET Account, A = Family'
             PROVE  Load(A)' <= PoolMost'
  BY DEF PoolHolds
<1>1. /\ Family \in SUBSET Account /\ Owner \notin members /\ Cardinality(Family) \in Nat
      /\ joins \in Nat
      /\ Cardinality(Family) - 1 <= Cardinality(FirstMembers) + joins
  BY FamilySize
<1>2. joins' \in Nat /\ joins <= joins'
  <2>1. ASSUME NEW a \in Invitee, JoinCommit(a) PROVE joins' = joins + 1
    BY <2>1 DEF JoinCommit
  <2>2. (\A a \in Invitee : ~JoinCommit(a)) => joins' = joins
    BY JoinedStay DEF past
  <2>3. QED
    BY <1>1, <2>1, <2>2
<1>5. PoolMost = MostWith(joins) /\ PoolMost' = MostWith(joins')
  <2>1. PoolMost' = MostWith(joins')
    BY DEF PoolMost, MostWith, S3Most
  <2>2. QED
    BY <2>1 DEF PoolMost
<1>6. PoolMost \in Nat /\ PoolMost' \in Nat /\ PoolMost <= PoolMost'
  BY <1>1, <1>2, <1>5, MostGrows
<1>7. Load(Family) \in Nat /\ Load(Family) <= PoolMost /\ Load(A) \in Nat /\ Load(A)' \in Nat
  BY <1>1, LoadType DEF PoolHolds
<1>8. Load(A)' <= Load(Family) => Load(A)' <= PoolMost'
  BY <1>6, <1>7
<1>9. (\A w \in Writer : ~Writes(w)) =>
        /\ writer' = writer
        /\ \A b \in Account : rowLock'[b] = rowLock[b] \/ rowLock'[b] \notin Upload
  BY OthersRows
<1>10. ASSUME NEW w \in Writer, Writes(w)
       PROVE  Load(A)' <= PoolMost'
  <2>1. A = Family
    BY <1>10 DEF Family, Writes, S3Start, LockRow, SumPool, Insert, family
  <2>2. CASE ~(SumPool(w) /\ writer'[w].at = "insert" /\ writer[w].acct \in A)
    <3>1. Load(A)' <= Load(A)
      BY <1>10, <2>2, WritesLoad
    <3>2. QED
      BY <1>8, <2>1, <3>1
  <2>3. CASE SumPool(w) /\ writer'[w].at = "insert" /\ writer[w].acct \in A
    <3>1. A = Pool(writer[w].acct)
      BY <2>1, <2>3 DEF Family, Pool, InFamily
    <3>2. Load(A)' <= writer[w].quota + (Cardinality(A) - 1) * MaxSize + S3Most
      BY <2>3, <3>1, CheckLoad
    <3>3. writer[w].quota \in Nat /\ writer[w].quota <= LargestQuota
      BY DEF TypeOK, Task
    <3>4. /\ S3Most \in Nat /\ LargestQuota \in Nat /\ MaxSize \in Nat
          /\ Cardinality(FirstMembers) \in Nat
      BY Most, MostGrows
    <3> DEFINE k == Cardinality(Family) - 1  j == joins  f == Cardinality(FirstMembers)
    <3>5. k \in Int /\ j \in Nat /\ f \in Nat /\ k <= f + j
      BY <1>1, <3>4
    <3>6. LargestQuota + (f + j) * MaxSize + S3Most <= PoolMost
      BY <1>1, <1>5, MostGrows
    <3>7. Load(A)' <= writer[w].quota + k * MaxSize + S3Most
      BY <2>1, <3>2
    <3> HIDE DEF k, j, f
    <3>8. k * MaxSize <= (f + j) * MaxSize /\ k * MaxSize \in Int /\ (f + j) * MaxSize \in Nat
      <4>1. \A x, y \in Int, c \in Nat : x <= y => x * c <= y * c /\ x * c \in Int
        OBVIOUS
      <4>2. f + j \in Nat
        BY <3>5
      <4>3. \A y, c \in Nat : y * c \in Nat
        OBVIOUS
      <4>4. QED
        BY <3>4, <3>5, <4>1, <4>2, <4>3
    <3>9. QED
      BY <1>6, <1>7, <3>3, <3>4, <3>6, <3>7, <3>8
  <2>4. QED
    BY <2>2, <2>3
<1>11. ASSUME NEW a \in Invitee, JoinCommit(a)
       PROVE  Load(A)' <= PoolMost'
  <2>1. /\ joining[a].at = "seat" /\ joining'[a].at = "none" /\ UNCHANGED used
        /\ members' = members \cup {a} /\ joins' = joins + 1
    BY <1>11 DEF JoinCommit, quotas, TypeOK
  <2>2. a \in Account \ {Owner} /\ A = Family \cup {a}
    BY <2>1 DEF Family
  <2>3. Load(A)' <= Load(A)
    <3>1. \A w \in Writer : ~Writes(w)
      <4>1. \A w \in Writer : Writes(w) => joining' = joining
        BY DEF Writes, S3Start, LockRow, SumPool, Insert, family
      <4>2. joining'[a] # joining[a]
        BY <2>1
      <4>3. QED
        BY <4>1, <4>2
    <3>2. \A b \in A : used'[b] <= used[b]
      BY <2>1 DEF TypeOK
    <3>3. QED
      BY <1>9, <3>1, <3>2, QuietLoad
  <2>4. PoolMost' = PoolMost + MaxSize + LargestQuota + S3Most
    BY <1>1, <1>5, <2>1, MostGrows
  <2>5. S3Most \in Nat /\ MaxSize \in Nat /\ LargestQuota \in Nat
    BY Most
  <2>6. CASE a \in Family
    <3>1. A = Family
      BY <2>2, <2>6
    <3>2. QED
      BY <1>8, <2>3, <3>1
  <2>7. CASE a \notin Family
    <3>1. Load(A) = Load(Family) + Load({a})
      BY <1>1, <2>2, <2>7, LoadAdd
    <3>2. Load({a}) \in Nat /\ Load({a}) <= LargestQuota + S3Most
      <4>1. Load({a}) \in Nat /\ Load({a}) <= MostOf(a)
        BY <2>2, LoadType DEF AccountsHold
      <4>2. QED
        BY <2>5, <4>1 DEF MostOf
    <3>3. QED
      BY <1>6, <1>7, <2>3, <2>4, <2>5, <3>1, <3>2
  <2>8. QED
    BY <2>6, <2>7
<1>12. CASE (\A w \in Writer : ~Writes(w)) /\ ~(\E a \in Invitee : JoinCommit(a))
  <2>1. ASSUME NEW a \in Account, Detach(a)
        PROVE  Load(A)' <= Load(Family)
    BY <1>9, <1>12, <2>1, DetachLoad
  <2>2. CASE ~(\E a \in Account : Detach(a))
    <3>1. A = Family \/ \E a \in Family : A = Family \ {a}
      <4>1. members' = members \/ \E a \in Account : members' = members \ {a}
        <5>1. ASSUME NEW s \in Sync, Plans(s)
              PROVE  members' = members \/ \E a : members' = members \ {a}
          BY <5>1 DEF Plans, ChangePlan, ReadPlan, Follow, Leave, List, EndMembership, RevokeInvites, Detach
        <5>2. ASSUME NEW a \in Invitee, Moves(a)
              PROVE  members' = members
          BY <1>12, <5>2 DEF Moves, CountSeats, CreateInvite, RevokeInvite, JoinOwn, JoinOwner,
             JoinRefused, JoinSeat
        <5>3. ASSUME NEW a \in Account, RemoveMember(a) \/ \E n \in Size : Free(a, n)
              PROVE  members' = members \/ \E b : members' = members \ {b}
          BY <5>3 DEF RemoveMember, Detach, Free, family
        <5>4. CASE UNCHANGED vars
          BY <5>4 DEF vars
        <5>5. members' = members \/ \E a : members' = members \ {a}
          BY <1>12, <5>1, <5>2, <5>3, <5>4, NextCases
        <5>6. members \subseteq Account
          BY DEF TypeOK
        <5>7. QED
          BY <5>5, <5>6
      <4>2. QED
        BY <1>1, <4>1 DEF Family
    <3>2. Load(A) <= Load(Family)
      BY <1>1, <1>7, <3>1, LoadLess
    <3>3. \A b \in A : used'[b] <= used[b]
      <4>1. used \in [Account -> Nat]
        BY DEF TypeOK
      <4>2. QED
        BY <1>12, <2>2, <4>1, OthersUsed
    <3>4. Load(A)' <= Load(A)
      BY <1>9, <1>12, <3>3, QuietLoad
    <3>5. Load(Family) \in Nat /\ Load(A) \in Nat /\ Load(A)' \in Nat
      BY <1>7
    <3>6. Load(A)' <= Load(Family)
      BY <3>2, <3>4, <3>5
    <3>7. QED
      BY <1>8, <3>6
  <2>3. QED
    BY <1>8, <2>1, <2>2
<1>13. QED
  BY <1>10, <1>11, <1>12

LEMMA InitLoad ==
  ASSUME Init, NEW A \in SUBSET Account
  PROVE  Load(A) = 0
<1>1. \A b \in Account : Holds[b] = 0
  <2>1. \A b \in Account : rowLock[b] \notin Upload
    BY DEF Init
  <2>2. QED
    BY <2>1 DEF Init, Holds, Promised
<1>2. \A w \in S3Upload : Coming(A)[w] = 0
  BY DEF Init, Coming, Idle, Writer
<1> DEFINE h == Holds  c == Coming(A)
<1>3. (\A b \in A : h[b] = 0) /\ \A w \in S3Upload : c[w] = 0
  BY <1>1, <1>2
<1>4. Load(A) = SumFunctionOnSet(h, A) + SumFunctionOnSet(c, S3Upload)
  BY DEF Load
<1> HIDE DEF h, c
<1>5. IsFiniteSet(A) /\ IsFiniteSet(S3Upload)
  BY FS_Subset
<1>6. SumFunctionOnSet(h, A) = 0 /\ SumFunctionOnSet(c, S3Upload) = 0
  BY <1>3, <1>5, SumZero
<1>7. QED
  BY <1>4, <1>6

LEMMA InitBook == Init => BookInv /\ PoolHolds
<1> SUFFICES ASSUME Init PROVE BookInv /\ PoolHolds
  OBVIOUS
<1>1. TypeOK /\ WorksForSomebody
  BY InitTypeOK, InitWorks
<1>2. RowsFit /\ WritersFit
  <2>1. \A w \in Writer : writer[w].at = "idle"
    BY DEF Init, Idle
  <2>2. \A b \in Account : rowLock[b] = None /\ None \notin Writer
    BY DEF Init, Writer
  <2>3. QED
    BY <2>1, <2>2 DEF RowsFit, WritersFit, Writer
<1>3. NewcomersFit
  BY FS_EmptySet DEF Init, NewcomersFit, Newcomer
<1>4. /\ \A A \in SUBSET Account : Load(A) = 0
      /\ \A a \in Account : {a} \in SUBSET Account
  BY InitLoad
<1>5. PoolMost \in Nat /\ \A a \in Account : MostOf(a) \in Nat
  <2>1. joins \in Nat
    BY <1>1, <1>3, FamilySize
  <2>2. PoolMost \in Nat
    BY <2>1, MostGrows DEF PoolMost
  <2>3. QED
    BY <2>2, Most DEF MostOf
<1>6. AccountsHold /\ PoolHolds
  BY <1>4, <1>5 DEF AccountsHold, PoolHolds
<1>7. QED
  BY <1>1, <1>2, <1>3, <1>6 DEF BookInv

LEMMA StepBook == BookInv /\ [Next]_vars => BookInv'
<1> SUFFICES ASSUME BookInv, [Next]_vars PROVE BookInv'
  OBVIOUS
<1>1. TypeOK' /\ WorksForSomebody'
  BY StepTypeOK, StepWorks DEF BookInv
<1>2. RowsFit' /\ WritersFit'
  BY StepRows, StepWriters DEF BookInv
<1>3. NewcomersFit' /\ AccountsHold'
  BY <1>1, StepNewcomers, StepAccounts DEF BookInv
<1>4. QED
  BY <1>1, <1>2, <1>3 DEF BookInv

\* The committed bytes are part of what is held.
LEMMA UsedIsHeld ==
  ASSUME TypeOK, NEW A \in SUBSET Account
  PROVE  SumFunctionOnSet(used, A) <= Load(A) /\ SumFunctionOnSet(used, A) \in Int
<1> DEFINE h == Holds  c == Coming(A)  u == used
<1>1. h \in [Account -> Nat] /\ c \in [S3Upload -> 0..MaxSize] /\ u \in [Account -> Nat]
  BY HoldsType DEF TypeOK
<1>2. Load(A) = SumFunctionOnSet(h, A) + SumFunctionOnSet(c, S3Upload)
  BY DEF Load
<1>3. \A b \in A : u[b] <= h[b]
  <2>1. \A b \in Account : used[b] \in Nat /\ Promised(b) \in Nat /\ h[b] = used[b] + Promised(b)
    BY HoldsType DEF TypeOK, Holds
  <2>2. QED
    BY <2>1
<1> HIDE DEF h, c, u
<1>4. IsFiniteSet(A) /\ \A b \in A : u[b] \in Int /\ h[b] \in Int
  BY <1>1, FS_Subset
<1>5. SumFunctionOnSet(u, A) <= SumFunctionOnSet(h, A)
  BY <1>3, <1>4, SumMonotone
<1>6. SumFunctionOnSet(u, A) \in Int /\ SumFunctionOnSet(h, A) \in Int /\ SumFunctionOnSet(c, S3Upload) \in Nat
  BY <1>1, LoadLaw
<1>7. SumFunctionOnSet(u, A) <= Load(A)
  BY <1>2, <1>5, <1>6
<1>8. QED
  BY <1>6, <1>7 DEF u

\* AloneOverbooking in every reachable state: an account is above its quota by one
\* upload of each S3 writer at most, also one that has joined, left and joined again.
THEOREM AloneIsBounded == Spec => []AloneOverbooking
<1>1. ASSUME BookInv
      PROVE  AloneOverbooking
  <2> SUFFICES ASSUME NEW a \in Account \ {Owner}
               PROVE  used[a] <= S3Most + IF a \in FirstMembers \cup joined \cup Changing
                                          THEN LargestQuota ELSE SoloQuota
    BY DEF AloneOverbooking
  <2>1. Load({a}) <= MostOf(a) /\ TypeOK
    BY <1>1 DEF BookInv, AccountsHold
  <2>2. MostOf(a) = S3Most + IF a \in FirstMembers \cup joined \cup Changing
                             THEN LargestQuota ELSE SoloQuota
    BY DEF MostOf, Newcomer
  <2>3. used[a] \in Int /\ SumFunctionOnSet(used, {a}) = used[a]
    BY <2>1, SumOne DEF TypeOK
  <2>4. /\ SumFunctionOnSet(used, {a}) <= Load({a})
        /\ SumFunctionOnSet(used, {a}) \in Int /\ Load({a}) \in Nat
    BY <2>1, UsedIsHeld, LoadType
  <2>5. MostOf(a) \in Nat
    BY Most DEF MostOf
  <2> HIDE DEF MostOf
  <2>6. used[a] <= MostOf(a)
    BY <2>1, <2>3, <2>4, <2>5
  <2>7. QED
    BY <2>2, <2>6
<1>2. Init => BookInv
  BY InitBook
<1>3. QED
  BY <1>1, <1>2, StepBook, PTL DEF Spec

\* PoolOverbooking in every reachable state: how far the accounts of a family together
\* can be above the largest quota, with any plans, joins, departures and new joins.
THEOREM PoolIsBounded == Spec => []PoolOverbooking
<1>1. ASSUME BookInv, PoolHolds
      PROVE  PoolOverbooking
  <2>1. TypeOK /\ Family \in SUBSET Account
    BY <1>1, FamilySize DEF BookInv
  <2>2. /\ SumFunctionOnSet(used, Family) <= Load(Family) /\ SumFunctionOnSet(used, Family) \in Int
        /\ Load(Family) <= PoolMost /\ Load(Family) \in Nat
    BY <1>1, <2>1, UsedIsHeld, LoadType DEF PoolHolds
  <2>3. PoolMost \in Nat
    BY <1>1, FamilySize, MostGrows DEF PoolMost, BookInv
  <2>4. SumFunctionOnSet(used, Family) <= PoolMost
    BY <2>2, <2>3
  <2>5. PooledUsed(Owner) = SumFunctionOnSet(used, Family)
    BY DEF PooledUsed, Pool, InFamily, Family
  <2>6. QED
    BY <2>4, <2>5 DEF PoolOverbooking, PoolMost, MostWith
<1>2. Init => BookInv /\ PoolHolds
  BY InitBook
<1>3. BookInv /\ PoolHolds /\ [Next]_vars => BookInv' /\ PoolHolds'
  <2> SUFFICES ASSUME BookInv, PoolHolds, [Next]_vars PROVE BookInv' /\ PoolHolds'
    OBVIOUS
  <2>1. BookInv'
    BY StepBook
  <2>2. PoolHolds'
    BY <2>1, StepPool DEF BookInv
  <2>3. QED
    BY <2>1, <2>2
<1>4. QED
  BY <1>1, <1>2, <1>3, PTL DEF Spec
=============================================================================
