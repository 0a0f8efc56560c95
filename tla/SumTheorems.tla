---------------------------- MODULE SumTheorems -----------------------------
(***************************************************************************)
(* Sums of functions over finite sets, as the community modules define     *)
(* them: what adding, changing and bounding an entry does to a sum.  They  *)
(* are proved by looking at a least counterexample, since the order that   *)
(* strict inclusion gives the finite sets is well founded.                 *)
(***************************************************************************)
EXTENDS Integers, FiniteSets, FiniteSetTheorems, WellFoundedInduction, Functions, Folds, TLAPS

-----------------------------------------------------------------------------
(* Induction, as a least element of a set of counterexamples.              *)

LEMMA LeastSet ==
    ASSUME NEW S, IsFiniteSet(S), NEW T, T \subseteq SUBSET S, T # {}
    PROVE  \E s \in T : \A t \in T : t \subseteq s => t = s
<1>1. IsWellFoundedOn(StrictSubsetOrdering(S), FiniteSubsetsOf(S))
  BY FS_StrictSubsetOrderingWellFounded
<1>2. T \subseteq FiniteSubsetsOf(S)
  BY FS_Subset DEF FiniteSubsetsOf
<1>3. \E x \in T : \A y \in T : ~ (<<y, x>> \in StrictSubsetOrdering(S))
  BY <1>1, <1>2, WFMin
<1> QED BY <1>2, <1>3 DEF StrictSubsetOrdering, FiniteSubsetsOf

LEMMA LeastNat == ASSUME NEW T, T \subseteq Nat, T # {} PROVE \E m \in T : \A k \in T : m <= k
<1>1. IsWellFoundedOn({ss \in Nat \X Nat : ss[1] < ss[2]}, Nat)
  BY NatLessThanWellFounded DEF OpToRel
<1>2. PICK x \in T : \A y \in T : ~ (<<y, x>> \in {ss \in Nat \X Nat : ss[1] < ss[2]})
  BY <1>1, WFMin
<1>3. ASSUME NEW y \in T PROVE x <= y
  <2>1. ~ (<<y, x>> \in {ss \in Nat \X Nat : ss[1] < ss[2]}) BY <1>2
  <2>2. x \in Nat /\ y \in Nat OBVIOUS
  <2>3. ~(y < x) BY <2>1, <2>2
  <2> QED BY <2>2, <2>3
<1> QED BY <1>3

-----------------------------------------------------------------------------
(* The recursive function behind a sum.                                    *)

Any(s) == CHOOSE x \in s : TRUE
\* g adds up f over the subsets of S.
Adds(g, f, S) == g = [s \in SUBSET S |-> IF s = {} THEN 0 ELSE f[Any(s)] + g[s \ {Any(s)}]]

LEMMA AnyOf == ASSUME NEW s, s # {} PROVE Any(s) \in s
  BY DEF Any

LEMMA SumIsChosen == ASSUME NEW f, NEW S PROVE SumFunctionOnSet(f, S) = (CHOOSE g : Adds(g, f, S))[S]
  BY DEF SumFunctionOnSet, FoldFunctionOnSet, MapThenFoldSet, Adds, Any

\* It has one value for a set, over whichever larger set it was made.
LEMMA AddsAgree ==
    ASSUME NEW f, NEW S, IsFiniteSet(S), NEW R, NEW g, Adds(g, f, S), NEW h, Adds(h, f, R),
           NEW s, s \subseteq S, s \subseteq R
    PROVE  g[s] = h[s]
<1> DEFINE Bad == {t \in SUBSET S : t \subseteq R /\ g[t] # h[t]}
<1>1. ASSUME Bad # {} PROVE FALSE
  <2>1. PICK t \in Bad : \A u \in Bad : u \subseteq t => u = t
    <3>1. Bad \subseteq SUBSET S
      OBVIOUS
    <3> HIDE DEF Bad
    <3> QED BY <1>1, <3>1, LeastSet
  <2>2. t \subseteq S /\ t \subseteq R /\ g[t] # h[t]
    OBVIOUS
  <2>3. /\ g[t] = IF t = {} THEN 0 ELSE f[Any(t)] + g[t \ {Any(t)}]
        /\ h[t] = IF t = {} THEN 0 ELSE f[Any(t)] + h[t \ {Any(t)}]
    BY <2>2 DEF Adds
  <2>4. t # {}
    BY <2>2, <2>3
  <2>5. t \ {Any(t)} # t
    BY <2>4, AnyOf
  <2>6. t \ {Any(t)} \notin Bad
    BY <2>1, <2>5
  <2>7. g[t \ {Any(t)}] = h[t \ {Any(t)}]
    BY <2>2, <2>6
  <2> QED BY <2>2, <2>3, <2>7
<1> QED BY <1>1

LEMMA AddsExists == ASSUME NEW f, NEW S, IsFiniteSet(S) PROVE \E g : Adds(g, f, S)
<1> DEFINE Sum(s) == SumFunctionOnSet(f, s)
           Bad == {s \in SUBSET S : ~ \E g : Adds(g, f, s)}
<1>1. ASSUME Bad # {} PROVE FALSE
  <2>1. PICK s \in Bad : \A t \in Bad : t \subseteq s => t = s
    <3>1. Bad \subseteq SUBSET S
      OBVIOUS
    <3> HIDE DEF Bad
    <3> QED BY <1>1, <3>1, LeastSet
  <2>2. ASSUME NEW t, t \subseteq s, t # s PROVE \E h : Adds(h, f, t) /\ Sum(t) = h[t]
    <3>1. t \notin Bad
      BY <2>1, <2>2
    <3>2. \E h : Adds(h, f, t)
      BY <2>2, <3>1
    <3> QED BY <3>2, SumIsChosen
  <2>3. ASSUME NEW t, t \subseteq s, t # s
        PROVE  Sum(t) = IF t = {} THEN 0 ELSE f[Any(t)] + Sum(t \ {Any(t)})
    <3>1. PICK h : Adds(h, f, t) /\ Sum(t) = h[t]
      BY <2>2, <2>3
    <3>2. Sum(t) = IF t = {} THEN 0 ELSE f[Any(t)] + h[t \ {Any(t)}]
      BY <3>1 DEF Adds
    <3>3. CASE t # {}
      <4>1. t \ {Any(t)} \subseteq s /\ t \ {Any(t)} # s
        BY <2>3
      <4>2. PICK k : Adds(k, f, t \ {Any(t)}) /\ Sum(t \ {Any(t)}) = k[t \ {Any(t)}]
        BY <2>2, <4>1
      <4>3. IsFiniteSet(t)
        BY <2>3, FS_Subset
      <4>4. h[t \ {Any(t)}] = k[t \ {Any(t)}]
        BY <3>1, <4>2, <4>3, AddsAgree
      <4> QED BY <3>2, <4>2, <4>4
    <3> QED BY <3>2, <3>3
  <2> DEFINE g == [t \in SUBSET s |-> IF t = {} THEN 0 ELSE f[Any(t)] + Sum(t \ {Any(t)})]
  <2>4. ASSUME NEW t \in SUBSET s, t # {} PROVE g[t \ {Any(t)}] = Sum(t \ {Any(t)})
    <3>1. t \ {Any(t)} \subseteq s /\ t \ {Any(t)} # s
      BY <2>4, AnyOf
    <3> HIDE DEF Sum
    <3> QED BY <2>3, <3>1
  <2>5. Adds(g, f, s)
    <3> HIDE DEF Sum
    <3> QED BY <2>4 DEF Adds
  <2> QED BY <2>5
<1>2. S \notin Bad
  BY <1>1
<1> QED BY <1>2

\* A sum is that of all but one, and the one.
LEMMA SumRecurs ==
    ASSUME NEW f, NEW S, IsFiniteSet(S)
    PROVE  SumFunctionOnSet(f, S) =
               IF S = {} THEN 0 ELSE f[Any(S)] + SumFunctionOnSet(f, S \ {Any(S)})
<1> DEFINE T == S \ {Any(S)}
<1>1. PICK g : Adds(g, f, S) /\ SumFunctionOnSet(f, S) = g[S]
  BY AddsExists, SumIsChosen
<1>2. IsFiniteSet(T)
  BY FS_Subset
<1>3. PICK h : Adds(h, f, T) /\ SumFunctionOnSet(f, T) = h[T]
  BY <1>2, AddsExists, SumIsChosen
<1>4. g[T] = h[T]
  BY <1>1, <1>3, AddsAgree
<1>5. g[S] = IF S = {} THEN 0 ELSE f[Any(S)] + g[T]
  BY <1>1 DEF Adds
<1> QED BY <1>1, <1>3, <1>4, <1>5

-----------------------------------------------------------------------------
(* What a sum of naturals does. *)

LEMMA SumType ==
    ASSUME NEW f, NEW S, IsFiniteSet(S), \A x \in S : f[x] \in Nat
    PROVE  SumFunctionOnSet(f, S) \in Nat
<1> DEFINE Bad == {s \in SUBSET S : SumFunctionOnSet(f, s) \notin Nat}
<1>1. ASSUME Bad # {} PROVE FALSE
  <2>1. PICK s \in Bad : \A t \in Bad : t \subseteq s => t = s
    <3>1. Bad \subseteq SUBSET S
      OBVIOUS
    <3> HIDE DEF Bad
    <3> QED BY <1>1, <3>1, LeastSet
  <2>2. SumFunctionOnSet(f, s) = IF s = {} THEN 0 ELSE f[Any(s)] + SumFunctionOnSet(f, s \ {Any(s)})
    BY SumRecurs, FS_Subset
  <2>3. s # {} /\ Any(s) \in s
    BY <2>2, AnyOf
  <2>4. s \ {Any(s)} \notin Bad
    BY <2>1, <2>3
  <2>5. SumFunctionOnSet(f, s \ {Any(s)}) \in Nat /\ f[Any(s)] \in Nat
    BY <2>3, <2>4
  <2> QED BY <2>2, <2>3, <2>5
<1>2. S \notin Bad
  BY <1>1
<1> QED BY <1>2

\* Any entry can be taken out of a sum.
LEMMA SumRemove ==
    ASSUME NEW f, NEW S, IsFiniteSet(S), \A y \in S : f[y] \in Nat, NEW x \in S
    PROVE  SumFunctionOnSet(f, S) = f[x] + SumFunctionOnSet(f, S \ {x})
<1> DEFINE Sum(s) == SumFunctionOnSet(f, s)
           Bad == {s \in SUBSET S : \E y \in s : Sum(s) # f[y] + Sum(s \ {y})}
<1>1. ASSUME Bad # {} PROVE FALSE
  <2>1. PICK s \in Bad : \A t \in Bad : t \subseteq s => t = s
    <3>1. Bad \subseteq SUBSET S
      OBVIOUS
    <3> HIDE DEF Bad
    <3> QED BY <1>1, <3>1, LeastSet
  <2>2. PICK y \in s : Sum(s) # f[y] + Sum(s \ {y})
    OBVIOUS
  <2> DEFINE z == Any(s)
             u == s \ {y}
             v == s \ {z}
             w == s \ {y, z}
  <2>3. IsFiniteSet(s) /\ IsFiniteSet(u) /\ IsFiniteSet(v) /\ IsFiniteSet(w)
    BY FS_Subset
  <2>4. z \in s
    BY AnyOf
  <2>5. Sum(s) = f[z] + Sum(v)
    BY <2>3, SumRecurs
  <2>6. y # z
    BY <2>2, <2>5
  <2>7. u \notin Bad /\ v \notin Bad /\ u \subseteq S /\ v \subseteq S
    BY <2>1, <2>4
  <2>8. z \in u /\ u \ {z} = w /\ y \in v /\ v \ {y} = w
    BY <2>4, <2>6
  <2>9. Sum(u) = f[z] + Sum(w) /\ Sum(v) = f[y] + Sum(w)
    <3> HIDE DEF Sum, u, v, w, z
    <3> QED BY <2>7, <2>8
  <2>10. f[z] \in Nat /\ f[y] \in Nat /\ Sum(w) \in Nat
    BY <2>3, <2>4, SumType
  <2>11. Sum(s) = f[y] + Sum(u)
    <3> HIDE DEF Sum, u, v, w, z
    <3> QED BY <2>5, <2>9, <2>10
  <2> QED BY <2>2, <2>11
<1>2. S \notin Bad
  BY <1>1
<1> QED BY <1>2

\* Only the entries of the set count.
LEMMA SumSame ==
    ASSUME NEW f, NEW g, NEW S, IsFiniteSet(S), \A x \in S : f[x] = g[x]
    PROVE  SumFunctionOnSet(f, S) = SumFunctionOnSet(g, S)
<1> DEFINE Bad == {s \in SUBSET S : SumFunctionOnSet(f, s) # SumFunctionOnSet(g, s)}
<1>1. ASSUME Bad # {} PROVE FALSE
  <2>1. PICK s \in Bad : \A t \in Bad : t \subseteq s => t = s
    <3>1. Bad \subseteq SUBSET S
      OBVIOUS
    <3> HIDE DEF Bad
    <3> QED BY <1>1, <3>1, LeastSet
  <2>2. /\ SumFunctionOnSet(f, s) = IF s = {} THEN 0 ELSE f[Any(s)] + SumFunctionOnSet(f, s \ {Any(s)})
        /\ SumFunctionOnSet(g, s) = IF s = {} THEN 0 ELSE g[Any(s)] + SumFunctionOnSet(g, s \ {Any(s)})
    BY SumRecurs, FS_Subset
  <2>3. s # {} /\ Any(s) \in s
    BY <2>2, AnyOf
  <2>4. s \ {Any(s)} \notin Bad
    BY <2>1, <2>3
  <2>5. SumFunctionOnSet(f, s \ {Any(s)}) = SumFunctionOnSet(g, s \ {Any(s)}) /\ f[Any(s)] = g[Any(s)]
    BY <2>3, <2>4
  <2> QED BY <2>2, <2>3, <2>5
<1>2. S \notin Bad
  BY <1>1
<1> QED BY <1>2

\* A set cut in two.
LEMMA SumSplit ==
    ASSUME NEW f, NEW S, NEW T, IsFiniteSet(S), IsFiniteSet(T), S \cap T = {}, \A x \in S \cup T : f[x] \in Nat
    PROVE  SumFunctionOnSet(f, S \cup T) = SumFunctionOnSet(f, S) + SumFunctionOnSet(f, T)
<1> DEFINE Sum(s) == SumFunctionOnSet(f, s)
           Bad == {s \in SUBSET T : Sum(S \cup s) # Sum(S) + Sum(s)}
<1>1. ASSUME Bad # {} PROVE FALSE
  <2>1. PICK s \in Bad : \A t \in Bad : t \subseteq s => t = s
    <3>1. Bad \subseteq SUBSET T
      OBVIOUS
    <3> HIDE DEF Bad
    <3> QED BY <1>1, <3>1, LeastSet
  <2>2. CASE s = {}
    <3>1. S \cup s = S /\ Sum(s) = 0 /\ Sum(S) \in Nat
      BY <2>2, SumRecurs, SumType, FS_EmptySet
    <3>2. Sum(S \cup s) # Sum(S) + Sum(s)
      OBVIOUS
    <3> HIDE DEF Sum
    <3> QED BY <3>1, <3>2
  <2>3. ASSUME NEW x \in s PROVE FALSE
    <3> DEFINE t == s \ {x}
    <3>1. Sum(S \cup t) = Sum(S) + Sum(t)
      <4>1. t \notin Bad
        BY <2>1
      <4> QED BY <4>1
    <3>2. IsFiniteSet(s) /\ IsFiniteSet(t) /\ IsFiniteSet(S \cup s)
      BY FS_Subset, FS_Union
    <3>3. (S \cup s) \ {x} = S \cup t /\ x \in S \cup s /\ S \cup s \subseteq S \cup T
      OBVIOUS
    <3>4. Sum(S \cup s) = f[x] + Sum((S \cup s) \ {x})
      BY <3>2, <3>3, SumRemove
    <3>5. Sum(s) = f[x] + Sum(t)
      BY <3>2, <3>3, SumRemove
    <3>6. f[x] \in Nat /\ Sum(S) \in Nat /\ Sum(t) \in Nat
      BY <3>2, <3>3, SumType
    <3>7. Sum(S \cup s) # Sum(S) + Sum(s)
      OBVIOUS
    <3> HIDE DEF Sum, t
    <3> QED BY <3>1, <3>3, <3>4, <3>5, <3>6, <3>7
  <2> QED BY <2>2, <2>3
<1>2. T \notin Bad
  BY <1>1
<1> QED BY <1>2

\* Two functions that differ in one entry, over a set.
LEMMA SumChangeOn ==
    ASSUME NEW f, NEW g, NEW S, IsFiniteSet(S), NEW x \in S,
           \A y \in S : f[y] \in Nat /\ g[y] \in Nat, \A y \in S \ {x} : f[y] = g[y]
    PROVE  SumFunctionOnSet(g, S) + f[x] = SumFunctionOnSet(f, S) + g[x]
<1> DEFINE rest == SumFunctionOnSet(f, S \ {x})
<1>1. SumFunctionOnSet(f, S) = f[x] + rest
  BY SumRemove
<1>2. SumFunctionOnSet(g, S) = g[x] + SumFunctionOnSet(g, S \ {x})
  BY SumRemove
<1>3. IsFiniteSet(S \ {x})
  BY FS_Subset
<1>4. SumFunctionOnSet(g, S \ {x}) = rest
  BY <1>3, SumSame
<1>5. rest \in Nat
  BY <1>3, SumType
<1>6. f[x] \in Nat /\ g[x] \in Nat
  OBVIOUS
<1> HIDE DEF rest
<1> QED BY <1>1, <1>2, <1>4, <1>5, <1>6

\* Entries that are 0, or come from different places of another sum, add up
\* to no more than it.
LEMMA SumMoved ==
    ASSUME NEW f, NEW g, NEW S, IsFiniteSet(S), NEW T, IsFiniteSet(T), NEW from,
           \A x \in S : f[x] \in Nat,
           \A x \in T : g[x] = 0 \/ (from[x] \in S /\ g[x] = f[from[x]]),
           \A x, y \in T : from[x] = from[y] => x = y
    PROVE  SumFunctionOnSet(g, T) <= SumFunctionOnSet(f, S)
<1> DEFINE Fits(t, s) == \A x \in t : g[x] = 0 \/ (from[x] \in s /\ g[x] = f[from[x]])
           Bad == {t \in SUBSET T : \E s \in SUBSET S :
                      Fits(t, s) /\ ~(SumFunctionOnSet(g, t) <= SumFunctionOnSet(f, s))}
<1>1. ASSUME Bad # {} PROVE FALSE
  <2>1. PICK t \in Bad : \A u \in Bad : u \subseteq t => u = t
    <3>1. Bad \subseteq SUBSET T
      OBVIOUS
    <3> HIDE DEF Bad
    <3> QED BY <1>1, <3>1, LeastSet
  <2>2. PICK s \in SUBSET S : Fits(t, s) /\ ~(SumFunctionOnSet(g, t) <= SumFunctionOnSet(f, s))
    OBVIOUS
  <2> DEFINE x == Any(t)
             u == t \ {x}
  <2>3. IsFiniteSet(s) /\ IsFiniteSet(t) /\ t \subseteq T
    BY FS_Subset
  <2>4. SumFunctionOnSet(f, s) \in Nat
    BY <2>3, SumType
  <2>5. SumFunctionOnSet(g, t) = IF t = {} THEN 0 ELSE g[x] + SumFunctionOnSet(g, u)
    BY <2>3, SumRecurs
  <2>6. t # {} /\ x \in t
    BY <2>2, <2>4, <2>5, AnyOf
  <2>7. u \notin Bad /\ u \subseteq T
    BY <2>1, <2>6
  <2>8. \A y \in u : g[y] \in Nat
    BY <2>2
  <2>9. SumFunctionOnSet(g, u) \in Nat
    BY <2>3, <2>8, SumType, FS_Subset
  <2>10. CASE g[x] = 0
    <3>1. Fits(u, s)
      BY <2>2
    <3>2. SumFunctionOnSet(g, u) <= SumFunctionOnSet(f, s)
      BY <2>7, <3>1
    <3> QED BY <2>2, <2>5, <2>6, <2>9, <2>10, <3>2
  <2>11. CASE from[x] \in s /\ g[x] = f[from[x]]
    <3> DEFINE v == s \ {from[x]}
    <3>1. Fits(u, v)
      <4> SUFFICES ASSUME NEW y \in u, g[y] # 0 PROVE from[y] \in v /\ g[y] = f[from[y]]
        OBVIOUS
      <4>1. from[y] \in s /\ g[y] = f[from[y]] /\ y # x /\ y \in T /\ x \in T
        BY <2>2, <2>3, <2>6
      <4> QED BY <4>1
    <3>2. SumFunctionOnSet(g, u) <= SumFunctionOnSet(f, v)
      BY <2>7, <3>1
    <3>3. SumFunctionOnSet(f, s) = f[from[x]] + SumFunctionOnSet(f, v)
      BY <2>3, <2>11, SumRemove
    <3>4. SumFunctionOnSet(f, v) \in Nat /\ f[from[x]] \in Nat
      BY <2>3, <2>11, SumType, FS_Subset
    <3> HIDE DEF u, v, x
    <3> QED BY <2>2, <2>5, <2>6, <2>9, <2>11, <3>2, <3>3, <3>4
  <2> QED BY <2>2, <2>6, <2>10, <2>11
<1>2. T \notin Bad
  BY <1>1
<1> QED BY <1>2

-----------------------------------------------------------------------------
(* The same for the sum of a whole function. *)

LEMMA SumFunctionIs == ASSUME NEW D, NEW f \in [D -> Nat] PROVE SumFunction(f) = SumFunctionOnSet(f, D)
  BY DEF SumFunction

LEMMA SumFunctionType ==
    ASSUME NEW D, IsFiniteSet(D), NEW f \in [D -> Nat]
    PROVE  SumFunction(f) \in Nat
  BY SumFunctionIs, SumType

\* Two functions that differ in one entry.
LEMMA SumChange ==
    ASSUME NEW D, IsFiniteSet(D), NEW f \in [D -> Nat], NEW g \in [D -> Nat], NEW x \in D,
           \A y \in D \ {x} : f[y] = g[y]
    PROVE  SumFunction(g) + f[x] = SumFunction(f) + g[x]
  BY SumFunctionIs, SumChangeOn

LEMMA SumOfZeros == ASSUME NEW D, IsFiniteSet(D), NEW f \in [D -> Nat], \A x \in D : f[x] = 0
    PROVE SumFunction(f) = 0
<1> DEFINE Bad == {s \in SUBSET D : SumFunctionOnSet(f, s) # 0}
<1>1. ASSUME Bad # {} PROVE FALSE
  <2>1. PICK s \in Bad : \A t \in Bad : t \subseteq s => t = s
    <3>1. Bad \subseteq SUBSET D
      OBVIOUS
    <3> HIDE DEF Bad
    <3> QED BY <1>1, <3>1, LeastSet
  <2>2. SumFunctionOnSet(f, s) = IF s = {} THEN 0 ELSE f[Any(s)] + SumFunctionOnSet(f, s \ {Any(s)})
    BY SumRecurs, FS_Subset
  <2>3. s # {} /\ Any(s) \in s
    BY <2>2, AnyOf
  <2>4. s \ {Any(s)} \notin Bad
    BY <2>1, <2>3
  <2> QED BY <2>2, <2>3, <2>4
<1>2. D \notin Bad
  BY <1>1
<1> QED BY <1>2, SumFunctionIs

\* No entry above c: no sum above c for each.
LEMMA SumBounded ==
    ASSUME NEW f, NEW S, IsFiniteSet(S), NEW c \in Nat, \A x \in S : f[x] \in 0..c
    PROVE  SumFunctionOnSet(f, S) <= Cardinality(S) * c
<1> DEFINE Bad == {s \in SUBSET S : ~(SumFunctionOnSet(f, s) <= Cardinality(s) * c)}
<1>1. ASSUME Bad # {} PROVE FALSE
  <2>1. PICK s \in Bad : \A t \in Bad : t \subseteq s => t = s
    <3>1. Bad \subseteq SUBSET S
      OBVIOUS
    <3> HIDE DEF Bad
    <3> QED BY <1>1, <3>1, LeastSet
  <2> DEFINE t == s \ {Any(s)}
  <2>2. SumFunctionOnSet(f, s) = IF s = {} THEN 0 ELSE f[Any(s)] + SumFunctionOnSet(f, t)
    BY SumRecurs, FS_Subset
  <2>3. IsFiniteSet(s) /\ IsFiniteSet(t)
    BY FS_Subset
  <2>4. s # {} /\ Any(s) \in s
    <3>1. ASSUME s = {} PROVE SumFunctionOnSet(f, s) <= Cardinality(s) * c
      BY <2>2, <3>1, FS_EmptySet
    <3> QED BY <3>1, AnyOf
  <2>5. SumFunctionOnSet(f, t) <= Cardinality(t) * c
    <3>1. t \notin Bad
      BY <2>1, <2>4
    <3> QED BY <3>1
  <2>6. Cardinality(t) = Cardinality(s) - 1 /\ Cardinality(s) \in Nat /\ Cardinality(t) \in Nat
    BY <2>3, <2>4, FS_RemoveElement, FS_CardinalityType
  <2>7. f[Any(s)] \in 0..c /\ SumFunctionOnSet(f, t) \in Nat
    BY <2>3, <2>4, SumType
  <2>8. SumFunctionOnSet(f, s) = f[Any(s)] + SumFunctionOnSet(f, t)
    BY <2>2, <2>4
  <2>9. Cardinality(s) * c = Cardinality(t) * c + c
    <3> HIDE DEF t
    <3> QED BY <2>6
  <2>10. SumFunctionOnSet(f, s) <= Cardinality(t) * c + c
    <3>1. Cardinality(t) * c \in Nat
      BY <2>6
    <3> HIDE DEF t
    <3> QED BY <2>5, <2>7, <2>8, <3>1
  <2> QED BY <2>9, <2>10
<1>2. S \notin Bad
  BY <1>1
<1> QED BY <1>2

\* A function that is 0 at one place, and nowhere above c.
LEMMA SumOfOthers ==
    ASSUME NEW D, IsFiniteSet(D), NEW f \in [D -> Nat], NEW c \in Nat, NEW x \in D,
           f[x] = 0, \A y \in D : f[y] <= c
    PROVE  SumFunction(f) <= (Cardinality(D) - 1) * c
<1>1. IsFiniteSet(D \ {x}) /\ Cardinality(D \ {x}) = Cardinality(D) - 1
  BY FS_RemoveElement
<1>2. SumFunction(f) = f[x] + SumFunctionOnSet(f, D \ {x})
  BY SumFunctionIs, SumRemove
<1>3. SumFunctionOnSet(f, D \ {x}) <= Cardinality(D \ {x}) * c
  BY <1>1, SumBounded
<1>4. SumFunctionOnSet(f, D \ {x}) \in Nat
  BY <1>1, SumType
<1> QED BY <1>1, <1>2, <1>3, <1>4

=============================================================================
