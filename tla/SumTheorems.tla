----------------------------- MODULE SumTheorems -----------------------------
(***************************************************************************)
(* Facts about sums over finite sets, for sums as the models compute them  *)
(* with MapThenSumSet. The induction over the subsets of a finite set is   *)
(* the choice of a minimal counterexample, which the well-foundedness of   *)
(* the strict subset order gives.                                          *)
(***************************************************************************)
EXTENDS FiniteSetsExt, FiniteSetTheorems, TLAPS

\* The sum of f over S, as the models compute it with MapThenSumSet.
SumOf(f, S) == MapThenSumSet(LAMBDA x : f[x], S)

\* A non-empty set of subsets of a finite set has a minimal one: the step from
\* which every sum below is taken, in place of an induction.
LEMMA MinimalSubset ==
    ASSUME NEW S, IsFiniteSet(S), NEW Bad \in SUBSET (SUBSET S), Bad # {}
    PROVE  \E T \in Bad : \A U \in SUBSET T : U # T => U \notin Bad
  <1>1. IsWellFoundedOn(StrictSubsetOrdering(S), SUBSET S)
    BY FS_StrictSubsetOrderingWellFounded, FS_FiniteSubsetsOfFinite
  <1>2. PICK T \in Bad : \A U \in Bad : <<U, T>> \notin StrictSubsetOrdering(S)
    BY <1>1, WFMin
  <1>3. ASSUME NEW U \in SUBSET T, U # T PROVE U \notin Bad
    <2>1. <<U, T>> \in (SUBSET S) \X (SUBSET S)
      BY <1>2, <1>3
    <2>2. <<U, T>> \in StrictSubsetOrdering(S)
      BY <2>1, <1>3 DEF StrictSubsetOrdering
    <2>3. QED
      BY <1>2, <2>2
  <1>4. QED
    BY <1>2, <1>3

\* The element that MapThenSumSet adds first.
First(s) == CHOOSE x \in s : TRUE

\* g is the recursive function that MapThenSumSet unfolds.
IsIter(g, f, S) ==
    g = [s \in SUBSET S |-> IF s = {} THEN 0 ELSE f[First(s)] + g[s \ {First(s)}]]
\* The function that MapThenSumSet chooses.
Iter(f, S) == CHOOSE g : IsIter(g, f, S)

\* What the definition of MapThenSumSet says, with its parts named.
LEMMA SumIsIter == ASSUME NEW f, NEW S PROVE SumOf(f, S) = Iter(f, S)[S]
  BY Zenon DEF SumOf, MapThenSumSet, MapThenFoldSet, Iter, IsIter, First

\* A non-empty set has a first element.
LEMMA FirstIn == ASSUME NEW s, s # {} PROVE First(s) \in s
  BY DEF First

\* One unfolding of the recursion.
LEMMA IterStep ==
    ASSUME NEW f, NEW g, NEW S, IsIter(g, f, S), NEW s \in SUBSET S
    PROVE  g[s] = IF s = {} THEN 0 ELSE f[First(s)] + g[s \ {First(s)}]
  <1> DEFINE G(t) == IF t = {} THEN 0 ELSE f[First(t)] + g[t \ {First(t)}]
  <1>1. g = [t \in SUBSET S |-> G(t)]
    BY DEF IsIter
  <1> HIDE DEF G
  <1>2. g[s] = G(s)
    BY <1>1
  <1>3. QED
    BY <1>2 DEF G

\* Two such functions agree wherever both are defined.
LEMMA IterUnique ==
    ASSUME NEW f, NEW V, NEW W, NEW g, NEW h, IsFiniteSet(V),
           IsIter(g, f, V), IsIter(h, f, W), NEW s \in SUBSET V, s \subseteq W
    PROVE  g[s] = h[s]
  <1> DEFINE Bad == {t \in SUBSET V : t \subseteq W /\ g[t] # h[t]}
  <1> SUFFICES ASSUME Bad # {} PROVE FALSE
    OBVIOUS
  <1>1. PICK t \in Bad : \A u \in SUBSET t : u # t => u \notin Bad
    BY MinimalSubset
  <1>2. t # {}
    BY <1>1, IterStep
  <1> DEFINE u == t \ {First(t)}
  <1>3. u \in SUBSET t /\ u # t
    BY <1>2, FirstIn
  <1>4. g[u] = h[u]
    BY <1>1, <1>3
  <1>5. g[t] = f[First(t)] + g[u] /\ h[t] = f[First(t)] + h[u]
    <2>1. t \in SUBSET V /\ t \in SUBSET W
      BY <1>1
    <2>2. QED
      BY <2>1, <1>2, IterStep
  <1>6. QED
    BY <1>1, <1>4, <1>5

\* Over a finite set there is such a function.
LEMMA IterExists ==
    ASSUME NEW f, NEW S, IsFiniteSet(S), \A x \in S : f[x] \in Int
    PROVE  \E g \in [SUBSET S -> Int] : IsIter(g, f, S)
  <1> DEFINE Good(t) == \E g \in [SUBSET t -> Int] : IsIter(g, f, t)
             Bad == {t \in SUBSET S : ~Good(t)}
  <1> SUFFICES ASSUME Bad # {} PROVE FALSE
    OBVIOUS
  <1>1. PICK t \in Bad : \A u \in SUBSET t : u # t => u \notin Bad
    <2>1. Bad \in SUBSET (SUBSET S)
      OBVIOUS
    <2> HIDE DEF Bad
    <2>2. QED
      BY <2>1, MinimalSubset
  <1> DEFINE h == [u \in SUBSET t |-> CHOOSE g \in [SUBSET u -> Int] : IsIter(g, f, u)]
  <1>2. ASSUME NEW u \in SUBSET t, u # t
        PROVE  h[u] \in [SUBSET u -> Int] /\ IsIter(h[u], f, u) /\ IsFiniteSet(u)
    <2>1. Good(u) /\ IsFiniteSet(u)
      BY <1>1, <1>2, FS_Subset
    <2>2. QED
      BY <2>1, Zenon
  <1> DEFINE d(s) == h[s][s]
             last == IF t = {} THEN 0 ELSE f[First(t)] + d(t \ {First(t)})
             G == [s \in SUBSET t |-> IF s = t THEN last ELSE d(s)]
  <1>3. ASSUME NEW s \in SUBSET t, s # t PROVE d(s) \in Int
    BY <1>2, <1>3
  <1>4. last \in Int
    <2>1. CASE t = {}
      BY <2>1
    <2>2. CASE t # {}
      <3>1. First(t) \in t /\ t \ {First(t)} \in SUBSET t /\ t \ {First(t)} # t
        BY <2>2, FirstIn
      <3>2. f[First(t)] \in Int /\ d(t \ {First(t)}) \in Int
        BY <1>3, <3>1
      <3> HIDE DEF d
      <3>3. QED
        BY <2>2, <3>2
    <2>3. QED
      BY <2>1, <2>2
  <1>5. G \in [SUBSET t -> Int]
    <2> HIDE DEF last, d
    <2>1. QED
      BY <1>3, <1>4
  <1>6. ASSUME NEW s \in SUBSET t
        PROVE  G[s] = IF s = {} THEN 0 ELSE f[First(s)] + G[s \ {First(s)}]
    <2>1. CASE s = t
      <3>1. G[s] = last
        BY <2>1
      <3>2. t # {} => t \ {First(t)} \in SUBSET t /\ t \ {First(t)} # t
        BY FirstIn
      <3> HIDE DEF d
      <3>3. t # {} => G[t \ {First(t)}] = d(t \ {First(t)})
        <4> HIDE DEF last
        <4>1. QED
          BY <3>2
      <3> HIDE DEF G
      <3>4. QED
        BY <2>1, <3>1, <3>3
    <2>2. CASE s # t /\ s # {}
      <3> DEFINE r == s \ {First(s)}
      <3>1. r \in SUBSET s /\ r # s /\ r \in SUBSET t /\ r # t
        BY <2>2, FirstIn
      <3>2. h[s][s] = f[First(s)] + h[s][r]
        <4>1. IsIter(h[s], f, s)
          BY <1>2, <2>2
        <4> HIDE DEF h
        <4>2. QED
          BY <2>2, <4>1, IterStep
      <3>3. h[s][r] = h[r][r]
        <4>1. IsIter(h[s], f, s) /\ IsIter(h[r], f, r) /\ IsFiniteSet(s)
          BY <1>2, <2>2, <3>1
        <4> HIDE DEF h, r
        <4>2. QED
          BY <4>1, <3>1, IterUnique
      <3>4. G[s] = d(s) /\ G[r] = d(r)
        <4> HIDE DEF d, last, r
        <4>1. QED
          BY <2>2, <3>1
      <3> HIDE DEF G, h
      <3>5. QED
        BY <2>2, <3>2, <3>3, <3>4
    <2>3. CASE s # t /\ s = {}
      <3>1. h[s][s] = 0
        <4>1. IsIter(h[s], f, s)
          BY <1>2, <2>3
        <4> HIDE DEF h
        <4>2. QED
          BY <2>3, <4>1, IterStep
      <3>2. G[s] = d(s)
        <4> HIDE DEF d, last
        <4>1. QED
          BY <2>3
      <3> HIDE DEF G, h
      <3>3. QED
        BY <2>3, <3>1, <3>2
    <2>4. QED
      BY <2>1, <2>2, <2>3
  <1>7. IsIter(G, f, t)
    <2>1. G \in [SUBSET t -> Int]
      BY <1>5
    <2> HIDE DEF G
    <2> DEFINE F(s) == IF s = {} THEN 0 ELSE f[First(s)] + G[s \ {First(s)}]
    <2>2. \A s \in SUBSET t : G[s] = F(s)
      BY <1>6
    <2> HIDE DEF F
    <2>3. G = [s \in SUBSET t |-> F(s)]
      BY <2>1, <2>2
    <2>4. QED
      BY <2>3 DEF F, IsIter
  <1>8. QED
    BY <1>1, <1>5, <1>7

\* The recursion of MapThenSumSet is well defined on a finite set of integers.
LEMMA IterDefined ==
    ASSUME NEW f, NEW S, IsFiniteSet(S), \A x \in S : f[x] \in Int
    PROVE  IsIter(Iter(f, S), f, S) /\ Iter(f, S)[S] \in Int
  <1>1. PICK g \in [SUBSET S -> Int] : IsIter(g, f, S)
    BY IterExists
  <1>2. IsIter(Iter(f, S), f, S)
    BY <1>1, Zenon DEF Iter
  <1>3. Iter(f, S)[S] = g[S]
    BY <1>1, <1>2, IterUnique
  <1>4. QED
    BY <1>1, <1>2, <1>3
------------------------------------------------------------------------------
\* The sum of nothing.
LEMMA SumEmpty == ASSUME NEW f PROVE SumOf(f, {}) = 0
  <1>1. IsIter(Iter(f, {}), f, {})
    BY FS_EmptySet, IterDefined
  <1>2. QED
    BY <1>1, SumIsIter, IterStep

\* A sum of integers is an integer.
LEMMA SumType ==
    ASSUME NEW f, NEW S, IsFiniteSet(S), \A x \in S : f[x] \in Int
    PROVE  SumOf(f, S) \in Int
  BY SumIsIter, IterDefined

\* One unfolding of a sum.
LEMMA SumFirst ==
    ASSUME NEW f, NEW S, IsFiniteSet(S), \A x \in S : f[x] \in Int, S # {}
    PROVE  SumOf(f, S) = f[First(S)] + SumOf(f, S \ {First(S)})
  <1> DEFINE T == S \ {First(S)}
  <1>1. T \subseteq S /\ IsFiniteSet(T)
    BY FS_Subset
  <1>2. IsIter(Iter(f, S), f, S) /\ IsIter(Iter(f, T), f, T)
    BY <1>1, IterDefined
  <1>3. Iter(f, S)[T] = Iter(f, T)[T]
    BY <1>1, <1>2, IterUnique
  <1>4. Iter(f, S)[S] = f[First(S)] + Iter(f, S)[T]
    BY <1>2, IterStep
  <1>5. QED
    BY <1>3, <1>4, SumIsIter

\* The order in which the elements are added does not matter.
LEMMA SumRemove ==
    ASSUME NEW f, NEW S, IsFiniteSet(S), \A x \in S : f[x] \in Int, NEW e \in S
    PROVE  SumOf(f, S) = f[e] + SumOf(f, S \ {e})
  <1> DEFINE Bad == {T \in SUBSET S : \E x \in T : SumOf(f, T) # f[x] + SumOf(f, T \ {x})}
  <1> SUFFICES ASSUME Bad # {} PROVE FALSE
    OBVIOUS
  <1>1. PICK T \in Bad : \A U \in SUBSET T : U # T => U \notin Bad
    <2>1. Bad \in SUBSET (SUBSET S)
      OBVIOUS
    <2> HIDE DEF Bad
    <2>2. QED
      BY <2>1, MinimalSubset
  <1>2. PICK x \in T : SumOf(f, T) # f[x] + SumOf(f, T \ {x})
    BY <1>1
  <1> DEFINE c == First(T)
  <1>3. T \in SUBSET S /\ IsFiniteSet(T) /\ c \in T /\ x \in T
    BY <1>1, <1>2, FS_Subset, FirstIn
  <1>4. SumOf(f, T) = f[c] + SumOf(f, T \ {c})
    BY <1>3, SumFirst
  <1>5. c # x
    BY <1>2, <1>4
  <1> HIDE DEF c
  <1>6. SumOf(f, T \ {c}) = f[x] + SumOf(f, (T \ {c}) \ {x})
    <2>1. T \ {c} \in SUBSET T /\ T \ {c} # T /\ x \in T \ {c} /\ T \ {c} \in SUBSET S
      BY <1>3, <1>5
    <2>2. QED
      BY <1>1, <2>1
  <1>7. SumOf(f, T \ {x}) = f[c] + SumOf(f, (T \ {x}) \ {c})
    <2>1. T \ {x} \in SUBSET T /\ T \ {x} # T /\ c \in T \ {x} /\ T \ {x} \in SUBSET S
      BY <1>3, <1>5
    <2>2. QED
      BY <1>1, <2>1
  <1>8. (T \ {c}) \ {x} = (T \ {x}) \ {c}
    OBVIOUS
  <1> DEFINE U == (T \ {x}) \ {c}
  <1>9. SumOf(f, U) \in Int /\ f[c] \in Int /\ f[x] \in Int
    <2>1. U \in SUBSET S /\ IsFiniteSet(U)
      BY <1>3, FS_Subset
    <2>2. QED
      BY <1>3, <2>1, SumType
  <1> HIDE DEF U
  <1>10. f[c] + (f[x] + SumOf(f, U)) = f[x] + (f[c] + SumOf(f, U))
    BY <1>9
  <1>11. QED
    BY <1>2, <1>4, <1>6, <1>7, <1>8, <1>10 DEF U

\* Sums are added term by term.
LEMMA SumPlus ==
    ASSUME NEW S, IsFiniteSet(S), NEW f, NEW g, NEW h,
           \A x \in S : f[x] \in Int /\ g[x] \in Int /\ h[x] = f[x] + g[x]
    PROVE  SumOf(h, S) = SumOf(f, S) + SumOf(g, S)
  <1> DEFINE Bad == {T \in SUBSET S : SumOf(h, T) # SumOf(f, T) + SumOf(g, T)}
  <1> SUFFICES ASSUME Bad # {} PROVE FALSE
    OBVIOUS
  <1>1. PICK T \in Bad : \A U \in SUBSET T : U # T => U \notin Bad
    <2>1. Bad \in SUBSET (SUBSET S)
      OBVIOUS
    <2> HIDE DEF Bad
    <2>2. QED
      BY <2>1, MinimalSubset
  <1>2. T # {}
    <2>1. SumOf(f, {}) = 0 /\ SumOf(g, {}) = 0 /\ SumOf(h, {}) = 0
      BY SumEmpty
    <2>2. SumOf(h, {}) = SumOf(f, {}) + SumOf(g, {})
      BY <2>1
    <2>3. SumOf(h, T) # SumOf(f, T) + SumOf(g, T)
      BY <1>1
    <2>4. QED
      BY <2>2, <2>3, Zenon
  <1> DEFINE x == First(T)
             U == T \ {x}
  <1>3. x \in T /\ U \in SUBSET T /\ U # T /\ T \in SUBSET S /\ U \in SUBSET S
    BY <1>1, <1>2, FirstIn
  <1>4. IsFiniteSet(T) /\ IsFiniteSet(U)
    BY <1>3, FS_Subset
  <1>5. SumOf(h, U) = SumOf(f, U) + SumOf(g, U)
    BY <1>1, <1>3
  <1>6. /\ f[x] \in Int /\ g[x] \in Int /\ h[x] = f[x] + g[x]
        /\ SumOf(f, U) \in Int /\ SumOf(g, U) \in Int /\ SumOf(h, U) \in Int
    BY <1>3, <1>4, SumType
  <1>7. /\ SumOf(f, T) = f[x] + SumOf(f, U) /\ SumOf(g, T) = g[x] + SumOf(g, U)
        /\ SumOf(h, T) = h[x] + SumOf(h, U)
    BY <1>2, <1>3, <1>4, SumFirst
  <1>8. SumOf(h, T) # SumOf(f, T) + SumOf(g, T)
    BY <1>1
  <1> HIDE DEF x, U
  <1>9. QED
    BY <1>5, <1>6, <1>7, <1>8

\* Sums are monotone.
LEMMA SumLeq ==
    ASSUME NEW S, IsFiniteSet(S), NEW f, NEW g,
           \A x \in S : f[x] \in Int /\ g[x] \in Int /\ f[x] <= g[x]
    PROVE  SumOf(f, S) <= SumOf(g, S)
  <1> DEFINE Bad == {T \in SUBSET S : ~(SumOf(f, T) <= SumOf(g, T))}
  <1> SUFFICES ASSUME Bad # {} PROVE FALSE
    OBVIOUS
  <1>1. PICK T \in Bad : \A U \in SUBSET T : U # T => U \notin Bad
    <2>1. Bad \in SUBSET (SUBSET S)
      OBVIOUS
    <2> HIDE DEF Bad
    <2>2. QED
      BY <2>1, MinimalSubset
  <1>2. T # {}
    <2>1. SumOf(f, {}) = 0 /\ SumOf(g, {}) = 0
      BY SumEmpty
    <2>2. SumOf(f, {}) <= SumOf(g, {})
      BY <2>1
    <2>3. ~(SumOf(f, T) <= SumOf(g, T))
      BY <1>1
    <2>4. QED
      BY <2>2, <2>3, Zenon
  <1> DEFINE x == First(T)
             U == T \ {x}
  <1>3. x \in T /\ U \in SUBSET T /\ U # T /\ T \in SUBSET S /\ U \in SUBSET S
    BY <1>1, <1>2, FirstIn
  <1>4. IsFiniteSet(T) /\ IsFiniteSet(U)
    BY <1>3, FS_Subset
  <1>5. SumOf(f, U) <= SumOf(g, U)
    BY <1>1, <1>3
  <1>6. /\ f[x] \in Int /\ g[x] \in Int /\ f[x] <= g[x]
        /\ SumOf(f, U) \in Int /\ SumOf(g, U) \in Int
    BY <1>3, <1>4, SumType
  <1>7. SumOf(f, T) = f[x] + SumOf(f, U) /\ SumOf(g, T) = g[x] + SumOf(g, U)
    BY <1>2, <1>3, <1>4, SumFirst
  <1>8. ~(SumOf(f, T) <= SumOf(g, T))
    BY <1>1
  <1> HIDE DEF x, U
  <1>9. QED
    BY <1>5, <1>6, <1>7, <1>8

\* A sum depends on its terms only.
LEMMA SumEqual ==
    ASSUME NEW S, IsFiniteSet(S), NEW f, NEW g,
           \A x \in S : f[x] \in Int /\ g[x] = f[x]
    PROVE  SumOf(f, S) = SumOf(g, S)
  <1>1. \A x \in S : /\ f[x] \in Int /\ g[x] \in Int
                     /\ f[x] <= g[x] /\ g[x] <= f[x]
    OBVIOUS
  <1>2. SumOf(f, S) \in Int /\ SumOf(g, S) \in Int
    BY <1>1, SumType
  <1>3. SumOf(f, S) <= SumOf(g, S)
    BY <1>1, SumLeq
  <1>4. SumOf(g, S) <= SumOf(f, S)
    BY <1>1, SumLeq
  <1>5. QED
    BY <1>2, <1>3, <1>4

\* When one term changes, the sum changes by as much.
LEMMA SumChange ==
    ASSUME NEW S, IsFiniteSet(S), NEW f, NEW g, NEW e \in S, NEW d \in Int,
           \A x \in S : f[x] \in Int /\ g[x] = IF x = e THEN f[x] + d ELSE f[x]
    PROVE  SumOf(g, S) = SumOf(f, S) + d
  <1>1. IsFiniteSet(S \ {e}) /\ S \ {e} \subseteq S
    BY FS_Subset
  <1>2. SumOf(f, S \ {e}) = SumOf(g, S \ {e}) /\ SumOf(f, S \ {e}) \in Int
    BY <1>1, SumEqual, SumType
  <1>3. SumOf(f, S) = f[e] + SumOf(f, S \ {e}) /\ f[e] \in Int
    BY SumRemove
  <1>4. SumOf(g, S) = g[e] + SumOf(g, S \ {e}) /\ g[e] = f[e] + d
    <2>1. \A x \in S : g[x] \in Int
      OBVIOUS
    <2>2. QED
      BY <2>1, SumRemove
  <1>5. QED
    BY <1>2, <1>3, <1>4

\* The sum of zeros.
LEMMA SumZero ==
    ASSUME NEW S, IsFiniteSet(S), NEW f, \A x \in S : f[x] = 0
    PROVE  SumOf(f, S) = 0
  <1> DEFINE sum == SumOf(f, S)
  <1>1. sum \in Int
    BY SumType
  <1>2. sum = sum + sum
    BY SumPlus
  <1> HIDE DEF sum
  <1>3. sum = 0
    BY <1>1, <1>2
  <1>4. QED
    BY <1>3 DEF sum

\* The terms outside a subset may be taken to be zero.
LEMMA SumRestrict ==
    ASSUME NEW S, IsFiniteSet(S), NEW T \in SUBSET S, NEW f, NEW g,
           \A x \in T : f[x] \in Int,
           \A x \in S : g[x] = IF x \in T THEN f[x] ELSE 0
    PROVE  SumOf(g, S) = SumOf(f, T)
  <1> DEFINE Bad == {U \in SUBSET S : SumOf(g, U) # SumOf(f, U \cap T)}
  <1> SUFFICES ASSUME Bad # {} PROVE FALSE
    <2>1. S \cap T = T
      OBVIOUS
    <2>2. QED
      BY <2>1
  <1>1. PICK U \in Bad : \A V \in SUBSET U : V # U => V \notin Bad
    <2>1. Bad \in SUBSET (SUBSET S)
      OBVIOUS
    <2> HIDE DEF Bad
    <2>2. QED
      BY <2>1, MinimalSubset
  <1>2. U # {}
    <2>1. SumOf(f, {}) = 0 /\ SumOf(g, {}) = 0 /\ {} \cap T = {}
      BY SumEmpty
    <2>2. QED
      BY <1>1, <2>1
  <1> DEFINE x == First(U)
             V == U \ {x}
  <1>3. x \in U /\ V \in SUBSET U /\ V # U /\ U \in SUBSET S /\ V \in SUBSET S /\ x \in S
    BY <1>1, <1>2, FirstIn
  <1>4. IsFiniteSet(U) /\ IsFiniteSet(U \cap T)
    BY <1>3, FS_Subset
  <1>5. SumOf(g, V) = SumOf(f, V \cap T)
    BY <1>1, <1>3
  <1>6. \A y \in S : g[y] \in Int
    OBVIOUS
  <1>7. SumOf(g, U) = g[x] + SumOf(g, V) /\ SumOf(g, V) \in Int
    <2>1. IsFiniteSet(V)
      BY <1>3, FS_Subset
    <2>2. QED
      BY <1>2, <1>3, <1>4, <1>6, <2>1, SumFirst, SumType
  <1> HIDE DEF x
  <1>8. SumOf(g, U) = SumOf(f, U \cap T)
    <2>1. CASE x \in T
      <3>1. (U \cap T) \ {x} = V \cap T /\ x \in U \cap T
        BY <1>3, <2>1
      <3>2. SumOf(f, U \cap T) = f[x] + SumOf(f, V \cap T)
        BY <1>4, <3>1, SumRemove
      <3>3. g[x] = f[x]
        BY <1>3, <2>1
      <3>4. QED
        BY <1>5, <1>7, <3>2, <3>3
    <2>2. CASE x \notin T
      <3>1. U \cap T = V \cap T
        BY <1>3, <2>2
      <3>2. g[x] = 0
        BY <1>3, <2>2
      <3> HIDE DEF V
      <3>3. SumOf(g, U) = SumOf(g, V)
        BY <1>7, <3>2
      <3>4. QED
        BY <1>5, <3>1, <3>3
    <2>3. QED
      BY <2>1, <2>2
  <1>9. QED
    BY <1>1, <1>8

\* Sums of quantities: of a subset, no more than of the whole, and none negative.
LEMMA SumSubset ==
    ASSUME NEW S, IsFiniteSet(S), NEW T \in SUBSET S, NEW f, \A x \in S : f[x] \in Nat
    PROVE  0 <= SumOf(f, T) /\ SumOf(f, T) <= SumOf(f, S)
  <1> DEFINE zero == [x \in S |-> 0]
             g == [x \in S |-> IF x \in T THEN f[x] ELSE 0]
  <1>1. /\ \A x \in S : g[x] = IF x \in T THEN f[x] ELSE 0
        /\ \A x \in S : /\ f[x] \in Int /\ g[x] \in Int /\ zero[x] \in Int /\ zero[x] = 0
                         /\ zero[x] <= g[x] /\ g[x] <= f[x]
    OBVIOUS
  <1> HIDE DEF g, zero
  <1>2. SumOf(g, S) = SumOf(f, T)
    BY <1>1, SumRestrict
  <1>3. SumOf(zero, S) <= SumOf(g, S) /\ SumOf(g, S) <= SumOf(f, S)
    BY <1>1, SumLeq
  <1>4. SumOf(zero, S) = 0
    BY <1>1, SumZero
  <1>5. QED
    BY <1>2, <1>3, <1>4

\* What is added up in two parts.
LEMMA SumUnion ==
    ASSUME NEW S, IsFiniteSet(S), NEW T, IsFiniteSet(T), S \cap T = {}, NEW f,
           \A x \in S \cup T : f[x] \in Int
    PROVE  SumOf(f, S \cup T) = SumOf(f, S) + SumOf(f, T)
  <1> DEFINE U == S \cup T
             g == [x \in U |-> IF x \in S THEN f[x] ELSE 0]
             h == [x \in U |-> IF x \in T THEN f[x] ELSE 0]
  <1>1. IsFiniteSet(U) /\ S \in SUBSET U /\ T \in SUBSET U
    BY FS_Union
  <1>2. /\ \A x \in U : g[x] = IF x \in S THEN f[x] ELSE 0
        /\ \A x \in U : h[x] = IF x \in T THEN f[x] ELSE 0
        /\ \A x \in S : f[x] \in Int
        /\ \A x \in T : f[x] \in Int
        /\ \A x \in U : g[x] \in Int /\ h[x] \in Int /\ f[x] = g[x] + h[x]
    OBVIOUS
  <1> HIDE DEF g, h, U
  <1>3. SumOf(g, U) = SumOf(f, S) /\ SumOf(h, U) = SumOf(f, T)
    BY <1>1, <1>2, SumRestrict
  <1>4. SumOf(f, U) = SumOf(g, U) + SumOf(h, U)
    BY <1>1, <1>2, SumPlus
  <1>5. QED
    BY <1>3, <1>4 DEF U

\* A sum with one more element.
LEMMA SumAdd ==
    ASSUME NEW S, IsFiniteSet(S), NEW f, NEW e, e \notin S, \A x \in S \cup {e} : f[x] \in Int
    PROVE  SumOf(f, S \cup {e}) = SumOf(f, S) + f[e]
  <1> DEFINE T == S \cup {e}
  <1>1. IsFiniteSet(T)
    BY FS_AddElement
  <1>2. e \in T /\ T \ {e} = S /\ f[e] \in Int /\ \A x \in T : f[x] \in Int
    OBVIOUS
  <1>3. SumOf(f, S) \in Int
    BY SumType
  <1> HIDE DEF T
  <1>4. SumOf(f, T) = f[e] + SumOf(f, T \ {e})
    BY <1>1, <1>2, SumRemove
  <1>5. SumOf(f, T \ {e}) = SumOf(f, S)
    BY <1>2
  <1>6. SumOf(f, T) = SumOf(f, S) + f[e]
    BY <1>2, <1>3, <1>4, <1>5
  <1>7. QED
    BY <1>6 DEF T
==============================================================================
