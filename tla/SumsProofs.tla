---------------------------- MODULE SumsProofs ----------------------------
(***************************************************************************)
(* Facts about SumOver on any finite set: it is additive, depends on the   *)
(* summands only, and follows a change of one summand.                     *)
(*                                                                         *)
(* SumOver rests on MapThenFoldSet, a recursive function over the subsets  *)
(* of the set it sums over.  That this recursion has a solution and only   *)
(* one is shown by taking a least subset on which it would fail            *)
(* (MinimalSubset); the library's induction over finite sets takes an      *)
(* operator as its parameter and is not used.                              *)
(***************************************************************************)
EXTENDS Sums, FiniteSetTheorems, WellFoundedInduction, TLAPS

Pick(T) == CHOOSE x \in T : TRUE

\* g is the function that SumOver's recursion over the subsets of S defines.
IsSum(f, g, S) ==
    g = [T \in SUBSET S |->
            IF T = {} THEN 0 ELSE f[Pick(T)] + g[T \ {Pick(T)}]]

(* SumOver is defined through the CHOOSE of such a function. *)
LEMMA SumOverDef ==
    ASSUME NEW f, NEW S
    PROVE  SumOver(f, S) = (CHOOSE g : IsSum(f, g, S))[S]
BY DEF SumOver, MapThenSumSet, MapThenFoldSet, IsSum, Pick

(* Induction over finite sets: a non-empty set of subsets has a least one. *)
LEMMA MinimalSubset ==
    ASSUME NEW S, IsFiniteSet(S), NEW B, B \subseteq SUBSET S, B # {}
    PROVE  \E U \in B : \A V \in SUBSET U : V # U => V \notin B
<1>1. B \subseteq FiniteSubsetsOf(S)
  BY FS_Subset DEF FiniteSubsetsOf
<1>2. PICK U \in B : \A V \in B : <<V, U>> \notin StrictSubsetOrdering(S)
  BY <1>1, FS_StrictSubsetOrderingWellFounded, WFMin
<1>3. \A V \in SUBSET U : V # U => V \notin B
  BY <1>2 DEF StrictSubsetOrdering
<1>. QED
  BY <1>2, <1>3

(* A function takes a least value on a non-empty part of a finite set. *)
LEMMA LeastValue ==
    ASSUME NEW W, IsFiniteSet(W), NEW f \in [W -> Nat], NEW T \in SUBSET W, T # {}
    PROVE  \E w \in T : \A v \in T : f[w] <= f[v]
<1>. DEFINE B == {U \in SUBSET T :
                    U # {} /\ \E w \in T : U = {v \in T : f[v] <= f[w]}}
<1>1. B \subseteq SUBSET T /\ IsFiniteSet(T)
  BY FS_Subset
<1>2. PICK w0 \in T : TRUE
  OBVIOUS
<1>3. {v \in T : f[v] <= f[w0]} \in B
  BY <1>2
<1>4. PICK U \in B : \A V \in SUBSET U : V # U => V \notin B
  <2>. HIDE DEF B
  <2>. QED
    BY <1>1, <1>3, MinimalSubset
<1>5. PICK w \in T : U = {v \in T : f[v] <= f[w]}
  BY <1>4
<1>6. SUFFICES ASSUME NEW v \in T, f[v] < f[w]
               PROVE  FALSE
  BY <1>5
<1>. DEFINE V == {x \in T : f[x] <= f[v]}
<1>7. V \in SUBSET U /\ w \in U /\ w \notin V /\ v \in V
  BY <1>5, <1>6
<1>8. V \in B
  BY <1>7
<1>. QED
  BY <1>4, <1>7, <1>8

(* The maximum of a non-empty set of bounded naturals is one of them. *)
LEMMA MaxIsIn ==
    ASSUME NEW n \in Nat, NEW S \in SUBSET (0..n), S # {}
    PROVE  Max(S) \in S
<1>. DEFINE W == 0..n
            f == [k \in W |-> n - k]
<1>1. IsFiniteSet(W)
  <2>1. 0 \in Int /\ n \in Int
    OBVIOUS
  <2>. QED
    BY <2>1, FS_Interval
<1>2. f \in [W -> Nat] /\ S \in SUBSET W
  OBVIOUS
<1>0. \A k \in S : f[k] = n - k /\ k \in 0..n
  OBVIOUS
<1>3. PICK w \in S : \A v \in S : f[w] <= f[v]
  <2>. HIDE DEF W, f
  <2>. QED
    BY <1>1, <1>2, LeastValue
<1>4. \A v \in S : w >= v
  <2>. HIDE DEF f
  <2>. QED
    BY <1>0, <1>3
<1>. QED
  BY <1>4 DEF Max

(* What IsSum says at one set. *)
LEMMA IsSumAt ==
    ASSUME NEW f, NEW g, NEW S, IsSum(f, g, S), NEW T \in SUBSET S
    PROVE  g[T] = IF T = {} THEN 0 ELSE f[Pick(T)] + g[T \ {Pick(T)}]
BY DEF IsSum

LEMMA PickIn ==
    ASSUME NEW T, T # {}
    PROVE  Pick(T) \in T
BY DEF Pick

(* Two such functions on the same finite set are equal. *)
LEMMA IsSumUnique ==
    ASSUME NEW f, NEW g, NEW h, NEW S, IsFiniteSet(S), IsSum(f, g, S), IsSum(f, h, S)
    PROVE  g = h
<1>. DEFINE B == {T \in SUBSET S : g[T] # h[T]}
<1>1. SUFFICES ASSUME B # {}
               PROVE  FALSE
  <2>1. \A T \in SUBSET S : g[T] = h[T]
    BY <1>1
  <2>. QED
    BY <2>1 DEF IsSum
<1>2. PICK U \in B : \A V \in SUBSET U : V # U => V \notin B
  <2>. HIDE DEF B
  <2>1. B \subseteq SUBSET S
    BY DEF B
  <2>. QED
    BY <1>1, <2>1, MinimalSubset
<1>3. CASE U = {}
  BY <1>2, <1>3, IsSumAt
<1>4. CASE U # {}
  <2>1. Pick(U) \in U
    BY <1>4, PickIn
  <2>2. g[U \ {Pick(U)}] = h[U \ {Pick(U)}]
    BY <1>2, <2>1
  <2>3. g[U] = f[Pick(U)] + g[U \ {Pick(U)}]
    BY <1>2, <1>4, IsSumAt
  <2>4. h[U] = f[Pick(U)] + h[U \ {Pick(U)}]
    BY <1>2, <1>4, IsSumAt
  <2>. QED
    BY <1>2, <2>2, <2>3, <2>4
<1>. QED
  BY <1>3, <1>4

(* Such a function restricts to the subsets. *)
LEMMA IsSumRestrict ==
    ASSUME NEW f, NEW g, NEW S, IsSum(f, g, S), NEW V \in SUBSET S
    PROVE  IsSum(f, [T \in SUBSET V |-> g[T]], V)
<1>. DEFINE h == [T \in SUBSET V |-> g[T]]
<1>1. \A T \in SUBSET V :
          h[T] = IF T = {} THEN 0 ELSE f[Pick(T)] + h[T \ {Pick(T)}]
  <2>. SUFFICES ASSUME NEW T \in SUBSET V
                PROVE  h[T] = IF T = {} THEN 0 ELSE f[Pick(T)] + h[T \ {Pick(T)}]
    OBVIOUS
  <2>1. T \in SUBSET S /\ T \ {Pick(T)} \in SUBSET V
    OBVIOUS
  <2>2. g[T] = IF T = {} THEN 0 ELSE f[Pick(T)] + g[T \ {Pick(T)}]
    BY <2>1, IsSumAt
  <2>3. h[T] = g[T] /\ h[T \ {Pick(T)}] = g[T \ {Pick(T)}]
    BY <2>1
  <2>. QED
    BY <2>2, <2>3
<1>. QED
  BY <1>1 DEF IsSum

(* There is such a function on every finite set. *)
LEMMA IsSumExists ==
    ASSUME NEW f, NEW S, IsFiniteSet(S)
    PROVE  \E g : IsSum(f, g, S)
<1>. DEFINE B == {U \in SUBSET S : ~ \E g : IsSum(f, g, U)}
            G(V) == CHOOSE g : IsSum(f, g, V)
<1>1. SUFFICES ASSUME B # {}
               PROVE  FALSE
  BY <1>1
<1>2. PICK U \in B : \A V \in SUBSET U : V # U => V \notin B
  <2>. HIDE DEF B
  <2>1. B \subseteq SUBSET S
    BY DEF B
  <2>. QED
    BY <1>1, <2>1, MinimalSubset
<1>. DEFINE h == [T \in SUBSET U |->
                    IF T = {} THEN 0 ELSE f[Pick(T)] + G(T \ {Pick(T)})[T \ {Pick(T)}]]
<1>3. \A V \in SUBSET U : V # U => IsSum(f, G(V), V)
  BY <1>2
<1>4. \A V \in SUBSET U : V # U => h[V] = G(V)[V]
  <2>. SUFFICES ASSUME NEW V \in SUBSET U, V # U
                PROVE  h[V] = G(V)[V]
    OBVIOUS
  <2>. DEFINE W == V \ {Pick(V)}
  <2>0. IsFiniteSet(V) /\ IsFiniteSet(W)
    BY FS_Subset
  <2>1. IsSum(f, G(V), V)
    BY <1>3
  <2>2. CASE V = {}
    <3>1. G(V)[V] = 0
      <4>. HIDE DEF G
      <4>. QED BY <2>1, <2>2, IsSumAt
    <3>. QED
      BY <3>1, <2>2
  <2>3. CASE V # {}
    <3>1. W \in SUBSET V /\ W \in SUBSET U /\ W # U
      BY <2>3, PickIn
    <3>2. IsSum(f, G(W), W)
      BY <3>1, <1>3
    <3>3. IsSum(f, [T \in SUBSET W |-> G(V)[T]], W)
      <4>. HIDE DEF G, W
      <4>. QED BY <3>1, <2>1, IsSumRestrict
    <3>4. [T \in SUBSET W |-> G(V)[T]] = G(W)
      <4>. HIDE DEF G, W
      <4>. QED BY <3>2, <3>3, <2>0, IsSumUnique
    <3>5. G(V)[W] = G(W)[W]
      <4>. HIDE DEF G, W
      <4>1. [T \in SUBSET W |-> G(V)[T]][W] = G(V)[W]
        OBVIOUS
      <4>. QED BY <3>4, <4>1
    <3>6. G(V)[V] = f[Pick(V)] + G(V)[W]
      <4>. HIDE DEF G
      <4>. QED BY <2>1, <2>3, IsSumAt
    <3>7. h[V] = f[Pick(V)] + G(W)[W]
      <4>. HIDE DEF G
      <4>. QED BY <2>3
    <3>. QED
      BY <3>5, <3>6, <3>7
  <2>. QED
    BY <2>2, <2>3
<1>5. \A T \in SUBSET U :
          h[T] = IF T = {} THEN 0 ELSE f[Pick(T)] + h[T \ {Pick(T)}]
  <2>. SUFFICES ASSUME NEW T \in SUBSET U
                PROVE  h[T] = IF T = {} THEN 0 ELSE f[Pick(T)] + h[T \ {Pick(T)}]
    OBVIOUS
  <2>. HIDE DEF G
  <2>1. CASE T = {}
    BY <2>1
  <2>2. CASE T # {}
    <3>1. T \ {Pick(T)} \in SUBSET U /\ T \ {Pick(T)} # U
      BY <2>2, PickIn
    <3>2. h[T \ {Pick(T)}] = G(T \ {Pick(T)})[T \ {Pick(T)}]
      <4>. HIDE DEF h
      <4>. QED BY <3>1, <1>4
    <3>. QED
      BY <2>2, <3>2
  <2>. QED
    BY <2>1, <2>2
<1>6. IsSum(f, h, U)
  <2>. HIDE DEF G
  <2>. QED BY <1>5 DEF IsSum
<1>. QED
  <2>. HIDE DEF h
  <2>. QED BY <1>2, <1>6

----------------------------------------------------------------------------
(* What SumOver satisfies; nothing below looks at its definition again. *)

(* So SumOver satisfies the recursion on every subset of a finite set. *)
LEMMA SumOverIsSum ==
    ASSUME NEW f, NEW S, IsFiniteSet(S)
    PROVE  \E g : IsSum(f, g, S) /\ \A T \in SUBSET S : SumOver(f, T) = g[T]
<1>1. PICK g : g = CHOOSE h : IsSum(f, h, S)
  OBVIOUS
<1>2. IsSum(f, g, S)
  BY <1>1, IsSumExists
<1>3. ASSUME NEW T \in SUBSET S
      PROVE  SumOver(f, T) = g[T]
  <2>1. PICK k : k = CHOOSE h : IsSum(f, h, T)
    OBVIOUS
  <2>2. IsFiniteSet(T)
    BY FS_Subset
  <2>3. IsSum(f, k, T)
    BY <2>1, <2>2, IsSumExists
  <2>4. k = [R \in SUBSET T |-> g[R]]
    BY <1>2, <2>2, <2>3, IsSumRestrict, IsSumUnique
  <2>. QED
    BY <2>1, <2>4, SumOverDef
<1>. QED
  BY <1>2, <1>3

(* The empty sum is 0. *)
THEOREM SumOverEmpty ==
    ASSUME NEW f
    PROVE  SumOver(f, {}) = 0
<1>1. PICK g : IsSum(f, g, {}) /\ \A T \in SUBSET {} : SumOver(f, T) = g[T]
  BY SumOverIsSum, FS_EmptySet
<1>. QED
  BY <1>1, IsSumAt

(* A sum is one element, and the sum of the rest. *)
LEMMA SumOverPick ==
    ASSUME NEW f, NEW S, IsFiniteSet(S), S # {}
    PROVE  SumOver(f, S) = f[Pick(S)] + SumOver(f, S \ {Pick(S)})
<1>1. PICK g : IsSum(f, g, S) /\ \A T \in SUBSET S : SumOver(f, T) = g[T]
  BY SumOverIsSum
<1>2. S \ {Pick(S)} \in SUBSET S /\ S \in SUBSET S
  OBVIOUS
<1>3. g[S] = f[Pick(S)] + g[S \ {Pick(S)}]
  BY <1>1, <1>2, IsSumAt
<1>. QED
  BY <1>1, <1>2, <1>3

(* A sum of natural numbers is a natural number. *)
THEOREM SumOverNat ==
    ASSUME NEW f, NEW S, IsFiniteSet(S), \A x \in S : f[x] \in Nat
    PROVE  SumOver(f, S) \in Nat
<1>. DEFINE B == {T \in SUBSET S : SumOver(f, T) \notin Nat}
<1>1. SUFFICES ASSUME B # {}
               PROVE  FALSE
  BY <1>1
<1>2. PICK U \in B : \A V \in SUBSET U : V # U => V \notin B
  <2>. HIDE DEF B
  <2>1. B \subseteq SUBSET S
    BY DEF B
  <2>. QED
    BY <1>1, <2>1, MinimalSubset
<1>3. IsFiniteSet(U)
  BY FS_Subset
<1>4. U # {}
  <2>1. SumOver(f, {}) \in Nat
    BY SumOverEmpty
  <2>2. SumOver(f, U) \notin Nat
    BY <1>2
  <2>. QED
    BY <2>1, <2>2
<1>5. Pick(U) \in U
  BY <1>4, PickIn
<1>6. SumOver(f, U \ {Pick(U)}) \in Nat
  BY <1>2, <1>5
<1>7. f[Pick(U)] \in Nat
  BY <1>5
<1>8. SumOver(f, U) = f[Pick(U)] + SumOver(f, U \ {Pick(U)})
  BY <1>3, <1>4, SumOverPick
<1>. QED
  BY <1>2, <1>6, <1>7, <1>8

(* Any element may be taken out of the sum, not only the one that the      *)
(* recursion takes.                                                        *)
THEOREM SumOverRemove ==
    ASSUME NEW f, NEW S, IsFiniteSet(S), \A y \in S : f[y] \in Nat, NEW x \in S
    PROVE  SumOver(f, S) = f[x] + SumOver(f, S \ {x})
<1>. DEFINE B == {T \in SUBSET S :
                    \E z \in T : SumOver(f, T) # f[z] + SumOver(f, T \ {z})}
<1>1. SUFFICES ASSUME B # {}
               PROVE  FALSE
  BY <1>1
<1>2. PICK U \in B : \A V \in SUBSET U : V # U => V \notin B
  <2>. HIDE DEF B
  <2>1. B \subseteq SUBSET S
    BY DEF B
  <2>. QED
    BY <1>1, <2>1, MinimalSubset
<1>3. PICK z \in U : SumOver(f, U) # f[z] + SumOver(f, U \ {z})
  BY <1>2
<1>. DEFINE c == Pick(U)
<1>4. c \in U /\ IsFiniteSet(U)
  BY <1>3, PickIn, FS_Subset
<1>5. SumOver(f, U) = f[c] + SumOver(f, U \ {c})
  BY <1>3, <1>4, SumOverPick
<1>6. c # z
  BY <1>3, <1>5
<1>. HIDE DEF c
<1>7. SumOver(f, U \ {c}) = f[z] + SumOver(f, (U \ {c}) \ {z})
  <2>1. U \ {c} \in SUBSET U /\ U \ {c} # U /\ z \in U \ {c}
    BY <1>4, <1>6
  <2>. QED
    BY <1>2, <2>1
<1>8. SumOver(f, U \ {z}) = f[c] + SumOver(f, (U \ {z}) \ {c})
  <2>1. U \ {z} \in SUBSET U /\ U \ {z} # U /\ c \in U \ {z}
    BY <1>4, <1>6
  <2>. QED
    BY <1>2, <2>1
<1>9. (U \ {c}) \ {z} = (U \ {z}) \ {c}
  OBVIOUS
<1>10. SumOver(f, (U \ {z}) \ {c}) \in Nat /\ f[c] \in Nat /\ f[z] \in Nat
  <2>1. IsFiniteSet((U \ {z}) \ {c})
    BY <1>4, FS_Subset
  <2>2. \A y \in (U \ {z}) \ {c} : f[y] \in Nat
    BY <1>2
  <2>3. SumOver(f, (U \ {z}) \ {c}) \in Nat
    BY <2>1, <2>2, SumOverNat
  <2>. QED
    BY <1>2, <1>4, <2>3
<1>11. \A a, b, r \in Nat : a + (b + r) = b + (a + r)
  OBVIOUS
<1>. QED
  <2>1. SumOver(f, U) = f[c] + (f[z] + SumOver(f, (U \ {z}) \ {c}))
    BY <1>5, <1>7, <1>9
  <2>2. SumOver(f, U) = f[z] + (f[c] + SumOver(f, (U \ {z}) \ {c}))
    BY <2>1, <1>10, <1>11
  <2>. QED
    BY <1>3, <1>8, <2>2

(* The sum depends on the values of f on S only. *)
THEOREM SumOverEqual ==
    ASSUME NEW f, NEW g, NEW S, IsFiniteSet(S), \A x \in S : f[x] = g[x]
    PROVE  SumOver(f, S) = SumOver(g, S)
<1>. DEFINE B == {T \in SUBSET S : SumOver(f, T) # SumOver(g, T)}
<1>1. SUFFICES ASSUME B # {}
               PROVE  FALSE
  BY <1>1
<1>2. PICK U \in B : \A V \in SUBSET U : V # U => V \notin B
  <2>. HIDE DEF B
  <2>1. B \subseteq SUBSET S
    BY DEF B
  <2>. QED
    BY <1>1, <2>1, MinimalSubset
<1>3. IsFiniteSet(U)
  BY FS_Subset
<1>4. U # {}
  BY <1>2, SumOverEmpty
<1>5. Pick(U) \in U
  BY <1>4, PickIn
<1>6. SumOver(f, U \ {Pick(U)}) = SumOver(g, U \ {Pick(U)})
  BY <1>2, <1>5
<1>7. SumOver(f, U) = f[Pick(U)] + SumOver(f, U \ {Pick(U)})
  BY <1>3, <1>4, SumOverPick
<1>8. SumOver(g, U) = g[Pick(U)] + SumOver(g, U \ {Pick(U)})
  BY <1>3, <1>4, SumOverPick
<1>. QED
  BY <1>2, <1>5, <1>6, <1>7, <1>8

(* Changing f at one element changes the sum by as much. *)
THEOREM SumOverChange ==
    ASSUME NEW f, NEW g, NEW S, IsFiniteSet(S), NEW x \in S,
           \A y \in S : f[y] \in Nat /\ g[y] \in Nat,
           \A y \in S \ {x} : f[y] = g[y]
    PROVE  SumOver(g, S) = SumOver(f, S) - f[x] + g[x]
<1>1. IsFiniteSet(S \ {x})
  BY FS_Subset
<1>2. SumOver(f, S \ {x}) = SumOver(g, S \ {x})
  BY <1>1, SumOverEqual
<1>3. SumOver(f, S \ {x}) \in Nat
  BY <1>1, SumOverNat
<1>4. SumOver(f, S) = f[x] + SumOver(f, S \ {x})
  BY SumOverRemove
<1>5. SumOver(g, S) = g[x] + SumOver(g, S \ {x})
  BY SumOverRemove
<1>. QED
  BY <1>2, <1>3, <1>4, <1>5

(* A sum of zeros is zero. *)
THEOREM SumOverZero ==
    ASSUME NEW f, NEW S, IsFiniteSet(S), \A x \in S : f[x] = 0
    PROVE  SumOver(f, S) = 0
<1>. DEFINE B == {T \in SUBSET S : SumOver(f, T) # 0}
<1>1. SUFFICES ASSUME B # {}
               PROVE  FALSE
  BY <1>1
<1>2. PICK U \in B : \A V \in SUBSET U : V # U => V \notin B
  <2>. HIDE DEF B
  <2>1. B \subseteq SUBSET S
    BY DEF B
  <2>. QED
    BY <1>1, <2>1, MinimalSubset
<1>3. IsFiniteSet(U) /\ U \in SUBSET S
  BY FS_Subset
<1>4. U # {}
  BY <1>2, SumOverEmpty
<1>5. Pick(U) \in U
  BY <1>4, PickIn
<1>6. SumOver(f, U \ {Pick(U)}) = 0
  BY <1>2, <1>3, <1>5
<1>7. SumOver(f, U) = f[Pick(U)] + SumOver(f, U \ {Pick(U)})
  BY <1>3, <1>4, SumOverPick
<1>. QED
  BY <1>2, <1>3, <1>5, <1>6, <1>7

(* What is zero outside T may be added up over T alone.                    *)
THEOREM SumOverWithin ==
    ASSUME NEW f, NEW g, NEW S, NEW T \in SUBSET S, IsFiniteSet(S),
           \A x \in S : g[x] \in Nat,
           \A x \in T : f[x] = g[x],
           \A x \in S \ T : g[x] = 0
    PROVE  SumOver(f, T) = SumOver(g, S)
<1>. DEFINE B == {U \in SUBSET S : T \subseteq U /\ SumOver(g, U) # SumOver(g, T)}
<1>1. IsFiniteSet(T)
  BY FS_Subset
<1>2. SumOver(f, T) = SumOver(g, T)
  BY <1>1, SumOverEqual
<1>3. SUFFICES ASSUME B # {}
               PROVE  FALSE
  BY <1>2, <1>3
<1>4. PICK U \in B : \A V \in SUBSET U : V # U => V \notin B
  <2>. HIDE DEF B
  <2>1. B \subseteq SUBSET S
    BY DEF B
  <2>. QED
    BY <1>3, <2>1, MinimalSubset
<1>5. PICK x \in U : x \notin T
  <2>1. T \subseteq U /\ U # T
    BY <1>4
  <2>. QED
    BY <2>1
<1>6. SumOver(g, U \ {x}) = SumOver(g, T)
  BY <1>4, <1>5
<1>7. IsFiniteSet(U) /\ \A y \in U : g[y] \in Nat
  BY <1>4, FS_Subset
<1>8. SumOver(g, U) = g[x] + SumOver(g, U \ {x})
  BY <1>7, SumOverRemove
<1>9. SumOver(g, U \ {x}) \in Nat
  <2>1. IsFiniteSet(U \ {x})
    BY <1>7, FS_Subset
  <2>. QED
    BY <1>7, <2>1, SumOverNat
<1>10. g[x] = 0
  BY <1>4, <1>5
<1>. QED
  BY <1>4, <1>6, <1>8, <1>9, <1>10

(* Sums add up summand by summand.                                         *)
THEOREM SumOverPlus ==
    ASSUME NEW f, NEW g, NEW h, NEW S, IsFiniteSet(S),
           \A x \in S : f[x] \in Nat /\ g[x] \in Nat /\ h[x] = f[x] + g[x]
    PROVE  SumOver(h, S) = SumOver(f, S) + SumOver(g, S)
<1>. DEFINE B == {T \in SUBSET S : SumOver(h, T) # SumOver(f, T) + SumOver(g, T)}
<1>1. SUFFICES ASSUME B # {}
               PROVE  FALSE
  BY <1>1
<1>2. PICK U \in B : \A V \in SUBSET U : V # U => V \notin B
  <2>. HIDE DEF B
  <2>1. B \subseteq SUBSET S
    BY DEF B
  <2>. QED
    BY <1>1, <2>1, MinimalSubset
<1>. DEFINE x == Pick(U)
            R == U \ {x}
<1>3. IsFiniteSet(U) /\ IsFiniteSet(R) /\ R \in SUBSET S /\ U \in SUBSET S
  BY FS_Subset
<1>4. U # {}
  <2>1. SumOver(f, {}) = 0 /\ SumOver(g, {}) = 0 /\ SumOver(h, {}) = 0
    BY SumOverEmpty
  <2>2. SumOver(h, U) # SumOver(f, U) + SumOver(g, U)
    BY <1>2
  <2>3. ASSUME U = {} PROVE FALSE
    BY <2>1, <2>2, <2>3
  <2>. QED
    BY <2>3
<1>5. x \in U /\ x \in S
  BY <1>3, <1>4, PickIn
<1>6. SumOver(h, R) = SumOver(f, R) + SumOver(g, R)
  BY <1>2, <1>5
<1>7. /\ SumOver(f, U) = f[x] + SumOver(f, R)
      /\ SumOver(g, U) = g[x] + SumOver(g, R)
      /\ SumOver(h, U) = h[x] + SumOver(h, R)
  BY <1>3, <1>4, SumOverPick
<1>8. SumOver(f, R) \in Nat /\ SumOver(g, R) \in Nat
  <2>1. \A y \in R : f[y] \in Nat /\ g[y] \in Nat
    BY <1>3
  <2>. QED
    BY <1>3, <2>1, SumOverNat
<1>9. f[x] \in Nat /\ g[x] \in Nat /\ h[x] = f[x] + g[x]
  BY <1>5
<1>10. SumOver(h, U) # SumOver(f, U) + SumOver(g, U)
  BY <1>2
<1>. HIDE DEF x, R
<1>. QED
  BY <1>6, <1>7, <1>8, <1>9, <1>10

(* Summands that are at most p/w times others add up to at most p/w times  *)
(* their sum.                                                              *)
THEOREM SumOverScaled ==
    ASSUME NEW f, NEW g, NEW S, NEW p \in Nat, NEW w \in Nat, IsFiniteSet(S),
           \A x \in S : f[x] \in Nat /\ g[x] \in Nat /\ f[x] * w <= g[x] * p
    PROVE  SumOver(f, S) * w <= SumOver(g, S) * p
<1>. DEFINE B == {T \in SUBSET S : ~(SumOver(f, T) * w <= SumOver(g, T) * p)}
<1>1. SUFFICES ASSUME B # {}
               PROVE  FALSE
  BY <1>1
<1>2. PICK U \in B : \A V \in SUBSET U : V # U => V \notin B
  <2>. HIDE DEF B
  <2>1. B \subseteq SUBSET S
    BY DEF B
  <2>. QED
    BY <1>1, <2>1, MinimalSubset
<1>. DEFINE x == Pick(U)
            R == U \ {x}
<1>3. IsFiniteSet(U) /\ IsFiniteSet(R) /\ R \in SUBSET S /\ U \in SUBSET S
  BY FS_Subset
<1>4. U # {}
  <2>1. SumOver(f, {}) = 0 /\ SumOver(g, {}) = 0
    BY SumOverEmpty
  <2>2. ~(SumOver(f, U) * w <= SumOver(g, U) * p)
    BY <1>2
  <2>3. 0 * w <= 0 * p
    OBVIOUS
  <2>4. ASSUME U = {} PROVE FALSE
    BY <2>1, <2>2, <2>3, <2>4
  <2>. QED
    BY <2>4
<1>5. x \in U /\ x \in S
  BY <1>3, <1>4, PickIn
<1>6. SumOver(f, R) * w <= SumOver(g, R) * p
  BY <1>2, <1>5
<1>7. /\ SumOver(f, U) = f[x] + SumOver(f, R)
      /\ SumOver(g, U) = g[x] + SumOver(g, R)
  BY <1>3, <1>4, SumOverPick
<1>8. SumOver(f, R) \in Nat /\ SumOver(g, R) \in Nat
  <2>1. \A y \in R : f[y] \in Nat /\ g[y] \in Nat
    BY <1>3
  <2>. QED
    BY <1>3, <2>1, SumOverNat
<1>9. f[x] \in Nat /\ g[x] \in Nat /\ f[x] * w <= g[x] * p
  BY <1>5
<1>10. ~(SumOver(f, U) * w <= SumOver(g, U) * p)
  BY <1>2
<1>11. \A a, b, c, d \in Nat :
          a * w <= b * p /\ c * w <= d * p => (a + c) * w <= (b + d) * p
  OBVIOUS
<1>. HIDE DEF x, R
<1>. QED
  BY <1>6, <1>7, <1>8, <1>9, <1>10, <1>11

(* A sum is the sum over a part and the sum over the rest. *)
THEOREM SumOverSplit ==
    ASSUME NEW f, NEW S, NEW T \in SUBSET S, IsFiniteSet(S), \A x \in S : f[x] \in Nat
    PROVE  SumOver(f, S) = SumOver(f, T) + SumOver(f, S \ T)
<1>. DEFINE g == [x \in S |-> IF x \in T THEN f[x] ELSE 0]
            h == [x \in S |-> IF x \in T THEN 0 ELSE f[x]]
            R == S \ T
<1>1. \A x \in S : g[x] \in Nat /\ h[x] \in Nat /\ f[x] = g[x] + h[x]
  OBVIOUS
<1>2. /\ \A x \in T : f[x] = g[x]
      /\ \A x \in S \ T : g[x] = 0
      /\ \A x \in R : f[x] = h[x]
      /\ \A x \in S \ R : h[x] = 0
      /\ R \in SUBSET S
  OBVIOUS
<1>. HIDE DEF g, h, R
<1>3. SumOver(f, S) = SumOver(g, S) + SumOver(h, S)
  BY <1>1, SumOverPlus
<1>4. SumOver(f, T) = SumOver(g, S)
  BY <1>1, <1>2, SumOverWithin
<1>5. SumOver(f, R) = SumOver(h, S)
  BY <1>1, <1>2, SumOverWithin
<1>. QED
  BY <1>3, <1>4, <1>5 DEF R

(* A sum of equal terms. *)
THEOREM SumOverConstant ==
    ASSUME NEW f, NEW S, NEW p \in Nat, IsFiniteSet(S), \A x \in S : f[x] = p
    PROVE  SumOver(f, S) = Cardinality(S) * p
<1>. DEFINE B == {T \in SUBSET S : SumOver(f, T) # Cardinality(T) * p}
<1>1. SUFFICES ASSUME B # {}
               PROVE  FALSE
  BY <1>1
<1>2. PICK U \in B : \A V \in SUBSET U : V # U => V \notin B
  <2>. HIDE DEF B
  <2>1. B \subseteq SUBSET S
    BY DEF B
  <2>. QED
    BY <1>1, <2>1, MinimalSubset
<1>. DEFINE x == Pick(U)
            R == U \ {x}
<1>3. IsFiniteSet(U) /\ U \in SUBSET S
  BY FS_Subset
<1>4. SumOver(f, U) # Cardinality(U) * p
  BY <1>2
<1>5. U # {}
  <2>1. SumOver(f, {}) = 0 /\ Cardinality({}) = 0 /\ 0 * p = 0
    BY SumOverEmpty, FS_EmptySet
  <2>. QED
    BY <1>4, <2>1
<1>6. x \in U /\ f[x] = p
  BY <1>3, <1>5, PickIn
<1>7. SumOver(f, R) = Cardinality(R) * p
  BY <1>2, <1>3, <1>6
<1>8. SumOver(f, U) = f[x] + SumOver(f, R)
  BY <1>3, <1>5, SumOverPick
<1>9. Cardinality(R) = Cardinality(U) - 1 /\ Cardinality(U) \in Nat
  BY <1>3, <1>6, FS_RemoveElement, FS_CardinalityType
<1>10. \A n \in Int : p + (n - 1) * p = n * p
  OBVIOUS
<1>. HIDE DEF x, R
<1>. QED
  BY <1>4, <1>6, <1>7, <1>8, <1>9, <1>10
=============================================================================
