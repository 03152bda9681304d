----------------------------- MODULE SumTheorems -----------------------------
(***************************************************************************)
(* Sums over finite sets: what the proofs about payments, the ledger,      *)
(* generated documents, assets and stock need to know of SumFunctionOnSet. *)
(*                                                                         *)
(* It is defined by a recursion over sets.  That the recursion has a value *)
(* is shown here by induction over the subsets of a finite set, which are  *)
(* well-founded under inclusion; what is proved by induction is given as   *)
(* the set F of the subsets it holds of.                                   *)
(***************************************************************************)
EXTENDS Integers, FiniteSets, Functions, FiniteSetTheorems, WellFoundedInduction, TLAPS

-----------------------------------------------------------------------------
(* Induction *)

\* From all smaller sets to a set.
LEMMA StrongSetInduction ==
    ASSUME NEW S, IsFiniteSet(S), NEW F,
           \A T \in SUBSET S : (\A U \in SUBSET T : U # T => U \in F) => T \in F
    PROVE  \A T \in SUBSET S : T \in F
<1> DEFINE Missing == {T \in SUBSET S : T \notin F}
<1> SUFFICES ASSUME Missing # {} PROVE FALSE
  BY Zenon
<1>1. FiniteSubsetsOf(S) = SUBSET S
  BY FS_FiniteSubsetsOfFinite
<1>2. IsWellFoundedOn(StrictSubsetOrdering(S), SUBSET S)
  <2> HIDE DEF Missing
  <2>1. IsWellFoundedOn(StrictSubsetOrdering(S), FiniteSubsetsOf(S))
    BY FS_StrictSubsetOrderingWellFounded
  <2> QED
    BY <1>1, <2>1
<1>3. PICK T \in Missing : \A U \in Missing : <<U, T>> \notin StrictSubsetOrdering(S)
  <2> Missing \subseteq SUBSET S
    OBVIOUS
  <2> HIDE DEF Missing
  <2> QED
    BY <1>2, WFMin
<1>4. ASSUME NEW U \in SUBSET T, U # T PROVE U \in F
  <2>1. <<U, T>> \in StrictSubsetOrdering(S)
    BY <1>3, <1>4 DEF StrictSubsetOrdering
  <2> QED
    BY <1>3, <1>4, <2>1
<1> QED
  BY <1>3, <1>4

\* From no element, one at a time, to all.
LEMMA SetInduction ==
    ASSUME NEW S, IsFiniteSet(S), NEW F, {} \in F,
           \A T \in SUBSET S : \A x \in S : T \in F => T \union {x} \in F
    PROVE  S \in F
<1>1. ASSUME NEW T \in SUBSET S, \A U \in SUBSET T : U # T => U \in F
      PROVE  T \in F
  <2>1. CASE T = {}
    BY <2>1
  <2>2. CASE T # {}
    <3>1. PICK x \in T : TRUE
      BY <2>2
    <3>2. T \ {x} \in F
      BY <1>1, <3>1
    <3>3. (T \ {x}) \union {x} \in F
      BY <3>2
    <3>4. (T \ {x}) \union {x} = T
      OBVIOUS
    <3> QED
      BY <3>3, <3>4
  <2> QED
    BY <2>1, <2>2
<1> QED
  BY <1>1, StrongSetInduction

-----------------------------------------------------------------------------
(* The recursion *)

\* The equation that defines the fold, of an element chosen each time.
IsSum(sum, f, S) ==
    sum = [T \in SUBSET S |->
             IF T = {} THEN 0
             ELSE f[CHOOSE x \in T : TRUE] + sum[T \ {CHOOSE x \in T : TRUE}]]

\* The community module's sum is such a function, applied to the set.
LEMMA SumIsFold ==
    ASSUME NEW f, NEW S
    PROVE  SumFunctionOnSet(f, S) = (CHOOSE sum : IsSum(sum, f, S))[S]
BY DEF SumFunctionOnSet, FoldFunctionOnSet, MapThenFoldSet, IsSum

Chosen(T) == CHOOSE x \in T : TRUE

\* The equation, unfolded once.
LEMMA SumStep ==
    ASSUME NEW f, NEW S, NEW sum, IsSum(sum, f, S), NEW T \in SUBSET S
    PROVE  /\ T = {} => sum[T] = 0
           /\ T # {} => /\ Chosen(T) \in T /\ T \ {Chosen(T)} \in SUBSET S
                        /\ sum[T] = f[Chosen(T)] + sum[T \ {Chosen(T)}]
<1>1. sum[T] = IF T = {} THEN 0 ELSE f[Chosen(T)] + sum[T \ {Chosen(T)}]
  BY Zenon DEF IsSum, Chosen
<1>2. T # {} => Chosen(T) \in T
  BY Zenon DEF Chosen
<1> QED
  BY <1>1, <1>2

\* The whole set, if it has elements.
LEMMA SumAll ==
    ASSUME NEW f, NEW S, NEW sum, IsSum(sum, f, S), S # {}
    PROVE  Chosen(S) \in S /\ sum[S] = f[Chosen(S)] + sum[S \ {Chosen(S)}]
<1>1. S \in SUBSET S
  OBVIOUS
<1> QED
  BY <1>1, SumStep

\* Two sums over sets that hold S agree on its subsets.
LEMMA SumUnique ==
    ASSUME NEW f, NEW S, IsFiniteSet(S), NEW A, NEW B, S \subseteq A, S \subseteq B,
           NEW s, NEW t, IsSum(s, f, A), IsSum(t, f, B)
    PROVE  \A T \in SUBSET S : s[T] = t[T]
<1> DEFINE F == {T \in SUBSET S : s[T] = t[T]}
<1>1. ASSUME NEW T \in SUBSET S, \A U \in SUBSET T : U # T => U \in F
      PROVE  T \in F
  <2>1. T \in SUBSET A /\ T \in SUBSET B
    OBVIOUS
  <2>2. CASE T = {}
    <3>1. s[T] = 0 /\ t[T] = 0
      BY <2>1, <2>2, SumStep
    <3> QED
      BY <3>1
  <2>3. CASE T # {}
    <3> DEFINE U == T \ {Chosen(T)}
    <3>1. Chosen(T) \in T /\ s[T] = f[Chosen(T)] + s[U] /\ t[T] = f[Chosen(T)] + t[U]
      <4>1. Chosen(T) \in T /\ s[T] = f[Chosen(T)] + s[U]
        BY <2>1, <2>3, SumStep
      <4>2. t[T] = f[Chosen(T)] + t[U]
        BY <2>1, <2>3, SumStep
      <4> QED
        BY <4>1, <4>2
    <3>2. s[U] = t[U]
      BY <1>1, <3>1
    <3> QED
      BY <3>1, <3>2
  <2> QED
    BY <2>2, <2>3
<1> HIDE DEF F
<1>2. \A T \in SUBSET S : T \in F
  BY <1>1, StrongSetInduction
<1> QED
  BY <1>2 DEF F

\* There is a function that satisfies the equation.
LEMMA SumExists ==
    ASSUME NEW f, NEW S, IsFiniteSet(S)
    PROVE  \E sum : IsSum(sum, f, S)
<1> DEFINE F == {T \in SUBSET S : \E sum : IsSum(sum, f, T)}
           the(T) == CHOOSE sum : IsSum(sum, f, T)
<1>1. ASSUME NEW T \in SUBSET S, \A U \in SUBSET T : U # T => U \in F
      PROVE  T \in F
  <2> DEFINE low(V) == the(V)[V]
             sum == [V \in SUBSET T |->
                       IF V = {} THEN 0 ELSE f[Chosen(V)] + low(V \ {Chosen(V)})]
  <2>1. IsFiniteSet(T)
    BY FS_Subset
  <2>2. ASSUME NEW U \in SUBSET T, U # T PROVE IsSum(the(U), f, U)
    <3>1. \E s : IsSum(s, f, U)
      BY <1>1, <2>2
    <3> QED
      BY <3>1
  <2>3. ASSUME NEW U \in SUBSET T, U # T PROVE sum[U] = low(U)
    <3> DEFINE V == U \ {Chosen(U)}
    <3> HIDE DEF the
    <3>1. IsSum(the(U), f, U)
      BY <2>2, <2>3
    <3>2. CASE U = {}
      <4>1. the(U)[U] = 0
        <5> U \in SUBSET U
          OBVIOUS
        <5> HIDE DEF low, sum, F
        <5> QED
          BY <3>1, <3>2, SumStep
      <4> QED
        BY <4>1, <3>2
    <3>3. CASE U # {}
      <4>1. Chosen(U) \in U /\ the(U)[U] = f[Chosen(U)] + the(U)[V]
        BY <3>1, <3>3, SumStep
      <4>2. V \in SUBSET T /\ V # T /\ V \subseteq U
        BY <4>1
      <4>3. IsSum(the(V), f, V)
        BY <2>2, <4>2
      <4>4. IsFiniteSet(V)
        BY <2>1, <4>2, FS_Subset
      <4>5. the(U)[V] = the(V)[V]
        <5> HIDE DEF V
        <5> QED
          BY <3>1, <4>2, <4>3, <4>4, SumUnique
      <4>6. sum[U] = f[Chosen(U)] + low(V)
        BY <3>3
      <4> QED
        BY <4>1, <4>5, <4>6
    <3> QED
      BY <3>2, <3>3
  <2>4. ASSUME NEW V \in SUBSET T
        PROVE  sum[V] = IF V = {} THEN 0 ELSE f[Chosen(V)] + sum[V \ {Chosen(V)}]
    <3>1. CASE V = {}
      BY <3>1
    <3>2. CASE V # {}
      <4>1. Chosen(V) \in V
        BY <3>2 DEF Chosen
      <4>2. V \ {Chosen(V)} \in SUBSET T /\ V \ {Chosen(V)} # T
        BY <4>1
      <4>3. sum[V \ {Chosen(V)}] = low(V \ {Chosen(V)})
        BY <2>3, <4>2
      <4>4. sum[V] = f[Chosen(V)] + low(V \ {Chosen(V)})
        BY <3>2
      <4> QED
        BY <3>2, <4>3, <4>4
    <3> QED
      BY <3>1, <3>2
  <2>5. sum = [V \in SUBSET T |-> sum[V]]
    OBVIOUS
  <2>6. IsSum(sum, f, T)
    <3> HIDE DEF sum
    <3> QED
      BY <2>4, <2>5 DEF IsSum, Chosen
  <2> QED
    BY <2>6
<1>2. \A T \in SUBSET S : T \in F
  <2> HIDE DEF F
  <2> QED
    BY <1>1, StrongSetInduction
<1> QED
  BY <1>2

\* Hence the sum satisfies the equation.
LEMMA SumEquation ==
    ASSUME NEW f, NEW S, IsFiniteSet(S)
    PROVE  /\ S = {} => SumFunctionOnSet(f, S) = 0
           /\ S # {} => /\ Chosen(S) \in S
                        /\ SumFunctionOnSet(f, S) = f[Chosen(S)] + SumFunctionOnSet(f, S \ {Chosen(S)})
<1> DEFINE the(T) == CHOOSE sum : IsSum(sum, f, T)
<1>1. ASSUME NEW T, IsFiniteSet(T) PROVE IsSum(the(T), f, T)
  <2>1. \E sum : IsSum(sum, f, T)
    BY <1>1, SumExists
  <2> QED
    BY <2>1
<1>2. \A T : SumFunctionOnSet(f, T) = the(T)[T]
  BY SumIsFold
<1> HIDE DEF the
<1>3. IsSum(the(S), f, S) /\ S \in SUBSET S
  BY <1>1
<1>4. CASE S = {}
  <2>1. the(S)[S] = 0
    BY <1>3, <1>4, SumStep
  <2> QED
    BY <1>2, <1>4, <2>1
<1>5. CASE S # {}
  <2> DEFINE U == S \ {Chosen(S)}
  <2>1. Chosen(S) \in S /\ the(S)[S] = f[Chosen(S)] + the(S)[U]
    <3> HIDE DEF U
    <3>1. Chosen(S) \in S /\ the(S)[S] = f[Chosen(S)] + the(S)[S \ {Chosen(S)}]
      BY <1>3, <1>5, SumAll
    <3> QED
      BY <3>1 DEF U
  <2>2. IsFiniteSet(U) /\ U \subseteq S
    BY FS_Subset
  <2> HIDE DEF U
  <2>3. IsSum(the(U), f, U)
    BY <1>1, <2>2
  <2>4. the(S)[U] = the(U)[U]
    BY <1>3, <2>2, <2>3, SumUnique
  <2>5. SumFunctionOnSet(f, S) = f[Chosen(S)] + SumFunctionOnSet(f, U)
    BY <1>2, <2>1, <2>4
  <2> QED
    BY <1>5, <2>1, <2>5 DEF U
<1> QED
  BY <1>4, <1>5

-----------------------------------------------------------------------------
(* Sums *)

LEMMA SumOfNone ==
    ASSUME NEW f
    PROVE  SumFunctionOnSet(f, {}) = 0
BY FS_EmptySet, SumEquation

\* Whole numbers add up to a whole number.
LEMMA SumTyped ==
    ASSUME NEW f, NEW S, IsFiniteSet(S), \A x \in S : f[x] \in Int
    PROVE  \A T \in SUBSET S : SumFunctionOnSet(f, T) \in Int
<1> DEFINE F == {T \in SUBSET S : SumFunctionOnSet(f, T) \in Int}
<1>1. ASSUME NEW T \in SUBSET S, \A U \in SUBSET T : U # T => U \in F
      PROVE  T \in F
  <2>1. IsFiniteSet(T)
    BY FS_Subset
  <2>2. CASE T = {}
    BY <2>2, SumOfNone
  <2>3. CASE T # {}
    <3>1. /\ Chosen(T) \in T
          /\ SumFunctionOnSet(f, T) = f[Chosen(T)] + SumFunctionOnSet(f, T \ {Chosen(T)})
      BY <2>1, <2>3, SumEquation
    <3>2. T \ {Chosen(T)} \in F
      BY <1>1, <3>1
    <3>3. f[Chosen(T)] \in Int
      BY <3>1
    <3> QED
      BY <3>1, <3>2, <3>3
  <2> QED
    BY <2>2, <2>3
<1> HIDE DEF F
<1>2. \A T \in SUBSET S : T \in F
  BY <1>1, StrongSetInduction
<1> QED
  BY <1>2 DEF F

\* Any element can be taken out first.
LEMMA SumWithout ==
    ASSUME NEW f, NEW S, IsFiniteSet(S), \A x \in S : f[x] \in Int, NEW x \in S
    PROVE  SumFunctionOnSet(f, S) = f[x] + SumFunctionOnSet(f, S \ {x})
<1> DEFINE Sum(T) == SumFunctionOnSet(f, T)
           F == {T \in SUBSET S : \A y \in T : Sum(T) = f[y] + Sum(T \ {y})}
<1>0. \A T \in SUBSET S : Sum(T) \in Int
  BY SumTyped
<1>1. ASSUME NEW T \in SUBSET S, \A U \in SUBSET T : U # T => U \in F
      PROVE  T \in F
  <2> SUFFICES ASSUME NEW y \in T PROVE Sum(T) = f[y] + Sum(T \ {y})
    OBVIOUS
  <2> DEFINE c == Chosen(T)
  <2>1. IsFiniteSet(T) /\ IsFiniteSet(T \ {y})
    BY FS_Subset
  <2>2. c \in T /\ Sum(T) = f[c] + Sum(T \ {c})
    BY <2>1, SumEquation
  <2> HIDE DEF c
  <2>3. CASE y = c
    BY <2>2, <2>3
  <2>4. CASE y # c
    <3>1. T \ {c} \in F /\ y \in T \ {c}
      BY <1>1, <2>2, <2>4
    <3>2. T \ {y} \in F /\ c \in T \ {y}
      BY <1>1, <2>2, <2>4
    <3>3. Sum(T \ {c}) = f[y] + Sum((T \ {c}) \ {y})
      BY <3>1
    <3>4. Sum(T \ {y}) = f[c] + Sum((T \ {y}) \ {c})
      BY <3>2
    <3>5. (T \ {y}) \ {c} = (T \ {c}) \ {y}
      OBVIOUS
    <3>6. /\ f[y] \in Int /\ f[c] \in Int /\ Sum((T \ {y}) \ {c}) \in Int
          /\ Sum(T \ {y}) \in Int /\ Sum(T \ {c}) \in Int
      BY <1>0, <2>2
    <3> DEFINE rest == Sum((T \ {c}) \ {y})
               withc == Sum(T \ {y})
               withy == Sum(T \ {c})
               all == Sum(T)
               b == f[y]
               d == f[c]
    <3>7. all = d + withy /\ withy = b + rest /\ withc = d + rest
      BY <2>2, <3>3, <3>4, <3>5
    <3>8. b \in Int /\ d \in Int /\ rest \in Int
      BY <3>5, <3>6
    <3> HIDE DEF rest, withc, withy, all, b, d
    <3>9. all = b + withc
      BY <3>7, <3>8
    <3> QED
      BY <3>9 DEF all, b, withc
  <2> QED
    BY <2>3, <2>4
<1> HIDE DEF F
<1>2. \A T \in SUBSET S : T \in F
  BY <1>1, StrongSetInduction
<1>3. S \in F
  BY <1>2
<1> QED
  BY <1>3 DEF F

\* One more element.
LEMMA SumWith ==
    ASSUME NEW f, NEW S, IsFiniteSet(S), NEW x, x \notin S, \A y \in S \union {x} : f[y] \in Int
    PROVE  /\ SumFunctionOnSet(f, S \union {x}) = SumFunctionOnSet(f, S) + f[x]
           /\ SumFunctionOnSet(f, S) \in Int
<1>1. IsFiniteSet(S \union {x}) /\ (S \union {x}) \ {x} = S
  BY FS_AddElement
<1>2. SumFunctionOnSet(f, S \union {x}) = f[x] + SumFunctionOnSet(f, (S \union {x}) \ {x})
  BY <1>1, SumWithout
<1>3. SumFunctionOnSet(f, S) \in Int /\ f[x] \in Int
  BY SumTyped
<1> DEFINE before == SumFunctionOnSet(f, S)
           after == SumFunctionOnSet(f, S \union {x})
           more == f[x]
<1>4. after = more + before
  BY <1>1, <1>2
<1> HIDE DEF before, after, more
<1>5. after = before + more
  BY <1>3, <1>4 DEF before, more
<1> QED
  BY <1>3, <1>5 DEF before, after, more

\* Only the values on the set count.
LEMMA SumEqual ==
    ASSUME NEW f, NEW g, NEW S, IsFiniteSet(S), \A x \in S : f[x] = g[x]
    PROVE  SumFunctionOnSet(f, S) = SumFunctionOnSet(g, S)
<1> DEFINE F == {T \in SUBSET S : SumFunctionOnSet(f, T) = SumFunctionOnSet(g, T)}
<1>1. ASSUME NEW T \in SUBSET S, \A U \in SUBSET T : U # T => U \in F
      PROVE  T \in F
  <2>1. IsFiniteSet(T)
    BY FS_Subset
  <2>2. CASE T = {}
    BY <2>2, SumOfNone
  <2>3. CASE T # {}
    <3>1. /\ Chosen(T) \in T
          /\ SumFunctionOnSet(f, T) = f[Chosen(T)] + SumFunctionOnSet(f, T \ {Chosen(T)})
      BY <2>1, <2>3, SumEquation
    <3>2. SumFunctionOnSet(g, T) = g[Chosen(T)] + SumFunctionOnSet(g, T \ {Chosen(T)})
      BY <2>1, <2>3, SumEquation
    <3>3. T \ {Chosen(T)} \in F
      BY <1>1, <3>1
    <3> QED
      BY <3>1, <3>2, <3>3
  <2> QED
    BY <2>2, <2>3
<1> HIDE DEF F
<1>2. \A T \in SUBSET S : T \in F
  BY <1>1, StrongSetInduction
<1> QED
  BY <1>2 DEF F

\* One value changes.
LEMMA SumChange ==
    ASSUME NEW f, NEW g, NEW S, IsFiniteSet(S), NEW x \in S,
           \A y \in S : f[y] \in Int /\ g[y] \in Int,
           \A y \in S \ {x} : g[y] = f[y]
    PROVE  SumFunctionOnSet(g, S) = SumFunctionOnSet(f, S) - f[x] + g[x]
<1> DEFINE U == S \ {x}
<1>1. IsFiniteSet(U) /\ U \subseteq S
  BY FS_Subset
<1>2. SumFunctionOnSet(f, S) = f[x] + SumFunctionOnSet(f, U)
  BY SumWithout
<1>3. SumFunctionOnSet(g, S) = g[x] + SumFunctionOnSet(g, U)
  BY SumWithout
<1>4. SumFunctionOnSet(f, U) = SumFunctionOnSet(g, U)
  BY <1>1, SumEqual
<1>5. SumFunctionOnSet(f, U) \in Int /\ f[x] \in Int /\ g[x] \in Int
  BY <1>1, SumTyped
<1> QED
  BY <1>2, <1>3, <1>4, <1>5

\* A sum is not negative where no summand is, and at least any one of them.
LEMMA SumNatural ==
    ASSUME NEW f, NEW S, IsFiniteSet(S), \A x \in S : f[x] \in Nat
    PROVE  \A T \in SUBSET S : SumFunctionOnSet(f, T) \in Nat /\ \A x \in T : f[x] <= SumFunctionOnSet(f, T)
<1> DEFINE F == {T \in SUBSET S : SumFunctionOnSet(f, T) \in Nat}
<1>1. ASSUME NEW T \in SUBSET S, NEW x \in S, T \in F PROVE T \union {x} \in F
  <2>1. CASE x \in T
    <3>1. T \union {x} = T
      BY <2>1
    <3> QED
      BY <1>1, <3>1
  <2>2. CASE x \notin T
    <3>1. IsFiniteSet(T)
      BY FS_Subset
    <3>2. SumFunctionOnSet(f, T \union {x}) = SumFunctionOnSet(f, T) + f[x]
      BY <2>2, <3>1, SumWith
    <3> QED
      BY <1>1, <3>2
  <2> QED
    BY <2>1, <2>2
<1>2. \A T \in SUBSET S : SumFunctionOnSet(f, T) \in Nat
  <2> SUFFICES ASSUME NEW T \in SUBSET S PROVE SumFunctionOnSet(f, T) \in Nat
    OBVIOUS
  <2> DEFINE G == F \intersect SUBSET T
  <2>1. IsFiniteSet(T)
    BY FS_Subset
  <2>2. {} \in G
    BY SumOfNone
  <2>3. ASSUME NEW U \in SUBSET T, NEW x \in T, U \in G PROVE U \union {x} \in G
    <3> HIDE DEF F
    <3> QED
      BY <1>1, <2>3
  <2>4. T \in G
    <3> HIDE DEF G
    <3> QED
      BY <2>1, <2>2, <2>3, SetInduction
  <2> QED
    BY <2>4
<1>3. ASSUME NEW T \in SUBSET S, NEW x \in T PROVE f[x] <= SumFunctionOnSet(f, T)
  <2>1. IsFiniteSet(T)
    BY FS_Subset
  <2>2. SumFunctionOnSet(f, T) = f[x] + SumFunctionOnSet(f, T \ {x})
    BY <2>1, SumWithout
  <2>3. SumFunctionOnSet(f, T \ {x}) \in Nat /\ f[x] \in Nat
    BY <1>2
  <2> QED
    BY <2>2, <2>3
<1> QED
  BY <1>2, <1>3

\* Sums of sums.
LEMMA SumAdds ==
    ASSUME NEW f, NEW g, NEW h, NEW S, IsFiniteSet(S),
           \A x \in S : f[x] \in Int /\ g[x] \in Int /\ h[x] = f[x] + g[x]
    PROVE  SumFunctionOnSet(h, S) = SumFunctionOnSet(f, S) + SumFunctionOnSet(g, S)
<1> DEFINE F == {T \in SUBSET S :
                   SumFunctionOnSet(h, T) = SumFunctionOnSet(f, T) + SumFunctionOnSet(g, T)}
<1>1. {} \in F
  BY SumOfNone
<1>2. ASSUME NEW T \in SUBSET S, NEW x \in S, T \in F PROVE T \union {x} \in F
  <2>1. CASE x \in T
    <3>1. T \union {x} = T
      BY <2>1
    <3> QED
      BY <1>2, <3>1
  <2>2. CASE x \notin T
    <3>1. IsFiniteSet(T)
      BY FS_Subset
    <3>2. SumFunctionOnSet(h, T \union {x}) = SumFunctionOnSet(h, T) + h[x]
      BY <2>2, <3>1, SumWith
    <3>3. /\ SumFunctionOnSet(f, T \union {x}) = SumFunctionOnSet(f, T) + f[x]
          /\ SumFunctionOnSet(f, T) \in Int
      BY <2>2, <3>1, SumWith
    <3>4. /\ SumFunctionOnSet(g, T \union {x}) = SumFunctionOnSet(g, T) + g[x]
          /\ SumFunctionOnSet(g, T) \in Int
      BY <2>2, <3>1, SumWith
    <3>5. f[x] \in Int /\ g[x] \in Int /\ h[x] = f[x] + g[x]
      OBVIOUS
    <3>6. SumFunctionOnSet(h, T) = SumFunctionOnSet(f, T) + SumFunctionOnSet(g, T)
      BY <1>2
    <3>7. SumFunctionOnSet(h, T \union {x}) = SumFunctionOnSet(f, T \union {x}) + SumFunctionOnSet(g, T \union {x})
      BY <3>2, <3>3, <3>4, <3>5, <3>6
    <3> QED
      BY <3>7
  <2> QED
    BY <2>1, <2>2
<1>3. S \in F
  <2> HIDE DEF F
  <2> QED
    BY <1>1, <1>2, SetInduction
<1> QED
  BY <1>3

LEMMA SumOfZeros ==
    ASSUME NEW f, NEW S, IsFiniteSet(S), \A x \in S : f[x] = 0
    PROVE  SumFunctionOnSet(f, S) = 0
<1> DEFINE sum == SumFunctionOnSet(f, S)
<1>1. sum \in Int
  BY SumTyped
<1>2. \A x \in S : f[x] \in Int /\ f[x] = f[x] + f[x]
  OBVIOUS
<1>3. sum = sum + sum
  BY <1>2, SumAdds
<1> HIDE DEF sum
<1>4. sum = 0
  BY <1>1, <1>3
<1> QED
  BY <1>4 DEF sum

\* Opposite values have the opposite sum.
LEMMA SumOpposite ==
    ASSUME NEW f, NEW g, NEW S, IsFiniteSet(S), \A x \in S : f[x] \in Int /\ g[x] = 0 - f[x]
    PROVE  SumFunctionOnSet(g, S) = 0 - SumFunctionOnSet(f, S)
<1> DEFINE h == [x \in S |-> 0]
           a == SumFunctionOnSet(f, S)
           b == SumFunctionOnSet(g, S)
<1>1. SumFunctionOnSet(h, S) = 0
  BY SumOfZeros
<1>2. \A x \in S : f[x] \in Int /\ g[x] \in Int /\ h[x] = f[x] + g[x]
  OBVIOUS
<1> HIDE DEF h
<1>3. SumFunctionOnSet(h, S) = a + b
  BY <1>2, SumAdds
<1>4. a \in Int /\ b \in Int
  BY <1>2, SumTyped
<1> HIDE DEF a, b
<1>5. b = 0 - a
  BY <1>1, <1>3, <1>4
<1> QED
  BY <1>5 DEF a, b

\* What is added up over more elements is not less.
LEMMA SumOfMore ==
    ASSUME NEW f, NEW S, IsFiniteSet(S), \A x \in S : f[x] \in Nat
    PROVE  \A T \in SUBSET S : SumFunctionOnSet(f, T) <= SumFunctionOnSet(f, S)
<1> SUFFICES ASSUME NEW T \in SUBSET S PROVE SumFunctionOnSet(f, T) <= SumFunctionOnSet(f, S)
  OBVIOUS
<1> DEFINE F == {D \in SUBSET (S \ T) : SumFunctionOnSet(f, T) <= SumFunctionOnSet(f, T \union D)}
<1>0. \A U \in SUBSET S : SumFunctionOnSet(f, U) \in Nat
  BY SumNatural
<1>1. {} \in F
  <2>1. T \union {} = T /\ SumFunctionOnSet(f, T) \in Nat
    BY <1>0
  <2> QED
    BY <2>1
<1>2. ASSUME NEW D \in SUBSET (S \ T), NEW x \in S \ T, D \in F PROVE D \union {x} \in F
  <2>1. CASE x \in D
    <3>1. D \union {x} = D
      BY <2>1
    <3> QED
      BY <1>2, <3>1
  <2>2. CASE x \notin D
    <3> DEFINE U == T \union D
    <3>1. IsFiniteSet(U) /\ x \notin U /\ U \in SUBSET S /\ T \union (D \union {x}) = U \union {x}
      BY <2>2, FS_Subset
    <3> HIDE DEF U
    <3>2. SumFunctionOnSet(f, U \union {x}) = SumFunctionOnSet(f, U) + f[x]
      BY <3>1, SumWith
    <3>3. /\ SumFunctionOnSet(f, T) \in Nat /\ SumFunctionOnSet(f, U) \in Nat /\ f[x] \in Nat
          /\ SumFunctionOnSet(f, T) <= SumFunctionOnSet(f, U)
      BY <1>0, <1>2, <3>1 DEF U
    <3>4. SumFunctionOnSet(f, T) <= SumFunctionOnSet(f, U \union {x})
      <4> DEFINE a == SumFunctionOnSet(f, T)
                 b == SumFunctionOnSet(f, U)
                 c == SumFunctionOnSet(f, U \union {x})
                 d == f[x]
      <4>1. c = b + d /\ a \in Nat /\ b \in Nat /\ d \in Nat /\ a <= b
        BY <3>2, <3>3
      <4> HIDE DEF a, b, c, d
      <4>2. a <= c
        BY <4>1
      <4> QED
        BY <4>2 DEF a, c
    <3> QED
      BY <3>1, <3>4
  <2> QED
    BY <2>1, <2>2
<1>3. IsFiniteSet(S \ T)
  BY FS_Subset
<1>4. S \ T \in F
  <2> HIDE DEF F
  <2> QED
    BY <1>1, <1>2, <1>3, SetInduction
<1>5. T \union (S \ T) = S
  OBVIOUS
<1> QED
  BY <1>4, <1>5

=============================================================================
