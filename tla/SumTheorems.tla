------------------------------ MODULE SumTheorems ------------------------------
(***************************************************************************)
(* Induction over the subsets of a finite set, and what it yields about the *)
(* sum of the values of a function over a finite set (SumFunctionOnSet of   *)
(* the community modules), which the ledgers of this project are stated     *)
(* with.                                                                    *)
(***************************************************************************)
EXTENDS Integers, FiniteSets, FiniteSetsExt, FiniteSetTheorems,
        WellFoundedInduction, TLAPS

\* A set of subsets of S that contains T whenever it contains all proper
\* subsets of T contains every subset of S.
LEMMA SetInduction ==
  ASSUME NEW S, IsFiniteSet(S), NEW G,
         \A T \in SUBSET S : (\A U \in SUBSET T : U # T => U \in G) => T \in G
  PROVE  SUBSET S \subseteq G
<1> DEFINE R == StrictSubsetOrdering(S)
           B == {T \in SUBSET S : T \notin G}
<1>1. IsWellFoundedOn(R, SUBSET S)
  BY FS_StrictSubsetOrderingWellFounded, FS_FiniteSubsetsOfFinite
<1>2. SUFFICES ASSUME B # {} PROVE FALSE
  OBVIOUS
<1>3. B \subseteq SUBSET S
  OBVIOUS
<1>4. \E T \in B : \A U \in B : <<U, T>> \notin R
  <2> HIDE DEF R, B
  <2> QED BY <1>1, <1>2, <1>3, WFMin
<1>5. PICK T \in B : \A U \in B : <<U, T>> \notin R
  BY <1>4
<1>6. \A U \in SUBSET T : U # T => U \in G
  BY <1>5 DEF StrictSubsetOrdering
<1> QED BY <1>5, <1>6

-----------------------------------------------------------------------------
(* The function of a set's subsets that SumFunctionOnSet is defined by.       *)

SomeOf(s) == CHOOSE x \in s : TRUE
Adds(g, f, S) ==
    g = [s \in SUBSET S |-> IF s = {} THEN 0 ELSE f[SomeOf(s)] + g[s \ {SomeOf(s)}]]

\* The definition of SumFunctionOnSet, unfolded.
LEMMA SumUnfold ==
  ASSUME NEW f, NEW S
  PROVE  SumFunctionOnSet(f, S) = (CHOOSE g : Adds(g, f, S))[S]
BY DEF SumFunctionOnSet, FoldFunctionOnSet, MapThenFoldSet, Adds, SomeOf

\* There is one such function at most.
LEMMA AddsUnique ==
  ASSUME NEW f, NEW S, IsFiniteSet(S), NEW g, NEW h, Adds(g, f, S), Adds(h, f, S)
  PROVE  g = h
<1> DEFINE G == {T \in SUBSET S : g[T] = h[T]}
<1>1. ASSUME NEW T \in SUBSET S, \A U \in SUBSET T : U # T => U \in G
      PROVE  T \in G
  <2>1. CASE T = {}
    BY <2>1 DEF Adds
  <2>2. CASE T # {}
    <3>1. SomeOf(T) \in T
      BY <2>2 DEF SomeOf
    <3>2. g[T \ {SomeOf(T)}] = h[T \ {SomeOf(T)}]
      BY <1>1, <3>1
    <3>3. /\ g[T] = f[SomeOf(T)] + g[T \ {SomeOf(T)}]
          /\ h[T] = f[SomeOf(T)] + h[T \ {SomeOf(T)}]
      BY <2>2 DEF Adds
    <3> QED BY <3>2, <3>3
  <2> QED BY <2>1, <2>2
<1>2. SUBSET S \subseteq G
  <2> HIDE DEF G
  <2> QED BY <1>1, SetInduction
<1> QED BY <1>2 DEF Adds

\* What SumFunctionOnSet does with a nonempty set, before the order of the
\* elements is known not to matter.
Stepwise(f, S) ==
    SumFunctionOnSet(f, S) =
        IF S = {} THEN 0 ELSE f[SomeOf(S)] + SumFunctionOnSet(f, S \ {SomeOf(S)})

LEMMA SumStepwise ==
  ASSUME NEW f, NEW S, IsFiniteSet(S)
  PROVE  Stepwise(f, S)
<1> DEFINE G == {T \in SUBSET S : Stepwise(f, T)}
           Total(T) == SumFunctionOnSet(f, T)
           Next(T) == IF T = {} THEN 0 ELSE f[SomeOf(T)] + Total(T \ {SomeOf(T)})
           Totals(T) == [s \in SUBSET T |-> Total(s)]
<1>1. ASSUME NEW T \in SUBSET S, \A U \in SUBSET T : U # T => U \in G
      PROVE  T \in G
  <2> DEFINE g == [s \in SUBSET T |-> IF s = T THEN Next(T) ELSE Total(s)]
             c == CHOOSE h : Adds(h, f, T)
  <2>1. \A s \in SUBSET T : s # T => Total(s) = Next(s)
    BY <1>1 DEF Stepwise
  <2>2. \A s : s # {} => SomeOf(s) \in s
    BY DEF SomeOf
  <2>3. Adds(g, f, T)
    <3>1. ASSUME NEW s \in SUBSET T
          PROVE  g[s] = IF s = {} THEN 0 ELSE f[SomeOf(s)] + g[s \ {SomeOf(s)}]
      <4>1. s # {} => s \ {SomeOf(s)} # T /\ s \ {SomeOf(s)} \in SUBSET T
        BY <2>2
      <4>2. g[s] = Next(s)
        <5> HIDE DEF Next, Total
        <5> QED BY <2>1
      <4>3. s # {} => g[s \ {SomeOf(s)}] = Total(s \ {SomeOf(s)})
        <5> HIDE DEF Next, Total
        <5> QED BY <4>1
      <4> QED BY <4>2, <4>3
    <3> HIDE DEF g
    <3>2. g = [s \in SUBSET T |-> g[s]]
      BY DEF g
    <3> QED BY <3>1, <3>2 DEF Adds
  <2>4. Adds(c, f, T)
    <3> HIDE DEF g
    <3> QED BY <2>3
  <2>5. Total(T) = c[T]
    BY SumUnfold
  <2>6. CASE T = {}
    <3>1. c[T] = 0
      <4> HIDE DEF c
      <4> QED BY <2>4, <2>6 DEF Adds
    <3> QED BY <2>5, <2>6, <3>1 DEF Stepwise
  <2>7. CASE T # {}
    <3> DEFINE U == T \ {SomeOf(T)}
               r == [s \in SUBSET U |-> c[s]]
    <3>1. U # T /\ U \in SUBSET T /\ IsFiniteSet(U)
      BY <2>2, <2>7, FS_Subset
    <3>2. Adds(r, f, U)
      <4>1. ASSUME NEW s \in SUBSET U
            PROVE  r[s] = IF s = {} THEN 0 ELSE f[SomeOf(s)] + r[s \ {SomeOf(s)}]
        <5> HIDE DEF c
        <5> QED BY <2>4 DEF Adds
      <4>2. r = [s \in SUBSET U |-> r[s]]
        OBVIOUS
      <4> HIDE DEF r
      <4> QED BY <4>1, <4>2 DEF Adds
    <3>3. Adds(Totals(U), f, U)
      <4>1. ASSUME NEW s \in SUBSET U
            PROVE  Totals(U)[s] = IF s = {} THEN 0
                                  ELSE f[SomeOf(s)] + Totals(U)[s \ {SomeOf(s)}]
        <5>1. s # T
          BY <2>2, <2>7
        <5>2. Total(s) = Next(s)
          BY <5>1, <2>1
        <5> HIDE DEF Total
        <5> QED BY <5>2
      <4> QED BY <4>1 DEF Adds
    <3>4. r = Totals(U)
      <4> HIDE DEF r, Totals, U
      <4> QED BY <3>1, <3>2, <3>3, AddsUnique
    <3>5. c[U] = Total(U)
      <4> HIDE DEF c, Total
      <4> QED BY <3>4
    <3>6. c[T] = f[SomeOf(T)] + c[U]
      <4> HIDE DEF c
      <4> QED BY <2>4, <2>7 DEF Adds
    <3> QED BY <2>5, <2>7, <3>5, <3>6 DEF Stepwise
  <2> QED BY <2>6, <2>7
<1>2. SUBSET S \subseteq G
  <2> HIDE DEF G
  <2> QED BY <1>1, SetInduction
<1> QED BY <1>2

-----------------------------------------------------------------------------
(* Sums of integers.                                                         *)

IntValued(f, S) == \A x \in S : f[x] \in Int
NatValued(f, S) == \A x \in S : f[x] \in Nat

\* A set of subsets of S that contains the empty set, and each nonempty T if
\* it contains T without one of its elements, contains every subset of S.
LEMMA RemovalInduction ==
  ASSUME NEW S, IsFiniteSet(S), NEW G, {} \in G,
         \A T \in SUBSET S : \A e \in T : (\A x \in T : T \ {x} \in G) => T \in G
  PROVE  SUBSET S \subseteq G
<1>1. ASSUME NEW T \in SUBSET S, \A U \in SUBSET T : U # T => U \in G
      PROVE  T \in G
  <2>1. CASE T = {}
    BY <2>1
  <2>2. ASSUME NEW e \in T
        PROVE  T \in G
    <3>1. \A x \in T : T \ {x} \in G
      BY <1>1
    <3> QED BY <3>1
  <2> QED BY <2>1, <2>2
<1> QED BY <1>1, SetInduction

LEMMA SumEmpty ==
  ASSUME NEW f
  PROVE  SumFunctionOnSet(f, {}) = 0
BY SumStepwise, FS_EmptySet DEF Stepwise

LEMMA SumInt ==
  ASSUME NEW f, NEW S, IsFiniteSet(S), IntValued(f, S)
  PROVE  SumFunctionOnSet(f, S) \in Int
<1> DEFINE G == {T \in SUBSET S : SumFunctionOnSet(f, T) \in Int}
<1>1. {} \in G
  BY SumEmpty
<1>2. ASSUME NEW T \in SUBSET S, NEW e \in T, \A x \in T : T \ {x} \in G
      PROVE  T \in G
  <2>1. SomeOf(T) \in T /\ T # {}
    BY DEF SomeOf
  <2>2. Stepwise(f, T)
    BY SumStepwise, FS_Subset
  <2> QED BY <1>2, <2>1, <2>2 DEF Stepwise, IntValued
<1>3. SUBSET S \subseteq G
  <2> HIDE DEF G
  <2> QED BY <1>1, <1>2, RemovalInduction
<1> QED BY <1>3

\* Any element may be taken out first.
LEMMA SumRemove ==
  ASSUME NEW f, NEW S, IsFiniteSet(S), IntValued(f, S), NEW e \in S
  PROVE  SumFunctionOnSet(f, S) = f[e] + SumFunctionOnSet(f, S \ {e})
<1> DEFINE Total(T) == SumFunctionOnSet(f, T)
           G == {T \in SUBSET S : \A x \in T : Total(T) = f[x] + Total(T \ {x})}
<1>1. \A T \in SUBSET S : Total(T) \in Int
  BY SumInt, FS_Subset DEF IntValued
<1>2. {} \in G
  OBVIOUS
<1>3. ASSUME NEW T \in SUBSET S, NEW y \in T, \A x \in T : T \ {x} \in G
      PROVE  T \in G
  <2> DEFINE p == SomeOf(T)
  <2>1. p \in T /\ T # {}
    BY DEF SomeOf
  <2>2. Total(T) = f[p] + Total(T \ {p})
    BY <2>1, SumStepwise, FS_Subset DEF Stepwise
  <2>3. ASSUME NEW x \in T, x # p
        PROVE  Total(T) = f[x] + Total(T \ {x})
    <3>1. Total(T \ {p}) = f[x] + Total((T \ {p}) \ {x})
      BY <1>3, <2>1, <2>3
    <3>2. Total(T \ {x}) = f[p] + Total((T \ {x}) \ {p})
      BY <1>3, <2>1, <2>3
    <3>3. (T \ {p}) \ {x} = (T \ {x}) \ {p} /\ (T \ {x}) \ {p} \in SUBSET S
      OBVIOUS
    <3>4. f[p] \in Int /\ f[x] \in Int /\ Total((T \ {x}) \ {p}) \in Int
      BY <1>1, <2>1, <3>3 DEF IntValued
    <3>5. Total((T \ {p}) \ {x}) = Total((T \ {x}) \ {p})
      BY <3>3
    <3> HIDE DEF p, Total
    <3> QED BY <2>2, <3>1, <3>2, <3>4, <3>5
  <2> QED BY <2>2, <2>3
<1>4. SUBSET S \subseteq G
  <2> HIDE DEF G
  <2> QED BY <1>2, <1>3, RemovalInduction
<1> QED BY <1>4

LEMMA SumAdd ==
  ASSUME NEW f, NEW S, IsFiniteSet(S), NEW e, e \notin S, IntValued(f, S \cup {e})
  PROVE  SumFunctionOnSet(f, S \cup {e}) = f[e] + SumFunctionOnSet(f, S)
<1>1. (S \cup {e}) \ {e} = S /\ IsFiniteSet(S \cup {e})
  BY FS_AddElement
<1> QED BY <1>1, SumRemove

LEMMA SumNat ==
  ASSUME NEW f, NEW S, IsFiniteSet(S), NatValued(f, S)
  PROVE  SumFunctionOnSet(f, S) \in Nat
<1> DEFINE G == {T \in SUBSET S : SumFunctionOnSet(f, T) \in Nat}
<1>1. {} \in G
  BY SumEmpty
<1>2. ASSUME NEW T \in SUBSET S, NEW e \in T, \A x \in T : T \ {x} \in G
      PROVE  T \in G
  <2>1. SumFunctionOnSet(f, T) = f[e] + SumFunctionOnSet(f, T \ {e})
    BY SumRemove, FS_Subset DEF IntValued, NatValued
  <2> QED BY <1>2, <2>1 DEF NatValued
<1>3. SUBSET S \subseteq G
  <2> HIDE DEF G
  <2> QED BY <1>1, <1>2, RemovalInduction
<1> QED BY <1>3

\* Only the values on the set matter.
LEMMA SumSame ==
  ASSUME NEW f, NEW g, NEW S, IsFiniteSet(S), IntValued(f, S), \A x \in S : f[x] = g[x]
  PROVE  SumFunctionOnSet(f, S) = SumFunctionOnSet(g, S)
<1> DEFINE G == {T \in SUBSET S : SumFunctionOnSet(f, T) = SumFunctionOnSet(g, T)}
<1>1. {} \in G
  BY SumEmpty
<1>2. ASSUME NEW T \in SUBSET S, NEW e \in T, \A x \in T : T \ {x} \in G
      PROVE  T \in G
  <2>1. IsFiniteSet(T) /\ IntValued(f, T) /\ IntValued(g, T)
    BY FS_Subset DEF IntValued
  <2>2. /\ SumFunctionOnSet(f, T) = f[e] + SumFunctionOnSet(f, T \ {e})
        /\ SumFunctionOnSet(g, T) = g[e] + SumFunctionOnSet(g, T \ {e})
    BY <2>1, SumRemove
  <2> QED BY <1>2, <2>2
<1>3. SUBSET S \subseteq G
  <2> HIDE DEF G
  <2> QED BY <1>1, <1>2, RemovalInduction
<1> QED BY <1>3

\* One value changes.
LEMMA SumChange ==
  ASSUME NEW f, NEW g, NEW S, IsFiniteSet(S), IntValued(f, S), NEW e \in S,
         g[e] \in Int, \A x \in S \ {e} : g[x] = f[x]
  PROVE  SumFunctionOnSet(g, S) = SumFunctionOnSet(f, S) - f[e] + g[e]
<1> DEFINE T == S \ {e}
<1>1. IsFiniteSet(T) /\ IntValued(f, T) /\ IntValued(g, S)
  BY FS_Subset DEF IntValued
<1>2. SumFunctionOnSet(f, T) = SumFunctionOnSet(g, T)
  BY <1>1, SumSame
<1>3. /\ SumFunctionOnSet(f, S) = f[e] + SumFunctionOnSet(f, T)
      /\ SumFunctionOnSet(g, S) = g[e] + SumFunctionOnSet(g, T)
  BY <1>1, SumRemove
<1>4. f[e] \in Int /\ SumFunctionOnSet(f, T) \in Int
  BY <1>1, SumInt DEF IntValued
<1> QED BY <1>2, <1>3, <1>4

\* Greater values have no smaller sum.
LEMMA SumMonotone ==
  ASSUME NEW f, NEW g, NEW S, IsFiniteSet(S), IntValued(f, S), IntValued(g, S),
         \A x \in S : f[x] <= g[x]
  PROVE  SumFunctionOnSet(f, S) <= SumFunctionOnSet(g, S)
<1> DEFINE G == {T \in SUBSET S : SumFunctionOnSet(f, T) <= SumFunctionOnSet(g, T)}
<1>1. {} \in G
  BY SumEmpty
<1>2. ASSUME NEW T \in SUBSET S, NEW e \in T, \A x \in T : T \ {x} \in G
      PROVE  T \in G
  <2>1. /\ IsFiniteSet(T) /\ IntValued(f, T) /\ IntValued(g, T)
        /\ IsFiniteSet(T \ {e}) /\ IntValued(f, T \ {e}) /\ IntValued(g, T \ {e})
    BY FS_Subset DEF IntValued
  <2>2. /\ SumFunctionOnSet(f, T) = f[e] + SumFunctionOnSet(f, T \ {e})
        /\ SumFunctionOnSet(g, T) = g[e] + SumFunctionOnSet(g, T \ {e})
    BY <2>1, SumRemove
  <2>3. SumFunctionOnSet(f, T \ {e}) \in Int /\ SumFunctionOnSet(g, T \ {e}) \in Int
    BY <2>1, SumInt
  <2>4. SumFunctionOnSet(f, T \ {e}) <= SumFunctionOnSet(g, T \ {e})
    BY <1>2
  <2>5. f[e] \in Int /\ g[e] \in Int /\ f[e] <= g[e]
    BY DEF IntValued
  <2> QED BY <2>2, <2>3, <2>4, <2>5
<1>3. SUBSET S \subseteq G
  <2> HIDE DEF G
  <2> QED BY <1>1, <1>2, RemovalInduction
<1> QED BY <1>3

LEMMA SumStrict ==
  ASSUME NEW f, NEW g, NEW S, IsFiniteSet(S), IntValued(f, S), IntValued(g, S),
         \A x \in S : f[x] <= g[x], NEW e \in S, f[e] # g[e]
  PROVE  SumFunctionOnSet(f, S) < SumFunctionOnSet(g, S)
<1> DEFINE T == S \ {e}
<1>1. IsFiniteSet(T) /\ IntValued(f, T) /\ IntValued(g, T)
  BY FS_Subset DEF IntValued
<1>2. SumFunctionOnSet(f, T) <= SumFunctionOnSet(g, T)
  BY <1>1, SumMonotone
<1>3. SumFunctionOnSet(f, T) \in Int /\ SumFunctionOnSet(g, T) \in Int
  BY <1>1, SumInt
<1>4. /\ SumFunctionOnSet(f, S) = f[e] + SumFunctionOnSet(f, T)
      /\ SumFunctionOnSet(g, S) = g[e] + SumFunctionOnSet(g, T)
  BY SumRemove
<1>5. f[e] \in Int /\ g[e] \in Int /\ f[e] < g[e]
  BY DEF IntValued
<1> QED BY <1>2, <1>3, <1>4, <1>5

\* The sum over a set is the sum over a part of it and the sum over the rest.
LEMMA SumSplit ==
  ASSUME NEW f, NEW S, IsFiniteSet(S), IntValued(f, S), NEW A, A \subseteq S
  PROVE  SumFunctionOnSet(f, S) = SumFunctionOnSet(f, A) + SumFunctionOnSet(f, S \ A)
<1> DEFINE Total(T) == SumFunctionOnSet(f, T)
           B == S \ A
           G == {T \in SUBSET A : Total(T \cup B) = Total(T) + Total(B)}
<1>1. \A T \in SUBSET S : IsFiniteSet(T) /\ IntValued(f, T) /\ Total(T) \in Int
  BY SumInt, FS_Subset DEF IntValued
<1>2. {} \in G
  <2>1. Total({}) = 0 /\ {} \cup B = B /\ Total(B) \in Int
    BY <1>1, SumEmpty
  <2> HIDE DEF Total, B
  <2> QED BY <2>1
<1>3. ASSUME NEW T \in SUBSET A, NEW e \in T, \A x \in T : T \ {x} \in G
      PROVE  T \in G
  <2>1. (T \cup B) \ {e} = (T \ {e}) \cup B
    OBVIOUS
  <2>2. Total(T \cup B) = f[e] + Total((T \cup B) \ {e}) /\ Total(T) = f[e] + Total(T \ {e})
    <3>1. T \in SUBSET S /\ T \cup B \in SUBSET S
      OBVIOUS
    <3>2. IsFiniteSet(T) /\ IntValued(f, T) /\ IsFiniteSet(T \cup B) /\ IntValued(f, T \cup B)
      BY <1>1, <3>1
    <3> QED BY <3>2, SumRemove
  <2>3. Total((T \ {e}) \cup B) = Total(T \ {e}) + Total(B)
    BY <1>3
  <2>4. f[e] \in Int /\ Total(T \ {e}) \in Int /\ Total(B) \in Int
    BY <1>1 DEF IntValued
  <2>5. Total((T \cup B) \ {e}) = Total((T \ {e}) \cup B)
    BY <2>1
  <2>6. Total(T \cup B) = Total(T) + Total(B)
    <3> HIDE DEF Total, B
    <3> QED BY <2>2, <2>3, <2>4, <2>5
  <2> QED BY <2>6
<1>4. SUBSET A \subseteq G
  <2> HIDE DEF G
  <2>1. IsFiniteSet(A)
    BY FS_Subset
  <2> QED BY <1>2, <1>3, <2>1, RemovalInduction
<1>5. A \in G /\ A \cup B = S
  BY <1>4
<1> QED BY <1>5

LEMMA SumZero ==
  ASSUME NEW f, NEW S, IsFiniteSet(S), \A x \in S : f[x] = 0
  PROVE  SumFunctionOnSet(f, S) = 0
<1> DEFINE G == {T \in SUBSET S : SumFunctionOnSet(f, T) = 0}
<1>1. {} \in G
  BY SumEmpty
<1>2. ASSUME NEW T \in SUBSET S, NEW e \in T, \A x \in T : T \ {x} \in G
      PROVE  T \in G
  <2>1. SumFunctionOnSet(f, T) = f[e] + SumFunctionOnSet(f, T \ {e})
    BY SumRemove, FS_Subset DEF IntValued
  <2> QED BY <1>2, <2>1
<1>3. SUBSET S \subseteq G
  <2> HIDE DEF G
  <2> QED BY <1>1, <1>2, RemovalInduction
<1> QED BY <1>3

\* Zeros need not be added.
LEMMA SumSupport ==
  ASSUME NEW f, NEW S, IsFiniteSet(S), IntValued(f, S), NEW A, A \subseteq S,
         \A x \in S \ A : f[x] = 0
  PROVE  SumFunctionOnSet(f, S) = SumFunctionOnSet(f, A)
<1>1. SumFunctionOnSet(f, S \ A) = 0
  BY SumZero, FS_Subset
<1>2. SumFunctionOnSet(f, A) \in Int
  BY SumInt, FS_Subset DEF IntValued
<1> QED BY <1>1, <1>2, SumSplit

LEMMA SumOne ==
  ASSUME NEW f, NEW e, f[e] \in Int
  PROVE  SumFunctionOnSet(f, {e}) = f[e]
<1>1. SumFunctionOnSet(f, {e}) = f[e] + SumFunctionOnSet(f, {e} \ {e})
  BY SumRemove, FS_Singleton DEF IntValued
<1>2. {e} \ {e} = {} /\ SumFunctionOnSet(f, {}) = 0
  BY SumEmpty
<1> QED BY <1>1, <1>2

\* A part of natural numbers has no greater sum than all of them.
LEMMA SumPart ==
  ASSUME NEW f, NEW S, IsFiniteSet(S), NatValued(f, S), NEW A, A \subseteq S
  PROVE  SumFunctionOnSet(f, A) <= SumFunctionOnSet(f, S)
<1>1. /\ SumFunctionOnSet(f, A) \in Nat /\ SumFunctionOnSet(f, S \ A) \in Nat
  BY SumNat, FS_Subset DEF NatValued
<1>2. SumFunctionOnSet(f, S) = SumFunctionOnSet(f, A) + SumFunctionOnSet(f, S \ A)
  BY SumSplit DEF NatValued, IntValued
<1> QED BY <1>1, <1>2

LEMMA SumElement ==
  ASSUME NEW f, NEW S, IsFiniteSet(S), NatValued(f, S), NEW e \in S
  PROVE  f[e] <= SumFunctionOnSet(f, S)
<1>1. SumFunctionOnSet(f, {e}) = f[e]
  BY SumOne DEF NatValued
<1>2. SumFunctionOnSet(f, {e}) <= SumFunctionOnSet(f, S)
  BY SumPart
<1> QED BY <1>1, <1>2

LEMMA SumPlus ==
  ASSUME NEW f, NEW g, NEW h, NEW S, IsFiniteSet(S), IntValued(f, S), IntValued(g, S),
         \A x \in S : h[x] = f[x] + g[x]
  PROVE  SumFunctionOnSet(h, S) = SumFunctionOnSet(f, S) + SumFunctionOnSet(g, S)
<1> DEFINE G == {T \in SUBSET S : SumFunctionOnSet(h, T)
                                    = SumFunctionOnSet(f, T) + SumFunctionOnSet(g, T)}
<1>1. {} \in G
  BY SumEmpty
<1>2. ASSUME NEW T \in SUBSET S, NEW e \in T, \A x \in T : T \ {x} \in G
      PROVE  T \in G
  <2> DEFINE U == T \ {e}
  <2>1. /\ IsFiniteSet(T) /\ IntValued(f, T) /\ IntValued(g, T) /\ IntValued(h, T)
        /\ IsFiniteSet(U) /\ IntValued(f, U) /\ IntValued(g, U)
    BY FS_Subset DEF IntValued
  <2>2. /\ SumFunctionOnSet(f, T) = f[e] + SumFunctionOnSet(f, U)
        /\ SumFunctionOnSet(g, T) = g[e] + SumFunctionOnSet(g, U)
        /\ SumFunctionOnSet(h, T) = h[e] + SumFunctionOnSet(h, U)
    BY <2>1, SumRemove
  <2>3. SumFunctionOnSet(f, U) \in Int /\ SumFunctionOnSet(g, U) \in Int
    BY <2>1, SumInt
  <2>4. f[e] \in Int /\ g[e] \in Int /\ h[e] = f[e] + g[e]
    BY DEF IntValued
  <2>5. SumFunctionOnSet(h, U) = SumFunctionOnSet(f, U) + SumFunctionOnSet(g, U)
    BY <1>2
  <2> HIDE DEF U
  <2> QED BY <2>2, <2>3, <2>4, <2>5
<1>3. SUBSET S \subseteq G
  <2> HIDE DEF G
  <2> QED BY <1>1, <1>2, RemovalInduction
<1> QED BY <1>3

\* Counting by class: the sum over the classes in S of how many elements of A
\* each has is how many elements of A are in one of them.
LEMMA SumOfClasses ==
  ASSUME NEW A, IsFiniteSet(A), NEW S, IsFiniteSet(S), NEW class, NEW f,
         \A x \in S : f[x] = Cardinality({k \in A : class[k] = x})
  PROVE  SumFunctionOnSet(f, S) = Cardinality({k \in A : class[k] \in S})
<1> DEFINE In(T) == {k \in A : class[k] \in T}
           G == {T \in SUBSET S : SumFunctionOnSet(f, T) = Cardinality(In(T))}
<1>1. {} \in G
  <2>1. In({}) = {}
    OBVIOUS
  <2> QED BY <2>1, SumEmpty, FS_EmptySet
<1>2. IntValued(f, S)
  <2> SUFFICES ASSUME NEW x \in S PROVE f[x] \in Int
    BY DEF IntValued
  <2>1. {k \in A : class[k] = x} \in SUBSET A
    OBVIOUS
  <2>2. IsFiniteSet({k \in A : class[k] = x})
    BY <2>1, FS_Subset
  <2>3. Cardinality({k \in A : class[k] = x}) \in Nat
    BY <2>2, FS_CardinalityType
  <2> QED BY <2>3
<1>3. ASSUME NEW T \in SUBSET S, NEW e \in T, \A x \in T : T \ {x} \in G
      PROVE  T \in G
  <2> DEFINE U == T \ {e}
             B == {k \in A : class[k] = e}
  <2>1. SumFunctionOnSet(f, T) = f[e] + SumFunctionOnSet(f, U)
    BY <1>2, SumRemove, FS_Subset DEF IntValued
  <2>2. In(T) = In(U) \cup B /\ In(U) \cap B = {} /\ In(U) \subseteq A /\ B \subseteq A
    OBVIOUS
  <2>3. /\ IsFiniteSet(In(U)) /\ IsFiniteSet(B)
        /\ Cardinality(In(U)) \in Nat /\ Cardinality(B) \in Nat
    BY <2>2, FS_Subset, FS_CardinalityType
  <2>4. Cardinality(In(T)) = Cardinality(In(U)) + Cardinality(B)
    <3> HIDE DEF In, U, B
    <3>1. Cardinality(In(U) \cup B)
            = Cardinality(In(U)) + Cardinality(B) - Cardinality(In(U) \cap B)
      BY <2>3, FS_Union
    <3>2. Cardinality(In(U) \cap B) = 0 /\ Cardinality(In(T)) = Cardinality(In(U) \cup B)
      BY <2>2, FS_EmptySet
    <3> QED BY <2>3, <3>1, <3>2
  <2>5. SumFunctionOnSet(f, U) = Cardinality(In(U)) /\ f[e] = Cardinality(B)
    BY <1>3
  <2>6. SumFunctionOnSet(f, T) = Cardinality(In(T))
    <3> HIDE DEF In, U, B
    <3> QED BY <2>1, <2>3, <2>4, <2>5
  <2> QED BY <2>6
<1>4. SUBSET S \subseteq G
  <2> HIDE DEF G
  <2> QED BY <1>1, <1>3, RemovalInduction
<1> QED BY <1>4

\* A sum over the image of an injective map is a sum over what it maps.
LEMMA SumReindex ==
  ASSUME NEW f, NEW g, NEW m, NEW S, IsFiniteSet(S), IntValued(g, S),
         \A x \in S : g[x] = f[m[x]],
         \A x, y \in S : m[x] = m[y] => x = y
  PROVE  SumFunctionOnSet(f, {m[x] : x \in S}) = SumFunctionOnSet(g, S)
<1> DEFINE Img(T) == {m[x] : x \in T}
           G == {T \in SUBSET S : /\ IsFiniteSet(Img(T))
                                  /\ SumFunctionOnSet(f, Img(T)) = SumFunctionOnSet(g, T)}
<1>1. {} \in G
  <2>1. Img({}) = {}
    OBVIOUS
  <2> QED BY <2>1, SumEmpty, FS_EmptySet
<1>2. ASSUME NEW T \in SUBSET S, NEW e \in T, \A x \in T : T \ {x} \in G
      PROVE  T \in G
  <2> DEFINE U == T \ {e}
  <2>1. Img(T) = Img(U) \cup {m[e]} /\ m[e] \notin Img(U)
    OBVIOUS
  <2>2. IsFiniteSet(Img(U)) /\ SumFunctionOnSet(f, Img(U)) = SumFunctionOnSet(g, U)
    BY <1>2
  <2>3. SumFunctionOnSet(g, T) = g[e] + SumFunctionOnSet(g, U)
    BY SumRemove, FS_Subset DEF IntValued
  <2>4. IntValued(f, Img(U) \cup {m[e]})
    BY DEF IntValued
  <2>5. g[e] = f[m[e]]
    OBVIOUS
  <2> DEFINE I == Img(U)
  <2>6. IsFiniteSet(I \cup {m[e]}) /\ SumFunctionOnSet(f, I \cup {m[e]}) = f[m[e]] + SumFunctionOnSet(f, I)
    <3>1. IsFiniteSet(I) /\ m[e] \notin I /\ IntValued(f, I \cup {m[e]})
      BY <2>1, <2>2, <2>4
    <3> HIDE DEF I
    <3> QED BY <3>1, SumAdd, FS_AddElement
  <2>7. IsFiniteSet(Img(T)) /\ SumFunctionOnSet(f, Img(T)) = SumFunctionOnSet(g, T)
    BY <2>1, <2>2, <2>3, <2>5, <2>6
  <2> QED BY <2>7
<1>3. SUBSET S \subseteq G
  <2> HIDE DEF G
  <2> QED BY <1>1, <1>2, RemovalInduction
<1> QED BY <1>3
=============================================================================
