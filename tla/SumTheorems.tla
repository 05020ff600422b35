----------------------------- MODULE SumTheorems -----------------------------
(***************************************************************************)
(* Facts about finite sets and about sums over them (FiniteSetsExt), as    *)
(* the proofs about the matcher's books, the batch log, the headers and    *)
(* the days of a forecast need them.                                       *)
(* Induction is by a minimal counterexample: strict inclusion is well      *)
(* founded on finite sets.                                                 *)
(***************************************************************************)
EXTENDS Integers, FiniteSetsExt, FiniteSetTheorems, WellFoundedInduction, TLAPS

HasMinimum(C) == \E T \in C : \A U \in C : U \subseteq T => U = T

\* A non-empty collection of finite sets has a minimal member.
LEMMA MinimalSet ==
    ASSUME NEW S, NEW C, C # {}, \A T \in C : T \subseteq S /\ IsFiniteSet(T)
    PROVE  HasMinimum(C)
<1>1. C \subseteq FiniteSubsetsOf(S)
  BY DEF FiniteSubsetsOf
<1>2. \E T \in C : \A U \in C : ~ (<<U, T>> \in StrictSubsetOrdering(S))
  BY <1>1, FS_StrictSubsetOrderingWellFounded, WFMin
<1>3. \A U, T \in SUBSET S : U \subseteq T /\ U # T => <<U, T>> \in StrictSubsetOrdering(S)
  BY DEF StrictSubsetOrdering
<1> QED
  BY <1>1, <1>2, <1>3 DEF HasMinimum, FiniteSubsetsOf

\* Induction: of the subsets of a finite set none is a minimal counterexample.
LEMMA NoDescent ==
    ASSUME NEW S, IsFiniteSet(S), NEW C, \A T \in C : T \subseteq S,
           \A T \in C : ~ (\A U \in C : U \subseteq T => U = T)
    PROVE  C = {}
<1> SUFFICES ASSUME C # {} PROVE FALSE
  OBVIOUS
<1>1. \A T \in C : T \subseteq S /\ IsFiniteSet(T)
  BY FS_Subset
<1>2. HasMinimum(C)
  BY <1>1, MinimalSet
<1> QED
  BY <1>2 DEF HasMinimum

\* A non-empty set of numbers has a least one.
LEMMA LeastNumber ==
    ASSUME NEW T \in SUBSET Nat, T # {}
    PROVE  \E n \in T : \A m \in T : n <= m
<1> DEFINE C == {1 .. n : n \in T}
<1>1. C # {}
  OBVIOUS
<1>2. \A X \in C : X \subseteq Nat /\ IsFiniteSet(X)
  <2>1. \A n \in Nat : 1 .. n \subseteq Nat /\ IsFiniteSet(1 .. n)
    BY FS_Interval
  <2> QED
    BY <2>1
<1>3. PICK X \in C : \A U \in C : U \subseteq X => U = X
  <2> HIDE DEF C
  <2>1. HasMinimum(C)
    BY <1>1, <1>2, MinimalSet
  <2> QED
    BY <2>1 DEF HasMinimum
<1>4. PICK n \in T : X = 1 .. n
  BY <1>3
<1>5. ASSUME NEW m \in T, ~ (n <= m) PROVE FALSE
  <2>1. 1 .. m \subseteq 1 .. n /\ n \in 1 .. n /\ n \notin 1 .. m
    BY <1>5
  <2> QED
    BY <1>3, <1>4, <2>1
<1> QED
  BY <1>5

-----------------------------------------------------------------------------
(***************************************************************************)
(* The sum unfolds.  A fold is a recursive function over the subsets of    *)
(* its set: first that there is one, then that all agree.                  *)
(***************************************************************************)
Pick(T) == CHOOSE x \in T : TRUE

\* g computes the sum of f over every set in D.
Computes(g, f, D) ==
    g = [T \in D |-> IF T = {} THEN 0 ELSE f[Pick(T)] + g[T \ {Pick(T)}]]

LEMMA PickMember == ASSUME NEW T, T # {} PROVE Pick(T) \in T
BY DEF Pick

LEMMA ComputesExists ==
    ASSUME NEW f, NEW S, IsFiniteSet(S)
    PROVE  \E g : Computes(g, f, SUBSET S)
<1> DEFINE D(n) == {T \in SUBSET S : Cardinality(T) <= n}
           Bad == {n \in Nat : ~ \E g : Computes(g, f, D(n))}
<1>1. \A T \in SUBSET S : IsFiniteSet(T) /\ Cardinality(T) \in Nat
  BY FS_Subset, FS_CardinalityType
<1>2. ASSUME NEW n \in Bad, \A m \in Bad : n <= m PROVE FALSE
  <2>1. n \in Nat
    OBVIOUS
  <2>2. CASE n = 0
    <3>1. \A T \in D(0) : T = {}
      BY <1>1, FS_EmptySet
    <3>2. Computes([T \in D(0) |-> 0], f, D(0))
      BY <3>1 DEF Computes
    <3> QED
      BY <2>2, <3>2
  <2>3. CASE n # 0
    <3>1. n - 1 \in Nat /\ ~ (n <= n - 1)
      BY <2>1, <2>3
    <3>2. PICK g : Computes(g, f, D(n - 1))
      <4> HIDE DEF D
      <4> QED
        BY <1>2, <3>1
    <3> DEFINE h == [T \in D(n) |-> IF T = {} THEN 0 ELSE f[Pick(T)] + g[T \ {Pick(T)}]]
    <3>3. ASSUME NEW T \in D(n), T # {}
          PROVE  T \ {Pick(T)} \in D(n - 1) /\ T \ {Pick(T)} \in D(n)
      <4>1. Pick(T) \in T /\ IsFiniteSet(T) /\ T \in SUBSET S /\ Cardinality(T) <= n
        BY <1>1, <3>3, PickMember
      <4>2. Cardinality(T \ {Pick(T)}) = Cardinality(T) - 1
        BY <4>1, FS_RemoveElement
      <4> QED
        BY <1>1, <2>1, <4>1, <4>2
    <3>4. \A T \in D(n - 1) : T \in D(n) /\ h[T] = g[T]
      <4>1. \A T \in D(n - 1) : T \in D(n)
        BY <1>1, <2>1
      <4>2. \A T \in D(n - 1) : g[T] = IF T = {} THEN 0 ELSE f[Pick(T)] + g[T \ {Pick(T)}]
        BY <3>2 DEF Computes
      <4> QED
        BY <4>1, <4>2
    <3>5. \A T \in D(n) : h[T] = IF T = {} THEN 0 ELSE f[Pick(T)] + h[T \ {Pick(T)}]
      BY <3>3, <3>4
    <3>6. h = [T \in D(n) |-> h[T]]
      OBVIOUS
    <3> HIDE DEF h, D
    <3>7. Computes(h, f, D(n))
      BY <3>5, <3>6 DEF Computes
    <3> QED
      BY <3>7
  <2> QED
    BY <2>2, <2>3
<1>3. Bad = {}
  BY <1>2, LeastNumber
<1>4. PICK g : Computes(g, f, D(Cardinality(S)))
  BY <1>1, <1>3
<1>5. D(Cardinality(S)) = SUBSET S
  BY FS_Subset
<1> QED
  BY <1>4, <1>5

LEMMA SumIsComputed ==
    ASSUME NEW f, NEW S, IsFiniteSet(S)
    PROVE  \E g : Computes(g, f, SUBSET S) /\ SumFunctionOnSet(f, S) = g[S]
<1> DEFINE g == CHOOSE h : Computes(h, f, SUBSET S)
<1>1. Computes(g, f, SUBSET S)
  BY ComputesExists
<1>2. SumFunctionOnSet(f, S) = g[S]
  BY DEF SumFunctionOnSet, FoldFunctionOnSet, MapThenFoldSet, Computes, Pick
<1> QED
  BY <1>1, <1>2

Sums(g, f, S) == \A T \in SUBSET S : g[T] = SumFunctionOnSet(f, T)

LEMMA ComputesSum ==
    ASSUME NEW f, NEW S, IsFiniteSet(S), NEW g, Computes(g, f, SUBSET S)
    PROVE  Sums(g, f, S)
<1> DEFINE Bad == {T \in SUBSET S : \E X \in SUBSET S : \E h :
                       /\ T \subseteq X /\ Computes(h, f, SUBSET X)
                       /\ h[T] # SumFunctionOnSet(f, T)}
<1>1. \A T \in SUBSET S : IsFiniteSet(T)
  BY FS_Subset
<1>2. ASSUME NEW T \in Bad, \A U \in Bad : U \subseteq T => U = T PROVE FALSE
  <2>1. PICK X, h : /\ X \in SUBSET S /\ T \subseteq X /\ Computes(h, f, SUBSET X)
                    /\ h[T] # SumFunctionOnSet(f, T)
    BY <1>2
  <2>2. PICK k : Computes(k, f, SUBSET T) /\ SumFunctionOnSet(f, T) = k[T]
    BY <1>1, SumIsComputed
  <2>3. /\ h[T] = IF T = {} THEN 0 ELSE f[Pick(T)] + h[T \ {Pick(T)}]
        /\ k[T] = IF T = {} THEN 0 ELSE f[Pick(T)] + k[T \ {Pick(T)}]
    BY <2>1, <2>2 DEF Computes
  <2>4. CASE T = {}
    BY <2>1, <2>2, <2>3, <2>4
  <2>5. CASE T # {}
    <3>1. Pick(T) \in T
      BY <2>5, PickMember
    <3>2. T \ {Pick(T)} \in SUBSET S /\ T \ {Pick(T)} \notin Bad
      BY <1>2, <3>1
    <3>3. h[T \ {Pick(T)}] = k[T \ {Pick(T)}]
      BY <2>1, <2>2, <3>2
    <3> QED
      BY <2>1, <2>2, <2>3, <2>5, <3>3
  <2> QED
    BY <2>4, <2>5
<1>3. Bad = {}
  <2>1. \A X \in Bad : X \subseteq S
    OBVIOUS
  <2> HIDE DEF Bad
  <2> QED
    BY <1>2, <2>1, NoDescent
<1> QED
  BY <1>3 DEF Sums

LEMMA SumEmpty == \A f : SumFunctionOnSet(f, {}) = 0
<1> TAKE f
<1>1. PICK g : Computes(g, f, SUBSET {}) /\ SumFunctionOnSet(f, {}) = g[{}]
  BY FS_EmptySet, SumIsComputed
<1> QED
  BY <1>1 DEF Computes

LEMMA SumPick ==
    ASSUME NEW f, NEW S, IsFiniteSet(S), S # {}
    PROVE  /\ Pick(S) \in S
           /\ SumFunctionOnSet(f, S)
                = f[Pick(S)] + SumFunctionOnSet(f, S \ {Pick(S)})
<1>1. PICK g : Computes(g, f, SUBSET S) /\ SumFunctionOnSet(f, S) = g[S]
  BY SumIsComputed
<1>2. Pick(S) \in S /\ S \ {Pick(S)} \in SUBSET S
  BY PickMember
<1>3. g[S] = f[Pick(S)] + g[S \ {Pick(S)}]
  BY <1>1 DEF Computes
<1>4. Sums(g, f, S)
  BY <1>1, ComputesSum
<1> QED
  BY <1>1, <1>2, <1>3, <1>4 DEF Sums

-----------------------------------------------------------------------------
(***************************************************************************)
(* Sums of integers: the order of the summands does not matter.            *)
(***************************************************************************)
IntegerOn(f, S) == \A x \in S : f[x] \in Int

Takes(f, S) ==
    /\ SumFunctionOnSet(f, S) \in Int
    /\ \A x \in S : SumFunctionOnSet(f, S) = f[x] + SumFunctionOnSet(f, S \ {x})

LEMMA SumTakes ==
    ASSUME NEW f, NEW S, IsFiniteSet(S), IntegerOn(f, S)
    PROVE  Takes(f, S)
<1> DEFINE Bad == {T \in SUBSET S : ~ Takes(f, T)}
<1>1. \A T \in SUBSET S : IsFiniteSet(T) /\ IntegerOn(f, T)
  BY FS_Subset DEF IntegerOn
<1>2. ASSUME NEW T \in Bad, \A U \in Bad : U \subseteq T => U = T PROVE FALSE
  <2>1. T \in SUBSET S /\ IsFiniteSet(T) /\ ~ Takes(f, T)
    BY <1>1
  <2>2. T # {}
    BY <2>1, SumEmpty DEF Takes
  <2> DEFINE c == Pick(T)
  <2>3. c \in T /\ SumFunctionOnSet(f, T) = f[c] + SumFunctionOnSet(f, T \ {c})
    BY <2>1, <2>2, SumPick
  <2> HIDE DEF c
  <2>4. \A x \in T : f[x] \in Int /\ Takes(f, T \ {x})
    <3> TAKE x \in T
    <3>1. T \ {x} \in SUBSET S /\ T \ {x} # T /\ T \ {x} \subseteq T
      BY <2>1
    <3> QED
      BY <1>1, <1>2, <2>1, <3>1 DEF IntegerOn
  <2>5. SumFunctionOnSet(f, T) \in Int
    BY <2>3, <2>4 DEF Takes
  <2>6. ASSUME NEW x \in T
        PROVE  SumFunctionOnSet(f, T) = f[x] + SumFunctionOnSet(f, T \ {x})
    <3>1. CASE x = c
      BY <2>3, <3>1
    <3>2. CASE x # c
      <4>1. x \in T \ {c} /\ c \in T \ {x} /\ (T \ {c}) \ {x} = (T \ {x}) \ {c}
        BY <2>3, <3>2
      <4>2. SumFunctionOnSet(f, T \ {c}) = f[x] + SumFunctionOnSet(f, (T \ {c}) \ {x})
        BY <2>3, <2>4, <4>1 DEF Takes
      <4>3. SumFunctionOnSet(f, T \ {x}) = f[c] + SumFunctionOnSet(f, (T \ {x}) \ {c})
        BY <2>4, <4>1 DEF Takes
      <4>4. SumFunctionOnSet(f, (T \ {x}) \ {c}) \in Int
        <5>1. (T \ {x}) \ {c} \in SUBSET S
          BY <2>1
        <5>2. (T \ {x}) \ {c} \subseteq T /\ (T \ {x}) \ {c} # T
          BY <2>3
        <5> QED
          BY <1>2, <5>1, <5>2 DEF Takes
      <4> QED
        BY <2>3, <2>4, <4>1, <4>2, <4>3, <4>4
    <3> QED
      BY <3>1, <3>2
  <2> QED
    BY <2>1, <2>5, <2>6 DEF Takes
<1>3. Bad = {}
  <2>1. \A X \in Bad : X \subseteq S
    OBVIOUS
  <2> HIDE DEF Bad
  <2> QED
    BY <1>2, <2>1, NoDescent
<1> QED
  BY <1>3

\* The sum of integers is an integer.
LEMMA SumType ==
    ASSUME NEW f, NEW S, IsFiniteSet(S), IntegerOn(f, S)
    PROVE  SumFunctionOnSet(f, S) \in Int
BY SumTakes DEF Takes

\* Any summand may be taken out of the sum.
LEMMA SumRemove ==
    ASSUME NEW f, NEW S, IsFiniteSet(S), IntegerOn(f, S), NEW x \in S
    PROVE  SumFunctionOnSet(f, S) = f[x] + SumFunctionOnSet(f, S \ {x})
BY SumTakes DEF Takes

\* Functions that agree on a set have the same sum over it.
LEMMA SumCongruent ==
    ASSUME NEW f, NEW g, NEW S, IsFiniteSet(S), \A x \in S : f[x] = g[x]
    PROVE  SumFunctionOnSet(f, S) = SumFunctionOnSet(g, S)
<1> DEFINE Bad == {T \in SUBSET S : SumFunctionOnSet(f, T) # SumFunctionOnSet(g, T)}
<1>1. ASSUME NEW T \in Bad, \A U \in Bad : U \subseteq T => U = T PROVE FALSE
  <2>1. T \in SUBSET S /\ IsFiniteSet(T)
    BY FS_Subset
  <2>2. T # {}
    BY SumEmpty
  <2>3. /\ Pick(T) \in T
        /\ SumFunctionOnSet(f, T) = f[Pick(T)] + SumFunctionOnSet(f, T \ {Pick(T)})
        /\ SumFunctionOnSet(g, T) = g[Pick(T)] + SumFunctionOnSet(g, T \ {Pick(T)})
    BY <2>1, <2>2, SumPick
  <2>4. T \ {Pick(T)} \notin Bad
    BY <1>1, <2>3
  <2> QED
    BY <2>1, <2>3, <2>4
<1>3. Bad = {}
  <2>1. \A X \in Bad : X \subseteq S
    OBVIOUS
  <2> HIDE DEF Bad
  <2> QED
    BY <1>1, <2>1, NoDescent
<1> QED
  BY <1>3

\* Sums over disjoint sets add up.
LEMMA SumUnion ==
    ASSUME NEW f, NEW S, NEW T, IsFiniteSet(S), IsFiniteSet(T),
           IntegerOn(f, S), IntegerOn(f, T), S \cap T = {}
    PROVE  SumFunctionOnSet(f, S \cup T) = SumFunctionOnSet(f, S) + SumFunctionOnSet(f, T)
<1> DEFINE Bad == {U \in SUBSET T : SumFunctionOnSet(f, S \cup U)
                                      # SumFunctionOnSet(f, S) + SumFunctionOnSet(f, U)}
<1>1. ASSUME NEW U \in Bad, \A V \in Bad : V \subseteq U => V = U PROVE FALSE
  <2>1. /\ U \in SUBSET T /\ IsFiniteSet(U) /\ IsFiniteSet(S \cup U)
        /\ IntegerOn(f, U) /\ IntegerOn(f, S \cup U)
    BY FS_Subset, FS_Union DEF IntegerOn
  <2>2. U # {}
    <3> SUFFICES ASSUME U = {} PROVE FALSE
      OBVIOUS
    <3>1. SumFunctionOnSet(f, S) \in Int /\ S \cup U = S
      BY SumType
    <3> QED
      BY <3>1, SumEmpty
  <2>3. PICK x \in U : TRUE
    BY <2>2
  <2>4. x \in T /\ x \notin S /\ x \in S \cup U /\ (S \cup U) \ {x} = S \cup (U \ {x})
    BY <2>1
  <2>5. SumFunctionOnSet(f, S \cup U) = f[x] + SumFunctionOnSet(f, S \cup (U \ {x}))
    BY <2>1, <2>4, SumRemove
  <2>6. SumFunctionOnSet(f, U) = f[x] + SumFunctionOnSet(f, U \ {x})
    BY <2>1, <2>3, SumRemove
  <2>7. SumFunctionOnSet(f, S \cup (U \ {x}))
          = SumFunctionOnSet(f, S) + SumFunctionOnSet(f, U \ {x})
    BY <1>1, <2>1
  <2>8. f[x] \in Int /\ SumFunctionOnSet(f, S) \in Int /\ SumFunctionOnSet(f, U \ {x}) \in Int
    <3>1. IsFiniteSet(U \ {x}) /\ IntegerOn(f, U \ {x})
      BY <2>1, FS_Subset DEF IntegerOn
    <3> QED
      BY <2>1, <3>1, SumType DEF IntegerOn
  <2> QED
    BY <2>5, <2>6, <2>7, <2>8
<1>3. Bad = {}
  <2>1. \A X \in Bad : X \subseteq T
    OBVIOUS
  <2> HIDE DEF Bad
  <2> QED
    BY <1>1, <2>1, NoDescent
<1> QED
  BY <1>3

\* Summands that are zero add nothing.
LEMMA SumZero ==
    ASSUME NEW f, NEW S, IsFiniteSet(S), \A x \in S : f[x] = 0
    PROVE  SumFunctionOnSet(f, S) = 0
<1> DEFINE Bad == {T \in SUBSET S : SumFunctionOnSet(f, T) # 0}
<1>1. ASSUME NEW T \in Bad, \A U \in Bad : U \subseteq T => U = T PROVE FALSE
  <2>1. T \in SUBSET S /\ IsFiniteSet(T)
    BY FS_Subset
  <2>2. T # {}
    BY SumEmpty
  <2>3. /\ Pick(T) \in T
        /\ SumFunctionOnSet(f, T) = f[Pick(T)] + SumFunctionOnSet(f, T \ {Pick(T)})
    BY <2>1, <2>2, SumPick
  <2>4. T \ {Pick(T)} \notin Bad
    BY <1>1, <2>3
  <2> QED
    BY <2>1, <2>3, <2>4
<1>3. Bad = {}
  <2>1. \A X \in Bad : X \subseteq S
    OBVIOUS
  <2> HIDE DEF Bad
  <2> QED
    BY <1>1, <2>1, NoDescent
<1> QED
  BY <1>3

\* The sum of differences is the difference of the sums.
LEMMA SumDifference ==
    ASSUME NEW f, NEW g, NEW h, NEW S, IsFiniteSet(S), IntegerOn(f, S), IntegerOn(g, S),
           \A x \in S : h[x] = f[x] - g[x]
    PROVE  SumFunctionOnSet(h, S) = SumFunctionOnSet(f, S) - SumFunctionOnSet(g, S)
<1> DEFINE Bad == {T \in SUBSET S : SumFunctionOnSet(h, T)
                                      # SumFunctionOnSet(f, T) - SumFunctionOnSet(g, T)}
<1>1. ASSUME NEW T \in Bad, \A U \in Bad : U \subseteq T => U = T PROVE FALSE
  <2>1. T \in SUBSET S /\ IsFiniteSet(T) /\ IntegerOn(f, T) /\ IntegerOn(g, T)
    BY FS_Subset DEF IntegerOn
  <2>2. T # {}
    BY SumEmpty
  <2>3. PICK x \in T : TRUE
    BY <2>2
  <2>4. /\ SumFunctionOnSet(f, T) = f[x] + SumFunctionOnSet(f, T \ {x})
        /\ SumFunctionOnSet(g, T) = g[x] + SumFunctionOnSet(g, T \ {x})
    BY <2>1, SumRemove
  <2>5. SumFunctionOnSet(h, T) = h[x] + SumFunctionOnSet(h, T \ {x})
    <3>1. IntegerOn(h, T)
      BY <2>1 DEF IntegerOn
    <3> QED
      BY <2>1, <3>1, SumRemove
  <2>6. SumFunctionOnSet(h, T \ {x})
          = SumFunctionOnSet(f, T \ {x}) - SumFunctionOnSet(g, T \ {x})
    BY <1>1, <2>1
  <2>7. /\ f[x] \in Int /\ g[x] \in Int /\ h[x] = f[x] - g[x]
        /\ SumFunctionOnSet(f, T \ {x}) \in Int /\ SumFunctionOnSet(g, T \ {x}) \in Int
    <3>1. IsFiniteSet(T \ {x}) /\ IntegerOn(f, T \ {x}) /\ IntegerOn(g, T \ {x})
      BY <2>1, FS_Subset DEF IntegerOn
    <3> QED
      BY <2>1, <3>1, SumType DEF IntegerOn
  <2> QED
    BY <2>4, <2>5, <2>6, <2>7
<1>2. Bad = {}
  <2>1. \A X \in Bad : X \subseteq S
    OBVIOUS
  <2> HIDE DEF Bad
  <2> QED
    BY <1>1, <2>1, NoDescent
<1> QED
  BY <1>2

ClassOf(k, S, d) == {x \in S : k[x] = d}

\* Adding up the sums of the classes of a set is adding up the set.
LEMMA SumByClass ==
    ASSUME NEW f, NEW S, IsFiniteSet(S), IntegerOn(f, S),
           NEW k, NEW D, IsFiniteSet(D), \A x \in S : k[x] \in D,
           NEW F, \A d \in D : F[d] = SumFunctionOnSet(f, ClassOf(k, S, d))
    PROVE  SumFunctionOnSet(F, D) = SumFunctionOnSet(f, S)
<1> DEFINE In(U) == {x \in S : k[x] \in U}
           Class(d) == ClassOf(k, S, d)
           Bad == {U \in SUBSET D : SumFunctionOnSet(F, U) # SumFunctionOnSet(f, In(U))}
<1>0. \A T \in SUBSET S : /\ IsFiniteSet(T) /\ IntegerOn(f, T)
                          /\ SumFunctionOnSet(f, T) \in Int
  BY FS_Subset, SumType DEF IntegerOn
<1>1. ASSUME NEW U \in Bad, \A V \in Bad : V \subseteq U => V = U PROVE FALSE
  <2>1. U \in SUBSET D /\ IsFiniteSet(U) /\ IntegerOn(F, U)
    <3>1. \A d \in D : Class(d) \in SUBSET S
      BY DEF ClassOf
    <3>2. \A d \in D : F[d] \in Int
      BY <1>0, <3>1
    <3> QED
      BY <3>2, FS_Subset DEF IntegerOn
  <2>2. U # {}
    <3> SUFFICES ASSUME U = {} PROVE FALSE
      OBVIOUS
    <3>1. In(U) = {}
      OBVIOUS
    <3> QED
      BY <3>1, SumEmpty
  <2>3. PICK d \in U : TRUE
    BY <2>2
  <2>4. SumFunctionOnSet(F, U) = F[d] + SumFunctionOnSet(F, U \ {d})
    BY <2>1, SumRemove
  <2>5. F[d] = SumFunctionOnSet(f, Class(d))
    BY <2>1
  <2>6. SumFunctionOnSet(F, U \ {d}) = SumFunctionOnSet(f, In(U \ {d}))
    BY <1>1, <2>1
  <2>7. /\ In(U) = Class(d) \cup In(U \ {d}) /\ Class(d) \cap In(U \ {d}) = {}
        /\ Class(d) \in SUBSET S /\ In(U \ {d}) \in SUBSET S
    BY DEF ClassOf
  <2> HIDE DEF In, Class
  <2>8. SumFunctionOnSet(f, In(U))
          = SumFunctionOnSet(f, Class(d)) + SumFunctionOnSet(f, In(U \ {d}))
    <3>1. /\ IsFiniteSet(Class(d)) /\ IntegerOn(f, Class(d))
          /\ IsFiniteSet(In(U \ {d})) /\ IntegerOn(f, In(U \ {d}))
      BY <1>0, <2>7
    <3>2. SumFunctionOnSet(f, Class(d) \cup In(U \ {d}))
            = SumFunctionOnSet(f, Class(d)) + SumFunctionOnSet(f, In(U \ {d}))
      BY <2>7, <3>1, SumUnion
    <3> QED
      BY <2>7, <3>2
  <2> QED
    BY <2>4, <2>5, <2>6, <2>8
<1>2. Bad = {}
  <2>1. \A X \in Bad : X \subseteq D
    OBVIOUS
  <2> HIDE DEF Bad
  <2> QED
    BY <1>1, <2>1, NoDescent
<1>3. In(D) = S
  OBVIOUS
<1> QED
  BY <1>2, <1>3
==============================================================================
