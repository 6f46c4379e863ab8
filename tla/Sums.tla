--------------------------------- MODULE Sums ---------------------------------
(***************************************************************************)
(* Facts about SumFunctionOnSet(f, S), the sum of f[x] over the x of a     *)
(* finite set S.  A set is summed up in whatever order CHOOSE takes its    *)
(* elements; the lemmas of this module make the order irrelevant.          *)
(***************************************************************************)
EXTENDS Functions, FiniteSetTheorems, TLAPS

Chosen(s) == CHOOSE x \in s : TRUE

\* g has the sums of f over the sets of D, each from that without one of its elements.
SumsUp(g, f, D) ==
    g = [s \in D |-> IF s = {} THEN 0 ELSE f[Chosen(s)] + g[s \ {Chosen(s)}]]

\* The sum is what any function that sums up the subsets says, should there be one.
LEMMA SumIsChosen ==
    ASSUME NEW f, NEW S
    PROVE  SumFunctionOnSet(f, S) = (CHOOSE g : SumsUp(g, f, SUBSET S))[S]
  BY DEF SumFunctionOnSet, FoldFunctionOnSet, MapThenFoldSet, SumsUp, Chosen

\* Induction over the subsets of a finite set, for a set B of them in the place of a formula.
LEMMA SubsetInduction ==
    ASSUME NEW S, IsFiniteSet(S), NEW B,
           \A T \in SUBSET S : (\A x \in T : T \ {x} \in B) => T \in B
    PROVE  \A T \in SUBSET S : T \in B
<1> DEFINE R == StrictSubsetOrdering(S)
           Bad == {T \in SUBSET S : T \notin B}
<1>1. IsWellFoundedOn(R, FiniteSubsetsOf(S)) /\ FiniteSubsetsOf(S) = SUBSET S
  BY FS_StrictSubsetOrderingWellFounded, FS_FiniteSubsetsOfFinite
<1>2. ASSUME NEW T \in SUBSET S, NEW x \in T PROVE T \ {x} \in SUBSET S /\ <<T \ {x}, T>> \in R
  BY DEF StrictSubsetOrdering
<1>3. Bad \in SUBSET (SUBSET S) /\ \A T \in SUBSET S : T \in Bad <=> T \notin B
  OBVIOUS
<1> HIDE DEF R, Bad
<1>4. SUFFICES ASSUME Bad # {} PROVE FALSE
  BY <1>3
<1>5. PICK T \in Bad : \A V \in Bad : ~ (<<V, T>> \in R)
  BY <1>1, <1>3, <1>4, WFMin
<1>6. ASSUME NEW x \in T PROVE T \ {x} \in B
  <2>1. T \ {x} \in SUBSET S /\ <<T \ {x}, T>> \in R
    BY <1>2, <1>3
  <2>2. T \ {x} \notin Bad
    BY <1>5, <2>1
  <2> QED
    BY <1>3, <2>1, <2>2
<1> QED
  BY <1>3, <1>5, <1>6

\* A set and its subsets have the same elements chosen, so functions that sum up agree.
LEMMA SumsUpAgree ==
    ASSUME NEW f, NEW S, IsFiniteSet(S), NEW D, NEW E, SUBSET S \subseteq D, SUBSET S \subseteq E,
           NEW g, SumsUp(g, f, D), NEW h, SumsUp(h, f, E)
    PROVE  g[S] = h[S]
<1> DEFINE B == {T \in SUBSET S : g[T] = h[T]}
<1>1. ASSUME NEW T \in SUBSET S, \A x \in T : T \ {x} \in B
      PROVE  T \in B
  <2>1. /\ g[T] = IF T = {} THEN 0 ELSE f[Chosen(T)] + g[T \ {Chosen(T)}]
        /\ h[T] = IF T = {} THEN 0 ELSE f[Chosen(T)] + h[T \ {Chosen(T)}]
    <3>1. T \in D /\ T \in E
      OBVIOUS
    <3> QED
      BY <3>1 DEF SumsUp
  <2>2. CASE T = {}
    BY <2>1, <2>2
  <2>3. CASE T # {}
    <3>1. Chosen(T) \in T
      BY <2>3 DEF Chosen
    <3>2. T \ {Chosen(T)} \in B
      BY <1>1, <3>1
    <3> QED
      BY <2>1, <2>3, <3>2
  <2> QED
    BY <2>2, <2>3
<1> HIDE DEF B
<1>2. \A T \in SUBSET S : T \in B
  BY <1>1, SubsetInduction
<1> QED
  BY <1>2 DEF B

\* The subsets of S with n elements or fewer.
UpTo(n, S) == {T \in SUBSET S : Cardinality(T) <= n}

\* The subsets of some size and below can be summed up.
LEMMA SumsUpExists ==
    ASSUME NEW f, NEW S, IsFiniteSet(S)
    PROVE  \A n \in Nat : \E g : SumsUp(g, f, UpTo(n, S))
<1> DEFINE R == OpToRel(<, Nat)
           Bad == {n \in Nat : ~ \E g : SumsUp(g, f, UpTo(n, S))}
<1>1. IsWellFoundedOn(R, Nat)
  BY NatLessThanWellFounded
<1>2. \A n \in Nat : n > 0 => <<n - 1, n>> \in R
  BY DEF OpToRel
<1>3. Bad \in SUBSET Nat /\ \A n \in Nat : n \in Bad <=> ~ \E g : SumsUp(g, f, UpTo(n, S))
  OBVIOUS
<1> HIDE DEF R, Bad
<1>4. SUFFICES ASSUME Bad # {} PROVE FALSE
  BY <1>3
<1>5. PICK n \in Bad : \A m \in Bad : ~ (<<m, n>> \in R)
  BY <1>1, <1>3, <1>4, WFMin
<1>6. \A T \in SUBSET S : IsFiniteSet(T) /\ Cardinality(T) \in Nat
  BY FS_Subset, FS_CardinalityType
<1>7. CASE n = 0
  <2>1. UpTo(0, S) = {{}}
    <3>1. ASSUME NEW T \in UpTo(0, S) PROVE T = {}
      <4>1. IsFiniteSet(T) /\ Cardinality(T) = 0
        BY <1>6 DEF UpTo
      <4> QED
        BY <4>1, FS_EmptySet
    <3>2. {} \in UpTo(0, S)
      BY FS_EmptySet DEF UpTo
    <3> QED
      BY <3>1, <3>2
  <2>2. SumsUp([s \in {{}} |-> 0], f, UpTo(0, S))
    BY <2>1 DEF SumsUp
  <2> QED
    BY <1>3, <1>7, <2>2
<1>8. CASE n # 0
  <2>1. n - 1 \in Nat /\ n \in Nat /\ <<n - 1, n>> \in R
    BY <1>2, <1>3, <1>8
  <2>2. PICK g : SumsUp(g, f, UpTo(n - 1, S))
    BY <1>3, <1>5, <2>1
  <2> DEFINE h == [s \in UpTo(n, S) |-> IF s = {} THEN 0 ELSE f[Chosen(s)] + g[s \ {Chosen(s)}]]
  <2>3. ASSUME NEW T \in UpTo(n, S), T # {}
        PROVE  /\ T \ {Chosen(T)} \in UpTo(n - 1, S)
               /\ T \ {Chosen(T)} \in UpTo(n, S)
    <3>1. Chosen(T) \in T /\ T \in SUBSET S /\ Cardinality(T) <= n
      BY <2>3 DEF Chosen, UpTo
    <3>2. Cardinality(T \ {Chosen(T)}) = Cardinality(T) - 1 /\ Cardinality(T) \in Nat
      BY <1>6, <3>1, FS_RemoveElement
    <3>3. T \ {Chosen(T)} \in SUBSET S
      BY <3>1
    <3> QED
      BY <2>1, <3>1, <3>2, <3>3 DEF UpTo
  <2>4. ASSUME NEW T \in UpTo(n - 1, S) PROVE T \in UpTo(n, S) /\ g[T] = h[T]
    <3>1. T \in UpTo(n, S)
      BY <1>6, <2>1 DEF UpTo
    <3>2. g[T] = IF T = {} THEN 0 ELSE f[Chosen(T)] + g[T \ {Chosen(T)}]
      BY <2>2 DEF SumsUp
    <3> QED
      BY <3>1, <3>2
  <2>5. SumsUp(h, f, UpTo(n, S))
    <3>1. ASSUME NEW T \in UpTo(n, S)
          PROVE  h[T] = IF T = {} THEN 0 ELSE f[Chosen(T)] + h[T \ {Chosen(T)}]
      BY <2>3, <2>4
    <3>2. h = [s \in UpTo(n, S) |-> h[s]]
      OBVIOUS
    <3> HIDE DEF h
    <3> QED
      BY <3>1, <3>2 DEF SumsUp
  <2> QED
    BY <1>3, <2>1, <2>5
<1> QED
  BY <1>7, <1>8

\* The sum over a finite set, by the element that is chosen first.
LEMMA SumByChosen ==
    ASSUME NEW f, NEW S, IsFiniteSet(S)
    PROVE  SumFunctionOnSet(f, S) =
              IF S = {} THEN 0 ELSE f[Chosen(S)] + SumFunctionOnSet(f, S \ {Chosen(S)})
<1>1. ASSUME NEW T, IsFiniteSet(T)
      PROVE  \E g : SumsUp(g, f, SUBSET T) /\ SumFunctionOnSet(f, T) = g[T]
  <2>1. Cardinality(T) \in Nat
    BY <1>1, FS_CardinalityType
  <2>2. UpTo(Cardinality(T), T) = SUBSET T
    BY <1>1, FS_Subset DEF UpTo
  <2>3. \E g : SumsUp(g, f, SUBSET T)
    <3>1. \A n \in Nat : \E g : SumsUp(g, f, UpTo(n, T))
      BY <1>1, SumsUpExists
    <3> QED
      BY <2>1, <2>2, <3>1
  <2>4. SumsUp(CHOOSE g : SumsUp(g, f, SUBSET T), f, SUBSET T)
    BY <2>3
  <2> QED
    BY <2>4, SumIsChosen
<1>2. PICK g : SumsUp(g, f, SUBSET S) /\ SumFunctionOnSet(f, S) = g[S]
  BY <1>1
<1>3. g[S] = IF S = {} THEN 0 ELSE f[Chosen(S)] + g[S \ {Chosen(S)}]
  <2>1. S \in SUBSET S
    OBVIOUS
  <2> QED
    BY <1>2, <2>1 DEF SumsUp
<1>4. ASSUME S # {} PROVE g[S \ {Chosen(S)}] = SumFunctionOnSet(f, S \ {Chosen(S)})
  <2> DEFINE T == S \ {Chosen(S)}
  <2>1. IsFiniteSet(T) /\ SUBSET T \subseteq SUBSET S
    BY FS_RemoveElement
  <2> HIDE DEF T
  <2>2. PICK h : SumsUp(h, f, SUBSET T) /\ SumFunctionOnSet(f, T) = h[T]
    BY <1>1, <2>1
  <2>3. g[T] = h[T]
    BY <1>2, <2>1, <2>2, SumsUpAgree
  <2> QED
    BY <2>2, <2>3 DEF T
<1> QED
  BY <1>2, <1>3, <1>4

----------------------------------------------------------------------------
(* The facts that proofs about a component cite *)

\* Nothing sums up to zero.
LEMMA SumEmpty == \A f : SumFunctionOnSet(f, {}) = 0
  BY SumByChosen, FS_EmptySet

\* A sum of integers is that of all but one of them and this one, whichever it is.
LEMMA SumRemove ==
    ASSUME NEW f, NEW S, IsFiniteSet(S), \A x \in S : f[x] \in Int
    PROVE  /\ SumFunctionOnSet(f, S) \in Int
           /\ \A x \in S : SumFunctionOnSet(f, S) = f[x] + SumFunctionOnSet(f, S \ {x})
<1> DEFINE Sum(T) == SumFunctionOnSet(f, T)
           B == {T \in SUBSET S :
                   /\ Sum(T) \in Int
                   /\ \A x \in T : Sum(T) = f[x] + Sum(T \ {x}) /\ Sum(T \ {x}) \in Int}
<1>1. ASSUME NEW T \in SUBSET S, \A x \in T : T \ {x} \in B
      PROVE  T \in B
  <2>1. IsFiniteSet(T)
    BY FS_Subset
  <2>2. CASE T = {}
    BY <2>2, SumEmpty
  <2>3. CASE T # {}
    <3>1. PICK c \in T : c = Chosen(T)
      BY <2>3 DEF Chosen
    <3>2. Sum(T) = f[c] + Sum(T \ {c})
      BY <2>1, <2>3, <3>1, SumByChosen
    <3>3. f[c] \in Int /\ Sum(T \ {c}) \in Int
      BY <1>1
    <3>4. ASSUME NEW x \in T, x # c PROVE Sum(T) = f[x] + Sum(T \ {x})
      <4>1. Sum(T \ {c}) = f[x] + Sum((T \ {c}) \ {x})
        BY <1>1, <3>4
      <4>2. Sum(T \ {x}) = f[c] + Sum((T \ {x}) \ {c}) /\ Sum(T \ {x}) \in Int
        BY <1>1, <3>4
      <4>3. (T \ {c}) \ {x} = (T \ {x}) \ {c}
        OBVIOUS
      <4>4. f[x] \in Int /\ Sum((T \ {x}) \ {c}) \in Int
        BY <1>1, <3>4
      <4> QED
        BY <3>2, <3>3, <4>1, <4>2, <4>3, <4>4
    <3>5. Sum(T) \in Int /\ \A x \in T : Sum(T \ {x}) \in Int
      BY <1>1, <3>2, <3>3
    <3> HIDE DEF Sum
    <3> QED
      BY <3>2, <3>4, <3>5
  <2> QED
    BY <2>2, <2>3
<1> HIDE DEF B
<1>2. \A T \in SUBSET S : T \in B
  BY <1>1, SubsetInduction
<1> QED
  BY <1>2 DEF B

\* A sum with one more element.
LEMMA SumAdd ==
    ASSUME NEW f, NEW S, IsFiniteSet(S), NEW x, x \notin S, \A y \in S \cup {x} : f[y] \in Int
    PROVE  SumFunctionOnSet(f, S \cup {x}) = f[x] + SumFunctionOnSet(f, S)
<1>1. IsFiniteSet(S \cup {x}) /\ (S \cup {x}) \ {x} = S /\ x \in S \cup {x}
  BY FS_AddElement
<1> QED
  BY <1>1, SumRemove

\* The sum depends on the values of the function on the set only.
LEMMA SumEqual ==
    ASSUME NEW f, NEW g, NEW S, IsFiniteSet(S), \A x \in S : f[x] = g[x]
    PROVE  SumFunctionOnSet(f, S) = SumFunctionOnSet(g, S)
<1> DEFINE B == {T \in SUBSET S : SumFunctionOnSet(f, T) = SumFunctionOnSet(g, T)}
<1>1. ASSUME NEW T \in SUBSET S, \A x \in T : T \ {x} \in B
      PROVE  T \in B
  <2>1. IsFiniteSet(T)
    BY FS_Subset
  <2>2. CASE T = {}
    BY <2>2, SumEmpty
  <2>3. CASE T # {}
    <3>1. PICK c \in T : c = Chosen(T)
      BY <2>3 DEF Chosen
    <3>2. SumFunctionOnSet(f, T) = f[c] + SumFunctionOnSet(f, T \ {c})
      BY <2>1, <2>3, <3>1, SumByChosen
    <3>3. SumFunctionOnSet(g, T) = g[c] + SumFunctionOnSet(g, T \ {c})
      BY <2>1, <2>3, <3>1, SumByChosen
    <3>4. f[c] = g[c] /\ SumFunctionOnSet(f, T \ {c}) = SumFunctionOnSet(g, T \ {c})
      BY <1>1
    <3> QED
      BY <3>2, <3>3, <3>4
  <2> QED
    BY <2>2, <2>3
<1> HIDE DEF B
<1>2. \A T \in SUBSET S : T \in B
  BY <1>1, SubsetInduction
<1> QED
  BY <1>2 DEF B

\* A sum of natural numbers is one.
LEMMA SumNat ==
    ASSUME NEW f, NEW S, IsFiniteSet(S), \A x \in S : f[x] \in Nat
    PROVE  SumFunctionOnSet(f, S) \in Nat
<1> DEFINE B == {T \in SUBSET S : SumFunctionOnSet(f, T) \in Nat}
<1>1. ASSUME NEW T \in SUBSET S, \A x \in T : T \ {x} \in B
      PROVE  T \in B
  <2>1. CASE T = {}
    BY <2>1, SumEmpty
  <2>2. CASE T # {}
    <3>1. PICK c \in T : TRUE
      BY <2>2
    <3>2. IsFiniteSet(T) /\ \A x \in T : f[x] \in Int
      BY FS_Subset
    <3>3. SumFunctionOnSet(f, T) = f[c] + SumFunctionOnSet(f, T \ {c})
      BY <3>2, SumRemove
    <3> QED
      BY <1>1, <3>3
  <2> QED
    BY <2>1, <2>2
<1> HIDE DEF B
<1>2. \A T \in SUBSET S : T \in B
  BY <1>1, SubsetInduction
<1> QED
  BY <1>2 DEF B

\* A sum of equal numbers.
LEMMA SumConstant ==
    ASSUME NEW f, NEW S, IsFiniteSet(S), NEW c \in Nat, \A x \in S : f[x] = c
    PROVE  SumFunctionOnSet(f, S) = c * Cardinality(S)
<1> DEFINE B == {T \in SUBSET S : SumFunctionOnSet(f, T) = c * Cardinality(T)}
<1>1. ASSUME NEW T \in SUBSET S, \A x \in T : T \ {x} \in B
      PROVE  T \in B
  <2>1. CASE T = {}
    BY <2>1, SumEmpty, FS_EmptySet
  <2>2. CASE T # {}
    <3>1. PICK x \in T : TRUE
      BY <2>2
    <3>2. IsFiniteSet(T) /\ \A y \in T : f[y] \in Int
      BY FS_Subset
    <3>3. SumFunctionOnSet(f, T) = f[x] + SumFunctionOnSet(f, T \ {x})
      BY <3>2, SumRemove
    <3>4. /\ Cardinality(T \ {x}) = Cardinality(T) - 1
          /\ Cardinality(T) \in Nat
      BY <3>2, FS_RemoveElement, FS_CardinalityType
    <3>5. PICK k \in Nat : k = Cardinality(T)
      BY <3>4
    <3>6. c + c * (k - 1) = c * k
      OBVIOUS
    <3> QED
      BY <1>1, <3>3, <3>4, <3>5, <3>6
  <2> QED
    BY <2>1, <2>2
<1> HIDE DEF B
<1>2. \A T \in SUBSET S : T \in B
  BY <1>1, SubsetInduction
<1> QED
  BY <1>2 DEF B

\* A sum of large numbers is large.
LEMMA SumAtLeast ==
    ASSUME NEW f, NEW S, IsFiniteSet(S), NEW c \in Nat, \A x \in S : f[x] \in Nat /\ f[x] >= c
    PROVE  SumFunctionOnSet(f, S) >= c * Cardinality(S)
<1> DEFINE B == {T \in SUBSET S : SumFunctionOnSet(f, T) >= c * Cardinality(T)}
<1>1. ASSUME NEW T \in SUBSET S, \A x \in T : T \ {x} \in B
      PROVE  T \in B
  <2>1. CASE T = {}
    BY <2>1, SumEmpty, FS_EmptySet
  <2>2. CASE T # {}
    <3>1. PICK x \in T : TRUE
      BY <2>2
    <3>2. IsFiniteSet(T) /\ IsFiniteSet(T \ {x}) /\ \A y \in T : f[y] \in Int
      BY FS_Subset
    <3>3. /\ SumFunctionOnSet(f, T) = f[x] + SumFunctionOnSet(f, T \ {x})
          /\ SumFunctionOnSet(f, T \ {x}) \in Nat /\ f[x] \in Nat /\ f[x] >= c
      BY <3>2, SumRemove, SumNat
    <3>4. /\ Cardinality(T \ {x}) = Cardinality(T) - 1
          /\ Cardinality(T) \in Nat
      BY <3>2, FS_RemoveElement, FS_CardinalityType
    <3>5. PICK k \in Nat : k = Cardinality(T)
      BY <3>4
    <3>6. c + c * (k - 1) = c * k /\ c * k \in Nat
      OBVIOUS
    <3>7. SumFunctionOnSet(f, T \ {x}) >= c * (k - 1)
      BY <1>1, <3>4, <3>5
    <3> QED
      BY <3>3, <3>5, <3>6, <3>7
  <2> QED
    BY <2>1, <2>2
<1> HIDE DEF B
<1>2. \A T \in SUBSET S : T \in B
  BY <1>1, SubsetInduction
<1> QED
  BY <1>2 DEF B

\* A transfer from one place to another leaves the sum alone.
LEMMA SumTransfer ==
    ASSUME NEW S, IsFiniteSet(S), NEW f, NEW g, NEW from \in S, NEW to \in S, NEW n \in Int,
           \A x \in S : f[x] \in Int,
           \A x \in S : g[x] = f[x] - (IF x = from THEN n ELSE 0) + (IF x = to THEN n ELSE 0)
    PROVE  SumFunctionOnSet(g, S) = SumFunctionOnSet(f, S)
<1>1. \A x \in S : g[x] \in Int
  OBVIOUS
<1>2. CASE from = to
  <2>1. \A x \in S : g[x] = f[x]
    BY <1>2
  <2> QED
    BY <2>1, SumEqual
<1>3. CASE from # to
  <2>1. PICK R : R = S \ {from}
    OBVIOUS
  <2>2. IsFiniteSet(R) /\ to \in R /\ R \subseteq S
    BY <1>3, <2>1, FS_Subset
  <2>3. IsFiniteSet(R \ {to})
    BY <2>2, FS_Subset
  <2>4. /\ SumFunctionOnSet(f, S) = f[from] + SumFunctionOnSet(f, R)
        /\ SumFunctionOnSet(f, R) = f[to] + SumFunctionOnSet(f, R \ {to})
        /\ SumFunctionOnSet(f, R \ {to}) \in Int
    BY <2>1, <2>2, <2>3, SumRemove
  <2>5. /\ SumFunctionOnSet(g, S) = g[from] + SumFunctionOnSet(g, R)
        /\ SumFunctionOnSet(g, R) = g[to] + SumFunctionOnSet(g, R \ {to})
    BY <1>1, <2>1, <2>2, <2>3, SumRemove
  <2>6. SumFunctionOnSet(g, R \ {to}) = SumFunctionOnSet(f, R \ {to})
    <3>1. \A x \in R \ {to} : g[x] = f[x]
      BY <2>1
    <3> QED
      BY <2>3, <3>1, SumEqual
  <2>7. g[from] = f[from] - n /\ g[to] = f[to] + n /\ f[from] \in Int /\ f[to] \in Int
    BY <1>3
  <2> QED
    BY <2>4, <2>5, <2>6, <2>7
<1> QED
  BY <1>2, <1>3
===============================================================================
