------------------------------- MODULE FiniteSums -------------------------------
(***************************************************************************)
(* Finite sets of numbers: induction, extremes and sums.  The community    *)
(* modules define a sum as a fold that takes out elements in an order of   *)
(* its own; what is proved here about it is all that the proofs about      *)
(* totals of postings, locks and fills need.                               *)
(*                                                                         *)
(* The induction theorems of the library take the property as an operator, *)
(* which the provers cannot instantiate; here it is a set of sets.         *)
(***************************************************************************)
EXTENDS Integers, FiniteSets, FiniteSetsExt, TLAPS, FiniteSetTheorems

(* Induction on a finite set, as a least counterexample: a family of its   *)
(* subsets has a member that is no longer one without any of its elements. *)
LEMMA MinimalSubset ==
  ASSUME NEW S, IsFiniteSet(S), NEW F \in SUBSET SUBSET S, F # {}
  PROVE  \E T \in F : \A x \in T : T \ {x} \notin F
<1> DEFINE R == StrictSubsetOrdering(S)
<1>1. IsWellFoundedOn(R, SUBSET S)
  BY FS_FiniteSubsetsOfFinite, FS_StrictSubsetOrderingWellFounded
<1>2. PICK T \in F : \A U \in F : <<U, T>> \notin R
  <2> HIDE DEF R
  <2>1. F \subseteq SUBSET S
    OBVIOUS
  <2> QED BY <1>1, <2>1, WFMin
<1>3. ASSUME NEW x \in T, T \ {x} \in F PROVE FALSE
  <2>1. <<T \ {x}, T>> \in R
    BY <1>3 DEF StrictSubsetOrdering
  <2> QED BY <1>2, <1>3, <2>1
<1> QED BY <1>3

(* Induction on a finite set, the property given as the family of the sets *)
(* that have it.                                                           *)
LEMMA SetInduction ==
  ASSUME NEW S, IsFiniteSet(S), NEW F, {} \in F,
         \A T \in SUBSET S : (\A x \in T : T \ {x} \in F) => T \in F
  PROVE  S \in F
<1> DEFINE Bad == {T \in SUBSET S : T \notin F}
<1>1. Bad = {}
  <2> SUFFICES ASSUME Bad # {} PROVE FALSE
    OBVIOUS
  <2>1. PICK T \in Bad : \A x \in T : T \ {x} \notin Bad
    <3>1. Bad \in SUBSET SUBSET S
      OBVIOUS
    <3> HIDE DEF Bad
    <3> QED BY <3>1, MinimalSubset
  <2> QED BY <2>1
<1> QED BY <1>1

(* The values of a function on a finite set are finitely many.             *)
LEMMA ImageIsFinite ==
  ASSUME NEW S, IsFiniteSet(S), NEW f, f = [x \in S |-> f[x]]
  PROVE  IsFiniteSet({f[x] : x \in S})
<1> DEFINE T == {f[x] : x \in S}
<1>1. f \in Surjection(S, T)
  BY DEF Surjection
<1> HIDE DEF T
<1>2. IsFiniteSet(T)
  BY <1>1, FS_Surjection
<1> QED BY <1>2 DEF T

(* The smaller of two numbers (calculateFillQuantity).                     *)
LEMMA MinOfTwo ==
  ASSUME NEW a \in Int, NEW b \in Int
  PROVE  Min({a, b}) = IF a <= b THEN a ELSE b
<1> DEFINE c == IF a <= b THEN a ELSE b
<1>1. c \in {a, b} /\ \A y \in {a, b} : c <= y
  OBVIOUS
<1>2. \A d \in {a, b} : (\A y \in {a, b} : d <= y) => d = c
  OBVIOUS
<1> HIDE DEF c
<1> QED BY <1>1, <1>2 DEF Min

(* A finite set of numbers has a largest one (the newest time stamp).      *)
LEMMA MaxOfFinite ==
  ASSUME NEW S \in SUBSET Nat, IsFiniteSet(S), S # {}
  PROVE  Max(S) \in S /\ \A y \in S : Max(S) >= y
<1> DEFINE Largest(T, x) == x \in T /\ \A y \in T : x >= y
           Odd == {T \in SUBSET S : T # {} /\ ~\E x \in T : Largest(T, x)}
<1>1. Odd = {}
  <2> SUFFICES ASSUME Odd # {} PROVE FALSE
    OBVIOUS
  <2>1. PICK T \in Odd : \A x \in T : T \ {x} \notin Odd
    <3>1. Odd \in SUBSET SUBSET S
      OBVIOUS
    <3> HIDE DEF Odd
    <3> QED BY <3>1, MinimalSubset
  <2>2. PICK x \in T : x \in Nat
    OBVIOUS
  <2> DEFINE R == T \ {x}
  <2>3. R \in SUBSET S /\ R \notin Odd
    BY <2>1, <2>2
  <2>4. CASE R = {}
    <3>1. T = {x}
      BY <2>2, <2>4
    <3>2. Largest(T, x)
      BY <2>2, <3>1
    <3> QED BY <2>1, <2>2, <3>2
  <2>5. CASE R # {}
    <3>1. PICK z \in R : Largest(R, z)
      BY <2>3, <2>5
    <3>2. z \in Nat /\ T \subseteq Nat
      BY <2>1, <2>3, <3>1
    <3>3. Largest(T, x) \/ Largest(T, z)
      BY <2>2, <3>1, <3>2
    <3> QED BY <2>1, <2>2, <3>1, <3>3
  <2> QED BY <2>4, <2>5
<1>2. \E x \in S : Largest(S, x)
  BY <1>1
<1> QED BY <1>2 DEF Max

(* Induction up to a number, the property given as the set of the numbers  *)
(* that have it.                                                           *)
LEMMA IntervalInduction ==
  ASSUME NEW N \in Nat, NEW F, 0 \in F,
         \A n \in 0..(N - 1) : n \in F => n + 1 \in F
  PROVE  N \in F
<1> DEFINE Good == {n \in 0..N : n \in F}
<1>1. Good \in SUBSET Nat /\ IsFiniteSet(Good) /\ 0 \in Good
  <2>1. IsFiniteSet(0..N)
    BY FS_Interval
  <2>2. Good \in SUBSET (0..N)
    OBVIOUS
  <2> HIDE DEF Good
  <2>3. IsFiniteSet(Good)
    BY <2>1, <2>2, FS_Subset
  <2> QED BY <2>2, <2>3 DEF Good
<1> DEFINE m == Max(Good)
<1>2. m \in Good /\ \A y \in Good : m >= y
  <2> HIDE DEF Good
  <2> QED BY <1>1, MaxOfFinite
<1> HIDE DEF m
<1>3. CASE m = N
  BY <1>2, <1>3
<1>4. CASE m # N
  <2>1. m \in 0..(N - 1) /\ m \in F
    BY <1>2, <1>4
  <2>2. m + 1 \in Good
    BY <2>1
  <2> QED BY <1>2, <2>1, <2>2
<1> QED BY <1>3, <1>4

(* A finite set to which at most one element is added has at most one      *)
(* element more.                                                           *)
LEMMA GrowsByOne ==
  ASSUME NEW S, IsFiniteSet(S), NEW n \in Nat, Cardinality(S) <= n, NEW e,
         NEW T, T \subseteq S \cup {e}
  PROVE  IsFiniteSet(T) /\ Cardinality(T) \in Nat /\ Cardinality(T) <= n + 1
<1>1. IsFiniteSet(S \cup {e}) /\ Cardinality(S \cup {e}) \in Nat
      /\ Cardinality(S \cup {e}) <= n + 1
  <2>1. Cardinality(S) \in Nat
    BY FS_CardinalityType
  <2>2. IsFiniteSet(S \cup {e})
        /\ Cardinality(S \cup {e}) = IF e \in S THEN Cardinality(S) ELSE Cardinality(S) + 1
    BY FS_AddElement
  <2> QED BY <2>1, <2>2
<1>2. IsFiniteSet(T) /\ Cardinality(T) <= Cardinality(S \cup {e}) /\ Cardinality(T) \in Nat
  BY <1>1, FS_Subset, FS_CardinalityType
<1> QED BY <1>1, <1>2

(* A finite set that loses elements does not grow.                         *)
LEMMA Shrinks ==
  ASSUME NEW S, IsFiniteSet(S), NEW n \in Nat, Cardinality(S) <= n,
         NEW T, T \subseteq S
  PROVE  IsFiniteSet(T) /\ Cardinality(T) \in Nat /\ Cardinality(T) <= n
<1>1. IsFiniteSet(T) /\ Cardinality(T) <= Cardinality(S)
  BY FS_Subset
<1>2. Cardinality(T) \in Nat /\ Cardinality(S) \in Nat
  BY <1>1, FS_CardinalityType
<1> QED BY <1>1, <1>2

(* Two finite sets that lose elements have no more together than before.   *)
LEMMA BothShrink ==
  ASSUME NEW A, NEW B, IsFiniteSet(A), IsFiniteSet(B), NEW n \in Int,
         Cardinality(A) + Cardinality(B) <= n,
         NEW C, NEW D, C \subseteq A, D \subseteq B
  PROVE  /\ IsFiniteSet(C) /\ IsFiniteSet(D)
         /\ Cardinality(C) + Cardinality(D) <= n
<1>1. Cardinality(A) \in Nat /\ Cardinality(B) \in Nat
  BY FS_CardinalityType
<1>2. IsFiniteSet(C) /\ Cardinality(C) \in Nat /\ Cardinality(C) <= Cardinality(A)
  BY <1>1, Shrinks
<1>3. IsFiniteSet(D) /\ Cardinality(D) \in Nat /\ Cardinality(D) <= Cardinality(B)
  BY <1>1, Shrinks
<1> QED BY <1>1, <1>2, <1>3

(* A part of a finite set that leaves out a member is smaller.             *)
LEMMA ProperPart ==
  ASSUME NEW S, IsFiniteSet(S), NEW x \in S, NEW T, T \subseteq S \ {x}
  PROVE  /\ IsFiniteSet(T) /\ Cardinality(T) \in Nat /\ Cardinality(S) \in Nat
         /\ Cardinality(T) <= Cardinality(S) - 1
<1>1. Cardinality(S) \in Nat
  BY FS_CardinalityType
<1>2. IsFiniteSet(S \ {x}) /\ Cardinality(S \ {x}) = Cardinality(S) - 1
  BY FS_RemoveElement
<1>3. Cardinality(S \ {x}) \in Nat
  BY <1>2, FS_CardinalityType
<1>4. IsFiniteSet(T) /\ Cardinality(T) \in Nat /\ Cardinality(T) <= Cardinality(S) - 1
  BY <1>2, <1>3, Shrinks
<1> QED BY <1>1, <1>4

-------------------------------------------------------------------------------
(* How the library folds a sum: it takes the elements one by one, chosen    *)
(* from those that are left.                                               *)
Chosen(T) == CHOOSE x \in T : TRUE

PartialSums(f, S, sum) ==
  sum = [T \in SUBSET S |-> IF T = {} THEN 0
                            ELSE f[Chosen(T)] + sum[T \ {Chosen(T)}]]

(* What is chosen from a set is in it.                                     *)
LEMMA ChosenIn == \A T : T # {} => Chosen(T) \in T
BY DEF Chosen

(* Partial sums over two sets agree where both are defined.                *)
LEMMA PartialSumsAgree ==
  ASSUME NEW f, NEW S, NEW T, NEW g, NEW h, IsFiniteSet(S \cap T),
         PartialSums(f, S, g), PartialSums(f, T, h)
  PROVE  \A U \in SUBSET (S \cap T) : g[U] = h[U]
<1> DEFINE Odd == {U \in SUBSET (S \cap T) : g[U] # h[U]}
<1> SUFFICES ASSUME Odd # {} PROVE FALSE
  OBVIOUS
<1>1. PICK U \in Odd : \A x \in U : U \ {x} \notin Odd
  <2>1. Odd \in SUBSET SUBSET (S \cap T)
    OBVIOUS
  <2> HIDE DEF Odd
  <2> QED BY <2>1, MinimalSubset
<1>2. U \in SUBSET S /\ U \in SUBSET T /\ g[U] # h[U]
  OBVIOUS
<1>3. /\ g[U] = IF U = {} THEN 0 ELSE f[Chosen(U)] + g[U \ {Chosen(U)}]
      /\ h[U] = IF U = {} THEN 0 ELSE f[Chosen(U)] + h[U \ {Chosen(U)}]
  BY <1>2 DEF PartialSums
<1>4. CASE U = {}
  BY <1>2, <1>3, <1>4
<1>5. CASE U # {}
  <2>1. Chosen(U) \in U
    BY <1>5, ChosenIn
  <2>2. g[U \ {Chosen(U)}] = h[U \ {Chosen(U)}]
    BY <1>1, <1>2, <2>1
  <2> QED BY <1>2, <1>3, <1>5, <2>2
<1> QED BY <1>4, <1>5

(* A finite set has partial sums.                                          *)
LEMMA PartialSumsExist ==
  ASSUME NEW f, NEW S, IsFiniteSet(S)
  PROVE  \E sum : PartialSums(f, S, sum)
<1> DEFINE Odd == {T \in SUBSET S : ~\E sum : PartialSums(f, T, sum)}
<1> SUFFICES ASSUME Odd # {} PROVE FALSE
  OBVIOUS
<1>1. PICK T \in Odd : \A x \in T : T \ {x} \notin Odd
  <2>1. Odd \in SUBSET SUBSET S
    OBVIOUS
  <2> HIDE DEF Odd
  <2> QED BY <2>1, MinimalSubset
<1>2. T \in SUBSET S /\ ~\E sum : PartialSums(f, T, sum)
  OBVIOUS
<1> DEFINE part == [x \in T |-> CHOOSE sum : PartialSums(f, T \ {x}, sum)]
<1>3. \A x \in T : PartialSums(f, T \ {x}, part[x])
  <2> SUFFICES ASSUME NEW x \in T PROVE PartialSums(f, T \ {x}, part[x])
    OBVIOUS
  <2>1. \E sum : PartialSums(f, T \ {x}, sum)
    BY <1>1, <1>2
  <2>2. PartialSums(f, T \ {x}, CHOOSE sum : PartialSums(f, T \ {x}, sum))
    BY <2>1
  <2> QED BY <2>2
<1> HIDE DEF part, Odd
<1>4. ASSUME NEW x \in T, NEW y \in T, NEW U \in SUBSET ((T \ {x}) \cap (T \ {y}))
      PROVE  part[x][U] = part[y][U]
  <2>1. IsFiniteSet((T \ {x}) \cap (T \ {y}))
    BY <1>2, FS_Subset
  <2>2. PartialSums(f, T \ {x}, part[x]) /\ PartialSums(f, T \ {y}, part[y])
    BY <1>3
  <2> DEFINE X == T \ {x}
             Y == T \ {y}
             g == part[x]
             h == part[y]
  <2>3. IsFiniteSet(X \cap Y) /\ PartialSums(f, X, g) /\ PartialSums(f, Y, h)
    BY <2>1, <2>2
  <2>4. U \in SUBSET (X \cap Y)
    OBVIOUS
  <2> HIDE DEF X, Y, g, h
  <2>5. g[U] = h[U]
    BY <2>3, <2>4, PartialSumsAgree
  <2> QED BY <2>5 DEF g, h
<1> DEFINE missing == [U \in SUBSET T |-> CHOOSE x \in T : x \notin U]
           whole == IF T = {} THEN 0 ELSE f[Chosen(T)] + part[Chosen(T)][T \ {Chosen(T)}]
           sum == [U \in SUBSET T |-> IF U = T THEN whole ELSE part[missing[U]][U]]
<1>5. \A U \in SUBSET T : U # T => missing[U] \in T /\ missing[U] \notin U
  OBVIOUS
<1> HIDE DEF missing
<1>6. ASSUME NEW U \in SUBSET T
      PROVE  sum[U] = IF U = {} THEN 0 ELSE f[Chosen(U)] + sum[U \ {Chosen(U)}]
  <2> DEFINE c == Chosen(U)
             R == U \ {c}
  <2>1. CASE U = T
    <3>1. CASE U = {}
      BY <2>1, <3>1
    <3>2. CASE U # {}
      <4>1. c \in T /\ R \in SUBSET T /\ R # T
        BY <2>1, <3>2, ChosenIn
      <4>2. missing[R] \in T /\ missing[R] \notin R
        BY <4>1, <1>5
      <4>3. part[missing[R]][R] = part[c][R]
        BY <1>4, <4>1, <4>2, <2>1
      <4> QED BY <2>1, <3>2, <4>1, <4>3
    <3> QED BY <3>1, <3>2
  <2>2. CASE U # T
    <3> DEFINE x == missing[U]
    <3>1. x \in T /\ U \in SUBSET (T \ {x})
      BY <2>2, <1>5
    <3>2. part[x][U] = IF U = {} THEN 0 ELSE f[c] + part[x][R]
      <4>1. PartialSums(f, T \ {x}, part[x])
        BY <1>3, <3>1
      <4> DEFINE g == part[x]
      <4> HIDE DEF x, g
      <4>2. g = [V \in SUBSET (T \ {x}) |-> IF V = {} THEN 0
                                            ELSE f[Chosen(V)] + g[V \ {Chosen(V)}]]
        BY <4>1 DEF PartialSums, g
      <4>3. g[U] = IF U = {} THEN 0 ELSE f[c] + g[R]
        BY <3>1, <4>2
      <4> QED BY <4>3 DEF g
    <3>3. CASE U = {}
      BY <2>2, <3>2, <3>3
    <3>4. CASE U # {}
      <4>1. c \in U /\ R \in SUBSET T /\ R # T
        BY <3>1, <3>4, ChosenIn
      <4>2. missing[R] \in T /\ missing[R] \notin R
        BY <4>1, <1>5
      <4>3. part[missing[R]][R] = part[x][R]
        BY <1>4, <3>1, <4>1, <4>2
      <4> QED BY <2>2, <3>2, <3>4, <4>1, <4>3
    <3> QED BY <3>3, <3>4
  <2> QED BY <2>1, <2>2
<1>7. PartialSums(f, T, sum)
  BY <1>6 DEF PartialSums
<1> QED BY <1>2, <1>7

(* A sum, unfolded once.                                                   *)
LEMMA SumUnfolds ==
  ASSUME NEW f, NEW S, IsFiniteSet(S)
  PROVE  SumFunctionOnSet(f, S) =
            IF S = {} THEN 0 ELSE f[Chosen(S)] + SumFunctionOnSet(f, S \ {Chosen(S)})
<1>1. ASSUME NEW T \in SUBSET S
      PROVE  \E sum : PartialSums(f, T, sum) /\ SumFunctionOnSet(f, T) = sum[T]
  <2>1. SumFunctionOnSet(f, T) = (CHOOSE sum : PartialSums(f, T, sum))[T]
    BY DEF SumFunctionOnSet, FoldFunctionOnSet, MapThenFoldSet, Chosen, PartialSums
  <2>2. \E sum : PartialSums(f, T, sum)
    BY FS_Subset, PartialSumsExist
  <2> QED BY <2>1, <2>2
<1>2. PICK sum : PartialSums(f, S, sum) /\ SumFunctionOnSet(f, S) = sum[S]
  BY <1>1
<1>3. sum[S] = IF S = {} THEN 0 ELSE f[Chosen(S)] + sum[S \ {Chosen(S)}]
  BY <1>2 DEF PartialSums
<1> DEFINE R == S \ {Chosen(S)}
<1>4. PICK rest : PartialSums(f, R, rest) /\ SumFunctionOnSet(f, R) = rest[R]
  BY <1>1
<1>5. sum[R] = rest[R]
  <2>1. IsFiniteSet(S \cap R) /\ R \in SUBSET (S \cap R)
    BY FS_Subset
  <2> HIDE DEF R
  <2> QED BY <1>2, <1>4, <2>1, PartialSumsAgree
<1> QED BY <1>2, <1>3, <1>4, <1>5

(* An empty sum is zero.                                                   *)
LEMMA SumOfNothing == \A f : SumFunctionOnSet(f, {}) = 0
BY FS_EmptySet, SumUnfolds

(* Sums of integers are integers.                                          *)
LEMMA SumType ==
  ASSUME NEW S, IsFiniteSet(S), NEW f, \A x \in S : f[x] \in Int
  PROVE  SumFunctionOnSet(f, S) \in Int
<1> DEFINE F == {T \in SUBSET S : SumFunctionOnSet(f, T) \in Int}
<1>1. {} \in F
  BY SumOfNothing
<1>2. ASSUME NEW T \in SUBSET S, \A x \in T : T \ {x} \in F PROVE T \in F
  <2>1. SumFunctionOnSet(f, T) =
          IF T = {} THEN 0 ELSE f[Chosen(T)] + SumFunctionOnSet(f, T \ {Chosen(T)})
    BY FS_Subset, SumUnfolds
  <2>2. T # {} => Chosen(T) \in T
    BY ChosenIn
  <2> QED BY <1>2, <2>1, <2>2
<1> HIDE DEF F
<1>3. S \in F
  BY <1>1, <1>2, SetInduction
<1> QED BY <1>3 DEF F

(* A sum does not depend on the element that is taken out first.           *)
LEMMA SumTakesOut ==
  ASSUME NEW S, IsFiniteSet(S), NEW f, \A x \in S : f[x] \in Int, NEW x \in S
  PROVE  SumFunctionOnSet(f, S) = f[x] + SumFunctionOnSet(f, S \ {x})
<1> DEFINE F == {T \in SUBSET S : \A y \in T :
                    SumFunctionOnSet(f, T) = f[y] + SumFunctionOnSet(f, T \ {y})}
<1>1. {} \in F
  OBVIOUS
<1>2. ASSUME NEW T \in SUBSET S, \A y \in T : T \ {y} \in F PROVE T \in F
  <2> SUFFICES ASSUME NEW y \in T
               PROVE  SumFunctionOnSet(f, T) = f[y] + SumFunctionOnSet(f, T \ {y})
    OBVIOUS
  <2> DEFINE c == Chosen(T)
             rest == SumFunctionOnSet(f, (T \ {c}) \ {y})
  <2>1. c \in T
    BY ChosenIn
  <2>2. SumFunctionOnSet(f, T) = f[c] + SumFunctionOnSet(f, T \ {c})
    BY FS_Subset, SumUnfolds
  <2>3. CASE c = y
    BY <2>2, <2>3
  <2>4. CASE c # y
    <3>1. SumFunctionOnSet(f, T \ {c}) = f[y] + rest
      BY <1>2, <2>1, <2>4
    <3>2. SumFunctionOnSet(f, T \ {y}) = f[c] + SumFunctionOnSet(f, (T \ {y}) \ {c})
      BY <1>2, <2>1, <2>4
    <3>3. (T \ {y}) \ {c} = (T \ {c}) \ {y}
      OBVIOUS
    <3>4. f[c] \in Int /\ f[y] \in Int /\ rest \in Int
      <4>1. IsFiniteSet((T \ {c}) \ {y})
        BY FS_Subset
      <4> QED BY <2>1, <4>1, SumType
    <3>5. SumFunctionOnSet(f, T \ {y}) = f[c] + rest
      BY <3>2, <3>3
    <3> HIDE DEF rest, c
    <3> QED BY <2>2, <3>1, <3>4, <3>5
  <2> QED BY <2>3, <2>4
<1> HIDE DEF F
<1>3. S \in F
  BY <1>1, <1>2, SetInduction
<1> QED BY <1>3 DEF F

(* A sum depends on the values over its set only.                          *)
LEMMA SumOfEqual ==
  ASSUME NEW S, IsFiniteSet(S), NEW f, NEW g, \A x \in S : f[x] = g[x]
  PROVE  SumFunctionOnSet(f, S) = SumFunctionOnSet(g, S)
<1> DEFINE F == {T \in SUBSET S : SumFunctionOnSet(f, T) = SumFunctionOnSet(g, T)}
<1>1. {} \in F
  BY SumOfNothing
<1>2. ASSUME NEW T \in SUBSET S, \A x \in T : T \ {x} \in F PROVE T \in F
  <2>1. /\ SumFunctionOnSet(f, T) =
             IF T = {} THEN 0 ELSE f[Chosen(T)] + SumFunctionOnSet(f, T \ {Chosen(T)})
        /\ SumFunctionOnSet(g, T) =
             IF T = {} THEN 0 ELSE g[Chosen(T)] + SumFunctionOnSet(g, T \ {Chosen(T)})
    BY FS_Subset, SumUnfolds
  <2>2. T # {} => Chosen(T) \in T
    BY ChosenIn
  <2> QED BY <1>2, <2>1, <2>2
<1> HIDE DEF F
<1>3. S \in F
  BY <1>1, <1>2, SetInduction
<1> QED BY <1>3 DEF F

(* Values that are all zero add up to zero.                                *)
LEMMA SumOfZeros ==
  ASSUME NEW S, IsFiniteSet(S), NEW f, \A x \in S : f[x] = 0
  PROVE  SumFunctionOnSet(f, S) = 0
<1> DEFINE F == {T \in SUBSET S : SumFunctionOnSet(f, T) = 0}
<1>1. {} \in F
  BY SumOfNothing
<1>2. ASSUME NEW T \in SUBSET S, \A x \in T : T \ {x} \in F PROVE T \in F
  <2>1. SumFunctionOnSet(f, T) =
          IF T = {} THEN 0 ELSE f[Chosen(T)] + SumFunctionOnSet(f, T \ {Chosen(T)})
    BY FS_Subset, SumUnfolds
  <2>2. T # {} => Chosen(T) \in T
    BY ChosenIn
  <2> QED BY <1>2, <2>1, <2>2
<1> HIDE DEF F
<1>3. S \in F
  BY <1>1, <1>2, SetInduction
<1> QED BY <1>3 DEF F

(* A new element adds its value.                                           *)
LEMMA SumAdds ==
  ASSUME NEW S, IsFiniteSet(S), NEW f, NEW x, x \notin S, f[x] \in Int,
         \A y \in S : f[y] \in Int
  PROVE  SumFunctionOnSet(f, S \cup {x}) = SumFunctionOnSet(f, S) + f[x]
<1> DEFINE T == S \cup {x}
<1>1. IsFiniteSet(T) /\ x \in T /\ T \ {x} = S /\ \A y \in T : f[y] \in Int
  BY FS_AddElement
<1> HIDE DEF T
<1>2. SumFunctionOnSet(f, T) = f[x] + SumFunctionOnSet(f, T \ {x})
  BY <1>1, SumTakesOut
<1>3. SumFunctionOnSet(f, S) \in Int
  BY SumType
<1>4. SumFunctionOnSet(f, T \ {x}) = SumFunctionOnSet(f, S)
  BY <1>1
<1>5. SumFunctionOnSet(f, T) = SumFunctionOnSet(f, S) + f[x]
  BY <1>2, <1>3, <1>4
<1> QED BY <1>5 DEF T

(* A value that changes changes the sum by as much.                        *)
LEMMA SumUpdates ==
  ASSUME NEW S, IsFiniteSet(S), NEW f, NEW g, NEW x \in S,
         \A y \in S : f[y] \in Int /\ g[y] \in Int, \A y \in S \ {x} : g[y] = f[y]
  PROVE  SumFunctionOnSet(g, S) = SumFunctionOnSet(f, S) + g[x] - f[x]
<1> DEFINE rest == SumFunctionOnSet(f, S \ {x})
<1>1. IsFiniteSet(S \ {x})
  BY FS_Subset
<1>2. SumFunctionOnSet(f, S) = f[x] + rest
  BY SumTakesOut
<1>3. SumFunctionOnSet(g, S) = g[x] + SumFunctionOnSet(g, S \ {x})
  BY SumTakesOut
<1>4. SumFunctionOnSet(g, S \ {x}) = rest
  BY <1>1, SumOfEqual
<1>5. rest \in Int
  BY <1>1, SumType
<1>6. f[x] \in Int /\ g[x] \in Int
  OBVIOUS
<1> HIDE DEF rest
<1>7. SumFunctionOnSet(g, S) = g[x] + rest
  BY <1>3, <1>4
<1> QED BY <1>2, <1>5, <1>6, <1>7

(* Two values that change change the sum by as much.                       *)
LEMMA SumUpdatesTwo ==
  ASSUME NEW S, IsFiniteSet(S), NEW f, NEW g, NEW x \in S, NEW y \in S, x # y,
         \A z \in S : f[z] \in Int /\ g[z] \in Int, \A z \in S \ {x, y} : g[z] = f[z]
  PROVE  SumFunctionOnSet(g, S) = SumFunctionOnSet(f, S) + (g[x] - f[x]) + (g[y] - f[y])
<1> DEFINE rest == (S \ {x}) \ {y}
<1>1. IsFiniteSet(S \ {x}) /\ IsFiniteSet(rest) /\ y \in S \ {x}
  BY FS_Subset
<1>2. SumFunctionOnSet(f, S) = f[x] + SumFunctionOnSet(f, S \ {x})
  BY SumTakesOut
<1>3. SumFunctionOnSet(f, S \ {x}) = f[y] + SumFunctionOnSet(f, rest)
  BY <1>1, SumTakesOut
<1>4. SumFunctionOnSet(g, S) = g[x] + SumFunctionOnSet(g, S \ {x})
  BY SumTakesOut
<1>5. SumFunctionOnSet(g, S \ {x}) = g[y] + SumFunctionOnSet(g, rest)
  BY <1>1, SumTakesOut
<1>6. SumFunctionOnSet(g, rest) = SumFunctionOnSet(f, rest)
  BY <1>1, SumOfEqual
<1>7. /\ SumFunctionOnSet(f, rest) \in Int /\ f[x] \in Int /\ f[y] \in Int
      /\ g[x] \in Int /\ g[y] \in Int
  BY <1>1, SumType
<1> HIDE DEF rest
<1>8. SumFunctionOnSet(g, S) = g[x] + (g[y] + SumFunctionOnSet(f, rest))
  BY <1>4, <1>5, <1>6
<1>9. SumFunctionOnSet(f, S) = f[x] + (f[y] + SumFunctionOnSet(f, rest))
  BY <1>2, <1>3
<1> QED BY <1>7, <1>8, <1>9

(* What one value loses and another gains leaves the sum as it is.         *)
LEMMA SumMoves ==
  ASSUME NEW S, IsFiniteSet(S), NEW f, NEW g, NEW x \in S, NEW y \in S, x # y,
         \A z \in S : f[z] \in Int /\ g[z] \in Int,
         g[x] + g[y] = f[x] + f[y], \A z \in S \ {x, y} : g[z] = f[z]
  PROVE  SumFunctionOnSet(g, S) = SumFunctionOnSet(f, S)
<1>1. /\ SumFunctionOnSet(f, S) \in Int
      /\ f[x] \in Int /\ f[y] \in Int /\ g[x] \in Int /\ g[y] \in Int
  <2>1. \A z \in S : f[z] \in Int
    OBVIOUS
  <2> QED BY <2>1, SumType
<1>2. SumFunctionOnSet(g, S) = SumFunctionOnSet(f, S) + (g[x] - f[x]) + (g[y] - f[y])
  BY <1>1, SumUpdatesTwo
<1> QED BY <1>1, <1>2

(* A sum over a part is the sum over the whole of what is zero elsewhere.  *)
LEMMA SumOfPart ==
  ASSUME NEW S, IsFiniteSet(S), NEW T \in SUBSET S, NEW f, \A x \in T : f[x] \in Int
  PROVE  SumFunctionOnSet(f, T) =
            SumFunctionOnSet([x \in S |-> IF x \in T THEN f[x] ELSE 0], S)
<1> DEFINE g == [x \in S |-> IF x \in T THEN f[x] ELSE 0]
           F == {U \in SUBSET S : SumFunctionOnSet(f, T \cap U) = SumFunctionOnSet(g, U)}
<1>1. {} \in F
  <2>1. T \cap {} = {}
    OBVIOUS
  <2> HIDE DEF g
  <2> QED BY <2>1, SumOfNothing
<1>2. \A x \in S : g[x] = IF x \in T THEN f[x] ELSE 0
  OBVIOUS
<1> HIDE DEF g
<1>3. ASSUME NEW U \in SUBSET S, \A x \in U : U \ {x} \in F PROVE U \in F
  <2>1. CASE U = {}
    BY <1>1, <2>1
  <2>2. CASE U # {}
    <3> DEFINE c == Chosen(U)
               rest == SumFunctionOnSet(g, U \ {c})
    <3>1. c \in U
      BY <2>2, ChosenIn
    <3>2. SumFunctionOnSet(g, U) = g[c] + rest
      BY <2>2, FS_Subset, SumUnfolds
    <3>3. SumFunctionOnSet(f, T \cap (U \ {c})) = rest
      BY <1>3, <3>1
    <3>4. rest \in Int
      <4>1. IsFiniteSet(U \ {c}) /\ \A x \in U \ {c} : g[x] \in Int
        BY <1>2, FS_Subset
      <4> QED BY <4>1, SumType
    <3> HIDE DEF rest, c
    <3>5. CASE c \in T
      <4>1. /\ IsFiniteSet(T \cap U) /\ c \in T \cap U /\ (T \cap U) \ {c} = T \cap (U \ {c})
            /\ \A x \in T \cap U : f[x] \in Int
        BY <3>1, <3>5, FS_Subset
      <4>2. SumFunctionOnSet(f, T \cap U) = f[c] + SumFunctionOnSet(f, (T \cap U) \ {c})
        BY <4>1, SumTakesOut
      <4>3. SumFunctionOnSet(f, T \cap U) = f[c] + rest
        BY <3>3, <4>1, <4>2
      <4>4. g[c] = f[c]
        BY <1>2, <3>1, <3>5
      <4> QED BY <3>2, <4>3, <4>4
    <3>6. CASE c \notin T
      <4>1. T \cap U = T \cap (U \ {c})
        BY <3>6
      <4>2. g[c] = 0
        BY <1>2, <3>1, <3>6
      <4> QED BY <3>2, <3>3, <3>4, <4>1, <4>2
    <3> QED BY <3>5, <3>6
  <2> QED BY <2>1, <2>2
<1> HIDE DEF F
<1>4. S \in F
  BY <1>1, <1>3, SetInduction
<1>5. T \cap S = T
  OBVIOUS
<1> QED BY <1>4, <1>5 DEF F, g

(* A sum of values that are not negative is at least each of them.         *)
LEMMA SumAtLeast ==
  ASSUME NEW S, IsFiniteSet(S), NEW f, \A x \in S : f[x] \in Nat
  PROVE  /\ SumFunctionOnSet(f, S) \in Nat
         /\ \A x \in S : f[x] <= SumFunctionOnSet(f, S)
<1>1. ASSUME NEW T \in SUBSET S PROVE SumFunctionOnSet(f, T) \in Nat
  <2> DEFINE F == {U \in SUBSET T : SumFunctionOnSet(f, U) \in Nat}
  <2>1. {} \in F
    BY SumOfNothing
  <2>2. ASSUME NEW U \in SUBSET T, \A x \in U : U \ {x} \in F PROVE U \in F
    <3>1. SumFunctionOnSet(f, U) =
            IF U = {} THEN 0 ELSE f[Chosen(U)] + SumFunctionOnSet(f, U \ {Chosen(U)})
      BY FS_Subset, SumUnfolds
    <3>2. U # {} => Chosen(U) \in U
      BY ChosenIn
    <3> QED BY <2>2, <3>1, <3>2
  <2>3. IsFiniteSet(T)
    BY FS_Subset
  <2> HIDE DEF F
  <2>4. T \in F
    BY <2>1, <2>2, <2>3, SetInduction
  <2> QED BY <2>4 DEF F
<1>2. ASSUME NEW x \in S PROVE f[x] <= SumFunctionOnSet(f, S)
  <2>1. SumFunctionOnSet(f, S) = f[x] + SumFunctionOnSet(f, S \ {x})
    BY SumTakesOut
  <2>2. SumFunctionOnSet(f, S \ {x}) \in Nat /\ f[x] \in Nat
    BY <1>1
  <2> QED BY <2>1, <2>2
<1> QED BY <1>1, <1>2

(* When one value grows, so do the sums over the sets it is in, and no     *)
(* others.                                                                 *)
LEMMA SumGrows ==
  ASSUME NEW T, IsFiniteSet(T), NEW f, NEW g, NEW t, NEW d \in Int,
         \A x \in T : f[x] \in Int /\ g[x] \in Int,
         \A x \in T \ {t} : g[x] = f[x], t \in T => g[t] = f[t] + d
  PROVE  SumFunctionOnSet(g, T) = SumFunctionOnSet(f, T) + (IF t \in T THEN d ELSE 0)
<1>1. SumFunctionOnSet(f, T) \in Int
  BY SumType
<1>2. CASE t \in T
  <2>1. SumFunctionOnSet(g, T) = SumFunctionOnSet(f, T) + g[t] - f[t]
    BY <1>2, SumUpdates
  <2>2. g[t] = f[t] + d /\ f[t] \in Int
    BY <1>2
  <2> QED BY <1>1, <1>2, <2>1, <2>2
<1>3. CASE t \notin T
  <2>1. \A x \in T : g[x] = f[x]
    BY <1>3
  <2>2. SumFunctionOnSet(g, T) = SumFunctionOnSet(f, T)
    BY <2>1, SumOfEqual
  <2> QED BY <1>1, <1>3, <2>2
<1> QED BY <1>2, <1>3

(* A sum is the sum over a part and the sum over the rest.                 *)
LEMMA SumSplits ==
  ASSUME NEW S, IsFiniteSet(S), NEW T \in SUBSET S, NEW f, \A x \in S : f[x] \in Int
  PROVE  SumFunctionOnSet(f, S) = SumFunctionOnSet(f, T) + SumFunctionOnSet(f, S \ T)
<1> DEFINE F == {U \in SUBSET S : SumFunctionOnSet(f, U) =
                    SumFunctionOnSet(f, U \cap T) + SumFunctionOnSet(f, U \ T)}
<1>1. {} \in F
  <2>1. {} \cap T = {} /\ {} \ T = {}
    OBVIOUS
  <2> QED BY <2>1, SumOfNothing
<1>2. ASSUME NEW U \in SUBSET S, \A x \in U : U \ {x} \in F PROVE U \in F
  <2>1. CASE U = {}
    BY <1>1, <2>1
  <2>2. CASE U # {}
    <3>1. PICK x \in U : TRUE
      BY <2>2
    <3> DEFINE A == U \cap T  B == U \ T  R == U \ {x}
    <3>2. /\ IsFiniteSet(A) /\ IsFiniteSet(B) /\ IsFiniteSet(R) /\ IsFiniteSet(U)
          /\ \A y \in U : f[y] \in Int
      BY FS_Subset
    <3>3. SumFunctionOnSet(f, U) = f[x] + SumFunctionOnSet(f, R)
      BY <3>2, SumTakesOut
    <3>4. SumFunctionOnSet(f, R) = SumFunctionOnSet(f, R \cap T) + SumFunctionOnSet(f, R \ T)
      BY <1>2
    <3>5. CASE x \in T
      <4>1. x \in A /\ A \ {x} = R \cap T /\ R \ T = B
        BY <3>1, <3>5
      <4> HIDE DEF A, B, R
      <4>2. SumFunctionOnSet(f, A) = f[x] + SumFunctionOnSet(f, R \cap T)
        BY <3>2, <4>1, SumTakesOut DEF A
      <4>3. PICK v, r, s : /\ v = f[x] /\ r = SumFunctionOnSet(f, R \cap T)
                           /\ s = SumFunctionOnSet(f, B)
        OBVIOUS
      <4>4. v \in Int /\ r \in Int /\ s \in Int
        BY <3>2, <4>1, <4>3, FS_Subset, SumType DEF A, B
      <4>5. SumFunctionOnSet(f, A) = v + r
        BY <4>2, <4>3
      <4>6. SumFunctionOnSet(f, R \ T) = s
        BY <4>1, <4>3
      <4>7. SumFunctionOnSet(f, U) = v + (r + s)
        BY <3>3, <3>4, <4>3, <4>6
      <4>8. SumFunctionOnSet(f, U) = SumFunctionOnSet(f, A) + SumFunctionOnSet(f, B)
        BY <4>3, <4>4, <4>5, <4>7
      <4> QED BY <4>8 DEF A, B
    <3>6. CASE x \notin T
      <4>1. x \in B /\ B \ {x} = R \ T /\ R \cap T = A
        BY <3>1, <3>6
      <4> HIDE DEF A, B, R
      <4>2. SumFunctionOnSet(f, B) = f[x] + SumFunctionOnSet(f, R \ T)
        BY <3>2, <4>1, SumTakesOut DEF B
      <4>3. PICK v, r, s : /\ v = f[x] /\ r = SumFunctionOnSet(f, R \ T)
                           /\ s = SumFunctionOnSet(f, A)
        OBVIOUS
      <4>4. v \in Int /\ r \in Int /\ s \in Int
        BY <3>2, <4>1, <4>3, FS_Subset, SumType DEF A, B
      <4>5. SumFunctionOnSet(f, B) = v + r
        BY <4>2, <4>3
      <4>6. SumFunctionOnSet(f, R \cap T) = s
        BY <4>1, <4>3
      <4>7. SumFunctionOnSet(f, U) = v + (s + r)
        BY <3>3, <3>4, <4>3, <4>6
      <4>8. SumFunctionOnSet(f, U) = SumFunctionOnSet(f, A) + SumFunctionOnSet(f, B)
        BY <4>3, <4>4, <4>5, <4>7
      <4> QED BY <4>8 DEF A, B
    <3> QED BY <3>5, <3>6
  <2> QED BY <2>1, <2>2
<1> HIDE DEF F
<1>3. S \in F
  BY <1>1, <1>2, SetInduction
<1>4. S \cap T = T
  OBVIOUS
<1> QED BY <1>3, <1>4 DEF F

(* Of values that are not negative a part sums up to no more than the     *)
(* whole, nor do two parts and what lies in both of them.                  *)
LEMMA SumOfParts ==
  ASSUME NEW S, IsFiniteSet(S), NEW f, \A x \in S : f[x] \in Nat,
         NEW A \in SUBSET S, NEW B \in SUBSET S
  PROVE  /\ SumFunctionOnSet(f, A) \in Nat /\ SumFunctionOnSet(f, S) \in Nat
         /\ SumFunctionOnSet(f, A) <= SumFunctionOnSet(f, S)
         /\ S \subseteq A \cup B =>
               SumFunctionOnSet(f, S) <= SumFunctionOnSet(f, A) + SumFunctionOnSet(f, B)
<1>1. ASSUME NEW T \in SUBSET S PROVE IsFiniteSet(T) /\ SumFunctionOnSet(f, T) \in Nat
  BY FS_Subset, SumAtLeast
<1>2. ASSUME NEW T \in SUBSET S, NEW U \in SUBSET T
      PROVE  SumFunctionOnSet(f, T) = SumFunctionOnSet(f, U) + SumFunctionOnSet(f, T \ U)
  BY <1>1, SumSplits
<1>3. SumFunctionOnSet(f, A) <= SumFunctionOnSet(f, S)
  <2>1. SumFunctionOnSet(f, S) = SumFunctionOnSet(f, A) + SumFunctionOnSet(f, S \ A)
    BY <1>2
  <2>2. SumFunctionOnSet(f, S \ A) \in Nat /\ SumFunctionOnSet(f, A) \in Nat
    BY <1>1
  <2> QED BY <2>1, <2>2
<1>4. ASSUME S \subseteq A \cup B
      PROVE  SumFunctionOnSet(f, S) <= SumFunctionOnSet(f, A) + SumFunctionOnSet(f, B)
  <2>1. S \ A \in SUBSET B
    BY <1>4
  <2>2. SumFunctionOnSet(f, B) = SumFunctionOnSet(f, S \ A) + SumFunctionOnSet(f, B \ (S \ A))
    BY <1>2, <2>1
  <2>3. SumFunctionOnSet(f, S) = SumFunctionOnSet(f, A) + SumFunctionOnSet(f, S \ A)
    BY <1>2
  <2>4. SumFunctionOnSet(f, B \ (S \ A)) \in Nat /\ SumFunctionOnSet(f, S \ A) \in Nat
        /\ SumFunctionOnSet(f, A) \in Nat
    BY <1>1
  <2> QED BY <2>2, <2>3, <2>4
<1> QED BY <1>1, <1>3, <1>4

(* A sum does not depend on what its elements are called.                  *)
LEMMA SumRenamed ==
  ASSUME NEW S, IsFiniteSet(S), NEW f, \A x \in S : f[x] \in Int, NEW g, NEW name,
         name = [x \in S |-> name[x]], \A x, y \in S : name[x] = name[y] => x = y,
         \A x \in S : g[name[x]] = f[x]
  PROVE  SumFunctionOnSet(g, {name[x] : x \in S}) = SumFunctionOnSet(f, S)
<1> DEFINE Names(U) == {name[x] : x \in U}
           F == {U \in SUBSET S : SumFunctionOnSet(g, Names(U)) = SumFunctionOnSet(f, U)}
<1>1. {} \in F
  <2>1. Names({}) = {}
    OBVIOUS
  <2> QED BY <2>1, SumOfNothing
<1>2. ASSUME NEW U \in SUBSET S, \A x \in U : U \ {x} \in F PROVE U \in F
  <2>1. CASE U = {}
    BY <1>1, <2>1
  <2>2. CASE U # {}
    <3>1. PICK x \in U : TRUE
      BY <2>2
    <3>2. SumFunctionOnSet(f, U) = f[x] + SumFunctionOnSet(f, U \ {x})
      BY FS_Subset, SumTakesOut
    <3>3. SumFunctionOnSet(g, Names(U \ {x})) = SumFunctionOnSet(f, U \ {x})
      BY <1>2, <3>1
    <3>4. /\ Names(U \ {x}) = Names(U) \ {name[x]} /\ name[x] \in Names(U)
          /\ \A z \in Names(U) : g[z] \in Int
      OBVIOUS
    <3>5. IsFiniteSet(Names(U))
      <4> DEFINE part == [y \in U |-> name[y]]
      <4>1. {part[y] : y \in U} = Names(U) /\ part = [y \in U |-> part[y]]
        OBVIOUS
      <4>2. IsFiniteSet(U)
        BY FS_Subset
      <4> HIDE DEF part
      <4>3. IsFiniteSet({part[y] : y \in U})
        BY <4>1, <4>2, ImageIsFinite
      <4> QED BY <4>1, <4>3
    <3> HIDE DEF Names
    <3>6. SumFunctionOnSet(g, Names(U)) = g[name[x]] + SumFunctionOnSet(g, Names(U) \ {name[x]})
      BY <3>4, <3>5, SumTakesOut
    <3>7. g[name[x]] = f[x]
      OBVIOUS
    <3>8. SumFunctionOnSet(g, Names(U)) = SumFunctionOnSet(f, U)
      BY <3>2, <3>3, <3>4, <3>6, <3>7
    <3> QED BY <3>8
  <2> QED BY <2>1, <2>2
<1> HIDE DEF F
<1>3. S \in F
  BY <1>1, <1>2, SetInduction
<1> QED BY <1>3 DEF F

(* Values that are not smaller do not sum up to less.                      *)
LEMMA SumIsMonotone ==
  ASSUME NEW S, IsFiniteSet(S), NEW f, NEW g,
         \A x \in S : f[x] \in Int /\ g[x] \in Int /\ f[x] <= g[x]
  PROVE  SumFunctionOnSet(f, S) <= SumFunctionOnSet(g, S)
<1> DEFINE F == {T \in SUBSET S : SumFunctionOnSet(f, T) <= SumFunctionOnSet(g, T)}
<1>1. {} \in F
  BY SumOfNothing
<1>2. ASSUME NEW T \in SUBSET S, \A x \in T : T \ {x} \in F PROVE T \in F
  <2>1. CASE T = {}
    BY <1>1, <2>1
  <2>2. CASE T # {}
    <3>1. PICK x \in T : TRUE
      BY <2>2
    <3>2. IsFiniteSet(T) /\ IsFiniteSet(T \ {x})
      BY FS_Subset
    <3>3. SumFunctionOnSet(f, T) = f[x] + SumFunctionOnSet(f, T \ {x})
      BY <3>2, SumTakesOut
    <3>4. SumFunctionOnSet(g, T) = g[x] + SumFunctionOnSet(g, T \ {x})
      BY <3>2, SumTakesOut
    <3>5. SumFunctionOnSet(f, T \ {x}) \in Int /\ SumFunctionOnSet(g, T \ {x}) \in Int
      BY <3>2, SumType
    <3>6. SumFunctionOnSet(f, T \ {x}) <= SumFunctionOnSet(g, T \ {x})
      BY <1>2, <3>1
    <3>7. SumFunctionOnSet(f, T) <= SumFunctionOnSet(g, T)
      BY <3>1, <3>3, <3>4, <3>5, <3>6
    <3> QED BY <3>7
  <2> QED BY <2>1, <2>2
<1> HIDE DEF F
<1>3. S \in F
  BY <1>1, <1>2, SetInduction
<1> QED BY <1>3 DEF F

(* A sum may be taken group by group.                                      *)
LEMMA SumByGroups ==
  ASSUME NEW S, IsFiniteSet(S), NEW f, \A x \in S : f[x] \in Int,
         NEW name, name = [x \in S |-> name[x]], NEW g,
         \A s \in {name[x] : x \in S} : g[s] = SumFunctionOnSet(f, {x \in S : name[x] = s})
  PROVE  SumFunctionOnSet(f, S) = SumFunctionOnSet(g, {name[x] : x \in S})
<1> DEFINE N == {name[x] : x \in S}
           In(T) == {x \in S : name[x] \in T}
           F == {T \in SUBSET N : SumFunctionOnSet(f, In(T)) = SumFunctionOnSet(g, T)}
<1>1. IsFiniteSet(N)
  BY ImageIsFinite
<1>2. \A s \in N : g[s] \in Int
  <2> SUFFICES ASSUME NEW s \in N PROVE g[s] \in Int
    OBVIOUS
  <2>1. IsFiniteSet({x \in S : name[x] = s})
    BY FS_Subset
  <2>2. SumFunctionOnSet(f, {x \in S : name[x] = s}) \in Int
    BY <2>1, SumType
  <2> QED BY <2>2
<1>3. In({}) = {} /\ In(N) = S
  OBVIOUS
<1>4. {} \in F
  BY <1>3, SumOfNothing
<1>5. ASSUME NEW T \in SUBSET N, \A s \in T : T \ {s} \in F PROVE T \in F
  <2>1. CASE T = {}
    BY <1>4, <2>1
  <2>2. CASE T # {}
    <3>1. PICK s \in T : TRUE
      BY <2>2
    <3>2. IsFiniteSet(In(T)) /\ IsFiniteSet(T)
      BY <1>1, FS_Subset
    <3> DEFINE B == {x \in S : name[x] = s}
    <3>3. B \in SUBSET In(T)
      OBVIOUS
    <3>4. In(T) \ B = In(T \ {s})
      OBVIOUS
    <3>5. \A x \in In(T) : f[x] \in Int
      OBVIOUS
    <3>6. T \ {s} \in F
      BY <1>5
    <3>7. g[s] = SumFunctionOnSet(f, B) /\ \A r \in T : g[r] \in Int
      BY <1>2
    <3> HIDE DEF N, In, B
    <3>8. SumFunctionOnSet(f, In(T))
            = SumFunctionOnSet(f, B) + SumFunctionOnSet(f, In(T \ {s}))
      <4> DEFINE A == In(T)
      <4> HIDE DEF A
      <4>1. IsFiniteSet(A) /\ B \in SUBSET A /\ \A x \in A : f[x] \in Int
        BY <3>2, <3>3, <3>5 DEF A
      <4>2. SumFunctionOnSet(f, A) = SumFunctionOnSet(f, B) + SumFunctionOnSet(f, A \ B)
        BY <4>1, SumSplits
      <4> QED BY <3>4, <4>2 DEF A
    <3>9. SumFunctionOnSet(g, T) = g[s] + SumFunctionOnSet(g, T \ {s})
      BY <3>2, <3>7, SumTakesOut
    <3> QED BY <3>6, <3>7, <3>8, <3>9
  <2> QED BY <2>1, <2>2
<1> HIDE DEF F, N, In
<1>6. N \in F
  BY <1>1, <1>4, <1>5, SetInduction
<1> QED BY <1>3, <1>6 DEF F, N
===============================================================================
