---------------------------- MODULE SumTheorems ----------------------------
(***************************************************************************)
(* What is known of sums over finite sets, by induction over the set of    *)
(* the sets or numbers for which a statement holds.                        *)
(***************************************************************************)
EXTENDS Sums, FiniteSets, FiniteSetTheorems, WellFoundedInduction, TLAPS

(* Induction over a finite set, one element at a time: G is the set of the  *)
(* subsets for which the statement holds.                                   *)
LEMMA SetInduction ==
  ASSUME NEW S, IsFiniteSet(S), NEW G, {} \in G,
         \A T \in SUBSET S, x \in S : T \in G /\ x \notin T => T \cup {x} \in G
  PROVE  S \in G
<1> DEFINE Bad == FiniteSubsetsOf(S) \ G
<1>1. SUFFICES ASSUME S \notin G PROVE FALSE
  OBVIOUS
<1>2. S \in Bad
  BY <1>1 DEF FiniteSubsetsOf
<1>3. \E T \in Bad : \A U \in Bad : ~(<<U, T>> \in StrictSubsetOrdering(S))
  <2> HIDE DEF Bad
  <2>1. Bad \subseteq FiniteSubsetsOf(S) BY DEF Bad
  <2> QED BY <1>2, <2>1, FS_StrictSubsetOrderingWellFounded, WFMin
<1>4. PICK T \in Bad : \A U \in Bad : ~(<<U, T>> \in StrictSubsetOrdering(S))
  BY <1>3
<1>5. PICK x \in T : TRUE
  <2>1. T # {} OBVIOUS
  <2> QED BY <2>1
<1>6. T \subseteq S /\ IsFiniteSet(T)
  BY DEF FiniteSubsetsOf
<1>7. IsFiniteSet(T \ {x})
  BY <1>6, FS_RemoveElement
<1>8. T \ {x} \in G
  <2>1. T \ {x} \in FiniteSubsetsOf(S)
    BY <1>6, <1>7 DEF FiniteSubsetsOf
  <2>2. <<T \ {x}, T>> \in StrictSubsetOrdering(S)
    <3>1. T \ {x} # T /\ T \ {x} \subseteq T /\ <<T \ {x}, T>> \in (SUBSET S) \X (SUBSET S)
      BY <1>5, <1>6
    <3> QED BY <3>1 DEF StrictSubsetOrdering
  <2> QED BY <1>4, <2>1, <2>2
<1>9. (T \ {x}) \cup {x} = T
  BY <1>5
<1> QED BY <1>6, <1>8, <1>9

(* Induction over the naturals, for a set G of them. *)
LEMMA NaturalInduction ==
  ASSUME NEW G, 0 \in G, \A n \in Nat : n \in G => n + 1 \in G
  PROVE  Nat \subseteq G
<1> DEFINE Bad == Nat \ G
           R == OpToRel(<, Nat)
<1> SUFFICES ASSUME Bad # {} PROVE FALSE
  OBVIOUS
<1>1. \E n \in Bad : \A m \in Bad : ~(<<m, n>> \in R)
  <2>1. Bad \subseteq Nat OBVIOUS
  <2> HIDE DEF Bad
  <2>2. IsWellFoundedOn(R, Nat) BY NatLessThanWellFounded
  <2> HIDE DEF R
  <2> QED BY <2>1, <2>2, WFMin
<1>2. PICK n \in Bad : \A m \in Bad : ~(<<m, n>> \in R)
  BY <1>1
<1>3. n \in Nat /\ n # 0
  OBVIOUS
<1>4. n - 1 \in Nat /\ (n - 1) + 1 = n
  BY <1>3
<1>5. n - 1 \in Bad
  BY <1>4
<1>6. <<n - 1, n>> \in R
  BY <1>3, <1>4 DEF OpToRel
<1> QED BY <1>2, <1>5, <1>6

Pick(T) == CHOOSE x \in T : TRUE

SumOn(g, f, D) == g = [T \in D |-> IF T = {} THEN 0 ELSE f[Pick(T)] + g[T \ {Pick(T)}]]

SumFcn(f) == CHOOSE g : SumOn(g, f, SUBSET DOMAIN f)

(* Sum as the recursion over subsets it folds with. *)
LEMMA SumUnfold == \A f : Sum(f) = SumFcn(f)[DOMAIN f]
BY DEF Sum, SumFcn, SumOn, FoldFunction, FoldFunctionOnSet, MapThenFoldSet, Pick

(* The element a fold takes next is one of those left. *)
LEMMA PickIn == \A T : T # {} => Pick(T) \in T
BY DEF Pick

(* The recursion has a solution on the subsets of a finite set. *)
LEMMA SumExists ==
  ASSUME NEW f, NEW S, IsFiniteSet(S)
  PROVE  \E g : SumOn(g, f, SUBSET S)
<1> DEFINE Small(n) == {T \in SUBSET S : Cardinality(T) <= n}
           G == {n \in Nat : \E g : SumOn(g, f, Small(n))}
<1>1. \A T \in SUBSET S : IsFiniteSet(T) /\ Cardinality(T) \in Nat /\ Cardinality(T) <= Cardinality(S)
  BY FS_Subset, FS_CardinalityType
<1>2. 0 \in G
  <2> DEFINE g == [T \in Small(0) |-> 0]
  <2>1. \A T \in Small(0) : T = {}
    BY <1>1, FS_EmptySet
  <2>2. g = [T \in Small(0) |-> IF T = {} THEN 0 ELSE f[Pick(T)] + g[T \ {Pick(T)}]]
    BY <2>1
  <2>3. SumOn(g, f, Small(0))
    BY <2>2 DEF SumOn
  <2> QED BY <2>3
<1>3. ASSUME NEW n \in Nat, n \in G
      PROVE  n + 1 \in G
  <2>1. PICK g : SumOn(g, f, Small(n))
    BY <1>3
  <2> DEFINE h == [T \in Small(n + 1) |-> IF T = {} THEN 0 ELSE f[Pick(T)] + g[T \ {Pick(T)}]]
  <2>2. ASSUME NEW T \in Small(n + 1), T # {}
        PROVE  h[T \ {Pick(T)}] = g[T \ {Pick(T)}]
    <3> DEFINE U == T \ {Pick(T)}
    <3>1. U \in Small(n)
      <4>1. Cardinality(U) = Cardinality(T) - 1
        BY <1>1, <2>2, PickIn, FS_RemoveElement
      <4> QED BY <4>1, <1>1
    <3>2. U \in Small(n + 1)
      BY <3>1, <1>1
    <3>3. g[U] = IF U = {} THEN 0 ELSE f[Pick(U)] + g[U \ {Pick(U)}]
      BY <2>1, <3>1 DEF SumOn
    <3> HIDE DEF U
    <3>4. h[U] = IF U = {} THEN 0 ELSE f[Pick(U)] + g[U \ {Pick(U)}]
      BY <3>2
    <3> QED BY <3>3, <3>4 DEF U
  <2>3. h = [T \in Small(n + 1) |-> IF T = {} THEN 0 ELSE f[Pick(T)] + h[T \ {Pick(T)}]]
    BY <2>2
  <2>4. SumOn(h, f, Small(n + 1))
    BY <2>3 DEF SumOn
  <2>5. n + 1 \in Nat
    BY <1>3
  <2> HIDE DEF h, Small
  <2> QED BY <2>4, <2>5
<1>4. Cardinality(S) \in G
  <2> HIDE DEF G
  <2> QED BY <1>2, <1>3, NaturalInduction, FS_CardinalityType
<1>5. Small(Cardinality(S)) = SUBSET S
  BY <1>1
<1> QED BY <1>4, <1>5

(* The recursion behind Sum, over all subsets of the domain. *)
LEMMA SumFcnRec ==
  ASSUME NEW f, IsFiniteSet(DOMAIN f)
  PROVE  /\ SumFcn(f)[{}] = 0
         /\ \A T \in SUBSET DOMAIN f : T # {} =>
              SumFcn(f)[T] = f[Pick(T)] + SumFcn(f)[T \ {Pick(T)}]
<1> DEFINE g == SumFcn(f)
<1>1. SumOn(g, f, SUBSET DOMAIN f)
  BY SumExists DEF SumFcn
<1>2. g = [T \in SUBSET DOMAIN f |-> IF T = {} THEN 0 ELSE f[Pick(T)] + g[T \ {Pick(T)}]]
  BY <1>1 DEF SumOn
<1> HIDE DEF g
<1>3. \A T \in SUBSET DOMAIN f : g[T] = IF T = {} THEN 0 ELSE f[Pick(T)] + g[T \ {Pick(T)}]
  <2> DEFINE h == [T \in SUBSET DOMAIN f |-> IF T = {} THEN 0 ELSE f[Pick(T)] + g[T \ {Pick(T)}]]
  <2>1. \A T \in SUBSET DOMAIN f : h[T] = IF T = {} THEN 0 ELSE f[Pick(T)] + g[T \ {Pick(T)}]
    OBVIOUS
  <2>2. g = h
    BY <1>2
  <2> HIDE DEF h
  <2> QED BY <2>1, <2>2
<1> QED BY <1>3 DEF g

(* Induction over the subsets of a finite set, from smaller to larger ones. *)
LEMMA SubsetInduction ==
  ASSUME NEW S, IsFiniteSet(S), NEW G,
         \A T \in SUBSET S : (\A U \in SUBSET T : U # T => U \in G) => T \in G
  PROVE  \A T \in SUBSET S : T \in G
<1> DEFINE Bad == (SUBSET S) \ G
<1> SUFFICES ASSUME Bad # {} PROVE FALSE
  OBVIOUS
<1>1. \E T \in Bad : \A U \in Bad : ~(<<U, T>> \in StrictSubsetOrdering(S))
  <2>1. Bad \subseteq FiniteSubsetsOf(S)
    BY FS_Subset DEF FiniteSubsetsOf
  <2> HIDE DEF Bad
  <2> QED BY <2>1, FS_StrictSubsetOrderingWellFounded, WFMin
<1>2. PICK T \in Bad : \A U \in Bad : ~(<<U, T>> \in StrictSubsetOrdering(S))
  BY <1>1
<1>3. ASSUME NEW U \in SUBSET T, U # T
      PROVE  U \in G
  <2>1. <<U, T>> \in StrictSubsetOrdering(S)
    BY <1>3 DEF StrictSubsetOrdering
  <2> QED BY <1>2, <2>1
<1> QED BY <1>3

(* Partial sums of integers are integers. *)
LEMMA SumFcnType ==
  ASSUME NEW S, IsFiniteSet(S), NEW f \in [S -> Int]
  PROVE  \A T \in SUBSET S : SumFcn(f)[T] \in Int
<1> DEFINE G == {T \in SUBSET S : SumFcn(f)[T] \in Int}
<1>1. ASSUME NEW T \in SUBSET S, \A U \in SUBSET T : U # T => U \in G
      PROVE  T \in G
  <2>1. CASE T = {}
    BY <2>1, SumFcnRec
  <2>2. CASE T # {}
    <3>1. Pick(T) \in T /\ T \ {Pick(T)} \in G
      BY <1>1, <2>2, PickIn
    <3>2. SumFcn(f)[T] = f[Pick(T)] + SumFcn(f)[T \ {Pick(T)}]
      BY <2>2, SumFcnRec
    <3>3. f[Pick(T)] \in Int /\ SumFcn(f)[T \ {Pick(T)}] \in Int
      BY <3>1
    <3> QED BY <3>2, <3>3
  <2> QED BY <2>1, <2>2
<1> HIDE DEF G
<1>2. \A T \in SUBSET S : T \in G
  BY <1>1, SubsetInduction
<1> QED BY <1>2 DEF G

(* It does not matter which element is taken first. *)
LEMMA SumFcnAny ==
  ASSUME NEW S, IsFiniteSet(S), NEW f \in [S -> Int]
  PROVE  \A T \in SUBSET S : \A x \in T : SumFcn(f)[T] = f[x] + SumFcn(f)[T \ {x}]
<1> DEFINE F == SumFcn(f)
           G == {T \in SUBSET S : \A x \in T : F[T] = f[x] + F[T \ {x}]}
<1>1. ASSUME NEW T \in SUBSET S, \A U \in SUBSET T : U # T => U \in G
      PROVE  T \in G
  <2> SUFFICES ASSUME NEW x \in T
               PROVE  F[T] = f[x] + F[T \ {x}]
    OBVIOUS
  <2> DEFINE c == Pick(T)
  <2>1. c \in T /\ F[T] = f[c] + F[T \ {c}]
    BY PickIn, SumFcnRec
  <2> HIDE DEF c
  <2>2. CASE x = c
    BY <2>1, <2>2
  <2>3. CASE x # c
    <3>1. T \ {c} \in G /\ T \ {x} \in G
      BY <1>1, <2>1
    <3>2. F[T \ {c}] = f[x] + F[(T \ {c}) \ {x}]
      BY <3>1, <2>3
    <3>3. F[T \ {x}] = f[c] + F[(T \ {x}) \ {c}]
      BY <3>1, <2>1, <2>3
    <3>4. (T \ {c}) \ {x} = (T \ {x}) \ {c}
      OBVIOUS
    <3>5. F[(T \ {x}) \ {c}] \in Int /\ f[x] \in Int /\ f[c] \in Int
      BY <2>1, SumFcnType
    <3> HIDE DEF F, G
    <3>6. F[T] = f[c] + (f[x] + F[(T \ {x}) \ {c}])
      BY <2>1, <3>2, <3>4
    <3> QED BY <3>3, <3>5, <3>6
  <2> QED BY <2>2, <2>3
<1> HIDE DEF G
<1>2. \A T \in SUBSET S : T \in G
  BY <1>1, SubsetInduction
<1> QED BY <1>2 DEF G

(* A sum over a set depends on the values there only. *)
LEMMA SumFcnLocal ==
  ASSUME NEW f, IsFiniteSet(DOMAIN f), NEW h, IsFiniteSet(DOMAIN h),
         NEW S, S \subseteq DOMAIN f, S \subseteq DOMAIN h, \A x \in S : f[x] = h[x]
  PROVE  SumFcn(f)[S] = SumFcn(h)[S]
<1> DEFINE G == {T \in SUBSET S : SumFcn(f)[T] = SumFcn(h)[T]}
<1>1. ASSUME NEW T \in SUBSET S, \A U \in SUBSET T : U # T => U \in G
      PROVE  T \in G
  <2>1. CASE T = {}
    BY <2>1, SumFcnRec
  <2>2. CASE T # {}
    <3>1. Pick(T) \in T /\ T \ {Pick(T)} \in G
      BY <1>1, <2>2, PickIn
    <3>2. SumFcn(f)[T] = f[Pick(T)] + SumFcn(f)[T \ {Pick(T)}]
      BY <2>2, SumFcnRec
    <3>3. SumFcn(h)[T] = h[Pick(T)] + SumFcn(h)[T \ {Pick(T)}]
      BY <2>2, SumFcnRec
    <3> QED BY <3>1, <3>2, <3>3
  <2> QED BY <2>1, <2>2
<1>2. IsFiniteSet(S)
  BY FS_Subset
<1> HIDE DEF G
<1>3. \A T \in SUBSET S : T \in G
  BY <1>1, <1>2, SubsetInduction
<1> QED BY <1>3 DEF G

(* The sum over a subset is the partial sum there. *)
LEMMA SumOfRestriction ==
  ASSUME NEW S, IsFiniteSet(S), NEW f \in [S -> Int], NEW T \in SUBSET S
  PROVE  Sum([x \in T |-> f[x]]) = SumFcn(f)[T]
<1> DEFINE h == [x \in T |-> f[x]]
<1>1. DOMAIN h = T /\ IsFiniteSet(T) /\ \A x \in T : f[x] = h[x]
  BY FS_Subset
<1> HIDE DEF h
<1>2. SumFcn(f)[T] = SumFcn(h)[T]
  BY <1>1, SumFcnLocal
<1> QED BY <1>1, <1>2, SumUnfold DEF h

(* SumFcn(f) at a set and one element more. *)
Additive(f, S) ==
  /\ SumFcn(f)[{}] = 0
  /\ \A T \in SUBSET S, x \in S : x \notin T =>
       /\ T \cup {x} \in SUBSET S
       /\ SumFcn(f)[T \cup {x}] = f[x] + SumFcn(f)[T]
       /\ SumFcn(f)[T] \in Int
       /\ f[x] \in Int

(* A new element adds its value to a partial sum. *)
LEMMA SumFcnAdd ==
  ASSUME NEW S, IsFiniteSet(S), NEW f \in [S -> Int]
  PROVE  Additive(f, S)
<1>1. SumFcn(f)[{}] = 0
  BY SumFcnRec
<1>2. ASSUME NEW T \in SUBSET S, NEW x \in S, x \notin T
      PROVE  SumFcn(f)[T \cup {x}] = f[x] + SumFcn(f)[T]
  <2>1. T \cup {x} \in SUBSET S /\ x \in T \cup {x} /\ (T \cup {x}) \ {x} = T
    BY <1>2
  <2>2. SumFcn(f)[T \cup {x}] = f[x] + SumFcn(f)[(T \cup {x}) \ {x}]
    BY <2>1, SumFcnAny
  <2> QED BY <2>1, <2>2
<1>3. \A T \in SUBSET S : SumFcn(f)[T] \in Int
  BY SumFcnType
<1> QED BY <1>1, <1>2, <1>3 DEF Additive

(* A sum is the partial sum over the whole domain. *)
LEMMA SumIs ==
  ASSUME NEW S, NEW f \in [S -> Int]
  PROVE  Sum(f) = SumFcn(f)[S]
<1>1. DOMAIN f = S
  OBVIOUS
<1> QED BY <1>1, SumUnfold

(***************************************************************************)
(* What the proofs cite.                                                   *)
(***************************************************************************)
LEMMA SumType ==
  ASSUME NEW S, IsFiniteSet(S), NEW f \in [S -> Int]
  PROVE  Sum(f) \in Int
BY SumIs, SumFcnType

(* A sum of nothing is 0. *)
LEMMA SumEmpty ==
  ASSUME NEW f \in [{} -> Int]
  PROVE  Sum(f) = 0
BY SumIs, SumFcnAdd, FS_EmptySet DEF Additive

(* A new element adds its value. *)
LEMMA SumAdd ==
  ASSUME NEW S, IsFiniteSet(S), NEW x, x \notin S,
         NEW f \in [S -> Int], NEW g \in [S \cup {x} -> Int], \A y \in S : f[y] = g[y]
  PROVE  Sum(g) = g[x] + Sum(f)
<1>1. IsFiniteSet(S \cup {x}) /\ DOMAIN f = S /\ DOMAIN g = S \cup {x}
  BY FS_AddElement
<1>2. SumFcn(f)[S] = SumFcn(g)[S]
  BY <1>1, SumFcnLocal
<1>3. SumFcn(g)[S \cup {x}] = g[x] + SumFcn(g)[S]
  BY <1>1, SumFcnAdd DEF Additive
<1> QED BY <1>2, <1>3, SumIs

(* Larger terms, larger sum. *)
LEMMA SumMonotone ==
  ASSUME NEW S, IsFiniteSet(S), NEW f \in [S -> Int], NEW g \in [S -> Int],
         \A x \in S : f[x] <= g[x]
  PROVE  Sum(f) <= Sum(g)
<1>f. Additive(f, S) BY SumFcnAdd
<1>g. Additive(g, S) BY SumFcnAdd
<1> DEFINE G == {T \in SUBSET S : SumFcn(f)[T] <= SumFcn(g)[T]}
<1>1. {} \in G
  BY <1>f, <1>g DEF Additive
<1>2. ASSUME NEW T \in SUBSET S, NEW x \in S, T \in G, x \notin T
      PROVE  T \cup {x} \in G
  <2>1. /\ SumFcn(f)[T \cup {x}] = f[x] + SumFcn(f)[T]
        /\ SumFcn(g)[T \cup {x}] = g[x] + SumFcn(g)[T]
        /\ SumFcn(f)[T] \in Int /\ SumFcn(g)[T] \in Int /\ f[x] \in Int /\ g[x] \in Int
    BY <1>2, <1>f, <1>g DEF Additive
  <2> QED BY <1>2, <2>1
<1> HIDE DEF G
<1>3. S \in G
  BY <1>1, <1>2, SetInduction
<1> QED BY <1>3, SumIs DEF G

(* The sum of sums, term by term. *)
LEMMA SumPlus ==
  ASSUME NEW S, IsFiniteSet(S), NEW f \in [S -> Int], NEW g \in [S -> Int], NEW h \in [S -> Int],
         \A x \in S : h[x] = f[x] + g[x]
  PROVE  Sum(h) = Sum(f) + Sum(g)
<1>f. Additive(f, S) BY SumFcnAdd
<1>g. Additive(g, S) BY SumFcnAdd
<1>h. Additive(h, S) BY SumFcnAdd
<1> DEFINE G == {T \in SUBSET S : SumFcn(h)[T] = SumFcn(f)[T] + SumFcn(g)[T]}
<1>1. {} \in G
  BY <1>f, <1>g, <1>h DEF Additive
<1>2. ASSUME NEW T \in SUBSET S, NEW x \in S, T \in G, x \notin T
      PROVE  T \cup {x} \in G
  <2>1. SumFcn(f)[T \cup {x}] = f[x] + SumFcn(f)[T] /\ SumFcn(f)[T] \in Int /\ f[x] \in Int
    BY <1>2, <1>f DEF Additive
  <2>2. SumFcn(g)[T \cup {x}] = g[x] + SumFcn(g)[T] /\ SumFcn(g)[T] \in Int /\ g[x] \in Int
    BY <1>2, <1>g DEF Additive
  <2>3. SumFcn(h)[T \cup {x}] = h[x] + SumFcn(h)[T]
    BY <1>2, <1>h DEF Additive
  <2>4. SumFcn(h)[T \cup {x}] = SumFcn(f)[T \cup {x}] + SumFcn(g)[T \cup {x}]
    BY <1>2, <2>1, <2>2, <2>3
  <2> QED BY <1>2, <2>4
<1> HIDE DEF G
<1>3. S \in G
  BY <1>1, <1>2, SetInduction
<1> QED BY <1>3, SumIs DEF G

(* A common factor may be taken out. *)
LEMMA SumScale ==
  ASSUME NEW S, IsFiniteSet(S), NEW c \in Int, NEW f \in [S -> Int], NEW g \in [S -> Int],
         \A x \in S : g[x] = c * f[x]
  PROVE  Sum(g) = c * Sum(f)
<1>f. Additive(f, S) BY SumFcnAdd
<1>g. Additive(g, S) BY SumFcnAdd
<1> DEFINE G == {T \in SUBSET S : SumFcn(g)[T] = c * SumFcn(f)[T]}
<1>1. {} \in G
  BY <1>f, <1>g DEF Additive
<1>2. ASSUME NEW T \in SUBSET S, NEW x \in S, T \in G, x \notin T
      PROVE  T \cup {x} \in G
  <2>1. /\ SumFcn(f)[T \cup {x}] = f[x] + SumFcn(f)[T]
        /\ SumFcn(g)[T \cup {x}] = g[x] + SumFcn(g)[T]
        /\ SumFcn(f)[T] \in Int /\ f[x] \in Int
    BY <1>2, <1>f, <1>g DEF Additive
  <2>2. \A a \in Int, b \in Int : c * a + c * b = c * (a + b)
    OBVIOUS
  <2>3. c * f[x] + c * SumFcn(f)[T] = c * (f[x] + SumFcn(f)[T])
    BY <2>1, <2>2
  <2>4. SumFcn(g)[T \cup {x}] = c * SumFcn(f)[T \cup {x}]
    BY <1>2, <2>1, <2>3
  <2> QED BY <1>2, <2>4
<1> HIDE DEF G
<1>3. S \in G
  BY <1>1, <1>2, SetInduction
<1> QED BY <1>3, SumIs DEF G

(* The sum of the same term everywhere. *)
LEMMA SumConstant ==
  ASSUME NEW S, IsFiniteSet(S), NEW c \in Int, NEW f \in [S -> Int], \A x \in S : f[x] = c
  PROVE  Sum(f) = c * Cardinality(S)
<1>f. Additive(f, S) BY SumFcnAdd
<1> DEFINE G == {T \in SUBSET S : SumFcn(f)[T] = c * Cardinality(T)}
<1>1. {} \in G
  BY <1>f, FS_EmptySet DEF Additive
<1>2. ASSUME NEW T \in SUBSET S, NEW x \in S, T \in G, x \notin T
      PROVE  T \cup {x} \in G
  <2>1. SumFcn(f)[T \cup {x}] = c + SumFcn(f)[T] /\ SumFcn(f)[T] \in Int
    <3>1. SumFcn(f)[T \cup {x}] = f[x] + SumFcn(f)[T] /\ SumFcn(f)[T] \in Int
      BY <1>2, <1>f DEF Additive
    <3> QED BY <3>1
  <2>2. Cardinality(T) \in Nat /\ Cardinality(T \cup {x}) = Cardinality(T) + 1
    BY <1>2, FS_Subset, FS_AddElement, FS_CardinalityType
  <2>3. \A a \in Int : c + c * a = c * (a + 1)
    OBVIOUS
  <2>4. SumFcn(f)[T \cup {x}] = c * Cardinality(T \cup {x})
    BY <1>2, <2>1, <2>2, <2>3
  <2> QED BY <1>2, <2>4
<1> HIDE DEF G
<1>3. S \in G
  BY <1>1, <1>2, SetInduction
<1> QED BY <1>3, SumIs DEF G

(* Partial sums over disjoint sets add up. *)
LEMMA SumFcnUnion ==
  ASSUME NEW S, IsFiniteSet(S), NEW f \in [S -> Int], NEW A \in SUBSET S, NEW B \in SUBSET S, A \cap B = {}
  PROVE  SumFcn(f)[A \cup B] = SumFcn(f)[A] + SumFcn(f)[B]
<1>f. Additive(f, S) BY SumFcnAdd
<1>t. \A T \in SUBSET S : SumFcn(f)[T] \in Int
  BY SumFcnType
<1> DEFINE G == {T \in SUBSET B : SumFcn(f)[A \cup T] = SumFcn(f)[A] + SumFcn(f)[T]}
<1>1. {} \in G
  <2>1. A \cup {} = A
    OBVIOUS
  <2> QED BY <1>f, <1>t, <2>1 DEF Additive
<1>2. ASSUME NEW T \in SUBSET B, NEW x \in B, T \in G, x \notin T
      PROVE  T \cup {x} \in G
  <2>1. SumFcn(f)[T \cup {x}] = f[x] + SumFcn(f)[T] /\ SumFcn(f)[T] \in Int /\ f[x] \in Int
    BY <1>2, <1>f DEF Additive
  <2>2. SumFcn(f)[(A \cup T) \cup {x}] = f[x] + SumFcn(f)[A \cup T]
    BY <1>2, <1>f DEF Additive
  <2>3. (A \cup T) \cup {x} = A \cup (T \cup {x})
    OBVIOUS
  <2>4. SumFcn(f)[A \cup T] = SumFcn(f)[A] + SumFcn(f)[T]
    BY <1>2
  <2>5. SumFcn(f)[A] \in Int
    BY <1>t
  <2> HIDE DEF G
  <2>6. SumFcn(f)[A \cup (T \cup {x})] = f[x] + (SumFcn(f)[A] + SumFcn(f)[T])
    BY <2>2, <2>3, <2>4
  <2>7. SumFcn(f)[A \cup (T \cup {x})] = SumFcn(f)[A] + SumFcn(f)[T \cup {x}]
    BY <2>1, <2>5, <2>6
  <2> QED BY <1>2, <2>7 DEF G
<1>3. IsFiniteSet(B)
  BY FS_Subset
<1> HIDE DEF G
<1>4. B \in G
  BY <1>1, <1>2, <1>3, SetInduction
<1> QED BY <1>4 DEF G

(* A sum may be split in two. *)
LEMMA SumSplit ==
  ASSUME NEW S, IsFiniteSet(S), NEW T, IsFiniteSet(T), S \cap T = {},
         NEW f \in [S -> Int], NEW g \in [T -> Int], NEW h \in [S \cup T -> Int],
         \A x \in S : h[x] = f[x], \A x \in T : h[x] = g[x]
  PROVE  Sum(h) = Sum(f) + Sum(g)
<1>1. IsFiniteSet(S \cup T) /\ DOMAIN f = S /\ DOMAIN g = T /\ DOMAIN h = S \cup T
  BY FS_Union
<1>2. SumFcn(f)[S] = SumFcn(h)[S] /\ SumFcn(g)[T] = SumFcn(h)[T]
  BY <1>1, SumFcnLocal
<1>3. SumFcn(h)[S \cup T] = SumFcn(h)[S] + SumFcn(h)[T]
  BY <1>1, SumFcnUnion
<1> QED BY <1>2, <1>3, SumIs

(* A sum may be taken group by group. *)
LEMMA SumPartition ==
  ASSUME NEW S, IsFiniteSet(S), NEW K, IsFiniteSet(K),
         NEW f \in [S -> Int], NEW h \in [S -> K], NEW part \in [K -> Int],
         \A k \in K : part[k] = Sum([x \in {y \in S : h[y] = k} |-> f[x]])
  PROVE  Sum(part) = Sum(f)
<1> DEFINE Of(T) == {y \in S : h[y] \in T}
           G == {T \in SUBSET K : SumFcn(part)[T] = SumFcn(f)[Of(T)]}
<1>f. Additive(f, S) BY SumFcnAdd
<1>p. Additive(part, K) BY SumFcnAdd
<1>1. {} \in G
  <2>1. Of({}) = {}
    OBVIOUS
  <2> QED BY <1>f, <1>p, <2>1 DEF Additive
<1>2. ASSUME NEW T \in SUBSET K, NEW k \in K, T \in G, k \notin T
      PROVE  T \cup {k} \in G
  <2> DEFINE A == {y \in S : h[y] = k}
  <2>1. Of(T \cup {k}) = A \cup Of(T) /\ A \cap Of(T) = {} /\ A \in SUBSET S /\ Of(T) \in SUBSET S
    BY <1>2
  <2>2. part[k] = Sum([x \in A |-> f[x]])
    OBVIOUS
  <2>3. SumFcn(part)[T \cup {k}] = part[k] + SumFcn(part)[T]
    BY <1>2, <1>p DEF Additive
  <2> HIDE DEF A, Of
  <2>4. SumFcn(f)[A \cup Of(T)] = SumFcn(f)[A] + SumFcn(f)[Of(T)]
    BY ONLY <2>1, IsFiniteSet(S), f \in [S -> Int], SumFcnUnion
  <2>5. SumFcn(part)[T] = SumFcn(f)[Of(T)]
    BY <1>2
  <2>6. part[k] = SumFcn(f)[A]
    BY <2>1, <2>2, SumOfRestriction
  <2> QED BY <1>2, <2>1, <2>3, <2>4, <2>5, <2>6
<1>3. Of(K) = S
  OBVIOUS
<1> HIDE DEF G
<1>4. K \in G
  BY <1>1, <1>2, SetInduction
<1>5. SumFcn(part)[K] = SumFcn(f)[Of(K)]
  BY <1>4 DEF G
<1> QED BY <1>3, <1>5, SumIs

(* A sum of one term. *)
LEMMA SumSingle ==
  ASSUME NEW x, NEW f \in [{x} -> Int]
  PROVE  Sum(f) = f[x]
<1> DEFINE E == {}
           e == [y \in E |-> 0]
<1>1. e \in [E -> Int] /\ IsFiniteSet(E) /\ f \in [E \cup {x} -> Int] /\ x \notin E
  BY FS_EmptySet
<1>2. \A y \in E : e[y] = f[y]
  OBVIOUS
<1>4. Sum(e) = 0
  BY <1>1, SumEmpty
<1> HIDE DEF e, E
<1>3. Sum(f) = f[x] + Sum(e)
  BY <1>1, <1>2, SumAdd
<1> QED BY <1>3, <1>4

(* A sum over the images of S under a one-to-one map. *)
LEMMA SumImage ==
  ASSUME NEW S, IsFiniteSet(S), NEW T, NEW h \in [S -> T],
         \A y \in T : \E x \in S : h[x] = y,
         \A x \in S, y \in S : h[x] = h[y] => x = y,
         NEW f \in [S -> Int], NEW g \in [T -> Int], \A x \in S : f[x] = g[h[x]]
  PROVE  Sum(g) = Sum(f)
<1>1. IsFiniteSet(T)
  <2>1. T = {h[x] : x \in S}
    OBVIOUS
  <2> DEFINE j == [x \in S |-> h[x]]
  <2>2. j \in Surjection(S, T)
    BY <2>1 DEF Surjection
  <2> HIDE DEF j
  <2> QED BY <2>2, FS_Surjection
<1>2. ASSUME NEW k \in T
      PROVE  g[k] = Sum([x \in {y \in S : h[y] = k} |-> f[x]])
  <2>1. PICK z \in S : h[z] = k
    OBVIOUS
  <2>2. {y \in S : h[y] = k} = {z}
    BY <2>1
  <2> DEFINE s == [x \in {z} |-> f[x]]
  <2>3. s \in [{z} -> Int] /\ s[z] = g[k]
    BY <2>1
  <2> HIDE DEF s
  <2>4. Sum(s) = g[k]
    BY <2>3, SumSingle
  <2> QED BY <2>2, <2>4 DEF s
<1>3. g \in [T -> Int]
  OBVIOUS
<1> QED BY <1>1, <1>2, <1>3, SumPartition

(* Terms that are 0 may be left out. *)
LEMMA SumZeros ==
  ASSUME NEW S, IsFiniteSet(S), NEW T \in SUBSET S, NEW f \in [S -> Int], NEW g \in [T -> Int],
         \A x \in T : g[x] = f[x], \A x \in S \ T : f[x] = 0
  PROVE  Sum(f) = Sum(g)
<1> DEFINE z == [x \in S \ T |-> f[x]]
<1>1. IsFiniteSet(T) /\ IsFiniteSet(S \ T) /\ T \cap (S \ T) = {} /\ T \cup (S \ T) = S
  BY FS_Subset
<1>2. z \in [S \ T -> Int] /\ \A x \in S \ T : z[x] = 0 /\ z[x] = f[x]
  OBVIOUS
<1> HIDE DEF z
<1>3. Sum(f) = Sum(g) + Sum(z)
  BY <1>1, <1>2, SumSplit
<1>4. Sum(z) = 0 * Cardinality(S \ T)
  BY <1>1, <1>2, SumConstant
<1>5. Sum(z) = 0 /\ Sum(g) \in Int
  BY <1>1, <1>4, FS_CardinalityType, SumType
<1> QED BY <1>3, <1>5

(* One changed term changes the sum by as much. *)
LEMMA SumUpdate ==
  ASSUME NEW S, IsFiniteSet(S), NEW x \in S, NEW f \in [S -> Int], NEW g \in [S -> Int],
         \A y \in S \ {x} : g[y] = f[y]
  PROVE  Sum(g) = Sum(f) + (g[x] - f[x])
<1> DEFINE r == [y \in S \ {x} |-> f[y]]
<1>1. IsFiniteSet(S \ {x}) /\ (S \ {x}) \cup {x} = S
  BY FS_RemoveElement
<1>2. r \in [S \ {x} -> Int] /\ \A y \in S \ {x} : r[y] = f[y] /\ r[y] = g[y]
  OBVIOUS
<1> HIDE DEF r
<1>3. Sum(f) = f[x] + Sum(r)
  BY <1>1, <1>2, SumAdd
<1>4. Sum(g) = g[x] + Sum(r)
  BY <1>1, <1>2, SumAdd
<1>5. Sum(r) \in Int
  BY <1>1, <1>2, SumType
<1> QED BY <1>3, <1>4, <1>5

(* A sum of naturals is a natural. *)
LEMMA SumNonNegative ==
  ASSUME NEW S, IsFiniteSet(S), NEW f \in [S -> Nat]
  PROVE  Sum(f) \in Nat /\ \A x \in S : f[x] <= Sum(f)
<1> DEFINE z == [x \in S |-> 0]
<1>1. z \in [S -> Int] /\ f \in [S -> Int] /\ \A x \in S : z[x] <= f[x] /\ z[x] = 0
  OBVIOUS
<1> HIDE DEF z
<1>2. Sum(z) <= Sum(f) /\ Sum(f) \in Int
  BY <1>1, SumMonotone, SumType
<1>3. Sum(z) = 0 * Cardinality(S)
  BY <1>1, SumConstant
<1>4. Sum(z) = 0
  BY <1>3, FS_CardinalityType
<1>5. ASSUME NEW x \in S
      PROVE  f[x] <= Sum(f)
  <2> DEFINE o == [y \in S |-> IF y = x THEN f[x] ELSE 0]
             X == {x}
             s == [y \in X |-> f[x]]
  <2>1. o \in [S -> Int] /\ \A y \in S : o[y] <= f[y]
    OBVIOUS
  <2>2. s \in [X -> Int] /\ s[x] = f[x] /\ X \in SUBSET S /\ \A y \in X : s[y] = o[y]
    OBVIOUS
  <2>3. \A y \in S \ X : o[y] = 0
    OBVIOUS
  <2>6. Sum(s) = f[x]
    BY <2>2, SumSingle
  <2> HIDE DEF o, s, X
  <2>4. Sum(o) <= Sum(f)
    BY <1>1, <2>1, SumMonotone
  <2>5. Sum(o) = Sum(s)
    BY <2>1, <2>2, <2>3, SumZeros
  <2> QED BY <2>4, <2>5, <2>6
<1> QED BY <1>2, <1>4, <1>5

-----------------------------------------------------------------------------
(* The same, with the premises in one predicate that an instance names. *)

Scaled(S, c, f, g) ==
  /\ IsFiniteSet(S) /\ c \in Int /\ f \in [S -> Int] /\ g \in [S -> Int]
  /\ \A x \in S : g[x] = c * f[x]

(* SumScale. *)
LEMMA ScaledSums ==
  ASSUME NEW S, NEW c, NEW f, NEW g, Scaled(S, c, f, g)
  PROVE  Sum(g) = c * Sum(f)
BY ONLY SumScale, Scaled(S, c, f, g) DEF Scaled

Added(S, f, g, h) ==
  /\ IsFiniteSet(S) /\ f \in [S -> Int] /\ g \in [S -> Int] /\ h \in [S -> Int]
  /\ \A x \in S : h[x] = f[x] + g[x]

(* SumPlus. *)
LEMMA AddedSums ==
  ASSUME NEW S, NEW f, NEW g, NEW h, Added(S, f, g, h)
  PROVE  Sum(h) = Sum(f) + Sum(g)
BY ONLY SumPlus, Added(S, f, g, h) DEF Added

Padded(S, T, f, g) ==
  /\ IsFiniteSet(S) /\ T \in SUBSET S /\ f \in [S -> Int] /\ g \in [T -> Int]
  /\ \A x \in T : g[x] = f[x]
  /\ \A x \in S \ T : f[x] = 0

(* SumZeros. *)
LEMMA PaddedSums ==
  ASSUME NEW S, NEW T, NEW f, NEW g, Padded(S, T, f, g)
  PROVE  Sum(f) = Sum(g)
BY ONLY SumZeros, Padded(S, T, f, g) DEF Padded

Partitioned(S, K, h, f, part) ==
  /\ IsFiniteSet(S) /\ IsFiniteSet(K) /\ h \in [S -> K] /\ f \in [S -> Int] /\ part \in [K -> Int]
  /\ \A k \in K : part[k] = Sum([x \in {y \in S : h[y] = k} |-> f[x]])

(* SumPartition. *)
LEMMA PartsAddUp ==
  ASSUME NEW S, NEW K, NEW h, NEW f, NEW part, Partitioned(S, K, h, f, part)
  PROVE  Sum(part) = Sum(f)
<1>1. /\ IsFiniteSet(S) /\ IsFiniteSet(K) /\ h \in [S -> K] /\ f \in [S -> Int] /\ part \in [K -> Int]
      /\ \A k \in K : part[k] = Sum([x \in {y \in S : h[y] = k} |-> f[x]])
  BY DEF Partitioned
<1> QED BY ONLY <1>1, SumPartition, SMTT(30)

SameSums(S, T, h, f, g) ==
  /\ IsFiniteSet(S) /\ h \in [S -> T]
  /\ \A y \in T : \E x \in S : h[x] = y
  /\ \A x \in S, y \in S : h[x] = h[y] => x = y
  /\ f \in [S -> Int] /\ g \in [T -> Int]
  /\ \A x \in S : f[x] = g[h[x]]

(* SumImage. *)
LEMMA SameSumsAgree ==
  ASSUME NEW S, NEW T, NEW h, NEW f, NEW g, SameSums(S, T, h, f, g)
  PROVE  Sum(g) = Sum(f)
BY ONLY SumImage, SameSums(S, T, h, f, g) DEF SameSums

-----------------------------------------------------------------------------
(* Counting and sharing out. *)

(* The values of a function with a finite domain. *)
LEMMA FiniteImage ==
  ASSUME NEW S, IsFiniteSet(S), NEW f, DOMAIN f = S
  PROVE  IsFiniteSet({f[x] : x \in S})
<1> DEFINE T == {f[x] : x \in S}
           h == [x \in S |-> f[x]]
<1>1. h \in Surjection(S, T)
  BY DEF Surjection
<1> HIDE DEF h, T
<1>2. IsFiniteSet(T)
  BY <1>1, FS_Surjection
<1> QED BY <1>2 DEF T

(* Terms within bounds of one another, and their sums. *)
LEMMA SumBound ==
  ASSUME NEW S, IsFiniteSet(S), NEW f \in [S -> Int], NEW g \in [S -> Int],
         NEW a \in Int, NEW b \in Int, NEW c \in Int,
         \A x \in S : a * f[x] <= b * g[x] + c
  PROVE  a * Sum(f) <= b * Sum(g) + c * Cardinality(S)
<1> DEFINE fa == [x \in S |-> a * f[x]]
           gb == [x \in S |-> b * g[x]]
           k == [x \in S |-> c]
           gc == [x \in S |-> b * g[x] + c]
<1>t. \A x \in S : a * f[x] \in Int /\ b * g[x] \in Int
  <2>1. \A m, n \in Int : m * n \in Int
    OBVIOUS
  <2> QED BY <2>1
<1>1. /\ fa \in [S -> Int] /\ gb \in [S -> Int] /\ k \in [S -> Int] /\ gc \in [S -> Int]
  BY <1>t
<1>2. /\ \A x \in S : fa[x] = a * f[x]
      /\ \A x \in S : gb[x] = b * g[x]
      /\ \A x \in S : k[x] = c
      /\ \A x \in S : gc[x] = gb[x] + k[x]
      /\ \A x \in S : fa[x] <= gc[x]
  BY <1>t
<1> HIDE DEF fa, gb, k, gc
<1>3. Sum(fa) = a * Sum(f)
  BY ONLY <1>1, <1>2, SumScale, IsFiniteSet(S), a \in Int, f \in [S -> Int]
<1>4. Sum(gb) = b * Sum(g)
  BY ONLY <1>1, <1>2, SumScale, IsFiniteSet(S), b \in Int, g \in [S -> Int]
<1>5. Sum(k) = c * Cardinality(S)
  BY ONLY <1>1, <1>2, SumConstant, IsFiniteSet(S), c \in Int
<1>6. Sum(gc) = Sum(gb) + Sum(k)
  BY ONLY <1>1, <1>2, SumPlus, IsFiniteSet(S)
<1>7. Sum(fa) <= Sum(gc)
  BY ONLY <1>1, <1>2, SumMonotone, IsFiniteSet(S)
<1> QED BY <1>3, <1>4, <1>5, <1>6, <1>7

(* A sum over the images of some, where the rest counts for nothing. *)
LEMMA SumOfImage ==
  ASSUME NEW D, IsFiniteSet(D), NEW C \in SUBSET D, NEW X, NEW act \in [C -> X],
         \A y \in X : \E d \in C : act[d] = y,
         \A d \in C, e \in C : act[d] = act[e] => d = e,
         NEW f \in [D -> Int], NEW g \in [X -> Int],
         \A d \in C : f[d] = g[act[d]], \A d \in D \ C : f[d] = 0
  PROVE  Sum(g) = Sum(f)
<1> DEFINE c == [d \in C |-> f[d]]
<1>1. c \in [C -> Int] /\ (\A d \in C : c[d] = f[d]) /\ (\A d \in C : c[d] = g[act[d]])
  OBVIOUS
<1>2. IsFiniteSet(C)
  BY FS_Subset
<1> HIDE DEF c
<1>3. Sum(g) = Sum(c)
  <2>1. SameSums(C, X, act, c, g)
    BY <1>1, <1>2 DEF SameSums
  <2> QED BY ONLY <2>1, SameSumsAgree
<1>4. Sum(f) = Sum(c)
  <2>1. /\ IsFiniteSet(D) /\ C \in SUBSET D /\ f \in [D -> Int] /\ c \in [C -> Int]
        /\ \A d \in C : c[d] = f[d]
        /\ \A d \in D \ C : f[d] = 0
    BY <1>1
  <2> QED BY ONLY <2>1, SumZeros
<1> QED BY <1>3, <1>4

(* Finitely many positive naturals have a common multiple. *)
LEMMA CommonMultiple ==
  ASSUME NEW S, IsFiniteSet(S), NEW f \in [S -> Nat \ {0}]
  PROVE  \E M \in Nat \ {0} : \E k \in [S -> Nat \ {0}] : \A x \in S : M = k[x] * f[x]
<1> DEFINE Good(T) == \E M \in Nat \ {0} : \A x \in T : \E c \in Nat \ {0} : M = c * f[x]
           GG == {T \in SUBSET S : Good(T)}
<1>1. {} \in GG
  <2>1. 1 \in Nat \ {0}
    OBVIOUS
  <2> QED BY <2>1
<1>2. ASSUME NEW T \in SUBSET S, NEW x \in S, T \in GG, x \notin T
      PROVE  T \cup {x} \in GG
  <2>1. PICK M \in Nat \ {0} : \A y \in T : \E c \in Nat \ {0} : M = c * f[y]
    BY <1>2
  <2>2. \A m, n \in Nat \ {0} : m * n \in Nat \ {0}
    OBVIOUS
  <2>3. f[x] \in Nat \ {0}
    OBVIOUS
  <2>4. M * f[x] \in Nat \ {0}
    BY <2>2, <2>3
  <2>5. ASSUME NEW y \in T
        PROVE  \E c \in Nat \ {0} : M * f[x] = c * f[y]
    <3>1. PICK c \in Nat \ {0} : M = c * f[y]
      BY <2>1
    <3>2. f[y] \in Nat \ {0} /\ c * f[x] \in Nat \ {0}
      BY <2>2, <2>3
    <3>3. \A m, n, k \in Nat : (m * n) * k = (m * k) * n
      OBVIOUS
    <3>4. M * f[x] = (c * f[x]) * f[y]
      BY <3>1, <3>2, <3>3, <2>3
    <3> QED BY <3>2, <3>4
  <2> QED BY <2>3, <2>4, <2>5
<1>3. S \in GG
  <2> HIDE DEF GG
  <2> QED BY <1>1, <1>2, SetInduction
<1>4. PICK M \in Nat \ {0} : \A x \in S : \E c \in Nat \ {0} : M = c * f[x]
  BY <1>3
<1> DEFINE k == [x \in S |-> CHOOSE c \in Nat \ {0} : M = c * f[x]]
<1>5. k \in [S -> Nat \ {0}] /\ \A x \in S : M = k[x] * f[x]
  BY <1>4
<1> QED BY <1>5

AllPositive(S, f) == IsFiniteSet(S) /\ f \in [S -> Nat \ {0}]
HaveMultiple(S, f) == \E M \in Nat \ {0} : \E k \in [S -> Nat \ {0}] : \A x \in S : M = k[x] * f[x]

(* CommonMultiple. *)
LEMMA MultipleExists ==
  ASSUME NEW S, NEW f, AllPositive(S, f)
  PROVE  HaveMultiple(S, f)
<1>1. IsFiniteSet(S) /\ f \in [S -> Nat \ {0}]
  BY DEF AllPositive
<1>2. \E M \in Nat \ {0} : \E k \in [S -> Nat \ {0}] : \A x \in S : M = k[x] * f[x]
  BY ONLY <1>1, CommonMultiple, ZenonT(60)
<1> QED BY <1>2 DEF HaveMultiple

(* What is shared out by quantity over parts of the whole adds up to it.    *)
SharesOf(R, K, h, qty, whole, fee, A, a, share) ==
  /\ IsFiniteSet(R) /\ IsFiniteSet(K) /\ h \in [R -> K] /\ qty \in [R -> Int] /\ share \in [R -> Int]
  /\ whole \in [K -> Int] /\ fee \in [K -> Int] /\ A \in Int /\ a \in [K -> Int]
  /\ \A k \in K : A = a[k] * whole[k] /\ whole[k] = Sum([r \in {s \in R : h[s] = k} |-> qty[r]])
  /\ \A r \in R : share[r] = (a[h[r]] * fee[h[r]]) * qty[r]

(* The shares add up to the fees, in units of a common multiple A. *)
LEMMA SharedOut ==
  ASSUME NEW R, NEW K, NEW h, NEW qty, NEW whole, NEW fee, NEW A, NEW a, NEW share,
         SharesOf(R, K, h, qty, whole, fee, A, a, share)
  PROVE  Sum(share) = A * Sum(fee)
<1>0. /\ IsFiniteSet(R) /\ IsFiniteSet(K) /\ h \in [R -> K] /\ qty \in [R -> Int] /\ share \in [R -> Int]
      /\ whole \in [K -> Int] /\ fee \in [K -> Int] /\ A \in Int /\ a \in [K -> Int]
      /\ \A k \in K : A = a[k] * whole[k] /\ whole[k] = Sum([r \in {s \in R : h[s] = k} |-> qty[r]])
      /\ \A r \in R : share[r] = (a[h[r]] * fee[h[r]]) * qty[r]
  BY DEF SharesOf
<1> USE <1>0
<1> DEFINE due == [k \in K |-> A * fee[k]]
<1>1. due \in [K -> Int] /\ \A k \in K : due[k] = A * fee[k]
  <2>1. \A m, n \in Int : m * n \in Int
    OBVIOUS
  <2> QED BY <2>1
<1> HIDE DEF due
<1>2. \A k \in K : due[k] = Sum([r \in {s \in R : h[s] = k} |-> share[r]])
  <2> SUFFICES ASSUME NEW k \in K PROVE due[k] = Sum([r \in {s \in R : h[s] = k} |-> share[r]])
    OBVIOUS
  <2> DEFINE Rk == {s \in R : h[s] = k}
             q == [r \in Rk |-> qty[r]]
             s == [r \in Rk |-> share[r]]
             c == a[k] * fee[k]
  <2>1. IsFiniteSet(Rk)
    BY FS_Subset
  <2>2. c \in Int
    <3>1. \A m, n \in Int : m * n \in Int
      OBVIOUS
    <3> QED BY <3>1
  <2>3. q \in [Rk -> Int] /\ s \in [Rk -> Int]
    OBVIOUS
  <2>4. \A r \in Rk : s[r] = c * q[r]
    OBVIOUS
  <2>5. Sum(q) = whole[k]
    OBVIOUS
  <2> HIDE DEF Rk, q, s, c
  <2>6. Sum(s) = c * Sum(q)
    BY ONLY <2>1, <2>2, <2>3, <2>4, SumScale
  <2>7. due[k] = c * whole[k]
    <3>1. \A x, y, z \in Int : (x * y) * z = (x * z) * y
      OBVIOUS
    <3>2. a[k] \in Int /\ whole[k] \in Int /\ fee[k] \in Int /\ A = a[k] * whole[k] /\ due[k] = A * fee[k]
      BY <1>1
    <3> QED BY <3>1, <3>2 DEF c
  <2> QED BY <2>5, <2>6, <2>7 DEF s, Rk
<1>3. Sum(due) = Sum(share)
  <2>1. IsFiniteSet(R) /\ IsFiniteSet(K) /\ h \in [R -> K] /\ share \in [R -> Int]
    BY <1>0
  <2> QED BY ONLY <1>1, <1>2, <2>1, SumPartition
<1>4. Sum(due) = A * Sum(fee)
  <2>1. IsFiniteSet(K) /\ A \in Int /\ fee \in [K -> Int]
    BY <1>0
  <2> QED BY ONLY <1>1, <2>1, SumScale
<1> QED BY <1>3, <1>4

(* In a finite total order the number of those below numbers the elements   *)
(* from 0 up.                                                               *)
LEMMA Ranks ==
  ASSUME NEW R, IsFiniteSet(R), NEW below \in [R -> SUBSET R],
         \A r, s, t \in R : r \in below[s] /\ s \in below[t] => r \in below[t],
         \A r \in R : r \notin below[r],
         \A r, s \in R : r # s => r \in below[s] \/ s \in below[r]
  PROVE  /\ \A r \in R : Cardinality(below[r]) \in 0..(Cardinality(R) - 1)
         /\ \A r, s \in R : Cardinality(below[r]) = Cardinality(below[s]) => r = s
         /\ \A i \in 0..(Cardinality(R) - 1) : \E r \in R : Cardinality(below[r]) = i
<1> DEFINE n == Cardinality(R)
           rank == [r \in R |-> Cardinality(below[r])]
<1>n. n \in Nat
  BY FS_CardinalityType
<1>1. \A r \in R : Cardinality(below[r]) \in Nat /\ Cardinality(below[r]) <= n - 1
  <2> SUFFICES ASSUME NEW r \in R
               PROVE  Cardinality(below[r]) \in Nat /\ Cardinality(below[r]) <= n - 1
    OBVIOUS
  <2>1. IsFiniteSet(R \ {r}) /\ Cardinality(R \ {r}) = n - 1
    BY FS_RemoveElement
  <2>2. below[r] \in SUBSET (R \ {r})
    OBVIOUS
  <2> QED BY <2>1, <2>2, FS_Subset, FS_CardinalityType
<1>2. \A r, s \in R : r \in below[s] => Cardinality(below[r]) < Cardinality(below[s])
  <2> SUFFICES ASSUME NEW r \in R, NEW s \in R, r \in below[s]
               PROVE  Cardinality(below[r]) < Cardinality(below[s])
    OBVIOUS
  <2>1. below[r] \in SUBSET below[s]
    OBVIOUS
  <2>2. r \in below[s] /\ r \notin below[r]
    OBVIOUS
  <2>3. IsFiniteSet(below[s])
    BY FS_Subset
  <2>4. Cardinality(below[r]) \in Nat /\ Cardinality(below[s]) \in Nat
    BY <1>1
  <2>5. Cardinality(below[r]) <= Cardinality(below[s]) /\ Cardinality(below[r]) # Cardinality(below[s])
    BY <2>1, <2>2, <2>3, FS_Subset
  <2> QED BY <2>4, <2>5
<1>3. \A r \in R : rank[r] = Cardinality(below[r])
  OBVIOUS
<1>4. rank \in [R -> 0..(n - 1)]
  <2>1. \A r \in R : Cardinality(below[r]) \in 0..(n - 1)
    BY <1>n, <1>1
  <2> QED BY <2>1
<1> HIDE DEF rank
<1>5. \A r, s \in R : rank[r] = rank[s] => r = s
  <2> SUFFICES ASSUME NEW r \in R, NEW s \in R, rank[r] = rank[s], r # s
               PROVE  FALSE
    OBVIOUS
  <2>1. Cardinality(below[r]) \in Nat /\ Cardinality(below[s]) \in Nat
    BY <1>1
  <2>2. Cardinality(below[r]) < Cardinality(below[s]) \/ Cardinality(below[s]) < Cardinality(below[r])
    BY <1>2
  <2> QED BY <1>3, <2>1, <2>2
<1>6. \A i \in 0..(n - 1) : \E r \in R : rank[r] = i
  <2>1. rank \in Injection(R, 0..(n - 1))
    BY <1>4, <1>5 DEF Injection, IsInjective
  <2>2. IsFiniteSet(0..(n - 1)) /\ Cardinality(0..(n - 1)) = n
    <3>1. IsFiniteSet(0..(n - 1)) /\ Cardinality(0..(n - 1)) = IF 0 > n - 1 THEN 0 ELSE (n - 1) - 0 + 1
      BY <1>n, FS_Interval
    <3> QED BY <1>n, <3>1
  <2>3. rank \in Surjection(R, 0..(n - 1))
    BY <2>1, <2>2, FS_Injection
  <2> QED BY <2>3 DEF Surjection
<1> QED BY <1>1, <1>3, <1>4, <1>5, <1>6, <1>n
=============================================================================
