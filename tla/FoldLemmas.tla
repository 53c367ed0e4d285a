----------------------------- MODULE FoldLemmas -----------------------------
(***************************************************************************)
(* Lemmas about the folds of the community modules, as the model uses      *)
(* them: sums over a function and folds along a sequence.  A fold is the   *)
(* value of a function that is chosen by the recursive equation it         *)
(* satisfies, so a proof first has to show that such a function exists.    *)
(* It does, by induction on the size of the set folded over.  No lemma has *)
(* an operator as a parameter: what varies is given as a set or as a       *)
(* function.                                                               *)
(***************************************************************************)
EXTENDS Selections, SequencesExt, FunctionTheorems, FiniteSetTheorems,
        SequenceTheorems, WellFoundedInduction, TLAPS

----------------------------------------------------------------------------
(* Induction *)

(* A nonempty set of naturals has a least element. *)
LEMMA LeastNat ==
  ASSUME NEW S \in SUBSET Nat, S # {}
  PROVE  \E x \in S : \A y \in S : x <= y
PROOF
<1>1. PICK x \in S : \A y \in S : <<y, x>> \notin OpToRel(<, Nat)
  BY NatLessThanWellFounded, WFMin
<1>2. \A y \in S : ~(y < x)
  BY <1>1 DEF OpToRel
<1> QED  BY <1>2

(* A nonempty set of positions of a sequence has a last one. *)
LEMMA LastPosition ==
  ASSUME NEW n \in Nat, NEW S \in SUBSET (1..n), S # {}
  PROVE  \E x \in S : \A y \in S : x >= y
PROOF
<1> DEFINE T == {n - x : x \in S}
<1>1. T \in SUBSET Nat /\ T # {}
  <2>1. \A x \in S : n - x \in Nat
    OBVIOUS
  <2>2. PICK x \in S : TRUE
    OBVIOUS
  <2>3. n - x \in T
    BY <2>2
  <2> QED  BY <2>1, <2>3
<1>2. PICK t \in T : \A u \in T : t <= u
  BY <1>1, LeastNat
<1>3. PICK x \in S : t = n - x
  OBVIOUS
<1>4. \A y \in S : n - x <= n - y
  BY <1>2, <1>3
<1> QED  BY <1>4

(* Induction over the naturals, for the set of numbers a claim holds of. *)
LEMMA InductionOnNat ==
  ASSUME NEW P \in SUBSET Nat, 0 \in P, \A n \in P : n + 1 \in P
  PROVE  P = Nat
PROOF
<1> SUFFICES ASSUME Nat \ P # {} PROVE FALSE
  OBVIOUS
<1>1. PICK n \in Nat \ P : \A m \in Nat \ P : n <= m
  BY LeastNat
<1>2. n # 0 /\ n - 1 \in Nat
  BY <1>1
<1>3. n - 1 \in P
  BY <1>1, <1>2
<1> QED  BY <1>1, <1>3

(* A sequence that is not empty is its front and its last element.         *)
LEMMA LastSplit ==
  ASSUME NEW T, NEW n \in Nat, NEW s \in Seq(T), Len(s) = n + 1
  PROVE  /\ SubSeq(s, 1, n) \in Seq(T) /\ Len(SubSeq(s, 1, n)) = n
         /\ s[n + 1] \in T
         /\ s = Append(SubSeq(s, 1, n), s[n + 1])
PROOF
<1>1. DOMAIN s = 1..(n + 1) /\ \A i \in 1..(n + 1) : s[i] \in T
  OBVIOUS
<1>2. SubSeq(s, 1, n) \in Seq(T) /\ Len(SubSeq(s, 1, n)) = n
  BY <1>1
<1>3. s[n + 1] \in T
  BY <1>1
<1> DEFINE again == Append(SubSeq(s, 1, n), s[n + 1])
<1>4. again \in Seq(T) /\ Len(again) = n + 1
  BY <1>2, <1>3
<1>5. \A i \in 1..(n + 1) : again[i] = s[i]
  BY <1>1, <1>2, <1>3
<1> HIDE DEF again
<1>6. s = again
  BY <1>4, <1>5, <1>1
<1> QED  BY <1>2, <1>3, <1>6 DEF again

(* Induction over the sequences over a set, for the set of those a claim   *)
(* holds of.                                                               *)
LEMMA InductionOnSequences ==
  ASSUME NEW T, NEW P \in SUBSET Seq(T), <<>> \in P,
         \A s \in P : \A x \in T : Append(s, x) \in P
  PROVE  P = Seq(T)
PROOF
<1> DEFINE N == {n \in Nat : \A s \in Seq(T) : Len(s) = n => s \in P}
<1>1. 0 \in N
  <2>1. \A s \in Seq(T) : Len(s) = 0 => s = <<>>
    OBVIOUS
  <2> QED  BY <2>1
<1>2. ASSUME NEW n \in N PROVE n + 1 \in N
  <2>1. ASSUME NEW s \in Seq(T), Len(s) = n + 1
        PROVE  s \in P
    <3> DEFINE front == SubSeq(s, 1, n)
    <3>1. /\ front \in Seq(T) /\ Len(front) = n
          /\ s[n + 1] \in T
          /\ s = Append(front, s[n + 1])
      <4> HIDE DEF N
      <4>1. n \in Nat
        BY DEF N
      <4> QED  BY <2>1, <4>1, LastSplit
    <3>2. front \in P
      BY <3>1
    <3> HIDE DEF front
    <3> QED  BY <3>1, <3>2
  <2> QED  BY <2>1
<1>3. N \in SUBSET Nat
  OBVIOUS
<1>4. N = Nat
  <2> HIDE DEF N
  <2> QED  BY <1>1, <1>2, <1>3, InductionOnNat
<1>5. \A s \in Seq(T) : Len(s) \in N
  BY <1>4
<1> QED  BY <1>5

(* Induction over the subsets of a finite set, for the set of those a      *)
(* claim holds of: from all subsets with one element less.                 *)
LEMMA InductionOnSubsets ==
  ASSUME NEW S, IsFiniteSet(S), NEW P \in SUBSET (SUBSET S),
         \A T \in SUBSET S : (\A x \in T : T \ {x} \in P) => T \in P
  PROVE  P = SUBSET S
PROOF
<1> DEFINE N == {Cardinality(T) : T \in (SUBSET S) \ P}
<1> SUFFICES ASSUME (SUBSET S) \ P # {} PROVE FALSE
  OBVIOUS
<1>1. \A T \in SUBSET S : IsFiniteSet(T) /\ Cardinality(T) \in Nat
  BY FS_Subset, FS_CardinalityType
<1>2. N \in SUBSET Nat /\ N # {}
  BY <1>1
<1>3. PICK n \in N : \A m \in N : n <= m
  BY <1>2, LeastNat
<1>4. PICK T \in (SUBSET S) \ P : Cardinality(T) = n
  OBVIOUS
<1>5. \A x \in T : T \ {x} \in P
  <2> SUFFICES ASSUME NEW x \in T, T \ {x} \notin P PROVE FALSE
    OBVIOUS
  <2>1. Cardinality(T \ {x}) = n - 1
    BY <1>1, <1>4, FS_RemoveElement
  <2>2. Cardinality(T \ {x}) \in N
    OBVIOUS
  <2>3. n <= n - 1
    BY <1>3, <2>1, <2>2
  <2>4. n \in Nat
    BY <1>1, <1>4
  <2> QED  BY <2>3, <2>4
<1> QED  BY <1>4, <1>5

----------------------------------------------------------------------------
(* Recursion over the subsets of a finite set *)

(* The function that starts from base at the empty set and, at any other   *)
(* set s, takes out the element first[s] and steps from its value at the   *)
(* rest.                                                                   *)
IsRecursion(F, S, V, base, first, step) ==
  /\ F \in [SUBSET S -> V]
  /\ F[{}] = base
  /\ \A s \in (SUBSET S) \ {{}} : F[s] = step[<<first[s], F[s \ {first[s]}]>>]

(* A function that steps so wherever its value at the rest is in V. *)
Follows(G, T, V, base, first, step) ==
  /\ G[{}] = base
  /\ \A s \in (SUBSET T) \ {{}} :
        G[s \ {first[s]}] \in V => G[s] = step[<<first[s], G[s \ {first[s]}]>>]

Agrees(G, F, T) == \A s \in SUBSET T : G[s] = F[s]

(* The element taken out of a set is one of its elements. *)
Chooses(first, S) == \A s \in (SUBSET S) \ {{}} : first[s] \in s

LEMMA RecursionExists ==
  ASSUME NEW S, IsFiniteSet(S), NEW V, NEW base \in V,
         NEW first, Chooses(first, S),
         NEW step \in [S \X V -> V]
  PROVE  \E F : IsRecursion(F, S, V, base, first, step)
PROOF
<1> DEFINE Solves(h, s) == h[s] = IF s = {} THEN base
                                  ELSE step[<<first[s], h[s \ {first[s]}]>>]
           P == {n \in Nat : \E h \in [SUBSET S -> V] :
                    \A s \in SUBSET S : Cardinality(s) <= n => Solves(h, s)}
<1>1. \A s \in SUBSET S : IsFiniteSet(s) /\ Cardinality(s) \in Nat
  BY FS_Subset, FS_CardinalityType
<1>2. 0 \in P
  <2> DEFINE h == [s \in SUBSET S |-> base]
  <2>1. \A s \in SUBSET S : Cardinality(s) <= 0 => s = {}
    BY <1>1, FS_EmptySet
  <2>2. \A s \in SUBSET S : Cardinality(s) <= 0 => Solves(h, s)
    BY <2>1
  <2>3. h \in [SUBSET S -> V]
    OBVIOUS
  <2> HIDE DEF h, Solves
  <2> QED  BY <2>2, <2>3
<1>3. \A n \in P : n + 1 \in P
  <2> TAKE n \in P
  <2>1. n \in Nat
    OBVIOUS
  <2>2. PICK h \in [SUBSET S -> V] : \A s \in SUBSET S : Cardinality(s) <= n => Solves(h, s)
    OBVIOUS
  <2> DEFINE g == [s \in SUBSET S |-> IF s = {} THEN base
                                      ELSE step[<<first[s], h[s \ {first[s]}]>>]]
  <2>3. g \in [SUBSET S -> V]
    BY DEF Chooses
  <2>4. ASSUME NEW s \in SUBSET S, Cardinality(s) <= n + 1
        PROVE  Solves(g, s)
    <3>1. CASE s = {}
      BY <3>1
    <3>2. CASE s # {}
      <4> DEFINE rest == s \ {first[s]}
      <4>1. first[s] \in s
        BY <3>2 DEF Chooses
      <4>2. Cardinality(rest) = Cardinality(s) - 1 /\ rest \in SUBSET S
        BY <1>1, <4>1, FS_RemoveElement
      <4>3. Cardinality(rest) <= n
        BY <1>1, <2>1, <2>4, <4>2
      <4>4. Solves(h, rest)
        BY <2>2, <4>2, <4>3
      <4>5. g[rest] = h[rest]
        BY <4>2, <4>4
      <4>6. g[s] = step[<<first[s], h[rest]>>]
        BY <3>2
      <4> QED  BY <3>2, <4>5, <4>6
    <3> QED  BY <3>1, <3>2
  <2> HIDE DEF g, Solves
  <2> QED  BY <2>1, <2>3, <2>4
<1>4. Cardinality(S) \in P
  <2>1. P \in SUBSET Nat
    OBVIOUS
  <2> HIDE DEF P
  <2>2. P = Nat
    BY <1>2, <1>3, <2>1, InductionOnNat
  <2> QED  BY <1>1, <2>2
<1>5. PICK F \in [SUBSET S -> V] :
          \A s \in SUBSET S : Cardinality(s) <= Cardinality(S) => Solves(F, s)
  BY <1>4
<1>6. \A s \in SUBSET S : Cardinality(s) <= Cardinality(S)
  BY FS_Subset
<1>7. IsRecursion(F, S, V, base, first, step)
  BY <1>5, <1>6 DEF IsRecursion
<1> QED  BY <1>7

(* Whatever satisfies the equation as far as it has values of V is that    *)
(* function, also over a smaller set.                                      *)
LEMMA RecursionUnique ==
  ASSUME NEW S, IsFiniteSet(S), NEW V, NEW base \in V,
         NEW first, Chooses(first, S),
         NEW step \in [S \X V -> V],
         NEW F, IsRecursion(F, S, V, base, first, step),
         NEW T \in SUBSET S, NEW G, Follows(G, T, V, base, first, step)
  PROVE  Agrees(G, F, T)
PROOF
<1> DEFINE P == {s \in SUBSET T : G[s] = F[s]}
<1>1. IsFiniteSet(T)
  BY FS_Subset
<1>2. ASSUME NEW s \in SUBSET T, \A x \in s : s \ {x} \in P
      PROVE  s \in P
  <2>1. CASE s = {}
    BY <2>1 DEF IsRecursion, Follows
  <2>2. CASE s # {}
    <3>1. first[s] \in s /\ s \in SUBSET S
      BY <2>2 DEF Chooses
    <3>2. G[s \ {first[s]}] = F[s \ {first[s]}]
      BY <1>2, <3>1
    <3>3. F[s \ {first[s]}] \in V
      BY <3>1 DEF IsRecursion
    <3>4. F[s] = step[<<first[s], F[s \ {first[s]}]>>]
      BY <2>2, <3>1 DEF IsRecursion
    <3> QED  BY <2>2, <3>2, <3>3, <3>4 DEF Follows
  <2> QED  BY <2>1, <2>2
<1>3. P \in SUBSET (SUBSET T)
  OBVIOUS
<1>4. P = SUBSET T
  <2>1. \A U \in SUBSET T : (\A x \in U : U \ {x} \in P) => U \in P
    BY <1>2
  <2> HIDE DEF P
  <2> QED  BY <1>1, <1>3, <2>1, InductionOnSubsets
<1> QED  BY <1>4 DEF Agrees

----------------------------------------------------------------------------
(* Sums *)

IsSum(F, g, S) ==
  /\ F \in [SUBSET S -> Nat]
  /\ F[{}] = 0
  /\ \A T \in SUBSET S : T # {} => \E x \in T : F[T] = g[x] + F[T \ {x}]
  /\ \A T \in SUBSET S : SumFunctionOnSet(g, T) = F[T]

(* The sum is the recursion over the elements in the order CHOOSE gives    *)
(* them.                                                                   *)
LEMMA SumIsRecursion ==
  ASSUME NEW g, NEW S, IsFiniteSet(S), \A x \in S : g[x] \in Nat
  PROVE  \E F : IsSum(F, g, S)
PROOF
<1> DEFINE first == [s \in (SUBSET S) \ {{}} |-> CHOOSE x \in s : TRUE]
           step == [p \in S \X Nat |-> g[p[1]] + p[2]]
<1>1. \A s \in (SUBSET S) \ {{}} : first[s] = (CHOOSE x \in s : TRUE) /\ first[s] \in s
  OBVIOUS
<1>2. step \in [S \X Nat -> Nat] /\ \A x \in S, n \in Nat : step[<<x, n>>] = g[x] + n
  OBVIOUS
<1> HIDE DEF first, step
<1>3. PICK F : IsRecursion(F, S, Nat, 0, first, step)
  BY <1>1, <1>2, RecursionExists DEF Chooses
<1>4. F \in [SUBSET S -> Nat] /\ F[{}] = 0
  BY <1>3 DEF IsRecursion
<1>5. ASSUME NEW T \in SUBSET S, T # {}
      PROVE  \E x \in T : F[T] = g[x] + F[T \ {x}]
  <2>1. first[T] \in T /\ T \ {first[T]} \in SUBSET S
    BY <1>1, <1>5
  <2>2. F[T] = step[<<first[T], F[T \ {first[T]}]>>]
    BY <1>3, <1>5 DEF IsRecursion
  <2>3. F[T \ {first[T]}] \in Nat
    BY <1>4, <2>1
  <2> QED  BY <1>2, <2>1, <2>2, <2>3
<1>6. ASSUME NEW T \in SUBSET S
      PROVE  SumFunctionOnSet(g, T) = F[T]
  <2> DEFINE Eq(G) == G = [s \in SUBSET T |-> IF s = {} THEN 0
                             ELSE g[CHOOSE x \in s : TRUE] + G[s \ {CHOOSE x \in s : TRUE}]]
             G == CHOOSE h : Eq(h)
  <2>1. SumFunctionOnSet(g, T) = G[T]
    BY DEF SumFunctionOnSet, FoldFunctionOnSet, MapThenFoldSet
  <2>2. Eq([s \in SUBSET T |-> F[s]])
    <3> DEFINE h == [s \in SUBSET T |-> F[s]]
    <3>1. ASSUME NEW s \in SUBSET T, s # {}
          PROVE  h[s] = g[CHOOSE x \in s : TRUE] + h[s \ {CHOOSE x \in s : TRUE}]
      <4>1. s \in (SUBSET S) \ {{}}
        BY <3>1
      <4>2. first[s] \in s /\ first[s] = (CHOOSE x \in s : TRUE)
        BY <1>1, <4>1
      <4>3. F[s] = step[<<first[s], F[s \ {first[s]}]>>]
        BY <1>3, <4>1 DEF IsRecursion
      <4>4. F[s \ {first[s]}] \in Nat /\ first[s] \in S /\ s \ {first[s]} \in SUBSET T
        BY <1>4, <4>1, <4>2
      <4>5. F[s] = g[first[s]] + F[s \ {first[s]}]
        BY <1>2, <4>3, <4>4
      <4> QED  BY <4>2, <4>4, <4>5
    <3>2. h[{}] = 0
      BY <1>4
    <3>3. \A s \in SUBSET T : h[s] = IF s = {} THEN 0
                             ELSE g[CHOOSE x \in s : TRUE] + h[s \ {CHOOSE x \in s : TRUE}]
      BY <3>1, <3>2
    <3>4. h = [s \in SUBSET T |-> h[s]]
      OBVIOUS
    <3> HIDE DEF h
    <3>5. Eq(h)
      BY <3>3, <3>4
    <3> QED  BY <3>5 DEF h
  <2>3. Eq(G)
    <3> HIDE DEF Eq
    <3> QED  BY <2>2
  <2>4. \A s \in SUBSET T : G[s] = IF s = {} THEN 0
                             ELSE g[CHOOSE x \in s : TRUE] + G[s \ {CHOOSE x \in s : TRUE}]
    <3> HIDE DEF G
    <3> QED  BY <2>3
  <2> HIDE DEF G, Eq
  <2>5. G[{}] = 0
    BY <2>4
  <2>6. ASSUME NEW s \in (SUBSET T) \ {{}}, G[s \ {first[s]}] \in Nat
        PROVE  G[s] = step[<<first[s], G[s \ {first[s]}]>>]
    <3>1. first[s] = (CHOOSE x \in s : TRUE) /\ first[s] \in S
      BY <1>1
    <3>2. G[s] = g[first[s]] + G[s \ {first[s]}]
      BY <2>4, <3>1
    <3> QED  BY <1>2, <2>6, <3>1, <3>2
  <2>7. Follows(G, T, Nat, 0, first, step)
    BY <2>5, <2>6 DEF Follows
  <2>8. Chooses(first, S) /\ 0 \in Nat /\ step \in [S \X Nat -> Nat]
    BY <1>1, <1>2 DEF Chooses
  <2>9. Agrees(G, F, T)
    BY <1>3, <2>7, <2>8, RecursionUnique
  <2> QED  BY <2>1, <2>9 DEF Agrees
<1>7. IsSum(F, g, S)
  BY <1>4, <1>5, <1>6 DEF IsSum
<1> QED  BY <1>7

LEMMA SumEmpty ==
  ASSUME NEW g
  PROVE  SumFunctionOnSet(g, {}) = 0
PROOF
<1>1. IsFiniteSet({}) /\ \A x \in {} : g[x] \in Nat
  BY FS_EmptySet
<1>2. PICK F : IsSum(F, g, {})
  BY <1>1, SumIsRecursion
<1> QED  BY <1>2 DEF IsSum

LEMMA SumZeros ==
  ASSUME NEW g, NEW S, IsFiniteSet(S), \A x \in S : g[x] = 0
  PROVE  SumFunctionOnSet(g, S) = 0
PROOF
<1>1. \A x \in S : g[x] \in Nat
  OBVIOUS
<1>2. PICK F : IsSum(F, g, S)
  BY <1>1, SumIsRecursion
<1>3. /\ F[{}] = 0
      /\ \A T \in SUBSET S : T # {} => \E x \in T : F[T] = g[x] + F[T \ {x}]
      /\ \A T \in SUBSET S : SumFunctionOnSet(g, T) = F[T]
  BY <1>2 DEF IsSum
<1> DEFINE P == {T \in SUBSET S : F[T] = 0}
<1>4. ASSUME NEW T \in SUBSET S, \A x \in T : T \ {x} \in P
      PROVE  T \in P
  <2>1. \A x \in T : F[T \ {x}] = 0 /\ g[x] = 0
    BY <1>4
  <2>2. T # {} => \E x \in T : F[T] = g[x] + F[T \ {x}]
    BY <1>3
  <2>3. CASE T # {}
    <3>1. PICK x \in T : F[T] = g[x] + F[T \ {x}]
      BY <2>2, <2>3
    <3> QED  BY <2>1, <3>1
  <2> QED  BY <1>3, <2>3
<1> HIDE DEF P
<1>5. P = SUBSET S
  <2>1. P \in SUBSET (SUBSET S)
    BY DEF P
  <2> QED  BY <1>4, <2>1, InductionOnSubsets
<1> QED  BY <1>3, <1>5 DEF P

LEMMA SumNat ==
  ASSUME NEW g, NEW S, IsFiniteSet(S), \A x \in S : g[x] \in Nat
  PROVE  SumFunctionOnSet(g, S) \in Nat
PROOF
<1>1. PICK F : IsSum(F, g, S)
  BY SumIsRecursion
<1> QED  BY <1>1 DEF IsSum

(* Any element can be taken out first. *)
LEMMA SumRemove ==
  ASSUME NEW g, NEW S, IsFiniteSet(S), \A x \in S : g[x] \in Nat, NEW e \in S
  PROVE  SumFunctionOnSet(g, S) = g[e] + SumFunctionOnSet(g, S \ {e})
PROOF
<1>0. PICK F : IsSum(F, g, S)
  BY SumIsRecursion
<1>1. /\ F \in [SUBSET S -> Nat]
      /\ \A T \in SUBSET S : T # {} => \E x \in T : F[T] = g[x] + F[T \ {x}]
      /\ \A T \in SUBSET S : SumFunctionOnSet(g, T) = F[T]
  BY <1>0 DEF IsSum
<1> DEFINE P == {T \in SUBSET S : \A x \in T : F[T] = g[x] + F[T \ {x}]}
<1>2. ASSUME NEW T \in SUBSET S, \A x \in T : T \ {x} \in P
      PROVE  T \in P
  <2> SUFFICES ASSUME NEW x \in T
               PROVE  F[T] = g[x] + F[T \ {x}]
    OBVIOUS
  <2>1. PICK y \in T : F[T] = g[y] + F[T \ {y}]
    BY <1>1
  <2>2. CASE x = y
    BY <2>1, <2>2
  <2>3. CASE x # y
    <3>1. F[T \ {y}] = g[x] + F[(T \ {y}) \ {x}]
      BY <1>2, <2>3
    <3>2. F[T \ {x}] = g[y] + F[(T \ {x}) \ {y}]
      BY <1>2, <2>3
    <3>3. (T \ {y}) \ {x} = (T \ {x}) \ {y}
      OBVIOUS
    <3>4. F[(T \ {x}) \ {y}] \in Nat /\ g[x] \in Nat /\ g[y] \in Nat
      BY <1>1
    <3>5. F[T] = g[y] + (g[x] + F[(T \ {x}) \ {y}])
      BY <2>1, <3>1, <3>3
    <3> HIDE DEF P
    <3> QED  BY <3>2, <3>4, <3>5
  <2> QED  BY <2>2, <2>3
<1>3. P \in SUBSET (SUBSET S)
  OBVIOUS
<1>4. P = SUBSET S
  <2>1. \A T \in SUBSET S : (\A x \in T : T \ {x} \in P) => T \in P
    BY <1>2
  <2> HIDE DEF P
  <2> QED  BY <1>3, <2>1, InductionOnSubsets
<1>5. F[S] = g[e] + F[S \ {e}]
  BY <1>4
<1> QED  BY <1>1, <1>5

LEMMA SumAdd ==
  ASSUME NEW g, NEW S, IsFiniteSet(S), NEW e, e \notin S,
         \A x \in S \cup {e} : g[x] \in Nat
  PROVE  SumFunctionOnSet(g, S \cup {e}) = SumFunctionOnSet(g, S) + g[e]
PROOF
<1>1. IsFiniteSet(S \cup {e}) /\ (S \cup {e}) \ {e} = S
  BY FS_AddElement
<1>2. SumFunctionOnSet(g, S \cup {e}) = g[e] + SumFunctionOnSet(g, (S \cup {e}) \ {e})
  BY <1>1, SumRemove
<1>3. SumFunctionOnSet(g, S) \in Nat
  <2>1. \A x \in S : g[x] \in Nat
    OBVIOUS
  <2> QED  BY <2>1, SumNat
<1>4. g[e] \in Nat
  OBVIOUS
<1> QED  BY <1>1, <1>2, <1>3, <1>4

(* Only the values at the elements matter. *)
LEMMA SumSame ==
  ASSUME NEW g, NEW h, NEW S, IsFiniteSet(S), \A x \in S : g[x] \in Nat /\ g[x] = h[x]
  PROVE  SumFunctionOnSet(g, S) = SumFunctionOnSet(h, S)
PROOF
<1> DEFINE P == {T \in SUBSET S : SumFunctionOnSet(g, T) = SumFunctionOnSet(h, T)}
<1>1. ASSUME NEW T \in SUBSET S, \A x \in T : T \ {x} \in P
      PROVE  T \in P
  <2>1. CASE T = {}
    BY <2>1, SumEmpty
  <2>2. CASE T # {}
    <3>1. PICK x \in T : TRUE
      BY <2>2
    <3>2. IsFiniteSet(T)
      BY FS_Subset
    <3>3. \A y \in T : g[y] \in Nat /\ h[y] \in Nat
      OBVIOUS
    <3>4. SumFunctionOnSet(g, T) = g[x] + SumFunctionOnSet(g, T \ {x})
      BY <3>1, <3>2, <3>3, SumRemove
    <3>5. SumFunctionOnSet(h, T) = h[x] + SumFunctionOnSet(h, T \ {x})
      BY <3>1, <3>2, <3>3, SumRemove
    <3> QED  BY <1>1, <3>1, <3>4, <3>5
  <2> QED  BY <2>1, <2>2
<1>2. P \in SUBSET (SUBSET S)
  OBVIOUS
<1>3. P = SUBSET S
  <2>1. \A T \in SUBSET S : (\A x \in T : T \ {x} \in P) => T \in P
    BY <1>1
  <2> HIDE DEF P
  <2> QED  BY <1>2, <2>1, InductionOnSubsets
<1> QED  BY <1>3

(* One value changed. *)
ChangedAt(g, h, S, e) ==
  /\ \A x \in S : g[x] \in Nat /\ h[x] \in Nat
  /\ \A x \in S \ {e} : g[x] = h[x]

LEMMA SumExcept ==
  ASSUME NEW g, NEW h, NEW S, IsFiniteSet(S), NEW e \in S, ChangedAt(g, h, S, e)
  PROVE  SumFunctionOnSet(h, S) + g[e] = SumFunctionOnSet(g, S) + h[e]
PROOF
<1>0. /\ \A x \in S : g[x] \in Nat /\ h[x] \in Nat
      /\ \A x \in S \ {e} : g[x] = h[x]
  BY DEF ChangedAt
<1>1. IsFiniteSet(S \ {e})
  BY FS_Subset
<1>2. SumFunctionOnSet(g, S \ {e}) = SumFunctionOnSet(h, S \ {e})
  BY <1>0, <1>1, SumSame
<1>3. SumFunctionOnSet(g, S) = g[e] + SumFunctionOnSet(g, S \ {e})
  BY <1>0, SumRemove
<1>4. SumFunctionOnSet(h, S) = h[e] + SumFunctionOnSet(h, S \ {e})
  BY <1>0, SumRemove
<1>5. SumFunctionOnSet(g, S \ {e}) \in Nat /\ SumFunctionOnSet(h, S \ {e}) \in Nat
  BY <1>0, <1>1, SumNat
<1> QED  BY <1>0, <1>2, <1>3, <1>4, <1>5

(* Leaving elements out does not make a sum larger. *)
LEMMA SumSubset ==
  ASSUME NEW g, NEW S, IsFiniteSet(S), \A x \in S : g[x] \in Nat, NEW R \in SUBSET S
  PROVE  SumFunctionOnSet(g, R) <= SumFunctionOnSet(g, S)
PROOF
<1> DEFINE P == {T \in SUBSET S :
                   R \subseteq T => SumFunctionOnSet(g, R) <= SumFunctionOnSet(g, T)}
<1>1. ASSUME NEW T \in SUBSET S, \A x \in T : T \ {x} \in P, R \subseteq T
      PROVE  SumFunctionOnSet(g, R) <= SumFunctionOnSet(g, T)
  <2>1. IsFiniteSet(T) /\ IsFiniteSet(R)
    BY FS_Subset
  <2>2. SumFunctionOnSet(g, R) \in Nat
    BY <2>1, SumNat
  <2>3. CASE R = T
    BY <2>2, <2>3
  <2>4. CASE R # T
    <3>1. PICK x \in T : x \notin R
      BY <1>1, <2>4
    <3>2. SumFunctionOnSet(g, R) <= SumFunctionOnSet(g, T \ {x})
      BY <1>1, <3>1
    <3>3. SumFunctionOnSet(g, T) = g[x] + SumFunctionOnSet(g, T \ {x})
      BY <2>1, SumRemove
    <3>4. IsFiniteSet(T \ {x})
      BY <2>1, FS_Subset
    <3>5. SumFunctionOnSet(g, T \ {x}) \in Nat
      BY <3>4, SumNat
    <3> QED  BY <2>2, <3>2, <3>3, <3>5
  <2> QED  BY <2>3, <2>4
<1>2. P \in SUBSET (SUBSET S)
  OBVIOUS
<1>3. P = SUBSET S
  <2>1. \A T \in SUBSET S : (\A x \in T : T \ {x} \in P) => T \in P
    BY <1>1
  <2> HIDE DEF P
  <2> QED  BY <1>2, <2>1, InductionOnSubsets
<1> QED  BY <1>3

(* The sum over a sequence that grew by one. *)
LEMMA SumAppend ==
  ASSUME NEW g \in Seq(Nat), NEW n \in Nat
  PROVE  SumFunction(Append(g, n)) = SumFunction(g) + n
PROOF
<1> DEFINE h == Append(g, n)
<1>1. /\ h \in Seq(Nat) /\ Len(h) = Len(g) + 1 /\ Len(g) \in Nat
      /\ DOMAIN h = 1..Len(g) + 1 /\ DOMAIN g = 1..Len(g)
      /\ h[Len(g) + 1] = n
      /\ \A i \in 1..Len(g) : h[i] = g[i] /\ g[i] \in Nat
  OBVIOUS
<1> HIDE DEF h
<1>2. IsFiniteSet(1..Len(g))
  BY <1>1, FS_Interval
<1>3. /\ 1..Len(g) + 1 = (1..Len(g)) \cup {Len(g) + 1}
      /\ Len(g) + 1 \notin 1..Len(g)
  BY <1>1
<1>4. \A x \in (1..Len(g)) \cup {Len(g) + 1} : h[x] \in Nat
  BY <1>1
<1>5. SumFunctionOnSet(h, (1..Len(g)) \cup {Len(g) + 1})
        = SumFunctionOnSet(h, 1..Len(g)) + h[Len(g) + 1]
  <2> DEFINE I == 1..Len(g)
             k == Len(g) + 1
  <2>1. IsFiniteSet(I) /\ k \notin I /\ \A x \in I \cup {k} : h[x] \in Nat
    BY <1>2, <1>3, <1>4
  <2> HIDE DEF I, k
  <2>2. SumFunctionOnSet(h, I \cup {k}) = SumFunctionOnSet(h, I) + h[k]
    BY <2>1, SumAdd
  <2> QED  BY <2>2 DEF I, k
<1>6. SumFunctionOnSet(g, 1..Len(g)) = SumFunctionOnSet(h, 1..Len(g))
  <2> DEFINE I == 1..Len(g)
  <2>1. IsFiniteSet(I) /\ \A x \in I : g[x] \in Nat /\ g[x] = h[x]
    BY <1>1, <1>2
  <2> HIDE DEF I
  <2>2. SumFunctionOnSet(g, I) = SumFunctionOnSet(h, I)
    BY <2>1, SumSame
  <2> QED  BY <2>2 DEF I
<1>7. SumFunction(h) = SumFunction(g) + n
  BY <1>1, <1>3, <1>5, <1>6 DEF SumFunction
<1> QED  BY <1>7 DEF h

LEMMA SumSeqNat ==
  ASSUME NEW g \in Seq(Nat)
  PROVE  SumFunction(g) \in Nat
PROOF
<1>1. DOMAIN g = 1..Len(g) /\ Len(g) \in Nat /\ \A i \in 1..Len(g) : g[i] \in Nat
  OBVIOUS
<1>2. IsFiniteSet(1..Len(g))
  BY <1>1, FS_Interval
<1> QED  BY <1>1, <1>2, SumNat DEF SumFunction

----------------------------------------------------------------------------
(* Recursion along 0..n *)

(* The function that starts from base at 0 and steps from its value at the *)
(* number before.                                                          *)
IsCourse(f, n, V, base, step) ==
  /\ f \in [0..n -> V]
  /\ f[0] = base
  /\ \A i \in 1..n : f[i] = step[<<i, f[i - 1]>>]

LEMMA CourseExists ==
  ASSUME NEW n \in Nat, NEW V, NEW base \in V, NEW step \in [(1..n) \X V -> V]
  PROVE  \E f : IsCourse(f, n, V, base, step)
PROOF
<1> DEFINE P == {k \in Nat : k <= n => \E f : IsCourse(f, k, V, base, step)}
<1>1. 0 \in P
  <2> DEFINE f == [i \in 0..0 |-> base]
  <2>1. IsCourse(f, 0, V, base, step)
    BY DEF IsCourse
  <2> QED  BY <2>1
<1>2. \A k \in P : k + 1 \in P
  <2> SUFFICES ASSUME NEW k \in P, k + 1 <= n
               PROVE  \E f : IsCourse(f, k + 1, V, base, step)
    OBVIOUS
  <2>1. k \in Nat /\ k <= n
    OBVIOUS
  <2>2. PICK f : IsCourse(f, k, V, base, step)
    BY <2>1
  <2>3. f \in [0..k -> V] /\ f[0] = base /\ \A i \in 1..k : f[i] = step[<<i, f[i - 1]>>]
    BY <2>2 DEF IsCourse
  <2> DEFINE next == step[<<k + 1, f[k]>>]
             g == [i \in 0..k + 1 |-> IF i = k + 1 THEN next ELSE f[i]]
  <2>4. f[k] \in V /\ next \in V
    BY <2>1, <2>3
  <2> HIDE DEF next
  <2>5. g \in [0..k + 1 -> V] /\ g[0] = base
    BY <2>1, <2>3, <2>4
  <2>6. ASSUME NEW i \in 1..k + 1
        PROVE  g[i] = step[<<i, g[i - 1]>>]
    <3>1. g[i - 1] = f[i - 1]
      BY <2>1
    <3>2. CASE i = k + 1
      <4>1. g[i] = next /\ i - 1 = k /\ k \in Nat
        BY <2>1, <3>2
      <4>2. g[i - 1] = f[k]
        BY <3>1, <4>1
      <4> HIDE DEF g
      <4> QED  BY <3>2, <4>1, <4>2 DEF next
    <3>3. CASE i # k + 1
      <4>1. i \in 1..k /\ g[i] = f[i]
        BY <2>1, <3>3
      <4> QED  BY <2>3, <3>1, <4>1
    <3> QED  BY <3>2, <3>3
  <2> HIDE DEF g
  <2>7. IsCourse(g, k + 1, V, base, step)
    BY <2>5, <2>6 DEF IsCourse
  <2> QED  BY <2>7
<1> HIDE DEF P
<1>3. P = Nat
  <2>1. P \in SUBSET Nat
    BY DEF P
  <2> QED  BY <1>1, <1>2, <2>1, InductionOnNat
<1> QED  BY <1>3 DEF P

(* Two that take the same steps agree as far as they both go. *)
StepsAgree(f, g, n) ==
  /\ f[0] = g[0]
  /\ \A i \in 1..n : f[i - 1] = g[i - 1] => f[i] = g[i]

LEMMA CoursesAgree ==
  ASSUME NEW n \in Nat, NEW f, NEW g, StepsAgree(f, g, n)
  PROVE  \A i \in 0..n : f[i] = g[i]
PROOF
<1> DEFINE P == {i \in Nat : i <= n => f[i] = g[i]}
<1>1. 0 \in P
  BY DEF StepsAgree
<1>2. ASSUME NEW i \in P PROVE i + 1 \in P
  <2>1. i \in Nat /\ (i + 1 <= n => f[i] = g[i])
    OBVIOUS
  <2>2. i + 1 <= n => i + 1 \in 1..n /\ (i + 1) - 1 = i
    BY <2>1
  <2>3. i + 1 <= n => f[i + 1] = g[i + 1]
    BY <2>1, <2>2 DEF StepsAgree
  <2> QED  BY <2>1, <2>3
<1> HIDE DEF P
<1>3. P = Nat
  <2>1. P \in SUBSET Nat
    BY DEF P
  <2> QED  BY <1>1, <1>2, <2>1, InductionOnNat
<1> QED  BY <1>3 DEF P

----------------------------------------------------------------------------
(* The part of a sequence whose elements are in a set *)

IsSelection(chosen, seq, S, T) ==
  /\ chosen[0] = <<>>
  /\ \A n \in 1..Len(seq) :
       chosen[n] = IF seq[n] \in S THEN Append(chosen[n - 1], seq[n]) ELSE chosen[n - 1]
  /\ \A n \in 0..Len(seq) : chosen[n] \in Seq(T \cap S)

LEMMA SelectedProperties ==
  ASSUME NEW T, NEW seq \in Seq(T), NEW S
  PROVE  IsSelection(Selected(seq, S), seq, S, T)
PROOF
<1> DEFINE V == Seq(T \cap S)
           size == Len(seq)
           step == [p \in (1..size) \X V |-> IF seq[p[1]] \in S THEN Append(p[2], seq[p[1]])
                                             ELSE p[2]]
           Eq(f) == f = [n \in 0..size |-> IF n = 0 THEN <<>>
                                           ELSE IF seq[n] \in S THEN Append(f[n - 1], seq[n])
                                           ELSE f[n - 1]]
<1>1. size \in Nat /\ <<>> \in V
  OBVIOUS
<1>2. /\ \A n \in 1..size, v \in V :
           step[<<n, v>>] = IF seq[n] \in S THEN Append(v, seq[n]) ELSE v
      /\ step \in [(1..size) \X V -> V]
  <2>1. ASSUME NEW n \in 1..size, NEW v \in V
        PROVE  (IF seq[n] \in S THEN Append(v, seq[n]) ELSE v) \in V
    <3>1. seq[n] \in T
      OBVIOUS
    <3> QED  BY <3>1, AppendProperties
  <2> QED  BY <2>1
<1> HIDE DEF step, V
<1>3. PICK g : IsCourse(g, size, V, <<>>, step)
  BY <1>1, <1>2, CourseExists
<1>4. /\ g \in [0..size -> V] /\ g[0] = <<>>
      /\ \A n \in 1..size : g[n] = step[<<n, g[n - 1]>>]
  BY <1>3 DEF IsCourse
<1>5. \A n \in 1..size :
        g[n - 1] \in V /\ g[n] = IF seq[n] \in S THEN Append(g[n - 1], seq[n]) ELSE g[n - 1]
  <2> SUFFICES ASSUME NEW n \in 1..size
               PROVE  /\ g[n - 1] \in V
                      /\ g[n] = IF seq[n] \in S THEN Append(g[n - 1], seq[n]) ELSE g[n - 1]
    OBVIOUS
  <2>1. n - 1 \in 0..size
    BY <1>1
  <2> QED  BY <1>2, <1>4, <2>1
<1>6. Eq(g)
  <2>1. \A n \in 0..size : n # 0 => n \in 1..size
    BY <1>1
  <2>2. g = [n \in 0..size |-> g[n]]
    BY <1>4
  <2>3. \A n \in 0..size : g[n] = IF n = 0 THEN <<>>
                                  ELSE IF seq[n] \in S THEN Append(g[n - 1], seq[n])
                                  ELSE g[n - 1]
    BY <1>4, <1>5, <2>1
  <2> HIDE DEF size
  <2> QED  BY <2>2, <2>3
<1>7. Selected(seq, S) = CHOOSE f : Eq(f)
  BY DEF Selected
<1> DEFINE h == CHOOSE f : Eq(f)
<1>8. Eq(h)
  <2> HIDE DEF Eq
  <2> QED  BY <1>6
<1> HIDE DEF h
<1>9. /\ h[0] = <<>>
      /\ \A n \in 1..size :
           h[n] = IF seq[n] \in S THEN Append(h[n - 1], seq[n]) ELSE h[n - 1]
  <2>1. \A n \in 1..size : n \in 0..size /\ n # 0
    BY <1>1
  <2>2. 0 \in 0..size
    BY <1>1
  <2> HIDE DEF size
  <2> QED  BY <1>8, <2>1, <2>2
<1>10. StepsAgree(h, g, size)
  BY <1>4, <1>5, <1>9 DEF StepsAgree
<1>11. \A n \in 0..size : h[n] = g[n]
  BY <1>1, <1>10, CoursesAgree
<1>12. \A n \in 0..size : h[n] \in V
  BY <1>4, <1>11
<1> QED  BY <1>7, <1>9, <1>12 DEF h, V, IsSelection

LEMMA OnlyEmpty ==
  ASSUME NEW S
  PROVE  Only(<<>>, S) = <<>>
PROOF
<1>1. <<>> \in Seq({}) /\ Len(<<>>) = 0
  OBVIOUS
<1>2. IsSelection(Selected(<<>>, S), <<>>, S, {})
  BY <1>1, SelectedProperties
<1> QED  BY <1>1, <1>2 DEF Only, IsSelection

LEMMA OnlyType ==
  ASSUME NEW T, NEW seq \in Seq(T), NEW S
  PROVE  Only(seq, S) \in Seq(T \cap S)
PROOF
<1>1. Len(seq) \in 0..Len(seq)
  OBVIOUS
<1>2. IsSelection(Selected(seq, S), seq, S, T)
  BY SelectedProperties
<1> QED  BY <1>1, <1>2 DEF Only, IsSelection

LEMMA OnlyAppend ==
  ASSUME NEW T, NEW seq \in Seq(T), NEW x \in T, NEW S
  PROVE  Only(Append(seq, x), S) = IF x \in S THEN Append(Only(seq, S), x) ELSE Only(seq, S)
PROOF
<1> DEFINE longer == Append(seq, x)
           f == Selected(seq, S)
           g == Selected(longer, S)
           n == Len(seq)
<1>1. /\ longer \in Seq(T) /\ n \in Nat /\ Len(longer) = n + 1
      /\ longer[n + 1] = x /\ \A i \in 1..n : longer[i] = seq[i]
  OBVIOUS
<1> HIDE DEF longer
<1>2. /\ f[0] = <<>>
      /\ \A i \in 1..n : f[i] = IF seq[i] \in S THEN Append(f[i - 1], seq[i]) ELSE f[i - 1]
  <2>1. IsSelection(f, seq, S, T)
    BY SelectedProperties
  <2> QED  BY <2>1 DEF IsSelection
<1>3. /\ g[0] = <<>>
      /\ \A i \in 1..n + 1 :
           g[i] = IF longer[i] \in S THEN Append(g[i - 1], longer[i]) ELSE g[i - 1]
  <2>1. IsSelection(g, longer, S, T)
    BY <1>1, SelectedProperties
  <2> QED  BY <1>1, <2>1 DEF IsSelection
<1>4. Only(seq, S) = f[n] /\ Only(longer, S) = g[n + 1]
  BY <1>1 DEF Only
<1> HIDE DEF f, g, n
<1>5. StepsAgree(f, g, n)
  BY <1>1, <1>2, <1>3 DEF StepsAgree
<1>6. g[n] = f[n]
  BY <1>1, <1>5, CoursesAgree
<1>7. g[n + 1] = IF x \in S THEN Append(g[n], x) ELSE g[n]
  <2>1. n + 1 \in 1..n + 1 /\ (n + 1) - 1 = n
    BY <1>1
  <2> QED  BY <1>1, <1>3, <2>1
<1> QED  BY <1>4, <1>6, <1>7 DEF longer

----------------------------------------------------------------------------
(* The elements of a sequence at a set of positions *)

(* p goes through P from its least position to its last. *)
Enumerates(p, n, P) ==
  /\ p \in [1..n -> P]
  /\ \A i, j \in 1..n : i < j => p[i] < p[j]
  /\ \A k \in P : \E i \in 1..n : p[i] = k

Placed(seq, p, n) == [i \in 1..n |-> seq[p[i]]]

LEMMA EnumerationExists ==
  ASSUME NEW m \in Nat, NEW P \in SUBSET (1..m)
  PROVE  \E n \in Nat : \E p : Enumerates(p, n, P)
PROOF
<1> DEFINE Q == {k \in Nat : \A R \in SUBSET (1..k) : \E n \in Nat : \E p : Enumerates(p, n, R)}
<1>1. 0 \in Q
  <2> SUFFICES ASSUME NEW R \in SUBSET (1..0) PROVE \E n \in Nat : \E p : Enumerates(p, n, R)
    OBVIOUS
  <2>1. R = {}
    OBVIOUS
  <2>2. Enumerates(<<>>, 0, R)
    BY <2>1 DEF Enumerates
  <2> QED  BY <2>2
<1>2. ASSUME NEW k \in Q PROVE k + 1 \in Q
  <2> SUFFICES ASSUME NEW R \in SUBSET (1..k + 1)
               PROVE  \E n \in Nat : \E p : Enumerates(p, n, R)
    OBVIOUS
  <2>1. k \in Nat /\ R \ {k + 1} \in SUBSET (1..k)
    OBVIOUS
  <2>2. PICK n \in Nat : \E p : Enumerates(p, n, R \ {k + 1})
    BY <2>1
  <2>p. PICK p : Enumerates(p, n, R \ {k + 1})
    BY <2>2
  <2>3. CASE k + 1 \notin R
    <3>1. R \ {k + 1} = R
      BY <2>3
    <3> QED  BY <2>p, <3>1
  <2>4. CASE k + 1 \in R
    <3> DEFINE q == [i \in 1..n + 1 |-> IF i = n + 1 THEN k + 1 ELSE p[i]]
    <3>1. p \in [1..n -> R \ {k + 1}]
      BY <2>p DEF Enumerates
    <3>2. \A i \in 1..n + 1 : i # n + 1 => i \in 1..n
      OBVIOUS
    <3>3. q \in [1..n + 1 -> R]
      BY <2>4, <3>1, <3>2
    <3>4. \A i \in 1..n : q[i] = p[i] /\ q[i] < k + 1
      <4>1. \A i \in 1..n : i \in 1..n + 1 /\ i # n + 1
        BY <2>2
      <4>2. \A e \in R \ {k + 1} : e < k + 1
        BY <2>1
      <4> QED  BY <3>1, <4>1, <4>2
    <3>5. q[n + 1] = k + 1
      OBVIOUS
    <3> HIDE DEF q
    <3>6. \A i, j \in 1..n + 1 : i < j => q[i] < q[j]
      <4> SUFFICES ASSUME NEW i \in 1..n + 1, NEW j \in 1..n + 1, i < j PROVE q[i] < q[j]
        OBVIOUS
      <4>1. i \in 1..n
        OBVIOUS
      <4>2. CASE j = n + 1
        BY <3>4, <3>5, <4>1, <4>2
      <4>3. CASE j # n + 1
        <5>1. j \in 1..n
          BY <4>3
        <5> QED  BY <2>p, <3>4, <4>1, <5>1 DEF Enumerates
      <4> QED  BY <4>2, <4>3
    <3>7. \A e \in R : \E i \in 1..n + 1 : q[i] = e
      <4> SUFFICES ASSUME NEW e \in R PROVE \E i \in 1..n + 1 : q[i] = e
        OBVIOUS
      <4>1. CASE e = k + 1
        BY <3>5, <4>1
      <4>2. CASE e # k + 1
        <5>1. PICK i \in 1..n : p[i] = e
          BY <2>p, <4>2 DEF Enumerates
        <5> QED  BY <3>4, <5>1
      <4> QED  BY <4>1, <4>2
    <3>8. Enumerates(q, n + 1, R)
      BY <3>3, <3>6, <3>7 DEF Enumerates
    <3> QED  BY <3>8
  <2> QED  BY <2>3, <2>4
<1>3. Q = Nat
  <2>1. Q \in SUBSET Nat
    OBVIOUS
  <2> HIDE DEF Q
  <2> QED  BY <1>1, <1>2, <2>1, InductionOnNat
<1> QED  BY <1>3

LEMMA EnumerationRanks ==
  ASSUME NEW m \in Nat, NEW P \in SUBSET (1..m), NEW n \in Nat, NEW p, Enumerates(p, n, P)
  PROVE  /\ Cardinality(P) = n
         /\ \A i \in 1..n : p[i] \in P /\ Rank(P, p[i]) = i
PROOF
<1>1. /\ p \in [1..n -> P]
      /\ \A i, j \in 1..n : i < j => p[i] < p[j]
      /\ \A k \in P : \E i \in 1..n : p[i] = k
  BY DEF Enumerates
<1>p. \A i \in 1..n : p[i] \in P /\ p[i] \in Int
  <2>1. \A k \in P : k \in Int
    OBVIOUS
  <2> QED  BY <1>1, <2>1
<1>2. ASSUME NEW i \in 0..n
      PROVE  Cardinality({p[j] : j \in 1..i}) = i
  <2> DEFINE part == [j \in 1..i |-> p[j]]
             image == {p[j] : j \in 1..i}
  <2>1. 1..i \subseteq 1..n
    OBVIOUS
  <2>2. part \in Bijection(1..i, image)
    <3>1. part \in [1..i -> image]
      BY <1>1, <2>1
    <3>2. \A j, k \in 1..i : part[j] = part[k] => j = k
      <4> SUFFICES ASSUME NEW j \in 1..i, NEW k \in 1..i, p[j] = p[k], j # k PROVE FALSE
        BY <2>1
      <4>1. j \in 1..n /\ k \in 1..n /\ p[j] \in Int /\ p[k] \in Int
        BY <1>p, <2>1
      <4>2. p[j] < p[k] \/ p[k] < p[j]
        BY <1>1, <4>1
      <4> QED  BY <4>1, <4>2
    <3>3. \A e \in image : \E j \in 1..i : part[j] = e
      OBVIOUS
    <3> HIDE DEF part, image
    <3> QED  BY <3>1, <3>2, <3>3, Fun_IsBij
  <2>3. IsFiniteSet(1..i) /\ Cardinality(1..i) = i
    BY FS_Interval
  <2>4. ExistsBijection(1..i, image)
    BY <2>2, Fun_ExistsBij
  <2> QED  BY <2>3, <2>4, FS_Bijection
<1>3. {p[j] : j \in 1..n} = P
  BY <1>1
<1>4. ASSUME NEW i \in 1..n
      PROVE  {k \in P : k <= p[i]} = {p[j] : j \in 1..i}
  <2>1. ASSUME NEW k \in P, k <= p[i] PROVE k \in {p[j] : j \in 1..i}
    <3>1. PICK j \in 1..n : p[j] = k
      BY <1>1
    <3>2. p[i] \in Int /\ p[j] \in Int
      BY <1>p
    <3>3. ~(i < j)
      BY <1>1, <2>1, <3>1, <3>2
    <3> QED  BY <3>1, <3>3
  <2>2. ASSUME NEW j \in 1..i PROVE p[j] \in P /\ p[j] <= p[i]
    <3>1. j \in 1..n /\ p[i] \in Int /\ p[j] \in Int
      BY <1>p
    <3>2. j < i => p[j] < p[i]
      BY <1>1, <3>1
    <3>3. j = i \/ j < i
      OBVIOUS
    <3> QED  BY <1>1, <3>1, <3>2, <3>3
  <2> QED  BY <2>1, <2>2
<1>5. Cardinality(P) = n
  BY <1>2, <1>3
<1>6. \A i \in 1..n : p[i] \in P /\ Rank(P, p[i]) = i
  <2> SUFFICES ASSUME NEW i \in 1..n PROVE p[i] \in P /\ Rank(P, p[i]) = i
    OBVIOUS
  <2>1. Cardinality({p[j] : j \in 1..i}) = i
    BY <1>2
  <2> QED  BY <1>1, <1>4, <2>1 DEF Rank
<1> QED  BY <1>5, <1>6

LEMMA PickedEnumerated ==
  ASSUME NEW m \in Nat, NEW P \in SUBSET (1..m), NEW n \in Nat, NEW p, Enumerates(p, n, P),
         NEW seq
  PROVE  Picked(seq, P) = Placed(seq, p, n)
PROOF
<1>1. Cardinality(P) = n /\ \A i \in 1..n : p[i] \in P /\ Rank(P, p[i]) = i
  BY EnumerationRanks
<1>2. \A k \in P : \E i \in 1..n : p[i] = k
  BY DEF Enumerates
<1>3. ASSUME NEW i \in 1..n PROVE (CHOOSE k \in P : Rank(P, k) = i) = p[i]
  <2>1. \A k \in P : Rank(P, k) = i => k = p[i]
    BY <1>1, <1>2
  <2> QED  BY <1>1, <2>1
<1>4. Picked(seq, P) = [i \in 1..n |-> seq[CHOOSE k \in P : Rank(P, k) = i]]
  BY <1>1 DEF Picked
<1> QED  BY <1>3, <1>4 DEF Placed

LEMMA PickedType ==
  ASSUME NEW T, NEW seq \in Seq(T), NEW P \in SUBSET DOMAIN seq
  PROVE  /\ Picked(seq, P) \in Seq(T)
         /\ \E p : /\ Enumerates(p, Len(Picked(seq, P)), P)
                   /\ \A i \in 1..Len(Picked(seq, P)) : Picked(seq, P)[i] = seq[p[i]]
PROOF
<1>1. Len(seq) \in Nat /\ P \in SUBSET (1..Len(seq))
  OBVIOUS
<1>n. PICK n \in Nat : \E p : Enumerates(p, n, P)
  BY <1>1, EnumerationExists
<1>2. PICK p : Enumerates(p, n, P)
  BY <1>n
<1>t. Picked(seq, P) = Placed(seq, p, n)
  BY <1>1, <1>n, <1>2, PickedEnumerated
<1>3. Picked(seq, P) = [i \in 1..n |-> seq[p[i]]]
  BY <1>t DEF Placed
<1>4. \A i \in 1..n : seq[p[i]] \in T
  BY <1>n, <1>2 DEF Enumerates
<1>5. Picked(seq, P) \in Seq(T) /\ Len(Picked(seq, P)) = n
  BY <1>n, <1>3, <1>4
<1> QED  BY <1>n, <1>2, <1>3, <1>5

----------------------------------------------------------------------------
(* The numbers of a finite set, in their order *)

(* A finite set of numbers has a bound. *)
LEMMA FiniteBounded ==
  ASSUME NEW S \in SUBSET (Nat \ {0}), IsFiniteSet(S)
  PROVE  \E m \in Nat : S \subseteq 1..m
PROOF
<1> DEFINE P == {T \in SUBSET S : \E m \in Nat : T \subseteq 1..m}
<1>1. ASSUME NEW T \in SUBSET S, \A x \in T : T \ {x} \in P
      PROVE  T \in P
  <2>1. CASE T = {}
    BY <2>1
  <2>2. CASE T # {}
    <3>1. PICK x \in T : TRUE
      BY <2>2
    <3>2. PICK m \in Nat : T \ {x} \subseteq 1..m
      BY <1>1, <3>1
    <3> DEFINE more == IF x > m THEN x ELSE m
    <3>3. more \in Nat /\ x \in 1..more /\ 1..m \subseteq 1..more
      BY <3>1, <3>2
    <3> HIDE DEF more
    <3>4. T \subseteq 1..more
      BY <3>2, <3>3
    <3> QED  BY <3>3, <3>4
  <2> QED  BY <2>1, <2>2
<1>2. P \in SUBSET (SUBSET S)
  OBVIOUS
<1>3. P = SUBSET S
  <2> HIDE DEF P
  <2> QED  BY <1>1, <1>2, InductionOnSubsets
<1>4. S \in P
  BY <1>3
<1> QED  BY <1>4

(* Ascending lists the elements of the set. *)
LEMMA AscendingElements ==
  ASSUME NEW S \in SUBSET (Nat \ {0}), IsFiniteSet(S)
  PROVE  /\ Cardinality(S) \in Nat /\ DOMAIN Ascending(S) = 1..Cardinality(S)
         /\ \A n \in DOMAIN Ascending(S) : Ascending(S)[n] \in S
PROOF
<1>1. PICK m \in Nat : S \in SUBSET (1..m)
  BY FiniteBounded
<1>2. PICK n \in Nat : \E p : Enumerates(p, n, S)
  BY <1>1, EnumerationExists
<1>3. PICK p : Enumerates(p, n, S)
  BY <1>2
<1>4. /\ Cardinality(S) = n
      /\ \A i \in 1..n : p[i] \in S /\ Rank(S, p[i]) = i
  BY <1>1, <1>2, <1>3, EnumerationRanks
<1>5. \A i \in 1..n : (CHOOSE k \in S : Rank(S, k) = i) \in S
  BY <1>4
<1> QED  BY <1>2, <1>4, <1>5 DEF Ascending

----------------------------------------------------------------------------
(* Sequences of sequences, flattened *)

(* The concatenations of the first of n sequences. *)
Flattens(flat, T, n, R) ==
  /\ flat \in [0..n -> Seq(T)]
  /\ flat[0] = <<>>
  /\ \A i \in 1..n : flat[i] = flat[i - 1] \o R[i]

LEMMA FlattenCourse ==
  ASSUME NEW T, NEW n \in Nat, NEW R \in [1..n -> Seq(T)]
  PROVE  \E flat : Flattens(flat, T, n, R) /\ FlattenSeq(R) = flat[n]
PROOF
<1> DEFINE V == Seq(T)
           step == [p \in (1..n) \X V |-> p[2] \o R[p[1]]]
           Eq(f) == f = [i \in 1..n |-> IF i = 1 THEN R[i] ELSE f[i - 1] \o R[i]]
<1>1. <<>> \in V /\ \A v \in V : <<>> \o v = v
  OBVIOUS
<1>2. /\ \A i \in 1..n, v \in V : step[<<i, v>>] = v \o R[i]
      /\ step \in [(1..n) \X V -> V]
  <2>1. \A v, w \in V : v \o w \in V
    OBVIOUS
  <2>2. \A i \in 1..n : R[i] \in V
    OBVIOUS
  <2> HIDE DEF V
  <2> QED  BY <2>1, <2>2
<1>3. R \in Seq(V) /\ Len(R) = n
  OBVIOUS
<1> HIDE DEF step, V
<1>4. PICK g : IsCourse(g, n, V, <<>>, step)
  BY <1>1, <1>2, CourseExists
<1>5. /\ g \in [0..n -> V] /\ g[0] = <<>>
      /\ \A i \in 1..n : g[i] = step[<<i, g[i - 1]>>]
  BY <1>4 DEF IsCourse
<1>6. \A i \in 1..n : i - 1 \in 0..n /\ g[i - 1] \in V /\ g[i] = g[i - 1] \o R[i]
  <2>1. \A i \in 1..n : i - 1 \in 0..n
    OBVIOUS
  <2> QED  BY <1>2, <1>5, <2>1
<1>7. CASE n = 0
  <2>1. R = <<>>
    BY <1>3, <1>7
  <2>2. FlattenSeq(R) = R
    BY <1>3, <1>7 DEF FlattenSeq
  <2>3. FlattenSeq(R) = g[n]
    BY <1>5, <1>7, <2>1, <2>2
  <2> QED  BY <1>5, <1>6, <2>3 DEF V, Flattens
<1>8. CASE n # 0
  <2> DEFINE a == [i \in 1..n |-> g[i]]
             h == CHOOSE f : Eq(f)
             h0 == [i \in 0..n |-> IF i = 0 THEN <<>> ELSE h[i]]
  <2>1. FlattenSeq(R) = h[n]
    BY <1>3, <1>8 DEF FlattenSeq
  <2>2. Eq(a)
    <3>1. \A i \in 1..n : i # 1 => i - 1 \in 1..n
      OBVIOUS
    <3>2. 1 \in 1..n /\ 1 - 1 = 0
      BY <1>8
    <3>3. g[1] = R[1]
      <4>1. R[1] \in V
        BY <3>2 DEF V
      <4>2. g[1] = g[0] \o R[1]
        BY <1>6, <3>2
      <4> QED  BY <1>1, <1>5, <4>1, <4>2
    <3>4. \A i \in 1..n : a[i] = IF i = 1 THEN R[i] ELSE a[i - 1] \o R[i]
      BY <1>6, <3>1, <3>3
    <3>5. a = [i \in 1..n |-> a[i]]
      OBVIOUS
    <3> HIDE DEF a
    <3> QED  BY <3>4, <3>5
  <2>3. Eq(h)
    <3> HIDE DEF Eq
    <3> QED  BY <2>2
  <2> HIDE DEF h
  <2>4. \A i \in 1..n : h[i] = IF i = 1 THEN R[i] ELSE h[i - 1] \o R[i]
    BY <2>3
  <2>5. StepsAgree(h0, g, n)
    <3>1. h0[0] = <<>>
      BY <1>8
    <3>2. ASSUME NEW i \in 1..n, h0[i - 1] = g[i - 1]
          PROVE  h0[i] = g[i]
      <4>1. h0[i] = h[i] /\ i - 1 \in 0..n /\ (i # 1 => h0[i - 1] = h[i - 1])
        OBVIOUS
      <4>2. CASE i = 1
        <5>1. R[1] \in V /\ g[1] = g[0] \o R[1]
          BY <1>6, <4>2 DEF V
        <5> QED  BY <1>1, <1>5, <2>4, <4>1, <4>2, <5>1
      <4>3. CASE i # 1
        BY <1>6, <2>4, <3>2, <4>1, <4>3
      <4> QED  BY <4>2, <4>3
    <3> HIDE DEF h0
    <3> QED  BY <1>5, <3>1, <3>2 DEF StepsAgree
  <2>6. \A i \in 0..n : h0[i] = g[i]
    BY <2>5, CoursesAgree
  <2>7. h0[n] = h[n]
    BY <1>8
  <2>8. FlattenSeq(R) = g[n]
    BY <2>1, <2>6, <2>7
  <2> QED  BY <1>5, <1>6, <2>8 DEF V, Flattens
<1> QED  BY <1>7, <1>8

(* Of one sequence more, and of none. *)
LEMMA FlattenEmpty == FlattenSeq(<<>>) = <<>>
PROOF
<1>1. Len(<<>>) = 0
  OBVIOUS
<1> QED  BY <1>1 DEF FlattenSeq

LEMMA FlattenAppend ==
  ASSUME NEW T, NEW n \in Nat, NEW R \in [1..n -> Seq(T)], NEW Q \in [1..n + 1 -> Seq(T)],
         \A i \in 1..n : Q[i] = R[i]
  PROVE  FlattenSeq(Q) = FlattenSeq(R) \o Q[n + 1] /\ FlattenSeq(R) \in Seq(T)
PROOF
<1>0. n + 1 \in Nat /\ n \in 0..n /\ n + 1 \in 1..n + 1 /\ (n + 1) - 1 = n
      /\ 1..n \subseteq 1..n + 1
  OBVIOUS
<1>1. PICK f : Flattens(f, T, n, R) /\ FlattenSeq(R) = f[n]
  BY FlattenCourse
<1> DEFINE m == n + 1
<1>2. PICK g : Flattens(g, T, m, Q) /\ FlattenSeq(Q) = g[m]
  <2>1. m \in Nat /\ Q \in [1..m -> Seq(T)]
    BY <1>0
  <2> HIDE DEF m
  <2> QED  BY <2>1, FlattenCourse
<1>3. \A i \in 1..n : g[i] = g[i - 1] \o R[i]
  BY <1>0, <1>2 DEF Flattens
<1>4. StepsAgree(f, g, n)
  BY <1>1, <1>2, <1>3 DEF StepsAgree, Flattens
<1>5. f[n] = g[n]
  <2>1. \A i \in 0..n : f[i] = g[i]
    <3> HIDE DEF m
    <3> QED  BY <1>4, CoursesAgree
  <2> QED  BY <1>0, <2>1
<1>6. g[m] = g[n] \o Q[m]
  BY <1>0, <1>2 DEF Flattens
<1>7. f[n] \in Seq(T)
  BY <1>0, <1>1 DEF Flattens
<1>8. FlattenSeq(Q) = f[n] \o Q[m] /\ FlattenSeq(R) = f[n]
  BY <1>1, <1>2, <1>5, <1>6
<1> QED  BY <1>7, <1>8

----------------------------------------------------------------------------
(* Parts of sequences, once more *)

LEMMA OnlyConcat ==
  ASSUME NEW T, NEW a \in Seq(T), NEW b \in Seq(T), NEW S
  PROVE  Only(a \o b, S) = Only(a, S) \o Only(b, S)
PROOF
<1> DEFINE P == {s \in Seq(T) : Only(a \o s, S) = Only(a, S) \o Only(s, S)}
<1>1. <<>> \in P
  <2>1. a \o <<>> = a /\ Only(a, S) \in Seq(T \cap S) /\ <<>> \in Seq(T)
    BY OnlyType
  <2>2. Only(a, S) \o <<>> = Only(a, S)
    BY <2>1
  <2> QED  BY <2>1, <2>2, OnlyEmpty
<1>2. ASSUME NEW s \in P, NEW x \in T
      PROVE  Append(s, x) \in P
  <2>1. s \in Seq(T) /\ Append(s, x) \in Seq(T) /\ a \o s \in Seq(T)
        /\ Only(a \o s, S) = Only(a, S) \o Only(s, S)
    OBVIOUS
  <2>2. a \o Append(s, x) = Append(a \o s, x)
    BY <2>1
  <2>3. Only(a, S) \in Seq(T \cap S) /\ Only(s, S) \in Seq(T \cap S)
    BY <2>1, OnlyType
  <2>4. /\ Only(Append(a \o s, x), S) = IF x \in S THEN Append(Only(a \o s, S), x) ELSE Only(a \o s, S)
        /\ Only(Append(s, x), S) = IF x \in S THEN Append(Only(s, S), x) ELSE Only(s, S)
    <3>1. Only(Append(a \o s, x), S) = IF x \in S THEN Append(Only(a \o s, S), x)
                                        ELSE Only(a \o s, S)
      <4> DEFINE both == a \o s
      <4>1. both \in Seq(T)
        BY <2>1
      <4> HIDE DEF both
      <4>2. Only(Append(both, x), S) = IF x \in S THEN Append(Only(both, S), x) ELSE Only(both, S)
        BY <4>1, OnlyAppend
      <4> QED  BY <4>2 DEF both
    <3>2. Only(Append(s, x), S) = IF x \in S THEN Append(Only(s, S), x) ELSE Only(s, S)
      BY <2>1, OnlyAppend
    <3> QED  BY <3>1, <3>2
  <2>5. x \in S => Append(Only(a, S) \o Only(s, S), x) = Only(a, S) \o Append(Only(s, S), x)
    <3> DEFINE before == Only(a, S)
               after == Only(s, S)
    <3>1. before \in Seq(T) /\ after \in Seq(T)
      BY <2>3
    <3> HIDE DEF before, after
    <3>a. Append(after, x) \in Seq(T) /\ before \o after \in Seq(T)
      BY <3>1
    <3>2. before \o Append(after, x) = Append(before \o after, x)
      BY <3>1, <3>a
    <3> QED  BY <3>2 DEF before, after
  <2>6. Only(a \o Append(s, x), S) = Only(a, S) \o Only(Append(s, x), S)
    BY <2>1, <2>2, <2>4, <2>5
  <2> QED  BY <2>1, <2>6
<1>3. P \in SUBSET Seq(T)
  OBVIOUS
<1>4. P = Seq(T)
  <2> HIDE DEF P
  <2> QED  BY <1>1, <1>2, <1>3, InductionOnSequences
<1> QED  BY <1>4

(* Only the elements of the sequence matter. *)
LEMMA OnlySame ==
  ASSUME NEW T, NEW seq \in Seq(T), NEW S, NEW R,
         \A i \in 1..Len(seq) : seq[i] \in S <=> seq[i] \in R
  PROVE  Only(seq, S) = Only(seq, R)
PROOF
<1> DEFINE f == Selected(seq, S)
           g == Selected(seq, R)
           n == Len(seq)
<1>1. IsSelection(f, seq, S, T) /\ IsSelection(g, seq, R, T)
  BY SelectedProperties
<1>2. n \in Nat /\ n \in 0..n
  OBVIOUS
<1>3. Only(seq, S) = f[n] /\ Only(seq, R) = g[n]
  BY DEF Only
<1>4. StepsAgree(f, g, n)
  <2> HIDE DEF f, g
  <2> QED  BY <1>1 DEF StepsAgree, IsSelection
<1> HIDE DEF f, g, n
<1>5. f[n] = g[n]
  BY <1>2, <1>4, CoursesAgree
<1> QED  BY <1>3, <1>5

LEMMA OnlyAll ==
  ASSUME NEW T, NEW seq \in Seq(T), NEW S, \A i \in 1..Len(seq) : seq[i] \in S
  PROVE  Only(seq, S) = seq
PROOF
<1> DEFINE P == {s \in Seq(T) : Only(s, T) = s}
<1>1. <<>> \in P
  BY OnlyEmpty
<1>2. ASSUME NEW s \in P, NEW x \in T
      PROVE  Append(s, x) \in P
  <2>1. s \in Seq(T) /\ Append(s, x) \in Seq(T) /\ Only(s, T) = s
    OBVIOUS
  <2>2. Only(Append(s, x), T) = Append(Only(s, T), x)
    BY <2>1, OnlyAppend
  <2> QED  BY <2>1, <2>2
<1>3. P \in SUBSET Seq(T)
  OBVIOUS
<1>4. P = Seq(T)
  <2> HIDE DEF P
  <2> QED  BY <1>1, <1>2, <1>3, InductionOnSequences
<1>5. Only(seq, T) = seq
  BY <1>4
<1>6. \A i \in 1..Len(seq) : seq[i] \in S <=> seq[i] \in T
  OBVIOUS
<1> QED  BY <1>5, <1>6, OnlySame

LEMMA OnlyNone ==
  ASSUME NEW T, NEW seq \in Seq(T), NEW S, \A i \in 1..Len(seq) : seq[i] \notin S
  PROVE  Only(seq, S) = <<>>
PROOF
<1>1. Only(seq, {}) \in Seq(T \cap {})
  BY OnlyType
<1>2. \A s \in Seq(T \cap {}) : s = <<>>
  OBVIOUS
<1>3. Only(seq, {}) = Only(seq, S)
  <2>1. \A i \in 1..Len(seq) : seq[i] \in {} <=> seq[i] \in S
    OBVIOUS
  <2> QED  BY <2>1, OnlySame
<1> QED  BY <1>1, <1>2, <1>3
=============================================================================
