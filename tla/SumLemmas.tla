----------------------------- MODULE SumLemmas ------------------------------
(***************************************************************************)
(* Facts about natural numbers and sums that the proofs about Fetcher and  *)
(* Playout share.  The library's induction and recursion theorems take an  *)
(* operator, which the provers cannot instantiate: here induction is over  *)
(* a set of numbers or the finite subsets of a set, and a sum is that of   *)
(* the values of a function.                                               *)
(***************************************************************************)
EXTENDS Integers, FiniteSets, Functions, FiniteSetTheorems, WellFoundedInduction, TLAPS

LEMMA LeastNumber ==
  ASSUME NEW T \in SUBSET Nat, T # {}
  PROVE  \E n \in T : \A m \in T : n <= m
<1>1. PICK n \in T : \A m \in T : <<m, n>> \notin OpToRel(<, Nat)
  BY Zenon, WFMin, NatLessThanWellFounded
<1>2. \A m \in T : m \in Nat /\ n \in Nat
  OBVIOUS
<1>3. \A m \in T : ~(m < n)
  BY Zenon, <1>1, <1>2 DEF OpToRel
<1>4. \A m \in T : n <= m
  BY <1>2, <1>3
<1> QED BY <1>4

\* Induction, for the set of the numbers that have a property.
LEMMA Inducts ==
  ASSUME NEW P, 0 \in P, \A n \in Nat : n \in P => n + 1 \in P
  PROVE  \A n \in Nat : n \in P
<1> SUFFICES ASSUME Nat \ P # {} PROVE FALSE
  OBVIOUS
<1>1. PICK n \in Nat \ P : \A m \in Nat \ P : n <= m
  BY LeastNumber
<1>2. n # 0 /\ n - 1 \in Nat /\ (n - 1) + 1 = n
  BY <1>1
<1>3. n - 1 \notin P
  BY <1>1, <1>2
<1> QED BY <1>1, <1>2, <1>3

\* A smallest one among some subsets of a finite set.
LEMMA LeastSubset ==
  ASSUME NEW S, IsFiniteSet(S), NEW W \in SUBSET SUBSET S, W # {}
  PROVE  \E T \in W : \A U \in W : ~(U \subseteq T /\ U # T)
<1>1. W \subseteq FiniteSubsetsOf(S)
  BY FS_Subset DEF FiniteSubsetsOf
<1>2. PICK T \in W : \A U \in W : <<U, T>> \notin StrictSubsetOrdering(S)
  BY <1>1, WFMin, FS_StrictSubsetOrderingWellFounded, Zenon
<1>3. \A U \in W : ~(U \subseteq T /\ U # T)
  BY <1>2 DEF StrictSubsetOrdering
<1> QED BY <1>3

-----------------------------------------------------------------------------
(* The function that MapThenFoldSet defines for a sum.                     *)

Some(s) == CHOOSE x \in s : TRUE

\* iter adds up the values of F over the subsets of S.
Adds(iter, F, S) ==
  iter = [s \in SUBSET S |-> IF s = {} THEN 0 ELSE F[Some(s)] + iter[s \ {Some(s)}]]

LEMMA SomeIsIn == \A s : s # {} => Some(s) \in s
BY DEF Some

LEMMA AddsOf ==
  ASSUME NEW S, NEW F, NEW iter, Adds(iter, F, S)
  PROVE  /\ iter[{}] = 0
         /\ \A s \in SUBSET S : s # {} =>
              /\ iter[s] = F[Some(s)] + iter[s \ {Some(s)}]
              /\ s \ {Some(s)} \in SUBSET S /\ s \ {Some(s)} # s
              /\ Some(s) \in S
BY SomeIsIn DEF Adds

\* Such functions agree wherever both are defined.
LEMMA AddsUnique ==
  ASSUME NEW S, IsFiniteSet(S), NEW R, NEW F, NEW iter, NEW other,
         Adds(iter, F, S), Adds(other, F, R), NEW T \in SUBSET (S \cap R)
  PROVE  iter[T] = other[T]
<1> DEFINE W == {s \in SUBSET (S \cap R) : iter[s] # other[s]}
<1> SUFFICES ASSUME W # {} PROVE FALSE
  OBVIOUS
<1>1. PICK s \in W : \A u \in W : ~(u \subseteq s /\ u # s)
  <2>1. W \in SUBSET SUBSET S
    OBVIOUS
  <2> HIDE DEF W
  <2> QED BY <2>1, LeastSubset
<1>2. s # {}
  BY AddsOf
<1>3. s \ {Some(s)} \in SUBSET (S \cap R) /\ s \ {Some(s)} # s
  BY <1>2, SomeIsIn
<1>4. iter[s \ {Some(s)}] = other[s \ {Some(s)}]
  BY <1>1, <1>3
<1> QED BY <1>1, <1>2, <1>4, AddsOf

LEMMA AddsExists ==
  ASSUME NEW S, IsFiniteSet(S), NEW F
  PROVE  \E iter : Adds(iter, F, S)
<1> DEFINE W == {s \in SUBSET S : ~\E iter : Adds(iter, F, s)}
<1> SUFFICES ASSUME W # {} PROVE FALSE
  OBVIOUS
<1>1. PICK T \in W : \A u \in W : ~(u \subseteq T /\ u # T)
  <2>1. W \in SUBSET SUBSET S
    OBVIOUS
  <2> HIDE DEF W
  <2> QED BY <2>1, LeastSubset
<1> DEFINE Of(u) == CHOOSE iter : Adds(iter, F, u)
           H == [s \in SUBSET T |-> IF s = {} THEN 0
                   ELSE F[Some(s)] + Of(s \ {Some(s)})[s \ {Some(s)}]]
<1>2. \A u \in SUBSET T : u # T => Adds(Of(u), F, u) /\ IsFiniteSet(u)
  <2> SUFFICES ASSUME NEW u \in SUBSET T, u # T PROVE Adds(Of(u), F, u) /\ IsFiniteSet(u)
    OBVIOUS
  <2>1. u \in SUBSET S /\ u \notin W
    BY <1>1
  <2>2. \E iter : Adds(iter, F, u)
    BY <2>1
  <2>3. Adds(Of(u), F, u)
    BY <2>2, Zenon
  <2> QED BY <2>1, <2>3, FS_Subset
<1> HIDE DEF Of
<1>3. ASSUME NEW s \in SUBSET T, s # {}
      PROVE  H[s \ {Some(s)}] = Of(s \ {Some(s)})[s \ {Some(s)}]
  <2> DEFINE u == s \ {Some(s)}
  <2>1. u \in SUBSET T /\ u # T
    BY <1>3, SomeIsIn
  <2>2. Adds(Of(u), F, u)
    BY <1>2, <2>1
  <2>3. CASE u = {}
    <3>1. Of(u)[u] = 0
      <4> HIDE DEF H, u
      <4> QED BY <2>2, <2>3, AddsOf
    <3>2. H[u] = 0
      BY <2>1, <2>3
    <3> QED BY <3>1, <3>2
  <2>4. CASE u # {}
    <3> DEFINE v == u \ {Some(u)}
    <3>1. v \in SUBSET T /\ v # T /\ v \in SUBSET u
      BY <2>1
    <3>2. Of(u)[u] = F[Some(u)] + Of(u)[v]
      <4> HIDE DEF H, u
      <4> QED BY <2>2, <2>4, AddsOf
    <3>3. Of(u)[v] = Of(v)[v]
      BY <1>2, <2>1, <2>2, <3>1, AddsUnique
    <3>4. H[u] = F[Some(u)] + Of(v)[v]
      BY <2>1, <2>4
    <3> QED BY <3>2, <3>3, <3>4
  <2> QED BY <2>3, <2>4
<1>4. Adds(H, F, T)
  BY <1>3 DEF Adds
<1> QED BY <1>1, <1>4

-----------------------------------------------------------------------------
(* Sums.                                                                   *)

\* Whatever adds up F over S knows its sum.
LEMMA SumIs ==
  ASSUME NEW S, IsFiniteSet(S), NEW R, NEW F, S \subseteq R, NEW iter, Adds(iter, F, R)
  PROVE  SumFunctionOnSet(F, S) = iter[S]
<1> DEFINE it == CHOOSE f : Adds(f, F, S)
<1>1. SumFunctionOnSet(F, S) = it[S]
  BY Zenon DEF SumFunctionOnSet, FoldFunctionOnSet, MapThenFoldSet, Adds, Some
<1>2. Adds(it, F, S)
  BY AddsExists, Zenon
<1> HIDE DEF it
<1>3. it[S] = iter[S]
  BY <1>2, AddsUnique
<1> QED BY <1>1, <1>3

LEMMA SumEmpty == ASSUME NEW F PROVE SumFunctionOnSet(F, {}) = 0
<1>1. IsFiniteSet({})
  BY FS_EmptySet
<1>2. PICK iter : Adds(iter, F, {})
  BY <1>1, AddsExists
<1>3. iter[{}] = 0
  BY <1>2, AddsOf
<1> QED BY <1>1, <1>2, <1>3, SumIs

LEMMA SumSome ==
  ASSUME NEW S, IsFiniteSet(S), S # {}, NEW F
  PROVE  SumFunctionOnSet(F, S) = F[Some(S)] + SumFunctionOnSet(F, S \ {Some(S)})
<1>1. PICK iter : Adds(iter, F, S)
  BY AddsExists
<1>2. iter[S] = F[Some(S)] + iter[S \ {Some(S)}]
  BY <1>1, AddsOf
<1>3. IsFiniteSet(S \ {Some(S)})
  BY FS_Subset
<1> QED BY <1>1, <1>2, <1>3, SumIs

\* Sums of integers are integers, those of natural numbers natural.
LEMMA SumType ==
  ASSUME NEW S, IsFiniteSet(S), NEW F, NEW Num \in {Int, Nat}, \A x \in S : F[x] \in Num
  PROVE  SumFunctionOnSet(F, S) \in Num
<1> DEFINE W == {T \in SUBSET S : SumFunctionOnSet(F, T) \notin Num}
<1> SUFFICES ASSUME W # {} PROVE FALSE
  OBVIOUS
<1>1. PICK T \in W : \A U \in W : ~(U \subseteq T /\ U # T)
  <2>1. W \in SUBSET SUBSET S
    OBVIOUS
  <2> HIDE DEF W
  <2> QED BY <2>1, LeastSubset
<1>2. T \in SUBSET S /\ IsFiniteSet(T) /\ T # {}
  <2>1. 0 \in Num
    OBVIOUS
  <2>2. SumFunctionOnSet(F, {}) = 0
    BY SumEmpty
  <2> QED BY <2>1, <2>2, FS_Subset
<1>3. Some(T) \in T
  BY <1>2, SomeIsIn
<1>4. SumFunctionOnSet(F, T \ {Some(T)}) \in Num
  BY <1>1, <1>2, <1>3
<1>5. SumFunctionOnSet(F, T) = F[Some(T)] + SumFunctionOnSet(F, T \ {Some(T)})
  BY <1>2, SumSome
<1>6. \A m, n \in Num : m + n \in Num
  OBVIOUS
<1> QED BY <1>2, <1>3, <1>4, <1>5, <1>6

\* Any element can be taken out first.
LEMMA SumTakeOut ==
  ASSUME NEW S, IsFiniteSet(S), NEW F, \A x \in S : F[x] \in Int, NEW a \in S
  PROVE  SumFunctionOnSet(F, S) = F[a] + SumFunctionOnSet(F, S \ {a})
<1> DEFINE Sums(T) == SumFunctionOnSet(F, T)
           W == {T \in SUBSET S : \E x \in T : Sums(T) # F[x] + Sums(T \ {x})}
<1> SUFFICES ASSUME W # {} PROVE FALSE
  OBVIOUS
<1>1. PICK T \in W : \A U \in W : ~(U \subseteq T /\ U # T)
  <2>1. W \in SUBSET SUBSET S
    OBVIOUS
  <2> HIDE DEF W
  <2> QED BY <2>1, LeastSubset
<1>2. PICK x \in T : Sums(T) # F[x] + Sums(T \ {x})
  OBVIOUS
<1> DEFINE y == Some(T)
<1>3. \A U \in SUBSET S : IsFiniteSet(U) /\ Sums(U) \in Int
  BY FS_Subset, SumType
<1>4. T \in SUBSET S /\ T # {} /\ y \in T /\ F[x] \in Int /\ F[y] \in Int
  BY SomeIsIn
<1>5. Sums(T) = F[y] + Sums(T \ {y})
  BY <1>3, <1>4, SumSome
<1> HIDE DEF y
<1>6. x # y
  BY <1>2, <1>5
<1>0. \A U \in SUBSET T : U # T => \A z \in U : Sums(U) = F[z] + Sums(U \ {z})
  BY <1>1, <1>4
<1> HIDE DEF Sums
<1>7. Sums(T \ {y}) = F[x] + Sums((T \ {y}) \ {x})
  BY <1>0, <1>4, <1>6
<1>8. Sums(T \ {x}) = F[y] + Sums((T \ {x}) \ {y})
  BY <1>0, <1>4, <1>6
<1>9. (T \ {x}) \ {y} = (T \ {y}) \ {x} /\ (T \ {y}) \ {x} \in SUBSET S
  BY <1>4
<1>10. Sums((T \ {y}) \ {x}) \in Int
  BY <1>3, <1>9
<1>11. F[y] + (F[x] + Sums((T \ {y}) \ {x})) = F[x] + (F[y] + Sums((T \ {y}) \ {x}))
  BY <1>4, <1>10
<1> QED BY <1>2, <1>5, <1>7, <1>8, <1>9, <1>11

LEMMA SumAdd ==
  ASSUME NEW S, IsFiniteSet(S), NEW a, a \notin S, NEW F, \A x \in S \cup {a} : F[x] \in Int
  PROVE  SumFunctionOnSet(F, S \cup {a}) = F[a] + SumFunctionOnSet(F, S)
<1>1. (S \cup {a}) \ {a} = S
  OBVIOUS
<1>2. IsFiniteSet(S \cup {a})
  BY FS_AddElement
<1> QED BY <1>1, <1>2, SumTakeOut

\* A sum depends only on the values it adds.
LEMMA SumSame ==
  ASSUME NEW S, IsFiniteSet(S), NEW F, NEW G, \A x \in S : F[x] = G[x]
  PROVE  SumFunctionOnSet(F, S) = SumFunctionOnSet(G, S)
<1>1. PICK iter : Adds(iter, F, S)
  BY AddsExists
<1>2. Adds(iter, G, S)
  BY <1>1, SomeIsIn DEF Adds
<1> QED BY <1>1, <1>2, SumIs

\* A sum of smaller values is smaller.
LEMMA SumAtMost ==
  ASSUME NEW S, IsFiniteSet(S), NEW F, NEW G,
         \A x \in S : F[x] \in Int /\ G[x] \in Int /\ F[x] <= G[x]
  PROVE  SumFunctionOnSet(F, S) <= SumFunctionOnSet(G, S)
<1> DEFINE Sums(H, T) == SumFunctionOnSet(H, T)
           W == {T \in SUBSET S : ~(Sums(F, T) <= Sums(G, T))}
<1> SUFFICES ASSUME W # {} PROVE FALSE
  OBVIOUS
<1>1. PICK T \in W : \A U \in W : ~(U \subseteq T /\ U # T)
  <2>1. W \in SUBSET SUBSET S
    OBVIOUS
  <2> HIDE DEF W
  <2> QED BY <2>1, LeastSubset
<1>2. T \in SUBSET S /\ IsFiniteSet(T) /\ T # {}
  <2>1. SumFunctionOnSet(F, {}) = 0 /\ SumFunctionOnSet(G, {}) = 0
    BY SumEmpty
  <2>2. {} \notin W
    BY <2>1
  <2>3. T # {}
    BY <2>2
  <2>4. T \in SUBSET S
    OBVIOUS
  <2> QED BY <2>3, <2>4, FS_Subset
<1> DEFINE y == Some(T)
<1>3. y \in T /\ F[y] \in Int /\ G[y] \in Int /\ F[y] <= G[y]
  BY <1>2, SomeIsIn
<1>4. Sums(F, T) = F[y] + Sums(F, T \ {y}) /\ Sums(G, T) = G[y] + Sums(G, T \ {y})
  BY <1>2, SumSome
<1> HIDE DEF y
<1>5. T \ {y} \in SUBSET S /\ T \ {y} # T
  BY <1>2, <1>3
<1>6. Sums(F, T \ {y}) <= Sums(G, T \ {y})
  BY <1>1, <1>5
<1>7. Sums(F, T \ {y}) \in Int /\ Sums(G, T \ {y}) \in Int
  BY <1>5, FS_Subset, SumType
<1> HIDE DEF Sums
<1>8. Sums(F, T) <= Sums(G, T)
  BY <1>3, <1>4, <1>6, <1>7
<1> QED BY <1>8

\* A sum over the numbers 1 to n + 1.
LEMMA SumUpTo ==
  ASSUME NEW F, NEW n \in Nat, \A i \in 1..(n + 1) : F[i] \in Int
  PROVE  SumFunctionOnSet(F, 1..(n + 1)) = F[n + 1] + SumFunctionOnSet(F, 1..n)
<1>1. 1..(n + 1) = (1..n) \cup {n + 1} /\ n + 1 \notin 1..n
  OBVIOUS
<1>2. IsFiniteSet(1..n)
  BY FS_Interval
<1> DEFINE S == 1..n
<1>3. IsFiniteSet(S) /\ n + 1 \notin S /\ \A i \in S \cup {n + 1} : F[i] \in Int
  BY <1>1, <1>2
<1> HIDE DEF S
<1>4. SumFunctionOnSet(F, S \cup {n + 1}) = F[n + 1] + SumFunctionOnSet(F, S)
  BY <1>3, SumAdd
<1> QED BY Zenon, <1>1, <1>4 DEF S

\* A sum that adds the element last.
LEMMA SumLast ==
  ASSUME NEW S, IsFiniteSet(S), NEW F, \A x \in S : F[x] \in Int
  PROVE  LET adds(iter) == iter = [s \in SUBSET S |->
                IF s = {} THEN 0 ELSE iter[s \ {Some(s)}] + F[Some(s)]]
         IN  (CHOOSE iter : adds(iter))[S] = SumFunctionOnSet(F, S)
<1> DEFINE adds(iter) == iter = [s \in SUBSET S |->
             IF s = {} THEN 0 ELSE iter[s \ {Some(s)}] + F[Some(s)]]
           sums == [s \in SUBSET S |-> SumFunctionOnSet(F, s)]
<1>1. ASSUME NEW s \in SUBSET S
      PROVE  /\ sums[s] \in Int
             /\ s = {} => sums[s] = 0
             /\ s # {} => Some(s) \in s /\ sums[s] = sums[s \ {Some(s)}] + F[Some(s)]
  <2>1. IsFiniteSet(s)
    BY FS_Subset
  <2>2. sums[s] \in Int
    BY <2>1, SumType
  <2>3. s = {} => sums[s] = 0
    BY SumEmpty
  <2>4. ASSUME s # {}
        PROVE  Some(s) \in s /\ sums[s] = sums[s \ {Some(s)}] + F[Some(s)]
    <3>1. Some(s) \in s /\ s \ {Some(s)} \in SUBSET S /\ F[Some(s)] \in Int
      BY <2>4, SomeIsIn
    <3>2. IsFiniteSet(s \ {Some(s)})
      BY <2>1, FS_Subset
    <3>3. sums[s \ {Some(s)}] \in Int
      BY <3>1, <3>2, SumType
    <3>4. sums[s] = F[Some(s)] + sums[s \ {Some(s)}]
      BY <2>1, <2>4, <3>1, SumSome
    <3> QED BY <3>1, <3>3, <3>4
  <2> QED BY <2>2, <2>3, <2>4
<1>2. adds(sums)
  BY <1>1
<1>3. ASSUME NEW iter, adds(iter)
      PROVE  iter[S] = sums[S]
  <2> DEFINE W == {s \in SUBSET S : iter[s] # sums[s]}
  <2> SUFFICES ASSUME W # {} PROVE FALSE
    OBVIOUS
  <2>1. PICK s \in W : \A u \in W : ~(u \subseteq s /\ u # s)
    <3>1. W \in SUBSET SUBSET S
      OBVIOUS
    <3> HIDE DEF W
    <3> QED BY <3>1, LeastSubset
  <2>2. s # {}
    <3>1. iter[{}] = 0
      BY <1>3
    <3> QED BY <1>1, <3>1
  <2>3. Some(s) \in s /\ s \ {Some(s)} \in SUBSET S /\ s \ {Some(s)} # s
    BY <1>1, <2>2
  <2>4. iter[s \ {Some(s)}] = sums[s \ {Some(s)}]
    BY <2>1, <2>3
  <2>5. iter[s] = iter[s \ {Some(s)}] + F[Some(s)]
    BY <1>3, <2>2
  <2> QED BY <1>1, <2>1, <2>2, <2>4, <2>5
<1> HIDE DEF adds
<1>4. adds(CHOOSE iter : adds(iter))
  BY <1>2, Zenon
<1>5. (CHOOSE iter : adds(iter))[S] = sums[S]
  BY <1>3, <1>4
<1>6. sums[S] = SumFunctionOnSet(F, S)
  OBVIOUS
<1> QED BY <1>5, <1>6 DEF adds
=============================================================================
